------------------------------ MODULE Histogram ------------------------------
(***************************************************************************)
(* smf::histogram (src/src/core/histogram.cc): a wrapper of an             *)
(* hdr_histogram that also counts and sums the samples, and its export to  *)
(* the metrics of seastar.  The hdr library is external: a histogram       *)
(* counts the samples it accepted, to three significant figures, and its   *)
(* logarithmic iteration is modelled by the levels it reports.             *)
(***************************************************************************)
EXTENDS Naturals, FiniteSets, FiniteSetsExt

CONSTANTS
  Sample,      \* the durations that are measured
  Lowest,      \* lowest_equivalent_value: what a duration is counted as
  MaxValue,    \* the largest value the hdr_histogram tracks
  FirstValue,  \* first_value: the upper bound of the first bucket
  LogBase,     \* log_base
  NumBuckets   \* num_buckets

\* log_base multiplied k times, what value_iterated_to grows by in k buckets.
Pow[k \in 0..NumBuckets] == IF k = 0 THEN 1 ELSE LogBase * Pow[k - 1]

\* The last bucket lies within what the hdr_histogram tracks: 26 buckets that double
\* from 10 microseconds on end at 10 * 2^25 microseconds, some 335 seconds (the
\* comment in the code says 6000), less than kDefaultHistogramMaxValue, one hour.
ASSUME HistogramAssumption ==
  /\ Sample \subseteq Nat /\ IsFiniteSet(Sample)
  /\ Lowest \in [Sample -> Nat] /\ \A v \in Sample : Lowest[v] <= v
  /\ FirstValue \in Nat \ {0} /\ LogBase \in Nat \ {0, 1} /\ NumBuckets \in Nat \ {0}
  /\ MaxValue \in Nat /\ FirstValue * Pow[NumBuckets - 1] <= MaxValue

\* The values the hdr_histogram tells apart.
Class == {Lowest[v] : v \in Sample}

\* hist_t: hist, sample_count and sample_sum.
Hist == [counts : [Class -> Nat], sample_count : Nat, sample_sum : Nat]

MakeHistogram ==
  [counts |-> [k \in Class |-> 0], sample_count |-> 0, sample_sum |-> 0]

Total(counts) == MapThenSumSet(LAMBDA v : counts[v], DOMAIN counts)

-----------------------------------------------------------------------------
(* The hdr library.                                                        *)

\* hdr_record_value: a value out of range is refused, and nobody looks.
HdrRecordValue(counts, v) ==
  IF v <= MaxValue THEN [counts EXCEPT ![Lowest[v]] = @ + 1] ELSE counts

HdrAdd(counts, more) == [k \in Class |-> counts[k] + more[k]]

\* The k-th level of the logarithmic iteration and what is counted up to a bound:
\* a sample above it that is counted as one up to it is among them.
HdrLevel(k) == FirstValue * Pow[k - 1]
HdrCumulative(counts, bound) ==
  Total([k \in {l \in Class : l <= bound} |-> counts[k]])

\* How many of the first NumBuckets levels hdr_iter_next reports: none of an
\* empty histogram, else up to the first one that covers the largest sample.
HdrLevels(counts) ==
  Cardinality({k \in 1..NumBuckets :
    Total(counts) > IF k = 1 THEN 0 ELSE HdrCumulative(counts, HdrLevel(k - 1))})

-----------------------------------------------------------------------------
(* smf::histogram.                                                         *)

\* record(v), what ~histogram_measure calls with the time since auto_measure().
Record(h, v) ==
  [counts |-> HdrRecordValue(h.counts, v),
   sample_count |-> h.sample_count + 1,
   sample_sum |-> h.sample_sum + v]

\* operator+=: the hdr histograms are added; count and sum stay as they are.
Plus(h, o) == [h EXCEPT !.counts = HdrAdd(@, o.counts)]

\* Mutant: the padding starts at the last bound the iteration reported.
LogformPadsLastBound(h) ==
  LET filled == HdrLevels(h.counts)
      seen == IF filled = 0 THEN 0 ELSE HdrCumulative(h.counts, HdrLevel(filled))
      pad == IF filled = 0 THEN FirstValue ELSE HdrLevel(filled)
  IN  [sample_count |-> h.sample_count,
       sample_sum |-> h.sample_sum,
       buckets |-> [i \in 1..NumBuckets |->
         IF i <= filled
         THEN [count |-> HdrCumulative(h.counts, HdrLevel(i)), upper_bound |-> HdrLevel(i)]
         ELSE [count |-> seen, upper_bound |-> pad * Pow[i - filled - 1]]]]

\* seastar_histogram_logform(): the levels the iteration reports fill the first
\* buckets; the others repeat its count, from the bound that follows.
SeastarHistogramLogform(h) ==
  LET filled == HdrLevels(h.counts)
      seen == IF filled = 0 THEN 0 ELSE HdrCumulative(h.counts, HdrLevel(filled))
      pad == IF filled = 0 THEN FirstValue ELSE HdrLevel(filled) * LogBase
  IN  [sample_count |-> h.sample_count,
       sample_sum |-> h.sample_sum,
       buckets |-> [i \in 1..NumBuckets |->
         IF i <= filled
         THEN [count |-> HdrCumulative(h.counts, HdrLevel(i)), upper_bound |-> HdrLevel(i)]
         ELSE [count |-> seen, upper_bound |-> pad * Pow[i - filled - 1]]]]

\* What prometheus expects of an exported histogram: every bound a LogBase
\* multiple of the one before it, and in every bucket the samples that are counted up
\* to it.
Exported(h) ==
  [i \in 1..NumBuckets |->
    [count |-> Total([k \in {l \in Class : l <= FirstValue * Pow[i - 1]} |-> h.counts[k]]),
     upper_bound |-> FirstValue * Pow[i - 1]]]
=============================================================================
