------------------------- MODULE LoadGeneratorProofs -------------------------
(***************************************************************************)
(* The load generator, the histograms and the runner of the tests, for     *)
(* every number of cores, channels, requests and samples:                  *)
(*  - the export of a histogram to seastar has the bounds and cumulative   *)
(*    counts prometheus expects;                                           *)
(*  - benchmark() waits for its fibers: the units of its semaphore and the *)
(*    fibers that run add up to `concurrency', so when all units are there *)
(*    no fiber is left;                                                    *)
(*  - the file of the clients counts the calls of all channels;            *)
(*  - a test that passes was run as often as its test.json says.           *)
(***************************************************************************)
EXTENDS TestRunner, SumTheorems, TLAPS

USE SMTT(5), ZenonT(10), SMTT(20), ZenonT(30)

-----------------------------------------------------------------------------
(* The bounds of the exported buckets.                                     *)

\* The bounds, in the order hdr_iter_next reports them.
Bounds == [k \in 1 .. NumBuckets |-> HdrLevel(k)]

\* Each bucket's factor is LogBase times the one before.
LEMMA PowIs ==
  NumBuckets \in Nat /\ LogBase \in Nat \ {0} /\ Powers(Pow, LogBase, NumBuckets)
<1>1. NumBuckets \in Nat /\ LogBase \in Nat \ {0}
  BY HistogramAssumption
<1>2. \E p : Powers(p, LogBase, NumBuckets)
  BY <1>1, PowersExist, Zenon
<1>. QED BY <1>1, <1>2, Zenon DEF Pow, Powers

\* The bounds grow.
LEMMA BoundsGrow ==
  /\ Bounds \in [1 .. NumBuckets -> Nat]
  /\ \A i, j \in 1 .. NumBuckets : i <= j => Bounds[i] <= Bounds[j]
<1>0. NumBuckets \in Nat /\ FirstValue \in Nat \ {0} /\ LogBase \in Nat \ {0}
  BY HistogramAssumption
<1>1. \A k \in 0 .. NumBuckets : Pow[k] \in Nat \ {0}
  BY PowIs, PowersAre, Zenon
<1>2. \A k \in 1 .. NumBuckets : Bounds[k] = FirstValue * Pow[k - 1]
  BY Zenon DEF Bounds, HdrLevel
<1>3. \A k \in 1 .. NumBuckets : k - 1 \in 0 .. NumBuckets
  BY <1>0
<1>4. Bounds \in [1 .. NumBuckets -> Nat]
  BY <1>0, <1>1, <1>3 DEF Bounds, HdrLevel
<1>5. ASSUME NEW i \in 1 .. NumBuckets, NEW j \in 1 .. NumBuckets, i <= j
      PROVE  Bounds[i] <= Bounds[j]
  <2>1. (i - 1) + (j - i) = j - 1 /\ i - 1 \in Nat /\ j - i \in Nat /\ j - i \in 0 .. NumBuckets
        /\ (i - 1) + (j - i) <= NumBuckets
    BY <1>0, <1>5
  <2>2. Pow[j - 1] = Pow[i - 1] * Pow[j - i]
    BY <2>1, PowIs, PowersAdd
  <2> DEFINE x == Pow[i - 1]
             y == Pow[j - 1]
  <2>3. x \in Nat \ {0} /\ y \in Nat \ {0} /\ x <= y
    BY <1>1, <1>3, <2>1, <2>2, Product
  <2>. HIDE DEF x, y
  <2>4. FirstValue * x <= FirstValue * y
    BY <1>0, <2>3
  <2>. QED BY <1>2, <2>4, Zenon DEF x, y
<1>. QED BY <1>4, <1>5, Zenon

\* The values that are told apart are finitely many numbers.
LEMMA ClassIs ==
  /\ Class \in SUBSET Nat /\ IsFiniteSet(Class) /\ Sample \in SUBSET Nat /\ IsFiniteSet(Sample)
  /\ \A v \in Sample : Lowest[v] \in Class
<1>1. Lowest \in [Sample -> Nat] /\ IsFiniteSet(Sample) /\ Sample \in SUBSET Nat
  BY HistogramAssumption
<1>2. Lowest \in Surjection(Sample, Class)
  BY <1>1 DEF Surjection, Class
<1>3. IsFiniteSet(Class)
  BY <1>1, <1>2, FS_Surjection, Zenon
<1>. QED BY <1>1, <1>3 DEF Class

\* What is counted up to a bound is a running total.
LEMMA CountsAsSums ==
  ASSUME NEW counts \in [Class -> Nat]
  PROVE  /\ Total(counts) = SumOver(counts, Class) /\ Total(counts) \in Nat
         /\ \A b : /\ HdrCumulative(counts, b) = SumOver(counts, UpTo(Class, b))
                   /\ HdrCumulative(counts, b) \in Nat
                   /\ HdrCumulative(counts, b) <= Total(counts)
<1>0. IsFiniteSet(Class) /\ \A v \in Class : counts[v] \in Nat
  BY ClassIs
<1>1. DOMAIN counts = Class
  OBVIOUS
<1>2. Total(counts) = SumOver(counts, Class)
  BY <1>1, Zenon DEF Total, SumOver
<1>3. ASSUME NEW b PROVE HdrCumulative(counts, b) = SumOver(counts, UpTo(Class, b))
  <2> DEFINE U == UpTo(Class, b)
             some == [v \in U |-> counts[v]]
  <2>1. U \in SUBSET Class /\ IsFiniteSet(U)
    BY <1>0, RunningType, Zenon
  <2>2. HdrCumulative(counts, b) = Total(some)
    BY Zenon DEF HdrCumulative, UpTo
  <2>. HIDE DEF U
  <2>3. \A v \in U : counts[v] \in Nat /\ some[v] = counts[v]
    BY <1>0, <2>1
  <2>4. DOMAIN some = U
    OBVIOUS
  <2>. HIDE DEF some
  <2>5. Total(some) = SumOver(some, U)
    BY <2>4, Zenon DEF Total, SumOver
  <2>6. SumOver(some, U) = SumOver(counts, U)
    BY <2>1, <2>3, SumSame, Zenon
  <2>. QED BY <2>2, <2>5, <2>6, Zenon DEF U
<1>4. \A b : /\ SumOver(counts, UpTo(Class, b)) \in Nat /\ SumOver(counts, Class) \in Nat
            /\ SumOver(counts, UpTo(Class, b)) <= SumOver(counts, Class)
  BY <1>0, RunningType
<1>. QED BY <1>2, <1>3, <1>4, Zenon

\* hdr_iter_next reports the levels one after the other until all samples are
\* covered; the others have as many samples as the last.
LEMMA LevelsReported ==
  ASSUME NEW counts \in [Class -> Nat]
  PROVE  LET filled == HdrLevels(counts)
         IN  /\ filled \in 0 .. NumBuckets
             /\ \A i \in 1 .. NumBuckets :
                  i > filled => HdrCumulative(counts, HdrLevel(i))
                                = IF filled = 0 THEN 0 ELSE HdrCumulative(counts, HdrLevel(filled))
<1> DEFINE D == Begun(counts, Class, Bounds, NumBuckets)
           m == Cardinality(D)
           C(i) == SumOver(counts, UpTo(Class, Bounds[i]))
<1>0. /\ NumBuckets \in Nat /\ Class \in SUBSET Nat /\ IsFiniteSet(Class)
      /\ \A v \in Class : counts[v] \in Nat
  BY HistogramAssumption, ClassIs
<1>1. \A k \in 1 .. NumBuckets : HdrCumulative(counts, HdrLevel(k)) = C(k)
  BY CountsAsSums, Zenon DEF Bounds
<1>2. \A k \in 1 .. NumBuckets : k # 1 => k - 1 \in 1 .. NumBuckets
  BY <1>0
<1>3. HdrLevels(counts) = m
  <2> DEFINE E == {k \in 1 .. NumBuckets :
                     Total(counts) > IF k = 1 THEN 0 ELSE HdrCumulative(counts, HdrLevel(k - 1))}
  <2>1. HdrLevels(counts) = Cardinality(E)
    BY Zenon DEF HdrLevels
  <2>2. \A k \in 1 .. NumBuckets :
          (IF k = 1 THEN 0 ELSE HdrCumulative(counts, HdrLevel(k - 1)))
          = IF k = 1 THEN 0 ELSE C(k - 1)
    BY <1>1, <1>2, Zenon
  <2>3. Total(counts) = SumOver(counts, Class)
    BY CountsAsSums, Zenon
  <2>4. \A k \in 1 .. NumBuckets :
          (Total(counts) > IF k = 1 THEN 0 ELSE HdrCumulative(counts, HdrLevel(k - 1)))
          <=> (SumOver(counts, Class) > IF k = 1 THEN 0 ELSE C(k - 1))
    BY <2>2, <2>3, Zenon
  <2>5. E = D
    BY <2>4, Zenon DEF Begun
  <2>. QED BY <2>1, <2>5, Zenon
<1>4. m \in 0 .. NumBuckets
      /\ \A i \in 1 .. NumBuckets : i > m => C(i) = IF m = 0 THEN 0 ELSE C(m)
  BY <1>0, BoundsGrow, BegunFirst
<1>. HIDE DEF m, C
<1>5. m # 0 => m \in 1 .. NumBuckets
  BY <1>0, <1>4
<1>. QED BY <1>1, <1>3, <1>4, <1>5, Zenon

\* The bounds of the padded buckets go on where the iteration stopped.
LEMMA PaddingFits ==
  ASSUME NEW filled \in 0 .. NumBuckets, NEW i \in 1 .. NumBuckets, i > filled
  PROVE  (IF filled = 0 THEN FirstValue ELSE HdrLevel(filled) * LogBase) * Pow[i - filled - 1]
         = HdrLevel(i)
<1>0. NumBuckets \in Nat /\ FirstValue \in Nat /\ LogBase \in Nat
  BY HistogramAssumption
<1>1. CASE filled = 0
  <2>1. i - filled - 1 = i - 1
    BY <1>1
  <2>. QED BY <1>1, <2>1 DEF HdrLevel
<1>2. CASE filled # 0
  <2>1. /\ filled \in 1 .. NumBuckets /\ filled \in Nat /\ i - filled - 1 \in Nat
        /\ filled - 1 \in 0 .. NumBuckets /\ i - filled - 1 \in 0 .. NumBuckets
        /\ filled + (i - filled - 1) = i - 1 /\ filled + (i - filled - 1) <= NumBuckets
    BY <1>0, <1>2
  <2>2. Pow[i - 1] = Pow[filled] * Pow[i - filled - 1]
    BY <2>1, PowIs, PowersAdd
  <2>3. /\ Pow[filled] = LogBase * Pow[filled - 1]
        /\ Pow[filled - 1] \in Nat /\ Pow[i - filled - 1] \in Nat
    BY <2>1, PowIs, PowersAre
  <2>4. \A x, y \in Nat : ((FirstValue * x) * LogBase) * y = FirstValue * ((LogBase * x) * y)
    BY <1>0
  <2>5. HdrLevel(i) = FirstValue * ((LogBase * Pow[filled - 1]) * Pow[i - filled - 1])
    BY <2>2, <2>3, Zenon DEF HdrLevel
  <2>6. ((FirstValue * Pow[filled - 1]) * LogBase) * Pow[i - filled - 1]
        = FirstValue * ((LogBase * Pow[filled - 1]) * Pow[i - filled - 1])
    BY <2>3, <2>4, Zenon
  <2>. QED BY <1>2, <2>5, <2>6, Zenon DEF HdrLevel
<1>. QED BY <1>1, <1>2

\* seastar_histogram_logform() exports every histogram with the bounds and the
\* cumulative counts prometheus expects, whatever samples it holds.
THEOREM LogformExports ==
  ASSUME NEW h \in Hist
  PROVE  SeastarHistogramLogform(h).buckets = Exported(h)
<1> DEFINE filled == HdrLevels(h.counts)
           seen == IF filled = 0 THEN 0 ELSE HdrCumulative(h.counts, HdrLevel(filled))
           pad == IF filled = 0 THEN FirstValue ELSE HdrLevel(filled) * LogBase
           b(i) == IF i <= filled
                   THEN [count |-> HdrCumulative(h.counts, HdrLevel(i)), upper_bound |-> HdrLevel(i)]
                   ELSE [count |-> seen, upper_bound |-> pad * Pow[i - filled - 1]]
           e(i) == [count |-> HdrCumulative(h.counts, HdrLevel(i)), upper_bound |-> HdrLevel(i)]
<1>1. /\ filled \in 0 .. NumBuckets
      /\ \A i \in 1 .. NumBuckets : i > filled => HdrCumulative(h.counts, HdrLevel(i)) = seen
  <2>1. h.counts \in [Class -> Nat]
    BY DEF Hist
  <2>. QED BY <2>1, LevelsReported, Zenon
<1>2. SeastarHistogramLogform(h).buckets = [i \in 1 .. NumBuckets |-> b(i)]
  BY DEF SeastarHistogramLogform
<1>3. Exported(h) = [i \in 1 .. NumBuckets |-> e(i)]
  BY Zenon DEF Exported, HdrCumulative, HdrLevel
<1>4. \A i \in 1 .. NumBuckets : ~(i <= filled) => i > filled
  BY <1>1, HistogramAssumption
<1>5. \A i \in 1 .. NumBuckets : i > filled => pad * Pow[i - filled - 1] = HdrLevel(i)
  BY <1>1, PaddingFits, Zenon
<1>6. \A i \in 1 .. NumBuckets : b(i) = e(i)
  BY <1>1, <1>4, <1>5, Zenon
<1>. HIDE DEF b, e
<1>. QED BY <1>2, <1>3, <1>6, Zenon

-----------------------------------------------------------------------------
(* Adding histograms.                                                      *)

\* The histograms of R added up, as copy_histogram() and map_reduce add them.
PlusAll(ch, R) == FoldSet(LAMBDA c, h : Plus(h, ch[c]), MakeHistogram, R)

\* What each of the histograms counted of value v.
CountsOf(ch, v) == [x \in DOMAIN ch |-> ch[x].counts[v]]

\* A histogram plus a histogram is one, with the counts of both.
LEMMA PlusType ==
  ASSUME NEW h \in Hist, NEW o \in Hist
  PROVE  /\ Plus(h, o) \in Hist
         /\ \A v \in Class : Plus(h, o).counts[v] = h.counts[v] + o.counts[v]
BY DEF Plus, HdrAdd, Hist

\* make_histogram() is a histogram without samples.
LEMMA MakeType ==
  MakeHistogram \in Hist /\ \A v \in Class : MakeHistogram.counts[v] = 0
BY DEF MakeHistogram, Hist

\* Adding up is a fold over the subsets.
LEMMA PlusFolds ==
  ASSUME NEW S, IsFiniteSet(S), NEW ch \in [S -> Hist]
  PROVE  \A T \in SUBSET S :
           /\ PlusAll(ch, T) \in Hist
           /\ PlusAll(ch, T) = IF T = {} THEN MakeHistogram
                               ELSE Plus(PlusAll(ch, T \ {First(T)}), ch[First(T)])
<1> DEFINE G == [p \in S \X Hist |-> Plus(p[2], ch[p[1]])]
<1>1. PICK g \in [SUBSET S -> Hist] : Folds(g, SUBSET S, MakeHistogram, G)
  <2>1. \A p \in S \X Hist : Plus(p[2], ch[p[1]]) \in Hist
    BY PlusType
  <2>2. G \in [S \X Hist -> Hist]
    BY <2>1
  <2> HIDE DEF G
  <2> QED BY <2>2, MakeType, FoldExists, Zenon
<1>2. \A T \in SUBSET S : g[T] = IF T = {} THEN MakeHistogram
                                 ELSE Plus(g[T \ {First(T)}], ch[First(T)])
  <2> SUFFICES ASSUME NEW T \in SUBSET S
               PROVE  g[T] = IF T = {} THEN MakeHistogram
                             ELSE Plus(g[T \ {First(T)}], ch[First(T)])
    BY Zenon
  <2>1. g[T] = IF T = {} THEN MakeHistogram ELSE G[<<First(T), g[T \ {First(T)}]>>]
    BY <1>1, Zenon DEF Folds
  <2>2. T # {} => <<First(T), g[T \ {First(T)}]>> \in S \X Hist
    BY FirstIn
  <2>3. T # {} => G[<<First(T), g[T \ {First(T)}]>>] = Plus(g[T \ {First(T)}], ch[First(T)])
    BY <2>2
  <2> QED BY <2>1, <2>3, Zenon
<1>3. ASSUME NEW T \in SUBSET S PROVE PlusAll(ch, T) = g[T]
  <2> DEFINE Is(it) == it = [U \in SUBSET T |->
                               IF U = {} THEN MakeHistogram
                               ELSE Plus(it[U \ {First(U)}], ch[First(U)])]
             P(it) == {U \in SUBSET T : it[U] = g[U]}
  <2>1. Is([U \in SUBSET T |-> g[U]])
    <3>1. \A U \in SUBSET T : U \ {First(U)} \in SUBSET T
      OBVIOUS
    <3> QED BY <1>2, <3>1, Zenon
  <2>2. PICK it : Is(it) /\ PlusAll(ch, T) = it[T]
    BY <2>1, Zenon DEF PlusAll, FoldSet, MapThenFoldSet, First
  <2>3. \A U \in SUBSET T : it[U] = IF U = {} THEN MakeHistogram
                                    ELSE Plus(it[U \ {First(U)}], ch[First(U)])
    BY <2>2, Zenon
  <2>4. \A U \in SUBSET T : (U = {} \/ U \ {First(U)} \in P(it)) => U \in P(it)
    BY <1>2, <2>3, Zenon
  <2>5. P(it) \in SUBSET (SUBSET T) /\ IsFiniteSet(T) /\ T \in SUBSET T
    BY FS_Subset, Zenon
  <2>6. T \in P(it)
    <3> HIDE DEF P
    <3> QED BY <2>4, <2>5, SubsetInduction, Zenon
  <2> QED BY <2>2, <2>6, Zenon
<1> QED BY <1>2, <1>3, Zenon

\* Of every value the sum has what the histograms counted together.
LEMMA PlusAllCounts ==
  ASSUME NEW S, IsFiniteSet(S), NEW ch \in [S -> Hist], NEW v \in Class
  PROVE  \A R \in SUBSET S : PlusAll(ch, R).counts[v] = SumOver(CountsOf(ch, v), R)
<1> DEFINE f == CountsOf(ch, v)
           P == {T \in SUBSET S : PlusAll(ch, T).counts[v] = SumOver(f, T)}
<1>1. \A x \in S : f[x] = ch[x].counts[v] /\ f[x] \in Nat
  BY DEF CountsOf, Hist
<1> HIDE DEF f
<1>2. \A T \in SUBSET S : /\ SumOver(f, T) \in Nat
                          /\ SumOver(f, T) = IF T = {} THEN 0
                                             ELSE f[First(T)] + SumOver(f, T \ {First(T)})
  <2>1. \A x \in S : f[x] \in Nat
    BY <1>1, Zenon
  <2> HIDE DEF P
  <2> QED BY <2>1, SumFolds, Zenon
<1>3. ASSUME NEW T \in SUBSET S, T = {} \/ T \ {First(T)} \in P PROVE T \in P
  <2>1. CASE T = {}
    <3>1. PlusAll(ch, {}).counts[v] = 0 /\ SumOver(f, {}) = 0
      BY <1>2, PlusFolds, MakeType, Zenon
    <3> QED BY <2>1, <3>1, Zenon
  <2>2. CASE T # {}
    <3> DEFINE x == First(T)
               U == T \ {First(T)}
    <3>1. x \in S /\ U \in SUBSET S
      BY <2>2, FirstIn
    <3>2. PlusAll(ch, U).counts[v] = SumOver(f, U)
      BY <1>3, <2>2, Zenon
    <3>3. PlusAll(ch, T) = Plus(PlusAll(ch, U), ch[x]) /\ PlusAll(ch, U) \in Hist
      BY <2>2, <3>1, PlusFolds, Zenon
    <3>4. SumOver(f, T) = f[x] + SumOver(f, U)
      BY <1>2, <2>2, Zenon
    <3> HIDE DEF U, x
    <3>5. f[x] = ch[x].counts[v] /\ f[x] \in Nat /\ ch[x] \in Hist
      BY <1>1, <3>1
    <3>6. PlusAll(ch, T).counts[v] = PlusAll(ch, U).counts[v] + ch[x].counts[v]
          /\ PlusAll(ch, U).counts[v] \in Nat
      BY <3>3, <3>5, PlusType DEF Hist
    <3>7. PlusAll(ch, T).counts[v] = SumOver(f, T)
      BY <3>2, <3>4, <3>5, <3>6
    <3> QED BY <3>7, Zenon
  <2> QED BY <2>1, <2>2
<1>4. P \in SUBSET (SUBSET S)
  BY Zenon
<1>5. \A T \in SUBSET S : T \in P
  <2> HIDE DEF P
  <2> QED BY <1>3, <1>4, SubsetInduction, Zenon
<1> QED BY <1>5, Zenon DEF f

\* Adding the sum of other histograms goes on with the sum.
LEMMA PlusMore ==
  ASSUME NEW S, IsFiniteSet(S), NEW ch \in [S -> Hist],
         NEW R \in SUBSET S, NEW T \in SUBSET S, R \cap T = {},
         NEW h \in Hist, h.counts = PlusAll(ch, R).counts
  PROVE  Plus(h, PlusAll(ch, T)).counts = PlusAll(ch, R \cup T).counts
<1> DEFINE U == R \cup T
           a == Plus(h, PlusAll(ch, T)).counts
           b == PlusAll(ch, U).counts
<1>1. U \in SUBSET S /\ R \in SUBSET U /\ U \ R = T
  BY Zenon
<1>2. PlusAll(ch, T) \in Hist /\ PlusAll(ch, U) \in Hist
  BY <1>1, PlusFolds, Zenon
<1>3. a \in [Class -> Nat] /\ b \in [Class -> Nat]
      /\ \A v \in Class : a[v] = h.counts[v] + PlusAll(ch, T).counts[v]
  BY <1>2, PlusType, Zenon DEF Hist
<1>4. ASSUME NEW v \in Class PROVE a[v] = b[v]
  <2> DEFINE f == CountsOf(ch, v)
  <2>1. \A x \in S : f[x] \in Nat
    <3>1. DOMAIN ch = S /\ \A x \in S : ch[x].counts[v] \in Nat
      BY DEF Hist
    <3> QED BY <3>1, Zenon DEF CountsOf
  <2>2. \A Q \in SUBSET S : PlusAll(ch, Q).counts[v] = SumOver(f, Q)
    BY PlusAllCounts
  <2> HIDE DEF f, U, a
  <2>3. IsFiniteSet(U) /\ \A x \in U : f[x] \in Nat
    BY <1>1, <2>1, FS_Subset
  <2>4. SumOver(f, U) = SumOver(f, R) + SumOver(f, T)
    BY <1>1, <2>3, SumUnion
  <2>5. b[v] = h.counts[v] + PlusAll(ch, T).counts[v]
    BY <1>1, <2>2, <2>4, Zenon
  <2> QED BY <1>3, <2>5, Zenon
<1> HIDE DEF a, b
<1>5. a = b
  BY <1>3, <1>4
<1> QED BY <1>5, Zenon DEF a, b, U

-----------------------------------------------------------------------------
(* Recording.                                                              *)

\* The histograms whose sample_count covers what the hdr_histogram accepted.
Counted == {h \in Hist : Total(h.counts) <= h.sample_count}

\* A histogram starts without samples.
LEMMA MakeCounted == MakeHistogram \in Counted
<1> DEFINE z == [v \in Class |-> 0]
<1>1. MakeHistogram \in Hist /\ MakeHistogram.counts = z /\ MakeHistogram.sample_count = 0
  BY MakeType DEF MakeHistogram
<1>2. Total(z) = 0
  <2>1. IsFiniteSet(Class) /\ z \in [Class -> Nat] /\ \A v \in Class : z[v] = 0
    BY ClassIs
  <2> HIDE DEF z
  <2> QED BY <2>1, CountsAsSums, SumZero, Zenon
<1> QED BY <1>1, <1>2 DEF Counted

\* record() counts the sample whether hdr_record_value accepts it or not.
LEMMA RecordCounted ==
  ASSUME NEW h \in Hist, NEW v \in Sample
  PROVE  /\ Record(h, v) \in Hist /\ Record(h, v).sample_count = h.sample_count + 1
         /\ h \in Counted => Record(h, v) \in Counted
<1> DEFINE a == h.counts
           l == Lowest[v]
           b == [a EXCEPT ![l] = @ + 1]
<1>0. v \in Nat /\ l \in Class /\ IsFiniteSet(Class)
  BY ClassIs
<1> HIDE DEF l
<1>1. a \in [Class -> Nat] /\ b \in [Class -> Nat] /\ b[l] = a[l] + 1 /\ a[l] \in Nat
      /\ \A w \in Class \ {l} : b[w] = a[w] /\ a[w] \in Nat
  BY <1>0 DEF Hist
<1>2. /\ Record(h, v) \in Hist /\ Record(h, v).sample_count = h.sample_count + 1
      /\ Record(h, v).counts \in {a, b} /\ h.sample_count \in Nat
  <2>1. Record(h, v).counts \in {a, b}
    BY DEF Record, HdrRecordValue, l
  <2>2. /\ h.sample_count + 1 \in Nat /\ h.sample_sum + v \in Nat /\ h.sample_count \in Nat
    BY <1>0 DEF Hist
  <2> HIDE DEF a, b
  <2>3. Record(h, v).counts \in [Class -> Nat]
    BY <1>1, <2>1
  <2>4. Record(h, v) \in Hist /\ Record(h, v).sample_count = h.sample_count + 1
    BY <2>2, <2>3 DEF Record, Hist
  <2> QED BY <2>1, <2>2, <2>4
<1> HIDE DEF a, b
<1>3. Total(b) = Total(a) + 1
  <2>1. (\A w \in Class : a[w] \in Nat) /\ \A w \in Class \ {l} : b[w] = a[w]
    BY <1>1
  <2>2. SumOver(b, Class) = SumOver(a, Class) + 1
    BY <1>0, <1>1, <2>1, SumOneMore, Zenon
  <2> QED BY <1>1, <2>2, CountsAsSums, Zenon
<1>4. Total(a) \in Nat
  BY <1>1, CountsAsSums
<1>5. h \in Counted => Total(a) <= h.sample_count
  BY DEF Counted, a
<1>6. h \in Counted => Total(Record(h, v).counts) <= h.sample_count + 1
  BY <1>2, <1>3, <1>4, <1>5
<1> QED BY <1>2, <1>6 DEF Counted

-----------------------------------------------------------------------------
(* What calls took.                                                        *)

\* The durations that are counted as k.
CountedAs(k) == {w \in Sample : w <= MaxValue /\ Lowest[w] = k}

\* What a histogram counts of calls that took t.
Tracked(t) == [k \in Class |-> Total([v \in CountedAs(k) |-> t[v]])]

\* Counting the calls is summing them up.
LEMMA TookAsSums ==
  ASSUME NEW t \in [Sample -> Nat]
  PROVE  /\ Total(t) = SumOver(t, Sample) /\ Total(t) \in Nat
         /\ \A k \in Class : /\ Tracked(t)[k] = SumOver(t, CountedAs(k))
                              /\ Tracked(t)[k] \in Nat
<1>0. IsFiniteSet(Sample) /\ \A v \in Sample : t[v] \in Nat
  BY ClassIs
<1>1. DOMAIN t = Sample
  OBVIOUS
<1>2. Total(t) = SumOver(t, Sample)
  BY <1>1, Zenon DEF Total, SumOver
<1>3. ASSUME NEW k \in Class
      PROVE  Tracked(t)[k] = SumOver(t, CountedAs(k)) /\ SumOver(t, CountedAs(k)) \in Nat
  <2> DEFINE U == CountedAs(k)
             some == [v \in U |-> t[v]]
  <2>1. U \in SUBSET Sample
    BY Zenon DEF CountedAs
  <2>2. Tracked(t)[k] = Total(some)
    BY Zenon DEF Tracked
  <2>. HIDE DEF U
  <2>3. IsFiniteSet(U)
    BY <1>0, <2>1, FS_Subset
  <2>4. \A v \in U : t[v] \in Nat /\ some[v] = t[v]
    BY <1>0, <2>1
  <2>5. DOMAIN some = U
    OBVIOUS
  <2>. HIDE DEF some
  <2>6. Total(some) = SumOver(some, U)
    BY <2>5, Zenon DEF Total, SumOver
  <2>7. SumOver(some, U) = SumOver(t, U)
    BY <2>3, <2>4, SumSame, Zenon
  <2>8. SumOver(t, U) \in Nat
    BY <2>3, <2>4, SumType
  <2>. QED BY <2>2, <2>6, <2>7, <2>8, Zenon DEF U
<1>4. SumOver(t, Sample) \in Nat
  BY <1>0, SumType
<1>. QED BY <1>2, <1>3, <1>4, Zenon

\* Before the first call there is nothing to count.
LEMMA NothingTook ==
  LET z == [v \in Sample |-> 0]
  IN  z \in [Sample -> Nat] /\ Total(z) = 0 /\ Tracked(z) = MakeHistogram.counts
<1> DEFINE z == [v \in Sample |-> 0]
<1>1. IsFiniteSet(Sample) /\ z \in [Sample -> Nat] /\ \A v \in Sample : z[v] = 0
  BY ClassIs
<1> HIDE DEF z
<1>2. Total(z) = 0
  BY <1>1, TookAsSums, SumZero, Zenon
<1>3. ASSUME NEW k \in Class PROVE Tracked(z)[k] = 0
  <2>1. CountedAs(k) \in SUBSET Sample
    BY Zenon DEF CountedAs
  <2>2. IsFiniteSet(CountedAs(k)) /\ \A v \in CountedAs(k) : z[v] = 0
    BY <1>1, <2>1, FS_Subset
  <2> QED BY <1>1, <2>2, TookAsSums, SumZero, Zenon
<1>4. Tracked(z) = MakeHistogram.counts
  <2>1. MakeHistogram.counts = [k \in Class |-> 0]
    BY DEF MakeHistogram
  <2>2. Tracked(z) = [k \in Class |-> Tracked(z)[k]]
    BY Zenon DEF Tracked
  <2> QED BY <1>3, <2>1, <2>2
<1> QED BY <1>1, <1>2, <1>4, Zenon DEF z

\* A call that took v is one more, and record() counts it if it is tracked.
LEMMA OneMoreTook ==
  ASSUME NEW t \in [Sample -> Nat], NEW v \in Sample, NEW h \in Hist, h.counts = Tracked(t)
  PROVE  LET u == [t EXCEPT ![v] = @ + 1]
         IN  u \in [Sample -> Nat] /\ Total(u) = Total(t) + 1 /\ Record(h, v).counts = Tracked(u)
<1> DEFINE u == [t EXCEPT ![v] = @ + 1]
           a == h.counts
           l == Lowest[v]
           b == HdrRecordValue(a, v)
<1>0. IsFiniteSet(Sample) /\ l \in Class /\ \A x \in Sample : t[x] \in Nat
  BY ClassIs
<1>1. u \in [Sample -> Nat] /\ u[v] = t[v] + 1 /\ \A x \in Sample \ {v} : u[x] = t[x]
  OBVIOUS
<1> HIDE DEF u
<1>2. Total(u) = Total(t) + 1
  <2>1. SumOver(u, Sample) = SumOver(t, Sample) + 1
    BY <1>0, <1>1, SumOneMore, Zenon
  <2> QED BY <1>1, <2>1, TookAsSums, Zenon
<1>3. Record(h, v).counts = b /\ a \in [Class -> Nat]
  BY DEF Record, Hist
<1>4. b \in [Class -> Nat]
      /\ \A k \in Class : b[k] = IF v <= MaxValue /\ k = l THEN a[k] + 1 ELSE a[k]
  BY <1>0, <1>3 DEF HdrRecordValue
<1> HIDE DEF b
<1>5. ASSUME NEW k \in Class PROVE b[k] = Tracked(u)[k]
  <2> DEFINE U == CountedAs(k)
  <2>1. U \in SUBSET Sample /\ (v \in U <=> v <= MaxValue /\ k = l)
    BY Zenon DEF CountedAs, l
  <2>2. IsFiniteSet(U)
    BY <1>0, <2>1, FS_Subset
  <2>3. /\ a[k] = SumOver(t, U) /\ a[k] \in Nat
        /\ Tracked(u)[k] = SumOver(u, U)
    BY <1>1, TookAsSums, Zenon
  <2> HIDE DEF U, l
  <2>4. CASE v \in U
    <3>1. (\A x \in U : t[x] \in Nat) /\ \A x \in U \ {v} : u[x] = t[x]
      BY <1>0, <1>1, <2>1
    <3>2. SumOver(u, U) = SumOver(t, U) + 1
      BY <1>1, <2>2, <2>4, <3>1, SumOneMore, Zenon
    <3> QED BY <1>4, <2>1, <2>3, <2>4, <3>2
  <2>5. CASE v \notin U
    <3>1. \A x \in U : t[x] \in Nat /\ u[x] = t[x]
      BY <1>0, <1>1, <2>1, <2>5
    <3>2. SumOver(u, U) = SumOver(t, U)
      BY <2>2, <3>1, SumSame, Zenon
    <3> QED BY <1>4, <2>1, <2>3, <2>5, <3>2
  <2> QED BY <2>4, <2>5
<1>6. b = Tracked(u)
  <2>1. Tracked(u) = [k \in Class |-> Tracked(u)[k]]
    BY Zenon DEF Tracked
  <2> QED BY <1>4, <1>5, <2>1
<1> QED BY <1>1, <1>2, <1>3, <1>6, Zenon DEF u

-----------------------------------------------------------------------------
(* The benchmark.                                                          *)

\* The fibers of core s that hold a unit.
Run(s) == {c \in On(s) : Running(c)}

Types ==
  /\ args \in Args
  /\ bench \in [Shard -> {"none", "launching", "waiting", "ended"}]
  /\ limit \in [Shard -> Int]
  /\ fiber \in [Channel -> {"none", "wait", "loop", "call", "done", "failed"}]
  /\ gen \in [Shard -> {"none", "made", "destroyed"}]

\* Where the program is says where the benchmarks are.
Phases ==
  /\ main \in {"server", "load", "connect"} => \A s \in Shard : bench[s] = "none"
  /\ main \notin {"server", "load", "connect", "bench"} =>
       \A s \in Shard : bench[s] \in {"none", "ended"}
  /\ \A s \in Shard : gen[s] = "destroyed" => main \in {"stop_load", "done"}

\* Where a benchmark is says what its fibers may be doing.
Fibers ==
  \A c \in Channel :
    /\ bench[c[1]] = "none" => fiber[c] = "none"
    /\ bench[c[1]] = "launching" => fiber[c] # "none"
    /\ bench[c[1]] = "waiting" => fiber[c] \notin {"none", "wait"}
    /\ bench[c[1]] = "ended" => fiber[c] \in {"done", "failed"}

Units ==
  \A s \in Shard : bench[s] \in {"launching", "waiting"} =>
    limit[s] + Cardinality(Run(s)) = args.concurrency

IInv == Types /\ Phases /\ Fibers /\ Units

\* The sizes of the command lines.
LEMMA ArgTypes ==
  ASSUME args \in Args
  PROVE  args.smp \in Nat /\ args.num_of_req \in Nat /\ args.concurrency \in Nat
BY LoadAssumption

\* A channel is on a core.
LEMMA ChannelOnShard ==
  ASSUME NEW c \in Channel
  PROVE  c[1] \in Shard /\ c \in On(c[1]) /\ c[2] \in 1..args.concurrency
BY DEF Channel, On

\* max(1, ...): invoke() is never called with nothing to send.
LEMMA SomethingToSend ==
  ASSUME args \in Args, NEW c \in Channel
  PROVE  ReqsPerChannel \in Nat \ {0}
<1>1. args.concurrency \in Nat \ {0} BY ArgTypes, ChannelOnShard
<1>2. args.num_of_req \div args.concurrency \in Int BY <1>1, ArgTypes
<1> QED BY <1>2 DEF ReqsPerChannel

\* The fibers of a core are finitely many.
LEMMA RunFinite ==
  ASSUME args \in Args, NEW s \in Shard
  PROVE  IsFiniteSet(Run(s))
<1>0. args.smp \in Int /\ args.concurrency \in Int BY ArgTypes
<1>1. IsFiniteSet(1..args.smp) /\ IsFiniteSet(1..args.concurrency)
  BY <1>0, FS_Interval
<1>2. IsFiniteSet(Channel) BY <1>1, FS_Product, ZenonT(60) DEF Channel, Shard
<1>3. Run(s) \subseteq Channel BY DEF Run, On
<1> QED BY <1>2, <1>3, FS_Subset

\* A fiber that starts changes their number by one.
LEMMA RunAdd ==
  ASSUME args \in Args, NEW s \in Shard, NEW c, c \notin Run(s)
  PROVE  Cardinality(Run(s) \cup {c}) = Cardinality(Run(s)) + 1
BY RunFinite, FS_AddElement, ZenonT(60)

\* So does a fiber that ends.
LEMMA RunRemove ==
  ASSUME args \in Args, NEW s \in Shard, NEW c \in Run(s)
  PROVE  Cardinality(Run(s) \ {c}) = Cardinality(Run(s)) - 1
BY RunFinite, FS_RemoveElement, ZenonT(60)

\* Their number, and what it means when there is none.
LEMMA RunSize ==
  ASSUME args \in Args, NEW s \in Shard
  PROVE  Cardinality(Run(s)) \in Nat /\ (Cardinality(Run(s)) = 0 => Run(s) = {})
BY RunFinite, FS_CardinalityType, FS_EmptySet

-----------------------------------------------------------------------------
(* What the actions have in common.                                        *)

\* The command line stays, and with it the cores and channels.
LEMMA SameCores ==
  ASSUME args' = args
  PROVE  Shard' = Shard /\ Channel' = Channel /\ \A s : On(s)' = On(s)
BY DEF Shard, Channel, On

\* Nothing happens to the benchmarks.
LEMMA Quiet ==
  ASSUME IInv, Phases', UNCHANGED <<args, bench, limit, fiber>>,
         gen' \in [Shard -> {"none", "made", "destroyed"}]
  PROVE  IInv'
<1>1. Types' BY SameCores DEF IInv, Types
<1>2. Fibers' BY SameCores DEF IInv, Fibers
<1>3. \A s : Run(s)' = Run(s) BY SameCores DEF Run, Running
<1>4. Units' BY <1>3, SameCores DEF IInv, Units
<1> QED BY <1>1, <1>2, <1>4 DEF IInv

\* A fiber that holds a unit belongs to a benchmark that has not ended.
LEMMA RunningInBench ==
  ASSUME IInv, NEW c \in Channel, fiber[c] \in {"wait", "loop", "call"}
  PROVE  /\ bench[c[1]] \in {"launching", "waiting"}
         /\ fiber[c] = "wait" => bench[c[1]] = "launching"
BY ChannelOnShard DEF IInv, Types, Fibers

\* A fiber goes on: it holds the same unit.
LEMMA GoesOn ==
  ASSUME IInv, NEW c \in Channel, Running(c), NEW to \in {"loop", "call"},
         fiber' = [fiber EXCEPT ![c] = to], UNCHANGED <<args, bench, limit, gen, main>>
  PROVE  IInv'
<1>1. Types' BY SameCores, ZenonT(60) DEF IInv, Types
<1>2. Phases' BY SameCores DEF IInv, Phases
<1>3. Fibers' BY SameCores, RunningInBench, ZenonT(60) DEF IInv, Types, Fibers, Running
<1>4. \A s \in Shard : Run(s)' = Run(s)
  BY SameCores DEF IInv, Types, Run, Running, On
<1>5. Units' BY <1>4, SameCores DEF IInv, Units
<1> QED BY <1>1, <1>2, <1>3, <1>5 DEF IInv

\* A fiber ends and returns its unit.
LEMMA EndReturnsUnit ==
  ASSUME IInv, NEW c \in Channel, Running(c), NEW how \in {"done", "failed"},
         FiberEnds(c, how), UNCHANGED <<args, bench, gen, main>>
  PROVE  IInv'
<1>0. /\ fiber' = [fiber EXCEPT ![c] = how]
      /\ limit' = [limit EXCEPT ![c[1]] = @ + 1]
  BY DEF FiberEnds
<1>1. Types'
  <2>1. c[1] \in Shard BY ChannelOnShard
  <2>2. limit' \in [Shard -> Int] BY <1>0, <2>1 DEF IInv, Types
  <2>3. fiber' \in [Channel -> {"none", "wait", "loop", "call", "done", "failed"}]
    BY <1>0 DEF IInv, Types
  <2> QED BY <2>2, <2>3, SameCores DEF IInv, Types
<1>2. Phases' BY SameCores DEF IInv, Phases
<1>3. Fibers'
  BY <1>0, SameCores, RunningInBench, ZenonT(60) DEF IInv, Types, Fibers, Running
<1>4. Units'
  <2> SUFFICES ASSUME NEW s \in Shard, bench[s] \in {"launching", "waiting"}
               PROVE  limit'[s] + Cardinality(Run(s)') = args.concurrency
    BY SameCores DEF Units
  <2>1. limit[s] + Cardinality(Run(s)) = args.concurrency BY DEF IInv, Units
  <2>2. CASE s = c[1]
    <3>1. c \in Run(s) BY <2>2, ChannelOnShard DEF Run
    <3>2. Run(s)' = Run(s) \ {c}
      BY <1>0, SameCores DEF IInv, Types, Run, Running, On
    <3>3. Cardinality(Run(s)') = Cardinality(Run(s)) - 1
      BY <3>1, <3>2, RunRemove DEF IInv, Types
    <3>4. limit'[s] = limit[s] + 1 /\ limit[s] \in Int /\ Cardinality(Run(s)) \in Nat
      BY <1>0, <2>2, RunSize DEF IInv, Types
    <3> QED BY <2>1, <3>3, <3>4
  <2>3. CASE s # c[1]
    <3>1. Run(s)' = Run(s)
      BY <1>0, <2>3, SameCores DEF IInv, Types, Run, Running, On
    <3>2. limit'[s] = limit[s] BY <1>0, <2>3 DEF IInv, Types
    <3> QED BY <2>1, <3>1, <3>2
  <2> QED BY <2>2, <2>3
<1> QED BY <1>1, <1>2, <1>3, <1>4 DEF IInv

-----------------------------------------------------------------------------
(* The actions.                                                            *)

\* At the start there is no benchmark.
LEMMA InitIInv == Init => IInv
<1> SUFFICES ASSUME Init PROVE IInv
  OBVIOUS
<1>1. Types BY DEF Init, Types
<1>2. Phases BY DEF Init, Phases
<1>3. Fibers BY ChannelOnShard DEF Init, Fibers
<1>4. Units BY DEF Init, Units
<1> QED BY <1>1, <1>2, <1>3, <1>4 DEF IInv

\* The chain of the program moves main; only load.start() and load.stop() touch gen.
LEMMA MainIInv == IInv /\ MainStep => IInv'
<1> SUFFICES ASSUME IInv, MainStep PROVE IInv'
  OBVIOUS
<1>1. UNCHANGED <<args, bench, limit, fiber>>
  BY Zenon DEF MainStep, ServersStarted, LoadStart, Connected, Benchmarked, Write,
         ServersStopped, LoadStopped, benchVars
<1>2. gen' \in [Shard -> {"none", "made", "destroyed"}]
  BY Zenon DEF MainStep, ServersStarted, LoadStart, Connected, Benchmarked, Write,
         ServersStopped, LoadStopped, connVars, IInv, Types
<1>3. Phases'
  <2>1. CASE ServersStarted BY <1>1, <2>1, SameCores
          DEF ServersStarted, Exits, connVars, IInv, Types, Phases
  <2>2. CASE LoadStart BY <1>1, <2>2, SameCores, Zenon
          DEF LoadStart, Exits, IInv, Types, Phases
  <2>3. CASE Connected BY <1>1, <2>3, SameCores
          DEF Connected, Exits, connVars, IInv, Types, Phases
  <2>4. CASE Benchmarked BY <1>1, <2>4, SameCores
          DEF Benchmarked, Exits, connVars, IInv, Types, Phases
  <2>5. CASE Write BY <1>1, <2>5, SameCores, Zenon
          DEF Write, Exits, connVars, IInv, Types, Phases
  <2>6. CASE ServersStopped BY <1>1, <2>6, SameCores
          DEF ServersStopped, connVars, IInv, Types, Phases
  <2>7. CASE LoadStopped BY <1>1, <2>7, SameCores
          DEF LoadStopped, connVars, IInv, Types, Phases
  <2> QED BY <2>1, <2>2, <2>3, <2>4, <2>5, <2>6, <2>7 DEF MainStep
<1> QED BY <1>1, <1>2, <1>3, Quiet

\* The semaphore is made with a unit for each channel.
LEMMA BenchBeginIInv ==
  ASSUME IInv, NEW s \in Shard, BenchBegin(s)
  PROVE  IInv'
<1>0. /\ main = "bench" /\ bench[s] = "none"
      /\ bench' = [bench EXCEPT ![s] = "launching"]
      /\ limit' = [limit EXCEPT ![s] = args.concurrency]
      /\ fiber' = [c \in Channel |-> IF c \in On(s) THEN "wait" ELSE fiber[c]]
      /\ UNCHANGED <<args, main, gen>>
  BY DEF BenchBegin, progVars, connVars
<1>1. Types'
  <2>1. args.concurrency \in Int BY ArgTypes DEF IInv, Types
  <2>2. limit' \in [Shard -> Int] BY <1>0, <2>1 DEF IInv, Types
  <2>3. bench' \in [Shard -> {"none", "launching", "waiting", "ended"}]
    BY <1>0 DEF IInv, Types
  <2>4. fiber' \in [Channel -> {"none", "wait", "loop", "call", "done", "failed"}]
    BY <1>0 DEF IInv, Types
  <2> QED BY <1>0, <2>2, <2>3, <2>4, SameCores DEF IInv, Types
<1>2. Phases' BY <1>0, SameCores, ZenonT(60) DEF IInv, Types, Phases
<1>3. Fibers' BY <1>0, SameCores, ChannelOnShard DEF IInv, Types, Fibers, On
<1>4. Units'
  <2> SUFFICES ASSUME NEW t \in Shard, bench'[t] \in {"launching", "waiting"}
               PROVE  limit'[t] + Cardinality(Run(t)') = args.concurrency
    BY <1>0, SameCores DEF Units
  <2>1. CASE t = s
    <3>1. Run(t)' = {} BY <1>0, <2>1, SameCores DEF Run, Running, On
    <3>2. limit'[t] = args.concurrency BY <1>0, <2>1 DEF IInv, Types
    <3>3. Cardinality(Run(t)') = 0 BY <3>1, FS_EmptySet
    <3> QED BY <3>2, <3>3, ArgTypes DEF IInv, Types
  <2>2. CASE t # s
    <3>1. Run(t)' = Run(t) BY <1>0, <2>2, SameCores DEF Run, Running, On
    <3>2. limit'[t] = limit[t] /\ bench'[t] = bench[t] BY <1>0, <2>2 DEF IInv, Types
    <3> QED BY <3>1, <3>2 DEF IInv, Units
  <2> QED BY <2>1, <2>2
<1> QED BY <1>1, <1>2, <1>3, <1>4 DEF IInv

\* A fiber takes a unit when it is launched.
LEMMA LaunchIInv ==
  ASSUME IInv, NEW c \in Channel, Launch(c)
  PROVE  IInv'
<1>0. /\ fiber[c] = "wait"
      /\ limit' = [limit EXCEPT ![c[1]] = @ - 1]
      /\ fiber' = [fiber EXCEPT ![c] = "loop"]
      /\ UNCHANGED <<args, main, gen, bench>>
  BY SomethingToSend, ZenonT(60) DEF Launch, progVars, connVars, IInv, Types
<1>1. Types'
  <2>1. c[1] \in Shard BY ChannelOnShard
  <2>2. limit' \in [Shard -> Int] BY <1>0, <2>1 DEF IInv, Types
  <2>3. fiber' \in [Channel -> {"none", "wait", "loop", "call", "done", "failed"}]
    BY <1>0 DEF IInv, Types
  <2> QED BY <1>0, <2>2, <2>3, SameCores DEF IInv, Types
<1>2. Phases' BY <1>0, SameCores DEF IInv, Phases
<1>3. Fibers' BY <1>0, SameCores, RunningInBench, ZenonT(60) DEF IInv, Types, Fibers
<1>4. Units'
  <2> SUFFICES ASSUME NEW s \in Shard, bench[s] \in {"launching", "waiting"}
               PROVE  limit'[s] + Cardinality(Run(s)') = args.concurrency
    BY <1>0, SameCores DEF Units
  <2>1. limit[s] + Cardinality(Run(s)) = args.concurrency BY DEF IInv, Units
  <2>2. CASE s = c[1]
    <3>1. c \notin Run(s) BY <1>0 DEF Run, Running
    <3>2. Run(s)' = Run(s) \cup {c}
      BY <1>0, <2>2, SameCores, ChannelOnShard, ZenonT(60) DEF IInv, Types, Run, Running, On
    <3>3. Cardinality(Run(s)') = Cardinality(Run(s)) + 1
      BY <3>1, <3>2, RunAdd DEF IInv, Types
    <3>4. limit'[s] = limit[s] - 1 /\ limit[s] \in Int /\ Cardinality(Run(s)) \in Nat
      BY <1>0, <2>2, RunSize DEF IInv, Types
    <3> QED BY <2>1, <3>3, <3>4
  <2>3. CASE s # c[1]
    <3>1. Run(s)' = Run(s)
      BY <1>0, <2>3, SameCores DEF IInv, Types, Run, Running, On
    <3>2. limit'[s] = limit[s] BY <1>0, <2>3 DEF IInv, Types
    <3> QED BY <2>1, <3>1, <3>2
  <2> QED BY <2>2, <2>3
<1> QED BY <1>1, <1>2, <1>3, <1>4 DEF IInv

\* No fiber is left to launch.
LEMMA LaunchedIInv ==
  ASSUME IInv, NEW s \in Shard, Launched(s)
  PROVE  IInv'
<1>0. /\ bench[s] = "launching" /\ \A c \in On(s) : fiber[c] # "wait"
      /\ bench' = [bench EXCEPT ![s] = "waiting"]
      /\ UNCHANGED <<args, main, gen, limit, fiber>>
  BY ZenonT(60) DEF Launched, progVars, connVars, IInv, Types, On
<1>1. Types' BY <1>0, SameCores, ZenonT(60) DEF IInv, Types
<1>2. Phases' BY <1>0, SameCores, ZenonT(60) DEF IInv, Types, Phases
<1>3. Fibers' BY <1>0, SameCores, ChannelOnShard DEF IInv, Types, Fibers
<1>4. \A t : Run(t)' = Run(t) BY <1>0, SameCores DEF Run, Running
<1>5. Units' BY <1>0, <1>4, SameCores, ZenonT(60) DEF IInv, Types, Units
<1> QED BY <1>1, <1>2, <1>3, <1>5 DEF IInv

\* All the units are back, so no fiber holds one.
LEMMA BenchEndIInv ==
  ASSUME IInv, NEW s \in Shard, BenchEnd(s)
  PROVE  IInv'
<1>0. /\ bench[s] = "waiting" /\ limit[s] >= args.concurrency
      /\ bench' = [bench EXCEPT ![s] = "ended"]
      /\ limit' = [limit EXCEPT ![s] = @ - args.concurrency]
      /\ UNCHANGED <<args, main, gen, fiber>>
  BY DEF BenchEnd, progVars, connVars
<1>1. Types'
  <2>1. args.concurrency \in Int BY ArgTypes DEF IInv, Types
  <2>2. limit' \in [Shard -> Int] BY <1>0, <2>1 DEF IInv, Types
  <2>3. bench' \in [Shard -> {"none", "launching", "waiting", "ended"}]
    BY <1>0 DEF IInv, Types
  <2> QED BY <1>0, <2>2, <2>3, SameCores DEF IInv, Types
<1>2. Phases' BY <1>0, SameCores, ZenonT(60) DEF IInv, Types, Phases
<1>3. Run(s) = {}
  <2>1. limit[s] + Cardinality(Run(s)) = args.concurrency BY <1>0 DEF IInv, Units
  <2>2. /\ limit[s] \in Int /\ args.concurrency \in Nat
        /\ Cardinality(Run(s)) \in Nat /\ (Cardinality(Run(s)) = 0 => Run(s) = {})
    BY ArgTypes, RunSize DEF IInv, Types
  <2> QED BY <1>0, <2>1, <2>2
<1>4. \A c \in On(s) : fiber[c] \in {"done", "failed"}
  BY <1>0, <1>3 DEF IInv, Types, Fibers, Run, Running, On
<1>5. Fibers' BY <1>0, <1>4, SameCores, ChannelOnShard DEF IInv, Types, Fibers
<1>6. \A t : Run(t)' = Run(t) BY <1>0, SameCores DEF Run, Running
<1>7. Units' BY <1>0, <1>6, SameCores, ZenonT(60) DEF IInv, Types, Units
<1> QED BY <1>1, <1>2, <1>5, <1>7 DEF IInv

\* The other steps of a core: its server, its part of map_reduce, its generator's end.
LEMMA ShardIInv ==
  ASSUME IInv, NEW s \in Shard, ShardStep(s)
  PROVE  IInv'
<1>1. CASE ServerStart(s) \/ Reduce(s)
  <2>1. UNCHANGED <<args, main, bench, limit, fiber, gen>>
    BY <1>1 DEF ServerStart, Reduce, progVars, connVars, benchVars
  <2>2. Phases' BY <2>1, SameCores DEF IInv, Phases
  <2> QED BY <2>1, <2>2, Quiet, Zenon DEF IInv, Types
<1>2. CASE StopServer(s)
  <2>1. /\ UNCHANGED <<args, bench, limit, fiber, gen>>
        /\ main = "stop_rpc" /\ main' \in {"stop_rpc", "crashed"}
    BY <1>2, Zenon DEF StopServer, benchVars
  <2>2. Phases' BY <2>1, SameCores DEF IInv, Phases
  <2> QED BY <2>1, <2>2, Quiet, Zenon DEF IInv, Types
<1>3. CASE StopLoad(s)
  <2>1. /\ UNCHANGED <<args, main, bench, limit, fiber>>
        /\ main = "stop_load" /\ gen' = [gen EXCEPT ![s] = "destroyed"]
    BY <1>3 DEF StopLoad, progVars, benchVars
  <2>2. Phases' BY <2>1, SameCores, ZenonT(60) DEF IInv, Types, Phases
  <2> QED BY <2>1, <2>2, Quiet, Zenon DEF IInv, Types
<1> QED BY <1>1, <1>2, <1>3, BenchBeginIInv, LaunchedIInv, BenchEndIInv DEF ShardStep

\* The steps of a channel: its fiber, its connection, the fibers of the server.
LEMMA ChannelIInv ==
  ASSUME IInv, NEW c \in Channel, ChannelStep(c)
  PROVE  IInv'
<1>1. CASE Connect(c) \/ Dispatch(c) \/ Reply(c) \/ JobEnd(c)
  <2>1. UNCHANGED <<args, main, bench, limit, fiber, gen>>
    BY <1>1, Zenon DEF Connect, Dispatch, Reply, JobEnd, progVars, connVars, benchVars
  <2>2. Phases' BY <2>1, SameCores, Zenon DEF IInv, Phases
  <2> QED BY <2>1, <2>2, Quiet, Zenon DEF IInv, Types
<1>2. CASE Iterate(c)
  <2>1. Running(c) /\ UNCHANGED <<args, main, bench, gen>>
    BY <1>2 DEF Iterate, Running, progVars, connVars
  <2>2. \/ FiberEnds(c, "done") \/ FiberEnds(c, "failed")
        \/ fiber' = [fiber EXCEPT ![c] = "call"] /\ limit' = limit
    BY <1>2 DEF Iterate, MakesCall
  <2> QED BY <2>1, <2>2, EndReturnsUnit, GoesOn
<1>3. CASE Answered(c)
  <2>1. /\ Running(c) /\ fiber' = [fiber EXCEPT ![c] = "loop"]
        /\ UNCHANGED <<args, main, bench, gen, limit>>
    BY <1>3 DEF Answered, Running, progVars, connVars
  <2> QED BY <2>1, GoesOn, ZenonT(60)
<1>4. CASE Lost(c)
  <2>1. UNCHANGED <<args, main, bench, gen>> BY <1>4 DEF Lost, progVars
  <2>2. CASE fiber[c] = "call"
    <3>1. Running(c) /\ FiberEnds(c, "failed") BY <1>4, <2>2 DEF Lost, Running
    <3> QED BY <2>1, <3>1, EndReturnsUnit
  <2>3. CASE fiber[c] # "call"
    <3>1. UNCHANGED <<limit, fiber>> BY <1>4, <2>3 DEF Lost
    <3>2. Phases' BY <2>1, SameCores DEF IInv, Phases
    <3> QED BY <2>1, <3>1, <3>2, Quiet, Zenon DEF IInv, Types
  <2> QED BY <2>2, <2>3
<1> QED BY <1>1, <1>2, <1>3, <1>4, LaunchIInv DEF ChannelStep

\* Nothing happens.
LEMMA StutterIInv == IInv /\ UNCHANGED vars => IInv'
<1> SUFFICES ASSUME IInv, UNCHANGED vars PROVE IInv'
  OBVIOUS
<1>1. UNCHANGED <<args, main, bench, limit, fiber, gen>>
  BY DEF vars, progVars, connVars, benchVars
<1>2. Phases' BY <1>1, SameCores DEF IInv, Phases
<1> QED BY <1>1, <1>2, Quiet, Zenon DEF IInv, Types

-----------------------------------------------------------------------------
\* Units of the semaphore and running fibers add up, whatever fails.
THEOREM UnitsInvariant == Spec => []UnitsReturned
<1>1. IInv /\ [Next]_vars => IInv'
  BY MainIInv, ShardIInv, ChannelIInv, StutterIInv DEF Next
<1>2. IInv => UnitsReturned BY DEF IInv, Units, Run, UnitsReturned
<1> QED BY InitIInv, <1>1, <1>2, PTL DEF Spec

\* No background fiber of a benchmark outlives the benchmark or the generator whose
\* clients it uses, for every number of cores, connections and requests.
THEOREM FibersInvariant == Spec => []FibersEndFirst
<1>1. IInv /\ [Next]_vars => IInv'
  BY MainIInv, ShardIInv, ChannelIInv, StutterIInv DEF Next
<1>2. IInv => FibersEndFirst
  <2> SUFFICES ASSUME IInv, NEW s \in Shard,
                      bench[s] \in {"ended", "threw"} \/ gen[s] = "destroyed",
                      NEW c \in On(s)
               PROVE  ~Running(c) /\ fiber[c] # "wait"
    BY DEF FibersEndFirst
  <2>1. c \in Channel /\ c[1] = s BY DEF On
  <2>2. bench[s] \in {"none", "ended"} BY DEF IInv, Types, Phases
  <2> QED BY <2>1, <2>2 DEF IInv, Fibers, Running
<1> QED BY InitIInv, <1>1, <1>2, PTL DEF Spec

-----------------------------------------------------------------------------
(* The channels and the histograms.                                        *)

\* A fiber that is done has sent everything; one that failed has no connection.
Clients ==
  /\ conn \in [Channel -> {"none", "idle", "up", "failed", "down", "stopped"}]
  /\ sent \in [Channel -> Nat]
  /\ \A c \in Channel : /\ fiber[c] = "done" => sent[c] = ReqsPerChannel
                        /\ fiber[c] = "failed" => conn[c] # "up"

\* Every call made is measured, but for the one in progress.
Measured ==
  /\ chist \in [Channel -> Hist] /\ calls \in [Channel -> Nat]
  /\ \A c \in Channel :
       calls[c] = chist[c].sample_count + IF fiber[c] = "call" THEN 1 ELSE 0

\* What the histogram of a client counts is what its calls took.
Recorded ==
  /\ took \in [Channel -> [Sample -> Nat]]
  /\ \A c \in Channel : /\ Total(took[c]) = chist[c].sample_count
                        /\ chist[c].counts = Tracked(took[c])

\* The servers count every sample they record.
Served == home \in [Channel -> Shard] /\ shist \in [Shard -> Counted]

\* The channels of some cores.
Of(R) == {c \in Channel : c[1] \in R}

\* The sum has the histograms of the cores that were visited, the file those of all.
SummedUp ==
  /\ acc \in Hist /\ reduced \in SUBSET Shard /\ file \in [{"client", "server"} -> Hist \cup {None}]
  /\ main \notin {"reduce", "sreduce"} => reduced = {} /\ acc = MakeHistogram
  /\ main = "reduce" => acc.counts = PlusAll(chist, Of(reduced)).counts
  /\ file.client # None =>
       /\ main \notin {"server", "load", "connect", "bench", "reduce"}
       /\ file.client.counts = PlusAll(chist, Channel).counts

\* Outside the benchmark no fiber runs.
LEMMA NoFiberOutside ==
  ASSUME IInv, main # "bench", NEW c \in Channel
  PROVE  fiber[c] \in {"none", "done", "failed"}
<1>1. bench[c[1]] \in {"none", "ended"}
  BY ChannelOnShard DEF IInv, Types, Phases
<1> QED BY <1>1 DEF IInv, Fibers

\* The channels are finitely many.
LEMMA ChannelsFinite ==
  ASSUME args \in Args
  PROVE  IsFiniteSet(Channel)
<1>0. args.smp \in Int /\ args.concurrency \in Int BY ArgTypes
<1>1. IsFiniteSet(1..args.smp) /\ IsFiniteSet(1..args.concurrency)
  BY <1>0, FS_Interval
<1> QED BY <1>1, FS_Product, ZenonT(60) DEF Channel, Shard

\* Nothing changes the command line.
LEMMA ArgsStay == ASSUME [Next]_vars PROVE args' = args
BY Zenon DEF Next, MainStep, ShardStep, ChannelStep, vars, progVars,
     ServersStarted, LoadStart, Connected, Benchmarked, Write, ServersStopped, LoadStopped,
     ServerStart, BenchBegin, Launched, BenchEnd, Reduce, StopServer, StopLoad,
     Connect, Launch, Iterate, Answered, Lost, Dispatch, Reply, JobEnd

\* The number of requests of a channel does not change.
LEMMA SameRequests == ASSUME args' = args PROVE ReqsPerChannel' = ReqsPerChannel
BY DEF ReqsPerChannel

-----------------------------------------------------------------------------
(* The channels.                                                           *)

\* At the start no channel has a connection or a fiber.
LEMMA InitClients == Init => Clients
BY DEF Init, Clients

\* What happens to a channel that is not in a call, or that ends one.
LEMMA ClientsStep ==
  ASSUME IInv, Clients, [Next]_vars
  PROVE  Clients'
<1> DEFINE Conns == {"none", "idle", "up", "failed", "down", "stopped"}
<1>0. args' = args
  BY ArgsStay
<1>1. SUFFICES
        /\ conn' \in [Channel -> Conns] /\ sent' \in [Channel -> Nat]
        /\ \A c \in Channel : /\ fiber'[c] = "done" => sent'[c] = ReqsPerChannel
                              /\ fiber'[c] = "failed" => conn'[c] # "up"
  BY <1>0, SameCores, SameRequests DEF Clients
<1>2. /\ conn \in [Channel -> Conns] /\ sent \in [Channel -> Nat]
      /\ fiber \in [Channel -> {"none", "wait", "loop", "call", "done", "failed"}]
      /\ \A c \in Channel : /\ fiber[c] = "done" => sent[c] = ReqsPerChannel
                            /\ fiber[c] = "failed" => conn[c] # "up"
  BY DEF Clients, IInv, Types
<1>3. CASE UNCHANGED <<conn, sent, fiber>>
  BY <1>2, <1>3
<1>4. CASE MainStep
  <2>1. UNCHANGED <<sent, fiber>> /\ (conn' = conn \/ conn' = [c \in Channel |-> "idle"])
    BY <1>4, Zenon DEF MainStep, ServersStarted, LoadStart, Connected, Benchmarked, Write,
       ServersStopped, LoadStopped, benchVars, connVars
  <2> QED BY <1>2, <2>1
<1>5. ASSUME NEW s \in Shard, ShardStep(s)
      PROVE  \/ UNCHANGED <<conn, sent, fiber>>
             \/ UNCHANGED <<conn, sent>>
                /\ fiber' = [c \in Channel |-> IF c \in On(s) THEN "wait" ELSE fiber[c]]
             \/ UNCHANGED <<sent, fiber>>
                /\ conn' = [c \in Channel |-> IF c \in On(s) THEN "stopped" ELSE conn[c]]
  BY <1>5, Zenon DEF ShardStep, ServerStart, BenchBegin, Launched, BenchEnd, Reduce, StopServer, StopLoad,
     benchVars, connVars
<1>6. CASE \E s \in Shard : ShardStep(s)
  <2>1. PICK s \in Shard : ShardStep(s) BY <1>6
  <2> QED BY <1>2, <1>5, <2>1
<1>7. CASE \E c \in Channel : ChannelStep(c)
  <2>1. PICK c \in Channel : ChannelStep(c) BY <1>7
  <2>2. CASE Dispatch(c) \/ Reply(c) \/ JobEnd(c)
    BY <1>3, <2>2, Zenon DEF Dispatch, Reply, JobEnd, connVars, benchVars
  <2>3. CASE Connect(c)
    <3>1. main = "connect" /\ UNCHANGED <<sent, fiber>>
          /\ \E to \in {"up", "failed"} : conn' = [conn EXCEPT ![c] = to]
      BY <2>3 DEF Connect, benchVars
    <3>2. \A d \in Channel : fiber[d] = "none"
      BY <3>1, ChannelOnShard DEF IInv, Phases, Fibers
    <3> QED BY <1>2, <3>1, <3>2
  <2>4. CASE Launch(c)
    <3>1. UNCHANGED <<conn, sent>>
          /\ \E to \in {"threw", "loop"} : fiber' = [fiber EXCEPT ![c] = to]
      BY <2>4, Zenon DEF Launch, connVars
    <3> QED BY <1>2, <3>1
  <2>5. CASE Iterate(c)
    <3>1. /\ UNCHANGED <<conn, sent>>
          /\ \/ fiber' = [fiber EXCEPT ![c] = "done"] /\ sent[c] = ReqsPerChannel
             \/ fiber' = [fiber EXCEPT ![c] = "call"]
             \/ fiber' = [fiber EXCEPT ![c] = "failed"] /\ conn[c] # "up"
      BY <2>5 DEF Iterate, LoopOver, MakesCall, FiberEnds, connVars
    <3> QED BY <1>2, <3>1
  <2>6. CASE Answered(c)
    <3>1. /\ UNCHANGED conn /\ fiber[c] = "call"
          /\ fiber' = [fiber EXCEPT ![c] = "loop"] /\ sent' = [sent EXCEPT ![c] = @ + 1]
      BY <2>6 DEF Answered, connVars
    <3> QED BY <1>2, <3>1
  <2>7. CASE Lost(c)
    <3>1. /\ UNCHANGED sent /\ conn' = [conn EXCEPT ![c] = "down"]
          /\ fiber' = fiber \/ fiber' = [fiber EXCEPT ![c] = "failed"]
      BY <2>7 DEF Lost, FiberEnds
    <3> QED BY <1>2, <3>1
  <2> QED BY <2>1, <2>2, <2>3, <2>4, <2>5, <2>6, <2>7, Zenon DEF ChannelStep
<1>8. CASE UNCHANGED vars
  BY <1>3, <1>8 DEF vars, connVars, benchVars
<1> QED BY <1>4, <1>6, <1>7, <1>8 DEF Next

-----------------------------------------------------------------------------
(* The measurements of the clients.                                        *)

\* At the start nothing was called or measured.
LEMMA InitMeasured == Init => Measured
BY MakeType DEF Init, Measured, MakeHistogram

\* A call is measured when it ends, answered or not.
LEMMA MeasuredStep ==
  ASSUME IInv, Measured, [Next]_vars
  PROVE  Measured'
<1> DEFINE N(f, c) == IF f[c] = "call" THEN 1 ELSE 0
<1>0. args' = args
  BY ArgsStay
<1>1. SUFFICES
        /\ chist' \in [Channel -> Hist] /\ calls' \in [Channel -> Nat]
        /\ \A c \in Channel : calls'[c] = chist'[c].sample_count + N(fiber', c)
  BY <1>0, SameCores DEF Measured
<1>2. /\ chist \in [Channel -> Hist] /\ calls \in [Channel -> Nat]
      /\ fiber \in [Channel -> {"none", "wait", "loop", "call", "done", "failed"}]
      /\ \A c \in Channel : calls[c] = chist[c].sample_count + N(fiber, c)
      /\ \A c \in Channel : chist[c].sample_count \in Nat
  BY DEF Measured, IInv, Types, Hist
<1>3. CASE UNCHANGED <<chist, calls, fiber>>
  BY <1>2, <1>3
<1>4. CASE MainStep
  BY <1>3, <1>4, Zenon DEF MainStep, ServersStarted, LoadStart, Connected, Benchmarked, Write,
     ServersStopped, LoadStopped, benchVars, histVars
<1>5. CASE \E s \in Shard : ShardStep(s)
  <2>1. PICK s \in Shard : ShardStep(s) BY <1>5
  <2>2. CASE ServerStart(s) \/ Launched(s) \/ BenchEnd(s) \/ Reduce(s) \/ StopServer(s) \/ StopLoad(s)
    BY <1>3, <2>2, Zenon DEF ServerStart, Launched, BenchEnd, Reduce, StopServer, StopLoad,
       benchVars, histVars
  <2>3. CASE BenchBegin(s)
    <3>1. /\ bench[s] = "none" /\ UNCHANGED <<chist, calls>>
          /\ fiber' = [c \in Channel |-> IF c \in On(s) THEN "wait" ELSE fiber[c]]
      BY <2>3 DEF BenchBegin, histVars
    <3>2. \A c \in On(s) : fiber[c] = "none"
      BY <3>1, Zenon DEF IInv, Fibers, On
    <3>3. \A c \in Channel : N(fiber', c) = N(fiber, c)
      BY <3>1, <3>2
    <3> QED BY <1>2, <3>1, <3>3
  <2> QED BY <2>1, <2>2, <2>3, Zenon DEF ShardStep
<1>6. CASE \E c \in Channel : ChannelStep(c)
  <2>1. PICK c \in Channel : ChannelStep(c) BY <1>6
  <2>2. CASE Connect(c) \/ Dispatch(c) \/ Reply(c) \/ JobEnd(c)
    BY <1>3, <2>2, Zenon DEF Connect, Dispatch, Reply, JobEnd, benchVars, histVars
  <2>3. CASE Launch(c)
    <3>1. fiber[c] = "wait" /\ UNCHANGED <<chist, calls>>
          /\ \E to \in {"threw", "loop"} : fiber' = [fiber EXCEPT ![c] = to]
      BY <2>3, Zenon DEF Launch, histVars
    <3> QED BY <1>2, <3>1
  <2>4. CASE Iterate(c)
    <3>1. /\ UNCHANGED chist /\ fiber[c] = "loop"
          /\ \/ calls' = calls /\ \E to \in {"done", "failed"} : fiber' = [fiber EXCEPT ![c] = to]
             \/ calls' = [calls EXCEPT ![c] = @ + 1] /\ fiber' = [fiber EXCEPT ![c] = "call"]
      BY <2>4 DEF Iterate, MakesCall, FiberEnds, histVars
    <3> QED BY <1>2, <3>1
  <2>5. CASE Answered(c) \/ (Lost(c) /\ fiber[c] = "call")
    <3>1. /\ UNCHANGED calls /\ fiber[c] = "call"
          /\ \E to \in {"loop", "failed"} : fiber' = [fiber EXCEPT ![c] = to]
          /\ \E v \in Sample : chist' = [chist EXCEPT ![c] = Record(@, v)]
      BY <2>5, Zenon DEF Answered, Lost, FiberEnds, MeasureEnds
    <3>2. PICK v \in Sample : chist' = [chist EXCEPT ![c] = Record(chist[c], v)]
      BY <3>1, Zenon
    <3>3. Record(chist[c], v) \in Hist
          /\ Record(chist[c], v).sample_count = chist[c].sample_count + 1
      BY <1>2, RecordCounted
    <3> QED BY <1>2, <3>1, <3>2, <3>3
  <2>6. CASE Lost(c) /\ fiber[c] # "call"
    BY <1>3, <2>6, Zenon DEF Lost
  <2> QED BY <2>1, <2>2, <2>3, <2>4, <2>5, <2>6, Zenon DEF ChannelStep
<1>7. CASE UNCHANGED vars
  BY <1>3, <1>7, Zenon DEF vars, histVars, benchVars
<1> QED BY <1>4, <1>5, <1>6, <1>7 DEF Next

\* At the start nothing was recorded.
LEMMA InitRecorded == Init => Recorded
<1> DEFINE z == [v \in Sample |-> 0]
<1>1. z \in [Sample -> Nat] /\ Total(z) = 0 /\ Tracked(z) = MakeHistogram.counts
  BY NothingTook
<1>2. MakeHistogram.sample_count = 0
  BY DEF MakeHistogram
<1> SUFFICES ASSUME Init PROVE Recorded
  OBVIOUS
<1>3. chist = [c \in Channel |-> MakeHistogram] /\ took = [c \in Channel |-> z]
  BY Zenon DEF Init
<1> HIDE DEF z
<1> QED BY <1>1, <1>2, <1>3 DEF Recorded

\* Only the end of a call records, in the histogram of its client.
LEMMA RecordedStep ==
  ASSUME Measured, Recorded, [Next]_vars
  PROVE  Recorded'
<1>0. args' = args /\ Channel' = Channel
  BY ArgsStay, SameCores
<1>1. UNCHANGED <<took, chist>> \/ \E c \in Channel : MeasureEnds(c)
  BY Zenon DEF Next, MainStep, ShardStep, ChannelStep, vars, histVars,
     ServersStarted, LoadStart, Connected, Benchmarked, Write, ServersStopped, LoadStopped,
     ServerStart, BenchBegin, Launched, BenchEnd, Reduce, StopServer, StopLoad,
     Connect, Launch, Iterate, Answered, Lost, Dispatch, Reply, JobEnd
<1>2. /\ took \in [Channel -> [Sample -> Nat]] /\ chist \in [Channel -> Hist]
      /\ \A c \in Channel : /\ Total(took[c]) = chist[c].sample_count
                            /\ chist[c].counts = Tracked(took[c])
  BY DEF Measured, Recorded
<1>3. CASE UNCHANGED <<took, chist>>
  BY <1>0, <1>2, <1>3, Zenon DEF Recorded, Tracked, CountedAs
<1>4. ASSUME NEW c \in Channel, MeasureEnds(c)
      PROVE  Recorded'
  <2> DEFINE t == took[c]
             h == chist[c]
  <2>0. t \in [Sample -> Nat] /\ h \in Hist /\ h.counts = Tracked(t) /\ Total(t) = h.sample_count
    BY <1>2
  <2>1. PICK v \in Sample : /\ chist' = [chist EXCEPT ![c] = Record(h, v)]
                            /\ took' = [took EXCEPT ![c] = [t EXCEPT ![v] = t[v] + 1]]
    BY <1>4, Zenon DEF MeasureEnds
  <2> HIDE DEF t, h
  <2> DEFINE r == Record(h, v)
             u == [t EXCEPT ![v] = t[v] + 1]
  <2>2. r.sample_count = h.sample_count + 1
    BY <2>0, RecordCounted, Zenon
  <2>3. u \in [Sample -> Nat] /\ Total(u) = Total(t) + 1 /\ r.counts = Tracked(u)
    BY <2>0, OneMoreTook, Zenon
  <2>4. Total(u) = r.sample_count
    BY <2>0, <2>2, <2>3, Zenon
  <2>5. chist' = [chist EXCEPT ![c] = r] /\ took' = [took EXCEPT ![c] = u]
    BY <2>1, Zenon
  <2> HIDE DEF r, u
  <2>6. /\ took' \in [Channel -> [Sample -> Nat]]
        /\ \A d \in Channel : /\ Total(took'[d]) = chist'[d].sample_count
                              /\ chist'[d].counts = Tracked(took'[d])
    BY <1>2, <2>3, <2>4, <2>5
  <2> QED BY <1>0, <2>6, Zenon DEF Recorded, Tracked, CountedAs
<1> QED BY <1>1, <1>3, <1>4

-----------------------------------------------------------------------------
(* The histograms of the servers.                                          *)

\* At the start the servers have no samples.
LEMMA InitServed == Init => Served
<1> SUFFICES ASSUME Init PROVE Served
  OBVIOUS
<1>1. 1 \in Shard
  BY LoadAssumption DEF Init, Shard
<1> QED BY <1>1, MakeCounted DEF Init, Served

\* Only the end of a request's fiber records a sample, on the core that accepted
\* the connection.
LEMMA ServedStep ==
  ASSUME Served, [Next]_vars
  PROVE  Served'
<1>0. args' = args
  BY ArgsStay
<1>1. SUFFICES home' \in [Channel -> Shard] /\ shist' \in [Shard -> Counted]
  BY <1>0, SameCores DEF Served
<1>2. home \in [Channel -> Shard] /\ shist \in [Shard -> Counted]
  BY DEF Served
<1>3. CASE UNCHANGED <<home, shist>>
  BY <1>2, <1>3
<1>4. CASE MainStep
  BY <1>3, <1>4, Zenon DEF MainStep, ServersStarted, LoadStart, Connected, Benchmarked, Write,
     ServersStopped, LoadStopped, connVars, histVars
<1>5. CASE \E s \in Shard : ShardStep(s)
  BY <1>3, <1>5, Zenon DEF ShardStep, ServerStart, BenchBegin, Launched, BenchEnd, Reduce, StopServer,
     StopLoad, connVars, histVars
<1>6. CASE \E c \in Channel : ChannelStep(c)
  <2>1. PICK c \in Channel : ChannelStep(c) BY <1>6
  <2>2. CASE Launch(c) \/ Iterate(c) \/ Answered(c) \/ Lost(c) \/ Dispatch(c) \/ Reply(c)
    BY <1>3, <2>2, Zenon DEF Launch, Iterate, Answered, Lost, Dispatch, Reply, connVars, histVars
  <2>3. CASE Connect(c)
    <3>1. shist' = shist /\ (home' = home \/ \E s \in Shard : home' = [home EXCEPT ![c] = s])
      BY <2>3 DEF Connect, histVars
    <3> QED BY <1>2, <3>1
  <2>4. CASE JobEnd(c)
    <3>1. home' = home /\ \E v \in Sample : shist' = [shist EXCEPT ![home[c]] = Record(@, v)]
      BY <2>4, Zenon DEF JobEnd, connVars
    <3>2. PICK v \in Sample : shist' = [shist EXCEPT ![home[c]] = Record(shist[home[c]], v)]
      BY <3>1, Zenon
    <3>3. home[c] \in Shard /\ shist[home[c]] \in Counted
      BY <1>2
    <3>4. Record(shist[home[c]], v) \in Counted
      BY <3>3, RecordCounted DEF Counted
    <3> QED BY <1>2, <3>1, <3>2, <3>4
  <2> QED BY <2>1, <2>2, <2>3, <2>4 DEF ChannelStep
<1>7. CASE UNCHANGED vars
  BY <1>3, <1>7 DEF vars, connVars, histVars
<1> QED BY <1>4, <1>5, <1>6, <1>7 DEF Next

\* Whatever a server measured, its export is what prometheus expects.
LEMMA ServedExports == ASSUME Served PROVE MetricsMatchSamples
<1> SUFFICES ASSUME NEW s \in Shard
             PROVE  /\ SeastarHistogramLogform(shist[s]).buckets = Exported(shist[s])
                    /\ SeastarHistogramLogform(shist[s]).sample_count
                         >= Exported(shist[s])[NumBuckets].count
  BY DEF MetricsMatchSamples
<1> DEFINE h == shist[s]
<1>1. h \in Hist /\ Total(h.counts) <= h.sample_count
  BY DEF Served, Counted
<1> HIDE DEF h
<1>2. h.counts \in [Class -> Nat] /\ h.sample_count \in Nat
  BY <1>1 DEF Hist
<1>3. SeastarHistogramLogform(h).buckets = Exported(h)
  BY <1>1, LogformExports
<1>4. NumBuckets \in 1 .. NumBuckets
  BY HistogramAssumption
<1>5. Exported(h)[NumBuckets].count = HdrCumulative(h.counts, HdrLevel(NumBuckets))
  BY <1>4, Zenon DEF Exported, HdrCumulative, HdrLevel
<1>6. HdrCumulative(h.counts, HdrLevel(NumBuckets)) <= Total(h.counts)
      /\ HdrCumulative(h.counts, HdrLevel(NumBuckets)) \in Nat /\ Total(h.counts) \in Nat
  BY <1>2, CountsAsSums
<1>7. SeastarHistogramLogform(h).sample_count = h.sample_count
  BY DEF SeastarHistogramLogform
<1>8. h.sample_count >= HdrCumulative(h.counts, HdrLevel(NumBuckets))
  BY <1>1, <1>2, <1>6
<1> QED BY <1>3, <1>5, <1>7, <1>8 DEF h

-----------------------------------------------------------------------------
(* The files.                                                              *)

\* The channels of all cores are the channels; those of one core more are added.
LEMMA CoresVisited ==
  /\ Of({}) = {} /\ Of(Shard) = Channel
  /\ \A R, s : s \notin R => Of(R \cup {s}) = Of(R) \cup On(s) /\ Of(R) \cap On(s) = {}
BY ChannelOnShard DEF Of, On

\* What a core copies is a histogram: that of its server, or the sum of its channels'.
LEMMA Copies ==
  ASSUME IInv, Measured, Served, NEW s \in Shard
  PROVE  /\ CopyClients(s) = PlusAll(chist, On(s)) /\ CopyClients(s) \in Hist
         /\ CopyServer(s) \in Hist
<1>1. CopyClients(s) = PlusAll(chist, On(s))
  BY Zenon DEF CopyClients, PlusAll
<1>2. IsFiniteSet(Channel) /\ chist \in [Channel -> Hist]
  BY ChannelsFinite DEF Measured, IInv, Types
<1>3. On(s) \in SUBSET Channel
  BY Zenon DEF On
<1>4. PlusAll(chist, On(s)) \in Hist
  BY <1>2, <1>3, PlusFolds, Zenon
<1>5. shist[s] \in Hist
  BY DEF Served, Counted
<1>6. CopyServer(s) \in Hist
  BY <1>5, MakeType, PlusType DEF CopyServer
<1> QED BY <1>1, <1>4, <1>6

\* Before the first core is visited nothing is added.
LEMMA NoneAdded == ASSUME IInv, Measured PROVE PlusAll(chist, Of({})) = MakeHistogram
<1>1. IsFiniteSet(Channel) /\ chist \in [Channel -> Hist]
  BY ChannelsFinite DEF Measured, IInv, Types
<1>2. PlusAll(chist, {}) = MakeHistogram
  BY <1>1, PlusFolds, Zenon
<1> QED BY <1>2, CoresVisited, Zenon

\* The sum goes on with the channels of the core that is visited.
LEMMA ReducedMore ==
  ASSUME IInv, Measured, Served, NEW R \in SUBSET Shard, NEW s \in Shard \ R,
         NEW h \in Hist, h.counts = PlusAll(chist, Of(R)).counts
  PROVE  Plus(h, CopyClients(s)).counts = PlusAll(chist, Of(R \cup {s})).counts
<1> DEFINE V == Of(R)
           W == On(s)
<1>1. IsFiniteSet(Channel) /\ chist \in [Channel -> Hist]
  BY ChannelsFinite DEF Measured, IInv, Types
<1>2. V \in SUBSET Channel /\ W \in SUBSET Channel
  BY Zenon DEF Of, On
<1>3. Of(R \cup {s}) = V \cup W /\ V \cap W = {}
  BY CoresVisited
<1>4. CopyClients(s) = PlusAll(chist, W)
  BY Copies, Zenon
<1> HIDE DEF V, W
<1>5. h.counts = PlusAll(chist, V).counts
  BY Zenon DEF V
<1>6. \A A, B \in SUBSET Channel :
        A \cap B = {} /\ h.counts = PlusAll(chist, A).counts =>
          Plus(h, PlusAll(chist, B)).counts = PlusAll(chist, A \cup B).counts
  BY <1>1, PlusMore
<1>7. Plus(h, PlusAll(chist, W)).counts = PlusAll(chist, V \cup W).counts
  BY <1>2, <1>3, <1>5, <1>6, Zenon
<1> QED BY <1>3, <1>4, <1>7, Zenon

\* At the start there are no files.
LEMMA InitSummed == Init => SummedUp
<1> SUFFICES ASSUME Init PROVE SummedUp
  OBVIOUS
<1>1. file = [client |-> None, server |-> None] /\ reduced = {} /\ acc = MakeHistogram
  BY DEF Init
<1>2. main \notin {"reduce", "sreduce"}
  BY DEF Init
<1>3. file \in [{"client", "server"} -> Hist \cup {None}] /\ file.client = None
  BY <1>1
<1> QED BY <1>1, <1>2, <1>3, MakeType DEF SummedUp

\* map_reduce visits the cores one by one when no client measures any more, and what
\* is written is its sum.
LEMMA SummedStep ==
  ASSUME IInv, Measured, Served, SummedUp, [Next]_vars
  PROVE  SummedUp'
<1>0. args' = args /\ Shard' = Shard /\ Channel' = Channel /\ \A R : Of(R)' = Of(R)
  BY ArgsStay, SameCores DEF Of
<1>1. ASSUME main # "bench" PROVE chist' = chist
  <2>1. \A c \in Channel : fiber[c] # "call"
    BY <1>1, NoFiberOutside
  <2> QED BY <2>1, Zenon DEF Next, MainStep, ShardStep, ChannelStep, vars, histVars,
     ServersStarted, LoadStart, Connected, Benchmarked, Write, ServersStopped, LoadStopped,
     ServerStart, BenchBegin, Launched, BenchEnd, Reduce, StopServer, StopLoad,
     Connect, Launch, Iterate, Answered, Lost, Dispatch, Reply, JobEnd
<1>2. CASE UNCHANGED <<main, reduced, acc, file>>
  <2>1. CASE main = "bench"
    BY <1>0, <1>2, <2>1 DEF SummedUp
  <2>2. CASE main # "bench"
    BY <1>0, <1>1, <1>2, <2>2 DEF SummedUp
  <2> QED BY <2>1, <2>2
<1>3. CASE /\ UNCHANGED <<reduced, acc, file>>
           /\ main \notin {"reduce", "sreduce"} /\ main' \notin {"reduce", "sreduce"}
           /\ main \in {"bench", "stop_rpc", "stop_load"} \/ file.client = None
           /\ main' \notin {"server", "load", "connect", "bench"} \/ file.client = None
  <2>1. CASE main = "bench"
    BY <1>0, <1>3, <2>1 DEF SummedUp
  <2>2. CASE main # "bench"
    BY <1>0, <1>1, <1>3, <2>2 DEF SummedUp
  <2> QED BY <2>1, <2>2
<1>4. ASSUME main \in {"server", "load", "connect", "bench", "reduce"} PROVE file.client = None
  BY <1>4 DEF SummedUp
<1>5. CASE ServersStarted \/ LoadStart \/ Connected
  <2>1. UNCHANGED <<reduced, acc, file>> /\ main \in {"server", "load", "connect"}
        /\ main' \in {"load", "connect", "bench", "stop_rpc", "stop_load", "crashed"}
    BY <1>5, Zenon DEF ServersStarted, LoadStart, Connected, Exits, fileVars
  <2> QED BY <1>3, <1>4, <2>1
<1>6. CASE ServersStopped \/ LoadStopped
  <2>1. UNCHANGED <<reduced, acc, file>> /\ main \in {"stop_rpc", "stop_load"}
        /\ main' \in {"stop_load", "done"}
    BY <1>6 DEF ServersStopped, LoadStopped, fileVars
  <2> QED BY <1>3, <2>1
<1>7. CASE Benchmarked
  <2>1. /\ UNCHANGED <<reduced, acc, file, chist>> /\ main = "bench"
        /\ main' \in {"reduce", "stop_rpc", "stop_load"}
    BY <1>7 DEF Benchmarked, Exits, fileVars, histVars
  <2>2. reduced = {} /\ acc = MakeHistogram /\ file.client = None
    BY <2>1 DEF SummedUp
  <2>3. PlusAll(chist, Of({})) = MakeHistogram
    BY NoneAdded
  <2> QED BY <1>0, <2>1, <2>2, <2>3 DEF SummedUp
<1>8. CASE Write
  <2>1. /\ main \in {"reduce", "sreduce"} /\ reduced = Shard
        /\ reduced' = {} /\ acc' = MakeHistogram /\ UNCHANGED chist
        /\ main' \in {"sreduce", "stop_rpc", "stop_load"}
        /\ \/ file' = file \/ Written(IF main = "reduce" THEN "client" ELSE "server")
    BY <1>8 DEF Write, Exits, histVars
  <2>2. main = "reduce" => acc.counts = PlusAll(chist, Channel).counts
    BY <2>1, CoresVisited DEF SummedUp
  <2>3. file' = file \/ /\ file' = [file EXCEPT !["client"] = acc] /\ main = "reduce"
                     \/ /\ file' = [file EXCEPT !["server"] = acc] /\ main = "sreduce"
    BY <2>1 DEF Written
  <2>4. acc \in Hist /\ file \in [{"client", "server"} -> Hist \cup {None}]
        /\ (file.client # None => /\ main = "sreduce"
                                  /\ file.client.counts = PlusAll(chist, Channel).counts)
    BY <2>1 DEF SummedUp
  <2>5. file' \in [{"client", "server"} -> Hist \cup {None}]
        /\ (file'.client # None => file'.client.counts = PlusAll(chist, Channel).counts)
    BY <2>2, <2>3, <2>4
  <2>6. MakeHistogram \in Hist
    BY MakeType
  <2> QED BY <1>0, <2>1, <2>5, <2>6, Zenon DEF SummedUp
<1>9. ASSUME NEW s \in Shard, Reduce(s)
      PROVE  SummedUp'
  <2>1. /\ main \in {"reduce", "sreduce"} /\ s \notin reduced /\ reduced' = reduced \cup {s}
        /\ acc' = Plus(acc, IF main = "reduce" THEN CopyClients(s) ELSE CopyServer(s))
        /\ UNCHANGED <<file, main, chist>>
    BY <1>9 DEF Reduce, progVars, histVars
  <2>2. acc \in Hist /\ reduced \in SUBSET Shard
        /\ (main = "reduce" => acc.counts = PlusAll(chist, Of(reduced)).counts)
    BY <2>1, Zenon DEF SummedUp
  <2>3. CopyClients(s) \in Hist /\ CopyServer(s) \in Hist
    BY Copies, Zenon
  <2>4. acc' \in Hist
    BY <2>1, <2>2, <2>3, PlusType, Zenon
  <2>5. main = "reduce" => Plus(acc, CopyClients(s)).counts = PlusAll(chist, Of(reduced \cup {s})).counts
    <3>1. s \in Shard \ reduced
      BY <2>1
    <3> QED BY <2>2, <3>1, ReducedMore, Zenon
  <2>6. main = "reduce" => acc'.counts = PlusAll(chist, Of(reduced')).counts
    BY <2>1, <2>5, Zenon
  <2>7. reduced' \in SUBSET Shard
    BY <2>1, <2>2
  <2> QED BY <1>0, <2>1, <2>4, <2>6, <2>7, Zenon DEF SummedUp
<1>10. ASSUME NEW s \in Shard, StopServer(s)
       PROVE  SummedUp'
  <2>1. UNCHANGED <<reduced, acc, file>> /\ main = "stop_rpc" /\ main' \in {"stop_rpc", "crashed"}
    BY <1>10 DEF StopServer, fileVars
  <2> QED BY <1>3, <2>1
<1>11. CASE MainStep
  BY <1>5, <1>6, <1>7, <1>8, <1>11 DEF MainStep
<1>12. CASE \E s \in Shard : ShardStep(s)
  <2>1. PICK s \in Shard : ShardStep(s) BY <1>12
  <2>2. CASE ServerStart(s) \/ BenchBegin(s) \/ Launched(s) \/ BenchEnd(s) \/ StopLoad(s)
    BY <1>2, <2>2, Zenon DEF ServerStart, BenchBegin, Launched, BenchEnd, StopLoad, progVars, fileVars
  <2> QED BY <1>9, <1>10, <2>1, <2>2 DEF ShardStep
<1>13. CASE \E c \in Channel : ChannelStep(c)
  BY <1>2, <1>13, Zenon DEF ChannelStep, Connect, Launch, Iterate, Answered, Lost, Dispatch, Reply, JobEnd,
     progVars, fileVars
<1>14. CASE UNCHANGED vars
  BY <1>2, <1>14 DEF vars, progVars, fileVars
<1> QED BY <1>11, <1>12, <1>13, <1>14 DEF Next

-----------------------------------------------------------------------------
\* All of the above, for every number of cores, channels and requests.
LoadInv == IInv /\ Clients /\ Measured /\ Recorded /\ Served /\ SummedUp

\* The invariant of the generator, its channels, its histograms and its files.
THEOREM LoadInvariance == Spec => []LoadInv
<1>1. Init => LoadInv
  BY InitIInv, InitClients, InitMeasured, InitRecorded, InitServed, InitSummed DEF LoadInv
<1>2. IInv /\ [Next]_vars => IInv'
  BY MainIInv, ShardIInv, ChannelIInv, StutterIInv DEF Next
<1>3. LoadInv /\ [Next]_vars => LoadInv'
  BY <1>2, ClientsStep, MeasuredStep, RecordedStep, ServedStep, SummedStep DEF LoadInv
<1> QED BY <1>1, <1>3, PTL DEF Spec

\* A channel sends all its requests unless its own connection broke.
LEMMA IndependentChannels == LoadInv => ChannelsIndependent
<1> SUFFICES ASSUME LoadInv, NEW c \in Channel, bench[c[1]] = "ended"
             PROVE  sent[c] = ReqsPerChannel \/ conn[c] # "up"
  BY DEF ChannelsIndependent
<1>1. fiber[c] \in {"done", "failed"}
  BY DEF LoadInv, IInv, Fibers
<1> QED BY <1>1 DEF LoadInv, Clients

\* The file of the clients was written when every call was measured.
LEMMA TrackedCallsInFile == LoadInv => FileHasTrackedCalls
<1> SUFFICES ASSUME LoadInv, file.client # None
             PROVE  /\ \A c \in Channel : /\ Total(took[c]) = calls[c]
                                          /\ chist[c].sample_count = calls[c]
                    /\ file.client.counts = [k \in Class |-> Total(CallsOf(k))]
  BY DEF FileHasTrackedCalls
<1>1. main # "bench" /\ file.client.counts = PlusAll(chist, Channel).counts
  BY DEF LoadInv, SummedUp
<1>2. \A c \in Channel : fiber[c] # "call"
  BY <1>1, NoFiberOutside DEF LoadInv
<1>3. \A c \in Channel : Total(took[c]) = calls[c] /\ chist[c].sample_count = calls[c]
  BY <1>2 DEF LoadInv, Measured, Recorded, Hist
<1>4. /\ IsFiniteSet(Channel) /\ chist \in [Channel -> Hist] /\ took \in [Channel -> [Sample -> Nat]]
      /\ \A c \in Channel : chist[c].counts = Tracked(took[c])
  BY ChannelsFinite DEF LoadInv, Measured, Recorded, IInv, Types
<1>5. ASSUME NEW k \in Class
      PROVE  PlusAll(chist, Channel).counts[k] = Total(CallsOf(k))
  <2> DEFINE f == CountsOf(chist, k)
             g == CallsOf(k)
  <2>1. DOMAIN g = Channel /\ \A c \in Channel : g[c] = Tracked(took[c])[k]
    BY Zenon DEF CallsOf, Tracked, CountedAs
  <2>2. \A c \in Channel : f[c] = chist[c].counts[k] /\ f[c] \in Nat
    BY <1>4 DEF CountsOf, Hist
  <2>3. PlusAll(chist, Channel).counts[k] = SumOver(f, Channel)
    <3>1. \A Q \in SUBSET Channel : PlusAll(chist, Q).counts[k] = SumOver(f, Q)
      BY <1>4, PlusAllCounts
    <3> QED BY <3>1
  <2> HIDE DEF f, g
  <2>4. Total(g) = SumOver(g, Channel)
    BY <2>1, Zenon DEF Total, SumOver
  <2>5. \A c \in Channel : f[c] \in Nat /\ g[c] = f[c]
    BY <1>4, <2>1, <2>2, Zenon
  <2>6. SumOver(g, Channel) = SumOver(f, Channel)
    BY <1>4, <2>5, SumSame, Zenon
  <2> QED BY <2>3, <2>4, <2>6, Zenon DEF g
<1>6. PlusAll(chist, Channel) \in Hist
  BY <1>4, PlusFolds, Zenon
<1>7. file.client.counts = [k \in Class |-> Total(CallsOf(k))]
  <2> DEFINE p == PlusAll(chist, Channel).counts
             q == [k \in Class |-> Total(CallsOf(k))]
  <2>1. p \in [Class -> Nat]
    BY <1>6 DEF Hist
  <2>2. \A k \in Class : p[k] = q[k]
    BY <1>5, Zenon
  <2>3. DOMAIN q = Class
    BY Zenon
  <2>4. q = [k \in Class |-> q[k]]
    BY Zenon
  <2> HIDE DEF p, q
  <2>5. p = q
    BY <2>1, <2>2, <2>3, <2>4
  <2> QED BY <1>1, <2>5, Zenon DEF p, q
<1> QED BY <1>3, <1>7

\* What happens to one channel does not keep another from sending all its requests.
THEOREM ChannelsInvariant == Spec => []ChannelsIndependent
BY LoadInvariance, IndependentChannels, PTL

\* The file of the clients is written when every call is over and measured once, and
\* counts of every value the calls of all channels that lasted so long, but for those
\* beyond what hdr_histogram tracks.
THEOREM FileInvariant == Spec => []FileHasTrackedCalls
BY LoadInvariance, TrackedCallsInFile, PTL

\* Whatever samples the servers record, also ones beyond what hdr_histogram tracks,
\* the metrics they export match them.
THEOREM MetricsInvariant == Spec => []MetricsMatchSamples
<1>1. LoadInv => MetricsMatchSamples
  BY ServedExports DEF LoadInv
<1> QED BY <1>1, LoadInvariance, PTL

-----------------------------------------------------------------------------
(* The test programs.                                                      *)

\* The scripts without a client.
NoClient == {RecvTimeout, WriteHistogram}

\* Where a script is says what became of its client and of its expectations.
ScriptInv ==
  /\ script \in Scripts \cup {<<>>} /\ at \in Nat \ {0}
  /\ exit \in {"none", "running", "0", "1", "crash"}
  /\ script = <<>> => exit = "none"
  /\ exit = "none" => client = "none" /\ missed = FALSE
  /\ script \in NoClient => client = "none"
  /\ exit = "running" /\ at > Len(script) /\ script \notin NoClient => client = "stopped"
  /\ exit = "0" => client \in {"none", "stopped"}
  /\ script \in Strict /\ exit \in {"running", "0"} => missed = FALSE

\* Every script with a client ends with its stop(); the others use none.
LEMMA ScriptEnds ==
  /\ \A s \in Scripts \ NoClient : s[Len(s)] = "stop"
  /\ \A s \in NoClient : \A i \in 1 .. Len(s) : s[i] \in {"listen", "send_header", "write"}
  /\ \A s \in Scripts : Len(s) \in Nat \ {0} /\ s # <<>>
<1>1. /\ SendTimeout[Len(SendTimeout)] = "stop" /\ Len(SendTimeout) = 4
      /\ ReconnectWithTimeout[Len(ReconnectWithTimeout)] = "stop" /\ Len(ReconnectWithTimeout) = 6
      /\ Backpressure[Len(Backpressure)] = "stop" /\ Len(Backpressure) = 5
  BY DEF SendTimeout, ReconnectWithTimeout, Backpressure
<1>2. /\ Hystrix[Len(Hystrix)] = "stop" /\ Len(Hystrix) = 3
      /\ MultipleRemoteAddrs[Len(MultipleRemoteAddrs)] = "stop" /\ Len(MultipleRemoteAddrs) = 10
  BY DEF Hystrix, MultipleRemoteAddrs
<1>3. /\ Len(RecvTimeout) = 2 /\ Len(WriteHistogram) = 1
      /\ RecvTimeout[1] = "listen" /\ RecvTimeout[2] = "send_header" /\ WriteHistogram[1] = "write"
  BY DEF RecvTimeout, WriteHistogram
<1>4. \A i \in 1 .. 2 : i = 1 \/ i = 2
  OBVIOUS
<1>5. \A s \in Scripts \ NoClient : s \in {SendTimeout, ReconnectWithTimeout, Backpressure, Hystrix,
                                           MultipleRemoteAddrs}
  BY Zenon DEF Scripts, NoClient
<1>6. \A s \in Scripts \ NoClient : s[Len(s)] = "stop"
  BY <1>1, <1>2, <1>5, Zenon
<1>7. \A s \in NoClient : \A i \in 1 .. Len(s) : s[i] \in {"listen", "send_header", "write"}
  BY <1>3, <1>4 DEF NoClient
<1>8. \A s \in Scripts : Len(s) \in Nat \ {0} /\ s # <<>>
  <2>0. \A s \in Scripts : Len(s) \in {1, 2, 3, 4, 5, 6, 10}
    BY <1>1, <1>2, <1>3, Zenon DEF Scripts
  <2>1. \A s \in Scripts : Len(s) \in Nat \ {0}
    <3>1. \A n \in {1, 2, 3, 4, 5, 6, 10} : n \in Nat \ {0}
      OBVIOUS
    <3> QED BY <2>0, <3>1, Zenon
  <2>2. Len(<<>>) = 0
    OBVIOUS
  <2> QED BY <2>1, <2>2
<1> QED BY <1>6, <1>7, <1>8

\* The steps after which a test goes on though what it expects did not happen.
Lenient == {"call_must_fail", "call_or_reconnect", "timed_call", "send_header", "write"}

\* The strict tests have none of them.
LEMMA StrictTests ==
  \A s \in Strict : \A i \in 1 .. Len(s) : s[i] \notin Lenient
<1>1. \A i \in 1 .. Len(Hystrix) : Hystrix[i] \in {"dial", "check_backoff", "stop"}
  BY DEF Hystrix
<1>2. \A i \in 1 .. Len(MultipleRemoteAddrs) :
        MultipleRemoteAddrs[i] \in {"listen", "interfaces", "connect", "call", "check", "stop"}
  BY DEF MultipleRemoteAddrs
<1> QED BY <1>1, <1>2 DEF Strict, Lenient

\* Only the program that has no client writes a file.
LEMMA WritesOnly ==
  \A s \in Scripts : \A i \in 1 .. Len(s) : s[i] = "write" => s \in NoClient
<1>1. /\ \A i \in 1 .. Len(SendTimeout) : SendTimeout[i] # "write"
      /\ \A i \in 1 .. Len(ReconnectWithTimeout) : ReconnectWithTimeout[i] # "write"
      /\ \A i \in 1 .. Len(Backpressure) : Backpressure[i] # "write"
  BY DEF SendTimeout, ReconnectWithTimeout, Backpressure
<1>2. \A s \in Strict : \A i \in 1 .. Len(s) : s[i] # "write"
  BY StrictTests DEF Lenient
<1>3. \A s \in Scripts : \/ s \in NoClient \/ s \in Strict
                         \/ s \in {SendTimeout, ReconnectWithTimeout, Backpressure}
  BY Zenon DEF Scripts, Strict, NoClient
<1> QED BY <1>1, <1>2, <1>3

\* A step of a script.
LEMMA ScriptStep ==
  ASSUME ScriptInv, TestStep
  PROVE  ScriptInv'
<1>0. exit = "running" /\ script' = script /\ script \in Scripts /\ at \in Nat /\ Len(script) \in Nat
  <2>1. exit = "running" /\ script' = script
    BY Zenon DEF TestStep, ListenStep, SendHeader, WriteStep, CheckBackoff, Interfaces, ConnectStep, DialStep, CallStep,
           CallMustFail, CallOrReconnect, TimedCall, Check, StopStep, Return, Awaits
  <2>2. script # <<>>
    BY <2>1 DEF ScriptInv
  <2> QED BY <2>1, <2>2, ScriptEnds DEF ScriptInv
<1>1. CASE Return
  <2>1. at > Len(script) /\ exit' = "0" /\ UNCHANGED <<at, client, missed>>
    BY <1>1 DEF Return
  <2>2. client \in {"none", "stopped"}
    BY <1>0, <2>1 DEF ScriptInv
  <2> QED BY <1>0, <2>1, <2>2 DEF ScriptInv
<1>2. CASE ~Return
  <2>1. PICK op : /\ Awaits(op)
                  /\ op \in {"listen", "send_header", "write"} => client' = client
                  /\ op = "stop" => client' = "stopped"
                  /\ \/ Proceeds /\ (missed' = missed \/ op \in Lenient)
                     \/ Throws \/ Crashes
                     \/ op = "write" /\ at' = at /\ exit' = "0"
    BY <1>2, Zenon DEF Lenient, TestStep, ListenStep, SendHeader, WriteStep, CheckBackoff, Interfaces, ConnectStep, DialStep, CallStep,
           CallMustFail, CallOrReconnect, TimedCall, Check, StopStep
  <2>2. at <= Len(script) /\ script[at] = op
    BY <2>1 DEF Awaits
  <2>3. /\ at' \in {at, at + 1} /\ exit' \in {"running", "0", "1", "crash"}
        /\ exit' = "running" => at' = at + 1
        /\ exit' = "0" => op = "write"
    BY <1>0, <2>1 DEF Proceeds, Throws, Crashes
  <2>4. at # 0
    BY DEF ScriptInv
  <2>5. at \in 1 .. Len(script)
    BY <1>0, <2>2, <2>4
  <2>6. script \in NoClient => client' = "none"
    BY <2>1, <2>2, <2>5, ScriptEnds DEF ScriptInv
  <2>7. exit' = "running" /\ at' > Len(script) /\ script \notin NoClient => client' = "stopped"
    <3> SUFFICES ASSUME exit' = "running", at' > Len(script), script \notin NoClient
                 PROVE  client' = "stopped"
      OBVIOUS
    <3>1. at = Len(script)
      BY <1>0, <2>2, <2>3
    <3>2. op = "stop"
      BY <1>0, <2>2, <3>1, ScriptEnds
    <3> QED BY <2>1, <3>2
  <2>8. script \in Strict /\ exit' \in {"running", "0"} => missed' = FALSE
    <3> SUFFICES ASSUME script \in Strict, exit' \in {"running", "0"} PROVE missed' = FALSE
      BY Zenon
    <3>1. op \notin Lenient
      BY <2>2, <2>5, StrictTests
    <3>2. missed' = missed
      BY <2>1, <3>1 DEF Throws, Crashes, Lenient
    <3> QED BY <1>0, <3>2 DEF ScriptInv
  <2>9. at' \in Nat /\ at' # 0
    BY <1>0, <2>3, <2>4
  <2>10. exit' = "0" => client' \in {"none", "stopped"}
    <3> SUFFICES ASSUME op = "write" PROVE script \in NoClient
      BY <2>3, <2>6
    <3> QED BY <1>0, <2>2, <2>5, WritesOnly
  <2> QED BY <1>0, <2>3, <2>6, <2>7, <2>8, <2>9, <2>10 DEF ScriptInv
<1> QED BY <1>1, <1>2

-----------------------------------------------------------------------------
(* The runner.                                                             *)

Times == IF cfg.repeat_times > 1 THEN cfg.repeat_times ELSE 1

\* The runs that are over and those to come add up; cleaning up and passing come
\* after a run that returned 0.
RunnerInv ==
  /\ cfg \in Test /\ passed \in Nat /\ repeat \in Int
  /\ ScriptInv
  /\ IsLoad(cfg) => exit = "none"
  /\ runner \in {"load", "setup"} => passed = 0
  /\ runner \in {"run", "wait"} /\ passed # 0 =>
       repeat >= 0 /\ repeat + passed + 1 = cfg.repeat_times
  /\ runner \in {"clean", "passed"} => passed = Times /\ ReturnCode = 0
  /\ removed # {} => runner = "passed" /\ removed = {dir} /\ (dir = "tmp" \/ cfg.prefixed)

\* At the start nothing has run.
LEMMA InitRunner == RunnerInit => RunnerInv
<1> SUFFICES ASSUME RunnerInit PROVE RunnerInv
  OBVIOUS
<1>1. ScriptInv
  BY DEF RunnerInit, TestInit, ScriptInv, NoClient, Scripts
<1> QED BY <1>1 DEF RunnerInit, TestInit, RunnerInv

\* The program has the same return code while the runner goes on.
LEMMA SameReturnCode ==
  ASSUME UNCHANGED <<cfg, vars, testVars>>
  PROVE  ReturnCode' = ReturnCode /\ IsLoad(cfg)' = IsLoad(cfg) /\ Times' = Times
BY DEF ReturnCode, IsLoad, Times, vars, progVars, testVars

\* The steps of main().
LEMMA RunnerStep ==
  ASSUME RunnerInv, [RunnerNext]_allVars
  PROVE  RunnerInv'
<1>0. cfg.repeat_times \in Nat
  BY TestAssumption DEF RunnerInv
<1>1. ASSUME UNCHANGED testVars PROVE ScriptInv'
  BY <1>1 DEF RunnerInv, ScriptInv, testVars
<1>2. CASE LoadTestConfiguration \/ SetUpTestEnvironment
  <2>1. /\ UNCHANGED <<cfg, repeat, passed, removed, testVars>> /\ runner \in {"load", "setup"}
        /\ runner' \in {"setup", "failed", "run"}
    BY <1>2 DEF LoadTestConfiguration, SetUpTestEnvironment
  <2>2. removed = {} /\ passed = 0
    BY <2>1 DEF RunnerInv
  <2> QED BY <1>1, <2>1, <2>2 DEF RunnerInv, IsLoad, testVars
<1>3. CASE RunSubprocess
  <2>1. /\ UNCHANGED <<cfg, dir, repeat, passed, removed>> /\ runner = "run"
        /\ \/ runner' \in {"wait", "failed"} /\ UNCHANGED testVars
           \/ runner' = "wait" /\ ~IsLoad(cfg) /\ Started(cfg.binary)
    BY <1>3 DEF RunSubprocess
  <2>2. removed = {}
    BY <2>1 DEF RunnerInv
  <2>3. CASE UNCHANGED testVars
    BY <1>1, <2>1, <2>2, <2>3 DEF RunnerInv, IsLoad, testVars
  <2>4. CASE ~IsLoad(cfg) /\ Started(cfg.binary)
    <3>1. cfg.binary \in Scripts /\ Len(cfg.binary) \in Nat \ {0} /\ cfg.binary # <<>>
      BY <2>4, TestAssumption, ScriptEnds DEF IsLoad, RunnerInv
    <3>2. ~(1 > Len(cfg.binary))
      BY <3>1
    <3>3. ScriptInv'
      BY <2>4, <3>1, <3>2 DEF Started, ScriptInv
    <3> QED BY <2>1, <2>2, <2>4, <3>3 DEF RunnerInv, IsLoad
  <2> QED BY <2>1, <2>3, <2>4
<1>4. CASE ProgramStep
  <2>1. /\ UNCHANGED <<cfg, runner, dir, repeat, passed, removed>> /\ runner = "wait"
        /\ IF IsLoad(cfg) THEN UNCHANGED testVars ELSE TestStep
    BY <1>4 DEF ProgramStep, runnerVars
  <2>2. ScriptInv'
    BY <1>1, <2>1, ScriptStep DEF RunnerInv
  <2>3. IsLoad(cfg)' = IsLoad(cfg) /\ (IsLoad(cfg) => exit' = exit)
    BY <2>1 DEF IsLoad, testVars
  <2> QED BY <2>1, <2>2, <2>3 DEF RunnerInv
<1>5. CASE Waited
  <2>1. /\ UNCHANGED <<cfg, dir, removed, vars, testVars>> /\ runner = "wait"
        /\ \/ runner' \in {"exited", "failed"} /\ UNCHANGED <<passed, repeat>>
           \/ /\ ReturnCode = 0 /\ passed' = passed + 1 /\ repeat' = Remaining - 1
              /\ runner' = IF Remaining > 0 THEN "run" ELSE "clean"
    BY <1>5, Zenon DEF Waited
  <2>2. removed = {} /\ passed \in Nat /\ repeat \in Int
        /\ (passed # 0 => repeat >= 0 /\ repeat + passed + 1 = cfg.repeat_times)
    BY <2>1 DEF RunnerInv
  <2>3. Remaining \in Int /\ (passed = 0 => Remaining = cfg.repeat_times - 1)
        /\ (passed # 0 => Remaining = repeat)
    BY <1>0, <2>2 DEF Remaining
  <2>4. passed' \in Nat /\ repeat' \in Int
    BY <2>1, <2>2, <2>3
  <2>5. runner' = "run" => repeat' >= 0 /\ repeat' + passed' + 1 = cfg.repeat_times
    BY <1>0, <2>1, <2>2, <2>3
  <2>6. runner' = "clean" => passed' = Times
    BY <1>0, <2>1, <2>2, <2>3 DEF Times
  <2>7. runner' \in {"exited", "failed", "run", "clean"} /\ (runner' = "clean" => ReturnCode = 0)
    BY <2>1
  <2>8. ReturnCode' = ReturnCode /\ IsLoad(cfg)' = IsLoad(cfg) /\ Times' = Times
    BY <2>1, SameReturnCode
  <2>9. ScriptInv' /\ exit' = exit
    BY <1>1, <2>1 DEF testVars
  <2> QED BY <2>1, <2>2, <2>4, <2>5, <2>6, <2>7, <2>8, <2>9 DEF RunnerInv
<1>6. CASE CleanTestResources
  <2>1. /\ UNCHANGED <<cfg, dir, repeat, passed, vars, testVars>> /\ runner = "clean"
        /\ \/ removed' = removed /\ runner' \in {"passed", "failed"}
           \/ removed' = {dir} /\ runner' = "passed" /\ (dir = "tmp" \/ cfg.prefixed)
    BY <1>6 DEF CleanTestResources
  <2>2. ReturnCode' = ReturnCode /\ IsLoad(cfg)' = IsLoad(cfg) /\ Times' = Times
    BY <2>1, SameReturnCode
  <2>3. ScriptInv' /\ exit' = exit
    BY <1>1, <2>1 DEF testVars
  <2> QED BY <2>1, <2>2, <2>3 DEF RunnerInv
<1>7. CASE UNCHANGED allVars
  <2>1. UNCHANGED <<cfg, runner, dir, repeat, passed, removed, vars, testVars>>
    BY <1>7 DEF allVars, runnerVars
  <2>2. ReturnCode' = ReturnCode /\ IsLoad(cfg)' = IsLoad(cfg) /\ Times' = Times
    BY <2>1, SameReturnCode
  <2>3. ScriptInv' /\ exit' = exit
    BY <1>1, <2>1 DEF testVars
  <2> QED BY <2>1, <2>2, <2>3 DEF RunnerInv
<1> QED BY <1>2, <1>3, <1>4, <1>5, <1>6, <1>7 DEF RunnerNext

-----------------------------------------------------------------------------
\* The invariant of test_runner.py.
THEOREM RunnerInvariance == RunnerSpec => []RunnerInv
BY InitRunner, RunnerStep, PTL DEF RunnerSpec

\* A test that passes was run as often as its test.json says, and its last run stopped
\* its clients; a strict test also saw what it expects.
THEOREM PassedTestsRan == RunnerSpec => []PassedMeansRun
<1>1. RunnerInv => PassedMeansRun
  <2> SUFFICES ASSUME RunnerInv, runner = "passed"
               PROVE  /\ passed = IF cfg.repeat_times > 1 THEN cfg.repeat_times ELSE 1
                      /\ client \in {"none", "stopped"} /\ (script \in Strict => ~missed)
    BY DEF PassedMeansRun
  <2>1. passed = Times /\ ReturnCode = 0 /\ ScriptInv /\ (IsLoad(cfg) => exit = "none")
    BY DEF RunnerInv
  <2>2. exit \in {"none", "0"}
    BY <2>1 DEF ReturnCode
  <2> QED BY <2>1, <2>2 DEF ScriptInv, Times
<1> QED BY <1>1, RunnerInvariance, PTL

\* What a run left is removed only after a run that returned 0.
THEOREM EvidenceInvariant == RunnerSpec => []EvidenceKept
<1>1. RunnerInv => EvidenceKept
  BY DEF RunnerInv, EvidenceKept
<1> QED BY <1>1, RunnerInvariance, PTL

\* What test_runner.py does leaves the load generator alone: every behaviour of a run
\* is one of LoadGenerator, so what is proved of it holds of the tests.
THEOREM RunsAreLoads == RunnerSpec => Spec
<1>1. RunnerInit => Init
  BY DEF RunnerInit
<1>2. [RunnerNext]_allVars => [Next]_vars
  BY Zenon DEF RunnerNext, LoadTestConfiguration, SetUpTestEnvironment, RunSubprocess, ProgramStep, Waited,
         CleanTestResources, allVars
<1> QED BY <1>1, <1>2, PTL DEF RunnerSpec, Spec
=============================================================================
