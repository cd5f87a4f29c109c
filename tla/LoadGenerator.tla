---------------------------- MODULE LoadGenerator ----------------------------
(***************************************************************************)
(* smf::load_generator (src/src/include/smf/load_generator.h) and the      *)
(* programs that drive it: the rpc integration test, which also runs the   *)
(* server, and the demo client.  On every core a generator opens           *)
(* `concurrency' channels, each with a client of its own; the benchmark    *)
(* launches one background fiber per channel and waits for all of them on  *)
(* a semaphore; the latencies the clients and the servers measured are     *)
(* summed over the cores and written to files.                             *)
(*                                                                         *)
(* A client is what RpcCall promises of it: a call on a valid connection   *)
(* is answered or fails, and is measured once; a call on an invalid one    *)
(* fails at once.  Connections may break at any time.                      *)
(***************************************************************************)
EXTENDS Histogram, Sequences

CONSTANTS
  Args,       \* the command lines: records of prog, smp, num_of_req, concurrency
              \* and memory_per_core
  MinMemory   \* kMinMemory

ASSUME LoadAssumption ==
  \A a \in Args : /\ a.prog \in {"rpc", "demo"}
                  /\ a.smp \in Nat \ {0} /\ a.num_of_req \in Nat
                  /\ a.concurrency \in Nat /\ a.memory_per_core \in Nat

VARIABLES
  args,    \* load_generator_args and the number of cores
  main,    \* where the program is
  code,    \* its exit code
  server,  \* server[s]: the rpc_server of core s
  gen,     \* gen[s]: the load_generator of core s
  conn,    \* conn[c]: the connection of channel c
  home,    \* home[c]: the core that accepted it
  bench,   \* bench[s]: benchmark() on core s
  limit,   \* limit[s]: the units of its semaphore
  fiber,   \* fiber[c]: what invoke() does on channel c
  sent,    \* sent[c]: the iterations of its do_for_each that are over
  calls,   \* calls[c]: the calls made on a valid connection
  req,     \* req[c]: the request the channel waits for
  jobs,    \* jobs[c]: the fibers of the server for the connection
  took,    \* history: took[c][v] calls of channel c lasted v
  chist,   \* chist[c]: the histogram of the client
  shist,   \* shist[s]: the histogram of the server
  reduced, \* the cores map_reduce has visited
  acc,     \* result_ of unique_histogram_adder
  file     \* the histograms written

progVars == <<args, main, code>>
connVars == <<server, gen, conn, home>>
benchVars == <<bench, limit, fiber, sent, calls>>
callVars == <<req, jobs>>
histVars == <<took, chist, shist>>
fileVars == <<reduced, acc, file>>
vars == <<progVars, connVars, benchVars, callVars, histVars, fileVars>>

None == [none |-> TRUE]

Shard == 1..args.smp
Channel == Shard \X (1..args.concurrency)
On(s) == {c \in Channel : c[1] = s}

\* The fibers that hold a unit of the semaphore.
Running(c) == fiber[c] \in {"loop", "call"}

\* The integer division truncates before ceil sees the quotient.
ReqsPerChannel ==
  LET q == args.num_of_req \div args.concurrency IN IF q > 1 THEN q ELSE 1

Init ==
  /\ args \in Args
  /\ main = (IF args.prog = "rpc" THEN "server" ELSE "load") /\ code = 0
  /\ server = [s \in Shard |-> IF args.prog = "rpc" THEN "made" ELSE "up"]
  /\ gen = [s \in Shard |-> "none"]
  /\ conn = [c \in Channel |-> "none"]
  /\ home = [c \in Channel |-> 1]
  /\ bench = [s \in Shard |-> "none"]
  /\ limit = [s \in Shard |-> 0]
  /\ fiber = [c \in Channel |-> "none"]
  /\ sent = [c \in Channel |-> 0]
  /\ calls = [c \in Channel |-> 0]
  /\ req = [c \in Channel |-> "none"]
  /\ jobs = [c \in Channel |-> 0]
  /\ took = [c \in Channel |-> [v \in Sample |-> 0]]
  /\ chist = [c \in Channel |-> MakeHistogram]
  /\ shist = [s \in Shard |-> MakeHistogram]
  /\ reduced = {} /\ acc = MakeHistogram
  /\ file = [client |-> None, server |-> None]

-----------------------------------------------------------------------------
(* The program: each step of the chain starts when the one before is done, *)
(* on all cores; an exception skips to the end.                            *)

\* The program returns; the at_exit hooks run, the last one registered first.
Exits(c) ==
  /\ code' = c
  /\ main' = IF args.prog = "rpc" THEN "stop_rpc" ELSE "stop_load"

\* rpc_server::start() on core s, service and filter registered; listen() may throw.
ServerStart(s) ==
  /\ main = "server" /\ server[s] = "made"
  /\ \E r \in {"up", "failed"} : server' = [server EXCEPT ![s] = r]
  /\ UNCHANGED <<progVars, gen, conn, home, benchVars, callVars, histVars, fileVars>>

ServersStarted ==
  /\ main = "server" /\ \A s \in Shard : server[s] # "made"
  /\ args' = args
  /\ IF \E s \in Shard : server[s] = "failed"
     THEN Exits(1)
     ELSE main' = "load" /\ code' = code
  /\ UNCHANGED <<connVars, benchVars, callVars, histVars, fileVars>>

\* load_generator_args refuses too little memory for several connections.
ArgsRefused == args.memory_per_core < MinMemory /\ args.concurrency > 1

\* Its operator<< divides by the number of connections.
DividesByZero == args.concurrency = 0

\* The arguments are made, then printed; then load.start() makes the generators and
\* their channels.
LoadStart ==
  /\ main = "load"
  /\ args' = args
  /\ \/ /\ ArgsRefused
        /\ Exits(1)
        /\ gen' = gen /\ conn' = conn
     \/ /\ ~ArgsRefused /\ DividesByZero
        /\ main' = "crashed" /\ code' = 1
        /\ gen' = gen /\ conn' = conn
     \/ /\ ~ArgsRefused /\ ~DividesByZero
        /\ main' = "connect" /\ code' = code
        /\ gen' = [s \in Shard |-> "made"]
        /\ conn' = [c \in Channel |-> "idle"]
  /\ UNCHANGED <<server, home, benchVars, callVars, histVars, fileVars>>

\* client->connect(), accepted by some core of the server.
Connect(c) ==
  /\ main = "connect" /\ conn[c] = "idle"
  /\ \/ /\ \E s \in Shard : home' = [home EXCEPT ![c] = s]
        /\ conn' = [conn EXCEPT ![c] = "up"]
     \/ /\ conn' = [conn EXCEPT ![c] = "failed"]
        /\ home' = home
  /\ UNCHANGED <<progVars, server, gen, benchVars, callVars, histVars, fileVars>>

Connected ==
  /\ main = "connect" /\ \A c \in Channel : conn[c] # "idle"
  /\ args' = args
  /\ IF \E c \in Channel : conn[c] = "failed"
     THEN Exits(1)
     ELSE main' = "bench" /\ code' = code
  /\ UNCHANGED <<connVars, benchVars, callVars, histVars, fileVars>>

Benchmarked ==
  /\ main = "bench" /\ \A s \in Shard : bench[s] \in {"ended", "threw"}
  /\ args' = args
  /\ IF \E s \in Shard : bench[s] = "threw"
     THEN Exits(1)
     ELSE main' = "reduce" /\ code' = code
  /\ UNCHANGED <<connVars, benchVars, callVars, histVars, fileVars>>

\* load_generator::copy_histogram(): the histograms of the channels of core s.
CopyClients(s) ==
  FoldSet(LAMBDA c, h : Plus(h, chist[c]), MakeHistogram, On(s))

\* rpc_server::copy_histogram().
CopyServer(s) == Plus(MakeHistogram, shist[s])

\* map_reduce with unique_histogram_adder: core s answers.
Reduce(s) ==
  /\ main \in {"reduce", "sreduce"} /\ s \notin reduced
  /\ reduced' = reduced \cup {s}
  /\ acc' = Plus(acc, IF main = "reduce" THEN CopyClients(s) ELSE CopyServer(s))
  /\ file' = file
  /\ UNCHANGED <<progVars, connVars, benchVars, callVars, histVars>>

\* histogram_seastar_utils::write(): the histogram goes to its file, new or truncated.
Written(which) == file' = [file EXCEPT ![which] = acc]

\* The sum is written, or an exception ends the program; the test then sums up its
\* servers.
Write ==
  /\ main \in {"reduce", "sreduce"} /\ reduced = Shard
  /\ args' = args /\ reduced' = {} /\ acc' = MakeHistogram
  /\ \/ /\ Written(IF main = "reduce" THEN "client" ELSE "server")
        /\ IF main = "reduce" /\ args.prog = "rpc"
           THEN main' = "sreduce" /\ code' = code
           ELSE Exits(0)
     \/ /\ file' = file
        /\ Exits(1)
  /\ UNCHANGED <<connVars, benchVars, callVars, histVars>>

\* rpc.stop() on core s: abort_accept() through listener_, which is null when
\* start() threw; then the fibers of the core's requests are waited for.
StopServer(s) ==
  /\ main = "stop_rpc" /\ server[s] # "stopped"
  /\ \/ /\ server[s] = "up"
        /\ \A c \in Channel : home[c] = s => jobs[c] = 0
        /\ server' = [server EXCEPT ![s] = "stopped"]
        /\ main' = main
     \/ /\ server[s] = "failed"
        /\ server' = server
        /\ main' = "crashed"
  /\ UNCHANGED <<args, code, gen, conn, home, benchVars, callVars, histVars, fileVars>>

ServersStopped ==
  /\ main = "stop_rpc" /\ \A s \in Shard : server[s] = "stopped"
  /\ main' = "stop_load"
  /\ UNCHANGED <<args, code, connVars, benchVars, callVars, histVars, fileVars>>

\* load.stop(): the clients of core s are stopped, the generator is destroyed.
StopLoad(s) ==
  /\ main = "stop_load" /\ gen[s] = "made"
  /\ gen' = [gen EXCEPT ![s] = "destroyed"]
  /\ conn' = [c \in Channel |-> IF c \in On(s) THEN "stopped" ELSE conn[c]]
  /\ UNCHANGED <<progVars, server, home, benchVars, callVars, histVars, fileVars>>

LoadStopped ==
  /\ main = "stop_load" /\ \A s \in Shard : gen[s] # "made"
  /\ main' = "done"
  /\ UNCHANGED <<args, code, connVars, benchVars, callVars, histVars, fileVars>>

-----------------------------------------------------------------------------
(* load_generator::benchmark() on one core.                                *)

BenchBegin(s) ==
  /\ main = "bench" /\ bench[s] = "none"
  /\ bench' = [bench EXCEPT ![s] = "launching"]
  /\ limit' = [limit EXCEPT ![s] = args.concurrency]
  /\ fiber' = [c \in Channel |-> IF c \in On(s) THEN "wait" ELSE fiber[c]]
  /\ UNCHANGED <<sent, calls, progVars, connVars, callVars, histVars, fileVars>>

\* A unit is taken and invoke() called; it throws if there is nothing to send, and
\* then nobody returns the unit.  Its future is dropped.
Launch(c) ==
  /\ fiber[c] = "wait" /\ limit[c[1]] >= 1
  /\ limit' = [limit EXCEPT ![c[1]] = @ - 1]
  /\ fiber' = [fiber EXCEPT ![c] = IF ReqsPerChannel = 0 THEN "threw" ELSE "loop"]
  /\ UNCHANGED <<bench, sent, calls, progVars, connVars, callVars, histVars, fileVars>>

\* Mutant: the benchmark ends when the last fiber is launched.
LaunchedNoWait(s) ==
  /\ bench[s] = "launching" /\ \A c \in On(s) : fiber[c] # "wait"
  /\ bench' = [bench EXCEPT ![s] = "ended"]
  /\ UNCHANGED <<limit, fiber, sent, calls, progVars, connVars, callVars, histVars, fileVars>>

\* All are launched: wait for all the units; if invoke() threw the benchmark fails.
Launched(s) ==
  /\ bench[s] = "launching" /\ \A c \in On(s) : fiber[c] # "wait"
  /\ bench' = [bench EXCEPT ![s] =
       IF \E c \in On(s) : fiber[c] = "threw" THEN "threw" ELSE "waiting"]
  /\ UNCHANGED <<limit, fiber, sent, calls, progVars, connVars, callVars, histVars, fileVars>>

BenchEnd(s) ==
  /\ bench[s] = "waiting" /\ limit[s] >= args.concurrency
  /\ bench' = [bench EXCEPT ![s] = "ended"]
  /\ limit' = [limit EXCEPT ![s] = @ - args.concurrency]
  /\ UNCHANGED <<fiber, sent, calls, progVars, connVars, callVars, histVars, fileVars>>

-----------------------------------------------------------------------------
(* load_channel::invoke(): one request after the other.                    *)

\* Mutant: the unit is returned in then(): a failed fiber keeps it.
FiberEndsThen(c, how) ==
  /\ fiber' = [fiber EXCEPT ![c] = how]
  /\ limit' = IF how = "done" THEN [limit EXCEPT ![c[1]] = @ + 1] ELSE limit

\* The future of invoke() resolves either way, and finally returns the unit.
FiberEnds(c, how) ==
  /\ fiber' = [fiber EXCEPT ![c] = how]
  /\ limit' = [limit EXCEPT ![c[1]] = @ + 1]

\* Mutant: the iterators are one short.
LoopOverShort(c) == sent[c] + 1 >= ReqsPerChannel

\* The iterators of do_for_each meet.
LoopOver(c) == sent[c] = ReqsPerChannel

\* method_callback: the envelope of generator is sent and the reply awaited.
MakesCall(c) ==
  /\ fiber' = [fiber EXCEPT ![c] = "call"]
  /\ calls' = [calls EXCEPT ![c] = @ + 1]
  /\ req' = [req EXCEPT ![c] = "sent"]

\* do_for_each: the end, or the next request; a call on an invalid connection
\* fails at once, before it is measured.
Iterate(c) ==
  /\ fiber[c] = "loop"
  /\ \/ /\ LoopOver(c)
        /\ FiberEnds(c, "done")
        /\ calls' = calls /\ req' = req
     \/ /\ ~LoopOver(c) /\ conn[c] = "up"
        /\ MakesCall(c)
        /\ limit' = limit
     \/ /\ ~LoopOver(c) /\ conn[c] # "up"
        /\ FiberEnds(c, "failed")
        /\ calls' = calls /\ req' = req
  /\ UNCHANGED <<bench, sent, jobs, progVars, connVars, histVars, fileVars>>

\* ~histogram_measure: the call is over, and what it took is recorded.
MeasureEnds(c) ==
  \E v \in Sample : /\ chist' = [chist EXCEPT ![c] = Record(@, v)]
                    /\ took' = [took EXCEPT ![c][v] = @ + 1]

\* The call is answered; its measurement ends with it.
Answered(c) ==
  /\ fiber[c] = "call" /\ req[c] = "replied"
  /\ MeasureEnds(c)
  /\ fiber' = [fiber EXCEPT ![c] = "loop"]
  /\ sent' = [sent EXCEPT ![c] = @ + 1]
  /\ req' = [req EXCEPT ![c] = "none"]
  /\ UNCHANGED <<bench, limit, calls, jobs, shist, progVars, connVars, fileVars>>

\* Mutant: the measurement of a call that fails is lost.
LostUnmeasured(c) ==
  /\ conn[c] = "up" /\ fiber[c] \in {"wait", "loop", "call"}
  /\ conn' = [conn EXCEPT ![c] = "down"]
  /\ req' = [req EXCEPT ![c] = "none"]
  /\ IF fiber[c] = "call"
     THEN /\ \E v \in Sample : took' = [took EXCEPT ![c][v] = @ + 1]
          /\ FiberEnds(c, "failed")
     ELSE took' = took /\ fiber' = fiber /\ limit' = limit
  /\ UNCHANGED <<bench, sent, calls, jobs, progVars, server, gen, home, chist, shist, fileVars>>

\* The connection breaks: a call in progress fails, measured, and so does invoke();
\* the server may have the request all the same.  After the benchmark nobody would
\* notice.
Lost(c) ==
  /\ conn[c] = "up" /\ fiber[c] \in {"wait", "loop", "call"}
  /\ conn' = [conn EXCEPT ![c] = "down"]
  /\ req' = [req EXCEPT ![c] = "none"]
  /\ IF fiber[c] = "call"
     THEN /\ MeasureEnds(c)
          /\ \E n \in 0..(IF req[c] = "sent" THEN 1 ELSE 0) :
               jobs' = [jobs EXCEPT ![c] = @ + n]
          /\ FiberEnds(c, "failed")
     ELSE UNCHANGED <<took, chist, jobs, fiber, limit>>
  /\ UNCHANGED <<bench, sent, calls, shist, progVars, server, gen, home, fileVars>>

-----------------------------------------------------------------------------
(* The server: dispatch_rpc runs a fiber per request, measured to its end, *)
(* which is after the reply was written.                                   *)

Dispatch(c) ==
  /\ req[c] = "sent"
  /\ req' = [req EXCEPT ![c] = "taken"]
  /\ jobs' = [jobs EXCEPT ![c] = @ + 1]
  /\ UNCHANGED <<progVars, connVars, benchVars, histVars, fileVars>>

Reply(c) ==
  /\ req[c] = "taken"
  /\ req' = [req EXCEPT ![c] = "replied"]
  /\ UNCHANGED <<jobs, progVars, connVars, benchVars, histVars, fileVars>>

\* A fiber that is not on its way to the reply the client waits for.
JobEnd(c) ==
  /\ jobs[c] > IF req[c] = "taken" THEN 1 ELSE 0
  /\ jobs' = [jobs EXCEPT ![c] = @ - 1]
  /\ \E v \in Sample : shist' = [shist EXCEPT ![home[c]] = Record(@, v)]
  /\ UNCHANGED <<req, took, chist, progVars, connVars, benchVars, fileVars>>

-----------------------------------------------------------------------------
MainStep ==
  \/ ServersStarted \/ LoadStart \/ Connected \/ Benchmarked \/ Write
  \/ ServersStopped \/ LoadStopped

ShardStep(s) ==
  \/ ServerStart(s) \/ BenchBegin(s) \/ Launched(s) \/ BenchEnd(s)
  \/ Reduce(s) \/ StopServer(s) \/ StopLoad(s)

ChannelStep(c) ==
  \/ Connect(c) \/ Launch(c) \/ Iterate(c) \/ Answered(c) \/ Lost(c)
  \/ Dispatch(c) \/ Reply(c) \/ JobEnd(c)

Next ==
  MainStep \/ (\E s \in Shard : ShardStep(s)) \/ (\E c \in Channel : ChannelStep(c))

Spec == Init /\ [][Next]_vars

-----------------------------------------------------------------------------
(* Properties.                                                             *)

\* The background fibers of benchmark() use its semaphore and the clients of the
\* generator by reference: none is left when the benchmark has ended, so none
\* outlives the generator.
FibersEndFirst ==
  \A s \in Shard :
    bench[s] \in {"ended", "threw"} \/ gen[s] = "destroyed" =>
      \A c \in On(s) : ~Running(c) /\ fiber[c] # "wait"

\* Every fiber returns the unit it took, once, whether its calls fail or not.
UnitsReturned ==
  \A s \in Shard : bench[s] \in {"launching", "waiting"} =>
    limit[s] + Cardinality({c \in On(s) : Running(c)}) = args.concurrency

\* A channel sends all its requests unless its own connection breaks: what happens
\* to one channel does not stop another.
ChannelsIndependent ==
  \A c \in Channel : bench[c[1]] = "ended" =>
    sent[c] = ReqsPerChannel \/ conn[c] # "up"

\* The calls of the channels that are counted as k; hdr_record_value refuses those
\* above MaxValue.
CallsOf(k) ==
  [c \in Channel |->
    Total([v \in {w \in Sample : w <= MaxValue /\ Lowest[w] = k} |-> took[c][v]])]

\* The file of the clients is written when every call that was made is over, answered
\* or failed, and was measured once; of every value it counts the calls of all
\* channels that lasted so long, and it misses the calls too long to be tracked.
FileHasTrackedCalls ==
  file.client # None =>
    /\ \A c \in Channel : Total(took[c]) = calls[c] /\ chist[c].sample_count = calls[c]
    /\ file.client.counts = [k \in Class |-> Total(CallsOf(k))]

\* At any time the exported latencies of a server have fixed, growing bounds and
\* in every bucket the samples that are counted up to its bound.
MetricsMatchSamples ==
  \A s \in Shard :
    /\ SeastarHistogramLogform(shist[s]).buckets = Exported(shist[s])
    /\ SeastarHistogramLogform(shist[s]).sample_count >= Exported(shist[s])[NumBuckets].count

-----------------------------------------------------------------------------
(* What the code does not give.                                            *)

\* "number of request per concurrenct connection".
RequestsPerConnection ==
  \A c \in Channel : fiber[c] = "done" => sent[c] = args.num_of_req

\* operator+= adds neither sample_count nor sample_sum.
SumCountsSamples ==
  file.client # None =>
    file.client.sample_count = MapThenSumSet(LAMBDA c : calls[c], Channel)

\* Calls too long to be tracked are not in the file.
FileHasEveryCall ==
  file.client # None =>
    Total(file.client.counts) = MapThenSumSet(LAMBDA c : calls[c], Channel)

\* The file of the servers may miss a request: its fiber ends after the reply.
ServerFileHasEveryCall ==
  file.server # None /\ (\A c \in Channel : fiber[c] = "done") =>
    MapThenSumSet(LAMBDA s : shist[s].sample_count, Shard)
      = MapThenSumSet(LAMBDA c : calls[c], Channel)

\* rpc_server::stop() of a server whose start() threw follows a null listener_.
StopsAfterFailedStart == main = "crashed" => \A s \in Shard : server[s] # "failed"
=============================================================================
