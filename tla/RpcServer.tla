------------------------------ MODULE RpcServer ------------------------------
(***************************************************************************)
(* smf::rpc_server on one core (src/src/core/rpc_server.cc): the accept    *)
(* loop, one session loop per connection that reads requests, the memory   *)
(* semaphore all connections share, one background fiber per request that  *)
(* filters, routes, runs and answers it, and stop().                       *)
(*                                                                         *)
(* An action is the code between two suspension points.  Connections are   *)
(* numbered by connection_idx_.  Clients, filters and handlers are         *)
(* external: a request may arrive on any connection at any time, and any   *)
(* read, filter, handler or write may fail.                                *)
(***************************************************************************)
EXTENDS Integers, Sequences, FiniteSets, FiniteSetsExt

CONSTANTS
  Req,      \* the requests clients send, each sent once
  NoReq,    \* a session loop that has no request
  Size,     \* Size[r]: hdr->size() of request r
  SignBit,  \* 2^31: a uint32_t from here on is a negative int32_t
  MaxMem,   \* memory_avail_per_core
  MaxConn   \* bound: connections accepted in one behaviour

ASSUME ServerAssumption ==
  /\ NoReq \notin Req
  /\ IsFiniteSet(Req)
  /\ SignBit \in Nat \ {0}
  /\ Size \in [Req -> 1..(2 * SignBit - 1)]
  /\ MaxMem \in Nat
  /\ MaxConn \in Nat

VARIABLES
  accepting,  \* keep_doing(accept) is running
  stop,       \* where stop() is
  nconn,      \* connection_idx_, and total_connections
  open,       \* keys of open_connections_
  err,        \* connections with error_ set
  disabled,   \* connections cleanup_dispatch_rpc disabled and shut down
  shut,       \* connections stop() shut down the input of
  loop,       \* loop[g]: handle_client_connection of connection g
  cur,        \* cur[g]: the request it reads
  memQ,       \* waiters of limits->resources_available, in order
  avail,      \* its units
  job,        \* job[r]: what happens to request r
  on,         \* on[r]: the connection it came on
  completed   \* completed_requests

connVars == <<nconn, open, err, disabled, shut>>
loopVars == <<loop, cur>>
memVars == <<memQ, avail>>
jobVars == <<job, on>>
runVars == <<accepting, stop>>
vars == <<connVars, loopVars, memVars, jobVars, runVars, completed>>

Conn == 1..MaxConn

Valid(g) == g \notin disabled \cup err

\* The gate of the request fibers, and whether stop() closed it.
InGate(r) == job[r] \in {"filter", "handle", "ser", "sending", "flush"}
GateClosed == stop \in {"draining", "stopped"}

Init ==
  /\ accepting = TRUE /\ stop = "up"
  /\ nconn = 0 /\ open = {} /\ err = {} /\ disabled = {} /\ shut = {}
  /\ loop = [g \in Conn |-> "none"]
  /\ cur = [g \in Conn |-> NoReq]
  /\ memQ = <<>> /\ avail = MaxMem
  /\ job = [r \in Req |-> "none"]
  /\ on = [r \in Req |-> 0]
  /\ completed = 0

\* dispatch_rpc takes the size, a uint32_t of the header, as an int32_t.
Int32(n) == IF n < SignBit THEN n ELSE n - 2 * SignBit
PayloadSize(r) == Int32(Size[r])

-----------------------------------------------------------------------------
(* cleanup_dispatch_rpc(g); err' is set by the caller before the call.     *)
Cleanup(g) ==
  /\ open' = IF g \in err' THEN open \ {g} ELSE open
  /\ disabled' = IF g \in err' /\ g \in open THEN disabled \cup {g} ELSE disabled
  /\ completed' = IF g \in err' THEN completed ELSE completed + 1

\* Mutant: without the exception handler only finally cleans up.
SessionThrowsUnhandled(g) ==
  /\ err' = err
  /\ Cleanup(g)
  /\ loop' = [loop EXCEPT ![g] = "done"]
  /\ cur' = [cur EXCEPT ![g] = NoReq]
  /\ UNCHANGED <<nconn, shut>>

\* An exception ends the session loop of g: cleanup_dispatch_rpc runs once in
\* finally, as the connection is, and again once the error is set.
SessionThrows(g) ==
  /\ err' = err \cup {g}
  /\ open' = open \ {g}
  /\ disabled' = IF g \in open THEN disabled \cup {g} ELSE disabled
  /\ completed' = IF g \in err THEN completed ELSE completed + 1
  /\ loop' = [loop EXCEPT ![g] = "done"]
  /\ cur' = [cur EXCEPT ![g] = NoReq]
  /\ UNCHANGED <<nconn, shut>>

-----------------------------------------------------------------------------
(* start(): the accept loop; stop().                                       *)

\* Mutant: the key is the index before it is incremented.
AcceptPostIncrement ==
  /\ accepting /\ nconn < MaxConn
  /\ nconn' = nconn + 1
  /\ open' = open \cup {nconn}
  /\ loop' = [loop EXCEPT ![nconn + 1] = "top"]
  /\ UNCHANGED <<err, disabled, shut, cur, memVars, jobVars, runVars, completed>>

Accept ==
  /\ accepting /\ nconn < MaxConn
  /\ nconn' = nconn + 1
  /\ open' = open \cup {nconn + 1}
  /\ loop' = [loop EXCEPT ![nconn + 1] = "top"]
  /\ UNCHANGED <<err, disabled, shut, cur, memVars, jobVars, runVars, completed>>

\* Mutant: stopped_ is not set for the error that abort_accept() causes.
AcceptEndSilent ==
  /\ accepting /\ stop # "aborting"
  /\ accepting' = FALSE
  /\ UNCHANGED <<stop, connVars, loopVars, memVars, jobVars, completed>>

\* accept() throws, because stop() aborted it or by itself: the loop is over.
AcceptEnd ==
  /\ accepting
  /\ accepting' = FALSE
  /\ UNCHANGED <<stop, connVars, loopVars, memVars, jobVars, completed>>

Stop ==
  /\ stop = "up"
  /\ stop' = "aborting"
  /\ UNCHANGED <<accepting, connVars, loopVars, memVars, jobVars, completed>>

\* Mutant: the inputs are not shut down.
StopAcceptedInputsLeft ==
  /\ stop = "aborting" /\ ~accepting
  /\ stop' = "draining"
  /\ UNCHANGED <<accepting, connVars, loopVars, memVars, jobVars, completed>>

\* stopped_ is set: the inputs are shut down and reply_gate_ is closed.
StopAccepted ==
  /\ stop = "aborting" /\ ~accepting
  /\ stop' = "draining"
  /\ shut' = open
  /\ UNCHANGED <<accepting, nconn, open, err, disabled, loopVars, memVars, jobVars,
                 completed>>

\* The gate is empty; the HTTP admin server is stopped.
StopDone ==
  /\ stop = "draining" /\ \A r \in Req : ~InGate(r)
  /\ stop' = "stopped"
  /\ UNCHANGED <<accepting, connVars, loopVars, memVars, jobVars, completed>>

-----------------------------------------------------------------------------
(* handle_client_connection and handle_one_client_session.                 *)

\* The stop condition of do_until; finally cleans up.
SessionTop(g) ==
  /\ loop[g] = "top"
  /\ err' = err
  /\ \/ /\ Valid(g)
        /\ loop' = [loop EXCEPT ![g] = "header"]
        /\ UNCHANGED <<open, disabled, completed>>
     \/ /\ ~Valid(g)
        /\ loop' = [loop EXCEPT ![g] = "done"]
        /\ Cleanup(g)
  /\ UNCHANGED <<nconn, shut, cur, memVars, jobVars, runVars>>

\* parse_header returns the header of request r, and its size is waited for.
HeaderOk(g, r) ==
  /\ loop[g] = "header" /\ job[r] = "none"
  /\ loop' = [loop EXCEPT ![g] = "body"]
  /\ cur' = [cur EXCEPT ![g] = r]
  /\ memQ' = Append(memQ, r)
  /\ job' = [job EXCEPT ![r] = "waiting"]
  /\ on' = [on EXCEPT ![r] = g]
  /\ UNCHANGED <<avail, connVars, runVars, completed>>

\* parse_header returns nullopt: end of file or an invalid header.
HeaderBad(g) ==
  /\ loop[g] = "header"
  /\ err' = err \cup {g}
  /\ loop' = [loop EXCEPT ![g] = "top"]
  /\ UNCHANGED <<nconn, open, disabled, shut, cur, memVars, jobVars, runVars, completed>>

HeaderThrow(g) ==
  /\ loop[g] = "header"
  /\ SessionThrows(g)
  /\ UNCHANGED <<memVars, jobVars, runVars>>

MemAcquire(r) ==
  /\ job[r] = "waiting" /\ memQ # <<>> /\ r = Head(memQ) /\ avail >= Size[r]
  /\ memQ' = Tail(memQ)
  /\ avail' = avail - Size[r]
  /\ job' = [job EXCEPT ![r] = "reading"]
  /\ UNCHANGED <<on, connVars, loopVars, runVars, completed>>

\* The session goes on to the next request.
NextRequest(g) ==
  /\ loop' = [loop EXCEPT ![g] = "top"]
  /\ cur' = [cur EXCEPT ![g] = NoReq]

\* Mutant: the fiber of the request does not enter the gate.
PayloadOkUngated(g, r) ==
  /\ cur[g] = r /\ job[r] = "reading" /\ Size[r] < SignBit
  /\ NextRequest(g)
  /\ job' = [job EXCEPT ![r] = "filter"]
  /\ UNCHANGED <<avail, connVars, completed, memQ, on, runVars>>

\* parse_payload returns the request and dispatch_rpc enters the gate; without
\* a request_id or a route the connection is in error and the fiber ends.
\* max_flatbuffers_size() is SignBit - 1.
PayloadOk(g, r) ==
  /\ cur[g] = r /\ job[r] = "reading" /\ ~GateClosed /\ Size[r] < SignBit
  /\ NextRequest(g)
  /\ \/ /\ job' = [job EXCEPT ![r] = "filter"]
        /\ UNCHANGED <<avail, open, err, disabled, completed>>
     \/ /\ job' = [job EXCEPT ![r] = "dropped"]
        /\ avail' = avail + PayloadSize(r)
        /\ err' = err \cup {g}
        /\ Cleanup(g)
  /\ UNCHANGED <<nconn, shut, memQ, on, runVars>>

\* Mutant: the early return does not return the units.
PayloadBadKeepsUnits(g, r) ==
  /\ cur[g] = r /\ job[r] = "reading"
  /\ NextRequest(g)
  /\ job' = [job EXCEPT ![r] = "dropped"]
  /\ err' = err \cup {g}
  /\ UNCHANGED <<nconn, open, disabled, shut, memVars, on, runVars, completed>>

\* parse_payload returns nullopt: short read, too large, wrong checksum.
PayloadBad(g, r) ==
  /\ cur[g] = r /\ job[r] = "reading"
  /\ NextRequest(g)
  /\ job' = [job EXCEPT ![r] = "dropped"]
  /\ avail' = avail + PayloadSize(r)
  /\ err' = err \cup {g}
  /\ UNCHANGED <<nconn, open, disabled, shut, memQ, on, runVars, completed>>

\* The read times out or throws, or with_gate throws as stop() closed the gate:
\* the exception passes the code that would return the units.
PayloadThrow(g, r) ==
  /\ cur[g] = r /\ job[r] = "reading"
  /\ SessionThrows(g)
  /\ job' = [job EXCEPT ![r] = "lost"]
  /\ UNCHANGED <<on, memVars, runVars>>

-----------------------------------------------------------------------------
(* dispatch_rpc and do_dispatch_rpc: the fiber of one request.             *)

\* The fiber ends: cleanup_dispatch_rpc, and finally the units are returned.
JobEnds(r, how) ==
  /\ job' = [job EXCEPT ![r] = how]
  /\ avail' = avail + PayloadSize(r)
  /\ Cleanup(on[r])

\* The incoming filters are done; a request still compressed is an error.
FilterDone(r) ==
  /\ job[r] = "filter"
  /\ \/ /\ job' = [job EXCEPT ![r] = "handle"]
        /\ UNCHANGED <<avail, open, err, disabled, completed>>
     \/ /\ err' = err \cup {on[r]}
        /\ JobEnds(r, "dropped")
  /\ UNCHANGED <<nconn, shut, memQ, on, loopVars, runVars>>

\* Handler and outgoing filters are done; no reply if the connection is gone.
HandlerDone(r) ==
  /\ job[r] = "handle"
  /\ err' = err
  /\ \/ /\ Valid(on[r])
        /\ job' = [job EXCEPT ![r] = "ser"]
        /\ UNCHANGED <<avail, open, disabled, completed>>
     \/ /\ ~Valid(on[r])
        /\ JobEnds(r, "dropped")
  /\ UNCHANGED <<nconn, shut, memQ, on, loopVars, runVars>>

\* Mutant: the reply is sent without serialize_writes.
SendStartUnserialized(r) ==
  /\ job[r] = "ser"
  /\ job' = [job EXCEPT ![r] = "sending"]
  /\ UNCHANGED <<on, connVars, loopVars, memVars, runVars, completed>>

\* serialize_writes of the connection; validity is not looked at again.
SendStart(r) ==
  /\ job[r] = "ser"
  /\ \A q \in Req : job[q] = "sending" => on[q] # on[r]
  /\ job' = [job EXCEPT ![r] = "sending"]
  /\ UNCHANGED <<on, connVars, loopVars, memVars, runVars, completed>>

SendDone(r) ==
  /\ job[r] = "sending"
  /\ job' = [job EXCEPT ![r] = "flush"]
  /\ UNCHANGED <<on, connVars, loopVars, memVars, runVars, completed>>

FlushDone(r) ==
  /\ job[r] = "flush"
  /\ err' = err
  /\ JobEnds(r, "answered")
  /\ UNCHANGED <<nconn, shut, memQ, on, loopVars, runVars>>

\* A filter, the handler or a write throws: cleanup_dispatch_rpc is skipped and
\* only the units are returned.
JobThrow(r) ==
  /\ InGate(r) /\ job[r] # "ser"
  /\ job' = [job EXCEPT ![r] = IF @ = "flush" THEN "answered" ELSE "dropped"]
  /\ avail' = avail + PayloadSize(r)
  /\ UNCHANGED <<memQ, on, connVars, loopVars, runVars, completed>>

-----------------------------------------------------------------------------
ServerStep == Accept \/ AcceptEnd \/ Stop \/ StopAccepted \/ StopDone

SessionStep(g) ==
  \/ SessionTop(g) \/ HeaderBad(g) \/ HeaderThrow(g)
  \/ \E r \in Req : \/ HeaderOk(g, r) \/ PayloadOk(g, r) \/ PayloadBad(g, r)
                    \/ PayloadThrow(g, r)

JobStep(r) ==
  \/ MemAcquire(r) \/ FilterDone(r) \/ HandlerDone(r) \/ SendStart(r)
  \/ SendDone(r) \/ FlushDone(r) \/ JobThrow(r)

Next ==
  ServerStep \/ (\E g \in Conn : SessionStep(g)) \/ (\E r \in Req : JobStep(r))

Spec == Init /\ [][Next]_vars

(* The reactor runs ready continuations; filters, handlers and writes       *)
(* terminate; an aborted accept() throws, the input that was shut down ends, *)
(* and the timer around parse_payload fires.  Nothing makes a client send.   *)
Fairness ==
  /\ WF_vars(stop = "aborting" /\ AcceptEnd)
  /\ WF_vars(StopAccepted) /\ WF_vars(StopDone)
  /\ \A g \in Conn :
       /\ WF_vars(SessionTop(g))
       /\ WF_vars(g \in shut \cup disabled /\ HeaderBad(g))
       /\ WF_vars(\E r \in Req : PayloadOk(g, r) \/ PayloadBad(g, r) \/ PayloadThrow(g, r))
  /\ \A r \in Req :
       /\ WF_vars(MemAcquire(r))
       /\ WF_vars(FilterDone(r)) /\ WF_vars(HandlerDone(r))
       /\ SF_vars(SendStart(r))
       /\ WF_vars(SendDone(r)) /\ WF_vars(FlushDone(r))

FairSpec == Spec /\ Fairness

-----------------------------------------------------------------------------
(* Properties.                                                             *)

\* The types of the state.
RunType == accepting \in BOOLEAN /\ stop \in {"up", "aborting", "draining", "stopped"}
ConnType ==
  /\ nconn \in 0..MaxConn
  /\ open \subseteq 1..nconn /\ err \subseteq 1..nconn
  /\ disabled \subseteq 1..nconn /\ shut \subseteq 1..nconn
LoopType ==
  /\ loop \in [Conn -> {"none", "top", "header", "body", "done"}]
  /\ cur \in [Conn -> Req \cup {NoReq}]
JobType ==
  /\ job \in [Req -> {"none", "waiting", "reading", "filter", "handle", "ser",
                      "sending", "flush", "answered", "dropped", "lost"}]
  /\ on \in [Req -> 0..MaxConn]
MemType == memQ \in Seq(Req) /\ avail \in Int
TypeOK == RunType /\ ConnType /\ LoopType /\ JobType /\ MemType /\ completed \in Nat

\* A connection whose session loop ended is forgotten: every way out of the
\* loop leaves an error behind, so cleanup_dispatch_rpc erased it.
EndedSessionIsClosed == \A g \in Conn : loop[g] = "done" => g \notin open

\* serialize_writes keeps the replies of one connection apart.
OneReplyAtATime ==
  \A q, r \in Req : job[q] = "sending" /\ job[r] = "sending" /\ on[q] = on[r] => q = r

\* Units of resources_available are free or kept: by a request in progress, by a
\* payload that timed out or threw, or by a request whose size became another
\* number as an int32_t.  No path returns units twice or those of another request,
\* and only such a size takes the semaphore below zero.
Holding(r) == job[r] = "reading" \/ InGate(r) \/ job[r] = "lost"
Narrowed(r) == job[r] \in {"answered", "dropped"} /\ PayloadSize(r) # Size[r]
Kept ==
  [r \in Req |-> IF Holding(r) THEN Size[r]
                ELSE IF Narrowed(r) THEN Size[r] - PayloadSize(r) ELSE 0]
MemoryAccounted ==
  /\ avail + MapThenSumSet(LAMBDA r : Kept[r], Req) = MaxMem
  /\ avail < 0 => \E r \in Req : Narrowed(r)

\* stop() resolves.
StopCompletes == stop = "aborting" ~> stop = "stopped"

\* stop() ends every session but one that waits for memory.
StopEndsSessions ==
  \A g \in Conn :
    stop = "draining" ~> \/ loop[g] \in {"none", "done"}
                         \/ loop[g] = "body" /\ job[cur[g]] = "waiting"

\* A request that waits for memory gets it, whatever becomes of the requests that
\* hold it, unless units are gone for good: a payload timed out or threw, or one of
\* SignBit bytes or more was refused.  Every other way out of a request returns them.
Gone(r) == job[r] = "lost" \/ Narrowed(r)
MemoryWaitEnds ==
  \A r \in Req : job[r] = "waiting" ~> job[r] # "waiting" \/ \E q \in Req : Gone(q)

\* What became of a request, for the contract of the server.
StateOf(j) ==
  CASE j \in {"none", "waiting", "reading"} -> "unread"
    [] j = "filter" -> "taken"
    [] j \in {"handle", "ser", "sending"} -> "run"
    [] j \in {"flush", "answered"} -> "answered"
    [] j \in {"dropped", "lost"} -> "dropped"

requestState == [r \in Req |-> StateOf(job[r])]
Contract == INSTANCE RpcServe WITH state <- requestState, down <- stop = "stopped"

\* The server implements RpcServe: each request is run and answered at most once,
\* and once stop() resolved nothing runs and nothing is written.
ImplementsServe == Contract!Spec

-----------------------------------------------------------------------------
(* What comments of the repository say and the code does not do.           *)

\* dispatch_rpc: the units are acquired before the call and returned after it.
NoUnitsLost == \A r \in Req : job[r] # "lost"

\* The same for the size: what is returned is what was acquired.
UnitsReturnedInFull == \A r \in Req : ~Narrowed(r)

\* completed_requests: "Correct round-trip returned responses".
CompletedAreAnswered ==
  completed <= Cardinality({r \in Req : job[r] = "answered"})

\* A connection is destroyed with its last reference: open_connections_, the
\* session loop, the fibers of its requests.  The destructor counts it down
\* after cleanup_dispatch_rpc did.
Destroyed(g) ==
  /\ g \in 1..nconn \ open /\ loop[g] = "done"
  /\ \A r \in Req : ~(InGate(r) /\ on[r] = g)

\* active_connections: "Currently active connections"; counted up by the
\* constructor, down by cleanup_dispatch_rpc and by the destructor.
ActiveConnectionsNonNegative ==
  Cardinality(disabled) + Cardinality({g \in Conn : Destroyed(g)}) <= nconn

\* do_dispatch_rpc: filters "throw an exception if they wish to interrupt the
\* entire connection".
FilterThrowInterrupts ==
  [][\A r \in Req : job[r] = "filter" /\ JobThrow(r) => on[r] \in err']_vars

\* reply_gate_ "keeps server alive until all continuations have finished".
StopWaitsForSessions ==
  stop = "stopped" => \A g \in Conn : loop[g] \in {"none", "done"}
=============================================================================
