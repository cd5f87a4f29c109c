--------------------------- MODULE RpcServerProofs ---------------------------
(***************************************************************************)
(* Proofs about RpcServer: its type invariant, that an ended session is     *)
(* closed, that replies are not interleaved, that it implements RpcServe,   *)
(* and what becomes of the units of memory.  The inductive invariant is one conjunct per group of          *)
(* variables, so that an action has to be looked at only for the groups it  *)
(* changes.                                                                 *)
(***************************************************************************)
EXTENDS RpcServer, SumTheorems, TLAPS

\* Connections: cleanup_dispatch_rpc erases and disables together, on an error.
ConnOK ==
  /\ ConnType
  /\ disabled \subseteq err
  /\ open = (1..nconn) \ disabled

\* Session loops: accepted connections have one, an ended one was cleaned up,
\* and only a session in the body of a request has a request.
LoopOK ==
  /\ LoopType
  /\ \A g \in Conn : /\ loop[g] = "none" <=> g > nconn
                     /\ loop[g] = "done" => g \in disabled
                     /\ cur[g] # NoReq => loop[g] = "body"

\* Requests: one that was read has its connection, and is read by that one only.
JobOK ==
  /\ JobType
  /\ \A r \in Req : job[r] # "none" => on[r] \in 1..nconn
  /\ \A g \in Conn, r \in Req :
       cur[g] = r => job[r] \in {"waiting", "reading"} /\ on[r] = g

IInv ==
  /\ RunType /\ ConnOK /\ LoopOK /\ JobOK /\ MemType /\ completed \in Nat
  /\ OneReplyAtATime

USE ServerAssumption, SMTT(10), SMTT(20), ZenonT(30), SMTT(60) DEF Conn

\* What dispatch_rpc makes of the size of a request: the same number, or one that is
\* 2^32 less.
LEMMA SizeNarrowed ==
  ASSUME NEW r \in Req
  PROVE  /\ Size[r] \in Nat /\ PayloadSize(r) \in Int /\ PayloadSize(r) <= Size[r]
         /\ Size[r] - PayloadSize(r) \in Nat
         /\ PayloadSize(r) = Size[r] => PayloadSize(r) >= 0
BY DEF PayloadSize, Int32

-----------------------------------------------------------------------------
(* Groups of variables left alone.                                         *)

\* What cleanup_dispatch_rpc does to the connections.
LEMMA CleanupKeeps ==
  ASSUME ConnOK, completed \in Nat, NEW g \in 1..nconn, Cleanup(g),
         err' = err \/ err' = err \cup {g}, nconn' = nconn, shut' = shut
  PROVE  ConnOK' /\ completed' \in Nat /\ disabled \subseteq disabled'
         /\ (g \in err' => g \in disabled')
<1>1. CASE g \in err'
  <2>1. open' = open \ {g} /\ disabled' = disabled \cup {g} /\ completed' = completed
    BY <1>1 DEF ConnOK, Cleanup
  <2>. QED BY <1>1, <2>1 DEF ConnOK, ConnType
<1>2. CASE g \notin err'
  <2>1. open' = open /\ disabled' = disabled /\ completed' = completed + 1 /\ err' = err
    BY <1>2 DEF Cleanup
  <2>. QED BY <1>2, <2>1 DEF ConnOK, ConnType
<1>. QED BY <1>1, <1>2

\* The loops do not change, and connections are only disabled.
LEMMA LoopKeeps ==
  ASSUME LoopOK, UNCHANGED <<loop, cur, nconn>>, disabled \subseteq disabled'
  PROVE  LoopOK'
BY DEF LoopOK, LoopType

\* A request that is not read any more moves on.
LEMMA JobKeeps ==
  ASSUME JobOK, NEW r \in Req, job[r] \notin {"none", "waiting", "reading"},
         NEW j \in {"handle", "ser", "sending", "flush", "answered", "dropped"},
         job' = [job EXCEPT ![r] = j], UNCHANGED <<on, cur, nconn>>
  PROVE  JobOK'
BY DEF JobOK, JobType

\* The session of the request moves on.
LEMMA JobLeavesSession ==
  ASSUME JobOK, LoopOK, NEW g \in Conn, NEW r \in Req, cur[g] = r,
         NEW j \in {"filter", "dropped", "lost"},
         job' = [job EXCEPT ![r] = j], cur' = [cur EXCEPT ![g] = NoReq],
         UNCHANGED <<on, nconn>>
  PROVE  JobOK'
<1>1. JobType' /\ \A q \in Req : job'[q] # "none" => on'[q] \in 1..nconn'
  BY DEF JobOK, JobType
<1>2. ASSUME NEW h \in Conn, NEW q \in Req, cur'[h] = q
      PROVE  job'[q] \in {"waiting", "reading"} /\ on'[q] = h
  <2>1. h # g /\ cur[h] = q
    BY <1>2 DEF LoopOK, LoopType
  <2>2. q # r
    BY <2>1 DEF JobOK
  <2>. QED BY <2>1, <2>2 DEF JobOK, JobType
<1>. QED BY <1>1, <1>2 DEF JobOK

\* No reply starts being written.
LEMMA SendingKeeps ==
  ASSUME OneReplyAtATime, on' = on \/ \E r \in Req : job[r] = "none" /\ job'[r] # "sending"
           /\ \A q \in Req \ {r} : on'[q] = on[q],
         \A q \in Req : job'[q] = "sending" => job[q] = "sending"
  PROVE  OneReplyAtATime'
BY DEF OneReplyAtATime

-----------------------------------------------------------------------------
(* One lemma per action.                                                   *)

\* A new server satisfies the invariant.
LEMMA InitIInv == Init => IInv
<1>1. Init => RunType /\ MemType
  BY DEF Init, RunType, MemType
<1>2. Init => ConnOK /\ completed \in Nat
  BY DEF Init, ConnOK, ConnType
<1>3. Init => LoopOK
  BY DEF Init, LoopOK, LoopType
<1>4. Init => JobOK
  BY DEF Init, JobOK, JobType
<1>5. Init => OneReplyAtATime
  BY DEF Init, OneReplyAtATime
<1>. QED BY <1>1, <1>2, <1>3, <1>4, <1>5 DEF IInv

\* The accept loop takes a connection.
LEMMA AcceptStep == IInv /\ Accept => IInv'
<1>. SUFFICES ASSUME IInv, Accept PROVE IInv'
  OBVIOUS
<1>0. nconn \in Nat /\ nconn + 1 \in Conn
  BY DEF IInv, ConnOK, ConnType, Accept
<1>1. ConnOK'
  BY <1>0 DEF IInv, ConnOK, ConnType, Accept
<1>2. LoopOK'
  BY <1>0 DEF IInv, ConnOK, ConnType, LoopOK, LoopType, Accept, loopVars
<1>3. JobOK'
  BY <1>0 DEF IInv, JobOK, JobType, Accept, jobVars
<1>4. RunType' /\ MemType' /\ (completed \in Nat)' /\ OneReplyAtATime'
  BY DEF IInv, RunType, MemType, OneReplyAtATime, Accept, runVars, memVars, jobVars
<1>. QED BY <1>1, <1>2, <1>3, <1>4 DEF IInv

\* The actions of stop() and of the end of the accept loop.
LEMMA ServerStepKeeps ==
  ASSUME IInv, AcceptEnd \/ Stop \/ StopAccepted \/ StopDone
  PROVE  IInv'
<1>0. UNCHANGED <<nconn, open, err, disabled, loop, cur, memQ, avail, job, on, completed>>
      /\ (shut' = shut \/ shut' = open)
  BY DEF AcceptEnd, Stop, StopAccepted, StopDone, connVars, loopVars, memVars, jobVars
<1>1. RunType'
  BY Zenon DEF IInv, RunType, AcceptEnd, Stop, StopAccepted, StopDone
<1>2. ConnOK'
  BY <1>0, Zenon DEF IInv, ConnOK, ConnType
<1>3. LoopOK'
  BY <1>0 DEF IInv, LoopOK, LoopType
<1>4. JobOK'
  BY <1>0 DEF IInv, JobOK, JobType
<1>5. MemType' /\ (completed \in Nat)' /\ OneReplyAtATime'
  BY <1>0 DEF IInv, MemType, OneReplyAtATime
<1>. QED BY <1>1, <1>2, <1>3, <1>4, <1>5 DEF IInv

\* A session that an exception ends.
LEMMA SessionThrowsKeeps ==
  ASSUME IInv, NEW g \in 1..nconn, SessionThrows(g)
  PROVE  ConnOK' /\ LoopOK' /\ (completed \in Nat)'
<1>1. disabled' = disabled \cup {g}
  BY DEF SessionThrows, IInv, ConnOK
<1>2. ConnOK' /\ (completed \in Nat)'
  BY <1>1 DEF SessionThrows, IInv, ConnOK, ConnType
<1>3. LoopOK'
  BY <1>1 DEF SessionThrows, IInv, ConnOK, ConnType, LoopOK, LoopType
<1>. QED BY <1>2, <1>3

\* A session loop goes on or ends.
LEMMA SessionTopStep ==
  ASSUME IInv, NEW g \in Conn, SessionTop(g)
  PROVE  IInv'
<1>0. g \in 1..nconn
  BY DEF IInv, LoopOK, ConnOK, ConnType, SessionTop
<1>1. ConnOK' /\ (completed \in Nat)' /\ disabled \subseteq disabled'
      /\ (Valid(g) \/ g \in disabled')
  <2>1. CASE Valid(g)
    BY <2>1, Zenon DEF SessionTop, IInv, ConnOK, ConnType
  <2>2. CASE ~Valid(g)
    <3>1. Cleanup(g) /\ err' = err /\ nconn' = nconn /\ shut' = shut
      BY <2>2 DEF SessionTop
    <3>2. g \in err
      BY <2>2 DEF Valid, IInv, ConnOK
    <3>. QED BY <1>0, <3>1, <3>2, CleanupKeeps DEF IInv
  <2>. QED BY <2>1, <2>2
<1>2. LoopOK'
  BY <1>0, <1>1 DEF SessionTop, IInv, LoopOK, LoopType, ConnOK, ConnType
<1>3. JobOK' /\ RunType' /\ MemType' /\ OneReplyAtATime'
  BY DEF SessionTop, IInv, JobOK, JobType, RunType, MemType, OneReplyAtATime, runVars,
         memVars, jobVars
<1>. QED BY <1>1, <1>2, <1>3 DEF IInv

\* A session has parsed a header and waits for memory.
LEMMA HeaderOkStep ==
  ASSUME IInv, NEW g \in Conn, NEW r \in Req, HeaderOk(g, r)
  PROVE  IInv'
<1>0. g \in 1..nconn /\ cur[g] = NoReq
  BY DEF IInv, LoopOK, LoopType, ConnOK, ConnType, HeaderOk
<1>1. ConnOK' /\ RunType' /\ (completed \in Nat)' /\ MemType'
  BY DEF HeaderOk, IInv, ConnOK, ConnType, RunType, MemType, connVars, runVars
<1>2. LoopOK'
  BY <1>0 DEF HeaderOk, IInv, LoopOK, LoopType, connVars, ConnOK, ConnType
<1>3. JobOK'
  <2>1. JobType' /\ \A q \in Req : job'[q] # "none" => on'[q] \in 1..nconn'
    BY <1>0 DEF HeaderOk, IInv, JobOK, JobType, connVars
  <2>2. ASSUME NEW h \in Conn, NEW q \in Req, cur'[h] = q
        PROVE  job'[q] \in {"waiting", "reading"} /\ on'[q] = h
    <3>1. CASE h = g
      BY <2>2, <3>1 DEF HeaderOk, IInv, JobOK, JobType, LoopOK, LoopType
    <3>2. CASE h # g
      <4>1. cur[h] = q
        BY <2>2, <3>2 DEF HeaderOk, IInv, LoopOK, LoopType
      <4>2. q # r
        BY <4>1, Zenon DEF HeaderOk, IInv, JobOK
      <4>. QED BY <4>1, <4>2, Zenon DEF HeaderOk, IInv, JobOK, JobType
    <3>. QED BY <3>1, <3>2
  <2>. QED BY <2>1, <2>2 DEF JobOK
<1>4. OneReplyAtATime'
  BY DEF HeaderOk, IInv, JobOK, JobType, OneReplyAtATime
<1>. QED BY <1>1, <1>2, <1>3, <1>4 DEF IInv

\* A header that cannot be parsed, or whose read throws.
LEMMA HeaderFailStep ==
  ASSUME IInv, NEW g \in Conn, HeaderBad(g) \/ HeaderThrow(g)
  PROVE  IInv'
<1>0. g \in 1..nconn /\ cur[g] = NoReq
  BY DEF IInv, LoopOK, LoopType, ConnOK, ConnType, HeaderBad, HeaderThrow
<1>1. JobOK' /\ RunType' /\ MemType' /\ OneReplyAtATime'
  <2>1. UNCHANGED <<job, on, nconn, accepting, stop, memQ, avail>>
    BY DEF HeaderBad, HeaderThrow, SessionThrows, runVars, memVars, jobVars
  <2>2. cur' = cur
    BY <1>0 DEF HeaderBad, HeaderThrow, SessionThrows, IInv, LoopOK, LoopType
  <2>. QED BY <2>1, <2>2 DEF IInv, JobOK, JobType, RunType, MemType, OneReplyAtATime
<1>2. CASE HeaderBad(g)
  <2>1. ConnOK' /\ (completed \in Nat)'
    BY <1>0, <1>2 DEF HeaderBad, IInv, ConnOK, ConnType
  <2>2. LoopOK'
    BY <1>0, <1>2 DEF HeaderBad, IInv, LoopOK, LoopType, ConnOK, ConnType
  <2>. QED BY <1>1, <2>1, <2>2 DEF IInv
<1>3. CASE HeaderThrow(g)
  BY <1>0, <1>1, <1>3, SessionThrowsKeeps DEF HeaderThrow, IInv
<1>. QED BY <1>2, <1>3

\* A request gets its memory.
LEMMA MemAcquireStep ==
  ASSUME IInv, NEW r \in Req, MemAcquire(r)
  PROVE  IInv'
<1>1. ConnOK' /\ LoopOK' /\ RunType' /\ (completed \in Nat)'
  BY DEF MemAcquire, IInv, ConnOK, ConnType, LoopOK, LoopType, RunType, connVars, loopVars,
         runVars
<1>2. MemType'
  BY DEF MemAcquire, IInv, MemType
<1>3. JobOK'
  BY DEF MemAcquire, IInv, JobOK, JobType, connVars, loopVars
<1>4. OneReplyAtATime'
  BY DEF MemAcquire, IInv, JobOK, JobType, OneReplyAtATime
<1>. QED BY <1>1, <1>2, <1>3, <1>4 DEF IInv

\* A payload that is parsed, cannot be parsed, times out or throws.
LEMMA PayloadStep ==
  ASSUME IInv, NEW g \in Conn, NEW r \in Req,
         PayloadOk(g, r) \/ PayloadBad(g, r) \/ PayloadThrow(g, r)
  PROVE  IInv'
<1>0. g \in 1..nconn /\ cur[g] = r /\ loop[g] = "body" /\ Size[r] \in Nat
  BY DEF IInv, LoopOK, LoopType, ConnOK, ConnType, PayloadOk, PayloadBad, PayloadThrow
<1>1. PICK j \in {"filter", "dropped", "lost"} : job' = [job EXCEPT ![r] = j]
  BY DEF PayloadOk, PayloadBad, PayloadThrow
<1>2. cur' = [cur EXCEPT ![g] = NoReq] /\ UNCHANGED <<on, nconn, shut, memQ, accepting, stop>>
  BY DEF PayloadOk, PayloadBad, PayloadThrow, SessionThrows, NextRequest, memVars, runVars
<1>3. JobOK'
  BY <1>0, <1>1, <1>2, JobLeavesSession, Zenon DEF IInv
<1>4. RunType' /\ MemType'
  <2>1. avail' = avail \/ avail' = avail + PayloadSize(r)
    BY DEF PayloadOk, PayloadBad, PayloadThrow, memVars
  <2>. QED BY <1>2, <2>1, SizeNarrowed DEF IInv, RunType, MemType
<1>5. OneReplyAtATime'
  BY <1>1, <1>2 DEF IInv, JobOK, JobType, OneReplyAtATime
<1>6. CASE PayloadThrow(g, r)
  BY <1>0, <1>3, <1>4, <1>5, <1>6, SessionThrowsKeeps DEF PayloadThrow, IInv
<1>7. CASE PayloadOk(g, r) \/ PayloadBad(g, r)
  <2>1. ConnOK' /\ (completed \in Nat)' /\ disabled \subseteq disabled'
    <3>1. CASE UNCHANGED <<open, disabled, completed>> /\ (err' = err \/ err' = err \cup {g})
      BY <1>0, <1>2, <3>1, ZenonT(60) DEF IInv, ConnOK, ConnType
    <3>2. CASE err' = err \cup {g} /\ Cleanup(g)
      BY <1>0, <1>2, <3>2, CleanupKeeps DEF IInv
    <3>. QED BY <1>7, <3>1, <3>2 DEF PayloadOk, PayloadBad
  <2>2. LoopOK'
    BY <1>0, <1>2, <1>7, <2>1
    DEF PayloadOk, PayloadBad, NextRequest, IInv, LoopOK, LoopType, ConnOK, ConnType
  <2>. QED BY <1>3, <1>4, <1>5, <2>1, <2>2 DEF IInv
<1>. QED BY <1>6, <1>7

\* The fiber of a request: filters, handler, reply, end.
LEMMA FiberStep ==
  ASSUME IInv, NEW r \in Req,
         \/ FilterDone(r) \/ HandlerDone(r) \/ SendStart(r) \/ SendDone(r)
         \/ FlushDone(r) \/ JobThrow(r)
  PROVE  IInv'
<1>0. job[r] \in {"filter", "handle", "ser", "sending", "flush"}
  BY Zenon DEF FilterDone, HandlerDone, SendStart, SendDone, FlushDone, JobThrow, InGate
<1>1. on[r] \in 1..nconn /\ Size[r] \in Nat
  <2>1. job[r] # "none"
    BY <1>0
  <2>2. on[r] \in 1..nconn
    BY <2>1, Zenon DEF IInv, JobOK
  <2>3. Size[r] \in Nat
    OBVIOUS
  <2>. QED BY <2>2, <2>3
<1>2. PICK j \in {"handle", "ser", "sending", "flush", "answered", "dropped"} :
        job' = [job EXCEPT ![r] = j]
  <2>1. CASE FilterDone(r) \/ HandlerDone(r)
    BY <2>1, Zenon DEF FilterDone, HandlerDone, JobEnds
  <2>2. CASE SendStart(r) \/ SendDone(r) \/ FlushDone(r)
    BY <2>2, Zenon DEF SendStart, SendDone, FlushDone, JobEnds
  <2>3. CASE JobThrow(r)
    BY <2>3, Zenon DEF JobThrow
  <2>. QED BY <2>1, <2>2, <2>3
<1>3. UNCHANGED <<on, cur, loop, nconn, shut, memQ, accepting, stop>>
  BY Zenon DEF FilterDone, HandlerDone, SendStart, SendDone, FlushDone, JobThrow, JobEnds,
         connVars, loopVars, memVars, runVars
<1>4. JobOK'
  BY <1>0, <1>2, <1>3, JobKeeps, Zenon DEF IInv
<1>5. RunType' /\ MemType'
  <2>1. avail' = avail \/ avail' = avail + PayloadSize(r)
    BY Zenon DEF FilterDone, HandlerDone, SendStart, SendDone, FlushDone, JobThrow, JobEnds,
             memVars
  <2>2. avail' \in Int
    BY <2>1, SizeNarrowed DEF IInv, MemType
  <2>. QED BY <1>3, <2>2 DEF IInv, RunType, MemType
<1>6. ConnOK' /\ (completed \in Nat)' /\ disabled \subseteq disabled'
  <2>1. CASE UNCHANGED <<open, err, disabled, completed>>
    BY <1>3, <2>1 DEF IInv, ConnOK, ConnType
  <2>2. CASE (err' = err \/ err' = err \cup {on[r]}) /\ Cleanup(on[r])
    BY <1>1, <1>3, <2>2, CleanupKeeps DEF IInv
  <2>. QED BY <2>1, <2>2 DEF FilterDone, HandlerDone, SendStart, SendDone, FlushDone,
                             JobThrow, JobEnds, connVars
<1>7. LoopOK'
  BY <1>3, <1>6, LoopKeeps DEF IInv
<1>8. OneReplyAtATime'
  <2>1. CASE SendStart(r)
    BY <2>1 DEF SendStart, IInv, JobOK, JobType, OneReplyAtATime
  <2>2. CASE ~SendStart(r)
    <3>1. j # "sending"
      BY <1>0, <1>2, <2>2 DEF FilterDone, HandlerDone, SendDone, FlushDone, JobThrow,
                              JobEnds, IInv, JobOK, JobType
    <3>. QED BY <1>2, <1>3, <3>1 DEF IInv, JobOK, JobType, OneReplyAtATime
  <2>. QED BY <2>1, <2>2
<1>. QED BY <1>4, <1>5, <1>6, <1>7, <1>8 DEF IInv

\* Every step keeps the invariant.
LEMMA NextIInv == IInv /\ [Next]_vars => IInv'
<1>. SUFFICES ASSUME IInv, [Next]_vars PROVE IInv'
  OBVIOUS
<1>1. CASE ServerStep
  BY <1>1, AcceptStep, ServerStepKeeps DEF ServerStep
<1>2. ASSUME NEW g \in Conn, SessionStep(g) PROVE IInv'
  BY <1>2, SessionTopStep, HeaderOkStep, HeaderFailStep, PayloadStep DEF SessionStep
<1>3. ASSUME NEW r \in Req, JobStep(r) PROVE IInv'
  BY <1>3, MemAcquireStep, FiberStep DEF JobStep
<1>4. CASE UNCHANGED vars
  BY <1>4 DEF vars, connVars, loopVars, memVars, jobVars, runVars, IInv, RunType, ConnOK,
              ConnType, LoopOK, LoopType, JobOK, JobType, MemType, OneReplyAtATime
<1>. QED BY <1>1, <1>2, <1>3, <1>4 DEF Next

-----------------------------------------------------------------------------
(* The invariants.                                                         *)

\* The inductive invariant holds in every reachable state of the server.
THEOREM ServerInvariance == Spec => []IInv
<1>. QED BY InitIInv, NextIInv, PTL DEF Spec

\* The variables of rpc_server keep their types.
THEOREM ServerTypeCorrect == Spec => []TypeOK
<1>1. IInv => TypeOK
  BY DEF IInv, TypeOK, ConnOK, LoopOK, JobOK
<1>. QED BY <1>1, ServerInvariance, PTL

\* handle_client_connection never ends and leaves its connection behind in
\* open_connections_, whichever way it ends.
THEOREM EndedSessionsClosed == Spec => []EndedSessionIsClosed
<1>1. IInv => EndedSessionIsClosed
  BY DEF IInv, EndedSessionIsClosed, ConnOK, LoopOK
<1>. QED BY <1>1, ServerInvariance, PTL

\* Two replies are never written to one connection at the same time.
THEOREM RepliesNotInterleaved == Spec => []OneReplyAtATime
<1>1. IInv => OneReplyAtATime
  BY DEF IInv
<1>. QED BY <1>1, ServerInvariance, PTL

-----------------------------------------------------------------------------
(* The contract.                                                           *)

\* Once stop() resolved, no request is in the gate.
Drained == stop = "stopped" => \A r \in Req : ~InGate(r)

\* Every step keeps the gate empty after stop().
LEMMA DrainedStep == IInv /\ Drained /\ [Next]_vars => Drained'
<1>. SUFFICES ASSUME IInv, Drained, [Next]_vars, stop' = "stopped", NEW q \in Req
              PROVE  ~InGate(q)'
  BY DEF Drained
<1>1. CASE stop # "stopped"
  <2>1. StopDone
    <3>1. ~UNCHANGED vars
      BY <1>1 DEF vars, runVars
    <3>2. ASSUME ServerStep PROVE StopDone
      BY <1>1, <3>2 DEF ServerStep, runVars, Accept, AcceptEnd, Stop, StopAccepted
    <3>3. ASSUME NEW g \in Conn, SessionStep(g) PROVE FALSE
      BY <1>1, <3>3 DEF SessionStep, runVars, SessionTop, HeaderOk, HeaderBad, HeaderThrow,
                        PayloadOk, PayloadBad, PayloadThrow
    <3>4. ASSUME NEW r \in Req, JobStep(r) PROVE FALSE
      BY <1>1, <3>4 DEF JobStep, runVars, MemAcquire, FilterDone, HandlerDone, SendStart,
                        SendDone, FlushDone, JobThrow
    <3>. QED BY <3>1, <3>2, <3>3, <3>4 DEF Next
  <2>. QED BY <2>1 DEF StopDone, InGate, jobVars
<1>2. CASE stop = "stopped"
  <2>0. \A r \in Req : ~InGate(r)
    BY <1>2 DEF Drained
  <2>1. CASE ServerStep \/ UNCHANGED vars
    BY <2>0, <2>1 DEF ServerStep, Accept, AcceptEnd, Stop, StopAccepted, StopDone, vars, jobVars,
                      InGate
  <2>2. ASSUME NEW g \in Conn, SessionStep(g) PROVE ~InGate(q)'
    <3>1. job' = job \/ \E r \in Req, j \in {"waiting", "dropped", "lost"} :
                          job' = [job EXCEPT ![r] = j]
      BY <1>2, <2>2 DEF SessionStep, SessionTop, HeaderOk, HeaderBad, HeaderThrow, PayloadOk,
                        PayloadBad, PayloadThrow, GateClosed, jobVars
    <3>. QED BY <2>0, <3>1 DEF InGate, IInv, JobOK, JobType
  <2>3. ASSUME NEW r \in Req, JobStep(r) PROVE ~InGate(q)'
    <3>1. MemAcquire(r)
      BY <2>0, <2>3, Zenon DEF JobStep, FilterDone, HandlerDone, SendStart, SendDone, FlushDone,
                        JobThrow, InGate
    <3>2. job' = [job EXCEPT ![r] = "reading"] /\ JobType
      BY <3>1, Zenon DEF MemAcquire, IInv, JobOK
    <3>3. job'[q] = IF q = r THEN "reading" ELSE job[q]
      BY <3>2 DEF JobType
    <3>. QED BY <2>0, <3>3, ZenonT(60) DEF InGate
  <2>. QED BY <2>1, <2>2, <2>3 DEF Next
<1>. QED BY <1>1, <1>2

\* A request that moves on moves in the contract.
LEMMA StateStep ==
  ASSUME JobType, NEW r \in Req, NEW j, job' = [job EXCEPT ![r] = j]
  PROVE  /\ requestState' = [requestState EXCEPT ![r] = StateOf(j)]
         /\ requestState[r] = StateOf(job[r])
         /\ StateOf(j) = StateOf(job[r]) => requestState' = requestState
BY Zenon DEF JobType, requestState

\* How far a request is, in the terms of the contract.
LEMMA StateOfJob ==
  /\ \A j \in {"none", "waiting", "reading"} : StateOf(j) = "unread"
  /\ StateOf("filter") = "taken"
  /\ \A j \in {"handle", "ser", "sending"} : StateOf(j) = "run"
  /\ \A j \in {"flush", "answered"} : StateOf(j) = "answered"
  /\ \A j \in {"dropped", "lost"} : StateOf(j) = "dropped"
BY DEF StateOf

\* A new server maps to a new contract.
LEMMA InitRefines == Init => Contract!Init
BY StateOfJob DEF Init, Contract!Init, requestState

\* A request that is dropped.
LEMMA DropRefines ==
  ASSUME IInv, NEW r \in Req, NEW j \in {"dropped", "lost"}, job' = [job EXCEPT ![r] = j],
         job[r] \in {"none", "waiting", "reading", "filter", "handle", "ser", "sending"},
         stop' = stop
  PROVE  Contract!Next
<1>0. JobType
  BY DEF IInv, JobOK
<1>1. requestState' = [requestState EXCEPT ![r] = "dropped"]
  <2>1. StateOf(j) = "dropped"
    BY StateOfJob
  <2>2. requestState' = [requestState EXCEPT ![r] = StateOf(j)]
    BY <1>0, StateStep, Zenon
  <2>. QED BY <2>1, <2>2
<1>2. requestState[r] \in {"unread", "taken", "run"}
  <2>1. requestState[r] = StateOf(job[r])
    BY DEF requestState
  <2>. QED BY <2>1, StateOfJob
<1>. QED BY <1>1, <1>2, Zenon DEF Contract!Next, Contract!Drop

\* A step that changes nothing the contract sees.
LEMMA SameRefines ==
  ASSUME requestState' = requestState, stop' = stop
  PROVE  UNCHANGED Contract!vars
BY DEF Contract!vars

\* The steps of start() and stop() are those of the contract, or none.
LEMMA ServerRefines ==
  ASSUME IInv, ServerStep
  PROVE  [Contract!Next]_Contract!vars
<1>1. requestState' = requestState
  BY DEF ServerStep, Accept, AcceptEnd, Stop, StopAccepted, StopDone, jobVars, requestState
<1>2. CASE StopDone
  <2>1. \A r \in Req : requestState[r] \notin {"taken", "run"}
    BY <1>2, StateOfJob DEF StopDone, InGate, requestState, IInv, JobOK, JobType
  <2>. QED BY <1>1, <1>2, <2>1 DEF StopDone, Contract!Next, Contract!Halt
<1>3. CASE ~StopDone
  <2>1. (stop = "stopped")' = (stop = "stopped")
    BY <1>3 DEF ServerStep, Accept, AcceptEnd, Stop, StopAccepted, runVars
  <2>. QED BY <1>1, <2>1 DEF Contract!vars
<1>. QED BY <1>2, <1>3

\* A session takes up a request or changes nothing of the contract.
LEMMA SessionRefines ==
  ASSUME IInv, NEW g \in Conn, SessionStep(g)
  PROVE  [Contract!Next]_Contract!vars
<1>0. stop' = stop
  BY DEF SessionStep, SessionTop, HeaderOk, HeaderBad, HeaderThrow, PayloadOk, PayloadBad,
         PayloadThrow, runVars
<1>1. CASE job' = job
  BY <1>0, <1>1, SameRefines DEF requestState
<1>2. ASSUME NEW r \in Req, HeaderOk(g, r) PROVE [Contract!Next]_Contract!vars
  <2>1. job[r] = "none" /\ job' = [job EXCEPT ![r] = "waiting"] /\ JobType
    BY <1>2 DEF HeaderOk, IInv, JobOK
  <2>2. StateOf("waiting") = StateOf(job[r])
    BY <2>1, StateOfJob
  <2>3. requestState' = requestState
    BY <2>1, <2>2, StateStep, Zenon
  <2>. QED BY <1>0, <2>3, SameRefines
<1>3. ASSUME NEW r \in Req, PayloadOk(g, r) \/ PayloadBad(g, r) \/ PayloadThrow(g, r)
      PROVE  [Contract!Next]_Contract!vars
  <2>0. job[r] = "reading"
    BY <1>3 DEF PayloadOk, PayloadBad, PayloadThrow
  <2>1. CASE \E j \in {"dropped", "lost"} : job' = [job EXCEPT ![r] = j]
    BY <1>0, <2>0, <2>1, DropRefines, Zenon
  <2>2. CASE job' = [job EXCEPT ![r] = "filter"] /\ ~GateClosed
    <3>1. requestState[r] = "unread" /\ requestState' = [requestState EXCEPT ![r] = "taken"]
      <4>1. JobType /\ StateOf(job[r]) = "unread" /\ StateOf("filter") = "taken"
        BY <2>0, StateOfJob DEF IInv, JobOK
      <4>. QED BY <2>2, <4>1, StateStep, ZenonT(60)
    <3>2. stop # "stopped" /\ stop' # "stopped"
      BY <1>0, <2>2 DEF GateClosed
    <3>. QED BY <3>1, <3>2, Zenon DEF Contract!Next, Contract!TakeUp
  <2>. QED BY <1>3, <2>1, <2>2 DEF PayloadOk, PayloadBad, PayloadThrow
<1>. QED BY <1>1, <1>2, <1>3 DEF SessionStep, SessionTop, HeaderBad, HeaderThrow, jobVars

\* A request fiber runs, answers or drops its request.
LEMMA JobRefines ==
  ASSUME IInv, Drained, NEW r \in Req, JobStep(r)
  PROVE  [Contract!Next]_Contract!vars
<1>0. stop' = stop
  BY DEF JobStep, MemAcquire, FilterDone, HandlerDone, SendStart, SendDone, FlushDone, JobThrow,
         runVars
<1>1. PICK j : job' = [job EXCEPT ![r] = j] /\ StateOf(j) \in {StateOf(job[r]), "dropped", "run", "answered"}
  BY StateOfJob DEF JobStep, MemAcquire, FilterDone, HandlerDone, SendStart, SendDone, FlushDone,
     JobThrow, JobEnds
<1>2. CASE StateOf(j) = StateOf(job[r])
  BY <1>0, <1>1, <1>2, StateStep, SameRefines, Zenon DEF IInv, JobOK
<1>3. CASE StateOf(j) # StateOf(job[r])
  <2>1. stop # "stopped" /\ stop' # "stopped"
    <3>1. InGate(r) \/ MemAcquire(r)
      BY DEF JobStep, FilterDone, HandlerDone, SendStart, SendDone, FlushDone, JobThrow, InGate
    <3>2. ~MemAcquire(r)
      BY <1>1, <1>3, StateOfJob DEF MemAcquire, IInv, JobOK, JobType
    <3>. QED BY <1>0, <3>1, <3>2 DEF Drained
  <2>2. CASE FilterDone(r) /\ job' = [job EXCEPT ![r] = "handle"]
    <3>1. JobType /\ StateOf(job[r]) = "taken" /\ StateOf("handle") = "run"
      BY <2>2, StateOfJob DEF FilterDone, IInv, JobOK
    <3>2. requestState[r] = "taken" /\ requestState' = [requestState EXCEPT ![r] = "run"]
      BY <2>2, <3>1, StateStep, ZenonT(60)
    <3>. QED BY <2>1, <3>2, ZenonT(60) DEF Contract!Next, Contract!Run
  <2>3. CASE SendDone(r)
    <3>0. job[r] = "sending" /\ job' = [job EXCEPT ![r] = "flush"]
      BY <2>3 DEF SendDone
    <3>1. JobType /\ StateOf(job[r]) = "run" /\ StateOf("flush") = "answered"
      BY <3>0, StateOfJob DEF IInv, JobOK
    <3>2. requestState[r] = "run" /\ requestState' = [requestState EXCEPT ![r] = "answered"]
      BY <3>0, <3>1, StateStep, ZenonT(60)
    <3>. QED BY <2>1, <3>2, ZenonT(60) DEF Contract!Next, Contract!Answer
  <2>4. CASE job' = [job EXCEPT ![r] = "dropped"] /\ InGate(r) /\ job[r] # "flush"
    BY <1>0, <2>4, DropRefines, Zenon DEF InGate
  <2>. QED
    <3>1. CASE MemAcquire(r) \/ SendStart(r) \/ FlushDone(r)
      BY <1>1, <1>3, <3>1, StateOfJob DEF MemAcquire, SendStart, FlushDone, JobEnds, IInv, JobOK,
         JobType
    <3>2. CASE HandlerDone(r) \/ JobThrow(r) \/ FilterDone(r)
      BY <1>1, <1>3, <2>2, <2>4, <3>2, StateOfJob, ZenonT(60) DEF HandlerDone, JobThrow, FilterDone, JobEnds,
         InGate, IInv, JobOK, JobType
    <3>. QED BY <2>3, <3>1, <3>2 DEF JobStep
<1>. QED BY <1>2, <1>3

\* Every step of the server is one of the contract, or none.
LEMMA NextRefines ==
  IInv /\ Drained /\ [Next]_vars => [Contract!Next]_Contract!vars
<1>. SUFFICES ASSUME IInv, Drained, [Next]_vars PROVE [Contract!Next]_Contract!vars
  OBVIOUS
<1>1. CASE UNCHANGED vars
  BY <1>1, SameRefines DEF vars, jobVars, runVars, requestState
<1>2. CASE Next
  BY <1>2, ServerRefines, SessionRefines, JobRefines DEF Next
<1>. QED BY <1>1, <1>2

\* rpc_server implements RpcServe, for any requests, sizes, memory and number of
\* connections: a request is run and answered at most once, in that order, and
\* nothing is run or written after stop() resolved.
THEOREM ServerRefinement == Spec => ImplementsServe
<1>1. Init => Drained
  BY DEF Init, Drained
<1>. QED BY <1>1, InitRefines, ServerInvariance, DrainedStep, NextRefines, PTL
         DEF Spec, ImplementsServe, Contract!Spec

-----------------------------------------------------------------------------
(* The units of resources_available.                                       *)

(* The invariant with the sum by its name.                                 *)
LEMMA MemoryAsSum ==
  /\ MemoryAccounted <=> /\ avail + SumOver(Kept, Req) = MaxMem
                         /\ avail < 0 => \E q \in Req : Narrowed(q)
  /\ MemoryAccounted' <=> /\ avail' + SumOver(Kept', Req) = MaxMem
                          /\ avail' < 0 => \E q \in Req : Narrowed(q)'
BY Zenon DEF MemoryAccounted, SumOver, MapThenSumSet, MapThenFoldSet

(* The units that a request keeps are a number.                            *)
LEMMA KeptType == Kept \in [Req -> Nat] /\ Kept' \in [Req -> Nat]
BY SizeNarrowed DEF Kept

\* A step moves the units of one request, or none; it takes them only if they are
\* there and returns them whole, unless the size is another number as an int32_t.
UnitsStay == Kept' = Kept /\ avail' = avail /\ \A q \in Req : Narrowed(q) => Narrowed(q)'
UnitsMoved(r) ==
  /\ Kept' = [Kept EXCEPT ![r] = Kept'[r]] /\ avail' + Kept'[r] = avail + Kept[r]
  /\ \A q \in Req : Narrowed(q) => Narrowed(q)'
  /\ avail' < 0 => avail < 0 \/ Narrowed(r)'

(* Only the request whose job changes keeps other units than before.       *)
LEMMA JobChange ==
  ASSUME JobType, NEW r \in Req, NEW j, job' = [job EXCEPT ![r] = j], ~Narrowed(r)
  PROVE  /\ Kept' = [Kept EXCEPT ![r] = Kept'[r]]
         /\ \A q \in Req : Narrowed(q) => Narrowed(q)'
         /\ j \in {"reading", "filter", "handle", "ser", "sending", "flush", "lost"}
              => Kept'[r] = Size[r]
         /\ j \in {"none", "waiting"} => Kept'[r] = 0
         /\ j \in {"answered", "dropped"} =>
              /\ Kept'[r] = Size[r] - PayloadSize(r)
              /\ PayloadSize(r) # Size[r] => Narrowed(r)'
<1>1. job'[r] = j /\ \A q \in Req \ {r} : job'[q] = job[q]
  BY DEF JobType
<1>2. \A q \in Req \ {r} : (Narrowed(q)' <=> Narrowed(q)) /\ Kept'[q] = Kept[q]
  BY <1>1 DEF Narrowed, Kept, Holding, InGate
<1>3. Kept' = [Kept EXCEPT ![r] = Kept'[r]]
  BY <1>2, Zenon DEF Kept
<1>4. Narrowed(r)' <=> j \in {"answered", "dropped"} /\ PayloadSize(r) # Size[r]
  BY <1>1 DEF Narrowed, PayloadSize, Int32
<1>5. Kept'[r] = IF j \in {"reading", "filter", "handle", "ser", "sending", "flush", "lost"}
                 THEN Size[r]
                 ELSE IF j \in {"answered", "dropped"} /\ PayloadSize(r) # Size[r]
                 THEN Size[r] - PayloadSize(r) ELSE 0
  BY <1>1, <1>4 DEF Kept, Holding, InGate, PayloadSize, Int32
<1>. QED BY <1>2, <1>3, <1>4, <1>5, SizeNarrowed

(* What a request keeps follows from its job.                              *)
LEMMA KeptNow ==
  ASSUME NEW r \in Req
  PROVE  /\ job[r] = "reading" \/ InGate(r) => Kept[r] = Size[r] /\ ~Narrowed(r)
         /\ job[r] \in {"none", "waiting"} => Kept[r] = 0 /\ ~Narrowed(r)
BY DEF Kept, Holding, InGate, Narrowed

(* The three ways to move units.                                           *)
LEMMA UnitsGiven ==
  ASSUME IInv, NEW r \in Req, job[r] = "reading" \/ InGate(r),
         NEW j \in {"answered", "dropped"},
         job' = [job EXCEPT ![r] = j], avail' = avail + PayloadSize(r)
  PROVE  UnitsMoved(r)
<1>1. JobType /\ avail \in Int
  BY DEF IInv, JobOK, MemType
<1>2. Kept[r] = Size[r] /\ ~Narrowed(r)
  BY KeptNow
<1>3. /\ Kept' = [Kept EXCEPT ![r] = Kept'[r]] /\ Kept'[r] = Size[r] - PayloadSize(r)
      /\ PayloadSize(r) # Size[r] => Narrowed(r)'
      /\ \A q \in Req : Narrowed(q) => Narrowed(q)'
  BY <1>1, <1>2, JobChange, Zenon
<1>4. avail' + Kept'[r] = avail + Kept[r]
  BY <1>1, <1>2, <1>3, SizeNarrowed
<1>5. avail' < 0 => avail < 0 \/ Narrowed(r)'
  BY <1>1, <1>3, SizeNarrowed
<1>. QED BY <1>3, <1>4, <1>5 DEF UnitsMoved

LEMMA UnitsUsed ==
  ASSUME IInv, NEW r \in Req, job[r] = "reading" \/ InGate(r),
         NEW j \in {"filter", "handle", "ser", "sending", "flush", "lost"},
         job' = [job EXCEPT ![r] = j], avail' = avail
  PROVE  UnitsStay
<1>1. JobType
  BY DEF IInv, JobOK
<1>2. Kept[r] = Size[r] /\ ~Narrowed(r)
  BY KeptNow
<1>3. /\ Kept' = [Kept EXCEPT ![r] = Kept'[r]] /\ Kept'[r] = Size[r]
      /\ \A q \in Req : Narrowed(q) => Narrowed(q)'
  BY <1>1, <1>2, JobChange, Zenon
<1>. QED BY <1>2, <1>3, KeptType DEF UnitsStay

(* Every step of the server is one of the two.                             *)
LEMMA MemoryFrame ==
  ASSUME IInv, Next
  PROVE  UnitsStay \/ \E r \in Req : UnitsMoved(r)
<1>0. JobType /\ avail \in Int
  BY DEF IInv, JobOK, MemType
<1>1. ASSUME UNCHANGED <<job, avail>> PROVE UnitsStay
  BY <1>1 DEF UnitsStay, Kept, Narrowed, Holding, InGate
<1>2. ASSUME ServerStep PROVE UnitsStay
  <2>1. UNCHANGED <<job, avail>>
    BY <1>2, ZenonT(60) DEF ServerStep, Accept, AcceptEnd, Stop, StopAccepted, StopDone,
       jobVars, memVars
  <2>. QED BY <1>1, <2>1
<1>3. ASSUME NEW g \in Conn, SessionTop(g) \/ HeaderBad(g) \/ HeaderThrow(g) PROVE UnitsStay
  <2>1. UNCHANGED <<job, avail>>
    BY <1>3, ZenonT(60) DEF SessionTop, HeaderBad, HeaderThrow, jobVars, memVars
  <2>. QED BY <1>1, <2>1
<1>4. ASSUME NEW g \in Conn, NEW r \in Req, HeaderOk(g, r) PROVE UnitsStay
  <2>1. job[r] = "none" /\ job' = [job EXCEPT ![r] = "waiting"] /\ avail' = avail
    BY <1>4 DEF HeaderOk
  <2>2. Kept[r] = 0 /\ ~Narrowed(r)
    BY <2>1, KeptNow
  <2>3. /\ Kept' = [Kept EXCEPT ![r] = Kept'[r]] /\ Kept'[r] = 0
        /\ \A q \in Req : Narrowed(q) => Narrowed(q)'
    BY <1>0, <2>1, <2>2, JobChange, Zenon
  <2>. QED BY <2>1, <2>2, <2>3, KeptType DEF UnitsStay
<1>5. ASSUME NEW g \in Conn, NEW r \in Req, PayloadOk(g, r) \/ PayloadBad(g, r) \/ PayloadThrow(g, r)
      PROVE  UnitsStay \/ UnitsMoved(r)
  <2>1. /\ job[r] = "reading"
        /\ \/ job' = [job EXCEPT ![r] = "filter"] /\ avail' = avail
           \/ job' = [job EXCEPT ![r] = "lost"] /\ avail' = avail
           \/ job' = [job EXCEPT ![r] = "dropped"] /\ avail' = avail + PayloadSize(r)
    BY <1>5 DEF PayloadOk, PayloadBad, PayloadThrow, memVars
  <2>. QED BY <2>1, UnitsGiven, UnitsUsed
<1>6. ASSUME NEW r \in Req, MemAcquire(r) PROVE UnitsMoved(r)
  <2>1. /\ job[r] = "waiting" /\ job' = [job EXCEPT ![r] = "reading"]
        /\ avail' = avail - Size[r] /\ avail >= Size[r]
    BY <1>6 DEF MemAcquire
  <2>2. Kept[r] = 0 /\ ~Narrowed(r)
    BY <2>1, KeptNow
  <2>3. /\ Kept' = [Kept EXCEPT ![r] = Kept'[r]] /\ Kept'[r] = Size[r]
        /\ \A q \in Req : Narrowed(q) => Narrowed(q)'
    BY <1>0, <2>1, <2>2, JobChange, Zenon
  <2>4. avail' + Kept'[r] = avail + Kept[r] /\ ~(avail' < 0)
    BY <1>0, <2>1, <2>2, <2>3, SizeNarrowed
  <2>. QED BY <2>3, <2>4 DEF UnitsMoved
<1>7. ASSUME NEW r \in Req, \/ FilterDone(r) \/ HandlerDone(r) \/ SendStart(r)
                            \/ SendDone(r) \/ FlushDone(r) \/ JobThrow(r)
      PROVE  UnitsStay \/ UnitsMoved(r)
  <2>1. /\ InGate(r)
        /\ \/ /\ \E j \in {"handle", "ser", "sending", "flush"} : job' = [job EXCEPT ![r] = j]
              /\ avail' = avail
           \/ /\ \E j \in {"answered", "dropped"} : job' = [job EXCEPT ![r] = j]
              /\ avail' = avail + PayloadSize(r)
    <3>1. CASE FilterDone(r) \/ HandlerDone(r)
      BY <3>1 DEF FilterDone, HandlerDone, JobEnds, InGate
    <3>2. CASE SendStart(r) \/ SendDone(r)
      BY <3>2 DEF SendStart, SendDone, InGate, memVars
    <3>3. CASE FlushDone(r)
      BY <3>3 DEF FlushDone, JobEnds, InGate
    <3>4. CASE JobThrow(r)
      <4>1. /\ InGate(r) /\ avail' = avail + PayloadSize(r)
            /\ job' = [job EXCEPT ![r] = IF job[r] = "flush" THEN "answered" ELSE "dropped"]
        BY <3>4 DEF JobThrow
      <4>. QED BY <4>1, Zenon
    <3>. QED BY <1>7, <3>1, <3>2, <3>3, <3>4
  <2>. QED BY <2>1, UnitsGiven, UnitsUsed
<1>. QED BY <1>2, <1>3, <1>4, <1>5, <1>6, <1>7, ZenonT(60) DEF Next, SessionStep, JobStep

(* No step creates units or loses them.                                    *)
LEMMA NextMemory == IInv /\ MemoryAccounted /\ [Next]_vars => MemoryAccounted'
<1> SUFFICES ASSUME IInv, MemoryAccounted, [Next]_vars
             PROVE  /\ avail' + SumOver(Kept', Req) = MaxMem
                    /\ avail' < 0 => \E q \in Req : Narrowed(q)'
  BY MemoryAsSum
<1>0. /\ avail + SumOver(Kept, Req) = MaxMem /\ avail \in Int
      /\ avail < 0 => \E q \in Req : Narrowed(q)
  BY MemoryAsSum DEF IInv, MemType
<1>1. CASE UnitsStay
  BY <1>0, <1>1 DEF UnitsStay
<1>2. ASSUME NEW r \in Req, UnitsMoved(r)
      PROVE  /\ avail' + SumOver(Kept', Req) = MaxMem
             /\ avail' < 0 => \E q \in Req : Narrowed(q)'
  <2> DEFINE rest == Req \ {r}
  <2>1. IsFiniteSet(rest) /\ \A q \in rest : Kept[q] \in Nat /\ Kept'[q] = Kept[q]
    BY <1>2, KeptType, FS_RemoveElement DEF UnitsMoved
  <2>2. SumOver(Kept', rest) = SumOver(Kept, rest) /\ SumOver(Kept, rest) \in Nat
    <3> HIDE DEF rest
    <3>. QED BY <2>1, SumSame, SumType, Zenon
  <2>3. SumOver(Kept, Req) = Kept[r] + SumOver(Kept, rest)
    BY KeptType, SumRemove
  <2>4. SumOver(Kept', Req) = Kept'[r] + SumOver(Kept', rest)
    BY KeptType, SumRemove
  <2>5. avail' + Kept'[r] = avail + Kept[r] /\ avail' \in Int
    BY <1>2, NextIInv DEF UnitsMoved, IInv, MemType
  <2>6. avail' + SumOver(Kept', Req) = MaxMem
    <3> HIDE DEF rest
    <3>. QED BY <1>0, <2>2, <2>3, <2>4, <2>5, KeptType
  <2>7. avail' < 0 => \E q \in Req : Narrowed(q)'
    BY <1>0, <1>2 DEF UnitsMoved
  <2>. QED BY <2>6, <2>7
<1>3. CASE UNCHANGED vars
  BY <1>1, <1>3 DEF vars, jobVars, memVars, UnitsStay, Kept, Narrowed, Holding, InGate
<1>. QED BY <1>1, <1>2, <1>3, MemoryFrame

\* However a request ends, by an early return, an exception or a reply, its units
\* go back once, except that a payload that timed out or threw keeps them and that
\* a size too large for an int32_t comes back as another number; without such a size
\* the semaphore never goes below zero.
THEOREM ServerMemory == Spec => []MemoryAccounted
<1>1. Init => MemoryAccounted
  <2> SUFFICES ASSUME Init PROVE MemoryAccounted
    OBVIOUS
  <2>1. avail = MaxMem /\ \A r \in Req : Kept[r] = 0
    BY DEF Init, Kept, Narrowed, Holding, InGate
  <2>2. SumOver(Kept, Req) = 0
    BY <2>1, SumZero
  <2>. QED BY <2>1, <2>2, MemoryAsSum
<1>. QED BY <1>1, NextMemory, ServerInvariance, PTL DEF Spec

=============================================================================
