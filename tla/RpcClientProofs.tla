--------------------------- MODULE RpcClientProofs ---------------------------
(***************************************************************************)
(* Theorems about RpcClient, for every set of calls, every number of       *)
(* sessions and connections, both builds.                                  *)
(*                                                                         *)
(* IInv is inductive without any assumption on the callers, on the build   *)
(* or on the number of sessions.                                           *)
(*                                                                         *)
(* Matched: when callers do not reuse a session still in flight (Window),  *)
(* a reply is handed to the call whose request it answers, and the client  *)
(* implements the contract of RpcCall.                                     *)
(***************************************************************************)
EXTENDS RpcClient, TLAPS

\* The provers a leaf is tried with, in this order, unless it names its own.
USE SMTT(10), SMTT(20), ZenonT(30), SMTT(60)

\* A call without session has nothing anywhere; one in the outgoing filters
\* has no write yet.
CallShape ==
  \A c \in Call :
    /\ pc[c] = "init" => sess[c] = NoSession
    /\ sess[c] = NoSession =>
         /\ pc[c] \in {"init", "failed"} /\ prom[c] = "none"
         /\ writer[c] = "none"
    /\ pc[c] = "filter" => writer[c] = "none"
    /\ pc[c] \in {"infilter", "ok"} => prom[c] = "value"

\* A slot is that of the session of the call in it.
SlotShape == \A s \in Session : slots[s] # NoCall => sess[slots[s]] = s

\* A write that reached ostream names an opened connection, and only such a
\* write is on the wire.
WriteShape ==
  \A c \in Call :
    /\ wconn[c] \in 0..nconn
    /\ writer[c] \in {"sending", "sent", "aborted"} => wconn[c] \in 1..nconn
    /\ c \in wire => writer[c] \in {"sending", "sent", "aborted"}

\* A read names an opened connection and has a reply once the header is parsed.
ReadShape ==
  \A g \in Conn :
    /\ phase[g] # "idle" => rconn[g] \in 1..nconn
    /\ phase[g] = "payload" <=> reply[g] # NoCall
    /\ reply[g] # NoCall => reply[g] \in heard
    /\ fiber[g] = "busy" => phase[g] # "idle"
    /\ fiber[g] \in {"none", "top"} => phase[g] = "idle"
    /\ g > nconn => fiber[g] = "none"

\* The gate is closed exactly while, or after, stop() or reconnect() drains it
\* (the LOG_THROW_IF of reconnect never fires).
GateShape == gateClosed <=> mgmt # "idle"

IInv ==
  /\ Types
  /\ GateShape /\ CallShape /\ SlotShape /\ WriteShape /\ ReadShape
  /\ PendingIffInSlot /\ NoOrphanCall /\ ClosedGateHasNoSlots
  /\ ConnOutlivesFibers /\ OneFrameAtATime

-----------------------------------------------------------------------------
(* Lemmas about the operators.                                             *)

\* ++session_idx_ wraps inside the range of sessions.
LEMMA NextSessionType ==
  ASSUME session_idx \in Session
  PROVE  NextSession \in Session
BY ClientAssumption DEF Session, NextSession

\* fail_outstanding_futures leaves no slot and no pending promise, and changes
\* no promise that has been resolved or not made.
Failed ==
  /\ disabled' \subseteq 1..nconn /\ errored' \subseteq 1..nconn
  /\ slots' = [s \in Session |-> NoCall]
  /\ prom' \in [Call -> {"none", "pending", "value", "error"}]
  /\ \A c \in Call : ~HasSlot(c)' /\ prom'[c] # "pending"
  /\ \A c \in Call : prom'[c] = "none" <=> prom[c] = "none"
  /\ \A c \in Call : prom'[c] = "value" <=> prom[c] = "value"
  /\ UNCHANGED <<conn, nconn, session_idx, read_counter, sess, got>>

\* What fail_outstanding_futures does in a state of the invariant.
LEMMA FailFacts ==
  ASSUME IInv, FailOutstandingFutures, errored' \subseteq 1..nconn
  PROVE  Failed
<1> USE ClientAssumption
<1>1. disabled' \subseteq 1..nconn
  BY DEF IInv, Types, ConnType, FailOutstandingFutures, Conn
<1>2. /\ slots' = [s \in Session |-> NoCall]
      /\ UNCHANGED <<conn, nconn, session_idx, read_counter, sess, got>>
  BY DEF FailOutstandingFutures
<1>3. prom' = [c \in Call |-> IF HasSlot(c) THEN "error" ELSE prom[c]]
  BY DEF FailOutstandingFutures
<1>4. \A c \in Call : ~HasSlot(c)'
  BY <1>2 DEF HasSlot
<1>5. \A c \in Call : prom[c] = "pending" <=> HasSlot(c)
  BY DEF IInv, PendingIffInSlot
<1>6. prom \in [Call -> {"none", "pending", "value", "error"}]
  BY DEF IInv, Types, CallType
<1>7. prom' \in [Call -> {"none", "pending", "value", "error"}]
  BY <1>3, <1>6
<1>8. \A c \in Call : prom'[c] = IF prom[c] = "pending" THEN "error" ELSE prom[c]
  BY <1>3, <1>5
<1>. QED BY <1>1, <1>2, <1>4, <1>7, <1>8, Zenon DEF Failed

-----------------------------------------------------------------------------
(* What a step that leaves some variables alone preserves.                 *)

USE ClientAssumption DEF callVars, connVars, slotVars, mgmtVars,
    writeVars, readVars, netVars, Conn, Session, NoSession

\* A stuttering step leaves every variable alone.
LEMMA Stutter ==
  ASSUME UNCHANGED vars
  PROVE  /\ UNCHANGED <<pc, sess, prom, got, conn, nconn, disabled, errored>>
         /\ UNCHANGED <<slots, session_idx, read_counter, gateClosed, mgmt, connecting>>
         /\ UNCHANGED <<writer, wconn, memQ, avail, fiber, phase, rconn, reply>>
         /\ UNCHANGED <<wire, heard>>
BY DEF vars

\* A step that touches no slot, session or promise keeps the slot table in order.
LEMMA KeepSlots ==
  ASSUME IInv, UNCHANGED <<slots, sess, prom>>
  PROVE  /\ SlotShape' /\ PendingIffInSlot'
         /\ \A c \in Call : HasSlot(c)' <=> HasSlot(c)
<1>1. \A c \in Call : HasSlot(c)' <=> HasSlot(c)
  BY DEF HasSlot
<1>. QED BY <1>1, Zenon DEF IInv, SlotShape, PendingIffInSlot

\* Nor does it disturb what relates slots to the connection and the gate, if these stay.
LEMMA KeepConn ==
  ASSUME IInv, UNCHANGED <<slots, sess, prom>>,
         UNCHANGED <<conn, disabled, errored, gateClosed, mgmt>>
  PROVE  /\ SlotShape' /\ PendingIffInSlot'
         /\ GateShape' /\ NoOrphanCall' /\ ClosedGateHasNoSlots'
BY KeepSlots, Zenon
DEF IInv, GateShape, NoOrphanCall, ClosedGateHasNoSlots, IsConnValid, Valid

\* A step that touches no write keeps the writes in order.
LEMMA KeepWrites ==
  ASSUME IInv, UNCHANGED <<writer, wconn, nconn, wire>>
  PROVE  WriteShape' /\ OneFrameAtATime'
BY Zenon DEF IInv, WriteShape, OneFrameAtATime

\* A step that touches no read keeps the reads in order.
LEMMA KeepReads ==
  ASSUME IInv, UNCHANGED <<fiber, phase, rconn, reply, heard, nconn>>
  PROVE  ReadType' /\ ReadShape'
BY Zenon DEF IInv, Types, ReadType, ReadShape

\* No fiber enters the gate but by a step that needs a connection.
LEMMA KeepFibers ==
  ASSUME IInv, conn' = conn,
         \/ conn # 0
         \/ /\ \A c \in Call : (InSend(c)' => InSend(c)) /\ (InWrite(c)' => InWrite(c))
            /\ \A g \in Conn : InReads(g)' => InReads(g)
  PROVE  ConnOutlivesFibers'
BY DEF IInv, ConnOutlivesFibers, GateEmpty

\* What a step of fail_outstanding_futures preserves whatever else it does.
LEMMA FailedKeeps ==
  ASSUME IInv, Failed
  PROVE  /\ SlotShape' /\ PendingIffInSlot'
         /\ NoOrphanCall' /\ ClosedGateHasNoSlots'
         /\ pc' = pc => CallType'
         /\ UNCHANGED mgmtVars => ConnType' /\ GateShape'
<1>1. SlotShape' /\ PendingIffInSlot' /\ NoOrphanCall' /\ ClosedGateHasNoSlots'
  BY DEF SlotShape, PendingIffInSlot, NoOrphanCall, ClosedGateHasNoSlots, Failed
<1>2. pc' = pc => CallType'
  BY Zenon DEF IInv, Types, CallType, Failed
<1>3. UNCHANGED mgmtVars => ConnType' /\ GateShape'
  BY DEF IInv, Types, ConnType, GateShape, Failed
<1>. QED BY <1>1, <1>2, <1>3

-----------------------------------------------------------------------------
(* One lemma per action: IInv is preserved.                                *)

\* The steps of send(c) that only move it on.
LEMMA PcStep ==
  ASSUME IInv, NEW c \in Call, NEW q \in {"infilter", "ok", "failed"},
         \/ pc[c] = "init" /\ q = "failed"
         \/ InSend(c) /\ (q # "failed" => prom[c] = "value"),
         pc' = [pc EXCEPT ![c] = q],
         UNCHANGED <<sess, prom, got, connVars, slotVars, mgmtVars, writeVars,
                     readVars, netVars>>
  PROVE  IInv'
<1>1. CallType' /\ WriteType' /\ ConnType'
  BY Zenon DEF IInv, Types, CallType, WriteType, ConnType
<1>2. CallShape'
  BY Zenon DEF IInv, Types, CallType, CallShape, InSend
<1>3. \A d \in Call : (InSend(d)' => InSend(d)) /\ (InWrite(d)' => InWrite(d))
  BY Zenon DEF IInv, Types, CallType, InSend, InWrite
<1>4. ConnOutlivesFibers'
  BY <1>3, KeepFibers, Zenon DEF InReads
<1>. QED BY <1>1, <1>2, <1>4, KeepConn, KeepWrites, KeepReads, Zenon DEF IInv, Types

\* send() that is refused for want of a connection.
LEMMA SendRejectedStep ==
  ASSUME NEW c \in Call, IInv, SendRejected(c) PROVE IInv'
BY PcStep, ZenonT(30) DEF SendRejected

\* An outgoing filter that throws.
LEMMA OutFilterThrowStep ==
  ASSUME NEW c \in Call, IInv, OutFilterThrow(c) PROVE IInv'
BY PcStep, ZenonT(30) DEF OutFilterThrow, InSend

\* A call whose promise was failed.
LEMMA PromiseFailedStep ==
  ASSUME NEW c \in Call, IInv, PromiseFailed(c) PROVE IInv'
BY PcStep, ZenonT(30) DEF PromiseFailed, InSend

\* A call whose promise has a value goes on to the incoming filters.
LEMMA PromiseReadyStep ==
  ASSUME NEW c \in Call, IInv, PromiseReady(c) PROVE IInv'
BY PcStep, ZenonT(30) DEF PromiseReady, InSend

\* The incoming filters of a reply.
LEMMA InFilterStep ==
  ASSUME NEW c \in Call, IInv, InFilter(c) PROVE IInv'
<1>1. InSend(c) /\ prom[c] = "value"
  BY Zenon DEF InFilter, InSend, IInv, CallShape
<1>. QED BY <1>1, PcStep, ZenonT(30) DEF InFilter

\* The outgoing filters are done: dispatch_write enters the gate, or throws.
LEMMA OutFilterDoneStep ==
  ASSUME NEW c \in Call, IInv, OutFilterDone(c) PROVE IInv'
<1>1. CASE gateClosed
  BY <1>1, PcStep, Zenon DEF OutFilterDone, InSend
<1>2. CASE ~gateClosed
  <2>1. /\ pc[c] = "filter" /\ pc' = [pc EXCEPT ![c] = "wait"]
        /\ writer' = [writer EXCEPT ![c] = "mem"] /\ memQ' = Append(memQ, c)
        /\ UNCHANGED <<wconn, avail, sess, prom, got, connVars, slotVars, mgmtVars,
                       readVars, netVars>>
    BY <1>2, Zenon DEF OutFilterDone
  <2>2. writer[c] = "none" /\ sess[c] # NoSession /\ conn # 0
    BY <2>1, Zenon DEF IInv, CallShape, ConnOutlivesFibers, GateEmpty, InSend
  <2>3. CallType' /\ ConnType'
    BY <2>1, Zenon DEF IInv, Types, CallType, ConnType
  <2>4. WriteType'
    <3>1. memQ \in Seq(Call)
      BY DEF IInv, Types, WriteType
    <3>2. memQ' \in Seq(Call)
      BY <2>1, <3>1
    <3>. QED BY <2>1, <3>2, Zenon DEF IInv, Types, WriteType
  <2>5. CallShape'
    BY <2>1, <2>2, Zenon DEF IInv, Types, CallType, WriteType, CallShape
  <2>6. WriteShape' /\ OneFrameAtATime'
    BY <2>1, <2>2, Zenon DEF IInv, Types, WriteType, WriteShape, OneFrameAtATime
  <2>7. ConnOutlivesFibers'
    BY <2>1, <2>2, KeepFibers, Zenon
  <2>. QED BY <2>1, <2>3, <2>4, <2>5, <2>6, <2>7, KeepConn, KeepReads, Zenon
           DEF IInv, Types
<1>. QED BY <1>1, <1>2

\* A write that holds the gate moves on, or ends with its semaphores released.
LEMMA WriterStep ==
  ASSUME IInv, NEW c \in Call, NEW w \in {"ser", "sending", "sent"},
         \/ writer[c] = "mem" /\ w = "ser" /\ wconn' = wconn
         \/ /\ writer[c] = "ser" /\ w = "sending"
            /\ wconn' = [wconn EXCEPT ![c] = conn]
            /\ \A d \in Call : writer[d] # "sending"
         \/ writer[c] = "sending" /\ w = "sent" /\ wconn' = wconn,
         writer' = [writer EXCEPT ![c] = w],
         memQ' \in Seq(Call), avail' \in Nat,
         UNCHANGED <<callVars, connVars, slotVars, mgmtVars, readVars, netVars>>
  PROVE  IInv'
<1>1. conn \in 1..nconn /\ conn \in Conn
  BY DEF IInv, Types, ConnType, ConnOutlivesFibers, GateEmpty, InWrite
<1>2. CallType' /\ ConnType'
  BY Zenon DEF IInv, Types, CallType, ConnType
<1>3. WriteType'
  BY <1>1, ZenonT(30) DEF IInv, Types, WriteType
<1>4. CallShape'
  BY Zenon DEF IInv, Types, WriteType, CallShape
<1>5. WriteShape'
  BY <1>1 DEF IInv, Types, WriteType, WriteShape
<1>6. OneFrameAtATime'
  BY Zenon DEF IInv, Types, WriteType, OneFrameAtATime
<1>7. ConnOutlivesFibers'
  BY <1>1, KeepFibers
<1>. QED BY <1>2, <1>3, <1>4, <1>5, <1>6, <1>7, KeepConn, KeepReads, Zenon DEF IInv, Types

\* dispatch_write gets its memory.
LEMMA MemAcquireStep ==
  ASSUME NEW c \in Call, IInv, MemAcquire(c) PROVE IInv'
<1>1. memQ' \in Seq(Call) /\ avail' \in Nat
  BY DEF MemAcquire, IInv, Types, WriteType
<1>. QED BY <1>1, WriterStep, ZenonT(30) DEF MemAcquire

\* dispatch_write gets the write semaphore.
LEMMA WriteStartStep ==
  ASSUME NEW c \in Call, IInv, WriteStart(c) PROVE IInv'
<1>1. memQ' \in Seq(Call) /\ avail' \in Nat
  BY Zenon DEF WriteStart, IInv, Types, WriteType
<1>. QED BY <1>1, WriterStep, ZenonT(30) DEF WriteStart

\* dispatch_write has written and flushed its frame.
LEMMA WriteDoneStep ==
  ASSUME NEW c \in Call, IInv, WriteDone(c) PROVE IInv'
<1>1. memQ' \in Seq(Call) /\ avail' \in Nat
  BY DEF WriteDone, WriteRelease, IInv, Types, WriteType
<1>. QED BY <1>1, WriterStep, ZenonT(30) DEF WriteDone, WriteRelease

\* A frame reaches the server.
LEMMA WriteReachStep ==
  ASSUME NEW c \in Call, IInv, WriteReach(c) PROVE IInv'
<1>1. /\ wire' = wire \cup {c} /\ writer[c] \in {"sending", "sent"}
      /\ UNCHANGED <<heard, callVars, connVars, slotVars, mgmtVars, writeVars,
                     readVars>>
  BY Zenon DEF WriteReach
<1>0. UNCHANGED <<conn, prom, pc, sess, writer, wconn, fiber, phase>>
  BY <1>1, ZenonT(60)
<1>2. CallType' /\ ConnType' /\ WriteType'
  BY <1>1, Zenon DEF IInv, Types, CallType, ConnType, WriteType
<1>3. CallShape' /\ WriteShape' /\ OneFrameAtATime'
  <2>1. CallShape'
    BY <1>1, ZenonT(60) DEF IInv, CallShape
  <2>2. WriteShape'
    BY <1>1, ZenonT(60) DEF IInv, WriteShape
  <2>3. OneFrameAtATime'
    BY <1>0, ZenonT(60) DEF IInv, OneFrameAtATime
  <2>. QED BY <2>1, <2>2, <2>3, ZenonT(60)
<1>4. ConnOutlivesFibers'
  <2>1. \A d \in Call : (InSend(d)' => InSend(d)) /\ (InWrite(d)' => InWrite(d))
    BY <1>0 DEF InSend, InWrite
  <2>2. \A g \in Conn : InReads(g)' => InReads(g)
    BY <1>0 DEF InReads
  <2>. QED BY <1>0, <2>1, <2>2, KeepFibers, ZenonT(60)
<1>. QED BY <1>1, <1>2, <1>3, <1>4, KeepConn, KeepReads, Zenon DEF IInv, Types

\* raw_send gives the call a session and puts its promise into the slot.
LEMMA RawSendStep ==
  ASSUME NEW c \in Call, IInv, RawSend(c) PROVE IInv'
<1>. DEFINE n == NextSession
<1>1. /\ n \in Session /\ n # NoSession
      /\ sess[c] = NoSession /\ prom[c] = "none" /\ writer[c] = "none"
  <2>1. n \in Session /\ n # NoSession
    BY NextSessionType DEF IInv, Types, CallType
  <2>2. pc[c] = "init"
    BY ZenonT(60) DEF RawSend
  <2>. QED BY <2>1, <2>2, Zenon DEF IInv, CallShape
<1>2. /\ session_idx' = n /\ sess' = [sess EXCEPT ![c] = n]
      /\ IsConnValid /\ ~gateClosed
      /\ UNCHANGED <<got, connVars, mgmtVars, writeVars, readVars, netVars>>
  BY Zenon DEF RawSend
<1>3. PICK r \in {"none", "pending", "error"}, q \in {"filter", "failed"} :
        /\ prom' = [prom EXCEPT ![c] = r] /\ pc' = [pc EXCEPT ![c] = q]
        /\ \/ r = "pending" /\ slots[n] = NoCall /\ slots' = [slots EXCEPT ![n] = c]
           \/ r # "pending" /\ slots' = slots
  <2>1. prom = [prom EXCEPT ![c] = "none"]
    BY <1>1, Zenon DEF IInv, Types, CallType
  <2>2. \/ /\ slots[n] = NoCall /\ slots' = [slots EXCEPT ![n] = c]
           /\ prom' = [prom EXCEPT ![c] = "pending"] /\ pc' = [pc EXCEPT ![c] = "filter"]
        \/ /\ prom' = [prom EXCEPT ![c] = "error"] /\ pc' = [pc EXCEPT ![c] = "filter"]
           /\ slots' = slots
        \/ prom' = prom /\ pc' = [pc EXCEPT ![c] = "failed"] /\ slots' = slots
    BY ZenonT(60) DEF RawSend
  <2>. HIDE DEF n
  <2>. QED BY <2>1, <2>2, Zenon
<1>. HIDE DEF n
<1>4. Types'
  <2>1. CallType'
    <3>1. CallType
      BY DEF IInv, Types
    <3>2. slots' \in [Session -> Call \cup {NoCall}]
      BY <1>1, <1>3, <3>1, Zenon DEF CallType
    <3>3. pc' \in [Call -> {"init", "filter", "wait", "infilter", "ok", "failed"}]
      BY <1>3, <3>1, Zenon DEF CallType
    <3>4. prom' \in [Call -> {"none", "pending", "value", "error"}]
      BY <1>3, <3>1, Zenon DEF CallType
    <3>. QED BY <1>1, <1>2, <3>1, <3>2, <3>3, <3>4, Zenon DEF CallType
  <2>2. ConnType' /\ WriteType' /\ ReadType'
    BY <1>2, Zenon DEF IInv, Types, ConnType, WriteType, ReadType
  <2>. QED BY <2>1, <2>2 DEF Types
<1>5. CallShape'
  BY <1>1, <1>2, <1>3, ZenonT(60) DEF IInv, Types, CallType, CallShape
<1>6. SlotShape'
  <2>1. \A d \in Call : HasSlot(d) => d # c
    BY <1>1, Zenon DEF IInv, PendingIffInSlot
  <2>2. \A s \in Session : slots[s] # NoCall => slots[s] # c /\ sess[slots[s]] = s
    BY <2>1, Zenon DEF IInv, Types, CallType, SlotShape, HasSlot
  <2>3. /\ sess \in [Call -> Session \cup {NoSession}]
        /\ slots \in [Session -> Call \cup {NoCall}]
        /\ sess' = [sess EXCEPT ![c] = n]
    BY <1>2, ZenonT(60) DEF IInv, Types, CallType
  <2>4. ASSUME NEW s \in Session, slots'[s] # NoCall
        PROVE  slots'[s] = slots[s] \/ (s = n /\ slots'[s] = c)
    BY <1>1, <1>3, <2>3, <2>4, Zenon
  <2>5. ASSUME NEW s \in Session, slots'[s] # NoCall
        PROVE  sess'[slots'[s]] = s
    BY <2>2, <2>3, <2>4, <2>5
  <2>. QED BY <2>5 DEF SlotShape
<1>7. WriteShape' /\ ReadShape' /\ OneFrameAtATime' /\ GateShape'
  BY <1>2, ZenonT(60) DEF IInv, WriteShape, ReadShape, OneFrameAtATime, GateShape
<1>8. PendingIffInSlot'
  <2>1. \A d \in Call : d # c => (HasSlot(d)' <=> HasSlot(d))
    <3>1. SUFFICES ASSUME NEW d \in Call, d # c
                   PROVE  HasSlot(d)' <=> HasSlot(d)
      OBVIOUS
    <3>2. slots \in [Session -> Call \cup {NoCall}] /\ d # NoCall
      BY Zenon DEF IInv, Types, CallType
    <3>3. \A s \in Session : slots'[s] = d <=> slots[s] = d
      <4>1. CASE slots' = slots
        BY <4>1
      <4>2. CASE slots[n] = NoCall /\ slots' = [slots EXCEPT ![n] = c]
        BY <1>1, <3>1, <3>2, <4>2
      <4>. QED BY <1>3, <4>1, <4>2, ZenonT(60)
    <3>. QED BY <3>3 DEF HasSlot
  <2>2. ~HasSlot(c)
    BY <1>1, Zenon DEF IInv, PendingIffInSlot
  <2>3. HasSlot(c)' <=> prom'[c] = "pending"
    BY <1>1, <1>3, <2>2, Zenon DEF HasSlot, IInv, Types, CallType
  <2>4. \A d \in Call : d # c => prom'[d] = prom[d]
    BY <1>3, Zenon DEF IInv, Types, CallType
  <2>. QED BY <2>1, <2>3, <2>4, Zenon DEF PendingIffInSlot, IInv
<1>9. NoOrphanCall' /\ ClosedGateHasNoSlots' /\ ConnOutlivesFibers'
  <2>1. UNCHANGED <<conn, disabled, errored, gateClosed>>
    BY <1>2, ZenonT(60)
  <2>2. IsConnValid' /\ ~gateClosed' /\ conn' # 0
    BY <1>2, <2>1 DEF IsConnValid, Valid
  <2>. QED BY <2>2 DEF NoOrphanCall, ClosedGateHasNoSlots, ConnOutlivesFibers
<1>. QED BY <1>4, <1>5, <1>6, <1>7, <1>8, <1>9 DEF IInv

\* A write that throws fails all slots.
LEMMA WriteFailStep ==
  ASSUME NEW c \in Call, IInv, WriteFail(c) PROVE IInv'
<1>1. /\ FailOutstandingFutures /\ errored' = errored
      /\ writer[c] = "sending" /\ writer' = [writer EXCEPT ![c] = "aborted"]
      /\ avail' = avail + Size[c]
      /\ UNCHANGED <<wconn, memQ, pc, mgmtVars, readVars, netVars>>
  BY DEF WriteFail, WriteRelease
<1>2. Failed
  BY <1>1, FailFacts, Zenon DEF IInv, Types, ConnType
<1>3. nconn' = nconn /\ UNCHANGED mgmtVars
  BY <1>1, <1>2, Zenon DEF Failed
<1>4. WriteType'
  BY <1>1 DEF IInv, Types, WriteType
<1>5. CallShape'
  <2>1. /\ CallShape /\ writer'[c] = "aborted"
        /\ \A d \in Call : d # c => writer'[d] = writer[d]
    BY <1>1, Zenon DEF IInv, Types, WriteType
  <2>2. /\ pc' = pc /\ sess' = sess
        /\ \A d \in Call : prom'[d] = "none" <=> prom[d] = "none"
        /\ \A d \in Call : prom'[d] = "value" <=> prom[d] = "value"
    BY <1>1, <1>2, Zenon DEF Failed
  <2>. QED BY <1>1, <2>1, <2>2 DEF CallShape
<1>6. WriteShape' /\ OneFrameAtATime'
  BY <1>1, <1>3, Zenon DEF IInv, Types, WriteType, WriteShape, OneFrameAtATime
<1>7. ConnOutlivesFibers'
  <2>1. conn' = conn /\ conn # 0
    BY <1>1, <1>2, Zenon DEF IInv, ConnOutlivesFibers, GateEmpty, InWrite, Failed
  <2>. QED BY <2>1, KeepFibers
<1>8. ReadType' /\ ReadShape'
  BY <1>1, <1>3, KeepReads, Zenon
<1>. QED BY <1>1, <1>2, <1>3, <1>4, <1>5, <1>6, <1>7, <1>8, FailedKeeps, Zenon
         DEF IInv, Types

-----------------------------------------------------------------------------
(* The steps of the readers preserve IInv.                                 *)

\* The loop of do_reads goes on or ends.
LEMMA ReadTopStep ==
  ASSUME NEW g \in Conn, IInv, ReadTop(g) PROVE IInv'
<1>1. /\ fiber[g] = "top"
      /\ UNCHANGED <<reply, callVars, connVars, slotVars, mgmtVars, writeVars,
                     netVars>>
  BY Zenon DEF ReadTop
<1>2. conn \in 1..nconn /\ conn \in Conn /\ phase[g] = "idle" /\ g <= nconn
  BY <1>1 DEF IInv, Types, ConnType, ConnOutlivesFibers, GateEmpty, InReads, ReadShape
<1>3. \/ /\ fiber' = [fiber EXCEPT ![g] = "busy"]
         /\ phase' = [phase EXCEPT ![g] = "header"]
         /\ rconn' = [rconn EXCEPT ![g] = conn]
      \/ /\ fiber' = [fiber EXCEPT ![g] = "done"]
         /\ UNCHANGED <<phase, rconn>>
  BY Zenon DEF ReadTop
<1>4. ReadType'
  <2>1. rconn' \in [Conn -> Conn \cup {0}]
    BY <1>2, <1>3 DEF IInv, Types, ReadType
  <2>2. phase' \in [Conn -> {"idle", "header", "payload"}]
    BY <1>3, Zenon DEF IInv, Types, ReadType
  <2>3. fiber' \in [Conn -> {"none", "top", "busy", "done"}]
    BY <1>3, Zenon DEF IInv, Types, ReadType
  <2>. QED BY <1>1, <2>1, <2>2, <2>3, Zenon DEF IInv, Types, ReadType
<1>5. ReadShape'
  BY <1>1, <1>2, <1>3 DEF IInv, Types, ReadType, ReadShape
<1>6. ConnType' /\ CallType' /\ WriteType' /\ CallShape'
  BY <1>1, Zenon DEF IInv, Types, ConnType, CallType, WriteType, CallShape
<1>7. ConnOutlivesFibers'
  BY <1>1, <1>2, KeepFibers
<1>. QED BY <1>1, <1>4, <1>5, <1>6, <1>7, KeepConn, KeepWrites, Zenon DEF IInv, Types

\* The header of a reply is parsed.
LEMMA HeaderOkStep ==
  ASSUME NEW g \in Conn, NEW c \in Call, IInv, HeaderOk(g, c) PROVE IInv'
<1>1. /\ phase[g] = "header" /\ c \in wire /\ heard' = heard \cup {c}
      /\ phase' = [phase EXCEPT ![g] = "payload"]
      /\ reply' = [reply EXCEPT ![g] = c]
      /\ UNCHANGED <<fiber, rconn, wire, callVars, connVars, slotVars, mgmtVars,
                     writeVars>>
  BY Zenon DEF HeaderOk
<1>2. ReadType'
  BY <1>1, Zenon DEF IInv, Types, ReadType
<1>3. ReadShape'
  BY <1>1, Zenon DEF IInv, Types, ReadType, ReadShape
<1>4. ConnType' /\ CallType' /\ WriteType' /\ CallShape'
  BY <1>1, Zenon DEF IInv, Types, ConnType, CallType, WriteType, CallShape
<1>5. ConnOutlivesFibers'
  BY <1>1, KeepFibers, Zenon DEF InSend, InWrite, InReads
<1>. QED BY <1>1, <1>2, <1>3, <1>4, <1>5, KeepConn, KeepWrites, Zenon DEF IInv, Types

\* A reply that cannot be parsed fails all slots.
LEMMA ReadErrorStep ==
  ASSUME NEW g \in Conn, IInv, ReadError(g) PROVE IInv'
<1>1. /\ FailOutstandingFutures /\ errored' = errored \cup {rconn[g]}
      /\ phase[g] # "idle"
      /\ phase' = [phase EXCEPT ![g] = "idle"]
      /\ reply' = [reply EXCEPT ![g] = NoCall]
      /\ fiber' = [fiber EXCEPT ![g] = IF fiber[g] = "busy" THEN "top" ELSE fiber[g]]
      /\ UNCHANGED <<rconn, pc, mgmtVars, writeVars, netVars>>
  BY Zenon DEF ReadError, ReadResolved
<1>2. rconn[g] \in 1..nconn /\ fiber[g] # "none" /\ g <= nconn
  BY <1>1 DEF IInv, Types, ConnType, ReadType, ReadShape
<1>3. Failed
  <2>1. errored' \subseteq 1..nconn
    BY <1>1, <1>2, ZenonT(30) DEF IInv, Types, ConnType
  <2>. QED BY <1>1, <2>1, FailFacts, Zenon
<1>4. nconn' = nconn /\ conn' = conn
  BY <1>3, Zenon DEF Failed
<1>5. ReadType'
  BY <1>1, Zenon DEF IInv, Types, ReadType
<1>6. ReadShape'
  BY <1>1, <1>2, <1>4, Zenon DEF IInv, Types, ReadType, ReadShape
<1>7. WriteType' /\ CallShape'
  BY <1>1, <1>3, Zenon DEF IInv, Types, WriteType, CallShape, Failed
<1>8. ConnOutlivesFibers'
  <2>1. \A h \in Conn : InReads(h)' => InReads(h)
    BY <1>1, Zenon DEF InReads, IInv, Types, ReadType
  <2>. QED BY <1>1, <1>4, <2>1, KeepFibers, Zenon DEF InSend, InWrite
<1>. QED BY <1>1, <1>3, <1>4, <1>5, <1>6, <1>7, <1>8, FailedKeeps, KeepWrites, Zenon
         DEF IInv, Types

\* ReadThrow and ReadTimeout, which end a do_reads that listens.
LEMMA EndReadsStep ==
  ASSUME NEW g \in Conn, IInv, FailOutstandingFutures, errored' = errored,
         fiber[g] = "busy", fiber' = [fiber EXCEPT ![g] = "done"],
         \/ UNCHANGED <<phase, reply>>
         \/ /\ phase' = [phase EXCEPT ![g] = "idle"]
            /\ reply' = [reply EXCEPT ![g] = NoCall],
         UNCHANGED <<rconn, pc, mgmtVars, writeVars, netVars>>
  PROVE  IInv'
<1>1. Failed
  BY FailFacts, Zenon DEF IInv, Types, ConnType
<1>2. nconn' = nconn /\ conn' = conn
  BY <1>1, Zenon DEF Failed
<1>3. ReadType'
  BY ZenonT(30) DEF IInv, Types, ReadType
<1>4. ReadShape'
  <2>1. CASE UNCHANGED <<phase, reply>>
    BY <1>2, <2>1, Zenon DEF IInv, Types, ReadType, ReadShape
  <2>2. CASE /\ phase' = [phase EXCEPT ![g] = "idle"]
             /\ reply' = [reply EXCEPT ![g] = NoCall]
    BY <1>2, <2>2, Zenon DEF IInv, Types, ReadType, ReadShape
  <2>. QED BY <2>1, <2>2, Zenon
<1>5. WriteType' /\ CallShape'
  BY <1>1, Zenon DEF IInv, Types, WriteType, CallShape, Failed
<1>6. ConnOutlivesFibers'
  <2>1. conn # 0
    BY Zenon DEF IInv, ConnOutlivesFibers, GateEmpty, InReads
  <2>. QED BY <1>2, <2>1, KeepFibers, Zenon
<1>. QED BY <1>1, <1>2, <1>3, <1>4, <1>5, <1>6, FailedKeeps, KeepWrites, Zenon
         DEF IInv, Types

\* A read that times out.
LEMMA ReadTimeoutStep ==
  ASSUME NEW g \in Conn, IInv, ReadTimeout(g) PROVE IInv'
BY EndReadsStep, ZenonT(30) DEF ReadTimeout

\* A read that throws.
LEMMA ReadThrowStep ==
  ASSUME NEW g \in Conn, IInv, ReadThrow(g) PROVE IInv'
<1>1. CASE fiber[g] = "busy"
  BY <1>1, EndReadsStep, ZenonT(30) DEF ReadThrow
<1>2. CASE fiber[g] # "busy"
  <2>1. /\ fiber' = fiber
        /\ phase' = [phase EXCEPT ![g] = "idle"]
        /\ reply' = [reply EXCEPT ![g] = NoCall]
        /\ UNCHANGED <<rconn, callVars, connVars, slotVars, mgmtVars, writeVars,
                       netVars>>
    BY <1>2, Zenon DEF ReadThrow, IInv, Types, ReadType
  <2>2. ReadType' /\ ReadShape'
    BY <1>2, <2>1, Zenon DEF IInv, Types, ReadType, ReadShape
  <2>3. ConnType' /\ CallType' /\ WriteType' /\ CallShape'
    BY <2>1, Zenon DEF IInv, Types, ConnType, CallType, WriteType, CallShape
  <2>4. ConnOutlivesFibers'
    BY <2>1, KeepFibers, Zenon DEF InSend, InWrite, InReads
  <2>. QED BY <2>1, <2>2, <2>3, <2>4, KeepConn, KeepWrites, Zenon DEF IInv, Types
<1>. QED BY <1>1, <1>2

\* The reply that was read names the session of a call that still waits.
LEMMA PayloadSlot ==
  ASSUME NEW g \in Conn, IInv, PayloadOk(g)
  PROVE  /\ reply[g] \in Call
         /\ \E s \in Session, d \in Call :
              /\ s = sess[reply[g]] /\ d = slots[s]
              /\ prom[d] = "pending" /\ sess[d] = s
<1>1. phase[g] = "payload" /\ slots[sess[reply[g]]] # NoCall
  BY Zenon DEF PayloadOk
<1>2. reply[g] \in Call /\ writer[reply[g]] # "none"
  BY <1>1, ZenonT(30) DEF IInv, Types, ReadType, WriteType, ReadShape, WriteShape
<1>3. sess[reply[g]] \in Session
  BY <1>2 DEF IInv, Types, CallType, CallShape
<1>4. slots[sess[reply[g]]] \in Call
  BY <1>1, <1>3, ZenonT(30) DEF IInv, Types, CallType
<1>5. /\ prom[slots[sess[reply[g]]]] = "pending"
      /\ sess[slots[sess[reply[g]]]] = sess[reply[g]]
  BY <1>1, <1>3, <1>4, ZenonT(30) DEF IInv, PendingIffInSlot, HasSlot, SlotShape
<1>. QED BY <1>2, <1>3, <1>4, <1>5, Zenon

\* The payload of a reply is parsed and given to the promise in its slot.
LEMMA PayloadOkStep ==
  ASSUME NEW g \in Conn, IInv, PayloadOk(g) PROVE IInv'
<1>1. PICK s \in Session, d \in Call :
        /\ s = sess[reply[g]] /\ d = slots[s] /\ prom[d] = "pending" /\ sess[d] = s
  BY PayloadSlot
<1>2. reply[g] \in Call
  BY PayloadSlot, Zenon
<1>3. /\ d # NoCall
      /\ prom' = [prom EXCEPT ![d] = "value"]
      /\ got' = [got EXCEPT ![d] = reply[g]]
      /\ slots' = [slots EXCEPT ![s] = NoCall]
      /\ phase' = [phase EXCEPT ![g] = "idle"]
      /\ reply' = [reply EXCEPT ![g] = NoCall]
      /\ fiber' = [fiber EXCEPT ![g] = IF fiber[g] = "busy" THEN "top" ELSE fiber[g]]
      /\ UNCHANGED <<rconn, session_idx, pc, sess, connVars, mgmtVars, writeVars,
                     netVars>>
  BY <1>1, Zenon DEF PayloadOk, ReadResolved
<1>4. \A t \in Session : slots[t] = d => t = s
  BY <1>1, ZenonT(30) DEF IInv, SlotShape
<1>5. Types'
  <2>1. ConnType' /\ WriteType'
    BY <1>3, Zenon DEF IInv, Types, ConnType, WriteType
  <2>2. CallType'
    BY <1>1, <1>2, <1>3, ZenonT(60) DEF IInv, Types, CallType
  <2>3. ReadType'
    BY <1>3, Zenon DEF IInv, Types, ReadType
  <2>. QED BY <2>1, <2>2, <2>3 DEF Types
<1>6. CallShape' /\ WriteShape' /\ OneFrameAtATime' /\ GateShape'
  <2>1. WriteShape' /\ OneFrameAtATime' /\ GateShape'
    BY <1>3, ZenonT(60) DEF IInv, WriteShape, OneFrameAtATime, GateShape
  <2>2. CallShape'
    BY <1>1, <1>3, ZenonT(60) DEF IInv, Types, CallType, CallShape
  <2>. QED BY <2>1, <2>2
<1>7. SlotShape'
  <2>1. \A t \in Session : slots'[t] = IF t = s THEN NoCall ELSE slots[t]
    BY <1>3, Zenon DEF IInv, Types, CallType
  <2>2. sess' = sess
    BY <1>3, Zenon
  <2>. QED BY <2>1, <2>2, Zenon DEF IInv, SlotShape
<1>8. PendingIffInSlot'
  <2>1. \A t \in Session : slots'[t] # d
    BY <1>1, <1>3, <1>4, ZenonT(60) DEF IInv, Types, CallType
  <2>2. \A e \in Call, t \in Session : e # d => (slots'[t] = e <=> slots[t] = e)
    BY <1>1, <1>3, Zenon DEF IInv, Types, CallType
  <2>3. prom'[d] = "value" /\ \A e \in Call : e # d => prom'[e] = prom[e]
    BY <1>1, <1>3, Zenon DEF IInv, Types, CallType
  <2>. QED BY <2>1, <2>2, <2>3 DEF PendingIffInSlot, HasSlot, IInv
<1>9. NoOrphanCall' /\ ClosedGateHasNoSlots'
  <2>1. HasSlot(d)
    BY <1>1, Zenon DEF HasSlot
  <2>2. IsConnValid /\ ~gateClosed
    BY <2>1 DEF IInv, NoOrphanCall, ClosedGateHasNoSlots
  <2>. QED BY <1>3, <2>2, Zenon DEF NoOrphanCall, ClosedGateHasNoSlots, IsConnValid, Valid
<1>10. ConnOutlivesFibers'
  <2>1. \A h \in Conn : InReads(h)' => InReads(h)
    BY <1>3, Zenon DEF InReads, IInv, Types, ReadType
  <2>. QED BY <1>3, <2>1, Zenon DEF IInv, ConnOutlivesFibers, GateEmpty, InSend, InWrite
<1>11. ReadShape'
  BY <1>3, Zenon DEF IInv, Types, ReadType, ReadShape
<1>. QED BY <1>5, <1>6, <1>7, <1>8, <1>9, <1>10, <1>11 DEF IInv

-----------------------------------------------------------------------------
(* The steps of connect, reconnect and stop preserve IInv; the theorems.   *)

\* stop() and reconnect() fail the slots and close the gate.
LEMMA CloseGateStep ==
  ASSUME NEW op \in {"reconnect", "stop"}, IInv, CloseGate(op) PROVE IInv'
<1>1. /\ FailOutstandingFutures /\ errored' = errored
      /\ gateClosed' = TRUE /\ mgmt' = op
      /\ UNCHANGED <<connecting, pc, writeVars, readVars, netVars>>
  BY DEF CloseGate
<1>2. Failed
  BY <1>1, FailFacts, Zenon DEF IInv, Types, ConnType
<1>3. nconn' = nconn /\ conn' = conn
  BY <1>2, Zenon DEF Failed
<1>4. WriteType' /\ CallShape'
  BY <1>1, <1>2, ZenonT(30) DEF IInv, Types, WriteType, CallShape, Failed
<1>5. ConnOutlivesFibers'
  BY <1>1, <1>3, KeepFibers, ZenonT(30) DEF InSend, InWrite, InReads
<1>6. GateShape'
  BY <1>1 DEF GateShape
<1>7. ConnType'
  BY <1>1, <1>2, Zenon DEF IInv, Types, ConnType, Failed
<1>. QED BY <1>1, <1>2, <1>3, <1>4, <1>5, <1>6, <1>7, FailedKeeps, KeepWrites,
            KeepReads, Zenon
         DEF IInv, Types

\* Connect, ConnectFail, StopDone: no variable of the fibers changes.
LEMMA MgmtOnlyStep ==
  ASSUME IInv, connecting' \in BOOLEAN,
         \/ mgmt' = mgmt
         \/ mgmt = "stop" /\ mgmt' = "stopped",
         UNCHANGED <<gateClosed, callVars, connVars, slotVars, writeVars,
                     readVars, netVars>>
  PROVE  IInv'
<1>1. ConnType' /\ GateShape'
  BY Zenon DEF IInv, Types, ConnType, GateShape
<1>2. CallType' /\ WriteType' /\ CallShape'
  BY Zenon DEF IInv, Types, CallType, WriteType, CallShape
<1>3. NoOrphanCall' /\ ClosedGateHasNoSlots'
  BY KeepSlots, Zenon DEF IInv, NoOrphanCall, ClosedGateHasNoSlots, IsConnValid, Valid
<1>4. ConnOutlivesFibers'
  BY KeepFibers, Zenon DEF InSend, InWrite, InReads
<1>. QED BY <1>1, <1>2, <1>3, <1>4, KeepSlots, KeepWrites, KeepReads, Zenon DEF IInv, Types

\* connect() opens a connection and starts its reader.
LEMMA ConnectOkStep ==
  ASSUME IInv, ConnectOk PROVE IInv'
<1>1. /\ nconn < MaxConn /\ connecting' = FALSE
      /\ nconn' = nconn + 1 /\ conn' = nconn + 1
      /\ fiber' = [fiber EXCEPT ![nconn + 1] = IF gateClosed THEN "none" ELSE "top"]
      /\ UNCHANGED <<disabled, errored, gateClosed, mgmt, phase, rconn, reply,
                     callVars, slotVars, writeVars, netVars>>
  BY Zenon DEF ConnectOk
<1>2. /\ nconn \in Nat /\ nconn + 1 \in Conn
      /\ disabled \subseteq 1..nconn /\ errored \subseteq 1..nconn
  BY <1>1 DEF IInv, Types, ConnType
<1>3. fiber[nconn + 1] = "none" /\ phase[nconn + 1] = "idle"
  BY <1>2 DEF IInv, ReadShape
<1>4. ConnType'
  <2>1. conn' \in 0..nconn' /\ nconn' \in 0..MaxConn
    BY <1>1, <1>2
  <2>2. disabled' \subseteq 1..nconn' /\ errored' \subseteq 1..nconn'
    BY <1>1, <1>2
  <2>. QED BY <1>1, <2>1, <2>2, ZenonT(30) DEF IInv, Types, ConnType
<1>5. CallType' /\ WriteType' /\ CallShape' /\ OneFrameAtATime'
  BY <1>1, Zenon DEF IInv, Types, CallType, WriteType, CallShape, OneFrameAtATime
<1>6. ReadType'
  BY <1>1, ZenonT(30) DEF IInv, Types, ReadType
<1>7. ReadShape'
  BY <1>1, <1>2, <1>3 DEF IInv, Types, ReadType, ReadShape
<1>8. WriteShape'
  <2>1. \A k \in 0..nconn : k \in 0..nconn' /\ (k \in 1..nconn => k \in 1..nconn')
    BY <1>1, <1>2
  <2>2. UNCHANGED <<writer, wconn, wire>> /\ WriteShape
    BY <1>1, Zenon DEF IInv
  <2>. QED BY <2>1, <2>2, Zenon DEF WriteShape
\* The new connection is valid: no older one has its number.
<1>9. NoOrphanCall' /\ ConnOutlivesFibers'
  BY <1>1, <1>2 DEF NoOrphanCall, ConnOutlivesFibers, IsConnValid, Valid
<1>10. ClosedGateHasNoSlots' /\ GateShape'
  BY <1>1, KeepSlots, Zenon DEF IInv, ClosedGateHasNoSlots, GateShape
<1>. QED BY <1>1, <1>4, <1>5, <1>6, <1>7, <1>8, <1>9, <1>10, KeepSlots, Zenon
         DEF IInv, Types

\* reconnect() goes on when the gate is empty.
LEMMA ReconnectResumeStep ==
  ASSUME IInv, ReconnectResume PROVE IInv'
<1>1. /\ mgmt = "reconnect" /\ GateEmpty
      /\ gateClosed' = FALSE /\ conn' = 0 /\ mgmt' = "idle" /\ connecting' = TRUE
      /\ UNCHANGED <<nconn, disabled, errored, callVars, slotVars, writeVars,
                     readVars, netVars>>
  BY DEF ReconnectResume
<1>2. ConnType' /\ GateShape'
  <2>1. ConnType
    BY DEF IInv, Types
  <2>2. 0 \in 0..nconn
    BY <2>1 DEF ConnType
  <2>3. ConnType'
    BY <1>1, <2>1, <2>2, ZenonT(30) DEF ConnType
  <2>. QED BY <1>1, <2>3 DEF GateShape
<1>3. CallType' /\ WriteType' /\ CallShape'
  BY <1>1, Zenon DEF IInv, Types, CallType, WriteType, CallShape
<1>4. ConnOutlivesFibers'
  BY <1>1, Zenon DEF ConnOutlivesFibers, GateEmpty, InSend, InWrite, InReads
<1>5. \A c \in Call : ~HasSlot(c)'
  BY <1>1, KeepSlots, Zenon DEF IInv, GateShape, ClosedGateHasNoSlots
<1>6. NoOrphanCall' /\ ClosedGateHasNoSlots'
  BY <1>5 DEF NoOrphanCall, ClosedGateHasNoSlots
<1>. QED BY <1>1, <1>2, <1>3, <1>4, <1>6, KeepSlots, KeepWrites, KeepReads, Zenon
         DEF IInv, Types

-----------------------------------------------------------------------------
(* The invariant and what follows from it.                                 *)

\* A new client satisfies the invariant.
LEMMA InitIInv == Init => IInv
<1> SUFFICES ASSUME Init PROVE IInv
  OBVIOUS
<1>1. ConnType /\ WriteType /\ ReadType
  <2>1. ConnType
    <3>1. conn = 0 /\ nconn = 0 /\ disabled = {} /\ errored = {}
      BY DEF Init
    <3>2. gateClosed \in BOOLEAN /\ connecting \in BOOLEAN /\ mgmt = "idle"
      BY ZenonT(30) DEF Init
    <3>. QED BY <3>1, <3>2 DEF ConnType
  <2>2. memQ \in Seq(Call)
    BY DEF Init
  <2>3. WriteType
    BY <2>2, Zenon DEF Init, WriteType
  <2>4. ReadType
    BY Zenon DEF Init, ReadType
  <2>. QED BY <2>1, <2>3, <2>4
<1>2. CallType
  BY DEF Init, CallType
<1>4. GateShape /\ CallShape /\ SlotShape /\ WriteShape /\ ReadShape
  BY DEF Init, GateShape, CallShape, SlotShape, WriteShape, ReadShape
<1>5. \A c \in Call : ~HasSlot(c)
  BY Zenon DEF Init, HasSlot
<1>6. PendingIffInSlot /\ NoOrphanCall /\ ClosedGateHasNoSlots
  BY <1>5, Zenon DEF Init, PendingIffInSlot, NoOrphanCall, ClosedGateHasNoSlots
<1>7. ConnOutlivesFibers /\ OneFrameAtATime
  BY Zenon DEF Init, ConnOutlivesFibers, GateEmpty, InSend, InWrite, InReads,
         OneFrameAtATime
<1>. QED BY <1>1, <1>2, <1>4, <1>6, <1>7 DEF IInv, Types

\* A stuttering step keeps it.
LEMMA StutterIInv == IInv /\ UNCHANGED vars => IInv'
<1> SUFFICES ASSUME IInv, UNCHANGED vars PROVE IInv'
  OBVIOUS
<1>1. ConnType' /\ CallType' /\ WriteType' /\ CallShape'
  <2>1. ConnType'
    BY Stutter, ZenonT(60) DEF IInv, Types, ConnType
  <2>2. CallType'
    BY Stutter, Zenon DEF IInv, Types, CallType
  <2>3. WriteType'
    BY Stutter, Zenon DEF IInv, Types, WriteType
  <2>4. CallShape'
    BY Stutter, Zenon DEF IInv, CallShape
  <2>. QED BY <2>1, <2>2, <2>3, <2>4
<1>2. ConnOutlivesFibers'
  BY Stutter, KeepFibers, ZenonT(30) DEF InSend, InWrite, InReads
<1>. QED BY <1>1, <1>2, Stutter, KeepConn, KeepWrites, KeepReads, Zenon DEF IInv, Types

\* Every step keeps it.
LEMMA NextIInv == IInv /\ [Next]_vars => IInv'
<1> SUFFICES ASSUME IInv, [Next]_vars PROVE IInv'
  OBVIOUS
<1>1. ASSUME NEW c \in Call, CallStep(c) PROVE IInv'
  BY <1>1, SendRejectedStep, RawSendStep, OutFilterDoneStep, OutFilterThrowStep,
     PromiseFailedStep, PromiseReadyStep, InFilterStep, Zenon DEF CallStep
<1>2. ASSUME NEW c \in Call, WriteStep(c) PROVE IInv'
  BY <1>2, MemAcquireStep, WriteStartStep, WriteReachStep, WriteDoneStep,
     WriteFailStep, Zenon DEF WriteStep
<1>3. ASSUME NEW g \in Conn, ReadStep(g) PROVE IInv'
  BY <1>3, ReadTopStep, ReadErrorStep, PayloadOkStep, ReadThrowStep,
     ReadTimeoutStep, HeaderOkStep, Zenon DEF ReadStep
<1>4. ASSUME MgmtStep PROVE IInv'
  <2>1. CASE Connect \/ ConnectFail \/ StopDone
    BY <2>1, MgmtOnlyStep, ZenonT(30) DEF Connect, ConnectFail, StopDone, IInv, Types, ConnType
  <2>2. CASE Reconnect \/ Stop
    BY <2>2, CloseGateStep DEF Reconnect, Stop
  <2>. QED BY <1>4, <2>1, <2>2, ConnectOkStep, ReconnectResumeStep DEF MgmtStep
<1>. QED BY <1>1, <1>2, <1>3, <1>4, StutterIInv DEF Next

\* The conjunction of the invariants holds in every behaviour of the client.
THEOREM Invariance == Spec => []IInv
<1>1. IInv /\ [Next]_vars => IInv'
  BY NextIInv
<1>. QED BY <1>1, InitIInv, PTL DEF Spec

\* A promise is pending exactly while rpc_slots_ holds it, even when session
\* numbers wrap and collide.
THEOREM PromisesAccountedFor == Spec => []PendingIffInSlot
<1>1. IInv => PendingIffInSlot
  BY DEF IInv
<1>. QED BY <1>1, Invariance, PTL

\* No slot survives the connection: fail_outstanding_futures is called on every
\* path that makes conn_ invalid, stale readers included.
THEOREM NoCallOrphaned == Spec => []NoOrphanCall
<1>1. IInv => NoOrphanCall
  BY DEF IInv
<1>. QED BY <1>1, Invariance, PTL

\* While reconnect() or stop() waits for the gate no slot is left to fail.
THEOREM ClosedGateClean == Spec => []ClosedGateHasNoSlots
<1>1. IInv => ClosedGateHasNoSlots
  BY DEF IInv
<1>. QED BY <1>1, Invariance, PTL

\* conn_ is never null under a fiber in the gate that dereferences it.
THEOREM ConnNeverNullInUse == Spec => []ConnOutlivesFibers
<1>1. IInv => ConnOutlivesFibers
  BY DEF IInv
<1>. QED BY <1>1, Invariance, PTL

\* serialize_writes_ admits one frame at a time.
THEOREM FramesNotInterleaved == Spec => []OneFrameAtATime
<1>1. IInv => OneFrameAtATime
  BY DEF IInv
<1>. QED BY <1>1, Invariance, PTL

-----------------------------------------------------------------------------
(* A reply is handed to at most one call, whatever collides.              *)

\* A reply is being read by one reader, or was given to one call, or dropped.
Delivered ==
  /\ \A c \in Call : prom[c] = "value" =>
       got[c] \in heard /\ \A g \in Conn : reply[g] # got[c]
  /\ \A c, d \in Call :
       prom[c] = "value" /\ prom[d] = "value" /\ got[c] = got[d] => c = d
  /\ \A g, h \in Conn : reply[g] # NoCall /\ reply[g] = reply[h] => g = h

\* A step that reads nothing new and resolves no promise with a value.
LEMMA KeepDelivered ==
  ASSUME Delivered, UNCHANGED <<got, heard>>,
         \A c \in Call : prom'[c] = "value" <=> prom[c] = "value",
         \A g \in Conn : reply'[g] \in {reply[g], NoCall},
         IInv
  PROVE  Delivered'
<1>1. \A c \in Call : prom[c] = "value" => got[c] # NoCall
  BY Zenon DEF Delivered, IInv, Types, WriteType
<1>. QED BY <1>1, Zenon DEF Delivered

\* A reply that is begun to be read has not been delivered.
LEMMA HeaderDelivered ==
  ASSUME NEW g \in Conn, NEW c \in Call, IInv, Delivered, HeaderOk(g, c)
  PROVE  Delivered'
<1>1. /\ c \notin heard /\ heard' = heard \cup {c} /\ prom' = prom /\ got' = got
      /\ reply' = [reply EXCEPT ![g] = c] /\ c # NoCall
  BY Zenon DEF HeaderOk
<1>2. \A h \in Conn : reply[h] # c
  BY <1>1, Zenon DEF IInv, ReadShape
<1>3. \A h \in Conn : reply'[h] = IF h = g THEN c ELSE reply[h]
  BY <1>1, Zenon DEF IInv, Types, ReadType
<1>. QED BY <1>1, <1>2, <1>3 DEF Delivered

\* A reply goes from its reader to one call.
LEMMA PayloadDelivered ==
  ASSUME NEW g \in Conn, IInv, Delivered, PayloadOk(g)
  PROVE  Delivered'
<1>1. reply[g] # NoCall /\ reply[g] \in heard /\ heard' = heard
  BY Zenon DEF PayloadOk, IInv, ReadShape
<1>2. reply[g] \in Call
  BY <1>1 DEF IInv, Types, WriteType
<1>3. PICK d : /\ prom' = [prom EXCEPT ![d] = "value"]
               /\ got' = [got EXCEPT ![d] = reply[g]]
  BY ZenonT(30) DEF PayloadOk
<1>4. reply' = [reply EXCEPT ![g] = NoCall]
  BY Zenon DEF PayloadOk, ReadResolved
<1>5. \A c \in Call : /\ prom'[c] = IF c = d THEN "value" ELSE prom[c]
                      /\ got'[c] = IF c = d THEN reply[g] ELSE got[c]
  BY <1>3, Zenon DEF IInv, Types, CallType
<1>6. \A h \in Conn : reply'[h] = IF h = g THEN NoCall ELSE reply[h]
  BY <1>4, Zenon DEF IInv, Types, ReadType
<1>7. \A c \in Call : prom[c] = "value" => got[c] # reply[g] /\ got[c] # NoCall
  BY DEF Delivered, IInv, Types, WriteType
<1>8. \A c \in Call : prom'[c] = "value" =>
        got'[c] \in heard' /\ \A h \in Conn : reply'[h] # got'[c]
  BY <1>1, <1>2, <1>5, <1>6, <1>7 DEF Delivered
<1>9. \A c, e \in Call :
        prom'[c] = "value" /\ prom'[e] = "value" /\ got'[c] = got'[e] => c = e
  BY <1>5, <1>7 DEF Delivered
<1>10. \A h, k \in Conn : reply'[h] # NoCall /\ reply'[h] = reply'[k] => h = k
  BY <1>6, Zenon DEF Delivered
<1>. QED BY <1>8, <1>9, <1>10, Zenon DEF Delivered

\* No other action changes got, heard, or a promise to a value.
LEMMA OtherFrame ==
  ASSUME IInv, Next,
         ~ \E g \in Conn : PayloadOk(g) \/ \E c \in Call : HeaderOk(g, c)
  PROVE  /\ UNCHANGED <<got, heard>>
         /\ \A c \in Call : prom'[c] = "value" <=> prom[c] = "value"
         /\ \A g \in Conn : reply'[g] \in {reply[g], NoCall}
<1>0. FailOutstandingFutures =>
        got' = got /\ \A c \in Call : prom'[c] = "value" <=> prom[c] = "value"
  BY Zenon DEF FailOutstandingFutures, IInv, PendingIffInSlot
<1>1. ASSUME NEW c \in Call, CallStep(c)
      PROVE  /\ UNCHANGED <<got, heard, reply>>
             /\ \A e \in Call : prom'[e] = "value" <=> prom[e] = "value"
  <2>1. CASE RawSend(c)
    <3>1. prom[c] = "none" /\ prom \in [Call -> {"none", "pending", "value", "error"}]
      BY <2>1, Zenon DEF RawSend, IInv, CallShape, Types, CallType
    <3>. QED BY <2>1, <3>1, Zenon DEF RawSend
  <2>2. CASE SendRejected(c) \/ OutFilterDone(c) \/ OutFilterThrow(c)
    BY <2>2, Zenon DEF SendRejected, OutFilterDone, OutFilterThrow
  <2>3. CASE PromiseFailed(c) \/ PromiseReady(c) \/ InFilter(c)
    BY <2>3, Zenon DEF PromiseFailed, PromiseReady, InFilter
  <2>. QED BY <1>1, <2>1, <2>2, <2>3, ZenonT(60) DEF CallStep
<1>2. ASSUME NEW c \in Call, WriteStep(c)
      PROVE  /\ UNCHANGED <<got, heard, reply>>
             /\ \A e \in Call : prom'[e] = "value" <=> prom[e] = "value"
  <2>1. CASE MemAcquire(c) \/ WriteStart(c)
    BY <2>1, Zenon DEF MemAcquire, WriteStart
  <2>2. CASE WriteReach(c) \/ WriteDone(c)
    BY <2>2, ZenonT(60) DEF WriteReach, WriteDone
  <2>3. CASE WriteFail(c)
    <3>1. FailOutstandingFutures /\ UNCHANGED <<heard, reply>>
      BY <2>3, ZenonT(60) DEF WriteFail
    <3>. QED BY <1>0, <3>1, ZenonT(60)
  <2>. QED BY <1>2, <2>1, <2>2, <2>3, ZenonT(60) DEF WriteStep
<1>3. ASSUME NEW g \in Conn, ReadStep(g)
      PROVE  /\ UNCHANGED <<got, heard>>
             /\ \A e \in Call : prom'[e] = "value" <=> prom[e] = "value"
             /\ \A h \in Conn : reply'[h] \in {reply[h], NoCall}
  <2>1. reply \in [Conn -> Call \cup {NoCall}]
    BY Zenon DEF IInv, Types, ReadType
  <2>. QED BY <1>0, <1>3, <2>1, Zenon DEF ReadStep, ReadTop, ReadError, ReadResolved,
                                   ReadThrow, ReadTimeout
<1>4. ASSUME MgmtStep
      PROVE  /\ UNCHANGED <<got, heard, reply>>
             /\ \A e \in Call : prom'[e] = "value" <=> prom[e] = "value"
  <2>1. CASE Reconnect \/ Stop
    <3>1. FailOutstandingFutures /\ UNCHANGED <<heard, reply>>
      BY <2>1, ZenonT(60) DEF Reconnect, Stop, CloseGate
    <3>. QED BY <1>0, <3>1, ZenonT(60)
  <2>2. CASE ConnectOk \/ ReconnectResume
    BY <2>2, Zenon DEF ConnectOk, ReconnectResume
  <2>3. CASE Connect \/ ConnectFail \/ StopDone
    BY <2>3, Zenon DEF Connect, ConnectFail, StopDone
  <2>. QED BY <1>4, <2>1, <2>2, <2>3, ZenonT(60) DEF MgmtStep
<1>. QED BY <1>1, <1>2, <1>3, <1>4, Zenon DEF Next

\* Every step keeps a reply with one reader or one call.
LEMMA NextDelivered == IInv /\ Delivered /\ [Next]_vars => Delivered'
<1> SUFFICES ASSUME IInv, Delivered, [Next]_vars PROVE Delivered'
  OBVIOUS
<1>1. CASE \E g \in Conn : PayloadOk(g)
  BY <1>1, PayloadDelivered
<1>2. CASE \E g \in Conn, c \in Call : HeaderOk(g, c)
  BY <1>2, HeaderDelivered
<1>3. CASE UNCHANGED vars
  BY <1>3, Stutter, KeepDelivered, ZenonT(60)
<1>. QED BY <1>1, <1>2, <1>3, OtherFrame, KeepDelivered, ZenonT(60)

\* Every reply is handed to at most one call, and none that is still read was.
THEOREM DeliveredOnce == Spec => []Delivered
<1>1. Init => Delivered
  BY DEF Init, Delivered
<1>. QED BY <1>1, NextDelivered, Invariance, PTL DEF Spec

-----------------------------------------------------------------------------
(* One reader per stream, when callers reconnect() instead of connect().   *)

\* A fiber in do_reads is that of conn_, and reads the connection it is of.
OwnReader ==
  /\ connecting => conn = 0
  /\ \A g \in Conn : InReads(g) => conn = g
  /\ \A g \in Conn : phase[g] # "idle" => rconn[g] = g

\* Without a bare connect() no reader outlives its connection.
LEMMA NextOwnReader ==
  ASSUME ~BareConnect, IInv, OwnReader, Next
  PROVE  OwnReader'
<1>0. ReadType /\ nconn \in Nat
  BY DEF IInv, Types, ConnType
<1>1. ASSUME NEW c \in Call, CallStep(c) \/ WriteStep(c) PROVE OwnReader'
  <2>1. UNCHANGED <<conn, connecting, fiber, phase, rconn>>
    BY <1>1, ZenonT(30) DEF CallStep, SendRejected, RawSend, OutFilterDone, OutFilterThrow,
                PromiseFailed, PromiseReady, InFilter, WriteStep, MemAcquire,
                WriteStart, WriteReach, WriteDone, WriteFail, FailOutstandingFutures
  <2>. QED BY <2>1 DEF OwnReader, InReads
<1>2. ASSUME NEW g \in Conn, ReadStep(g) PROVE OwnReader'
  <2>1. UNCHANGED <<conn, connecting>>
    BY <1>2, ZenonT(30) DEF ReadStep, ReadTop, ReadError, PayloadOk, ReadThrow, ReadTimeout,
                HeaderOk, FailOutstandingFutures
  <2>2. \A h \in Conn : InReads(h)' => InReads(h)
    BY <1>0, <1>2, ZenonT(30) DEF ReadStep, ReadTop, ReadError, PayloadOk, ReadThrow, ReadTimeout,
                      HeaderOk, ReadResolved, InReads, ReadType
  <2>3. \A h \in Conn : phase'[h] # "idle" =>
          \/ phase[h] # "idle" /\ rconn'[h] = rconn[h]
          \/ InReads(h) /\ rconn'[h] = conn
    BY <1>0, <1>2, ZenonT(30) DEF ReadStep, ReadTop, ReadError, PayloadOk, ReadThrow, ReadTimeout,
                      HeaderOk, ReadResolved, InReads, ReadType
  <2>. QED BY <2>1, <2>2, <2>3 DEF OwnReader
<1>3. CASE ConnectOk
  <2>1. \A h \in Conn : ~InReads(h)
    BY <1>3, Zenon DEF ConnectOk, OwnReader, IInv, ConnOutlivesFibers, GateEmpty
  <2>2. \A h \in Conn : InReads(h)' => h = nconn + 1
    BY <1>0, <1>3, <2>1, Zenon DEF ConnectOk, InReads, ReadType
  <2>. QED BY <1>3, <2>2, Zenon DEF ConnectOk, OwnReader
<1>4. CASE ReconnectResume
  BY <1>4, Zenon DEF ReconnectResume, OwnReader, GateEmpty, InReads
<1>5. CASE Connect \/ ConnectFail \/ Reconnect \/ Stop \/ StopDone
  BY <1>5 DEF Connect, ConnectFail, Reconnect, Stop, CloseGate, StopDone,
              FailOutstandingFutures, OwnReader, InReads
<1>. QED BY <1>1, <1>2, <1>3, <1>4, <1>5 DEF Next, MgmtStep

\* The DLOG_THROW_IF of parse_header never fires: a read that outlived its
\* timeout reads the stream of an older connection.
THEOREM OneParser == ASSUME ~BareConnect PROVE Spec => []OneParserPerConnection
<1>1. Init => OwnReader
  BY DEF Init, OwnReader, InReads
<1>2. IInv /\ OwnReader /\ [Next]_vars => OwnReader'
  <2>1. CASE UNCHANGED vars
    BY <2>1, Stutter, Zenon DEF OwnReader, InReads
  <2>. QED BY <2>1, NextOwnReader
<1>3. OwnReader => OneParserPerConnection
  BY DEF OwnReader, OneParserPerConnection
<1>. QED BY <1>1, <1>2, <1>3, Invariance, PTL DEF Spec

-----------------------------------------------------------------------------
(* Which call gets a reply.                                                *)

\* What may still reach rpc_slots_ with the session of call d finds the slot
\* of d or none.
Matched ==
  \A d \in Call : InFlight(d) /\ sess[d] \in Session => slots[sess[d]] \in {NoCall, d}

-----------------------------------------------------------------------------
(* Matched, under Window.                                                  *)

\* Nothing comes into flight but by raw_send.
LEMMA FlightFrame ==
  ASSUME IInv, Next, NEW d \in Call, ~RawSend(d), InFlight(d)'
  PROVE  InFlight(d) /\ sess'[d] = sess[d]
<1>0. /\ \A e \in Call : wconn[e] \in 0..nconn
      /\ writer[d] \in {"sent", "aborted"} => wconn[d] \in 1..nconn
      /\ pc \in [Call -> {"init", "filter", "wait", "infilter", "ok", "failed"}]
      /\ writer \in [Call -> {"none", "mem", "ser", "sending", "sent", "aborted"}]
      /\ wconn \in [Call -> Conn \cup {0}]
      /\ sess \in [Call -> Session \cup {NoSession}]
      /\ ReadType /\ nconn \in Nat
  BY DEF IInv, Types, ConnType, CallType, WriteType, WriteShape
<1>1. ASSUME NEW c \in Call, CallStep(c) PROVE InFlight(d) /\ sess'[d] = sess[d]
  <2>1. UNCHANGED <<wconn, conn, phase, rconn, reply, heard>>
    <3>1. CASE SendRejected(c) \/ RawSend(c)
      BY <3>1, Zenon DEF SendRejected, RawSend
    <3>2. CASE OutFilterDone(c) \/ OutFilterThrow(c)
      BY <3>2, Zenon DEF OutFilterDone, OutFilterThrow
    <3>3. CASE PromiseFailed(c) \/ PromiseReady(c) \/ InFilter(c)
      BY <3>3, Zenon DEF PromiseFailed, PromiseReady, InFilter
    <3>. QED BY <1>1, <3>1, <3>2, <3>3, ZenonT(60) DEF CallStep
  <2>2. Readable(wconn[d])' = Readable(wconn[d])
    BY <2>1 DEF Readable
  <2>3. /\ sess'[d] = sess[d]
        /\ pc'[d] = "filter" => pc[d] = "filter"
        /\ \/ writer'[d] = writer[d]
           \/ pc[d] = "filter"
    <3>1. CASE RawSend(c)
      <4>1. c # d
        BY <3>1
      <4>. QED BY <1>0, <3>1, <4>1, Zenon DEF RawSend
    <3>. QED BY <1>0, <1>1, <3>1, Zenon DEF CallStep, SendRejected, OutFilterDone,
                 OutFilterThrow, PromiseFailed, PromiseReady, InFilter
  <2>. QED BY <2>1, <2>2, <2>3, Zenon DEF InFlight, InWrite
<1>2. ASSUME NEW c \in Call, WriteStep(c) PROVE InFlight(d) /\ sess'[d] = sess[d]
  <2>1. UNCHANGED <<pc, sess, conn, phase, rconn, reply, heard>>
    BY <1>2, Zenon DEF WriteStep, MemAcquire, WriteStart, WriteReach, WriteDone, WriteFail,
                FailOutstandingFutures
  <2>2. \/ writer'[d] = writer[d] /\ wconn'[d] = wconn[d]
        \/ InWrite(d)
    BY <1>0, <1>2, Zenon DEF WriteStep, MemAcquire, WriteStart, WriteReach, WriteDone,
                      WriteFail, WriteRelease, InWrite
  <2>3. wconn'[d] = wconn[d] => Readable(wconn[d])' = Readable(wconn[d])
    BY <2>1 DEF Readable
  <2>. QED BY <2>1, <2>2, <2>3 DEF InFlight, InWrite
<1>3. ASSUME NEW g \in Conn, ReadStep(g) PROVE InFlight(d) /\ sess'[d] = sess[d]
  <2>1. UNCHANGED <<pc, sess, conn, writer, wconn>>
    BY <1>3, ZenonT(30) DEF ReadStep, ReadTop, ReadError, PayloadOk, ReadThrow, ReadTimeout,
                HeaderOk, ReadResolved, FailOutstandingFutures
  <2>2. CASE \E c \in Call : HeaderOk(g, c)
    <3>1. PICK c \in Call : HeaderOk(g, c)
      BY <2>2
    <3>2. InFlight(c)
      BY <3>1, Zenon DEF HeaderOk, InFlight, InWrite, Readable, IInv, WriteShape
    <3>3. \A h \in Conn : reply'[h] = d => reply[h] = d \/ d = c
      BY <1>0, <3>1, Zenon DEF HeaderOk, ReadType
    <3>4. Readable(wconn[d])' => Readable(wconn[d])
      BY <1>0, <2>1, <3>1, Zenon DEF HeaderOk, Readable, ReadType
    <3>5. d \notin heard' => d \notin heard
      BY <3>1, Zenon DEF HeaderOk
    <3>. QED BY <2>1, <3>2, <3>3, <3>4, <3>5, Zenon DEF InFlight, InWrite
  <2>3. CASE ~ \E c \in Call : HeaderOk(g, c)
    <3>1. \A h \in Conn : reply'[h] \in {reply[h], NoCall}
      BY <1>0, <1>3, <2>3, Zenon DEF ReadStep, ReadTop, ReadError, PayloadOk, ReadThrow,
                              ReadTimeout, ReadResolved, ReadType
    <3>2. heard' = heard
      BY <1>3, <2>3, ZenonT(30) DEF ReadStep, ReadTop, ReadError, PayloadOk, ReadThrow,
                        ReadTimeout
    <3>3. \A h \in Conn : phase'[h] # "idle" =>
            \/ phase[h] # "idle" /\ rconn'[h] = rconn[h]
            \/ rconn'[h] = conn
      <4>1. CASE ReadTop(g) \/ ReadTimeout(g)
        BY <1>0, <4>1 DEF ReadTop, ReadTimeout, ReadType
      <4>2. CASE ReadError(g) \/ ReadThrow(g)
        BY <1>0, <4>2, Zenon DEF ReadError, ReadThrow, ReadResolved, ReadType
      <4>3. CASE PayloadOk(g)
        BY <1>0, <4>3, Zenon DEF PayloadOk, ReadResolved, ReadType
      <4>. QED BY <1>3, <2>3, <4>1, <4>2, <4>3, ZenonT(60) DEF ReadStep
    <3>4. Readable(wconn[d])' => Readable(wconn[d])
      BY <2>1, <3>3, Zenon DEF Readable
    <3>. QED BY <2>1, <3>1, <3>2, <3>4, Zenon DEF InFlight, InWrite
  <2>. QED BY <2>2, <2>3
<1>4. ASSUME MgmtStep PROVE InFlight(d) /\ sess'[d] = sess[d]
  <2>1. UNCHANGED <<pc, sess, writer, wconn, phase, rconn, reply, heard>>
    BY <1>4, Zenon DEF MgmtStep, Connect, ConnectOk, ConnectFail, Reconnect, Stop,
                CloseGate, ReconnectResume, StopDone, FailOutstandingFutures
  <2>2. conn' \in {conn, 0, nconn + 1}
    BY <1>4, Zenon DEF MgmtStep, Connect, ConnectOk, ConnectFail, Reconnect, Stop,
                CloseGate, ReconnectResume, StopDone, FailOutstandingFutures
  <2>3. writer[d] \in {"sent", "aborted"} =>
          (Readable(wconn[d])' => Readable(wconn[d]))
    BY <1>0, <2>1, <2>2 DEF Readable
  <2>. QED BY <2>1, <2>3, Zenon DEF InFlight, InWrite
<1>. QED BY <1>1, <1>2, <1>3, <1>4 DEF Next

\* A slot is taken by raw_send only.
LEMMA SlotFrame ==
  ASSUME IInv, Next, NEW s \in Session, slots'[s] \notin {slots[s], NoCall}
  PROVE  \E c \in Call : RawSend(c) /\ s = NextSession /\ slots'[s] = c
<1>0. slots \in [Session -> Call \cup {NoCall}]
  BY Zenon DEF IInv, Types, CallType
<1>1. ASSUME NEW c \in Call, CallStep(c) PROVE RawSend(c) /\ s = NextSession /\ slots'[s] = c
  <2>1. RawSend(c)
    BY <1>1, Zenon DEF CallStep, SendRejected, OutFilterDone, OutFilterThrow,
                PromiseFailed, PromiseReady, InFilter
  <2>. QED BY <1>0, <2>1, Zenon DEF RawSend
<1>2. ASSUME NEW c \in Call, WriteStep(c) PROVE FALSE
  BY <1>0, <1>2, ZenonT(30) DEF WriteStep, MemAcquire, WriteStart, WriteReach, WriteDone,
                    WriteFail, FailOutstandingFutures
<1>3. ASSUME NEW g \in Conn, ReadStep(g) PROVE FALSE
  <2>1. CASE PayloadOk(g)
    BY <1>0, <2>1, ZenonT(30) DEF PayloadOk
  <2>2. CASE ReadTop(g) \/ \E c \in Call : HeaderOk(g, c)
    BY <1>0, <2>2, ZenonT(60) DEF ReadTop, HeaderOk
  <2>3. CASE ReadError(g) \/ ReadThrow(g)
    BY <1>0, <2>3, Zenon DEF ReadError, ReadThrow, FailOutstandingFutures
  <2>4. CASE ReadTimeout(g)
    BY <1>0, <2>4, ZenonT(60) DEF ReadTimeout, FailOutstandingFutures
  <2>. QED BY <1>3, <2>1, <2>2, <2>3, <2>4, ZenonT(60) DEF ReadStep
<1>4. ASSUME MgmtStep PROVE FALSE
  <2>1. CASE Connect \/ ConnectOk \/ ConnectFail
    BY <1>0, <2>1, Zenon DEF Connect, ConnectOk, ConnectFail
  <2>2. CASE Reconnect \/ Stop
    BY <1>0, <2>2, Zenon DEF Reconnect, Stop, CloseGate, FailOutstandingFutures
  <2>3. CASE ReconnectResume \/ StopDone
    BY <1>0, <2>3, Zenon DEF ReconnectResume, StopDone
  <2>. QED BY <1>4, <2>1, <2>2, <2>3, ZenonT(60) DEF MgmtStep
<1>. QED BY <1>1, <1>2, <1>3, <1>4 DEF Next

\* Every step keeps what is in flight with the call of its session.
LEMMA NextMatched ==
  ASSUME Window, IInv, Matched, Next
  PROVE  Matched'
<1> SUFFICES ASSUME NEW d \in Call, InFlight(d)', sess'[d] \in Session
             PROVE  slots'[sess'[d]] \in {NoCall, d}
  BY Zenon DEF Matched
<1>1. CASE RawSend(d)
  <2>1. sess'[d] = NextSession /\ slots[NextSession] = NoCall
    BY <1>1, Zenon DEF RawSend, SessionIdle, IInv, Types, CallType
  <2>2. slots' = [slots EXCEPT ![NextSession] = d]
    BY <1>1, <2>1, Zenon DEF RawSend
  <2>. QED BY <2>1, <2>2, NextSessionType, Zenon DEF IInv, Types, CallType
<1>2. CASE ~RawSend(d)
  <2>1. InFlight(d) /\ sess'[d] = sess[d]
    BY <1>2, FlightFrame
  <2>2. CASE slots'[sess[d]] \in {slots[sess[d]], NoCall}
    BY <2>1, <2>2, Zenon DEF Matched
  <2>3. CASE slots'[sess[d]] \notin {slots[sess[d]], NoCall}
    <3>1. PICK c \in Call : RawSend(c) /\ sess[d] = NextSession
      BY <2>1, <2>3, SlotFrame, Zenon
    <3>2. SessionIdle(NextSession)
      BY <3>1, Zenon DEF RawSend
    <3>. QED BY <2>1, <3>1, <3>2 DEF SessionIdle
  <2>. QED BY <2>2, <2>3, Zenon
<1>. QED BY <1>1, <1>2

\* The reply of the request that is read finds its own call.
LEMMA NextReplyMatches ==
  ASSUME IInv, Matched, ReplyMatchesCall, Next
  PROVE  ReplyMatchesCall'
<1>1. ASSUME NEW g \in Conn, PayloadOk(g) PROVE ReplyMatchesCall'
  <2>1. reply[g] \in Call /\ sess[reply[g]] \in Session
    <3>1. reply[g] \in Call /\ writer[reply[g]] # "none"
      BY <1>1, ZenonT(30) DEF PayloadOk, IInv, Types, ReadType, WriteType, ReadShape, WriteShape
    <3>. QED BY <3>1 DEF IInv, Types, CallType, CallShape
  <2>2. slots[sess[reply[g]]] = reply[g]
    BY <1>1, <2>1, Zenon DEF PayloadOk, Matched, InFlight
  <2>3. /\ prom' = [prom EXCEPT ![reply[g]] = "value"]
        /\ got' = [got EXCEPT ![reply[g]] = reply[g]]
    BY <1>1, <2>2, Zenon DEF PayloadOk
  <2>. QED BY <2>1, <2>3, Zenon DEF ReplyMatchesCall, IInv, Types, CallType
<1>2. CASE ~ \E g \in Conn : PayloadOk(g)
  <2>1. CASE \E g \in Conn, c \in Call : HeaderOk(g, c)
    BY <2>1, ZenonT(30) DEF HeaderOk, ReplyMatchesCall
  <2>. QED BY <1>2, <2>1, OtherFrame DEF ReplyMatchesCall
<1>. QED BY <1>1, <1>2

\* When no session number in flight is reused, every reply goes to the call
\* whose request it answers, across timeouts, stale readers and reconnects.
THEOREM RepliesMatch == ASSUME Window PROVE Spec => []ReplyMatchesCall
<1>1. Init => Matched /\ ReplyMatchesCall
  BY DEF Init, Matched, InFlight, InWrite, ReplyMatchesCall
<1>2. IInv /\ Matched /\ ReplyMatchesCall /\ [Next]_vars => (Matched /\ ReplyMatchesCall)'
  <2>1. CASE UNCHANGED vars
    <3>1. /\ UNCHANGED <<pc, sess, prom, got, conn, slots>>
          /\ UNCHANGED <<writer, wconn, phase, rconn, reply, heard>>
      BY <2>1, Stutter
    <3>2. Matched <=> Matched'
      BY <3>1, ZenonT(60) DEF Matched, InFlight, InWrite, Readable
    <3>3. ReplyMatchesCall <=> ReplyMatchesCall'
      BY <3>1 DEF ReplyMatchesCall
    <3>. QED BY <3>2, <3>3, ZenonT(60)
  <2>. QED BY <2>1, NextMatched, NextReplyMatches, ZenonT(60)
<1>. QED BY <1>1, <1>2, Invariance, PTL DEF Spec

-----------------------------------------------------------------------------
(* Refinement: the client implements RpcCall.                              *)

Refined == IInv /\ Delivered /\ ReplyMatchesCall

\* One step of a call, its status going from one value to another.
LEMMA StatusStep ==
  ASSUME IInv, NEW c \in Call, NEW q, pc' = [pc EXCEPT ![c] = q],
         UNCHANGED <<got, wire>>, \A d \in Call : d # c => sess'[d] = sess[d]
  PROVE  /\ UNCHANGED wire
         /\ [d \in Call |-> CallStatus(d)'] =
              [[d \in Call |-> CallStatus(d)] EXCEPT ![c] = CallStatus(c)']
<1>1. \A d \in Call : d # c => CallStatus(d)' = CallStatus(d)
  BY DEF CallStatus, InSend, IInv, Types, CallType
<1>. QED BY <1>1, ZenonT(30)

\* A step of send() is one of the contract, or none.
LEMMA CallRefines ==
  ASSUME Window, Refined, NEW c \in Call, CallStep(c)
  PROVE  [Contract!Next]_<<[d \in Call |-> CallStatus(d)], wire>>
<1>. DEFINE F == [d \in Call |-> CallStatus(d)]
            G == [d \in Call |-> CallStatus(d)']
<1>0. /\ pc \in [Call -> {"init", "filter", "wait", "infilter", "ok", "failed"}]
      /\ sess \in [Call -> Session \cup {NoSession}]
      /\ session_idx \in Session
      /\ InSend(c) => sess[c] # NoSession
  BY ZenonT(30) DEF Refined, IInv, Types, CallType, CallShape, InSend
<1>1. CASE SendRejected(c)
  <2>1. UNCHANGED wire /\ G = [F EXCEPT ![c] = CallStatus(c)']
    BY <1>1, StatusStep, ZenonT(30) DEF SendRejected, Refined
  <2>2. CallStatus(c) = "idle" /\ CallStatus(c)' = "refused"
    BY <1>0, <1>1, Zenon DEF SendRejected, CallStatus, InSend, Refined, IInv, CallShape
  <2>. QED BY <2>1, <2>2, ZenonT(30) DEF Contract!Next, Contract!Refuse
<1>2. CASE RawSend(c)
  <2>1. slots[NextSession] = NoCall
    BY <1>2, Zenon DEF RawSend, SessionIdle
  <2>2. /\ pc' = [pc EXCEPT ![c] = "filter"] /\ pc[c] = "init"
        /\ sess' = [sess EXCEPT ![c] = NextSession]
        /\ UNCHANGED <<got, wire>>
    BY <1>2, <2>1, Zenon DEF RawSend
  <2>3. UNCHANGED wire /\ G = [F EXCEPT ![c] = CallStatus(c)']
    <3>1. \A d \in Call : d # c => sess'[d] = sess[d]
      BY <1>0, <2>2
    <3>. QED BY <2>2, <3>1, StatusStep, ZenonT(30) DEF Refined
  <2>4. CallStatus(c) = "idle" /\ CallStatus(c)' = "pending"
    BY <1>0, <2>2 DEF CallStatus, InSend
  <2>. QED BY <2>3, <2>4, ZenonT(30) DEF Contract!Next, Contract!Accept
<1>3. CASE \/ OutFilterDone(c) \/ OutFilterThrow(c) \/ PromiseFailed(c)
           \/ PromiseReady(c) \/ InFilter(c)
  <2>1. PICK q \in {"wait", "infilter", "ok", "failed"} :
          /\ InSend(c) /\ pc' = [pc EXCEPT ![c] = q]
          /\ q = "ok" => pc[c] = "infilter"
          /\ UNCHANGED <<sess, got, wire>>
    BY <1>3, Zenon DEF OutFilterDone, OutFilterThrow, PromiseFailed, PromiseReady, InFilter,
                InSend
  <2>2. UNCHANGED wire /\ G = [F EXCEPT ![c] = CallStatus(c)']
    BY <2>1, StatusStep, ZenonT(30) DEF Refined
  <2>3. CallStatus(c) = "pending"
    BY <2>1 DEF CallStatus, InSend
  <2>4. CASE q \in {"wait", "infilter"}
    <3>1. CallStatus(c)' = "pending"
      BY <1>0, <2>1, <2>4 DEF CallStatus, InSend
    <3>. QED BY <2>2, <2>3, <3>1, ZenonT(30)
  <2>5. CASE q = "failed"
    <3>1. CallStatus(c)' = "failed"
      BY <1>0, <2>1, <2>5 DEF CallStatus, InSend
    <3>. QED BY <2>2, <2>3, <3>1, ZenonT(30) DEF Contract!Next, Contract!Fail
  <2>6. CASE q = "ok"
    <3>1. prom[c] = "value"
      BY <2>1, <2>6 DEF Refined, IInv, CallShape
    <3>2. got[c] = c /\ c \in wire
      BY <3>1, ZenonT(30) DEF Refined, ReplyMatchesCall, Delivered, IInv, Types, WriteType
    <3>3. CallStatus(c)' = "answered"
      BY <1>0, <2>1, <2>6, <3>2 DEF CallStatus, InSend
    <3>. QED BY <2>2, <2>3, <3>2, <3>3, ZenonT(30) DEF Contract!Next, Contract!Answer
  <2>. QED BY <2>4, <2>5, <2>6
<1>. QED BY <1>1, <1>2, <1>3 DEF CallStep

\* A frame that reaches the server is the transmission of the contract.
LEMMA WriteReachRefines ==
  ASSUME Refined, NEW c \in Call, WriteReach(c)
  PROVE  [Contract!Next]_<<[d \in Call |-> CallStatus(d)], wire>>
<1>1. /\ writer[c] # "none" /\ c \notin wire /\ wire' = wire \cup {c}
      /\ UNCHANGED <<pc, sess, got>>
  BY ZenonT(30) DEF WriteReach
<1>2. [d \in Call |-> CallStatus(d)'] = [d \in Call |-> CallStatus(d)]
  BY <1>1 DEF CallStatus, InSend
<1>3. sess[c] # NoSession /\ pc[c] # "init"
  BY <1>1, Zenon DEF Refined, IInv, CallShape
<1>4. pc[c] # "ok"
  <2>1. prom[c] # "value"
    BY <1>1, ZenonT(30) DEF Refined, ReplyMatchesCall, Delivered, IInv, Types, WriteType
  <2>. QED BY <2>1 DEF Refined, IInv, CallShape
<1>5. CallStatus(c) \in {"pending", "failed"}
  BY <1>3, <1>4 DEF CallStatus, InSend, Refined, IInv, Types, CallType
<1>. QED BY <1>1, <1>2, <1>5 DEF Contract!Next, Contract!Transmit

\* A step of a writer, a reader or the management changes no status.
LEMMA OtherRefines ==
  ASSUME Refined, UNCHANGED <<pc, sess, wire>>,
         \A d \in Call : prom[d] = "value" => got'[d] = got[d]
  PROVE  UNCHANGED <<[d \in Call |-> CallStatus(d)], wire>>
<1>1. \A d \in Call : CallStatus(d)' = CallStatus(d)
  BY DEF CallStatus, InSend, Refined, IInv, CallShape
<1>. QED BY <1>1

\* Every step of the client is one of the contract, or none.
LEMMA NextRefines ==
  ASSUME Window, Refined, [Next]_vars
  PROVE  [Contract!Next]_<<[d \in Call |-> CallStatus(d)], wire>>
<1>0. FailOutstandingFutures => UNCHANGED <<sess, got>>
  BY DEF FailOutstandingFutures
<1>1. ASSUME NEW c \in Call, WriteStep(c), ~WriteReach(c)
      PROVE  UNCHANGED <<pc, sess, wire, got>>
  BY <1>0, <1>1, Zenon DEF WriteStep, MemAcquire, WriteStart, WriteDone, WriteFail
<1>2. ASSUME NEW g \in Conn, ReadStep(g)
      PROVE  /\ UNCHANGED <<pc, sess, wire>>
             /\ \A d \in Call : prom[d] = "value" => got'[d] = got[d]
  <2>1. CASE PayloadOk(g)
    <3>1. UNCHANGED <<pc, sess, wire>>
      BY <2>1, ZenonT(30) DEF PayloadOk
    <3>2. PICK e \in Call : e = slots[sess[reply[g]]] /\ prom[e] = "pending"
      BY <2>1, PayloadSlot DEF Refined
    <3>3. got' = [got EXCEPT ![e] = reply[g]]
      BY <2>1, <3>2, ZenonT(30) DEF PayloadOk
    <3>4. got \in [Call -> Call \cup {NoCall}]
      BY ZenonT(60) DEF Refined, IInv, Types, CallType
    <3>. QED BY <3>1, <3>2, <3>3, <3>4, Zenon
  <2>2. CASE ReadTop(g)
    BY <2>2, Zenon DEF ReadTop
  <2>3. CASE \E c \in Call : HeaderOk(g, c)
    BY <2>3, Zenon DEF HeaderOk
  <2>4. CASE ReadTimeout(g)
    BY <1>0, <2>4 DEF ReadTimeout
  <2>5. CASE ReadError(g)
    BY <1>0, <2>5 DEF ReadError
  <2>6. CASE ReadThrow(g)
    BY <1>0, <2>6, Zenon DEF ReadThrow
  <2>. QED BY <1>2, <2>1, <2>2, <2>3, <2>4, <2>5, <2>6, ZenonT(60) DEF ReadStep
<1>3. ASSUME MgmtStep PROVE UNCHANGED <<pc, sess, wire, got>>
  <2>1. CASE Reconnect \/ Stop
    BY <1>0, <2>1, Zenon DEF Reconnect, Stop, CloseGate
  <2>2. CASE ConnectOk \/ ReconnectResume
    BY <2>2, Zenon DEF ConnectOk, ReconnectResume
  <2>3. CASE Connect \/ ConnectFail \/ StopDone
    BY <2>3, Zenon DEF Connect, ConnectFail, StopDone
  <2>. QED BY <1>3, <2>1, <2>2, <2>3, ZenonT(60) DEF MgmtStep
<1>4. CASE UNCHANGED vars
  <2>1. UNCHANGED <<pc, sess, wire>> /\ got' = got
    BY <1>4, Stutter
  <2>2. \A d \in Call : prom[d] = "value" => got'[d] = got[d]
    BY <2>1
  <2>3. UNCHANGED <<[d \in Call |-> CallStatus(d)], wire>>
    BY <2>1, <2>2, OtherRefines, ZenonT(60)
  <2>. QED BY <2>3
<1>5. CASE \E c \in Call : CallStep(c)
  BY <1>5, CallRefines
<1>6. CASE \E c \in Call : WriteStep(c)
  BY <1>1, <1>6, OtherRefines, WriteReachRefines
<1>7. CASE \E g \in Conn : ReadStep(g)
  BY <1>2, <1>7, OtherRefines
<1>8. CASE MgmtStep
  BY <1>3, <1>8, OtherRefines
<1>. QED BY <1>4, <1>5, <1>6, <1>7, <1>8, Zenon DEF Next

\* When no session number in flight is reused, rpc_client implements the
\* contract of send: see RpcCall.
THEOREM Refinement == ASSUME Window PROVE Spec => ImplementsCall
<1>1. Init => Contract!Init
  BY DEF Init, Contract!Init, CallStatus, InSend
<1>2. Refined /\ [Next]_vars => [Contract!Next]_Contract!vars
  BY NextRefines DEF Contract!vars
<1>3. Spec => []Refined
  BY Invariance, DeliveredOnce, RepliesMatch, PTL DEF Refined
<1>. QED BY <1>1, <1>2, <1>3, PTL DEF Spec, ImplementsCall, Contract!Spec
=============================================================================
