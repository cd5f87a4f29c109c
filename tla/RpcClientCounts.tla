--------------------------- MODULE RpcClientCounts ---------------------------
(***************************************************************************)
(* Theorems about RpcClient that count: what read_counter_ counts, and who *)
(* has the units of resources_available.                                   *)
(***************************************************************************)
EXTENDS RpcClientProofs, SumTheorems

USE ClientAssumption, SMTT(10), SMTT(20), ZenonT(30), SMTT(60) DEF NoSession

\* read_counter_ counts the calls given a session and no reply: failed calls
\* stay counted.
Unanswered == {c \in Call : sess[c] # NoSession /\ prom[c] # "value"}
CounterExact == read_counter = Cardinality(Unanswered)

\* The calls that read_counter_ counts are finitely many.
LEMMA UnansweredFinite == IsFiniteSet(Unanswered) /\ Cardinality(Unanswered) \in Nat
<1>1. Unanswered \subseteq Call /\ IsFiniteSet(Call)
  BY DEF Unanswered
<1>. QED BY <1>1, FS_Subset, FS_CardinalityType, ZenonT(30)

\* raw_send counts its call, which has no session yet.
LEMMA RawSendCounts ==
  ASSUME NEW c \in Call, IInv, CounterExact, RawSend(c)
  PROVE  CounterExact'
<1>1. NextSession \in Session /\ sess[c] = NoSession /\ prom[c] = "none"
  BY NextSessionType, Zenon DEF RawSend, IInv, Types, CallType, CallShape
<1>2. /\ read_counter' = read_counter + 1 /\ sess' = [sess EXCEPT ![c] = NextSession]
      /\ \A d \in Call : prom'[d] = "value" <=> prom[d] = "value"
  BY <1>1 DEF RawSend, IInv, Types, CallType
<1>3. Unanswered' = Unanswered \cup {c} /\ c \notin Unanswered
  <2>1. NextSession # NoSession /\ sess \in [Call -> Session \cup {NoSession}]
    BY <1>1 DEF IInv, Types, CallType, Session
  <2>. QED BY <1>1, <1>2, <2>1 DEF Unanswered
<1>4. Cardinality(Unanswered') = Cardinality(Unanswered) + 1
  BY <1>3, UnansweredFinite, FS_AddElement, ZenonT(30)
<1>. QED BY <1>2, <1>4 DEF CounterExact

\* process_one_request takes back one call that was counted.
LEMMA PayloadCounts ==
  ASSUME NEW g \in Conn, IInv, CounterExact, PayloadOk(g)
  PROVE  CounterExact'
<1>1. PICK d \in Call : /\ d = slots[sess[reply[g]]] /\ prom[d] = "pending"
                        /\ sess[d] \in Session
  BY PayloadSlot
<1>2. /\ read_counter' = read_counter - 1 /\ sess' = sess
      /\ prom' = [prom EXCEPT ![d] = "value"]
  BY <1>1, Zenon DEF PayloadOk
<1>3. Unanswered' = Unanswered \ {d} /\ d \in Unanswered
  <2>1. prom \in [Call -> {"none", "pending", "value", "error"}] /\ sess[d] # NoSession
    BY <1>1 DEF IInv, Types, CallType, Session
  <2>. QED BY <1>1, <1>2, <2>1, Zenon DEF Unanswered
<1>4. Cardinality(Unanswered') = Cardinality(Unanswered) - 1
  BY <1>3, UnansweredFinite, FS_RemoveElement, ZenonT(30)
<1>. QED BY <1>2, <1>4 DEF CounterExact

\* No other action changes the counter, a session or an answer.
LEMMA CounterFrame ==
  ASSUME Next, ~ \E c \in Call : RawSend(c), ~ \E g \in Conn : PayloadOk(g)
  PROVE  read_counter' = read_counter /\ sess' = sess
<1>0. FailOutstandingFutures => read_counter' = read_counter /\ sess' = sess
  BY DEF FailOutstandingFutures
<1>. USE DEF callVars, slotVars
<1>1. ASSUME NEW c \in Call, CallStep(c) PROVE read_counter' = read_counter /\ sess' = sess
  BY <1>1, Zenon DEF CallStep, SendRejected, OutFilterDone, OutFilterThrow, PromiseFailed,
              PromiseReady, InFilter
<1>2. ASSUME NEW c \in Call, WriteStep(c) PROVE read_counter' = read_counter /\ sess' = sess
  BY <1>0, <1>2, Zenon DEF WriteStep, MemAcquire, WriteStart, WriteReach, WriteDone, WriteFail
<1>3. ASSUME NEW g \in Conn, ReadStep(g) PROVE read_counter' = read_counter /\ sess' = sess
  BY <1>0, <1>3, Zenon DEF ReadStep, ReadTop, ReadError, HeaderOk, ReadThrow, ReadTimeout
<1>4. ASSUME MgmtStep PROVE read_counter' = read_counter /\ sess' = sess
  BY <1>0, <1>4, Zenon DEF MgmtStep, Connect, ConnectOk, ConnectFail, Reconnect, Stop,
                    CloseGate, ReconnectResume, StopDone
<1>. QED BY <1>1, <1>2, <1>3, <1>4 DEF Next

\* Every step keeps read_counter_ in step with the calls.
LEMMA NextCounter == IInv /\ CounterExact /\ [Next]_vars => CounterExact'
<1> SUFFICES ASSUME IInv, CounterExact, [Next]_vars PROVE CounterExact'
  OBVIOUS
<1>1. CASE \E c \in Call : RawSend(c)
  BY <1>1, RawSendCounts
<1>2. CASE \E g \in Conn : PayloadOk(g)
  BY <1>2, PayloadCounts
<1>3. CASE UNCHANGED vars
  BY <1>3, Stutter DEF CounterExact, Unanswered
<1>4. CASE Next /\ ~(\E c \in Call : RawSend(c)) /\ ~(\E g \in Conn : PayloadOk(g))
  <2>1. read_counter' = read_counter /\ sess' = sess
    BY <1>4, CounterFrame
  <2>2. \A c \in Call : prom'[c] = "value" <=> prom[c] = "value"
    <3>1. CASE \E g \in Conn, c \in Call : HeaderOk(g, c)
      BY <3>1 DEF HeaderOk, callVars
    <3>. QED BY <1>4, <3>1, OtherFrame, Zenon
  <2>. QED BY <2>1, <2>2, Zenon DEF CounterExact, Unanswered
<1>. QED BY <1>1, <1>2, <1>3, <1>4

\* read_counter_ is exactly the number of calls that were given a session and
\* no reply, failed ones included.
THEOREM CounterCounts == Spec => []CounterExact
<1>1. Init => CounterExact
  <2>1. Init => Unanswered = {} /\ read_counter = 0
    BY DEF Init, Unanswered
  <2>. QED BY <2>1, FS_EmptySet, Zenon DEF CounterExact
<1>. QED BY <1>1, NextCounter, Invariance, PTL DEF Spec

\* The state is always well typed; in particular read_counter_, a uint64_t that
\* process_one_request decrements, never drops below zero.
THEOREM TypeCorrect == Spec => []TypeOK
<1>1. IInv /\ CounterExact => TypeOK
  BY UnansweredFinite DEF IInv, CounterExact, TypeOK
<1>. QED BY <1>1, Invariance, CounterCounts, PTL

\* Replies given to calls are distinct requests and not the one being read, so
\* some request has no reply: the count cannot be zero.
LEMMA CounterPositive == IInv /\ CounterExact /\ Delivered => ReadCounterPositive
<1> SUFFICES ASSUME IInv, CounterExact, Delivered, NEW g \in Conn, phase[g] = "payload",
                    ~(read_counter > 0)
             PROVE  FALSE
  BY DEF ReadCounterPositive
<1>. DEFINE A == {c \in Call : sess[c] # NoSession}
<1>. DEFINE f == [c \in A |-> got[c]]
<1>1. Unanswered = {}
  <2>1. Cardinality(Unanswered) = 0
    BY UnansweredFinite DEF CounterExact
  <2>. QED BY <2>1, UnansweredFinite, FS_EmptySet, ZenonT(30)
<1>2. \A c \in A : prom[c] = "value"
  BY <1>1 DEF Unanswered
<1>3. heard \subseteq A
  BY ZenonT(30) DEF IInv, Types, WriteType, WriteShape, CallShape
<1>4. reply[g] \in A
  BY <1>3 DEF IInv, ReadShape
<1>5. IsFiniteSet(A) /\ IsFiniteSet(A \ {reply[g]})
  BY FS_Subset, FS_RemoveElement
<1>6. Cardinality(A \ {reply[g]}) < Cardinality(A)
  <2>. HIDE DEF A
  <2>1. Cardinality(A) \in Nat /\ Cardinality(A \ {reply[g]}) = Cardinality(A) - 1
    BY <1>4, <1>5, FS_RemoveElement, FS_CardinalityType, ZenonT(30)
  <2>. QED BY <2>1
<1>7. f \in [A -> A \ {reply[g]}]
  BY <1>2, <1>3 DEF Delivered
<1>8. \E x, y \in A : x # y /\ f[x] = f[y]
  <2>. HIDE DEF A, f
  <2>. QED BY <1>5, <1>6, <1>7, FS_PigeonHole
<1>. QED BY <1>2, <1>8, Zenon DEF Delivered

\* The DLOG_THROW_IF of process_one_request never fires, even when session
\* numbers collide: a reply is only read while a request is unanswered.
THEOREM CounterNeverZero == Spec => []ReadCounterPositive
BY CounterPositive, CounterCounts, DeliveredOnce, Invariance, PTL

-----------------------------------------------------------------------------
(* The units of resources_available.                                       *)

\* The writes that have taken their units.
Held == {c \in Call : writer[c] \in {"ser", "sending"}}

\* The invariant as a sum over the writes that have units.
LEMMA MemoryAsSum ==
  /\ MemoryConserved <=> avail + SumOver(Size, Held) = MaxMem
  /\ MemoryConserved' <=> avail' + SumOver(Size, Held') = MaxMem
BY Zenon DEF MemoryConserved, Held, SumOver, MapThenSumSet, MapThenFoldSet

\* Finitely many writes have units.
LEMMA HeldFinite ==
  /\ IsFiniteSet(Held) /\ \A c \in Call : Size[c] \in Nat
  /\ SumOver(Size, Held) \in Nat
<1>1. IsFiniteSet(Held)
  BY FS_Subset DEF Held
<1>2. \A c \in Call : Size[c] \in Nat
  OBVIOUS
<1>3. \A c \in Held : Size[c] \in Nat
  BY <1>2 DEF Held
<1>. QED BY <1>1, <1>2, <1>3, SumType

\* What a call or a write leaves of the units: none of them, or those of one call.
LEMMA MemoryFrame ==
  ASSUME IInv, Next
  PROVE  \/ Held' = Held /\ avail' = avail
         \/ \E c \in Call : c \notin Held /\ Held' = Held \cup {c}
                            /\ avail' = avail - Size[c]
         \/ \E c \in Held : Held' = Held \ {c} /\ avail' = avail + Size[c]
<1>0. writer \in [Call -> {"none", "mem", "ser", "sending", "sent", "aborted"}]
  BY DEF IInv, Types, WriteType
<1>1. ASSUME NEW c \in Call, CallStep(c) PROVE Held' = Held /\ avail' = avail
  <2>1. CASE OutFilterDone(c)
    <3>1. writer[c] = "none"
      BY <2>1, Zenon DEF OutFilterDone, IInv, CallShape
    <3>2. avail' = avail /\ (writer' = writer \/ writer' = [writer EXCEPT ![c] = "mem"])
      BY <2>1 DEF OutFilterDone, writeVars
    <3>. QED BY <1>0, <3>1, <3>2 DEF Held
  <2>2. CASE ~OutFilterDone(c)
    <3>1. UNCHANGED writeVars
      BY <1>1, <2>2, ZenonT(60) DEF CallStep, SendRejected, RawSend, OutFilterThrow,
         PromiseFailed, PromiseReady, InFilter
    <3>. QED BY <3>1 DEF Held, writeVars
  <2>. QED BY <2>1, <2>2
<1>2. ASSUME NEW c \in Call, MemAcquire(c)
      PROVE  c \notin Held /\ Held' = Held \cup {c} /\ avail' = avail - Size[c]
  <2>1. writer[c] = "mem" /\ writer' = [writer EXCEPT ![c] = "ser"] /\ avail' = avail - Size[c]
    BY <1>2 DEF MemAcquire
  <2>. QED BY <1>0, <2>1 DEF Held
<1>3. ASSUME NEW c \in Call, WriteStart(c) PROVE Held' = Held /\ avail' = avail
  <2>1. writer[c] = "ser" /\ writer' = [writer EXCEPT ![c] = "sending"] /\ avail' = avail
    BY <1>3 DEF WriteStart
  <2>. QED BY <1>0, <2>1 DEF Held
<1>4. ASSUME NEW c \in Call, WriteReach(c) PROVE Held' = Held /\ avail' = avail
  BY <1>4 DEF WriteReach, writeVars, Held
<1>5. ASSUME NEW c \in Call, WriteDone(c) \/ WriteFail(c)
      PROVE  c \in Held /\ Held' = Held \ {c} /\ avail' = avail + Size[c]
  <2>1. /\ writer[c] = "sending" /\ avail' = avail + Size[c]
        /\ \/ writer' = [writer EXCEPT ![c] = "sent"]
           \/ writer' = [writer EXCEPT ![c] = "aborted"]
    BY <1>5 DEF WriteDone, WriteFail, WriteRelease
  <2>. QED BY <1>0, <2>1 DEF Held
<1>6. ASSUME NEW g \in Conn, ReadStep(g) PROVE Held' = Held /\ avail' = avail
  <2>1. UNCHANGED writeVars
    BY <1>6, ZenonT(60) DEF ReadStep, ReadTop, ReadError, PayloadOk, ReadThrow,
       ReadTimeout, HeaderOk
  <2>. QED BY <2>1 DEF Held, writeVars
<1>7. ASSUME MgmtStep PROVE Held' = Held /\ avail' = avail
  <2>1. UNCHANGED writeVars
    BY <1>7, ZenonT(60) DEF MgmtStep, Connect, ConnectOk, ConnectFail, Reconnect, Stop,
       CloseGate, ReconnectResume, StopDone
  <2>. QED BY <2>1 DEF Held, writeVars
<1>. QED BY <1>1, <1>2, <1>3, <1>4, <1>5, <1>6, <1>7, ZenonT(60) DEF Next, WriteStep

\* Every step keeps the units accounted for.
LEMMA NextMemory == IInv /\ MemoryConserved /\ [Next]_vars => MemoryConserved'
<1> SUFFICES ASSUME IInv, MemoryConserved, [Next]_vars
             PROVE  avail' + SumOver(Size, Held') = MaxMem
  BY MemoryAsSum
<1>0. avail + SumOver(Size, Held) = MaxMem /\ avail \in Nat
  BY MemoryAsSum DEF IInv, Types, WriteType
<1>1. CASE Held' = Held /\ avail' = avail
  BY <1>0, <1>1
<1>2. CASE \E c \in Call : c \notin Held /\ Held' = Held \cup {c} /\ avail' = avail - Size[c]
  <2>1. PICK c \in Call : c \notin Held /\ Held' = Held \cup {c} /\ avail' = avail - Size[c]
    BY <1>2
  <2>2. \A d \in Held \cup {c} : Size[d] \in Nat
    BY HeldFinite DEF Held
  <2>3. SumOver(Size, Held \cup {c}) = Size[c] + SumOver(Size, Held)
    BY <2>1, <2>2, HeldFinite, SumAdd
  <2>. QED BY <1>0, <2>1, <2>3, HeldFinite
<1>3. CASE \E c \in Held : Held' = Held \ {c} /\ avail' = avail + Size[c]
  <2>1. PICK c \in Held : Held' = Held \ {c} /\ avail' = avail + Size[c]
    BY <1>3
  <2>2. \A d \in Held : Size[d] \in Nat
    BY HeldFinite DEF Held
  <2>3. SumOver(Size, Held) = Size[c] + SumOver(Size, Held \ {c})
    BY <2>2, HeldFinite, SumRemove
  <2>4. SumOver(Size, Held \ {c}) \in Nat
    BY <2>2, HeldFinite, FS_RemoveElement, SumType, Zenon
  <2>. QED BY <1>0, <2>1, <2>2, <2>3, <2>4
<1>4. CASE UNCHANGED vars
  BY <1>1, <1>4, Stutter DEF Held
<1>. QED BY <1>1, <1>2, <1>3, <1>4, MemoryFrame

\* dispatch_write returns the units it took, once, whether the write succeeds or not:
\* those that are not free are those of the writes in progress.
THEOREM MemoryInvariant == Spec => []MemoryConserved
<1>1. Init => MemoryConserved
  <2>1. Init => Held = {} /\ avail = MaxMem
    BY DEF Init, Held
  <2>. QED BY <2>1, MemoryAsSum, SumEmpty
<1>. QED BY <1>1, NextMemory, Invariance, PTL DEF Spec
=============================================================================
