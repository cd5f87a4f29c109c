------------------------ MODULE ReconnectClientProofs ------------------------
(***************************************************************************)
(* Proofs about reconnect_client for any number of overlapping connect()s: *)
(* the backoff follows the failures, some fiber keeps trying, and stop()   *)
(* lets no attempt start and resolves when none is left.                   *)
(***************************************************************************)
EXTENDS ReconnectClient, SumTheorems, TLAPS

Phase == {"idle", "draining", "dialing", "broken", "asleep"}

ReconnectType ==
  /\ link \in BOOLEAN /\ shut \in BOOLEAN /\ wanted \in BOOLEAN
  /\ gate \in {"open", "closing", "closed"}
  /\ phase \in [Fiber -> Phase]
  /\ failures \in 0 .. MaxFailures

(* A connection that is up is not wanted: DialOk clears the one flag as it   *)
(* sets the other, and an attempt over a valid connection ends at once.     *)
(* Once stop() resolved there is nothing left that could connect.           *)
ReconnectInv ==
  /\ ReconnectType /\ BackoffCountsFailures /\ (link => ~wanted) /\ KeepsTrying
  /\ gate = "closed" => ~link /\ \A f \in Fiber : phase[f] = "idle"

USE SMTT(5), ZenonT(10), SMTT(20), ZenonT(30)

-----------------------------------------------------------------------------
(* The table of operator++.                                                *)

\* Where the backoff b stands in the table.
Below(b) == {x \in Table : x < b}

\* The last entry.
Last == 1800

\* The table is finite, and its last entry has all others below it.
LEMMA TableFacts ==
  /\ Table \in SUBSET Nat /\ 0 \in Table /\ Last \in Table
  /\ \A x \in Table : x <= Last
  /\ IsFiniteSet(Table) /\ MaxFailures \in Nat \ {0}
  /\ \A b \in Table : IsFiniteSet(Below(b)) /\ Cardinality(Below(b)) \in Nat
<1>1. /\ Last \in Nat /\ 0 \in Table /\ Last \in Table
      /\ Table \in SUBSET Nat /\ \A x \in Table : x <= Last
  BY DEF Table, Last
<1>2. IsFiniteSet(Table)
  BY <1>1, FS_BoundedSetOfNaturals
<1>3. MaxFailures \in Nat \ {0}
  BY <1>1, <1>2, FS_CardinalityType, FS_EmptySet DEF MaxFailures
<1>4. \A b \in Table : IsFiniteSet(Below(b)) /\ Cardinality(Below(b)) \in Nat
  BY <1>2, FS_Subset, FS_CardinalityType DEF Below
<1>. QED BY <1>1, <1>2, <1>3, <1>4

\* Only the last entry has all others below it.
LEMMA LastEntry ==
  ASSUME NEW b \in Table
  PROVE  /\ Cardinality(Below(b)) <= MaxFailures - 1
         /\ Cardinality(Below(b)) = MaxFailures - 1 <=> b = Last
<1>1. IsFiniteSet(Table \ {b}) /\ Cardinality(Table \ {b}) = MaxFailures - 1
  BY TableFacts, FS_RemoveElement DEF MaxFailures
<1>2. Below(b) \in SUBSET (Table \ {b})
  BY TableFacts DEF Below
<1>3. Cardinality(Below(b)) <= MaxFailures - 1
      /\ (Cardinality(Below(b)) = MaxFailures - 1 => Below(b) = Table \ {b})
  BY <1>1, <1>2, FS_Subset
<1>4. Below(b) = Table \ {b} <=> b = Last
  <2>1. Table \in SUBSET Nat /\ Last \in Table /\ \A x \in Table : x <= Last
    BY TableFacts
  <2>2. ASSUME b = Last PROVE Below(b) = Table \ {b}
    <3>1. \A x \in Table : x < b <=> x # b
      BY <2>1, <2>2
    <3>. QED BY <3>1, Zenon DEF Below
  <2>3. ASSUME b # Last PROVE Last \notin Below(b) /\ Last \in Table \ {b}
    BY <2>1, <2>3 DEF Below
  <2>. QED BY <2>2, <2>3
<1>. QED BY <1>1, <1>3, <1>4

\* Min is the least element where there is one.
LEMMA MinIs ==
  ASSUME NEW S \in SUBSET Nat, S # {}
  PROVE  Min(S) \in S /\ \A x \in S : Min(S) <= x
<1>1. \E n \in S : \A m \in S : n <= m
  BY SmallestNumber
<1>. QED BY <1>1, ZenonT(30) DEF Min

\* operator++ moves to the next entry of the table: one more is below it.
LEMMA NextEntry ==
  ASSUME NEW b \in Table
  PROVE  /\ NextBackoff(b) \in Table
         /\ b = Last => NextBackoff(b) = Last
         /\ b # Last => Cardinality(Below(NextBackoff(b))) = Cardinality(Below(b)) + 1
<1> DEFINE above == {x \in Table : b + 1 <= x}
           n == NextBackoff(b)
<1>1. n = IF above = {} THEN Last ELSE Min(above)
  BY DEF NextBackoff, Last
<1>2. above \in SUBSET Nat /\ above \in SUBSET Table /\ (above = {} <=> b = Last)
  <2>1. Table \in SUBSET Nat /\ Last \in Table /\ \A x \in Table : x <= Last
    BY TableFacts
  <2>2. b \in Nat /\ b <= Last
    BY <2>1
  <2>3. ASSUME b # Last PROVE Last \in above
    BY <2>1, <2>2, <2>3
  <2>4. ASSUME b = Last, NEW x \in Table PROVE ~(b + 1 <= x)
    BY <2>1, <2>2, <2>4
  <2>5. above = {} <=> b = Last
    BY <2>3, <2>4, Zenon
  <2>. QED BY <2>1, <2>5, Zenon
<1>3. CASE b = Last
  BY <1>1, <1>2, <1>3, TableFacts
<1>4. CASE b # Last
  <2>1. n = Min(above) /\ above # {}
    BY <1>1, <1>2, <1>4
  <2>2. n \in above /\ \A x \in above : n <= x
    <3>. HIDE DEF above, n
    <3>. QED BY <1>2, <2>1, MinIs
  <2>. HIDE DEF n
  <2>3. n \in Table /\ b < n /\ \A x \in Table : b < x => n <= x
    BY <2>2, TableFacts
  <2>4. Below(n) = Below(b) \cup {b} /\ b \notin Below(b)
    <3>1. Table \in SUBSET Nat
      BY TableFacts
    <3>2. ~(b < b) /\ \A x \in Table : x < n <=> x < b \/ x = b
      BY <2>3, <3>1
    <3>. QED BY <3>2, Zenon DEF Below
  <2>5. IsFiniteSet(Below(b))
    BY TableFacts
  <2>6. Cardinality(Below(n)) = Cardinality(Below(b)) + 1
    BY <2>4, <2>5, FS_AddElement, Zenon
  <2>. QED BY <1>4, <2>3, <2>6 DEF n
<1>. QED BY <1>3, <1>4

\* The invariant in terms of Below.
LEMMA BackoffBelow ==
  BackoffCountsFailures <=>
    /\ bo \in Table
    /\ Cardinality(Below(bo)) = IF failures = MaxFailures THEN failures - 1 ELSE failures
BY Zenon DEF BackoffCountsFailures, Below

\* A failure that is counted moves the backoff on, or leaves it at the end.
LEMMA FailureCounted ==
  ASSUME BackoffCountsFailures, failures \in 0 .. MaxFailures, bo' = NextBackoff(bo),
         failures' = IF failures < MaxFailures THEN failures + 1 ELSE failures
  PROVE  BackoffCountsFailures' /\ failures' \in 0 .. MaxFailures
<1>1. /\ bo \in Table
      /\ Cardinality(Below(bo)) = IF failures = MaxFailures THEN failures - 1 ELSE failures
  BY BackoffBelow
<1>2. MaxFailures \in Nat \ {0}
  BY TableFacts
<1>3. failures' \in 0 .. MaxFailures
  BY <1>2
<1>4. bo' \in Table
  BY <1>1, NextEntry
<1>5. Cardinality(Below(bo')) = IF failures' = MaxFailures THEN failures' - 1 ELSE failures'
  <2>1. CASE bo = Last
    <3>1. Cardinality(Below(bo)) = MaxFailures - 1 /\ bo' = bo
      BY <1>1, <2>1, LastEntry, NextEntry
    <3>2. failures' = MaxFailures
      BY <1>1, <1>2, <3>1
    <3>. QED BY <3>1, <3>2
  <2>2. CASE bo # Last
    <3>1. /\ Cardinality(Below(bo)) < MaxFailures - 1
          /\ Cardinality(Below(bo')) = Cardinality(Below(bo)) + 1
      BY <1>1, <1>2, <2>2, LastEntry, NextEntry, TableFacts
    <3>2. failures < MaxFailures - 1 /\ Cardinality(Below(bo)) = failures
      BY <1>1, <1>2, <3>1
    <3>. QED BY <1>2, <3>1, <3>2
  <2>. QED BY <2>1, <2>2
<1>6. BackoffCountsFailures'
  BY <1>4, <1>5, Zenon DEF BackoffCountsFailures, Below
<1>. QED BY <1>3, <1>6

\* A success starts the backoff again.
LEMMA SuccessResets ==
  /\ bo = 0 /\ failures = 0 => BackoffCountsFailures /\ failures \in 0 .. MaxFailures
  /\ bo' = 0 /\ failures' = 0 => BackoffCountsFailures' /\ failures' \in 0 .. MaxFailures
<1>1. Below(0) = {}
  <2>1. Table \in SUBSET Nat
    BY TableFacts
  <2>2. \A x \in Table : ~(x < 0)
    BY <2>1
  <2>. QED BY <2>2, Zenon DEF Below
<1>2. Cardinality(Below(0)) = 0 /\ 0 \in Table /\ MaxFailures \in Nat \ {0}
  BY <1>1, TableFacts, FS_EmptySet
<1>3. Cardinality({x \in Table : x < 0}) = 0
  BY <1>2, Zenon DEF Below
<1>. QED BY <1>2, <1>3 DEF BackoffCountsFailures

-----------------------------------------------------------------------------
(* The steps.                                                              *)

\* Nothing is wanted and nothing was tried before the first connect().
LEMMA InitReconnect == Init => ReconnectInv
<1> SUFFICES ASSUME Init PROVE ReconnectInv
  OBVIOUS
<1>1. BackoffCountsFailures /\ failures \in 0 .. MaxFailures
  BY SuccessResets DEF Init
<1>2. ReconnectType
  BY <1>1, Zenon DEF Init, ReconnectType, Phase
<1>. QED BY <1>1, <1>2 DEF Init, ReconnectInv, KeepsTrying

\* connect() either ends the fiber, which no one needs any more, or starts to wait
\* for the client's gate.
LEMMA AttemptStep ==
  ASSUME ReconnectInv, NEW f \in Fiber, Attempt(f), UNCHANGED <<link, gate, bo, failures>>
  PROVE  ReconnectInv'
<1>0. BackoffCountsFailures'
  BY DEF ReconnectInv, BackoffCountsFailures
<1>1. CASE link \/ gate # "open"
  <2>1. phase' = [phase EXCEPT ![f] = "idle"] /\ wanted' = wanted /\ shut' = shut
    BY <1>1 DEF Attempt
  <2>2. ReconnectType'
    BY <2>1 DEF ReconnectInv, ReconnectType, Phase
  <2>3. KeepsTrying' /\ (link => ~wanted)'
    BY <1>1, <2>1 DEF ReconnectInv, KeepsTrying
  <2>4. (gate = "closed" => ~link /\ \A g \in Fiber : phase[g] = "idle")'
    BY <2>1 DEF ReconnectInv, ReconnectType
  <2>. QED BY <1>0, <2>2, <2>3, <2>4, Zenon DEF ReconnectInv
<1>2. CASE ~link /\ gate = "open"
  <2>1. PICK B \in SUBSET {g \in Fiber \ {f} : phase[g] = "draining"} :
          phase' = [g \in Fiber |-> IF g = f THEN "draining"
                                    ELSE IF g \in B THEN "broken" ELSE phase[g]]
    BY <1>2 DEF Attempt, Replaces
  <2>2. wanted' = TRUE /\ shut' = TRUE /\ phase'[f] = "draining"
    BY <1>2, <2>1 DEF Attempt
  <2>3. ReconnectType'
    BY <2>1, <2>2 DEF ReconnectInv, ReconnectType, Phase
  <2>4. KeepsTrying' /\ (link => ~wanted)'
    BY <1>2, <2>2 DEF KeepsTrying, InGate
  <2>. QED BY <1>0, <1>2, <2>3, <2>4 DEF ReconnectInv
<1>. QED BY <1>1, <1>2

\* Every step of the reconnecting client keeps the invariant.
LEMMA NextReconnect == ReconnectInv /\ [Next]_vars => ReconnectInv'
<1> SUFFICES ASSUME ReconnectInv, [Next]_vars PROVE ReconnectInv'
  OBVIOUS
<1>0. ReconnectType /\ BackoffCountsFailures /\ (link => ~wanted) /\ KeepsTrying
  BY DEF ReconnectInv
<1>1. ASSUME NEW f \in Fiber, Connect(f) \/ Wake(f) PROVE ReconnectInv'
  BY <1>1, AttemptStep DEF Connect, Wake
<1>2. ASSUME NEW f \in Fiber, Dial(f) PROVE ReconnectInv'
  <2>1. phase[f] = "draining" /\ gate # "closed"
    BY <1>2 DEF Dial, ReconnectInv
  <2>2. /\ phase' \in [Fiber -> Phase] /\ phase'[f] \in {"dialing", "broken"}
        /\ shut' \in BOOLEAN /\ link' \in {link, FALSE} /\ UNCHANGED <<gate, bo, failures, wanted>>
    <3>1. CASE shut
      <4>1. PICK B \in SUBSET {g \in Fiber \ {f} : phase[g] = "draining"} :
              phase' = [g \in Fiber |-> IF g = f THEN "dialing"
                                        ELSE IF g \in B THEN "broken" ELSE phase[g]]
        BY <1>2, <3>1 DEF Dial, Replaces
      <4>. QED BY <1>0, <1>2, <3>1, <4>1, Zenon DEF Dial, ReconnectType, Phase
    <3>2. CASE ~shut
      BY <1>0, <1>2, <3>2 DEF Dial, ReconnectType, Phase
    <3>. QED BY <3>1, <3>2, Zenon
  <2>3. ReconnectType' /\ BackoffCountsFailures'
    BY <1>0, <2>2, Zenon DEF ReconnectType, BackoffCountsFailures
  <2>4. KeepsTrying'
    BY <2>2 DEF KeepsTrying, InGate
  <2>5. link' => ~wanted'
    BY <1>0, <2>2, Zenon
  <2>6. gate' # "closed"
    BY <2>1, <2>2
  <2>. QED BY <2>3, <2>4, <2>5, <2>6, Zenon DEF ReconnectInv
<1>3. ASSUME NEW f \in Fiber, DialOk(f) PROVE ReconnectInv'
  <2>0. gate # "closed"
    BY <1>3 DEF DialOk, ReconnectInv
  <2>1. phase' = [phase EXCEPT ![f] = "idle"] /\ link' = TRUE /\ wanted' = FALSE
        /\ gate' = gate /\ shut' = shut /\ bo' = 0 /\ failures' = 0
    BY <1>3 DEF DialOk
  <2>2. BackoffCountsFailures' /\ failures' \in 0 .. MaxFailures
    BY <2>1, SuccessResets
  <2>3. ReconnectType'
    BY <1>0, <2>1, <2>2, Zenon DEF ReconnectType, Phase
  <2>. QED BY <2>0, <2>1, <2>2, <2>3 DEF ReconnectInv, KeepsTrying
<1>4. ASSUME NEW f \in Fiber, DialFail(f) PROVE ReconnectInv'
  <2>1. CASE gate = "open"
    <3>1. /\ phase' = [phase EXCEPT ![f] = "asleep"] /\ UNCHANGED <<link, shut, gate, wanted>>
          /\ bo' = NextBackoff(bo)
          /\ failures' = IF failures < MaxFailures THEN failures + 1 ELSE failures
      BY <1>4, <2>1 DEF DialFail
    <3>2. BackoffCountsFailures' /\ failures' \in 0 .. MaxFailures
      BY <1>0, <3>1, FailureCounted DEF ReconnectType
    <3>3. ReconnectType' /\ InGate(f)'
      BY <1>0, <3>1, <3>2 DEF ReconnectType, Phase, InGate
    <3>. QED BY <1>0, <2>1, <3>1, <3>2, <3>3 DEF ReconnectInv, KeepsTrying
  <2>2. CASE gate # "open"
    <3>1. phase' = [phase EXCEPT ![f] = "idle"] /\ UNCHANGED <<link, shut, gate, wanted, bo, failures>>
      BY <1>4, <2>2 DEF DialFail
    <3>2. gate # "closed"
      BY <1>4 DEF DialFail, ReconnectInv
    <3>. QED BY <1>0, <2>2, <3>1, <3>2 DEF ReconnectInv, ReconnectType, BackoffCountsFailures, KeepsTrying, Phase
  <2>. QED BY <2>1, <2>2
<1>5. CASE LinkDown \/ Stop \/ StopDone
  <2>1. UNCHANGED <<phase, bo, failures, wanted>> /\ (link' = link \/ link' = FALSE)
        /\ (shut' = shut \/ shut' = TRUE) /\ (gate' = gate \/ gate' \in {"closing", "closed"})
    BY <1>5 DEF LinkDown, Stop, StopDone
  <2>2. ReconnectType' /\ BackoffCountsFailures'
    BY <1>0, <2>1, Zenon DEF ReconnectType, BackoffCountsFailures
  <2>3. KeepsTrying' /\ (link => ~wanted)'
    BY <1>0, <2>1 DEF KeepsTrying, InGate
  <2>4. (gate = "closed" => ~link /\ \A f \in Fiber : phase[f] = "idle")'
    BY <1>5 DEF ReconnectInv, LinkDown, Stop, StopDone, InGate
  <2>. QED BY <2>2, <2>3, <2>4, Zenon DEF ReconnectInv
<1>6. CASE UNCHANGED vars
  BY <1>0, <1>6 DEF vars, ReconnectInv, ReconnectType, BackoffCountsFailures, KeepsTrying, InGate
<1>. QED BY <1>1, <1>2, <1>3, <1>4, <1>5, <1>6 DEF Next

-----------------------------------------------------------------------------

\* The invariant holds throughout.
THEOREM ReconnectInvariance == Spec => []ReconnectInv
BY InitReconnect, NextReconnect, PTL DEF Spec

\* bo_ is the entry of the clamp table that the failures since the last success
\* lead to, however many fibers share it.
THEOREM BackoffFollowsFailures == Spec => []BackoffCountsFailures
<1>1. ReconnectInv => BackoffCountsFailures
  BY DEF ReconnectInv
<1>. QED BY <1>1, ReconnectInvariance, PTL

\* A wanted connection is never forgotten: a retry ends without one only when
\* another fiber has connected or stop() was called.
THEOREM SomeFiberTries == Spec => []KeepsTrying
<1>1. ReconnectInv => KeepsTrying
  BY DEF ReconnectInv
<1>. QED BY <1>1, ReconnectInvariance, PTL

\* From the call of stop() on, neither connect() nor a retry that wakes up calls
\* reconnect() again, an attempt that fails is not followed by another one, and
\* once stop() resolved no fiber and no connection is left, for any number of
\* overlapping calls of connect().
THEOREM StopEndsAttempts == Spec => StopWindsDown
<1> DEFINE Ends(f) == \/ phase'[f] \in {phase[f], "idle"}
                      \/ phase[f] = "draining" /\ phase'[f] \in {"dialing", "broken"}
           Over == gate' = "closed" => ~link' /\ \A f \in Fiber : phase'[f] = "idle"
<1>1. ASSUME ReconnectInv, Next, gate # "open", NEW f \in Fiber PROVE Ends(f)
  <2>0. phase \in [Fiber -> Phase]
    BY <1>1 DEF ReconnectInv, ReconnectType
  <2>1. ASSUME NEW g \in Fiber, Connect(g) \/ Wake(g) PROVE Ends(f)
    <3>1. phase' = [phase EXCEPT ![g] = "idle"]
      BY <1>1, <2>1 DEF Connect, Wake, Attempt
    <3>. QED BY <2>0, <3>1
  <2>2. ASSUME NEW g \in Fiber, Dial(g) PROVE Ends(f)
    <3>1. CASE shut
      <4>1. PICK B \in SUBSET {q \in Fiber \ {g} : phase[q] = "draining"} :
              phase' = [q \in Fiber |-> IF q = g THEN "dialing"
                                        ELSE IF q \in B THEN "broken" ELSE phase[q]]
        BY <2>2, <3>1 DEF Dial, Replaces
      <4>. QED BY <2>2, <4>1 DEF Dial
    <3>2. CASE ~shut
      BY <2>0, <2>2, <3>2 DEF Dial
    <3>. QED BY <3>1, <3>2
  <2>3. ASSUME NEW g \in Fiber, DialOk(g) \/ DialFail(g) PROVE Ends(f)
    <3>1. phase' = [phase EXCEPT ![g] = "idle"]
      BY <1>1, <2>3 DEF DialOk, DialFail
    <3>. QED BY <2>0, <3>1
  <2>4. CASE LinkDown \/ Stop \/ StopDone
    BY <2>4 DEF LinkDown, Stop, StopDone
  <2>. HIDE DEF Ends
  <2>. QED BY <1>1, <2>1, <2>2, <2>3, <2>4 DEF Next
<1>2. ReconnectInv' => Over
  BY DEF ReconnectInv
<1>3. ReconnectInv /\ ReconnectInv' /\ [Next]_vars =>
        [gate # "open" => (\A f \in Fiber : Ends(f)) /\ Over]_vars
  <2>. HIDE DEF Ends, Over
  <2>. QED BY <1>1, <1>2
<1>. QED BY <1>3, ReconnectInvariance, PTL DEF Spec, StopWindsDown
=============================================================================
