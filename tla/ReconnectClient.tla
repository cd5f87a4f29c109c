--------------------------- MODULE ReconnectClient ---------------------------
(***************************************************************************)
(* smf::reconnect_client (src/src/include/smf/reconnect_client.h): connect *)
(* an rpc_client, and when that fails try again in the background with a   *)
(* growing backoff, until it works or stop() is called.                    *)
(*                                                                         *)
(* A fiber is one call of connect() and the retries it leaves behind.  The *)
(* wrapped client is what reconnect() and is_conn_valid() make of it.      *)
(***************************************************************************)
EXTENDS Naturals, FiniteSets, FiniteSetsExt

CONSTANT Fiber   \* bound: calls of connect() whose retries overlap

VARIABLES
  link,      \* client_->is_conn_valid()
  shut,      \* client_->dispatch_gate_->is_closed()
  gate,      \* reconnect_gate_
  phase,     \* phase[f]: where fiber f is
  bo,        \* bo_, in seconds
  failures,  \* failed attempts since the last successful one, up to MaxFailures
  wanted     \* connect() was called and no attempt has succeeded since

vars == <<link, shut, gate, phase, bo, failures, wanted>>

(* The clamp table of operator++ and the operator.                         *)
Table == {0, 1, 3, 5, 10, 20, 30, 60, 300, 600, 1800}

\* Mutant: the clamp compares with < and skips the entry it is looking for.
NextBackoffSkips(b) ==
  LET above == {x \in Table : b + 1 < x}
  IN IF above = {} THEN 1800 ELSE Min(above)

NextBackoff(b) ==
  LET above == {x \in Table : b + 1 <= x}
  IN IF above = {} THEN 1800 ELSE Min(above)

\* One more failure than the table has steps is told apart from none.
MaxFailures == Cardinality(Table)

InGate(f) == phase[f] # "idle"

Init ==
  /\ link = FALSE /\ shut = FALSE /\ gate = "open"
  /\ phase = [f \in Fiber |-> "idle"]
  /\ bo = 0 /\ failures = 0 /\ wanted = FALSE

-----------------------------------------------------------------------------
\* Mutant: connect() looks neither at the gate nor enters it.
AttemptUngated(f) ==
  IF link
  THEN phase' = [phase EXCEPT ![f] = "idle"] /\ UNCHANGED <<shut, wanted>>
  ELSE phase' = [phase EXCEPT ![f] = "draining"] /\ shut' = TRUE /\ wanted' = TRUE

\* Mutant: a retry that is not needed any more sleeps again.
AttemptSleepsOn(f) ==
  IF link \/ gate # "open"
  THEN UNCHANGED <<phase, shut, wanted>>
  ELSE phase' = [phase EXCEPT ![f] = "draining"] /\ shut' = TRUE /\ wanted' = TRUE

\* A new promise or gate takes the place of what other fibers wait for: their wait
\* breaks, unless it was over already.  f goes on to p.
Replaces(f, p) ==
  \E B \in SUBSET {g \in Fiber \ {f} : phase[g] = "draining"} :
    phase' = [g \in Fiber |-> IF g = f THEN p ELSE IF g \in B THEN "broken" ELSE phase[g]]

\* The body of connect().  client_->reconnect() first closes the client's gate.
\* Closing it again replaces the promise the other fibers wait for.
Attempt(f) ==
  IF link \/ gate # "open"
  THEN phase' = [phase EXCEPT ![f] = "idle"] /\ UNCHANGED <<shut, wanted>>
  ELSE Replaces(f, "draining") /\ shut' = TRUE /\ wanted' = TRUE

Connect(f) ==
  /\ phase[f] = "idle" /\ ~link /\ gate = "open"
  /\ Attempt(f)
  /\ UNCHANGED <<link, gate, bo, failures>>

\* The client's gate is drained: a new one takes its place, the connection is
\* dropped and the client dials; or another fiber put a new gate there before, and
\* reconnect() throws.
Dial(f) ==
  /\ phase[f] = "draining"
  /\ IF shut
     THEN Replaces(f, "dialing") /\ shut' = FALSE /\ link' = FALSE
     ELSE phase' = [phase EXCEPT ![f] = "broken"] /\ UNCHANGED <<shut, link>>
  /\ UNCHANGED <<gate, bo, failures, wanted>>

DialOk(f) ==
  /\ phase[f] = "dialing"
  /\ phase' = [phase EXCEPT ![f] = "idle"]
  /\ link' = TRUE
  /\ bo' = 0 /\ failures' = 0 /\ wanted' = FALSE
  /\ UNCHANGED <<gate, shut>>

\* Mutant: a failed attempt is not tried again.
DialFailGivesUp(f) ==
  /\ phase[f] \in {"dialing", "broken"}
  /\ phase' = [phase EXCEPT ![f] = "idle"]
  /\ UNCHANGED <<link, shut, gate, bo, failures, wanted>>

\* The attempt throws: a retry sleeps in the background, or with_gate throws.
DialFail(f) ==
  /\ phase[f] \in {"dialing", "broken"}
  /\ IF gate = "open"
     THEN /\ phase' = [phase EXCEPT ![f] = "asleep"]
          /\ bo' = NextBackoff(bo)
          /\ failures' = IF failures < MaxFailures THEN failures + 1 ELSE failures
     ELSE phase' = [phase EXCEPT ![f] = "idle"] /\ UNCHANGED <<bo, failures>>
  /\ UNCHANGED <<link, shut, gate, wanted>>

Wake(f) ==
  /\ phase[f] = "asleep"
  /\ Attempt(f)
  /\ UNCHANGED <<link, gate, bo, failures>>

\* The connection is lost; only the owner calls connect() again.
LinkDown ==
  /\ link
  /\ link' = FALSE
  /\ UNCHANGED <<shut, gate, phase, bo, failures, wanted>>

Stop ==
  /\ gate = "open"
  /\ gate' = "closing"
  /\ UNCHANGED <<link, shut, phase, bo, failures, wanted>>

\* The gate is empty; client_->stop() fails what is outstanding and closes its gate.
StopDone ==
  /\ gate = "closing" /\ \A f \in Fiber : ~InGate(f)
  /\ gate' = "closed"
  /\ link' = FALSE /\ shut' = TRUE
  /\ UNCHANGED <<phase, bo, failures, wanted>>

Next ==
  \/ LinkDown \/ Stop \/ StopDone
  \/ \E f \in Fiber : Connect(f) \/ Dial(f) \/ DialOk(f) \/ DialFail(f) \/ Wake(f)

Spec == Init /\ [][Next]_vars

(* Attempts end, sleeps end, and the server is reachable often enough for   *)
(* an attempt to succeed now and then.  The gate of the client drains while  *)
(* other fibers sleep for a second at least, so that a fiber is not kept     *)
(* from dialing for ever.                                                    *)
Fairness ==
  /\ WF_vars(StopDone)
  /\ \A f \in Fiber : /\ SF_vars(Dial(f)) /\ WF_vars(Wake(f))
                      /\ WF_vars(DialOk(f) \/ DialFail(f)) /\ SF_vars(DialOk(f))

FairSpec == Spec /\ Fairness

-----------------------------------------------------------------------------
(* Properties.                                                             *)

\* bo_ is the entry of the table that the failures since the last success lead
\* to, however the retries of several fibers interleave.
BackoffCountsFailures ==
  /\ bo \in Table
  /\ Cardinality({x \in Table : x < bo}) = IF failures = MaxFailures THEN failures - 1
                                           ELSE failures

\* Until an attempt succeeds or stop() is called, some fiber is trying.
KeepsTrying == wanted /\ gate = "open" => \E f \in Fiber : InGate(f)

\* From the call of stop() on, fibers only come to their end: an attempt under way
\* is finished, none starts and none goes to sleep again; and when stop() resolves
\* every fiber has ended and none of them leaves a connection behind.
StopWindsDown ==
  [][gate # "open" =>
       /\ \A f \in Fiber : \/ phase'[f] \in {phase[f], "idle"}
                           \/ phase[f] = "draining" /\ phase'[f] \in {"dialing", "broken"}
       /\ gate' = "closed" => ~link' /\ \A f \in Fiber : phase'[f] = "idle"]_vars

\* connect() leads to a connection or to stop(), if the server can be reached.
EventuallyConnected == wanted ~> (link \/ gate # "open")

\* stop() gets past the retries.
StopCompletes == gate = "closing" ~> gate = "closed"

\* rpc_client::connect: "Client already connected to server ... connect called
\* more than once": a connection is not opened over a valid one.
ConnectsOnce == [][\A f \in Fiber : DialOk(f) => ~link]_vars
=============================================================================
