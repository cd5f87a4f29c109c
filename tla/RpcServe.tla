------------------------------ MODULE RpcServe ------------------------------
(***************************************************************************)
(* What smf::rpc_server promises for the requests it receives: each is     *)
(* taken up at most once, its handler runs at most once, it is answered at *)
(* most once and only after the handler ran; and stop() resolves only when *)
(* nothing taken up is left, after which no handler runs and no reply is   *)
(* written.                                                                *)
(***************************************************************************)
CONSTANT Req

VARIABLES
  state,   \* state[r]: what became of request r
  down     \* stop() has resolved

vars == <<state, down>>

Init == state = [r \in Req |-> "unread"] /\ down = FALSE

TakeUp(r) ==
  /\ state[r] = "unread" /\ ~down
  /\ state' = [state EXCEPT ![r] = "taken"]
  /\ UNCHANGED down

Run(r) ==
  /\ state[r] = "taken" /\ ~down
  /\ state' = [state EXCEPT ![r] = "run"]
  /\ UNCHANGED down

Answer(r) ==
  /\ state[r] = "run" /\ ~down
  /\ state' = [state EXCEPT ![r] = "answered"]
  /\ UNCHANGED down

\* Refused, failed or given up: no reply is ever written.
Drop(r) ==
  /\ state[r] \in {"unread", "taken", "run"}
  /\ state' = [state EXCEPT ![r] = "dropped"]
  /\ UNCHANGED down

Halt ==
  /\ \A r \in Req : state[r] \notin {"taken", "run"}
  /\ down' = TRUE
  /\ UNCHANGED state

Next ==
  Halt \/ \E r \in Req : TakeUp(r) \/ Run(r) \/ Answer(r) \/ Drop(r)

Spec == Init /\ [][Next]_vars
=============================================================================
