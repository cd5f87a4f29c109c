------------------------------- MODULE RpcCall -------------------------------
(***************************************************************************)
(* What rpc_client::send promises its callers, whatever happens to the     *)
(* connection: a call is refused before anything of it is sent, or it is   *)
(* accepted and resolved exactly once; it is transmitted at most once, it  *)
(* returns a reply only if its own request was transmitted, and a failed   *)
(* call may still be transmitted (the caller cannot tell).                 *)
(***************************************************************************)
CONSTANT Call

VARIABLES
  status,       \* status[c]: what the caller of send(c) sees
  transmitted   \* requests the server received

vars == <<status, transmitted>>

Init == status = [c \in Call |-> "idle"] /\ transmitted = {}

Refuse(c) ==
  /\ status[c] = "idle"
  /\ status' = [status EXCEPT ![c] = "refused"]
  /\ UNCHANGED transmitted

Accept(c) ==
  /\ status[c] = "idle"
  /\ status' = [status EXCEPT ![c] = "pending"]
  /\ UNCHANGED transmitted

Transmit(c) ==
  /\ status[c] \in {"pending", "failed"} /\ c \notin transmitted
  /\ transmitted' = transmitted \cup {c}
  /\ UNCHANGED status

Answer(c) ==
  /\ status[c] = "pending" /\ c \in transmitted
  /\ status' = [status EXCEPT ![c] = "answered"]
  /\ UNCHANGED transmitted

Fail(c) ==
  /\ status[c] = "pending"
  /\ status' = [status EXCEPT ![c] = "failed"]
  /\ UNCHANGED transmitted

Next ==
  \E c \in Call : Refuse(c) \/ Accept(c) \/ Transmit(c) \/ Answer(c) \/ Fail(c)

Spec == Init /\ [][Next]_vars
=============================================================================
