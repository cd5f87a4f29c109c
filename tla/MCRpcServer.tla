----------------------------- MODULE MCRpcServer -----------------------------
(* Small instances of RpcServer.                                           *)
EXTENDS RpcServer, TLC

CONSTANTS p, q, s

\* With MaxMem = 2 request p fits only when no other request is held.  With
\* SignBit = 2 it is as large as memory_avail_per_core by default and as 2^31.
Sizes == [x \in Req |-> IF x = p THEN 2 ELSE 1]

\* Requests q and s differ in nothing.
Symmetry == Permutations({q, s})
=============================================================================
