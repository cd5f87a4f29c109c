----------------------------- MODULE MCRpcClient -----------------------------
(* Small instances of RpcClient.                                           *)
EXTENDS RpcClient, TLC

CONSTANTS a, b, c

\* With MaxMem = 2 the envelope of call a fits only when no other is written.
Sizes == [x \in Call |-> IF x = a THEN 2 ELSE 1]

\* Calls b and c differ in nothing.
Symmetry == Permutations({b, c})
=============================================================================
