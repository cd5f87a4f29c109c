------------------------------ MODULE MCRouting ------------------------------
(* A small instance of Routing.                                            *)
EXTENDS Routing

Bits == INSTANCE Bitwise

\* The operator ^ on numbers.
XorBits(a, b) == Bits!^^(a, b)

\* Ids of four bits.
Ids == [Storage |-> 1, Logger |-> 2, get |-> 4, put |-> 8]

WordLists == {<<"cpp", "go">>, <<"python", "cpp">>, <<"rust", "cpp">>, <<"rust">>}
=============================================================================
