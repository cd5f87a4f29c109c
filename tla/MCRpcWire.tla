------------------------------ MODULE MCRpcWire ------------------------------
(* Small instances of RpcWire.                                             *)
EXTENDS RpcWire

\* A payload too small to be compressed, one that shrinks, one that grows under
\* lz4, one that is too large unless zstd compresses it.
Sizes ==
  [none |-> [tiny |-> 1, text |-> 8, noise |-> 8, large |-> 20],
   zstd |-> [tiny |-> 2, text |-> 3, noise |-> 8, large |-> 9],
   lz4  |-> [tiny |-> 5, text |-> 4, noise |-> 12, large |-> 21]]

\* A checksum of zero of a plain and of a compressed payload.
Zeros == {<<"none", "noise">>, <<"lz4", "text">>}
=============================================================================
