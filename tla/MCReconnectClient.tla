-------------------------- MODULE MCReconnectClient --------------------------
(* Small instances of ReconnectClient.                                     *)
EXTENDS ReconnectClient

CONSTANTS f, g, h
=============================================================================
