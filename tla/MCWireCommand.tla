--------------------------- MODULE MCWireCommand ----------------------------
(* Small instances of WireCommand for TLC.                                 *)
EXTENDS WireCommand
=============================================================================
