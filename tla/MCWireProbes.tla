---------------------------- MODULE MCWireProbes ----------------------------
(* Small instances of WireProbes for TLC: blocks of two bytes, two of which*)
(* an event has room for.                                                  *)
EXTENDS WireProbes, TLC

CONSTANTS t1, t2

MCThread == {t1, t2}
MCSymmetry == Permutations(MCThread)
=============================================================================
