---------------------------- MODULE MCCorrelator ----------------------------
(* A small instance of Correlator for TLC.  One process seen in two cgroups*)
(* gives two keys; both connections are in one of the cgroups, so the exact*)
(* map is ambiguous for one key and has nothing for the other, and both    *)
(* fall back on the map by pid.                                            *)
EXTENDS Correlator, TLC

CONSTANTS p1, gA, gB, c1, c2, s1

MCCgroupOf == c1 :> gA @@ c2 :> gA

\* The two connections differ in their identifiers only.
MCSymmetry == Permutations({c1, c2})
=============================================================================
