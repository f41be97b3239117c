---------------------------- MODULE MCSessionLog ----------------------------
(* Small instances of SessionLog for TLC.                                  *)
EXTENDS SessionLog, TLC

CONSTANTS p1, gA, c1, c2

MCCgroupOf == c1 :> gA @@ c2 :> gA

\* Everything, the connection -client selects, or one of two connections.
MCQueries == {[selected |-> {c1, c2, NoConn}, limit |-> 0],
              [selected |-> {c1}, limit |-> 0],
              [selected |-> {c1, c2}, limit |-> 1]}
=============================================================================
