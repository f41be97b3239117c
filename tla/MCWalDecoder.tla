---------------------------- MODULE MCWalDecoder ----------------------------
(* Small instances of WalDecoder for TLC: pages of 8 units, of which the   *)
(* header takes 4 on every second page and 2 on the others; a record       *)
(* header takes 3 and records start at even positions, as MAXALIGN makes   *)
(* them.                                                                   *)
EXTENDS WalDecoder

\* The layout repeats every four pages.
Period == 4 * PageSize

\* A record that fits its page, one that goes on after a long header, one with
\* its header on two pages, and one that ends its page.
LengthAt(x) == CASE x = 4 -> 3 [] x = 10 -> 7 [] x = 22 -> 3 [] x = 28 -> 4
MCRecords == {x \in LSN : x % Period \in {4, 10, 22, 28}}
MCLengths == [x \in MCRecords |-> LengthAt(x % Period)]

\* Bytes that start no record read as the header of a smallest record.
MCReads == [x \in LSN |-> IF x \in MCRecords THEN MCLengths[x] ELSE RecordHeader]

MCSenders == {[sizes |-> {3, 8, 13}, loses |-> TRUE, restarts |-> FALSE],
              [sizes |-> {3, 8, 13}, loses |-> TRUE, restarts |-> TRUE],
              [sizes |-> {8, 16, 24}, loses |-> FALSE, restarts |-> FALSE]}

\* Nothing is lost, and the WAL comes in any pieces.
MCPieces == {[sizes |-> 1..8, loses |-> FALSE, restarts |-> FALSE]}
=============================================================================
