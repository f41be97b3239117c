----------------------------- MODULE WalWindow ------------------------------
(***************************************************************************)
(* What the buffer of walStreamDecoder promises (internal/wire,            *)
(* waldecode.go): one contiguous window of the WAL stream, positions       *)
(* from..to-1.  A message that touches the window at its end or inside it  *)
(* extends it; any other message replaces it; bytes leave at the front     *)
(* only, and the window never grows a hole.                                *)
(***************************************************************************)
EXTENDS Integers

CONSTANTS
    Positions,      \* where the sender may stand
    Lengths         \* how long a message may be

VARIABLES from, to,
    next            \* where the next message starts

\* The sender's next message, positions next..next+len-1.
Receive(len) ==
    /\ next' = next + len
    /\ \/ /\ from < to
          /\ from <= next /\ next <= to
          /\ to' = (IF next' > to THEN next' ELSE to)
          /\ from' \in from..to'
       \/ /\ from = to \/ next < from \/ to < next
          /\ to' = next'
          /\ from' \in next..to'

\* A message is lost, or the sender goes back.
Move ==
    /\ next' \in Positions
    /\ UNCHANGED <<from, to>>

\* Bytes at the front are decoded, skipped or given up.
Forget ==
    /\ from' \in from..to
    /\ UNCHANGED <<to, next>>

WindowInit == from = 0 /\ to = 0 /\ next = 0

WindowNext == (\E len \in Lengths : Receive(len)) \/ Move \/ Forget

WindowSpec == WindowInit /\ [][WindowNext]_<<from, to, next>>
=============================================================================
