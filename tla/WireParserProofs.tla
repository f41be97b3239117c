-------------------------- MODULE WireParserProofs --------------------------
(***************************************************************************)
(* Proofs about the parser, for any conversations that the protocol allows,*)
(* chunks, buffers and faults of every size.                               *)
(*                                                                         *)
(* Two invariants say where the parser is in the conversation.  CleanInv is*)
(* about a connection that was seen whole from its beginning: the events   *)
(* are the first messages, and the buffers hold the cells after them;      *)
(* GroupInv adds that the groups are those of the command under way, unless*)
(* the parser is misled until its end.  TrackInv is about a connection with*)
(* chunks cut, buffers reset or a beginning not seen: what a buffer holds  *)
(* is a piece of its side of the conversation with gaps only between       *)
(* messages, and no message in it has an event yet, and a message that is  *)
(* owed and that the search knows is there still.                          *)
(***************************************************************************)
EXTENDS WireParser, FiniteSetTheorems, SequenceTheorems, WellFoundedInduction, TLAPS

\* Cell p is one of message m.
Holds(c, m, p) == c[m].at <= p /\ p < Follows(c, m)

\* The cells of a buffer: those that follow a cell of a message are the rest of
\* that message, then cells of later ones.
Steady(c, b) ==
    \A i, j \in DOMAIN b : i < j =>
        \A m \in DOMAIN c : Holds(c, m, b[i]) =>
            IF j - i < Follows(c, m) - b[i] THEN b[j] = b[i] + (j - i)
                                            ELSE b[j] >= Follows(c, m)

\* They are of one side and have gone by.
Fits(c, b, d, p) ==
    \A i \in DOMAIN b : /\ b[i] >= 1 /\ b[i] < p
                        /\ \A m \in DOMAIN c : Holds(c, m, b[i]) => c[m].dir = d

\* The last is the last that has gone by, or the last of a message.
Caught(c, b, p) ==
    b # <<>> => \/ b[Len(b)] = p - 1
                \/ \E m \in DOMAIN c : Follows(c, m) = b[Len(b)] + 1

\* A piece of one message.
Partial(c, b) == Len(b) >= 2 => \E m \in DOMAIN c : b[1] = c[m].at /\ Len(b) < c[m].size

NoStart(c, b) == \A i \in DOMAIN b : \A m \in DOMAIN c : b[i] # c[m].at

\* The messages that begin in it have no event, nor have those after them.
Ahead(c, b, evs) ==
    \A i \in DOMAIN b : \A m \in DOMAIN c : b[i] = c[m].at =>
        \A j \in DOMAIN evs : evs[j].m < m

\* The startup packet is where the parser expects it.
StartupFirst(d, stream) ==
    \A i \in DOMAIN stream.buffer : stream.buffer[i] = 1 =>
        i = 1 /\ InStartup(d, stream) /\ ~stream.syncLost

\* Message m is there whole.
HasWhole(c, b, m) ==
    \E i \in DOMAIN b : b[i] = c[m].at /\ i + c[m].size - 1 <= Len(b)

\* The events are of messages, in their order.
InOrder(c, evs, p) ==
    \A i \in DOMAIN evs :
        /\ evs[i].made \in {"whole", "cut", "error"}
        /\ evs[i].m # 0 => /\ evs[i].m \in DOMAIN c /\ c[evs[i].m].at < p
                           /\ \A j \in 1..(i - 1) : evs[j].m < evs[i].m

Trusted == ~missing /\ ~noise /\ StartsOnce

\* What is known of the stream s of side d, with chunk f being fed.
Tracked(c, d, s, f, evs, p) ==
    /\ Fits(c, s.buffer, d, p) /\ Steady(c, s.buffer)
    /\ Ahead(c, s.buffer, evs) /\ StartupFirst(d, s)
    /\ ~(d = f.dir /\ f.truncated) => Caught(c, s.buffer, p)
    /\ d # f.dir => Partial(c, s.buffer)
    /\ f # NoChunk /\ d # f.dir => NoStart(c, s.buffer)
    /\ ~s.made => s.buffer = <<>>

\* The messages that must have an event yet: the search knows their code.
Due == {m \in owed : ~Unlisted(m)}

TrackInv ==
    Trusted =>
        /\ \A d \in Direction : Tracked(conversation, d, streams[d], feeding, events, pos)
        /\ pos = 1 => /\ streams = [d \in Direction |-> NoStream] /\ ~conn.startupSeen
                      /\ ~Feeding
        /\ InOrder(conversation, events, pos)
        /\ \A m \in Due : Feeding /\ HasWhole(conversation, streams[feeding.dir].buffer, m)

-----------------------------------------------------------------------------
Clean == faults = 0 /\ StartsOnce /\ ~Resets

\* The position after the first n messages.
Front(c, n) == IF n = 0 THEN 1 ELSE Follows(c, n)

\* Cell p is of side d.
OnSide(c, p, d) == \E m \in DOMAIN c : Holds(c, m, p) /\ c[m].dir = d

\* What the buffer of side d holds of the cells before p when those before f were
\* parsed.
Rest(c, f, p, d) == IF f < p /\ OnSide(c, f, d) THEN Run(f, p - f) ELSE <<>>

CleanInv ==
    Clean =>
        LET n == Len(events)
            front == Front(conversation, n)
        IN  /\ ~missing
            /\ n <= Len(conversation) /\ front <= pos
            /\ \A i \in 1..n : /\ events[i].m = i /\ events[i].made = "whole"
                               /\ events[i].session = "user"
            /\ \A d \in Direction :
                  /\ streams[d].buffer = Rest(conversation, front, pos, d)
                  /\ ~streams[d].syncLost
                  /\ streams[d].made => (streams[d].startupDone <=> d = "server" \/ n > 0)
                  /\ ~streams[d].made => streams[d].buffer = <<>>
            /\ conn.startupSeen <=> n > 0
            /\ n > 0 => conn.session = "user"
            /\ Feeding => /\ ~feeding.truncated
                          /\ \A p \in front..(pos - 1) : OnSide(conversation, p, feeding.dir)
            /\ ~Feeding /\ n < Len(conversation) => pos < Follows(conversation, n + 1)

\* The group of the command that is under way after message n.
UnderWay(c, n) == IF c[n].type = "ReadyForQuery" THEN "sql" ELSE c[n].group

\* After n messages it is the current one of the connection, and that of a copy, but for
\* a replication command that was not answered.
GroupsAfter(c, n, current, copy) ==
    /\ current = UnderWay(c, n)
    /\ copy \in {NoGroup, UnderWay(c, n)} \/ Unanswered(c, n)

\* Something misleading came, and neither the end of its command nor another since.
StillMisled(c, n) ==
    \E m \in 1..n : /\ Misleading(c, m)
                    /\ \A k \in m..n : c[k].type # "ReadyForQuery"
                    /\ \A k \in (m + 1)..n : GroupOfType(c[k].type) = "none"

GroupInv ==
    Clean =>
        LET n == Len(events)
        IN  /\ \A i \in 1..n : \/ events[i].group = conversation[i].group
                               \/ Misled(conversation, i)
            /\ n > 0 => \/ GroupsAfter(conversation, n, conn.current, conn.copy)
                        \/ StillMisled(conversation, n)

-----------------------------------------------------------------------------
(* The layout of a conversation                                            *)

\* The bounds are numbers.
LEMMA Bounds == /\ MaxChunk \in Nat /\ MaxBuffer \in Nat /\ Retain \in Nat /\ Swallow \in Nat
                /\ MaxFaults \in Nat /\ MaxFaults > 0 /\ Retain > 0 /\ Swallow > 0
BY BoundAssumption

\* The types of a conversation and its messages.
LEMMA MessageType ==
    ASSUME NEW c \in Conversations
    PROVE  /\ Len(c) \in Nat /\ Len(c) >= 1 /\ DOMAIN c = 1..Len(c)
           /\ \A m \in DOMAIN c :
                 /\ c[m] \in Message /\ c[m].dir \in Direction /\ c[m].group \in Group
                 /\ c[m].at \in Nat /\ c[m].at >= 1 /\ c[m].size \in Nat /\ c[m].size >= 2
                 /\ Follows(c, m) = c[m].at + c[m].size /\ Follows(c, m) \in Nat
<1>1. c \in Seq(Message) /\ c # <<>>
    BY LayoutAssumption
<1>2. Len(c) \in Nat /\ Len(c) >= 1 /\ DOMAIN c = 1..Len(c) /\ c \in [1..Len(c) -> Message]
    BY <1>1, LenProperties, EmptySeq
<1>3. \A m \in DOMAIN c : c[m] \in Message
    BY <1>2
<1>4. QED
    BY <1>2, <1>3 DEF Message, Follows

\* The first message is at the beginning; each ends before the next begins.
LEMMA MessageOrder ==
    ASSUME NEW c \in Conversations
    PROVE  /\ 1 \in DOMAIN c /\ c[1].at = 1
           /\ \A m, n \in DOMAIN c : m < n => Follows(c, m) <= c[n].at
           /\ \A m \in DOMAIN c : m + 1 \in DOMAIN c => c[m + 1].at = Follows(c, m)
<1>1. Len(c) \in Nat /\ Len(c) >= 1 /\ DOMAIN c = 1..Len(c)
    BY MessageType
<1>2. \A m \in 1..(Len(c) - 1) : c[m + 1].at = Follows(c, m)
    BY LayoutAssumption
<1>3. \A m \in DOMAIN c : m + 1 \in DOMAIN c => m \in 1..(Len(c) - 1)
    BY <1>1
<1>4. QED
    BY <1>1, <1>2, <1>3, LayoutAssumption

\* The conversation ends with its last message.
LEMMA EndType ==
    ASSUME NEW c \in Conversations
    PROVE  /\ End(c) \in Nat /\ End(c) >= 2 /\ Len(c) \in DOMAIN c
           /\ \A m \in DOMAIN c : Follows(c, m) <= End(c) + 1
<1>1. Len(c) \in Nat /\ Len(c) >= 1 /\ DOMAIN c = 1..Len(c)
    BY MessageType
<1>2. End(c) = Follows(c, Len(c)) - 1 /\ Len(c) \in DOMAIN c
    BY <1>1 DEF End
<1>3. End(c) \in Nat /\ End(c) >= 2
    BY <1>2, MessageType
<1>4. ASSUME NEW m \in DOMAIN c PROVE Follows(c, m) <= End(c) + 1
    <2>1. m = Len(c) \/ m < Len(c)
        BY <1>1
    <2>2. m < Len(c) => Follows(c, m) <= c[Len(c)].at
        BY <1>2, MessageOrder
    <2>3. QED
        BY <2>1, <2>2, <1>2, MessageType
<1>5. QED
    BY <1>2, <1>3, <1>4

\* A cell is of one message only.
LEMMA OneHolder ==
    ASSUME NEW c \in Conversations, NEW m \in DOMAIN c, NEW n \in DOMAIN c, NEW p \in Int,
           Holds(c, m, p), Holds(c, n, p)
    PROVE  m = n
<1>1. m \in Nat /\ n \in Nat
    BY MessageType
<1>2. ~ (m < n) /\ ~ (n < m)
    BY MessageOrder, MessageType DEF Holds
<1>3. QED
    BY <1>1, <1>2

\* The messages begin in their order.
LEMMA StartOrder ==
    ASSUME NEW c \in Conversations, NEW m \in DOMAIN c, NEW n \in DOMAIN c,
           c[m].at < c[n].at
    PROVE  m < n
<1>1. m \in Nat /\ n \in Nat
    BY MessageType
<1>2. n < m => Follows(c, n) <= c[m].at
    BY MessageOrder
<1>3. ~ (n < m) /\ m # n
    BY SMTT(30), <1>2, MessageType
<1>4. QED
    BY <1>1, <1>3

\* A set of numbers has a least one.
LEMMA LeastOf ==
    ASSUME NEW T, T \subseteq Nat, T # {}
    PROVE  \E m \in T : \A n \in T : m <= n
<1>1. PICK m \in T : \A n \in T : ~ (<<n, m>> \in OpToRel(<, Nat))
    BY WFMin, NatLessThanWellFounded
<1>2. \A n \in T : ~ (n < m)
    BY <1>1 DEF OpToRel
<1>3. QED
    BY <1>2

\* Each cell is of a message.
LEMMA HasHolder ==
    ASSUME NEW c \in Conversations, NEW p \in 1..End(c)
    PROVE  \E m \in DOMAIN c : Holds(c, m, p)
<1> DEFINE T == {m \in DOMAIN c : p < Follows(c, m)}
<1>1. T \subseteq Nat /\ T # {}
    BY MessageType, EndType DEF End
<1>2. PICK m \in T : \A n \in T : m <= n
    BY <1>1, LeastOf
<1>3. c[m].at <= p
    <2>1. CASE m = 1
        BY <2>1, MessageOrder
    <2>2. CASE m # 1
        <3>1. m - 1 \in DOMAIN c /\ m - 1 + 1 = m /\ ~ (m <= m - 1)
            BY <2>2, MessageType
        <3>2. m - 1 \notin T
            BY <3>1, <1>2
        <3>3. c[m].at = Follows(c, m - 1)
            BY <3>1, MessageOrder
        <3>4. QED
            BY <3>1, <3>2, <3>3, MessageType
    <2>3. QED
        BY <2>1, <2>2
<1>4. QED
    BY <1>3 DEF Holds

\* Owner gives the message of a cell.
LEMMA OwnerHolds ==
    ASSUME NEW c \in Conversations, NEW p \in 1..End(c)
    PROVE  Owner[c][p] \in DOMAIN c /\ Holds(c, Owner[c][p], p)
<1>1. \E m \in DOMAIN c : c[m].at <= p /\ p < Follows(c, m)
    BY HasHolder DEF Holds
<1>2. Owner[c][p] = CHOOSE m \in DOMAIN c : c[m].at <= p /\ p < Follows(c, m)
    BY DEF Owner
<1>3. QED
    BY <1>1, <1>2 DEF Holds

\* And that one only.
LEMMA OwnerIs ==
    ASSUME NEW c \in Conversations, NEW p \in Int, NEW m \in DOMAIN c, Holds(c, m, p)
    PROVE  p \in 1..End(c) /\ Owner[c][p] = m
<1>1. p \in 1..End(c)
    BY MessageType, EndType DEF Holds
<1>2. QED
    BY <1>1, OwnerHolds, OneHolder

\* The first cell of a message is its own.
LEMMA HoldsStart ==
    ASSUME NEW c \in Conversations, NEW m \in DOMAIN c
    PROVE  Holds(c, m, c[m].at) /\ c[m].at \in 1..End(c)
<1>1. Holds(c, m, c[m].at)
    BY MessageType DEF Holds
<1>2. QED
    BY <1>1, OwnerIs, MessageType

-----------------------------------------------------------------------------
(* Buffers                                                                 *)

Cell(c) == 1..End(c)

\* A run of cells.
LEMMA RunIs ==
    ASSUME NEW c \in Conversations, NEW p \in Nat, NEW n \in Nat, p >= 1, p + n <= End(c) + 1
    PROVE  /\ Run(p, n) \in Seq(Cell(c)) /\ Len(Run(p, n)) = n
           /\ \A i \in 1..n : Run(p, n)[i] = p + i - 1
<1>1. End(c) \in Nat
    BY EndType
<1>2. \A i \in 1..n : p + i - 1 \in Cell(c)
    BY <1>1 DEF Cell
<1>3. [i \in 1..n |-> p + i - 1] \in Seq(Cell(c)) /\ Len([i \in 1..n |-> p + i - 1]) = n
    BY <1>2
<1>4. QED
    BY <1>3 DEF Run

\* Two runs of as many cells from the same one on.
LEMMA SameRun ==
    ASSUME NEW S, NEW b \in Seq(S), NEW p \in Int, NEW n \in Nat, Len(b) = n,
           \A i \in 1..n : b[i] = p + i - 1
    PROVE  b = Run(p, n)
<1>1. b = [i \in 1..n |-> b[i]]
    BY LenProperties
<1>2. QED
    BY <1>1 DEF Run

\* What is left of a buffer from place k on.
From(b, k) == SubSeq(b, k, Len(b))

\* It is a sequence, of the cells from place k on.
LEMMA FromIs ==
    ASSUME NEW S, NEW b \in Seq(S), NEW k \in 1..(Len(b) + 1)
    PROVE  /\ From(b, k) \in Seq(S) /\ Len(From(b, k)) = Len(b) - k + 1
           /\ \A i \in 1..(Len(b) - k + 1) : From(b, k)[i] = b[k + i - 1]
           /\ k = 1 => From(b, k) = b
<1>1. Len(b) \in Nat /\ \A i \in 1..Len(b) : b[i] \in S
    BY LenProperties
<1>2. k \in Int /\ Len(b) \in Int /\ \A i \in k..Len(b) : b[i] \in S
    BY <1>1
<1>3. /\ SubSeq(b, k, Len(b)) \in Seq(S)
      /\ Len(SubSeq(b, k, Len(b))) = IF k <= Len(b) THEN Len(b) - k + 1 ELSE 0
      /\ \A i \in 1..(Len(b) - k + 1) : SubSeq(b, k, Len(b))[i] = b[k + i - 1]
    BY <1>2, SubSeqProperties
<1>4. k = 1 => SubSeq(b, k, Len(b)) = b
    BY SubSeqFull
<1>5. QED
    BY <1>1, <1>3, <1>4 DEF From

\* The cells that follow the first one of a message.
LEMMA SteadyInside ==
    ASSUME NEW c \in Conversations, NEW b \in Seq(Cell(c)), Steady(c, b),
           NEW m \in DOMAIN c, NEW i \in DOMAIN b, b[i] = c[m].at, NEW j \in DOMAIN b, i <= j
    PROVE  IF j - i < c[m].size THEN b[j] = c[m].at + (j - i) ELSE b[j] >= Follows(c, m)
<1>1. i \in Int /\ j \in Int
    BY LenProperties
<1>2. Holds(c, m, b[i]) /\ Follows(c, m) - b[i] = c[m].size /\ c[m].size >= 2
    BY HoldsStart, MessageType
<1>3. CASE i = j
    BY <1>1, <1>2, <1>3, MessageType
<1>4. CASE i < j
    BY <1>2, <1>4 DEF Steady
<1>5. QED
    BY <1>1, <1>3, <1>4

\* A buffer grows.
LEMMA SteadyGrows ==
    ASSUME NEW c \in Conversations, NEW b \in Seq(Cell(c)), Steady(c, b),
           NEW i \in DOMAIN b, NEW j \in DOMAIN b, i < j
    PROVE  b[i] < b[j]
<1>1. i \in Int /\ j \in Int /\ b[i] \in 1..End(c) /\ b[j] \in Int
    BY LenProperties, EndType DEF Cell
<1>2. PICK m \in DOMAIN c : Holds(c, m, b[i])
    BY <1>1, HasHolder
<1>3. IF j - i < Follows(c, m) - b[i] THEN b[j] = b[i] + (j - i) ELSE b[j] >= Follows(c, m)
    BY <1>2 DEF Steady
<1>4. QED
    BY <1>1, <1>2, <1>3, MessageType DEF Holds

\* What holds of a buffer holds of what is left of it.
LEMMA FromKeeps ==
    ASSUME NEW c \in Conversations, NEW b \in Seq(Cell(c)), NEW k \in 1..(Len(b) + 1),
           NEW d, NEW p, NEW evs,
           Fits(c, b, d, p), Steady(c, b), Ahead(c, b, evs)
    PROVE  /\ Fits(c, From(b, k), d, p) /\ Steady(c, From(b, k)) /\ Ahead(c, From(b, k), evs)
           /\ Caught(c, b, p) => Caught(c, From(b, k), p)
<1> DEFINE t == From(b, k)
<1>1. Len(b) \in Nat /\ DOMAIN b = 1..Len(b)
    BY LenProperties
<1>2. t \in Seq(Cell(c)) /\ Len(t) = Len(b) - k + 1
    BY FromIs
<1>3. DOMAIN t = 1..Len(t)
    BY <1>2, LenProperties
<1>4. \A i \in DOMAIN t : k + i - 1 \in DOMAIN b /\ t[i] = b[k + i - 1]
    <2>1. \A i \in 1..(Len(b) - k + 1) : t[i] = b[k + i - 1]
        BY FromIs
    <2>2. \A i \in DOMAIN t : i \in 1..(Len(b) - k + 1) /\ k + i - 1 \in DOMAIN b
        BY <1>1, <1>2, <1>3
    <2>3. QED
        BY <2>1, <2>2
<1> HIDE DEF t
<1>5. Fits(c, t, d, p)
    BY <1>4 DEF Fits
<1>6. Ahead(c, t, evs)
    BY <1>4 DEF Ahead
<1>7. ASSUME NEW i \in DOMAIN t, NEW j \in DOMAIN t, i < j, NEW m \in DOMAIN c,
             Holds(c, m, t[i])
      PROVE  IF j - i < Follows(c, m) - t[i] THEN t[j] = t[i] + (j - i)
                                             ELSE t[j] >= Follows(c, m)
    <2>1. k + i - 1 < k + j - 1 /\ (k + j - 1) - (k + i - 1) = j - i
        BY <1>1, <1>2, <1>3, <1>7
    <2>2. Holds(c, m, b[k + i - 1])
        BY <1>4, <1>7
    <2>3. IF (k + j - 1) - (k + i - 1) < Follows(c, m) - b[k + i - 1]
          THEN b[k + j - 1] = b[k + i - 1] + ((k + j - 1) - (k + i - 1))
          ELSE b[k + j - 1] >= Follows(c, m)
        BY <2>1, <2>2, <1>4 DEF Steady
    <2>4. QED
        BY <2>1, <2>3, <1>4
<1>8. Steady(c, t)
    BY <1>7 DEF Steady
<1>9. Caught(c, b, p) => Caught(c, t, p)
    <2>1. t # <<>> => Len(t) \in DOMAIN t /\ k + Len(t) - 1 = Len(b) /\ b # <<>>
        BY <1>1, <1>2, <1>3, EmptySeq
    <2>2. t # <<>> => t[Len(t)] = b[Len(b)]
        BY <2>1, <1>4
    <2>3. QED
        BY <2>1, <2>2 DEF Caught
<1>10. QED
    BY <1>5, <1>6, <1>8, <1>9 DEF t
\* Appending the cells from p on: the buffer and the cells.
LEMMA ConcatIs ==
    ASSUME NEW c \in Conversations, NEW b \in Seq(Cell(c)), NEW p \in Nat, NEW k \in Nat,
           p >= 1, p + k <= End(c) + 1
    PROVE  /\ b \o Run(p, k) \in Seq(Cell(c)) /\ Len(b \o Run(p, k)) = Len(b) + k
           /\ \A i \in 1..Len(b) : (b \o Run(p, k))[i] = b[i]
           /\ \A i \in (Len(b) + 1)..(Len(b) + k) : (b \o Run(p, k))[i] = p + (i - Len(b)) - 1
<1> DEFINE r == Run(p, k)
<1>1. r \in Seq(Cell(c)) /\ Len(r) = k /\ \A i \in 1..k : r[i] = p + i - 1
    BY RunIs
<1>2. Len(b) \in Nat
    BY LenProperties
<1> HIDE DEF r
<1>3. /\ b \o r \in Seq(Cell(c)) /\ Len(b \o r) = Len(b) + k
      /\ \A i \in 1..(Len(b) + k) : (b \o r)[i] = IF i <= Len(b) THEN b[i] ELSE r[i - Len(b)]
    BY <1>1, ConcatProperties
<1>4. \A i \in 1..Len(b) : i \in 1..(Len(b) + k) /\ i <= Len(b)
    BY <1>2
<1>5. \A i \in (Len(b) + 1)..(Len(b) + k) :
         i \in 1..(Len(b) + k) /\ ~ (i <= Len(b)) /\ i - Len(b) \in 1..k
    BY <1>2
<1>6. QED
    BY <1>1, <1>3, <1>4, <1>5 DEF r

\* A buffer that is caught up stays steady when the next cells of its side come,
\* and no message that begins in them has an event.
LEMMA ConcatKeeps ==
    ASSUME NEW c \in Conversations, NEW b \in Seq(Cell(c)), NEW d, NEW evs,
           NEW p \in Nat, NEW k \in Nat, NEW n \in Nat, p >= 1, k <= n, p + n <= End(c) + 1,
           Fits(c, b, d, p), Steady(c, b), Ahead(c, b, evs), Caught(c, b, p),
           InOrder(c, evs, p), \A i \in DOMAIN evs : evs[i].m \in Nat,
           \A q \in p..(p + n - 1) : \A m \in DOMAIN c : Holds(c, m, q) => c[m].dir = d
    PROVE  /\ Fits(c, b \o Run(p, k), d, p + n) /\ Steady(c, b \o Run(p, k))
           /\ Ahead(c, b \o Run(p, k), evs)
           /\ k = n => Caught(c, b \o Run(p, k), p + n)
<1> DEFINE t == b \o Run(p, k)
           l == Len(b)
<1>1. End(c) \in Nat /\ l \in Nat /\ DOMAIN b = 1..l /\ \A i \in 1..l : b[i] \in Cell(c)
    BY EndType, LenProperties
<1>2. /\ t \in Seq(Cell(c)) /\ Len(t) = l + k
      /\ \A i \in 1..l : t[i] = b[i]
      /\ \A i \in (l + 1)..(l + k) : t[i] = p + (i - l) - 1
    BY <1>1, ConcatIs
<1>3. DOMAIN t = 1..(l + k)
    BY <1>2, LenProperties
<1>4. b # <<>> => l \in 1..l
    BY <1>1, EmptySeq
<1> HIDE DEF t, l
<1>5. ASSUME NEW i \in DOMAIN t
      PROVE  \/ i \in 1..l /\ t[i] = b[i]
             \/ i \in (l + 1)..(l + k) /\ t[i] = p + (i - l) - 1 /\ t[i] \in p..(p + n - 1)
    BY <1>1, <1>2, <1>3
<1>6. Fits(c, t, d, p + n)
    <2>1. ASSUME NEW i \in DOMAIN t
          PROVE  /\ t[i] >= 1 /\ t[i] < p + n
                 /\ \A m \in DOMAIN c : Holds(c, m, t[i]) => c[m].dir = d
        <3>1. CASE i \in 1..l /\ t[i] = b[i]
            BY <1>1, <3>1 DEF Fits, Cell
        <3>2. CASE t[i] \in p..(p + n - 1)
            BY <3>2
        <3>3. QED
            BY <3>1, <3>2, <1>5
    <2>2. QED
        BY <2>1 DEF Fits
<1>7. Ahead(c, t, evs)
    <2>1. ASSUME NEW i \in DOMAIN t, NEW m \in DOMAIN c, t[i] = c[m].at, NEW j \in DOMAIN evs
          PROVE  evs[j].m < m
        <3>1. CASE i \in 1..l /\ t[i] = b[i]
            BY <1>1, <2>1, <3>1 DEF Ahead
        <3>2. CASE t[i] \in p..(p + n - 1)
            <4>1. evs[j].m # 0 => evs[j].m \in DOMAIN c /\ c[evs[j].m].at < c[m].at
                BY <2>1, <3>2, MessageType DEF InOrder
            <4>2. evs[j].m # 0 => evs[j].m < m
                BY <4>1, StartOrder
            <4>3. m \in Nat /\ m >= 1 /\ evs[j].m \in Nat
                BY MessageType
            <4>4. QED
                BY <4>2, <4>3
        <3>3. QED
            BY <3>1, <3>2, <1>5
    <2>2. QED
        BY <2>1 DEF Ahead
<1>8. Steady(c, t)
    <2>1. ASSUME NEW i \in DOMAIN t, NEW j \in DOMAIN t, i < j, NEW m \in DOMAIN c,
                 Holds(c, m, t[i])
          PROVE  IF j - i < Follows(c, m) - t[i] THEN t[j] = t[i] + (j - i)
                                                 ELSE t[j] >= Follows(c, m)
        <3>1. Follows(c, m) \in Nat /\ c[m].at \in Nat /\ i \in Nat /\ j \in Nat
            BY MessageType, <1>1, <1>3
        <3>2. CASE j \in 1..l
            <4>1. i \in 1..l /\ t[i] = b[i] /\ t[j] = b[j]
                BY <1>1, <1>2, <2>1, <3>1, <3>2
            <4>2. QED
                BY <4>1, <3>2, <2>1, <1>1 DEF Steady
        <3>3. CASE i \in (l + 1)..(l + k)
            <4>1. j \in (l + 1)..(l + k)
                BY <1>1, <1>3, <2>1, <3>3
            <4>2. t[i] = p + (i - l) - 1 /\ t[j] = p + (j - l) - 1
                BY <4>1, <3>3, <1>2
            <4>3. QED
                BY SMTT(30), <4>2, <3>1, <1>1
        <3>4. CASE i \in 1..l /\ j \in (l + 1)..(l + k)
            <4> DEFINE e == b[l]
            <4>1. b # <<>> /\ l \in 1..l /\ i <= l
                BY <3>4, <1>1, EmptySeq DEF l
            <4>2. /\ t[i] = b[i] /\ t[j] = p + (j - l) - 1
                  /\ b[i] \in Nat /\ e \in Nat /\ e < p
                <5>1. t[i] = b[i] /\ t[j] = p + (j - l) - 1
                    BY <3>4, <1>2
                <5>2. b[i] \in 1..End(c) /\ e \in 1..End(c) /\ e < p
                    BY <3>4, <4>1, <1>1 DEF Fits, Cell
                <5>3. QED
                    BY <5>1, <5>2, <1>1
            <4>3. \/ i = l /\ e = b[i]
                  \/ i < l /\ l - i < Follows(c, m) - b[i] /\ e = b[i] + (l - i)
                  \/ i < l /\ ~ (l - i < Follows(c, m) - b[i]) /\ e >= Follows(c, m)
                <5>1. i = l \/ i < l
                    BY <4>1, <3>1, <1>1
                <5>2. Holds(c, m, b[i])
                    BY <4>2, <2>1
                <5>3. i < l => IF l - i < Follows(c, m) - b[i] THEN e = b[i] + (l - i)
                                                               ELSE e >= Follows(c, m)
                    BY <4>1, <5>2, <3>4, <1>1 DEF Steady
                <5>4. QED
                    BY <5>1, <5>3
            <4>4. e = p - 1 \/ \E q \in DOMAIN c : Follows(c, q) = e + 1
                BY <4>1 DEF Caught, l
            <4> HIDE DEF e
            <4>5. e = p - 1 \/ e + 1 = Follows(c, m) \/ e >= Follows(c, m)
                <5>1. ASSUME NEW q \in DOMAIN c, Follows(c, q) = e + 1
                      PROVE  e + 1 = Follows(c, m) \/ e >= Follows(c, m)
                    <6>1. Holds(c, q, e)
                        BY SMTT(30), <4>2, <5>1, MessageType DEF Holds
                    <6>2. Holds(c, m, e) => m = q
                        BY <6>1, <4>2, OneHolder
                    <6>3. b[i] >= c[m].at /\ b[i] < Follows(c, m)
                        BY <2>1, <4>2 DEF Holds
                    <6>4. b[i] <= e
                        BY SMTT(30), <4>2, <4>3, <6>3, <3>1, <1>1
                    <6>5. ~Holds(c, m, e) => e >= Follows(c, m)
                        BY <6>3, <6>4, <4>2, <3>1 DEF Holds
                    <6>6. QED
                        BY <6>2, <6>5, <5>1
                <5>2. QED
                    BY <5>1, <4>4
            <4>6. b[i] < Follows(c, m)
                BY <2>1, <4>2 DEF Holds
            <4> DEFINE x == b[i]
                       f == Follows(c, m)
            <4>7. /\ l < j /\ l \in Int /\ i \in Int /\ j \in Int /\ x \in Int /\ e \in Int
                  /\ f \in Int /\ e < p /\ x < f
                  /\ e = p - 1 \/ e + 1 = f \/ e >= f
                BY <4>5, <4>6, <3>4, <3>1, <4>2, <1>1
            <4>8. \/ i = l /\ e = x
                  \/ i < l /\ l - i < f - x /\ e = x + (l - i)
                  \/ i < l /\ ~ (l - i < f - x) /\ e >= f
                BY <4>3
            <4> HIDE DEF x, f
            <4>9. IF j - i < f - x THEN p + (j - l) - 1 = x + (j - i) ELSE p + (j - l) - 1 >= f
                <5>1. CASE i = l /\ e = x
                    BY <4>7, <5>1
                <5>2. CASE i < l /\ l - i < f - x /\ e = x + (l - i)
                    <6>1. e >= f => FALSE
                        BY <4>7, <5>2
                    <6>2. CASE e = p - 1
                        BY SMTT(30), <4>7, <5>2, <6>2
                    <6>3. CASE e + 1 = f
                        <7>1. f - x = l - i + 1
                            BY SMTT(30), <4>7, <5>2, <6>3
                        <7>2. ~ (j - i < f - x)
                            BY <4>7, <7>1
                        <7>3. QED
                            BY SMTT(30), <4>7, <6>3, <7>2
                    <6>4. QED
                        BY <4>7, <6>1, <6>2, <6>3
                <5>3. CASE i < l /\ ~ (l - i < f - x) /\ e >= f
                    BY <4>7, <5>3
                <5>4. QED
                    BY <4>8, <5>1, <5>2, <5>3
            <4>10. QED
                BY <4>2, <4>9 DEF x, f
        <3>5. QED
            BY <3>2, <3>3, <3>4, <2>1, <1>1, <1>3
    <2>2. QED
        BY <2>1 DEF Steady
<1>9. k = n => Caught(c, t, p + n)
    <2>1. CASE k = n /\ k > 0
        <3>1. Len(t) \in (l + 1)..(l + k) /\ Len(t) = l + k
            BY <1>1, <1>2, <2>1
        <3>2. t[Len(t)] = p + n - 1
            BY <3>1, <1>1, <1>2, <2>1
        <3>3. QED
            BY <3>2 DEF Caught
    <2>2. CASE k = n /\ k = 0
        <3>1. Len(t) = l
            BY <1>1, <1>2, <2>2
        <3>2. t # <<>> => b # <<>> /\ l \in 1..l
            BY <3>1, <1>1, <1>2, EmptySeq DEF l
        <3>3. t # <<>> => t[Len(t)] = b[l]
            BY <3>1, <3>2, <1>2
        <3>4. QED
            BY <3>2, <3>3, <2>2 DEF Caught, l
    <2>3. QED
        BY <2>1, <2>2
<1>10. QED
    BY <1>6, <1>7, <1>8, <1>9 DEF t

-----------------------------------------------------------------------------
(* Headers and the search for one                                          *)

StreamType(c) == [made : BOOLEAN, buffer : Seq(Cell(c)), startupDone : BOOLEAN,
                  syncLost : BOOLEAN]

\* A header is that of the message whose first two cells are there.
LEMMA HeaderIs ==
    ASSUME conversation \in Conversations, NEW b \in Seq(Cell(conversation)),
           NEW i \in 1..(Len(b) - 1)
    PROVE  /\ MessageAt(b, i) \in 0..Len(conversation)
           /\ MessageAt(b, i) # 0 => /\ MessageAt(b, i) \in DOMAIN conversation
                                     /\ b[i] = conversation[MessageAt(b, i)].at
                                     /\ b[i + 1] = b[i] + 1
           /\ \A m \in DOMAIN conversation :
                 b[i] = conversation[m].at /\ b[i + 1] = b[i] + 1 => MessageAt(b, i) = m
<1>1. Len(b) \in Nat /\ i \in 1..Len(b) /\ b[i] \in 1..End(conversation) /\ b[i] \in Int
    BY LenProperties, EndType DEF Cell
<1> DEFINE o == Owner[conversation][b[i]]
<1>2. o \in DOMAIN conversation /\ DOMAIN conversation = 1..Len(conversation)
      /\ Len(conversation) \in Nat
    BY <1>1, OwnerHolds, MessageType
<1>3. ASSUME NEW m \in DOMAIN conversation, b[i] = conversation[m].at PROVE o = m
    BY <1>1, <1>3, HoldsStart, OwnerIs
<1>4. MessageAt(b, i) = IF conversation[o].at = b[i] /\ b[i + 1] = b[i] + 1 THEN o ELSE 0
    BY DEF MessageAt, MessageOf
<1> HIDE DEF o
<1>5. QED
    BY <1>2, <1>3, <1>4

\* The lengths that are read.
LEMMA LengthType ==
    ASSUME conversation \in Conversations, NEW b \in Seq(Cell(conversation))
    PROVE  /\ \A i \in 1..(Len(b) - 1) : RegularLength(b, i) \in Nat
           /\ Len(b) >= 2 => StartupLength(b) \in Nat
<1>1. \A m \in DOMAIN conversation : conversation[m].size \in Nat
    BY MessageType
<1>2. \A i \in 1..(Len(b) - 1) :
         MessageAt(b, i) # 0 => MessageAt(b, i) \in DOMAIN conversation
    BY HeaderIs
<1>3. NoiseLength \in Nat /\ Swallow \in Nat
    BY Bounds DEF NoiseLength
<1>4. \A i \in 1..(Len(b) - 1) : RegularLength(b, i) \in Nat
    BY <1>1, <1>2, <1>3 DEF RegularLength, Size
<1>5. Len(b) >= 2 => 1 \in 1..(Len(b) - 1)
    BY LenProperties
<1>6. Len(b) >= 2 => StartupLength(b) \in Nat
    BY <1>1, <1>2, <1>3, <1>5 DEF StartupLength, Size
<1>7. QED
    BY <1>4, <1>6

\* The length read at the start of a buffer is a number.
LEMMA HeaderLengthType ==
    ASSUME conversation \in Conversations, NEW d, NEW s \in StreamType(conversation),
           Len(s.buffer) >= 2
    PROVE  HeaderLength(d, s) \in Nat
<1>1. s.buffer \in Seq(Cell(conversation))
    BY DEF StreamType
<1>2. 1 \in 1..(Len(s.buffer) - 1)
    BY <1>1, LenProperties
<1>3. QED
    BY <1>1, <1>2, LengthType DEF HeaderLength

\* What tryResync makes of a stream: the place it goes on from is the first one,
\* that of the first whole message, or any if there is none.
Resynced(d, s, r) ==
    /\ r \in StreamType(conversation) /\ (s.made => r.made)
    /\ \E k \in 1..(Len(s.buffer) + 1) :
          /\ r.buffer = From(s.buffer, k)
          /\ \/ /\ k = 1 /\ r.startupDone = s.startupDone /\ r.syncLost = FALSE
                /\ InStartup(d, s) /\ Len(s.buffer) >= 2
                /\ StartupLength(s.buffer) \in 1..Len(s.buffer)
             \/ /\ k \in MessageStarts(s.buffer) /\ \A j \in MessageStarts(s.buffer) : k <= j
                /\ r.startupDone = TRUE /\ r.syncLost = FALSE
             \/ /\ MessageStarts(s.buffer) = {}
                /\ r.startupDone = s.startupDone /\ r.syncLost = s.syncLost

\* tryResync does what Resynced says of it.
LEMMA ResyncIs ==
    ASSUME conversation \in Conversations, NEW d, NEW s \in StreamType(conversation)
    PROVE  Resynced(d, s, Resync(d, s))
<1> DEFINE b == s.buffer
           starts == MessageStarts(b)
           r == Resync(d, s)
<1>1. b \in Seq(Cell(conversation)) /\ s.made \in BOOLEAN /\ s.startupDone \in BOOLEAN
      /\ s.syncLost \in BOOLEAN
    BY DEF StreamType
<1>2. Len(b) \in Nat
    BY <1>1, LenProperties
<1>3. \A k \in 1..(Len(b) + 1) : From(b, k) \in Seq(Cell(conversation))
    BY <1>1, FromIs
<1>4. From(b, 1) = b
    BY <1>1, <1>2, FromIs
<1>5. CASE /\ InStartup(d, s) /\ Len(b) >= 2 /\ StartupLength(b) \in 1..Len(b)
    <2>1. r = [s EXCEPT !.syncLost = FALSE]
        BY <1>5 DEF Resync
    <2>2. /\ r \in StreamType(conversation) /\ r.made = s.made /\ r.buffer = b
          /\ r.startupDone = s.startupDone /\ r.syncLost = FALSE
        BY <2>1 DEF StreamType
    <2>3. 1 \in 1..(Len(b) + 1)
        BY <1>2
    <2>4. QED
        BY <2>2, <2>3, <1>4, <1>5 DEF Resynced
<1>6. CASE /\ ~ (InStartup(d, s) /\ Len(b) >= 2 /\ StartupLength(b) \in 1..Len(b))
           /\ starts # {}
    <2> DEFINE first == CHOOSE i \in starts : \A j \in starts : i <= j
    <2>1. starts \subseteq Nat
        BY <1>2 DEF MessageStarts
    <2>2. first \in starts /\ \A j \in starts : first <= j
        BY <2>1, <1>6, LeastOf
    <2>3. r = [made |-> TRUE, buffer |-> SubSeq(b, first, Len(b)), startupDone |-> TRUE,
               syncLost |-> FALSE]
        BY <1>6 DEF Resync
    <2>4. first \in 1..(Len(b) + 1)
        BY <2>2, <1>2 DEF MessageStarts
    <2> HIDE DEF first
    <2>5. /\ r \in StreamType(conversation) /\ r.made = TRUE /\ r.buffer = From(b, first)
          /\ r.startupDone = TRUE /\ r.syncLost = FALSE
        BY <2>3, <2>4, <1>3 DEF StreamType, From
    <2>6. QED
        BY <2>2, <2>4, <2>5 DEF Resynced
<1>7. CASE /\ ~ (InStartup(d, s) /\ Len(b) >= 2 /\ StartupLength(b) \in 1..Len(b))
           /\ starts = {} /\ Len(b) > Retain
    <2> DEFINE k == Len(b) - Retain + 1
    <2>1. r = [s EXCEPT !.buffer = SubSeq(@, Len(@) - Retain + 1, Len(@))]
        BY <1>7 DEF Resync
    <2>2. k \in 1..(Len(b) + 1)
        BY <1>2, <1>7, Bounds
    <2>3. r = [s EXCEPT !.buffer = From(b, k)]
        BY <2>1 DEF From
    <2> HIDE DEF k
    <2>4. /\ r \in StreamType(conversation) /\ r.made = s.made /\ r.buffer = From(b, k)
          /\ r.startupDone = s.startupDone /\ r.syncLost = s.syncLost
        BY <2>2, <2>3, <1>3 DEF StreamType
    <2>5. QED
        BY <2>2, <2>4, <1>7 DEF Resynced
<1>8. CASE /\ ~ (InStartup(d, s) /\ Len(b) >= 2 /\ StartupLength(b) \in 1..Len(b))
           /\ starts = {} /\ ~ (Len(b) > Retain)
    <2>1. r = s
        BY <1>8 DEF Resync
    <2>2. 1 \in 1..(Len(b) + 1)
        BY <1>2
    <2>3. QED
        BY <2>1, <2>2, <1>4, <1>8 DEF Resynced
<1>9. QED
    BY <1>5, <1>6, <1>7, <1>8

-----------------------------------------------------------------------------
(* Types                                                                   *)

ConnType == [session : {"none", "user"}, startupSeen : BOOLEAN,
             current : Group \union {NoGroup}, copy : Group \union {NoGroup}]
FeedingType == [dir : Direction, truncated : BOOLEAN] \union {NoChunk}
EventType(c) == [m : 0..Len(c), made : {"whole", "cut", "error", "noise", "spliced"},
                 group : Group, session : {"none", "user"}]

\* The types, with the cells of the buffers those of the conversation.
TypeInv ==
    /\ conversation \in Conversations /\ noise \in BOOLEAN
    /\ pos \in 1..(End(conversation) + 1)
    /\ conn \in ConnType
    /\ streams \in [Direction -> StreamType(conversation)]
    /\ \A d \in Direction : Len(streams[d].buffer) <= MaxBuffer
    /\ feeding \in FeedingType
    /\ events \in Seq(EventType(conversation))
    /\ missing \in BOOLEAN /\ faults \in 0..MaxFaults
    /\ owed \subseteq DOMAIN conversation

\* It is stronger than TypeOK: cells are of the conversation.
LEMMA TypeInvOK == TypeInv => TypeOK
<1> SUFFICES ASSUME TypeInv PROVE TypeOK
    OBVIOUS
<1>1. Cell(conversation) \subseteq Nat
    BY EndType DEF TypeInv, Cell
<1>2. \A b \in Seq(Cell(conversation)) : b \in Seq(Nat)
    BY <1>1, SeqMonotonic
<1>3. \A s \in StreamType(conversation) :
         s \in [made : BOOLEAN, buffer : Seq(Nat), startupDone : BOOLEAN, syncLost : BOOLEAN]
    BY <1>2 DEF StreamType
<1>4. streams \in [Direction -> [made : BOOLEAN, buffer : Seq(Nat), startupDone : BOOLEAN,
                                 syncLost : BOOLEAN]]
    BY <1>3 DEF TypeInv
<1>5. QED
    BY <1>4 DEF TypeInv, TypeOK, ConnType, FeedingType, EventType

\* No group is not one of them.
LEMMA NoGroupIs ==
    NoGroup \notin Group /\ NoGroup # "sql" /\ NoGroup # "config" /\ NoGroup # "wal"
<1>1. NoGroup # "sql" /\ NoGroup # "config" /\ NoGroup # "wal"
    BY Zenon DEF NoGroup
<1>2. QED
    BY <1>1 DEF Group

\* The groups an event sets.
LEMMA GroupsType ==
    ASSUME conn \in ConnType, NEW type, NEW seen \in BOOLEAN
    PROVE  /\ ActiveGroup \in Group /\ TruncatedGroup(type, seen) \in Group
           /\ ClientGroups(type) \in [group : Group, current : Group \union {NoGroup},
                                      copy : Group \union {NoGroup}]
           /\ ServerGroups(type) \in [group : Group, current : Group \union {NoGroup},
                                      copy : Group \union {NoGroup}]
<1>1. conn.current \in Group \union {NoGroup} /\ conn.copy \in Group \union {NoGroup}
    BY DEF ConnType
<1>2. ActiveQueryGroup \in Group
    BY <1>1 DEF ActiveQueryGroup, Group
<1>3. ActiveGroup \in Group
    BY <1>1, <1>2 DEF ActiveGroup
<1>4. "config" \in Group /\ "sql" \in Group /\ "wal" \in Group
    BY DEF Group
<1>5. TruncatedGroup(type, seen) \in Group
    BY <1>3, <1>4 DEF TruncatedGroup
<1> DEFINE G == [group : Group, current : Group \union {NoGroup}, copy : Group \union {NoGroup}]
<1>6. /\ \A g \in Group : Keeps(g) \in G
      /\ \A g \in Group : \A x, y \in Group \union {NoGroup} : Sets(g, x, y) \in G
    BY <1>1 DEF Keeps, Sets
<1> HIDE DEF G
<1>7. ClientGroups(type) \in G
    BY <1>1, <1>3, <1>4, <1>6 DEF ClientGroups
<1>8. ServerGroups(type) \in G
    BY <1>1, <1>2, <1>3, <1>4, <1>6 DEF ServerGroups
<1>9. QED
    BY <1>3, <1>5, <1>7, <1>8 DEF G

\* An event that is appended.
LEMMA AppendIs ==
    ASSUME NEW S, NEW evs \in Seq(S), NEW e \in S
    PROVE  /\ Append(evs, e) \in Seq(S) /\ Len(Append(evs, e)) = Len(evs) + 1
           /\ Len(evs) \in Nat /\ DOMAIN evs = 1..Len(evs)
           /\ DOMAIN Append(evs, e) = 1..(Len(evs) + 1)
           /\ \A i \in 1..Len(evs) : Append(evs, e)[i] = evs[i]
           /\ Append(evs, e)[Len(evs) + 1] = e
<1>1. Append(evs, e) \in Seq(S) /\ Len(Append(evs, e)) = Len(evs) + 1
    BY AppendProperties
<1>2. DOMAIN Append(evs, e) = 1..Len(Append(evs, e)) /\ Len(evs) \in Nat
      /\ DOMAIN evs = 1..Len(evs)
    BY <1>1, LenProperties
<1>3. QED
    BY <1>1, <1>2, AppendProperties

\* The stream of a direction, the one that is fed and its buffer.
LEMMA StreamForType ==
    ASSUME TypeInv, NEW d \in Direction
    PROVE  /\ StreamFor(d) \in StreamType(conversation) /\ StreamFor(d).made = TRUE
           /\ streams[d].made => StreamFor(d) = streams[d]
           /\ ~streams[d].made =>
                 /\ StreamFor(d).buffer = <<>> /\ StreamFor(d).syncLost = FALSE
                 /\ StreamFor(d).startupDone = (d = "server" \/ conn.startupSeen)
<1>1. streams[d] \in StreamType(conversation) /\ conn.startupSeen \in BOOLEAN
    BY DEF TypeInv, ConnType
<1>2. CASE streams[d].made
    BY <1>1, <1>2 DEF StreamFor, StreamType
<1>3. CASE ~streams[d].made
    <2>1. StreamFor(d) = [made |-> TRUE, buffer |-> <<>>,
                          startupDone |-> (d = "server" \/ conn.startupSeen),
                          syncLost |-> FALSE]
        BY <1>3 DEF StreamFor, NoStream
    <2>2. <<>> \in Seq(Cell(conversation)) /\ (d = "server" \/ conn.startupSeen) \in BOOLEAN
        BY EmptySeq
    <2>3. QED
        BY <2>1, <2>2, <1>3 DEF StreamType
<1>4. QED
    BY <1>2, <1>3

\* The stream Feed is at, and the length of the message there, have their types.
LEMMA FedType ==
    ASSUME TypeInv, Feeding
    PROVE  /\ feeding.dir \in Direction /\ feeding.truncated \in BOOLEAN
           /\ Stream \in StreamType(conversation) /\ Stream = streams[feeding.dir]
           /\ Stream.buffer \in Seq(Cell(conversation)) /\ Len(Stream.buffer) \in Nat
           /\ DOMAIN Stream.buffer = 1..Len(Stream.buffer)
           /\ HasHeader => Length \in Nat
           /\ HasHeader => 1 \in 1..(Len(Stream.buffer) - 1)
<1>1. feeding.dir \in Direction /\ feeding.truncated \in BOOLEAN
    BY DEF TypeInv, FeedingType, Feeding
<1>2. Stream \in StreamType(conversation) /\ Stream = streams[feeding.dir]
    BY <1>1 DEF TypeInv, Stream
<1>3. Stream.buffer \in Seq(Cell(conversation))
    BY <1>2 DEF StreamType
<1>4. Len(Stream.buffer) \in Nat /\ DOMAIN Stream.buffer = 1..Len(Stream.buffer)
    BY <1>3, LenProperties
<1>5. HasHeader => Length \in Nat
    BY <1>2, HeaderLengthType DEF TypeInv, HasHeader, Length
<1>6. HasHeader => 1 \in 1..(Len(Stream.buffer) - 1)
    BY <1>4 DEF HasHeader
<1>7. QED
    BY <1>1, <1>2, <1>3, <1>4, <1>5, <1>6

-----------------------------------------------------------------------------
(* What the actions do                                                     *)

\* The stream a chunk of k cells is appended to.
Longer(d, k) == [StreamFor(d) EXCEPT !.buffer = @ \o Run(pos, k)]

\* It has the type of a stream, and the chunk at its end.
LEMMA LongerIs ==
    ASSUME TypeInv, NEW d \in Direction, NEW k \in Nat, pos + k <= End(conversation) + 1
    PROVE  /\ Longer(d, k) \in StreamType(conversation) /\ Longer(d, k).made = TRUE
           /\ Longer(d, k).buffer = StreamFor(d).buffer \o Run(pos, k)
           /\ Longer(d, k).startupDone = StreamFor(d).startupDone
           /\ Longer(d, k).syncLost = StreamFor(d).syncLost
<1> DEFINE s == StreamFor(d)
<1>1. s \in StreamType(conversation) /\ s.made = TRUE
    BY StreamForType
<1>2. s.buffer \in Seq(Cell(conversation))
    BY <1>1 DEF StreamType
<1>3. pos \in Nat /\ pos >= 1 /\ conversation \in Conversations
    BY DEF TypeInv
<1>4. s.buffer \o Run(pos, k) \in Seq(Cell(conversation))
    BY <1>2, <1>3, ConcatIs
<1>5. Longer(d, k) = [s EXCEPT !.buffer = s.buffer \o Run(pos, k)]
    BY <1>1 DEF Longer, StreamType
<1> HIDE DEF s
<1>6. QED
    BY <1>1, <1>4, <1>5 DEF StreamType, s

\* The backend reads or writes cells of one side.
LEMMA CallIs ==
    ASSUME TypeInv, NEW n \in 1..MaxChunk, Call(n)
    PROVE  /\ ~Feeding /\ n \in Nat /\ n >= 1 /\ pos \in Nat /\ pos >= 1
           /\ pos + n <= End(conversation) + 1 /\ pos' = pos + n
           /\ DirOf(pos) \in Direction /\ OnSide(conversation, pos, DirOf(pos))
           /\ \A q \in pos..(pos + n - 1) : \A m \in DOMAIN conversation :
                 Holds(conversation, m, q) => conversation[m].dir = DirOf(pos)
<1>1. n \in Nat /\ n >= 1 /\ pos \in Nat /\ pos >= 1 /\ conversation \in Conversations
    BY Bounds DEF TypeInv
<1>2. End(conversation) \in Nat
    BY <1>1, EndType
<1>3. ~Feeding /\ pos + n <= End(conversation) + 1 /\ pos' = pos + n
    BY <1>1, <1>2 DEF Call
<1>4. pos \in 1..End(conversation)
    BY <1>1, <1>2, <1>3
<1>5. MessageOf(pos) \in DOMAIN conversation /\ Holds(conversation, MessageOf(pos), pos)
    BY <1>1, <1>4, OwnerHolds DEF MessageOf
<1>6. DirOf(pos) \in Direction /\ OnSide(conversation, pos, DirOf(pos))
    BY <1>1, <1>5, MessageType DEF DirOf, OnSide
<1>7. ASSUME NEW q \in pos..(pos + n - 1), NEW m \in DOMAIN conversation,
             Holds(conversation, m, q)
      PROVE  conversation[m].dir = DirOf(pos)
    <2>1. q \in Int
        BY <1>1
    <2>2. MessageOf(q) = m
        BY <2>1, <1>1, <1>7, OwnerIs DEF MessageOf
    <2>3. DirOf(q) = DirOf(pos)
        BY <1>7 DEF Call
    <2>4. QED
        BY <2>2, <2>3 DEF DirOf
<1>8. QED
    BY <1>1, <1>3, <1>6, <1>7

\* A chunk is appended, or the buffer is thrown away with it.
LEMMA ChunkIs ==
    ASSUME TypeInv, NEW n \in 1..MaxChunk, NEW k \in 1..n, Chunk(n, k)
    PROVE  LET d == DirOf(pos)
               t == Longer(d, k)
           IN  /\ Call(n) /\ k \in Nat /\ k >= 1 /\ k <= n /\ pos + k <= End(conversation) + 1
               /\ \/ /\ TooLong(t.buffer) /\ owed' = {}
                     /\ streams' = [streams EXCEPT
                                      ![d] = [t EXCEPT !.buffer = <<>>, !.syncLost = TRUE]]
                     /\ events' = Append(events, ErrorEvent(ActiveGroup))
                     /\ conn' = conn /\ feeding' = feeding
                  \/ /\ ~TooLong(t.buffer)
                     /\ owed' = IF missing THEN {} ELSE owed \union Whole(k)
                     /\ streams' = [streams EXCEPT
                                      ![d] = IF t.syncLost THEN Resync(d, t) ELSE t]
                     /\ feeding' = [dir |-> d, truncated |-> (k < n)]
                     /\ conn' = conn /\ events' = events
               /\ conversation' = conversation /\ noise' = noise /\ missing' = missing
               /\ faults' = faults + (IF k < n THEN 1 ELSE 0)
<1> DEFINE d == DirOf(pos)
           t == Longer(d, k)
<1>1. Call(n)
    BY DEF Chunk
<1>2. /\ n \in Nat /\ n >= 1 /\ pos \in Nat /\ d \in Direction
      /\ pos + n <= End(conversation) + 1 /\ End(conversation) \in Nat
    BY <1>1, CallIs, EndType DEF TypeInv
<1>3. k \in Nat /\ k >= 1 /\ k <= n /\ pos + k <= End(conversation) + 1
    BY <1>2
<1>4. t.buffer = StreamFor(d).buffer \o Run(pos, k)
    BY <1>2, <1>3, LongerIs
<1>5. /\ Feed(d, Run(pos, k), k < n) /\ UNCHANGED <<conversation, noise, missing>>
      /\ faults' = faults + (IF k < n THEN 1 ELSE 0)
      /\ owed' = IF missing \/ TooLong(StreamFor(d).buffer \o Run(pos, k)) THEN {}
                 ELSE owed \union Whole(k)
    BY DEF Chunk
<1>6. t = [StreamFor(d) EXCEPT !.buffer = @ \o Run(pos, k)]
    BY DEF Longer
<1> HIDE DEF d, t
<1>7. CASE TooLong(t.buffer)
    <2>1. /\ SetStream(d, [t EXCEPT !.buffer = <<>>, !.syncLost = TRUE])
          /\ events' = Append(events, ErrorEvent(ActiveGroup))
          /\ UNCHANGED <<conn, feeding>>
        BY <1>5, <1>6, <1>7 DEF Feed
    <2>2. QED
        BY <2>1, <1>1, <1>3, <1>4, <1>5, <1>7 DEF SetStream, d, t
<1>8. CASE ~TooLong(t.buffer)
    <2>1. /\ SetStream(d, IF t.syncLost THEN Resync(d, t) ELSE t)
          /\ feeding' = [dir |-> d, truncated |-> (k < n)]
          /\ UNCHANGED <<conn, events>>
        BY <1>5, <1>6, <1>8 DEF Feed
    <2>2. QED
        BY <2>1, <1>1, <1>3, <1>4, <1>5, <1>8 DEF SetStream, d, t
<1>9. QED
    BY <1>7, <1>8
\* A turn of the loop of parseBuffered: the message at the beginning, and what it
\* is read as.
First == MessageAt(Stream.buffer, 1)
Starting == InStartup(feeding.dir, Stream)
GroupsRead == IF feeding.dir = "client" THEN ClientGroups(TypeRead(First, Starting))
                                        ELSE ServerGroups(TypeRead(First, Starting))
SessionRead == IF ~Starting THEN conn.session
               ELSE IF Readable(First, Starting) /\ TypeRead(First, Starting) = "Startup"
               THEN "user" ELSE "none"
Made == IF ~Readable(First, Starting) THEN "noise"
        ELSE IF SubSeq(Stream.buffer, 1, Length) = CellsOf(First) THEN "whole" ELSE "spliced"
EventRead == EventOf(First, Made, GroupsRead.group, SessionRead)
StreamAfter == [Stream EXCEPT !.buffer = From(Stream.buffer, Length + 1),
                              !.startupDone = @ \/ Starting]

\* What TakeMessage makes of the stream, the connection and the events.
LEMMA TakeIs ==
    ASSUME TypeInv, TakeMessage
    PROVE  /\ Feeding /\ Complete /\ Length >= 1 /\ Length <= Len(Stream.buffer) /\ HasHeader
           /\ StreamAfter \in StreamType(conversation)
           /\ StreamAfter.buffer = From(Stream.buffer, Length + 1)
           /\ StreamAfter.startupDone = (Stream.startupDone \/ Starting)
           /\ StreamAfter.made = Stream.made /\ StreamAfter.syncLost = Stream.syncLost
           /\ Length + 1 \in 1..(Len(Stream.buffer) + 1)
           /\ streams' = [streams EXCEPT ![feeding.dir] = StreamAfter]
           /\ conn' = [session |-> SessionRead, startupSeen |-> conn.startupSeen \/ Starting,
                       current |-> GroupsRead.current, copy |-> GroupsRead.copy]
           /\ EventRead \in EventType(conversation) /\ events' = Append(events, EventRead)
           /\ owed' = IF Made = "whole" THEN owed \ {First} ELSE owed
           /\ feeding' = feeding
<1>1. Feeding /\ Complete /\ HasHeader
    BY DEF TakeMessage, Complete
<1>2. Length \in Nat /\ Length >= 1 /\ Length <= Len(Stream.buffer)
    BY <1>1, FedType DEF Complete
<1>3. Length + 1 \in 1..(Len(Stream.buffer) + 1)
    BY <1>1, <1>2, FedType
<1>4. Stream \in StreamType(conversation) /\ Stream.buffer \in Seq(Cell(conversation))
      /\ Starting \in BOOLEAN
    BY <1>1, FedType DEF Starting, InStartup
<1>5. From(Stream.buffer, Length + 1) \in Seq(Cell(conversation))
    BY <1>3, <1>4, FromIs
<1>6. /\ StreamAfter \in StreamType(conversation)
      /\ StreamAfter.buffer = From(Stream.buffer, Length + 1)
      /\ StreamAfter.startupDone = (Stream.startupDone \/ Starting)
      /\ StreamAfter.made = Stream.made /\ StreamAfter.syncLost = Stream.syncLost
    BY <1>4, <1>5 DEF StreamAfter, StreamType
<1>7. /\ streams' = [streams EXCEPT ![feeding.dir] = StreamAfter]
      /\ conn' = [session |-> SessionRead, startupSeen |-> conn.startupSeen \/ Starting,
                  current |-> GroupsRead.current, copy |-> GroupsRead.copy]
      /\ events' = Append(events, EventRead)
      /\ owed' = IF Made = "whole" THEN owed \ {First} ELSE owed
      /\ feeding' = feeding
    BY DEF TakeMessage, SetStream, StreamAfter, From, SessionRead, GroupsRead, EventRead,
           Made, First, Starting
<1>8. First \in 0..Len(conversation)
    BY <1>1, FedType, HeaderIs DEF First, TypeInv
<1>9. GroupsRead.group \in Group
    BY GroupsType DEF GroupsRead, TypeInv
<1>10. SessionRead \in {"none", "user"}
    BY DEF SessionRead, TypeInv, ConnType
<1>11. Made \in {"whole", "cut", "error", "noise", "spliced"}
    BY DEF Made
<1>12. EventRead \in EventType(conversation)
    BY <1>8, <1>9, <1>10, <1>11 DEF EventRead, EventOf, EventType
<1>13. QED
    BY <1>1, <1>2, <1>3, <1>6, <1>7, <1>12

\* A length that is invalid: the parser goes on from the first whole message, or
\* drops what it has.
Found == Resync(feeding.dir, [Stream EXCEPT !.syncLost = TRUE])

\* FindSync goes on at a message it found, or drops the buffer.
LEMMA FindIs ==
    ASSUME TypeInv, FindSync
    PROVE  /\ Feeding /\ HasHeader /\ Length = 0
           /\ Resynced(feeding.dir, [Stream EXCEPT !.syncLost = TRUE], Found)
           /\ [Stream EXCEPT !.syncLost = TRUE].buffer = Stream.buffer
           /\ [Stream EXCEPT !.syncLost = TRUE].syncLost = TRUE
           /\ [Stream EXCEPT !.syncLost = TRUE].made = Stream.made
           /\ [Stream EXCEPT !.syncLost = TRUE].startupDone = Stream.startupDone
           /\ \/ /\ Found.syncLost
                 /\ streams' = [streams EXCEPT ![feeding.dir] = [Found EXCEPT !.buffer = <<>>]]
                 /\ \E g \in Group : events' = Append(events, ErrorEvent(g))
              \/ /\ ~Found.syncLost
                 /\ streams' = [streams EXCEPT ![feeding.dir] = Found]
                 /\ events' = events
           /\ conn' = conn /\ feeding' = feeding /\ owed' = owed
<1>1. Feeding /\ HasHeader /\ Length = 0
    BY DEF FindSync, Invalid
<1>2. Stream \in StreamType(conversation)
    BY <1>1, FedType
<1> DEFINE s == [Stream EXCEPT !.syncLost = TRUE]
<1>3. s \in StreamType(conversation) /\ s.buffer = Stream.buffer /\ s.syncLost = TRUE
      /\ s.made = Stream.made /\ s.startupDone = Stream.startupDone
    BY <1>2 DEF StreamType
<1>4. Found = Resync(feeding.dir, s)
    BY DEF Found
<1>5. /\ IF Found.syncLost
         THEN /\ SetStream(feeding.dir, [Found EXCEPT !.buffer = <<>>])
              /\ events' = Append(events, ErrorEvent(
                   IF InStartup(feeding.dir, Stream) THEN "config" ELSE ActiveGroup))
         ELSE /\ SetStream(feeding.dir, Found)
              /\ UNCHANGED events
      /\ UNCHANGED <<conn, feeding, owed>>
    BY DEF FindSync, Found
<1>6. (IF InStartup(feeding.dir, Stream) THEN "config" ELSE ActiveGroup) \in Group
    BY GroupsType DEF TypeInv, Group
<1> HIDE DEF s
<1>7. Resynced(feeding.dir, s, Found)
    BY <1>3, <1>4, ResyncIs DEF TypeInv
<1>8. QED
    BY <1>1, <1>3, <1>5, <1>6, <1>7 DEF s, SetStream

\* Feed returns.
LEMMA ReturnIs ==
    ASSUME TypeInv, Return
    PROVE  /\ Feeding /\ ~Complete /\ ~Invalid /\ feeding' = NoChunk
           /\ \/ /\ feeding.truncated
                 /\ TruncatedEvent \in EventType(conversation)
                 /\ events' = Append(events, TruncatedEvent)
                 /\ streams' = [streams EXCEPT ![feeding.dir] = AfterTruncation(Stream)]
              \/ ~feeding.truncated /\ events' = events /\ streams' = streams
           /\ conn' = conn /\ owed' = owed
<1>1. Feeding
    BY DEF Return
<1> DEFINE m == IF HasHeader THEN First ELSE 0
<1>2. m \in 0..Len(conversation)
    <2>1. HasHeader => First \in 0..Len(conversation)
        BY <1>1, FedType, HeaderIs DEF First, TypeInv
    <2>2. QED
        BY <2>1, MessageType DEF TypeInv
<1>3. conn.session \in {"none", "user"} /\ ActiveGroup \in Group
      /\ \A type : \A seen \in BOOLEAN : TruncatedGroup(type, seen) \in Group
    BY GroupsType DEF TypeInv, ConnType
<1>4. TruncatedEvent = IF InStartup(feeding.dir, Stream) \/ ~HasHeader \/ Length = 0
                       THEN ErrorEvent(ActiveGroup)
                       ELSE IF m = 0 \/ TypeOf(m) \in Startups
                       THEN EventOf(m, "noise", ActiveGroup, conn.session)
                       ELSE EventOf(m, "cut", TruncatedGroup(ReadAs(conversation, m),
                                                             Len(Stream.buffer) > 2), conn.session)
    BY DEF TruncatedEvent, First
<1> HIDE DEF m
<1>5. TruncatedEvent \in EventType(conversation)
    <2> DEFINE seen == Len(Stream.buffer) > 2
               g == TruncatedGroup(ReadAs(conversation, m), seen)
    <2>1. seen \in BOOLEAN
        <3>1. \A l, k \in Int : (l > k) \in BOOLEAN
            OBVIOUS
        <3>2. QED
            BY <3>1, <1>1, FedType
    <2>2. g \in Group
        BY <2>1, <1>3
    <2>3. TruncatedEvent = IF InStartup(feeding.dir, Stream) \/ ~HasHeader \/ Length = 0
                           THEN ErrorEvent(ActiveGroup)
                           ELSE IF m = 0 \/ TypeOf(m) \in Startups
                           THEN EventOf(m, "noise", ActiveGroup, conn.session)
                           ELSE EventOf(m, "cut", g, conn.session)
        BY <1>4
    <2> HIDE DEF seen, g
    <2>4. QED
        BY <2>2, <2>3, <1>2, <1>3, MessageType DEF EventOf, ErrorEvent, EventType, TypeInv
<1>6. QED
    BY <1>5 DEF Return, SetStream

-----------------------------------------------------------------------------
(* Type correctness                                                        *)

\* One stream changes.
LEMMA OneStream ==
    ASSUME TypeInv, NEW d \in Direction, NEW u \in StreamType(conversation),
           Len(u.buffer) <= MaxBuffer, conversation' = conversation,
           streams' = [streams EXCEPT ![d] = u]
    PROVE  /\ streams' \in [Direction -> StreamType(conversation')]
           /\ \A e \in Direction : Len(streams'[e].buffer) <= MaxBuffer
           /\ streams'[d] = u /\ \A e \in Direction \ {d} : streams'[e] = streams[e]
<1>1. streams'[d] = u /\ \A e \in Direction \ {d} : streams'[e] = streams[e]
    BY DEF TypeInv
<1>2. streams' \in [Direction -> StreamType(conversation')]
    BY DEF TypeInv
<1>3. \A e \in Direction : Len(streams'[e].buffer) <= MaxBuffer
    BY <1>1 DEF TypeInv
<1>4. QED
    BY <1>1, <1>2, <1>3

\* A buffer that was emptied.
LEMMA EmptyStream ==
    ASSUME TypeInv, NEW s \in StreamType(conversation)
    PROVE  /\ [s EXCEPT !.buffer = <<>>] \in StreamType(conversation)
           /\ [s EXCEPT !.buffer = <<>>, !.syncLost = TRUE] \in StreamType(conversation)
           /\ [s EXCEPT !.buffer = <<>>].buffer = <<>>
           /\ [s EXCEPT !.buffer = <<>>, !.syncLost = TRUE].buffer = <<>>
           /\ [s EXCEPT !.buffer = <<>>].made = s.made
           /\ [s EXCEPT !.buffer = <<>>, !.syncLost = TRUE].made = s.made
           /\ Len(<<>>) <= MaxBuffer
<1>1. <<>> \in Seq(Cell(conversation)) /\ Len(<<>>) = 0
    BY EmptySeq
<1>2. 0 <= MaxBuffer
    BY Bounds
<1>3. QED
    BY <1>1, <1>2 DEF StreamType

\* The search makes no buffer longer.
LEMMA ResyncedShorter ==
    ASSUME NEW d, NEW s \in StreamType(conversation), NEW r, Resynced(d, s, r)
    PROVE  Len(r.buffer) <= Len(s.buffer)
<1>1. s.buffer \in Seq(Cell(conversation))
    BY DEF StreamType
<1>2. PICK k \in 1..(Len(s.buffer) + 1) : r.buffer = From(s.buffer, k)
    BY DEF Resynced
<1>3. Len(r.buffer) = Len(s.buffer) - k + 1
    BY <1>1, <1>2, FromIs
<1>4. QED
    BY <1>1, <1>2, <1>3, LenProperties

\* An error is an event, of no message.
LEMMA ErrorEventType ==
    ASSUME TypeInv, NEW g \in Group
    PROVE  /\ ErrorEvent(g) \in EventType(conversation)
           /\ ErrorEvent(g).m = 0 /\ ErrorEvent(g).made = "error"
<1>1. conn.session \in {"none", "user"}
    BY DEF TypeInv, ConnType
<1>2. Len(conversation) \in Nat
    BY MessageType DEF TypeInv
<1>3. 0 \in 0..Len(conversation)
    BY <1>2
<1>4. QED
    BY <1>1, <1>3 DEF ErrorEvent, EventOf, EventType

\* Each step keeps the types.
LEMMA ChunkType ==
    ASSUME TypeInv, NEW n \in 1..MaxChunk, NEW k \in 1..n, k < n => faults < MaxFaults,
           Chunk(n, k)
    PROVE  TypeInv'
<1> DEFINE d == DirOf(pos)
           t == Longer(d, k)
<1>1. /\ Call(n) /\ k \in Nat /\ pos + k <= End(conversation) + 1
      /\ conversation' = conversation /\ noise' = noise /\ missing' = missing
      /\ faults' = faults + (IF k < n THEN 1 ELSE 0)
    BY ChunkIs
<1>2. d \in Direction /\ pos' = pos + n /\ pos + n <= End(conversation) + 1 /\ n \in Nat
      /\ pos \in Nat /\ pos >= 1
    BY <1>1, CallIs
<1>3. t \in StreamType(conversation)
    BY <1>1, <1>2, LongerIs
<1>4. pos' \in 1..(End(conversation') + 1)
    BY <1>1, <1>2, EndType DEF TypeInv
<1>5. faults' \in 0..MaxFaults
    BY <1>1, Bounds DEF TypeInv
<1>6. \/ /\ TooLong(t.buffer) /\ owed' = {}
         /\ streams' = [streams EXCEPT ![d] = [t EXCEPT !.buffer = <<>>, !.syncLost = TRUE]]
         /\ events' = Append(events, ErrorEvent(ActiveGroup))
         /\ conn' = conn /\ feeding' = feeding
      \/ /\ ~TooLong(t.buffer)
         /\ owed' = IF missing THEN {} ELSE owed \union Whole(k)
         /\ streams' = [streams EXCEPT ![d] = IF t.syncLost THEN Resync(d, t) ELSE t]
         /\ feeding' = [dir |-> d, truncated |-> (k < n)]
         /\ conn' = conn /\ events' = events
    BY ChunkIs
<1> HIDE DEF d, t
<1>7. CASE /\ TooLong(t.buffer) /\ owed' = {}
           /\ streams' = [streams EXCEPT ![d] = [t EXCEPT !.buffer = <<>>, !.syncLost = TRUE]]
           /\ events' = Append(events, ErrorEvent(ActiveGroup))
           /\ conn' = conn /\ feeding' = feeding
    <2>1. ErrorEvent(ActiveGroup) \in EventType(conversation)
        BY ErrorEventType, GroupsType DEF TypeInv
    <2>2. events' \in Seq(EventType(conversation'))
        BY <2>1, <1>1, <1>7, AppendIs DEF TypeInv
    <2>3. /\ streams' \in [Direction -> StreamType(conversation')]
          /\ \A e \in Direction : Len(streams'[e].buffer) <= MaxBuffer
        BY <1>1, <1>2, <1>3, <1>7, EmptyStream, OneStream
    <2>4. QED
        BY <2>2, <2>3, <1>1, <1>4, <1>5, <1>7 DEF TypeInv
<1>8. CASE /\ ~TooLong(t.buffer)
           /\ owed' = IF missing THEN {} ELSE owed \union Whole(k)
           /\ streams' = [streams EXCEPT ![d] = IF t.syncLost THEN Resync(d, t) ELSE t]
           /\ feeding' = [dir |-> d, truncated |-> (k < n)]
           /\ conn' = conn /\ events' = events
    <2> DEFINE u == IF t.syncLost THEN Resync(d, t) ELSE t
    <2>1. Len(t.buffer) <= MaxBuffer
        <3>1. Len(t.buffer) \in Nat
            BY <1>3, LenProperties DEF StreamType
        <3>2. QED
            BY <3>1, <1>8, Bounds DEF TooLong
    <2>2. Resync(d, t) \in StreamType(conversation) /\ Len(Resync(d, t).buffer) <= Len(t.buffer)
        BY <1>3, ResyncIs, ResyncedShorter DEF Resynced, TypeInv
    <2>3. u \in StreamType(conversation) /\ Len(u.buffer) <= MaxBuffer
        <3>1. Len(t.buffer) \in Nat /\ Len(Resync(d, t).buffer) \in Nat /\ MaxBuffer \in Nat
            BY <1>3, <2>2, LenProperties, Bounds DEF StreamType
        <3>2. QED
            BY <3>1, <2>1, <2>2, <1>3
    <2> HIDE DEF u
    <2>4. streams' = [streams EXCEPT ![d] = u]
        BY <1>8 DEF u
    <2>5. /\ streams' \in [Direction -> StreamType(conversation')]
          /\ \A e \in Direction : Len(streams'[e].buffer) <= MaxBuffer
        BY <2>3, <2>4, <1>1, <1>2, OneStream
    <2>6. feeding' \in FeedingType
        BY <1>2, <1>8 DEF FeedingType
    <2>7. owed' \subseteq DOMAIN conversation'
        BY <1>1, <1>8 DEF TypeInv, Whole
    <2>8. QED
        BY <2>5, <2>6, <2>7, <1>1, <1>4, <1>5, <1>8 DEF TypeInv
<1>9. QED
    BY <1>6, <1>7, <1>8

\* A missing chunk keeps the types.
LEMMA MissingType ==
    ASSUME TypeInv, NEW n \in 1..MaxChunk, MissingChunk(n)
    PROVE  TypeInv'
<1>1. Call(n) /\ faults < MaxFaults /\ missing' = TRUE /\ owed' = {} /\ faults' = faults + 1
      /\ UNCHANGED <<conversation, noise, conn, streams, feeding, events>>
    BY DEF MissingChunk
<1>2. /\ pos' = pos + n /\ pos + n <= End(conversation) + 1 /\ n \in Nat
      /\ pos \in Nat /\ pos >= 1
    BY <1>1, CallIs
<1>3. pos' \in 1..(End(conversation') + 1)
    BY <1>1, <1>2, EndType DEF TypeInv
<1>4. faults' \in 0..MaxFaults
    BY <1>1, Bounds DEF TypeInv
<1>5. QED
    BY <1>1, <1>3, <1>4 DEF TypeInv

\* TakeMessage keeps them.
LEMMA TakeType ==
    ASSUME TypeInv, TakeMessage, UNCHANGED <<conversation, noise, pos, missing, faults>>
    PROVE  TypeInv'
<1>1. Feeding /\ feeding.dir \in Direction /\ Stream.buffer \in Seq(Cell(conversation))
      /\ Stream = streams[feeding.dir] /\ Len(Stream.buffer) \in Nat
    BY FedType, TakeIs
<1>2. Len(StreamAfter.buffer) <= MaxBuffer
    <2>1. Len(Stream.buffer) <= MaxBuffer
        BY <1>1 DEF TypeInv
    <2>2. Len(StreamAfter.buffer) = Len(Stream.buffer) - (Length + 1) + 1
          /\ Length + 1 \in 1..(Len(Stream.buffer) + 1)
        <3>1. Length + 1 \in 1..(Len(Stream.buffer) + 1)
              /\ StreamAfter.buffer = From(Stream.buffer, Length + 1)
            BY TakeIs
        <3>2. QED
            BY <3>1, <1>1, FromIs
    <2>3. QED
        BY <2>1, <2>2, <1>1, Bounds
<1>3. /\ streams' \in [Direction -> StreamType(conversation')]
      /\ \A e \in Direction : Len(streams'[e].buffer) <= MaxBuffer
    BY <1>1, <1>2, TakeIs, OneStream
<1>4. events' \in Seq(EventType(conversation'))
    BY TakeIs, AppendIs DEF TypeInv
<1>5. conn' \in ConnType
    <2>1. GroupsRead \in [group : Group, current : Group \union {NoGroup}, copy : Group \union {NoGroup}]
        BY GroupsType DEF GroupsRead, TypeInv
    <2>2. SessionRead \in {"none", "user"}
        BY DEF SessionRead, TypeInv, ConnType
    <2>3. (conn.startupSeen \/ Starting) \in BOOLEAN
        BY DEF Starting, InStartup, TypeInv, ConnType
    <2>4. conn' = [session |-> SessionRead, startupSeen |-> conn.startupSeen \/ Starting,
                   current |-> GroupsRead.current, copy |-> GroupsRead.copy]
        BY TakeIs
    <2>5. QED
        BY <2>1, <2>2, <2>3, <2>4 DEF ConnType
<1>6. owed' \subseteq DOMAIN conversation' /\ feeding' \in FeedingType
    BY TakeIs DEF TypeInv
<1>7. QED
    BY <1>3, <1>4, <1>5, <1>6 DEF TypeInv

\* FindSync keeps them.
LEMMA FindType ==
    ASSUME TypeInv, FindSync, UNCHANGED <<conversation, noise, pos, missing, faults>>
    PROVE  TypeInv'
<1> DEFINE s == [Stream EXCEPT !.syncLost = TRUE]
<1>1. Feeding /\ feeding.dir \in Direction /\ Stream \in StreamType(conversation)
      /\ Stream = streams[feeding.dir]
    BY FedType, FindIs
<1>2. s \in StreamType(conversation) /\ s.buffer = Stream.buffer
    BY <1>1 DEF StreamType
<1>3. Resynced(feeding.dir, s, Found)
    BY FindIs
<1> HIDE DEF s
<1>4. Found \in StreamType(conversation) /\ Len(Found.buffer) <= Len(s.buffer)
    BY <1>2, <1>3, ResyncedShorter DEF Resynced
<1>5. Len(Found.buffer) <= MaxBuffer
    <2>1. Len(Stream.buffer) <= MaxBuffer
        BY <1>1 DEF TypeInv
    <2>2. Len(Found.buffer) \in Nat /\ Len(Stream.buffer) \in Nat
        BY <1>1, <1>4, LenProperties DEF StreamType
    <2>3. QED
        BY <2>1, <2>2, <1>2, <1>4, Bounds
<1>6. /\ streams' \in [Direction -> StreamType(conversation')]
      /\ \A e \in Direction : Len(streams'[e].buffer) <= MaxBuffer
    <2>1. CASE streams' = [streams EXCEPT ![feeding.dir] = [Found EXCEPT !.buffer = <<>>]]
        BY <2>1, <1>1, <1>4, EmptyStream, OneStream
    <2>2. CASE streams' = [streams EXCEPT ![feeding.dir] = Found]
        BY <2>2, <1>1, <1>4, <1>5, OneStream
    <2>3. QED
        BY <2>1, <2>2, FindIs
<1>7. events' \in Seq(EventType(conversation'))
    <2>1. ASSUME NEW g \in Group, events' = Append(events, ErrorEvent(g))
          PROVE  events' \in Seq(EventType(conversation'))
        BY <2>1, ErrorEventType, AppendIs DEF TypeInv
    <2>2. QED
        BY <2>1, FindIs DEF TypeInv
<1>8. conn' = conn /\ feeding' = feeding /\ owed' = owed
    BY FindIs
<1>9. QED
    BY <1>6, <1>7, <1>8 DEF TypeInv

\* Return keeps them.
LEMMA ReturnType ==
    ASSUME TypeInv, Return, UNCHANGED <<conversation, noise, pos, missing, faults>>
    PROVE  TypeInv'
<1>1. Feeding /\ feeding.dir \in Direction /\ Stream \in StreamType(conversation)
    BY FedType, ReturnIs
<1>2. CASE /\ TruncatedEvent \in EventType(conversation)
           /\ events' = Append(events, TruncatedEvent)
           /\ streams' = [streams EXCEPT ![feeding.dir] = AfterTruncation(Stream)]
    <2>1. /\ streams' \in [Direction -> StreamType(conversation')]
          /\ \A e \in Direction : Len(streams'[e].buffer) <= MaxBuffer
        BY <1>1, <1>2, EmptyStream, OneStream DEF AfterTruncation
    <2>2. events' \in Seq(EventType(conversation'))
        BY <1>2, AppendIs DEF TypeInv
    <2>3. QED
        BY <2>1, <2>2, ReturnIs DEF TypeInv, FeedingType
<1>3. CASE events' = events /\ streams' = streams
    BY <1>3, ReturnIs DEF TypeInv, FeedingType
<1>4. QED
    BY <1>2, <1>3, ReturnIs

\* Every step keeps the types.
LEMMA TypeStep == TypeInv /\ [Next]_vars => TypeInv'
<1> SUFFICES ASSUME TypeInv, [Next]_vars PROVE TypeInv'
    OBVIOUS
<1>1. ASSUME NEW n \in 1..MaxChunk, NEW k \in 1..n, k < n => faults < MaxFaults, Chunk(n, k)
      PROVE  TypeInv'
    BY <1>1, ChunkType
<1>2. ASSUME NEW n \in 1..MaxChunk, MissingChunk(n) PROVE TypeInv'
    BY <1>2, MissingType
<1>3. CASE Parse
    BY <1>3, TakeType, FindType, ReturnType DEF Parse
<1>4. CASE UNCHANGED vars
    BY <1>4 DEF vars, TypeInv
<1>5. QED
    BY <1>1, <1>2, <1>3, <1>4 DEF Next

\* They hold at the start.
LEMMA TypeInit == Init => TypeInv
<1> SUFFICES ASSUME Init PROVE TypeInv
    OBVIOUS
<1>1. conversation \in Conversations /\ noise \in BOOLEAN /\ pos \in 1..End(conversation)
    BY DEF Init
<1>2. End(conversation) \in Nat
    BY <1>1, EndType
<1>3. NoStream \in StreamType(conversation) /\ NoStream.buffer = <<>>
    BY EmptySeq DEF NoStream, StreamType
<1>4. streams \in [Direction -> StreamType(conversation)]
      /\ \A d \in Direction : streams[d].buffer = <<>>
    BY <1>3 DEF Init
<1>5. Len(<<>>) <= MaxBuffer
    BY EmptySeq, Bounds
<1>6. \A d \in Direction : Len(streams[d].buffer) <= MaxBuffer
    BY <1>4, <1>5
<1>7. faults \in 0..MaxFaults
    <2>1. faults = 0 \/ faults = 1
        BY DEF Init
    <2>2. 0 \in 0..MaxFaults /\ 1 \in 0..MaxFaults
        BY Bounds
    <2>3. QED
        BY <2>1, <2>2
<1>8. events \in Seq(EventType(conversation)) /\ missing \in BOOLEAN /\ feeding \in FeedingType
    BY EmptySeq DEF Init, FeedingType
<1>9. conn \in ConnType
    BY DEF Init, ConnType
<1>10. pos \in 1..(End(conversation) + 1) /\ owed \subseteq DOMAIN conversation
    <2>1. pos \in 1..(End(conversation) + 1)
        BY <1>1, <1>2
    <2>2. QED
        BY <2>1 DEF Init
<1>11. QED
    BY <1>1, <1>4, <1>6, <1>7, <1>8, <1>9, <1>10 DEF TypeInv

(* The types of the parser's state, with the buffers within the limit      *)
(* and every cell in them one of the conversation (parser.go, Feed).       *)
THEOREM TypesHold == Spec => []TypeInv
<1>1. QED
    BY TypeInit, TypeStep, PTL DEF Spec

(* The variables have their types, and no direction keeps more bytes than  *)
(* maxBufferedBytes (parser.go, Feed).                                     *)
THEOREM TypeCorrect == Spec => []TypeOK
<1>1. QED
    BY TypesHold, TypeInvOK, PTL

-----------------------------------------------------------------------------
(* Where the parser is, when no chunk is missing                           *)

\* Only the first message is a startup packet, and it is the client's.
LEMMA OneStartup ==
    ASSUME conversation \in Conversations, StartsOnce
    PROVE  /\ \A m \in DOMAIN conversation : conversation[m].type \in Startups => m = 1
           /\ conversation[1].type = "Startup" /\ conversation[1].dir = "client"
           /\ TypeOf(1) = "Startup" /\ 1 \in DOMAIN conversation /\ conversation[1].at = 1
<1>1. 1 \in DOMAIN conversation /\ conversation[1].at = 1
    BY MessageOrder
<1>2. conversation[1].type \in Startups
    BY ProtocolAssumption
<1>3. \A m \in DOMAIN conversation : /\ conversation[m].type # "SSLRequest"
                                     /\ conversation[m].type = "Startup" => m = 1
    BY DEF StartsOnce, TypeOf
<1>4. conversation[1].type = "Startup"
    BY <1>1, <1>2, <1>3 DEF Startups
<1>5. conversation[1].dir = "client"
    BY <1>1, <1>4, ProtocolAssumption DEF ClientTypes, Startups
<1>6. QED
    BY <1>1, <1>3, <1>4, <1>5 DEF Startups, TypeOf

\* What holds of the empty buffer.
LEMMA EmptyTracked ==
    ASSUME NEW c, NEW d, NEW s, s.buffer = <<>>, NEW f, NEW evs, NEW p
    PROVE  Tracked(c, d, s, f, evs, p)
<1>1. DOMAIN s.buffer = {} /\ Len(s.buffer) = 0
    BY EmptySeq
<1>2. Fits(c, s.buffer, d, p) /\ Steady(c, s.buffer) /\ Ahead(c, s.buffer, evs)
      /\ StartupFirst(d, s) /\ NoStart(c, s.buffer)
    BY <1>1 DEF Fits, Steady, Ahead, StartupFirst, NoStart
<1>3. Caught(c, s.buffer, p) /\ Partial(c, s.buffer)
    BY <1>1 DEF Caught, Partial
<1>4. QED
    BY <1>2, <1>3 DEF Tracked

\* An event that is appended: one of no message, or of one later than the others.
LEMMA OrderAppend ==
    ASSUME NEW c \in Conversations, NEW evs \in Seq(EventType(c)), NEW e \in EventType(c),
           NEW p \in Nat, InOrder(c, evs, p), e.made \in {"whole", "cut", "error"},
           e.m # 0 => /\ e.m \in DOMAIN c /\ c[e.m].at < p
                      /\ \A j \in DOMAIN evs : evs[j].m < e.m
    PROVE  InOrder(c, Append(evs, e), p)
<1> DEFINE t == Append(evs, e)
<1>1. /\ Len(evs) \in Nat /\ DOMAIN evs = 1..Len(evs) /\ DOMAIN t = 1..(Len(evs) + 1)
      /\ \A i \in 1..Len(evs) : t[i] = evs[i]
      /\ t[Len(evs) + 1] = e
    BY AppendIs
<1> HIDE DEF t
<1>2. ASSUME NEW i \in DOMAIN t
      PROVE  /\ t[i].made \in {"whole", "cut", "error"}
             /\ t[i].m # 0 => /\ t[i].m \in DOMAIN c /\ c[t[i].m].at < p
                              /\ \A j \in 1..(i - 1) : t[j].m < t[i].m
    <2>1. CASE i \in 1..Len(evs)
        <3>1. \A j \in 1..(i - 1) : j \in 1..Len(evs)
            BY <1>1, <2>1
        <3>2. QED
            BY <3>1, <2>1, <1>1 DEF InOrder
    <2>2. CASE i = Len(evs) + 1
        <3>1. \A j \in 1..(i - 1) : j \in 1..Len(evs)
            BY <1>1, <2>2
        <3>2. t[i] = e
            BY <2>2, <1>1
        <3>3. QED
            BY <3>1, <3>2, <1>1
    <2>3. QED
        BY <2>1, <2>2, <1>1
<1>3. QED
    BY <1>2 DEF InOrder, t

\* An event of a message before those in the buffer changes nothing about them.
LEMMA AheadAppend ==
    ASSUME NEW c \in Conversations, NEW b, NEW evs \in Seq(EventType(c)),
           NEW e \in EventType(c), Ahead(c, b, evs),
           \A i \in DOMAIN b : \A m \in DOMAIN c : b[i] = c[m].at => e.m < m
    PROVE  Ahead(c, b, Append(evs, e))
<1> DEFINE t == Append(evs, e)
<1>1. /\ Len(evs) \in Nat /\ DOMAIN evs = 1..Len(evs) /\ DOMAIN t = 1..(Len(evs) + 1)
      /\ \A i \in 1..Len(evs) : t[i] = evs[i]
      /\ t[Len(evs) + 1] = e
    BY AppendIs
<1> HIDE DEF t
<1>2. \A j \in DOMAIN t : j \in 1..Len(evs) \/ j = Len(evs) + 1
    BY <1>1
<1>3. \A j \in DOMAIN t : (j \in DOMAIN evs /\ t[j] = evs[j]) \/ t[j] = e
    BY <1>1, <1>2
<1>4. QED
    BY <1>3 DEF Ahead, t

\* Events with no message before those of the buffer.
LEMMA AheadOfNone ==
    ASSUME NEW c \in Conversations, NEW b, NEW evs \in Seq(EventType(c)),
           NEW e \in EventType(c), Ahead(c, b, evs), e.m = 0
    PROVE  Ahead(c, b, Append(evs, e))
<1>1. \A m \in DOMAIN c : e.m < m
    BY MessageType
<1>2. QED
    BY <1>1, AheadAppend

\* Later, the events are in order still.
LEMMA OrderLater ==
    ASSUME NEW c \in Conversations, NEW evs, NEW p \in Nat, NEW q \in Nat, p <= q,
           InOrder(c, evs, p)
    PROVE  InOrder(c, evs, q)
<1>1. \A m \in DOMAIN c : c[m].at < p => c[m].at < q
    BY MessageType
<1>2. QED
    BY <1>1 DEF InOrder

\* When the other side is fed, a stream holds the end of a message and no beginning.
LEMMA OtherSide ==
    ASSUME NEW c \in Conversations, NEW d, NEW e, d # e, NEW s \in StreamType(c), NEW evs,
           NEW p \in Nat, NEW q \in Nat, p < q, p >= 1, Tracked(c, e, s, NoChunk, evs, p),
           OnSide(c, p, d), e # "none"
    PROVE  /\ Fits(c, s.buffer, e, q) /\ Caught(c, s.buffer, q) /\ NoStart(c, s.buffer)
<1> DEFINE b == s.buffer
           l == Len(b)
<1>1. b \in Seq(Cell(c)) /\ l \in Nat /\ DOMAIN b = 1..l /\ End(c) \in Nat
    BY LenProperties, EndType DEF StreamType
<1>2. Fits(c, b, e, p) /\ Steady(c, b) /\ Caught(c, b, p) /\ Partial(c, b)
    BY DEF Tracked, NoChunk
<1> HIDE DEF b
<1>3. b # <<>> => l \in DOMAIN b
    BY <1>1, EmptySeq
<1>4. \A i \in DOMAIN b : b[i] \in 1..End(c) /\ b[i] \in Nat /\ b[i] < p
    BY <1>1, <1>2 DEF Fits, Cell
<1>5. Fits(c, b, e, q)
    BY <1>2, <1>4 DEF Fits
<1> HIDE DEF l
<1>6. ASSUME b # <<>>
      PROVE  \E m \in DOMAIN c : Follows(c, m) = b[l] + 1 /\ Holds(c, m, b[l])
    <2>1. CASE \E m \in DOMAIN c : Follows(c, m) = b[l] + 1
        <3>1. PICK m \in DOMAIN c : Follows(c, m) = b[l] + 1
            BY <2>1
        <3>2. Holds(c, m, b[l])
            BY <3>1, <1>3, <1>4, <1>6, MessageType DEF Holds
        <3>3. QED
            BY <3>1, <3>2
    <2>2. CASE b[l] = p - 1
        <3>1. PICK m \in DOMAIN c : Holds(c, m, b[l])
            BY <1>3, <1>4, <1>6, HasHolder
        <3>2. c[m].dir = e
            BY <3>1, <1>2, <1>3, <1>6 DEF Fits
        <3>3. PICK n \in DOMAIN c : Holds(c, n, p) /\ c[n].dir = d
            BY DEF OnSide
        <3>4. ~Holds(c, m, p)
            BY <3>2, <3>3, OneHolder
        <3>5. c[m].at <= p - 1 /\ p - 1 < Follows(c, m) /\ ~ (c[m].at <= p /\ p < Follows(c, m))
            BY <3>1, <3>4, <2>2 DEF Holds
        <3>6. Follows(c, m) = b[l] + 1
            BY <3>5, <2>2, MessageType
        <3>7. QED
            BY <3>1, <3>6
    <2>3. QED
        BY <2>1, <2>2, <1>2, <1>6 DEF Caught, l
<1>7. Caught(c, b, q)
    BY <1>6 DEF Caught, l
<1>8. ASSUME NEW i \in DOMAIN b, NEW n \in DOMAIN c, b[i] = c[n].at
      PROVE  FALSE
    <2>1. b # <<>> /\ i \in 1..l /\ l \in 1..l
        BY <1>1, <1>3, <1>8, EmptySeq DEF l
    <2>2. PICK m \in DOMAIN c : Follows(c, m) = b[l] + 1 /\ Holds(c, m, b[l])
        BY <2>1, <1>6
    <2>3. CASE l >= 2
        <3>1. PICK o \in DOMAIN c : b[1] = c[o].at /\ l < c[o].size
            BY <2>3, <1>2 DEF Partial, l
        <3>2. 1 \in DOMAIN b /\ l \in DOMAIN b /\ l - 1 < c[o].size
            BY SMTT(30), <2>1, <2>3, <3>1, <1>1, MessageType DEF l
        <3>3. b[l] = c[o].at + (l - 1)
            BY <3>1, <3>2, <2>3, <1>1, <1>2, SteadyInside
        <3>4. Holds(c, o, b[l]) /\ b[l] + 1 < Follows(c, o)
            BY SMTT(30), <3>1, <3>3, <2>1, <2>3, MessageType DEF Holds
        <3>5. m = o
            BY <3>4, <2>2, <1>3, <1>4, <2>1, OneHolder
        <3>6. QED
            BY <3>4, <3>5, <2>2, MessageType
    <2>4. CASE l < 2
        <3>1. i = l
            BY <2>1, <2>4
        <3>2. Holds(c, n, b[l]) /\ b[l] + 1 < Follows(c, n)
            BY <3>1, <1>8, HoldsStart, MessageType
        <3>3. m = n
            BY <3>2, <2>2, <1>3, <1>4, <2>1, OneHolder
        <3>4. QED
            BY <3>2, <3>3, <2>2, MessageType
    <2>5. QED
        BY <2>1, <2>3, <2>4
<1>9. NoStart(c, b)
    BY <1>8 DEF NoStart
<1>10. QED
    BY <1>5, <1>7, <1>9 DEF b
\* Without noise nothing is read where there is no header.
LEMMA NoNoise ==
    ASSUME ~noise, NEW b, NEW i, MessageAt(b, i) = 0
    PROVE  RegularLength(b, i) = 0 /\ KnownCode(b, i) = FALSE /\ (i = 1 => StartupLength(b) = 0)
BY DEF RegularLength, KnownCode, StartupLength, NoiseLength

\* A message that is there whole is found.
LEMMA WholeStarts ==
    ASSUME conversation \in Conversations, NEW b \in Seq(Cell(conversation)),
           Steady(conversation, b), NEW m \in DOMAIN conversation,
           NEW i \in DOMAIN b, b[i] = conversation[m].at,
           i + conversation[m].size - 1 <= Len(b), conversation[m].type \notin Startups,
           ~Unlisted(m)
    PROVE  i \in MessageStarts(b)
<1>1. Len(b) \in Nat /\ DOMAIN b = 1..Len(b)
    BY LenProperties
<1>2. conversation[m].size \in Nat /\ conversation[m].size >= 2 /\ m \in Nat /\ m >= 1
    BY MessageType
<1>3. i \in 1..(Len(b) - 1) /\ i + 1 \in DOMAIN b
    BY <1>1, <1>2
<1>4. b[i + 1] = b[i] + 1
    <2>1. (i + 1) - i = 1 /\ i <= i + 1 /\ 1 < conversation[m].size
        BY <1>1, <1>2
    <2>2. b[i + 1] = conversation[m].at + 1
        BY <2>1, <1>3, SteadyInside
    <2>3. QED
        BY <2>2
<1>5. MessageAt(b, i) = m
    BY <1>3, <1>4, HeaderIs
<1>6. KnownCode(b, i) /\ RegularLength(b, i) = conversation[m].size
    BY <1>2, <1>5 DEF KnownCode, RegularLength, TypeOf, Size
<1>7. i - 1 + conversation[m].size <= Len(b)
    BY <1>1, <1>2
<1>8. QED
    BY <1>2, <1>3, <1>6, <1>7 DEF MessageStarts

\* It is in what is left from a place that is not after it.
LEMMA WholeFrom ==
    ASSUME NEW c \in Conversations, NEW b \in Seq(Cell(c)), NEW m \in DOMAIN c,
           NEW k \in 1..(Len(b) + 1), NEW i \in DOMAIN b, b[i] = c[m].at,
           i + c[m].size - 1 <= Len(b), k <= i
    PROVE  HasWhole(c, From(b, k), m)
<1>1. Len(b) \in Nat /\ DOMAIN b = 1..Len(b) /\ c[m].size \in Nat
    BY LenProperties, MessageType
<1>2. /\ From(b, k) \in Seq(Cell(c)) /\ Len(From(b, k)) = Len(b) - k + 1
      /\ \A j \in 1..(Len(b) - k + 1) : From(b, k)[j] = b[k + j - 1]
    BY FromIs
<1>3. DOMAIN From(b, k) = 1..(Len(b) - k + 1)
    BY <1>2, LenProperties
<1>4. i - k + 1 \in 1..(Len(b) - k + 1) /\ k + (i - k + 1) - 1 = i
      /\ (i - k + 1) + c[m].size - 1 <= Len(b) - k + 1
    BY SMTT(30), <1>1
<1>5. From(b, k)[i - k + 1] = c[m].at
    BY <1>2, <1>4
<1>6. QED
    BY <1>2, <1>3, <1>4, <1>5 DEF HasWhole

\* And the search keeps it.
LEMMA WholeFound ==
    ASSUME conversation \in Conversations, NEW d, NEW s \in StreamType(conversation), NEW r,
           Resynced(d, s, r), Steady(conversation, s.buffer), NEW m \in DOMAIN conversation,
           HasWhole(conversation, s.buffer, m), conversation[m].type \notin Startups,
           ~Unlisted(m)
    PROVE  HasWhole(conversation, r.buffer, m) /\ r.syncLost = FALSE
<1> DEFINE b == s.buffer
<1>1. b \in Seq(Cell(conversation)) /\ Len(b) \in Nat /\ DOMAIN b = 1..Len(b)
    BY LenProperties DEF StreamType
<1>2. PICK i \in DOMAIN b : b[i] = conversation[m].at
                            /\ i + conversation[m].size - 1 <= Len(b)
    BY DEF HasWhole
<1>3. i \in MessageStarts(b)
    BY <1>1, <1>2, WholeStarts
<1>4. PICK k \in 1..(Len(b) + 1) :
          /\ r.buffer = From(b, k)
          /\ \/ k = 1 /\ r.syncLost = FALSE
             \/ (\A j \in MessageStarts(b) : k <= j) /\ r.syncLost = FALSE
             \/ MessageStarts(b) = {}
    BY DEF Resynced
<1> HIDE DEF b
<1>5. k <= i /\ r.syncLost = FALSE
    BY <1>1, <1>2, <1>3, <1>4
<1>6. HasWhole(conversation, From(b, k), m)
    BY <1>1, <1>2, <1>5, WholeFrom
<1>7. QED
    BY <1>4, <1>5, <1>6

\* What is read at the beginning of the stream that is fed.
LEMMA LengthSays ==
    ASSUME TypeInv, Trusted, Feeding, HasHeader, Steady(conversation, Stream.buffer),
           StartupFirst(feeding.dir, Stream)
    PROVE  /\ Length # 0 => /\ First \in DOMAIN conversation /\ First # 0
                            /\ Stream.buffer[1] = conversation[First].at
                            /\ Length = conversation[First].size
                            /\ Readable(First, Starting)
                            /\ Starting \/ TypeOf(First) \notin Startups
           /\ Stream.buffer[1] = 1 => Length # 0
<1> DEFINE b == Stream.buffer
<1>1. b \in Seq(Cell(conversation)) /\ Len(b) \in Nat /\ DOMAIN b = 1..Len(b)
      /\ 1 \in 1..(Len(b) - 1) /\ conversation \in Conversations
    BY FedType DEF TypeInv
<1>2. /\ First # 0 => First \in DOMAIN conversation /\ b[1] = conversation[First].at
      /\ \A m \in DOMAIN conversation :
            b[1] = conversation[m].at /\ b[2] = b[1] + 1 => First = m
    BY <1>1, HeaderIs DEF First
<1>3. StartsOnce /\ ~noise
    BY DEF Trusted
<1>4. First = 0 => Length = 0
    BY <1>3, NoNoise DEF Length, HeaderLength, First
<1>5. Length = IF Starting THEN StartupLength(b) ELSE RegularLength(b, 1)
    BY DEF Length, HeaderLength, Starting
<1>6. b[1] = 1 => Starting
    BY <1>1 DEF StartupFirst, Starting
<1>7. First # 0 /\ TypeOf(First) \in Startups => Starting
    BY <1>2, <1>3, <1>6, <1>1, OneStartup DEF TypeOf
<1>8. First # 0 => Length = IF Starting
                            THEN IF TypeOf(First) \in Startups THEN Size(First) ELSE 0
                            ELSE IF TypeOf(First) \in Startups THEN Swallow ELSE Size(First)
    BY <1>5 DEF StartupLength, RegularLength, First
<1>9. Length # 0 => /\ First \in DOMAIN conversation /\ First # 0
                    /\ b[1] = conversation[First].at
                    /\ Length = conversation[First].size
                    /\ Readable(First, Starting)
                    /\ Starting \/ TypeOf(First) \notin Startups
    BY <1>2, <1>4, <1>7, <1>8 DEF Readable, Size, TypeOf
<1>10. b[1] = 1 => Length # 0
    <2>1. SUFFICES ASSUME b[1] = 1 PROVE Length # 0
        OBVIOUS
    <2>2. 1 \in DOMAIN conversation /\ conversation[1].at = 1 /\ TypeOf(1) = "Startup"
          /\ conversation[1].size \in Nat /\ conversation[1].size >= 2
        BY <1>1, <1>3, OneStartup, MessageType
    <2>3. 1 \in DOMAIN b /\ 2 \in DOMAIN b /\ 2 - 1 < conversation[1].size
        BY <1>1, <2>2
    <2>4. b[2] = b[1] + 1
        <3>1. Steady(conversation, b)
            OBVIOUS
        <3> HIDE DEF b
        <3>2. IF 2 - 1 < conversation[1].size THEN b[2] = conversation[1].at + (2 - 1)
                                              ELSE b[2] >= Follows(conversation, 1)
            BY <2>1, <2>2, <2>3, <3>1, <1>1, SteadyInside
        <3>3. QED
            BY <2>1, <2>2, <2>3, <3>2
    <2>5. First = 1
        BY <2>1, <2>2, <2>4, <1>2
    <2>6. Starting
        BY <2>1, <1>6
    <2>7. QED
        BY <2>2, <2>5, <2>6, <1>8 DEF Startups, Size
<1>11. QED
    BY <1>9, <1>10

\* A connection that can be trusted after a step could be trusted before it.
LEMMA TrustedBefore ==
    ASSUME conversation' = conversation, noise' = noise, missing' = missing, Trusted'
    PROVE  Trusted
BY DEF Trusted, StartsOnce, TypeOf

\* The stream of the other side, when a chunk came and events with it.
LEMMA OtherTracked ==
    ASSUME NEW c \in Conversations, NEW d, NEW e, d # e, NEW s \in StreamType(c), NEW evs,
           NEW p \in Nat, NEW q \in Nat, p < q, p >= 1, Tracked(c, e, s, NoChunk, evs, p),
           OnSide(c, p, d), e # "none", NEW f, NEW new
    PROVE  Tracked(c, e, s, f, new, q)
<1>1. Fits(c, s.buffer, e, q) /\ Caught(c, s.buffer, q) /\ NoStart(c, s.buffer)
    BY OtherSide
<1>2. Steady(c, s.buffer) /\ StartupFirst(e, s) /\ Partial(c, s.buffer)
      /\ (~s.made => s.buffer = <<>>)
    BY DEF Tracked, NoChunk
<1>3. Ahead(c, s.buffer, new)
    BY <1>1 DEF NoStart, Ahead
<1>4. QED
    BY <1>1, <1>2, <1>3 DEF Tracked

\* The messages of a chunk are in the buffer whole.
LEMMA ChunkWhole ==
    ASSUME TypeInv, NEW b \in Seq(Cell(conversation)), NEW k \in Nat,
           pos + k <= End(conversation) + 1, NEW m \in Whole(k)
    PROVE  HasWhole(conversation, b \o Run(pos, k), m)
<1> DEFINE t == b \o Run(pos, k)
           i == Len(b) + conversation[m].at - pos + 1
<1>1. /\ conversation \in Conversations /\ pos \in Nat /\ pos >= 1 /\ Len(b) \in Nat
      /\ m \in DOMAIN conversation
      /\ conversation[m].at >= pos /\ Follows(conversation, m) <= pos + k
    BY LenProperties DEF TypeInv, Whole
<1>2. /\ conversation[m].at \in Nat /\ conversation[m].size \in Nat /\ conversation[m].size >= 2
      /\ Follows(conversation, m) = conversation[m].at + conversation[m].size
    BY <1>1, MessageType
<1>3. /\ t \in Seq(Cell(conversation)) /\ Len(t) = Len(b) + k
      /\ \A j \in (Len(b) + 1)..(Len(b) + k) : t[j] = pos + (j - Len(b)) - 1
    BY SMTT(30), <1>1, ConcatIs
<1> DEFINE l == Len(b)
           x == conversation[m].at
           z == conversation[m].size
<1>4. i \in (l + 1)..(l + k) /\ i \in 1..Len(t) /\ pos + (i - l) - 1 = x /\ i + z - 1 <= Len(t)
    <2>1. /\ l \in Nat /\ pos \in Nat /\ x \in Nat /\ z \in Nat /\ z >= 2 /\ x >= pos
          /\ x + z <= pos + k /\ i = l + x - pos + 1 /\ Len(t) = l + k
        BY <1>1, <1>2, <1>3
    <2> HIDE DEF l, x, z, t, i
    <2>2. QED
        BY <2>1
<1> HIDE DEF t, i
<1>5. t[i] = conversation[m].at /\ i \in DOMAIN t
    <2>1. DOMAIN t = 1..Len(t)
        BY <1>3, LenProperties
    <2>2. QED
        BY <2>1, <1>3, <1>4
<1>6. QED
    BY <1>4, <1>5 DEF HasWhole, t

\* What is known of the stream that a chunk is appended to.
LEMMA LongerTracked ==
    ASSUME TypeInv, TrackInv, Trusted, NEW n \in 1..MaxChunk, Call(n), NEW k \in Nat,
           k <= n
    PROVE  LET d == DirOf(pos)
               t == Longer(d, k)
           IN  /\ Fits(conversation, t.buffer, d, pos + n) /\ Steady(conversation, t.buffer)
               /\ Ahead(conversation, t.buffer, events) /\ StartupFirst(d, t)
               /\ k = n => Caught(conversation, t.buffer, pos + n)
<1> DEFINE d == DirOf(pos)
           s == StreamFor(d)
           t == Longer(d, k)
<1>1. /\ ~Feeding /\ n \in Nat /\ n >= 1 /\ pos \in Nat /\ pos >= 1 /\ d \in Direction
      /\ pos + n <= End(conversation) + 1 /\ OnSide(conversation, pos, d)
      /\ \A q \in pos..(pos + n - 1) : \A m \in DOMAIN conversation :
            Holds(conversation, m, q) => conversation[m].dir = d
    BY CallIs
<1>2. conversation \in Conversations /\ End(conversation) \in Nat
    BY EndType DEF TypeInv
<1>3. feeding = NoChunk
    BY <1>1 DEF Feeding
<1>4. /\ Tracked(conversation, d, streams[d], NoChunk, events, pos)
      /\ pos = 1 => streams = [e \in Direction |-> NoStream] /\ ~conn.startupSeen
      /\ InOrder(conversation, events, pos)
    BY <1>1, <1>3 DEF TrackInv
<1>5. pos + k <= End(conversation) + 1
    BY <1>1, <1>2
<1>6. /\ s \in StreamType(conversation)
      /\ streams[d].made => s = streams[d]
      /\ ~streams[d].made => s.buffer = <<>> /\ s.syncLost = FALSE
                             /\ s.startupDone = (d = "server" \/ conn.startupSeen)
    BY <1>1, StreamForType
<1>7. /\ t.buffer = s.buffer \o Run(pos, k)
      /\ t.startupDone = s.startupDone /\ t.syncLost = s.syncLost
    BY <1>1, <1>5, LongerIs
<1> HIDE DEF t, s
<1>8. Tracked(conversation, d, s, NoChunk, events, pos)
    BY <1>4, <1>6, EmptyTracked
<1>9. /\ s.buffer \in Seq(Cell(conversation)) /\ Fits(conversation, s.buffer, d, pos)
      /\ Steady(conversation, s.buffer) /\ Ahead(conversation, s.buffer, events)
      /\ Caught(conversation, s.buffer, pos) /\ StartupFirst(d, s)
    <2>1. d # "none"
        BY <1>1 DEF Direction
    <2>2. QED
        BY <2>1, <1>6, <1>8 DEF Tracked, NoChunk, StreamType
<1>10. \A i \in DOMAIN events : events[i].m \in Nat
    <2>1. events \in Seq(EventType(conversation)) /\ Len(conversation) \in Nat
        BY <1>2, MessageType DEF TypeInv
    <2>2. \A i \in DOMAIN events : events[i] \in EventType(conversation)
        BY <2>1, LenProperties
    <2>3. QED
        BY <2>1, <2>2 DEF EventType
<1> HIDE DEF d
<1>11. /\ Fits(conversation, t.buffer, d, pos + n) /\ Steady(conversation, t.buffer)
       /\ Ahead(conversation, t.buffer, events)
       /\ k = n => Caught(conversation, t.buffer, pos + n)
    <2> DEFINE b == s.buffer
               c == conversation
               p == pos
               evs == events
    <2>1. /\ c \in Conversations /\ b \in Seq(Cell(c)) /\ p \in Nat /\ p >= 1 /\ n \in Nat
          /\ k <= n /\ p + n <= End(c) + 1 /\ Fits(c, b, d, p) /\ Steady(c, b)
          /\ Ahead(c, b, evs) /\ Caught(c, b, p) /\ InOrder(c, evs, p)
        BY <1>1, <1>2, <1>4, <1>9
    <2>2. \A i \in DOMAIN evs : evs[i].m \in Nat
        BY <1>10
    <2>3. \A q \in p..(p + n - 1) : \A m \in DOMAIN c : Holds(c, m, q) => c[m].dir = d
        BY <1>1
    <2>4. t.buffer = b \o Run(p, k)
        BY <1>7
    <2> HIDE DEF b, c, p, evs
    <2>5. /\ Fits(c, b \o Run(p, k), d, p + n) /\ Steady(c, b \o Run(p, k))
          /\ Ahead(c, b \o Run(p, k), evs)
          /\ k = n => Caught(c, b \o Run(p, k), p + n)
        BY <2>1, <2>2, <2>3, ConcatKeeps
    <2>6. QED
        BY <2>4, <2>5 DEF c, p, evs
<1>12. ASSUME NEW i \in DOMAIN t.buffer, t.buffer[i] = 1
       PROVE  i = 1 /\ InStartup(d, t) /\ ~t.syncLost
    <2> DEFINE l == Len(s.buffer)
    <2>1. /\ l \in Nat /\ DOMAIN s.buffer = 1..l /\ DOMAIN t.buffer = 1..(l + k)
          /\ \A j \in 1..l : t.buffer[j] = s.buffer[j]
          /\ \A j \in (l + 1)..(l + k) : t.buffer[j] = pos + (j - l) - 1
        <3> DEFINE b == s.buffer
        <3>1. b \in Seq(Cell(conversation)) /\ t.buffer = b \o Run(pos, k)
              /\ pos \in Nat /\ pos >= 1 /\ k \in Nat /\ conversation \in Conversations
            BY <1>1, <1>2, <1>7, <1>9
        <3> HIDE DEF b
        <3>2. /\ b \o Run(pos, k) \in Seq(Cell(conversation))
              /\ Len(b \o Run(pos, k)) = Len(b) + k
              /\ \A j \in 1..Len(b) : (b \o Run(pos, k))[j] = b[j]
              /\ \A j \in (Len(b) + 1)..(Len(b) + k) :
                    (b \o Run(pos, k))[j] = pos + (j - Len(b)) - 1
            BY ONLY SMTT(30), <3>1, <1>5, ConcatIs
        <3>3. DOMAIN b = 1..Len(b) /\ Len(b) \in Nat
            BY <3>1, LenProperties
        <3>4. DOMAIN t.buffer = 1..Len(t.buffer)
            BY <3>1, <3>2, LenProperties
        <3>5. QED
            BY <3>1, <3>2, <3>3, <3>4 DEF b
    <2> HIDE DEF l
    <2>2. CASE i \in 1..l
        <3>1. i = 1 /\ InStartup(d, s) /\ ~s.syncLost
            BY <2>1, <2>2, <1>9, <1>12 DEF StartupFirst
        <3>2. QED
            BY <3>1, <1>7 DEF InStartup
    <2>3. CASE i \in (l + 1)..(l + k)
        <3>1. pos = 1 /\ i = l + 1
            BY <2>1, <2>3, <1>1, <1>12
        <3>2. ~streams[d].made /\ ~conn.startupSeen
            BY <3>1, <1>1, <1>4 DEF NoStream
        <3>3. l = 0
            BY <3>2, <1>6, EmptySeq DEF l
        <3>4. d = "client"
            <4>1. 1 \in DOMAIN conversation /\ Holds(conversation, 1, 1)
                  /\ conversation[1].dir = "client"
                BY <1>2, OneStartup, HoldsStart DEF Trusted
            <4>2. 1 \in pos..(pos + n - 1)
                BY <3>1, <1>1
            <4>3. QED
                BY <4>1, <4>2, <1>1
        <3>5. s.startupDone = FALSE /\ s.syncLost = FALSE
            BY <3>2, <3>4, <1>6
        <3>6. QED
            BY <3>1, <3>3, <3>4, <3>5, <1>7 DEF InStartup
    <2>4. i \in 1..l \/ i \in (l + 1)..(l + k)
        BY <2>1, <1>12
    <2>5. QED
        BY <2>2, <2>3, <2>4
<1>13. StartupFirst(d, t)
    BY <1>12 DEF StartupFirst
<1>14. QED
    BY <1>11, <1>13 DEF t, d

\* The search keeps what is known of a buffer that no startup packet begins in.
LEMMA ResyncedTracked ==
    ASSUME conversation \in Conversations, NEW d, NEW s \in StreamType(conversation), NEW r,
           Resynced(d, s, r), NEW p, NEW evs, Fits(conversation, s.buffer, d, p),
           Steady(conversation, s.buffer), Ahead(conversation, s.buffer, evs),
           \A i \in DOMAIN s.buffer : s.buffer[i] # 1
    PROVE  /\ Fits(conversation, r.buffer, d, p) /\ Steady(conversation, r.buffer)
           /\ Ahead(conversation, r.buffer, evs) /\ StartupFirst(d, r)
           /\ Caught(conversation, s.buffer, p) => Caught(conversation, r.buffer, p)
<1> DEFINE b == s.buffer
<1>1. b \in Seq(Cell(conversation)) /\ Len(b) \in Nat /\ DOMAIN b = 1..Len(b)
    BY LenProperties DEF StreamType
<1>2. PICK k \in 1..(Len(b) + 1) : r.buffer = From(b, k)
    BY DEF Resynced
<1>3. /\ From(b, k) \in Seq(Cell(conversation)) /\ Len(From(b, k)) = Len(b) - k + 1
      /\ \A i \in 1..(Len(b) - k + 1) : From(b, k)[i] = b[k + i - 1]
    BY <1>1, FromIs
<1>4. DOMAIN From(b, k) = 1..(Len(b) - k + 1)
    BY <1>3, LenProperties
<1>5. \A i \in 1..(Len(b) - k + 1) : k + i - 1 \in DOMAIN b
    BY <1>1
<1>6. \A i \in DOMAIN r.buffer : r.buffer[i] # 1
    BY <1>2, <1>3, <1>4, <1>5
<1>7. StartupFirst(d, r)
    BY <1>6 DEF StartupFirst
<1>8. Fits(conversation, b, d, p) /\ Steady(conversation, b) /\ Ahead(conversation, b, evs)
    OBVIOUS
<1> HIDE DEF b
<1>9. /\ Fits(conversation, From(b, k), d, p) /\ Steady(conversation, From(b, k))
      /\ Ahead(conversation, From(b, k), evs)
      /\ Caught(conversation, b, p) => Caught(conversation, From(b, k), p)
    BY <1>1, <1>8, FromKeeps
<1>10. QED
    BY <1>2, <1>7, <1>9 DEF b

\* What the invariant says between calls.
LEMMA BetweenCalls ==
    ASSUME TypeInv, TrackInv, Trusted, ~Feeding
    PROVE  /\ feeding = NoChunk /\ Due = {} /\ InOrder(conversation, events, pos)
           /\ \A d \in Direction :
                 Tracked(conversation, d, streams[d], NoChunk, events, pos)
BY DEF Feeding, TrackInv

\* Chunk keeps the invariant.
LEMMA ChunkTracks ==
    ASSUME TypeInv, TrackInv, NEW n \in 1..MaxChunk, NEW k \in 1..n, Chunk(n, k)
    PROVE  TrackInv'
<1> SUFFICES ASSUME Trusted'
             PROVE  /\ \A e \in Direction :
                          Tracked(conversation', e, streams'[e], feeding', events', pos')
                    /\ pos' # 1
                    /\ InOrder(conversation', events', pos')
                    /\ \A m \in Due' :
                          Feeding' /\ HasWhole(conversation', streams'[feeding'.dir].buffer, m)
    BY DEF TrackInv
<1> DEFINE d == DirOf(pos)
           t == Longer(d, k)
<1>1. /\ Call(n) /\ k \in Nat /\ k >= 1 /\ k <= n /\ pos + k <= End(conversation) + 1
      /\ conversation' = conversation /\ noise' = noise /\ missing' = missing
    BY ChunkIs
<1>2. Trusted /\ conversation \in Conversations
    BY <1>1, TrustedBefore DEF TypeInv
<1>3. /\ ~Feeding /\ n \in Nat /\ n >= 1 /\ pos \in Nat /\ pos >= 1 /\ d \in Direction
      /\ pos + n <= End(conversation) + 1 /\ pos' = pos + n
      /\ OnSide(conversation, pos, d)
    BY <1>1, CallIs
<1>4. /\ Due = {} /\ InOrder(conversation, events, pos)
      /\ \A e \in Direction : Tracked(conversation, e, streams[e], NoChunk, events, pos)
    BY <1>2, <1>3, BetweenCalls
<1>5. t \in StreamType(conversation) /\ t.made = TRUE
      /\ t.buffer = StreamFor(d).buffer \o Run(pos, k)
    BY <1>1, <1>3, LongerIs
<1>6. /\ Fits(conversation, t.buffer, d, pos + n) /\ Steady(conversation, t.buffer)
      /\ Ahead(conversation, t.buffer, events) /\ StartupFirst(d, t)
      /\ k = n => Caught(conversation, t.buffer, pos + n)
    BY <1>1, <1>2, LongerTracked
<1>7. \A m \in Whole(k) : HasWhole(conversation, t.buffer, m)
    <2>1. StreamFor(d).buffer \in Seq(Cell(conversation))
        BY <1>3, StreamForType DEF StreamType
    <2>2. QED
        BY <2>1, <1>1, <1>5, ChunkWhole
<1>8. ASSUME NEW e \in Direction, e # d, NEW f, NEW new
      PROVE  Tracked(conversation, e, streams[e], f, new, pos')
    <2>1. streams[e] \in StreamType(conversation) /\ e # "none"
        BY DEF TypeInv, Direction
    <2>2. pos < pos' /\ pos' \in Nat
        BY <1>3
    <2>3. QED
        BY <2>1, <2>2, <1>2, <1>3, <1>4, <1>8, OtherTracked
<1>9. pos' # 1 /\ InOrder(conversation, events, pos') /\ pos' \in Nat
    <2>1. pos' \in Nat /\ pos <= pos' /\ pos' # 1
        BY <1>3
    <2>2. QED
        BY <2>1, <1>2, <1>3, <1>4, OrderLater
<1>10. \/ /\ owed' = {}
          /\ streams' = [streams EXCEPT ![d] = [t EXCEPT !.buffer = <<>>, !.syncLost = TRUE]]
          /\ events' = Append(events, ErrorEvent(ActiveGroup))
       \/ /\ owed' = IF missing THEN {} ELSE owed \union Whole(k)
          /\ streams' = [streams EXCEPT ![d] = IF t.syncLost THEN Resync(d, t) ELSE t]
          /\ feeding' = [dir |-> d, truncated |-> (k < n)]
          /\ events' = events
    BY ChunkIs
<1> HIDE DEF d, t
<1>11. CASE /\ owed' = {}
            /\ streams' = [streams EXCEPT ![d] = [t EXCEPT !.buffer = <<>>, !.syncLost = TRUE]]
            /\ events' = Append(events, ErrorEvent(ActiveGroup))
    <2>1. ErrorEvent(ActiveGroup) \in EventType(conversation)
          /\ ErrorEvent(ActiveGroup).m = 0 /\ ErrorEvent(ActiveGroup).made = "error"
        BY ErrorEventType, GroupsType DEF TypeInv
    <2>2. InOrder(conversation, events', pos')
        BY <2>1, <1>2, <1>9, <1>11, OrderAppend DEF TypeInv
    <2>3. streams'[d].buffer = <<>> /\ \A e \in Direction : e # d => streams'[e] = streams[e]
        BY <1>3, <1>5, <1>11, EmptyStream DEF TypeInv
    <2>4. Tracked(conversation, d, streams'[d], feeding', events', pos')
        BY <2>3, EmptyTracked
    <2>5. \A e \in Direction : Tracked(conversation, e, streams'[e], feeding', events', pos')
        BY <2>3, <2>4, <1>8
    <2>6. Due' = {}
        BY <1>11 DEF Due
    <2>7. QED
        BY <2>2, <2>5, <2>6, <1>1, <1>9, <1>11
<1>12. CASE /\ owed' = IF missing THEN {} ELSE owed \union Whole(k)
            /\ streams' = [streams EXCEPT ![d] = IF t.syncLost THEN Resync(d, t) ELSE t]
            /\ feeding' = [dir |-> d, truncated |-> (k < n)]
            /\ events' = events
    <2> DEFINE u == IF t.syncLost THEN Resync(d, t) ELSE t
    <2>1. Resynced(d, t, Resync(d, t))
        BY <1>2, <1>5, ResyncIs
    <2>2. t.syncLost => \A i \in DOMAIN t.buffer : t.buffer[i] # 1
        BY <1>6 DEF StartupFirst
    <2>3. /\ Fits(conversation, u.buffer, d, pos') /\ Steady(conversation, u.buffer)
          /\ Ahead(conversation, u.buffer, events) /\ StartupFirst(d, u)
          /\ k = n => Caught(conversation, u.buffer, pos')
        BY <2>1, <2>2, <1>2, <1>3, <1>5, <1>6, ResyncedTracked
    <2>4. u.made = TRUE
        BY <2>1, <1>5 DEF Resynced, StreamType
    <2>5. \A m \in Whole(k) : ~Unlisted(m) => HasWhole(conversation, u.buffer, m)
        <3>1. ASSUME NEW m \in Whole(k), ~Unlisted(m), t.syncLost
              PROVE  HasWhole(conversation, Resync(d, t).buffer, m)
            <4>1. m \in DOMAIN conversation /\ HasWhole(conversation, t.buffer, m)
                BY <1>7 DEF Whole
            <4>2. conversation[m].at # 1
                BY <4>1, <2>2, <3>1 DEF HasWhole
            <4>3. conversation[m].type \notin Startups
                BY <4>1, <4>2, <1>2, OneStartup DEF Trusted
            <4>4. QED
                BY <3>1, <4>1, <4>3, <2>1, <1>2, <1>5, <1>6, WholeFound
        <3>2. QED
            BY <3>1, <1>7
    <2> HIDE DEF u
    <2>6. streams'[d] = u /\ \A e \in Direction : e # d => streams'[e] = streams[e]
        BY <1>3, <1>12 DEF TypeInv, u
    <2>7. Tracked(conversation, d, u, feeding', events', pos')
        <3>1. ~ (d = feeding'.dir /\ feeding'.truncated) => k = n
            <4>1. k < n => d = feeding'.dir /\ feeding'.truncated
                BY <1>12
            <4>2. k < n \/ k = n
                BY <1>1, <1>3
            <4>3. QED
                BY <4>1, <4>2
        <3>2. feeding'.dir = d /\ events' = events
            BY <1>12
        <3>3. QED
            BY <3>1, <3>2, <2>3, <2>4 DEF Tracked
    <2>8. \A e \in Direction : Tracked(conversation, e, streams'[e], feeding', events', pos')
        BY <2>6, <2>7, <1>8
    <2>9. Due' \subseteq Whole(k) /\ \A m \in Due' : ~Unlisted(m)
        <3>1. \A m : Unlisted(m)' <=> Unlisted(m)
            BY <1>1 DEF Unlisted, TypeOf
        <3>2. QED
            BY <3>1, <1>4, <1>12 DEF Due
    <2>10. Feeding' /\ feeding'.dir = d
        <3>1. d # "none"
            BY <1>3 DEF Direction
        <3>2. feeding'.dir = d
            BY <1>12
        <3>3. QED
            BY <3>1, <3>2 DEF Feeding, NoChunk
    <2>11. QED
        BY <2>5, <2>6, <2>8, <2>9, <2>10, <1>1, <1>9, <1>12
<1>13. QED
    BY <1>10, <1>11, <1>12

\* MissingChunk ends what the invariant is about.
LEMMA MissingTracks ==
    ASSUME NEW n, MissingChunk(n)
    PROVE  TrackInv'
BY DEF MissingChunk, TrackInv, Trusted

\* What it says when a chunk is parsed.
LEMMA FedTracked ==
    ASSUME TypeInv, TrackInv, Trusted, Feeding
    PROVE  /\ Fits(conversation, Stream.buffer, feeding.dir, pos)
           /\ Steady(conversation, Stream.buffer) /\ Ahead(conversation, Stream.buffer, events)
           /\ StartupFirst(feeding.dir, Stream)
           /\ ~feeding.truncated => Caught(conversation, Stream.buffer, pos)
           /\ Stream.buffer # <<>> => Stream.made
           /\ pos # 1 /\ InOrder(conversation, events, pos)
           /\ \A m \in Due : HasWhole(conversation, Stream.buffer, m)
           /\ \A e \in Direction : e # feeding.dir =>
                 \A f, new : Tracked(conversation, e, streams[e], f, new, pos)
<1>1. feeding.dir \in Direction /\ Stream = streams[feeding.dir]
    BY FedType
<1>2. \A e \in Direction : Tracked(conversation, e, streams[e], feeding, events, pos)
    BY DEF TrackInv
<1>3. Tracked(conversation, feeding.dir, Stream, feeding, events, pos)
    BY <1>1, <1>2
<1>4. ASSUME NEW e \in Direction, e # feeding.dir, NEW f, NEW new
      PROVE  Tracked(conversation, e, streams[e], f, new, pos)
    <2>1. /\ Fits(conversation, streams[e].buffer, e, pos)
          /\ Steady(conversation, streams[e].buffer)
          /\ StartupFirst(e, streams[e]) /\ Caught(conversation, streams[e].buffer, pos)
          /\ Partial(conversation, streams[e].buffer) /\ NoStart(conversation, streams[e].buffer)
          /\ ~streams[e].made => streams[e].buffer = <<>>
        BY <1>2, <1>4 DEF Tracked, Feeding
    <2>2. Ahead(conversation, streams[e].buffer, new)
        BY <2>1 DEF NoStart, Ahead
    <2>3. QED
        BY <2>1, <2>2 DEF Tracked
<1>5. pos # 1 /\ InOrder(conversation, events, pos)
      /\ \A m \in Due : HasWhole(conversation, Stream.buffer, m)
    BY <1>1 DEF TrackInv
<1>6. QED
    BY <1>3, <1>4, <1>5 DEF Tracked

\* TakeMessage keeps the invariant.
LEMMA TakeTracks ==
    ASSUME TypeInv, TrackInv, TakeMessage,
           UNCHANGED <<conversation, noise, pos, missing, faults>>
    PROVE  TrackInv'
<1> SUFFICES ASSUME Trusted'
             PROVE  /\ \A e \in Direction :
                          Tracked(conversation', e, streams'[e], feeding', events', pos')
                    /\ pos' # 1
                    /\ InOrder(conversation', events', pos')
                    /\ \A m \in Due' :
                          Feeding' /\ HasWhole(conversation', streams'[feeding'.dir].buffer, m)
    BY DEF TrackInv
<1> DEFINE d == feeding.dir
           b == Stream.buffer
           c == conversation
           n == Length
           rest == From(b, n + 1)
<1>1. Trusted /\ Feeding /\ HasHeader /\ c \in Conversations
    BY TrustedBefore, TakeIs DEF TypeInv
<1>2. /\ d \in Direction /\ Stream \in StreamType(c) /\ b \in Seq(Cell(c)) /\ Len(b) \in Nat
      /\ DOMAIN b = 1..Len(b) /\ Stream = streams[d] /\ 1 \in DOMAIN b /\ b # <<>>
    <2>1. /\ d \in Direction /\ Stream \in StreamType(c) /\ b \in Seq(Cell(c)) /\ Len(b) \in Nat
          /\ DOMAIN b = 1..Len(b) /\ Stream = streams[d] /\ 1 \in 1..(Len(b) - 1)
        BY <1>1, FedType
    <2>2. 1 \in DOMAIN b
        BY <2>1
    <2>3. QED
        BY <2>1, <2>2, EmptySeq
<1>3. /\ Fits(c, b, d, pos) /\ Steady(c, b) /\ Ahead(c, b, events)
      /\ StartupFirst(d, Stream) /\ Stream.made
      /\ ~feeding.truncated => Caught(c, b, pos)
      /\ pos # 1 /\ InOrder(c, events, pos)
      /\ \A m \in Due : HasWhole(c, b, m)
      /\ \A e \in Direction : e # d =>
            \A f, new : Tracked(c, e, streams[e], f, new, pos)
    BY <1>1, <1>2, FedTracked
<1>4. n \in Nat /\ n >= 1 /\ n <= Len(b) /\ n + 1 \in 1..(Len(b) + 1)
    BY <1>1, TakeIs, FedType
<1>5. /\ First \in DOMAIN c /\ First # 0 /\ b[1] = c[First].at /\ n = c[First].size
      /\ Readable(First, Starting) /\ First \in Nat /\ c[First].at \in Nat /\ c[First].at >= 1
    <2>1. n # 0
        BY <1>4
    <2>2. /\ First \in DOMAIN c /\ First # 0 /\ b[1] = c[First].at /\ n = c[First].size
          /\ Readable(First, Starting)
        BY <2>1, <1>1, <1>3, LengthSays
    <2>3. QED
        BY <2>2, <1>1, MessageType
<1>6. \A i \in 1..n : b[i] = c[First].at + (i - 1)
    <2>1. ASSUME NEW i \in 1..n PROVE b[i] = c[First].at + (i - 1)
        <3>1. i \in DOMAIN b /\ 1 <= i /\ i - 1 < c[First].size
            BY <1>2, <1>4, <1>5
        <3>2. IF i - 1 < c[First].size THEN b[i] = c[First].at + (i - 1)
                                       ELSE b[i] >= Follows(c, First)
            BY <3>1, <1>1, <1>2, <1>3, <1>5, SteadyInside
        <3>3. QED
            BY <3>1, <3>2
    <2>2. QED
        BY <2>1
<1>7. Made = "whole"
    <2> DEFINE t == SubSeq(b, 1, n)
    <2>1. \A i \in 1..n : b[i] \in Cell(c)
        BY <1>2, <1>4, LenProperties
    <2>2. t \in Seq(Cell(c)) /\ Len(t) = n /\ \A i \in 1..n : t[i] = b[i]
        <3>1. /\ t \in Seq(Cell(c)) /\ Len(t) = IF 1 <= n THEN n - 1 + 1 ELSE 0
              /\ \A i \in 1..(n - 1 + 1) : t[i] = b[1 + i - 1]
            BY <2>1, <1>4, SubSeqProperties
        <3>2. n - 1 + 1 = n /\ 1 <= n /\ \A i \in 1..n : 1 + i - 1 = i
            BY <1>4
        <3>3. QED
            BY <3>1, <3>2
    <2> HIDE DEF t
    <2>3. \A i \in 1..n : t[i] = c[First].at + i - 1
        BY <2>2, <1>4, <1>5, <1>6
    <2>4. t = Run(c[First].at, n)
        <3> DEFINE x == c[First].at
        <3>1. x \in Int /\ \A i \in 1..n : t[i] = x + i - 1
            BY <2>3, <1>5
        <3> HIDE DEF x
        <3>2. t = Run(x, n)
            BY <3>1, <2>2, <1>4, SameRun
        <3>3. QED
            BY <3>2 DEF x
    <2>5. t = CellsOf(First)
        BY <2>4, <1>5 DEF CellsOf, Size
    <2>6. QED
        BY <2>5, <1>5 DEF Made, t
<1>8. /\ rest \in Seq(Cell(c)) /\ Len(rest) = Len(b) - n
      /\ \A i \in DOMAIN rest : n + i \in DOMAIN b /\ 1 < n + i /\ rest[i] = b[n + i]
    <2>1. /\ rest \in Seq(Cell(c)) /\ Len(rest) = Len(b) - (n + 1) + 1
          /\ \A i \in 1..(Len(b) - (n + 1) + 1) : rest[i] = b[(n + 1) + i - 1]
        BY <1>2, <1>4, FromIs
    <2>2. DOMAIN rest = 1..Len(rest)
        BY <2>1, LenProperties
    <2> HIDE DEF rest
    <2>3. \A i \in DOMAIN rest : n + i \in DOMAIN b /\ 1 < n + i /\ (n + 1) + i - 1 = n + i
        <3> DEFINE l == Len(b)
        <3>1. l \in Nat /\ n \in Nat /\ n >= 1 /\ DOMAIN b = 1..l
              /\ DOMAIN rest = 1..(l - (n + 1) + 1)
            BY <2>1, <2>2, <1>2, <1>4
        <3> HIDE DEF l, n, b
        <3>2. QED
            BY <3>1
    <2>4. Len(b) - (n + 1) + 1 = Len(b) - n
        BY <1>2, <1>4
    <2>5. QED
        BY <2>1, <2>2, <2>3, <2>4
<1>9. \A i \in DOMAIN rest : c[First].at < rest[i]
    <2>1. \A j \in DOMAIN b : 1 < j => b[1] < b[j]
        BY <1>1, <1>2, <1>3, SteadyGrows
    <2>2. QED
        BY <2>1, <1>5, <1>8
<1>10. /\ Fits(c, rest, d, pos) /\ Steady(c, rest) /\ Ahead(c, rest, events)
       /\ Caught(c, b, pos) => Caught(c, rest, pos)
    BY <1>1, <1>2, <1>3, <1>4, FromKeeps
<1>11. /\ EventRead \in EventType(c) /\ EventRead.m = First /\ EventRead.made = "whole"
       /\ events' = Append(events, EventRead) /\ owed' = owed \ {First} /\ feeding' = feeding
       /\ streams' = [streams EXCEPT ![d] = StreamAfter]
       /\ StreamAfter.made = Stream.made /\ StreamAfter.buffer = rest
    BY <1>7, TakeIs DEF EventRead, EventOf
<1>12. events \in Seq(EventType(c)) /\ pos \in Nat
    BY <1>1, EndType DEF TypeInv
<1> HIDE DEF d, b, c, n, rest
<1>13. Ahead(c, rest, events')
    <2>1. \A i \in DOMAIN rest : \A m \in DOMAIN c : rest[i] = c[m].at => First < m
        BY <1>1, <1>5, <1>9, StartOrder
    <2>2. QED
        BY <2>1, <1>1, <1>10, <1>11, <1>12, AheadAppend
<1>14. InOrder(c, events', pos)
    <2>1. c[First].at < pos
        BY <1>2, <1>3, <1>5 DEF Fits
    <2>2. \A j \in DOMAIN events : events[j].m < First
        BY <1>2, <1>3, <1>5 DEF Ahead
    <2>3. QED
        BY <2>1, <2>2, <1>1, <1>3, <1>5, <1>11, <1>12, OrderAppend
<1>15. StartupFirst(d, StreamAfter)
    <2>1. \A i \in DOMAIN rest : rest[i] # 1
        BY <1>5, <1>9
    <2>2. QED
        BY <2>1, <1>11 DEF StartupFirst
<1>16. streams'[d] = StreamAfter /\ \A e \in Direction : e # d => streams'[e] = streams[e]
    BY <1>2, <1>11 DEF TypeInv
<1>17. Tracked(c, d, StreamAfter, feeding, events', pos)
    BY <1>3, <1>10, <1>11, <1>13, <1>15 DEF Tracked, d
<1>18. \A e \in Direction : Tracked(c, e, streams'[e], feeding, events', pos)
    BY <1>3, <1>16, <1>17
<1>19. ASSUME NEW m \in Due' PROVE HasWhole(c, rest, m)
    <2>1. m \in Due /\ m # First /\ m \in DOMAIN c
        BY <1>11, <1>19 DEF TypeInv, Due, Unlisted, TypeOf, c
    <2>2. PICK i \in DOMAIN b : b[i] = c[m].at /\ i + c[m].size - 1 <= Len(b)
        BY <2>1, <1>3 DEF HasWhole
    <2>3. i \in Nat /\ i >= 1
        BY <2>2, <1>2
    <2>4. CASE i <= n
        <3>1. i \in 1..n
            BY <2>3, <2>4, <1>4
        <3>2. b[i] = c[First].at + (i - 1)
            BY <3>1, <1>6
        <3>3. Holds(c, First, b[i]) /\ b[i] \in Int
            <4>1. Follows(c, First) = c[First].at + n
                BY <1>1, <1>5, MessageType
            <4>2. QED
                BY SMTT(30), <4>1, <3>1, <3>2, <1>4, <1>5 DEF Holds
        <3>4. Holds(c, m, b[i])
            BY <2>1, <2>2, <1>1, HoldsStart
        <3>5. QED
            BY <3>3, <3>4, <2>1, <1>1, <1>5, OneHolder
    <2>5. CASE ~ (i <= n)
        <3>1. n + 1 <= i
            BY <2>3, <2>5, <1>4
        <3>2. HasWhole(c, From(b, n + 1), m)
            BY <3>1, <2>1, <2>2, <1>1, <1>2, <1>4, WholeFrom
        <3>3. QED
            BY <3>2 DEF rest
    <2>6. QED
        BY <2>4, <2>5
<1>20. QED
    BY <1>1, <1>3, <1>11, <1>14, <1>16, <1>18, <1>19 DEF Feeding, d, c

\* FindSync keeps the invariant.
LEMMA FindTracks ==
    ASSUME TypeInv, TrackInv, FindSync,
           UNCHANGED <<conversation, noise, pos, missing, faults>>
    PROVE  TrackInv'
<1> SUFFICES ASSUME Trusted'
             PROVE  /\ \A e \in Direction :
                          Tracked(conversation', e, streams'[e], feeding', events', pos')
                    /\ pos' # 1
                    /\ InOrder(conversation', events', pos')
                    /\ \A m \in Due' :
                          Feeding' /\ HasWhole(conversation', streams'[feeding'.dir].buffer, m)
    BY DEF TrackInv
<1> DEFINE d == feeding.dir
           s == [Stream EXCEPT !.syncLost = TRUE]
           b == Stream.buffer
           c == conversation
<1>1. Trusted /\ Feeding /\ HasHeader /\ Length = 0 /\ c \in Conversations
    BY TrustedBefore, FindIs DEF TypeInv
<1>2. /\ d \in Direction /\ Stream \in StreamType(c) /\ b \in Seq(Cell(c))
      /\ DOMAIN b = 1..Len(b) /\ Stream = streams[d] /\ b # <<>> /\ 1 \in DOMAIN b
    <2>1. /\ d \in Direction /\ Stream \in StreamType(c) /\ b \in Seq(Cell(c)) /\ Len(b) \in Nat
          /\ DOMAIN b = 1..Len(b) /\ Stream = streams[d] /\ 1 \in 1..(Len(b) - 1)
        BY <1>1, FedType
    <2>2. 1 \in DOMAIN b
        BY <2>1
    <2>3. QED
        BY <2>1, <2>2, EmptySeq
<1>3. /\ Fits(c, b, d, pos) /\ Steady(c, b) /\ Ahead(c, b, events)
      /\ StartupFirst(d, Stream) /\ Stream.made
      /\ ~feeding.truncated => Caught(c, b, pos)
      /\ pos # 1 /\ InOrder(c, events, pos)
      /\ \A m \in Due : HasWhole(c, b, m)
      /\ \A e \in Direction : e # d =>
            \A f, new : Tracked(c, e, streams[e], f, new, pos)
    BY <1>1, <1>2, FedTracked
<1>4. \A i \in DOMAIN b : b[i] # 1
    <2>1. b[1] # 1
        BY <1>1, <1>3, LengthSays
    <2>2. QED
        BY <2>1, <1>3 DEF StartupFirst
<1>5. /\ s \in StreamType(c) /\ s.buffer = b /\ s.made = Stream.made
      /\ Resynced(d, s, Found)
    BY <1>2, FindIs DEF StreamType
<1>6. \/ /\ Found.syncLost
         /\ streams' = [streams EXCEPT ![d] = [Found EXCEPT !.buffer = <<>>]]
         /\ \E g \in Group : events' = Append(events, ErrorEvent(g))
      \/ /\ ~Found.syncLost
         /\ streams' = [streams EXCEPT ![d] = Found]
         /\ events' = events
    BY FindIs
<1>7. feeding' = feeding /\ Due' = Due
    BY FindIs DEF Due, Unlisted, TypeOf
<1> HIDE DEF d, s, b, c
<1>8. /\ Fits(c, Found.buffer, d, pos) /\ Steady(c, Found.buffer)
      /\ Ahead(c, Found.buffer, events) /\ StartupFirst(d, Found)
      /\ Caught(c, b, pos) => Caught(c, Found.buffer, pos)
    <2>1. c \in Conversations /\ \A i \in DOMAIN s.buffer : s.buffer[i] # 1
        BY <1>1, <1>4, <1>5
    <2>2. Fits(c, s.buffer, d, pos) /\ Steady(c, s.buffer) /\ Ahead(c, s.buffer, events)
        BY <1>3, <1>5
    <2>3. QED
        BY <2>1, <2>2, <1>5, ResyncedTracked DEF c
<1>9. Found \in StreamType(c) /\ Found.made
    BY <1>3, <1>5 DEF Resynced, c
<1>10. \A m \in Due : HasWhole(c, Found.buffer, m) /\ Found.syncLost = FALSE
    <2>1. ASSUME NEW m \in Due PROVE HasWhole(c, Found.buffer, m) /\ Found.syncLost = FALSE
        <3>1. m \in DOMAIN c /\ HasWhole(c, b, m) /\ ~Unlisted(m)
            BY <1>3 DEF TypeInv, Due, c
        <3>2. c[m].at # 1
            BY <3>1, <1>4 DEF HasWhole
        <3>3. c[m].type \notin Startups
            BY <3>1, <3>2, <1>1, OneStartup DEF Trusted, c
        <3>4. QED
            BY <3>1, <3>3, <1>1, <1>3, <1>5, WholeFound DEF c
    <2>2. QED
        BY <2>1
<1>11. CASE /\ Found.syncLost
            /\ streams' = [streams EXCEPT ![d] = [Found EXCEPT !.buffer = <<>>]]
            /\ \E g \in Group : events' = Append(events, ErrorEvent(g))
    <2>1. Due' = {}
        BY <1>7, <1>10, <1>11
    <2>2. PICK g \in Group : events' = Append(events, ErrorEvent(g))
        BY <1>11
    <2>3. ErrorEvent(g) \in EventType(c) /\ ErrorEvent(g).m = 0
          /\ ErrorEvent(g).made = "error"
        BY ErrorEventType DEF c
    <2>4. pos \in Nat /\ events \in Seq(EventType(c))
        BY <1>1, EndType DEF TypeInv, c
    <2>5. InOrder(c, events', pos)
        BY <2>2, <2>3, <2>4, <1>1, <1>3, OrderAppend
    <2>6. streams'[d].buffer = <<>> /\ \A e \in Direction : e # d => streams'[e] = streams[e]
        BY <1>2, <1>9, <1>11 DEF TypeInv, StreamType
    <2>7. Tracked(c, d, streams'[d], feeding, events', pos)
        BY <2>6, EmptyTracked
    <2>8. \A e \in Direction : Tracked(c, e, streams'[e], feeding, events', pos)
        BY <2>6, <2>7, <1>3
    <2>9. QED
        BY <2>1, <2>5, <2>8, <1>3, <1>7 DEF c
<1>12. CASE /\ ~Found.syncLost
            /\ streams' = [streams EXCEPT ![d] = Found]
            /\ events' = events
    <2>1. streams'[d] = Found /\ \A e \in Direction : e # d => streams'[e] = streams[e]
        BY <1>2, <1>12 DEF TypeInv
    <2>2. Tracked(c, d, Found, feeding, events, pos)
        BY <1>3, <1>8, <1>9 DEF Tracked, d
    <2>3. \A e \in Direction : Tracked(c, e, streams'[e], feeding, events', pos)
        BY <2>1, <2>2, <1>3, <1>12
    <2>4. \A m \in Due' : Feeding' /\ HasWhole(c, streams'[d].buffer, m)
        BY <2>1, <1>1, <1>7, <1>10 DEF Feeding
    <2>5. QED
        BY <2>3, <2>4, <1>3, <1>7, <1>12 DEF c, d
<1>13. QED
    BY <1>6, <1>11, <1>12

\* When nothing is left to parse, the buffer is a piece of a message, and no message
\* that was captured in one chunk is in it.
LEMMA NothingLeft ==
    ASSUME TypeInv, Trusted, Feeding, ~Complete, ~Invalid,
           Steady(conversation, Stream.buffer), StartupFirst(feeding.dir, Stream)
    PROVE  /\ Partial(conversation, Stream.buffer)
           /\ \A m \in DOMAIN conversation : ~HasWhole(conversation, Stream.buffer, m)
<1> DEFINE b == Stream.buffer
           c == conversation
           l == Len(b)
<1>1. b \in Seq(Cell(c)) /\ l \in Nat /\ DOMAIN b = 1..l /\ c \in Conversations
    BY FedType DEF TypeInv
<1>2. ASSUME l >= 2
      PROVE  First \in DOMAIN c /\ b[1] = c[First].at /\ l < c[First].size
    <2>1. HasHeader
        BY <1>2 DEF HasHeader
    <2>2. Length \in Nat /\ Length # 0
        BY <2>1, FedType DEF Invalid
    <2>3. First \in DOMAIN c /\ b[1] = c[First].at /\ Length = c[First].size
        BY <2>1, <2>2, LengthSays
    <2>4. ~ (l >= Length)
        BY <2>1, <2>2 DEF Complete
    <2>5. QED
        BY <2>2, <2>3, <2>4, <1>1
<1>3. Partial(c, b)
    BY <1>2 DEF Partial
<1>4. Steady(c, b)
    OBVIOUS
<1> HIDE DEF b, c, l
<1>5. ASSUME NEW m \in DOMAIN c, NEW i \in DOMAIN b, b[i] = c[m].at, i + c[m].size - 1 <= l
      PROVE  FALSE
    <2>1. c[m].size \in Nat /\ c[m].size >= 2 /\ c[m].at \in Int /\ i \in 1..l
        BY <1>1, <1>5, MessageType
    <2>2. l >= 2
        BY <2>1, <1>1, <1>5
    <2>3. First \in DOMAIN c /\ b[1] = c[First].at /\ l < c[First].size
        BY <1>2, <2>2
    <2>4. c[First].size \in Nat /\ c[First].at \in Nat
          /\ Follows(c, First) = c[First].at + c[First].size
        BY <2>3, <1>1, MessageType
    <2>5. 1 \in DOMAIN b /\ 1 <= i /\ i - 1 < c[First].size
        BY <2>1, <2>2, <2>3, <2>4, <1>1
    <2>6. b[i] = c[First].at + (i - 1)
        BY <2>3, <2>5, <1>1, <1>4, SteadyInside
    <2>7. Holds(c, First, b[i])
        BY <2>1, <2>4, <2>5, <2>6 DEF Holds
    <2>8. Holds(c, m, b[i]) /\ b[i] \in Int
        BY <2>1, <1>1, <1>5, HoldsStart
    <2>9. m = First
        BY <2>3, <2>7, <2>8, <1>1, OneHolder
    <2>10. i = 1
        BY <2>1, <2>4, <2>6, <2>9, <1>5
    <2>11. QED
        BY <2>1, <2>3, <2>9, <2>10, <1>1, <1>5
<1>6. \A m \in DOMAIN c : ~HasWhole(c, b, m)
    BY <1>5 DEF HasWhole, l
<1>7. QED
    BY <1>3, <1>6 DEF b, c

\* Return keeps the invariant.
LEMMA ReturnTracks ==
    ASSUME TypeInv, TrackInv, Return,
           UNCHANGED <<conversation, noise, pos, missing, faults>>
    PROVE  TrackInv'
<1> SUFFICES ASSUME Trusted'
             PROVE  /\ \A e \in Direction :
                          Tracked(conversation', e, streams'[e], feeding', events', pos')
                    /\ pos' # 1
                    /\ InOrder(conversation', events', pos')
                    /\ Due' = {}
    BY DEF TrackInv
<1> DEFINE d == feeding.dir
           b == Stream.buffer
           c == conversation
<1>1. /\ Trusted /\ Feeding /\ ~Complete /\ ~Invalid /\ feeding' = NoChunk /\ Due' = Due
      /\ c \in Conversations
    BY TrustedBefore, ReturnIs DEF TypeInv, Due, Unlisted, TypeOf
<1>2. /\ d \in Direction /\ Stream \in StreamType(c) /\ b \in Seq(Cell(c)) /\ Len(b) \in Nat
      /\ DOMAIN b = 1..Len(b) /\ Stream = streams[d] /\ (HasHeader => 1 \in 1..(Len(b) - 1))
    BY <1>1, FedType
<1>3. /\ Fits(c, b, d, pos) /\ Steady(c, b) /\ Ahead(c, b, events)
      /\ StartupFirst(d, Stream) /\ (b # <<>> => Stream.made)
      /\ ~feeding.truncated => Caught(c, b, pos)
      /\ pos # 1 /\ InOrder(c, events, pos)
      /\ \A m \in Due : HasWhole(c, b, m)
      /\ \A e \in Direction : e # d =>
            \A f, new : Tracked(c, e, streams[e], f, new, pos)
    BY <1>1, FedTracked
<1>4. Partial(c, b) /\ Due = {}
    <2>1. Partial(c, b) /\ \A m \in DOMAIN c : ~HasWhole(c, b, m)
        BY <1>1, <1>3, NothingLeft
    <2>2. Due \subseteq DOMAIN c
        BY DEF TypeInv, Due
    <2>3. QED
        BY <2>1, <2>2, <1>3
<1>5. CASE /\ feeding.truncated /\ TruncatedEvent \in EventType(c)
           /\ events' = Append(events, TruncatedEvent)
           /\ streams' = [streams EXCEPT ![d] = AfterTruncation(Stream)]
    <2>1. streams'[d].buffer = <<>> /\ \A e \in Direction : e # d => streams'[e] = streams[e]
        BY <1>2, <1>5, EmptyStream DEF TypeInv, AfterTruncation
    <2>2. \A e \in Direction : Tracked(c, e, streams'[e], feeding', events', pos)
        BY <2>1, <1>3, EmptyTracked
    <2>3. pos \in Nat /\ events \in Seq(EventType(c))
        BY <1>1, EndType DEF TypeInv
    <2>4. /\ TruncatedEvent.made \in {"whole", "cut", "error"}
          /\ TruncatedEvent.m # 0 => /\ TruncatedEvent.m \in DOMAIN c
                                     /\ c[TruncatedEvent.m].at < pos
                                     /\ \A j \in DOMAIN events : events[j].m < TruncatedEvent.m
        <3>1. CASE InStartup(d, Stream) \/ ~HasHeader \/ Length = 0
            <4>1. TruncatedEvent = ErrorEvent(ActiveGroup)
                BY <3>1 DEF TruncatedEvent
            <4>2. QED
                BY <4>1, ErrorEventType, GroupsType DEF TypeInv
        <3>2. CASE ~ (InStartup(d, Stream) \/ ~HasHeader \/ Length = 0)
            <4>1. First \in DOMAIN c /\ First # 0 /\ b[1] = c[First].at
                  /\ TypeOf(First) \notin Startups
                BY <3>2, <1>1, <1>3, LengthSays DEF Starting
            <4>2. TruncatedEvent = EventOf(First, "cut", TruncatedGroup(
                ReadAs(conversation, First), Len(Stream.buffer) > 2), conn.session)
                BY <3>2, <4>1 DEF TruncatedEvent, First
            <4>3. TruncatedEvent.m = First /\ TruncatedEvent.made = "cut"
                BY <4>2 DEF EventOf
            <4>4. 1 \in DOMAIN b
                BY <3>2, <1>2
            <4>5. c[First].at < pos /\ \A j \in DOMAIN events : events[j].m < First
                BY <4>1, <4>4, <1>3 DEF Fits, Ahead
            <4>6. QED
                BY <4>1, <4>3, <4>5
        <3>3. QED
            BY <3>1, <3>2
    <2>5. InOrder(c, events', pos)
        BY <2>3, <2>4, <1>1, <1>3, <1>5, OrderAppend
    <2>6. QED
        BY <2>2, <2>5, <1>1, <1>3, <1>4
<1>6. CASE ~feeding.truncated /\ events' = events /\ streams' = streams
    <2>1. Tracked(c, d, Stream, NoChunk, events, pos)
        <3>1. d # "none"
            BY <1>2 DEF Direction
        <3>2. QED
            BY <3>1, <1>3, <1>4, <1>6 DEF Tracked, NoChunk
    <2>2. \A e \in Direction : Tracked(c, e, streams'[e], feeding', events', pos)
        BY <2>1, <1>1, <1>2, <1>3, <1>6
    <2>3. QED
        BY <2>2, <1>1, <1>3, <1>4, <1>6
<1>7. QED
    BY <1>5, <1>6, ReturnIs

\* So TrackInv holds.
LEMMA TrackStep == TypeInv /\ TrackInv /\ [Next]_vars => TrackInv'
<1> SUFFICES ASSUME TypeInv, TrackInv, [Next]_vars PROVE TrackInv'
    OBVIOUS
<1>1. ASSUME NEW n \in 1..MaxChunk, NEW k \in 1..n, Chunk(n, k) PROVE TrackInv'
    BY <1>1, ChunkTracks
<1>2. ASSUME NEW n \in 1..MaxChunk, MissingChunk(n) PROVE TrackInv'
    BY <1>2, MissingTracks
<1>3. CASE Parse
    BY <1>3, TakeTracks, FindTracks, ReturnTracks DEF Parse
<1>4. CASE UNCHANGED vars
    BY <1>4 DEF vars, TrackInv, Trusted, StartsOnce, TypeOf, Feeding, Due, Unlisted
<1>5. QED
    BY <1>1, <1>2, <1>3, <1>4 DEF Next

\* With empty buffers there is nothing to keep track of.
LEMMA TrackInit == Init => TrackInv
<1> SUFFICES ASSUME Init PROVE TrackInv
    OBVIOUS
<1>1. \A d \in Direction : streams[d].buffer = <<>>
    BY DEF Init, NoStream
<1>2. \A d \in Direction : Tracked(conversation, d, streams[d], feeding, events, pos)
    BY <1>1, EmptyTracked
<1>3. streams = [d \in Direction |-> NoStream] /\ ~conn.startupSeen /\ ~Feeding /\ Due = {}
    BY DEF Init, Feeding, Due
<1>4. InOrder(conversation, events, pos)
    <2>1. events = <<>>
        BY DEF Init
    <2>2. DOMAIN <<>> = {}
        OBVIOUS
    <2>3. QED
        BY <2>1, <2>2 DEF InOrder
<1>5. QED
    BY <1>2, <1>3, <1>4 DEF TrackInv

(* Unless a chunk is missing or the data look like messages, what a buffer *)
(* holds is a piece of its side of the conversation, with gaps only between*)
(* messages, and nothing in it has an event yet (parser.go, Feed,          *)
(* parseBuffered, tryResync).                                              *)
THEOREM ParserKeepsTrack == Spec => []TrackInv
<1>1. QED
    BY TrackInit, TrackStep, TypesHold, PTL DEF Spec

(* Unless a chunk is missing or the data look like messages, every event of*)
(* a message is of that message, and no message has two (parser.go,        *)
(* tryResync).                                                             *)
THEOREM NothingMadeUp == Spec => []NothingIsMadeUp
<1>1. TrackInv => NothingIsMadeUp
    BY DEF TrackInv, NothingIsMadeUp, InOrder, Trusted
<1>2. QED
    BY <1>1, ParserKeepsTrack, PTL

(* A message that was captured in one chunk, with a code that the search   *)
(* knows, has its event when Feed returns (parser.go,                      *)
(* findRegularMessageStart, isKnownMessageCode).                           *)
THEOREM WholeSeen == Spec => []WholeMessagesAreSeen
<1>1. TrackInv => WholeMessagesAreSeen
    BY DEF TrackInv, WholeMessagesAreSeen, Trusted, Due
<1>2. QED
    BY <1>1, ParserKeepsTrack, PTL

-----------------------------------------------------------------------------
(* A connection that was seen whole                                        *)

\* The cell after the first n messages.
LEMMA FrontIs ==
    ASSUME NEW c \in Conversations, NEW n \in 0..Len(c)
    PROVE  /\ n \in Nat /\ Front(c, n) \in Nat /\ Front(c, n) >= 1 /\ Front(c, n) <= End(c) + 1
           /\ n < Len(c) => /\ n + 1 \in DOMAIN c /\ c[n + 1].at = Front(c, n)
                            /\ Front(c, n + 1) = Follows(c, n + 1)
                            /\ Follows(c, n + 1) = Front(c, n) + c[n + 1].size
                            /\ c[n + 1].size \in Nat /\ c[n + 1].size >= 2
                            /\ c[n + 1].dir \in Direction
           /\ Front(c, n) <= End(c) => n < Len(c)
<1>1. /\ Len(c) \in Nat /\ Len(c) >= 1 /\ DOMAIN c = 1..Len(c) /\ End(c) \in Nat
      /\ n \in Nat /\ 1 <= End(c) + 1
    BY MessageType, EndType
<1>2. n # 0 => n \in DOMAIN c /\ Front(c, n) = Follows(c, n)
    BY <1>1 DEF Front
<1>3. n = 0 => Front(c, n) = 1
    BY DEF Front
<1>4. n # 0 => Follows(c, n) \in Nat /\ Follows(c, n) >= 1 /\ Follows(c, n) <= End(c) + 1
    BY <1>2, MessageType, EndType
<1>5. Front(c, n) \in Nat /\ Front(c, n) >= 1 /\ Front(c, n) <= End(c) + 1
    BY <1>1, <1>2, <1>3, <1>4
<1>6. ASSUME n < Len(c)
      PROVE  /\ n + 1 \in DOMAIN c /\ c[n + 1].at = Front(c, n)
             /\ Front(c, n + 1) = Follows(c, n + 1)
             /\ Follows(c, n + 1) = Front(c, n) + c[n + 1].size
             /\ c[n + 1].size \in Nat /\ c[n + 1].size >= 2
             /\ c[n + 1].dir \in Direction
    <2>1. n + 1 \in DOMAIN c /\ n + 1 # 0
        BY <1>1, <1>6
    <2>2. c[n + 1].at = Front(c, n)
        <3>1. CASE n = 0
            BY <3>1, <1>3, MessageOrder
        <3>2. CASE n # 0
            BY <3>2, <2>1, <1>2, MessageOrder
        <3>3. QED
            BY <3>1, <3>2
    <2>3. QED
        BY <2>1, <2>2, MessageType DEF Front
<1>7. Front(c, n) <= End(c) => n < Len(c)
    <2>1. n = Len(c) => Front(c, n) = Follows(c, Len(c)) /\ Follows(c, Len(c)) \in Nat
        BY <1>1, <1>2, <1>4
    <2>2. n = Len(c) => ~ (Front(c, n) <= End(c))
        BY <2>1 DEF End
    <2>3. n = Len(c) \/ n < Len(c)
        <3> DEFINE l == Len(c)
        <3>1. l \in Nat /\ n \in 0..l
            BY <1>1
        <3> HIDE DEF l
        <3>2. n = l \/ n < l
            BY <3>1
        <3>3. QED
            BY <3>2 DEF l
    <2>4. QED
        BY <2>2, <2>3
<1>8. QED
    BY <1>1, <1>5, <1>6, <1>7

\* Nothing is left when no cell is.
LEMMA EmptyRun == ASSUME NEW p PROVE Run(p, 0) = <<>>
<1>1. [i \in 1..0 |-> p + i - 1] = <<>>
    OBVIOUS
<1>2. QED
    BY <1>1 DEF Run

\* A cell is of one side.
LEMMA OneSide ==
    ASSUME NEW c \in Conversations, NEW p \in Int, NEW d, NEW e, OnSide(c, p, d),
           OnSide(c, p, e)
    PROVE  d = e
BY OneHolder DEF OnSide

\* The side of a message's cells.
LEMMA SideOf ==
    ASSUME NEW c \in Conversations, NEW m \in DOMAIN c, NEW p \in Int, Holds(c, m, p), NEW d
    PROVE  OnSide(c, p, d) <=> c[m].dir = d
BY OneHolder DEF OnSide

\* What the invariant says of the messages that were parsed.
LEMMA CleanAt ==
    ASSUME TypeInv, CleanInv, Clean, NEW n, n = Len(events)
    PROVE  /\ conversation \in Conversations /\ n \in 0..Len(conversation) /\ n \in Nat
           /\ pos \in Nat /\ pos <= End(conversation) + 1 /\ End(conversation) \in Nat
           /\ Front(conversation, n) \in Nat /\ Front(conversation, n) >= 1
           /\ Front(conversation, n) <= pos
           /\ Front(conversation, n) < pos => n < Len(conversation)
<1>1. conversation \in Conversations /\ events \in Seq(EventType(conversation))
      /\ pos \in 1..(End(conversation) + 1)
    BY DEF TypeInv
<1>2. n \in Nat /\ End(conversation) \in Nat /\ Len(conversation) \in Nat
    BY <1>1, LenProperties, EndType, MessageType
<1>3. n <= Len(conversation) /\ Front(conversation, n) <= pos
    BY DEF CleanInv
<1>4. n \in 0..Len(conversation)
    BY <1>2, <1>3
<1>5. Front(conversation, n) \in Nat /\ Front(conversation, n) >= 1
      /\ (Front(conversation, n) <= End(conversation) => n < Len(conversation))
    BY <1>1, <1>4, FrontIs
<1>6. QED
    BY <1>1, <1>2, <1>3, <1>4, <1>5

\* What the parser reads at the beginning of the stream that is fed: the message after
\* those that were parsed.
LEMMA CleanHeader ==
    ASSUME TypeInv, CleanInv, Clean, Feeding, HasHeader, NEW n, n = Len(events)
    PROVE  /\ n < Len(conversation) /\ Front(conversation, n) < pos
           /\ Stream.buffer = Run(Front(conversation, n), pos - Front(conversation, n))
           /\ First = n + 1 /\ Length = conversation[n + 1].size
           /\ conversation[n + 1].dir = feeding.dir
           /\ Starting <=> n = 0
           /\ Readable(n + 1, Starting)
           /\ TypeOf(n + 1) \in Startups <=> n = 0
<1> DEFINE c == conversation
           f == Front(c, n)
           b == Stream.buffer
           d == feeding.dir
           m == n + 1
<1>1. /\ c \in Conversations /\ n \in 0..Len(c) /\ n \in Nat /\ pos \in Nat
      /\ pos <= End(c) + 1 /\ End(c) \in Nat /\ f \in Nat /\ f >= 1 /\ f <= pos
      /\ f < pos => n < Len(c)
    BY CleanAt
<1>2. /\ d \in Direction /\ b \in Seq(Cell(c)) /\ 1 \in 1..(Len(b) - 1) /\ Len(b) \in Nat
      /\ Stream = streams[d] /\ Stream \in StreamType(c)
    BY FedType
<1>3. b = Rest(c, f, pos, d)
    BY <1>2 DEF CleanInv
<1>4. b # <<>>
    BY <1>2, EmptySeq
<1>5. f < pos /\ OnSide(c, f, d) /\ b = Run(f, pos - f)
    BY <1>3, <1>4 DEF Rest
<1>6. n < Len(c)
    BY <1>1, <1>5
<1>7. m \in DOMAIN c /\ c[m].at = f /\ Follows(c, m) = f + c[m].size
      /\ c[m].size \in Nat /\ c[m].size >= 2
    BY <1>1, <1>6, FrontIs
<1>8. Holds(c, m, f) /\ f \in Int
    BY <1>1, <1>7 DEF Holds
<1>9. c[m].dir = d
    BY <1>1, <1>5, <1>7, <1>8, SideOf
<1>10. b[1] = f /\ b[2] = f + 1
    <2> DEFINE z == pos - f
    <2>1. z \in Nat /\ f + z <= End(c) + 1 /\ b = Run(f, z)
        BY <1>1, <1>5
    <2> HIDE DEF z, f, b
    <2>2. Len(b) = z /\ \A i \in 1..z : b[i] = f + i - 1
        BY ZenonT(60), <2>1, <1>1, RunIs
    <2>3. 1 \in 1..z /\ 2 \in 1..z
        BY <2>2, <1>2
    <2>4. b[1] = f + 1 - 1 /\ b[2] = f + 2 - 1
        BY <2>2, <2>3
    <2>5. QED
        BY <2>4, <1>1
<1>11. First = m
    <2>1. \A k \in DOMAIN c : b[1] = c[k].at /\ b[2] = b[1] + 1 => First = k
        <3>1. c \in Conversations /\ b \in Seq(Cell(c)) /\ 1 \in 1..(Len(b) - 1)
            BY <1>1, <1>2
        <3>2. \A k \in DOMAIN c : b[1] = c[k].at /\ b[1 + 1] = b[1] + 1 => First = k
            BY ONLY <3>1, HeaderIs DEF First
        <3>3. QED
            BY <3>2
    <2> HIDE DEF b, m
    <2>2. QED
        BY <2>1, <1>7, <1>10
<1> HIDE DEF c, f, d, m
<1>12. Starting <=> n = 0
    <2>1. Stream.made /\ (Stream.startupDone <=> d = "server" \/ n > 0)
        BY <1>2, <1>4 DEF CleanInv, c
    <2>2. n = 0 => d = "client"
        <3>1. n = 0 => m = 1
            BY DEF m
        <3>2. c[1].dir = "client"
            BY <1>1, OneStartup DEF Clean, c
        <3>3. QED
            BY <3>1, <3>2, <1>9
    <2>3. n = 0 \/ n > 0
        BY <1>1
    <2>4. n = 0 => ~ (n > 0)
        OBVIOUS
    <2>5. QED
        BY <2>1, <2>2, <2>3, <2>4 DEF Starting, InStartup, d
<1>13. TypeOf(m) \in Startups <=> n = 0
    <2>1. \A k \in DOMAIN c : c[k].type \in Startups => k = 1
        BY <1>1, OneStartup DEF Clean, c
    <2>2. c[1].type = "Startup" /\ (m = 1 <=> n = 0)
        BY <1>1, OneStartup DEF Clean, c, m
    <2>3. QED
        BY <2>1, <2>2, <1>7 DEF TypeOf, Startups, c
<1>14. Length = c[m].size
    <2>1. Length = IF Starting THEN StartupLength(b) ELSE RegularLength(b, 1)
        BY DEF Length, HeaderLength, Starting
    <2>2. MessageAt(b, 1) = m /\ m # 0
        BY <1>1, <1>11 DEF First, m
    <2>3. QED
        BY <2>1, <2>2, <1>12, <1>13 DEF StartupLength, RegularLength, Size, c
<1>15. Readable(m, Starting)
    BY <1>1, <1>12, <1>13 DEF Readable, m
<1>16. QED
    BY <1>5, <1>6, <1>9, <1>11, <1>12, <1>13, <1>14, <1>15 DEF c, d, f, m

\* Chunk keeps the invariant: what is left of a message and a chunk fit the buffer.
LEMMA ChunkCleans ==
    ASSUME TypeInv, CleanInv, NEW n \in 1..MaxChunk, NEW k \in 1..n, Chunk(n, k)
    PROVE  CleanInv'
<1> SUFFICES ASSUME Clean' PROVE CleanInv'
    BY DEF CleanInv
<1> DEFINE d == DirOf(pos)
           t == Longer(d, k)
           c == conversation
           l == Len(events)
           f == Front(c, l)
           m == l + 1
<1>1. /\ Call(n) /\ k \in Nat /\ k >= 1 /\ k <= n /\ pos + k <= End(c) + 1
      /\ conversation' = c /\ missing' = missing
      /\ faults' = faults + (IF k < n THEN 1 ELSE 0)
    BY ChunkIs
<1>2. faults = 0 /\ ~ (k < n)
    <2>1. faults \in Nat /\ faults' = 0
        BY Bounds DEF TypeInv, Clean
    <2>2. QED
        BY <2>1, <1>1
<1>3. Clean
    BY <1>1, <1>2 DEF Clean, StartsOnce, Resets, TypeOf, Size
<1>4. /\ ~Feeding /\ n \in Nat /\ n >= 1 /\ pos \in Nat /\ d \in Direction
      /\ pos + n <= End(c) + 1 /\ pos' = pos + n /\ OnSide(c, pos, d)
      /\ \A q \in pos..(pos + n - 1) : \A o \in DOMAIN c : Holds(c, o, q) => c[o].dir = d
    BY <1>1, CallIs
<1>5. k = n
    BY <1>1, <1>2, <1>4
<1>6. /\ c \in Conversations /\ l \in 0..Len(c) /\ l \in Nat /\ End(c) \in Nat
      /\ f \in Nat /\ f >= 1 /\ f <= pos
    BY <1>3, CleanAt
<1>7. l < Len(c)
    <2>1. f <= End(c)
        BY <1>4, <1>6
    <2>2. QED
        BY <2>1, <1>6, FrontIs
<1>8. /\ m \in DOMAIN c /\ c[m].at = f /\ Follows(c, m) = f + c[m].size
      /\ c[m].size \in Nat /\ c[m].size >= 2
    BY <1>6, <1>7, FrontIs
<1>9. pos < Follows(c, m)
    BY <1>3, <1>4, <1>7 DEF CleanInv
<1>10. \A p \in f..pos : OnSide(c, p, d)
    <2>1. \A p \in f..pos : p \in Int /\ Holds(c, m, p)
        BY <1>4, <1>6, <1>8, <1>9 DEF Holds
    <2>2. pos \in f..pos
        BY <1>4, <1>6
    <2>3. c[m].dir = d
        BY <2>1, <2>2, <1>4, <1>6, <1>8, SideOf
    <2>4. QED
        BY <2>1, <2>3, <1>6, <1>8, SideOf
<1>11. OnSide(c, f, d) /\ \A e : OnSide(c, f, e) => e = d
    <2>1. f \in f..pos /\ f \in Int
        BY <1>4, <1>6
    <2>2. QED
        BY <2>1, <1>6, <1>10, OneSide
<1>12. \A e \in Direction : e # d => streams[e].buffer = <<>>
    BY <1>3, <1>11 DEF CleanInv, Rest
<1>13. /\ StreamFor(d).buffer = Run(f, pos - f) /\ StreamFor(d).syncLost = FALSE
       /\ StreamFor(d).startupDone <=> d = "server" \/ l > 0
    <2>1. /\ streams[d].made => StreamFor(d) = streams[d]
          /\ ~streams[d].made => /\ StreamFor(d).buffer = <<>> /\ StreamFor(d).syncLost = FALSE
                                 /\ StreamFor(d).startupDone = (d = "server" \/ conn.startupSeen)
        BY <1>4, StreamForType
    <2>2. /\ streams[d].buffer = Rest(c, f, pos, d) /\ ~streams[d].syncLost
          /\ streams[d].made => (streams[d].startupDone <=> d = "server" \/ l > 0)
          /\ ~streams[d].made => streams[d].buffer = <<>>
          /\ conn.startupSeen <=> l > 0
        BY <1>3, <1>4 DEF CleanInv
    <2>3. streams[d].syncLost \in BOOLEAN
        BY <1>4 DEF TypeInv, StreamType
    <2>4. streams[d].buffer = Run(f, pos - f)
        <3>1. CASE f < pos
            BY <3>1, <2>2, <1>11 DEF Rest
        <3>2. CASE f = pos
            <4>1. pos - f = 0 /\ ~ (f < pos)
                BY <3>2, <1>4
            <4>2. Run(f, pos - f) = <<>>
                BY <4>1, EmptyRun
            <4>3. QED
                BY <4>1, <4>2, <2>2 DEF Rest
        <3>3. QED
            BY <3>1, <3>2, <1>4, <1>6
    <2> HIDE DEF d, c, l, f
    <2>5. QED
        BY <2>1, <2>2, <2>3, <2>4
<1>14. /\ t.made = TRUE /\ t.buffer = StreamFor(d).buffer \o Run(pos, k)
       /\ t.startupDone = StreamFor(d).startupDone /\ t.syncLost = StreamFor(d).syncLost
       /\ t \in StreamType(c)
    BY <1>1, <1>4, LongerIs
<1>15. t.buffer = Run(f, pos' - f) /\ Len(t.buffer) = pos' - f
    <2> DEFINE z == pos - f
               b == Run(f, z)
    <2>1. z \in Nat /\ f + z <= End(c) + 1
        BY <1>4, <1>6
    <2>2. b \in Seq(Cell(c)) /\ Len(b) = z /\ \A i \in 1..z : b[i] = f + i - 1
        <3> HIDE DEF z, f
        <3>1. QED
            BY <2>1, <1>6, RunIs
    <2>3. t.buffer = b \o Run(pos, k) /\ pos >= 1
        BY <1>13, <1>14, <1>4, <1>6
    <2>4. z = pos - f
        OBVIOUS
    <2> HIDE DEF b, z, t, f
    <2>5. /\ t.buffer \in Seq(Cell(c)) /\ Len(t.buffer) = z + k
          /\ \A i \in 1..z : t.buffer[i] = b[i]
          /\ \A i \in (z + 1)..(z + k) : t.buffer[i] = pos + (i - z) - 1
        <3>1. /\ b \o Run(pos, k) \in Seq(Cell(c)) /\ Len(b \o Run(pos, k)) = Len(b) + k
              /\ \A i \in 1..Len(b) : (b \o Run(pos, k))[i] = b[i]
              /\ \A i \in (Len(b) + 1)..(Len(b) + k) :
                    (b \o Run(pos, k))[i] = pos + (i - Len(b)) - 1
            <4>1. /\ c \in Conversations /\ b \in Seq(Cell(c)) /\ pos \in Nat /\ pos >= 1
                  /\ k \in Nat /\ pos + k <= End(c) + 1
                BY <1>1, <1>4, <1>6, <2>2, <2>3
            <4> HIDE DEF c
            <4>2. QED
                BY ONLY <4>1, ConcatIs
        <3>2. QED
            BY <3>1, <2>2, <2>3
    <2>6. z + k = pos' - f /\ z + k \in Nat /\ f \in Int
        BY <2>1, <2>4, <1>1, <1>4, <1>5, <1>6
    <2>7. \A i \in 1..(z + k) : t.buffer[i] = f + i - 1
        <3>1. \A i \in 1..z : t.buffer[i] = f + i - 1
            BY <2>2, <2>5
        <3>2. \A i \in (z + 1)..(z + k) : pos + (i - z) - 1 = f + i - 1
            BY <2>1, <2>4, <1>4, <1>6
        <3>3. \A i \in 1..(z + k) : i \in 1..z \/ i \in (z + 1)..(z + k)
            BY <2>1, <1>1
        <3>4. QED
            BY <3>1, <3>2, <3>3, <2>5
    <2>8. t.buffer = Run(f, z + k)
        BY <2>5, <2>6, <2>7, SameRun
    <2>9. QED
        BY <2>5, <2>6, <2>8
<1>16. ~TooLong(t.buffer)
    <2>1. c[m].size - 1 + MaxChunk <= MaxBuffer
        <3>1. ~ (c[m].size - 1 + MaxChunk > MaxBuffer)
            BY <1>3, <1>8 DEF Clean, Resets, Size
        <3>2. QED
            BY <3>1, <1>8, Bounds
    <2>2. n <= MaxChunk
        BY Bounds
    <2> DEFINE g == Follows(c, m)
               z == c[m].size
               h == Len(t.buffer)
    <2>3. h = pos' - f /\ pos' = pos + n /\ pos < g /\ g = f + z /\ z \in Nat
          /\ z - 1 + MaxChunk <= MaxBuffer /\ n \in Nat /\ f \in Nat /\ pos \in Nat
        BY <2>1, <1>4, <1>6, <1>8, <1>9, <1>15
    <2> HIDE DEF g, z, h, f
    <2>4. h <= MaxBuffer
        BY <2>2, <2>3, Bounds
    <2>5. h \in Int
        BY <2>3
    <2>6. QED
        BY <2>4, <2>5, Bounds DEF TooLong, h
<1>17. /\ streams' = [streams EXCEPT ![d] = IF t.syncLost THEN Resync(d, t) ELSE t]
       /\ feeding' = [dir |-> d, truncated |-> (k < n)]
       /\ conn' = conn /\ events' = events
    BY <1>16, ChunkIs
<1>18. streams' = [streams EXCEPT ![d] = t]
    BY <1>13, <1>14, <1>17
<1> HIDE DEF d, t, f, m
<1>19. streams'[d] = t /\ \A e \in Direction : e # d => streams'[e] = streams[e]
    BY <1>4, <1>18 DEF TypeInv
<1>20. f < pos' /\ f <= pos'
    BY <1>4, <1>6
<1>21. ASSUME NEW e \in Direction
       PROVE  /\ streams'[e].buffer = Rest(c, f, pos', e)
              /\ ~streams'[e].syncLost
              /\ streams'[e].made => (streams'[e].startupDone <=> e = "server" \/ l > 0)
              /\ ~streams'[e].made => streams'[e].buffer = <<>>
    <2>1. CASE e = d
        <3>1. streams'[e] = t
            BY <2>1, <1>19
        <3>2. Rest(c, f, pos', e) = Run(f, pos' - f)
            BY <2>1, <1>11, <1>20 DEF Rest
        <3>3. QED
            BY <2>1, <3>1, <3>2, <1>13, <1>14, <1>15
    <2>2. CASE e # d
        <3>1. streams'[e] = streams[e]
            BY <2>2, <1>19
        <3>2. Rest(c, f, pos', e) = <<>>
            BY <2>2, <1>11 DEF Rest
        <3>3. QED
            BY <2>2, <3>1, <3>2, <1>3, <1>12 DEF CleanInv
    <2>3. QED
        BY <2>1, <2>2
<1>22. ~feeding'.truncated /\ feeding'.dir = d /\ Feeding'
    <2>1. d # "none"
        BY <1>4 DEF Direction
    <2>2. feeding'.dir = d /\ (feeding'.truncated => k < n)
        BY <1>17
    <2>3. Feeding'
        BY <2>1, <2>2 DEF Feeding, NoChunk
    <2>4. QED
        BY <2>2, <2>3, <1>2
<1>23. \A p \in f..(pos' - 1) : OnSide(c, p, d)
    <2>1. ASSUME NEW p \in f..(pos' - 1) PROVE OnSide(c, p, d)
        <3>1. p \in Int /\ (p \in f..pos \/ p \in pos..(pos + n - 1)) /\ p \in 1..End(c)
            BY <1>4, <1>6
        <3>2. CASE p \in f..pos
            BY <3>2, <1>10
        <3>3. CASE p \in pos..(pos + n - 1)
            <4>1. PICK o \in DOMAIN c : Holds(c, o, p)
                BY <3>1, <1>6, HasHolder
            <4>2. QED
                BY <4>1, <3>3, <1>4 DEF OnSide
        <3>4. QED
            BY <3>1, <3>2, <3>3
    <2>2. QED
        BY <2>1
<1>24. QED
    BY <1>1, <1>3, <1>17, <1>20, <1>21, <1>22, <1>23 DEF CleanInv, c, l, f

\* MissingChunk ends what the invariant is about.
LEMMA MissingCleans ==
    ASSUME TypeInv, NEW n, MissingChunk(n)
    PROVE  CleanInv'
<1>1. faults \in Nat /\ faults' = faults + 1
    BY Bounds DEF TypeInv, MissingChunk
<1>2. faults' # 0
    BY <1>1
<1>3. QED
    BY <1>2 DEF CleanInv, Clean

\* The steps of parsing change nothing of what the invariant is about.
LEMMA CleanBefore ==
    ASSUME conversation' = conversation, faults' = faults, Clean'
    PROVE  Clean
BY DEF Clean, StartsOnce, Resets, TypeOf, Size

\* TakeMessage keeps it: the message is the next one.
LEMMA TakeCleans ==
    ASSUME TypeInv, CleanInv, TakeMessage,
           UNCHANGED <<conversation, noise, pos, missing, faults>>
    PROVE  CleanInv'
<1> SUFFICES ASSUME Clean' PROVE CleanInv'
    BY DEF CleanInv
<1> DEFINE c == conversation
           n == Len(events)
           m == n + 1
           f == Front(c, n)
           g == Front(c, m)
           d == feeding.dir
           b == Stream.buffer
           z == Length
           rest == From(b, z + 1)
<1>1. Clean /\ Feeding /\ HasHeader
    BY CleanBefore, TakeIs
<1>2. /\ c \in Conversations /\ n \in 0..Len(c) /\ n \in Nat /\ pos \in Nat
      /\ pos <= End(c) + 1 /\ End(c) \in Nat /\ f \in Nat /\ f >= 1 /\ f <= pos
    BY <1>1, CleanAt
<1>3. /\ n < Len(c) /\ f < pos /\ b = Run(f, pos - f)
      /\ First = m /\ z = c[m].size /\ c[m].dir = d
      /\ Starting <=> n = 0
      /\ Readable(m, Starting)
      /\ TypeOf(m) \in Startups <=> n = 0
    BY <1>1, CleanHeader
<1>4. /\ m \in DOMAIN c /\ c[m].at = f /\ g = Follows(c, m) /\ g = f + z
      /\ z \in Nat /\ z >= 2 /\ Holds(c, m, f) /\ m \in 0..Len(c)
    <2>1. /\ m \in DOMAIN c /\ c[m].at = f /\ g = Follows(c, m) /\ g = f + c[m].size
          /\ c[m].size \in Nat /\ c[m].size >= 2
        BY <1>2, <1>3, FrontIs
    <2>2. Holds(c, m, f) /\ m \in 0..Len(c)
        BY <2>1, <1>2, HoldsStart, MessageType
    <2>3. QED
        BY <2>1, <2>2, <1>3
<1>5. /\ d \in Direction /\ Stream = streams[d] /\ Stream \in StreamType(c)
      /\ b \in Seq(Cell(c)) /\ Len(b) \in Nat
    BY <1>1, FedType
<1>6. z <= Len(b) /\ z + 1 \in 1..(Len(b) + 1)
    BY TakeIs
<1>7. Len(b) = pos - f /\ \A i \in 1..(pos - f) : b[i] = f + i - 1
    <2> DEFINE y == pos - f
    <2>1. y \in Nat /\ f + y <= End(c) + 1 /\ b = Run(f, y)
        BY <1>2, <1>3
    <2> HIDE DEF y, f, b, c
    <2>2. Len(b) = y /\ \A i \in 1..y : b[i] = f + i - 1
        BY ZenonT(60), <2>1, <1>2, RunIs
    <2>3. QED
        BY <2>2 DEF y
<1>8. g \in Nat /\ g <= pos
    BY SMTT(30), <1>2, <1>4, <1>6, <1>7
<1>9. Made = "whole"
    <2> DEFINE t == SubSeq(b, 1, z)
    <2>1. \A i \in 1..z : b[i] \in Cell(c)
        BY <1>4, <1>5, <1>6, LenProperties
    <2>2. t \in Seq(Cell(c)) /\ Len(t) = z /\ \A i \in 1..z : t[i] = b[i]
        <3>1. /\ t \in Seq(Cell(c)) /\ Len(t) = IF 1 <= z THEN z - 1 + 1 ELSE 0
              /\ \A i \in 1..(z - 1 + 1) : t[i] = b[1 + i - 1]
            BY <2>1, <1>4, SubSeqProperties
        <3>2. z - 1 + 1 = z /\ 1 <= z /\ \A i \in 1..z : 1 + i - 1 = i
            BY <1>4
        <3>3. QED
            BY <3>1, <3>2
    <2> HIDE DEF t, z, f, b
    <2>3. \A i \in 1..z : t[i] = f + i - 1
        <3>1. \A i \in 1..z : i \in 1..(pos - f)
            BY <1>2, <1>4, <1>6, <1>7
        <3>2. QED
            BY <3>1, <2>2, <1>7
    <2>4. t = Run(f, z)
        BY <2>2, <2>3, <1>2, <1>4, SameRun
    <2>5. t = CellsOf(m)
        BY <2>4, <1>3, <1>4 DEF CellsOf, Size
    <2>6. QED
        BY <2>5, <1>3 DEF Made, t, z, b
<1>10. SessionRead = "user"
    <2>1. n = 0 => TypeOf(m) = "Startup"
        BY <1>2, OneStartup, <1>1 DEF Clean
    <2>2. n # 0 => conn.session = "user"
        BY <1>1, <1>2 DEF CleanInv
    <2>3. n = 0 => TypeRead(m, Starting) = "Startup"
        BY <2>1, <1>3 DEF TypeRead, ReadAs, TypeOf
    <2>4. QED
        BY <2>1, <2>2, <2>3, <1>3 DEF SessionRead
<1>11. /\ EventRead \in EventType(c) /\ EventRead.m = m /\ EventRead.made = "whole"
       /\ EventRead.session = "user" /\ events \in Seq(EventType(c))
    BY <1>3, <1>9, <1>10, TakeIs DEF EventRead, EventOf, TypeInv
<1>12. /\ events' = Append(events, EventRead) /\ feeding' = feeding
       /\ streams' = [streams EXCEPT ![d] = StreamAfter]
       /\ StreamAfter.made = Stream.made /\ StreamAfter.buffer = rest
       /\ StreamAfter.syncLost = Stream.syncLost
       /\ StreamAfter.startupDone = (Stream.startupDone \/ Starting)
       /\ conn'.startupSeen = (conn.startupSeen \/ Starting) /\ conn'.session = "user"
    BY <1>10, TakeIs
<1> HIDE DEF c, n, m, f, g, d, b, z, rest
<1>13. Len(events') = m
    BY <1>11, <1>12, AppendIs DEF n, m
<1>14. \A i \in 1..m : /\ events'[i].m = i /\ events'[i].made = "whole"
                       /\ events'[i].session = "user"
    <2>1. \A i \in 1..n : events'[i] = events[i]
        BY <1>11, <1>12, AppendIs DEF n
    <2>2. events'[m] = EventRead
        BY <1>11, <1>12, AppendIs DEF n, m
    <2>3. \A i \in 1..m : i \in 1..n \/ i = m
        BY <1>2 DEF m
    <2>4. \A i \in 1..n : /\ events[i].m = i /\ events[i].made = "whole"
                          /\ events[i].session = "user"
        BY <1>1 DEF CleanInv, n
    <2>5. QED
        BY <2>1, <2>2, <2>3, <2>4, <1>11
<1>15. rest = Run(g, pos - g)
    <2>1. /\ rest \in Seq(Cell(c)) /\ Len(rest) = Len(b) - (z + 1) + 1
          /\ \A i \in 1..(Len(b) - (z + 1) + 1) : rest[i] = b[(z + 1) + i - 1]
        BY <1>5, <1>6, FromIs DEF rest
    <2>2. Len(b) - (z + 1) + 1 = pos - g /\ pos - g \in Nat /\ g \in Int
        BY <1>2, <1>4, <1>7, <1>8
    <2>3. \A i \in 1..(pos - g) : (z + 1) + i - 1 \in 1..(pos - f)
                                  /\ f + ((z + 1) + i - 1) - 1 = g + i - 1
        BY <1>2, <1>4, <1>8
    <2>4. \A i \in 1..(pos - g) : rest[i] = g + i - 1
        BY <2>1, <2>2, <2>3, <1>7
    <2> DEFINE y == pos - g
    <2>5. y \in Nat /\ Len(rest) = y /\ \A i \in 1..y : rest[i] = g + i - 1
        BY <2>1, <2>2, <2>4
    <2> HIDE DEF y
    <2>6. rest = Run(g, y)
        BY <2>1, <2>2, <2>5, SameRun
    <2>7. QED
        BY <2>6 DEF y
<1>16. \A p \in f..(pos - 1) : OnSide(c, p, d)
    BY <1>1 DEF CleanInv, c, f, n, d
<1>17. \A e \in Direction : e # d => ~OnSide(c, f, e) /\ (g < pos => ~OnSide(c, g, e))
    <2>1. f \in Int /\ g \in Int /\ OnSide(c, f, d) /\ (g < pos => OnSide(c, g, d))
        BY SMTT(30), <1>2, <1>3, <1>4, <1>8, <1>16
    <2>2. QED
        BY <2>1, <1>2, OneSide
<1>18. Rest(c, g, pos, d) = rest
    <2>1. CASE g < pos
        <3>1. OnSide(c, g, d)
            BY <2>1, <1>2, <1>4, <1>8, <1>16
        <3>2. QED
            BY <2>1, <3>1, <1>15 DEF Rest
    <2>2. CASE g = pos
        <3>1. pos - g = 0 /\ ~ (g < pos)
            BY <2>2, <1>2
        <3>2. rest = <<>>
            BY <3>1, <1>15, EmptyRun
        <3>3. QED
            BY <3>1, <3>2 DEF Rest
    <2>3. QED
        BY <2>1, <2>2, <1>2, <1>8
<1>19. streams'[d] = StreamAfter /\ \A e \in Direction : e # d => streams'[e] = streams[e]
    BY <1>5, <1>12 DEF TypeInv
<1>20. \A e \in Direction :
          /\ streams[e].buffer = Rest(c, f, pos, e) /\ ~streams[e].syncLost
          /\ streams[e].made => (streams[e].startupDone <=> e = "server" \/ n > 0)
          /\ ~streams[e].made => streams[e].buffer = <<>>
    BY <1>1 DEF CleanInv, c, f, n
<1>21. m > 0 /\ (n = 0 \/ n > 0)
    BY <1>2 DEF m
<1>22. b # <<>>
    BY <1>4, <1>5, <1>6, EmptySeq
<1>23. conn.startupSeen <=> n > 0
    BY <1>1 DEF CleanInv, n
<1>24. ASSUME NEW e \in Direction
       PROVE  /\ streams'[e].buffer = Rest(c, g, pos, e)
              /\ ~streams'[e].syncLost
              /\ streams'[e].made => (streams'[e].startupDone <=> e = "server" \/ m > 0)
              /\ ~streams'[e].made => streams'[e].buffer = <<>>
    <2>1. CASE e = d
        <3>1. streams'[e] = StreamAfter
            BY <2>1, <1>19
        <3>2. Stream.made /\ ~Stream.syncLost
            BY <1>5, <1>20, <1>22 DEF b
        <3>3. StreamAfter.startupDone <=> TRUE
            <4>1. Stream.startupDone <=> d = "server" \/ n > 0
                BY <3>2, <1>5, <1>20
            <4>2. QED
                BY <4>1, <1>3, <1>12, <1>21
        <3>4. QED
            BY <2>1, <3>1, <3>2, <3>3, <1>12, <1>18, <1>21
    <2>2. CASE e # d
        <3>1. streams'[e] = streams[e]
            BY <2>2, <1>19
        <3>2. Rest(c, g, pos, e) = <<>> /\ Rest(c, f, pos, e) = <<>>
            BY <2>2, <1>17 DEF Rest
        <3>3. n = 0 => e = "server"
            <4>1. n = 0 => m = 1 /\ c[1].dir = "client"
                BY <1>2, <1>1, OneStartup DEF Clean, c, m
            <4>2. QED
                BY <4>1, <2>2, <1>3 DEF Direction
        <3>4. QED
            BY <2>2, <3>1, <3>2, <3>3, <1>20, <1>21
    <2>3. QED
        BY <2>1, <2>2
<1>25. conn'.startupSeen <=> m > 0
    BY <1>3, <1>12, <1>21, <1>23
<1>26. \A p \in g..(pos - 1) : p \in f..(pos - 1)
    BY <1>2, <1>4, <1>8
<1>27. ~missing /\ ~feeding.truncated
    BY <1>1 DEF CleanInv
<1>28. m <= Len(c)
    BY <1>2, <1>4, MessageType
<1>29. conversation' = c /\ pos' = pos /\ missing' = missing
    BY DEF c
<1>30. QED
    <2>1. /\ ~missing' /\ m <= Len(c) /\ g <= pos'
          /\ \A i \in 1..m : /\ events'[i].m = i /\ events'[i].made = "whole"
                             /\ events'[i].session = "user"
          /\ \A e \in Direction :
                /\ streams'[e].buffer = Rest(c, g, pos', e)
                /\ ~streams'[e].syncLost
                /\ streams'[e].made => (streams'[e].startupDone <=> e = "server" \/ m > 0)
                /\ ~streams'[e].made => streams'[e].buffer = <<>>
          /\ conn'.startupSeen <=> m > 0
          /\ m > 0 => conn'.session = "user"
        <3>1. ~missing' /\ g <= pos' /\ conn'.session = "user"
            BY <1>8, <1>12, <1>27, <1>29
        <3>2. \A e \in Direction :
                /\ streams'[e].buffer = Rest(c, g, pos', e)
                /\ ~streams'[e].syncLost
                /\ streams'[e].made => (streams'[e].startupDone <=> e = "server" \/ m > 0)
                /\ ~streams'[e].made => streams'[e].buffer = <<>>
            BY <1>24, <1>29
        <3>3. QED
            BY ONLY <3>1, <3>2, <1>14, <1>25, <1>28
    <2>2. Feeding' /\ ~feeding'.truncated
          /\ \A p \in g..(pos' - 1) : OnSide(c, p, feeding'.dir)
        BY <1>1, <1>12, <1>16, <1>26, <1>27, <1>29 DEF Feeding, d
    <2>3. QED
        BY <2>1, <2>2, <1>13, <1>29 DEF CleanInv, g

\* FindSync does not happen.
LEMMA NoFindSync ==
    ASSUME TypeInv, CleanInv, Clean, FindSync
    PROVE  FALSE
<1>1. Feeding /\ HasHeader /\ Length = 0 /\ conversation \in Conversations
    BY FindIs DEF TypeInv
<1>2. Len(events) < Len(conversation) /\ Length = conversation[Len(events) + 1].size
    BY <1>1, CleanHeader
<1>3. Len(events) \in 0..Len(conversation)
    BY <1>1, CleanAt
<1>4. conversation[Len(events) + 1].size >= 2
    BY <1>1, <1>2, <1>3, FrontIs
<1>5. QED
    BY <1>1, <1>2, <1>4

\* Nothing is out of range, so FindSync does not happen.
LEMMA FindCleans ==
    ASSUME TypeInv, CleanInv, FindSync,
           UNCHANGED <<conversation, noise, pos, missing, faults>>
    PROVE  CleanInv'
BY CleanBefore, NoFindSync DEF CleanInv

\* Return keeps it: the next message is not there whole.
LEMMA ReturnCleans ==
    ASSUME TypeInv, CleanInv, Return,
           UNCHANGED <<conversation, noise, pos, missing, faults>>
    PROVE  CleanInv'
<1> SUFFICES ASSUME Clean' PROVE CleanInv'
    BY DEF CleanInv
<1> DEFINE c == conversation
           n == Len(events)
           f == Front(c, n)
           b == Stream.buffer
           d == feeding.dir
<1>1. Clean /\ Feeding /\ ~Complete /\ ~Invalid /\ feeding' = NoChunk /\ conn' = conn
    BY CleanBefore, ReturnIs
<1>2. /\ c \in Conversations /\ n \in 0..Len(c) /\ n \in Nat /\ pos \in Nat
      /\ pos <= End(c) + 1 /\ End(c) \in Nat /\ f \in Nat /\ f >= 1 /\ f <= pos
    BY <1>1, CleanAt
<1>3. /\ d \in Direction /\ Stream = streams[d] /\ Len(b) \in Nat
      /\ (HasHeader => Length \in Nat)
    BY <1>1, FedType
<1>4. ~feeding.truncated /\ \A p \in f..(pos - 1) : OnSide(c, p, d)
    BY <1>1 DEF CleanInv
<1>5. events' = events /\ streams' = streams
    BY <1>4, ReturnIs
<1>6. ASSUME n < Len(c) PROVE pos < Follows(c, n + 1)
    <2>1. /\ Follows(c, n + 1) = f + c[n + 1].size /\ c[n + 1].size \in Nat
          /\ c[n + 1].size >= 2
        BY <1>2, <1>6, FrontIs
    <2>2. CASE HasHeader
        <3>1. Length = c[n + 1].size /\ b = Run(f, pos - f)
            BY <1>1, <2>2, CleanHeader
        <3>2. Len(b) < Length
            BY <1>1, <1>3, <2>1, <2>2, <3>1 DEF Complete
        <3> DEFINE y == pos - f
        <3>3. y \in Nat /\ f + y <= End(c) + 1 /\ y = pos - f
            BY <1>2
        <3>4. Len(b) = y
            <4> HIDE DEF y, f, c
            <4>1. QED
                BY <3>1, <3>3, <1>2, RunIs DEF y
        <3>5. QED
            BY <3>1, <3>2, <3>3, <3>4, <2>1, <1>2
    <2>3. CASE ~HasHeader
        <3>1. Len(b) < 2
            BY <2>3, <1>3 DEF HasHeader
        <3>2. CASE f = pos
            BY <3>2, <2>1, <1>2
        <3>3. CASE f < pos
            <4>1. OnSide(c, f, d)
                BY <3>3, <1>2, <1>4
            <4>2. b = Run(f, pos - f)
                BY <4>1, <3>3, <1>1, <1>3 DEF CleanInv, Rest
            <4> DEFINE y == pos - f
            <4>3. y \in Nat /\ f + y <= End(c) + 1 /\ y = pos - f
                BY <1>2
            <4>4. Len(b) = y
                <5> HIDE DEF y, f, c
                <5>1. QED
                    BY <4>2, <4>3, <1>2, RunIs DEF y
            <4>5. QED
                BY <3>1, <4>3, <4>4, <2>1, <1>2
        <3>4. QED
            BY <3>2, <3>3, <1>2
    <2>4. QED
        BY <2>2, <2>3
<1>7. ~Feeding'
    BY <1>1 DEF Feeding
<1>8. QED
    BY <1>1, <1>5, <1>6, <1>7 DEF CleanInv

\* So CleanInv holds.
LEMMA CleanStep == TypeInv /\ CleanInv /\ [Next]_vars => CleanInv'
<1> SUFFICES ASSUME TypeInv, CleanInv, [Next]_vars PROVE CleanInv'
    OBVIOUS
<1>1. ASSUME NEW n \in 1..MaxChunk, NEW k \in 1..n, Chunk(n, k) PROVE CleanInv'
    BY <1>1, ChunkCleans
<1>2. ASSUME NEW n \in 1..MaxChunk, MissingChunk(n) PROVE CleanInv'
    BY <1>2, MissingCleans
<1>3. CASE Parse
    BY <1>3, TakeCleans, FindCleans, ReturnCleans DEF Parse
<1>4. CASE UNCHANGED vars
    BY <1>4 DEF vars, CleanInv, Clean, StartsOnce, Resets, TypeOf, Size, Feeding
<1>5. QED
    BY <1>1, <1>2, <1>3, <1>4 DEF Next

\* It holds at the start, where nothing has been sent.
LEMMA CleanInit == Init => CleanInv
<1> SUFFICES ASSUME Init, Clean PROVE CleanInv
    BY DEF CleanInv
<1>1. conversation \in Conversations /\ pos = 1 /\ missing = FALSE
    <2>1. faults = 0 /\ faults = IF pos = 1 THEN 0 ELSE 1
        BY DEF Init, Clean
    <2>2. pos = 1
        BY <2>1
    <2>3. QED
        BY <2>2 DEF Init
<1>2. events = <<>> /\ Len(events) = 0
    BY EmptySeq DEF Init
<1>3. Front(conversation, Len(events)) = 1
    BY <1>2 DEF Front
<1>4. Len(conversation) \in Nat /\ Len(conversation) >= 1 /\ pos < Follows(conversation, 1)
    BY <1>1, MessageType, MessageOrder
<1>5. \A d \in Direction : /\ streams[d].buffer = <<>> /\ streams[d].syncLost = FALSE
                           /\ streams[d].made = FALSE
    BY DEF Init, NoStream
<1>6. \A d : Rest(conversation, 1, pos, d) = <<>>
    BY <1>1 DEF Rest
<1>7. conn.startupSeen = FALSE /\ ~Feeding
    BY DEF Init, Feeding
<1>8. QED
    BY <1>1, <1>2, <1>3, <1>4, <1>5, <1>6, <1>7 DEF CleanInv

(* When nothing was cut or missing the events are the first messages and   *)
(* the buffers hold the cells that were sent after them (parser.go, Feed). *)
THEOREM ParserStaysClean == Spec => []CleanInv
<1>1. QED
    BY CleanInit, CleanStep, TypesHold, PTL DEF Spec

(* When nothing was cut or missing the events are the messages, in order,  *)
(* whole and with the session of the startup (parser.go, Feed).            *)
THEOREM MessagesCorrect == Spec => []EventsAreMessages
<1>1. TypeInv /\ CleanInv => EventsAreMessages
    <2> SUFFICES ASSUME TypeInv, CleanInv, ~Feeding, faults = 0, StartsOnce, ~Resets
                 PROVE  /\ Len(events) = Cardinality(Passed)
                        /\ \A i \in DOMAIN events : /\ events[i].m = i /\ events[i].made = "whole"
                                                    /\ events[i].session = "user"
        BY DEF EventsAreMessages
    <2> DEFINE c == conversation
               n == Len(events)
    <2>1. Clean
        BY DEF Clean
    <2>2. /\ c \in Conversations /\ n \in 0..Len(c) /\ n \in Nat /\ pos \in Nat
          /\ Front(c, n) \in Nat /\ Front(c, n) <= pos /\ DOMAIN events = 1..n
        BY <2>1, CleanAt, LenProperties DEF TypeInv
    <2>3. n < Len(c) => pos < Follows(c, n + 1)
        BY <2>1 DEF CleanInv
    <2>4. DOMAIN c = 1..Len(c) /\ Len(c) \in Nat
        BY <2>2, MessageType
    <2>5. ASSUME NEW m \in DOMAIN c PROVE Follows(c, m) <= pos <=> m <= n
        <3>1. /\ Follows(c, m) \in Nat /\ c[m].at \in Nat /\ c[m].at < Follows(c, m)
              /\ m \in Nat /\ m >= 1
            BY <2>2, MessageType
        <3>2. CASE m <= n
            <4>1. n \in DOMAIN c /\ Front(c, n) = Follows(c, n)
                BY <3>1, <3>2, <2>2, <2>4 DEF Front
            <4>2. m < n => Follows(c, m) <= c[n].at
                BY <4>1, <2>2, MessageOrder
            <4>3. c[n].at \in Nat /\ c[n].at <= Follows(c, n)
                BY <4>1, <2>2, MessageType
            <4>4. m = n \/ m < n
                BY <3>1, <3>2, <2>2
            <4>5. Follows(c, m) <= Front(c, n)
                BY <4>1, <4>2, <4>3, <4>4, <3>1, <2>2
            <4>6. QED
                BY <4>5, <3>1, <3>2, <2>2
        <3>3. CASE ~ (m <= n)
            <4>1. n < Len(c) /\ n + 1 \in DOMAIN c /\ (m = n + 1 \/ n + 1 < m)
                BY <3>1, <3>3, <2>2, <2>4
            <4>2. n + 1 < m => Follows(c, n + 1) <= c[m].at
                BY <4>1, <2>2, MessageOrder
            <4>3. Follows(c, n + 1) \in Nat /\ pos < Follows(c, n + 1)
                BY <4>1, <2>2, <2>3, MessageType
            <4>4. pos < Follows(c, m)
                BY <4>1, <4>2, <4>3, <3>1, <2>2
            <4>5. QED
                BY <4>4, <3>1, <3>3, <2>2
        <3>4. QED
            BY <3>2, <3>3
    <2>6. Passed = 1..n
        <3>1. Passed = {m \in DOMAIN c : m <= n}
            BY <2>5 DEF Passed
        <3> DEFINE l == Len(c)
        <3>2. l \in Nat /\ n \in 0..l /\ DOMAIN c = 1..l
            BY <2>2, <2>4
        <3> HIDE DEF c, l, n
        <3>3. {m \in 1..l : m <= n} = 1..n
            BY <3>2
        <3>4. QED
            BY <3>1, <3>2, <3>3
    <2>7. Cardinality(1..n) = n
        <3>1. 1 \in Int /\ n \in Int /\ ~ (1 > n + 1)
            BY <2>2
        <3> HIDE DEF n
        <3>2. Cardinality(1..n) = IF 1 > n THEN 0 ELSE n - 1 + 1
            BY <3>1, FS_Interval
        <3>3. QED
            BY <3>2, <2>2
    <2>8. \A i \in 1..n : /\ events[i].m = i /\ events[i].made = "whole"
                          /\ events[i].session = "user"
        BY <2>1 DEF CleanInv
    <2>9. QED
        BY <2>2, <2>6, <2>7, <2>8
<1>2. QED
    BY <1>1, TypesHold, ParserStaysClean, PTL

-----------------------------------------------------------------------------
(* Groups                                                                  *)

\* Between a replication command and its answer the command stays unanswered.
LEMMA StaysUnanswered ==
    ASSUME NEW c \in Conversations, NEW m \in DOMAIN c, m > 1, Unanswered(c, m - 1)
    PROVE  /\ c[m].type \notin Answer => Unanswered(c, m)
           /\ c[m - 1].type # "ReadyForQuery"
<1>1. m \in Nat /\ m - 1 \in Nat /\ m - 1 >= 1
    BY MessageType
<1>2. PICK q \in 1..(m - 1) : /\ c[q].type \in ReplicationCommand
                              /\ \A k \in (q + 1)..(m - 1) : c[k].type \notin Answer
    BY DEF Unanswered
<1>3. q \in 1..m /\ \A k \in (q + 1)..m : k \in (q + 1)..(m - 1) \/ k = m
    BY <1>1, <1>2
<1>4. c[m].type \notin Answer => Unanswered(c, m)
    BY <1>2, <1>3 DEF Unanswered
<1>5. q = m - 1 \/ m - 1 \in (q + 1)..(m - 1)
    BY <1>1, <1>2
<1>6. c[m - 1].type # "ReadyForQuery"
    BY <1>2, <1>5 DEF ReplicationCommand, Answer
<1>7. QED
    BY <1>4, <1>6

\* A replication command is not answered at first.
LEMMA StartsUnanswered ==
    ASSUME NEW c \in Conversations, NEW m \in DOMAIN c, c[m].type \in ReplicationCommand
    PROVE  Unanswered(c, m)
<1>1. m \in 1..m /\ \A k \in (m + 1)..m : FALSE
    BY MessageType
<1>2. QED
    BY <1>1 DEF Unanswered

\* The parts of what an event sets.
LEMMA SetsIs ==
    ASSUME NEW group, NEW current, NEW copy
    PROVE  /\ Sets(group, current, copy).group = group
           /\ Sets(group, current, copy).current = current
           /\ Sets(group, current, copy).copy = copy
BY DEF Sets

\* What message m makes of the groups.
GroupsOf(m) == IF conversation[m].dir = "client" THEN ClientGroups(ReadAs(conversation, m))
                                                 ELSE ServerGroups(ReadAs(conversation, m))

\* Only copy data is taken for something else, and for replication data alone.
LEMMA ReadAsIs ==
    ASSUME NEW c, NEW m
    PROVE  ReadAs(c, m) \in ReplicationData \/ ReadAs(c, m) = c[m].type
<1>1. CASE c[m].type # "CopyData"
    BY <1>1 DEF ReadAs
<1>2. CASE c[m].type = "CopyData"
    BY <1>2 DEF ReadAs, CopyType, ReplicationData
<1>3. QED
    BY <1>1, <1>2

\* A message that begins a command sets the groups right, whatever they were.
LEMMA CommandGroups ==
    ASSUME conversation \in Conversations, NEW m \in DOMAIN conversation,
           GroupOfType(conversation[m].type) # "none"
    PROVE  /\ GroupsOf(m).group = conversation[m].group
           /\ GroupsAfter(conversation, m, GroupsOf(m).current, GroupsOf(m).copy)
<1> DEFINE c == conversation
           type == c[m].type
           y == c[m].group
           g == GroupsOf(m)
<1>1. y = GroupOfType(type)
    BY CommandAssumption
<1>2. ReadAs(c, m) = type
    BY DEF ReadAs, GroupOfType, Startups, ReplicationCommand
<1>3. /\ type \in ClientTypes => g = ClientGroups(type)
      /\ type \in ServerTypes => g = ServerGroups(type)
    BY <1>2, ProtocolAssumption DEF GroupsOf
<1>4. type \in ReplicationCommand => Unanswered(c, m)
    BY StartsUnanswered
<1>5. GroupOfType(type) # "none"
    OBVIOUS
<1> HIDE DEF c, type, y, g
<1>6. type # "ReadyForQuery" /\ UnderWay(c, m) = y
    BY <1>5 DEF UnderWay, GroupOfType, Startups, ReplicationCommand, type, y
<1>7. CASE type \in Startups \union {"Terminate", "IdentifySystem"}
    <2>1. g = Sets("config", "config", NoGroup) /\ y = "config"
        BY <1>1, <1>3, <1>7 DEF ClientGroups, ReplicationData, ClientTypes, GroupOfType, Startups
    <2>2. QED
        BY <2>1, <1>6, SetsIs DEF GroupsAfter, c, y, g
<1>8. CASE type \in {"Query", "CopyQuery"}
    <2>1. y = "sql" /\ (g = Sets("sql", "sql", NoGroup) \/ g = Sets("sql", "sql", "sql"))
        BY <1>1, <1>3, <1>8 DEF ClientGroups, ReplicationData, ClientTypes, GroupOfType, Startups,
           ReplicationCommand
    <2>2. QED
        BY <2>1, <1>6, SetsIs DEF GroupsAfter, c, y, g
<1>9. CASE type \in ReplicationCommand
    <2>1. y = "config" /\ g = Sets("config", "config", "wal") /\ Unanswered(c, m)
        BY <1>1, <1>3, <1>4, <1>9 DEF ClientGroups, ReplicationData, ClientTypes, GroupOfType, Startups,
           ReplicationCommand
    <2>2. QED
        BY <2>1, <1>6, SetsIs DEF GroupsAfter, c, y, g
<1>10. CASE type = "CopyBothResponse"
    <2>1. y = "wal" /\ g = Sets("wal", "wal", "wal")
        BY <1>1, <1>3, <1>10 DEF ServerGroups, ServerTypes, GroupOfType, Startups,
           ReplicationCommand
    <2>2. QED
        BY <2>1, <1>6, SetsIs DEF GroupsAfter, c, y, g
<1>11. QED
    BY <1>5, <1>7, <1>8, <1>9, <1>10 DEF GroupOfType

\* What is misleading misleads until the end of its command.
LEMMA MisleadingMisleads ==
    ASSUME NEW c \in Conversations, NEW m \in DOMAIN c, Misleading(c, m)
    PROVE  Misled(c, m) /\ (c[m].type # "ReadyForQuery" => StillMisled(c, m))
<1>1. m \in Nat /\ m >= 1
    BY MessageType
<1>2. m \in 1..m /\ m..(m - 1) = {} /\ (m + 1)..m = {} /\ m..m = {m}
    BY <1>1
<1>3. QED
    BY <1>2 DEF Misled, StillMisled

\* And no longer.
LEMMA MisledStays ==
    ASSUME NEW c \in Conversations, NEW m \in DOMAIN c, m > 1, StillMisled(c, m - 1),
           GroupOfType(c[m].type) = "none"
    PROVE  Misled(c, m) /\ (c[m].type # "ReadyForQuery" => StillMisled(c, m))
<1>1. m \in Nat /\ m - 1 \in Nat /\ m - 1 >= 1
    BY MessageType
<1>2. PICK q \in 1..(m - 1) : /\ Misleading(c, q)
                              /\ \A k \in q..(m - 1) : c[k].type # "ReadyForQuery"
                              /\ \A k \in (q + 1)..(m - 1) : GroupOfType(c[k].type) = "none"
    BY DEF StillMisled
<1>3. q \in 1..m /\ (\A k \in (q + 1)..m : k \in (q + 1)..(m - 1) \/ k = m)
      /\ \A k \in q..m : k \in q..(m - 1) \/ k = m
    BY <1>1, <1>2
<1>4. \A k \in (q + 1)..m : GroupOfType(c[k].type) = "none"
    BY <1>2, <1>3
<1>5. QED
    BY <1>2, <1>3, <1>4 DEF Misled, StillMisled

\* ReadyForQuery sets the groups right.
LEMMA ReadyGroups ==
    ASSUME conversation \in Conversations, NEW m \in DOMAIN conversation,
           conversation[m].type = "ReadyForQuery"
    PROVE  GroupsAfter(conversation, m, GroupsOf(m).current, GroupsOf(m).copy)
<1>1. conversation[m].dir = "server" /\ ReadAs(conversation, m) = "ReadyForQuery"
    BY ProtocolAssumption DEF ServerTypes, ReadAs
<1>2. GroupsOf(m) = Sets(ActiveQueryGroup, "sql", NoGroup)
    BY <1>1 DEF GroupsOf, ServerGroups, ReplicationData
<1>3. GroupsOf(m).current = "sql" /\ GroupsOf(m).copy = NoGroup
    BY <1>2, SetsIs
<1>4. QED
    BY <1>3 DEF GroupsAfter, UnderWay

\* Any other message that is not misleading gets the group of the command under way, if
\* they are right before it, and leaves them right.
LEMMA OtherGroups ==
    ASSUME conversation \in Conversations, conn \in ConnType, NEW m \in DOMAIN conversation,
           m > 1, GroupsAfter(conversation, m - 1, conn.current, conn.copy),
           GroupOfType(conversation[m].type) = "none", ~Misleading(conversation, m)
    PROVE  /\ GroupsOf(m).group = conversation[m].group
           /\ GroupsAfter(conversation, m, GroupsOf(m).current, GroupsOf(m).copy)
<1> DEFINE c == conversation
           type == c[m].type
           x == UnderWay(c, m - 1)
           y == c[m].group
           read == ReadAs(c, m)
           g == GroupsOf(m)
           cur == conn.current
           cop == conn.copy
<1>1. m \in Nat /\ c[m].dir \in Direction /\ m - 1 \in DOMAIN c /\ c[m - 1].group \in Group
    BY MessageType
<1>2. /\ y = x
      /\ type \in {"Authentication", "PasswordMessage"} => x = "config"
      /\ Unanswered(c, m - 1) =>
            c[m].dir = "server" /\ type \notin {"CopyData", "CopyDone", "CopyInResponse"}
    BY CommandAssumption DEF UnderWay, Misleading
<1>3. /\ type \in ClientTypes => c[m].dir = "client"
      /\ type \in ServerTypes => c[m].dir = "server"
    BY ProtocolAssumption
<1>4. x \in Group /\ cur = x /\ (cop \in {NoGroup, x} \/ Unanswered(c, m - 1))
    BY <1>1 DEF UnderWay, GroupsAfter, Group
<1>5. Unanswered(c, m - 1) /\ type \notin Answer => Unanswered(c, m)
    BY StaysUnanswered
<1>6. UnderWay(c, m) = IF type = "ReadyForQuery" THEN "sql" ELSE y
    BY DEF UnderWay
<1>7. ActiveQueryGroup = x
    BY <1>4, NoGroupIs DEF ActiveQueryGroup
<1>8. ActiveGroup = x \/ Unanswered(c, m - 1)
    BY <1>4, <1>7 DEF ActiveGroup
<1>9. read \in ReplicationData \/ read = type
    BY ReadAsIs
<1>10. read \in ReplicationData => y = "wal" /\ type # "ReadyForQuery"
    BY DEF Misleading, ReadAs, ReplicationData
<1>11. GroupOfType(type) = "none"
    OBVIOUS
<1>12. g = IF c[m].dir = "client" THEN ClientGroups(read) ELSE ServerGroups(read)
    BY DEF GroupsOf
<1>13. /\ g.group = y
       /\ g.current = UnderWay(c, m)
       /\ g.copy \in {NoGroup, UnderWay(c, m)} \/ Unanswered(c, m)
    <2> HIDE DEF c, type, x, y, read, g, cur, cop
    <2>1. CASE read \in ReplicationData
        <3>1. g = Sets("wal", "wal", "wal")
            BY <2>1, <1>12 DEF ClientGroups, ServerGroups, ReplicationData, Startups
        <3>2. QED
            BY <3>1, <2>1, <1>6, <1>10, SetsIs
    <2>2. CASE read \notin ReplicationData /\ c[m].dir = "client"
        <3>1. type \notin ServerTypes /\ cop \in {NoGroup, x} /\ ActiveGroup = x
            BY <2>2, <1>2, <1>3, <1>4, <1>8, Zenon DEF Direction
        <3>2. UnderWay(c, m) = y
            BY <3>1, <1>6 DEF ServerTypes
        <3>3. g = ClientGroups(type)
            BY <2>2, <1>9, <1>12
        <3>4. CASE type = "PasswordMessage"
            <4>1. g = Sets("config", cur, cop) /\ x = "config"
                BY <3>3, <3>4, <1>2 DEF ClientGroups, ReplicationData, Startups, Keeps, cur, cop
            <4>2. QED
                BY <4>1, <3>1, <3>2, <1>2, <1>4, SetsIs
        <3>5. CASE type # "PasswordMessage"
            <4>1. g = Sets(x, cur, cop) \/ g = Sets(x, cur, NoGroup)
                BY <2>2, <3>1, <3>3, <3>5, <1>9, <1>11 DEF ClientGroups, Keeps, GroupOfType,
                   ReplicationCommand, cur, cop
            <4>2. QED
                BY <4>1, <3>1, <3>2, <1>2, <1>4, SetsIs
        <3>6. QED
            BY <3>4, <3>5
    <2>3. CASE read \notin ReplicationData /\ c[m].dir = "server"
        <3>1. g = ServerGroups(type) /\ type \notin ReplicationData
            BY <2>3, <1>9, <1>12
        <3>2. CASE type = "ReadyForQuery"
            <4>1. g = Sets(x, "sql", NoGroup) /\ UnderWay(c, m) = "sql"
                BY <3>1, <3>2, <1>6, <1>7 DEF ServerGroups
            <4>2. QED
                BY <4>1, <1>2, SetsIs
        <3>3. CASE type \in {"CopyInResponse", "CopyOutResponse"}
            <4>1. g = Sets(x, cur, x) /\ UnderWay(c, m) = y
                BY <3>1, <3>3, <1>6, <1>7 DEF ServerGroups, cur
            <4>2. QED
                BY <4>1, <1>2, <1>4, SetsIs
        <3>4. CASE type = "CopyData"
            <4>1. ActiveGroup = x /\ cop \in {NoGroup, x} /\ UnderWay(c, m) = y
                BY <3>4, <1>2, <1>4, <1>6, <1>8
            <4>2. g = Sets(x, cur, cop)
                BY <3>1, <3>4, <4>1 DEF ServerGroups, Keeps, cur, cop
            <4>3. QED
                BY <4>1, <4>2, <1>2, <1>4, SetsIs
        <3>5. CASE type \notin {"ReadyForQuery", "CopyInResponse", "CopyOutResponse", "CopyData"}
            <4>1. type # "CopyBothResponse"
                BY <1>11 DEF GroupOfType, Startups, ReplicationCommand
            <4>2. UnderWay(c, m) = y /\ type \notin Answer
                BY <3>5, <4>1, <1>6 DEF Answer
            <4>3. g = Sets(x, cur, cop)
                BY <3>1, <3>5, <4>1, <1>2, <1>7 DEF ServerGroups, Keeps, cur, cop
            <4>4. cop \in {NoGroup, y} \/ Unanswered(c, m)
                BY <4>2, <1>2, <1>4, <1>5
            <4>5. QED
                BY <4>2, <4>3, <4>4, <1>2, <1>4, SetsIs
        <3>6. QED
            BY <3>2, <3>3, <3>4, <3>5
    <2>4. QED
        BY <2>1, <2>2, <2>3, <1>1 DEF Direction
<1>14. QED
    BY <1>13 DEF GroupsAfter

\* A message gets the group of its command and leaves that of the connection, or the
\* parser is misled.
LEMMA GroupRead ==
    ASSUME conversation \in Conversations, conn \in ConnType, NEW m \in DOMAIN conversation,
           m > 1 => \/ GroupsAfter(conversation, m - 1, conn.current, conn.copy)
                    \/ StillMisled(conversation, m - 1),
           m = 1 => conversation[m].type \in Startups
    PROVE  /\ GroupsOf(m).group = conversation[m].group \/ Misled(conversation, m)
           /\ \/ GroupsAfter(conversation, m, GroupsOf(m).current, GroupsOf(m).copy)
              \/ StillMisled(conversation, m)
<1> DEFINE type == conversation[m].type
<1>1. CASE GroupOfType(type) # "none"
    BY <1>1, CommandGroups
<1>2. CASE GroupOfType(type) = "none"
    <2>1. m > 1
        <3>1. m # 1
            BY <1>2 DEF GroupOfType, Startups
        <3>2. QED
            BY <3>1, MessageType
    <2>2. CASE Misleading(conversation, m)
        BY <2>2, MisleadingMisleads, ReadyGroups
    <2>3. CASE StillMisled(conversation, m - 1)
        BY <2>1, <2>3, <1>2, MisledStays, ReadyGroups
    <2>4. CASE ~Misleading(conversation, m) /\ ~StillMisled(conversation, m - 1)
        BY <2>1, <2>4, <1>2, OtherGroups
    <2>5. QED
        BY <2>2, <2>3, <2>4
<1>3. QED
    BY <1>1, <1>2

\* TakeMessage keeps the groups.
LEMMA TakeGroups ==
    ASSUME TypeInv, CleanInv, GroupInv, TakeMessage,
           UNCHANGED <<conversation, noise, pos, missing, faults>>
    PROVE  GroupInv'
<1> SUFFICES ASSUME Clean' PROVE GroupInv'
    BY DEF GroupInv
<1> DEFINE c == conversation
           n == Len(events)
           m == n + 1
           g == GroupsOf(m)
<1>1. Clean /\ Feeding /\ HasHeader
    BY CleanBefore, TakeIs
<1>2. c \in Conversations /\ n \in 0..Len(c) /\ n \in Nat
    BY <1>1, CleanAt
<1>3. /\ n < Len(c) /\ First = m /\ c[m].dir = feeding.dir
      /\ Readable(m, Starting)
      /\ TypeOf(m) \in Startups <=> n = 0
    BY <1>1, CleanHeader
<1>4. m \in DOMAIN c /\ m \in Nat /\ m - 1 = n /\ (m > 1 <=> n > 0) /\ (m = 1 <=> n = 0) /\ m > 0
    BY <1>2, <1>3, FrontIs
<1>5. TypeRead(m, Starting) = ReadAs(c, m)
    BY <1>3 DEF TypeRead
<1>6. GroupsRead = g
    BY <1>3, <1>5 DEF GroupsRead, GroupsOf
<1>7. n > 0 => GroupsAfter(c, n, conn.current, conn.copy) \/ StillMisled(c, n)
    BY <1>1 DEF GroupInv
<1> HIDE DEF c, m, n
<1>8. m > 1 => GroupsAfter(c, m - 1, conn.current, conn.copy) \/ StillMisled(c, m - 1)
    BY <1>4, <1>7
<1>9. conn \in ConnType /\ conversation \in Conversations
    BY DEF TypeInv
<1>10. /\ g.group = c[m].group \/ Misled(c, m)
       /\ GroupsAfter(c, m, g.current, g.copy) \/ StillMisled(c, m)
    <2>1. m = 1 => c[m].type \in Startups
        BY <1>3, <1>4 DEF TypeOf, c
    <2>2. QED
        BY <2>1, <1>4, <1>8, <1>9, GroupRead DEF c
<1> HIDE DEF g
<1>11. /\ EventRead \in EventType(c) /\ EventRead.group = g.group
       /\ events' = Append(events, EventRead) /\ events \in Seq(EventType(c))
       /\ conn'.current = g.current /\ conn'.copy = g.copy
    BY <1>6, TakeIs DEF EventRead, EventOf, TypeInv, c
<1>12. Len(events') = m
    BY <1>11, AppendIs DEF n, m
<1>13. \A i \in 1..m : events'[i].group = c[i].group \/ Misled(c, i)
    <2>1. \A i \in 1..n : events'[i] = events[i]
        BY <1>11, AppendIs DEF n
    <2>2. events'[m] = EventRead
        BY <1>11, AppendIs DEF n, m
    <2>3. \A i \in 1..m : i \in 1..n \/ i = m
        BY <1>2 DEF m
    <2>4. \A i \in 1..n : events[i].group = c[i].group \/ Misled(c, i)
        BY <1>1 DEF GroupInv, n, c
    <2>5. QED
        BY <2>1, <2>2, <2>3, <2>4, <1>10, <1>11
<1>14. conversation' = c
    BY DEF c
<1>15. QED
    BY <1>10, <1>11, <1>12, <1>13, <1>14 DEF GroupInv

\* The other steps leave the groups and the events alone.
LEMMA SameGroups ==
    ASSUME GroupInv, events' = events, conn' = conn, conversation' = conversation,
           Clean' => Clean
    PROVE  GroupInv'
BY DEF GroupInv

\* A chunk leaves the groups as they are: the buffer is not thrown away.
LEMMA ChunkGroups ==
    ASSUME TypeInv, CleanInv, GroupInv, NEW n \in 1..MaxChunk, NEW k \in 1..n, Chunk(n, k)
    PROVE  GroupInv'
<1> SUFFICES ASSUME Clean' PROVE GroupInv'
    BY DEF GroupInv
<1>1. /\ conversation' = conversation /\ faults' = faults + (IF k < n THEN 1 ELSE 0)
      /\ conn' = conn
      /\ events' = events \/ events' = Append(events, ErrorEvent(ActiveGroup))
    BY ChunkIs
<1>2. faults \in Nat /\ faults' = 0
    BY Bounds DEF TypeInv, Clean
<1>3. faults' = faults
    BY <1>1, <1>2
<1>4. Clean
    BY <1>1, <1>3, CleanBefore
<1>5. \A i \in 1..Len(events') : events'[i].made = "whole"
    BY ChunkCleans DEF CleanInv
<1>6. events' # Append(events, ErrorEvent(ActiveGroup))
    <2>1. SUFFICES ASSUME events' = Append(events, ErrorEvent(ActiveGroup)) PROVE FALSE
        OBVIOUS
    <2>2. ErrorEvent(ActiveGroup) \in EventType(conversation)
          /\ ErrorEvent(ActiveGroup).made = "error"
        BY ErrorEventType, GroupsType DEF TypeInv
    <2>3. /\ Len(events') = Len(events) + 1 /\ Len(events) \in Nat
          /\ events'[Len(events) + 1] = ErrorEvent(ActiveGroup)
        BY <2>1, <2>2, AppendIs DEF TypeInv
    <2>4. Len(events) + 1 \in 1..Len(events')
        BY <2>3
    <2>5. QED
        BY <2>2, <2>3, <2>4, <1>5
<1>7. QED
    BY <1>1, <1>4, <1>6, SameGroups

\* Return leaves them too, and FindSync does not happen.
LEMMA ParseGroups ==
    ASSUME TypeInv, CleanInv, GroupInv, FindSync \/ Return,
           UNCHANGED <<conversation, noise, pos, missing, faults>>
    PROVE  GroupInv'
<1> SUFFICES ASSUME Clean' PROVE GroupInv'
    BY DEF GroupInv
<1>1. Clean
    BY CleanBefore
<1>2. Return /\ Feeding
    BY <1>1, NoFindSync DEF Return
<1>3. ~feeding.truncated
    BY <1>1, <1>2 DEF CleanInv
<1>4. events' = events /\ conn' = conn
    BY <1>2, <1>3, ReturnIs
<1>5. QED
    BY <1>1, <1>4, SameGroups

\* So GroupInv holds.
LEMMA GroupStep == TypeInv /\ CleanInv /\ GroupInv /\ [Next]_vars => GroupInv'
<1> SUFFICES ASSUME TypeInv, CleanInv, GroupInv, [Next]_vars PROVE GroupInv'
    OBVIOUS
<1>1. ASSUME NEW n \in 1..MaxChunk, NEW k \in 1..n, Chunk(n, k) PROVE GroupInv'
    BY <1>1, ChunkGroups
<1>2. ASSUME NEW n \in 1..MaxChunk, MissingChunk(n) PROVE GroupInv'
    <2>1. faults \in Nat /\ faults' = faults + 1
        BY <1>2, Bounds DEF TypeInv, MissingChunk
    <2>2. faults' # 0
        BY <2>1
    <2>3. QED
        BY <2>2 DEF GroupInv, Clean
<1>3. CASE Parse
    BY <1>3, TakeGroups, ParseGroups DEF Parse
<1>4. CASE UNCHANGED vars
    BY <1>4 DEF vars, GroupInv, Clean, StartsOnce, Resets, TypeOf, Size
<1>5. QED
    BY <1>1, <1>2, <1>3, <1>4 DEF Next

\* It holds at the start, where there are no events.
LEMMA GroupInit == Init => GroupInv
<1> SUFFICES ASSUME Init PROVE GroupInv
    OBVIOUS
<1>1. Len(events) = 0
    BY EmptySeq DEF Init
<1>2. QED
    BY <1>1 DEF GroupInv

(* Then, too, each message has the group of the command it belongs to, but *)
(* for copy rows taken for replication data and the answer to BASE_BACKUP: *)
(* ReadyForQuery or the next command ends what they do (group.go).         *)
THEOREM GroupsCorrect == Spec => []GroupsFollowCommands
<1>1. TypeInv /\ CleanInv /\ GroupInv => GroupsFollowCommands
    <2> SUFFICES ASSUME TypeInv, CleanInv, GroupInv, Clean, NEW i \in DOMAIN events
                 PROVE  \/ events[i].group = conversation[events[i].m].group
                        \/ Misled(conversation, events[i].m)
        BY DEF GroupsFollowCommands, Clean
    <2>1. i \in 1..Len(events)
        BY LenProperties DEF TypeInv
    <2>2. /\ events[i].m = i
          /\ events[i].group = conversation[i].group \/ Misled(conversation, i)
        BY <2>1 DEF CleanInv, GroupInv
    <2>3. QED
        BY <2>2
<1>2. Spec => []GroupInv
    BY GroupInit, GroupStep, TypesHold, ParserStaysClean, PTL DEF Spec
<1>3. QED
    BY <1>1, <1>2, TypesHold, ParserStaysClean, PTL
=============================================================================
