----------------------------- MODULE WalDecoder -----------------------------
(***************************************************************************)
(* walStreamDecoder (internal/wire/waldecode.go) fed with the XLogData     *)
(* messages of one replication connection: append, the loop of consume, a  *)
(* step per iteration, and trimConsumed.                                   *)
(*                                                                         *)
(* A byte is named by the LSN it was sent from; `Records', `Reads' and the *)
(* layout constants say what the WAL holds there.  Sizes are in units of   *)
(* the model, not in bytes: only their order matters.  The page size is    *)
(* the one the long headers announce.                                      *)
(*                                                                         *)
(* The sender is the environment: it sends the WAL in order, from where it *)
(* stands.  A message may be dropped by the ring buffer, or captured in    *)
(* part, which DecodePreview reads on a copy of the decoder; a new         *)
(* START_REPLICATION may go back to an earlier page.                       *)
(***************************************************************************)
EXTENDS Integers, Sequences, FiniteSets

CONSTANTS
    PageSize,       \* pageSize
    PageHeader,     \* walShortPageHeaderSize
    LongHeader,     \* walLongPageHeaderSize
    SegmentSize,    \* the first page of a segment has a long header
    RecordHeader,   \* walRecordHeaderSize
    Align,          \* walAlignment
    BufferCap,      \* maxWALDecoderBufferBytes
    MaxRecords,     \* maxWALRecordsPerMessage
    Records,        \* the LSNs where a WAL record starts
    Reads,          \* the length a record header read at an LSN announces,
                    \* 0 when it is not plausible
    MaxLSN,         \* bound on the stream
    Senders         \* what a sender may do: the sizes of its messages, whether
                    \* messages get lost, whether it goes back

LSN == 0..MaxLSN
NoCopy == [bytes |-> <<>>]

ASSUME LayoutAssumption ==
    /\ PageHeader \in Nat \ {0}
    /\ LongHeader \in Nat /\ LongHeader >= PageHeader
    /\ PageSize \in Nat /\ PageSize > LongHeader
    /\ SegmentSize \in Nat \ {0} /\ SegmentSize % PageSize = 0
    /\ RecordHeader \in Nat \ {0}
    /\ Align \in Nat \ {0}
    /\ BufferCap \in Nat /\ BufferCap >= 2 * PageSize
    /\ MaxRecords \in Nat \ {0}
    /\ MaxLSN \in Nat
    /\ Senders \subseteq
          [sizes : SUBSET (1..MaxLSN), loses : BOOLEAN, restarts : BOOLEAN]
ASSUME ContentAssumption ==
    /\ Reads \in [LSN -> Nat]
    /\ \A x \in LSN : Reads[x] = 0 \/ Reads[x] >= RecordHeader
    /\ Records \subseteq {x \in LSN : Reads[x] > 0}

VARIABLES
    sender,         \* the sender of this stream
    bufferStart,    \* LSN of the first buffered byte
    buffer,         \* the buffered bytes, each named by its LSN
    synced,         \* whether bufferStart is taken for a record boundary
    original,       \* DecodePreview: the decoder, while its copy is in the
                    \* variables above; NoCopy otherwise
    pc,             \* "idle", or "consume" inside Feed or DecodePreview
    offset,         \* consume: position in the buffer
    found,          \* consume: records found in this call
    sent,           \* where the sender stands
    emitted,        \* history: records reported since the last restart
    ends,           \* history: where messages ended since the last restart
    dropped         \* history: the bytes the cap removed

decoderVars == <<bufferStart, buffer, synced, original, pc, offset, found>>
vars == <<sender, decoderVars, sent, emitted, ends, dropped>>

-----------------------------------------------------------------------------
(* The layout of the WAL                                                   *)

PageStart(x) == x % PageSize = 0
NextPage(x) == x + PageSize - (x % PageSize)

\* headerSz of page p.
HeaderSize(p) == IF p % SegmentSize = 0 THEN LongHeader ELSE PageHeader

\* A byte that is not in a page header.
IsData(z) == z % PageSize >= HeaderSize(z - (z % PageSize))

\* Those of x..y-1, and those that a reader from x takes for data: all up to the
\* next page.
Data(x, y) == {z \in x..(y - 1) : IsData(z)}
Taken(x, y) == Data(x, y) \union {z \in x..(y - 1) : z < NextPage(x)}

Lengths == {RecordHeader} \union {Reads[x] : x \in LSN}

\* Where `len' logical bytes that start at x end.
Ends == [s \in LSN \X Lengths |->
            LET x == s[1]  len == s[2]
            IN  CHOOSE y \in (x + 1)..(x + (len + 1) * PageSize) :
                   y - 1 \in Taken(x, y) /\ Cardinality(Taken(x, y)) = len]
EndOf(x, len) == Ends[<<x, len>>]

\* Records start at aligned places behind a page header, and they do not overlap.
\* Where one could start there is one, or nothing up to the end of the page: after
\* a switch to a new segment the old one is filled with zeros.
ASSUME WALAssumption ==
    /\ PageSize % Align = 0
    /\ \A r \in Records :
          /\ r % Align = 0 /\ IsData(r)
          /\ \A s \in Records : r < s => EndOf(r, Reads[r]) <= s
    /\ \A x \in LSN : x % Align = 0 /\ IsData(x) =>
          \/ \E r \in Records : r <= x /\ x < EndOf(r, Reads[r])
          \/ Reads[x] = 0 /\ \A r \in Records : r < x \/ r >= NextPage(x)

\* The page boundaries that a stretch x..y-1 crosses.
Boundaries(x, y) == {p \in (x + 1)..(y - 1) : PageStart(p)}

\* remLen of the header of page p: what is left of the record it cuts.
RemLen(p) ==
    LET cut == {r \in Records : r < p /\ p < EndOf(r, Reads[r])}
    IN  IF cut = {} THEN 0
        ELSE LET record == CHOOSE r \in cut : TRUE
             IN  Cardinality(Data(p, EndOf(record, Reads[record])))

-----------------------------------------------------------------------------
(* append                                                                  *)

BufferEnd == bufferStart + Len(buffer)

Bytes(lsn, len) == [i \in 1..len |-> lsn + i - 1]

\* Mutant: the overlap is taken from the wrong end of the message.
AppendedOverlap(lsn, len) ==
    IF buffer = <<>> \/ lsn > BufferEnd \/ lsn < bufferStart
    THEN [start |-> lsn,
          bytes |-> Bytes(lsn, len),
          synced |-> synced /\ buffer = <<>> /\ bufferStart = lsn]
    ELSE LET overlap == BufferEnd - lsn
         IN  [start |-> bufferStart,
              bytes |-> IF overlap < len
                        THEN buffer \o SubSeq(Bytes(lsn, len), 1, len - overlap)
                        ELSE buffer,
              synced |-> synced]

\* The buffer after a message, before the cap: extended when the message
\* starts inside it or at its end, replaced otherwise.
Appended(lsn, len) ==
    IF buffer = <<>> \/ lsn > BufferEnd \/ lsn < bufferStart
    THEN [start |-> lsn,
          bytes |-> Bytes(lsn, len),
          synced |-> synced /\ buffer = <<>> /\ bufferStart = lsn]
    ELSE LET overlap == BufferEnd - lsn
         IN  [start |-> bufferStart,
              bytes |-> IF overlap < len
                        THEN buffer \o SubSeq(Bytes(lsn, len), overlap + 1, len)
                        ELSE buffer,
              synced |-> synced]

\* Mutant: the cap spares a synchronised decoder.
CappedUnsynced(b) ==
    LET keep == IF 2 * PageSize < Len(b.bytes) THEN 2 * PageSize
                                               ELSE Len(b.bytes)
        cut == Len(b.bytes) - keep
    IN  IF Len(b.bytes) > BufferCap /\ ~ b.synced
        THEN [start |-> b.start + cut,
              bytes |-> SubSeq(b.bytes, cut + 1, Len(b.bytes)),
              synced |-> b.synced]
        ELSE b

\* Over the cap only the last two pages stay; `synced' is left as it was.
Capped(b) ==
    LET keep == IF 2 * PageSize < Len(b.bytes) THEN 2 * PageSize
                                               ELSE Len(b.bytes)
        cut == Len(b.bytes) - keep
    IN  IF Len(b.bytes) > BufferCap
        THEN [start |-> b.start + cut,
              bytes |-> SubSeq(b.bytes, cut + 1, Len(b.bytes)),
              synced |-> b.synced]
        ELSE b

(* append of `len' bytes, and on to consume.  The first message into an    *)
(* empty buffer returns from append before the cap.                        *)
Take(len) ==
    /\ LET uncapped == Appended(sent, len)
           b == IF buffer = <<>> THEN uncapped ELSE Capped(uncapped)
       IN  /\ bufferStart' = b.start
           /\ buffer' = b.bytes
           /\ synced' = b.synced
           /\ dropped' = IF original' = NoCopy
                         THEN dropped \union uncapped.start..(b.start - 1)
                         ELSE dropped
    /\ pc' = "consume"
    /\ offset' = 0
    /\ found' = 0

(* A message reaches the decoder.                                          *)
Feed(len) ==
    /\ pc = "idle"
    /\ sent + len <= MaxLSN
    /\ original' = NoCopy
    /\ Take(len)
    /\ sent' = sent + len
    /\ ends' = ends \union {sent + len}
    /\ UNCHANGED <<sender, emitted>>

(* The first `captured' bytes of a message reach a copy of the decoder.    *)
DecodePreview(len, captured) ==
    /\ sender.loses
    /\ pc = "idle"
    /\ captured < len
    /\ sent + len <= MaxLSN
    /\ original' = [start |-> bufferStart, bytes |-> buffer, synced |-> synced]
    /\ Take(captured)
    /\ sent' = sent + len
    /\ UNCHANGED <<sender, emitted, ends>>

(* The environment loses a message, or starts over at an earlier page.     *)
Lose(len) ==
    /\ sender.loses
    /\ pc = "idle"
    /\ sent + len <= MaxLSN
    /\ sent' = sent + len
    /\ UNCHANGED <<sender, decoderVars, emitted, ends, dropped>>

Restart(lsn) ==
    /\ sender.restarts
    /\ pc = "idle"
    /\ lsn < sent
    /\ PageStart(lsn)
    /\ sent' = lsn
    /\ emitted' = <<>>
    /\ ends' = {}
    /\ dropped' = {}
    /\ UNCHANGED <<sender, decoderVars>>

-----------------------------------------------------------------------------
(* consume, one iteration per step                                         *)

Here == bufferStart + offset
allowPartial == original # NoCopy
Left == Len(buffer) - offset

\* The whole page is buffered after its header.
PageIsThere(after) == Len(buffer) - after >= PageSize - HeaderSize(Here)

\* collectWALLogicalBytes: `len' logical bytes from position x are all there
\* ("ok"), some are still to come ("more"), or a page header on the way is not
\* ("bad"): without the continuation it should announce, or cut short by the end
\* of the buffer, which a preview does not mind.
Collect(x, len) ==
    LET end == EndOf(x, len)
        bad == {p \in Boundaries(x, end) :
                   /\ p <= BufferEnd
                   /\ IF BufferEnd < p + HeaderSize(p) THEN ~ allowPartial
                                                    ELSE RemLen(p) = 0}
    IN  IF bad # {} THEN "bad"
        ELSE IF BufferEnd >= end THEN "ok"
        ELSE "more"

\* parseOneWALRecordFromBuffer: the header first, then the length it announces.
\* A preview takes a record of which only the header is there.
Parse(x) ==
    LET header == Collect(x, RecordHeader)
    IN  IF header = "more" /\ allowPartial THEN "bad"
        ELSE IF header # "ok" THEN header
        ELSE IF Reads[x] = 0 THEN "bad"
        ELSE Collect(x, Reads[x])

\* Mutant: a preview works on the decoder itself.
LeaveNoCopy(consumed, isSynced) ==
    /\ bufferStart' = bufferStart + consumed
    /\ buffer' = SubSeq(buffer, consumed + 1, Len(buffer))
    /\ synced' = isSynced
    /\ original' = NoCopy
    /\ offset' = 0
    /\ pc' = "idle"

\* trimConsumed and the return from Feed; the copy of a preview is thrown away.
Leave(consumed, isSynced) ==
    /\ \/ /\ original = NoCopy
          /\ bufferStart' = bufferStart + consumed
          /\ buffer' = SubSeq(buffer, consumed + 1, Len(buffer))
          /\ synced' = isSynced
       \/ /\ original # NoCopy
          /\ bufferStart' = original.start
          /\ buffer' = original.bytes
          /\ synced' = original.synced
    /\ original' = NoCopy
    /\ offset' = 0
    /\ pc' = "idle"

GoOn(consumed, isSynced) ==
    /\ offset' = consumed
    /\ synced' = isSynced
    /\ UNCHANGED <<bufferStart, buffer, original, pc>>

InLoop == pc = "consume" /\ found < MaxRecords /\ offset < Len(buffer)

(* The loop condition fails.                                               *)
LoopEnds ==
    /\ pc = "consume"
    /\ (found >= MaxRecords \/ offset >= Len(buffer))
    /\ Leave(offset, synced)
    /\ UNCHANGED <<sender, found, sent, emitted, ends, dropped>>

\* Mutant: the tail of the record that the page cuts is not skipped.
AtPageNoTail ==
    /\ InLoop
    /\ PageStart(Here)
    /\ IF Left < HeaderSize(Here) THEN Leave(offset, synced)
                            ELSE GoOn(offset + HeaderSize(Here), TRUE)
    /\ UNCHANGED <<sender, found, sent, emitted, ends, dropped>>

(* A page boundary: its header, and the tail of the record it cuts.        *)
AtPage ==
    /\ InLoop
    /\ PageStart(Here)
    /\ LET after == offset + HeaderSize(Here)
           rest == PageSize - HeaderSize(Here)
           tail == RemLen(Here)
       IN  \/ /\ Left < HeaderSize(Here)
              /\ Leave(offset, synced)
           \/ /\ Left >= HeaderSize(Here) /\ tail = 0
              /\ GoOn(after, TRUE)
           \/ /\ Left >= HeaderSize(Here) /\ tail > 0 /\ ~ PageIsThere(after)
              /\ Leave(after, TRUE)
           \/ /\ Left >= HeaderSize(Here) /\ tail > 0 /\ PageIsThere(after)
              /\ GoOn(after + (IF tail < rest THEN tail ELSE rest), TRUE)
    /\ UNCHANGED <<sender, found, sent, emitted, ends, dropped>>

\* The loop skips `skip' bytes, or stops when they are not all there.
Skip(skip, isSynced) == IF skip > Left THEN Leave(offset, isSynced)
                                       ELSE GoOn(offset + skip, isSynced)

(* Not synchronised: on to the next page.                                  *)
Resync ==
    /\ InLoop
    /\ ~ PageStart(Here)
    /\ offset = 0 /\ ~ synced
    /\ Skip(NextPage(Here) - Here, synced)
    /\ UNCHANGED <<sender, found, sent, emitted, ends, dropped>>

(* Padding between records.                                                *)
Pad ==
    /\ InLoop
    /\ ~ PageStart(Here)
    /\ ~ (offset = 0 /\ ~ synced)
    /\ Here % Align # 0
    /\ Skip(Align - (Here % Align), synced)
    /\ UNCHANGED <<sender, found, sent, emitted, ends, dropped>>

AtRecord ==
    /\ InLoop
    /\ ~ PageStart(Here)
    /\ ~ (offset = 0 /\ ~ synced)
    /\ Here % Align = 0

Emit(end) ==
    /\ found' = found + 1
    /\ emitted' = Append(emitted, [lsn |-> Here, end |-> end,
                                  preview |-> allowPartial])

(* A record that is not all there yet: more must come, or the preview shows*)
(* what there is and stops.                                                *)
NeedMore ==
    /\ AtRecord
    /\ Parse(Here) = "more"
    /\ Leave(offset, synced)
    /\ \/ ~ allowPartial /\ UNCHANGED <<found, emitted>>
       \/ allowPartial /\ Emit(BufferEnd)
    /\ UNCHANGED <<sender, sent, ends, dropped>>

(* Bytes that do not parse as a record: on to the next page.               *)
BadRecord ==
    /\ AtRecord
    /\ Parse(Here) = "bad"
    /\ Skip(NextPage(Here) - Here, FALSE)
    /\ UNCHANGED <<sender, found, sent, emitted, ends, dropped>>

\* Mutant: what was emitted is not consumed.
GoodRecordStays ==
    /\ AtRecord
    /\ Parse(Here) = "ok"
    /\ Emit(EndOf(Here, Reads[Here]))
    /\ Leave(offset, TRUE)
    /\ UNCHANGED <<sender, sent, ends, dropped>>

(* A record.                                                               *)
GoodRecord ==
    /\ AtRecord
    /\ Parse(Here) = "ok"
    /\ Emit(EndOf(Here, Reads[Here]))
    /\ GoOn(EndOf(Here, Reads[Here]) - bufferStart, TRUE)
    /\ UNCHANGED <<sender, sent, ends, dropped>>

-----------------------------------------------------------------------------
Init ==
    /\ sender \in Senders
    /\ bufferStart = 0
    /\ buffer = <<>>
    /\ synced = FALSE
    /\ original = NoCopy
    /\ pc = "idle"
    /\ offset = 0
    /\ found = 0
    /\ sent = 0
    /\ emitted = <<>>
    /\ ends = {}
    /\ dropped = {}

Consume ==
    \/ LoopEnds \/ AtPage \/ Resync \/ Pad
    \/ NeedMore \/ BadRecord \/ GoodRecord

FeedAny == \E len \in sender.sizes : Feed(len)
PreviewAny == \E len \in sender.sizes : \E captured \in 1..len : DecodePreview(len, captured)
LoseAny == \E len \in sender.sizes : Lose(len)
RestartAny == \E lsn \in LSN : Restart(lsn)

Next == FeedAny \/ PreviewAny \/ LoseAny \/ RestartAny \/ Consume

Spec == Init /\ [][Next]_vars

-----------------------------------------------------------------------------
(* Properties                                                              *)

\* Memory is bounded: the cap, or one message into an empty buffer.
BufferBounded ==
    \/ Len(buffer) <= BufferCap
    \/ \E len \in sender.sizes : Len(buffer) <= len

\* The variables have their types, positions stay within the stream, and the
\* buffer within its bound.
TypeOK ==
    /\ sender \in Senders
    /\ bufferStart \in LSN
    /\ buffer \in Seq(LSN)
    /\ synced \in BOOLEAN
    /\ original \in [start : LSN, bytes : Seq(LSN), synced : BOOLEAN] \union {NoCopy}
    /\ pc \in {"idle", "consume"}
    /\ offset \in 0..Len(buffer)
    /\ found \in 0..MaxRecords
    /\ sent \in LSN
    /\ emitted \in Seq([lsn : LSN, end : LSN, preview : BOOLEAN])
    /\ ends \subseteq LSN
    /\ dropped \subseteq LSN
    /\ BufferBounded

\* Every buffered byte is the one the WAL holds at bufferStart plus its index,
\* through overlaps, gaps, restarts, the cap and trimConsumed: the LSN that
\* consume computes for a position is right.
BufferIsWindow == \A i \in DOMAIN buffer : buffer[i] = bufferStart + i - 1

\* The buffer implements the abstract window; a preview leaves it alone.
From == IF allowPartial THEN original.start ELSE bufferStart
To == IF allowPartial THEN original.start + Len(original.bytes) ELSE BufferEnd
Window == INSTANCE WalWindow WITH from <- From, to <- To,
             next <- sent, Positions <- LSN, Lengths <- 1..MaxLSN
ImplementsWindow == Window!WindowSpec

\* With a sender that does not go back, records are reported in the order of the
\* WAL and no two overlap: none is reported twice, though the tail of the buffer
\* is parsed again with every message, a preview reports what its copy finds, and
\* maxWALRecordsPerMessage leaves whole records behind for the next call.
EmittedInOrder ==
    ~ sender.restarts =>
        \A i, j \in DOMAIN emitted : i < j => emitted[i].end <= emitted[j].lsn

\* TestWALStreamDecoderDecodesRecordMetadata: "expected record LSN %s, got %s".
\* Every record reported starts where a record of the WAL starts.
RecordsAreReal == \A i \in DOMAIN emitted : emitted[i].lsn \in Records

\* Records in front of the buffer.
Passed == {r \in Records : EndOf(r, Reads[r]) <= bufferStart}

\* Nothing is lost, and messages end at page boundaries.
Tidy ==
    /\ ~ sender.loses /\ ~ sender.restarts
    /\ \A len \in sender.sizes : len % PageSize = 0

\* From a tidy sender every record reported is one of the WAL, and the only ones
\* passed over without a report are those that a message end cuts in two and
\* those the cap removes.
TidyStreamIsDecoded ==
    Tidy => /\ RecordsAreReal
            /\ \A r \in Passed :
                  \/ \E i \in DOMAIN emitted : emitted[i].lsn = r
                  \/ \E e \in ends : r < e /\ e < EndOf(r, Reads[r])
                  \/ r \in dropped

=============================================================================
