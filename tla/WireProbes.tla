----------------------------- MODULE WireProbes -----------------------------
(***************************************************************************)
(* The probes of bpf/wire.bpf.c on the reads and writes of PostgreSQL      *)
(* backends.  A thread has a stack of calls: a read may call a write before*)
(* it returns (secure_read processes interrupts), and an error may leave   *)
(* all calls at once.  The enter probe saves the call under the thread's   *)
(* id, the exit probe takes it from there.                                 *)
(*                                                                         *)
(* The probes of one executable are attached one after the other while its *)
(* backends run (runtime.go, attachSymbolSet), so calls may be under way.  *)
(* The kernel catches the return of a call only if the exit probe was there*)
(* when the call was made.  The in-flight map is an LRU hash: it may drop  *)
(* an entry at any time.                                                   *)
(*                                                                         *)
(* An event carries the first bytes of the call's buffer: as many as fit,  *)
(* copied in blocks and then one by one, and the reader in user space cuts *)
(* them once more.  A byte of a buffer is its offset.                      *)
(***************************************************************************)
EXTENDS Integers, Sequences, FiniteSets

CONSTANTS
    Thread,
    MaxCalls,       \* bound on the calls of all threads
    MaxDepth,       \* bound on nested calls
    Results,        \* what a call may return: bytes, 0 for none or an error
    RingCap,        \* events that fit the ring buffer
    Block,          \* 64 in the code
    CaptureMax,     \* WIRE_CAPTURE_BYTES, a number of blocks
    CaptureOptions  \* values -capture-bytes may have

ASSUME BoundAssumption ==
    MaxCalls \in Nat /\ MaxDepth \in Nat /\ RingCap \in Nat \ {0}
ASSUME CaptureAssumption ==
    /\ Block \in Nat \ {0} /\ CaptureMax \in Nat \ {0} /\ CaptureMax % Block = 0
    /\ Results \subseteq Nat /\ CaptureOptions \subseteq 0..CaptureMax

VARIABLES
    probes,     \* how many of the four probes are attached, in order
    calls,      \* calls made so far; they are numbered from 1
    stack,      \* the calls each thread is in, innermost first
    inflight,   \* wire_inflight: the call saved for a thread, NoCall if none
    ring,       \* wire_events
    limit,      \* captureBytes of the runtime, fixed at the start
    chunk,      \* the chunk the reader handed on last, NoChunk at first
    missed,     \* history: calls that returned data without an event
    excused     \* history: calls whose event the design gives up (see Enter,
                \* Evict and Exit)

vars == <<probes, calls, stack, inflight, ring, limit, chunk, missed, excused>>

\* A call: its number stands for its port and buffer; `hooked' says whether
\* its return will be caught.
Direction == {"read", "write"}
Call == [id : 1..MaxCalls, dir : Direction, hooked : BOOLEAN]
NoCall == [id |-> 0, dir |-> "none", hooked |-> FALSE]

\* Mutant: the exit probe of a function is attached before its enter probe.
ExitFirst(dir, end) ==
    (IF dir = "read" THEN 0 ELSE 2) + (IF end = "enter" THEN 2 ELSE 1)

\* attachSymbolSet: read enter, read exit, write enter, write exit.
Place(dir, end) ==
    (IF dir = "read" THEN 0 ELSE 2) + (IF end = "enter" THEN 1 ELSE 2)

Attached(dir, end) == probes >= Place(dir, end)

Ids(s) == {s[i].id : i \in DOMAIN s}

-----------------------------------------------------------------------------
AttachNext ==
    /\ probes < 4
    /\ probes' = probes + 1
    /\ UNCHANGED <<calls, stack, inflight, ring, limit, chunk, missed, excused>>

(* A thread enters a read or a write.  Its entry replaces that of the calls*)
(* around it; a call whose return is not caught has no event.              *)
Enter(t, dir) ==
    LET call == [id |-> calls + 1, dir |-> dir, hooked |-> Attached(dir, "exit")]
        saves == Attached(dir, "enter")
    IN  /\ calls < MaxCalls
        /\ Len(stack[t]) < MaxDepth
        /\ calls' = calls + 1
        /\ stack' = [stack EXCEPT ![t] = <<call>> \o @]
        /\ inflight' = IF saves THEN [inflight EXCEPT ![t] = call] ELSE inflight
        /\ excused' = excused \union (IF saves THEN Ids(stack[t]) ELSE {})
                              \union (IF call.hooked THEN {} ELSE {call.id})
        /\ UNCHANGED <<probes, ring, limit, chunk, missed>>

(* The LRU map makes room for another thread's entry.                      *)
Evict(t) ==
    /\ inflight[t] # NoCall
    /\ inflight' = [inflight EXCEPT ![t] = NoCall]
    /\ excused' = excused \union {inflight[t].id}
    /\ UNCHANGED <<probes, calls, stack, ring, limit, chunk, missed>>

-----------------------------------------------------------------------------
(* emit_event                                                              *)

Least(m, n) == IF m <= n THEN m ELSE n

CopyLen(total) == Least(total, CaptureMax)

\* Mutant: the bytes after the last whole block are not copied.
CopiesBlocks(len) == 0..((len \div Block) * Block - 1)

\* copy_user_data: the offsets it copies, whole blocks while they fit and then
\* at most a block of single bytes.
Copied(len) ==
    LET whole == Least(len \div Block, CaptureMax \div Block) * Block
    IN  (0..(whole - 1)) \union {whole + i : i \in {j \in 0..(Block - 1) : whole + j < len}}

Stale == -1     \* what was in the ring buffer before

Event == [saved : Call, of : 1..MaxCalls, total : Results, captured : 0..CaptureMax,
          truncated : BOOLEAN, data : [1..CaptureMax -> Stale..CaptureMax]]

\* What the event says of the call is what was saved; `of' is the call that
\* returned (history).
EventOf(t, total) ==
    LET len == CopyLen(total)
    IN  [saved |-> inflight[t], of |-> Head(stack[t]).id,
         total |-> total, captured |-> len, truncated |-> total > len,
         data |-> [i \in 1..CaptureMax |-> IF i - 1 \in Copied(len) THEN i - 1 ELSE Stale]]

\* Mutant: the entry stays in the map.
ExitKeepsEntry(t, total) ==
    LET call == Head(stack[t])
        emits == call.hooked /\ inflight[t] # NoCall /\ total > 0
        room == Len(ring) < RingCap
    IN  /\ stack[t] # <<>>
        /\ stack' = [stack EXCEPT ![t] = Tail(@)]
        /\ ring' = IF emits /\ room THEN Append(ring, EventOf(t, total)) ELSE ring
        /\ missed' = IF total > 0 /\ ~ (emits /\ room) THEN missed \union {call.id}
                                                     ELSE missed
        /\ excused' = IF emits /\ ~ room THEN excused \union {call.id} ELSE excused
        /\ UNCHANGED <<probes, calls, inflight, limit, chunk>>

\* Mutant: the event is written without a look at what reserve returned.
ExitUnchecked(t, total) ==
    LET call == Head(stack[t])
        emits == call.hooked /\ inflight[t] # NoCall /\ total > 0
    IN  /\ stack[t] # <<>>
        /\ stack' = [stack EXCEPT ![t] = Tail(@)]
        /\ ring' = IF emits THEN Append(ring, EventOf(t, total)) ELSE ring
        /\ inflight' = IF call.hooked THEN [inflight EXCEPT ![t] = NoCall]
                                      ELSE inflight
        /\ missed' = IF total > 0 /\ ~ emits THEN missed \union {call.id} ELSE missed
        /\ UNCHANGED <<probes, calls, limit, chunk, excused>>

(* The innermost call returns `total' bytes, if any.  Without room in the  *)
(* ring buffer the event is dropped.                                       *)
Exit(t, total) ==
    LET call == Head(stack[t])
        emits == call.hooked /\ inflight[t] # NoCall /\ total > 0
        room == Len(ring) < RingCap
    IN  /\ stack[t] # <<>>
        /\ stack' = [stack EXCEPT ![t] = Tail(@)]
        /\ ring' = IF emits /\ room THEN Append(ring, EventOf(t, total)) ELSE ring
        /\ inflight' = IF call.hooked THEN [inflight EXCEPT ![t] = NoCall]
                                      ELSE inflight
        /\ missed' = IF total > 0 /\ ~ (emits /\ room) THEN missed \union {call.id}
                                                     ELSE missed
        /\ excused' = IF emits /\ ~ room THEN excused \union {call.id} ELSE excused
        /\ UNCHANGED <<probes, calls, limit, chunk>>

(* An error leaves all calls of the thread: no exit probe runs.            *)
Unwind(t) ==
    /\ stack[t] # <<>>
    /\ stack' = [stack EXCEPT ![t] = <<>>]
    /\ UNCHANGED <<probes, calls, inflight, ring, limit, chunk, missed, excused>>

NoChunk == [total |-> 0, data |-> <<>>]

\* What RunEventLoop makes of an event.
ChunkOf(event) ==
    LET captured == Least(event.captured, limit)
    IN  [saved |-> event.saved, of |-> event.of, total |-> event.total,
         truncated |-> event.truncated \/ event.captured > captured,
         data |-> SubSeq(event.data, 1, captured)]

(* The reader in user space takes an event and hands on a chunk.           *)
Drain ==
    /\ ring # <<>>
    /\ chunk' = ChunkOf(Head(ring))
    /\ ring' = Tail(ring)
    /\ UNCHANGED <<probes, calls, stack, inflight, limit, missed, excused>>

-----------------------------------------------------------------------------
\* Open: 0 stands for the default, which is the maximum.
LimitOf(option) == IF option = 0 THEN CaptureMax ELSE option

Init ==
    /\ probes = 0 /\ calls = 0
    /\ stack = [t \in Thread |-> <<>>]
    /\ inflight = [t \in Thread |-> NoCall]
    /\ ring = <<>> /\ chunk = NoChunk
    /\ \E option \in CaptureOptions : limit = LimitOf(option)
    /\ missed = {} /\ excused = {}

Next ==
    \/ AttachNext \/ Drain
    \/ \E t \in Thread :
          \/ \E dir \in Direction : Enter(t, dir)
          \/ \E total \in Results : Exit(t, total)
          \/ Evict(t) \/ Unwind(t)

Spec == Init /\ [][Next]_vars

-----------------------------------------------------------------------------
(* Properties                                                              *)

Chunks == IF chunk = NoChunk THEN {} ELSE {chunk}
Events == {ring[i] : i \in DOMAIN ring} \union Chunks

\* The variables have their types: a thread has at most one entry, that of a
\* call made, and the ring buffer holds what fits.
TypeOK ==
    /\ probes \in 0..4
    /\ calls \in 0..MaxCalls
    /\ \A t \in Thread : stack[t] \in Seq(Call) /\ inflight[t] \in Call \union {NoCall}
    /\ ring \in Seq(Event) /\ Len(ring) <= RingCap
    /\ limit \in 1..CaptureMax
    /\ missed \union excused \subseteq 1..calls

\* Made while its enter probe was attached and its exit probe was not.
InTheGap(call) == call.dir = "write" /\ ~ call.hooked

\* An event is about the very call that returned: its direction and its buffer
\* are never those of a call inside it, or of one an error left behind.  The one
\* exception is a write made while its enter probe was attached and its exit
\* probe was not: it leaves an entry for the read around it.
EventsAreReturns ==
    \A e \in Events : e.saved.id = e.of \/ InTheGap(e.saved)

\* A chunk holds the first bytes of its call's buffer, each of them and none that
\* was in the ring buffer before: all of them, or as many as the smaller of the
\* two limits, and then it is marked as truncated.  The blocks of copy_user_data,
\* the limit of emit_event and that of RunEventLoop fit together.
ChunksArePrefixes ==
    \A c \in Chunks :
        LET n == Least(c.total, limit)
        IN  c.data = [i \in 1..n |-> i - 1] /\ (c.truncated <=> n < c.total)

\* A call that returned data has its event unless a call inside it replaced its
\* entry, the map evicted it, the ring buffer was full, or the call was made
\* before the exit probe was attached; entries left behind by errors and by
\* calls from before the attach cost nothing.
OnlyKnownLosses == missed \subseteq excused

=============================================================================
