----------------------------- MODULE Collector ------------------------------
(***************************************************************************)
(* The collector of internal/collector/snapshot.go between the kernel's map *)
(* of connections, the ring buffer of events and the subscribers, and the   *)
(* commands top, watch and events of cmd/nahuel/main.go that use it.        *)
(*                                                                         *)
(* Three kinds of goroutines run at the same time: the event loop, the one *)
(* that takes snapshots, and the subscribers.  They meet at the mutex of   *)
(* the collector; each action below is one critical section.  Snapshot     *)
(* reads the kernel's map entry by entry before it takes the lock, while   *)
(* connections open and close.  top takes one snapshot and has no event    *)
(* loop, watch takes one after the other, events subscribes and then starts*)
(* the event loop.                                                         *)
(*                                                                         *)
(* A connection is identified by its key, which may be used again: the     *)
(* model tells the connections apart by a number the code does not have.   *)
(* Of the two byte counters one is modelled.                               *)
(***************************************************************************)
EXTENDS Integers, Sequences, FiniteSets

CONSTANTS
    Keys,           \* keys are 1..Keys, in the order of the hash map
    Subscriber,     \* channels
    Buffers,        \* sizes Subscribe may be called with
    DoneCap,        \* 20 in the code
    EventCap,       \* 100 in the code
    RingCap,        \* events that fit the ring buffer
    Width,          \* byte counters are taken modulo Width
    MaxOpens, MaxTransfers, MaxRetransmits, MaxSnapshots    \* bounds

ASSUME CapAssumption == DoneCap \in Nat \ {0} /\ EventCap \in Nat \ {0}
ASSUME BoundAssumption ==
    {Keys, RingCap, Width, MaxOpens, MaxTransfers, MaxRetransmits, MaxSnapshots}
        \subseteq Nat
ASSUME BufferAssumption == Buffers \subseteq Int
\* 64-bit counters of bytes do not wrap.
ASSUME WidthAssumption == MaxTransfers < Width
ASSUME SubscriberAssumption == IsFiniteSet(Subscriber)

VARIABLES
    command,        \* "top", "watch" or "events"; "leaving" when its function
                    \* has returned, "over" when the runtime is closed
    entry,          \* active_conns: the entry of a key, NoEntry if none
    closing,        \* keys whose CLOSED event is out and whose entry is not
                    \* deleted yet
    kernel,         \* opens, transfers and retransmits so far
    ring,           \* the ring buffer
    loop,           \* the event loop: "off", "running", "failed" (LastLoopError)
                    \* or "ended"
    observer, recentEvent, recentDone, subscribers, previous,    \* the collector
    channel,        \* the channel of each subscriber
    reading,        \* Snapshot before it takes the lock
    shown,          \* the connections of the last snapshot; the rest of it is
                    \* recentDone and observer as they are at that moment
    snapshots,      \* how many were
    got,            \* history: per subscriber, events handled while it was
                    \* subscribed, received and dropped
    steady          \* history: connections in the map since the list was begun,
                    \* and whether an entry was deleted since

kernelVars == <<entry, closing, kernel, ring>>
collectorVars == <<observer, recentEvent, recentDone, subscribers, previous>>
vars == <<command, kernelVars, loop, collectorVars, channel, reading, shown, snapshots, got, steady>>

Key == 1..Keys
Conn == 1..MaxOpens
Entry == [conn : Conn, bytes : 0..MaxTransfers]
NoEntry == [conn |-> 0, bytes |-> 0]
Event == [type : {"ESTABLISHED", "CLOSED", "RETRANSMIT"}, conn : Conn]

Open(k) == entry[k] # NoEntry
InMap == {entry[k].conn : k \in {j \in Key : Open(j)}}

\* The first n elements of a list, or all.
Capped(s, n) == SubSeq(s, 1, IF Len(s) > n THEN n ELSE Len(s))

-----------------------------------------------------------------------------
(* The kernel and its probes, in the order in which handle_state_change    *)
(* works: the entry, then the event; the event, then the deletion.  An     *)
(* event that does not fit the ring buffer is lost.                        *)

Submit(type, conn) ==
    ring' = IF Len(ring) < RingCap
            THEN Append(ring, [type |-> type, conn |-> conn]) ELSE ring

KernelOpen(k) ==
    /\ ~Open(k) /\ kernel.opens < MaxOpens
    /\ kernel' = [kernel EXCEPT !.opens = @ + 1]
    /\ entry' = [entry EXCEPT ![k] = [conn |-> kernel'.opens, bytes |-> 0]]
    /\ Submit("ESTABLISHED", kernel'.opens)
    /\ UNCHANGED <<closing, steady>>

KernelTransfer(k) ==
    /\ Open(k) /\ kernel.transfers < MaxTransfers
    /\ kernel' = [kernel EXCEPT !.transfers = @ + 1]
    /\ entry' = [entry EXCEPT ![k].bytes = @ + 1]
    /\ UNCHANGED <<closing, ring, steady>>

KernelRetransmit(k) ==
    /\ Open(k) /\ k \notin closing /\ kernel.retransmits < MaxRetransmits
    /\ kernel' = [kernel EXCEPT !.retransmits = @ + 1]
    /\ Submit("RETRANSMIT", entry[k].conn)
    /\ UNCHANGED <<entry, closing, steady>>

KernelClose(k) ==
    /\ Open(k) /\ k \notin closing
    /\ closing' = closing \union {k}
    /\ Submit("CLOSED", entry[k].conn)
    /\ UNCHANGED <<entry, kernel, steady>>

KernelDelete(k) ==
    /\ k \in closing
    /\ closing' = closing \ {k}
    /\ entry' = [entry EXCEPT ![k] = NoEntry]
    /\ steady' = [conns |-> steady.conns \ {entry[k].conn}, all |-> FALSE]
    /\ UNCHANGED <<kernel, ring>>

\* Once the runtime is closed the probes are detached.
Kernel ==
    /\ command # "over"
    /\ \E k \in Key : \/ KernelOpen(k) \/ KernelTransfer(k) \/ KernelRetransmit(k)
                      \/ KernelClose(k) \/ KernelDelete(k)
    /\ UNCHANGED <<command, loop, collectorVars, channel, reading, shown, snapshots, got>>

-----------------------------------------------------------------------------
(* handleEvent: a select with a default, so it never waits for a subscriber*)

HasRoom(s) == Len(channel[s].queue) < channel[s].size

\* A send that does not count what it could not deliver.
DropsUncounted == 0

Drops == Cardinality({s \in subscribers : ~HasRoom(s)})

Counts(e) ==
    LET Is(type) == IF e.type = type THEN 1 ELSE 0
    IN  [established |-> observer.established + Is("ESTABLISHED"),
         closed |-> observer.closed + Is("CLOSED"),
         retransmit |-> observer.retransmit + Is("RETRANSMIT"),
         dropped |-> observer.dropped + Drops]

Record(e) == Capped(<<e>> \o recentEvent, EventCap)

Handle(e) ==
    /\ observer' = Counts(e)
    /\ recentEvent' = Record(e)
    /\ recentDone' = IF e.type = "CLOSED" THEN Capped(<<e>> \o recentDone, DoneCap)
                                          ELSE recentDone
    /\ channel' = [s \in Subscriber |->
                     IF s \in subscribers /\ HasRoom(s)
                     THEN [channel[s] EXCEPT !.queue = Append(@, e)] ELSE channel[s]]
    /\ got' = [s \in Subscriber |->
                 IF s \notin subscribers THEN got[s]
                 ELSE [got[s] EXCEPT !.due = Append(@, e),
                                     !.lost = @ + (IF HasRoom(s) THEN 0 ELSE 1)]]

(* RunEventLoop takes the next event to handleEvent.                       *)
EventLoop ==
    /\ loop = "running" /\ ring # <<>>
    /\ ring' = Tail(ring)
    /\ Handle(Head(ring))
    /\ UNCHANGED <<command, entry, closing, kernel, loop, subscribers, previous, reading,
                   shown, snapshots, steady>>

(* The loop ends for good with the first error; only snapshots say so.     *)
EventLoopFails ==
    /\ loop = "running"
    /\ loop' = "failed"
    /\ UNCHANGED <<command, kernelVars, collectorVars, channel, reading, shown, snapshots, got, steady>>

-----------------------------------------------------------------------------
(* Subscribers                                                             *)

Subscribe(s, size) ==
    /\ command = "events" /\ loop = "off" /\ channel[s].state = "none"
    /\ channel' = [channel EXCEPT ![s] =
                     [state |-> "open", size |-> IF size <= 0 THEN 1 ELSE size,
                      queue |-> <<>>]]
    /\ subscribers' = subscribers \union {s}
    /\ UNCHANGED <<command, kernelVars, loop, observer, recentEvent, recentDone, previous,
                   reading, shown, snapshots, got, steady>>

(* runEvents prints an event, or not, and returns when -limit is reached   *)
(* or when it cannot print.                                                *)
Receive(s) ==
    /\ command = "events" /\ channel[s].queue # <<>>
    /\ command' \in {"events", "leaving"}
    /\ channel' = [channel EXCEPT ![s].queue = Tail(@)]
    /\ got' = [got EXCEPT ![s].received = Append(@, Head(channel[s].queue))]
    /\ UNCHANGED <<kernelVars, loop, collectorVars, reading, shown, snapshots, steady>>

\* cancel closes the channel whether or not it was done before.
ClosesAlways(s) == TRUE

Closes(s) == s \in subscribers

(* runEvents has returned, its caller cancels.  cancel may be called again;*)
(* closing a closed channel panics.                                        *)
Cancel(s) ==
    /\ command = "leaving" /\ channel[s].state # "none"
    /\ Closes(s)
    /\ channel' = [channel EXCEPT ![s].state = IF @ = "open" THEN "closed" ELSE "panic"]
    /\ subscribers' = subscribers \ {s}
    /\ UNCHANGED <<command, kernelVars, loop, observer, recentEvent, recentDone, previous,
                   reading, shown, snapshots, got, steady>>

-----------------------------------------------------------------------------
(* ListConnections: the iterator of the map goes from key to key.  When the*)
(* key it is at was deleted it starts again from the first.                *)

\* The key after the iterator's, 0 when there is none.
NextKey ==
    LET from == IF reading.at # 0 /\ Open(reading.at) THEN reading.at ELSE 0
        left == {k \in Key : k > from /\ Open(k)}
    IN  IF left = {} THEN 0 ELSE CHOOSE k \in left : \A j \in left : k <= j

ListBegin ==
    /\ command = "top" \/ (command = "watch" /\ loop # "off")
    /\ reading.pc = "idle" /\ snapshots < MaxSnapshots
    /\ UNCHANGED command
    /\ reading' = [pc |-> "next", at |-> 0, list |-> <<>>]
    /\ steady' = [conns |-> InMap, all |-> TRUE]

ListNext ==
    /\ reading.pc = "next"
    /\ reading' = IF NextKey = 0 THEN [reading EXCEPT !.pc = "lock"]
                  ELSE [reading EXCEPT !.pc = "lookup", !.at = NextKey]
    /\ UNCHANGED <<command, steady>>

Found(k) == Append(reading.list, [key |-> k, conn |-> entry[k].conn,
                                  bytes |-> entry[k].bytes])

\* An entry that is gone ends the list.
ListLookupGivesUp ==
    /\ reading.pc = "lookup"
    /\ reading' = IF Open(reading.at)
                  THEN [reading EXCEPT !.pc = "next", !.list = Found(reading.at)]
                  ELSE [reading EXCEPT !.pc = "lock"]
    /\ UNCHANGED <<command, steady>>

ListLookup ==
    /\ reading.pc = "lookup"
    /\ reading' = IF Open(reading.at)
                  THEN [reading EXCEPT !.pc = "next", !.list = Found(reading.at)]
                  ELSE [reading EXCEPT !.pc = "next"]
    /\ UNCHANGED <<command, steady>>

(* The iterator gives up when deletions made it start again too often:     *)
(* Snapshot returns the error and changes nothing, the command returns too.*)
ListAborted ==
    /\ reading.pc = "next" /\ ~steady.all
    /\ command' = "leaving"
    /\ reading' = [pc |-> "idle", at |-> 0, list |-> <<>>]
    /\ UNCHANGED steady

List ==
    /\ ListBegin \/ ListNext \/ ListLookup \/ ListAborted
    /\ UNCHANGED <<kernelVars, loop, collectorVars, channel, shown, snapshots, got>>

-----------------------------------------------------------------------------
(* Snapshot under the lock                                                 *)

Listed(list, k) == {i \in DOMAIN list : list[i].key = k}
KeysOf(list) == {list[i].key : i \in DOMAIN list}
LastOf(list, k) == CHOOSE i \in Listed(list, k) : \A j \in Listed(list, k) : j <= i

\* The unsigned difference to the last snapshot.  The second time a key is in
\* the list no time has passed since the first.
Rate(list, i) ==
    LET k == list[i].key IN
    IF k \in DOMAIN previous /\ \A j \in Listed(list, k) : i <= j
    THEN (list[i].bytes - previous[k]) % Width
    ELSE 0

\* What is not in the list stays.
PreviousUnpruned(list) ==
    [k \in KeysOf(list) \union DOMAIN previous |->
        IF k \in KeysOf(list) THEN list[LastOf(list, k)].bytes ELSE previous[k]]

PreviousOf(list) == [k \in KeysOf(list) |-> list[LastOf(list, k)].bytes]

SnapshotLocked ==
    LET list == reading.list IN
    /\ reading.pc = "lock"
    /\ shown' = [i \in DOMAIN list |->
                    [key |-> list[i].key, conn |-> list[i].conn,
                     bytes |-> list[i].bytes, rate |-> Rate(list, i)]]
    /\ previous' = PreviousOf(list)
    /\ reading' = [pc |-> "idle", at |-> 0, list |-> <<>>]
    /\ snapshots' = snapshots + 1
    /\ command' = IF command = "top" THEN "leaving" ELSE command
    /\ UNCHANGED <<kernelVars, loop, observer, recentEvent, recentDone, subscribers,
                   channel, got, steady>>

-----------------------------------------------------------------------------
(* runConnectionCommand                                                    *)

Start ==
    /\ command = "watch" \/ (command = "events" /\ subscribers # {})
    /\ loop = "off"
    /\ loop' = "running"
    /\ UNCHANGED <<command, kernelVars, collectorVars, channel, reading, shown,
                   snapshots, got, steady>>

(* A signal: runWatch sees it between two snapshots, runEvents at once.    *)
Interrupted ==
    /\ command \in {"watch", "events"} /\ loop # "off" /\ reading.pc = "idle"
    /\ command' = "leaving"
    /\ UNCHANGED <<kernelVars, loop, collectorVars, channel, reading, shown,
                   snapshots, got, steady>>

(* The reader of the ring buffer is closed: the loop ends without an error.*)
CloseRuntime ==
    /\ command = "leaving" /\ subscribers = {}
    /\ command' = "over"
    /\ loop' = IF loop = "running" THEN "ended" ELSE loop
    /\ UNCHANGED <<kernelVars, collectorVars, channel, reading, shown, snapshots,
                   got, steady>>

-----------------------------------------------------------------------------
Init ==
    /\ command \in {"top", "watch", "events"}
    /\ entry = [k \in Key |-> NoEntry]
    /\ closing = {}
    /\ kernel = [opens |-> 0, transfers |-> 0, retransmits |-> 0]
    /\ ring = <<>>
    /\ loop = "off"
    /\ observer = [established |-> 0, closed |-> 0, retransmit |-> 0, dropped |-> 0]
    /\ recentEvent = <<>> /\ recentDone = <<>>
    /\ subscribers = {}
    /\ previous = <<>>
    /\ channel = [s \in Subscriber |-> [state |-> "none", size |-> 0, queue |-> <<>>]]
    /\ reading = [pc |-> "idle", at |-> 0, list |-> <<>>]
    /\ shown = <<>>
    /\ snapshots = 0
    /\ got = [s \in Subscriber |-> [due |-> <<>>, received |-> <<>>, lost |-> 0]]
    /\ steady = [conns |-> {}, all |-> TRUE]

Next ==
    \/ Kernel
    \/ EventLoop
    \/ EventLoopFails
    \/ \E s \in Subscriber :
         \/ \E size \in Buffers : Subscribe(s, size)
         \/ Receive(s)
         \/ Cancel(s)
    \/ List
    \/ SnapshotLocked
    \/ Start \/ Interrupted \/ CloseRuntime

Spec == Init /\ [][Next]_vars

-----------------------------------------------------------------------------
(* The variables have their types; the ring buffer, the two lists and each *)
(* channel hold no more than fits (snapshot.go, handleEvent); no channel is*)
(* closed twice or sent to once it is closed (snapshot.go, Subscribe).     *)
TypeOK ==
    /\ command \in {"top", "watch", "events", "leaving", "over"}
    /\ entry \in [Key -> Entry \union {NoEntry}]
    /\ closing \subseteq {k \in Key : Open(k)}
    /\ ring \in Seq(Event) /\ Len(ring) <= RingCap
    /\ loop \in {"off", "running", "failed", "ended"}
    /\ \A s \in Subscriber : channel[s].state \in {"none", "open", "closed"}
    /\ subscribers = {s \in Subscriber : channel[s].state = "open"}
    /\ Len(recentEvent) <= EventCap /\ Len(recentDone) <= DoneCap
    /\ DOMAIN previous \subseteq Key
    /\ \A s \in Subscriber : Len(channel[s].queue) <= channel[s].size
    /\ reading.pc \in {"idle", "next", "lookup", "lock"}

(* A subscriber gets the events handled while it is subscribed, in order,  *)
(* less those dropped because it was slow (snapshot.go, handleEvent), and  *)
(* DroppedEvents is the number of drops of all subscribers, past ones too. *)
(* The events command is subscribed before the first event is handled, so  *)
(* it misses none that was in the ring buffer by then (main.go).           *)
DeliveryIsExact ==
    LET Reached(s) == got[s].received \o channel[s].queue IN
    /\ command = "events" => \A s \in subscribers :
          Len(got[s].due) = observer.established + observer.closed + observer.retransmit
    /\ \A s \in Subscriber :
         /\ \E kept \in SUBSET DOMAIN got[s].due :
               Reached(s) = [i \in 1..Cardinality(kept) |->
                               got[s].due[CHOOSE j \in kept :
                                  Cardinality({m \in kept : m <= j}) = i]]
         /\ Len(Reached(s)) + got[s].lost = Len(got[s].due)
    /\ observer.dropped =
          Cardinality(UNION {{s} \X (1..got[s].lost) : s \in Subscriber})

(* The list a snapshot is made of has every connection that was in the map *)
(* all the time it was read, and has a connection twice only if an entry   *)
(* was deleted meanwhile (ListConnections takes no lock).                  *)
ListIsFair ==
    reading.pc = "lock" =>
        /\ steady.conns \subseteq {reading.list[i].conn : i \in DOMAIN reading.list}
        /\ steady.all => Cardinality(KeysOf(reading.list)) = Len(reading.list)

(* The rate of a connection is the bytes between this snapshot and the last*)
(* one, and zero for a connection that was not in the last one.  Only when *)
(* a connection took the key of another between the two is it neither: the *)
(* unsigned difference of unrelated counters (snapshot.go, Snapshot).      *)
RateStep ==
    LET before == shown
        now == shown'
        Fresh(i) == ~\E j \in 1..(i - 1) : now[j].key = now[i].key
    IN  \A i \in DOMAIN now : Fresh(i) =>
            LET last == Listed(before, now[i].key)
                was == before[LastOf(before, now[i].key)]
            IN  IF last = {} THEN now[i].rate = 0
                ELSE was.conn = now[i].conn => now[i].rate = now[i].bytes - was.bytes

RatesAreTransfers == [][snapshots' # snapshots => RateStep]_vars

=============================================================================
