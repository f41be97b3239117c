# Specifications of nahuel

nahuel watches PostgreSQL from the kernel.  One set of BPF programs follows TCP
connections, another takes copies of what PostgreSQL backends read and write; a
Go program collects both, decodes the PostgreSQL wire protocol and the WAL inside
it, joins the two views and prints them.

This directory holds TLA+ modules of its parts, the configurations that
model-check them with TLC, and proofs that the TLA+ proof system checks.
`PROJECT.json` maps every definition to the lines of source it stands for and
lists the runs, the hazards, the findings and the theorems.

Contents: [the system](#the-system), [the inventory](#inventory),
[the modules](#modules-and-their-correspondence-to-the-code),
[the runs](#runs), [findings](#findings), [observations](#observations),
[fairness](#fairness), [proofs](#proofs), [limits](#what-is-not-modelled),
[plan](#plan).

## The system

```
 kernel      netmon.bpf.c                         wire.bpf.c
             active_conns   conn_events           wire_inflight  wire_events
                 |              |                                     |
 goroutines  Snapshot       event loop                            event loop --- attach loop
             \______ Collector ____/                                  |
                 |         \                                       chunks
           network snapshot  subscribers                              |
                 |             (events)                             Parser
                 |                                                 /      \
                 |                                  WAL stream decoder    groups
                 |                                                    |
                 +------------------> Correlator <----- events -------+
                                          |
                               snapshot: totals, activity list
                                          |
                        monitor session: filter, activity log, table
```

Everything in user space meets in four places: the mutex of the collector, the
mutex of the correlator, the mutex of the wire runtime, and the channel of
chunks of the wire commands.  Everything in the kernel meets in hash maps, which
are read without a lock.

## Inventory

For each component: its state, its operations, with whom it interacts, what is
hard, and what makes it correct.

**Network probes** (`bpf/netmon.bpf.c`, `bpf/common.h`).  State: the hash map
`active_conns` (key, counters, TCP state), the LRU map `inflight_send`, the ring
buffer `conn_events`.  Operations: probes on `tcp_set_state`, `tcp_sendmsg`,
`tcp_cleanup_rbuf`, `tcp_retransmit_skb`, in a tracing (fentry) and a kprobe
variant.  Hard: probes of several CPUs run at once, a pointer into the map stays
in use while another CPU deletes or replaces the element, sends are accounted
after the socket lock is released.  Correct when counters and events are exact
but for races on the very connection.

**Network BPF loader** (`internal/bpf`).  State: the mode and the links.  Operations: `Open`
(attach the tracing programs one after the other, and kprobes when one fails),
`ListConnections`, `RunEventLoop`, `Close`.  Hard: connections come and go between two
attached probes, and the iteration is over a map that changes.  Correct when a
program that is attached late leaves nothing behind, and a list has what was there.

**Collector** (`internal/collector/snapshot.go`).  State: the counts of events,
the recent events and closed connections, the previous counters of each
connection, the subscribers' channels.  Operations: `Start`, `handleEvent`,
`Snapshot`, `Subscribe` and its `cancel`.  Hard: the list is read outside the lock, a
subscriber may be slow or leave.  Correct when deliveries and drops add up, no
channel is closed twice, a list has what was there all the time, and a rate is
the bytes since the last snapshot.

**Wire probes** (`bpf/wire.bpf.c`).  State: `wire_inflight`, one entry per thread,
and the ring buffer `wire_events`.  Operations: enter and exit of four functions
of PostgreSQL.  Hard: nested calls, calls that an error leaves, probes attached
while backends run.  Correct when an event describes the call that returned.

**Wire runtime** (`internal/wire/runtime.go`).  State: the attached executables,
the links, the attach mode.  Operations: `Open`, `refreshAttachments`, the attach
loop, `Close`, `RunEventLoop`.  Hard: the mutex is held for single reads and
writes of the record, not for a scan; Close comes at any time.  Correct when an
executable has one set of links and what can be attached is in the end.

**Wire command pipeline** (`cmd/nahuel/main.go`, `runWireCommand`).  State: two
channels, the context, the limit.  Operations: the cases of a select, the event
loop's hand-over.  Hard: every case may be ready together, a full channel blocks
the loop while the other side leaves.  Correct when no chunk is lost or reordered
in user space and both goroutines end.

**Wire parser** (`internal/wire/parser.go`, `group.go`).  State per connection:
startup seen, session, current group, copy group; per direction: the buffer,
whether startup is done, whether synchronisation is lost.  Operation: `Feed`, with
`parseBuffered`, `tryResync`, `decodeTruncatedEvent` and the group rules.  Hard: a
message may be cut anywhere, truncated, or missing; what follows must not be
misread.  Correct when messages are seen whole, in order, once, with the
session and the group of their command.

**WAL stream decoder** (`internal/wire/waldecode.go`).  State: the buffer, its LSN,
whether it starts at a record.  Operations: `Feed`, `DecodePreview`.  Hard: LSN and
page arithmetic under overlaps, gaps, restarts and the cap, with records across
pages and messages.  Correct when the buffer is one window of the WAL and the
records reported are those of the WAL, in order.

**Correlator** (`internal/correlator`).  State: totals per connection, totals of
processes not correlated yet, the activity list, three maps rebuilt with each
network snapshot.  Operations: `Handle`, `BuildSnapshot`.  Hard: an event may come
before or after the snapshot that tells its connection; what was put aside is
merged later, in the random order of a Go map.  Correct when every event is
counted once, for one connection, and the list says what the totals say.

**Session activity log** (`cmd/nahuel/session*.go`, `internal/correlator/query.go`).
State: the lines on display and their keys.  Operations: render (snapshot, filter,
merge), and the ways out of the select.  Hard: it merges views of different times.
Correct when keys and lines match, lines are true, and the newest events get there.

**Commands** `top`, `watch`, `events` (`cmd/nahuel/main.go`).  State: none but the
subscription of `events`.  Hard: they end while the event loop, a list or a delivery is
under way.  Correct when deliveries add up to the end.

**Others**: the models and queries, the socket lookup in `/proc`, rendering, branding,
build scripts, the generated kernel types.  See
[what is not modelled](#what-is-not-modelled).

## Modules and their correspondence to the code

Each module is one component.  `MC*.tla` gives an instance for TLC.  Operators
called "Mutant" in their comments are not part of the specification: they are
plausible bugs, used to see that a property notices them.

**Correlator** (`Handle`, `Refresh`, `Flush`, `Return`).  `Handle` is one critical
section of the code and one action.  `BuildSnapshot` holds the mutex throughout
but ranges over a Go map, so it is `Refresh` (`refreshProcessMapsLocked`), then a
`Flush` per pending process in any order, then `Return`; `mu` keeps `Handle` out in
between.  An event is its arrival number, and the counters of a group are kept as
how many times each event was added to them: sums of bytes can be right by
accident, multiplicities cannot.  What a network snapshot shows, with a connection
listed twice perhaps, and what `/proc` says, is any outcome the code could get
(`Observation`, `PidChoices`).

**SessionLog** extends Correlator with the render loop: `AskSnapshot`,
`GetSnapshot`, `Render` (`FilterConnections`, `FilterRecent`, `Merge`).  Handling an
event between the snapshot and the merge is the interleaving of interest.
`EventLoopEnds`, `Leave` and `InterruptedOrFails` end the command.

**WalWindow**, **WalDecoder**.  WalWindow says what the buffer promises: one
contiguous window of the stream, extended by a message that touches it, replaced
by one that does not, shrinking at the front.  WalDecoder is the code: `Take` is
`append` with its overlap, gap and cap, on behalf of `Feed` or of `DecodePreview`; one
action per branch of the loop in `consume` (`AtPage`, `Resync`, `Pad`, `NeedMore`,
`BadRecord`, `GoodRecord`); `Leave` is `trimConsumed`.  A preview works on a copy: the copy is
in the variables of the decoder, and `original` keeps what it was made of and comes
back at the end.  A byte is the LSN it was sent from, so that a byte in the wrong
place is seen.

**WireCommand**: the two goroutines of `runWireCommand`, an action per case of the
select and per step of `RunEventLoop`, with the deferred calls in their order.

**WireAttach**: `refreshAttachments` as steps between mutex sections (`SkipTarget`,
`Attach`, `AttachFails`, `Record`), run by `Open` or by the attach loop, beside `Close`
and a `/proc` that changes.  An executable has a set of symbols; the secure ones are
tried first, and one with both sets is attached by the others when that fails
(`CanAttachAs`, `attachedAs`).

**WireProbes**: each probe is one action, as a thread runs its own probes one
after the other; the interleaving is with attaching, eviction and errors.  The bytes
of an event are those of its call's buffer, by position, or what the ring buffer had
there before; `copy_user_data` copies blocks, and `RunEventLoop` cuts again.

**NetmonProbes**: the opposite, each map operation is an action (`Lookup`, `Create`,
`Relookup`, `Write`, `Emit`, `Delete`), because probes of two CPUs share the map.
Deleted elements may be handed out again while a pointer to them is in use, as in
a preallocated hash map.  The loader attaches the probes in its order while sockets
open and close, and falls back to kprobes, with empty maps, when one fails.  A client
is set to connecting before it has a port, so its first entry has a key of its own
(`NoPort`).  A kprobe whose return was missed leaves a saved send that a later return
of another socket picks up.

**Collector**: each critical section is an action; `ListConnections` is one step per
key and lookup, with the iterator of the kernel's map, which starts again when its
key was deleted.  The variable `command` says which command of nahuel runs: `top` (one
snapshot, no event loop), `watch` (snapshots until a signal or an error) or `events`
(subscribe, then the event loop, until a signal or the limit).

**WireParser**: a conversation is a sequence of messages that lie one after the other
(`at`, `size`); a byte is a cell, named by its position, and the first two cells of a
message are its header.  `Feed` appends a chunk; each turn of `parseBuffered` is
a step (`TakeMessage`, `FindSync`, `Return`).  What the parser reads as a header where
there is none is up to the data: `noise` says that it looks like a short message.
Copy data has the first byte of its payload, because the parser takes it for
replication data by that byte alone (`CopyType`); and the search for a message goes by the
code's list of codes, which leaves out two (`Unlisted`).
What a conversation may be is stated as assumptions: who sends what
(`ProtocolAssumption`), and which command a message belongs to (`CommandAssumption`).
The conversations checked are queries, a replication stream with a COPY after it, COPY in
both directions with rows that begin like replication data, a query larger than the buffer,
a base backup, a replication command that fails, a request for encryption, and a
backend that has the pid and the address of an earlier one.  `Misled` names the messages whose
group the parser cannot have right, and how long that lasts.

## Runs

| run | instance | distinct states | shows |
| --- | --- | --- | --- |
| correlator | 1 process in 2 cgroups, 2 connections, 2 groups, 3 events, a list of 2 | 157 000 | `CountingIsExact`, `ListIsTrue`, `LastIsNewest`, `NothingResolvableWaits`, `SessionIsOwn`, `NothingIsTakenBack` |
| session_log | 2 connections, 3 queries, 4 events, 3 lines | 165 000 | `LogAgreesWithTotals`, `AtMostTwoLines`, `LogCatchesUp` |
| wal_stream | 4 pages of 8 units, messages of 3 to 24, cap of 2 pages, 3 senders | 576 000 | `BufferIsWindow`, `EmittedInOrder`, `TidyStreamIsDecoded`, `ImplementsWindow` |
| wal_pieces | messages of 1 to 8 units, nothing lost | violation | `RecordsAreReal` fails |
| wire_command | 4 chunks, a channel of 1, a ring of 2, `-limit` 3 | 24 000 | `NothingSkipped`, `CommandEnds` |
| wire_attach | 3 executables: both sets of symbols, the TLS ones, none | 29 000 | `LinksAreKnown`, `AttachedInTheEnd` |
| wire_attach_keeps_running | the same | violation | `KeepsRunning` fails |
| wire_probes | 2 threads, 4 calls, depth 2, results of 0 to 5 bytes, room for 4, limits of 0 and 3 | 1 257 000 | `EventsAreReturns`, `ChunksArePrefixes`, `OnlyKnownLosses` |
| netmon_probes | 2 CPUs, 2 sockets with 1 or 2 keys, a client, 3 elements, 2 transfers | 1 200 000 | `OnlyRacesLose`, `EventsAreExact`, `EntriesHaveSockets`, `StateIsCurrent` |
| collector | 2 keys, 2 opens, 1 transfer, 3 snapshots, 1 subscriber, 3 commands | 3 700 000 | `DeliveryIsExact`, `ListIsFair`, `RatesAreTransfers` |
| wire_parser | 8 conversations, chunks of up to 4 cells, 2 faults | 1 662 000 | `EventsAreMessages`, `GroupsFollowCommands`, `NothingIsMadeUp`, `WholeMessagesAreSeen` |
| wire_parser_startup | the same, 1 fault | violation | `StartupIsSeen` fails |

Every passing run checks the type invariant of its module too.

Why the bounds are enough:

* *correlator*: three events are an event counted at once, one pending, and one
  that pushes another out of a list of two; two cgroups make the exact map miss
  where the map by pid hits; two connections in one cgroup make both ambiguous.
  What is said of any number is proved ([below](#proofs)), here and for the other modules.
* *session_log*: the log holds three lines and there are four events, two of which
  may be there in two forms: lines are pushed off and have to come back.  The third
  query has a limit smaller than what it selects.
* *wal_stream*: a period of four pages has a record that fits its page, one that goes
  on after a long page header, one with its header on two pages and one that ends
  its page; the cap is two pages, and messages go from a part of a page to more than
  the cap.  One sender loses messages and has them cut, one goes back too, the third
  sends whole pages.
* *wire_command*: with a channel of one and a ring of two all buffers are full with
  four chunks in flight; a limit of three falls inside a chunk of two events.
* *wire_probes*: results of one block, part of a block, the room there is and more;
  a depth of two is a read inside a read, and four calls fill a ring of two twice.
* *netmon_probes*: three elements are one more than the keys, so one can be
  recycled under a probe; both ends of a connection on one host share a key.  Three
  constraints keep it small.  `CalmLoading`: one CPU at a time is in a traced
  function while the loader attaches; what matters there is which probes of a call or of a
  connection's life are missing, not races.  `FewTransfers`: one transfer in kprobe
  mode, where sends of another port come on top.  `Telling`: nothing is explored once
  every key is disturbed, as no property says anything then.
* *collector*: two opens on two keys give a key that is used again, three snapshots
  a rate after a rate of nothing; a channel of one element is full at once, which
  is what `Subscribe` makes of a size of zero.
* *wire_parser*: chunks of four cells cut headers and payloads in all ways, a
  buffer of seven overflows with one message of the conversation `Large`, and two faults
  give a loss within the recovery from another.  `Replication` has a CopyDone of the server, which
  the search does not know, behind data that may be cut; `Rows` has a misleading row in a
  COPY that ends with ReadyForQuery and one in a COPY that the next command ends.

Deadlock checking is off where the system may really stop: the command has
exited, the conversation is over, or the bounds on calls are used up.  The
correlator never stops and is checked for deadlock.

## Findings

1. **A record where none starts** (`wal_pieces`; `waldecode.go:256`).  When a page is not all
   buffered, `consume` has already moved past its header and leaves the loop.
   `trimConsumed` then removes the header, which said how much of the page belongs to
   the previous record, and the decoder is still synchronised: the next message
   makes it read the middle of that record as a record header.
2. **The program gives up although it was asked to wait** (`wire_attach_keeps_running`;
   `runtime.go:249`).  The help of `-wait-for-postgres` says "keep running and attach when
   PostgreSQL processes appear".  `Open` forgives only that no executable was found; one
   that was found and could not be attached ends the program.
3. **The startup after an SSLRequest is not seen** (`wire_parser_startup`; `parser.go:176`).  Any
   startup packet ends the startup phase, a request for encryption too, so the
   Startup that follows is read as a regular message with a wrong length.  The
   messages after it are swallowed and the session stays unknown.

## Observations

Behaviour met while modelling that no document promises otherwise, so that it is
no finding:

* An event on the activity log before it was correlated comes again after it:
  `flushPendingLocked` changes fields that are part of the line's key.  `AtMostTwoLines`
  bounds it.
* When the WAL cap cuts the buffer, the decoder stays synchronised at an arbitrary
  byte.
* A send accounted after the close creates an entry of `active_conns` that nothing
  deletes.
* Two probes that miss a connection at the same time both insert an entry, and what the first
  has counted is lost.  In kprobe mode the state saved at the call of `tcp_sendmsg` may
  overwrite a newer one (`netmon.bpf.c:335`).
* A record whose first part ends exactly where the buffer and its page end is given up and
  not waited for (`waldecode.go:355`).
* The rate of a connection that took the key of another wraps to an enormous
  number; `RatesAreTransfers` excuses exactly that.
* A scan that is under way when `Close` runs may attach links that nobody closes
  before the process exits.  `LinksAreKnown` holds there too: they are on record.
* When the event loop fails, its error and the closed channel are ready together,
  and the select may take the channel and return no error.
* In `BASE_BACKUP` the CopyOutResponse sets the copy group back to that of the query, so
  the copied data is in the group `config`, though `group.go:73` sets `wal` when the command
  is sent.  `replicationRequested` changes nothing in `classifySQLGroup`.
* A row of a COPY is taken for replication data when it begins with `r` or `h` (client) or with `w`
  or `k` (server; `parser.go:546`, `591`).  It is shown as such, and the connection's groups are
  those of WAL until ReadyForQuery or the next command; a row with `w` of 25 bytes or more is
  given to the WAL decoder too.  `GroupsFollowCommands` says that it goes no further.
* `isKnownMessageCode` (`parser.go:910`) has neither `c` nor `V` for the server, so that after a
  loss a CopyDone of the server, or the result of a function call, is passed over until the
  next message that is on the list.  A CopyDone of the server has no name either
  (`parser.go:536`), so that it leaves the copy group alone; ReadyForQuery resets it.
* Most messages that are cut have no name (`parser.go:699`), so that a cut PasswordMessage, Terminate
  or Authentication is counted in the group under way and not as configuration.
* Pending totals that have startup parameters override the session of the connection, even
  when they are older.
* `consume` stops for good at a page whose header does not parse, until a gap or the
  cap moves the buffer.
* After a new START_REPLICATION that goes back into what is buffered, records are shown
  again: one a preview showed in part, and one that was left in the buffer because a call
  reports three at most (`waldecode.go:26`) and was reported from there before the new
  sender had passed it.  `EmittedInOrder` is about senders that do not go back.
* The cgroup of a connection is `self.serial_nr` of its css in `netmon.bpf.c:73`, that of a
  wire event `bpf_get_current_cgroup_id()` in `wire.bpf.c:109`: two different numbers, so the
  exact match of the correlator may miss and the match by pid decides.
* A client that connects leaves an entry with local port 0; once the port is chosen no
  probe looks for that key again, so it stays on the list.
* `last_pid` is set in softirq too (`netmon.bpf.c:138`), where it is of whatever process ran there.
* A reset in CLOSE_WAIT is shown as a FIN: the reason is derived from the state alone.
* In kprobe mode a send whose return probe was missed is added to the next one
  of its thread, possibly of another port.
* The result of `bpf_probe_read_user` is ignored: an unreadable buffer gives old
  bytes of the ring buffer.  `ChunksArePrefixes` is about readable ones.
* `events` is not told when the event loop has failed, and waits until it is interrupted.
* The connections of the parser and the totals of the correlator are never
  deleted.

## Fairness

Safety needs none.  `FairSpec` of WireCommand is weak fairness of the two goroutines,
`LoopStep` and `MainStep`: the Go scheduler starves no runnable goroutine, and neither
blocks except where its action is disabled (a full channel, an empty ring buffer).
The kernel, the user and failures owe nothing.  The select picks uniformly among the
ready cases; as the chunks are bounded, `SelectDone` is not passed over for ever, which
for unbounded chunks would be strong fairness of that case.

`FairSpec` of WireAttach is weak fairness of the ticker, of a scan's steps, and of main's
own steps once it has begun to close.  `Signal`, `Close`, and executables that come
and go are not fair.  `AttachedInTheEnd` assumes only that an executable stays and the
program goes on.

`SessionSpec` is weak fairness of `RenderLoop` (the ticker goes on, and BuildSnapshot, which
ranges over a finite map, comes to its end) and strong fairness of `Leave`: a select
with two ready cases picks at random, so it does not take the ticker each time it
could take the result of the event loop.  Events, signals and failures are not fair.

## Proofs

Each component that has proofs has them in a module of its own, `<Component>Proofs`;
those of SessionLog are in CorrelatorProofs, which they build on.  A theorem holds for
every value of the constants that satisfies the assumptions of its component's
module.  Every safety property that a passing run checks is proved.

Assumptions, beside types and bounds that are numbers: "none" values are no
values (`NoPid`, `NoConn`, `NoSlot` and their like); capacities are positive; a page
header fits its page, the long one is no shorter, and a segment is whole pages
(`LayoutAssumption`); what the parser reads as a record is at least a record
header long, as `parseWALRecordHeader` requires (`ContentAssumption`); a capture is
whole blocks (`CaptureAssumption`, as the constants of `wire.h` are); 64-bit counters
of bytes do not wrap (`WidthAssumption`); the subscribers are finitely many.  Two are
about what the environment writes, and are stated place by place so that nothing has to
be computed by recursion.  `WALAssumption`: records start at aligned places behind page
headers and do not overlap, and where one could start there is one, or nothing to the end of
the page, as after a switch of segment.  `LayoutAssumption`, `ProtocolAssumption` and
`CommandAssumption` of WireParser: the messages of a conversation follow each other, the client
begins with a startup packet, each type has its side, and a message that names no group
of its own belongs to the command under way.  TLC evaluates all of them on the instances.

**CorrelatorProofs**: any number of processes, cgroups, connections, groups,
sessions and events, and any length of the list.

* `TypeCorrect`: `TypeOK` is inductive by itself; the lemmas about `Apply`,
  `MergeAggregate`, `AppendRecent` and `Backfill` say what each makes of its arguments.
* `CountingCorrect`: `CountInv` is the type invariant with `CountingIsExact`.  Exactly once is
  not inductive alone: a flush adds the pending totals to a connection, and without
  knowing that nothing *else* is counted in them it could double an event; both halves
  are kept together.  `Handle` adds a number larger than all counted;
  a merge adds a pending total that holds what the connection's does not, and empties it.
* `ListCorrect`: `ListInv` adds that the maps name live connections, so that a line that is
  filled has endpoints, and that the list is the end of the log.  A line waits exactly
  if its event is pending: when `Flush` moves a process's totals it fills its lines in the
  same step.
* `WaitingCorrect`: a line without a connection has pending totals (`WaitingLineHasTotals`), so
  when nothing pending can be resolved no line can.
* `AttributionIsFinal`: no step lowers a connection's totals (`StepGrows`) or changes a line
  that names one.
* `ColumnsCorrect`: the later of two times is that of the newest event of the two
  aggregates merged, because each is the newest of its own (`MergeKeepsColumns`).
* `SessionsCorrect`: `SessionInv` says of pending totals too that their session was
  carried by an event they count; a merge takes over the events with the session.
* `SessionTypeCorrect`, `LogCorrect`, `TwoLinesCorrect`: every step of the command is a step
  of the correlator or leaves it alone (`SessionRunsCorrelator`), so all of the above
  holds of it.  `LogInv` says that each line, of the log and of a snapshot not merged yet, is
  true (`Told`), and that the lines of a snapshot are of different events.  A true
  line stays true since totals only grow (`ToldStays`); filtering and cutting make no
  line up and repeat none (`From`); `MergeLog` is about keys: those beyond the limit go, and
  since no two lines have the same, no line on display loses its own.  Two lines of an
  event that both name a connection would count it twice.

**WireCommandProofs**: any sizes of the channel and the ring buffer, any `-limit`.

* `TypeCorrect`: `PipeInv` adds when the loop holds a chunk and when it has failed.
* `OrderCorrect`: the way from the printer to the ring buffer is one sequence,
  `taken \o chunksCh \o held \o ring`, and each hand-over moves the boundary between two of its
  parts (`MoveHead`).  A drop, once the context is cancelled, leaves it in order (`DropOne`).

**WireAttachProofs**: any executables and any symbols.

* `LinksAreKnownAlways`: the inductive invariant adds that one executable at most is in
  hand, that it is not on record, and that between two scans there is none.  The
  mutex does not give that, since it is released between the look at the record and its
  change; that only one goroutine at a time scans does.
* `TypeCorrect`: the mode is recomputed with every change of what is attached, from what each
  executable was attached as, which does not change while it is on record (`SameMode`).

**WalDecoderProofs**: any sizes of pages, headers, segments, buffers and messages that
satisfy the layout, any contents of the WAL.

* `BufferCorrect`: `BufferInv` says that the buffer, and the one a preview puts aside, is a
  window, within the cap, with the offset of `consume` in it.  A window joined to one that
  touches it, and cut at either end, is a window (`JoinIsWindow`, `TailIsWindow`).
* `WindowRefinement`: `Feed` that takes a message is `Receive`, `Leave` that trims is
  `Forget`, and `Lose`, `Restart` and `DecodePreview` are `Move` or a stutter; steps of
  `consume` do not move the window.
* `OrderCorrect`: `OrderInv` says that what was reported ends at or before the place where
  parsing goes on: where `consume` is, or, between two calls, the start of the buffer, or
  everything sent, when a preview has reported beyond the buffer it puts back.  It
  rests on `EndIsThere`: the bytes a record takes, which skip page headers, end
  where `EndOf` says, beyond its start.
  The property says this of senders that do not go back.  After one that does, a record
  reported from the buffer can be reported again ([observations](#observations)).
* `TidyCorrect`: `TidyInv` says of a sender of whole pages that the buffer ends with what was
  sent, at the end of a page; that the parser is at the start of a page or, synchronised,
  behind a header and inside no record (`OnTrack`); and that every record before it is settled:
  reported, cut by the end of a message, or removed by the cap.  At a page the length that the
  header says is left of the record leads to the end of that record (`RemLenIs`, `TailEnds`); in
  a page the parser is at a record or in a gap (`RecordOrGap`); and a record that does
  not parse goes beyond the buffer, which ends with a message (`BadRecordIsCut`).

**WireProbesProofs**: any threads, calls, depths, results and limits; an induction
over blocks is avoided as `CopiedIsAll` looks at one byte.

* `ReturnsCorrect`: `EntryInv` says what the entry of a thread can be when a call is on its
  stack: none, one of the gap between two attached probes, or a call at or below it.
  A call that replaces the entry is above all others, so an exit never finds one
  from above.
* `ChunksCorrect`: what is copied, in whole blocks, is at least what is passed on and at
  most the room (`EventFacts`, `ChunkFacts`).
* `LossesCorrect`: `LossInv` says that a call on a stack is excused already or has its entry,
  and that a hooked call excuses every call above it.

**NetmonProbesProofs**: any threads, sockets, keys and elements.  `ProbesInv` has parts for
types, attaching (the probe that deletes is there before any that makes an entry), locks
(two probes in a locked function are of two sockets), keys, and the state shown.

* What is said of a key without a race (`KeyInv`) is that one probe at most runs on it while it
  has an entry (`Sole`), that only that probe points to the entry (`Pointers`), that the
  entry has counted what is due (`Exact`), and why it is there (`Needed`).  A step
  on another key cannot touch the entry though elements are recycled (`Elsewhere`), because
  of `Pointers`; at the key itself there is one probe to look at, because a second one
  would have made it `disturbed`.
* `CountsCorrect`, `EventsCorrect`, `EntriesCorrect` follow from `KeyInv`.
* `StateCorrect`: `Shows` says what an entry shows while the probe on the socket's state
  has run and the state is not stored yet.

**CollectorProofs**: any keys, entries, subscribers and channel sizes.  Two invariants that do
not depend on each other.

* `ListsCorrect`: `ListInv` says of a connection that has been in the map all the time that it
  is in the list or the iterator has it before it, and of a listing without a
  deletion that its keys increase.
* `RatesCorrect`: `GrowInv` says that a number of a connection is used once and its bytes grow
  from the last snapshot to the list to the entry; `PreviousInv` says that `previous` is the last
  snapshot.  So the unsigned difference of two counters of one connection is a
  difference of numbers.
* `DeliveryCorrect`: `ReachInv` says that what reached a subscriber is what it was due at
  an increasing sequence of positions, with the losses between them; a position is
  added at the end or a loss counted (`ExactWithRoom`, `ExactWithoutRoom`).  `LossInv` says that the
  counter of drops is the number of losses of all subscribers.

**WireParserProofs**: any conversations that satisfy the assumptions, and any sizes of
chunks, of the buffer and of what a resynchronisation keeps.  `TypeInv` types the streams, and
three invariants build on it.

* `NothingMadeUp`, `WholeSeen` rest on `TrackInv`, for an observer that misses no chunk after the first
  one, though chunks are cut and buffers reset.  A buffer holds cells of its side
  that have gone by (`Fits`); a cell of a message is followed by the rest of that message, then
  by later messages (`Steady`); no message that begins in it has an event (`Ahead`); the startup
  packet is at its front and read as one (`StartupFirst`); it ends with what went by last or with
  a message (`Caught`); and the buffer of the side that is not being fed holds at most a piece of
  a message (`Partial`).  So what is read at the front of a buffer as a header is one,
  and a message that was captured in one chunk stays in the buffer until its event, if its
  code is one that the search knows: the first that it finds is never behind such a message.
* `MessagesCorrect`: `CleanInv` says that without faults and resets the events are those of the
  first messages, and each buffer holds exactly what has gone by since (`Rest`).
* `GroupsCorrect`: `GroupInv` adds that, unless the parser is misled, the current group is that
  of the command under way (`UnderWay`), and that the group of a copy is the same or none, but
  between a replication command and its answer (`Unanswered`), when nothing that belongs to
  a copy is sent.  While it is misled (`StillMisled`) nothing is said of the groups; a command or
  ReadyForQuery sets both whatever they were, which ends it (`CommandGroups`, `ReadyGroups`).

What the proofs changed in the models.  `EmittedInOrder` used to excuse too little: the
attempt to prove it led to the records that are reported twice after a restart.
Selections from a sequence are by places (`Kept`, `Ends`, the positions in
`DeliveryIsExact`) and not by recursive operators, and the number of drops is the
cardinality of a set and not a sum, since nothing can be proved of recursion here.
The cells of WireParser became positions for the same reason.  `Resets`, which says
when a buffer may be reset, was too narrow: what overflows it is a part of a message
and a chunk after it, not a message alone.  That messages and records lie as they do
was in the instances, and is now assumed where the models use it.

Only model-checked, and why:

* liveness: `CommandEnds`, `AttachedInTheEnd`, `LogCatchesUp`.  Fairness needs `ENABLED`, which
  the prover does not reason about;
* the runs that show findings, whose properties are false.

## What is not modelled

* The reading of `/proc` (`procnet`): input and output; its results are choices of the
  environment.
* `internal/model`, `internal/wire/query.go`: pure filters, sorts and names.
* Rendering and branding, the build scripts.
* `vmlinux.h`: 166 913 lines of kernel types, generated.  They are nearly all the lines of
  C there are, so the share of C that `PROJECT.json` maps says little; of
  `netmon.bpf.c` and `wire.bpf.c` three quarters are mapped, the rest declares maps and
  types.
* Text: what a message or a WAL record says.  Only type, size and group of a message and
  start and length of a record matter to the properties.
* In NetmonProbes the close reason and the process of an entry, which no step reads
  again, and clients that bind a port before they connect.
* In WalDecoder a page whose header does not parse, where `consume` stops for good.  A preview of
  WalDecoder may go on behind a record with a malformed body, where the code leaves the loop: it
  reports more than the code does, never less.
* In SessionLog the filters `-pid`, `-netns` and `-cgroup`, which select lines as the query does.
* In WireProbes the failure of `bpf_probe_read_user` ([observations](#observations)).
* NetmonProbes calls a key disturbed once two probes have overlapped on it, also where the overlap
  does no harm (two additions to an entry that is there), and its properties say nothing of such
  a key.  The steps are those of the code all the same.
* In Collector `RecentEvents`, which nobody calls, and a ring buffer that cannot be opened.
* Truncated XLogData is modelled on both sides (WireParser cuts chunks, WalDecoder previews
  them), not as one composition: the parser passes on the bytes it has and is told nothing.

## Plan

Done, in this order, the most important first: Correlator with its proofs, SessionLog,
WalWindow and WalDecoder, WireCommand, WireAttach with its proof, the two sets of probes,
Collector, WireParser; then the loader and stray sends in NetmonProbes, the captured bytes in
WireProbes, the commands in Collector, base backups and reused identities in WireParser, both
page headers and previews in WalDecoder, liveness and the exits in SessionLog.

Proved, in this order: Correlator and WireAttach, then WireCommand, WalDecoder with its
refinement, WireProbes, NetmonProbes, Collector, SessionLog, WireParser, and
`TidyStreamIsDecoded` of WalDecoder.

Left is what the prover cannot do: liveness, which stays with TLC.
