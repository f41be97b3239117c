----------------------------- MODULE SessionLog -----------------------------
(***************************************************************************)
(* `nahuel monitor session' (cmd/nahuel/session.go): the render loop takes *)
(* a snapshot from the correlator, filters it (correlator.FilterSnapshot)  *)
(* and merges the events that pass into the activity log it prints         *)
(* (sessionEventHistory), while the wire event loop goes on handling       *)
(* events between those steps.  A signal, the end of the event loop or a   *)
(* snapshot that fails ends the command.                                   *)
(*                                                                         *)
(* The text format is modelled; the JSON format has no history.            *)
(***************************************************************************)
EXTENDS Correlator

CONSTANTS
    Queries,        \* the queries of the command line: the endpoints -client
                    \* and -server accept, among MaybeConn, and -limit, 0 when
                    \* there is none
    HistoryLimit    \* -recent: events asked of a snapshot and lines kept

ASSUME QueryAssumption == Queries \subseteq [selected : SUBSET MaybeConn, limit : Nat]
ASSUME HistoryAssumption == HistoryLimit \in Nat \ {0}

VARIABLES
    query,      \* the query of this run of the command
    command,    \* "running", "loop ended" or "over"
    snapshot,   \* what BuildSnapshot returned and render has not merged yet
    events,     \* sessionEventHistory.events, the log on display
    seen        \* sessionEventHistory.seen, the keys of those lines

sessionVars == <<vars, query, command, snapshot, events, seen>>

NoSnapshot == [conns |-> {}, recent |-> <<>>, ready |-> FALSE]

\* sessionProtocolEventKey prints every field of a line that can differ
\* between two records of an event: its connection and endpoints.  Lines of
\* different events differ in OccurredAt.
EventKey(r) == <<r.at, r.conn, r.addr>>

Cut(s, n) == SubSeq(s, 1, IF Len(s) > n THEN n ELSE Len(s))

\* The elements of a list at some places, in their order.
Kept(list, places) ==
    [i \in 1..Cardinality(places) |->
        list[CHOOSE p \in places : Cardinality({q \in places : q <= p}) = i]]

SessionInit ==
    /\ Init
    /\ query \in Queries
    /\ command = "running"
    /\ snapshot = NoSnapshot
    /\ events = <<>>
    /\ seen = {}

-----------------------------------------------------------------------------
\* At the select of runSessionCommand, or about to render for the first time.
Waiting == command # "over" /\ mu = "free" /\ ~ snapshot.ready

(* render asks for a snapshot; BuildSnapshot runs as in Correlator.        *)
AskSnapshot ==
    /\ Waiting
    /\ Refresh
    /\ UNCHANGED <<query, command, snapshot, events, seen>>

(* BuildSnapshot copies the live connections and the newest events.        *)
GetSnapshot ==
    /\ Return
    /\ snapshot' = [conns |-> connMeta,
                    recent |-> Cut(recent, HistoryLimit),
                    ready |-> TRUE]
    /\ UNCHANGED <<query, command, events, seen>>

\* FilterConnections: the connections the query selects, as many of them as
\* -limit allows; which ones depends on -sort.
ShownConnections(conns) ==
    LET matching == conns \intersect query.selected
    IN  IF query.limit = 0 \/ Cardinality(matching) <= query.limit
        THEN {matching}
        ELSE {shown \in SUBSET matching : Cardinality(shown) = query.limit}

\* FilterRecent: with connections on display, their events only; without any,
\* the events the query matches by themselves.
FilterRecent(list, allowed) ==
    LET passing == Kept(list, {i \in DOMAIN list :
                                  IF allowed # {} THEN list[i].conn \in allowed
                                  ELSE list[i].addr \in query.selected})
    IN  IF query.limit > 0 THEN Cut(passing, query.limit) ELSE passing

\* The lines whose keys are not on display.
Fresh(in) == Kept(in, {i \in DOMAIN in : EventKey(in[i]) \notin seen})

\* Mutant: keys of lines that are cut off stay in seen.
MergeKeepsKeys(in) ==
    /\ events' = Cut(Fresh(in) \o events, HistoryLimit)
    /\ seen' = seen \union {EventKey(Fresh(in)[i]) : i \in DOMAIN Fresh(in)}

\* Mutant: new lines go below the old ones.
MergeBelow(in) ==
    /\ events' = Cut(events \o Fresh(in), HistoryLimit)
    /\ seen' = {EventKey(events'[i]) : i \in DOMAIN events'}

\* Mutant: the keys are taken from the old lines.
MergeOldKeys(in) ==
    /\ events' = Cut(Fresh(in) \o events, HistoryLimit)
    /\ seen' = {EventKey(events[i]) : i \in DOMAIN events}

\* sessionEventHistory.Merge: the lines not seen before go on top, in order;
\* the lines beyond the limit go, with their keys.
Merge(in) ==
    LET fresh == Fresh(in)
        longer == fresh \o events
        excess == {EventKey(longer[i]) :
                      i \in {j \in DOMAIN longer : j > HistoryLimit}}
    IN  /\ events' = Cut(longer, HistoryLimit)
        /\ seen' = (seen \union {EventKey(fresh[i]) : i \in DOMAIN fresh})
                      \ excess

(* render filters the snapshot and merges what passes.                     *)
Render ==
    /\ snapshot.ready
    /\ \E in \in {FilterRecent(snapshot.recent, allowed) :
                     allowed \in ShownConnections(snapshot.conns)} : Merge(in)
    /\ snapshot' = NoSnapshot
    /\ UNCHANGED <<vars, query, command>>

(* The event loop parses and correlates.                                   *)
SessionHandle ==
    /\ command = "running"
    /\ HandleAny
    /\ UNCHANGED <<query, command, snapshot, events, seen>>

SessionFlush == FlushAny /\ UNCHANGED <<query, command, snapshot, events, seen>>

(* RunEventLoop fails; its result waits in wireErrCh.                      *)
EventLoopEnds ==
    /\ command = "running"
    /\ command' = "loop ended"
    /\ UNCHANGED <<vars, query, snapshot, events, seen>>

(* The select takes the result of the event loop.                          *)
Leave ==
    /\ Waiting
    /\ command = "loop ended"
    /\ command' = "over"
    /\ UNCHANGED <<vars, query, snapshot, events, seen>>

(* The select takes the signal that has come, or Collector.Snapshot fails. *)
InterruptedOrFails ==
    /\ Waiting
    /\ command' = "over"
    /\ UNCHANGED <<vars, query, snapshot, events, seen>>

\* What a render does.
RenderLoop == AskSnapshot \/ SessionFlush \/ GetSnapshot \/ Render

SessionNext ==
    \/ SessionHandle \/ RenderLoop
    \/ EventLoopEnds \/ Leave \/ InterruptedOrFails

\* The ticker goes on and BuildSnapshot comes to its end; the select, which picks
\* at random, does not take the ticker each time that it could leave.
SessionSpec ==
    /\ SessionInit /\ [][SessionNext]_sessionVars
    /\ WF_sessionVars(RenderLoop) /\ SF_sessionVars(Leave)

-----------------------------------------------------------------------------
(* Properties                                                              *)

\* The set of keys is that of the lines on display, one line per key, so a line
\* that was cut off may come back and one on display is never repeated as is.
SeenMatchesEvents ==
    /\ seen = {EventKey(events[i]) : i \in DOMAIN events}
    /\ \A i, j \in DOMAIN events :
          EventKey(events[i]) = EventKey(events[j]) => i = j
    /\ Len(events) <= HistoryLimit

\* The variables have their types, and the keys are those of the lines.
SessionTypeOK ==
    /\ TypeOK
    /\ query \in Queries
    /\ command \in {"running", "loop ended", "over"}
    /\ snapshot \in [conns : SUBSET ConnID, recent : Seq(ProtocolEvent),
                     ready : BOOLEAN]
    /\ Len(snapshot.recent) <= HistoryLimit
    /\ events \in Seq(ProtocolEvent)
    /\ seen \subseteq Event \X MaybeConn \X MaybeConn
    /\ SeenMatchesEvents

\* A line of the log tells the truth long after its snapshot: the connection it
\* names is the one its event was counted for, and it names none or that one.
LogAgreesWithTotals ==
    \A i \in DOMAIN events :
        LET r == events[i]
        IN  /\ r.conn # NoConn => Counts(byConnID[r.conn], log[r.at].group, r.at)
            /\ r.addr = r.conn

\* An event has at most two lines, the one from before it was correlated and
\* the one from after.
AtMostTwoLines ==
    \A i, j \in DOMAIN events :
        (events[i].at = events[j].at /\ i # j)
           => {events[i].conn, events[j].conn} \intersect {NoConn} # {}

\* Among the newest lines, and one that -client and -server let pass.
Passes(e) ==
    LET allowed == connMeta \intersect query.selected
        newest == Cut(recent, HistoryLimit)
    IN  \E i \in DOMAIN newest :
            /\ newest[i].at = e
            /\ IF allowed # {} THEN newest[i].conn \in allowed
                               ELSE newest[i].addr \in query.selected

\* The event is in the log as the correlator has it now.
Shown(e) ==
    \E i \in DOMAIN recent : recent[i].at = e /\ EventKey(recent[i]) \in seen

\* Without -limit, an event that stays among the newest that pass the filter is in
\* the log in the end and stays there, in its latest form: a line that two forms of
\* other events pushed off the log comes back, though it had been shown before.
\* A command that nothing can reach any more does not go on showing the same.
LogCatchesUp ==
    /\ \A e \in Event :
          <>[](command # "over" /\ query.limit = 0 /\ Passes(e)) => <>[]Shown(e)
    /\ (command = "loop ended") ~> (command = "over")

=============================================================================
