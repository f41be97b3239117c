----------------------------- MODULE Correlator -----------------------------
(***************************************************************************)
(* internal/correlator: joins the protocol events the wire parser emits    *)
(* (named by process and cgroup) with the TCP connections the network      *)
(* monitor lists.  Two goroutines share one Correlator behind a mutex: the *)
(* wire event loop calls Handle, the render loop calls BuildSnapshot.      *)
(*                                                                         *)
(* BuildSnapshot holds the mutex across several loop iterations; `mu' says *)
(* whether it does, and each iteration over the pending map, whose order   *)
(* Go leaves open, is a step.                                              *)
(*                                                                         *)
(* An event is named by its arrival number, which also stands for its      *)
(* OccurredAt: one goroutine stamps and delivers them in order.  The       *)
(* counters of a group (TxBytes, RxBytes, Messages) are sums over events,  *)
(* kept here as how many times each event was added to them.               *)
(***************************************************************************)
EXTENDS Integers, Sequences, FiniteSets

CONSTANTS
    Pid, NoPid,          \* process ids; NoPid is LastPID == 0
    Cgroup,              \* cgroup identifiers
    ConnID, NoConn,      \* connection identifiers; NoConn is ""
    CgroupOf,            \* the cgroup inside each connection identifier
    Group,               \* content groups, after normalizedGroup
    Session, NoSession,  \* startup parameters; NoSession has none set
    MaxEvents,           \* bound on the events handled
    RecentCap            \* 100 in the code

ASSUME CgroupAssumption == CgroupOf \in [ConnID -> Cgroup]
ASSUME NoValueAssumption ==
    /\ NoPid \notin Pid
    /\ NoConn \notin ConnID
    /\ NoSession \notin Session
ASSUME BoundAssumption ==
    /\ MaxEvents \in Nat
    /\ RecentCap \in Nat \ {0}

VARIABLES
    mu,         \* "free", or "snapshot" while BuildSnapshot holds the mutex
    byConnID,   \* aggregate of each connection ever correlated
    pending,    \* aggregate of each process key not correlated yet
    recent,     \* the latest events, newest first
    procExact,  \* connection of a (pid, cgroup) pair, NoConn when absent
    procByPID,  \* connection of a pid, NoConn when absent
    connMeta,   \* the connections of the last network snapshot
    log         \* history: every event handled, in order

vars == <<mu, byConnID, pending, recent, procExact, procByPID, connMeta, log>>

Event == 1..MaxEvents
Key == [pid : Pid, cg : Cgroup]
MaybeConn == ConnID \union {NoConn}
MaybeSession == Session \union {NoSession}

\* lastAt names the event whose LastType, LastDetail, LastSQL and LastGroup
\* are on display: the code assigns them together with LastAt.
GroupStats == [times : [Event -> Nat], lastAt : Event \union {0}]
Aggregate == [stats : [Group -> GroupStats],
              session : MaybeSession,
              lastAt : Event \union {0}]

ProtocolEvent == [at : Event, key : Key, conn : MaybeConn, addr : MaybeConn]

NoStats == [times |-> [e \in Event |-> 0], lastAt |-> 0]

\* A missing map entry and a freshly allocated aggregate are the same thing to
\* every reader of the two maps, except that iteration skips the missing one:
\* an entry of `pending' is present when it has counted something.
NoAggregate == [stats |-> [g \in Group |-> NoStats],
                session |-> NoSession,
                lastAt |-> 0]

PendingKeys == {k \in Key : pending[k] # NoAggregate}

\* Mutant: the merge takes the source's columns whenever it has any.
LaterIsSource(a, b) == IF b # 0 THEN b ELSE a

Later(a, b) == IF a > b THEN a ELSE b

-----------------------------------------------------------------------------
(* Operations on aggregates                                                *)

\* applyEventLocked: event `at' of group g and session s enters aggregate a.
Apply(a, g, s, at) ==
    [stats |-> [a.stats EXCEPT ![g] =
                   [times |-> [a.stats[g].times EXCEPT ![at] = @ + 1],
                    lastAt |-> at]],
     session |-> s,
     lastAt |-> at]

\* mergeGroupStats.  The counters are sums, so the multiplicities add up.
MergeGroupStats(dst, src) ==
    [times |-> [e \in Event |-> dst.times[e] + src.times[e]],
     lastAt |-> Later(dst.lastAt, src.lastAt)]

\* Mutant: every group is merged from the same group of the source.
MergeWrongGroup(dst, src) ==
    LET one == CHOOSE g \in Group : TRUE
    IN  [stats |-> [g \in Group |->
                       MergeGroupStats(dst.stats[g], src.stats[one])],
         session |-> IF src.session # NoSession THEN src.session
                                                ELSE dst.session,
         lastAt |-> Later(dst.lastAt, src.lastAt)]

\* Mutant: the test on LastAt guards the counters too, not the columns alone.
MergeNewerOnly(dst, src) ==
    [stats |-> IF src.lastAt > dst.lastAt
               THEN [g \in Group |->
                        MergeGroupStats(dst.stats[g], src.stats[g])]
               ELSE dst.stats,
     session |-> IF src.session # NoSession THEN src.session ELSE dst.session,
     lastAt |-> Later(dst.lastAt, src.lastAt)]

\* mergeAggregate.  A session is taken over when it has a parameter set,
\* whichever of the two is newer.
MergeAggregate(dst, src) ==
    [stats |-> [g \in Group |-> MergeGroupStats(dst.stats[g], src.stats[g])],
     session |-> IF src.session # NoSession THEN src.session ELSE dst.session,
     lastAt |-> Later(dst.lastAt, src.lastAt)]

\* resolveMetaLocked: the exact pair first, then the pid alone.
Resolve(k) == IF procExact[k] # NoConn THEN procExact[k] ELSE procByPID[k.pid]

\* The endpoints fillProtocolEventMeta copies for connection c, named by the
\* connection that has them: empty when connMeta does not know c.
Endpoints(c) == IF c \in connMeta THEN c ELSE NoConn

\* Mutant: the list is never cut.
AppendUncapped(record) == <<record>> \o recent

\* appendRecentLocked: newest first, cut to the cap.
AppendRecent(record) ==
    LET longer == <<record>> \o recent
    IN  SubSeq(longer, 1, IF Len(longer) > RecentCap THEN RecentCap
                                                     ELSE Len(longer))

\* fillProtocolEventMeta with a connection connMeta knows.
Filled(r, c) == [at |-> r.at, key |-> r.key, conn |-> c, addr |-> c]

\* Mutant: a line that already has a connection is filled again.
BackfillAll(k, c) ==
    [i \in DOMAIN recent |->
        IF recent[i].key = k /\ c \in connMeta
        THEN Filled(recent[i], c)
        ELSE recent[i]]

\* Mutant: the cgroup is not compared.
BackfillByPID(k, c) ==
    [i \in DOMAIN recent |->
        IF /\ recent[i].conn = NoConn
           /\ recent[i].key.pid = k.pid
           /\ c \in connMeta
        THEN Filled(recent[i], c)
        ELSE recent[i]]

\* The second loop of flushPendingLocked: the lines of process key k that had
\* no connection get c and its endpoints.
Backfill(k, c) ==
    [i \in DOMAIN recent |->
        IF recent[i].conn = NoConn /\ recent[i].key = k /\ c \in connMeta
        THEN Filled(recent[i], c)
        ELSE recent[i]]

-----------------------------------------------------------------------------
Init ==
    /\ mu = "free"
    /\ byConnID = [c \in ConnID |-> NoAggregate]
    /\ pending = [k \in Key |-> NoAggregate]
    /\ recent = <<>>
    /\ procExact = [k \in Key |-> NoConn]
    /\ procByPID = [p \in Pid |-> NoConn]
    /\ connMeta = {}
    /\ log = <<>>

(* The wire event loop hands over one event.                               *)
Handle(k, g, s) ==
    LET at == Len(log) + 1
        c == Resolve(k)
        record == [at |-> at, key |-> k, conn |-> c, addr |-> Endpoints(c)]
    IN  /\ mu = "free"
        /\ at <= MaxEvents
        /\ \/ /\ c # NoConn
              /\ byConnID' = [byConnID EXCEPT ![c] = Apply(@, g, s, at)]
              /\ UNCHANGED pending
           \/ /\ c = NoConn
              /\ pending' = [pending EXCEPT ![k] = Apply(@, g, s, at)]
              /\ UNCHANGED byConnID
        /\ recent' = AppendRecent(record)
        /\ log' = Append(log, [key |-> k, group |-> g, session |-> s])
        /\ UNCHANGED <<mu, procExact, procByPID, connMeta>>

(* What one network snapshot may show: the live connections, the last      *)
(* process seen on each (NoPid when none), and the exact map, where two    *)
(* connections of one process and cgroup overwrite each other in listing   *)
(* order, which is any order.                                              *)
Observation ==
    {o \in [conns : SUBSET ConnID,
            lastPID : [ConnID -> Pid \union {NoPid}],
            exact : [Key -> MaybeConn]] :
        /\ \A c \in ConnID \ o.conns : o.lastPID[c] = NoPid
        /\ \A k \in Key :
              LET owners == {c \in o.conns : /\ o.lastPID[c] = k.pid
                                             /\ CgroupOf[c] = k.cg}
              IN  IF owners = {} THEN o.exact[k] = NoConn
                                 ELSE o.exact[k] \in owners}

\* The processes worth a look in /proc: on a connection, or with events that
\* wait for a connection.
CandidatePIDs(o) ==
    {o.lastPID[c] : c \in o.conns} \union
    {k.pid : k \in PendingKeys} \union
    {recent[i].key.pid : i \in {j \in DOMAIN recent : recent[j].conn = NoConn}}

\* What the pid map may get for p: the only connection it was last seen on,
\* when the snapshot lists that one once; otherwise the one live connection its
\* sockets in /proc point to, when they point to exactly one, which is up to
\* the system.
PidChoices(o, twice, p) ==
    LET owners == {c \in o.conns : o.lastPID[c] = p}
    IN  IF \E c \in owners \ twice : owners = {c} THEN owners
        ELSE IF p \in CandidatePIDs(o) THEN o.conns \union {NoConn}
        ELSE {NoConn}

(* BuildSnapshot takes the mutex and rebuilds the maps from a new network  *)
(* snapshot, which may list some of its connections twice (see Collector). *)
Refresh ==
    /\ mu = "free"
    /\ mu' = "snapshot"
    /\ \E o \in Observation : \E twice \in SUBSET o.conns :
          /\ procExact' = o.exact
          /\ \E byPID \in [Pid -> o.conns \union {NoConn}] :
                /\ \A p \in Pid : byPID[p] \in PidChoices(o, twice, p)
                /\ procByPID' = byPID
          /\ connMeta' = o.conns
    /\ UNCHANGED <<byConnID, pending, recent, log>>

(* One iteration of flushPendingLocked that finds a connection for key k.  *)
Flush(k) ==
    LET c == Resolve(k)
    IN  /\ mu = "snapshot"
        /\ k \in PendingKeys
        /\ c # NoConn
        /\ byConnID' = [byConnID EXCEPT ![c] = MergeAggregate(@, pending[k])]
        /\ pending' = [pending EXCEPT ![k] = NoAggregate]
        /\ recent' = Backfill(k, c)
        /\ UNCHANGED <<mu, procExact, procByPID, connMeta, log>>

\* The loop over pending has nothing left to move.
Flushed == \A k \in PendingKeys : Resolve(k) = NoConn

\* Mutant: the maps are rebuilt but pending is not flushed.
ReturnEarly ==
    /\ mu = "snapshot"
    /\ mu' = "free"
    /\ UNCHANGED <<byConnID, pending, recent, procExact, procByPID, connMeta,
                   log>>

(* BuildSnapshot copies its views out and releases the mutex.              *)
Return ==
    /\ mu = "snapshot"
    /\ Flushed
    /\ mu' = "free"
    /\ UNCHANGED <<byConnID, pending, recent, procExact, procByPID, connMeta,
                   log>>

HandleAny == \E k \in Key, g \in Group, s \in MaybeSession : Handle(k, g, s)
FlushAny == \E k \in Key : Flush(k)

Next == HandleAny \/ Refresh \/ FlushAny \/ Return

Spec == Init /\ [][Next]_vars

-----------------------------------------------------------------------------
(* Properties                                                              *)

\* The variables have their types, and the activity list is never longer than
\* its limit (appendRecentLocked).
TypeOK ==
    /\ mu \in {"free", "snapshot"}
    /\ byConnID \in [ConnID -> Aggregate]
    /\ pending \in [Key -> Aggregate]
    /\ recent \in Seq(ProtocolEvent)
    /\ Len(recent) <= RecentCap
    /\ procExact \in [Key -> MaybeConn]
    /\ procByPID \in [Pid -> MaybeConn]
    /\ connMeta \in SUBSET ConnID
    /\ log \in Seq([key : Key, group : Group, session : MaybeSession])
    /\ Len(log) <= MaxEvents

\* How many times event e was added to the counters of group g in a.
Times(a, g, e) == a.stats[g].times[e]
Counts(a, g, e) == Times(a, g, e) # 0

\* Every event handled is counted once, under its own group, in the totals of
\* exactly one connection or in the pending totals of its own process: neither
\* the merge of pending totals nor a change of the process maps loses or
\* doubles a byte (Handle, flushPendingLocked, mergeAggregate).
CountedExactlyOnce ==
    \A e \in 1..Len(log) :
        LET g == log[e].group
            k == log[e].key
        IN  \/ /\ Times(pending[k], g, e) = 1
               /\ \A c \in ConnID : Times(byConnID[c], g, e) = 0
            \/ /\ Times(pending[k], g, e) = 0
               /\ \E c \in ConnID :
                     /\ Times(byConnID[c], g, e) = 1
                     /\ \A d \in ConnID \ {c} : Times(byConnID[d], g, e) = 0

\* Nothing else is counted anywhere: no event that was not handled, no event
\* under another group, no event in the pending totals of another process.
NothingElseCounted ==
    \A e \in Event, g \in Group :
        /\ \A c \in ConnID :
              Counts(byConnID[c], g, e) => e <= Len(log) /\ log[e].group = g
        /\ \A k \in Key :
              Counts(pending[k], g, e) => /\ e <= Len(log)
                                          /\ log[e].group = g
                                          /\ log[e].key = k

\* The counters are exact: every event once, and nothing else.
CountingIsExact == CountedExactlyOnce /\ NothingElseCounted

\* The activity list is the latest events, newest first, and a line of it says
\* what the totals say: a line with a connection was counted for that very
\* connection, a line without one still waits in the pending totals of its
\* process (appendRecentLocked, and the second loop of flushPendingLocked).
RecentAgreesWithTotals ==
    \A i \in DOMAIN recent :
        LET r == recent[i]
            g == log[r.at].group
        IN  /\ r.at = Len(log) + 1 - i
            /\ r.key = log[r.at].key
            /\ r.conn # NoConn => Counts(byConnID[r.conn], g, r.at)
            /\ r.conn = NoConn => Counts(pending[r.key], g, r.at)

\* A line with a connection shows that connection's endpoints, never empty
\* ones: what the process maps name is always in connMeta.
CorrelatedHasEndpoints ==
    \A i \in DOMAIN recent : recent[i].addr = recent[i].conn

\* The activity list and the totals tell one story.
ListIsTrue == RecentAgreesWithTotals /\ CorrelatedHasEndpoints

\* The "last" columns of a group are those of the newest event it counts,
\* though pending totals older or newer than the connection's own are merged
\* in any order, and the connection's are those of its newest group.
Newest(a, g) ==
    /\ \A e \in Event : Counts(a, g, e) => e <= a.stats[g].lastAt
    /\ a.stats[g].lastAt # 0 => Counts(a, g, a.stats[g].lastAt)
    /\ a.stats[g].lastAt <= a.lastAt

LastIsNewest ==
    LET Good(a) ==
          /\ \A g \in Group : Newest(a, g)
          /\ a.lastAt # 0 => \E g \in Group : a.stats[g].lastAt = a.lastAt
    IN  /\ \A c \in ConnID : Good(byConnID[c])
        /\ \A k \in Key : Good(pending[k])

\* The session shown for a connection was carried by an event counted for that
\* connection: startup parameters never cross from one connection to another.
SessionIsOwn ==
    \A c \in ConnID :
        \/ byConnID[c].session = NoSession
        \/ \E e \in 1..Len(log) :
              /\ Counts(byConnID[c], log[e].group, e)
              /\ log[e].session = byConnID[c].session

\* Whenever no snapshot is being built, nothing waits that the current maps
\* could resolve, neither totals nor lines of the activity list.
NothingResolvableWaits ==
    mu = "free" =>
        /\ Flushed
        /\ \A i \in DOMAIN recent :
              recent[i].conn = NoConn => Resolve(recent[i].key) = NoConn

\* The totals of a connection never shrink, and an event stays with the
\* connection it was counted for, when the connection leaves the network
\* snapshot or its process id is taken over by another too.
TotalsOnlyGrow ==
    [][\A c \in ConnID, g \in Group, e \in Event :
          Times(byConnID[c], g, e)' >= Times(byConnID[c], g, e)]_vars

\* A line of the activity list that names a connection is never rewritten to
\* name another one.
NeverRecorrelated ==
    [][\A i \in DOMAIN recent, j \in DOMAIN recent' :
          recent[i].at = recent'[j].at /\ recent[i].conn # NoConn
             => recent'[j] = recent[i]]_vars

\* What was attributed to a connection, in the totals and in the list, is never
\* taken back.
NothingIsTakenBack == TotalsOnlyGrow /\ NeverRecorrelated

=============================================================================
