-------------------------- MODULE CorrelatorProofs --------------------------
(* Theorems about Correlator, and about SessionLog which extends it, for   *)
(* every value of their constants.                                         *)
EXTENDS SessionLog, FiniteSetTheorems, SequenceTheorems, TLAPS

-----------------------------------------------------------------------------
(* What the operations on aggregates and on the activity list return       *)

\* A new aggregate is empty.
LEMMA NoAggregateFacts ==
    /\ NoAggregate \in Aggregate
    /\ \A g \in Group, e \in Event : ~ Counts(NoAggregate, g, e)
    /\ \A g \in Group : NoAggregate.stats[g].lastAt = 0
    /\ NoAggregate.lastAt = 0
  BY BoundAssumption
     DEF NoAggregate, NoStats, Aggregate, GroupStats, Event, MaybeSession,
         Counts, Times

\* Applying an event adds it once to its group and changes no other count.
LEMMA ApplyFacts ==
    ASSUME NEW a \in Aggregate, NEW g \in Group, NEW s \in MaybeSession,
           NEW at \in Event
    PROVE  /\ Apply(a, g, s, at) \in Aggregate
           /\ \A h \in Group, e \in Event :
                 Apply(a, g, s, at).stats[h].times[e] =
                    IF h = g /\ e = at THEN a.stats[h].times[e] + 1
                                       ELSE a.stats[h].times[e]
           /\ \A h \in Group :
                 Apply(a, g, s, at).stats[h].lastAt =
                    IF h = g THEN at ELSE a.stats[h].lastAt
           /\ Apply(a, g, s, at).lastAt = at
           /\ Apply(a, g, s, at).session = s
  <1> DEFINE st == [times |-> [a.stats[g].times EXCEPT ![at] = @ + 1],
                    lastAt |-> at]
  <1>1. /\ a.stats \in [Group -> GroupStats]
        /\ a.stats[g] \in GroupStats
        /\ a.stats[g].times \in [Event -> Nat]
    BY DEF Aggregate, GroupStats
  <1>2. Apply(a, g, s, at) =
          [stats |-> [a.stats EXCEPT ![g] = st], session |-> s, lastAt |-> at]
    BY DEF Apply
  <1>3. st \in GroupStats
    BY <1>1 DEF GroupStats
  <1>4. Apply(a, g, s, at) \in Aggregate
    BY <1>1, <1>2, <1>3 DEF Aggregate
  <1> HIDE DEF st
  <1>5. \A h \in Group : Apply(a, g, s, at).stats[h] = IF h = g THEN st
                                                      ELSE a.stats[h]
    BY <1>1, <1>2
  <1>6. Apply(a, g, s, at).lastAt = at /\ Apply(a, g, s, at).session = s
    BY <1>2
  <1> QED
    BY <1>1, <1>4, <1>5, <1>6 DEF st

\* Merging adds the counts of both and keeps the later of both times.
LEMMA MergeFacts ==
    ASSUME NEW a \in Aggregate, NEW b \in Aggregate
    PROVE  /\ MergeAggregate(a, b) \in Aggregate
           /\ \A h \in Group, e \in Event :
                 MergeAggregate(a, b).stats[h].times[e] =
                    a.stats[h].times[e] + b.stats[h].times[e]
           /\ \A h \in Group :
                 MergeAggregate(a, b).stats[h].lastAt =
                    Later(a.stats[h].lastAt, b.stats[h].lastAt)
           /\ MergeAggregate(a, b).lastAt = Later(a.lastAt, b.lastAt)
           /\ MergeAggregate(a, b).session = IF b.session # NoSession
                                             THEN b.session ELSE a.session
  <1>1. \A h \in Group : /\ a.stats[h] \in GroupStats
                         /\ b.stats[h] \in GroupStats
    BY DEF Aggregate
  <1>2. \A x, y \in Event \union {0} : Later(x, y) \in Event \union {0}
    BY DEF Later
  <1>3. \A x, y \in GroupStats : MergeGroupStats(x, y) \in GroupStats
    BY <1>2 DEF GroupStats, MergeGroupStats
  <1>4. /\ a.session \in MaybeSession
        /\ b.session \in MaybeSession
        /\ a.lastAt \in Event \union {0}
        /\ b.lastAt \in Event \union {0}
    BY DEF Aggregate
  <1>5. MergeAggregate(a, b) \in Aggregate
    BY <1>1, <1>2, <1>3, <1>4 DEF MergeAggregate, Aggregate
  <1> QED
    BY <1>5 DEF MergeAggregate, MergeGroupStats

\* A new line comes first, the others move down, and only old ones fall off.
LEMMA AppendRecentFacts ==
    ASSUME recent \in Seq(ProtocolEvent), Len(recent) <= RecentCap,
           NEW r \in ProtocolEvent
    PROVE  /\ AppendRecent(r) \in Seq(ProtocolEvent)
           /\ Len(AppendRecent(r)) <= RecentCap
           /\ Len(AppendRecent(r)) <= Len(recent) + 1
           /\ \A i \in DOMAIN AppendRecent(r) :
                 AppendRecent(r)[i] = IF i = 1 THEN r ELSE recent[i - 1]
  <1> DEFINE longer == <<r>> \o recent
  <1>1. /\ longer \in Seq(ProtocolEvent)
        /\ Len(longer) = Len(recent) + 1
        /\ \A i \in 1..Len(longer) : longer[i] = IF i = 1 THEN r
                                                 ELSE recent[i - 1]
    BY ConcatProperties
  <1> DEFINE n == IF Len(longer) > RecentCap THEN RecentCap ELSE Len(longer)
  <1>2. n \in Nat /\ n <= Len(longer) /\ n <= RecentCap
    BY <1>1, BoundAssumption, LenProperties
  <1>3. AppendRecent(r) = SubSeq(longer, 1, n)
    BY DEF AppendRecent
  <1> HIDE DEF longer, n
  <1>4. /\ SubSeq(longer, 1, n) \in Seq(ProtocolEvent)
        /\ Len(SubSeq(longer, 1, n)) = n
        /\ \A i \in 1..n : SubSeq(longer, 1, n)[i] = longer[i]
    BY <1>1, <1>2, SubSeqProperties
  <1> QED
    BY <1>1, <1>2, <1>3, <1>4, LenProperties

\* Backfilling changes no line but those of the key that wait.
LEMMA BackfillFacts ==
    ASSUME recent \in Seq(ProtocolEvent), NEW k \in Key, NEW c \in ConnID
    PROVE  /\ Backfill(k, c) \in Seq(ProtocolEvent)
           /\ Len(Backfill(k, c)) = Len(recent)
           /\ \A i \in DOMAIN recent :
                 Backfill(k, c)[i] =
                    IF recent[i].conn = NoConn /\ recent[i].key = k
                                               /\ c \in connMeta
                    THEN Filled(recent[i], c)
                    ELSE recent[i]
  <1>1. Len(recent) \in Nat /\ DOMAIN recent = 1..Len(recent)
    BY LenProperties
  <1>2. \A i \in DOMAIN recent : recent[i] \in ProtocolEvent
    BY ElementOfSeq, <1>1
  <1>3. \A i \in 1..Len(recent) : Backfill(k, c)[i] \in ProtocolEvent
    BY <1>1, <1>2 DEF Backfill, Filled, ProtocolEvent, MaybeConn
  <1>4. Backfill(k, c) \in [1..Len(recent) -> ProtocolEvent]
    BY <1>1, <1>3 DEF Backfill
  <1>5. /\ Backfill(k, c) \in Seq(ProtocolEvent)
        /\ Len(Backfill(k, c)) = Len(recent)
    BY <1>1, <1>4, SeqDef, LenProperties
  <1> QED
    BY <1>5 DEF Backfill

-----------------------------------------------------------------------------
(* Type correctness                                                        *)

\* What a step may assume of its state.
LEMMA RecentElements ==
    ASSUME TypeOK, NEW i \in DOMAIN recent
    PROVE  /\ recent[i] \in ProtocolEvent
           /\ recent[i].key \in Key
           /\ recent[i].conn \in MaybeConn
           /\ recent[i].at \in Event
  <1>1. recent \in [1..Len(recent) -> ProtocolEvent]
    BY LenProperties DEF TypeOK
  <1>2. recent[i] \in ProtocolEvent
    BY <1>1
  <1> QED
    BY <1>2 DEF ProtocolEvent

\* A resolved key names a connection or nothing.
LEMMA ResolveType ==
    ASSUME TypeOK, NEW k \in Key
    PROVE  Resolve(k) \in MaybeConn
  BY DEF TypeOK, Resolve, Key

\* What an observation is made of.
LEMMA ObservationType ==
    ASSUME NEW o \in Observation
    PROVE  /\ o.conns \in SUBSET ConnID
           /\ o.exact \in [Key -> o.conns \union {NoConn}]
  <1>1. /\ o.conns \in SUBSET ConnID
        /\ o.exact \in [Key -> MaybeConn]
    BY DEF Observation
  <1>2. ASSUME NEW k \in Key
        PROVE  o.exact[k] \in o.conns \union {NoConn}
    <2> DEFINE owners == {c \in o.conns : /\ o.lastPID[c] = k.pid
                                          /\ CgroupOf[c] = k.cg}
    <2>1. IF owners = {} THEN o.exact[k] = NoConn ELSE o.exact[k] \in owners
      BY DEF Observation
    <2> QED
      BY <2>1
  <1> QED
    BY <1>1, <1>2

\* The line and the log entry one event leaves.
LEMMA HandleFacts ==
    ASSUME TypeOK, NEW k \in Key, NEW g \in Group, NEW s \in MaybeSession,
           Handle(k, g, s)
    PROVE  LET at == Len(log) + 1
               c == Resolve(k)
               r == [at |-> at, key |-> k, conn |-> c, addr |-> Endpoints(c)]
           IN  /\ at \in Event
               /\ r \in ProtocolEvent
               /\ c \in MaybeConn
               /\ Len(log') = at
               /\ log' \in Seq([key : Key, group : Group, session : MaybeSession])
               /\ log'[at] = [key |-> k, group |-> g, session |-> s]
               /\ \A e \in 1..Len(log) : log'[e] = log[e]
               /\ recent' = AppendRecent(r)
               /\ UNCHANGED <<procExact, procByPID, connMeta>>
  <1> DEFINE at == Len(log) + 1
             c == Resolve(k)
             L == [key : Key, group : Group, session : MaybeSession]
  <1>1. Len(log) \in Nat
    BY LenProperties DEF TypeOK
  <1>2. at \in Event
    BY <1>1, BoundAssumption DEF Handle, Event
  <1>3. c \in MaybeConn
    BY ResolveType
  <1>4. Endpoints(c) \in MaybeConn
    BY DEF Endpoints, TypeOK, MaybeConn
  <1>5. [at |-> at, key |-> k, conn |-> c, addr |-> Endpoints(c)]
           \in ProtocolEvent
    BY <1>2, <1>3, <1>4 DEF ProtocolEvent
  <1>6. /\ log \in Seq(L)
        /\ [key |-> k, group |-> g, session |-> s] \in L
    BY DEF TypeOK
  <1>7. /\ log' = Append(log, [key |-> k, group |-> g, session |-> s])
        /\ recent' = AppendRecent([at |-> at, key |-> k, conn |-> c,
                                   addr |-> Endpoints(c)])
        /\ UNCHANGED <<procExact, procByPID, connMeta>>
    BY DEF Handle
  <1>8. /\ Len(log') = at
        /\ log' \in Seq(L)
        /\ log'[at] = [key |-> k, group |-> g, session |-> s]
        /\ \A e \in 1..Len(log) : log'[e] = log[e]
    BY <1>1, <1>6, <1>7, AppendProperties
  <1> QED
    BY <1>2, <1>3, <1>5, <1>7, <1>8

\* The aggregates after one event.
LEMMA HandleAggregates ==
    ASSUME TypeOK, NEW k \in Key, NEW g \in Group, NEW s \in MaybeSession,
           Handle(k, g, s)
    PROVE  /\ byConnID' \in [ConnID -> Aggregate]
           /\ pending' \in [Key -> Aggregate]
           /\ \A d \in ConnID :
                 byConnID'[d] = IF d = Resolve(k)
                                THEN Apply(byConnID[d], g, s, Len(log) + 1)
                                ELSE byConnID[d]
           /\ \A q \in Key :
                 pending'[q] = IF Resolve(k) = NoConn /\ q = k
                               THEN Apply(pending[q], g, s, Len(log) + 1)
                               ELSE pending[q]
  <1> DEFINE at == Len(log) + 1
             c == Resolve(k)
  <1>1. at \in Event /\ c \in MaybeConn
    BY HandleFacts
  <1>2. /\ \A d \in ConnID : Apply(byConnID[d], g, s, at) \in Aggregate
        /\ \A q \in Key : Apply(pending[q], g, s, at) \in Aggregate
    BY <1>1, ApplyFacts DEF TypeOK
  <1>3. /\ byConnID \in [ConnID -> Aggregate]
        /\ pending \in [Key -> Aggregate]
    BY DEF TypeOK
  <1>4. CASE c # NoConn
    <2>1. /\ byConnID' = [byConnID EXCEPT ![c] = Apply(byConnID[c], g, s, at)]
          /\ pending' = pending
          /\ c \in ConnID
      BY <1>1, <1>4 DEF Handle, MaybeConn
    <2> QED
      BY <1>2, <1>3, <1>4, <2>1
  <1>5. CASE c = NoConn
    <2>1. /\ pending' = [pending EXCEPT ![k] = Apply(pending[k], g, s, at)]
          /\ byConnID' = byConnID
      BY <1>5 DEF Handle
    <2> QED
      BY <1>2, <1>3, <1>5, <2>1, NoValueAssumption
  <1> QED
    BY <1>4, <1>5

\* The state after one iteration of the flush.
LEMMA FlushFacts ==
    ASSUME TypeOK, NEW k \in Key, Flush(k)
    PROVE  LET c == Resolve(k)
           IN  /\ c \in ConnID
               /\ recent' = Backfill(k, c)
               /\ byConnID' \in [ConnID -> Aggregate]
               /\ pending' \in [Key -> Aggregate]
               /\ \A d \in ConnID :
                     byConnID'[d] = IF d = c
                                    THEN MergeAggregate(byConnID[d], pending[k])
                                    ELSE byConnID[d]
               /\ \A q \in Key : pending'[q] = IF q = k THEN NoAggregate
                                                         ELSE pending[q]
               /\ UNCHANGED <<log, procExact, procByPID, connMeta>>
  <1>1. Resolve(k) \in ConnID
    BY ResolveType DEF Flush, MaybeConn
  <1>2. /\ byConnID \in [ConnID -> Aggregate]
        /\ pending \in [Key -> Aggregate]
    BY DEF TypeOK
  <1>3. \A d \in ConnID : MergeAggregate(byConnID[d], pending[k]) \in Aggregate
    BY <1>2, MergeFacts
  <1>4. /\ byConnID' = [byConnID EXCEPT ![Resolve(k)] =
                           MergeAggregate(byConnID[Resolve(k)], pending[k])]
        /\ pending' = [pending EXCEPT ![k] = NoAggregate]
    BY DEF Flush
  <1>5. /\ recent' = Backfill(k, Resolve(k))
        /\ UNCHANGED <<log, procExact, procByPID, connMeta>>
    BY DEF Flush
  <1> QED
    BY <1>1, <1>2, <1>3, <1>4, <1>5, NoAggregateFacts

\* The maps after a refresh name live connections only.
LEMMA RefreshFacts ==
    ASSUME TypeOK, Refresh
    PROVE  /\ connMeta' \in SUBSET ConnID
           /\ procExact' \in [Key -> connMeta' \union {NoConn}]
           /\ procByPID' \in [Pid -> connMeta' \union {NoConn}]
           /\ mu' = "snapshot"
           /\ UNCHANGED <<byConnID, pending, recent, log>>
  <1>1. PICK o \in Observation :
          /\ procExact' = o.exact
          /\ procByPID' \in [Pid -> o.conns \union {NoConn}]
          /\ connMeta' = o.conns
    BY DEF Refresh
  <1> QED
    BY <1>1, ObservationType DEF Refresh

\* The variables keep their types (all handlers of internal/correlator).
THEOREM TypeCorrect == Spec => []TypeOK
  <1>1. Init => TypeOK
    BY NoAggregateFacts, BoundAssumption, EmptySeq DEF Init, TypeOK, MaybeConn
  <1>2. TypeOK /\ [Next]_vars => TypeOK'
    <2> SUFFICES ASSUME TypeOK, [Next]_vars PROVE TypeOK'
      OBVIOUS
    <2>1. ASSUME NEW k \in Key, NEW g \in Group, NEW s \in MaybeSession,
                 Handle(k, g, s)
          PROVE  TypeOK'
      <3> DEFINE at == Len(log) + 1
                 r == [at |-> at, key |-> k, conn |-> Resolve(k),
                       addr |-> Endpoints(Resolve(k))]
      <3>1. /\ at \in Event
            /\ r \in ProtocolEvent
            /\ recent' = AppendRecent(r)
            /\ log' \in Seq([key : Key, group : Group, session : MaybeSession])
            /\ Len(log') = at
        BY <2>1, HandleFacts
      <3>2. recent' \in Seq(ProtocolEvent) /\ Len(recent') <= RecentCap
        BY <3>1, AppendRecentFacts DEF TypeOK
      <3>3. byConnID' \in [ConnID -> Aggregate] /\ pending' \in [Key -> Aggregate]
        BY <2>1, HandleAggregates
      <3> QED
        BY <2>1, <3>1, <3>2, <3>3, BoundAssumption DEF TypeOK, Handle, Event
    <2>2. CASE Refresh
      BY <2>2, RefreshFacts DEF TypeOK, MaybeConn
    <2>3. ASSUME NEW k \in Key, Flush(k)
          PROVE  TypeOK'
      <3>1. recent' \in Seq(ProtocolEvent) /\ Len(recent') <= RecentCap
        BY <2>3, FlushFacts, BackfillFacts DEF TypeOK
      <3>2. byConnID' \in [ConnID -> Aggregate] /\ pending' \in [Key -> Aggregate]
        BY <2>3, FlushFacts
      <3> QED
        BY <2>3, <3>1, <3>2 DEF TypeOK, Flush
    <2>4. CASE Return
      BY <2>4 DEF Return, TypeOK
    <2>5. CASE UNCHANGED vars
      BY <2>5 DEF vars, TypeOK
    <2> QED
      BY <2>1, <2>2, <2>3, <2>4, <2>5 DEF Next, HandleAny, FlushAny
  <1> QED
    BY <1>1, <1>2, PTL DEF Spec

-----------------------------------------------------------------------------
(* The inductive invariant                                                 *)

\* The process maps name live connections only.
MapsNameLive ==
    /\ \A k \in Key : procExact[k] \in connMeta \union {NoConn}
    /\ \A p \in Pid : procByPID[p] \in connMeta \union {NoConn}

\* Counting is inductive together with the types.
CountInv == TypeOK /\ CountedExactlyOnce /\ NothingElseCounted

\* The activity list depends on counting and on what the maps name.
ListInv ==
    CountInv /\ MapsNameLive /\ RecentAgreesWithTotals /\ CorrelatedHasEndpoints

\* What Handle does to every counter and every newest time.
LEMMA HandleCounts ==
    ASSUME TypeOK, NEW k \in Key, NEW g \in Group, NEW s \in MaybeSession,
           Handle(k, g, s)
    PROVE  LET at == Len(log) + 1
               c == Resolve(k)
           IN  /\ \A d \in ConnID, h \in Group, e \in Event :
                     Times(byConnID'[d], h, e) =
                        IF d = c /\ h = g /\ e = at
                        THEN Times(byConnID[d], h, e) + 1
                        ELSE Times(byConnID[d], h, e)
               /\ \A q \in Key, h \in Group, e \in Event :
                     Times(pending'[q], h, e) =
                        IF c = NoConn /\ q = k /\ h = g /\ e = at
                        THEN Times(pending[q], h, e) + 1
                        ELSE Times(pending[q], h, e)
  <1> DEFINE at == Len(log) + 1
             c == Resolve(k)
  <1>1a. at \in Event
    BY HandleFacts
  <1>1b. \A d \in ConnID :
            byConnID'[d] = IF d = c THEN Apply(byConnID[d], g, s, at)
                                    ELSE byConnID[d]
    BY HandleAggregates
  <1>1c. \A q \in Key :
            pending'[q] = IF c = NoConn /\ q = k
                          THEN Apply(pending[q], g, s, at)
                          ELSE pending[q]
    BY HandleAggregates
  <1>2. ASSUME NEW a \in Aggregate, NEW h \in Group, NEW e \in Event
        PROVE  Times(Apply(a, g, s, at), h, e) =
                  IF h = g /\ e = at THEN Times(a, h, e) + 1 ELSE Times(a, h, e)
    BY <1>1a, ApplyFacts DEF Times
  <1>3. /\ \A d \in ConnID : byConnID[d] \in Aggregate
        /\ \A q \in Key : pending[q] \in Aggregate
    BY DEF TypeOK
  <1> HIDE DEF at, c
  <1>4. \A d \in ConnID, h \in Group, e \in Event :
           Times(byConnID'[d], h, e) =
              IF d = c /\ h = g /\ e = at THEN Times(byConnID[d], h, e) + 1
                                          ELSE Times(byConnID[d], h, e)
    BY <1>1b, <1>2, <1>3
  <1>5. \A q \in Key, h \in Group, e \in Event :
           Times(pending'[q], h, e) =
              IF c = NoConn /\ q = k /\ h = g /\ e = at
              THEN Times(pending[q], h, e) + 1
              ELSE Times(pending[q], h, e)
    BY <1>1c, <1>2, <1>3
  <1> QED
    BY <1>4, <1>5 DEF at, c

\* What one iteration of the flush does to every counter.
LEMMA FlushCounts ==
    ASSUME TypeOK, NEW k \in Key, Flush(k)
    PROVE  /\ \A d \in ConnID, h \in Group, e \in Event :
                 Times(byConnID'[d], h, e) =
                    IF d = Resolve(k)
                    THEN Times(byConnID[d], h, e) + Times(pending[k], h, e)
                    ELSE Times(byConnID[d], h, e)
           /\ \A q \in Key, h \in Group, e \in Event :
                 Times(pending'[q], h, e) = IF q = k THEN 0
                                            ELSE Times(pending[q], h, e)
  <1>1. /\ \A d \in ConnID : byConnID[d] \in Aggregate
        /\ \A q \in Key : pending[q] \in Aggregate
    BY DEF TypeOK
  <1>2. /\ \A d \in ConnID :
              byConnID'[d] = IF d = Resolve(k)
                             THEN MergeAggregate(byConnID[d], pending[k])
                             ELSE byConnID[d]
        /\ \A q \in Key : pending'[q] = IF q = k THEN NoAggregate ELSE pending[q]
    BY FlushFacts
  <1>3. ASSUME NEW a \in Aggregate, NEW h \in Group, NEW e \in Event
        PROVE  Times(MergeAggregate(a, pending[k]), h, e) =
                  Times(a, h, e) + Times(pending[k], h, e)
    BY <1>1, MergeFacts DEF Times
  <1>4. \A h \in Group, e \in Event : Times(NoAggregate, h, e) = 0
    BY NoAggregateFacts DEF Counts
  <1> QED
    BY <1>1, <1>2, <1>3, <1>4

\* A counter is a number.
LEMMA TimesType ==
    ASSUME TypeOK, NEW h \in Group, NEW e \in Event
    PROVE  /\ \A d \in ConnID : Times(byConnID[d], h, e) \in Nat
           /\ \A q \in Key : Times(pending[q], h, e) \in Nat
  <1>1. \A a \in Aggregate : a.stats[h] \in GroupStats
    BY DEF Aggregate
  <1>2. \A st \in GroupStats : st.times[e] \in Nat
    BY DEF GroupStats
  <1> QED
    BY <1>1, <1>2 DEF TypeOK, Times

\* The log is indexed by events and holds keys and groups.
LEMMA LogElements ==
    ASSUME TypeOK
    PROVE  /\ Len(log) \in Nat
           /\ 1..Len(log) \subseteq Event
           /\ \A e \in 1..Len(log) : log[e].key \in Key /\ log[e].group \in Group
  <1> DEFINE L == [key : Key, group : Group, session : MaybeSession]
  <1>1. Len(log) \in Nat /\ log \in [1..Len(log) -> L]
    BY LenProperties DEF TypeOK
  <1>2. \A e \in 1..Len(log) : log[e] \in L
    BY <1>1
  <1>3. \A e \in 1..Len(log) : log[e].key \in Key /\ log[e].group \in Group
    BY <1>2
  <1>4. 1..Len(log) \subseteq Event
    BY <1>1, BoundAssumption DEF TypeOK, Event
  <1> QED
    BY <1>1, <1>3, <1>4

-----------------------------------------------------------------------------
(* Counting                                                                *)

\* One event is counted once more, where nothing had counted it.
LEMMA HandleKeepsCount ==
    ASSUME CountInv, TypeOK', NEW k \in Key, NEW g \in Group,
           NEW s \in MaybeSession, Handle(k, g, s)
    PROVE  CountedExactlyOnce' /\ NothingElseCounted'
  <1> USE DEF CountInv
  <1> DEFINE at == Len(log) + 1
             c == Resolve(k)
  <1>1. /\ Len(log) \in Nat
        /\ 1..Len(log) \subseteq Event
        /\ \A e \in 1..Len(log) : log[e].key \in Key /\ log[e].group \in Group
    BY LogElements
  <1>2. /\ at \in Event
        /\ c \in MaybeConn
        /\ Len(log') = at
        /\ log'[at] = [key |-> k, group |-> g, session |-> s]
        /\ \A e \in 1..Len(log) : log'[e] = log[e]
    BY HandleFacts
  <1>3. \A d \in ConnID, h \in Group, e \in Event :
           Times(byConnID'[d], h, e) =
              IF d = c /\ h = g /\ e = at THEN Times(byConnID[d], h, e) + 1
                                          ELSE Times(byConnID[d], h, e)
    BY HandleCounts
  <1>4. \A q \in Key, h \in Group, e \in Event :
           Times(pending'[q], h, e) =
              IF c = NoConn /\ q = k /\ h = g /\ e = at
              THEN Times(pending[q], h, e) + 1
              ELSE Times(pending[q], h, e)
    BY HandleCounts
  <1>5. \A h \in Group :
           /\ \A d \in ConnID : Times(byConnID[d], h, at) = 0
           /\ \A q \in Key : Times(pending[q], h, at) = 0
    BY <1>1, <1>2 DEF NothingElseCounted, Counts
  <1>6. NothingElseCounted'
    <2> SUFFICES ASSUME NEW e \in Event, NEW h \in Group
                 PROVE  /\ \A d \in ConnID : Times(byConnID'[d], h, e) # 0
                              => e <= Len(log') /\ log'[e].group = h
                        /\ \A q \in Key : Times(pending'[q], h, e) # 0
                              => /\ e <= Len(log')
                                 /\ log'[e].group = h
                                 /\ log'[e].key = q
      BY DEF NothingElseCounted, Counts
    <2>1. CASE e = at
      BY <1>2, <1>3, <1>4, <1>5, <2>1
    <2>2. CASE e # at
      <3>1. /\ \A d \in ConnID : Times(byConnID[d], h, e) # 0
                  => e <= Len(log) /\ log[e].group = h
            /\ \A q \in Key : Times(pending[q], h, e) # 0
                  => e <= Len(log) /\ log[e].group = h /\ log[e].key = q
        BY DEF NothingElseCounted, Counts
      <3>2. e <= Len(log) => e \in 1..Len(log)
        BY <1>1 DEF Event
      <3> QED
        BY <1>1, <1>2, <1>3, <1>4, <2>2, <3>1, <3>2
    <2> QED
      BY <2>1, <2>2
  <1>7. CountedExactlyOnce'
    <2> SUFFICES ASSUME NEW e \in 1..Len(log')
                 PROVE  LET h == log'[e].group
                            q == log'[e].key
                        IN  \/ /\ Times(pending'[q], h, e) = 1
                               /\ \A d \in ConnID : Times(byConnID'[d], h, e) = 0
                            \/ /\ Times(pending'[q], h, e) = 0
                               /\ \E x \in ConnID :
                                     /\ Times(byConnID'[x], h, e) = 1
                                     /\ \A d \in ConnID \ {x} :
                                           Times(byConnID'[d], h, e) = 0
      BY DEF CountedExactlyOnce
    <2>1. CASE e = at
      <3>1. log'[e].group = g /\ log'[e].key = k
        BY <1>2, <2>1
      <3>2. CASE c = NoConn
        <4>1. Times(pending'[k], g, e) = 1
          BY <1>2, <1>4, <1>5, <2>1, <3>2
        <4>2. \A d \in ConnID : Times(byConnID'[d], g, e) = 0
          BY <1>2, <1>3, <1>5, <2>1, <3>2, NoValueAssumption
        <4> QED
          BY <3>1, <4>1, <4>2
      <3>3. CASE c \in ConnID
        <4>1. Times(pending'[k], g, e) = 0
          BY <1>2, <1>4, <1>5, <2>1, <3>3, NoValueAssumption
        <4>2. Times(byConnID'[c], g, e) = 1
          BY <1>2, <1>3, <1>5, <2>1, <3>3
        <4>3. \A d \in ConnID \ {c} : Times(byConnID'[d], g, e) = 0
          BY <1>2, <1>3, <1>5, <2>1, <3>3
        <4> QED
          BY <3>1, <3>3, <4>1, <4>2, <4>3
      <3> QED
        BY <1>2, <3>2, <3>3 DEF MaybeConn
    <2>2. CASE e # at
      <3>1. e \in 1..Len(log) /\ e \in Event
        BY <1>1, <1>2, <2>2
      <3>2. log'[e] = log[e] /\ log[e].group \in Group /\ log[e].key \in Key
        BY <1>1, <1>2, <3>1
      <3>3. /\ \A d \in ConnID : Times(byConnID'[d], log[e].group, e)
                                    = Times(byConnID[d], log[e].group, e)
            /\ Times(pending'[log[e].key], log[e].group, e)
                  = Times(pending[log[e].key], log[e].group, e)
        BY <1>3, <1>4, <2>2, <3>1, <3>2
      <3> QED
        BY <3>1, <3>2, <3>3 DEF CountedExactlyOnce
    <2> QED
      BY <2>1, <2>2
  <1> QED
    BY <1>6, <1>7

\* A flush moves what the key counted, and nothing else counted it.
LEMMA FlushKeepsCount ==
    ASSUME CountInv, TypeOK', NEW k \in Key, Flush(k)
    PROVE  CountedExactlyOnce' /\ NothingElseCounted'
  <1> USE DEF CountInv
  <1> DEFINE c == Resolve(k)
  <1>1. /\ Len(log) \in Nat
        /\ 1..Len(log) \subseteq Event
        /\ \A e \in 1..Len(log) : log[e].key \in Key /\ log[e].group \in Group
    BY LogElements
  <1>2. c \in ConnID /\ log' = log
    BY FlushFacts
  <1>3. \A d \in ConnID, h \in Group, e \in Event :
           Times(byConnID'[d], h, e) =
              IF d = c THEN Times(byConnID[d], h, e) + Times(pending[k], h, e)
                       ELSE Times(byConnID[d], h, e)
    BY FlushCounts
  <1>4. \A q \in Key, h \in Group, e \in Event :
           Times(pending'[q], h, e) = IF q = k THEN 0
                                      ELSE Times(pending[q], h, e)
    BY FlushCounts
  <1>5. \A h \in Group, e \in Event :
           /\ \A d \in ConnID : Times(byConnID[d], h, e) \in Nat
           /\ \A q \in Key : Times(pending[q], h, e) \in Nat
    BY TimesType
  <1> HIDE DEF c
  <1>6. NothingElseCounted'
    <2> SUFFICES ASSUME NEW e \in Event, NEW h \in Group
                 PROVE  /\ \A d \in ConnID : Times(byConnID'[d], h, e) # 0
                              => e <= Len(log) /\ log[e].group = h
                        /\ \A q \in Key : Times(pending'[q], h, e) # 0
                              => /\ e <= Len(log)
                                 /\ log[e].group = h
                                 /\ log[e].key = q
      BY <1>2 DEF NothingElseCounted, Counts
    <2>1. /\ \A d \in ConnID : Times(byConnID[d], h, e) # 0
                => e <= Len(log) /\ log[e].group = h
          /\ \A q \in Key : Times(pending[q], h, e) # 0
                => e <= Len(log) /\ log[e].group = h /\ log[e].key = q
      BY DEF NothingElseCounted, Counts
    <2> QED
      BY <1>3, <1>4, <1>5, <2>1
  <1>7. CountedExactlyOnce'
    <2> SUFFICES ASSUME NEW e \in 1..Len(log), NEW h, NEW q,
                        h = log[e].group, q = log[e].key
                 PROVE  \/ /\ Times(pending'[q], h, e) = 1
                           /\ \A d \in ConnID : Times(byConnID'[d], h, e) = 0
                        \/ /\ Times(pending'[q], h, e) = 0
                           /\ \E x \in ConnID :
                                 /\ Times(byConnID'[x], h, e) = 1
                                 /\ \A d \in ConnID \ {x} :
                                       Times(byConnID'[d], h, e) = 0
      BY <1>2 DEF CountedExactlyOnce
    <2>1. e \in Event /\ h \in Group /\ q \in Key
      BY <1>1
    <2>2. \/ /\ Times(pending[q], h, e) = 1
             /\ \A d \in ConnID : Times(byConnID[d], h, e) = 0
          \/ /\ Times(pending[q], h, e) = 0
             /\ \E x \in ConnID :
                   /\ Times(byConnID[x], h, e) = 1
                   /\ \A d \in ConnID \ {x} : Times(byConnID[d], h, e) = 0
      BY DEF CountedExactlyOnce
    <2>3. q # k => Times(pending[k], h, e) = 0
      BY <1>1, <2>1 DEF NothingElseCounted, Counts
    <2>4. CASE q = k /\ Times(pending[q], h, e) = 1
      <3>1. Times(pending'[q], h, e) = 0
        BY <1>4, <2>1, <2>4
      <3>2. Times(byConnID'[c], h, e) = 1
        BY <1>2, <1>3, <1>5, <2>1, <2>2, <2>4
      <3>3. \A d \in ConnID \ {c} : Times(byConnID'[d], h, e) = 0
        BY <1>3, <2>1, <2>2, <2>4
      <3> QED
        BY <1>2, <3>1, <3>2, <3>3
    <2>5. CASE ~ (q = k /\ Times(pending[q], h, e) = 1)
      <3>1. Times(pending[k], h, e) = 0
        BY <2>2, <2>3, <2>5
      <3>2. \A d \in ConnID : Times(byConnID'[d], h, e) = Times(byConnID[d], h, e)
        BY <1>3, <1>5, <2>1, <3>1
      <3>3. Times(pending'[q], h, e) = Times(pending[q], h, e)
        BY <1>4, <2>1, <3>1
      <3> QED
        BY <2>2, <3>2, <3>3
    <2> QED
      BY <2>4, <2>5
  <1> QED
    BY <1>6, <1>7

\* Counting depends on the aggregates and the log only.
LEMMA SameCount ==
    ASSUME CountInv, UNCHANGED <<byConnID, pending, log>>
    PROVE  CountedExactlyOnce' /\ NothingElseCounted'
  <1>1. CountedExactlyOnce'
    <2>1. CountedExactlyOnce
      BY DEF CountInv
    <2> QED
      BY ZenonT(60), <2>1 DEF CountedExactlyOnce, Times
  <1>2. NothingElseCounted'
    <2>1. NothingElseCounted
      BY DEF CountInv
    <2> QED
      BY <2>1 DEF NothingElseCounted, Counts, Times
  <1> QED
    BY <1>1, <1>2

\* The types and the two counting properties together are inductive.
THEOREM CountingInductive == Spec => []CountInv
  <1>1. Init => CountInv
    <2> SUFFICES ASSUME Init PROVE CountInv
      OBVIOUS
    <2>1. TypeOK
      BY NoAggregateFacts, BoundAssumption, EmptySeq DEF Init, TypeOK, MaybeConn
    <2>2. CountedExactlyOnce
      BY DEF Init, CountedExactlyOnce
    <2>3. NothingElseCounted
      BY NoAggregateFacts DEF Init, NothingElseCounted
    <2> QED
      BY <2>1, <2>2, <2>3 DEF CountInv
  <1>2. TypeOK' /\ CountInv /\ [Next]_vars => CountInv'
    <2> SUFFICES ASSUME TypeOK', CountInv, [Next]_vars
                 PROVE  CountedExactlyOnce' /\ NothingElseCounted'
      BY DEF CountInv
    <2>1. ASSUME NEW k \in Key, NEW g \in Group, NEW s \in MaybeSession,
                 Handle(k, g, s)
          PROVE  CountedExactlyOnce' /\ NothingElseCounted'
      BY <2>1, HandleKeepsCount
    <2>2. CASE Refresh
      BY <2>2, SameCount DEF Refresh
    <2>3. ASSUME NEW k \in Key, Flush(k)
          PROVE  CountedExactlyOnce' /\ NothingElseCounted'
      BY <2>3, FlushKeepsCount
    <2>4. CASE Return
      BY <2>4, SameCount DEF Return
    <2>5. CASE UNCHANGED vars
      BY <2>5, SameCount DEF vars
    <2> QED
      BY <2>1, <2>2, <2>3, <2>4, <2>5 DEF Next, HandleAny, FlushAny
  <1>3. Spec => []TypeOK
    BY TypeCorrect
  <1> QED
    BY <1>1, <1>2, <1>3, PTL DEF Spec

\* No byte is lost, doubled, or counted for two connections, however the
\* process maps change (Handle against BuildSnapshot), and no counter holds
\* anything but events of its own group.
THEOREM CountingCorrect == Spec => []CountingIsExact
  <1>1. CountInv => CountingIsExact
    BY DEF CountInv, CountingIsExact
  <1> QED
    BY <1>1, CountingInductive, PTL

\* No step takes anything from the totals of a connection.
LEMMA StepGrows ==
    ASSUME TypeOK, [Next]_vars
    PROVE  \A d \in ConnID, h \in Group, e \in Event :
              Times(byConnID'[d], h, e) >= Times(byConnID[d], h, e)
  <1>1. \A h \in Group, e \in Event :
           /\ \A d \in ConnID : Times(byConnID[d], h, e) \in Nat
           /\ \A q \in Key : Times(pending[q], h, e) \in Nat
    BY TimesType
  <1> DEFINE Grows == \A d \in ConnID, h \in Group, e \in Event :
                         Times(byConnID'[d], h, e) >= Times(byConnID[d], h, e)
  <1>2. ASSUME NEW k \in Key, NEW g \in Group, NEW s \in MaybeSession,
               Handle(k, g, s)
        PROVE  Grows
    BY <1>1, <1>2, HandleCounts
  <1>3. ASSUME NEW k \in Key, Flush(k)
        PROVE  Grows
    <2>1. \A d \in ConnID, h \in Group, e \in Event :
             Times(byConnID'[d], h, e) =
                IF d = Resolve(k)
                THEN Times(byConnID[d], h, e) + Times(pending[k], h, e)
                ELSE Times(byConnID[d], h, e)
      BY <1>3, FlushCounts
    <2> QED
      BY <1>1, <2>1
  <1>4. CASE Refresh \/ Return \/ UNCHANGED vars
    <2>1. byConnID' = byConnID
      BY <1>4 DEF Refresh, Return, vars
    <2> QED
      BY <1>1, <2>1
  <1> QED
    BY <1>2, <1>3, <1>4 DEF Next, HandleAny, FlushAny

\* The totals of a connection never shrink (applyEventLocked, mergeAggregate;
\* nothing removes from byConnID).
THEOREM TotalsGrow == Spec => TotalsOnlyGrow
  <1> DEFINE Grows == \A c \in ConnID, g \in Group, e \in Event :
                         Times(byConnID[c], g, e)' >= Times(byConnID[c], g, e)
  <1>1. TypeOK /\ [Next]_vars => [Grows]_vars
    <2> SUFFICES ASSUME TypeOK, Next
                 PROVE  Grows
      OBVIOUS
    <2>1. \A c \in ConnID, g \in Group, e \in Event :
             Times(byConnID[c], g, e)' = Times(byConnID'[c], g, e)
      BY DEF Times
    <2> QED
      BY <2>1, StepGrows
  <1> QED
    BY <1>1, TypeCorrect, PTL DEF Spec, TotalsOnlyGrow

-----------------------------------------------------------------------------
(* The activity list                                                       *)

\* What a key resolves to is live or nothing.
LEMMA ResolveLive ==
    ASSUME MapsNameLive, NEW k \in Key
    PROVE  Resolve(k) \in connMeta \union {NoConn}
  BY DEF MapsNameLive, Resolve, Key

\* The positions of the list.
LEMMA RecentDomain ==
    ASSUME TypeOK
    PROVE  /\ Len(recent) \in Nat
           /\ DOMAIN recent = 1..Len(recent)
           /\ \A i \in 1..Len(recent) : /\ recent[i] \in ProtocolEvent
                                        /\ recent[i].key \in Key
                                        /\ recent[i].conn \in MaybeConn
                                        /\ recent[i].at \in Event
  BY LenProperties, RecentElements DEF TypeOK

\* A new line agrees with the totals its event entered, and has endpoints.
LEMMA HandleKeepsList ==
    ASSUME ListInv, CountInv', NEW k \in Key, NEW g \in Group,
           NEW s \in MaybeSession, Handle(k, g, s)
    PROVE  /\ MapsNameLive'
           /\ RecentAgreesWithTotals'
           /\ CorrelatedHasEndpoints'
  <1> USE DEF ListInv
  <1> DEFINE at == Len(log) + 1
             c == Resolve(k)
             r == [at |-> at, key |-> k, conn |-> c, addr |-> Endpoints(c)]
  <1>1. TypeOK /\ TypeOK'
    BY DEF CountInv
  <1>2. /\ at \in Event
        /\ r \in ProtocolEvent
        /\ c \in MaybeConn
        /\ Len(log') = at
        /\ log'[at] = [key |-> k, group |-> g, session |-> s]
        /\ \A e \in 1..Len(log) : log'[e] = log[e]
        /\ recent' = AppendRecent(r)
        /\ UNCHANGED <<procExact, procByPID, connMeta>>
    BY <1>1, HandleFacts
  <1>3. MapsNameLive'
    BY <1>2 DEF MapsNameLive
  <1>4. /\ Len(recent') \in Nat /\ DOMAIN recent' = 1..Len(recent')
        /\ Len(recent) \in Nat /\ DOMAIN recent = 1..Len(recent)
        /\ \A i \in 1..Len(recent) : recent[i] \in ProtocolEvent
    BY <1>1, RecentDomain, LenProperties DEF TypeOK
  <1>5. /\ Len(recent') <= Len(recent) + 1
        /\ \A i \in DOMAIN recent' : recent'[i] = IF i = 1 THEN r
                                                  ELSE recent[i - 1]
    BY <1>1, <1>2, AppendRecentFacts DEF TypeOK
  <1>6. \A i \in DOMAIN recent' : i # 1 => i - 1 \in DOMAIN recent
    BY <1>4, <1>5
  <1>7. CorrelatedHasEndpoints'
    <2>1. Endpoints(c) = c
      BY <1>1, ResolveLive, NoValueAssumption DEF Endpoints, TypeOK
    <2>2. r.addr = r.conn
      BY <2>1
    <2> QED
      BY <1>5, <1>6, <2>2 DEF CorrelatedHasEndpoints
  <1>8. RecentAgreesWithTotals'
    <2> SUFFICES ASSUME NEW i \in DOMAIN recent'
                 PROVE  LET x == recent'[i]
                            h == log'[x.at].group
                        IN  /\ x.at = Len(log') + 1 - i
                            /\ x.key = log'[x.at].key
                            /\ x.conn # NoConn
                                  => Times(byConnID'[x.conn], h, x.at) # 0
                            /\ x.conn = NoConn
                                  => Times(pending'[x.key], h, x.at) # 0
      BY DEF RecentAgreesWithTotals, Counts
    <2>1. Len(log) \in Nat
      BY <1>1, LogElements
    <2>2. \A h \in Group, e \in Event :
             /\ \A d \in ConnID : Times(byConnID[d], h, e) \in Nat
             /\ \A q \in Key : Times(pending[q], h, e) \in Nat
      BY <1>1, TimesType
    <2>3. /\ \A d \in ConnID, h \in Group, e \in Event :
                Times(byConnID'[d], h, e) =
                   IF d = c /\ h = g /\ e = at
                   THEN Times(byConnID[d], h, e) + 1
                   ELSE Times(byConnID[d], h, e)
          /\ \A q \in Key, h \in Group, e \in Event :
                Times(pending'[q], h, e) =
                   IF c = NoConn /\ q = k /\ h = g /\ e = at
                   THEN Times(pending[q], h, e) + 1
                   ELSE Times(pending[q], h, e)
      BY <1>1, HandleCounts
    <2>4. CASE i = 1
      <3>1. recent'[i] = r /\ r.at = at /\ r.key = k /\ r.conn = c
        BY <1>5, <2>4
      <3>2. c # NoConn => Times(byConnID'[c], g, at) # 0
        BY <1>2, <2>2, <2>3 DEF MaybeConn
      <3>3. c = NoConn => Times(pending'[k], g, at) # 0
        BY <1>2, <2>2, <2>3
      <3>4. log'[at].group = g /\ log'[at].key = k
        BY <1>2
      <3>5. at = Len(log') + 1 - i
        BY <1>2, <2>1, <2>4
      <3> HIDE DEF at, c, r
      <3> QED
        BY <3>1, <3>2, <3>3, <3>4, <3>5
    <2>5. CASE i # 1
      <3> DEFINE j == i - 1
                 x == recent[j]
      <3>1. j \in DOMAIN recent /\ recent'[i] = x
        BY <1>5, <1>6, <2>5
      <3>2. /\ x.at = Len(log) + 1 - j
            /\ x.key = log[x.at].key
            /\ x.conn # NoConn => Times(byConnID[x.conn], log[x.at].group, x.at) # 0
            /\ x.conn = NoConn => Times(pending[x.key], log[x.at].group, x.at) # 0
        BY <3>1 DEF RecentAgreesWithTotals, Counts
      <3>3. x.at \in Event /\ x.key \in Key /\ x.conn \in MaybeConn
        BY <1>1, <3>1, RecentElements
      <3>4. x.at \in 1..Len(log)
        BY <1>4, <2>1, <3>1, <3>2, <3>3 DEF Event
      <3>5. log'[x.at] = log[x.at] /\ log[x.at].group \in Group /\ x.at # at
        BY <1>1, <1>2, <2>1, <3>4, LogElements
      <3>6. x.at = Len(log') + 1 - i
        BY <1>2, <1>4, <2>1, <3>1, <3>2
      <3>7. x.conn # NoConn => Times(byConnID'[x.conn], log[x.at].group, x.at) # 0
        BY <2>3, <3>2, <3>3, <3>5 DEF MaybeConn
      <3>8. x.conn = NoConn => Times(pending'[x.key], log[x.at].group, x.at) # 0
        BY <2>3, <3>2, <3>3, <3>5
      <3> HIDE DEF x
      <3> QED
        BY <3>1, <3>2, <3>5, <3>6, <3>7, <3>8
    <2> QED
      BY <2>4, <2>5
  <1> QED
    BY <1>3, <1>7, <1>8

\* A flush names the lines of exactly the key whose totals it moves.
LEMMA FlushKeepsList ==
    ASSUME ListInv, CountInv', NEW k \in Key, Flush(k)
    PROVE  /\ MapsNameLive'
           /\ RecentAgreesWithTotals'
           /\ CorrelatedHasEndpoints'
  <1> USE DEF ListInv
  <1> DEFINE c == Resolve(k)
  <1>1. TypeOK /\ TypeOK'
    BY DEF CountInv
  <1>2. /\ c \in ConnID
        /\ recent' = Backfill(k, c)
        /\ UNCHANGED <<log, procExact, procByPID, connMeta>>
    BY <1>1, FlushFacts
  <1>3. MapsNameLive'
    BY <1>2 DEF MapsNameLive
  <1>4. c \in connMeta
    BY <1>2, ResolveLive, NoValueAssumption
  <1>5. /\ DOMAIN recent' = DOMAIN recent
        /\ \A i \in DOMAIN recent :
              recent'[i] = IF recent[i].conn = NoConn /\ recent[i].key = k
                           THEN Filled(recent[i], c) ELSE recent[i]
    <2>1. /\ Len(recent') = Len(recent)
          /\ \A i \in DOMAIN recent :
                recent'[i] = IF recent[i].conn = NoConn /\ recent[i].key = k
                                                        /\ c \in connMeta
                             THEN Filled(recent[i], c) ELSE recent[i]
      BY <1>1, <1>2, BackfillFacts DEF TypeOK
    <2>2. DOMAIN recent' = 1..Len(recent') /\ DOMAIN recent = 1..Len(recent)
      BY <1>1, LenProperties DEF TypeOK
    <2> QED
      BY <1>4, <2>1, <2>2
  <1>6. CorrelatedHasEndpoints'
    BY <1>5 DEF CorrelatedHasEndpoints, Filled
  <1>7. RecentAgreesWithTotals'
    <2> SUFFICES ASSUME NEW i \in DOMAIN recent
                 PROVE  LET x == recent'[i]
                            h == log[x.at].group
                        IN  /\ x.at = Len(log) + 1 - i
                            /\ x.key = log[x.at].key
                            /\ x.conn # NoConn
                                  => Times(byConnID'[x.conn], h, x.at) # 0
                            /\ x.conn = NoConn
                                  => Times(pending'[x.key], h, x.at) # 0
      BY <1>2, <1>5 DEF RecentAgreesWithTotals, Counts
    <2> DEFINE y == recent[i]
               h == log[y.at].group
    <2>1. /\ y.at = Len(log) + 1 - i
          /\ y.key = log[y.at].key
          /\ y.conn # NoConn => Times(byConnID[y.conn], h, y.at) # 0
          /\ y.conn = NoConn => Times(pending[y.key], h, y.at) # 0
      BY DEF RecentAgreesWithTotals, Counts
    <2>2. y.at \in Event /\ y.key \in Key /\ y.conn \in MaybeConn
      BY <1>1, RecentElements
    <2>3. y.at \in 1..Len(log) /\ h \in Group
      BY <1>1, <2>1, <2>2, RecentDomain, LogElements DEF Event
    <2>4. /\ \A d \in ConnID : Times(byConnID[d], h, y.at) \in Nat
          /\ \A q \in Key : Times(pending[q], h, y.at) \in Nat
      BY <1>1, <2>2, <2>3, TimesType
    <2>5. /\ \A d \in ConnID :
                Times(byConnID'[d], h, y.at) =
                   IF d = c
                   THEN Times(byConnID[d], h, y.at) + Times(pending[k], h, y.at)
                   ELSE Times(byConnID[d], h, y.at)
          /\ \A q \in Key : Times(pending'[q], h, y.at) =
                               IF q = k THEN 0 ELSE Times(pending[q], h, y.at)
      BY <1>1, <2>2, <2>3, FlushCounts
    <2>6. \A d \in ConnID : Times(byConnID[d], h, y.at) # 0
                               => Times(byConnID'[d], h, y.at) # 0
      BY <2>4, <2>5
    <2>7. CASE y.conn = NoConn /\ y.key = k
      <3>1. recent'[i] = Filled(y, c)
        BY <1>5, <2>7
      <3>2. /\ recent'[i].at = y.at
            /\ recent'[i].key = y.key
            /\ recent'[i].conn = c
        BY <3>1 DEF Filled
      <3>3. Times(byConnID'[c], h, y.at) # 0
        BY <1>2, <2>1, <2>4, <2>5, <2>7
      <3> QED
        BY <1>2, <2>1, <3>2, <3>3, NoValueAssumption
    <2>8. CASE ~ (y.conn = NoConn /\ y.key = k)
      <3>1. recent'[i] = y
        BY <1>5, <2>8
      <3>2. y.conn # NoConn => Times(byConnID'[y.conn], h, y.at) # 0
        BY <2>1, <2>2, <2>6 DEF MaybeConn
      <3>3. y.conn = NoConn => Times(pending'[y.key], h, y.at) # 0
        BY <2>1, <2>2, <2>5, <2>8
      <3> HIDE DEF y
      <3> QED
        BY <2>1, <3>1, <3>2, <3>3
    <2> QED
      BY <2>7, <2>8
  <1> QED
    BY <1>3, <1>6, <1>7

\* The list and the maps together are inductive on top of counting.
THEOREM ListInductive == Spec => []ListInv
  <1>1. Init => MapsNameLive /\ RecentAgreesWithTotals /\ CorrelatedHasEndpoints
    BY DEF Init, MapsNameLive, RecentAgreesWithTotals, CorrelatedHasEndpoints, Key
  <1>2. CountInv' /\ ListInv /\ [Next]_vars => ListInv'
    <2> SUFFICES ASSUME CountInv', ListInv, [Next]_vars
                 PROVE  /\ MapsNameLive'
                        /\ RecentAgreesWithTotals'
                        /\ CorrelatedHasEndpoints'
      BY DEF ListInv
    <2>1. ASSUME NEW k \in Key, NEW g \in Group, NEW s \in MaybeSession,
                 Handle(k, g, s)
          PROVE  /\ MapsNameLive'
                 /\ RecentAgreesWithTotals'
                 /\ CorrelatedHasEndpoints'
      BY <2>1, HandleKeepsList
    <2>2. CASE Refresh
      <3>1. MapsNameLive'
        BY <2>2, RefreshFacts DEF MapsNameLive, ListInv, CountInv
      <3>2. UNCHANGED <<byConnID, pending, recent, log>>
        BY <2>2 DEF Refresh
      <3> QED
        BY <3>1, <3>2 DEF ListInv, RecentAgreesWithTotals,
                          CorrelatedHasEndpoints, Counts, Times
    <2>3. ASSUME NEW k \in Key, Flush(k)
          PROVE  /\ MapsNameLive'
                 /\ RecentAgreesWithTotals'
                 /\ CorrelatedHasEndpoints'
      BY <2>3, FlushKeepsList
    <2>4. CASE Return
      BY <2>4 DEF Return, ListInv, MapsNameLive, RecentAgreesWithTotals,
                  CorrelatedHasEndpoints, Counts, Times
    <2>5. CASE UNCHANGED vars
      BY <2>5 DEF vars, ListInv, MapsNameLive, RecentAgreesWithTotals,
                  CorrelatedHasEndpoints, Counts, Times
    <2> QED
      BY <2>1, <2>2, <2>3, <2>4, <2>5 DEF Next, HandleAny, FlushAny
  <1> QED
    BY <1>1, <1>2, CountingInductive, PTL DEF Spec, ListInv

\* Every line of the activity list agrees with the totals: it names the
\* connection its event was counted for, with that connection's endpoints, or
\* none while the event is pending.
THEOREM ListCorrect == Spec => []ListIsTrue
  <1>1. ListInv => ListIsTrue
    BY DEF ListInv, ListIsTrue
  <1> QED
    BY <1>1, ListInductive, PTL

\* A line without a connection has totals that wait with it.
LEMMA WaitingLineHasTotals ==
    ASSUME ListInv, NEW i \in DOMAIN recent, recent[i].conn = NoConn
    PROVE  recent[i].key \in PendingKeys
  <1> DEFINE h == log[recent[i].at].group
  <1>1. TypeOK
    BY DEF ListInv, CountInv
  <1>2. /\ i \in 1..Len(recent)
        /\ Len(recent) \in Nat
        /\ recent[i].key \in Key
        /\ recent[i].at \in Event
    BY <1>1, RecentDomain
  <1>3. /\ recent[i].at = Len(log) + 1 - i
        /\ Times(pending[recent[i].key], h, recent[i].at) # 0
    BY DEF ListInv, RecentAgreesWithTotals, Counts
  <1>4. recent[i].at \in 1..Len(log)
    BY <1>1, <1>2, <1>3, LogElements DEF Event
  <1>5. h \in Group
    BY <1>1, <1>4, LogElements
  <1>6. Times(NoAggregate, h, recent[i].at) = 0
    BY <1>2, <1>5, NoAggregateFacts DEF Counts
  <1> QED
    BY <1>2, <1>3, <1>6 DEF PendingKeys

\* Outside a snapshot nothing waits that the maps could resolve: BuildSnapshot
\* returns after a full flush, and Handle resolves with the same maps.
THEOREM WaitingCorrect == Spec => []NothingResolvableWaits
  <1> DEFINE Quiet == mu = "free" => Flushed
  <1>1. Init => Quiet
    BY DEF Init, Flushed, PendingKeys
  <1>2. TypeOK /\ Quiet /\ [Next]_vars => Quiet'
    <2> SUFFICES ASSUME TypeOK, Quiet, [Next]_vars, mu' = "free",
                        NEW q \in Key, pending'[q] # NoAggregate
                 PROVE  Resolve(q)' = NoConn
      BY DEF Flushed, PendingKeys
    <2>1. ASSUME NEW k \in Key, NEW g \in Group, NEW s \in MaybeSession,
                 Handle(k, g, s)
          PROVE  Resolve(q)' = NoConn
      <3>1. Resolve(q)' = Resolve(q)
        BY <2>1 DEF Handle, Resolve
      <3>2. pending[q] # NoAggregate => Resolve(q) = NoConn
        BY <2>1 DEF Handle, Flushed, PendingKeys
      <3>3. pending'[q] # pending[q] => Resolve(k) = NoConn /\ q = k
        BY <2>1, HandleAggregates
      <3> QED
        BY <3>1, <3>2, <3>3
    <2>2. CASE Return
      BY <2>2 DEF Return, Flushed, PendingKeys, Resolve
    <2>3. CASE UNCHANGED vars
      BY <2>3 DEF vars, Flushed, PendingKeys, Resolve
    <2>4. ~ Refresh /\ \A k \in Key : ~ Flush(k)
      BY DEF Refresh, Flush
    <2> QED
      BY <2>1, <2>2, <2>3, <2>4 DEF Next, HandleAny, FlushAny
  <1>3. ListInv /\ Quiet => NothingResolvableWaits
    <2> SUFFICES ASSUME ListInv, Flushed, NEW i \in DOMAIN recent,
                        recent[i].conn = NoConn
                 PROVE  Resolve(recent[i].key) = NoConn
      BY DEF NothingResolvableWaits
    <2> QED
      BY WaitingLineHasTotals DEF Flushed
  <1> QED
    BY <1>1, <1>2, <1>3, TypeCorrect, ListInductive, PTL DEF Spec

\* A correlated line is never rewritten: Handle moves it down, the flush
\* touches only lines without a connection.
THEOREM CorrelationIsFinal == Spec => NeverRecorrelated
  <1> DEFINE Final == \A i \in DOMAIN recent, j \in DOMAIN recent' :
                recent[i].at = recent'[j].at /\ recent[i].conn # NoConn
                   => recent'[j] = recent[i]
  <1>1. ListInv /\ [Next]_vars => [Final]_vars
    <2> SUFFICES ASSUME ListInv, Next,
                        NEW i \in DOMAIN recent, NEW j \in DOMAIN recent',
                        recent[i].at = recent'[j].at, recent[i].conn # NoConn
                 PROVE  recent'[j] = recent[i]
      OBVIOUS
    <2>1. TypeOK
      BY DEF ListInv, CountInv
    <2>2. /\ Len(recent) \in Nat /\ Len(log) \in Nat
          /\ DOMAIN recent = 1..Len(recent)
      BY <2>1, RecentDomain, LogElements
    <2>3. \A n \in DOMAIN recent : recent[n].at = Len(log) + 1 - n
      BY DEF ListInv, RecentAgreesWithTotals
    <2>4. ASSUME NEW k \in Key, NEW g \in Group, NEW s \in MaybeSession,
                 Handle(k, g, s)
          PROVE  recent'[j] = recent[i]
      <3> DEFINE r == [at |-> Len(log) + 1, key |-> k, conn |-> Resolve(k),
                       addr |-> Endpoints(Resolve(k))]
      <3>1. r \in ProtocolEvent /\ recent' = AppendRecent(r)
        BY <2>1, <2>4, HandleFacts
      <3>2. /\ recent' \in Seq(ProtocolEvent)
            /\ Len(recent') <= Len(recent) + 1
            /\ recent'[j] = IF j = 1 THEN r ELSE recent[j - 1]
        BY <2>1, <3>1, AppendRecentFacts DEF TypeOK
      <3>3. j \in 1..Len(recent') /\ Len(recent') \in Nat
        BY <3>2, LenProperties
      <3>4. r.at = Len(log) + 1
        OBVIOUS
      <3>5. j # 1
        BY <2>2, <2>3, <3>2, <3>4
      <3>6. j - 1 \in DOMAIN recent
        BY <2>2, <3>2, <3>3, <3>5
      <3>7. i = j - 1
        BY <2>2, <2>3, <3>2, <3>5, <3>6
      <3> QED
        BY <3>2, <3>5, <3>7
    <2>5. ASSUME NEW k \in Key, Flush(k)
          PROVE  recent'[j] = recent[i]
      <3>1. /\ recent' = Backfill(k, Resolve(k))
            /\ Resolve(k) \in ConnID
        BY <2>1, <2>5, FlushFacts
      <3>2. /\ recent' \in Seq(ProtocolEvent)
            /\ Len(recent') = Len(recent)
        BY <2>1, <3>1, BackfillFacts DEF TypeOK
      <3>3. j \in DOMAIN recent
        BY <2>2, <3>2, LenProperties
      <3>4. \A n \in DOMAIN recent :
               recent'[n] = IF recent[n].conn = NoConn /\ recent[n].key = k
                                                   /\ Resolve(k) \in connMeta
                            THEN Filled(recent[n], Resolve(k)) ELSE recent[n]
        BY <2>1, <3>1, BackfillFacts DEF TypeOK
      <3>6. recent'[j].at = recent[j].at
        <4>1. \/ recent'[j] = recent[j]
              \/ recent'[j] = Filled(recent[j], Resolve(k))
          BY <3>3, <3>4
        <4>2. Filled(recent[j], Resolve(k)).at = recent[j].at
          BY DEF Filled
        <4> QED
          BY <4>1, <4>2
      <3>5. i = j
        BY <2>2, <2>3, <3>3, <3>6
      <3> QED
        BY <3>4, <3>5
    <2>6. CASE Refresh \/ Return
      <3>1. recent' = recent
        BY <2>6 DEF Refresh, Return
      <3> QED
        BY <2>2, <2>3, <3>1
    <2> QED
      BY <2>4, <2>5, <2>6 DEF Next, HandleAny, FlushAny
  <1> QED
    BY <1>1, ListInductive, PTL DEF Spec, NeverRecorrelated

\* Neither the totals nor the list give an attribution up.
THEOREM AttributionIsFinal == Spec => NothingIsTakenBack
  BY TotalsGrow, CorrelationIsFinal DEF NothingIsTakenBack

-----------------------------------------------------------------------------
(* The "last" columns                                                      *)

\* An aggregate whose columns are those of its newest events.
GoodColumns(a) ==
    /\ \A g \in Group : Newest(a, g)
    /\ a.lastAt # 0 => \E g \in Group : a.stats[g].lastAt = a.lastAt

\* The numbers an aggregate is made of.
LEMMA AggregateNumbers ==
    ASSUME NEW a \in Aggregate
    PROVE  /\ a.lastAt \in Nat
           /\ \A g \in Group : a.stats[g].lastAt \in Nat
           /\ \A g \in Group : a.stats[g].lastAt \in Event \union {0}
           /\ \A g \in Group, e \in Event : Times(a, g, e) \in Nat
  <1>1. \A g \in Group : a.stats[g] \in GroupStats
    BY DEF Aggregate
  <1>2. \A st \in GroupStats : /\ st.lastAt \in Event \union {0}
                               /\ \A e \in Event : st.times[e] \in Nat
    BY DEF GroupStats
  <1>3. a.lastAt \in Event \union {0}
    BY DEF Aggregate
  <1> QED
    BY <1>1, <1>2, <1>3 DEF Event, Times

\* An event newer than all that an aggregate counted takes its columns over.
LEMMA ApplyKeepsColumns ==
    ASSUME NEW a \in Aggregate, NEW g \in Group, NEW s \in MaybeSession,
           NEW at \in Event, GoodColumns(a),
           \A h \in Group, e \in Event : Counts(a, h, e) => e < at
    PROVE  GoodColumns(Apply(a, g, s, at))
  <1> DEFINE b == Apply(a, g, s, at)
  <1>1. /\ \A h \in Group, e \in Event :
              Times(b, h, e) = IF h = g /\ e = at THEN Times(a, h, e) + 1
                                                  ELSE Times(a, h, e)
        /\ \A h \in Group : b.stats[h].lastAt = IF h = g THEN at
                                                ELSE a.stats[h].lastAt
        /\ b.lastAt = at
    BY ApplyFacts DEF Times
  <1>2. /\ \A h \in Group : a.stats[h].lastAt \in Nat
        /\ \A h \in Group : a.stats[h].lastAt \in Event \union {0}
        /\ \A h \in Group, e \in Event : Times(a, h, e) \in Nat
    BY AggregateNumbers
  <1>3. at \in Nat /\ at # 0 /\ Event \subseteq Nat
    BY DEF Event
  <1> HIDE DEF b
  <1>4. \A h \in Group : a.stats[h].lastAt < at
    BY <1>2, <1>3 DEF GoodColumns, Newest
  <1>5. ASSUME NEW h \in Group PROVE Newest(b, h)
    <2>1. \A e \in Event : Counts(b, h, e) => e <= b.stats[h].lastAt
      BY <1>1, <1>2, <1>3, <1>4 DEF GoodColumns, Newest, Counts
    <2>2. b.stats[h].lastAt # 0 => Counts(b, h, b.stats[h].lastAt)
      BY <1>1, <1>2, <1>3 DEF GoodColumns, Newest, Counts
    <2>3. b.stats[h].lastAt <= b.lastAt
      BY <1>1, <1>2, <1>3, <1>4
    <2> QED
      BY <2>1, <2>2, <2>3 DEF Newest
  <1>6. GoodColumns(b)
    BY <1>1, <1>5 DEF GoodColumns
  <1> QED
    BY <1>6 DEF b

\* A merge keeps the columns of the newer side, whichever that is.
LEMMA MergeKeepsColumns ==
    ASSUME NEW a \in Aggregate, NEW b \in Aggregate,
           GoodColumns(a), GoodColumns(b)
    PROVE  GoodColumns(MergeAggregate(a, b))
  <1> DEFINE m == MergeAggregate(a, b)
  <1>1. /\ \A h \in Group, e \in Event :
              Times(m, h, e) = Times(a, h, e) + Times(b, h, e)
        /\ \A h \in Group : m.stats[h].lastAt = Later(a.stats[h].lastAt,
                                                      b.stats[h].lastAt)
        /\ m.lastAt = Later(a.lastAt, b.lastAt)
    BY MergeFacts DEF Times
  <1>2. /\ a.lastAt \in Nat /\ b.lastAt \in Nat
        /\ \A h \in Group : /\ a.stats[h].lastAt \in Event \union {0}
                            /\ b.stats[h].lastAt \in Event \union {0}
        /\ \A h \in Group, e \in Event : /\ Times(a, h, e) \in Nat
                                         /\ Times(b, h, e) \in Nat
    BY AggregateNumbers
  <1>3. \A x \in Event : x \in Nat /\ x # 0
    BY DEF Event
  <1> HIDE DEF m
  <1>4. ASSUME NEW h \in Group PROVE Newest(m, h)
    <2>1. Newest(a, h) /\ Newest(b, h)
      BY DEF GoodColumns
    <2>2. /\ a.stats[h].lastAt \in Nat /\ b.stats[h].lastAt \in Nat
          /\ m.stats[h].lastAt = Later(a.stats[h].lastAt, b.stats[h].lastAt)
      BY <1>1, <1>2, <1>3
    <2>3. ASSUME NEW e \in Event, Counts(m, h, e)
          PROVE  e <= m.stats[h].lastAt
      <3>1. Counts(a, h, e) \/ Counts(b, h, e)
        BY <1>1, <1>2, <2>3 DEF Counts
      <3>2. e <= a.stats[h].lastAt \/ e <= b.stats[h].lastAt
        BY <2>1, <3>1 DEF Newest
      <3> QED
        BY <1>3, <2>2, <3>2 DEF Later
    <2>4. ASSUME m.stats[h].lastAt # 0
          PROVE  Counts(m, h, m.stats[h].lastAt)
      <3>1. m.stats[h].lastAt \in Event
        BY <1>2, <2>2, <2>4 DEF Later
      <3>2. \/ m.stats[h].lastAt = a.stats[h].lastAt
            \/ m.stats[h].lastAt = b.stats[h].lastAt
        BY <2>2 DEF Later
      <3>3. \/ Counts(a, h, m.stats[h].lastAt)
            \/ Counts(b, h, m.stats[h].lastAt)
        BY <2>1, <2>4, <3>2 DEF Newest
      <3> QED
        BY <1>1, <1>2, <3>1, <3>3 DEF Counts
    <2>5. m.stats[h].lastAt <= m.lastAt
      BY <1>1, <1>2, <2>1, <2>2 DEF Later, Newest
    <2> QED
      BY <2>3, <2>4, <2>5 DEF Newest
  <1>5. ASSUME m.lastAt # 0
        PROVE  \E h \in Group : m.stats[h].lastAt = m.lastAt
    <2>1. CASE a.lastAt > b.lastAt
      <3>1. m.lastAt = a.lastAt
        BY <1>1, <2>1 DEF Later
      <3>2. PICK h \in Group : a.stats[h].lastAt = a.lastAt
        BY <1>5, <3>1 DEF GoodColumns
      <3>3. b.stats[h].lastAt <= b.lastAt /\ b.stats[h].lastAt \in Nat
        BY <1>2, <1>3 DEF GoodColumns, Newest
      <3> QED
        BY <1>1, <1>2, <2>1, <3>1, <3>2, <3>3 DEF Later
    <2>2. CASE ~ (a.lastAt > b.lastAt)
      <3>1. m.lastAt = b.lastAt
        BY <1>1, <2>2 DEF Later
      <3>2. PICK h \in Group : b.stats[h].lastAt = b.lastAt
        BY <1>5, <3>1 DEF GoodColumns
      <3>3. a.stats[h].lastAt <= a.lastAt /\ a.stats[h].lastAt \in Nat
        BY <1>2, <1>3 DEF GoodColumns, Newest
      <3> QED
        BY <1>1, <1>2, <2>2, <3>1, <3>2, <3>3 DEF Later
    <2> QED
      BY <2>1, <2>2
  <1>6. GoodColumns(m)
    BY <1>4, <1>5 DEF GoodColumns
  <1> QED
    BY <1>6 DEF m

\* The "last" columns of a connection and of waiting totals are those of the
\* newest event they count, however old the totals are that a flush merges
\* (applyEventLocked, mergeGroupStats, mergeAggregate).  An event handled is
\* newer than all that is counted because nothing but the log is counted, which
\* is what CountInv is needed for.
THEOREM ColumnsCorrect == Spec => []LastIsNewest
  <1>1. Init => LastIsNewest
    <2>1. GoodColumns(NoAggregate)
      BY NoAggregateFacts DEF GoodColumns, Newest
    <2> QED
      BY <2>1 DEF Init, LastIsNewest, GoodColumns
  <1>2. CountInv /\ LastIsNewest /\ [Next]_vars => LastIsNewest'
    <2> SUFFICES ASSUME CountInv, LastIsNewest, [Next]_vars
                 PROVE  /\ \A d \in ConnID : GoodColumns(byConnID'[d])
                        /\ \A q \in Key : GoodColumns(pending'[q])
      BY DEF LastIsNewest, GoodColumns, Newest, Counts, Times
    <2>1. /\ \A d \in ConnID : GoodColumns(byConnID[d])
          /\ \A q \in Key : GoodColumns(pending[q])
      BY DEF LastIsNewest, GoodColumns
    <2>2. TypeOK /\ (\A d \in ConnID : byConnID[d] \in Aggregate)
                 /\ (\A q \in Key : pending[q] \in Aggregate)
      BY DEF CountInv, TypeOK
    <2>3. ASSUME NEW k \in Key, NEW g \in Group, NEW s \in MaybeSession,
                 Handle(k, g, s)
          PROVE  /\ \A d \in ConnID : GoodColumns(byConnID'[d])
                 /\ \A q \in Key : GoodColumns(pending'[q])
      <3>1. Len(log) + 1 \in Event /\ Len(log) \in Nat
        BY <2>2, <2>3, HandleFacts, LogElements
      <3>2. \A h \in Group, e \in Event :
               /\ \A d \in ConnID : Counts(byConnID[d], h, e) => e < Len(log) + 1
               /\ \A q \in Key : Counts(pending[q], h, e) => e < Len(log) + 1
        BY <3>1 DEF CountInv, NothingElseCounted, Event
      <3>3. \A d \in ConnID : GoodColumns(Apply(byConnID[d], g, s, Len(log) + 1))
        BY <2>1, <2>2, <3>1, <3>2, ApplyKeepsColumns
      <3>4. \A q \in Key : GoodColumns(Apply(pending[q], g, s, Len(log) + 1))
        BY <2>1, <2>2, <3>1, <3>2, ApplyKeepsColumns
      <3> QED
        BY <2>1, <2>2, <2>3, <3>3, <3>4, HandleAggregates
    <2>4. ASSUME NEW k \in Key, Flush(k)
          PROVE  /\ \A d \in ConnID : GoodColumns(byConnID'[d])
                 /\ \A q \in Key : GoodColumns(pending'[q])
      <3>1. \A d \in ConnID : GoodColumns(MergeAggregate(byConnID[d], pending[k]))
        BY <2>1, <2>2, MergeKeepsColumns
      <3>2. GoodColumns(NoAggregate)
        BY NoAggregateFacts DEF GoodColumns, Newest
      <3> QED
        BY <2>1, <2>2, <2>4, <3>1, <3>2, FlushFacts
    <2>5. CASE Refresh \/ Return \/ UNCHANGED vars
      <3>1. byConnID' = byConnID /\ pending' = pending
        BY <2>5 DEF Refresh, Return, vars
      <3> QED
        BY <2>1, <3>1
    <2> QED
      BY <2>3, <2>4, <2>5 DEF Next, HandleAny, FlushAny
  <1> QED
    BY <1>1, <1>2, CountingInductive, PTL DEF Spec

-----------------------------------------------------------------------------
(* Sessions                                                                *)

\* The session of an aggregate was carried by an event it counts.
CarriedSession(a) ==
    \/ a.session = NoSession
    \/ \E e \in 1..Len(log) : /\ Counts(a, log[e].group, e)
                              /\ log[e].session = a.session

\* Sessions of connections come from waiting totals too, so these must carry
\* their own.
SessionInv ==
    /\ \A c \in ConnID : CarriedSession(byConnID[c])
    /\ \A k \in Key : CarriedSession(pending[k])

\* Startup parameters never cross from one connection to another, neither by
\* Handle, which sets them from the event it counts, nor by mergeAggregate,
\* which takes them over with the counts they came with.
THEOREM SessionsCorrect == Spec => []SessionIsOwn
  <1>1. Init => SessionInv
    BY DEF Init, SessionInv, CarriedSession, NoAggregate
  <1>2. CountInv /\ SessionInv /\ [Next]_vars => SessionInv'
    <2> SUFFICES ASSUME CountInv, SessionInv, [Next]_vars
                 PROVE  SessionInv'
      OBVIOUS
    <2>1. TypeOK /\ (\A d \in ConnID : byConnID[d] \in Aggregate)
                 /\ (\A q \in Key : pending[q] \in Aggregate)
      BY DEF CountInv, TypeOK
    <2>2. /\ Len(log) \in Nat
          /\ 1..Len(log) \subseteq Event
          /\ \A e \in 1..Len(log) : log[e].group \in Group
      BY <2>1, LogElements
    <2> DEFINE Carried(a) ==
                 \/ a.session = NoSession
                 \/ \E e \in 1..Len(log') :
                       /\ Times(a, log'[e].group, e) # 0
                       /\ log'[e].session = a.session
    <2>3. ASSUME /\ \A d \in ConnID : Carried(byConnID'[d])
                 /\ \A q \in Key : Carried(pending'[q])
          PROVE  SessionInv'
      BY <2>3 DEF SessionInv, CarriedSession, Counts, Times
    <2>4. ASSUME NEW k \in Key, NEW g \in Group, NEW s \in MaybeSession,
                 Handle(k, g, s)
          PROVE  /\ \A d \in ConnID : Carried(byConnID'[d])
                 /\ \A q \in Key : Carried(pending'[q])
      <3> DEFINE at == Len(log) + 1
      <3>1. /\ at \in Event
            /\ Len(log') = at
            /\ log'[at] = [key |-> k, group |-> g, session |-> s]
            /\ \A e \in 1..Len(log) : log'[e] = log[e]
        BY <2>1, <2>4, HandleFacts
      <3>2. ASSUME NEW a \in Aggregate, CarriedSession(a)
            PROVE  Carried(a)
        BY <2>2, <3>1, <3>2 DEF CarriedSession, Counts
      <3>3. ASSUME NEW a \in Aggregate
            PROVE  Carried(Apply(a, g, s, at))
        <4>1. /\ Apply(a, g, s, at).session = s
              /\ Times(Apply(a, g, s, at), g, at) = Times(a, g, at) + 1
              /\ Times(a, g, at) \in Nat
          BY <3>1, ApplyFacts, AggregateNumbers DEF Times
        <4>2. at \in 1..Len(log') /\ log'[at].group = g /\ log'[at].session = s
          BY <2>2, <3>1
        <4> QED
          BY <4>1, <4>2
      <3> HIDE DEF Carried
      <3> QED
        BY <2>1, <2>4, <3>2, <3>3, HandleAggregates DEF SessionInv
    <2>5. ASSUME NEW k \in Key, Flush(k)
          PROVE  /\ \A d \in ConnID : Carried(byConnID'[d])
                 /\ \A q \in Key : Carried(pending'[q])
      <3>1. log' = log
        BY <2>1, <2>5, FlushFacts
      <3>2. ASSUME NEW a \in Aggregate, CarriedSession(a)
            PROVE  Carried(a)
        BY <3>1, <3>2 DEF CarriedSession, Counts
      <3>3. ASSUME NEW a \in Aggregate, NEW b \in Aggregate,
                   CarriedSession(a), CarriedSession(b)
            PROVE  Carried(MergeAggregate(a, b))
        <4> DEFINE m == MergeAggregate(a, b)
        <4>1. /\ m.session = IF b.session # NoSession THEN b.session
                                                      ELSE a.session
              /\ \A h \in Group, e \in Event :
                    /\ Times(m, h, e) = Times(a, h, e) + Times(b, h, e)
                    /\ Times(a, h, e) \in Nat
                    /\ Times(b, h, e) \in Nat
          BY MergeFacts, AggregateNumbers DEF Times
        <4> HIDE DEF m
        <4>2. \A e \in 1..Len(log) :
                 Counts(a, log[e].group, e) \/ Counts(b, log[e].group, e)
                    => Times(m, log[e].group, e) # 0
          BY <2>2, <4>1 DEF Counts
        <4>3. Carried(m)
          BY <3>1, <3>3, <4>1, <4>2 DEF CarriedSession
        <4> QED
          BY <4>3 DEF m
      <3>4. Carried(NoAggregate)
        BY DEF NoAggregate
      <3> HIDE DEF Carried
      <3> QED
        BY <2>1, <2>5, <3>2, <3>3, <3>4, FlushFacts DEF SessionInv
    <2>6. CASE Refresh \/ Return \/ UNCHANGED vars
      <3>1. UNCHANGED <<byConnID, pending, log>>
        BY <2>6 DEF Refresh, Return, vars
      <3> QED
        BY <3>1 DEF SessionInv, CarriedSession, Counts, Times
    <2> HIDE DEF Carried
    <2> QED
      BY <2>3, <2>4, <2>5, <2>6 DEF Next, HandleAny, FlushAny
  <1>3. SessionInv => SessionIsOwn
    BY DEF SessionInv, SessionIsOwn, CarriedSession
  <1> QED
    BY <1>1, <1>2, <1>3, CountingInductive, PTL DEF Spec


-----------------------------------------------------------------------------
(* The session log: what filtering and merging do to a list of lines       *)

\* A list has lines of another, each from a place of its own.
From(out, list) ==
    \E f \in [DOMAIN out -> DOMAIN list] :
        /\ \A i \in DOMAIN out : out[i] = list[f[i]]
        /\ \A i, j \in DOMAIN out : f[i] = f[j] => i = j

\* From is transitive.
LEMMA FromFrom ==
    ASSUME NEW a, NEW b, NEW c, From(a, b), From(b, c)
    PROVE  From(a, c)
  <1>1. PICK f \in [DOMAIN a -> DOMAIN b] :
          /\ \A i \in DOMAIN a : a[i] = b[f[i]]
          /\ \A i, j \in DOMAIN a : f[i] = f[j] => i = j
    BY DEF From
  <1>2. PICK g \in [DOMAIN b -> DOMAIN c] :
          /\ \A i \in DOMAIN b : b[i] = c[g[i]]
          /\ \A i, j \in DOMAIN b : g[i] = g[j] => i = j
    BY DEF From
  <1> DEFINE h == [i \in DOMAIN a |-> g[f[i]]]
  <1>3. \A i \in DOMAIN a : f[i] \in DOMAIN b
    BY <1>1
  <1>4. /\ h \in [DOMAIN a -> DOMAIN c]
        /\ \A i \in DOMAIN a : h[i] = g[f[i]]
    BY <1>2, <1>3
  <1> HIDE DEF h
  <1>5. /\ \A i \in DOMAIN a : a[i] = c[h[i]]
        /\ \A i, j \in DOMAIN a : h[i] = h[j] => i = j
    BY <1>1, <1>2, <1>3, <1>4
  <1> QED
    BY <1>4, <1>5 DEF From

\* The places up to one, which number it.
UpTo(places, p) == {q \in places : q <= p}

\* Places are numbered one after the other.
LEMMA NumberedPlaces ==
    ASSUME NEW n \in Nat, NEW places \in SUBSET (1..n)
    PROVE  /\ Cardinality(places) \in Nat
           /\ \A i \in 1..Cardinality(places) :
                 \E p \in places : Cardinality(UpTo(places, p)) = i
  <1> DEFINE N == Cardinality(places)
             C == [p \in places |-> Cardinality(UpTo(places, p))]
  <1>1. IsFiniteSet(places) /\ N \in Nat
    <2>1. IsFiniteSet(1..n)
      BY FS_Interval
    <2> QED
      BY <2>1, FS_Subset, FS_CardinalityType
  <1>2. \A p \in places : /\ IsFiniteSet(UpTo(places, p))
                          /\ Cardinality(UpTo(places, p)) \in 1..N
    <2>1. TAKE p \in places
    <2>2. UpTo(places, p) \in SUBSET places /\ p \in UpTo(places, p)
      BY DEF UpTo
    <2>3. /\ IsFiniteSet(UpTo(places, p)) /\ Cardinality(UpTo(places, p)) <= N
          /\ Cardinality(UpTo(places, p)) \in Nat
      BY <1>1, <2>2, FS_Subset, FS_CardinalityType
    <2>4. Cardinality(UpTo(places, p)) # 0
      BY <2>2, <2>3, FS_EmptySet
    <2> QED
      BY <1>1, <2>3, <2>4
  <1>3. ASSUME NEW p \in places, NEW q \in places, p < q
        PROVE  Cardinality(UpTo(places, p)) # Cardinality(UpTo(places, q))
    <2>1. /\ UpTo(places, p) \in SUBSET UpTo(places, q)
          /\ q \in UpTo(places, q) /\ q \notin UpTo(places, p)
      <3>1. \A r \in places : r \in Nat
        OBVIOUS
      <3>2. \A r \in places : r <= p => r <= q
        BY <1>3, <3>1
      <3>3. q <= q /\ ~ (q <= p)
        BY <1>3, <3>1
      <3> QED
        BY <3>2, <3>3 DEF UpTo
    <2> QED
      BY <1>2, <2>1, FS_Subset
  <1>4. \A p, q \in places : C[p] = C[q] => p = q
    <2>1. \A p, q \in places : p < q \/ q < p \/ p = q
      OBVIOUS
    <2> QED
      BY <1>3, <2>1
  <1>5. C \in Injection(places, 1..N)
    BY <1>2, <1>4 DEF Injection, IsInjective
  <1>6. IsFiniteSet(1..N) /\ Cardinality(1..N) = N
    BY <1>1, FS_Interval
  <1> HIDE DEF C
  <1>7. C \in Surjection(places, 1..N)
    BY <1>5, <1>6, FS_Injection
  <1>8. \A i \in 1..N : \E p \in places : C[p] = i
    BY <1>7 DEF Surjection
  <1> QED
    BY <1>1, <1>8 DEF C

\* What Kept returns: the lines at the places, each once.
LEMMA KeptFacts ==
    ASSUME NEW list \in Seq(ProtocolEvent), NEW places \in SUBSET DOMAIN list
    PROVE  /\ Kept(list, places) \in Seq(ProtocolEvent)
           /\ From(Kept(list, places), list)
           /\ \A i \in DOMAIN Kept(list, places) :
                 \E p \in places : Kept(list, places)[i] = list[p]
  <1> DEFINE N == Cardinality(places)
             C(p) == Cardinality({q \in places : q <= p})
             At(i) == CHOOSE p \in places : C(p) = i
             f == [i \in 1..N |-> At(i)]
             out == Kept(list, places)
  <1>1. Len(list) \in Nat /\ DOMAIN list = 1..Len(list)
        /\ \A p \in DOMAIN list : list[p] \in ProtocolEvent
    BY LenProperties, ElementOfSeq
  <1>2. N \in Nat /\ \A i \in 1..N : \E p \in places : C(p) = i
    BY ZenonT(60), <1>1, NumberedPlaces DEF UpTo
  <1>3. out = [i \in 1..N |-> list[At(i)]]
    BY DEF Kept
  <1> HIDE DEF C, N, out
  <1>4. \A i \in 1..N : At(i) \in places /\ C(At(i)) = i
    BY <1>2
  <1> HIDE DEF At
  <1>5. DOMAIN out = 1..N /\ \A i \in 1..N : out[i] = list[At(i)]
    BY <1>3
  <1>6. out \in Seq(ProtocolEvent)
    <2>1. out \in [1..N -> ProtocolEvent]
      BY <1>1, <1>3, <1>4
    <2> QED
      BY <1>2, <2>1, SeqDef
  <1>7. From(out, list)
    <2>1. f \in [DOMAIN out -> DOMAIN list] /\ \A i \in DOMAIN out : f[i] = At(i)
      BY <1>4, <1>5
    <2> HIDE DEF f
    <2>2. \A i, j \in DOMAIN out : f[i] = f[j] => i = j
      BY <1>4, <1>5, <2>1
    <2> QED
      BY ZenonT(60), <1>5, <2>1, <2>2 DEF From
  <1>8. \A i \in DOMAIN out : \E p \in places : out[i] = list[p]
    BY <1>4, <1>5
  <1> QED
    BY <1>6, <1>7, <1>8 DEF out

\* What Cut returns: the first lines.
LEMMA CutFacts ==
    ASSUME NEW s \in Seq(ProtocolEvent), NEW n \in Nat
    PROVE  /\ Cut(s, n) \in Seq(ProtocolEvent)
           /\ Len(Cut(s, n)) <= n
           /\ DOMAIN Cut(s, n) = {i \in DOMAIN s : i <= n}
           /\ \A i \in DOMAIN Cut(s, n) : Cut(s, n)[i] = s[i]
           /\ From(Cut(s, n), s)
  <1> DEFINE m == IF Len(s) > n THEN n ELSE Len(s)
             c == SubSeq(s, 1, m)
  <1>1. Len(s) \in Nat /\ DOMAIN s = 1..Len(s)
        /\ \A i \in DOMAIN s : s[i] \in ProtocolEvent
    BY LenProperties, ElementOfSeq
  <1>2. m \in Nat /\ m <= n /\ 1..m = {i \in DOMAIN s : i <= n}
    BY <1>1
  <1>3. Cut(s, n) = c
    BY DEF Cut
  <1> HIDE DEF m
  <1>4. /\ c \in Seq(ProtocolEvent) /\ Len(c) = m
        /\ \A i \in 1..m : c[i] = s[i]
    <2>1. \A i \in 1..m : s[i] \in ProtocolEvent
      BY <1>1, <1>2
    <2>2. /\ SubSeq(s, 1, m) \in Seq(ProtocolEvent)
          /\ Len(SubSeq(s, 1, m)) = IF 1 <= m THEN m - 1 + 1 ELSE 0
          /\ \A i \in 1..(m - 1 + 1) : SubSeq(s, 1, m)[i] = s[1 + i - 1]
      BY <1>2, <2>1, SubSeqProperties
    <2>3. \A i \in 1..m : i \in 1..(m - 1 + 1) /\ 1 + i - 1 = i
      BY <1>2
    <2> QED
      BY <1>2, <2>2, <2>3
  <1> HIDE DEF c
  <1>5. DOMAIN c = 1..m
    BY <1>4, LenProperties
  <1>6. From(c, s)
    <2> DEFINE f == [i \in 1..m |-> i]
    <2>1. f \in [DOMAIN c -> DOMAIN s] /\ \A i \in DOMAIN c : f[i] = i
      BY <1>2, <1>5
    <2> HIDE DEF f
    <2> QED
      BY <1>4, <1>5, <2>1 DEF From
  <1> QED
    BY <1>2, <1>3, <1>4, <1>5, <1>6

\* The filter makes no line up and shows none twice (FilterRecent).
LEMMA FilterFacts ==
    ASSUME query \in Queries, NEW list \in Seq(ProtocolEvent), NEW allowed
    PROVE  /\ FilterRecent(list, allowed) \in Seq(ProtocolEvent)
           /\ From(FilterRecent(list, allowed), list)
  <1> DEFINE places == {i \in DOMAIN list :
                           IF allowed # {} THEN list[i].conn \in allowed
                           ELSE list[i].addr \in query.selected}
             passing == Kept(list, places)
  <1>1. places \in SUBSET DOMAIN list
    OBVIOUS
  <1>2. FilterRecent(list, allowed) =
           IF query.limit > 0 THEN Cut(passing, query.limit) ELSE passing
    BY DEF FilterRecent
  <1>3. query.limit \in Nat
    BY QueryAssumption
  <1> HIDE DEF places
  <1>4. passing \in Seq(ProtocolEvent) /\ From(passing, list)
    BY <1>1, KeptFacts
  <1> HIDE DEF passing
  <1>5. /\ Cut(passing, query.limit) \in Seq(ProtocolEvent)
        /\ From(Cut(passing, query.limit), passing)
    BY <1>3, <1>4, CutFacts
  <1>6. From(Cut(passing, query.limit), list)
    BY <1>4, <1>5, FromFrom
  <1> QED
    BY <1>2, <1>4, <1>5, <1>6

-----------------------------------------------------------------------------
(* Merging into the log                                                    *)

\* What sessionEventHistory.Merge leaves: lines of the old log and of the new
\* list, each once, with their keys and no others.
LEMMA MergeLog ==
    ASSUME events \in Seq(ProtocolEvent), SeenMatchesEvents,
           NEW in \in Seq(ProtocolEvent),
           \A i, j \in DOMAIN in : in[i].at = in[j].at => i = j,
           Merge(in)
    PROVE  /\ events' \in Seq(ProtocolEvent)
           /\ \A i \in DOMAIN events' :
                 \/ \E j \in DOMAIN events : events'[i] = events[j]
                 \/ \E j \in DOMAIN in : events'[i] = in[j]
           /\ SeenMatchesEvents'
  <1> DEFINE fresh == Fresh(in)
             new == {i \in DOMAIN in : EventKey(in[i]) \notin seen}
             longer == fresh \o events
             n == Len(fresh)
             m == Len(events)
  <1>1. HistoryLimit \in Nat
    BY HistoryAssumption
  <1>2. /\ fresh \in Seq(ProtocolEvent)
        /\ From(fresh, in)
        /\ \A i \in DOMAIN fresh : \E p \in new : fresh[i] = in[p]
    <2>1. new \in SUBSET DOMAIN in
      OBVIOUS
    <2>2. fresh = Kept(in, new)
      BY DEF Fresh
    <2> HIDE DEF fresh, new
    <2> QED
      BY <2>1, <2>2, KeptFacts
  <1>3. /\ events' = Cut(longer, HistoryLimit)
        /\ seen' = (seen \union {EventKey(fresh[i]) : i \in DOMAIN fresh})
                      \ {EventKey(longer[i]) :
                            i \in {j \in DOMAIN longer : j > HistoryLimit}}
    BY DEF Merge
  <1>4. \A i \in DOMAIN fresh :
           /\ \E p \in DOMAIN in : fresh[i] = in[p]
           /\ EventKey(fresh[i]) \notin seen
    BY <1>2
  <1>5. \A i, j \in DOMAIN fresh :
           EventKey(fresh[i]) = EventKey(fresh[j]) => i = j
    <2>1. PICK f \in [DOMAIN fresh -> DOMAIN in] :
             /\ \A i \in DOMAIN fresh : fresh[i] = in[f[i]]
             /\ \A i, j \in DOMAIN fresh : f[i] = f[j] => i = j
      BY <1>2 DEF From
    <2>2. \A i \in DOMAIN fresh : f[i] \in DOMAIN in
      BY <2>1
    <2> HIDE DEF fresh
    <2> QED
      BY <2>1, <2>2 DEF EventKey
  <1> HIDE DEF fresh, new
  <1>6. /\ n \in Nat /\ DOMAIN fresh = 1..n
        /\ m \in Nat /\ DOMAIN events = 1..m
    BY <1>2, LenProperties
  <1>7. /\ longer \in Seq(ProtocolEvent)
        /\ Len(longer) = n + m
        /\ \A i \in 1..(n + m) : longer[i] = IF i <= n THEN fresh[i]
                                             ELSE events[i - n]
    BY <1>2, ConcatProperties
  <1> HIDE DEF longer
  <1>8. DOMAIN longer = 1..(n + m)
    BY <1>7, LenProperties
  <1>9. \A i \in DOMAIN longer :
           \/ i \in DOMAIN fresh /\ longer[i] = fresh[i]
           \/ /\ i \notin DOMAIN fresh
              /\ i - n \in DOMAIN events /\ longer[i] = events[i - n]
    BY <1>6, <1>7, <1>8
  <1>10. \A i, j \in DOMAIN longer :
            EventKey(longer[i]) = EventKey(longer[j]) => i = j
    <2> SUFFICES ASSUME NEW i \in DOMAIN longer, NEW j \in DOMAIN longer,
                        EventKey(longer[i]) = EventKey(longer[j])
                 PROVE  i = j
      OBVIOUS
    <2>1. CASE i \in DOMAIN fresh /\ j \in DOMAIN fresh
      BY <1>5, <1>9, <2>1
    <2>2. CASE i \notin DOMAIN fresh /\ j \notin DOMAIN fresh
      <3>1. i - n \in DOMAIN events /\ j - n \in DOMAIN events
            /\ longer[i] = events[i - n] /\ longer[j] = events[j - n]
        BY <1>9, <2>2
      <3>2. i - n = j - n
        BY <3>1 DEF SeenMatchesEvents
      <3> QED
        BY <1>6, <1>8, <3>2
    <2>3. ASSUME NEW a \in DOMAIN fresh, NEW b \in DOMAIN events
          PROVE  EventKey(fresh[a]) # EventKey(events[b])
      BY <1>4 DEF SeenMatchesEvents
    <2> QED
      BY <1>9, <2>1, <2>2, <2>3
  <1>11. seen \union {EventKey(fresh[i]) : i \in DOMAIN fresh}
            = {EventKey(longer[i]) : i \in DOMAIN longer}
    <2>1. \A i \in DOMAIN fresh : i \in DOMAIN longer /\ longer[i] = fresh[i]
      BY <1>6, <1>7, <1>8
    <2>2. \A i \in DOMAIN events :
             i + n \in DOMAIN longer /\ longer[i + n] = events[i]
      BY <1>6, <1>7, <1>8
    <2>3. seen = {EventKey(events[i]) : i \in DOMAIN events}
      BY DEF SeenMatchesEvents
    <2> QED
      BY <1>9, <2>1, <2>2, <2>3
  <1>12. /\ events' \in Seq(ProtocolEvent)
         /\ Len(events') <= HistoryLimit
         /\ DOMAIN events' = {i \in DOMAIN longer : i <= HistoryLimit}
         /\ \A i \in DOMAIN events' : events'[i] = longer[i]
    <2> DEFINE cut == Cut(longer, HistoryLimit)
    <2>0. longer \in Seq(ProtocolEvent)
      BY <1>7
    <2>1. /\ cut \in Seq(ProtocolEvent)
          /\ Len(cut) <= HistoryLimit
          /\ DOMAIN cut = {i \in DOMAIN longer : i <= HistoryLimit}
          /\ \A i \in DOMAIN cut : cut[i] = longer[i]
      <3> HIDE DEF m, n
      <3> QED
        BY ONLY <1>1, <2>0, CutFacts
    <2>2. events' = cut
      BY <1>3
    <2> HIDE DEF cut
    <2> QED
      BY <2>1, <2>2
  <1>13. \A i \in DOMAIN longer : i <= HistoryLimit \/ i > HistoryLimit
    BY <1>1, <1>6, <1>8
  <1>14. \A i \in DOMAIN longer : ~ (i <= HistoryLimit /\ i > HistoryLimit)
    BY <1>1, <1>6, <1>8
  <1>15. seen' = {EventKey(events'[i]) : i \in DOMAIN events'}
    <2> DEFINE all == {EventKey(longer[i]) : i \in DOMAIN longer}
               beyond == {j \in DOMAIN longer : j > HistoryLimit}
               gone == {EventKey(longer[i]) : i \in beyond}
               kept == {EventKey(events'[i]) : i \in DOMAIN events'}
    <2>1. seen' = all \ gone
      BY <1>3, <1>11
    <2>2. \A i \in DOMAIN events' :
             /\ i \in DOMAIN longer /\ i \notin beyond
             /\ EventKey(events'[i]) = EventKey(longer[i])
      BY <1>12, <1>14
    <2>3. kept \subseteq all \ gone
      BY <1>10, <2>2
    <2>4. all \ gone \subseteq kept
      <3> SUFFICES ASSUME NEW i \in DOMAIN longer, i \notin beyond
                   PROVE  EventKey(longer[i]) \in kept
        OBVIOUS
      <3>1. i \in DOMAIN events'
        BY <1>12, <1>13
      <3> QED
        BY <2>2, <3>1
    <2> QED
      BY <2>1, <2>3, <2>4
  <1>16. SeenMatchesEvents'
    BY <1>10, <1>12, <1>15 DEF SeenMatchesEvents, EventKey
  <1>17. \A i \in DOMAIN events' :
            \/ \E j \in DOMAIN events : events'[i] = events[j]
            \/ \E j \in DOMAIN in : events'[i] = in[j]
    BY <1>4, <1>9, <1>12
  <1> QED
    BY <1>12, <1>16, <1>17

-----------------------------------------------------------------------------
(* The log against the correlator                                          *)

\* Every step of the command is a step of the correlator or leaves it alone.
LEMMA SessionSteps == SessionNext => [Next]_vars
  BY DEF SessionNext, RenderLoop, SessionHandle, AskSnapshot, SessionFlush,
         GetSnapshot, Render, EventLoopEnds, Leave, InterruptedOrFails, Next

\* What holds of the correlator holds of the command.
LEMMA SessionRunsCorrelator == SessionSpec => Spec
  <1>1. SessionInit => Init
    BY DEF SessionInit
  <1>2. [SessionNext]_sessionVars => [Next]_vars
    BY SessionSteps DEF sessionVars
  <1> QED
    BY <1>1, <1>2, PTL DEF SessionSpec, Spec

\* A line that tells the truth: it names the connection that counts its event
\* in `totals', with the endpoints of that connection, or neither.
Told(r, totals, history) ==
    /\ r \in ProtocolEvent
    /\ r.at \in 1..Len(history)
    /\ r.conn # NoConn => Counts(totals[r.conn], history[r.at].group, r.at)
    /\ r.addr = r.conn

\* What is true of a line stays true: totals only grow, and what was handled
\* was handled.
LEMMA ToldStays ==
    ASSUME TypeOK, [Next]_vars, NEW r, Told(r, byConnID, log)
    PROVE  Told(r, byConnID', log')
  <1>1. /\ Len(log) \in Nat /\ Len(log') \in Nat
        /\ Len(log) <= Len(log')
        /\ \A e \in 1..Len(log) : log'[e] = log[e]
    <2>1. Len(log) \in Nat
      BY LogElements
    <2>2. ASSUME NEW k \in Key, NEW g \in Group, NEW s \in MaybeSession,
                 Handle(k, g, s)
          PROVE  /\ Len(log') = Len(log) + 1
                 /\ \A e \in 1..Len(log) : log'[e] = log[e]
      BY <2>2, HandleFacts
    <2>3. (\A k \in Key, g \in Group, s \in MaybeSession : ~ Handle(k, g, s))
             => log' = log
      BY DEF Next, HandleAny, FlushAny, Refresh, Flush, Return, vars
    <2> QED
      BY <2>1, <2>2, <2>3
  <1>2. r.at \in 1..Len(log) /\ r.at \in 1..Len(log')
    BY <1>1 DEF Told
  <1>3. log'[r.at] = log[r.at]
    BY <1>1, <1>2
  <1>4. ASSUME r.conn # NoConn
        PROVE  Counts(byConnID'[r.conn], log'[r.at].group, r.at)
    <2> DEFINE g == log[r.at].group
    <2>1. g \in Group /\ r.at \in Event
      BY <1>2, LogElements
    <2>2. r.conn \in ConnID
      BY <1>4 DEF Told, ProtocolEvent, MaybeConn
    <2>3. Times(byConnID[r.conn], g, r.at) # 0
      BY <1>4 DEF Told, Counts
    <2> HIDE DEF g
    <2>4. /\ Times(byConnID[r.conn], g, r.at) \in Nat
          /\ Times(byConnID'[r.conn], g, r.at) >= Times(byConnID[r.conn], g, r.at)
      BY <2>1, <2>2, TimesType, StepGrows
    <2>5. Times(byConnID'[r.conn], g, r.at) # 0
      BY <2>3, <2>4
    <2> QED
      BY <1>3, <2>5 DEF Counts, g
  <1> QED
    BY <1>2, <1>4 DEF Told

\* The lines of the correlator's list tell the truth.
LEMMA ListTells ==
    ASSUME ListInv
    PROVE  /\ \A i \in DOMAIN recent : Told(recent[i], byConnID, log)
           /\ \A i, j \in DOMAIN recent : recent[i].at = recent[j].at => i = j
  <1>1. /\ TypeOK /\ Len(log) \in Nat
        /\ DOMAIN recent = 1..Len(recent) /\ Len(recent) \in Nat
        /\ \A i \in DOMAIN recent : /\ recent[i] \in ProtocolEvent
                                    /\ recent[i].at \in Event
    BY LogElements, RecentDomain DEF ListInv, CountInv
  <1>2. \A i \in DOMAIN recent : recent[i].at = Len(log) + 1 - i
    BY DEF ListInv, RecentAgreesWithTotals
  <1>3. \A i \in DOMAIN recent : recent[i].at \in 1..Len(log)
    BY <1>1, <1>2 DEF Event
  <1>4. \A i, j \in DOMAIN recent : recent[i].at = recent[j].at => i = j
    BY <1>1, <1>2
  <1> QED
    BY <1>1, <1>3, <1>4
       DEF ListInv, RecentAgreesWithTotals, CorrelatedHasEndpoints, Told

\* The lines of the last snapshot and of the log tell the truth, and those of
\* the snapshot are of different events.
LogInv ==
    /\ SessionTypeOK
    /\ \A i \in DOMAIN snapshot.recent :
          Told(snapshot.recent[i], byConnID, log)
    /\ \A i, j \in DOMAIN snapshot.recent :
          snapshot.recent[i].at = snapshot.recent[j].at => i = j
    /\ \A i \in DOMAIN events : Told(events[i], byConnID, log)

\* The keys of lines have their type.
LEMMA KeysType ==
    ASSUME NEW lines \in Seq(ProtocolEvent)
    PROVE  {EventKey(lines[i]) : i \in DOMAIN lines}
              \subseteq Event \X MaybeConn \X MaybeConn
  <1>1. \A i \in DOMAIN lines : lines[i] \in ProtocolEvent
    BY LenProperties, ElementOfSeq
  <1>2. \A r \in ProtocolEvent : EventKey(r) \in Event \X MaybeConn \X MaybeConn
    BY DEF ProtocolEvent, EventKey
  <1> QED
    BY <1>1, <1>2

\* A snapshot takes over true lines, of different events.
LEMMA SnapshotTells ==
    ASSUME ListInv, GetSnapshot
    PROVE  /\ snapshot' \in [conns : SUBSET ConnID, recent : Seq(ProtocolEvent),
                             ready : BOOLEAN]
           /\ Len(snapshot'.recent) <= HistoryLimit
           /\ \A i \in DOMAIN snapshot'.recent :
                 Told(snapshot'.recent[i], byConnID, log)
           /\ \A i, j \in DOMAIN snapshot'.recent :
                 snapshot'.recent[i].at = snapshot'.recent[j].at => i = j
  <1> DEFINE cut == Cut(recent, HistoryLimit)
  <1>1. recent \in Seq(ProtocolEvent) /\ connMeta \in SUBSET ConnID
    BY DEF ListInv, CountInv, TypeOK
  <1>2. HistoryLimit \in Nat
    BY HistoryAssumption
  <1>3. /\ cut \in Seq(ProtocolEvent)
        /\ Len(cut) <= HistoryLimit
        /\ DOMAIN cut = {i \in DOMAIN recent : i <= HistoryLimit}
        /\ \A i \in DOMAIN cut : cut[i] = recent[i]
    BY <1>1, <1>2, CutFacts
  <1>4. snapshot' = [conns |-> connMeta, recent |-> cut, ready |-> TRUE]
    BY DEF GetSnapshot
  <1> HIDE DEF cut
  <1>5. snapshot'.recent = cut
    BY <1>4
  <1>6. \A i \in DOMAIN cut : Told(cut[i], byConnID, log)
    BY <1>3, ListTells
  <1>7. \A i, j \in DOMAIN cut : cut[i].at = cut[j].at => i = j
    BY <1>3, ListTells
  <1>8. snapshot' \in [conns : SUBSET ConnID, recent : Seq(ProtocolEvent),
                       ready : BOOLEAN]
    BY <1>1, <1>3, <1>4
  <1> QED
    BY <1>3, <1>5, <1>6, <1>7, <1>8

\* A render keeps the truth of the log.
LEMMA RenderTells ==
    ASSUME LogInv, Render
    PROVE  /\ events' \in Seq(ProtocolEvent)
           /\ SeenMatchesEvents'
           /\ \A i \in DOMAIN events' : Told(events'[i], byConnID, log)
  <1>1. PICK allowed \in ShownConnections(snapshot.conns) :
           Merge(FilterRecent(snapshot.recent, allowed))
    BY DEF Render
  <1> DEFINE in == FilterRecent(snapshot.recent, allowed)
             list == snapshot.recent
  <1>2. list \in Seq(ProtocolEvent)
    BY DEF LogInv, SessionTypeOK
  <1>3. query \in Queries
    BY DEF LogInv, SessionTypeOK
  <1>4. in \in Seq(ProtocolEvent) /\ From(in, list)
    BY <1>2, <1>3, FilterFacts
  <1>5. Merge(in)
    BY <1>1
  <1> HIDE DEF in
  <1>6. PICK f \in [DOMAIN in -> DOMAIN list] :
           /\ \A i \in DOMAIN in : in[i] = list[f[i]]
           /\ \A i, j \in DOMAIN in : f[i] = f[j] => i = j
    BY <1>4 DEF From
  <1>7. \A i \in DOMAIN in : f[i] \in DOMAIN list
    BY <1>6
  <1>8. \A i, j \in DOMAIN in : in[i].at = in[j].at => i = j
    BY <1>6, <1>7 DEF LogInv
  <1>9. \A i \in DOMAIN in : Told(in[i], byConnID, log)
    BY <1>6, <1>7 DEF LogInv
  <1>10. events \in Seq(ProtocolEvent) /\ SeenMatchesEvents
    BY DEF LogInv, SessionTypeOK
  <1>11. /\ events' \in Seq(ProtocolEvent)
         /\ \A i \in DOMAIN events' :
               \/ \E j \in DOMAIN events : events'[i] = events[j]
               \/ \E j \in DOMAIN in : events'[i] = in[j]
         /\ SeenMatchesEvents'
    BY <1>4, <1>5, <1>8, <1>10, MergeLog
  <1>12. \A i \in DOMAIN events : Told(events[i], byConnID, log)
    BY DEF LogInv
  <1> QED
    BY <1>9, <1>11, <1>12

\* The types of the command and the truth of its lines are inductive, on top of
\* what the correlator keeps.
THEOREM LogInductive == SessionSpec => []LogInv
  <1>1. SessionInit /\ TypeOK => LogInv
    <2> SUFFICES ASSUME SessionInit, TypeOK PROVE LogInv
      OBVIOUS
    <2>1. /\ snapshot = NoSnapshot /\ events = <<>> /\ seen = {}
          /\ query \in Queries /\ command = "running"
      BY DEF SessionInit
    <2>2. /\ <<>> \in Seq(ProtocolEvent) /\ Len(<<>>) = 0 /\ DOMAIN <<>> = {}
      BY EmptySeq
    <2>3. SeenMatchesEvents
      BY <2>1, <2>2, HistoryAssumption DEF SeenMatchesEvents
    <2>4. /\ snapshot \in [conns : SUBSET ConnID, recent : Seq(ProtocolEvent),
                           ready : BOOLEAN]
          /\ snapshot.recent = <<>>
      BY <2>1, <2>2 DEF NoSnapshot
    <2>5. SessionTypeOK
      BY <2>1, <2>2, <2>3, <2>4, HistoryAssumption DEF SessionTypeOK
    <2> QED
      BY <2>1, <2>2, <2>4, <2>5 DEF LogInv
  <1>2. ListInv /\ TypeOK' /\ LogInv /\ [SessionNext]_sessionVars => LogInv'
    <2> SUFFICES ASSUME ListInv, TypeOK', LogInv, [SessionNext]_sessionVars
                 PROVE  LogInv'
      OBVIOUS
    <2>1. TypeOK /\ [Next]_vars
      BY SessionSteps DEF sessionVars, ListInv, CountInv
    <2>2. \A r : Told(r, byConnID, log) => Told(r, byConnID', log')
      BY <2>1, ToldStays
    <2>3. /\ query' = query
          /\ command' \in {"running", "loop ended", "over"}
      BY DEF LogInv, SessionTypeOK, SessionNext, RenderLoop, SessionHandle,
             AskSnapshot, SessionFlush, GetSnapshot, Render, EventLoopEnds,
             Leave, InterruptedOrFails, sessionVars
    <2>4. CASE Render
      <3>1. /\ events' \in Seq(ProtocolEvent)
            /\ SeenMatchesEvents'
            /\ \A i \in DOMAIN events' : Told(events'[i], byConnID, log)
        BY <2>4, RenderTells
      <3>2. seen' \subseteq Event \X MaybeConn \X MaybeConn
        <4>1. seen' = {EventKey(events'[i]) : i \in DOMAIN events'}
          BY <3>1 DEF SeenMatchesEvents, EventKey
        <4> QED
          BY <3>1, <4>1, KeysType
      <3>3. snapshot' = NoSnapshot
        BY <2>4 DEF Render
      <3>4. <<>> \in Seq(ProtocolEvent) /\ Len(<<>>) = 0 /\ DOMAIN <<>> = {}
        BY EmptySeq
      <3>5. /\ snapshot' \in [conns : SUBSET ConnID,
                              recent : Seq(ProtocolEvent), ready : BOOLEAN]
            /\ snapshot'.recent = <<>>
        BY <3>3, <3>4 DEF NoSnapshot
      <3>6. SessionTypeOK'
        <4>1. query' \in Queries
          BY <2>3 DEF LogInv, SessionTypeOK
        <4>2. Len(snapshot'.recent) <= HistoryLimit
          BY <3>4, <3>5, HistoryAssumption
        <4> QED
          BY <2>3, <3>1, <3>2, <3>5, <4>1, <4>2 DEF SessionTypeOK
      <3>7. \A i \in DOMAIN events' : Told(events'[i], byConnID', log')
        BY <2>2, <3>1
      <3> QED
        BY <3>4, <3>5, <3>6, <3>7 DEF LogInv
    <2>5. CASE UNCHANGED <<events, seen>>
      <3>1. SeenMatchesEvents'
        <4>1. SeenMatchesEvents /\ events' = events /\ seen' = seen
          BY <2>5 DEF LogInv, SessionTypeOK
        <4> QED
          BY <4>1 DEF SeenMatchesEvents, EventKey
      <3>2. \A i \in DOMAIN events' : Told(events'[i], byConnID', log')
        BY <2>2, <2>5 DEF LogInv
      <3>3. /\ events' \in Seq(ProtocolEvent)
            /\ seen' \subseteq Event \X MaybeConn \X MaybeConn
        BY <2>5 DEF LogInv, SessionTypeOK
      <3>4. CASE GetSnapshot
        <4>1. /\ snapshot' \in [conns : SUBSET ConnID,
                                recent : Seq(ProtocolEvent), ready : BOOLEAN]
              /\ Len(snapshot'.recent) <= HistoryLimit
              /\ \A i \in DOMAIN snapshot'.recent :
                    Told(snapshot'.recent[i], byConnID, log)
              /\ \A i, j \in DOMAIN snapshot'.recent :
                    snapshot'.recent[i].at = snapshot'.recent[j].at => i = j
          BY <3>4, SnapshotTells
        <4>2. SessionTypeOK'
          BY <2>3, <3>1, <3>3, <4>1 DEF LogInv, SessionTypeOK
        <4>3. \A i \in DOMAIN snapshot'.recent :
                 Told(snapshot'.recent[i], byConnID', log')
          BY <2>2, <4>1
        <4> QED
          BY <3>2, <4>1, <4>2, <4>3 DEF LogInv
      <3>5. CASE UNCHANGED snapshot
        <4>1. SessionTypeOK'
          BY <2>3, <3>1, <3>3, <3>5 DEF LogInv, SessionTypeOK
        <4>2. \A i \in DOMAIN snapshot'.recent :
                 Told(snapshot'.recent[i], byConnID', log')
          BY <2>2, <3>5 DEF LogInv
        <4> QED
          BY <3>2, <3>5, <4>1, <4>2 DEF LogInv
      <3>6. Render \/ GetSnapshot \/ UNCHANGED snapshot
        BY DEF SessionNext, RenderLoop, SessionHandle, AskSnapshot,
               SessionFlush, EventLoopEnds, Leave, InterruptedOrFails,
               sessionVars
      <3> QED
        BY <2>4, <3>4, <3>5, <3>6
    <2>6. Render \/ UNCHANGED <<events, seen>>
      BY DEF SessionNext, RenderLoop, SessionHandle, AskSnapshot,
             SessionFlush, GetSnapshot, EventLoopEnds, Leave,
             InterruptedOrFails, sessionVars
    <2> QED
      BY <2>4, <2>5, <2>6
  <1>3. SessionSpec => [](ListInv /\ TypeOK)
    BY SessionRunsCorrelator, ListInductive, TypeCorrect, PTL
  <1> QED
    BY <1>1, <1>2, <1>3, PTL DEF SessionSpec

\* The command's variables keep their types, and the keys in seen are those of
\* the lines on display (sessionEventHistory).
THEOREM SessionTypeCorrect == SessionSpec => []SessionTypeOK
  <1>1. LogInv => SessionTypeOK
    BY DEF LogInv
  <1> QED
    BY <1>1, LogInductive, PTL

\* Whatever happens between a snapshot and its render, and however long a line
\* stays, it names the connection its event is counted for (sessionEventHistory
\* on top of the correlator).
THEOREM LogCorrect == SessionSpec => []LogAgreesWithTotals
  <1>1. LogInv => LogAgreesWithTotals
    BY DEF LogInv, LogAgreesWithTotals, Told
  <1> QED
    BY <1>1, LogInductive, PTL

\* An event has at most one line that names a connection: two would count it
\* twice, and one connection gives one key.
THEOREM TwoLinesCorrect == SessionSpec => []AtMostTwoLines
  <1>1. ListInv /\ LogInv => AtMostTwoLines
    <2> SUFFICES ASSUME ListInv, LogInv,
                        NEW i \in DOMAIN events, NEW j \in DOMAIN events,
                        events[i].at = events[j].at,
                        events[i].conn # NoConn, events[j].conn # NoConn
                 PROVE  i = j
      BY DEF AtMostTwoLines
    <2> DEFINE e == events[i].at
               g == log[e].group
               c == events[i].conn
               d == events[j].conn
    <2>1. Told(events[i], byConnID, log) /\ Told(events[j], byConnID, log)
      BY DEF LogInv
    <2>2. /\ e \in 1..Len(log) /\ c \in ConnID /\ d \in ConnID
          /\ Counts(byConnID[c], g, e) /\ Counts(byConnID[d], g, e)
          /\ events[i].addr = c /\ events[j].addr = d
      BY <2>1 DEF Told, ProtocolEvent, MaybeConn
    <2>3. CountedExactlyOnce
      BY DEF ListInv, CountInv
    <2> HIDE DEF c, d, e, g
    <2>4. \/ \A b \in ConnID : Times(byConnID[b], g, e) = 0
          \/ \E b \in ConnID :
                \A a \in ConnID \ {b} : Times(byConnID[a], g, e) = 0
      BY <2>2, <2>3 DEF CountedExactlyOnce, g
    <2>5. c = d
      BY <2>2, <2>4 DEF Counts
    <2>6. EventKey(events[i]) = EventKey(events[j])
      BY <2>2, <2>5 DEF EventKey, c, d
    <2> QED
      BY <2>6 DEF LogInv, SessionTypeOK, SeenMatchesEvents
  <1> QED
    BY <1>1, LogInductive, SessionRunsCorrelator, ListInductive, PTL
=============================================================================
