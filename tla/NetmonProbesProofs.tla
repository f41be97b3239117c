------------------------- MODULE NetmonProbesProofs -------------------------
(***************************************************************************)
(* Proofs about the network probes, for every number of threads, sockets,  *)
(* keys, elements and transfers.                                           *)
(*                                                                         *)
(* What the properties say of a key without a race needs one fact more     *)
(* than its entry: that the only probe that runs on it is the one that     *)
(* points to the entry (Sole, Pointers).  A step on one key then leaves    *)
(* the entries of the others as they are, though the elements of the map   *)
(* are handed out again; and at the key itself there is one probe to look  *)
(* at.                                                                     *)
(***************************************************************************)
EXTENDS NetmonProbes, TLAPS

(* What is needed of a run of a probe, by where it is and what it is for.  *)
Sane(r) ==
    /\ r.op = "state" => /\ r.state \in State \ {"new"}
                         /\ r.adds = {}
    /\ r.op \in {"receive", "retransmit"} => r.state = "current"
    /\ r.op # "state" => r.adds # {}
    /\ r.pc = "store" => r.op = "state"
    /\ r.pc = "delete" => r.op = "state" /\ r.state = "closed"
    /\ r.pc \in {"create", "relookup"} => ~ (r.op = "state" /\ r.state = "closed")
    /\ r.ptr # NoSlot <=> r.pc \in {"write", "emit", "delete"}

Sending == [n : 0..MaxTransfers, of : Socket \union {Other}, hooked : BOOLEAN]
SavedSend == [n : 0..MaxTransfers, of : Socket, state : State]

\* The types, and what is saved between two probes.
TypeInv ==
    /\ TypeOK
    /\ mode \in {"tracing", "kprobe"} /\ attached \in Nat
    /\ keyOf \in [Socket -> Key \ {NoPort}]
    /\ run \in [Actor -> Run \union {Idle}]
    /\ \A a \in Actor : run[a].pc # "idle" => Sane(run[a])
    /\ call \in [Actor -> Sending \union {NotSending}]
    /\ saved \in [Actor -> SavedSend \union {NothingSaved}]

\* Nothing of another port is seen with fentry and fexit.
TracingInv ==
    mode = "tracing" =>
        /\ \A a \in Actor : /\ saved[a] = NothingSaved
                            /\ call[a] # NotSending => call[a].of # Other
                            /\ run[a].pc # "idle" =>
                                  /\ \A t \in run[a].adds : t.of # Other
                                  /\ run[a].op # "state" => run[a].state = "current"
        /\ \A e \in Slot : \A t \in slot[e].counted : t.of # Other

\* A probe that has not come to its end.
Active(a) == run[a].pc \notin {"idle", "store"}

\* The probe that deletes entries is attached when another runs.
AttachInv ==
    /\ \A a \in Actor : /\ Active(a) => attached >= 1
                        /\ call[a] # NotSending /\ call[a].hooked => attached >= 1
    /\ Entries # {} => attached >= 1

\* A probe in a function that holds the lock of the socket.
Locks(a) == run[a].pc # "idle" /\ run[a].op # "send"

\* Probes that hold the lock of a socket, and what its state may be meanwhile.
SocketInv ==
    /\ \A a \in Actor :
          /\ Locks(a) => run[a].sock \in locked
          /\ run[a].pc # "idle" /\ run[a].op # "state" => tcp[run[a].sock] # "new"
          /\ run[a].pc # "idle" /\ run[a].op = "state" /\ run[a].state = "connecting"
                => tcp[run[a].sock] = "new"
          /\ call[a] # NotSending /\ call[a].of # Other => tcp[call[a].of] # "new"
          /\ saved[a] # NothingSaved => tcp[saved[a].of] # "new"
    /\ \A a, b \in Actor :
          Locks(a) /\ Locks(b) /\ run[a].sock = run[b].sock => a = b

\* A probe is busy with a key.
On(a, k) == run[a].pc # "idle" /\ KeyIn(a) = k

\* Without a race only one probe runs on a key while there is an entry.
Sole(k) ==
    \A a, b \in Actor :
        On(a, k) /\ On(b, k) /\ (Active(a) \/ at[k] # NoSlot) => a = b

\* Only a probe on this key points to its entry, and it points to nothing else.
Pointers(k) ==
    /\ \A a \in Actor : at[k] # NoSlot /\ run[a].ptr = at[k] => On(a, k)
    /\ \A a \in Actor :
          On(a, k) => /\ run[a].pc \in {"write", "emit", "delete"} => run[a].ptr = at[k]
                      /\ run[a].pc = "create" => at[k] = NoSlot

\* What the entry has counted.
Exact(k) ==
    IF at[k] = NoSlot THEN due[k] = {} ELSE Own(slot[at[k]].counted) = due[k]

\* What an entry without a probe on its key is there for.
Owned(k) ==
    \/ \E s \in Socket : keyOf[s] = k /\ tcp[s] \notin {"new", "closed"}
    \/ LET counted == slot[at[k]].counted
       IN  counted # {} /\ \A t \in counted : t.late \/ t.of = Other
    \/ k = NoPort /\ slot[at[k]] = [counted |-> {}, state |-> "connecting"]

\* Why there is an entry, whatever its key's probe has done yet.
Needed(k) ==
    /\ at[k] # NoSlot =>
          \/ Owned(k)
          \/ \E a \in Actor : On(a, k) /\ run[a].op = "state"
          \/ \E a \in Actor : /\ On(a, k) /\ run[a].op # "state"
                              /\ run[a].pc \in {"relookup", "write"}
                              /\ slot[at[k]].counted = {}
    /\ \A a \in Actor :
          On(a, k) /\ run[a].pc = "store" /\ run[a].state = "closed" => at[k] = NoSlot
    /\ k = NoPort /\ at[k] # NoSlot =>
          /\ slot[at[k]].counted = {}
          /\ \/ slot[at[k]].state = "connecting"
             \/ \E a \in Actor : On(a, k) /\ run[a].pc \in {"relookup", "write"}

\* The state an entry shows, of a socket with a key of its own.
Shows(s) ==
    LET k == keyOf[s]
    IN  at[k] # NoSlot =>
          /\ tcp[s] = "new" => \E a \in Actor : On(a, k) /\ run[a].op = "state"
          /\ \/ slot[at[k]].state = tcp[s]
             \/ \E a \in Actor : On(a, k) /\ run[a].op = "state"
          /\ \A a \in Actor :
                On(a, k) /\ run[a].op = "state" /\ run[a].pc \in {"emit", "store"}
                    => slot[at[k]].state = run[a].state

Alone(s) == \A other \in Socket \ {s} : keyOf[other] # keyOf[s]

KeyInv == \A k \in Key \ disturbed : Sole(k) /\ Pointers(k) /\ Exact(k) /\ Needed(k)
ShowInv ==
    mode = "tracing" =>
        \A s \in Socket : Alone(s) /\ keyOf[s] \notin disturbed => Shows(s)

ProbesInv == TypeInv /\ TracingInv /\ AttachInv /\ SocketInv /\ KeyInv /\ ShowInv

-----------------------------------------------------------------------------
(* What a step does to the probe that takes it                             *)

\* Only this probe changes, and not what it is for.
Keeps(a) ==
    /\ run' \in [Actor -> Run \union {Idle}]
    /\ \A b \in Actor \ {a} : run'[b] = run[b]
    /\ run'[a].pc # "idle" =>
          /\ run'[a].sock = run[a].sock /\ run'[a].op = run[a].op
          /\ run'[a].adds = run[a].adds /\ run'[a].state = run[a].state

\* The probe is at its end.
AtEnd(a) ==
    /\ Keeps(a)
    /\ run'[a].pc = IF run[a].op = "state" THEN "store" ELSE "idle"
    /\ run'[a].ptr = NoSlot
    /\ locked' = IF run[a].op \in {"state", "send"} THEN locked
                                                    ELSE locked \ {run[a].sock}

\* The probe has gone on.
GoneTo(a, pc, ptr) ==
    Keeps(a) /\ run'[a].pc = pc /\ run'[a].ptr = ptr

\* What a run that is not idle is made of.
LEMMA RunFields ==
    ASSUME TypeInv, NEW a \in Actor, run[a].pc # "idle"
    PROVE  /\ run[a] \in Run /\ Sane(run[a])
           /\ run[a].sock \in Socket /\ run[a].op \in {"state", "receive", "retransmit", "send"}
           /\ run[a].adds \in SUBSET Transfer
           /\ run[a].state \in State \union {"current"}
           /\ run[a].ptr \in Slot \union {NoSlot}
<1>1. run[a] \in Run \union {Idle} /\ Sane(run[a])
    BY DEF TypeInv
<1>2. run[a] \in Run
    BY <1>1 DEF Idle
<1>3. QED
    BY <1>1, <1>2 DEF Run

\* What Done does.
LEMMA DoneEffect ==
    ASSUME TypeInv, NEW a \in Actor, run[a].pc # "idle", Done(a)
    PROVE  AtEnd(a)
<1>1. run \in [Actor -> Run \union {Idle}] /\ run[a] \in Run
    BY RunFields DEF TypeInv
<1>2. CASE run[a].op = "state"
    <2> DEFINE r == [run[a] EXCEPT !.pc = "store", !.ptr = NoSlot]
    <2>1. r \in Run /\ r.pc = "store" /\ r.ptr = NoSlot /\ r.sock = run[a].sock
          /\ r.op = run[a].op /\ r.adds = run[a].adds /\ r.state = run[a].state
        BY <1>1 DEF Run
    <2>2. run' = [run EXCEPT ![a] = r] /\ locked' = locked
        BY <1>2 DEF Done
    <2> HIDE DEF r
    <2>3. QED
        BY <1>1, <1>2, <2>1, <2>2 DEF AtEnd, Keeps
<1>3. CASE run[a].op # "state"
    <2>1. Idle.pc = "idle" /\ Idle.ptr = NoSlot
        BY DEF Idle
    <2>2. QED
        BY <1>1, <1>3, <2>1 DEF Done, AtEnd, Keeps
<1>4. QED
    BY <1>2, <1>3

\* What GoTo does.
LEMMA GoToEffect ==
    ASSUME TypeInv, NEW a \in Actor, run[a].pc # "idle",
           NEW pc \in {"create", "relookup", "write", "emit", "delete"}, GoTo(a, pc)
    PROVE  GoneTo(a, pc, run[a].ptr)
<1>1. run \in [Actor -> Run \union {Idle}] /\ run[a] \in Run
    BY RunFields DEF TypeInv
<1> DEFINE r == [run[a] EXCEPT !.pc = pc]
<1>2. r \in Run /\ r.pc = pc /\ r.ptr = run[a].ptr /\ r.sock = run[a].sock
      /\ r.op = run[a].op /\ r.adds = run[a].adds /\ r.state = run[a].state
    BY <1>1 DEF Run
<1>3. run' = [run EXCEPT ![a] = r]
    BY DEF GoTo
<1> HIDE DEF r
<1>4. QED
    BY <1>1, <1>2, <1>3 DEF GoneTo, Keeps

\* A probe that finds an entry has a pointer to it.
LEMMA FoundEffect ==
    ASSUME TypeInv, NEW a \in Actor, run[a].pc # "idle", NEW e \in Slot,
           run' = [run EXCEPT ![a].ptr = e, ![a].pc = "write"]
    PROVE  GoneTo(a, "write", e)
<1>1. run \in [Actor -> Run \union {Idle}] /\ run[a] \in Run
    BY RunFields DEF TypeInv
<1> DEFINE r == [run[a] EXCEPT !.ptr = e, !.pc = "write"]
<1>2. r \in Run /\ r.pc = "write" /\ r.ptr = e /\ r.sock = run[a].sock
      /\ r.op = run[a].op /\ r.adds = run[a].adds /\ r.state = run[a].state
    BY <1>1 DEF Run
<1>3. run' = [run EXCEPT ![a] = r]
    OBVIOUS
<1> HIDE DEF r
<1>4. QED
    BY ZenonT(60), <1>1, <1>2, <1>3 DEF GoneTo, Keeps

\* The key of an entry, and its element.
LEMMA KeyFacts ==
    ASSUME TypeInv, NEW a \in Actor, run[a].pc # "idle"
    PROVE  KeyIn(a) \in Key /\ at[KeyIn(a)] \in Slot \union {NoSlot}
<1>1. keyOf \in [Socket -> Key \ {NoPort}] /\ at \in [Key -> Slot \union {NoSlot}]
    BY DEF TypeInv, TypeOK
<1>2. KeyIn(a) \in Key
    BY <1>1, RunFields, KeyAssumption DEF KeyIn, KeyFor
<1>3. QED
    BY <1>1, <1>2

\* The probe looks for the entry.
LEMMA LookupEffect ==
    ASSUME TypeInv, NEW a \in Actor, Lookup(a)
    PROVE  /\ run[a].pc = "lookup" /\ UNCHANGED <<at, slot, due, disturbed>>
           /\ \/ /\ at[KeyIn(a)] # NoSlot /\ UNCHANGED locked
                 /\ GoneTo(a, "write", at[KeyIn(a)])
              \/ /\ at[KeyIn(a)] = NoSlot /\ run[a].op = "state"
                 /\ run[a].state = "closed" /\ AtEnd(a)
              \/ /\ at[KeyIn(a)] = NoSlot /\ UNCHANGED locked
                 /\ ~ (run[a].op = "state" /\ run[a].state = "closed")
                 /\ GoneTo(a, "create", run[a].ptr)
<1>1. run[a].pc = "lookup" /\ UNCHANGED <<at, slot, due, disturbed>>
    BY DEF Lookup, mapVars, historyVars
<1>2. CASE at[KeyIn(a)] # NoSlot
    <2>1. at[KeyIn(a)] \in Slot
        BY <1>1, <1>2, KeyFacts
    <2>2. run' = [run EXCEPT ![a].ptr = at[KeyIn(a)], ![a].pc = "write"] /\ UNCHANGED locked
        BY <1>2 DEF Lookup
    <2>3. QED
        BY <1>1, <1>2, <2>1, <2>2, FoundEffect
<1>3. CASE at[KeyIn(a)] = NoSlot
    <2>1. \/ run[a].op = "state" /\ run[a].state = "closed" /\ Done(a)
          \/ /\ ~ (run[a].op = "state" /\ run[a].state = "closed")
             /\ GoTo(a, "create") /\ UNCHANGED locked
        BY <1>3 DEF Lookup
    <2>2. QED
        BY <1>1, <1>3, <2>1, DoneEffect, GoToEffect
<1>4. QED
    BY <1>2, <1>3

\* The probe makes an entry of an element no key has.
LEMMA CreateEffect ==
    ASSUME TypeInv, NEW a \in Actor, Create(a)
    PROVE  /\ run[a].pc = "create" /\ UNCHANGED <<locked, due>>
           /\ GoneTo(a, "relookup", run[a].ptr)
           /\ \E new \in Slot :
                 /\ \A k \in Key : at[k] # new
                 /\ at' = [at EXCEPT ![KeyIn(a)] = new]
                 /\ slot' \in [Slot -> Stats]
                 /\ slot'[new].counted = {}
                 /\ slot'[new].state \in {tcp[run[a].sock], run[a].state}
                 /\ run[a].op # "send" \/ run[a].state = "current"
                       => slot'[new].state = tcp[run[a].sock]
                 /\ \A e \in Slot \ {new} : slot'[e] = slot[e]
                 /\ disturbed' = IF \E b \in Actor : run[b].ptr = new
                                 THEN disturbed \union {KeyIn(a)} ELSE disturbed
<1>1. run[a].pc = "create" /\ UNCHANGED <<locked, due>> /\ GoTo(a, "relookup")
    BY DEF Create, kernelVars
<1>2. GoneTo(a, "relookup", run[a].ptr)
    BY <1>1, GoToEffect
<1> DEFINE state == IF run[a].op = "send" THEN Written(a) ELSE tcp[run[a].sock]
           made == [counted |-> {}, state |-> state]
<1>3. PICK new \in Slot \ {at[k] : k \in Key} :
          /\ at' = [at EXCEPT ![KeyIn(a)] = new]
          /\ slot' = [slot EXCEPT ![new] = made]
          /\ disturbed' = IF \E b \in Actor : run[b].ptr = new
                          THEN disturbed \union {KeyIn(a)} ELSE disturbed
    BY DEF Create
<1>4. tcp[run[a].sock] \in State
    BY <1>1, RunFields DEF TypeInv, TypeOK
<1>5. /\ state \in State
      /\ state \in {tcp[run[a].sock], run[a].state}
      /\ run[a].op # "send" \/ run[a].state = "current" => state = tcp[run[a].sock]
    BY <1>1, <1>4, RunFields DEF Written
<1>6. made \in Stats /\ made.counted = {} /\ made.state = state
    BY <1>5 DEF Stats
<1> HIDE DEF state, made
<1>7. slot \in [Slot -> Stats]
    BY DEF TypeInv, TypeOK
<1>8. /\ slot' \in [Slot -> Stats] /\ slot'[new] = made
      /\ \A e \in Slot \ {new} : slot'[e] = slot[e]
    BY <1>3, <1>6, <1>7
<1>9. QED
    BY <1>1, <1>2, <1>3, <1>5, <1>6, <1>8

\* The map is full.
LEMMA CreateFailsEffect ==
    ASSUME TypeInv, NEW a \in Actor, CreateFails(a)
    PROVE  /\ run[a].pc = "create" /\ UNCHANGED <<locked, at, slot, due>>
           /\ at[KeyIn(a)] = NoSlot
           /\ disturbed' = disturbed \union {KeyIn(a)}
           /\ GoneTo(a, "relookup", run[a].ptr)
    BY GoToEffect DEF CreateFails, kernelVars, mapVars

\* The probe looks for the entry it has made.
LEMMA RelookupEffect ==
    ASSUME TypeInv, NEW a \in Actor, Relookup(a)
    PROVE  /\ run[a].pc = "relookup" /\ UNCHANGED <<at, slot, due, disturbed>>
           /\ \/ /\ at[KeyIn(a)] # NoSlot /\ UNCHANGED locked
                 /\ GoneTo(a, "write", at[KeyIn(a)])
              \/ at[KeyIn(a)] = NoSlot /\ AtEnd(a)
<1>1. run[a].pc = "relookup" /\ UNCHANGED <<at, slot, due, disturbed>>
    BY DEF Relookup, mapVars, historyVars
<1>2. CASE at[KeyIn(a)] # NoSlot
    <2>1. at[KeyIn(a)] \in Slot
        BY <1>1, <1>2, KeyFacts
    <2>2. run' = [run EXCEPT ![a].ptr = at[KeyIn(a)], ![a].pc = "write"] /\ UNCHANGED locked
        BY <1>2 DEF Relookup
    <2>3. QED
        BY <1>1, <1>2, <2>1, <2>2, FoundEffect
<1>3. CASE at[KeyIn(a)] = NoSlot
    BY <1>1, <1>3, DoneEffect DEF Relookup
<1>4. QED
    BY <1>2, <1>3

\* What a transfer is when it is accounted.
LEMMA AddedFacts ==
    ASSUME TypeInv, NEW a \in Actor, run[a].pc # "idle"
    PROVE  /\ Added(a) \in SUBSET Transfer
           /\ Added(a) = {} <=> run[a].adds = {}
           /\ \A t \in Added(a) : t.late <=> tcp[run[a].sock] = "closed"
           /\ (\A t \in run[a].adds : t.of # Other) => \A t \in Added(a) : t.of # Other
<1> DEFINE late == tcp[run[a].sock] = "closed"
           Marked(t) == [t EXCEPT !.late = late]
<1>1. late \in BOOLEAN
    OBVIOUS
<1>2. Added(a) = {Marked(t) : t \in run[a].adds}
    BY DEF Added
<1>3. run[a].adds \in SUBSET Transfer
    BY RunFields
<1> HIDE DEF late
<1>4. \A t \in Transfer : Marked(t) \in Transfer /\ Marked(t).late = late
                          /\ Marked(t).of = t.of
    <2>1. TAKE t \in Transfer
    <2>2. Marked(t) = [n |-> t.n, of |-> t.of, late |-> late]
        BY DEF Transfer
    <2>3. QED
        BY <1>1, <2>2 DEF Transfer
<1> HIDE DEF Marked
<1>5. /\ Added(a) \in SUBSET Transfer
      /\ Added(a) = {} <=> run[a].adds = {}
      /\ \A t \in Added(a) : t.late = late
      /\ (\A t \in run[a].adds : t.of # Other) => \A t \in Added(a) : t.of # Other
    BY <1>2, <1>3, <1>4
<1>6. QED
    BY <1>5 DEF late

\* The probe writes through its pointer.
LEMMA WriteEffect ==
    ASSUME TypeInv, NEW a \in Actor, Write(a)
    PROVE  /\ run[a].pc = "write" /\ run[a].ptr \in Slot /\ UNCHANGED <<at, disturbed>>
           /\ slot' \in [Slot -> Stats]
           /\ slot'[run[a].ptr].counted = slot[run[a].ptr].counted \union Added(a)
           /\ slot'[run[a].ptr].state = Written(a)
           /\ \A e \in Slot \ {run[a].ptr} : slot'[e] = slot[e]
           /\ due' = [due EXCEPT ![KeyIn(a)] = @ \union Own(Added(a))]
           /\ \/ EventType(a) = "none" /\ AtEnd(a)
              \/ /\ EventType(a) # "none" /\ UNCHANGED locked
                 /\ GoneTo(a, "emit", run[a].ptr)
<1>1. run[a].pc = "write" /\ UNCHANGED <<at, disturbed>>
    BY DEF Write
<1>2. run[a].ptr \in Slot
    BY <1>1, RunFields DEF Sane
<1> DEFINE old == slot[run[a].ptr]
           wrote == [counted |-> old.counted \union Added(a), state |-> Written(a)]
<1>3. slot \in [Slot -> Stats] /\ tcp[run[a].sock] \in State
    BY <1>1, RunFields DEF TypeInv, TypeOK
<1>4. Written(a) \in State
    BY <1>1, <1>3, RunFields DEF Written
<1>5. wrote \in Stats /\ wrote.counted = old.counted \union Added(a)
      /\ wrote.state = Written(a)
    BY <1>1, <1>2, <1>3, <1>4, AddedFacts DEF Stats
<1>6. /\ slot' = [slot EXCEPT ![run[a].ptr] = wrote]
      /\ due' = [due EXCEPT ![KeyIn(a)] = @ \union Own(Added(a))]
      /\ \/ EventType(a) = "none" /\ Done(a)
         \/ EventType(a) # "none" /\ GoTo(a, "emit") /\ UNCHANGED locked
    BY DEF Write
<1> HIDE DEF wrote, old
<1>7. slot' \in [Slot -> Stats] /\ slot'[run[a].ptr] = wrote
      /\ \A e \in Slot \ {run[a].ptr} : slot'[e] = slot[e]
    BY <1>2, <1>3, <1>5, <1>6
<1>8. \/ EventType(a) = "none" /\ AtEnd(a)
      \/ /\ EventType(a) # "none" /\ UNCHANGED locked
         /\ GoneTo(a, "emit", run[a].ptr)
    BY <1>1, <1>6, DoneEffect, GoToEffect
<1>9. QED
    BY <1>1, <1>2, <1>5, <1>6, <1>7, <1>8 DEF old

\* The probe submits its event.
LEMMA EmitEffect ==
    ASSUME TypeInv, NEW a \in Actor, Emit(a)
    PROVE  /\ run[a].pc = "emit" /\ UNCHANGED <<at, slot, due, disturbed>>
           /\ \/ /\ run[a].op = "state" /\ run[a].state = "closed" /\ UNCHANGED locked
                 /\ GoneTo(a, "delete", run[a].ptr)
              \/ /\ ~ (run[a].op = "state" /\ run[a].state = "closed")
                 /\ AtEnd(a)
<1>1. run[a].pc = "emit" /\ UNCHANGED <<at, slot, due, disturbed>>
    BY DEF Emit, mapVars, historyVars
<1>2. \/ EventType(a) = "CLOSED" /\ GoTo(a, "delete") /\ UNCHANGED locked
      \/ EventType(a) # "CLOSED" /\ Done(a)
    BY DEF Emit
<1>3. EventType(a) = "CLOSED" <=> run[a].op = "state" /\ run[a].state = "closed"
    BY DEF EventType
<1>4. QED
    BY <1>1, <1>2, <1>3, DoneEffect, GoToEffect

\* The probe deletes the entry of its key.
LEMMA DeleteEffect ==
    ASSUME TypeInv, NEW a \in Actor, Delete(a)
    PROVE  /\ run[a].pc = "delete" /\ UNCHANGED disturbed
           /\ at' = [at EXCEPT ![KeyIn(a)] = NoSlot]
           /\ due' = [due EXCEPT ![KeyIn(a)] = {}]
           /\ slot' \in [Slot -> Stats]
           /\ \A e \in Slot : slot'[e] = slot[e] \/ slot'[e] = Blank
           /\ \A k \in Key \ {KeyIn(a)} :
                 at[k] # NoSlot => slot'[at[k]] = slot[at[k]]
           /\ AtEnd(a)
<1>1. /\ run[a].pc = "delete" /\ UNCHANGED disturbed
      /\ at' = [at EXCEPT ![KeyIn(a)] = NoSlot]
      /\ due' = [due EXCEPT ![KeyIn(a)] = {}]
      /\ slot' = [e \in Slot |-> IF Unseen(a, e) THEN Blank ELSE slot[e]]
      /\ Done(a)
    BY DEF Delete
<1>2. slot \in [Slot -> Stats] /\ at \in [Key -> Slot \union {NoSlot}] /\ Blank \in Stats
    BY DEF TypeInv, TypeOK, Blank, Stats, State
<1>3. slot' \in [Slot -> Stats]
    BY <1>1, <1>2
<1>4. ASSUME NEW k \in Key \ {KeyIn(a)}, at[k] # NoSlot
      PROVE  slot'[at[k]] = slot[at[k]]
    BY <1>1, <1>2, <1>4 DEF Unseen
<1>5. QED
    BY <1>1, <1>2, <1>3, <1>4, DoneEffect

\* The state is stored, the lock released.
LEMMA StoreEffect ==
    ASSUME TypeInv, NEW a \in Actor, Store(a)
    PROVE  /\ run[a].pc = "store" /\ UNCHANGED <<at, slot, due, disturbed>>
           /\ run[a].op = "state" /\ run[a].state \in State \ {"new"}
           /\ tcp' = [tcp EXCEPT ![run[a].sock] = run[a].state]
           /\ locked' = locked \ {run[a].sock}
           /\ GoneTo(a, "idle", NoSlot)
<1>1. /\ run[a].pc = "store" /\ UNCHANGED <<at, slot, due, disturbed>>
      /\ tcp' = [tcp EXCEPT ![run[a].sock] = run[a].state]
      /\ locked' = locked \ {run[a].sock}
      /\ run' = [run EXCEPT ![a] = Idle]
    BY DEF Store, mapVars, historyVars
<1>2. run[a].op = "state" /\ run[a].state \in State \ {"new"}
    BY <1>1, RunFields DEF Sane
<1>3. Idle.pc = "idle" /\ Idle.ptr = NoSlot /\ run \in [Actor -> Run \union {Idle}]
    BY DEF Idle, TypeInv
<1>4. QED
    BY <1>1, <1>2, <1>3 DEF GoneTo, Keeps

-----------------------------------------------------------------------------
(* The types                                                               *)

\* A step of a probe that runs.
RunStep(a) ==
    \/ Lookup(a) \/ Create(a) \/ CreateFails(a) \/ Relookup(a)
    \/ Write(a) \/ Emit(a) \/ Delete(a) \/ Store(a)

\* Elements that two keys do not share.
Injective(map) ==
    \A j, k \in Key : map[j] = map[k] /\ map[j] # NoSlot => j = k

\* What a step of a probe leaves alone: all but its key, of the map of
\* connections, and what is not its own.
LEMMA StepFrame ==
    ASSUME TypeInv, NEW a \in Actor, RunStep(a)
    PROVE  /\ run[a].pc # "idle" /\ Keeps(a)
           /\ UNCHANGED <<mode, attached, keyOf, call, saved, transfers>>
           /\ tcp' = tcp \/ Store(a)
           /\ at' \in [Key -> Slot \union {NoSlot}] /\ Injective(at')
           /\ slot' \in [Slot -> Stats]
           /\ due' \in [Key -> SUBSET Transfer] /\ disturbed' \subseteq Key
           /\ disturbed \subseteq disturbed'
           /\ \A k \in Key \ {KeyIn(a)} :
                 /\ at'[k] = at[k] /\ due'[k] = due[k]
                 /\ k \in disturbed' => k \in disturbed
<1>1. UNCHANGED <<mode, attached, keyOf, call, saved, transfers>>
    BY DEF RunStep, Lookup, Create, CreateFails, Relookup, Write, Emit, Delete, Store,
           loaderVars, kernelVars
<1>2. tcp' = tcp \/ Store(a)
    BY DEF RunStep, Lookup, Create, CreateFails, Relookup, Write, Emit, Delete, kernelVars
<1>3. /\ at \in [Key -> Slot \union {NoSlot}] /\ Injective(at)
      /\ slot \in [Slot -> Stats]
      /\ due \in [Key -> SUBSET Transfer] /\ disturbed \subseteq Key
    BY DEF TypeInv, TypeOK, Entries, Injective
<1>4. CASE Lookup(a)
    BY <1>1, <1>2, <1>3, <1>4, LookupEffect DEF GoneTo, AtEnd
<1>5. CASE Create(a)
    <2>1. run[a].pc # "idle" /\ Keeps(a) /\ UNCHANGED due
        BY <1>5, CreateEffect DEF GoneTo
    <2>2. KeyIn(a) \in Key
        BY <2>1, KeyFacts
    <2>3. PICK new \in Slot :
              /\ \A k \in Key : at[k] # new
              /\ at' = [at EXCEPT ![KeyIn(a)] = new]
              /\ slot' \in [Slot -> Stats]
              /\ disturbed' = IF \E b \in Actor : run[b].ptr = new
                              THEN disturbed \union {KeyIn(a)} ELSE disturbed
        BY <1>5, CreateEffect
    <2>4. QED
        BY <1>1, <1>2, <1>3, <2>1, <2>2, <2>3 DEF Injective
<1>6. CASE CreateFails(a)
    BY <1>1, <1>2, <1>3, <1>6, CreateFailsEffect, KeyFacts DEF GoneTo
<1>7. CASE Relookup(a)
    BY <1>1, <1>2, <1>3, <1>7, RelookupEffect DEF GoneTo, AtEnd
<1>8. CASE Write(a)
    <2>1. /\ run[a].pc # "idle" /\ Keeps(a) /\ UNCHANGED <<at, disturbed>>
          /\ slot' \in [Slot -> Stats]
          /\ due' = [due EXCEPT ![KeyIn(a)] = @ \union Own(Added(a))]
        BY <1>8, WriteEffect DEF GoneTo, AtEnd
    <2>2. Own(Added(a)) \in SUBSET Transfer /\ KeyIn(a) \in Key
        BY <2>1, AddedFacts, KeyFacts DEF Own
    <2>3. QED
        BY <1>1, <1>2, <1>3, <2>1, <2>2
<1>9. CASE Emit(a)
    BY <1>1, <1>2, <1>3, <1>9, EmitEffect DEF GoneTo, AtEnd
<1>10. CASE Delete(a)
    <2>1. /\ run[a].pc # "idle" /\ Keeps(a) /\ UNCHANGED disturbed
          /\ at' = [at EXCEPT ![KeyIn(a)] = NoSlot]
          /\ due' = [due EXCEPT ![KeyIn(a)] = {}]
          /\ slot' \in [Slot -> Stats]
        BY <1>10, DeleteEffect DEF AtEnd
    <2>2. KeyIn(a) \in Key
        BY <2>1, KeyFacts
    <2>3. QED
        BY <1>1, <1>2, <1>3, <2>1, <2>2 DEF Injective
<1>11. CASE Store(a)
    BY <1>1, <1>2, <1>3, <1>11, StoreEffect DEF GoneTo
<1>12. QED
    BY <1>4, <1>5, <1>6, <1>7, <1>8, <1>9, <1>10, <1>11 DEF RunStep

\* A probe stays what it should be.
LEMMA StepSane ==
    ASSUME TypeInv, NEW a \in Actor, RunStep(a), run'[a].pc # "idle"
    PROVE  Sane(run'[a])
<1> DEFINE k == KeyIn(a)
<1>1. Sane(run[a]) /\ Keeps(a) /\ run[a].pc # "idle" /\ k \in Key
      /\ at[k] \in Slot \union {NoSlot}
    BY StepFrame, RunFields, KeyFacts
<1>2. NoSlot \notin Slot
    BY SlotAssumption
<1> HIDE DEF k
<1>3. CASE AtEnd(a)
    BY <1>1, <1>3 DEF AtEnd, Keeps, Sane
<1>4. CASE Lookup(a)
    BY <1>1, <1>2, <1>3, <1>4, LookupEffect DEF GoneTo, Keeps, Sane, k
<1>5. CASE Create(a)
    BY <1>1, <1>2, <1>3, <1>5, CreateEffect DEF GoneTo, Keeps, Sane
<1>6. CASE CreateFails(a)
    BY <1>1, <1>2, <1>3, <1>6, CreateFailsEffect DEF GoneTo, Keeps, Sane
<1>7. CASE Relookup(a)
    BY <1>1, <1>2, <1>3, <1>7, RelookupEffect DEF GoneTo, Keeps, Sane, k
<1>8. CASE Write(a)
    BY <1>1, <1>2, <1>3, <1>8, WriteEffect DEF GoneTo, Keeps, Sane
<1>9. CASE Emit(a)
    BY <1>1, <1>2, <1>3, <1>9, EmitEffect DEF GoneTo, Keeps, Sane
<1>10. CASE Delete(a)
    BY <1>1, <1>2, <1>3, <1>10, DeleteEffect DEF GoneTo, Keeps, Sane
<1>11. CASE Store(a)
    BY <1>1, <1>11, StoreEffect DEF GoneTo
<1>12. QED
    BY <1>4, <1>5, <1>6, <1>7, <1>8, <1>9, <1>10, <1>11 DEF RunStep

\* What a running probe does with the lock.
LEMMA StepLocked ==
    ASSUME TypeInv, NEW a \in Actor, RunStep(a)
    PROVE  /\ locked' = locked \/ locked' = locked \ {run[a].sock}
           /\ run'[a].pc # "idle" \/ run[a].op = "send" => locked' = locked
<1>1. CASE AtEnd(a)
    BY <1>1 DEF AtEnd
<1>2. CASE Store(a)
    BY <1>2, StoreEffect DEF GoneTo
<1>3. QED
    BY <1>1, <1>2, LookupEffect, CreateEffect, CreateFailsEffect, RelookupEffect,
       WriteEffect, EmitEffect, DeleteEffect DEF RunStep

\* Steps of running probes keep the types.
LEMMA StepTypes ==
    ASSUME TypeInv, NEW a \in Actor, RunStep(a)
    PROVE  TypeInv'
<1>1. TypeOK /\ run \in [Actor -> Run \union {Idle}]
    BY DEF TypeInv
<1>2. tcp' \in [Socket -> State]
    <2>1. tcp \in [Socket -> State]
        BY DEF TypeInv, TypeOK
    <2>2. CASE tcp' = tcp
        BY <2>1, <2>2
    <2>3. CASE Store(a)
        BY <2>1, <2>3, StoreEffect
    <2>4. QED
        BY <2>2, <2>3, StepFrame
<1>3. locked' \subseteq Socket
    BY <1>1, StepLocked DEF TypeOK
<1>4. \A b \in Actor : run'[b].pc # "idle" => Sane(run'[b])
    BY StepSane, StepFrame DEF Keeps, TypeInv
<1>5. \A b \in Actor : run'[b].pc \in {"write", "emit", "delete"} => run'[b].ptr # NoSlot
    BY <1>4 DEF Sane
<1>6. run' \in [Actor -> Run \union {Idle}] /\ UNCHANGED <<mode, attached, keyOf, call, saved, transfers>>
    BY StepFrame DEF Keeps
<1>7. \A j, k \in Entries' : at'[j] = at'[k] => j = k
    BY StepFrame DEF Injective, Entries
<1>8. /\ at' \in [Key -> Slot \union {NoSlot}]
      /\ slot' \in [Slot -> Stats]
      /\ due' \in [Key -> SUBSET Transfer] /\ disturbed' \subseteq Key
    BY StepFrame
<1>9. TypeOK'
    BY <1>1, <1>2, <1>3, <1>5, <1>6, <1>7, <1>8 DEF TypeOK
<1>10. QED
    BY <1>4, <1>6, <1>9 DEF TypeInv

\* A probe has started.
Begun(a) ==
    /\ run[a].pc = "idle"
    /\ run' \in [Actor -> Run \union {Idle}]
    /\ \A b \in Actor \ {a} : run'[b] = run[b]
    /\ run'[a] \in Run /\ run'[a].pc = "lookup" /\ run'[a].ptr = NoSlot
    /\ Sane(run'[a])
    /\ UNCHANGED <<mode, attached, keyOf, tcp, at, slot, due>>
    /\ disturbed' = IF Busy(KeyIn(a)') THEN disturbed \union {KeyIn(a)'} ELSE disturbed

\* A step that starts a probe.
StartStep(a) ==
    \/ \E s \in Socket : \/ \E new \in State : SetState(a, s, new)
                         \/ Receive(a, s) \/ Retransmit(a, s)
    \/ SendReturns(a)

\* What Start does.
LEMMA StartEffect ==
    ASSUME TypeInv, NEW a \in Actor, NEW s \in Socket, NEW adds \in SUBSET Transfer,
           NEW op \in {"state", "receive", "retransmit", "send"},
           NEW state \in State \union {"current"},
           op = "state" => state \in State \ {"new"} /\ adds = {},
           op \in {"receive", "retransmit"} => state = "current",
           op # "state" => adds # {},
           Start(a, op, s, adds, state),
           UNCHANGED <<mode, attached, keyOf, tcp>>
    PROVE  /\ Begun(a)
           /\ run'[a].op = op /\ run'[a].sock = s /\ run'[a].adds = adds
           /\ run'[a].state = state
<1> DEFINE r == [pc |-> "lookup", op |-> op, sock |-> s,
                 adds |-> adds, state |-> state, ptr |-> NoSlot]
<1>1. /\ r \in Run /\ r.pc = "lookup" /\ r.op = op /\ r.sock = s /\ r.adds = adds
      /\ r.state = state /\ r.ptr = NoSlot
    BY DEF Run
<1>2. /\ run[a].pc = "idle" /\ run' = [run EXCEPT ![a] = r]
      /\ disturbed' = IF Busy(KeyFor(s, op, state))
                      THEN disturbed \union {KeyFor(s, op, state)} ELSE disturbed
      /\ UNCHANGED <<at, slot, due>>
    BY DEF Start, mapVars
<1> HIDE DEF r
<1>3. run \in [Actor -> Run \union {Idle}]
    BY DEF TypeInv
<1>4. /\ run' \in [Actor -> Run \union {Idle}] /\ run'[a] = r
      /\ \A b \in Actor \ {a} : run'[b] = run[b]
    BY <1>1, <1>2, <1>3
<1>5. Sane(r)
    BY <1>1 DEF Sane
<1>6. KeyIn(a)' = KeyFor(s, op, state)
    BY <1>1, <1>4 DEF KeyIn, KeyFor
<1>7. QED
    BY <1>1, <1>2, <1>4, <1>5, <1>6 DEF Begun

\* A call that has been seen.
LEMMA CallFacts ==
    ASSUME TypeInv, NEW a \in Actor
    PROVE  /\ call[a] # NotSending =>
                 /\ call[a].n \in 0..MaxTransfers /\ call[a].of \in Socket \union {Other}
                 /\ call[a].hooked \in BOOLEAN
           /\ saved[a] # NothingSaved =>
                 saved[a].of \in Socket /\ saved[a].state \in State
    BY DEF TypeInv, Sending, SavedSend

\* A probe that is attached makes one at least.
LEMMA AttachedOne ==
    ASSUME TypeInv, NEW p \in {"state", "save", "send", "receive", "retransmit"},
           Attached(p)
    PROVE  attached >= 1
<1>1. Probes = 4 \/ Probes = 5
    BY DEF Probes
<1>2. Place(p) \in Nat /\ Place(p) >= 1
    BY <1>1 DEF Place
<1>3. QED
    BY <1>2 DEF Attached, TypeInv

\* What a probe that starts is for, and whose lock is held.
LEMMA Begins ==
    ASSUME TypeInv, TracingInv, AttachInv, SocketInv, NEW a \in Actor, StartStep(a)
    PROVE  /\ Begun(a)
           /\ attached >= 1
           /\ run'[a].op # "state" => tcp[run'[a].sock] # "new"
           /\ run'[a].op = "state" /\ run'[a].state = "connecting"
                 => tcp[run'[a].sock] = "new"
           /\ IF run'[a].op = "send"
              THEN locked' = locked
              ELSE run'[a].sock \notin locked /\ locked' = locked \union {run'[a].sock}
           /\ mode = "tracing" =>
                 /\ \A t \in run'[a].adds : t.of # Other
                 /\ run'[a].op # "state" => run'[a].state = "current"
           /\ call' \in [Actor -> Sending \union {NotSending}]
           /\ saved' \in [Actor -> SavedSend \union {NothingSaved}]
           /\ \A b \in Actor : /\ call'[b] = NotSending \/ call'[b] = call[b]
                               /\ saved'[b] = NothingSaved \/ saved'[b] = saved[b]
           /\ transfers' \in 0..MaxTransfers
<1>1. /\ attached \in Nat /\ transfers \in 0..MaxTransfers /\ MaxTransfers \in Nat
      /\ call \in [Actor -> Sending \union {NotSending}]
      /\ saved \in [Actor -> SavedSend \union {NothingSaved}]
      /\ tcp \in [Socket -> State]
    BY BoundAssumption DEF TypeInv, TypeOK
<1>2. \A p \in {"state", "save", "send", "receive", "retransmit"} :
          Attached(p) => attached >= 1
    BY AttachedOne
<1>3. ASSUME NEW s \in Socket, Count
      PROVE  /\ Numbered(s) \in Transfer /\ Numbered(s).of = s
             /\ transfers' \in 0..MaxTransfers
    BY <1>1, <1>3 DEF Count, Numbered, Transfer
<1>4. CASE \E s \in Socket, new \in State : SetState(a, s, new)
    <2>1. PICK s \in Socket, new \in State : SetState(a, s, new)
        BY <1>4
    <2>2. /\ new \in Following(s) /\ Attached("state") /\ s \notin locked
          /\ locked' = locked \union {s} /\ Start(a, "state", s, {}, new)
          /\ UNCHANGED <<mode, attached, keyOf, tcp, call, saved, transfers>>
        BY <2>1 DEF SetState, StartLocked, loaderVars
    <2>3. new # "new" /\ (new = "connecting" => tcp[s] = "new")
        BY <1>1, <2>2 DEF Following, State
    <2>4. /\ Begun(a)
          /\ run'[a].op = "state" /\ run'[a].sock = s /\ run'[a].adds = {}
          /\ run'[a].state = new
        BY <2>2, <2>3, StartEffect
    <2>5. QED
        BY <1>1, <1>2, <2>2, <2>3, <2>4
<1>5. CASE \E s \in Socket : Receive(a, s) \/ Retransmit(a, s)
    <2>1. PICK s \in Socket : Receive(a, s) \/ Retransmit(a, s)
        BY <1>5
    <2>2. PICK op \in {"receive", "retransmit"} :
              /\ tcp[s] # "new" /\ Attached(op) /\ s \notin locked /\ Count
              /\ locked' = locked \union {s}
              /\ Start(a, op, s, {Numbered(s)}, "current")
              /\ UNCHANGED <<mode, attached, keyOf, tcp, call, saved>>
        BY <2>1 DEF Receive, Retransmit, StartLocked, loaderVars
    <2>3. /\ Begun(a)
          /\ run'[a].op = op /\ run'[a].sock = s /\ run'[a].adds = {Numbered(s)}
          /\ run'[a].state = "current"
        BY <1>3, <2>2, StartEffect
    <2>4. s # Other
        BY SocketAssumption
    <2>5. QED
        BY <1>1, <1>2, <1>3, <2>2, <2>3, <2>4
<1>6. CASE SendReturns(a)
    <2>1. /\ call[a] # NotSending /\ call[a].hooked
          /\ call' = [call EXCEPT ![a] = NotSending]
          /\ UNCHANGED <<mode, attached, keyOf, tcp, locked, transfers>>
        BY <1>6 DEF SendReturns, loaderVars
    <2>2. call[a].n \in 0..MaxTransfers /\ call[a].of \in Socket \union {Other}
        BY <2>1, CallFacts
    <2>3. Sent(a) \in SUBSET Transfer /\ Sent(a) # {} /\ \A t \in Sent(a) : t.of = call[a].of
        BY <2>2 DEF Sent, Transfer
    <2>4. attached >= 1
        BY <2>1 DEF AttachInv
    <2>5. PICK s \in Socket, state \in State \union {"current"} :
              /\ Start(a, "send", s, Sent(a), state) /\ tcp[s] # "new"
              /\ mode = "tracing" => call[a].of # Other /\ state = "current"
              /\ saved' = saved \/ saved' = [saved EXCEPT ![a] = NothingSaved]
        <3>1. CASE mode = "tracing"
            <4>1. Start(a, "send", call[a].of, Sent(a), "current") /\ UNCHANGED saved
                BY <1>6, <3>1 DEF SendReturns
            <4>2. call[a].of # Other /\ call[a].of \in Socket
                BY <2>1, <2>2, <3>1 DEF TracingInv
            <4>3. tcp[call[a].of] # "new"
                BY <2>1, <4>2 DEF SocketInv
            <4>4. QED
                BY <4>1, <4>2, <4>3
        <3>2. CASE mode # "tracing"
            <4>1. /\ saved[a] # NothingSaved
                  /\ Start(a, "send", saved[a].of, Sent(a), saved[a].state)
                  /\ saved' = [saved EXCEPT ![a] = NothingSaved]
                BY <1>6, <3>2 DEF SendReturns
            <4>2. saved[a].of \in Socket /\ saved[a].state \in State
                BY <4>1, CallFacts
            <4>3. tcp[saved[a].of] # "new"
                BY <4>1 DEF SocketInv
            <4>4. QED
                BY <3>2, <4>1, <4>2, <4>3
        <3>3. QED
            BY <3>1, <3>2
    <2>6. /\ Begun(a)
          /\ run'[a].op = "send" /\ run'[a].sock = s
          /\ run'[a].adds = Sent(a) /\ run'[a].state = state
        BY <2>1, <2>3, <2>5, StartEffect
    <2>7. QED
        BY <1>1, <2>1, <2>3, <2>4, <2>5, <2>6
<1>7. QED
    BY <1>4, <1>5, <1>6 DEF StartStep

\* Starts keep the types.
LEMMA StartTypes ==
    ASSUME TypeInv, TracingInv, AttachInv, SocketInv, NEW a \in Actor, StartStep(a)
    PROVE  TypeInv'
<1>1. TypeOK /\ run \in [Actor -> Run \union {Idle}]
    BY DEF TypeInv
<1>2. Begun(a)
    BY Begins
<1>3. KeyIn(a)' \in Key
    <2>1. run'[a].sock \in Socket /\ keyOf \in [Socket -> Key \ {NoPort}]
        BY <1>2 DEF Begun, Run, TypeInv
    <2>2. QED
        BY <1>2, <2>1, KeyAssumption DEF Begun, KeyIn, KeyFor
<1>4. disturbed' \subseteq Key
    BY <1>1, <1>2, <1>3 DEF Begun, TypeOK
<1>5. locked' \subseteq Socket
    <2>1. run'[a].sock \in Socket
        BY <1>2 DEF Begun, Run
    <2>2. QED
        BY <1>1, <2>1, Begins DEF TypeOK
<1>6. /\ \A b \in Actor : run'[b].pc # "idle" => Sane(run'[b])
      /\ \A b \in Actor : run'[b].pc \in {"write", "emit", "delete"} => run'[b].ptr # NoSlot
    BY <1>1, <1>2 DEF Begun, TypeInv, TypeOK
<1>7. TypeOK'
    <2>1. Entries' = Entries
        BY <1>2 DEF Begun, Entries
    <2>2. transfers' \in 0..MaxTransfers
        BY Begins
    <2>3. QED
        BY <1>1, <1>2, <1>4, <1>5, <1>6, <2>1, <2>2 DEF Begun, TypeOK
<1>8. /\ call' \in [Actor -> Sending \union {NotSending}]
      /\ saved' \in [Actor -> SavedSend \union {NothingSaved}]
    BY Begins
<1>9. QED
    BY <1>2, <1>6, <1>7, <1>8 DEF Begun, TypeInv

-----------------------------------------------------------------------------
(* Locks, states of sockets, and what is attached                          *)

Base == TypeInv /\ TracingInv /\ AttachInv /\ SocketInv

\* A call begins or ends without a probe, or what is saved is evicted, or the
\* loader attaches one more.
QuietStep ==
    \/ AttachNext
    \/ \E a \in Actor :
          \/ \E s \in Socket \union {Other}, hooked \in BOOLEAN : Send(a, s, hooked)
          \/ EvictSend(a) \/ SendReturnsUnseen(a)

\* Such a step is none to the probes that run and to the map.
LEMMA QuietFrame ==
    ASSUME QuietStep
    PROVE  UNCHANGED <<mode, keyOf, tcp, locked, at, slot, run, due, disturbed>>
    BY DEF QuietStep, AttachNext, Send, EvictSend, SendReturnsUnseen, loaderVars,
           kernelVars, mapVars, historyVars

\* What a call to tcp_sendmsg is when it begins.
LEMMA SendEffect ==
    ASSUME Base, NEW a \in Actor, NEW s \in Socket \union {Other},
           NEW hooked \in BOOLEAN, Send(a, s, hooked)
    PROVE  /\ transfers' \in 0..MaxTransfers /\ attached' = attached
           /\ call' \in [Actor -> Sending \union {NotSending}]
           /\ saved' \in [Actor -> SavedSend \union {NothingSaved}]
           /\ \A b \in Actor \ {a} : call'[b] = call[b] /\ saved'[b] = saved[b]
           /\ call'[a].of = s /\ call'[a].hooked = hooked
           /\ hooked => attached >= 1
           /\ s = Other => mode = "kprobe" /\ saved' = saved
           /\ s # Other => tcp[s] # "new"
           /\ \/ saved'[a] = saved[a]
              \/ mode = "kprobe" /\ s # Other /\ saved'[a].of = s
<1>1. /\ transfers \in 0..MaxTransfers /\ MaxTransfers \in Nat
      /\ call \in [Actor -> Sending \union {NotSending}]
      /\ saved \in [Actor -> SavedSend \union {NothingSaved}]
      /\ tcp \in [Socket -> State]
    BY BoundAssumption DEF Base, TypeInv, TypeOK
<1>2. transfers' \in 0..MaxTransfers /\ attached' = attached
    BY <1>1 DEF Send, Count, loaderVars
<1> DEFINE began == [n |-> IF s = Other THEN 0 ELSE transfers', of |-> s,
                     hooked |-> hooked]
           kept == [n |-> transfers', of |-> s, state |-> tcp[s]]
<1>3. began \in Sending /\ began.of = s /\ began.hooked = hooked
    BY <1>1, <1>2 DEF Sending
<1>4. s # Other => kept \in SavedSend /\ kept.of = s /\ tcp[s] # "new"
    BY <1>1, <1>2 DEF Send, SavedSend
<1>5. /\ call' = [call EXCEPT ![a] = began]
      /\ saved' = IF mode = "kprobe" /\ s # Other THEN [saved EXCEPT ![a] = kept]
                                                  ELSE saved
    BY DEF Send
<1> HIDE DEF began, kept
<1>6. s = Other => mode = "kprobe"
    BY DEF Send
<1>7. hooked => attached >= 1
    BY AttachedOne DEF Send, Base
<1>8. QED
    BY <1>1, <1>2, <1>3, <1>4, <1>5, <1>6, <1>7

\* These steps keep the types, locks and states.
LEMMA QuietBase ==
    ASSUME Base, QuietStep
    PROVE  Base'
<1>1. UNCHANGED <<mode, keyOf, tcp, locked, at, slot, run, due, disturbed>>
    BY QuietFrame
<1>2. /\ transfers' \in 0..MaxTransfers /\ attached' \in Nat /\ attached' >= attached
      /\ call' \in [Actor -> Sending \union {NotSending}]
      /\ saved' \in [Actor -> SavedSend \union {NothingSaved}]
      /\ \A b \in Actor :
            /\ \/ call'[b] = NotSending \/ call'[b] = call[b]
               \/ /\ call'[b].of \in Socket \union {Other}
                  /\ call'[b].hooked => attached >= 1
                  /\ call'[b].of = Other => mode = "kprobe"
                  /\ call'[b].of # Other => tcp[call'[b].of] # "new"
            /\ \/ saved'[b] = NothingSaved \/ saved'[b] = saved[b]
               \/ /\ mode = "kprobe" /\ saved'[b].of \in Socket
                  /\ tcp[saved'[b].of] # "new"
    <2>1. /\ transfers \in 0..MaxTransfers /\ attached \in Nat
          /\ call \in [Actor -> Sending \union {NotSending}]
          /\ saved \in [Actor -> SavedSend \union {NothingSaved}]
        BY DEF Base, TypeInv, TypeOK
    <2>2. CASE AttachNext
        BY <2>1, <2>2 DEF AttachNext, kernelVars
    <2>3. CASE \E a \in Actor, s \in Socket \union {Other}, hooked \in BOOLEAN :
                  Send(a, s, hooked)
        <3>1. PICK a \in Actor, s \in Socket \union {Other}, hooked \in BOOLEAN :
                  Send(a, s, hooked)
            BY <2>3
        <3>2. attached' = attached
            BY <3>1, SendEffect
        <3>3. \A b \in Actor :
                 /\ \/ call'[b] = call[b]
                    \/ /\ call'[b].of = s
                       /\ call'[b].hooked => attached >= 1
                       /\ s = Other => mode = "kprobe"
                       /\ s # Other => tcp[s] # "new"
                 /\ \/ saved'[b] = saved[b]
                    \/ mode = "kprobe" /\ s # Other /\ saved'[b].of = s
            BY <3>1, SendEffect
        <3>4. s # Other => tcp[s] # "new"
            BY <3>1, SendEffect
        <3>5. /\ transfers' \in 0..MaxTransfers
              /\ call' \in [Actor -> Sending \union {NotSending}]
              /\ saved' \in [Actor -> SavedSend \union {NothingSaved}]
            BY <3>1, SendEffect
        <3>6. QED
            BY <2>1, <3>2, <3>3, <3>4, <3>5
    <2>4. CASE \E a \in Actor : EvictSend(a) \/ SendReturnsUnseen(a)
        BY <2>1, <2>4 DEF EvictSend, SendReturnsUnseen, loaderVars
    <2>5. QED
        BY <2>2, <2>3, <2>4 DEF QuietStep
<1>3. TypeInv'
    <2>1. TypeInv
        BY DEF Base
    <2>2. TypeOK'
        BY <1>1, <1>2, <2>1 DEF TypeInv, TypeOK, Entries
    <2>3. QED
        BY <1>1, <1>2, <2>1, <2>2 DEF TypeInv
<1>4. TracingInv'
    BY <1>1, <1>2 DEF Base, TracingInv
<1>5. AttachInv'
    <2>1. attached >= 1 => attached' >= 1
        BY <1>2 DEF Base, TypeInv
    <2>2. QED
        BY <1>1, <1>2, <2>1 DEF Base, AttachInv, Active, Entries
<1>6. SocketInv'
    BY <1>1, <1>2 DEF Base, SocketInv, Locks
<1>7. QED
    BY <1>3, <1>4, <1>5, <1>6 DEF Base

\* Nothing is attached when a state changes unseen: nothing runs but probes that
\* hold the lock of another socket.
LEMMA UnseenBase ==
    ASSUME Base, NEW s \in Socket, NEW new \in State, SetStateUnseen(s, new)
    PROVE  /\ Base' /\ attached = 0 /\ tcp' = [tcp EXCEPT ![s] = new]
           /\ UNCHANGED <<mode, attached, keyOf, at, slot, run, due, disturbed>>
<1>1. /\ s \notin locked /\ new \in Following(s) /\ ~ Attached("state")
      /\ tcp' = [tcp EXCEPT ![s] = new]
      /\ UNCHANGED <<mode, attached, keyOf, locked, call, saved, transfers, at, slot,
                     run, due, disturbed>>
    BY DEF SetStateUnseen, loaderVars, mapVars, historyVars
<1>2. tcp \in [Socket -> State] /\ TypeInv /\ attached \in Nat
    BY DEF Base, TypeInv, TypeOK
<1>3. tcp' \in [Socket -> State] /\ new # "new"
    BY <1>1, <1>2 DEF Following, State
<1>4. attached = 0
    BY <1>1, <1>2 DEF Attached, Place
<1>5. \A a \in Actor : ~ Active(a)
    BY <1>4 DEF Base, AttachInv
<1>6. \A a \in Actor : run[a].pc # "idle" => run[a].sock # s /\ run[a].op = "state"
    <2>1. TAKE a \in Actor
    <2>2. HAVE run[a].pc # "idle"
    <2>3. run[a].op = "state"
        BY <1>2, <1>5, <2>2 DEF Active, TypeInv, Sane
    <2>4. run[a].sock \in locked
        BY <2>2, <2>3 DEF Base, SocketInv, Locks
    <2>5. QED
        BY <1>1, <2>3, <2>4
<1>7. TypeInv'
    BY <1>1, <1>2, <1>3 DEF TypeInv, TypeOK, Entries
<1>8. TracingInv' /\ AttachInv'
    BY <1>1 DEF Base, TracingInv, AttachInv, Active, Entries
<1>9. SocketInv'
    <2>1. \A t \in Socket : tcp'[t] = tcp[t] \/ (t = s /\ tcp'[t] # "new")
        BY <1>1, <1>2, <1>3
    <2>2. \A a \in Actor :
             /\ run[a].pc # "idle" => tcp'[run[a].sock] = tcp[run[a].sock]
             /\ call[a] # NotSending /\ call[a].of # Other => call[a].of \in Socket
             /\ saved[a] # NothingSaved => saved[a].of \in Socket
        BY <1>2, <1>6, <2>1, RunFields, CallFacts
    <2>3. QED
        BY <1>1, <1>6, <2>1, <2>2 DEF Base, SocketInv, Locks
<1>10. QED
    BY <1>1, <1>4, <1>7, <1>8, <1>9 DEF Base

\* Falling back leaves the maps empty and no probe but those on their way out of
\* tcp_set_state.
LEMMA FallBackEffect ==
    ASSUME TypeInv, FallBack
    PROVE  /\ mode' = "kprobe" /\ attached' = 0
           /\ UNCHANGED <<keyOf, tcp, saved, transfers>>
           /\ at' = [k \in Key |-> NoSlot] /\ slot' = [e \in Slot |-> Blank]
           /\ due' = [k \in Key |-> {}] /\ disturbed' = {}
           /\ run' \in [Actor -> Run \union {Idle}]
           /\ \A a \in Actor :
                 \/ run'[a].pc = "idle"
                 \/ /\ run[a].pc # "idle" /\ run[a].op = "state"
                    /\ run'[a].pc = "store" /\ run'[a].ptr = NoSlot
                    /\ run'[a].sock = run[a].sock /\ run'[a].op = run[a].op
                    /\ run'[a].adds = run[a].adds /\ run'[a].state = run[a].state
                    /\ run'[a].sock \in locked'
           /\ locked' \subseteq Socket
           /\ call' \in [Actor -> Sending \union {NotSending}]
           /\ \A a \in Actor :
                 \/ call'[a] = NotSending
                 \/ /\ call[a] # NotSending /\ call'[a].of = call[a].of
                    /\ call'[a].hooked = FALSE
<1> DEFINE stored(a) == [run[a] EXCEPT !.pc = "store", !.ptr = NoSlot]
           unhooked(a) == [call[a] EXCEPT !.hooked = FALSE]
<1>1. /\ mode' = "kprobe" /\ attached' = 0
      /\ UNCHANGED <<keyOf, tcp, saved, transfers>>
      /\ at' = [k \in Key |-> NoSlot] /\ slot' = [e \in Slot |-> Blank]
      /\ due' = [k \in Key |-> {}] /\ disturbed' = {}
      /\ run' = [a \in Actor |-> IF run[a].pc # "idle" /\ run[a].op = "state"
                                 THEN stored(a) ELSE Idle]
      /\ locked' = {run[a].sock : a \in {b \in Actor : run'[b].pc = "store"}}
      /\ call' = [a \in Actor |-> IF call[a] = NotSending THEN NotSending
                                                          ELSE unhooked(a)]
    BY DEF FallBack
<1>2. ASSUME NEW a \in Actor, run[a].pc # "idle"
      PROVE  /\ stored(a) \in Run /\ stored(a).pc = "store" /\ stored(a).ptr = NoSlot
             /\ stored(a).sock = run[a].sock /\ stored(a).op = run[a].op
             /\ stored(a).adds = run[a].adds /\ stored(a).state = run[a].state
    <2>1. run[a] \in Run
        BY <1>2, RunFields
    <2>2. QED
        BY <2>1 DEF Run
<1>3. ASSUME NEW a \in Actor, call[a] # NotSending
      PROVE  /\ unhooked(a) \in Sending /\ unhooked(a).of = call[a].of
             /\ unhooked(a).hooked = FALSE
    <2>1. call[a] \in Sending
        BY <1>3 DEF TypeInv
    <2>2. QED
        BY <2>1 DEF Sending
<1> HIDE DEF stored, unhooked
<1>4. Idle.pc = "idle"
    BY DEF Idle
<1>5. \A a \in Actor :
          run'[a] = IF run[a].pc # "idle" /\ run[a].op = "state" THEN stored(a) ELSE Idle
    BY <1>1
<1>6. run' \in [Actor -> Run \union {Idle}]
    BY <1>1, <1>2
<1>7. \A a \in Actor :
          \/ run'[a].pc = "idle"
          \/ /\ run[a].pc # "idle" /\ run[a].op = "state"
             /\ run'[a].pc = "store" /\ run'[a].ptr = NoSlot
             /\ run'[a].sock = run[a].sock /\ run'[a].op = run[a].op
             /\ run'[a].adds = run[a].adds /\ run'[a].state = run[a].state
             /\ run'[a].sock \in locked'
    BY <1>1, <1>2, <1>4, <1>5
<1>8. locked' \subseteq Socket
    <2>1. \A a \in Actor : run'[a].pc = "store" => run'[a].sock = run[a].sock
                                                   /\ run[a].sock \in Socket
        BY <1>7, RunFields
    <2>2. QED
        BY <1>1, <2>1
<1>9. /\ call' \in [Actor -> Sending \union {NotSending}]
      /\ \A a \in Actor :
            \/ call'[a] = NotSending
            \/ /\ call[a] # NotSending /\ call'[a].of = call[a].of
               /\ call'[a].hooked = FALSE
    BY <1>1, <1>3
<1>10. QED
    BY <1>1, <1>6, <1>7, <1>8, <1>9

\* Falling back keeps the types, locks and states.
LEMMA FallBackBase ==
    ASSUME Base, FallBack
    PROVE  Base'
<1>1. TypeInv /\ NoSlot \notin Slot /\ Blank \in Stats
    BY SlotAssumption DEF Base, Blank, Stats, State
<1> DEFINE Effect ==
       /\ mode' = "kprobe" /\ attached' = 0
       /\ UNCHANGED <<keyOf, tcp, saved, transfers>>
       /\ at' = [k \in Key |-> NoSlot] /\ slot' = [e \in Slot |-> Blank]
       /\ due' = [k \in Key |-> {}] /\ disturbed' = {}
       /\ run' \in [Actor -> Run \union {Idle}]
       /\ locked' \subseteq Socket
       /\ call' \in [Actor -> Sending \union {NotSending}]
<1>2. Effect
    BY <1>1, FallBackEffect
<1>3. \A a \in Actor :
          \/ run'[a].pc = "idle"
          \/ /\ run[a].pc # "idle" /\ run[a].op = "state"
             /\ run'[a].pc = "store" /\ run'[a].ptr = NoSlot
             /\ run'[a].sock = run[a].sock /\ run'[a].op = run[a].op
             /\ run'[a].adds = run[a].adds /\ run'[a].state = run[a].state
             /\ run'[a].sock \in locked'
    BY <1>1, FallBackEffect
<1>4. \A a \in Actor : call'[a] = NotSending
                       \/ /\ call[a] # NotSending /\ call'[a].of = call[a].of
                          /\ call'[a].hooked = FALSE
    BY <1>1, FallBackEffect
<1>5. \A a \in Actor : run'[a].pc # "idle" => Sane(run'[a])
    BY <1>1, <1>3 DEF TypeInv, Sane
<1>6. \A a \in Actor : run'[a].pc \in {"write", "emit", "delete"} => run'[a].ptr # NoSlot
    BY <1>3
<1>7. Entries' = {}
    BY <1>2 DEF Entries
<1>8. TypeOK'
    <2>1. TypeOK
        BY <1>1 DEF TypeInv
    <2>2. /\ at' \in [Key -> Slot \union {NoSlot}] /\ slot' \in [Slot -> Stats]
          /\ due' \in [Key -> SUBSET Transfer] /\ disturbed' \subseteq Key
        BY <1>1, <1>2
    <2>3. QED
        BY <1>2, <1>6, <1>7, <2>1, <2>2 DEF TypeOK
<1>9. TypeInv'
    BY <1>1, <1>2, <1>5, <1>8 DEF TypeInv
<1>10. TracingInv'
    BY <1>2 DEF TracingInv
<1>11. AttachInv'
    BY <1>3, <1>4, <1>7 DEF AttachInv, Active
<1>12. SocketInv'
    BY <1>2, <1>3, <1>4 DEF Base, SocketInv, Locks
<1>13. QED
    BY <1>9, <1>10, <1>11, <1>12 DEF Base

\* Starts keep locks and states.
LEMMA StartBase ==
    ASSUME Base, NEW a \in Actor, StartStep(a)
    PROVE  Base'
<1>1. TypeInv /\ TracingInv /\ AttachInv /\ SocketInv
    BY DEF Base
<1>2. Begun(a) /\ attached >= 1
    BY <1>1, Begins
<1>3. /\ run[a].pc = "idle" /\ run'[a].pc = "lookup"
      /\ \A b \in Actor \ {a} : run'[b] = run[b]
      /\ UNCHANGED <<mode, attached, keyOf, tcp, at, slot, due>>
    BY <1>2 DEF Begun
<1>4. \A b \in Actor : /\ call'[b] = NotSending \/ call'[b] = call[b]
                       /\ saved'[b] = NothingSaved \/ saved'[b] = saved[b]
    BY <1>1, Begins
<1>5. TracingInv'
    BY <1>1, <1>3, <1>4, Begins DEF TracingInv
<1>6. AttachInv'
    BY <1>1, <1>2, <1>3, <1>4 DEF AttachInv, Active, Entries
<1>7. /\ run'[a].op # "state" => tcp[run'[a].sock] # "new"
      /\ run'[a].op = "state" /\ run'[a].state = "connecting"
            => tcp[run'[a].sock] = "new"
      /\ IF run'[a].op = "send"
         THEN locked' = locked
         ELSE run'[a].sock \notin locked /\ locked' = locked \union {run'[a].sock}
    BY <1>1, Begins
<1>8. SocketInv'
    BY <1>1, <1>3, <1>4, <1>7 DEF SocketInv, Locks
<1>9. QED
    BY <1>1, <1>5, <1>6, <1>8, StartTypes DEF Base

\* Only the probe that stores has come to its end and goes on.
LEMMA StepActive ==
    ASSUME TypeInv, NEW a \in Actor, RunStep(a)
    PROVE  \/ Active(a) /\ ~ Store(a)
           \/ Store(a) /\ ~ Active(a) /\ run'[a].pc = "idle"
<1>1. CASE Store(a)
    BY <1>1, StoreEffect DEF GoneTo, Active
<1>2. CASE ~ Store(a)
    BY <1>2, LookupEffect, CreateEffect, CreateFailsEffect, RelookupEffect,
       WriteEffect, EmitEffect, DeleteEffect DEF RunStep, Active
<1>3. QED
    BY <1>1, <1>2

\* With fentry and fexit no probe counts anything of another port.
LEMMA StepTracing ==
    ASSUME Base, NEW a \in Actor, RunStep(a)
    PROVE  TracingInv'
<1>1. TypeInv /\ Keeps(a) /\ run[a].pc # "idle" /\ UNCHANGED <<mode, call, saved>>
    BY StepFrame DEF Base
<1>2. SUFFICES ASSUME mode = "tracing"
               PROVE  TracingInv'
    BY <1>1 DEF TracingInv
<1>3. \A b \in Actor : run'[b].pc # "idle" =>
          /\ \A t \in run'[b].adds : t.of # Other
          /\ run'[b].op # "state" => run'[b].state = "current"
    BY <1>1, <1>2 DEF Base, TracingInv, Keeps
<1>4. \A e \in Slot : \A t \in slot[e].counted : t.of # Other
    BY <1>2 DEF Base, TracingInv
<1>5. \A e \in Slot : \A t \in slot'[e].counted : t.of # Other
    <2>1. CASE Write(a)
        <3>1. \A t \in Added(a) : t.of # Other
            <4>1. \A t \in run[a].adds : t.of # Other
                BY <1>1, <1>2 DEF Base, TracingInv
            <4>2. QED
                BY <1>1, <4>1, AddedFacts
        <3>2. /\ run[a].ptr \in Slot
              /\ slot'[run[a].ptr].counted = slot[run[a].ptr].counted \union Added(a)
              /\ \A e \in Slot \ {run[a].ptr} : slot'[e] = slot[e]
            BY <1>1, <2>1, WriteEffect
        <3>3. QED
            BY <1>4, <3>1, <3>2
    <2>2. CASE Create(a)
        <3>1. PICK new \in Slot : slot'[new].counted = {}
                                  /\ \A e \in Slot \ {new} : slot'[e] = slot[e]
            BY <1>1, <2>2, CreateEffect
        <3>2. QED
            BY <1>4, <3>1
    <2>3. CASE Delete(a)
        <3>1. Blank.counted = {}
            BY DEF Blank
        <3>2. QED
            BY <1>1, <1>4, <2>3, <3>1, DeleteEffect
    <2>4. CASE slot' = slot
        BY <1>4, <2>4
    <2>5. QED
        BY <1>1, <2>1, <2>2, <2>3, <2>4, LookupEffect, CreateFailsEffect,
           RelookupEffect, EmitEffect, StoreEffect DEF RunStep
<1>6. QED
    BY <1>1, <1>2, <1>3, <1>5 DEF Base, TracingInv

\* Steps of running probes keep locks and states.
LEMMA StepBase ==
    ASSUME Base, NEW a \in Actor, RunStep(a)
    PROVE  Base'
<1>1. TypeInv /\ AttachInv /\ SocketInv
    BY DEF Base
<1>2. /\ run[a].pc # "idle" /\ Keeps(a) /\ UNCHANGED <<attached, call, saved>>
      /\ tcp' = tcp \/ Store(a)
      /\ \A k \in Key \ {KeyIn(a)} : at'[k] = at[k]
    BY <1>1, StepFrame
<1>3. AttachInv'
    <2>1. CASE Active(a)
        <3>1. attached >= 1
            BY <1>1, <2>1 DEF AttachInv
        <3>2. QED
            BY <1>1, <1>2, <3>1 DEF AttachInv
    <2>2. CASE Store(a) /\ run'[a].pc = "idle"
        <3>1. at' = at
            BY <1>1, <2>2, StoreEffect
        <3>2. QED
            BY <1>1, <1>2, <2>2, <3>1 DEF AttachInv, Active, Keeps, Entries
    <2>3. QED
        BY <1>1, <2>1, <2>2, StepActive
<1>4. SocketInv'
    <2>1. /\ locked' = locked \/ locked' = locked \ {run[a].sock}
          /\ run'[a].pc # "idle" \/ run[a].op = "send" => locked' = locked
        BY <1>1, StepLocked
    <2>2. \A b \in Actor : Locks(b)' => Locks(b) /\ run'[b].sock = run[b].sock
        BY <1>2 DEF Locks, Keeps
    <2>3. \A b, c \in Actor :
              Locks(b)' /\ Locks(c)' /\ run'[b].sock = run'[c].sock => b = c
        BY <1>1, <2>2 DEF SocketInv
    <2>4. \A b \in Actor : Locks(b)' => run'[b].sock \in locked'
        <3>1. TAKE b \in Actor
        <3>2. HAVE Locks(b)'
        <3>3. Locks(b) /\ run'[b].sock = run[b].sock /\ run[b].sock \in locked
            BY <1>1, <2>2, <3>2 DEF SocketInv
        <3>4. CASE b = a
            BY <2>1, <3>2, <3>3, <3>4 DEF Locks
        <3>5. CASE b # a /\ run[a].op # "send"
            <4>1. run[b].sock # run[a].sock
                BY <1>1, <1>2, <3>3, <3>5 DEF SocketInv, Locks
            <4>2. QED
                BY <2>1, <3>3, <4>1
        <3>6. QED
            BY <2>1, <3>3, <3>4, <3>5
    <2>5. /\ \A s \in Socket : tcp[s] # "new" => tcp'[s] # "new"
          /\ tcp' # tcp => /\ run[a].op = "state" /\ run'[a].pc = "idle"
                           /\ \A s \in Socket \ {run[a].sock} : tcp'[s] = tcp[s]
        <3>1. tcp \in [Socket -> State]
            BY <1>1 DEF TypeInv, TypeOK
        <3>2. CASE Store(a)
            BY <1>1, <3>1, <3>2, StoreEffect DEF GoneTo
        <3>3. QED
            BY <1>2, <3>2
    <2>6. \A b \in Actor : run'[b].pc # "idle" =>
              /\ run[b].pc # "idle" /\ run'[b].sock = run[b].sock
              /\ run'[b].op = run[b].op /\ run'[b].state = run[b].state
              /\ run[b].sock \in Socket
        BY <1>1, <1>2, RunFields DEF Keeps
    <2>7. \A b \in Actor :
              run'[b].pc # "idle" /\ run'[b].op # "state" => tcp'[run'[b].sock] # "new"
        BY <1>1, <2>5, <2>6 DEF SocketInv
    <2>8. \A b \in Actor :
              run'[b].pc # "idle" /\ run'[b].op = "state" /\ run'[b].state = "connecting"
                  => tcp'[run'[b].sock] = "new"
        <3>1. TAKE b \in Actor
        <3>2. HAVE run'[b].pc # "idle" /\ run'[b].op = "state"
                   /\ run'[b].state = "connecting"
        <3>3. /\ run[b].pc # "idle" /\ run'[b].sock = run[b].sock /\ run[b].op = "state"
              /\ run[b].sock \in Socket /\ tcp[run[b].sock] = "new"
            BY <1>1, <2>6, <3>2 DEF SocketInv
        <3>4. CASE tcp' = tcp
            BY <3>3, <3>4
        <3>5. CASE tcp' # tcp
            <4>1. b # a /\ run[b].sock # run[a].sock
                BY <1>1, <1>2, <2>5, <3>2, <3>3, <3>5 DEF SocketInv, Locks
            <4>2. QED
                BY <2>5, <3>3, <3>5, <4>1
        <3>6. QED
            BY <3>4, <3>5
    <2>9. \A b \in Actor :
              /\ call[b] # NotSending /\ call[b].of # Other => tcp'[call[b].of] # "new"
              /\ saved[b] # NothingSaved => tcp'[saved[b].of] # "new"
        BY <1>1, <2>5, CallFacts DEF SocketInv
    <2>10. QED
        BY <1>2, <2>3, <2>4, <2>7, <2>8, <2>9 DEF SocketInv
<1>5. QED
    BY <1>1, <1>3, <1>4, StepTypes, StepTracing DEF Base

-----------------------------------------------------------------------------
(* Keys without a race                                                     *)

KeyParts(k) == Sole(k) /\ Pointers(k) /\ Exact(k) /\ Needed(k)

\* The key a probe is busy with stays its key.
LEMMA SameKey ==
    ASSUME TypeInv, NEW a \in Actor, RunStep(a)
    PROVE  /\ run'[a].pc # "idle" => KeyIn(a)' = KeyIn(a)
           /\ \A b \in Actor \ {a}, k \in Key : On(b, k)' <=> On(b, k)
           /\ \A k \in Key : On(a, k)' => k = KeyIn(a)
<1>1. Keeps(a) /\ keyOf' = keyOf
    BY StepFrame
<1>2. run'[a].pc # "idle" => KeyIn(a)' = KeyIn(a)
    BY <1>1 DEF Keeps, KeyIn, KeyFor
<1>3. \A b \in Actor \ {a} : run'[b] = run[b] /\ KeyIn(b)' = KeyIn(b)
    BY <1>1 DEF Keeps, KeyIn, KeyFor
<1>4. QED
    BY <1>2, <1>3 DEF On

\* What an entry is there for stays, when a state is stored under another key.
LEMMA OwnedStays ==
    ASSUME Base, NEW a \in Actor, RunStep(a), NEW k \in Key, k # KeyIn(a),
           Owned(k), at'[k] = at[k], slot'[at[k]] = slot[at[k]]
    PROVE  Owned(k)'
<1>1. TypeInv /\ keyOf' = keyOf /\ tcp \in [Socket -> State]
      /\ (tcp' = tcp \/ Store(a))
    BY StepFrame DEF Base, TypeInv, TypeOK
<1>2. CASE tcp' = tcp
    BY <1>1, <1>2 DEF Owned
<1>3. CASE Store(a)
    <2>1. /\ tcp' = [tcp EXCEPT ![run[a].sock] = run[a].state]
          /\ run[a].op = "state"
        BY <1>1, <1>3, StoreEffect
    <2>2. ASSUME NEW s \in Socket, keyOf[s] = k, tcp[s] \notin {"new", "closed"}
          PROVE  tcp'[s] \notin {"new", "closed"}
        <3>1. CASE s = run[a].sock
            <4>1. run[a].state = "connecting"
                BY <2>1, <2>2, <3>1 DEF KeyIn, KeyFor
            <4>2. QED
                BY <1>1, <2>1, <3>1, <4>1
        <3>2. CASE s # run[a].sock
            BY <1>1, <2>1, <2>2, <3>2
        <3>3. QED
            BY <3>1, <3>2
    <2>3. QED
        BY <1>1, <2>2 DEF Owned
<1>4. QED
    BY <1>1, <1>2, <1>3

\* What a probe does to the elements of other keys: nothing.
LEMMA OtherElements ==
    ASSUME Base, NEW a \in Actor, RunStep(a), NEW k \in Key, k # KeyIn(a),
           Pointers(k)
    PROVE  /\ at'[k] = at[k] /\ due'[k] = due[k]
           /\ at[k] # NoSlot => slot'[at[k]] = slot[at[k]] /\ run'[a].ptr # at[k]
<1>1. /\ TypeInv /\ run[a].pc # "idle" /\ at'[k] = at[k] /\ due'[k] = due[k]
      /\ Injective(at) /\ NoSlot \notin Slot
      /\ at \in [Key -> Slot \union {NoSlot}] /\ KeyIn(a) \in Key
    BY StepFrame, KeyFacts, SlotAssumption DEF Base, TypeInv, TypeOK, Injective, Entries
<1>2. SUFFICES ASSUME at[k] # NoSlot
               PROVE  slot'[at[k]] = slot[at[k]] /\ run'[a].ptr # at[k]
    BY <1>1
<1>3. at[k] \in Slot /\ run[a].ptr # at[k] /\ at[KeyIn(a)] # at[k]
    BY <1>1, <1>2 DEF Pointers, On, Injective
<1>4. CASE AtEnd(a) /\ slot' = slot
    BY <1>2, <1>4 DEF AtEnd
<1>5. CASE Lookup(a)
    BY <1>1, <1>3, <1>4, <1>5, LookupEffect DEF GoneTo
<1>6. CASE Create(a)
    BY <1>1, <1>3, <1>6, CreateEffect DEF GoneTo
<1>7. CASE CreateFails(a)
    BY <1>1, <1>3, <1>7, CreateFailsEffect DEF GoneTo
<1>8. CASE Relookup(a)
    BY <1>1, <1>3, <1>4, <1>8, RelookupEffect DEF GoneTo
<1>9. CASE Write(a)
    BY <1>1, <1>2, <1>3, <1>9, WriteEffect DEF GoneTo, AtEnd
<1>10. CASE Emit(a)
    BY <1>1, <1>3, <1>4, <1>10, EmitEffect DEF GoneTo
<1>11. CASE Delete(a)
    BY <1>1, <1>2, <1>3, <1>11, DeleteEffect DEF AtEnd
<1>12. CASE Store(a)
    BY <1>1, <1>2, <1>3, <1>12, StoreEffect DEF GoneTo
<1>13. QED
    BY <1>5, <1>6, <1>7, <1>8, <1>9, <1>10, <1>11, <1>12 DEF RunStep

\* A probe leaves the other keys as they were.
LEMMA Elsewhere ==
    ASSUME Base, NEW a \in Actor, RunStep(a), NEW k \in Key, k # KeyIn(a),
           KeyParts(k)
    PROVE  KeyParts(k)'
<1>1. TypeInv /\ Keeps(a)
    BY StepFrame DEF Base
<1>2. /\ at'[k] = at[k] /\ due'[k] = due[k]
      /\ at[k] # NoSlot => slot'[at[k]] = slot[at[k]] /\ run'[a].ptr # at[k]
    BY OtherElements DEF KeyParts
<1>3. \A b \in Actor :
          /\ On(b, k)' <=> On(b, k)
          /\ On(b, k) => b # a /\ run'[b] = run[b] /\ (Active(b)' <=> Active(b))
    <2>1. ~ On(a, k) /\ ~ On(a, k)'
        BY <1>1, SameKey DEF On
    <2>2. QED
        BY <1>1, <2>1, SameKey DEF Keeps, Active
<1>4. Sole(k)'
    BY <1>2, <1>3 DEF KeyParts, Sole
<1>5. Pointers(k)'
    BY <1>1, <1>2, <1>3 DEF KeyParts, Pointers, Keeps
<1>6. Exact(k)'
    BY <1>2 DEF KeyParts, Exact, Own
<1>7. at[k] # NoSlot /\ Owned(k) => Owned(k)'
    BY <1>2, OwnedStays
<1>8. Needed(k)'
    BY <1>2, <1>3, <1>7 DEF KeyParts, Needed
<1>9. QED
    BY <1>4, <1>5, <1>6, <1>8 DEF KeyParts

\* An active probe is alone on a key without a race.
LEMMA OnlyHere ==
    ASSUME Base, NEW a \in Actor, RunStep(a), NEW k \in Key, k = KeyIn(a), KeyParts(k),
           Active(a)
    PROVE  /\ On(a, k)
           /\ \A b \in Actor : On(b, k) => b = a
           /\ \A b \in Actor : On(b, k)' => b = a
           /\ On(a, k)' <=> run'[a].pc # "idle"
           /\ \A b \in Actor \ {a} : run'[b] = run[b]
           /\ \A b \in Actor \ {a} : at[k] # NoSlot => run[b].ptr # at[k]
<1>1. TypeInv /\ run[a].pc # "idle" /\ Keeps(a)
    BY StepFrame DEF Base
<1>2. On(a, k)
    BY <1>1 DEF On
<1>3. \A b \in Actor : On(b, k) => b = a
    BY <1>2 DEF KeyParts, Sole
<1>4. On(a, k)' <=> run'[a].pc # "idle"
    BY <1>1, SameKey DEF On
<1>5. QED
    BY <1>1, <1>2, <1>3, <1>4, SameKey DEF KeyParts, Pointers, Keeps

\* What remains to be seen when a probe is alone on its key.
LEMMA PartsAlone ==
    ASSUME Base, NEW a \in Actor, RunStep(a), NEW k \in Key, k = KeyIn(a), KeyParts(k),
           Active(a), at'[k] = at[k] \/ at'[k] = NoSlot,
           Exact(k)', Needed(k)',
           run'[a].ptr # NoSlot => run'[a].ptr = at'[k] /\ run'[a].pc # "idle",
           run'[a].pc \in {"write", "emit", "delete"} => run'[a].ptr = at'[k],
           run'[a].pc = "create" => at'[k] = NoSlot
    PROVE  KeyParts(k)'
<1>1. /\ On(a, k)
      /\ \A b \in Actor : On(b, k) => b = a
      /\ \A b \in Actor : On(b, k)' => b = a
      /\ On(a, k)' <=> run'[a].pc # "idle"
      /\ \A b \in Actor \ {a} : run'[b] = run[b]
      /\ \A b \in Actor \ {a} : at[k] # NoSlot => run[b].ptr # at[k]
    BY OnlyHere
<1>2. Sole(k)'
    BY <1>1 DEF Sole
<1>3. Pointers(k)'
    BY <1>1 DEF Pointers
<1>4. QED
    BY <1>2, <1>3 DEF KeyParts

\* Looking for the entry.
LEMMA LookupHere ==
    ASSUME Base, NEW a \in Actor, NEW k \in Key, k = KeyIn(a), KeyParts(k),
           Lookup(a) \/ Relookup(a)
    PROVE  KeyParts(k)'
<1>1. /\ TypeInv /\ RunStep(a) /\ Active(a)
      /\ UNCHANGED <<at, slot, due>> /\ run[a].pc \in {"lookup", "relookup"}
      /\ \/ at[k] # NoSlot /\ GoneTo(a, "write", at[k])
         \/ at[k] = NoSlot /\ AtEnd(a)
         \/ at[k] = NoSlot /\ GoneTo(a, "create", run[a].ptr)
    BY LookupEffect, RelookupEffect DEF Base, RunStep, Active
<1>2. run[a].ptr = NoSlot
    BY <1>1, RunFields DEF Sane
<1>3. /\ \A b \in Actor : On(b, k) => b = a
      /\ \A b \in Actor : On(b, k)' => b = a
      /\ On(a, k)' <=> run'[a].pc # "idle"
    BY <1>1, OnlyHere
<1>4. /\ UNCHANGED <<keyOf, tcp>>
      /\ run'[a].pc # "idle" => run'[a].op = run[a].op
    BY <1>1, StepFrame DEF Lookup, Relookup, Keeps
<1>5. Exact(k)'
    BY <1>1 DEF KeyParts, Exact, Own
<1>6. CASE at[k] # NoSlot
    <2>1. run'[a].pc = "write" /\ run'[a].ptr = at[k]
        BY <1>1, <1>6 DEF GoneTo
    <2>2. Owned(k) => Owned(k)'
        BY <1>1, <1>4 DEF Owned
    <2>3. Needed(k)'
        BY <1>1, <1>3, <1>4, <1>6, <2>1, <2>2 DEF KeyParts, Needed
    <2>4. QED
        BY <1>1, <1>5, <2>1, <2>3, PartsAlone
<1>7. CASE at[k] = NoSlot
    <2>1. run'[a].ptr = NoSlot /\ run'[a].pc \notin {"write", "emit", "delete"}
        BY <1>1, <1>2, <1>7 DEF GoneTo, AtEnd
    <2>2. Needed(k)'
        BY <1>1, <1>7 DEF Needed
    <2>3. QED
        BY <1>1, <1>5, <1>7, <2>1, <2>2, PartsAlone
<1>8. QED
    BY <1>6, <1>7

\* Making an entry.
LEMMA CreateHere ==
    ASSUME Base, NEW a \in Actor, NEW k \in Key, k = KeyIn(a), KeyParts(k),
           Create(a), k \notin disturbed'
    PROVE  KeyParts(k)'
<1>1. /\ TypeInv /\ RunStep(a) /\ Active(a) /\ run[a].pc = "create"
      /\ due' = due /\ GoneTo(a, "relookup", run[a].ptr)
    BY CreateEffect DEF Base, RunStep, Active
<1>2. PICK new \in Slot :
          /\ at' = [at EXCEPT ![k] = new]
          /\ slot'[new].counted = {}
          /\ disturbed' = IF \E b \in Actor : run[b].ptr = new
                          THEN disturbed \union {k} ELSE disturbed
    BY <1>1, CreateEffect
<1>3. /\ at \in [Key -> Slot \union {NoSlot}] /\ new # NoSlot /\ at'[k] = new
      /\ run[a].ptr = NoSlot /\ \A b \in Actor : run[b].ptr # new
    BY <1>1, <1>2, RunFields, SlotAssumption DEF TypeInv, TypeOK, Sane
<1>4. /\ On(a, k)
      /\ \A b \in Actor : On(b, k)' => b = a
      /\ On(a, k)' <=> run'[a].pc # "idle"
      /\ \A b \in Actor \ {a} : run'[b] = run[b]
    BY <1>1, OnlyHere
<1>5. /\ run'[a].pc = "relookup" /\ run'[a].ptr = NoSlot /\ run'[a].op = run[a].op
    BY <1>1, <1>3 DEF GoneTo, Keeps
<1>6. Sole(k)'
    BY <1>4 DEF Sole
<1>7. Pointers(k)'
    BY <1>3, <1>4, <1>5 DEF Pointers
<1>8. Exact(k)'
    <2>1. due[k] = {}
        BY <1>1, <1>4 DEF KeyParts, Pointers, Exact
    <2>2. QED
        BY <1>1, <1>2, <1>3, <2>1 DEF Exact, Own
<1>9. Needed(k)'
    BY <1>2, <1>3, <1>4, <1>5 DEF Needed
<1>10. QED
    BY <1>6, <1>7, <1>8, <1>9 DEF KeyParts

\* Writing through the pointer: whatever a transfer is added to has a socket that
\* is not closed, or the transfer is a late one.
LEMMA WriteHere ==
    ASSUME Base, NEW a \in Actor, NEW k \in Key, k = KeyIn(a), KeyParts(k), Write(a)
    PROVE  KeyParts(k)'
<1>1. /\ TypeInv /\ SocketInv /\ RunStep(a) /\ Active(a) /\ run[a].pc = "write"
      /\ run[a].ptr \in Slot /\ at' = at
      /\ slot'[run[a].ptr].counted = slot[run[a].ptr].counted \union Added(a)
      /\ slot'[run[a].ptr].state = Written(a)
      /\ due' = [due EXCEPT ![k] = @ \union Own(Added(a))]
      /\ \/ EventType(a) = "none" /\ AtEnd(a)
         \/ EventType(a) # "none" /\ GoneTo(a, "emit", run[a].ptr)
    BY WriteEffect DEF Base, RunStep, Active
<1>2. /\ On(a, k)
      /\ \A b \in Actor : On(b, k) => b = a
      /\ \A b \in Actor : On(b, k)' => b = a
      /\ On(a, k)' <=> run'[a].pc # "idle"
    BY <1>1, OnlyHere
<1>3. /\ at[k] = run[a].ptr /\ at[k] # NoSlot /\ Sane(run[a])
      /\ due \in [Key -> SUBSET Transfer]
    BY <1>1, <1>2, RunFields, SlotAssumption DEF KeyParts, Pointers, TypeInv, TypeOK
<1>4. /\ UNCHANGED <<keyOf, tcp>>
      /\ run'[a].pc # "idle" => run'[a].op = run[a].op /\ run'[a].state = run[a].state
    BY <1>1, StepFrame DEF Write, Keeps
<1>5. /\ run'[a].ptr # NoSlot => run'[a].ptr = at'[k] /\ run'[a].pc # "idle"
      /\ run'[a].pc \in {"write", "emit", "delete"} => run'[a].ptr = at'[k]
      /\ run'[a].pc # "create"
    BY <1>1, <1>3 DEF GoneTo, AtEnd
<1>6. Exact(k)'
    <2>1. Own(slot[at[k]].counted \union Added(a))
              = Own(slot[at[k]].counted) \union Own(Added(a))
        BY DEF Own
    <2>2. Own(slot[at[k]].counted) = due[k]
        BY <1>3 DEF KeyParts, Exact
    <2>3. Own(slot'[at'[k]].counted) = due'[k]
        BY <1>1, <1>3, <2>1, <2>2
    <2>4. QED
        BY <1>1, <1>3, <2>3 DEF Exact, Own
<1>7. CASE run[a].op = "state"
    <2>1. run'[a].pc # "idle" /\ On(a, k)' /\ run'[a].op = "state"
        BY <1>1, <1>2, <1>4, <1>7 DEF GoneTo, AtEnd
    <2>2. run'[a].pc = "store" => run[a].state # "closed"
        BY <1>1, <1>7 DEF EventType, GoneTo
    <2>3. ASSUME k = NoPort
          PROVE  slot'[at'[k]].counted = {} /\ slot'[at'[k]].state = "connecting"
        <3>1. run[a].state = "connecting"
            <4>1. run[a].sock \in Socket /\ keyOf \in [Socket -> Key \ {NoPort}]
                BY <1>1, RunFields DEF TypeInv
            <4>2. QED
                BY <2>3, <4>1 DEF KeyIn, KeyFor
        <3>2. Added(a) = {} /\ Written(a) = "connecting"
            BY <1>1, <1>3, <1>7, <3>1, AddedFacts DEF Sane, Written
        <3>3. slot[at[k]].counted = {}
            BY <1>3, <2>3 DEF KeyParts, Needed
        <3>4. QED
            BY <1>1, <1>3, <3>2, <3>3
    <2>4. Needed(k)'
        BY <1>2, <1>4, <2>1, <2>2, <2>3 DEF Needed
    <2>5. QED
        BY <1>1, <1>5, <1>6, <2>4, PartsAlone
<1>8. CASE run[a].op # "state"
    <2>1. /\ run[a].sock \in Socket /\ k = keyOf[run[a].sock] /\ k # NoPort
          /\ tcp[run[a].sock] # "new" /\ Added(a) # {}
        <3>1. run[a].sock \in Socket /\ keyOf \in [Socket -> Key \ {NoPort}]
            BY <1>1, RunFields DEF TypeInv
        <3>2. QED
            BY <1>1, <1>3, <1>8, <3>1, AddedFacts DEF KeyIn, KeyFor, Sane, SocketInv
    <2>2. run'[a].pc \in {"idle", "emit"}
        BY <1>1, <1>8 DEF GoneTo, AtEnd
    <2>3. Owned(k)'
        <3>1. CASE tcp[run[a].sock] # "closed"
            BY <1>4, <2>1, <3>1 DEF Owned
        <3>2. CASE tcp[run[a].sock] = "closed"
            <4>1. \A t \in Added(a) : t.late
                BY <1>1, <3>2, AddedFacts
            <4>2. slot'[at'[k]].counted = slot[at[k]].counted \union Added(a)
                BY <1>1, <1>3
            <4>3. Owned(k) \/ slot[at[k]].counted = {}
                BY <1>2, <1>3, <1>8 DEF KeyParts, Needed
            <4>4. CASE \E s \in Socket : keyOf[s] = k /\ tcp[s] \notin {"new", "closed"}
                BY <1>4, <4>4 DEF Owned
            <4>5. CASE \A t \in slot[at[k]].counted : t.late \/ t.of = Other
                BY <2>1, <4>1, <4>2, <4>5 DEF Owned
            <4>6. QED
                BY <2>1, <4>3, <4>4, <4>5 DEF Owned
        <3>3. QED
            BY <3>1, <3>2
    <2>4. Needed(k)'
        BY <1>2, <2>1, <2>2, <2>3 DEF Needed
    <2>5. QED
        BY <1>1, <1>5, <1>6, <2>4, PartsAlone
<1>9. QED
    BY <1>7, <1>8

\* Submitting the event, and going on or not.
LEMMA EmitHere ==
    ASSUME Base, NEW a \in Actor, NEW k \in Key, k = KeyIn(a), KeyParts(k), Emit(a)
    PROVE  KeyParts(k)'
<1>1. /\ TypeInv /\ RunStep(a) /\ Active(a) /\ run[a].pc = "emit"
      /\ UNCHANGED <<at, slot, due>>
      /\ \/ /\ run[a].op = "state" /\ run[a].state = "closed"
            /\ GoneTo(a, "delete", run[a].ptr)
         \/ /\ ~ (run[a].op = "state" /\ run[a].state = "closed")
            /\ AtEnd(a)
    BY EmitEffect DEF Base, RunStep, Active
<1>2. /\ On(a, k)
      /\ \A b \in Actor : On(b, k) => b = a
      /\ \A b \in Actor : On(b, k)' => b = a
      /\ On(a, k)' <=> run'[a].pc # "idle"
    BY <1>1, OnlyHere
<1>3. at[k] = run[a].ptr
    BY <1>1, <1>2 DEF KeyParts, Pointers
<1>4. /\ UNCHANGED <<keyOf, tcp>>
      /\ run'[a].pc # "idle" => run'[a].op = run[a].op /\ run'[a].state = run[a].state
    BY <1>1, StepFrame DEF Emit, Keeps
<1>5. /\ run'[a].ptr # NoSlot => run'[a].ptr = at'[k] /\ run'[a].pc # "idle"
      /\ run'[a].pc \in {"write", "emit", "delete"} => run'[a].ptr = at'[k]
      /\ run'[a].pc # "create"
    BY <1>1, <1>3 DEF GoneTo, AtEnd
<1>6. Exact(k)'
    BY <1>1 DEF KeyParts, Exact, Own
<1>7. Owned(k) => Owned(k)'
    BY <1>1, <1>4 DEF Owned
<1>8. run[a].op = "state" => run'[a].pc # "idle"
    BY <1>1 DEF GoneTo, AtEnd
<1>9. Needed(k)'
    <2>1. run'[a].pc = "store" => run[a].state # "closed"
        BY <1>1 DEF GoneTo, AtEnd
    <2>2. run'[a].pc \in {"delete", "store", "idle"}
        BY <1>1 DEF GoneTo, AtEnd
    <2>3. at[k] # NoSlot => Owned(k) \/ run[a].op = "state"
        BY <1>1, <1>2 DEF KeyParts, Needed
    <2>4. k = NoPort /\ at[k] # NoSlot =>
              slot[at[k]].counted = {} /\ slot[at[k]].state = "connecting"
        BY <1>1, <1>2 DEF KeyParts, Needed
    <2>5. QED
        BY <1>1, <1>2, <1>4, <1>7, <1>8, <2>1, <2>3, <2>4 DEF Needed
<1>10. QED
    BY <1>1, <1>5, <1>6, <1>9, PartsAlone

\* Deleting the entry.
LEMMA DeleteHere ==
    ASSUME Base, NEW a \in Actor, NEW k \in Key, k = KeyIn(a), KeyParts(k), Delete(a)
    PROVE  KeyParts(k)'
<1>1. /\ TypeInv /\ RunStep(a) /\ Active(a)
      /\ at \in [Key -> Slot \union {NoSlot}] /\ due \in [Key -> SUBSET Transfer]
      /\ at' = [at EXCEPT ![k] = NoSlot] /\ due' = [due EXCEPT ![k] = {}]
      /\ AtEnd(a)
    BY DeleteEffect DEF Base, RunStep, Active, TypeInv, TypeOK
<1>2. at'[k] = NoSlot /\ due'[k] = {}
    BY <1>1
<1>3. Exact(k)' /\ Needed(k)'
    BY <1>2 DEF Exact, Needed
<1>4. run'[a].ptr = NoSlot /\ run'[a].pc \in {"store", "idle"}
    BY <1>1 DEF AtEnd
<1>5. QED
    BY <1>1, <1>2, <1>3, <1>4, PartsAlone

\* Storing the state: the socket is what the entry is there for from now on, or
\* there is none.
LEMMA StoreHere ==
    ASSUME Base, NEW a \in Actor, NEW k \in Key, k = KeyIn(a), KeyParts(k), Store(a)
    PROVE  KeyParts(k)'
<1>1. /\ TypeInv /\ RunStep(a) /\ run[a].pc = "store" /\ UNCHANGED <<at, slot, due>>
      /\ run[a].op = "state" /\ run[a].state \in State \ {"new"}
      /\ tcp' = [tcp EXCEPT ![run[a].sock] = run[a].state]
      /\ run'[a].pc = "idle" /\ run'[a].ptr = NoSlot /\ Keeps(a)
      /\ keyOf' = keyOf
    BY StoreEffect, StepFrame DEF Base, RunStep, GoneTo
<1>2. /\ On(a, k) /\ ~ On(a, k)'
      /\ \A b \in Actor \ {a} : On(b, k)' <=> On(b, k)
      /\ \A b \in Actor \ {a} : run'[b] = run[b]
    BY <1>1, SameKey DEF On, Keeps
<1>3. Sole(k)'
    BY <1>1, <1>2 DEF KeyParts, Sole, Active
<1>4. Pointers(k)'
    BY <1>1, <1>2 DEF KeyParts, Pointers
<1>5. Exact(k)'
    BY <1>1 DEF KeyParts, Exact, Own
<1>6. ASSUME at[k] # NoSlot
      PROVE  Owned(k)'
    <2>1. run[a].state # "closed" /\ \A b \in Actor : On(b, k) => b = a
        BY <1>1, <1>2, <1>6 DEF KeyParts, Needed, Sole
    <2>2. run[a].sock \in Socket /\ tcp'[run[a].sock] = run[a].state
        BY <1>1, RunFields DEF TypeInv, TypeOK
    <2>3. CASE run[a].state # "connecting"
        <3>1. keyOf[run[a].sock] = k
            BY <1>1, <2>3 DEF KeyIn, KeyFor
        <3>2. QED
            BY <1>1, <2>1, <2>2, <3>1 DEF Owned
    <2>4. CASE run[a].state = "connecting"
        <3>1. k = NoPort
            BY <1>1, <2>4 DEF KeyIn, KeyFor
        <3>2. slot[at[k]].counted = {} /\ slot[at[k]].state = "connecting"
            BY <1>1, <1>6, <2>1, <3>1 DEF KeyParts, Needed
        <3>3. at[k] \in Slot /\ slot[at[k]] \in Stats
            BY <1>6 DEF Base, TypeInv, TypeOK
        <3>4. slot[at[k]] = [counted |-> {}, state |-> "connecting"]
            BY <3>2, <3>3 DEF Stats
        <3>5. QED
            BY <1>1, <3>1, <3>4 DEF Owned
    <2>5. QED
        BY <2>3, <2>4
<1>7. Needed(k)'
    <2>1. \A b \in Actor : On(b, k)' /\ at[k] # NoSlot => FALSE
        BY <1>2 DEF KeyParts, Sole
    <2>2. k = NoPort /\ at[k] # NoSlot =>
              slot[at[k]].counted = {} /\ slot[at[k]].state = "connecting"
        BY <1>1, <1>2 DEF KeyParts, Needed, Sole
    <2>3. QED
        BY <1>1, <1>6, <2>1, <2>2 DEF Needed
<1>8. QED
    BY <1>3, <1>4, <1>5, <1>7 DEF KeyParts

\* Steps of running probes keep what is known of keys without a race.
LEMMA StepKeys ==
    ASSUME Base, KeyInv, NEW a \in Actor, RunStep(a)
    PROVE  KeyInv'
<1>1. SUFFICES ASSUME NEW k \in Key, k \notin disturbed'
               PROVE  KeyParts(k)'
    BY DEF KeyInv, KeyParts
<1>2. KeyParts(k)
    BY <1>1, StepFrame DEF Base, KeyInv, KeyParts
<1>3. CASE k # KeyIn(a)
    BY <1>2, <1>3, Elsewhere
<1>4. CASE k = KeyIn(a)
    <2>1. ~ CreateFails(a)
        BY <1>1, <1>4, CreateFailsEffect DEF Base
    <2>2. QED
        BY <1>1, <1>2, <1>4, <2>1, LookupHere, CreateHere, WriteHere, EmitHere,
           DeleteHere, StoreHere DEF RunStep
<1>5. QED
    BY <1>3, <1>4

\* A probe that starts is alone on its key, or it makes a race.
LEMMA StartKeys ==
    ASSUME Base, KeyInv, NEW a \in Actor, StartStep(a)
    PROVE  KeyInv'
<1>1. SUFFICES ASSUME NEW k \in Key, k \notin disturbed'
               PROVE  KeyParts(k)'
    BY DEF KeyInv, KeyParts
<1>2. Begun(a)
    BY Begins DEF Base
<1>3. /\ run[a].pc = "idle" /\ run'[a].pc = "lookup" /\ run'[a].ptr = NoSlot
      /\ \A b \in Actor \ {a} : run'[b] = run[b]
      /\ UNCHANGED <<keyOf, tcp, at, slot, due>>
      /\ disturbed' = IF Busy(KeyIn(a)') THEN disturbed \union {KeyIn(a)'} ELSE disturbed
    BY <1>2 DEF Begun
<1>4. KeyParts(k)
    BY <1>1, <1>3 DEF KeyInv, KeyParts
<1>5. /\ \A b \in Actor \ {a} : /\ On(b, k)' <=> On(b, k)
                                /\ Active(b)' <=> Active(b)
      /\ ~ On(a, k)
    BY <1>3 DEF On, Active, KeyIn, KeyFor
<1>6. On(a, k)' => \A b \in Actor : ~ On(b, k)
    BY <1>1, <1>3 DEF On, Busy
<1>7. Sole(k)'
    BY <1>3, <1>4, <1>5, <1>6 DEF KeyParts, Sole
<1>8. Pointers(k)'
    BY <1>3, <1>4, <1>5 DEF KeyParts, Pointers
<1>9. Exact(k)'
    BY <1>3, <1>4 DEF KeyParts, Exact, Own
<1>10. Owned(k) => Owned(k)'
    BY <1>3 DEF Owned
<1>11. Needed(k)'
    BY <1>3, <1>4, <1>5, <1>10 DEF KeyParts, Needed
<1>12. QED
    BY <1>7, <1>8, <1>9, <1>11 DEF KeyParts

\* Quiet steps are none to the keys.
LEMMA QuietKeys ==
    ASSUME KeyInv, QuietStep
    PROVE  KeyInv'
    BY QuietFrame DEF KeyInv, Sole, Pointers, Exact, Own, Needed, Owned, On, Active,
       KeyIn, KeyFor

\* Without a probe attached there is no entry yet.
LEMMA UnseenKeys ==
    ASSUME Base, KeyInv, NEW s \in Socket, NEW new \in State, SetStateUnseen(s, new)
    PROVE  KeyInv'
<1>1. /\ attached = 0
      /\ UNCHANGED <<mode, attached, keyOf, at, slot, run, due, disturbed>>
    BY UnseenBase
<1>2. \A k \in Key : at[k] = NoSlot
    BY <1>1 DEF Base, AttachInv, Entries
<1>3. SUFFICES ASSUME NEW k \in Key \ disturbed
               PROVE  KeyParts(k)'
    BY <1>1 DEF KeyInv, KeyParts
<1>4. Sole(k)' /\ Pointers(k)' /\ Exact(k)'
    BY <1>1, <1>3 DEF KeyInv, Sole, Pointers, Exact, Own, On, Active, KeyIn, KeyFor
<1>5. Needed(k)'
    BY <1>1, <1>2 DEF Needed
<1>6. QED
    BY <1>4, <1>5 DEF KeyParts

\* Falling back there is neither an entry nor an active probe.
LEMMA FallBackKeys ==
    ASSUME Base, FallBack
    PROVE  KeyInv'
<1>1. /\ \A k \in Key : at'[k] = NoSlot /\ due'[k] = {}
      /\ \A a \in Actor : run'[a].pc \in {"idle", "store"}
    BY FallBackEffect DEF Base
<1>2. SUFFICES ASSUME NEW k \in Key
               PROVE  KeyParts(k)'
    BY DEF KeyInv, KeyParts
<1>3. QED
    BY <1>1 DEF KeyParts, Sole, Pointers, Exact, Needed, Active

-----------------------------------------------------------------------------
(* The state on display                                                    *)

\* On a key of one socket only probes of that socket run.
LEMMA KeyOfOne ==
    ASSUME TypeInv, NEW s \in Socket, Alone(s), NEW a \in Actor, On(a, keyOf[s])
    PROVE  /\ run[a].sock = s
           /\ ~ (run[a].op = "state" /\ run[a].state = "connecting")
           /\ keyOf[s] \in Key
<1>1. /\ run[a].sock \in Socket /\ keyOf \in [Socket -> Key \ {NoPort}]
      /\ KeyIn(a) = keyOf[s]
    BY RunFields DEF TypeInv, On
<1>2. QED
    BY <1>1 DEF KeyIn, KeyFor, Alone

\* A probe on another key does not change what is shown of this socket.
LEMMA ShowsElsewhere ==
    ASSUME Base, NEW a \in Actor, RunStep(a), NEW s \in Socket, Alone(s),
           NEW k \in Key, k = keyOf[s], k # KeyIn(a), Pointers(k), Shows(s)
    PROVE  Shows(s)'
<1>1. /\ TypeInv /\ Keeps(a) /\ keyOf' = keyOf /\ run[a].pc # "idle" /\ k \in Key
      /\ tcp \in [Socket -> State]
    BY StepFrame DEF Base, TypeInv, TypeOK
<1>2. /\ at'[k] = at[k]
      /\ at[k] # NoSlot => slot'[at[k]] = slot[at[k]]
    BY <1>1, OtherElements
<1>3. \A b \in Actor : /\ On(b, k)' <=> On(b, k)
                       /\ On(b, k) => b # a /\ run'[b] = run[b]
    BY <1>1, SameKey DEF On, Keeps
<1>4. at[k] # NoSlot => tcp'[s] = tcp[s]
    <2>1. CASE Store(a) /\ run[a].sock = s
        <3>1. run[a].op = "state" /\ run[a].state = "connecting"
            BY <1>1, <2>1, StoreEffect DEF KeyIn, KeyFor
        <3>2. tcp[s] = "new"
            BY <1>1, <2>1, <3>1 DEF Base, SocketInv
        <3>3. ASSUME NEW b \in Actor, On(b, k), run[b].op = "state"
              PROVE  FALSE
            <4>1. run[b].sock = s /\ run[b].pc # "idle" /\ b # a
                BY <1>1, <1>3, <3>3, KeyOfOne DEF On
            <4>2. QED
                BY <1>1, <2>1, <3>1, <3>3, <4>1 DEF Base, SocketInv, Locks
        <3>4. QED
            BY <3>2, <3>3 DEF Shows
    <2>2. CASE ~ (Store(a) /\ run[a].sock = s)
        BY <1>1, <2>2, StepFrame, StoreEffect
    <2>3. QED
        BY <2>1, <2>2
<1>5. QED
    BY <1>1, <1>2, <1>3, <1>4 DEF Shows

\* The probe that runs on the socket's key shows its state when it is done.
LEMMA ShowsHere ==
    ASSUME Base, mode = "tracing", NEW a \in Actor, RunStep(a), NEW s \in Socket,
           Alone(s), NEW k \in Key, k = keyOf[s], k = KeyIn(a), KeyParts(k),
           k \notin disturbed', Shows(s)
    PROVE  Shows(s)'
<1>1. /\ TypeInv /\ SocketInv /\ Keeps(a) /\ keyOf' = keyOf /\ run[a].pc # "idle"
      /\ KeyParts(k) /\ k \notin disturbed' /\ k = KeyIn(a)
    BY StepFrame DEF Base
<1>2. /\ On(a, k) /\ run[a].sock = s /\ k \in Key
      /\ run[a].op # "state" => run[a].state = "current"
    BY <1>1, KeyOfOne DEF On, Base, TracingInv
<1>3. Shows(s)' <=>
          (at'[k] # NoSlot =>
              /\ tcp'[s] = "new" => \E b \in Actor : On(b, k)' /\ run'[b].op = "state"
              /\ \/ slot'[at'[k]].state = tcp'[s]
                 \/ \E b \in Actor : On(b, k)' /\ run'[b].op = "state"
              /\ \A b \in Actor :
                    On(b, k)' /\ run'[b].op = "state" /\ run'[b].pc \in {"emit", "store"}
                        => slot'[at'[k]].state = run'[b].state)
    BY <1>1 DEF Shows, On
<1>4. at[k] # NoSlot =>
              /\ tcp[s] = "new" => \E b \in Actor : On(b, k) /\ run[b].op = "state"
              /\ \/ slot[at[k]].state = tcp[s]
                 \/ \E b \in Actor : On(b, k) /\ run[b].op = "state"
              /\ \A b \in Actor :
                    On(b, k) /\ run[b].op = "state" /\ run[b].pc \in {"emit", "store"}
                        => slot[at[k]].state = run[b].state
    BY DEF Shows
<1>5. run'[a].pc # "idle" => run'[a].op = run[a].op /\ run'[a].state = run[a].state
    BY <1>1 DEF Keeps
<1>6. CASE Active(a)
    <2>1. /\ \A b \in Actor : On(b, k) => b = a
          /\ \A b \in Actor : On(b, k)' => b = a
          /\ On(a, k)' <=> run'[a].pc # "idle"
        BY <1>1, <1>2, <1>6, OnlyHere
    <2>2. tcp' = tcp
        BY <1>1, <1>6, StepFrame, StoreEffect DEF Active
    <2>3. CASE at'[k] = NoSlot
        BY <1>3, <2>3
    <2>4. CASE Lookup(a) \/ Relookup(a)
        <3>1. CASE at[k] # NoSlot
            <4>1. UNCHANGED <<at, slot>> /\ run'[a].pc = "write"
                BY <1>1, <2>4, <3>1, LookupEffect, RelookupEffect DEF GoneTo
            <4>2. QED
                BY <1>2, <1>3, <1>4, <1>5, <2>1, <2>2, <3>1, <4>1
        <3>2. QED
            BY <1>1, <2>3, <2>4, <3>1, LookupEffect, RelookupEffect
    <2>5. CASE Create(a)
        <3>1. PICK new \in Slot :
                  /\ at' = [at EXCEPT ![k] = new]
                  /\ run[a].op # "send" \/ run[a].state = "current"
                        => slot'[new].state = tcp[run[a].sock]
            BY <1>1, <2>5, CreateEffect
        <3>2. at'[k] = new /\ run'[a].pc = "relookup"
            BY <1>1, <1>2, <2>5, <3>1, CreateEffect DEF GoneTo, TypeInv, TypeOK
        <3>3. run[a].op # "state" => tcp[s] # "new" /\ slot'[new].state = tcp[s]
            BY <1>1, <1>2, <3>1 DEF SocketInv
        <3>4. QED
            BY <1>2, <1>3, <1>5, <2>1, <2>2, <3>2, <3>3
    <2>6. CASE Write(a)
        <3>1. /\ at' = at /\ slot'[run[a].ptr].state = Written(a)
              /\ run[a].ptr = at[k] /\ Sane(run[a])
              /\ run'[a].pc = "idle" => run[a].op # "state"
            BY <1>1, <1>2, <2>6, WriteEffect, RunFields
               DEF KeyParts, Pointers, GoneTo, AtEnd
        <3>2. /\ run[a].op = "state" => Written(a) = run[a].state
              /\ run[a].op # "state" => Written(a) = tcp[s] /\ tcp[s] # "new"
            BY <1>1, <1>2, <3>1 DEF Written, Sane, State, SocketInv
        <3>3. QED
            BY <1>2, <1>3, <1>5, <2>1, <2>2, <3>1, <3>2
    <2>7. CASE Emit(a)
        <3>1. /\ UNCHANGED <<at, slot>> /\ run[a].pc = "emit"
              /\ run'[a].pc = "idle" => run[a].op # "state"
              /\ run[a].op # "state" => run'[a].pc = "idle"
            BY <1>1, <2>7, EmitEffect DEF GoneTo, AtEnd
        <3>2. QED
            BY <1>2, <1>3, <1>4, <1>5, <2>1, <2>2, <3>1
    <2>8. CASE CreateFails(a)
        BY <1>1, <2>8, CreateFailsEffect
    <2>9. CASE Delete(a)
        <3>1. at'[k] = NoSlot
            BY <1>1, <1>2, <2>9, DeleteEffect DEF TypeInv, TypeOK
        <3>2. QED
            BY <2>3, <3>1
    <2>10. QED
        BY <1>1, <1>6, <2>4, <2>5, <2>6, <2>7, <2>8, <2>9, StepActive DEF RunStep
<1>7. CASE Store(a)
    <2>1. /\ UNCHANGED <<at, slot>> /\ run[a].pc = "store" /\ run[a].op = "state"
          /\ tcp' = [tcp EXCEPT ![s] = run[a].state] /\ run[a].state \in State \ {"new"}
          /\ run'[a].pc = "idle"
        BY <1>1, <1>2, <1>7, StoreEffect DEF GoneTo
    <2>2. tcp'[s] = run[a].state
        BY <1>1, <2>1 DEF TypeInv, TypeOK
    <2>3. at[k] # NoSlot => \A b \in Actor : ~ On(b, k)'
        <3>1. at[k] # NoSlot => \A b \in Actor : On(b, k) => b = a
            BY <1>1, <1>2 DEF KeyParts, Sole
        <3>2. ~ On(a, k)'
            BY <2>1 DEF On
        <3>3. QED
            BY <1>1, <1>2, <3>1, <3>2, SameKey
    <2>4. QED
        BY <1>2, <1>3, <1>4, <2>1, <2>2, <2>3
<1>8. QED
    BY <1>1, <1>6, <1>7, StepActive

\* Steps of running probes keep the states on display.
LEMMA StepShows ==
    ASSUME Base, KeyInv, ShowInv, NEW a \in Actor, RunStep(a)
    PROVE  ShowInv'
<1>1. /\ TypeInv /\ mode' = mode /\ keyOf' = keyOf /\ disturbed \subseteq disturbed'
    BY StepFrame DEF Base
<1>2. SUFFICES ASSUME mode = "tracing", NEW s \in Socket, Alone(s),
                      keyOf[s] \notin disturbed'
               PROVE  Shows(s)'
    BY <1>1 DEF ShowInv, Alone
<1>3. PICK k \in Key : k = keyOf[s] /\ k \notin disturbed /\ k \notin disturbed'
    BY <1>1, <1>2 DEF TypeInv
<1>4. Shows(s) /\ KeyParts(k) /\ Pointers(k)
    BY <1>2, <1>3 DEF ShowInv, KeyInv, KeyParts
<1>5. CASE k = KeyIn(a)
    BY <1>2, <1>3, <1>4, <1>5, ShowsHere
<1>6. CASE k # KeyIn(a)
    BY <1>2, <1>3, <1>4, <1>6, ShowsElsewhere
<1>7. QED
    BY <1>5, <1>6

\* So do starts.
LEMMA StartShows ==
    ASSUME Base, ShowInv, NEW a \in Actor, StartStep(a)
    PROVE  ShowInv'
<1>1. Begun(a)
    BY Begins DEF Base
<1>2. /\ run[a].pc = "idle" /\ run'[a].pc = "lookup"
      /\ \A b \in Actor \ {a} : run'[b] = run[b]
      /\ UNCHANGED <<mode, keyOf, tcp, at, slot>> /\ disturbed \subseteq disturbed'
    BY <1>1 DEF Begun
<1>3. \A b \in Actor, k \in Key : On(b, k) => b # a /\ On(b, k)' /\ run'[b] = run[b]
    BY <1>2 DEF On, KeyIn, KeyFor
<1>4. \A b \in Actor, k \in Key :
          On(b, k)' => run'[b].pc = "lookup" \/ (On(b, k) /\ run'[b] = run[b])
    BY <1>2 DEF On, KeyIn, KeyFor
<1>5. SUFFICES ASSUME mode = "tracing", NEW s \in Socket, Alone(s),
                      keyOf[s] \notin disturbed
               PROVE  Shows(s)'
    BY <1>2 DEF ShowInv, Alone
<1>6. Shows(s) /\ keyOf[s] \in Key
    BY <1>5 DEF ShowInv, Base, TypeInv
<1>7. QED
    BY <1>2, <1>3, <1>4, <1>6 DEF Shows

-----------------------------------------------------------------------------
(* Theorems                                                                *)

\* At the start there are no entries and nothing runs.
LEMMA InitProbes == Init => ProbesInv
<1> SUFFICES ASSUME Init
             PROVE  ProbesInv
    OBVIOUS
<1>1. /\ mode = "tracing" /\ attached = 0 /\ keyOf \in [Socket -> Key \ {NoPort}]
      /\ tcp = [s \in Socket |-> "new"] /\ locked = {} /\ transfers = 0
      /\ at = [k \in Key |-> NoSlot] /\ slot = [e \in Slot |-> Blank]
      /\ call = [a \in Actor |-> NotSending] /\ saved = [a \in Actor |-> NothingSaved]
      /\ run = [a \in Actor |-> Idle]
      /\ due = [k \in Key |-> {}] /\ disturbed = {}
    BY KeyAssumption DEF Init
<1>2. Idle.pc = "idle" /\ Blank.counted = {} /\ Blank \in Stats
    BY DEF Idle, Blank, Stats, State
<1>3. TypeOK
    <2>1. transfers \in 0..MaxTransfers
        BY <1>1, BoundAssumption
    <2>2. Entries = {}
        BY <1>1 DEF Entries
    <2>3. \A a \in Actor : run[a] = Idle
        BY <1>1
    <2>4. tcp \in [Socket -> State]
        BY <1>1 DEF State
    <2>5. QED
        BY <1>1, <1>2, <2>1, <2>2, <2>3, <2>4 DEF TypeOK
<1>4. TypeInv
    BY <1>1, <1>2, <1>3 DEF TypeInv
<1>5. TracingInv /\ AttachInv /\ SocketInv
    BY <1>1, <1>2 DEF TracingInv, AttachInv, SocketInv, Active, Locks, Entries
<1>6. KeyInv
    BY <1>1, <1>2 DEF KeyInv, Sole, Pointers, Exact, Needed, On
<1>7. ShowInv
    <2>1. \A s \in Socket : keyOf[s] \in Key
        BY <1>1
    <2>2. QED
        BY <1>1, <2>1 DEF ShowInv, Shows
<1>8. QED
    BY <1>4, <1>5, <1>6, <1>7 DEF ProbesInv

\* Every step keeps the invariant.
LEMMA NextProbes == ProbesInv /\ [Next]_vars => ProbesInv'
<1> SUFFICES ASSUME ProbesInv, [Next]_vars
             PROVE  ProbesInv'
    OBVIOUS
<1>1. Base /\ KeyInv /\ ShowInv
    BY DEF ProbesInv, Base
<1>2. SUFFICES Base' /\ KeyInv' /\ ShowInv'
    BY DEF ProbesInv, Base
<1>3. CASE UNCHANGED vars
    <2>1. UNCHANGED <<mode, attached, keyOf, tcp, locked, at, slot, call, saved, run,
                      transfers, due, disturbed>>
        BY <1>3 DEF vars, loaderVars, kernelVars, mapVars, historyVars
    <2>2. Base'
        BY <1>1, <2>1 DEF Base, TypeInv, TypeOK, Entries, TracingInv, AttachInv, Active,
                          SocketInv, Locks
    <2>3. KeyInv'
        BY <1>1, <2>1 DEF KeyInv, Sole, Pointers, Exact, Own, Needed, Owned, On, Active,
                          KeyIn, KeyFor
    <2>4. ShowInv'
        BY <1>1, <2>1 DEF ShowInv, Alone, Shows, On, KeyIn, KeyFor
    <2>5. QED
        BY <2>2, <2>3, <2>4
<1>4. CASE QuietStep
    <2>1. ShowInv'
        BY <1>1, <1>4, QuietFrame DEF ShowInv, Alone, Shows, On, KeyIn, KeyFor
    <2>2. QED
        BY <1>1, <1>4, <2>1, QuietBase, QuietKeys
<1>5. CASE FallBack
    <2>1. ShowInv'
        BY <1>1, <1>5, FallBackEffect DEF Base, ShowInv
    <2>2. QED
        BY <1>1, <1>5, <2>1, FallBackBase, FallBackKeys
<1>6. CASE \E s \in Socket, new \in State : SetStateUnseen(s, new)
    <2>1. PICK s \in Socket, new \in State : SetStateUnseen(s, new)
        BY <1>6
    <2>2. /\ Base' /\ attached = 0
          /\ UNCHANGED <<mode, attached, keyOf, at, slot, run, due, disturbed>>
        BY <1>1, <2>1, UnseenBase
    <2>3. \A t \in Socket : keyOf[t] \in Key /\ at[keyOf[t]] = NoSlot
        BY <1>1, <2>2 DEF Base, TypeInv, AttachInv, Entries
    <2>4. ShowInv'
        BY <2>2, <2>3 DEF ShowInv, Shows
    <2>5. QED
        BY <1>1, <2>1, <2>2, <2>4, UnseenKeys
<1>7. CASE \E a \in Actor : StartStep(a)
    BY <1>1, <1>7, StartBase, StartKeys, StartShows
<1>8. CASE \E a \in Actor : RunStep(a)
    BY <1>1, <1>8, StepBase, StepKeys, StepShows
<1>9. QED
    BY <1>3, <1>4, <1>5, <1>6, <1>7, <1>8 DEF Next, QuietStep, StartStep, RunStep

\* The invariant says what the properties say.
LEMMA ProbesFacts ==
    ProbesInv => /\ TypeOK /\ OnlyRacesLose /\ EventsAreExact
                 /\ EntriesHaveSockets /\ StateIsCurrent
<1> SUFFICES ASSUME ProbesInv
             PROVE  /\ TypeOK /\ OnlyRacesLose /\ EventsAreExact
                    /\ EntriesHaveSockets /\ StateIsCurrent
    OBVIOUS
<1>1. TypeInv /\ TracingInv /\ KeyInv /\ ShowInv /\ NoSlot \notin Slot
    BY SlotAssumption DEF ProbesInv
<1>2. TypeOK
    BY <1>1 DEF TypeInv
<1>3. OnlyRacesLose
    BY <1>1 DEF KeyInv, Exact, OnlyRacesLose
<1>4. EventsAreExact
    <2>1. SUFFICES ASSUME NEW a \in Actor, run[a].pc = "emit", KeyIn(a) \notin disturbed
                   PROVE  LET counted == slot[run[a].ptr].counted
                          IN  /\ Own(counted) = due[KeyIn(a)]
                              /\ mode = "tracing" => Own(counted) = counted
        BY DEF EventsAreExact
    <2>2. KeyIn(a) \in Key /\ run[a].ptr \in Slot
        BY <1>1, <2>1, KeyFacts, RunFields DEF Sane
    <2>3. run[a].ptr = at[KeyIn(a)] /\ Exact(KeyIn(a))
        BY <1>1, <2>1, <2>2 DEF KeyInv, Pointers, On
    <2>4. Own(slot[run[a].ptr].counted) = due[KeyIn(a)]
        BY <1>1, <2>2, <2>3 DEF Exact
    <2>5. mode = "tracing" => Own(slot[run[a].ptr].counted) = slot[run[a].ptr].counted
        BY <1>1, <2>2 DEF TracingInv, Own
    <2>6. QED
        BY <2>4, <2>5
<1>5. EntriesHaveSockets
    <2>1. SUFFICES ASSUME NEW k \in Entries, k \notin disturbed, ~ Busy(k)
                   PROVE  Owned(k)
        BY DEF EntriesHaveSockets, Owned
    <2>2. k \in Key /\ at[k] # NoSlot /\ \A a \in Actor : ~ On(a, k)
        BY <2>1 DEF Entries, Busy, On
    <2>3. QED
        BY <1>1, <2>1, <2>2 DEF KeyInv, Needed
<1>6. StateIsCurrent
    <2>1. SUFFICES ASSUME NEW s \in Socket, mode = "tracing", keyOf[s] \notin disturbed,
                          ~ Busy(keyOf[s]), at[keyOf[s]] # NoSlot, Alone(s)
                   PROVE  slot[at[keyOf[s]]].state = tcp[s]
        BY DEF StateIsCurrent, Alone
    <2>2. \A a \in Actor : ~ On(a, keyOf[s])
        BY <2>1 DEF Busy, On
    <2>3. QED
        BY <1>1, <2>1, <2>2 DEF ShowInv, Shows
<1>7. QED
    BY <1>2, <1>3, <1>4, <1>5, <1>6

\* ProbesInv holds in every reachable state, whatever the loader, the kernel and the
\* other probes do between two operations of a probe.
THEOREM ProbesInductive == Spec => []ProbesInv
<1>1. Init => ProbesInv
    BY InitProbes
<1>2. ProbesInv /\ [Next]_vars => ProbesInv'
    BY NextProbes
<1>3. QED
    BY <1>1, <1>2, PTL DEF Spec

\* The variables have their types, entries have elements of their own, and no probe
\* of netmon.bpf.c writes through a null pointer.
THEOREM TypeCorrect == Spec => []TypeOK
<1>1. ProbesInv => TypeOK
    BY ProbesFacts
<1>2. QED
    BY <1>1, ProbesInductive, PTL

\* Without a race on its key, an element recycled under a probe or a full map, an
\* entry has counted exactly the transfers that the probes saw.
THEOREM CountsCorrect == Spec => []OnlyRacesLose
<1>1. ProbesInv => OnlyRacesLose
    BY ProbesFacts
<1>2. QED
    BY <1>1, ProbesInductive, PTL

\* The event a probe submits (emit_event) says what the entry of its key should have
\* counted by then.
THEOREM EventsCorrect == Spec => []EventsAreExact
<1>1. ProbesInv => EventsAreExact
    BY ProbesFacts
<1>2. QED
    BY <1>1, ProbesInductive, PTL

\* However the loader attaches the probes while sockets open and close, an entry is
\* there for a socket that is not closed, for late transfers, or for a client that
\* had no port.
THEOREM EntriesCorrect == Spec => []EntriesHaveSockets
<1>1. ProbesInv => EntriesHaveSockets
    BY ProbesFacts
<1>2. QED
    BY <1>1, ProbesInductive, PTL

\* With fentry and fexit an entry shows the state its socket has.
THEOREM StateCorrect == Spec => []StateIsCurrent
<1>1. ProbesInv => StateIsCurrent
    BY ProbesFacts
<1>2. QED
    BY <1>1, ProbesInductive, PTL
=============================================================================
