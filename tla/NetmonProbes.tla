---------------------------- MODULE NetmonProbes ----------------------------
(***************************************************************************)
(* The probes of bpf/netmon.bpf.c on the TCP functions of the kernel: they *)
(* keep an entry per connection in the hash map active_conns and submit    *)
(* events.  Probes run at the same time on several CPUs; each step here is *)
(* one operation on the map or one stretch of writes through a pointer a   *)
(* lookup returned.                                                        *)
(*                                                                         *)
(* internal/bpf/loader.go attaches them one after the other while          *)
(* connections come and go: fentry and fexit programs first, and when one  *)
(* of them fails kprobes, with maps of their own.                          *)
(*                                                                         *)
(* The kernel holds the lock of the socket in tcp_set_state,               *)
(* tcp_cleanup_rbuf and tcp_retransmit_skb, and has released it when       *)
(* tcp_sendmsg returns.  The map is preallocated: a deleted or replaced    *)
(* element may be handed out again while a probe still has a pointer to it.*)
(* A socket that connects is set to SYN_SENT before its port is chosen.    *)
(*                                                                         *)
(* Sent bytes, received bytes and retransmits are sums; an entry keeps     *)
(* which transfers were added to it.  Addresses are one key.               *)
(***************************************************************************)
EXTENDS Integers, FiniteSets

CONSTANTS
    Actor,          \* threads, each on a CPU of its own
    Socket,         \* sockets of the observed port
    Client,         \* those that connect; the others are accepted
    Key,
    NoPort,         \* the key of a client without a port
    Keyings,        \* which key fill_conn_key may give each socket: both ends of
                    \* a connection on one host may have the same
    Other,          \* a socket of another port
    Slot, NoSlot,   \* the elements of active_conns, and a null pointer
    MaxTransfers    \* bound on sends, receives and retransmits

ASSUME KeyAssumption ==
    NoPort \in Key /\ Keyings \subseteq [Socket -> Key \ {NoPort}]
ASSUME SocketAssumption == Client \subseteq Socket /\ Other \notin Socket
ASSUME SlotAssumption == NoSlot \notin Slot
ASSUME BoundAssumption == MaxTransfers \in Nat

VARIABLES
    mode,       \* "tracing" (fentry and fexit) or "kprobe"
    attached,   \* how many probes are attached, in the order of the loader
    keyOf,      \* the key of each socket once it has a port
    tcp,        \* the state of each socket
    locked,     \* sockets whose lock is held
    at,         \* active_conns: the element of a key
    slot,       \* the elements
    call,       \* the call to tcp_sendmsg each actor is in
    saved,      \* inflight_send: what track_send_kprobe saved for an actor
    run,        \* the probe each actor runs
    transfers,  \* transfers so far; they are numbered from 1
    due,        \* history: what a key's entry should have counted
    disturbed   \* history: keys with a race, a full map or a stray send

loaderVars == <<mode, attached>>
kernelVars == <<keyOf, tcp, locked, call, saved, transfers>>
mapVars == <<at, slot>>
historyVars == <<due, disturbed>>
vars == <<loaderVars, kernelVars, mapVars, run, historyVars>>

\* Whether a transfer was accounted when its socket was closed is history.  Those
\* of another port have no number.
Transfer == [n : 0..MaxTransfers, of : Socket \union {Other}, late : BOOLEAN]
State == {"new", "connecting", "established", "closing", "closed"}
Stats == [counted : SUBSET Transfer, state : State]
Blank == [counted |-> {}, state |-> "new"]

\* `adds' is the transfer to add, if any; `state' the state to write: the new
\* one, or the one the socket has when it is written ("current").
Run == [pc : {"lookup", "create", "relookup", "write", "emit", "delete",
              "store"},
        op : {"state", "receive", "retransmit", "send"},
        sock : Socket,
        adds : SUBSET Transfer,
        state : State \union {"current"},
        ptr : Slot \union {NoSlot}]

Idle == [pc |-> "idle", ptr |-> NoSlot]
NotSending == [of |-> "nobody"]
NothingSaved == [of |-> "nobody"]

\* fill_conn_key, when tcp_set_state makes a socket connect and later.
KeyFor(s, op, state) ==
    IF op = "state" /\ state = "connecting" THEN NoPort ELSE keyOf[s]

KeyIn(a) == KeyFor(run[a].sock, run[a].op, run[a].state)
Busy(k) == \E a \in Actor : run[a].pc # "idle" /\ KeyIn(a) = k
Entries == {k \in Key : at[k] # NoSlot}

-----------------------------------------------------------------------------
(* The loader                                                              *)

Probes == IF mode = "tracing" THEN 4 ELSE 5

\* Mutant: the probe that deletes entries is attached last.
StateLast(probe) ==
    CASE probe = "state" -> Probes
      [] probe = "save" -> 1
      [] probe = "send" -> Probes - 3
      [] probe = "receive" -> Probes - 2
      [] probe = "retransmit" -> Probes - 1

\* attachTracing, attachKprobes.  Only kprobes save what a send is about.
Place(probe) ==
    CASE probe = "state" -> 1
      [] probe = "save" -> 2
      [] probe = "send" -> Probes - 2
      [] probe = "receive" -> Probes - 1
      [] probe = "retransmit" -> Probes

Attached(probe) == attached >= Place(probe)

AttachNext ==
    /\ attached < Probes
    /\ attached' = attached + 1
    /\ UNCHANGED <<mode, kernelVars, mapVars, run, historyVars>>

(* A tracing probe cannot be attached: Open closes what it has and starts  *)
(* again with kprobes and new maps.  Probes that still run have the old    *)
(* maps, which nobody will see.                                            *)
FallBack ==
    /\ mode = "tracing" /\ attached < Probes
    /\ mode' = "kprobe" /\ attached' = 0
    /\ at' = [k \in Key |-> NoSlot] /\ slot' = [e \in Slot |-> Blank]
    /\ run' = [a \in Actor |->
                  IF run[a].pc # "idle" /\ run[a].op = "state"
                  THEN [run[a] EXCEPT !.pc = "store", !.ptr = NoSlot] ELSE Idle]
    /\ locked' = {run[a].sock : a \in {b \in Actor : run'[b].pc = "store"}}
    /\ call' = [a \in Actor |->
                   IF call[a] = NotSending THEN NotSending
                                           ELSE [call[a] EXCEPT !.hooked = FALSE]]
    /\ due' = [k \in Key |-> {}] /\ disturbed' = {}
    /\ UNCHANGED <<keyOf, tcp, saved, transfers>>

-----------------------------------------------------------------------------
(* The kernel calls a traced function                                      *)

\* A probe starts; a second one on the same key makes a race.
Start(a, op, s, adds, state) ==
    LET k == KeyFor(s, op, state)
    IN  /\ run[a].pc = "idle"
        /\ run' = [run EXCEPT ![a] = [pc |-> "lookup", op |-> op, sock |-> s,
                                      adds |-> adds, state |-> state, ptr |-> NoSlot]]
        /\ disturbed' = IF Busy(k) THEN disturbed \union {k} ELSE disturbed
        /\ UNCHANGED <<mapVars, due>>

StartLocked(a, op, s, adds, state) ==
    /\ s \notin locked
    /\ locked' = locked \union {s}
    /\ Start(a, op, s, adds, state)

\* A transfer begins.
Numbered(s) == [n |-> transfers + 1, of |-> s, late |-> FALSE]
Count == transfers < MaxTransfers /\ transfers' = transfers + 1

\* What tcp_set_state may be called with.
Following(s) ==
    CASE tcp[s] = "new" -> IF s \in Client THEN {"connecting"}
                                            ELSE {"established", "closed"}
      [] tcp[s] = "connecting" -> {"established", "closed"}
      [] tcp[s] = "established" -> {"closing", "closed"}
      [] tcp[s] = "closing" -> {"closed"}
      [] tcp[s] = "closed" -> {}

SetState(a, s, new) ==
    /\ new \in Following(s)
    /\ Attached("state")
    /\ StartLocked(a, "state", s, {}, new)
    /\ UNCHANGED <<loaderVars, keyOf, tcp, call, saved, transfers>>

SetStateUnseen(s, new) ==
    /\ new \in Following(s) /\ s \notin locked
    /\ ~ Attached("state")
    /\ tcp' = [tcp EXCEPT ![s] = new]
    /\ UNCHANGED <<loaderVars, keyOf, locked, call, saved, transfers, mapVars, run,
                   historyVars>>

(* Data may be left in the queue of a closed socket.                       *)
Receive(a, s) ==
    /\ tcp[s] \in {"established", "closing", "closed"}
    /\ Attached("receive")
    /\ Count
    /\ StartLocked(a, "receive", s, {Numbered(s)}, "current")
    /\ UNCHANGED <<loaderVars, keyOf, tcp, call, saved>>

Retransmit(a, s) ==
    /\ tcp[s] \in {"connecting", "established", "closing"}
    /\ Attached("retransmit")
    /\ Count
    /\ StartLocked(a, "retransmit", s, {Numbered(s)}, "current")
    /\ UNCHANGED <<loaderVars, keyOf, tcp, call, saved>>

(* tcp_sendmsg has sent and released the lock.  track_send_kprobe saved    *)
(* the key and the state when it was called, unless the socket is another  *)
(* port's.  The kernel catches the return if the probe is attached when the*)
(* function is called; of a kretprobe it may have no instance left.        *)
Send(a, s, hooked) ==
    /\ run[a].pc = "idle" /\ call[a] = NotSending
    /\ IF s = Other
       THEN mode = "kprobe" /\ saved[a] # NothingSaved /\ UNCHANGED transfers
       ELSE tcp[s] \in {"established", "closing"} /\ s \notin locked /\ Count
    /\ IF Attached("send") THEN hooked \/ mode = "kprobe" ELSE ~ hooked
    /\ hooked \/ (mode = "kprobe" /\ Attached("save") /\ s # Other)
    /\ call' = [call EXCEPT ![a] = [n |-> IF s = Other THEN 0 ELSE transfers',
                                    of |-> s, hooked |-> hooked]]
    /\ saved' = IF mode = "kprobe" /\ s # Other
                THEN [saved EXCEPT ![a] = [n |-> transfers', of |-> s, state |-> tcp[s]]]
                ELSE saved
    /\ UNCHANGED <<loaderVars, keyOf, tcp, locked, mapVars, run, historyVars>>

(* inflight_send is an LRU map: what was saved may be gone.                *)
EvictSend(a) ==
    /\ saved[a] # NothingSaved
    /\ saved' = [saved EXCEPT ![a] = NothingSaved]
    /\ UNCHANGED <<loaderVars, keyOf, tcp, locked, call, transfers, mapVars, run,
                   historyVars>>

Sent(a) == {[n |-> call[a].n, of |-> call[a].of, late |-> FALSE]}

(* tcp_sendmsg returns without a probe, or to one that finds nothing saved.*)
SendReturnsUnseen(a) ==
    /\ call[a] # NotSending
    /\ \/ ~ call[a].hooked
       \/ mode = "kprobe" /\ saved[a] = NothingSaved
    /\ call' = [call EXCEPT ![a] = NotSending]
    /\ UNCHANGED <<loaderVars, keyOf, tcp, locked, saved, transfers, mapVars, run,
                   historyVars>>

(* track_send_fexit reads the socket, track_send_kretprobe has what was    *)
(* saved.  When the return of an earlier call was not caught and this call *)
(* saved nothing, what was saved is another socket's: a stray send.        *)
SendReturns(a) ==
    /\ call[a] # NotSending /\ call[a].hooked
    /\ \/ /\ mode = "tracing"
          /\ Start(a, "send", call[a].of, Sent(a), "current")
          /\ UNCHANGED saved
       \/ /\ mode = "kprobe" /\ saved[a] # NothingSaved
          /\ Start(a, "send", saved[a].of, Sent(a), saved[a].state)
          /\ saved' = [saved EXCEPT ![a] = NothingSaved]
    /\ call' = [call EXCEPT ![a] = NotSending]
    /\ UNCHANGED <<loaderVars, keyOf, tcp, locked, transfers>>

-----------------------------------------------------------------------------
(* lookup_or_create_stats, account_send_from_call                          *)

\* The function the probe is in goes on without it; a lock is released now,
\* but in tcp_set_state after the state is stored.
Done(a) ==
    IF run[a].op = "state"
    THEN /\ run' = [run EXCEPT ![a].pc = "store", ![a].ptr = NoSlot]
         /\ UNCHANGED locked
    ELSE /\ run' = [run EXCEPT ![a] = Idle]
         /\ locked' = IF run[a].op = "send" THEN locked
                                            ELSE locked \ {run[a].sock}

GoTo(a, pc) == run' = [run EXCEPT ![a].pc = pc]
Written(a) == IF run[a].state = "current" THEN tcp[run[a].sock] ELSE run[a].state

\* Mutant: an entry that is there is initialised again.
LookupCreates(a) ==
    /\ run[a].pc = "lookup"
    /\ GoTo(a, "create")
    /\ UNCHANGED <<loaderVars, kernelVars, mapVars, historyVars>>

(* A close creates no entry.                                               *)
Lookup(a) ==
    /\ run[a].pc = "lookup"
    /\ \/ /\ at[KeyIn(a)] # NoSlot
          /\ run' = [run EXCEPT ![a].ptr = at[KeyIn(a)], ![a].pc = "write"]
          /\ UNCHANGED locked
       \/ /\ at[KeyIn(a)] = NoSlot
          /\ run[a].op = "state" /\ run[a].state = "closed"
          /\ Done(a)
       \/ /\ at[KeyIn(a)] = NoSlot
          /\ ~ (run[a].op = "state" /\ run[a].state = "closed")
          /\ GoTo(a, "create")
          /\ UNCHANGED locked
    /\ UNCHANGED <<loaderVars, keyOf, tcp, call, saved, transfers, mapVars, historyVars>>

(* A new element takes the place of the one that is there (BPF_ANY).  The  *)
(* element may be one that another probe still points to.                  *)
Create(a) ==
    /\ run[a].pc = "create"
    /\ \E new \in Slot \ {at[k] : k \in Key} :
          /\ at' = [at EXCEPT ![KeyIn(a)] = new]
          /\ slot' = [slot EXCEPT ![new] =
                         [counted |-> {},
                          state |-> IF run[a].op = "send" THEN Written(a)
                                                          ELSE tcp[run[a].sock]]]
          /\ disturbed' = IF \E b \in Actor : run[b].ptr = new
                          THEN disturbed \union {KeyIn(a)} ELSE disturbed
    /\ GoTo(a, "relookup")
    /\ UNCHANGED <<loaderVars, kernelVars, due>>

(* Other connections fill the map.                                         *)
CreateFails(a) ==
    /\ run[a].pc = "create"
    /\ at[KeyIn(a)] = NoSlot
    /\ disturbed' = disturbed \union {KeyIn(a)}
    /\ GoTo(a, "relookup")
    /\ UNCHANGED <<loaderVars, kernelVars, mapVars, due>>

\* Mutant: the pointer is used whether it is null or not.
RelookupUnchecked(a) ==
    /\ run[a].pc = "relookup"
    /\ run' = [run EXCEPT ![a].ptr = at[KeyIn(a)], ![a].pc = "write"]
    /\ UNCHANGED <<loaderVars, kernelVars, mapVars, historyVars>>

Relookup(a) ==
    /\ run[a].pc = "relookup"
    /\ \/ /\ at[KeyIn(a)] # NoSlot
          /\ run' = [run EXCEPT ![a].ptr = at[KeyIn(a)], ![a].pc = "write"]
          /\ UNCHANGED locked
       \/ /\ at[KeyIn(a)] = NoSlot
          /\ Done(a)
    /\ UNCHANGED <<loaderVars, keyOf, tcp, call, saved, transfers, mapVars, historyVars>>

-----------------------------------------------------------------------------
(* handle_state_change, account_bytes, account_retransmit                  *)

EventType(a) ==
    CASE run[a].op = "retransmit" -> "RETRANSMIT"
      [] run[a].op = "state" /\ run[a].state = "established" -> "ESTABLISHED"
      [] run[a].op = "state" /\ run[a].state = "closed" -> "CLOSED"
      [] OTHER -> "none"

Added(a) == {[t EXCEPT !.late = tcp[run[a].sock] = "closed"] : t \in run[a].adds}
Own(adds) == {t \in adds : t.of # Other}

\* Mutant: a state change writes the state the socket still has.
WriteOldState(a) ==
    LET r == run[a]
    IN  /\ r.pc = "write"
        /\ slot' = [slot EXCEPT ![r.ptr] = [counted |-> @.counted \union Added(a),
                                            state |-> tcp[r.sock]]]
        /\ due' = [due EXCEPT ![KeyIn(a)] = @ \union Own(Added(a))]
        /\ \/ EventType(a) = "none" /\ Done(a)
           \/ EventType(a) # "none" /\ GoTo(a, "emit") /\ UNCHANGED locked
        /\ UNCHANGED <<loaderVars, keyOf, tcp, call, saved, transfers, at, disturbed>>

\* Mutant: a closed connection is deleted before its event is submitted.
WriteDeletes(a) ==
    LET r == run[a]
    IN  /\ r.pc = "write"
        /\ slot' = [slot EXCEPT ![r.ptr] = [counted |-> @.counted \union Added(a),
                                            state |-> Written(a)]]
        /\ at' = IF EventType(a) = "CLOSED" THEN [at EXCEPT ![KeyIn(a)] = NoSlot]
                                            ELSE at
        /\ due' = [due EXCEPT ![KeyIn(a)] = @ \union Own(Added(a))]
        /\ \/ EventType(a) = "none" /\ Done(a)
           \/ EventType(a) # "none" /\ GoTo(a, "emit") /\ UNCHANGED locked
        /\ UNCHANGED <<loaderVars, keyOf, tcp, call, saved, transfers, disturbed>>

(* All that is written through the pointer, be it to the entry or not.     *)
Write(a) ==
    LET r == run[a]
    IN  /\ r.pc = "write"
        /\ slot' = [slot EXCEPT ![r.ptr] = [counted |-> @.counted \union Added(a),
                                            state |-> Written(a)]]
        /\ due' = [due EXCEPT ![KeyIn(a)] = @ \union Own(Added(a))]
        /\ \/ EventType(a) = "none" /\ Done(a)
           \/ EventType(a) # "none" /\ GoTo(a, "emit") /\ UNCHANGED locked
        /\ UNCHANGED <<loaderVars, keyOf, tcp, call, saved, transfers, at, disturbed>>

(* emit_event copies what the pointer points to into the ring buffer, or   *)
(* drops the event when that is full.                                      *)
Emit(a) ==
    /\ run[a].pc = "emit"
    /\ \/ EventType(a) = "CLOSED" /\ GoTo(a, "delete") /\ UNCHANGED locked
       \/ EventType(a) # "CLOSED" /\ Done(a)
    /\ UNCHANGED <<loaderVars, keyOf, tcp, call, saved, transfers, mapVars, historyVars>>

\* What an element holds that is free and that no other probe points to.
Unseen(a, e) ==
    /\ e \notin {at[k] : k \in Key \ {KeyIn(a)}}
    /\ \A b \in Actor \ {a} : run[b].ptr # e

Delete(a) ==
    /\ run[a].pc = "delete"
    /\ at' = [at EXCEPT ![KeyIn(a)] = NoSlot]
    /\ slot' = [e \in Slot |-> IF Unseen(a, e) THEN Blank ELSE slot[e]]
    /\ due' = [due EXCEPT ![KeyIn(a)] = {}]
    /\ Done(a)
    /\ UNCHANGED <<loaderVars, keyOf, tcp, call, saved, transfers, disturbed>>

(* tcp_set_state stores the state after the probe and releases the lock.   *)
Store(a) ==
    /\ run[a].pc = "store"
    /\ tcp' = [tcp EXCEPT ![run[a].sock] = run[a].state]
    /\ locked' = locked \ {run[a].sock}
    /\ run' = [run EXCEPT ![a] = Idle]
    /\ UNCHANGED <<loaderVars, keyOf, call, saved, transfers, mapVars, historyVars>>

-----------------------------------------------------------------------------
Init ==
    /\ mode = "tracing" /\ attached = 0 /\ keyOf \in Keyings
    /\ tcp = [s \in Socket |-> "new"]
    /\ locked = {}
    /\ at = [k \in Key |-> NoSlot]
    /\ slot = [e \in Slot |-> Blank]
    /\ call = [a \in Actor |-> NotSending]
    /\ saved = [a \in Actor |-> NothingSaved]
    /\ run = [a \in Actor |-> Idle]
    /\ transfers = 0
    /\ due = [k \in Key |-> {}]
    /\ disturbed = {}

Next ==
    \/ AttachNext \/ FallBack
    \/ \E s \in Socket, new \in State : SetStateUnseen(s, new)
    \/ \E a \in Actor :
          \/ \E s \in Socket :
                \/ \E new \in State : SetState(a, s, new)
                \/ Receive(a, s) \/ Retransmit(a, s)
          \/ \E s \in Socket \union {Other}, hooked \in BOOLEAN : Send(a, s, hooked)
          \/ EvictSend(a) \/ SendReturns(a) \/ SendReturnsUnseen(a)
          \/ Lookup(a) \/ Create(a) \/ CreateFails(a) \/ Relookup(a)
          \/ Write(a) \/ Emit(a) \/ Delete(a) \/ Store(a)

Spec == Init /\ [][Next]_vars

-----------------------------------------------------------------------------
(* Properties                                                              *)

\* The variables have their types; entries have elements of their own, and a
\* probe never writes through a null pointer.
TypeOK ==
    /\ tcp \in [Socket -> State] /\ locked \subseteq Socket
    /\ at \in [Key -> Slot \union {NoSlot}]
    /\ \A j, k \in Entries : at[j] = at[k] => j = k
    /\ slot \in [Slot -> Stats]
    /\ \A a \in Actor : run[a] \in Run \union {Idle}
    /\ \A a \in Actor : run[a].pc \in {"write", "emit", "delete"} => run[a].ptr # NoSlot
    /\ transfers \in 0..MaxTransfers
    /\ due \in [Key -> SUBSET Transfer] /\ disturbed \subseteq Key

\* What the counters of a connection miss is lost in races between probes on that
\* very key, to an element recycled under a probe, or to a full map.  Otherwise
\* its entry has counted exactly the transfers the probes saw since the last close,
\* whatever probes do to the other entries, and there is none if there were none.
OnlyRacesLose ==
    \A k \in Key \ disturbed :
        ~ Busy(k) =>
            IF at[k] = NoSlot THEN due[k] = {}
                              ELSE Own(slot[at[k]].counted) = due[k]

\* An event says what the entry should have counted at that moment, a CLOSED
\* event the final counters: what the probe points to is not another connection's
\* by then, and nothing is missing.  With fentry and fexit no send of another port
\* is in it; a kprobe whose earlier return was missed may add one.
EventsAreExact ==
    \A a \in Actor :
        LET counted == slot[run[a].ptr].counted
        IN  run[a].pc = "emit" /\ KeyIn(a) \notin disturbed
               => /\ Own(counted) = due[KeyIn(a)]
                  /\ mode = "tracing" => Own(counted) = counted

\* An entry on the list of connections has a socket that is not closed, though
\* probes are attached one by one while sockets open and close: the probe that
\* deletes entries is there before any that makes one.  What else stays on the
\* list, outside races, are transfers accounted after the close (a send that comes
\* late, data read from a closed socket), and the key a client has before its port
\* is chosen, under which nothing was transferred.
EntriesHaveSockets ==
    \A k \in Entries \ disturbed :
        ~ Busy(k) =>
            \/ \E s \in Socket : keyOf[s] = k /\ tcp[s] \notin {"new", "closed"}
            \/ LET counted == slot[at[k]].counted
               IN  counted # {} /\ \A t \in counted : t.late \/ t.of = Other
            \/ k = NoPort /\ slot[at[k]] = [counted |-> {}, state |-> "connecting"]

\* With fentry and fexit the state on display is that of the socket, though the
\* probe runs before the state is stored and sends are accounted unlocked.
StateIsCurrent ==
    \A s \in Socket :
        LET k == keyOf[s]
        IN  (/\ mode = "tracing" /\ k \notin disturbed /\ ~ Busy(k)
             /\ at[k] # NoSlot
             /\ \A other \in Socket \ {s} : keyOf[other] # k)
               => slot[at[k]].state = tcp[s]

=============================================================================
