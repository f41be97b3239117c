-------------------------- MODULE CollectorProofs ---------------------------
(***************************************************************************)
(* Proofs about the collector, for every number of keys, subscribers,      *)
(* connections, transfers and snapshots and for lists and buffers of every *)
(* size.                                                                   *)
(*                                                                         *)
(* Two invariants share no variable.  MapInv is about the kernel's map and *)
(* the snapshots made of it: while entries come and go, each connection    *)
(* that was there all the time is in the list or ahead of the iterator.    *)
(* HubInv is about the events and the subscribers: what reached one are the*)
(* events at an increasing sequence of positions of those it was due.      *)
(***************************************************************************)
EXTENDS Collector, FiniteSetTheorems, SequenceTheorems, WellFoundedInduction, TLAPS

Item == [key : Key, conn : Conn, bytes : 0..MaxTransfers]
Shown == [key : Key, conn : Conn, bytes : 0..MaxTransfers, rate : Int]

\* The types of what a snapshot is made of.
MapType ==
    /\ entry \in [Key -> Entry \union {NoEntry}]
    /\ closing \subseteq {k \in Key : Open(k)}
    /\ kernel \in [opens : 0..MaxOpens, transfers : 0..MaxTransfers, retransmits : Nat]
    /\ ring \in Seq(Event) /\ Len(ring) <= RingCap
    /\ reading \in [pc : {"idle", "next", "lookup", "lock"}, at : 0..Keys,
                    list : Seq(Item)]
    /\ reading.pc = "lookup" => reading.at # 0
    /\ shown \in Seq(Shown)
    /\ DOMAIN previous \subseteq Key
    /\ steady \in [conns : SUBSET Conn, all : BOOLEAN]

InList(c) == \E i \in DOMAIN reading.list : reading.list[i].conn = c

\* A connection that was in the map all the time is in the list or the iterator
\* has it before it; without a deletion the keys of the list increase.
ListInv ==
    /\ reading.pc \in {"next", "lookup"} =>
          \A c \in steady.conns :
             InList(c) \/ \E k \in Key : /\ Open(k) /\ entry[k].conn = c
                                         /\ k > reading.at \/ (reading.pc = "lookup"
                                                               /\ k = reading.at)
    /\ reading.pc = "lock" => \A c \in steady.conns : InList(c)
    /\ reading.pc # "idle" /\ steady.all =>
          /\ reading.at # 0 => Open(reading.at)
          /\ \A i \in DOMAIN reading.list :
                /\ reading.list[i].key <= reading.at
                /\ reading.pc = "lookup" => reading.list[i].key < reading.at
          /\ \A i, j \in DOMAIN reading.list :
                i < j => reading.list[i].key < reading.list[j].key

\* The number of a connection is used once, and its bytes only grow: from the
\* last snapshot to the list to the entry.
GrowInv ==
    /\ \A k \in Key : entry[k].conn <= kernel.opens /\ entry[k].bytes <= kernel.transfers
    /\ \A i \in DOMAIN reading.list :
          LET item == reading.list[i]
          IN  /\ item.conn <= kernel.opens
              /\ entry[item.key].conn = item.conn => item.bytes <= entry[item.key].bytes
    /\ \A j \in DOMAIN shown :
          /\ shown[j].conn <= kernel.opens
          /\ entry[shown[j].key].conn = shown[j].conn =>
                shown[j].bytes <= entry[shown[j].key].bytes
          /\ \A i \in DOMAIN reading.list :
                reading.list[i].key = shown[j].key /\ reading.list[i].conn = shown[j].conn
                   => shown[j].bytes <= reading.list[i].bytes

\* `previous' has the counters of the last snapshot.
PreviousInv ==
    /\ DOMAIN previous = KeysOf(shown)
    /\ \A k \in DOMAIN previous : previous[k] = shown[LastOf(shown, k)].bytes

MapInv == MapType /\ ListInv /\ GrowInv /\ PreviousInv

-----------------------------------------------------------------------------
\* The bounds are natural numbers and the capacities positive.
LEMMA Bounds ==
    /\ Keys \in Nat /\ RingCap \in Nat /\ MaxOpens \in Nat /\ MaxTransfers \in Nat
    /\ MaxRetransmits \in Nat /\ MaxSnapshots \in Nat
    /\ Width \in Nat \ {0} /\ MaxTransfers < Width
    /\ DoneCap \in Nat \ {0} /\ EventCap \in Nat \ {0}
<1>1. Width \in Nat /\ MaxTransfers \in Nat /\ Keys \in Nat /\ RingCap \in Nat
      /\ MaxOpens \in Nat /\ MaxRetransmits \in Nat /\ MaxSnapshots \in Nat
    BY BoundAssumption
<1>2. QED
    BY <1>1, CapAssumption, WidthAssumption

\* A set of numbers has a least one.
LEMMA LeastOf ==
    ASSUME NEW T, T \subseteq Nat, T # {}
    PROVE  \E m \in T : \A n \in T : m <= n
<1>1. PICK m \in T : \A n \in T : ~ (<<n, m>> \in OpToRel(<, Nat))
    BY WFMin, NatLessThanWellFounded
<1>2. \A n \in T : ~ (n < m)
    BY <1>1 DEF OpToRel
<1>3. QED
    BY <1>2

\* A set of numbers up to n has a greatest one.
LEMMA GreatestOf ==
    ASSUME NEW n \in Nat, NEW T, T \subseteq 1..n, T # {}
    PROVE  \E m \in T : \A i \in T : i <= m
<1> DEFINE D == {n - i : i \in T}
<1>1. D \subseteq Nat /\ D # {}
    <2>1. \A i \in T : i \in 1..n /\ n - i \in Nat
        OBVIOUS
    <2>2. PICK i \in T : TRUE
        OBVIOUS
    <2>3. n - i \in D
        OBVIOUS
    <2>4. QED
        BY <2>1, <2>3
<1> HIDE DEF D
<1>2. PICK d \in D : \A i \in D : d <= i
    BY <1>1, LeastOf
<1>3. PICK m \in T : d = n - m
    BY <1>2 DEF D
<1>4. \A i \in T : n - m <= n - i
    BY <1>2, <1>3 DEF D
<1>5. QED
    BY <1>3, <1>4

\* The iterator's next key is the next that is open, from the first if the key
\* it is at is gone (ListConnections).
LEMMA NextKeyIsNext ==
    ASSUME MapType
    PROVE  LET from == IF reading.at # 0 /\ Open(reading.at) THEN reading.at ELSE 0
           IN  /\ from \in 0..Keys
               /\ NextKey \in 0..Keys
               /\ NextKey = 0 => \A k \in Key : ~ (k > from /\ Open(k))
               /\ NextKey # 0 => /\ Open(NextKey) /\ NextKey > from
                                 /\ \A k \in Key : k > from /\ Open(k) => NextKey <= k
<1> DEFINE from == IF reading.at # 0 /\ Open(reading.at) THEN reading.at ELSE 0
           left == {k \in Key : k > from /\ Open(k)}
<1>1. from \in 0..Keys
    BY Bounds DEF MapType
<1>2. CASE left = {}
    BY <1>1, <1>2, Bounds DEF NextKey
<1>3. CASE left # {}
    <2>1. \E k \in left : \A j \in left : k <= j
        <3>1. left \subseteq Nat
            BY Bounds DEF Key
        <3>2. QED
            BY <1>3, <3>1, LeastOf
    <2>2. NextKey = CHOOSE k \in left : \A j \in left : k <= j
        BY <1>3 DEF NextKey
    <2>3. NextKey \in left /\ \A j \in left : NextKey <= j
        BY <2>1, <2>2
    <2>4. QED
        BY <1>1, <2>3, Bounds DEF Key
<1>4. QED
    BY <1>2, <1>3

\* The last item of a key in a list, or in what was shown.
LEMMA LastIsLast ==
    ASSUME NEW n \in Nat, NEW list, DOMAIN list = 1..n, NEW k \in KeysOf(list)
    PROVE  /\ LastOf(list, k) \in DOMAIN list
           /\ list[LastOf(list, k)].key = k
           /\ \A j \in Listed(list, k) : j <= LastOf(list, k)
<1>1. Listed(list, k) \subseteq 1..n /\ Listed(list, k) # {}
    BY DEF Listed, KeysOf
<1>2. \E i \in Listed(list, k) : \A j \in Listed(list, k) : j <= i
    BY <1>1, GreatestOf
<1>3. QED
    BY <1>2 DEF LastOf, Listed


-----------------------------------------------------------------------------
(* The kernel's steps.                                                     *)

\* The variables of MapInv, and of HubInv.
mapVars == <<entry, closing, kernel, ring, reading, shown, previous, steady>>
hubVars == <<command, loop, observer, recentEvent, recentDone, subscribers, channel, got>>

\* The ring buffer takes an event or loses it.
LEMMA SubmitFits ==
    ASSUME ring \in Seq(Event), Len(ring) <= RingCap,
           NEW type \in {"ESTABLISHED", "CLOSED", "RETRANSMIT"}, NEW conn \in Conn,
           Submit(type, conn)
    PROVE  ring' \in Seq(Event) /\ Len(ring') <= RingCap
<1> DEFINE e == [type |-> type, conn |-> conn]
<1>1. e \in Event
    BY DEF Event
<1>2. ring' = IF Len(ring) < RingCap THEN Append(ring, e) ELSE ring
    BY DEF Submit
<1> HIDE DEF e
<1>3. Append(ring, e) \in Seq(Event) /\ Len(Append(ring, e)) = Len(ring) + 1
    BY <1>1, AppendProperties
<1>4. Len(ring) \in Nat
    BY LenProperties
<1>5. QED
    BY <1>2, <1>3, <1>4, Bounds

\* What an open entry is, and one that is not.
LEMMA EntryFacts ==
    ASSUME MapType, NEW k \in Key
    PROVE  /\ Open(k) => entry[k] \in Entry /\ entry[k].conn \in Conn
                         /\ entry[k].bytes \in 0..MaxTransfers
           /\ ~ Open(k) => entry[k].conn = 0 /\ entry[k].bytes = 0
           /\ Open(k) <=> entry[k].conn # 0
<1>1. entry[k] \in Entry \/ entry[k] = NoEntry
    BY DEF MapType
<1>2. NoEntry.conn = 0 /\ NoEntry.bytes = 0
    BY DEF NoEntry
<1>3. entry[k] \in Entry => entry[k].conn \in Conn /\ entry[k].bytes \in 0..MaxTransfers
    BY DEF Entry
<1>4. 0 \notin Conn
    BY Bounds DEF Conn
<1>5. QED
    BY <1>1, <1>2, <1>3, <1>4 DEF Open

\* What the numbers of MapInv are.
LEMMA NumberFacts ==
    ASSUME MapType
    PROVE  /\ \A k \in Key : entry[k].conn \in Nat /\ entry[k].bytes \in Nat
           /\ DOMAIN reading.list = 1..Len(reading.list) /\ Len(reading.list) \in Nat
           /\ \A i \in DOMAIN reading.list :
                 /\ reading.list[i] \in Item
                 /\ reading.list[i].key \in Key
                 /\ reading.list[i].conn \in Nat \ {0} /\ reading.list[i].bytes \in Nat
           /\ DOMAIN shown = 1..Len(shown) /\ Len(shown) \in Nat
           /\ \A i \in DOMAIN shown :
                 /\ shown[i].key \in Key
                 /\ shown[i].conn \in Nat \ {0} /\ shown[i].bytes \in Nat
           /\ kernel.opens \in Nat /\ kernel.transfers \in Nat /\ reading.at \in Nat
<1>1. Conn \subseteq Nat \ {0} /\ 0..MaxTransfers \subseteq Nat /\ 0..Keys \subseteq Nat
      /\ 0..MaxOpens \subseteq Nat
    BY Bounds DEF Conn
<1>2. \A k \in Key : entry[k].conn \in Nat /\ entry[k].bytes \in Nat
    <2>1. TAKE k \in Key
    <2>2. CASE Open(k)
        BY <1>1, <2>2, EntryFacts
    <2>3. CASE ~ Open(k)
        BY <2>3, EntryFacts
    <2>4. QED
        BY <2>2, <2>3
<1>3. kernel.opens \in Nat /\ kernel.transfers \in Nat /\ reading.at \in Nat
      /\ reading.list \in Seq(Item) /\ shown \in Seq(Shown)
    BY <1>1 DEF MapType
<1> DEFINE l == reading.list
<1> HIDE DEF l
<1>4. l \in Seq(Item)
    BY <1>3 DEF l
<1>5. DOMAIN l = 1..Len(l) /\ Len(l) \in Nat /\ \A i \in DOMAIN l : l[i] \in Item
    BY <1>4, LenProperties, ElementOfSeq
<1>6. \A x \in Item : x.key \in Key /\ x.conn \in Nat \ {0} /\ x.bytes \in Nat
    BY <1>1 DEF Item
<1>7. DOMAIN shown = 1..Len(shown) /\ Len(shown) \in Nat
      /\ \A i \in DOMAIN shown : shown[i] \in Shown
    BY <1>3, LenProperties, ElementOfSeq
<1>8. \A x \in Shown : x.key \in Key /\ x.conn \in Nat \ {0} /\ x.bytes \in Nat
    BY <1>1 DEF Shown
<1>9. QED
    BY <1>2, <1>3, <1>5, <1>6, <1>7, <1>8 DEF l

\* A new connection.
LEMMA OpenKeepsMap ==
    ASSUME MapInv, NEW k \in Key, KernelOpen(k), UNCHANGED <<reading, shown, previous>>
    PROVE  MapInv'
<1> USE DEF MapInv
<1> DEFINE n == kernel.opens + 1
           e == [conn |-> n, bytes |-> 0]
<1>1. kernel.opens \in Nat /\ kernel.transfers \in Nat /\ n \in Conn /\ n \in 0..MaxOpens
    BY SMTT(30), NumberFacts, Bounds DEF KernelOpen, Conn
<1>2. /\ kernel' \in [opens : 0..MaxOpens, transfers : 0..MaxTransfers, retransmits : Nat]
      /\ kernel'.opens = n /\ kernel'.transfers = kernel.transfers
    <2>1. kernel \in [opens : 0..MaxOpens, transfers : 0..MaxTransfers, retransmits : Nat]
        BY DEF MapType
    <2>2. kernel' = [kernel EXCEPT !.opens = n]
        BY DEF KernelOpen
    <2> HIDE DEF n
    <2>3. QED
        BY <1>1, <2>1, <2>2
<1>3. entry' = [entry EXCEPT ![k] = e] /\ ~ Open(k) /\ UNCHANGED <<closing, steady>>
    BY <1>2 DEF KernelOpen
<1>4. e \in Entry /\ e # NoEntry /\ e.conn = n /\ e.bytes = 0
    BY <1>1, Bounds DEF Entry, NoEntry
<1> HIDE DEF e
<1>5. /\ entry' \in [Key -> Entry \union {NoEntry}]
      /\ entry'[k] = e /\ \A j \in Key \ {k} : entry'[j] = entry[j]
    BY <1>3, <1>4 DEF MapType
<1>6. \A j \in Key : Open(j) => entry'[j] # NoEntry /\ entry'[j] = entry[j] /\ j # k
    BY <1>3, <1>5 DEF Open
<1>7. MapType'
    <2>1. ring' \in Seq(Event) /\ Len(ring') <= RingCap
        <3>1. Submit("ESTABLISHED", n)
            BY <1>2 DEF KernelOpen
        <3>2. QED
            BY <1>1, <3>1, SubmitFits DEF MapType
    <2>2. closing' \subseteq {j \in Key : entry'[j] # NoEntry}
        BY <1>3, <1>6 DEF MapType
    <2>3. QED
        BY <1>2, <1>3, <1>5, <2>1, <2>2 DEF MapType, Open
<1>8. ListInv'
    <2>1. reading' = reading /\ steady' = steady
        BY <1>3
    <2>2. reading.at # 0 => reading.at \in Key
        BY NumberFacts, Bounds DEF MapType, Key
    <2>3. QED
        BY <1>6, <2>1, <2>2 DEF ListInv, InList, Open
<1>9. GrowInv'
    <2>1. \A j \in Key : entry[j].conn <= kernel.opens /\ entry[j].conn \in Int
        BY NumberFacts DEF GrowInv
    <2>2. \A i \in DOMAIN reading.list :
             /\ reading.list[i].key \in Key /\ reading.list[i].conn \in Int
             /\ reading.list[i].conn <= kernel.opens
        BY NumberFacts DEF GrowInv
    <2>3. \A i \in DOMAIN shown :
             /\ shown[i].key \in Key /\ shown[i].conn \in Int
             /\ shown[i].conn <= kernel.opens
        BY NumberFacts DEF GrowInv
    <2>4. QED
        BY <1>1, <1>2, <1>4, <1>5, <2>1, <2>2, <2>3 DEF GrowInv
<1>10. PreviousInv'
    BY DEF PreviousInv
<1>11. QED
    BY <1>7, <1>8, <1>9, <1>10

\* Bytes of a connection.
LEMMA TransferKeepsMap ==
    ASSUME MapInv, NEW k \in Key, KernelTransfer(k), UNCHANGED <<reading, shown, previous>>
    PROVE  MapInv'
<1> USE DEF MapInv
<1> DEFINE e == [entry[k] EXCEPT !.bytes = @ + 1]
<1>1. kernel.opens \in Nat /\ kernel.transfers \in Nat /\ entry[k] \in Entry
    BY EntryFacts DEF MapType, KernelTransfer
<1>2. /\ kernel' \in [opens : 0..MaxOpens, transfers : 0..MaxTransfers, retransmits : Nat]
      /\ kernel'.opens = kernel.opens /\ kernel'.transfers = kernel.transfers + 1
    <2>1. kernel \in [opens : 0..MaxOpens, transfers : 0..MaxTransfers, retransmits : Nat]
        BY DEF MapType
    <2> DEFINE n == kernel.transfers + 1
    <2>2. kernel' = [kernel EXCEPT !.transfers = n] /\ n \in 0..MaxTransfers
        BY <1>1, Bounds DEF KernelTransfer
    <2> HIDE DEF n
    <2>3. /\ kernel' \in [opens : 0..MaxOpens, transfers : 0..MaxTransfers, retransmits : Nat]
          /\ kernel'.opens = kernel.opens /\ kernel'.transfers = n
        BY <2>1, <2>2
    <2>4. QED
        BY <2>3 DEF n
<1>3. /\ entry' = [entry EXCEPT ![k] = e] /\ Open(k)
      /\ UNCHANGED <<closing, ring, steady>>
    BY DEF KernelTransfer
<1>4. entry[k].bytes \in Nat /\ entry[k].bytes <= kernel.transfers
      /\ kernel.transfers < MaxTransfers /\ entry[k].conn \in Conn
    BY <1>1, NumberFacts DEF GrowInv, Entry, KernelTransfer
<1>5. e \in Entry /\ e.conn = entry[k].conn /\ e.bytes = entry[k].bytes + 1
    BY <1>1, <1>4, Bounds DEF Entry
<1>6. e # NoEntry
    <2>1. 0 \notin Conn /\ NoEntry.conn = 0
        BY Bounds DEF Conn, NoEntry
    <2>2. QED
        BY <1>4, <1>5, <2>1
<1> HIDE DEF e
<1>7. /\ entry' \in [Key -> Entry \union {NoEntry}]
      /\ entry'[k] = e /\ \A j \in Key \ {k} : entry'[j] = entry[j]
    BY <1>3, <1>5 DEF MapType
<1>8. \A j \in Key : /\ (entry'[j] # NoEntry) <=> Open(j)
                     /\ entry'[j].conn = entry[j].conn
                     /\ entry[j].bytes \in Nat /\ entry'[j].bytes \in Nat
                     /\ entry'[j].bytes >= entry[j].bytes
                     /\ entry'[j].bytes <= kernel.transfers + 1
    <2>1. \A j \in Key : entry[j].bytes \in Nat /\ entry[j].bytes <= kernel.transfers
        BY NumberFacts DEF GrowInv
    <2>2. QED
        BY <1>1, <1>3, <1>5, <1>6, <1>7, <2>1 DEF Open
<1>9. MapType'
    BY <1>2, <1>3, <1>7, <1>8 DEF MapType, Open
<1>10. ListInv'
    <2>1. reading.at # 0 => reading.at \in Key
        BY NumberFacts, Bounds DEF MapType, Key
    <2>2. reading' = reading /\ steady' = steady
        BY <1>3
    <2>3. QED
        BY <1>8, <2>1, <2>2 DEF ListInv, InList, Open
<1>11. GrowInv'
    <2>1. \A i \in DOMAIN reading.list :
             reading.list[i].key \in Key /\ reading.list[i].bytes \in Nat
        BY NumberFacts
    <2>2. \A i \in DOMAIN shown : shown[i].key \in Key /\ shown[i].bytes \in Nat
        BY NumberFacts
    <2>3. QED
        BY <1>1, <1>2, <1>8, <2>1, <2>2 DEF GrowInv
<1>12. PreviousInv'
    BY DEF PreviousInv
<1>13. QED
    BY <1>9, <1>10, <1>11, <1>12

\* An event only: a retransmission, or a connection that is closing.
LEMMA EventKeepsMap ==
    ASSUME MapInv, NEW k \in Key, KernelRetransmit(k) \/ KernelClose(k),
           UNCHANGED <<reading, shown, previous>>
    PROVE  MapInv'
<1> USE DEF MapInv
<1>1. /\ entry' = entry /\ steady' = steady /\ Open(k)
      /\ kernel'.opens = kernel.opens /\ kernel'.transfers = kernel.transfers
      /\ kernel' \in [opens : 0..MaxOpens, transfers : 0..MaxTransfers, retransmits : Nat]
      /\ closing' \subseteq closing \union {k}
    BY DEF KernelRetransmit, KernelClose, MapType
<1>2. ring' \in Seq(Event) /\ Len(ring') <= RingCap
    <2>1. entry[k].conn \in Conn
        BY <1>1, EntryFacts
    <2>2. QED
        BY <2>1, SubmitFits DEF KernelRetransmit, KernelClose, MapType
<1>3. MapType'
    BY <1>1, <1>2 DEF MapType, Open
<1>4. ListInv'
    BY <1>1 DEF ListInv, InList, Open
<1>5. GrowInv'
    BY <1>1 DEF GrowInv
<1>6. PreviousInv'
    BY DEF PreviousInv
<1>7. QED
    BY <1>3, <1>4, <1>5, <1>6

\* An entry is deleted: the connection was not in the map all the time.
LEMMA DeleteKeepsMap ==
    ASSUME MapInv, NEW k \in Key, KernelDelete(k), UNCHANGED <<reading, shown, previous>>
    PROVE  MapInv'
<1> USE DEF MapInv
<1>1. /\ closing' = closing \ {k} /\ entry' = [entry EXCEPT ![k] = NoEntry]
      /\ kernel' = kernel /\ ring' = ring
      /\ steady' = [conns |-> steady.conns \ {entry[k].conn}, all |-> FALSE]
    BY DEF KernelDelete
<1>2. /\ entry' \in [Key -> Entry \union {NoEntry}]
      /\ entry'[k] = NoEntry /\ \A j \in Key \ {k} : entry'[j] = entry[j]
    BY <1>1 DEF MapType
<1>3. steady' \in [conns : SUBSET Conn, all : BOOLEAN]
      /\ steady'.conns = steady.conns \ {entry[k].conn} /\ ~ steady'.all
    BY <1>1 DEF MapType
<1>4. MapType'
    BY <1>1, <1>2, <1>3 DEF MapType, Open
<1>5. ListInv'
    <2>1. \A c \in steady'.conns, j \in Key : entry[j].conn = c => j # k
        BY <1>3
    <2>2. QED
        BY <1>2, <1>3, <2>1 DEF ListInv, InList, Open
<1>6. GrowInv'
    <2>1. NoEntry.conn = 0 /\ NoEntry.bytes = 0 /\ kernel.opens \in Nat
          /\ kernel.transfers \in Nat
        BY DEF NoEntry, MapType
    <2>2. \A i \in DOMAIN reading.list :
             reading.list[i].key \in Key /\ reading.list[i].conn # 0
        BY NumberFacts
    <2>3. \A i \in DOMAIN shown : shown[i].key \in Key /\ shown[i].conn # 0
        BY NumberFacts
    <2>4. QED
        BY <1>1, <1>2, <2>1, <2>2, <2>3 DEF GrowInv
<1>7. PreviousInv'
    BY DEF PreviousInv
<1>8. QED
    BY <1>4, <1>5, <1>6, <1>7

\* A step of the kernel.
LEMMA KernelKeepsMap ==
    ASSUME MapInv, Kernel
    PROVE  MapInv'
<1>1. UNCHANGED <<reading, shown, previous>>
    BY DEF Kernel, collectorVars
<1>2. PICK k \in Key : \/ KernelOpen(k) \/ KernelTransfer(k) \/ KernelRetransmit(k)
                       \/ KernelClose(k) \/ KernelDelete(k)
    BY DEF Kernel
<1>3. QED
    BY <1>1, <1>2, OpenKeepsMap, TransferKeepsMap, EventKeepsMap, DeleteKeepsMap

-----------------------------------------------------------------------------
(* The list of the connections.                                            *)

\* An item is appended to the list.
LEMMA FoundIsAppended ==
    ASSUME MapType, NEW k \in Key, Open(k)
    PROVE  LET l == reading.list
               e == [key |-> k, conn |-> entry[k].conn, bytes |-> entry[k].bytes]
           IN  /\ Found(k) \in Seq(Item) /\ Len(Found(k)) = Len(l) + 1
               /\ DOMAIN Found(k) = 1..(Len(l) + 1)
               /\ \A i \in 1..Len(l) : Found(k)[i] = l[i]
               /\ Found(k)[Len(l) + 1] = e
<1> DEFINE l == reading.list
           e == [key |-> k, conn |-> entry[k].conn, bytes |-> entry[k].bytes]
<1>1. e \in Item
    BY EntryFacts DEF Item
<1>2. l \in Seq(Item)
    BY DEF MapType
<1>3. Found(k) = Append(l, e)
    BY DEF Found
<1> HIDE DEF l, e
<1>4. /\ Append(l, e) \in Seq(Item) /\ Len(Append(l, e)) = Len(l) + 1
      /\ \A i \in 1..Len(l) : Append(l, e)[i] = l[i]
      /\ Append(l, e)[Len(l) + 1] = e
    BY <1>1, <1>2, AppendProperties
<1>5. DOMAIN Append(l, e) = 1..(Len(l) + 1)
    BY <1>4, LenProperties
<1>6. QED
    BY <1>3, <1>4, <1>5 DEF l, e

\* An iteration begins.
LEMMA BeginKeepsMap ==
    ASSUME MapInv, ListBegin, UNCHANGED <<kernelVars, shown, previous>>
    PROVE  MapInv'
<1> USE DEF MapInv
<1>1. /\ reading' = [pc |-> "next", at |-> 0, list |-> <<>>]
      /\ steady' = [conns |-> InMap, all |-> TRUE]
      /\ UNCHANGED <<entry, closing, kernel, ring, shown, previous>>
    BY DEF ListBegin, kernelVars
<1>2. reading'.pc = "next" /\ reading'.at = 0 /\ reading'.list = <<>>
      /\ DOMAIN reading'.list = {} /\ steady'.conns = InMap /\ steady'.all
    <2>1. DOMAIN <<>> = {}
        OBVIOUS
    <2>2. QED
        BY <1>1, <2>1
<1>3. InMap \subseteq Conn
    BY EntryFacts DEF InMap
<1>4. MapType'
    <2>1. reading' \in [pc : {"idle", "next", "lookup", "lock"}, at : 0..Keys,
                        list : Seq(Item)]
        <3>1. <<>> \in Seq(Item)
            BY EmptySeq
        <3>2. QED
            BY <1>1, <3>1, Bounds
    <2>2. steady' \in [conns : SUBSET Conn, all : BOOLEAN]
        BY <1>1, <1>3
    <2>3. QED
        BY <1>1, <1>2, <2>1, <2>2 DEF MapType, Open
<1>5. ListInv'
    <2>1. \A c \in InMap : \E k \in Key : Open(k) /\ entry[k].conn = c /\ k > 0
        BY DEF InMap, Key
    <2>2. QED
        BY <1>1, <1>2, <2>1 DEF ListInv, Open
<1>6. GrowInv'
    BY <1>1, <1>2 DEF GrowInv
<1>7. PreviousInv'
    BY <1>1 DEF PreviousInv
<1>8. QED
    BY <1>4, <1>5, <1>6, <1>7

\* The iterator goes on, or is at its end.
LEMMA NextKeepsMap ==
    ASSUME MapInv, ListNext, UNCHANGED <<kernelVars, shown, previous>>
    PROVE  MapInv'
<1> USE DEF MapInv
<1>1. /\ UNCHANGED <<entry, closing, kernel, ring, shown, previous, steady>>
      /\ reading.pc = "next"
      /\ reading' = IF NextKey = 0 THEN [reading EXCEPT !.pc = "lock"]
                    ELSE [reading EXCEPT !.pc = "lookup", !.at = NextKey]
    BY DEF ListNext, kernelVars
<1> DEFINE from == IF reading.at # 0 /\ Open(reading.at) THEN reading.at ELSE 0
           n == NextKey
<1>2. /\ from \in 0..Keys /\ n \in 0..Keys
      /\ n = 0 => \A k \in Key : ~ (k > from /\ Open(k))
      /\ n # 0 => /\ Open(n) /\ n > from
                  /\ \A k \in Key : k > from /\ Open(k) => n <= k
    BY NextKeyIsNext
<1>3. /\ from <= reading.at /\ from \in Nat
      /\ steady.all => from = reading.at
    BY SMTT(30), <1>1, <1>2, NumberFacts, Bounds DEF ListInv
<1> HIDE DEF from, n
<1>4. /\ n = 0 => reading'.pc = "lock" /\ reading'.at = reading.at
      /\ n # 0 => reading'.pc = "lookup" /\ reading'.at = n
      /\ reading'.list = reading.list
      /\ reading' \in [pc : {"idle", "next", "lookup", "lock"}, at : 0..Keys,
                       list : Seq(Item)]
    BY <1>1, <1>2 DEF MapType, n
<1>5. MapType'
    BY <1>1, <1>4 DEF MapType, Open
<1>6. Key \subseteq Nat
    BY Bounds DEF Key
<1>7. ListInv'
    <2>1. CASE n = 0
        <3>1. \A c \in steady.conns : InList(c)
            BY <1>1, <1>2, <1>3, <1>6, <2>1, NumberFacts DEF ListInv
        <3>2. QED
            BY <1>1, <1>4, <2>1, <3>1 DEF ListInv, InList, Open
    <2>2. CASE n # 0
        <3>1. \A c \in steady.conns :
                 InList(c) \/ \E k \in Key : Open(k) /\ entry[k].conn = c /\ (k > n \/ k = n)
            <4>1. n \in Nat
                BY <1>2
            <4>2. \A k \in Key : Open(k) /\ k > reading.at => k > n \/ k = n
                BY <1>2, <1>3, <1>6, <2>2, <4>1, NumberFacts
            <4>3. QED
                BY <1>1, <4>2 DEF ListInv
        <3>2. steady.all => \A i \in DOMAIN reading.list :
                               reading.list[i].key <= n /\ reading.list[i].key < n
            BY <1>1, <1>2, <1>3, <1>6, <2>2, NumberFacts DEF ListInv
        <3>3. QED
            BY <1>1, <1>2, <1>4, <2>2, <3>1, <3>2 DEF ListInv, InList, Open
    <2>3. QED
        BY <2>1, <2>2
<1>8. GrowInv'
    BY <1>1, <1>4 DEF GrowInv
<1>9. PreviousInv'
    BY <1>1 DEF PreviousInv
<1>10. QED
    BY <1>5, <1>7, <1>8, <1>9

\* The entry of the key is looked up, or is gone.
LEMMA LookupKeepsMap ==
    ASSUME MapInv, ListLookup, UNCHANGED <<kernelVars, shown, previous>>
    PROVE  MapInv'
<1> USE DEF MapInv
<1> DEFINE at == reading.at
           l == reading.list
           m == Found(reading.at)
           e == [key |-> at, conn |-> entry[at].conn, bytes |-> entry[at].bytes]
<1>1. /\ UNCHANGED <<entry, closing, kernel, ring, shown, previous, steady>>
      /\ reading.pc = "lookup"
      /\ reading' = IF Open(at) THEN [reading EXCEPT !.pc = "next", !.list = m]
                    ELSE [reading EXCEPT !.pc = "next"]
    BY DEF ListLookup, kernelVars
<1>2. at \in Key /\ at \in Nat
    BY SMTT(30), <1>1, Bounds, NumberFacts DEF MapType, Key
<1>3. /\ Open(at) => /\ m \in Seq(Item) /\ DOMAIN m = 1..(Len(l) + 1)
                     /\ \A i \in 1..Len(l) : m[i] = l[i]
                     /\ m[Len(l) + 1] = e
      /\ e.key = at /\ e.conn = entry[at].conn /\ e.bytes = entry[at].bytes
    BY <1>2, FoundIsAppended
<1>4. DOMAIN l = 1..Len(l) /\ Len(l) \in Nat
    BY NumberFacts
<1> HIDE DEF m, e
<1>5. /\ reading'.pc = "next" /\ reading'.at = at
      /\ reading'.list = IF Open(at) THEN m ELSE l
      /\ reading' \in [pc : {"idle", "next", "lookup", "lock"}, at : 0..Keys,
                       list : Seq(Item)]
    BY <1>1, <1>3 DEF MapType
<1>6. MapType'
    BY <1>1, <1>5 DEF MapType, Open
<1> DEFINE r == reading'.list
<1>7. CASE ~ Open(at)
    <2>1. r = l
        BY <1>5, <1>7
    <2>2. ListInv'
        <3>1. \A c \in steady.conns :
                InList(c) \/ \E k \in Key : Open(k) /\ entry[k].conn = c /\ k > at
            BY <1>1, <1>7 DEF ListInv
        <3>2. ~ steady.all
            BY <1>1, <1>2, <1>7, Bounds DEF ListInv, Key
        <3>3. QED
            BY <1>1, <1>5, <2>1, <3>1, <3>2 DEF ListInv, InList, Open
    <2>3. GrowInv'
        BY <1>1, <2>1 DEF GrowInv
    <2>4. PreviousInv'
        BY <1>1 DEF PreviousInv
    <2>5. QED
        BY <1>6, <2>2, <2>3, <2>4
<1>8. CASE Open(at)
    <2>1. /\ r = m /\ DOMAIN r = 1..(Len(l) + 1)
          /\ \A i \in DOMAIN l : i \in DOMAIN r /\ r[i] = l[i] /\ i < Len(l) + 1
          /\ Len(l) + 1 \in DOMAIN r /\ r[Len(l) + 1] = e
          /\ \A i \in DOMAIN r : i \in DOMAIN l \/ i = Len(l) + 1
        BY <1>3, <1>4, <1>5, <1>8
    <2> HIDE DEF r, l
    <2>2. ListInv'
        <3>1. \A c \in steady.conns :
                 \/ \E i \in DOMAIN r : r[i].conn = c
                 \/ \E k \in Key : Open(k) /\ entry[k].conn = c /\ k > at
            <4>1. \A c \in steady.conns :
                 \/ \E i \in DOMAIN l : l[i].conn = c
                 \/ entry[at].conn = c
                 \/ \E k \in Key : Open(k) /\ entry[k].conn = c /\ k > at
                BY <1>1 DEF ListInv, InList, l
            <4>2. QED
                BY <1>3, <2>1, <4>1
        <3>2. ASSUME steady.all
              PROVE  /\ \A i \in DOMAIN r : r[i].key <= at
                     /\ \A i, j \in DOMAIN r : i < j => r[i].key < r[j].key
            <4>1. /\ \A i \in DOMAIN l : l[i].key < at /\ l[i].key \in Nat
                  /\ \A i, j \in DOMAIN l : i < j => l[i].key < l[j].key
                BY SMTT(30), <1>1, <3>2, NumberFacts, Bounds DEF ListInv, l, Key
            <4>2. QED
                BY <1>2, <1>3, <1>4, <2>1, <4>1
        <3>3. QED
            BY <1>1, <1>5, <1>8, <3>1, <3>2 DEF ListInv, InList, Open, r
    <2>3. GrowInv'
        <3>1. /\ \A i \in DOMAIN l :
                   /\ l[i].conn <= kernel.opens
                   /\ entry[l[i].key].conn = l[i].conn => l[i].bytes <= entry[l[i].key].bytes
              /\ \A j \in DOMAIN shown :
                   /\ shown[j].conn <= kernel.opens
                   /\ entry[shown[j].key].conn = shown[j].conn =>
                         shown[j].bytes <= entry[shown[j].key].bytes
                   /\ \A i \in DOMAIN l :
                        l[i].key = shown[j].key /\ l[i].conn = shown[j].conn
                          => shown[j].bytes <= l[i].bytes
            BY DEF GrowInv, l
        <3>2. e.conn <= kernel.opens /\ e.bytes <= entry[e.key].bytes
            BY <1>2, <1>3, NumberFacts DEF GrowInv
        <3>3. /\ \A i \in DOMAIN r :
                   /\ r[i].conn <= kernel.opens
                   /\ entry[r[i].key].conn = r[i].conn => r[i].bytes <= entry[r[i].key].bytes
              /\ \A j \in DOMAIN shown, i \in DOMAIN r :
                    r[i].key = shown[j].key /\ r[i].conn = shown[j].conn
                          => shown[j].bytes <= r[i].bytes
            BY <1>3, <2>1, <3>1, <3>2
        <3>4. QED
            BY <1>1, <3>1, <3>3 DEF GrowInv, r
    <2>4. PreviousInv'
        BY <1>1 DEF PreviousInv
    <2>5. QED
        BY <1>6, <2>2, <2>3, <2>4
<1>9. QED
    BY <1>7, <1>8

\* A list is thrown away.
LEMMA AbortKeepsMap ==
    ASSUME MapInv, ListAborted, UNCHANGED <<kernelVars, shown, previous>>
    PROVE  MapInv'
<1> USE DEF MapInv
<1>1. /\ reading' = [pc |-> "idle", at |-> 0, list |-> <<>>]
      /\ UNCHANGED <<entry, closing, kernel, ring, shown, previous, steady>>
    BY DEF ListAborted, kernelVars
<1>2. reading'.pc = "idle" /\ DOMAIN reading'.list = {}
    <2>1. DOMAIN <<>> = {}
        OBVIOUS
    <2>2. QED
        BY <1>1, <2>1
<1>3. reading' \in [pc : {"idle", "next", "lookup", "lock"}, at : 0..Keys,
                    list : Seq(Item)]
    <2>1. <<>> \in Seq(Item)
        BY EmptySeq
    <2>2. QED
        BY <1>1, <2>1, Bounds
<1>4. MapType'
    BY <1>1, <1>2, <1>3 DEF MapType, Open
<1>5. ListInv' /\ GrowInv'
    BY <1>1, <1>2 DEF ListInv, GrowInv
<1>6. PreviousInv'
    BY <1>1 DEF PreviousInv
<1>7. QED
    BY <1>4, <1>5, <1>6

\* The rate of an item is a number.
LEMMA RateIsNumber ==
    ASSUME MapInv, NEW i \in DOMAIN reading.list
    PROVE  Rate(reading.list, i) \in Int
<1> USE DEF MapInv
<1> DEFINE k == reading.list[i].key
<1>1. reading.list[i].bytes \in Nat
    BY NumberFacts
<1>2. k \in DOMAIN previous => previous[k] \in Nat
    <2>1. SUFFICES ASSUME k \in DOMAIN previous PROVE previous[k] \in Nat
        OBVIOUS
    <2>2. LastOf(shown, k) \in DOMAIN shown
        BY <2>1, LastIsLast, NumberFacts DEF PreviousInv
    <2>3. QED
        BY <2>1, <2>2, NumberFacts DEF PreviousInv
<1>3. \A d \in Int : d % Width \in Int
    BY Bounds
<1>4. k \in DOMAIN previous => (reading.list[i].bytes - previous[k]) % Width \in Int
    BY <1>1, <1>2, <1>3
<1>5. QED
    BY <1>4 DEF Rate

\* What the snapshot shows and remembers is the list.
LEMMA SnapshotEffect ==
    ASSUME MapInv, SnapshotLocked
    PROVE  LET l == reading.list IN
           /\ UNCHANGED <<entry, closing, kernel, ring, steady>>
           /\ reading' = [pc |-> "idle", at |-> 0, list |-> <<>>]
           /\ DOMAIN shown' = DOMAIN l
           /\ \A i \in DOMAIN l :
                 shown'[i].key = l[i].key /\ shown'[i].conn = l[i].conn
                 /\ shown'[i].bytes = l[i].bytes /\ shown'[i].rate = Rate(l, i)
           /\ KeysOf(shown') = KeysOf(l)
           /\ \A k : Listed(shown', k) = Listed(l, k) /\ LastOf(shown', k) = LastOf(l, k)
           /\ previous' = PreviousOf(l)
<1> DEFINE l == reading.list
<1>1. /\ UNCHANGED <<entry, closing, kernel, ring, steady>>
      /\ reading' = [pc |-> "idle", at |-> 0, list |-> <<>>]
      /\ previous' = PreviousOf(l)
      /\ shown' = [i \in DOMAIN l |-> [key |-> l[i].key, conn |-> l[i].conn,
                                       bytes |-> l[i].bytes, rate |-> Rate(l, i)]]
    BY DEF SnapshotLocked, kernelVars
<1>2. /\ DOMAIN shown' = DOMAIN l
      /\ \A i \in DOMAIN l :
           shown'[i].key = l[i].key /\ shown'[i].conn = l[i].conn
           /\ shown'[i].bytes = l[i].bytes /\ shown'[i].rate = Rate(l, i)
    BY <1>1
<1>3. \A k : Listed(shown', k) = Listed(l, k)
    BY <1>2 DEF Listed
<1>4. \A k : LastOf(shown', k) = LastOf(l, k)
    BY <1>3 DEF LastOf
<1>5. KeysOf(shown') = KeysOf(l)
    BY <1>2 DEF KeysOf
<1>6. QED
    BY <1>1, <1>2, <1>3, <1>4, <1>5

\* A snapshot.
LEMMA SnapshotKeepsMap ==
    ASSUME MapInv, SnapshotLocked
    PROVE  MapInv'
<1> USE DEF MapInv
<1> DEFINE l == reading.list
           s == shown'
<1>1. /\ UNCHANGED <<entry, closing, kernel, ring, steady>>
      /\ reading' = [pc |-> "idle", at |-> 0, list |-> <<>>]
      /\ DOMAIN s = DOMAIN l
      /\ \A i \in DOMAIN l :
            s[i].key = l[i].key /\ s[i].conn = l[i].conn /\ s[i].bytes = l[i].bytes
      /\ KeysOf(s) = KeysOf(l)
      /\ \A k : LastOf(s, k) = LastOf(l, k)
      /\ previous' = PreviousOf(l)
    BY SnapshotEffect
<1>2. reading'.pc = "idle" /\ DOMAIN reading'.list = {}
    <2>1. DOMAIN <<>> = {}
        OBVIOUS
    <2>2. QED
        BY <1>1, <2>1
<1>3. \A k \in KeysOf(l) : k \in Key /\ LastOf(l, k) \in DOMAIN l
    BY LastIsLast, NumberFacts DEF KeysOf
<1>4. DOMAIN previous' = KeysOf(l)
      /\ \A k \in KeysOf(l) : previous'[k] = l[LastOf(l, k)].bytes
    BY <1>1 DEF PreviousOf
<1>5. s \in Seq(Shown)
    <2>1. DOMAIN l = 1..Len(l) /\ Len(l) \in Nat
        BY NumberFacts
    <2>2. s = [i \in DOMAIN l |-> [key |-> l[i].key, conn |-> l[i].conn,
                                   bytes |-> l[i].bytes, rate |-> Rate(l, i)]]
        BY DEF SnapshotLocked
    <2>3. \A i \in DOMAIN l : Rate(l, i) \in Int
        BY RateIsNumber
    <2>4. \A i \in DOMAIN l : [key |-> l[i].key, conn |-> l[i].conn,
                               bytes |-> l[i].bytes, rate |-> Rate(l, i)] \in Shown
        <3>1. \A i \in DOMAIN l : l[i] \in Item
            BY NumberFacts
        <3>2. QED
            BY <2>3, <3>1 DEF Shown, Item
    <2>5. s \in [1..Len(l) -> Shown]
        BY <2>1, <2>2, <2>4
    <2>6. QED
        BY <2>1, <2>5, SeqDef
<1>6. MapType'
    <2>1. reading' \in [pc : {"idle", "next", "lookup", "lock"}, at : 0..Keys,
                        list : Seq(Item)]
        <3>1. <<>> \in Seq(Item)
            BY EmptySeq
        <3>2. QED
            BY <1>1, <3>1, Bounds
    <2>2. DOMAIN previous' \subseteq Key
        BY <1>3, <1>4
    <2>3. QED
        BY <1>1, <1>2, <1>5, <2>1, <2>2 DEF MapType, Open
<1>7. ListInv'
    BY <1>1, <1>2 DEF ListInv
<1>8. GrowInv'
    <2>1. /\ \A i \in DOMAIN l :
                /\ l[i].conn <= kernel.opens
                /\ entry[l[i].key].conn = l[i].conn => l[i].bytes <= entry[l[i].key].bytes
          /\ \A k \in Key :
                entry[k].conn <= kernel.opens /\ entry[k].bytes <= kernel.transfers
        BY DEF GrowInv
    <2>2. \A j \in DOMAIN s :
             /\ s[j].conn <= kernel.opens
             /\ entry[s[j].key].conn = s[j].conn => s[j].bytes <= entry[s[j].key].bytes
        BY <1>1, <2>1
    <2> HIDE DEF s
    <2>3. QED
        BY <1>1, <1>2, <2>1, <2>2 DEF GrowInv, s
<1>9. PreviousInv'
    <2>1. DOMAIN previous' = KeysOf(s)
        BY <1>1, <1>4
    <2>2. \A k \in DOMAIN previous' : previous'[k] = s[LastOf(s, k)].bytes
        BY <1>1, <1>3, <1>4
    <2>3. QED
        BY <2>1, <2>2 DEF PreviousInv
<1>10. QED
    BY <1>6, <1>7, <1>8, <1>9

-----------------------------------------------------------------------------
\* Every step keeps what is known of the map and of the lists.
LEMMA MapInductive == Spec => []MapInv
<1>1. Init => MapInv
    <2> SUFFICES ASSUME Init PROVE MapInv
        OBVIOUS
    <2> USE DEF Init
    <2>1. DOMAIN <<>> = {} /\ <<>> \in Seq(Item) /\ <<>> \in Seq(Shown) /\ <<>> \in Seq(Event)
          /\ Len(<<>>) = 0
        BY EmptySeq
    <2>2. NoEntry.conn = 0 /\ NoEntry.bytes = 0
        BY DEF NoEntry
    <2>3. entry \in [Key -> Entry \union {NoEntry}] /\ \A k \in Key : entry[k] = NoEntry
        OBVIOUS
    <2>4. /\ kernel \in [opens : 0..MaxOpens, transfers : 0..MaxTransfers, retransmits : Nat]
          /\ kernel.opens = 0 /\ kernel.transfers = 0
        BY Bounds
    <2>5. /\ reading \in [pc : {"idle", "next", "lookup", "lock"}, at : 0..Keys,
                          list : Seq(Item)]
          /\ reading.pc = "idle" /\ reading.list = <<>>
        BY <2>1, Bounds
    <2>6. steady \in [conns : SUBSET Conn, all : BOOLEAN]
        OBVIOUS
    <2>7. MapType
        BY <2>1, <2>3, <2>4, <2>5, <2>6, Bounds DEF MapType
    <2>8. ListInv
        BY <2>5 DEF ListInv
    <2>9. GrowInv
        BY <2>1, <2>2, <2>3, <2>4, <2>5 DEF GrowInv
    <2>10. PreviousInv
        BY <2>1 DEF PreviousInv, KeysOf
    <2>11. QED
        BY <2>7, <2>8, <2>9, <2>10 DEF MapInv
<1>2. ASSUME MapInv, UNCHANGED mapVars
      PROVE  MapInv'
    <2> USE <1>2
    <2>1. MapType' /\ ListInv' /\ GrowInv'
        BY DEF MapInv, mapVars, MapType, ListInv, GrowInv, Open, InList
    <2>2. PreviousInv'
        BY DEF MapInv, mapVars, PreviousInv
    <2>3. QED
        BY <2>1, <2>2 DEF MapInv
<1>3. ASSUME MapInv, [Next]_vars
      PROVE  MapInv'
    <2> USE <1>3
    <2>1. CASE Kernel
        BY <2>1, KernelKeepsMap
    <2>2. CASE EventLoop
        <3>1. /\ UNCHANGED <<entry, closing, kernel, reading, shown, previous, steady>>
              /\ ring # <<>> /\ ring' = Tail(ring)
            BY <2>2 DEF EventLoop
        <3>2. ring' \in Seq(Event) /\ Len(ring') = Len(ring) - 1 /\ Len(ring) \in Nat
            BY <3>1, HeadTailProperties, LenProperties DEF MapInv, MapType
        <3>3. MapType'
            BY <3>1, <3>2, Bounds DEF MapInv, MapType, Open
        <3>4. ListInv' /\ GrowInv'
            BY <3>1 DEF MapInv, ListInv, GrowInv, Open, InList
        <3>5. PreviousInv'
            BY <3>1 DEF MapInv, PreviousInv
        <3>6. QED
            BY <3>3, <3>4, <3>5 DEF MapInv
    <2>3. CASE EventLoopFails \/ Start \/ Interrupted \/ CloseRuntime
        BY <1>2, <2>3 DEF EventLoopFails, Start, Interrupted, CloseRuntime, mapVars,
                          kernelVars, collectorVars
    <2>4. CASE \E s \in Subscriber : \/ \E size \in Buffers : Subscribe(s, size)
                                     \/ Receive(s) \/ Cancel(s)
        BY <1>2, <2>4 DEF Subscribe, Receive, Cancel, mapVars, kernelVars, collectorVars
    <2>5. CASE List
        <3>1. UNCHANGED <<kernelVars, shown, previous>>
            BY <2>5 DEF List, collectorVars
        <3>2. QED
            BY <2>5, <3>1, BeginKeepsMap, NextKeepsMap, LookupKeepsMap, AbortKeepsMap DEF List
    <2>6. CASE SnapshotLocked
        BY <2>6, SnapshotKeepsMap
    <2>7. CASE UNCHANGED vars
        BY <1>2, <2>7 DEF vars, mapVars, kernelVars, collectorVars
    <2>8. QED
        BY <2>1, <2>2, <2>3, <2>4, <2>5, <2>6, <2>7 DEF Next
<1>4. QED
    BY <1>1, <1>3, PTL DEF Spec

\* Items with increasing keys have as many keys as there are items.
LEMMA IncreasingKeys ==
    ASSUME NEW n \in Nat, NEW list, DOMAIN list = 1..n,
           \A i \in 1..n : list[i].key \in Int,
           \A i, j \in 1..n : i < j => list[i].key < list[j].key
    PROVE  Cardinality(KeysOf(list)) = n
<1> DEFINE f == [i \in 1..n |-> list[i].key]
           K == KeysOf(list)
<1>1. f \in [1..n -> K]
    BY DEF KeysOf
<1>2. \A i, j \in 1..n : f[i] = f[j] => i = j
    <2>1. \A i, j \in 1..n : i < j => f[i] < f[j] /\ f[i] \in Int /\ f[j] \in Int
        OBVIOUS
    <2>2. \A i, j \in 1..n : i < j \/ j < i \/ i = j
        OBVIOUS
    <2>3. QED
        BY <2>1, <2>2
<1>3. \A k \in K : \E i \in 1..n : f[i] = k
    BY DEF KeysOf
<1> HIDE DEF f, K
<1>4. f \in Bijection(1..n, K)
    BY <1>1, <1>2, <1>3 DEF Bijection, Injection, Surjection, IsInjective
<1>5. ExistsBijection(1..n, K)
    BY <1>4 DEF ExistsBijection
<1>6. Cardinality(K) = n
    BY <1>5, FS_CountingElements
<1>7. QED
    BY <1>6 DEF K

(* A list has every connection that was in the map all the time it was     *)
(* read, and none twice unless an entry was deleted (snapshot.go and       *)
(* ListConnections).                                                       *)
THEOREM ListsCorrect == Spec => []ListIsFair
<1>1. ASSUME MapInv
      PROVE  ListIsFair
    <2> SUFFICES ASSUME reading.pc = "lock"
                 PROVE  /\ steady.conns \subseteq
                              {reading.list[i].conn : i \in DOMAIN reading.list}
                        /\ steady.all => Cardinality(KeysOf(reading.list)) = Len(reading.list)
        BY DEF ListIsFair
    <2>1. \A c \in steady.conns : InList(c)
        BY <1>1 DEF MapInv, ListInv
    <2>2. ASSUME steady.all
          PROVE  Cardinality(KeysOf(reading.list)) = Len(reading.list)
        <3> DEFINE l == reading.list
        <3>1. DOMAIN l = 1..Len(l) /\ Len(l) \in Nat /\ \A i \in 1..Len(l) : l[i].key \in Key
            BY <1>1, NumberFacts DEF MapInv
        <3>2. Key \subseteq Int
            BY Bounds DEF Key
        <3>3. \A i, j \in 1..Len(l) : i < j => l[i].key < l[j].key
            BY <1>1, <2>2, <3>1 DEF MapInv, ListInv
        <3> HIDE DEF l
        <3>4. Cardinality(KeysOf(l)) = Len(l)
            BY <3>1, <3>2, <3>3, IncreasingKeys
        <3>5. QED
            BY <3>4 DEF l
    <2>3. QED
        BY <2>1, <2>2 DEF InList
<1>2. QED
    BY <1>1, MapInductive, PTL

\* A number below n is itself modulo n.
LEMMA SmallMod ==
    ASSUME NEW n \in Nat \ {0}, NEW d \in Nat, d < n
    PROVE  d % n = d
OBVIOUS

(* A rate is the bytes a connection transferred between the snapshots, zero*)
(* for one that was not in the last, unless it took the key of another     *)
(* (snapshot.go, Snapshot).                                                *)
THEOREM RatesCorrect == Spec => RatesAreTransfers
<1>1. ASSUME MapInv, SnapshotLocked
      PROVE  RateStep
    <2> USE <1>1
    <2> DEFINE l == reading.list
               now == shown'
               Fresh(i) == ~\E j \in 1..(i - 1) : now[j].key = now[i].key
               last(i) == Listed(shown, now[i].key)
               was(i) == shown[LastOf(shown, now[i].key)]
    <2>1. /\ DOMAIN now = DOMAIN l
          /\ \A i \in DOMAIN l :
                now[i].key = l[i].key /\ now[i].conn = l[i].conn
                /\ now[i].bytes = l[i].bytes /\ now[i].rate = Rate(l, i)
        BY SnapshotEffect
    <2>2. DOMAIN l = 1..Len(l) /\ Len(l) \in Nat
        BY NumberFacts DEF MapInv
    <2>3. DOMAIN previous = KeysOf(shown)
          /\ \A k \in DOMAIN previous : previous[k] = shown[LastOf(shown, k)].bytes
        BY DEF MapInv, PreviousInv
    <2>4. ASSUME NEW i \in DOMAIN now, Fresh(i)
          PROVE  IF last(i) = {} THEN now[i].rate = 0
                 ELSE was(i).conn = now[i].conn =>
                         now[i].rate = now[i].bytes - was(i).bytes
        <3> DEFINE k == l[i].key
        <3>1. i \in DOMAIN l /\ i \in 1..Len(l) /\ now[i].key = k
            BY <2>1, <2>2, <2>4
        <3>2. \A j \in Listed(l, k) : i <= j
            <4>1. \A j \in DOMAIN l : j < i => j \in 1..(i - 1)
                BY <2>2, <3>1
            <4>2. \A j \in DOMAIN l : l[j].key = k => ~ (j < i)
                BY <2>1, <2>4, <3>1, <4>1
            <4>3. QED
                BY <2>2, <3>1, <4>2 DEF Listed
        <3>3. now[i].rate = IF k \in DOMAIN previous
                            THEN (l[i].bytes - previous[k]) % Width ELSE 0
            BY <2>1, <3>1, <3>2 DEF Rate
        <3>4. last(i) = {} <=> k \notin DOMAIN previous
            BY <2>3, <3>1 DEF Listed, KeysOf
        <3>5. ASSUME k \in DOMAIN previous, was(i).conn = now[i].conn
              PROVE  now[i].rate = now[i].bytes - was(i).bytes
            <4> DEFINE j == LastOf(shown, k)
            <4>1. j \in DOMAIN shown /\ shown[j].key = k
                BY <2>3, <3>5, LastIsLast, NumberFacts DEF MapInv
            <4>2. was(i) = shown[j] /\ previous[k] = shown[j].bytes
                BY <2>3, <3>1, <3>5
            <4>3. shown[j].bytes <= l[i].bytes
                <5>1. l[i].conn = shown[j].conn
                    BY <2>1, <3>1, <3>5, <4>2
                <5>2. QED
                    BY <3>1, <4>1, <5>1 DEF MapInv, GrowInv
            <4>4. shown[j].bytes \in Nat /\ l[i].bytes \in Nat /\ l[i].bytes <= MaxTransfers
                <5>1. l[i] \in Item /\ l[i].bytes \in Nat /\ shown[j].bytes \in Nat
                    BY <3>1, <4>1, NumberFacts DEF MapInv
                <5>2. QED
                    BY <5>1, Bounds DEF Item
            <4> DEFINE d == l[i].bytes - shown[j].bytes
            <4>5. d \in Nat /\ d < Width
                BY <4>3, <4>4, Bounds
            <4>6. now[i].rate = d % Width
                BY <3>3, <3>5, <4>2
            <4> HIDE DEF d
            <4>7. d % Width = d
                BY <4>5, SmallMod, Bounds
            <4>8. QED
                BY <2>1, <3>1, <4>2, <4>6, <4>7 DEF d
        <3>6. QED
            BY <3>3, <3>4, <3>5
    <2>5. QED
        BY <2>4 DEF RateStep
<1>2. ASSUME MapInv, [Next]_vars
      PROVE  [snapshots' # snapshots => RateStep]_vars
    <2>1. CASE SnapshotLocked
        BY <1>1, <1>2, <2>1
    <2>2. CASE ~ SnapshotLocked
        <3>1. snapshots' = snapshots
            BY <1>2, <2>2
               DEF Next, Kernel, EventLoop, EventLoopFails, Subscribe, Receive, Cancel, List,
                   Start, Interrupted, CloseRuntime, vars
        <3>2. QED
            BY <3>1
    <2>3. QED
        BY <2>1, <2>2
<1>3. QED
    BY <1>2, MapInductive, PTL DEF Spec, RatesAreTransfers

-----------------------------------------------------------------------------
(* The events and the subscribers.                                         *)

Observer == [established : Nat, closed : Nat, retransmit : Nat, dropped : Nat]
Channel == [state : {"none", "open", "closed"}, size : Nat, queue : Seq(Event)]
Got == [due : Seq(Event), received : Seq(Event), lost : Nat]

HubType ==
    /\ command \in {"top", "watch", "events", "leaving", "over"}
    /\ loop \in {"off", "running", "failed", "ended"}
    /\ observer \in Observer
    /\ recentEvent \in Seq(Event) /\ recentDone \in Seq(Event)
    /\ Len(recentEvent) <= EventCap /\ Len(recentDone) <= DoneCap
    /\ channel \in [Subscriber -> Channel]
    /\ subscribers = {s \in Subscriber : channel[s].state = "open"}
    /\ \A s \in Subscriber : Len(channel[s].queue) <= channel[s].size
    /\ got \in [Subscriber -> Got]

Handled == observer.established + observer.closed + observer.retransmit

\* The first subscribers are there before the first event is handled, and a
\* channel that was never made was due nothing.
DueInv ==
    /\ loop = "off" => Handled = 0
    /\ command = "events" => \A s \in subscribers : Len(got[s].due) = Handled
    /\ \A s \in Subscriber : channel[s].state = "none" => got[s].due = <<>>

\* The events received, and then the events in the channel, are those at
\* increasing positions of the events that were due.
Reaches(received, queue, due, pos) ==
    LET n == Len(received)
    IN  /\ pos \in [1..(n + Len(queue)) -> 1..Len(due)]
        /\ \A i, j \in 1..(n + Len(queue)) : i < j => pos[i] < pos[j]
        /\ \A i \in 1..n : received[i] = due[pos[i]]
        /\ \A i \in 1..Len(queue) : queue[i] = due[pos[n + i]]

\* What was due and did not reach a subscriber was counted as lost.
Exact(received, queue, due, lost) ==
    /\ Len(received) + Len(queue) + lost = Len(due)
    /\ \E pos \in [1..(Len(received) + Len(queue)) -> 1..Len(due)] :
          Reaches(received, queue, due, pos)

ReachInv ==
    \A s \in Subscriber :
        Exact(got[s].received, channel[s].queue, got[s].due, got[s].lost)

Losses(g) == UNION {{s} \X (1..g[s].lost) : s \in Subscriber}

LossInv ==
    /\ IsFiniteSet(Losses(got))
    /\ observer.dropped = Cardinality(Losses(got))

HubInv == HubType /\ DueInv /\ ReachInv /\ LossInv

\* One event more is due and fits into the channel.
LEMMA ExactWithRoom ==
    \A received, queue, due \in Seq(Event), e \in Event, lost \in Nat :
        Exact(received, queue, due, lost) =>
            Exact(received, Append(queue, e), Append(due, e), lost)
<1> SUFFICES ASSUME NEW received \in Seq(Event), NEW queue \in Seq(Event),
                    NEW due \in Seq(Event), NEW e \in Event, NEW lost \in Nat,
                    Exact(received, queue, due, lost)
             PROVE  Exact(received, Append(queue, e), Append(due, e), lost)
    OBVIOUS
<1> DEFINE n == Len(received)
           q == Len(queue)
           d == Len(due)
           queue2 == Append(queue, e)
           due2 == Append(due, e)
<1>1. n \in Nat /\ q \in Nat /\ d \in Nat
    BY LenProperties
<1>2. Len(queue2) = q + 1 /\ (\A i \in 1..q : queue2[i] = queue[i]) /\ queue2[q + 1] = e
    BY AppendProperties
<1>3. Len(due2) = d + 1 /\ (\A i \in 1..d : due2[i] = due[i]) /\ due2[d + 1] = e
    BY AppendProperties
<1>4. PICK pos \in [1..(n + q) -> 1..d] : Reaches(received, queue, due, pos)
    BY DEF Exact
<1>5. /\ \A i, j \in 1..(n + q) : i < j => pos[i] < pos[j]
      /\ \A i \in 1..n : received[i] = due[pos[i]]
      /\ \A i \in 1..q : queue[i] = due[pos[n + i]]
    BY <1>4 DEF Reaches
<1>6. n + q + lost = d
    BY DEF Exact
<1> DEFINE pos2 == [i \in 1..(n + (q + 1)) |-> IF i <= n + q THEN pos[i] ELSE d + 1]
<1> HIDE DEF n, q, d, queue2, due2
<1>7. /\ pos2 \in [1..(n + (q + 1)) -> 1..(d + 1)]
      /\ \A i \in 1..(n + q) : pos2[i] = pos[i] /\ pos[i] \in 1..d
      /\ pos2[n + (q + 1)] = d + 1
      /\ \A i \in 1..(n + (q + 1)) : i \in 1..(n + q) \/ i = n + (q + 1)
    BY <1>1, <1>4
<1> HIDE DEF pos2
<1>8. \A i, j \in 1..(n + (q + 1)) : i < j => pos2[i] < pos2[j]
    <2>1. TAKE i, j \in 1..(n + (q + 1))
    <2>2. HAVE i < j
    <2>3. i \in 1..(n + q)
        BY <1>1, <2>2
    <2>4. CASE j \in 1..(n + q)
        BY <1>5, <1>7, <2>2, <2>3, <2>4
    <2>5. CASE j = n + (q + 1)
        BY <1>1, <1>7, <2>3, <2>5
    <2>6. QED
        BY <1>7, <2>4, <2>5
<1>9. \A i \in 1..n : received[i] = due2[pos2[i]]
    <2>1. \A i \in 1..n : i \in 1..(n + q)
        BY <1>1
    <2>2. QED
        BY <1>3, <1>5, <1>7, <2>1
<1>10. \A i \in 1..(q + 1) : queue2[i] = due2[pos2[n + i]]
    <2>1. TAKE i \in 1..(q + 1)
    <2>2. CASE i \in 1..q
        <3>1. n + i \in 1..(n + q)
            BY <1>1, <2>2
        <3>2. QED
            BY <1>2, <1>3, <1>5, <1>7, <2>2, <3>1
    <2>3. CASE i = q + 1
        BY <1>2, <1>3, <1>7, <2>3
    <2>4. QED
        BY <1>1, <2>2, <2>3
<1>11. Reaches(received, queue2, due2, pos2)
    BY <1>2, <1>3, <1>7, <1>8, <1>9, <1>10 DEF Reaches, n
<1>12. n + (q + 1) + lost = d + 1
    BY <1>1, <1>6
<1>13. Exact(received, queue2, due2, lost)
    BY <1>2, <1>3, <1>7, <1>11, <1>12 DEF Exact, n
<1>14. QED
    BY <1>13 DEF queue2, due2

\* One event more is due and does not fit.
LEMMA ExactWithoutRoom ==
    \A received, queue, due \in Seq(Event), e \in Event, lost \in Nat :
        Exact(received, queue, due, lost) =>
            Exact(received, queue, Append(due, e), lost + 1)
<1> SUFFICES ASSUME NEW received \in Seq(Event), NEW queue \in Seq(Event),
                    NEW due \in Seq(Event), NEW e \in Event, NEW lost \in Nat,
                    Exact(received, queue, due, lost)
             PROVE  Exact(received, queue, Append(due, e), lost + 1)
    OBVIOUS
<1> DEFINE n == Len(received)
           q == Len(queue)
           d == Len(due)
           due2 == Append(due, e)
<1>1. n \in Nat /\ q \in Nat /\ d \in Nat
    BY LenProperties
<1>2. Len(due2) = d + 1 /\ (\A i \in 1..d : due2[i] = due[i])
    BY AppendProperties
<1>3. PICK pos \in [1..(n + q) -> 1..d] : Reaches(received, queue, due, pos)
    BY DEF Exact
<1>4. /\ \A i, j \in 1..(n + q) : i < j => pos[i] < pos[j]
      /\ \A i \in 1..n : received[i] = due[pos[i]]
      /\ \A i \in 1..q : queue[i] = due[pos[n + i]]
    BY <1>3 DEF Reaches
<1>5. n + q + lost = d
    BY DEF Exact
<1> HIDE DEF n, q, d, due2
<1>6. pos \in [1..(n + q) -> 1..(d + 1)] /\ \A i \in 1..(n + q) : pos[i] \in 1..d
    BY <1>1, <1>3
<1>7. /\ \A i \in 1..n : received[i] = due2[pos[i]]
      /\ \A i \in 1..q : queue[i] = due2[pos[n + i]]
    <2>1. \A i \in 1..n : i \in 1..(n + q)
        BY <1>1
    <2>2. \A i \in 1..q : n + i \in 1..(n + q)
        BY <1>1
    <2>3. QED
        BY <1>2, <1>4, <1>6, <2>1, <2>2
<1>8. Reaches(received, queue, due2, pos)
    BY <1>2, <1>4, <1>6, <1>7 DEF Reaches, n, q
<1>9. n + q + (lost + 1) = d + 1
    BY <1>1, <1>5
<1>10. Exact(received, queue, due2, lost + 1)
    BY <1>2, <1>6, <1>8, <1>9 DEF Exact, n, q
<1>11. QED
    BY <1>10 DEF due2

\* The first event of the channel is received.
LEMMA ExactReceived ==
    \A received, queue, due \in Seq(Event), lost \in Nat :
        queue # <<>> /\ Exact(received, queue, due, lost) =>
            Exact(Append(received, Head(queue)), Tail(queue), due, lost)
<1> SUFFICES ASSUME NEW received \in Seq(Event), NEW queue \in Seq(Event),
                    NEW due \in Seq(Event), NEW lost \in Nat, queue # <<>>,
                    Exact(received, queue, due, lost)
             PROVE  Exact(Append(received, Head(queue)), Tail(queue), due, lost)
    OBVIOUS
<1> DEFINE n == Len(received)
           q == Len(queue)
           e == Head(queue)
           received2 == Append(received, e)
           queue2 == Tail(queue)
<1>1. n \in Nat /\ q \in Nat /\ Len(due) \in Nat
    BY LenProperties
<1>2. e \in Event /\ Len(queue2) = q - 1 /\ \A i \in 1..Len(queue2) : queue2[i] = queue[i + 1]
    BY HeadTailProperties
<1>3. e = queue[1] /\ q \in Nat \ {0}
    BY EmptySeq
<1>4. Len(received2) = n + 1 /\ (\A i \in 1..n : received2[i] = received[i])
      /\ received2[n + 1] = e
    BY <1>2, AppendProperties
<1>5. PICK pos \in [1..(n + q) -> 1..Len(due)] : Reaches(received, queue, due, pos)
    BY DEF Exact
<1>6. /\ \A i, j \in 1..(n + q) : i < j => pos[i] < pos[j]
      /\ \A i \in 1..n : received[i] = due[pos[i]]
      /\ \A i \in 1..q : queue[i] = due[pos[n + i]]
      /\ n + q + lost = Len(due)
    BY <1>5 DEF Reaches, Exact
<1> HIDE DEF n, q, e, received2, queue2
<1>7. Len(received2) + Len(queue2) = n + q
    BY <1>1, <1>2, <1>4
<1>8. \A i \in 1..(n + 1) : received2[i] = due[pos[i]]
    <2>1. \A i \in 1..(n + 1) : i \in 1..n \/ i = n + 1
        BY <1>1
    <2>2. received2[n + 1] = due[pos[n + 1]]
        BY <1>3, <1>4, <1>6
    <2>3. QED
        BY <1>4, <1>6, <2>1, <2>2
<1>9. \A i \in 1..Len(queue2) : queue2[i] = due[pos[n + 1 + i]]
    <2>1. TAKE i \in 1..Len(queue2)
    <2>2. i + 1 \in 1..q /\ n + (i + 1) = n + 1 + i
        BY <1>1, <1>2, <1>3
    <2>3. queue[i + 1] = due[pos[n + (i + 1)]]
        BY <1>6, <2>2
    <2>4. QED
        BY <1>2, <2>2, <2>3
<1>10. Reaches(received2, queue2, due, pos)
    BY <1>4, <1>5, <1>6, <1>7, <1>8, <1>9 DEF Reaches
<1>11. Exact(received2, queue2, due, lost)
    BY <1>5, <1>6, <1>7, <1>10 DEF Exact
<1>12. QED
    BY <1>11 DEF received2, queue2, e

-----------------------------------------------------------------------------
\* The first elements of a list are a list that is not too long.
LEMMA CappedFits ==
    \A s \in Seq(Event), n \in Nat : Capped(s, n) \in Seq(Event) /\ Len(Capped(s, n)) <= n
<1> SUFFICES ASSUME NEW s \in Seq(Event), NEW n \in Nat
             PROVE  Capped(s, n) \in Seq(Event) /\ Len(Capped(s, n)) <= n
    OBVIOUS
<1> DEFINE m == IF Len(s) > n THEN n ELSE Len(s)
<1>1. Len(s) \in Nat /\ m \in Nat /\ m <= n /\ m <= Len(s)
    BY LenProperties
<1> HIDE DEF m
<1>2. \A i \in 1..m : s[i] \in Event
    <2>1. \A i \in 1..m : i \in 1..Len(s)
        BY <1>1
    <2>2. QED
        BY <2>1, ElementOfSeq
<1>3. /\ SubSeq(s, 1, m) \in Seq(Event)
      /\ Len(SubSeq(s, 1, m)) = IF 1 <= m THEN m - 1 + 1 ELSE 0
    BY <1>1, <1>2, SubSeqProperties
<1>4. QED
    BY <1>1, <1>3 DEF Capped, m

\* A list with an event in front is a list.
LEMMA InFront ==
    \A s \in Seq(Event), e \in Event : <<e>> \o s \in Seq(Event)
<1> SUFFICES ASSUME NEW s \in Seq(Event), NEW e \in Event
             PROVE  <<e>> \o s \in Seq(Event)
    OBVIOUS
<1> DEFINE f == <<e>>
<1>1. f \in Seq(Event)
    OBVIOUS
<1> HIDE DEF f
<1>2. f \o s \in Seq(Event)
    BY <1>1, ConcatProperties
<1>3. QED
    BY <1>2 DEF f

\* The losses of subscribers who each lose one more event.
LEMMA LossesGrow ==
    ASSUME NEW g \in [Subscriber -> Got], NEW h \in [Subscriber -> Got],
           NEW D \in SUBSET Subscriber,
           \A s \in Subscriber : h[s].lost = g[s].lost + (IF s \in D THEN 1 ELSE 0),
           IsFiniteSet(Losses(g))
    PROVE  /\ IsFiniteSet(Losses(h))
           /\ Cardinality(D) \in Nat
           /\ Cardinality(Losses(h)) = Cardinality(Losses(g)) + Cardinality(D)
<1> DEFINE U == Losses(g)
           F == [s \in D |-> <<s, g[s].lost + 1>>]
           V == {<<s, g[s].lost + 1>> : s \in D}
<1>1. \A s \in Subscriber : g[s].lost \in Nat
    BY DEF Got
<1>2. IsFiniteSet(D)
    BY SubscriberAssumption, FS_Subset
<1>3. F \in Bijection(D, V)
    <2>1. F \in [D -> V] /\ \A v \in V : \E s \in D : F[s] = v
        OBVIOUS
    <2>2. \A s, t \in D : F[s] = F[t] => s = t
        OBVIOUS
    <2>3. QED
        BY <2>1, <2>2 DEF Bijection, Injection, Surjection, IsInjective
<1>4. IsFiniteSet(V) /\ Cardinality(V) = Cardinality(D)
    BY <1>2, <1>3, FS_Bijection DEF ExistsBijection
<1>5. U = {x \in Subscriber \X Nat : x[2] >= 1 /\ x[2] <= g[x[1]].lost}
    BY <1>1 DEF Losses
<1>6. Losses(h) = {x \in Subscriber \X Nat : x[2] >= 1 /\ x[2] <= h[x[1]].lost}
    <2>1. \A s \in Subscriber : h[s].lost \in Nat
        BY DEF Got
    <2>2. QED
        BY <2>1 DEF Losses
<1> HIDE DEF U
<1>7. Losses(h) = U \cup V
    <2>1. V = {x \in Subscriber \X Nat : x[1] \in D /\ x[2] = g[x[1]].lost + 1}
        BY <1>1
    <2> HIDE DEF V
    <2>2. ASSUME NEW x \in Subscriber \X Nat
          PROVE  x \in Losses(h) <=> x \in U \/ x \in V
        <3> DEFINE a == g[x[1]].lost
                   b == h[x[1]].lost
                   c == x[2]
        <3>1. x[1] \in Subscriber /\ c \in Nat
            OBVIOUS
        <3>2. a \in Nat /\ b = a + (IF x[1] \in D THEN 1 ELSE 0)
            BY <1>1, <3>1
        <3>3. /\ x \in Losses(h) <=> c >= 1 /\ c <= b
              /\ x \in U <=> c >= 1 /\ c <= a
              /\ x \in V <=> x[1] \in D /\ c = a + 1
            BY <1>5, <1>6, <2>1
        <3> HIDE DEF a, b, c
        <3>4. QED
            BY <3>1, <3>2, <3>3
    <2>3. QED
        BY <1>5, <1>6, <2>1, <2>2
<1>8. U \cap V = {}
    BY <1>1, <1>5
<1> HIDE DEF V
<1>9. /\ IsFiniteSet(U \cup V)
      /\ Cardinality(U \cup V) = Cardinality(U) + Cardinality(V) - Cardinality(U \cap V)
    BY <1>4, FS_Union DEF U
<1>10. Cardinality(U \cap V) = 0 /\ Cardinality(U) \in Nat /\ Cardinality(V) \in Nat
    BY <1>4, <1>8, FS_EmptySet, FS_CardinalityType DEF U
<1>11. QED
    BY <1>4, <1>7, <1>9, <1>10 DEF U

\* The counters after an event.
LEMMA ObserverCounts ==
    ASSUME observer \in Observer, NEW e \in Event, Drops \in Nat, observer' = Counts(e)
    PROVE  /\ observer' \in Observer
           /\ Handled' = Handled + 1
           /\ observer'.dropped = observer.dropped + Drops
<1> DEFINE a == IF e.type = "ESTABLISHED" THEN 1 ELSE 0
           b == IF e.type = "CLOSED" THEN 1 ELSE 0
           c == IF e.type = "RETRANSMIT" THEN 1 ELSE 0
<1>1. a \in Nat /\ b \in Nat /\ c \in Nat /\ a + b + c = 1
    BY DEF Event
<1>2. /\ observer'.established = observer.established + a
      /\ observer'.closed = observer.closed + b
      /\ observer'.retransmit = observer.retransmit + c
      /\ observer'.dropped = observer.dropped + Drops
    BY DEF Counts
<1>3. /\ observer.established \in Nat /\ observer.closed \in Nat
      /\ observer.retransmit \in Nat /\ observer.dropped \in Nat
    BY DEF Observer
<1> HIDE DEF a, b, c
<1>4. observer' \in Observer
    BY <1>1, <1>2, <1>3 DEF Observer, Counts
<1>5. QED
    BY <1>1, <1>2, <1>3, <1>4 DEF Handled

\* handleEvent: each subscriber gets the event or loses it.
LEMMA HandleKeepsHub ==
    ASSUME HubInv, MapInv, EventLoop
    PROVE  HubInv'
<1> DEFINE e == Head(ring)
           D == {s \in subscribers : ~ HasRoom(s)}
           d == Cardinality(D)
<1>1. e \in Event
    <2>1. ring \in Seq(Event) /\ ring # <<>>
        BY DEF EventLoop, MapInv, MapType
    <2>2. QED
        BY <2>1, HeadTailProperties
<1>2. /\ loop = "running" /\ UNCHANGED <<command, loop, subscribers>>
      /\ observer' = Counts(e)
      /\ recentEvent' = Record(e)
      /\ recentDone' = IF e.type = "CLOSED" THEN Capped(<<e>> \o recentDone, DoneCap)
                                            ELSE recentDone
      /\ channel' = [s \in Subscriber |->
                       IF s \in subscribers /\ HasRoom(s)
                       THEN [channel[s] EXCEPT !.queue = Append(@, e)] ELSE channel[s]]
      /\ got' = [s \in Subscriber |->
                   IF s \notin subscribers THEN got[s]
                   ELSE [got[s] EXCEPT !.due = Append(@, e),
                                       !.lost = @ + (IF HasRoom(s) THEN 0 ELSE 1)]]
    BY DEF EventLoop, Handle
<1> HIDE DEF e
<1>3. HubType
    BY DEF HubInv
<1>4. \A s \in Subscriber :
         /\ channel[s] \in Channel /\ got[s] \in Got
         /\ channel[s].queue \in Seq(Event) /\ got[s].due \in Seq(Event)
         /\ got[s].received \in Seq(Event) /\ got[s].lost \in Nat
         /\ channel[s].size \in Nat /\ channel[s].state \in {"none", "open", "closed"}
    BY <1>3 DEF HubType, Channel, Got
<1>5. \A s \in subscribers : s \in Subscriber
    BY <1>3 DEF HubType
<1>6. ASSUME NEW s \in Subscriber
      PROVE  /\ channel'[s] \in Channel
             /\ channel'[s].state = channel[s].state /\ channel'[s].size = channel[s].size
             /\ channel'[s].queue = IF s \in subscribers /\ HasRoom(s)
                                    THEN Append(channel[s].queue, e) ELSE channel[s].queue
    <2> DEFINE q == channel[s].queue
               q2 == Append(q, e)
    <2>1. q2 \in Seq(Event)
        BY <1>1, <1>4, AppendProperties
    <2>2. channel'[s] = IF s \in subscribers /\ HasRoom(s)
                        THEN [channel[s] EXCEPT !.queue = q2] ELSE channel[s]
        BY <1>2
    <2> HIDE DEF q2
    <2>3. [channel[s] EXCEPT !.queue = q2] \in Channel
          /\ [channel[s] EXCEPT !.queue = q2].queue = q2
          /\ [channel[s] EXCEPT !.queue = q2].state = channel[s].state
          /\ [channel[s] EXCEPT !.queue = q2].size = channel[s].size
        BY <1>4, <2>1 DEF Channel
    <2>4. QED
        BY <1>4, <2>2, <2>3 DEF q2
<1>7. ASSUME NEW s \in Subscriber
      PROVE  /\ got'[s] \in Got
             /\ got'[s].received = got[s].received
             /\ got'[s].due = IF s \in subscribers THEN Append(got[s].due, e) ELSE got[s].due
             /\ got'[s].lost = got[s].lost + (IF s \in D THEN 1 ELSE 0)
    <2> DEFINE u == Append(got[s].due, e)
               n == got[s].lost + (IF HasRoom(s) THEN 0 ELSE 1)
               g == [got[s] EXCEPT !.due = u, !.lost = n]
    <2>1. u \in Seq(Event) /\ n \in Nat
        BY <1>1, <1>4, AppendProperties
    <2>2. got'[s] = IF s \notin subscribers THEN got[s] ELSE g
        BY <1>2
    <2> HIDE DEF u, n
    <2>3. g \in Got /\ g.received = got[s].received /\ g.due = u /\ g.lost = n
        BY <1>4, <2>1 DEF Got
    <2> HIDE DEF g
    <2>4. s \in subscribers => n = got[s].lost + (IF s \in D THEN 1 ELSE 0)
        BY DEF n
    <2>5. s \notin subscribers => got[s].lost = got[s].lost + (IF s \in D THEN 1 ELSE 0)
        BY <1>4
    <2>6. QED
        BY <1>4, <2>2, <2>3, <2>4, <2>5 DEF u
<1>8. /\ channel' \in [Subscriber -> Channel] /\ got' \in [Subscriber -> Got]
    BY <1>2, <1>6, <1>7
<1>9. /\ IsFiniteSet(Losses(got')) /\ d \in Nat
      /\ Cardinality(Losses(got')) = Cardinality(Losses(got)) + d
    <2>1. D \in SUBSET Subscriber
        BY <1>5
    <2>2. got \in [Subscriber -> Got] /\ IsFiniteSet(Losses(got))
        BY DEF HubInv, HubType, LossInv
    <2> HIDE DEF D
    <2>3. \A s \in Subscriber : got'[s].lost = got[s].lost + (IF s \in D THEN 1 ELSE 0)
        BY <1>7
    <2>4. QED
        BY ZenonT(60), <1>8, <2>1, <2>2, <2>3, LossesGrow
<1>10. /\ observer' \in Observer /\ Handled' = Handled + 1
       /\ observer'.dropped = observer.dropped + d
    <2>1. d = Drops
        BY DEF Drops
    <2> HIDE DEF d
    <2>2. QED
        BY <1>1, <1>2, <1>3, <1>9, <2>1, ObserverCounts DEF HubType
<1> HIDE DEF d
<1>11. HubType'
    <2>1. /\ recentEvent' \in Seq(Event) /\ Len(recentEvent') <= EventCap
          /\ recentDone' \in Seq(Event) /\ Len(recentDone') <= DoneCap
        <3>1. recentEvent \in Seq(Event) /\ recentDone \in Seq(Event)
              /\ Len(recentDone) <= DoneCap
            BY <1>3 DEF HubType
        <3>2. <<e>> \o recentEvent \in Seq(Event) /\ <<e>> \o recentDone \in Seq(Event)
            BY <1>1, <3>1, InFront
        <3>3. /\ Record(e) \in Seq(Event) /\ Len(Record(e)) <= EventCap
            BY <3>2, CappedFits, Bounds DEF Record
        <3>4. /\ Capped(<<e>> \o recentDone, DoneCap) \in Seq(Event)
              /\ Len(Capped(<<e>> \o recentDone, DoneCap)) <= DoneCap
            BY <3>2, CappedFits, Bounds
        <3>5. QED
            BY <1>2, <3>1, <3>3, <3>4
    <2>2. subscribers' = {s \in Subscriber : channel'[s].state = "open"}
        BY <1>2, <1>3, <1>6 DEF HubType
    <2>3. \A s \in Subscriber : Len(channel'[s].queue) <= channel'[s].size
        <3>1. TAKE s \in Subscriber
        <3>2. CASE s \in subscribers /\ HasRoom(s)
            <4>1. Len(Append(channel[s].queue, e)) = Len(channel[s].queue) + 1
                BY <1>1, <1>4, AppendProperties
            <4>2. Len(channel[s].queue) \in Nat
                BY <1>4, LenProperties
            <4>3. /\ Len(channel[s].queue) < channel[s].size /\ channel[s].size \in Nat
                  /\ channel'[s].queue = Append(channel[s].queue, e)
                  /\ channel'[s].size = channel[s].size
                BY <1>4, <1>6, <3>2 DEF HasRoom
            <4>4. QED
                BY <4>1, <4>2, <4>3
        <3>3. CASE ~ (s \in subscribers /\ HasRoom(s))
            BY <1>3, <1>6, <3>3 DEF HubType
        <3>4. QED
            BY <3>2, <3>3
    <2>4. QED
        BY <1>2, <1>3, <1>8, <1>10, <2>1, <2>2, <2>3 DEF HubType
<1>12. DueInv'
    <2>1. command' = "events" => \A s \in subscribers' : Len(got'[s].due) = Handled'
        <3>1. SUFFICES ASSUME command' = "events", NEW s \in subscribers'
                       PROVE  Len(got'[s].due) = Handled'
            OBVIOUS
        <3>2. s \in subscribers /\ s \in Subscriber /\ Len(got[s].due) = Handled
            BY <1>2, <1>5, <3>1 DEF HubInv, DueInv
        <3>3. Len(Append(got[s].due, e)) = Len(got[s].due) + 1
            BY <1>1, <1>4, <3>2, AppendProperties
        <3>4. QED
            BY <1>7, <1>10, <3>2, <3>3
    <2>2. \A s \in Subscriber : channel'[s].state = "none" => got'[s].due = <<>>
        <3>1. \A s \in Subscriber : channel[s].state = "none" =>
                s \notin subscribers /\ got[s].due = <<>>
            BY <1>3 DEF HubInv, DueInv, HubType
        <3>2. QED
            BY <1>6, <1>7, <3>1
    <2>3. loop' # "off"
        BY <1>2
    <2>4. QED
        BY <2>1, <2>2, <2>3 DEF DueInv, Handled
<1>13. ReachInv'
    <2>1. ASSUME NEW s \in Subscriber
          PROVE  Exact(got'[s].received, channel'[s].queue, got'[s].due, got'[s].lost)
        <3> DEFINE r == got[s].received
                   q == channel[s].queue
                   u == got[s].due
                   n == got[s].lost
        <3>1. Exact(r, q, u, n)
            BY DEF HubInv, ReachInv
        <3>2. r \in Seq(Event) /\ q \in Seq(Event) /\ u \in Seq(Event) /\ n \in Nat
            BY <1>4
        <3>3. CASE s \notin subscribers
            <4>1. got'[s].received = r /\ channel'[s].queue = q /\ got'[s].due = u
                  /\ got'[s].lost = n
                BY <1>6, <1>7, <3>2, <3>3
            <4>2. QED
                BY <3>1, <4>1
        <3>4. CASE s \in subscribers /\ HasRoom(s)
            <4>1. got'[s].received = r /\ channel'[s].queue = Append(q, e)
                  /\ got'[s].due = Append(u, e)
                BY <1>6, <1>7, <3>4
            <4>2. s \notin D /\ got'[s].lost = n + 0
                BY <1>7, <3>4
            <4>3. got'[s].lost = n
                BY <3>2, <4>2
            <4> HIDE DEF r, q, u, n
            <4>4. Exact(r, Append(q, e), Append(u, e), n)
                BY <1>1, <3>1, <3>2, ExactWithRoom
            <4>5. QED
                BY <4>1, <4>3, <4>4
        <3>5. CASE s \in subscribers /\ ~ HasRoom(s)
            <4>1. got'[s].received = r /\ channel'[s].queue = q
                  /\ got'[s].due = Append(u, e) /\ got'[s].lost = n + 1
                BY <1>6, <1>7, <3>2, <3>5
            <4> HIDE DEF r, q, u, n
            <4>2. Exact(r, q, Append(u, e), n + 1)
                BY <1>1, <3>1, <3>2, ExactWithoutRoom
            <4>3. QED
                BY <4>1, <4>2
        <3>6. QED
            BY <3>3, <3>4, <3>5
    <2>2. QED
        BY <2>1 DEF ReachInv
<1>14. LossInv'
    BY <1>9, <1>10 DEF HubInv, LossInv
<1>15. QED
    BY <1>11, <1>12, <1>13, <1>14 DEF HubInv

\* Nothing was due.
LEMMA ExactAtFirst ==
    ASSUME NEW received, NEW due, Len(received) = 0, Len(due) = 0
    PROVE  Exact(received, <<>>, due, 0)
<1>1. Len(<<>>) = 0
    BY EmptySeq
<1> DEFINE pos == [i \in 1..0 |-> i]
<1>2. pos \in [1..0 -> 1..0] /\ 0 + 0 = 0 /\ 1..0 = {}
    OBVIOUS
<1> HIDE DEF pos
<1>3. Reaches(received, <<>>, due, pos)
    BY <1>1, <1>2 DEF Reaches
<1>4. QED
    BY <1>1, <1>2, <1>3 DEF Exact

\* A new subscriber.
LEMMA SubscribeKeepsHub ==
    ASSUME HubInv, NEW s \in Subscriber, NEW size \in Buffers, Subscribe(s, size)
    PROVE  HubInv'
<1> DEFINE n == IF size <= 0 THEN 1 ELSE size
           c == [state |-> "open", size |-> n, queue |-> <<>>]
<1>1. /\ command = "events" /\ loop = "off" /\ channel[s].state = "none"
      /\ channel' = [channel EXCEPT ![s] = c]
      /\ subscribers' = subscribers \union {s}
      /\ UNCHANGED <<command, loop, observer, recentEvent, recentDone, got>>
    BY DEF Subscribe
<1>2. /\ c \in Channel /\ c.state = "open" /\ c.queue = <<>> /\ Len(c.queue) <= c.size
    <2>1. n \in Nat
        BY BufferAssumption
    <2>2. <<>> \in Seq(Event) /\ Len(<<>>) = 0
        BY EmptySeq
    <2> HIDE DEF n
    <2>3. QED
        BY <2>1, <2>2 DEF Channel
<1> HIDE DEF c
<1>3. HubType
    BY DEF HubInv
<1>4. /\ channel' \in [Subscriber -> Channel] /\ channel'[s] = c
      /\ \A t \in Subscriber \ {s} : channel'[t] = channel[t]
    BY <1>1, <1>2, <1>3 DEF HubType
<1>5. HubType'
    BY <1>1, <1>2, <1>3, <1>4 DEF HubType
<1>6. got[s].due = <<>> /\ Handled = 0
    BY <1>1 DEF HubInv, DueInv
<1>7. DueInv'
    <2>1. Len(got[s].due) = Handled
        BY <1>6
    <2>2. QED
        BY <1>1, <1>2, <1>4, <2>1 DEF HubInv, DueInv, Handled
<1>8. ReachInv'
    <2> DEFINE r == got[s].received
               q == channel[s].queue
               u == got[s].due
               m == got[s].lost
    <2>1. Exact(r, q, u, m)
        BY DEF HubInv, ReachInv
    <2>2. Len(r) \in Nat /\ Len(q) \in Nat /\ m \in Nat /\ Len(u) = 0
        <3>1. r \in Seq(Event) /\ q \in Seq(Event) /\ m \in Nat
            BY <1>3 DEF HubType, Got, Channel
        <3>2. QED
            BY <1>6, <3>1, LenProperties
    <2> HIDE DEF r, q, u, m
    <2>3. Len(r) = 0 /\ m = 0
        <3>1. Len(r) + Len(q) + m = Len(u)
            BY <2>1 DEF Exact
        <3>2. QED
            BY <2>2, <3>1
    <2>4. Exact(r, <<>>, u, m)
        BY <2>2, <2>3, ExactAtFirst
    <2>5. ASSUME NEW t \in Subscriber
          PROVE  Exact(got'[t].received, channel'[t].queue, got'[t].due, got'[t].lost)
        <3>1. CASE t = s
            BY <1>1, <1>2, <1>4, <2>4, <3>1 DEF r, u, m
        <3>2. CASE t # s
            BY <1>1, <1>4, <3>2 DEF HubInv, ReachInv
        <3>3. QED
            BY <3>1, <3>2
    <2>6. QED
        BY <2>5 DEF ReachInv
<1>9. LossInv'
    BY <1>1 DEF HubInv, LossInv, Losses
<1>10. QED
    BY <1>5, <1>7, <1>8, <1>9 DEF HubInv

\* runEvents takes an event out of its channel.
LEMMA ReceiveKeepsHub ==
    ASSUME HubInv, NEW s \in Subscriber, Receive(s)
    PROVE  HubInv'
<1> DEFINE q == channel[s].queue
           r == got[s].received
           r2 == Append(r, Head(q))
           c == [channel[s] EXCEPT !.queue = Tail(q)]
           g == [got[s] EXCEPT !.received = r2]
<1>1. /\ command = "events" /\ q # <<>> /\ command' \in {"events", "leaving"}
      /\ channel' = [channel EXCEPT ![s] = c] /\ got' = [got EXCEPT ![s] = g]
      /\ UNCHANGED <<loop, observer, recentEvent, recentDone, subscribers>>
    BY DEF Receive, collectorVars
<1>2. HubType
    BY DEF HubInv
<1>3. /\ channel[s] \in Channel /\ got[s] \in Got /\ q \in Seq(Event) /\ r \in Seq(Event)
      /\ got[s].due \in Seq(Event) /\ got[s].lost \in Nat /\ channel[s].size \in Nat
    BY <1>2 DEF HubType, Channel, Got
<1>4. Tail(q) \in Seq(Event) /\ Head(q) \in Event /\ Len(Tail(q)) = Len(q) - 1
      /\ Len(q) \in Nat
    BY <1>1, <1>3, HeadTailProperties, LenProperties
<1>5. r2 \in Seq(Event)
    BY <1>3, <1>4, AppendProperties
<1>6. /\ c \in Channel /\ c.state = channel[s].state /\ c.size = channel[s].size
      /\ c.queue = Tail(q)
    <2> DEFINE q2 == Tail(q)
    <2>1. q2 \in Seq(Event)
        BY <1>4
    <2> HIDE DEF q2
    <2>2. [channel[s] EXCEPT !.queue = q2] \in Channel
          /\ [channel[s] EXCEPT !.queue = q2].state = channel[s].state
          /\ [channel[s] EXCEPT !.queue = q2].size = channel[s].size
          /\ [channel[s] EXCEPT !.queue = q2].queue = q2
        BY <1>3, <2>1 DEF Channel
    <2>3. QED
        BY <2>2 DEF q2
<1> HIDE DEF r2
<1>7. g \in Got /\ g.received = r2 /\ g.due = got[s].due /\ g.lost = got[s].lost
    BY <1>3, <1>5 DEF Got
<1> HIDE DEF c, g
<1>8. /\ channel' \in [Subscriber -> Channel] /\ channel'[s] = c
      /\ \A t \in Subscriber \ {s} : channel'[t] = channel[t]
      /\ got' \in [Subscriber -> Got] /\ got'[s] = g
      /\ \A t \in Subscriber \ {s} : got'[t] = got[t]
    BY <1>1, <1>2, <1>6, <1>7 DEF HubType
<1>9. \A t \in Subscriber : /\ channel'[t].state = channel[t].state
                            /\ got'[t].due = got[t].due /\ got'[t].lost = got[t].lost
    BY <1>6, <1>7, <1>8
<1>10. HubType'
    <2>1. Len(c.queue) <= c.size
        <3>1. Len(q) <= channel[s].size
            BY <1>2 DEF HubType
        <3>2. QED
            BY <1>3, <1>4, <1>6, <3>1
    <2>2. \A t \in Subscriber : Len(channel'[t].queue) <= channel'[t].size
        BY <1>2, <1>8, <2>1 DEF HubType
    <2>3. subscribers' = {t \in Subscriber : channel'[t].state = "open"}
        BY <1>1, <1>2, <1>9 DEF HubType
    <2>4. QED
        BY <1>1, <1>2, <1>8, <2>2, <2>3 DEF HubType
<1>11. DueInv'
    <2>1. \A t \in subscribers : t \in Subscriber
        BY <1>2 DEF HubType
    <2>2. QED
        BY <1>1, <1>9, <2>1 DEF HubInv, DueInv, Handled
<1>12. ReachInv'
    <2>1. Exact(r, q, got[s].due, got[s].lost)
        BY DEF HubInv, ReachInv
    <2>2. Exact(r2, Tail(q), got[s].due, got[s].lost)
        BY <1>1, <1>3, <2>1, ExactReceived DEF r2
    <2>3. ASSUME NEW t \in Subscriber
          PROVE  Exact(got'[t].received, channel'[t].queue, got'[t].due, got'[t].lost)
        <3>1. CASE t = s
            BY <1>6, <1>7, <1>8, <2>2, <3>1
        <3>2. CASE t # s
            BY <1>8, <3>2 DEF HubInv, ReachInv
        <3>3. QED
            BY <3>1, <3>2
    <2>4. QED
        BY <2>3 DEF ReachInv
<1>13. LossInv'
    <2>1. Losses(got') = Losses(got)
        BY <1>9 DEF Losses
    <2>2. QED
        BY <1>1, <2>1 DEF HubInv, LossInv
<1>14. QED
    BY <1>10, <1>11, <1>12, <1>13 DEF HubInv

\* A subscriber leaves.
LEMMA CancelKeepsHub ==
    ASSUME HubInv, NEW s \in Subscriber, Cancel(s)
    PROVE  HubInv'
<1> DEFINE c == [channel[s] EXCEPT !.state = "closed"]
<1>1. HubType
    BY DEF HubInv
<1>2. channel[s].state = "open" /\ channel[s] \in Channel
    BY <1>1 DEF Cancel, Closes, HubType
<1>3. /\ command = "leaving" /\ subscribers' = subscribers \ {s}
      /\ channel' = [channel EXCEPT ![s] = c]
      /\ UNCHANGED <<command, loop, observer, recentEvent, recentDone, got>>
    BY <1>2 DEF Cancel
<1>4. /\ c \in Channel /\ c.state = "closed" /\ c.size = channel[s].size
      /\ c.queue = channel[s].queue
    BY <1>2 DEF Channel
<1> HIDE DEF c
<1>5. /\ channel' \in [Subscriber -> Channel] /\ channel'[s] = c
      /\ \A t \in Subscriber \ {s} : channel'[t] = channel[t]
    BY <1>1, <1>3, <1>4 DEF HubType
<1>6. \A t \in Subscriber : /\ channel'[t].queue = channel[t].queue
                            /\ channel'[t].size = channel[t].size
    BY <1>4, <1>5
<1>7. HubType'
    <2>1. subscribers' = {t \in Subscriber : channel'[t].state = "open"}
        BY <1>1, <1>3, <1>4, <1>5 DEF HubType
    <2>2. QED
        BY <1>1, <1>3, <1>5, <1>6, <2>1 DEF HubType
<1>8. DueInv'
    BY <1>3, <1>4, <1>5 DEF HubInv, DueInv, Handled
<1>9. ReachInv'
    BY <1>3, <1>6 DEF HubInv, ReachInv
<1>10. LossInv'
    BY <1>3 DEF HubInv, LossInv, Losses
<1>11. QED
    BY <1>7, <1>8, <1>9, <1>10 DEF HubInv

\* Every step keeps what is known of the events and the subscribers.
LEMMA HubInductive == Spec => []HubInv
<1>1. Init => HubInv
    <2> SUFFICES ASSUME Init PROVE HubInv
        OBVIOUS
    <2>1. <<>> \in Seq(Event) /\ Len(<<>>) = 0
        BY EmptySeq
    <2> DEFINE c == [state |-> "none", size |-> 0, queue |-> <<>>]
               g == [due |-> <<>>, received |-> <<>>, lost |-> 0]
    <2>2. c \in Channel /\ g \in Got
        BY <2>1 DEF Channel, Got
    <2>3. /\ channel \in [Subscriber -> Channel] /\ got \in [Subscriber -> Got]
          /\ \A s \in Subscriber : channel[s] = c /\ got[s] = g
        BY <2>2 DEF Init
    <2>4. observer \in Observer /\ Handled = 0 /\ observer.dropped = 0
        BY DEF Init, Observer, Handled
    <2>5. /\ command \in {"top", "watch", "events", "leaving", "over"} /\ loop = "off"
          /\ recentEvent = <<>> /\ recentDone = <<>> /\ subscribers = {}
        BY DEF Init
    <2>6. HubType
        BY <2>1, <2>3, <2>4, <2>5, Bounds DEF HubType
    <2>7. DueInv
        BY <2>3, <2>4, <2>5 DEF DueInv
    <2>8. ReachInv
        <3>1. Exact(<<>>, <<>>, <<>>, 0)
            BY <2>1, ExactAtFirst
        <3>2. QED
            BY <2>3, <3>1 DEF ReachInv
    <2>9. LossInv
        <3>1. Losses(got) = {}
            BY <2>3 DEF Losses
        <3>2. QED
            BY <2>4, <3>1, FS_EmptySet DEF LossInv
    <2>10. QED
        BY <2>6, <2>7, <2>8, <2>9 DEF HubInv
<1>2. ASSUME HubInv, command' \in {"top", "watch", "events", "leaving", "over"},
             command' = "events" => command = "events",
             loop' \in {"off", "running", "failed", "ended"}, loop' = "off" => loop = "off",
             UNCHANGED <<observer, recentEvent, recentDone, subscribers, channel, got>>
      PROVE  HubInv'
    BY <1>2 DEF HubInv, HubType, DueInv, ReachInv, LossInv, Losses, Handled
<1>3. ASSUME HubInv, MapInv, [Next]_vars
      PROVE  HubInv'
    <2> USE <1>3
    <2>1. HubType
        BY DEF HubInv
    <2>2. CASE EventLoop
        BY <2>2, HandleKeepsHub
    <2>3. CASE \E s \in Subscriber : \/ \E size \in Buffers : Subscribe(s, size)
                                     \/ Receive(s) \/ Cancel(s)
        BY <2>3, SubscribeKeepsHub, ReceiveKeepsHub, CancelKeepsHub
    <2>4. CASE Kernel \/ List \/ SnapshotLocked
        BY <1>2, <2>1, <2>4 DEF Kernel, List, ListBegin, ListNext, ListLookup, ListAborted,
                                SnapshotLocked, HubType, collectorVars
    <2>5. CASE EventLoopFails \/ Start \/ Interrupted \/ CloseRuntime
        BY <1>2, <2>1, <2>5 DEF EventLoopFails, Start, Interrupted, CloseRuntime, HubType,
                                collectorVars
    <2>6. CASE UNCHANGED vars
        BY <1>2, <2>1, <2>6 DEF vars, collectorVars, HubType
    <2>7. QED
        BY <2>2, <2>3, <2>4, <2>5, <2>6 DEF Next
<1>4. QED
    BY <1>1, <1>3, MapInductive, PTL DEF Spec

(* The types, the bounds of the ring buffer, the lists and the channels,   *)
(* and that no channel is closed twice (snapshot.go).                      *)
THEOREM TypeCorrect == Spec => []TypeOK
<1>1. MapInv /\ HubInv => TypeOK
    <2> SUFFICES ASSUME MapInv, HubInv PROVE TypeOK
        OBVIOUS
    <2>1. \A s \in Subscriber : channel[s].state \in {"none", "open", "closed"}
        BY DEF HubInv, HubType, Channel
    <2>2. reading.pc \in {"idle", "next", "lookup", "lock"}
        BY DEF MapInv, MapType
    <2>3. QED
        BY <2>1, <2>2 DEF MapInv, MapType, HubInv, HubType, TypeOK
<1>2. QED
    BY <1>1, MapInductive, HubInductive, PTL

Positions(pos, n) == {pos[i] : i \in 1..n}
UpTo(kept, j) == {m \in kept : m <= j}

\* What reached a subscriber are the events at some of the positions.
Picked(reached, due) ==
    \E kept \in SUBSET DOMAIN due :
        reached = [i \in 1..Cardinality(kept) |->
                      due[CHOOSE j \in kept : Cardinality({m \in kept : m <= j}) = i]]

\* Increasing positions are numbered by how many of them are not greater.
LEMMA CountedPositions ==
    ASSUME NEW n \in Nat, NEW d \in Nat, NEW pos \in [1..n -> 1..d],
           \A i, j \in 1..n : i < j => pos[i] < pos[j]
    PROVE  /\ Cardinality(Positions(pos, n)) = n
           /\ \A i \in 1..n : Cardinality(UpTo(Positions(pos, n), pos[i])) = i
<1> DEFINE kept == {pos[i] : i \in 1..n}
<1>1. \A i \in 1..n : pos[i] \in Nat
    OBVIOUS
<1>2. \A i, j \in 1..n : pos[i] <= pos[j] <=> i <= j
    <2>1. TAKE i, j \in 1..n
    <2>2. i < j => pos[i] < pos[j]
        OBVIOUS
    <2>3. j < i => pos[j] < pos[i]
        OBVIOUS
    <2>4. i < j \/ j < i \/ i = j
        OBVIOUS
    <2>5. QED
        BY <1>1, <2>2, <2>3, <2>4
<1>3. ASSUME NEW i \in 0..n
      PROVE  Cardinality({pos[a] : a \in 1..i}) = i
    <2> DEFINE T == {pos[a] : a \in 1..i}
               f == [a \in 1..i |-> pos[a]]
    <2>1. f \in [1..i -> T] /\ \A t \in T : \E a \in 1..i : f[a] = t
        OBVIOUS
    <2>2. \A a, b \in 1..i : f[a] = f[b] => a = b
        <3>1. TAKE a, b \in 1..i
        <3>2. HAVE f[a] = f[b]
        <3>3. a \in 1..n /\ b \in 1..n
            OBVIOUS
        <3>4. pos[a] = pos[b] /\ pos[a] \in Nat
            BY <1>1, <3>2, <3>3
        <3>5. a <= b /\ b <= a
            BY <1>2, <3>3, <3>4
        <3>6. QED
            BY <3>5
    <2> HIDE DEF f, T
    <2>3. ExistsBijection(1..i, T)
        BY <2>1, <2>2 DEF ExistsBijection, Bijection, Injection, Surjection, IsInjective
    <2>4. Cardinality(T) = i
        BY <2>3, FS_CountingElements
    <2>5. QED
        BY <2>4 DEF T
<1>4. ASSUME NEW i \in 1..n
      PROVE  Cardinality({m \in kept : m <= pos[i]}) = i
    <2>1. {m \in kept : m <= pos[i]} = {pos[a] : a \in 1..i}
        <3>1. \A a \in 1..i : a \in 1..n /\ a <= i
            OBVIOUS
        <3>2. \A a \in 1..n : a <= i => a \in 1..i
            OBVIOUS
        <3>3. QED
            BY <1>2, <3>1, <3>2
    <2>2. i \in 0..n
        OBVIOUS
    <2> HIDE DEF kept
    <2>3. QED
        BY <1>3, <2>1, <2>2
<1>5. Cardinality(kept) = n
    <2>1. n \in 0..n
        OBVIOUS
    <2>2. QED
        BY <1>3, <2>1
<1>6. QED
    BY <1>4, <1>5 DEF Positions, UpTo

\* What Exact says of a subscriber is what DeliveryIsExact says of it.
LEMMA ExactIsDelivery ==
    \A received, queue, due \in Seq(Event), lost \in Nat :
        Exact(received, queue, due, lost) =>
            /\ Picked(received \o queue, due)
            /\ Len(received \o queue) + lost = Len(due)
<1> SUFFICES ASSUME NEW received \in Seq(Event), NEW queue \in Seq(Event),
                    NEW due \in Seq(Event), NEW lost \in Nat,
                    Exact(received, queue, due, lost)
             PROVE  /\ Picked(received \o queue, due)
                    /\ Len(received \o queue) + lost = Len(due)
    OBVIOUS
<1> DEFINE n == Len(received)
           q == Len(queue)
           d == Len(due)
           reached == received \o queue
<1>1. n \in Nat /\ q \in Nat /\ d \in Nat /\ DOMAIN due = 1..d
    BY LenProperties
<1>2. /\ reached \in Seq(Event) /\ Len(reached) = n + q
      /\ \A i \in 1..(n + q) :
            reached[i] = IF i <= n THEN received[i] ELSE queue[i - n]
    BY ConcatProperties
<1>3. PICK pos \in [1..(n + q) -> 1..d] : Reaches(received, queue, due, pos)
    BY DEF Exact
<1>4. /\ \A i, j \in 1..(n + q) : i < j => pos[i] < pos[j]
      /\ \A i \in 1..n : received[i] = due[pos[i]]
      /\ \A i \in 1..q : queue[i] = due[pos[n + i]]
      /\ n + q + lost = d
    BY <1>3 DEF Reaches, Exact
<1>5. reached \in [1..(n + q) -> Event]
    <2> HIDE DEF reached, n, q
    <2>1. QED
        BY <1>2, LenProperties
<1> HIDE DEF n, q, d, reached
<1>6. \A i \in 1..(n + q) : reached[i] = due[pos[i]]
    <2>1. TAKE i \in 1..(n + q)
    <2>2. CASE i <= n
        BY <1>1, <1>2, <1>4, <2>2
    <2>3. CASE ~ (i <= n)
        <3> DEFINE a == i - n
        <3>1. a \in 1..q /\ n + a = i
            BY <1>1, <2>3
        <3>2. reached[i] = queue[a]
            BY <1>2, <2>3
        <3> HIDE DEF a
        <3>3. queue[a] = due[pos[n + a]]
            BY <1>4, <3>1
        <3>4. QED
            BY <3>1, <3>2, <3>3
    <2>4. QED
        BY <2>2, <2>3
<1> DEFINE kept == {pos[i] : i \in 1..(n + q)}
           C(j) == Cardinality({m \in kept : m <= j})
<1>7. /\ Cardinality(kept) = n + q
      /\ \A i \in 1..(n + q) : C(pos[i]) = i
    <2> DEFINE N == n + q
    <2>1. N \in Nat
        BY <1>1
    <2>2. /\ pos \in [1..N -> 1..d]
          /\ \A i, j \in 1..N : i < j => pos[i] < pos[j]
        BY <1>3, <1>4
    <2> HIDE DEF N
    <2>3. /\ Cardinality(Positions(pos, N)) = N
          /\ \A i \in 1..N : Cardinality(UpTo(Positions(pos, N), pos[i])) = i
        BY <1>1, <2>1, <2>2, CountedPositions
    <2>4. QED
        BY <2>3 DEF N, Positions, UpTo
<1>8. \A i \in 1..(n + q) : (CHOOSE j \in kept : C(j) = i) = pos[i]
    <2>1. TAKE i \in 1..(n + q)
    <2>2. pos[i] \in kept /\ C(pos[i]) = i
        BY <1>7
    <2>3. \A j \in kept : C(j) = i => j = pos[i]
        <3>1. TAKE j \in kept
        <3>2. PICK a \in 1..(n + q) : j = pos[a]
            OBVIOUS
        <3>3. C(j) = a
            BY <1>7, <3>2
        <3>4. QED
            BY <3>2, <3>3
    <2> HIDE DEF C, kept
    <2>4. QED
        BY <2>2, <2>3
<1>9. kept \in SUBSET DOMAIN due
    BY <1>1, <1>3
<1>10. reached = [i \in 1..Cardinality(kept) |-> due[CHOOSE j \in kept : C(j) = i]]
    <2> HIDE DEF C, kept
    <2>1. QED
        BY <1>5, <1>6, <1>7, <1>8
<1>11. Len(reached) + lost = Len(due)
    BY <1>1, <1>2, <1>4 DEF d
<1>12. Picked(reached, due)
    BY <1>9, <1>10 DEF Picked
<1>13. QED
    BY <1>11, <1>12 DEF reached

(* A subscriber gets the events handled while it is subscribed, in order,  *)
(* less those that were counted as dropped; the events command misses none *)
(* (snapshot.go, handleEvent and Subscribe; main.go, runEvents).           *)
THEOREM DeliveryCorrect == Spec => []DeliveryIsExact
<1>1. HubInv => DeliveryIsExact
    <2> SUFFICES ASSUME HubInv PROVE DeliveryIsExact
        OBVIOUS
    <2>1. command = "events" => \A s \in subscribers :
             Len(got[s].due) = observer.established + observer.closed + observer.retransmit
        BY DEF HubInv, DueInv, Handled
    <2>2. ASSUME NEW s \in Subscriber
          PROVE  /\ Picked(got[s].received \o channel[s].queue, got[s].due)
                 /\ Len(got[s].received \o channel[s].queue) + got[s].lost = Len(got[s].due)
        <3>1. /\ got[s].received \in Seq(Event) /\ channel[s].queue \in Seq(Event)
              /\ got[s].due \in Seq(Event) /\ got[s].lost \in Nat
            BY DEF HubInv, HubType, Channel, Got
        <3>2. Exact(got[s].received, channel[s].queue, got[s].due, got[s].lost)
            BY DEF HubInv, ReachInv
        <3> DEFINE r == got[s].received
                   q == channel[s].queue
                   u == got[s].due
                   n == got[s].lost
        <3>3. r \in Seq(Event) /\ q \in Seq(Event) /\ u \in Seq(Event) /\ n \in Nat
              /\ Exact(r, q, u, n)
            BY <3>1, <3>2
        <3> HIDE DEF r, q, u, n
        <3>4. Picked(r \o q, u) /\ Len(r \o q) + n = Len(u)
            BY <3>3, ExactIsDelivery
        <3>5. QED
            BY <3>4 DEF r, q, u, n
    <2>3. observer.dropped = Cardinality(UNION {{s} \X (1..got[s].lost) : s \in Subscriber})
        BY DEF HubInv, LossInv, Losses
    <2>4. QED
        BY <2>1, <2>2, <2>3 DEF DeliveryIsExact, Picked
<1>2. QED
    BY <1>1, HubInductive, PTL
=============================================================================
