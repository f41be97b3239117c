-------------------------- MODULE WireProbesProofs --------------------------
(***************************************************************************)
(* Theorems about WireProbes, for every number of threads, calls, nested   *)
(* calls and ring buffer slots, and every capture size and limit.          *)
(***************************************************************************)
EXTENDS WireProbes, SequenceTheorems, TLAPS

-----------------------------------------------------------------------------
(* Stacks and the ring buffer                                              *)

\* A call on top of a stack, and the stack without its top.
LEMMA Push ==
    \A s \in Seq(Call), c \in Call :
        /\ <<c>> \o s \in Seq(Call)
        /\ Len(<<c>> \o s) = Len(s) + 1
        /\ (<<c>> \o s)[1] = c
        /\ \A i \in 1..Len(s) : (<<c>> \o s)[i + 1] = s[i]
<1>1. SUFFICES ASSUME NEW s \in Seq(Call), NEW c \in Call
               PROVE  /\ <<c>> \o s \in Seq(Call)
                      /\ Len(<<c>> \o s) = Len(s) + 1
                      /\ (<<c>> \o s)[1] = c
                      /\ \A i \in 1..Len(s) : (<<c>> \o s)[i + 1] = s[i]
    OBVIOUS
<1> DEFINE one == <<c>>  more == one \o s
<1>2. one \in Seq(Call) /\ Len(one) = 1 /\ one[1] = c
    OBVIOUS
<1>3. Len(s) \in Nat
    BY LenProperties
<1> HIDE DEF one
<1>4. /\ more \in Seq(Call) /\ Len(more) = Len(one) + Len(s)
      /\ \A i \in 1..(Len(one) + Len(s)) :
             more[i] = IF i <= Len(one) THEN one[i] ELSE s[i - Len(one)]
    BY <1>2, ConcatProperties
<1> HIDE DEF more
<1>5. Len(more) = Len(s) + 1
    BY <1>2, <1>3, <1>4
<1>6. more[1] = c
    BY <1>2, <1>3, <1>4
<1>7. \A i \in 1..Len(s) : more[i + 1] = s[i]
    <2>1. TAKE i \in 1..Len(s)
    <2>2. /\ i + 1 \in 1..(Len(one) + Len(s)) /\ ~ (i + 1 <= Len(one))
          /\ (i + 1) - Len(one) = i
        BY <1>2, <1>3
    <2>3. QED
        BY <1>4, <2>2
<1>8. QED
    BY <1>4, <1>5, <1>6, <1>7 DEF more, one

\* What is left of a stack without the call on top of it.
LEMMA Pop ==
    ASSUME NEW s \in Seq(Call), s # <<>>
    PROVE  /\ Head(s) \in Call /\ Head(s) = s[1]
           /\ Tail(s) \in Seq(Call)
           /\ Len(s) \in Nat /\ Len(s) >= 1
           /\ Len(Tail(s)) = Len(s) - 1
           /\ \A i \in 1..(Len(s) - 1) : Tail(s)[i] = s[i + 1]
<1>1. Len(s) \in Nat /\ Len(s) >= 1
    BY LenProperties, EmptySeq
<1>2. /\ Head(s) \in Call /\ Tail(s) \in Seq(Call)
      /\ Len(Tail(s)) = Len(s) - 1
      /\ \A i \in 1..Len(Tail(s)) : Tail(s)[i] = s[i + 1]
    BY HeadTailProperties
<1>3. Head(s) = s[1]
    OBVIOUS
<1>4. QED
    BY <1>1, <1>2, <1>3

-----------------------------------------------------------------------------
(* Types                                                                   *)

\* Calls are numbered by the order in which they were made.
TypeInv ==
    /\ probes \in 0..4
    /\ calls \in 0..MaxCalls
    /\ stack \in [Thread -> Seq(Call)]
    /\ inflight \in [Thread -> Call \union {NoCall}]
    /\ ring \in Seq(Event)
    /\ Len(ring) <= RingCap
    /\ limit \in 1..CaptureMax
    /\ missed \union excused \subseteq 1..calls
    /\ \A t \in Thread :
          /\ inflight[t].id <= calls
          /\ \A i \in 1..Len(stack[t]) : stack[t][i].id <= calls

\* The constants are the numbers the assumptions say.
LEMMA Numbers ==
    /\ MaxCalls \in Nat /\ MaxDepth \in Nat /\ RingCap \in Nat \ {0}
    /\ Block \in Nat \ {0} /\ CaptureMax \in Nat \ {0} /\ CaptureMax % Block = 0
    /\ Results \subseteq Nat /\ CaptureOptions \subseteq 0..CaptureMax
    BY BoundAssumption, CaptureAssumption

\* What a probe finds on a stack and in the map.
LEMMA OnStack ==
    ASSUME TypeInv, NEW t \in Thread
    PROVE  /\ stack[t] \in Seq(Call) /\ Len(stack[t]) \in Nat
           /\ \A i \in 1..Len(stack[t]) :
                 /\ stack[t][i] \in Call
                 /\ stack[t][i].id \in 1..calls
                 /\ stack[t][i].hooked \in BOOLEAN
           /\ inflight[t] \in Call \union {NoCall}
           /\ inflight[t] # NoCall => inflight[t].id \in 1..calls
<1>1. stack[t] \in Seq(Call) /\ inflight[t] \in Call \union {NoCall}
    BY DEF TypeInv
<1>2. \A i \in 1..Len(stack[t]) : stack[t][i] \in Call
    BY <1>1, ElementOfSeq
<1>3. \A c \in Call : c.id \in 1..MaxCalls /\ c.hooked \in BOOLEAN
    BY DEF Call
<1>4. calls \in Nat /\ inflight[t].id <= calls
      /\ \A i \in 1..Len(stack[t]) : stack[t][i].id <= calls
    BY Numbers DEF TypeInv
<1>5. \A i \in 1..Len(stack[t]) :
          stack[t][i].id \in 1..calls /\ stack[t][i].hooked \in BOOLEAN
    BY <1>2, <1>3, <1>4, Numbers
<1>6. inflight[t] # NoCall => inflight[t].id \in 1..calls
    BY <1>1, <1>3, <1>4, Numbers
<1>7. QED
    BY <1>1, <1>2, <1>5, <1>6, LenProperties

\* What the enter probe does to the stack and the map.
EnterEffect(t, dir, call) ==
    /\ call \in Call /\ call.id = calls + 1 /\ call.dir = dir
    /\ call.hooked = Attached(dir, "exit")
    /\ stack' \in [Thread -> Seq(Call)]
    /\ inflight' \in [Thread -> Call \union {NoCall}]
    /\ Len(stack'[t]) = Len(stack[t]) + 1
    /\ stack'[t][1] = call
    /\ \A i \in 1..Len(stack[t]) : stack'[t][i + 1] = stack[t][i]
    /\ inflight'[t] = IF Attached(dir, "enter") THEN call ELSE inflight[t]
    /\ \A u \in Thread \ {t} : stack'[u] = stack[u] /\ inflight'[u] = inflight[u]
    /\ calls' = calls + 1 /\ calls' \in 0..MaxCalls
    /\ excused' = excused \union (IF Attached(dir, "enter") THEN Ids(stack[t]) ELSE {})
                          \union (IF call.hooked THEN {} ELSE {call.id})

\* A step that enters a function has the effect of one new call.
LEMMA Enters ==
    ASSUME TypeInv, NEW t \in Thread, NEW dir \in Direction, Enter(t, dir)
    PROVE  \E call \in Call : EnterEffect(t, dir, call)
<1> DEFINE call == [id |-> calls + 1, dir |-> dir, hooked |-> Attached(dir, "exit")]
           pushed == <<call>> \o stack[t]
<1>1. calls \in Nat /\ calls + 1 \in 1..MaxCalls
    BY Numbers DEF TypeInv, Enter
<1>2. Attached(dir, "exit") \in BOOLEAN
    BY DEF Attached
<1>3. call \in Call
    BY <1>1, <1>2 DEF Call
<1>4. call.id = calls + 1 /\ call.dir = dir /\ call.hooked = Attached(dir, "exit")
    OBVIOUS
<1>5. /\ stack' = [stack EXCEPT ![t] = pushed]
      /\ inflight' = IF Attached(dir, "enter") THEN [inflight EXCEPT ![t] = call]
                                               ELSE inflight
      /\ calls' = calls + 1
      /\ excused' = excused \union (IF Attached(dir, "enter") THEN Ids(stack[t]) ELSE {})
                            \union (IF call.hooked THEN {} ELSE {call.id})
    BY DEF Enter
<1> HIDE DEF call
<1>6. /\ stack \in [Thread -> Seq(Call)]
      /\ inflight \in [Thread -> Call \union {NoCall}]
      /\ stack[t] \in Seq(Call)
    BY DEF TypeInv
<1>7. /\ pushed \in Seq(Call) /\ Len(pushed) = Len(stack[t]) + 1 /\ pushed[1] = call
      /\ \A i \in 1..Len(stack[t]) : pushed[i + 1] = stack[t][i]
    BY <1>3, <1>6, Push
<1> HIDE DEF pushed
<1>8. /\ stack' \in [Thread -> Seq(Call)] /\ stack'[t] = pushed
      /\ \A u \in Thread \ {t} : stack'[u] = stack[u]
    BY <1>5, <1>6, <1>7
<1>9. /\ inflight' \in [Thread -> Call \union {NoCall}]
      /\ inflight'[t] = IF Attached(dir, "enter") THEN call ELSE inflight[t]
      /\ \A u \in Thread \ {t} : inflight'[u] = inflight[u]
    BY <1>3, <1>5, <1>6
<1>10. calls' \in 0..MaxCalls
    BY <1>1, <1>5
<1>11. EnterEffect(t, dir, call)
    BY <1>3, <1>4, <1>5, <1>7, <1>8, <1>9, <1>10 DEF EnterEffect
<1>12. QED
    BY <1>3, <1>11

\* What the return of the innermost call does to them.
ExitEffect(t) ==
    /\ stack[t] # <<>> /\ Head(stack[t]) = stack[t][1]
    /\ Len(stack[t]) \in Nat /\ Len(stack[t]) >= 1
    /\ stack' \in [Thread -> Seq(Call)]
    /\ inflight' \in [Thread -> Call \union {NoCall}]
    /\ Len(stack'[t]) = Len(stack[t]) - 1
    /\ \A i \in 1..(Len(stack[t]) - 1) : stack'[t][i] = stack[t][i + 1]
    /\ inflight'[t] = IF stack[t][1].hooked THEN NoCall ELSE inflight[t]
    /\ \A u \in Thread \ {t} : stack'[u] = stack[u] /\ inflight'[u] = inflight[u]

\* A step that leaves a function has the effect of a return.
LEMMA Exits ==
    ASSUME TypeInv, NEW t \in Thread, NEW total, Exit(t, total)
    PROVE  ExitEffect(t)
<1> DEFINE popped == Tail(stack[t])
<1>1. /\ stack \in [Thread -> Seq(Call)]
      /\ inflight \in [Thread -> Call \union {NoCall}]
      /\ stack[t] \in Seq(Call)
    BY DEF TypeInv
<1>2. /\ stack[t] # <<>> /\ stack' = [stack EXCEPT ![t] = popped]
      /\ inflight' = IF Head(stack[t]).hooked THEN [inflight EXCEPT ![t] = NoCall]
                                              ELSE inflight
    BY DEF Exit
<1>3. /\ Head(stack[t]) = stack[t][1] /\ popped \in Seq(Call)
      /\ Len(stack[t]) \in Nat /\ Len(stack[t]) >= 1
      /\ Len(popped) = Len(stack[t]) - 1
      /\ \A i \in 1..(Len(stack[t]) - 1) : popped[i] = stack[t][i + 1]
    BY <1>1, <1>2, Pop
<1> HIDE DEF popped
<1>4. /\ stack' \in [Thread -> Seq(Call)] /\ stack'[t] = popped
      /\ \A u \in Thread \ {t} : stack'[u] = stack[u]
    BY <1>1, <1>2, <1>3
<1>5. /\ inflight' \in [Thread -> Call \union {NoCall}]
      /\ inflight'[t] = IF stack[t][1].hooked THEN NoCall ELSE inflight[t]
      /\ \A u \in Thread \ {t} : inflight'[u] = inflight[u]
    BY <1>1, <1>2, <1>3
<1>6. QED
    BY <1>2, <1>3, <1>4, <1>5 DEF ExitEffect

-----------------------------------------------------------------------------
(* emit_event and RunEventLoop                                             *)

\* copy_user_data copies each byte that fits, and no other.
LEMMA CopiedIsAll ==
    ASSUME NEW len \in 0..CaptureMax
    PROVE  Copied(len) = 0..(len - 1)
<1> DEFINE q == len \div Block  max == CaptureMax \div Block  r == len % Block
<1>1. /\ len \in Nat /\ q \in Nat /\ max \in Nat /\ r \in 0..(Block - 1)
      /\ len = Block * q + r
    BY Numbers
<1>2. CaptureMax = Block * max
    BY Numbers
<1>3. q <= max
    <2>1. Block * q <= Block * max
        <3>1. Block * q \in Nat
            BY <1>1, Numbers
        <3> HIDE DEF q, max, r
        <3>2. QED
            BY <1>1, <1>2, <3>1
    <2> HIDE DEF q, max, r
    <2>2. QED
        BY <1>1, <2>1, Numbers
<1>4. Least(q, max) * Block = q * Block /\ q * Block = Block * q
      /\ q * Block \in Nat
    <2> HIDE DEF q, max, r
    <2> QED BY <1>1, <1>3, Numbers DEF Least
<1> DEFINE whole == Least(q, max) * Block
<1>5. whole \in Nat /\ len = whole + r
    <2> HIDE DEF q, max, r
    <2> QED BY <1>1, <1>4
<1>6. Copied(len) = (0..(whole - 1)) \union
                    {whole + i : i \in {j \in 0..(Block - 1) : whole + j < len}}
    BY DEF Copied
<1> HIDE DEF whole, r, q, max
<1>7. ASSUME NEW x \in 0..(len - 1), ~ (x < whole)
      PROVE  x \in {whole + i : i \in {j \in 0..(Block - 1) : whole + j < len}}
    <2>1. x - whole \in 0..(Block - 1) /\ whole + (x - whole) = x /\ x < len
        BY <1>1, <1>5, <1>7, Numbers
    <2>2. QED
        BY <2>1
<1>8. 0..(len - 1) \subseteq Copied(len)
    BY <1>1, <1>5, <1>6, <1>7
<1>9. Copied(len) \subseteq 0..(len - 1)
    BY <1>1, <1>5, <1>6, Numbers
<1>10. QED
    BY <1>8, <1>9

\* What an event holds of the buffer of its call.
EventIsPrefix(e) ==
    /\ e.captured = Least(e.total, CaptureMax)
    /\ e.truncated = (e.total > e.captured)
    /\ \A i \in 1..e.captured : e.data[i] = i - 1

\* emit_event.
LEMMA EventFacts ==
    ASSUME TypeInv, NEW t \in Thread, NEW total \in Results,
           stack[t] # <<>>, inflight[t] # NoCall
    PROVE  /\ EventOf(t, total) \in Event
           /\ EventIsPrefix(EventOf(t, total))
           /\ EventOf(t, total).saved = inflight[t]
           /\ EventOf(t, total).of = Head(stack[t]).id
<1> DEFINE len == CopyLen(total)
           data == [i \in 1..CaptureMax |-> IF i - 1 \in Copied(len) THEN i - 1 ELSE Stale]
<1>1. total \in Nat /\ len \in 0..CaptureMax /\ len \in Nat
    BY Numbers DEF CopyLen, Least
<1> HIDE DEF len
<1>2. Copied(len) = 0..(len - 1)
    BY <1>1, CopiedIsAll
<1>3. \A i \in 1..CaptureMax : data[i] = IF i <= len THEN i - 1 ELSE Stale
    BY <1>1, <1>2, Numbers
<1>4. data \in [1..CaptureMax -> Stale..CaptureMax]
    BY <1>1, <1>2, Numbers DEF Stale
<1> HIDE DEF data
<1>5. inflight[t] \in Call /\ stack[t] \in Seq(Call)
    BY OnStack
<1>6. Head(stack[t]).id \in 1..MaxCalls
    BY <1>5, Pop DEF Call
<1>7. (total > len) \in BOOLEAN
    OBVIOUS
<1>8. EventOf(t, total) =
          [saved |-> inflight[t], of |-> Head(stack[t]).id,
           total |-> total, captured |-> len, truncated |-> total > len,
           data |-> data]
    BY DEF EventOf, len, data
<1>9. EventOf(t, total) \in Event
    BY <1>1, <1>4, <1>5, <1>6, <1>7, <1>8 DEF Event
<1>10. EventIsPrefix(EventOf(t, total))
    <2>1. len = Least(total, CaptureMax)
        BY DEF len, CopyLen
    <2>2. \A i \in 1..len : data[i] = i - 1
        <3>1. \A i \in 1..len : i \in 1..CaptureMax /\ i <= len
            BY <1>1, Numbers
        <3>2. QED
            BY <1>3, <3>1
    <2>3. QED
        BY <1>8, <2>1, <2>2 DEF EventIsPrefix
<1>11. QED
    BY <1>8, <1>9, <1>10

\* What a chunk holds of it: the claim of ChunksArePrefixes.
ChunkIsPrefix(c) ==
    LET n == Least(c.total, limit)
    IN  c.data = [i \in 1..n |-> i - 1] /\ (c.truncated <=> n < c.total)

\* RunEventLoop cuts an event to a chunk.
LEMMA ChunkFacts ==
    ASSUME NEW e \in Event, EventIsPrefix(e), limit \in 1..CaptureMax
    PROVE  /\ ChunkIsPrefix(ChunkOf(e))
           /\ ChunkOf(e).saved = e.saved /\ ChunkOf(e).of = e.of
<1> DEFINE captured == Least(e.captured, limit)
           data == SubSeq(e.data, 1, captured)
           cut == e.truncated \/ e.captured > captured
           n == Least(e.total, limit)
<1>1. /\ e.total \in Nat /\ e.captured \in 0..CaptureMax
      /\ e.truncated \in BOOLEAN
      /\ e.data \in [1..CaptureMax -> Stale..CaptureMax]
    BY Numbers DEF Event
<1>2. e.captured = Least(e.total, CaptureMax) /\ e.truncated = (e.total > e.captured)
      /\ \A i \in 1..e.captured : e.data[i] = i - 1
    BY DEF EventIsPrefix
<1>3. captured = n /\ n \in Nat /\ n <= e.captured /\ n <= CaptureMax
    BY <1>1, <1>2, Numbers DEF Least
<1>4. cut <=> n < e.total
    <2>1. e.truncated <=> e.total > e.captured
        BY <1>2
    <2>2. (e.total > e.captured \/ e.captured > captured) <=> n < e.total
        <3> DEFINE a == e.total  k == e.captured
        <3>1. /\ a \in Nat /\ k \in Nat /\ limit \in Nat /\ limit <= CaptureMax
              /\ k = IF a <= CaptureMax THEN a ELSE CaptureMax
            BY <1>1, <1>2, Numbers DEF Least
        <3>2. /\ captured = IF k <= limit THEN k ELSE limit
              /\ n = IF a <= limit THEN a ELSE limit
            BY DEF Least
        <3> HIDE DEF a, k, captured, n
        <3>3. (a > k \/ k > captured) <=> n < a
            BY <3>1, <3>2, Numbers
        <3>4. QED
            BY <3>3 DEF a, k
    <2>3. QED
        BY <2>1, <2>2
<1> HIDE DEF n, captured
<1>5. data = [i \in 1..n |-> i - 1]
    <2>1. \A i \in 1..n : e.data[i] = i - 1
        BY <1>1, <1>2, <1>3
    <2>2. \A i \in 1..captured : e.data[i] \in Int
        BY <1>3, <2>1
    <2>3. 1 \in Int /\ captured \in Int
        BY <1>3
    <2>4. /\ data \in Seq(Int)
          /\ Len(data) = IF 1 <= captured THEN captured - 1 + 1 ELSE 0
          /\ \A i \in 1..(captured - 1 + 1) : data[i] = e.data[1 + i - 1]
        BY <2>2, <2>3, SubSeqProperties
    <2> HIDE DEF data
    <2>5. Len(data) = n /\ data \in [1..Len(data) -> Int]
        BY <1>3, <2>4, LenProperties
    <2>6. \A i \in 1..n : data[i] = i - 1
        BY <1>3, <2>1, <2>4
    <2>7. QED
        BY <2>5, <2>6
<1> HIDE DEF data, cut
<1>6. ChunkOf(e) = [saved |-> e.saved, of |-> e.of, total |-> e.total,
                    truncated |-> cut, data |-> data]
    BY DEF ChunkOf, captured, data, cut
<1>7. QED
    BY <1>4, <1>5, <1>6 DEF ChunkIsPrefix, n

-----------------------------------------------------------------------------
(* The inductive invariants                                                *)

\* While a call whose return is caught is under way, the entry of its thread is
\* gone, or that of a write in the gap, or that of such a call: itself or one
\* inside it.
EntryInv ==
    \A t \in Thread : \A j \in 1..Len(stack[t]) :
        stack[t][j].hooked =>
            /\ probes >= 2
            /\ \/ inflight[t] = NoCall
               \/ InTheGap(inflight[t])
               \/ \E i \in 1..j : stack[t][i] = inflight[t] /\ stack[t][i].hooked

\* A call that still counts on its event has its return caught and its thread's
\* entry, and nothing inside it whose return is caught.
LossInv ==
    /\ missed \subseteq excused
    /\ \A t \in Thread : \A i \in 1..Len(stack[t]) :
          \/ stack[t][i].id \in excused
          \/ stack[t][i].hooked /\ inflight[t].id = stack[t][i].id
    /\ \A t \in Thread : \A i, j \in 1..Len(stack[t]) :
          i < j /\ stack[t][i].hooked => stack[t][j].id \in excused

\* An event, and then its chunk, is about the call that returned.
IsReturn(e) == e.saved.id = e.of \/ InTheGap(e.saved)

EventInv ==
    /\ \A i \in 1..Len(ring) : IsReturn(ring[i]) /\ EventIsPrefix(ring[i])
    /\ chunk # NoChunk => IsReturn(chunk) /\ ChunkIsPrefix(chunk)

ProbesInv == TypeInv /\ EntryInv /\ LossInv /\ EventInv

-----------------------------------------------------------------------------
(* They are kept                                                           *)

\* The identifiers on a stack.
LEMMA IdsOnStack ==
    ASSUME TypeInv, NEW t \in Thread
    PROVE  /\ Ids(stack[t]) = {stack[t][i].id : i \in 1..Len(stack[t])}
           /\ Ids(stack[t]) \subseteq 1..calls
<1>1. stack[t] \in Seq(Call)
    BY OnStack
<1>2. DOMAIN stack[t] = 1..Len(stack[t])
    BY <1>1, LenProperties
<1>3. \A i \in 1..Len(stack[t]) : stack[t][i].id \in 1..calls
    BY OnStack
<1>4. QED
    BY <1>2, <1>3 DEF Ids

\* The exit probe finds an entry, and submits an event if there is room.
Emits(t, total) == stack[t][1].hooked /\ inflight[t] # NoCall /\ total > 0
Room == Len(ring) < RingCap

\* The event an exit submits, if it submits one, fits into the ring buffer.
LEMMA ExitSubmits ==
    ASSUME TypeInv, NEW t \in Thread, NEW total \in Results, Exit(t, total)
    PROVE  /\ IF Emits(t, total) /\ Room
              THEN /\ ring' = Append(ring, EventOf(t, total))
                   /\ EventOf(t, total) \in Event
              ELSE ring' = ring
           /\ ring' \in Seq(Event) /\ Len(ring') <= RingCap
<1>1. Head(stack[t]) = stack[t][1] /\ stack[t] # <<>>
    BY Exits DEF ExitEffect
<1>2. ring' = IF Emits(t, total) /\ Room THEN Append(ring, EventOf(t, total)) ELSE ring
    BY <1>1 DEF Exit, Emits, Room
<1>3. ring \in Seq(Event) /\ Len(ring) <= RingCap /\ Len(ring) \in Nat
    BY LenProperties DEF TypeInv
<1>4. CASE Emits(t, total) /\ Room
    <2> DEFINE event == EventOf(t, total)
    <2>1. event \in Event
        BY <1>1, <1>4, EventFacts DEF Emits
    <2>2. ring' = Append(ring, event)
        BY <1>2, <1>4
    <2> HIDE DEF event
    <2>3. ring' \in Seq(Event) /\ Len(ring') = Len(ring) + 1
        BY <1>3, <2>1, <2>2, AppendProperties
    <2>4. Len(ring') <= RingCap
        BY <1>3, <1>4, <2>3, Numbers DEF Room
    <2>5. QED
        BY <1>4, <2>1, <2>2, <2>3, <2>4 DEF event
<1>5. CASE ~ (Emits(t, total) /\ Room)
    BY <1>2, <1>3, <1>5
<1>6. QED
    BY <1>4, <1>5

\* Every step keeps the types.
LEMMA NextType == TypeInv /\ [Next]_vars => TypeInv'
<1> SUFFICES ASSUME TypeInv, [Next]_vars PROVE TypeInv'
    OBVIOUS
<1>1. CASE AttachNext
    BY <1>1 DEF AttachNext, TypeInv
<1>2. CASE Drain
    <2>1. ring \in Seq(Event) /\ ring # <<>> /\ ring' = Tail(ring)
        BY <1>2 DEF Drain, TypeInv
    <2>2. ring' \in Seq(Event) /\ Len(ring') = Len(ring) - 1 /\ Len(ring) \in Nat
        BY <2>1, HeadTailProperties, LenProperties
    <2>3. Len(ring') <= RingCap
        BY <2>2, Numbers DEF TypeInv
    <2>4. QED
        BY <1>2, <2>2, <2>3 DEF Drain, TypeInv
<1>3. ASSUME NEW t \in Thread, NEW dir \in Direction, Enter(t, dir)
      PROVE  TypeInv'
    <2>1. PICK call \in Call : EnterEffect(t, dir, call)
        BY <1>3, Enters
    <2>2. UNCHANGED <<probes, ring, limit, missed>>
        BY <1>3 DEF Enter
    <2>3. calls \in Nat /\ calls' = calls + 1 /\ calls' \in 0..MaxCalls
        BY <2>1, Numbers DEF TypeInv, EnterEffect
    <2>4. /\ stack' \in [Thread -> Seq(Call)]
          /\ inflight' \in [Thread -> Call \union {NoCall}]
        BY <2>1 DEF EnterEffect
    <2>5. missed' \union excused' \subseteq 1..calls'
        <3>1. missed \union excused \union Ids(stack[t]) \subseteq 1..calls
            BY IdsOnStack DEF TypeInv
        <3>2. call.id \in 1..calls'
            BY <2>1, <2>3 DEF EnterEffect
        <3>3. excused' \subseteq excused \union Ids(stack[t]) \union {call.id}
            BY <2>1 DEF EnterEffect
        <3>4. QED
            BY <2>2, <2>3, <3>1, <3>2, <3>3
    <2>6. ASSUME NEW u \in Thread
          PROVE  /\ inflight'[u].id <= calls'
                 /\ \A i \in 1..Len(stack'[u]) : stack'[u][i].id <= calls'
        <3>1. /\ inflight[u].id \in Int /\ inflight[u].id <= calls
              /\ \A i \in 1..Len(stack[u]) : stack[u][i].id \in 1..calls
              /\ Len(stack[u]) \in Nat
            <4>1. inflight[u].id <= calls
                BY DEF TypeInv
            <4>2. inflight[u] = NoCall => inflight[u].id = 0
                BY DEF NoCall
            <4>3. QED
                BY <4>1, <4>2, OnStack
        <3>2. CASE u # t
            BY <2>1, <2>3, <3>1, <3>2 DEF EnterEffect
        <3>3. CASE u = t
            <4>1. inflight'[t] = call \/ inflight'[t] = inflight[t]
                BY <2>1 DEF EnterEffect
            <4>2. call.id = calls + 1
                BY <2>1 DEF EnterEffect
            <4>3. inflight'[u].id <= calls'
                BY <2>3, <3>1, <3>3, <4>1, <4>2
            <4>4. \A i \in 1..(Len(stack[t]) + 1) : i = 1 \/ (i - 1) \in 1..Len(stack[t])
                BY <3>1, <3>3
            <4>5. /\ Len(stack'[t]) = Len(stack[t]) + 1
                  /\ stack'[t][1] = call
                  /\ \A i \in 1..Len(stack[t]) : stack'[t][i + 1] = stack[t][i]
                BY <2>1 DEF EnterEffect
            <4>6. ASSUME NEW i \in 1..Len(stack'[t])
                  PROVE  stack'[t][i].id <= calls'
                <5>1. CASE i = 1
                    BY <2>3, <4>2, <4>5, <5>1
                <5>2. CASE i - 1 \in 1..Len(stack[t])
                    <6>1. i = (i - 1) + 1
                        BY <3>1, <3>3, <4>5
                    <6>2. stack'[t][i] = stack[t][i - 1]
                        BY <4>5, <5>2, <6>1
                    <6>3. QED
                        BY <2>3, <3>1, <3>3, <5>2, <6>2
                <5>3. QED
                    BY <4>4, <4>5, <5>1, <5>2
            <4>7. QED
                BY <3>3, <4>3, <4>6
        <3>4. QED
            BY <3>2, <3>3
    <2>7. QED
        BY <2>2, <2>3, <2>4, <2>5, <2>6 DEF TypeInv
<1>4. ASSUME NEW t \in Thread, NEW total \in Results, Exit(t, total)
      PROVE  TypeInv'
    <2>1. ExitEffect(t)
        BY <1>4, Exits
    <2>2. UNCHANGED <<probes, calls, limit>>
        BY <1>4 DEF Exit
    <2>3. ring' \in Seq(Event) /\ Len(ring') <= RingCap
        BY <1>4, ExitSubmits
    <2>4. /\ stack' \in [Thread -> Seq(Call)]
          /\ inflight' \in [Thread -> Call \union {NoCall}]
        BY <2>1 DEF ExitEffect
    <2>5. missed' \union excused' \subseteq 1..calls'
        <3>1. 1 \in 1..Len(stack[t]) /\ Head(stack[t]) = stack[t][1]
            BY <2>1 DEF ExitEffect
        <3>2. Head(stack[t]).id \in 1..calls
            BY <3>1, OnStack
        <3>3. /\ missed' \subseteq missed \union {Head(stack[t]).id}
              /\ excused' \subseteq excused \union {Head(stack[t]).id}
            BY <1>4 DEF Exit
        <3>4. QED
            BY <2>2, <3>2, <3>3 DEF TypeInv
    <2>6. ASSUME NEW u \in Thread
          PROVE  /\ inflight'[u].id <= calls'
                 /\ \A i \in 1..Len(stack'[u]) : stack'[u][i].id <= calls'
        <3>1. /\ inflight[u].id <= calls /\ calls \in Nat
              /\ \A i \in 1..Len(stack[u]) : stack[u][i].id <= calls
            BY Numbers DEF TypeInv
        <3>2. CASE u # t
            BY <2>1, <2>2, <3>1, <3>2 DEF ExitEffect
        <3>3. CASE u = t
            <4>1. inflight'[t] = NoCall \/ inflight'[t] = inflight[t]
                BY <2>1 DEF ExitEffect
            <4>2. NoCall.id = 0
                BY DEF NoCall
            <4>3. inflight'[u].id <= calls'
                BY <2>2, <3>1, <3>3, <4>1, <4>2
            <4>4. ASSUME NEW i \in 1..Len(stack'[t])
                  PROVE  stack'[t][i].id <= calls'
                <5>1. /\ Len(stack[t]) \in Nat /\ Len(stack'[t]) = Len(stack[t]) - 1
                      /\ \A k \in 1..(Len(stack[t]) - 1) : stack'[t][k] = stack[t][k + 1]
                    BY <2>1 DEF ExitEffect
                <5>2. i \in 1..(Len(stack[t]) - 1) /\ i + 1 \in 1..Len(stack[t])
                    BY <5>1
                <5>3. QED
                    BY <2>2, <3>1, <3>3, <5>1, <5>2
            <4>5. QED
                BY <3>3, <4>3, <4>4
        <3>4. QED
            BY <3>2, <3>3
    <2>7. QED
        BY <2>2, <2>3, <2>4, <2>5, <2>6 DEF TypeInv
<1>5. ASSUME NEW t \in Thread, Evict(t)
      PROVE  TypeInv'
    <2>1. /\ UNCHANGED <<probes, calls, stack, ring, limit, missed>>
          /\ inflight[t] # NoCall
          /\ inflight' = [inflight EXCEPT ![t] = NoCall]
          /\ excused' = excused \union {inflight[t].id}
        BY <1>5 DEF Evict
    <2>2. inflight' \in [Thread -> Call \union {NoCall}]
        BY <2>1 DEF TypeInv
    <2>3. inflight[t].id \in 1..calls
        BY <2>1, OnStack
    <2>4. missed' \union excused' \subseteq 1..calls'
        BY <2>1, <2>3 DEF TypeInv
    <2>5. NoCall.id = 0 /\ calls \in Nat
        BY Numbers DEF NoCall, TypeInv
    <2>6. \A u \in Thread : inflight'[u] = NoCall \/ inflight'[u] = inflight[u]
        BY <2>1 DEF TypeInv
    <2>7. ASSUME NEW u \in Thread
          PROVE  inflight'[u].id <= calls
        <3>1. inflight[u].id <= calls
            BY DEF TypeInv
        <3>2. NoCall.id <= calls
            BY <2>5
        <3>3. QED
            BY <2>6, <3>1, <3>2
    <2>8. QED
        BY <2>1, <2>2, <2>4, <2>7 DEF TypeInv
<1>6. ASSUME NEW t \in Thread, Unwind(t)
      PROVE  TypeInv'
    <2>1. /\ UNCHANGED <<probes, calls, inflight, ring, limit, missed, excused>>
          /\ stack' = [stack EXCEPT ![t] = <<>>]
        BY <1>6 DEF Unwind
    <2>2. <<>> \in Seq(Call) /\ Len(<<>>) = 0
        BY EmptySeq
    <2>3. stack' \in [Thread -> Seq(Call)]
        BY <2>1, <2>2 DEF TypeInv
    <2>4. \A u \in Thread : stack'[u] = <<>> \/ stack'[u] = stack[u]
        BY <2>1 DEF TypeInv
    <2>5. \A u \in Thread : \A i \in 1..Len(stack'[u]) : stack'[u][i].id <= calls
        BY <2>2, <2>4 DEF TypeInv
    <2>6. QED
        BY <2>1, <2>3, <2>5 DEF TypeInv
<1>7. CASE UNCHANGED vars
    BY <1>7 DEF vars, TypeInv
<1>8. QED
    BY <1>1, <1>2, <1>3, <1>4, <1>5, <1>6, <1>7 DEF Next


\* Which probes are attached, and which calls are hooked.
LEMMA Hooks ==
    ASSUME TypeInv, NEW dir \in Direction
    PROVE  /\ Attached(dir, "exit") => Attached(dir, "enter") /\ probes >= 2
           /\ probes >= 2 /\ Attached(dir, "enter") /\ ~ Attached(dir, "exit")
                  => dir = "write"
    BY DEF TypeInv, Direction, Attached, Place

\* Every step keeps what the entries say of the calls under way.
LEMMA NextEntry == TypeInv /\ EntryInv /\ [Next]_vars => EntryInv'
<1> SUFFICES ASSUME TypeInv, EntryInv, [Next]_vars PROVE EntryInv'
    OBVIOUS
<1>0. probes \in 0..4
    BY DEF TypeInv
<1>1. CASE AttachNext
    <2>1. probes' >= probes /\ UNCHANGED <<stack, inflight>>
        BY <1>0, <1>1 DEF AttachNext
    <2>2. probes' \in Int
        BY <1>0, <1>1 DEF AttachNext
    <2>3. probes >= 2 => probes' >= 2
        BY <1>0, <2>1, <2>2
    <2>4. QED
        BY <2>1, <2>3 DEF EntryInv
<1>2. CASE Drain
    BY <1>2 DEF Drain, EntryInv
<1>3. ASSUME NEW t \in Thread, NEW dir \in Direction, Enter(t, dir)
      PROVE  EntryInv'
    <2>1. PICK call \in Call : EnterEffect(t, dir, call)
        BY <1>3, Enters
    <2>2. probes' = probes
        BY <1>3 DEF Enter
    <2>3. /\ Len(stack'[t]) = Len(stack[t]) + 1
          /\ stack'[t][1] = call
          /\ \A i \in 1..Len(stack[t]) : stack'[t][i + 1] = stack[t][i]
          /\ inflight'[t] = IF Attached(dir, "enter") THEN call ELSE inflight[t]
          /\ call.dir = dir /\ call.hooked = Attached(dir, "exit")
          /\ Len(stack[t]) \in Nat
        BY <2>1, OnStack DEF EnterEffect
    <2>4. SUFFICES ASSUME NEW u \in Thread, NEW j \in 1..Len(stack'[u]),
                          stack'[u][j].hooked
                   PROVE  /\ probes >= 2
                          /\ \/ inflight'[u] = NoCall
                             \/ InTheGap(inflight'[u])
                             \/ \E i \in 1..j : stack'[u][i] = inflight'[u] /\ stack'[u][i].hooked
        BY <2>2 DEF EntryInv, InTheGap
    <2>5. CASE u # t
        BY <2>1, <2>4, <2>5 DEF EnterEffect, EntryInv
    <2>6. CASE u = t /\ j = 1
        <3>1. call.hooked
            BY <2>3, <2>4, <2>6
        <3>2. Attached(dir, "exit") /\ Attached(dir, "enter") /\ probes >= 2
            BY <2>3, <3>1, Hooks
        <3>3. inflight'[u] = call /\ stack'[u][1] = call /\ 1 \in 1..j
            BY <2>3, <2>6, <3>2
        <3>4. QED
            BY <3>1, <3>2, <3>3
    <2>7. CASE u = t /\ j # 1
        <3> DEFINE k == j - 1
        <3>1. k \in 1..Len(stack[t]) /\ j = k + 1
            <4>1. j \in 1..(Len(stack[t]) + 1) /\ j # 1
                BY <2>3, <2>7
            <4>2. QED
                BY <2>3, <4>1
        <3>2. stack'[t][j] = stack[t][k]
            BY <2>3, <3>1
        <3> HIDE DEF k
        <3>3. /\ probes >= 2
              /\ \/ inflight[t] = NoCall
                 \/ InTheGap(inflight[t])
                 \/ \E i \in 1..k : stack[t][i] = inflight[t] /\ stack[t][i].hooked
            BY <2>4, <2>7, <3>1, <3>2 DEF EntryInv
        <3>4. CASE ~ Attached(dir, "enter")
            <4>1. inflight'[t] = inflight[t]
                BY <2>3, <3>4
            <4>2. CASE \E i \in 1..k : stack[t][i] = inflight[t] /\ stack[t][i].hooked
                <5>1. PICK i \in 1..k : stack[t][i] = inflight[t] /\ stack[t][i].hooked
                    BY <4>2
                <5>2. i \in 1..Len(stack[t]) /\ i + 1 \in 1..j
                    BY <2>3, <3>1
                <5>3. stack'[t][i + 1] = stack[t][i]
                    BY <2>3, <5>2
                <5>4. QED
                    BY <2>7, <3>3, <4>1, <5>1, <5>2, <5>3
            <4>3. QED
                BY <2>7, <3>3, <4>1, <4>2
        <3>5. CASE Attached(dir, "enter")
            <4>1. inflight'[t] = call
                BY <2>3, <3>5
            <4>2. CASE call.hooked
                <5>1. 1 \in 1..j
                    BY <3>1
                <5>2. QED
                    BY <2>3, <2>7, <3>3, <4>1, <4>2, <5>1
            <4>3. CASE ~ call.hooked
                <5>1. dir = "write"
                    BY <2>3, <3>3, <3>5, <4>3, Hooks
                <5>2. InTheGap(call)
                    BY <2>3, <4>3, <5>1 DEF InTheGap
                <5>3. QED
                    BY <2>7, <3>3, <4>1, <5>2
            <4>4. QED
                BY <4>2, <4>3
        <3>6. QED
            BY <3>4, <3>5
    <2>8. QED
        BY <2>5, <2>6, <2>7
<1>4. ASSUME NEW t \in Thread, NEW total \in Results, Exit(t, total)
      PROVE  EntryInv'
    <2>1. ExitEffect(t) /\ probes' = probes
        BY <1>4, Exits DEF Exit
    <2>2. /\ Len(stack[t]) \in Nat /\ Len(stack'[t]) = Len(stack[t]) - 1
          /\ \A i \in 1..(Len(stack[t]) - 1) : stack'[t][i] = stack[t][i + 1]
          /\ inflight'[t] = IF stack[t][1].hooked THEN NoCall ELSE inflight[t]
        BY <2>1 DEF ExitEffect
    <2>3. SUFFICES ASSUME NEW u \in Thread, NEW j \in 1..Len(stack'[u]),
                          stack'[u][j].hooked
                   PROVE  /\ probes >= 2
                          /\ \/ inflight'[u] = NoCall
                             \/ InTheGap(inflight'[u])
                             \/ \E i \in 1..j : stack'[u][i] = inflight'[u] /\ stack'[u][i].hooked
        BY <2>1 DEF EntryInv, InTheGap
    <2>4. CASE u # t
        <3>1. stack'[u] = stack[u] /\ inflight'[u] = inflight[u]
            BY <2>1, <2>4 DEF ExitEffect
        <3>2. QED
            BY <2>3, <3>1 DEF EntryInv
    <2>5. CASE u = t
        <3>1. j \in 1..(Len(stack[t]) - 1) /\ j + 1 \in 1..Len(stack[t])
            BY <2>2, <2>3, <2>5
        <3>2. stack[t][j + 1].hooked
            BY <2>2, <2>3, <2>5, <3>1
        <3>3. /\ probes >= 2
              /\ \/ inflight[t] = NoCall
                 \/ InTheGap(inflight[t])
                 \/ \E i \in 1..(j + 1) : stack[t][i] = inflight[t] /\ stack[t][i].hooked
            BY <3>1, <3>2 DEF EntryInv
        <3>4. CASE stack[t][1].hooked
            BY <2>2, <2>5, <3>3, <3>4
        <3>5. CASE ~ stack[t][1].hooked
            <4>1. inflight'[t] = inflight[t]
                BY <2>2, <3>5
            <4>2. CASE \E i \in 1..(j + 1) : stack[t][i] = inflight[t] /\ stack[t][i].hooked
                <5>1. PICK i \in 1..(j + 1) : stack[t][i] = inflight[t] /\ stack[t][i].hooked
                    BY <4>2
                <5> DEFINE k == i - 1
                <5>2. i # 1
                    BY <3>5, <5>1
                <5>3. k \in 1..j /\ k \in 1..(Len(stack[t]) - 1) /\ k + 1 = i
                    BY <2>2, <3>1, <5>2
                <5>4. stack'[t][k] = stack[t][k + 1]
                    BY <2>2, <5>3
                <5> HIDE DEF k
                <5>5. QED
                    BY <2>5, <3>3, <4>1, <5>1, <5>3, <5>4
            <4>3. QED
                BY <2>5, <3>3, <4>1, <4>2
        <3>6. QED
            BY <3>4, <3>5
    <2>6. QED
        BY <2>4, <2>5
<1>5. ASSUME NEW t \in Thread, Evict(t)
      PROVE  EntryInv'
    <2>1. UNCHANGED <<probes, stack>> /\ inflight' = [inflight EXCEPT ![t] = NoCall]
        BY <1>5 DEF Evict
    <2>2. \A u \in Thread : inflight'[u] = NoCall \/ inflight'[u] = inflight[u]
        BY <2>1 DEF TypeInv
    <2>3. QED
        BY SMTT(30), <2>1, <2>2 DEF EntryInv
<1>6. ASSUME NEW t \in Thread, Unwind(t)
      PROVE  EntryInv'
    <2>1. UNCHANGED <<probes, inflight>> /\ stack' = [stack EXCEPT ![t] = <<>>]
        BY <1>6 DEF Unwind
    <2>2. \A u \in Thread : stack'[u] = stack[u] \/ stack'[u] = <<>>
        BY <2>1 DEF TypeInv
    <2>3. Len(<<>>) = 0
        OBVIOUS
    <2>4. \A u \in Thread : \A j \in 1..Len(stack'[u]) : stack'[u] = stack[u]
        BY <2>2, <2>3
    <2>5. QED
        BY <2>1, <2>4 DEF EntryInv
<1>7. CASE UNCHANGED vars
    BY <1>7 DEF vars, EntryInv
<1>8. QED
    BY <1>1, <1>2, <1>3, <1>4, <1>5, <1>6, <1>7 DEF Next


\* The two clauses of LossInv about the stack of a thread.
Counts(t) == \A i \in 1..Len(stack[t]) :
                \/ stack[t][i].id \in excused
                \/ stack[t][i].hooked /\ inflight[t].id = stack[t][i].id
Shields(t) == \A i, j \in 1..Len(stack[t]) :
                 i < j /\ stack[t][i].hooked => stack[t][j].id \in excused

\* The invariant of the losses, thread by thread.
LEMMA LossParts ==
    LossInv <=> missed \subseteq excused /\ \A t \in Thread : Counts(t) /\ Shields(t)
    BY DEF LossInv, Counts, Shields

\* A thread whose stack and entry stay loses nothing.
LEMMA OtherThreads ==
    ASSUME NEW u, Counts(u), Shields(u), stack'[u] = stack[u],
           inflight'[u] = inflight[u], excused \subseteq excused'
    PROVE  Counts(u)' /\ Shields(u)'
    BY DEF Counts, Shields

\* Every step keeps the account of what is lost.
LEMMA NextLoss == TypeInv /\ LossInv /\ [Next]_vars => LossInv'
<1> SUFFICES ASSUME TypeInv, LossInv, [Next]_vars PROVE LossInv'
    OBVIOUS
<1>1. missed \subseteq excused /\ \A t \in Thread : Counts(t) /\ Shields(t)
    BY LossParts
<1>2. CASE AttachNext \/ Drain \/ UNCHANGED vars
    BY <1>2 DEF AttachNext, Drain, vars, LossInv
<1>3. ASSUME NEW t \in Thread, NEW dir \in Direction, Enter(t, dir)
      PROVE  LossInv'
    <2>1. PICK call \in Call : EnterEffect(t, dir, call)
        BY <1>3, Enters
    <2>2. missed' = missed /\ excused \subseteq excused'
        BY <1>3, <2>1 DEF Enter, EnterEffect
    <2>3. /\ Len(stack'[t]) = Len(stack[t]) + 1
          /\ stack'[t][1] = call
          /\ \A i \in 1..Len(stack[t]) : stack'[t][i + 1] = stack[t][i]
          /\ inflight'[t] = IF Attached(dir, "enter") THEN call ELSE inflight[t]
          /\ call.hooked = Attached(dir, "exit")
          /\ Len(stack[t]) \in Nat
        BY <2>1, OnStack DEF EnterEffect
    <2>4. /\ Attached(dir, "enter") => Ids(stack[t]) \subseteq excused'
          /\ call.hooked \/ call.id \in excused'
        BY <2>1 DEF EnterEffect
    <2>5. call.hooked => Attached(dir, "enter")
        BY <2>3, Hooks
    <2>6. \A i \in 1..Len(stack[t]) :
              Attached(dir, "enter") => stack[t][i].id \in excused'
        BY <2>4, IdsOnStack
    <2>7. ASSUME NEW i \in 1..Len(stack'[t]), i # 1
          PROVE  i - 1 \in 1..Len(stack[t]) /\ stack'[t][i] = stack[t][i - 1]
        <3>1. i \in 1..(Len(stack[t]) + 1)
            BY <2>3
        <3>2. i - 1 \in 1..Len(stack[t]) /\ i = (i - 1) + 1
            BY <2>3, <2>7, <3>1
        <3>3. QED
            BY <2>3, <3>2
    <2>8. Counts(t)'
        <3>1. SUFFICES ASSUME NEW i \in 1..Len(stack'[t])
                       PROVE  \/ stack'[t][i].id \in excused'
                              \/ /\ stack'[t][i].hooked
                                 /\ inflight'[t].id = stack'[t][i].id
            BY DEF Counts
        <3>2. CASE i = 1
            BY <2>3, <2>4, <2>5, <3>2
        <3>3. CASE i # 1
            <4>1. i - 1 \in 1..Len(stack[t]) /\ stack'[t][i] = stack[t][i - 1]
                BY <2>7, <3>3
            <4>2. CASE Attached(dir, "enter")
                BY <2>6, <4>1, <4>2
            <4>3. CASE ~ Attached(dir, "enter")
                <5>1. inflight'[t] = inflight[t]
                    BY <2>3, <4>3
                <5>2. QED
                    BY <1>1, <2>2, <4>1, <5>1 DEF Counts
            <4>4. QED
                BY <4>2, <4>3
        <3>4. QED
            BY <3>2, <3>3
    <2>9. Shields(t)'
        <3>1. SUFFICES ASSUME NEW i \in 1..Len(stack'[t]), NEW j \in 1..Len(stack'[t]),
                              i < j, stack'[t][i].hooked
                       PROVE  stack'[t][j].id \in excused'
            BY DEF Shields
        <3>2. j # 1
            BY <3>1
        <3>3. j - 1 \in 1..Len(stack[t]) /\ stack'[t][j] = stack[t][j - 1]
            BY <2>7, <3>2
        <3>4. CASE i = 1
            BY <2>3, <2>5, <2>6, <3>1, <3>3, <3>4
        <3>5. CASE i # 1
            <4>1. i - 1 \in 1..Len(stack[t]) /\ stack'[t][i] = stack[t][i - 1]
                BY <2>7, <3>5
            <4>2. i - 1 < j - 1
                BY <3>1
            <4>3. QED
                BY <1>1, <2>2, <3>1, <3>3, <4>1, <4>2 DEF Shields
        <3>6. QED
            BY <3>4, <3>5
    <2>10. \A u \in Thread : (Counts(u) /\ Shields(u))'
        <3>1. TAKE u \in Thread
        <3>2. CASE u = t
            BY <2>8, <2>9, <3>2
        <3>3. CASE u # t
            <4>1. stack'[u] = stack[u] /\ inflight'[u] = inflight[u]
                BY <2>1, <3>3 DEF EnterEffect
            <4>2. QED
                BY <1>1, <2>2, <4>1, OtherThreads
        <3>4. QED
            BY <3>2, <3>3
    <2>11. missed' \subseteq excused'
        BY <1>1, <2>2
    <2>12. QED
        BY <2>10, <2>11 DEF LossInv, Counts, Shields
<1>4. ASSUME NEW t \in Thread, NEW total \in Results, Exit(t, total)
      PROVE  LossInv'
    <2> DEFINE h == stack[t][1]
    <2>1. ExitEffect(t)
        BY <1>4, Exits
    <2>2. /\ Len(stack[t]) \in Nat /\ Len(stack[t]) >= 1
          /\ Len(stack'[t]) = Len(stack[t]) - 1
          /\ \A i \in 1..(Len(stack[t]) - 1) : stack'[t][i] = stack[t][i + 1]
          /\ inflight'[t] = IF h.hooked THEN NoCall ELSE inflight[t]
          /\ Head(stack[t]) = h /\ 1 \in 1..Len(stack[t])
        BY <2>1 DEF ExitEffect
    <2>3. h \in Call /\ h.id \in 1..calls /\ calls \in Nat
        BY <2>2, OnStack DEF TypeInv
    <2>4. /\ missed' = IF total > 0 /\ ~ (Emits(t, total) /\ Room)
                       THEN missed \union {h.id} ELSE missed
          /\ excused' = IF Emits(t, total) /\ ~ Room THEN excused \union {h.id}
                                                     ELSE excused
        BY <1>4, <2>2 DEF Exit, Emits, Room
    <2>5. excused \subseteq excused'
        BY <2>4
    <2>6. missed' \subseteq excused'
        <3>1. CASE Emits(t, total)
            BY <1>1, <2>4, <3>1
        <3>2. CASE ~ Emits(t, total) /\ total > 0
            <4>1. h.hooked => inflight[t] = NoCall
                BY <3>2 DEF Emits
            <4>2. h.id \in excused \/ (h.hooked /\ inflight[t].id = h.id)
                BY <1>1, <2>2 DEF Counts
            <4>3. NoCall.id # h.id
                BY <2>3 DEF NoCall
            <4>4. h.id \in excused
                BY <4>1, <4>2, <4>3
            <4>5. QED
                BY <1>1, <2>4, <4>4
        <3>3. CASE ~ (total > 0)
            BY <1>1, <2>4, <2>5, <3>3
        <3>4. QED
            BY <3>1, <3>2, <3>3
    <2>7. \A i \in 1..Len(stack'[t]) :
              i + 1 \in 1..Len(stack[t]) /\ stack'[t][i] = stack[t][i + 1]
        BY <2>2
    <2>8. Counts(t)'
        <3>1. SUFFICES ASSUME NEW i \in 1..Len(stack'[t])
                       PROVE  \/ stack'[t][i].id \in excused'
                              \/ /\ stack'[t][i].hooked
                                 /\ inflight'[t].id = stack'[t][i].id
            BY DEF Counts
        <3>2. i + 1 \in 1..Len(stack[t]) /\ stack'[t][i] = stack[t][i + 1]
            BY <2>7
        <3>3. CASE h.hooked
            <4>1. 1 < i + 1
                BY <2>2, <3>1
            <4>2. stack[t][i + 1].id \in excused
                BY <1>1, <2>2, <3>2, <3>3, <4>1 DEF Shields
            <4>3. QED
                BY <2>5, <3>2, <4>2
        <3>4. CASE ~ h.hooked
            <4>1. inflight'[t] = inflight[t]
                BY <2>2, <3>4
            <4>2. QED
                BY <1>1, <2>5, <3>2, <4>1 DEF Counts
        <3>5. QED
            BY <3>3, <3>4
    <2>9. Shields(t)'
        <3>1. SUFFICES ASSUME NEW i \in 1..Len(stack'[t]), NEW j \in 1..Len(stack'[t]),
                              i < j, stack'[t][i].hooked
                       PROVE  stack'[t][j].id \in excused'
            BY DEF Shields
        <3>2. /\ i + 1 \in 1..Len(stack[t]) /\ stack'[t][i] = stack[t][i + 1]
              /\ j + 1 \in 1..Len(stack[t]) /\ stack'[t][j] = stack[t][j + 1]
            BY <2>7
        <3>3. i + 1 < j + 1
            BY <2>2, <3>1
        <3>4. QED
            BY <1>1, <2>5, <3>1, <3>2, <3>3 DEF Shields
    <2>10. \A u \in Thread : (Counts(u) /\ Shields(u))'
        <3>1. TAKE u \in Thread
        <3>2. CASE u = t
            BY <2>8, <2>9, <3>2
        <3>3. CASE u # t
            <4>1. stack'[u] = stack[u] /\ inflight'[u] = inflight[u]
                BY <2>1, <3>3 DEF ExitEffect
            <4>2. QED
                BY <1>1, <2>5, <4>1, OtherThreads
        <3>4. QED
            BY <3>2, <3>3
    <2>11. QED
        BY <2>6, <2>10 DEF LossInv, Counts, Shields
<1>5. ASSUME NEW t \in Thread, Evict(t)
      PROVE  LossInv'
    <2>1. /\ UNCHANGED <<stack, missed>>
          /\ inflight' = [inflight EXCEPT ![t] = NoCall]
          /\ excused' = excused \union {inflight[t].id}
        BY <1>5 DEF Evict
    <2>2. \A u \in Thread \ {t} : inflight'[u] = inflight[u]
        BY <2>1 DEF TypeInv
    <2>3. Counts(t)'
        BY <1>1, <2>1 DEF Counts
    <2>4. Shields(t)'
        BY <1>1, <2>1 DEF Shields
    <2>5. \A u \in Thread \ {t} : (Counts(u) /\ Shields(u))'
        BY <1>1, <2>1, <2>2, OtherThreads
    <2>6. missed' \subseteq excused'
        BY <1>1, <2>1
    <2>7. QED
        BY <2>3, <2>4, <2>5, <2>6 DEF LossInv, Counts, Shields
<1>6. ASSUME NEW t \in Thread, Unwind(t)
      PROVE  LossInv'
    <2>1. /\ UNCHANGED <<inflight, missed, excused>>
          /\ stack' = [stack EXCEPT ![t] = <<>>]
        BY <1>6 DEF Unwind
    <2>2. \A u \in Thread : stack'[u] = stack[u] \/ stack'[u] = <<>>
        BY <2>1 DEF TypeInv
    <2>3. Len(<<>>) = 0
        OBVIOUS
    <2>4. \A u \in Thread : stack'[u] = stack[u] \/ Len(stack'[u]) = 0
        BY <2>2, <2>3
    <2>5. ASSUME NEW u \in Thread
          PROVE  (Counts(u) /\ Shields(u))'
        <3>1. CASE stack'[u] = stack[u]
            BY <1>1, <2>1, <3>1, OtherThreads
        <3>2. CASE Len(stack'[u]) = 0
            BY <3>2 DEF Counts, Shields
        <3>3. QED
            BY <2>4, <3>1, <3>2
    <2>6. QED
        BY <1>1, <2>1, <2>5 DEF LossInv, Counts, Shields
<1>7. QED
    BY <1>2, <1>3, <1>4, <1>5, <1>6 DEF Next

\* The reader's limit is fixed at the start.
LEMMA LimitStays == [Next]_vars => limit' = limit
    BY DEF Next, AttachNext, Drain, Enter, Exit, Evict, Unwind, vars

\* Every step keeps what the events say of the calls that returned.
LEMMA NextEvents == TypeInv /\ EntryInv /\ EventInv /\ [Next]_vars => EventInv'
<1> SUFFICES ASSUME TypeInv, EntryInv, EventInv, [Next]_vars PROVE EventInv'
    OBVIOUS
<1>1. limit' = limit
    BY LimitStays
<1>2. ring \in Seq(Event) /\ Len(ring) \in Nat
    BY LenProperties DEF TypeInv
<1>3. ASSUME UNCHANGED <<ring, chunk>>
      PROVE  EventInv'
    BY <1>1, <1>3 DEF EventInv, IsReturn, InTheGap, EventIsPrefix, ChunkIsPrefix
<1>4. CASE Drain
    <2>1. ring # <<>> /\ ring' = Tail(ring) /\ chunk' = ChunkOf(Head(ring))
        BY <1>4 DEF Drain
    <2>2. /\ Head(ring) \in Event /\ Len(ring') = Len(ring) - 1 /\ Len(ring) >= 1
          /\ \A i \in 1..Len(ring') : ring'[i] = ring[i + 1]
        BY <1>2, <2>1, HeadTailProperties, EmptySeq
    <2>3. Head(ring) = ring[1] /\ 1 \in 1..Len(ring)
        BY <1>2, <2>2
    <2>4. IsReturn(Head(ring)) /\ EventIsPrefix(Head(ring))
        BY <2>3 DEF EventInv
    <2>5. ChunkIsPrefix(chunk') /\ chunk'.saved = Head(ring).saved
          /\ chunk'.of = Head(ring).of
        BY <2>1, <2>2, <2>4, ChunkFacts DEF TypeInv
    <2>6. IsReturn(chunk')
        BY <2>4, <2>5 DEF IsReturn
    <2>7. \A i \in 1..Len(ring') : i + 1 \in 1..Len(ring)
        BY <1>2, <2>2
    <2>8. \A i \in 1..Len(ring') : IsReturn(ring'[i]) /\ EventIsPrefix(ring'[i])
        BY <2>2, <2>7 DEF EventInv
    <2>9. QED
        BY <1>1, <2>5, <2>6, <2>8
           DEF EventInv, IsReturn, InTheGap, EventIsPrefix, ChunkIsPrefix
<1>5. ASSUME NEW t \in Thread, NEW total \in Results, Exit(t, total)
      PROVE  EventInv'
    <2>1. chunk' = chunk
        BY <1>5 DEF Exit
    <2>2. CASE Emits(t, total) /\ Room
        <3> DEFINE event == EventOf(t, total)
        <3>1. ring' = Append(ring, event) /\ event \in Event
            BY <1>5, <2>2, ExitSubmits
        <3>2. /\ stack[t] # <<>> /\ Head(stack[t]) = stack[t][1]
              /\ 1 \in 1..Len(stack[t])
            BY <1>5, Exits DEF ExitEffect
        <3>3. /\ EventIsPrefix(event) /\ event.saved = inflight[t]
              /\ event.of = stack[t][1].id
            BY <2>2, <3>2, EventFacts DEF Emits
        <3>4. IsReturn(event)
            <4>1. stack[t][1].hooked /\ inflight[t] # NoCall
                BY <2>2 DEF Emits
            <4>2. \/ InTheGap(inflight[t])
                  \/ \E i \in 1..1 : stack[t][i] = inflight[t]
                BY <3>2, <4>1 DEF EntryInv
            <4>3. InTheGap(inflight[t]) \/ stack[t][1] = inflight[t]
                BY <4>2
            <4>4. QED
                BY <3>3, <4>3 DEF IsReturn
        <3> HIDE DEF event
        <3>5. /\ Len(ring') = Len(ring) + 1
              /\ \A i \in 1..Len(ring) : ring'[i] = ring[i]
              /\ ring'[Len(ring) + 1] = event
            BY <1>2, <3>1, AppendProperties
        <3>6. ASSUME NEW i \in 1..Len(ring')
              PROVE  IsReturn(ring'[i]) /\ EventIsPrefix(ring'[i])
            <4>1. i \in 1..Len(ring) \/ i = Len(ring) + 1
                BY <1>2, <3>5
            <4>2. QED
                BY <3>3, <3>4, <3>5, <4>1 DEF EventInv
        <3>7. QED
            BY <1>1, <2>1, <3>6
               DEF EventInv, IsReturn, InTheGap, EventIsPrefix, ChunkIsPrefix
    <2>3. CASE ~ (Emits(t, total) /\ Room)
        <3>1. ring' = ring
            BY <1>5, <2>3, ExitSubmits
        <3>2. QED
            BY <1>3, <2>1, <3>1
    <2>4. QED
        BY <2>2, <2>3
<1>6. CASE UNCHANGED <<ring, chunk>>
    BY <1>3, <1>6
<1>7. QED
    BY <1>4, <1>5, <1>6 DEF Next, AttachNext, Enter, Evict, Unwind, vars

-----------------------------------------------------------------------------
(* The theorems                                                            *)

\* At the start no probe has run.
LEMMA InitProbes == Init => ProbesInv
<1> SUFFICES ASSUME Init PROVE ProbesInv
    OBVIOUS
<1>1. <<>> \in Seq(Call) /\ <<>> \in Seq(Event) /\ Len(<<>>) = 0
    BY EmptySeq
<1>2. \A t \in Thread : stack[t] = <<>> /\ inflight[t] = NoCall /\ Len(stack[t]) = 0
    BY <1>1 DEF Init
<1>3. stack \in [Thread -> Seq(Call)] /\ inflight \in [Thread -> Call \union {NoCall}]
    BY <1>1 DEF Init
<1>4. limit \in 1..CaptureMax
    BY Numbers DEF Init, LimitOf
<1>5. probes \in 0..4 /\ calls \in 0..MaxCalls /\ calls = 0
    BY Numbers DEF Init
<1>6. ring \in Seq(Event) /\ Len(ring) = 0 /\ Len(ring) <= RingCap
    BY <1>1, Numbers DEF Init
<1>7. NoCall.id = 0
    BY DEF NoCall
<1>8. TypeInv
    BY <1>2, <1>3, <1>4, <1>5, <1>6, <1>7 DEF Init, TypeInv
<1>9. EntryInv /\ LossInv
    BY <1>2 DEF Init, EntryInv, LossInv
<1>10. EventInv
    BY <1>6 DEF Init, EventInv
<1>11. QED
    BY <1>8, <1>9, <1>10 DEF ProbesInv

\* Entries, excuses and events stay in step with the calls of the threads.
THEOREM ProbesInductive == Spec => []ProbesInv
<1>1. ProbesInv /\ [Next]_vars => ProbesInv'
    BY NextType, NextEntry, NextLoss, NextEvents DEF ProbesInv
<1>2. QED
    BY <1>1, InitProbes, PTL DEF Spec

\* The in-flight map holds at most one entry per thread, of a call made, and the
\* ring buffer what fits (wire.bpf.c).
THEOREM TypeCorrect == Spec => []TypeOK
<1>1. ProbesInv => TypeOK
    BY DEF ProbesInv, TypeInv, TypeOK
<1>2. QED
    BY <1>1, ProbesInductive, PTL

\* Events in the ring buffer and the chunk, as positions.
LEMMA EventsInv ==
    ASSUME ProbesInv, NEW e \in Events
    PROVE  IsReturn(e)
<1>1. ring \in Seq(Event) /\ DOMAIN ring = 1..Len(ring)
    BY LenProperties DEF ProbesInv, TypeInv
<1>2. QED
    BY <1>1 DEF Events, Chunks, ProbesInv, EventInv

\* The exit probe of a read or a write finds the entry of that very call, though
\* calls nest, errors leave calls behind and the map evicts; only a write entered
\* between two attaches can leave its entry for the read around it (wire.bpf.c).
THEOREM ReturnsCorrect == Spec => []EventsAreReturns
<1>1. ProbesInv => EventsAreReturns
    BY EventsInv DEF EventsAreReturns, IsReturn
<1>2. QED
    BY <1>1, ProbesInductive, PTL

\* A chunk is the beginning of its call's buffer, whole or marked as truncated,
\* for every size of the capture and every limit (copy_user_data, emit_event and
\* RunEventLoop).
THEOREM ChunksCorrect == Spec => []ChunksArePrefixes
<1>1. ProbesInv => ChunksArePrefixes
    BY DEF ProbesInv, EventInv, Chunks, ChunkIsPrefix, ChunksArePrefixes
<1>2. QED
    BY <1>1, ProbesInductive, PTL

\* A call that returned data and has no event is one of those whose event the
\* design of the probes gives up (wire.bpf.c).
THEOREM LossesCorrect == Spec => []OnlyKnownLosses
<1>1. ProbesInv => OnlyKnownLosses
    BY DEF ProbesInv, LossInv, OnlyKnownLosses
<1>2. QED
    BY <1>1, ProbesInductive, PTL

=============================================================================
