-------------------------- MODULE WireCommandProofs --------------------------
(* Theorems about WireCommand, for every capacity, limit and bound.        *)
EXTENDS WireCommand, SequenceTheorems, TLAPS

-----------------------------------------------------------------------------
(* The types                                                               *)

\* What the types alone do not tell a step: the loop holds a chunk exactly while
\* it hands it over, it has a result exactly when it has stopped reading, and
\* the command goes on printing only below its limit.
PipeInv ==
    /\ TypeOK
    /\ held # 0 <=> loop = "hand"
    /\ failure = "none" <=> loop \in {"read", "hand"}
    /\ (Limit > 0 /\ main \in {"select", "print"}) => printed < Limit

\* More chunks may be submitted than a sequence holds.
LEMMA StillSubmitted ==
    ASSUME NEW n \in Nat, NEW s \in Seq(1..n)
    PROVE  s \in Seq(1..(n + 1))
  <1>1. 1..n \subseteq 1..(n + 1)
    OBVIOUS
  <1> QED
    BY <1>1, SeqMonotonic

\* One step of the kernel, the loop or the command keeps the types.
THEOREM PipeInductive == Spec => []PipeInv
  <1>1. Init => PipeInv
    <2> SUFFICES ASSUME Init PROVE PipeInv
      OBVIOUS
    <2>1. /\ ring \in Seq(1..submitted) /\ Len(ring) = 0
          /\ chunksCh \in Seq(1..submitted) /\ Len(chunksCh) = 0
          /\ taken \in Seq(1..submitted)
          /\ errCh \in Seq({"nil", "error"}) /\ Len(errCh) = 0
      BY EmptySeq DEF Init
    <2>2. /\ submitted = 0 /\ held = 0 /\ left = 0 /\ printed = 0
          /\ reader = "open" /\ loop = "read" /\ main = "select"
          /\ failure = "none" /\ result = "none"
      BY DEF Init
    <2>3. chClosed \in BOOLEAN /\ ctxDone \in BOOLEAN
      BY DEF Init
    <2>4. TypeOK
      BY <2>1, <2>2, <2>3, CapAssumption, BoundAssumption DEF TypeOK
    <2> QED
      BY <2>2, <2>4, BoundAssumption DEF PipeInv
  <1>2. PipeInv /\ [Next]_vars => PipeInv'
    <2> SUFFICES ASSUME PipeInv, [Next]_vars PROVE PipeInv'
      OBVIOUS
    <2> USE DEF PipeInv, TypeOK, kernelVars, loopVars, mainVars
    <2>1. /\ submitted \in Nat
          /\ ring \in Seq(1..submitted) /\ Len(ring) \in Nat
          /\ chunksCh \in Seq(1..submitted) /\ Len(chunksCh) \in Nat
          /\ taken \in Seq(1..submitted)
      BY LenProperties, BoundAssumption
    <2>2. CASE Submit
      <3>1. submitted' \in 0..MaxChunks /\ submitted' = submitted + 1
        BY <2>1, <2>2, BoundAssumption DEF Submit
      <3>2. ring' \in Seq(1..submitted') /\ Len(ring') <= RingCap
        <4>1. ring \in Seq(1..submitted') /\ submitted' \in 1..submitted'
          BY <2>1, <3>1, StillSubmitted
        <4> QED
          BY <2>1, <2>2, <3>1, <4>1, AppendProperties, CapAssumption DEF Submit
      <3>3. chunksCh \in Seq(1..submitted') /\ taken \in Seq(1..submitted')
        BY <2>1, <3>1, StillSubmitted
      <3> QED
        BY <2>1, <2>2, <3>1, <3>2, <3>3 DEF Submit
    <2>3. CASE Signal
      BY <2>3 DEF Signal
    <2>4. CASE Read
      <3>1. /\ Head(ring) \in 1..submitted
            /\ Tail(ring) \in Seq(1..submitted)
            /\ Len(Tail(ring)) = Len(ring) - 1
        BY <2>1, <2>4, HeadTailProperties DEF Read
      <3> QED
        BY SMTT(30), <2>1, <2>4, <3>1, CapAssumption DEF Read
    <2>5. CASE ReadClosed
      BY <2>5 DEF ReadClosed
    <2>6. CASE ReadFails
      BY <2>6 DEF ReadFails
    <2>7. CASE DecodeFails
      <3>1. /\ Tail(ring) \in Seq(1..submitted)
            /\ Len(Tail(ring)) = Len(ring) - 1
        BY <2>1, <2>7, HeadTailProperties DEF DecodeFails
      <3> QED
        BY <2>1, <2>7, <3>1, CapAssumption DEF DecodeFails
    <2>8. CASE HandOver
      <3>1. held \in 1..submitted
        BY <2>1, <2>8 DEF HandOver
      <3>2. /\ chunksCh' \in Seq(1..submitted)
            /\ Len(chunksCh') = Len(chunksCh) + 1
        BY <2>1, <2>8, <3>1, AppendProperties DEF HandOver
      <3> QED
        BY <2>1, <2>8, <3>2, CapAssumption DEF HandOver
    <2>9. CASE GiveUp
      BY <2>1, <2>9 DEF GiveUp
    <2>10. CASE Report
      <3>1. failure \in {"nil", "error"}
        BY <2>10 DEF Report
      <3>2. <<failure>> \in Seq({"nil", "error"}) /\ Len(<<failure>>) = 1
        BY <3>1
      <3> QED
        BY <2>10, <3>2 DEF Report
    <2>11. CASE CloseChannel
      BY <2>11 DEF CloseChannel
    <2>12. CASE SelectDone
      BY <2>12 DEF SelectDone, Leave
    <2>13. CASE SelectLoopResult
      <3>1. Head(errCh) \in {"nil", "error"}
        BY <2>13, HeadTailProperties, SMT DEF SelectLoopResult
      <3>2. <<>> \in Seq({"nil", "error"}) /\ Len(<<>>) = 0
        BY EmptySeq
      <3> QED
        BY <2>13, <3>1, <3>2 DEF SelectLoopResult, Leave
    <2>14. CASE SelectChunk
      <3>1. /\ Head(chunksCh) \in 1..submitted
            /\ Tail(chunksCh) \in Seq(1..submitted)
            /\ Len(Tail(chunksCh)) = Len(chunksCh) - 1
        BY <2>1, <2>14, HeadTailProperties DEF SelectChunk
      <3>2. taken' \in Seq(1..submitted)
        BY <2>1, <2>14, <3>1, AppendProperties DEF SelectChunk
      <3> QED
        BY <2>1, <2>14, <3>1, <3>2, CapAssumption DEF SelectChunk
    <2>15. CASE SelectClosed
      BY <2>15 DEF SelectClosed, Leave
    <2>16. CASE PrintEvent
      <3>1. printed' \in Nat /\ left' \in 0..MaxMatches
        BY <2>16, BoundAssumption DEF PrintEvent
      <3>2. CASE Limit > 0 /\ printed' >= Limit
        <4>1. Limit > 0 => printed' <= Limit
          BY <2>16, BoundAssumption DEF PrintEvent
        <4> QED
          BY <2>16, <3>1, <3>2, <4>1 DEF PrintEvent, Leave
      <3>3. CASE ~ (Limit > 0 /\ printed' >= Limit)
        BY <2>16, <3>1, <3>3, BoundAssumption DEF PrintEvent
      <3> QED
        BY <3>2, <3>3
    <2>17. CASE PrintedAll
      BY <2>17 DEF PrintedAll
    <2>18. CASE CloseRuntime
      BY <2>18 DEF CloseRuntime
    <2>19. CASE Cancel
      BY <2>19 DEF Cancel
    <2>20. CASE RenderFails
      BY <2>20 DEF RenderFails, Leave
    <2>21. CASE UNCHANGED vars
      BY <2>21 DEF vars
    <2> QED
      BY <2>2, <2>3, <2>4, <2>5, <2>6, <2>7, <2>8, <2>9, <2>10, <2>11, <2>12,
         <2>13, <2>14, <2>15, <2>16, <2>17, <2>18, <2>19, <2>20, <2>21
         DEF Next, LoopStep, MainStep
  <1> QED
    BY <1>1, <1>2, PTL DEF Spec

\* The variables keep their types: neither channel ever holds more than fits,
\* and -limit is kept though a chunk holds several events (runWireCommand).
THEOREM TypeCorrect == Spec => []TypeOK
  <1>1. PipeInv => TypeOK
    BY DEF PipeInv
  <1> QED
    BY <1>1, PipeInductive, PTL

-----------------------------------------------------------------------------
(* The order of the chunks                                                 *)

\* A sequence of chunk numbers in the order of their submission.
InOrder(s) == \A i, j \in DOMAIN s : i < j => s[i] < s[j]

\* The chunk the loop holds, as a sequence.
Holding(h) == IF h = 0 THEN <<>> ELSE <<h>>

\* Moving the first chunk of one buffer to the end of the one before it does
\* not change the whole.
LEMMA MoveHead ==
    ASSUME NEW S, NEW a \in Seq(S), NEW b \in Seq(S), b # <<>>
    PROVE  /\ Head(b) \in S
           /\ Tail(b) \in Seq(S)
           /\ <<Head(b)>> \in Seq(S)
           /\ (a \o <<Head(b)>>) \o Tail(b) = a \o b
           /\ Append(a, Head(b)) \o Tail(b) = a \o b
  <1>1. /\ Head(b) \in S
        /\ Tail(b) \in Seq(S)
        /\ Len(Tail(b)) = Len(b) - 1
        /\ \A i \in 1..Len(Tail(b)) : Tail(b)[i] = b[i + 1]
    BY HeadTailProperties
  <1>2. Len(b) \in Nat \ {0}
    BY EmptySeq
  <1> DEFINE one == <<Head(b)>>
  <1>3. one \in Seq(S) /\ Len(one) = 1 /\ one[1] = b[1]
    BY <1>1
  <1> HIDE DEF one
  <1>4. one \o Tail(b) = b
    <2> DEFINE tail == Tail(b)
               c == one \o tail
    <2>1. one \in Seq(S) /\ tail \in Seq(S)
      BY <1>1, <1>3
    <2>2. Len(tail) = Len(b) - 1 /\ \A i \in 1..Len(tail) : tail[i] = b[i + 1]
      BY <1>1
    <2> HIDE DEF tail
    <2>3. /\ c \in Seq(S)
          /\ Len(c) = Len(one) + Len(tail)
          /\ \A i \in 1..Len(one) + Len(tail) :
                c[i] = IF i <= Len(one) THEN one[i] ELSE tail[i - Len(one)]
      BY <2>1, ConcatProperties
    <2> HIDE DEF c
    <2>4. Len(c) = Len(b)
      BY <1>2, <1>3, <2>2, <2>3
    <2>5. \A i \in 1..Len(b) : c[i] = b[i]
      BY <1>2, <1>3, <2>2, <2>3
    <2>6. c = b
      BY <2>3, <2>4, <2>5, SeqEqual
    <2> QED
      BY <2>6 DEF c, tail
  <1>5. Append(a, Head(b)) = a \o one
    BY <1>1, AppendIsConcat DEF one
  <1>6. (a \o one) \o Tail(b) = a \o (one \o Tail(b))
    BY SMTT(30), <1>1, <1>3, ConcatAssociative
  <1> QED
    BY <1>1, <1>3, <1>4, <1>5, <1>6 DEF one

\* What is added to the second buffer is added to the whole.
LEMMA AppendToSecond ==
    \A a, b \in Seq(Nat), x \in Nat : Append(a \o b, x) = a \o Append(b, x)
  <1> TAKE a, b \in Seq(Nat), x \in Nat
  <1> DEFINE one == <<x>>
             ab == a \o b
  <1>1. one \in Seq(Nat)
    OBVIOUS
  <1>2. ab \in Seq(Nat)
    BY ConcatProperties
  <1>3. Append(ab, x) = ab \o one
    BY <1>2, AppendIsConcat
  <1>4. Append(b, x) = b \o one
    BY AppendIsConcat
  <1> HIDE DEF one
  <1>5. (a \o b) \o one = a \o (b \o one)
    BY SMTT(30), <1>1, ConcatAssociative
  <1> QED
    BY <1>3, <1>4, <1>5

\* Chunks are numbers.
LEMMA ChunksAreNumbers ==
    ASSUME NEW n \in Nat, NEW s \in Seq(1..n)
    PROVE  s \in Seq(Nat)
  <1>1. 1..n \subseteq Nat
    OBVIOUS
  <1> QED
    BY <1>1, SeqMonotonic

\* Two buffers in a row are in order when each is and every chunk of the first
\* was submitted before every chunk of the second.
LEMMA ConcatInOrder ==
    ASSUME NEW n \in Nat, NEW a \in Seq(1..n), NEW b \in Seq(1..n)
    PROVE  InOrder(a \o b) <=>
              /\ InOrder(a) /\ InOrder(b)
              /\ \A i \in DOMAIN a, j \in DOMAIN b : a[i] < b[j]
  <1> DEFINE ab == a \o b
  <1>1. /\ ab \in Seq(1..n)
        /\ Len(ab) = Len(a) + Len(b)
        /\ \A i \in 1..Len(a) + Len(b) : ab[i] = IF i <= Len(a) THEN a[i]
                                                 ELSE b[i - Len(a)]
    BY ConcatProperties
  <1>2. /\ Len(a) \in Nat /\ Len(b) \in Nat
        /\ DOMAIN a = 1..Len(a)
        /\ DOMAIN b = 1..Len(b)
        /\ DOMAIN ab = 1..Len(a) + Len(b)
    BY <1>1, LenProperties
  <1> HIDE DEF ab
  <1>3. \A i \in DOMAIN a : i \in DOMAIN ab /\ ab[i] = a[i]
    BY <1>1, <1>2
  <1>4. ASSUME NEW j \in DOMAIN b
        PROVE  Len(a) + j \in DOMAIN ab /\ ab[Len(a) + j] = b[j]
    <2>1. /\ Len(a) + j \in 1..Len(a) + Len(b)
          /\ ~ (Len(a) + j <= Len(a))
          /\ (Len(a) + j) - Len(a) = j
      BY <1>2
    <2>2. ab[Len(a) + j] = b[(Len(a) + j) - Len(a)]
      BY <1>1, <2>1
    <2> QED
      BY <1>2, <2>1, <2>2
  <1>5. ASSUME InOrder(ab)
        PROVE  /\ InOrder(a) /\ InOrder(b)
               /\ \A i \in DOMAIN a, j \in DOMAIN b : a[i] < b[j]
    <2>1. InOrder(a)
      BY <1>3, <1>5 DEF InOrder
    <2>2. ASSUME NEW i \in DOMAIN b, NEW j \in DOMAIN b, i < j
          PROVE  b[i] < b[j]
      <3>1. Len(a) + i < Len(a) + j
        BY <1>2, <2>2
      <3> QED
        BY <1>4, <1>5, <3>1 DEF InOrder
    <2>3. ASSUME NEW i \in DOMAIN a, NEW j \in DOMAIN b
          PROVE  a[i] < b[j]
      <3>1. i < Len(a) + j
        BY <1>2
      <3> QED
        BY <1>3, <1>4, <1>5, <3>1 DEF InOrder
    <2> QED
      BY <2>1, <2>2, <2>3 DEF InOrder
  <1>6. ASSUME InOrder(a), InOrder(b),
               \A i \in DOMAIN a, j \in DOMAIN b : a[i] < b[j],
               NEW i \in DOMAIN ab, NEW j \in DOMAIN ab, i < j
        PROVE  ab[i] < ab[j]
    <2>1. CASE j <= Len(a)
      <3>1. i \in DOMAIN a /\ j \in DOMAIN a
        BY <1>2, <1>6, <2>1
      <3> QED
        BY <1>3, <1>6, <3>1 DEF InOrder
    <2>2. CASE i <= Len(a) /\ ~ (j <= Len(a))
      <3>1. i \in DOMAIN a /\ j - Len(a) \in DOMAIN b
        BY <1>2, <1>6, <2>2
      <3>2. ab[j] = b[j - Len(a)]
        BY <1>1, <1>2, <2>2
      <3> QED
        BY <1>3, <1>6, <3>1, <3>2
    <2>3. CASE ~ (i <= Len(a))
      <3>1. /\ i - Len(a) \in DOMAIN b /\ j - Len(a) \in DOMAIN b
            /\ i - Len(a) < j - Len(a)
        BY <1>2, <1>6, <2>3
      <3>2. ab[i] = b[i - Len(a)]
        BY <1>1, <1>2, <2>3
      <3>3. ~ (j <= Len(a))
        BY <1>2, <1>6, <2>3
      <3>4. ab[j] = b[j - Len(a)]
        BY <1>1, <1>2, <3>3
      <3> QED
        BY <1>6, <3>1, <3>2, <3>4 DEF InOrder
    <2> QED
      BY <1>2, <1>6, <2>1, <2>2, <2>3
  <1> QED
    BY <1>5, <1>6 DEF InOrder, ab

\* A chunk that falls out leaves the others in order.
LEMMA DropOne ==
    ASSUME NEW n \in Nat, NEW a \in Seq(1..n), NEW x \in Seq(1..n),
           NEW b \in Seq(1..n), InOrder((a \o x) \o b)
    PROVE  InOrder(a \o b)
  <1> DEFINE ax == a \o x
  <1>1. /\ ax \in Seq(1..n)
        /\ Len(ax) = Len(a) + Len(x)
        /\ \A i \in 1..Len(a) + Len(x) : ax[i] = IF i <= Len(a) THEN a[i]
                                                 ELSE x[i - Len(a)]
    BY ConcatProperties
  <1>2. /\ Len(a) \in Nat /\ Len(x) \in Nat
        /\ DOMAIN a = 1..Len(a)
        /\ DOMAIN ax = 1..Len(ax)
    BY <1>1, LenProperties
  <1>3. InOrder(ax) => InOrder(a)
    BY ConcatInOrder
  <1>4. ax \in Seq(1..n)
    BY <1>1
  <1> HIDE DEF ax
  <1>5. \A i \in DOMAIN a : i \in DOMAIN ax /\ ax[i] = a[i]
    BY <1>1, <1>2
  <1>6. InOrder(ax \o b)
    BY DEF ax
  <1>7. /\ InOrder(ax) /\ InOrder(b)
        /\ \A i \in DOMAIN ax, j \in DOMAIN b : ax[i] < b[j]
    BY <1>4, <1>6, ConcatInOrder
  <1>8. \A i \in DOMAIN a, j \in DOMAIN b : a[i] < b[j]
    BY <1>5, <1>7
  <1> QED
    BY <1>3, <1>7, <1>8, ConcatInOrder

\* The next chunk number keeps the order and the count.
LEMMA NextNumber ==
    ASSUME NEW n \in Nat, NEW s \in Seq(1..n), InOrder(s)
    PROVE  /\ InOrder(Append(s, n + 1))
           /\ s = [i \in 1..n |-> i]
                 => Append(s, n + 1) = [i \in 1..(n + 1) |-> i]
  <1> DEFINE t == Append(s, n + 1)
  <1>1. s \in Seq(1..(n + 1))
    BY StillSubmitted
  <1>2. /\ t \in Seq(1..(n + 1))
        /\ Len(t) = Len(s) + 1
        /\ \A i \in 1..Len(s) : t[i] = s[i]
        /\ t[Len(s) + 1] = n + 1
    BY <1>1, AppendProperties
  <1>3. /\ Len(s) \in Nat /\ DOMAIN s = 1..Len(s)
        /\ DOMAIN t = 1..Len(t)
        /\ \A i \in 1..Len(s) : s[i] \in 1..n
    BY <1>2, LenProperties, ElementOfSeq
  <1> HIDE DEF t
  <1>4. ASSUME NEW i \in DOMAIN t, NEW j \in DOMAIN t, i < j
        PROVE  t[i] < t[j]
    <2>1. i \in 1..Len(s) /\ t[i] = s[i] /\ s[i] \in 1..n
      BY <1>2, <1>3, <1>4
    <2>2. CASE j = Len(s) + 1
      BY <1>2, <2>1, <2>2
    <2>3. CASE j \in 1..Len(s)
      BY <1>2, <1>3, <1>4, <2>1, <2>3 DEF InOrder
    <2> QED
      BY <1>2, <1>3, <2>2, <2>3
  <1>5. ASSUME s = [i \in 1..n |-> i]
        PROVE  t = [i \in 1..(n + 1) |-> i]
    <2>1. Len(s) = n
      BY <1>3, <1>5
    <2>2. t \in [1..(n + 1) -> 1..(n + 1)]
      BY <1>2, <2>1, LenProperties
    <2>3. \A i \in 1..(n + 1) : t[i] = i
      BY <1>2, <1>5, <2>1
    <2> QED
      BY <2>2, <2>3
  <1> QED
    BY <1>4, <1>5 DEF t, InOrder

\* The types of what is on its way.
LEMMA WayType ==
    ASSUME PipeInv
    PROVE  /\ submitted \in Nat
           /\ taken \in Seq(1..submitted)
           /\ chunksCh \in Seq(1..submitted)
           /\ Holding(held) \in Seq(1..submitted)
           /\ ring \in Seq(1..submitted)
           /\ taken \o chunksCh \in Seq(1..submitted)
           /\ (taken \o chunksCh) \o Holding(held) \in Seq(1..submitted)
           /\ Way \in Seq(1..submitted)
           /\ Way = ((taken \o chunksCh) \o Holding(held)) \o ring
  <1>1. /\ submitted \in Nat
        /\ taken \in Seq(1..submitted)
        /\ chunksCh \in Seq(1..submitted)
        /\ ring \in Seq(1..submitted)
        /\ held \in 0..submitted
    BY BoundAssumption DEF PipeInv, TypeOK
  <1>2. Holding(held) \in Seq(1..submitted)
    <2>1. CASE held = 0
      BY <2>1, EmptySeq DEF Holding
    <2>2. CASE held \in 1..submitted
      <3>1. <<held>> \in Seq(1..submitted)
        BY <2>2
      <3>2. Holding(held) = <<held>>
        BY <1>1, <2>2 DEF Holding
      <3> QED
        BY <3>1, <3>2
    <2> QED
      BY <1>1, <2>1, <2>2
  <1>3. taken \o chunksCh \in Seq(1..submitted)
    BY <1>1, ConcatProperties
  <1>4. (taken \o chunksCh) \o Holding(held) \in Seq(1..submitted)
    BY <1>2, <1>3, ConcatProperties
  <1>5. ((taken \o chunksCh) \o Holding(held)) \o ring \in Seq(1..submitted)
    BY <1>1, <1>4, ConcatProperties
  <1> QED
    BY <1>1, <1>2, <1>3, <1>4, <1>5 DEF Way, Holding

\* The order of what is on its way, and nothing missing from it as long as the
\* context lives and the loop has not failed.
WayInv == PipeInv /\ NothingSkipped

\* Steps that leave every buffer alone may only end the promise of completeness.
LEMMA SameWay ==
    ASSUME PipeInv, NothingSkipped, Way' = Way, submitted' = submitted,
           ctxDone => ctxDone', failure # "none" => failure' # "none"
    PROVE  NothingSkipped'
  BY DEF NothingSkipped

\* Every chunk goes through the full channel or not at all: no step of the
\* kernel, the loop or the command reorders or repeats chunks, and only a failed
\* loop or a done context drops one (RunEventLoop, the chunk handler of
\* runWireCommand).
THEOREM WayInductive == Spec => []WayInv
  <1>1. Init => NothingSkipped
    <2> SUFFICES ASSUME Init PROVE NothingSkipped
      OBVIOUS
    <2>1. Way = <<>> /\ submitted = 0
      BY DEF Init, Way
    <2>2. [i \in 1..0 |-> i] = <<>>
      OBVIOUS
    <2> QED
      BY <2>1, <2>2 DEF NothingSkipped
  <1>2. PipeInv /\ PipeInv' /\ NothingSkipped /\ [Next]_vars => NothingSkipped'
    <2> SUFFICES ASSUME PipeInv, PipeInv', NothingSkipped, [Next]_vars
                 PROVE  NothingSkipped'
      OBVIOUS
    <2> DEFINE S == 1..submitted
               front == taken \o chunksCh
    <2>1. /\ submitted \in Nat
          /\ taken \in Seq(S) /\ chunksCh \in Seq(S)
          /\ Holding(held) \in Seq(S) /\ ring \in Seq(S)
          /\ front \in Seq(S)
          /\ front \o Holding(held) \in Seq(S)
          /\ Way \in Seq(S)
          /\ Way = (front \o Holding(held)) \o ring
      BY WayType
    <2>2. Way' = ((taken' \o chunksCh') \o Holding(held')) \o ring'
      BY DEF Way, Holding
    <2>3. /\ InOrder(Way)
          /\ (~ ctxDone /\ failure = "none") => Way = [i \in 1..submitted |-> i]
      BY DEF NothingSkipped, InOrder
    <2> HIDE DEF S, front
    <2>0. /\ taken \in Seq(S) /\ chunksCh \in Seq(S)
          /\ front \in Seq(S) /\ ring \in Seq(S)
      BY <2>1
    <2>4. CASE Submit
      <3>1. /\ UNCHANGED <<taken, chunksCh, held, ctxDone, failure>>
            /\ submitted' = submitted + 1
            /\ ring' = Append(ring, submitted + 1)
        BY <2>4 DEF Submit, loopVars, mainVars
      <3>2. /\ front \o Holding(held) \in Seq(1..(submitted + 1))
            /\ ring \in Seq(1..(submitted + 1))
            /\ Way \in Seq(1..(submitted + 1))
        BY <2>1, StillSubmitted DEF S
      <3>3. Way' = Append(Way, submitted + 1)
        <4> DEFINE a == front \o Holding(held)
        <4>1. submitted + 1 \in Nat
          BY <2>1
        <4>2. a \in Seq(Nat) /\ ring \in Seq(Nat)
          BY <2>1, <3>2, ChunksAreNumbers
        <4> HIDE DEF a
        <4>3. Append(a \o ring, submitted + 1) = a \o Append(ring, submitted + 1)
          BY <4>1, <4>2, AppendToSecond
        <4>4. Way = a \o ring
          BY <2>1 DEF a
        <4>5. Way' = a \o Append(ring, submitted + 1)
          BY <2>2, <3>1 DEF a, front
        <4> QED
          BY <4>3, <4>4, <4>5
      <3>4. /\ InOrder(Append(Way, submitted + 1))
            /\ Way = [i \in 1..submitted |-> i]
                  => Append(Way, submitted + 1) = [i \in 1..(submitted + 1) |-> i]
        BY <2>1, <2>3, NextNumber DEF S
      <3> QED
        BY ZenonT(60), <2>3, <3>1, <3>3, <3>4 DEF NothingSkipped, InOrder
    <2>5. CASE Read
      <3>1. /\ held = 0 /\ ring # <<>>
            /\ held' = Head(ring) /\ ring' = Tail(ring)
            /\ UNCHANGED <<taken, chunksCh, submitted, ctxDone, failure>>
        BY <2>5 DEF Read, PipeInv, mainVars
      <3>2. /\ Head(ring) \in S
            /\ (front \o <<Head(ring)>>) \o Tail(ring) = front \o ring
        BY SMTT(30), <2>0, <3>1, MoveHead
      <3>3. Holding(held) = <<>> /\ Holding(held') = <<Head(ring)>>
        BY <3>1, <3>2 DEF Holding, S
      <3>4. front \o <<>> = front
        BY <2>1, ConcatEmptySeq
      <3>5. Way' = Way
        BY <2>1, <2>2, <3>1, <3>2, <3>3, <3>4 DEF front
      <3> QED
        BY <3>1, <3>5, SameWay
    <2>6. CASE DecodeFails
      <3>1. /\ held = 0 /\ ring # <<>>
            /\ held' = held /\ ring' = Tail(ring)
            /\ failure' = "error"
            /\ UNCHANGED <<taken, chunksCh>>
        BY <2>6 DEF DecodeFails, PipeInv, mainVars
      <3> DEFINE first == <<Head(ring)>>
      <3>2. /\ Tail(ring) \in Seq(S)
            /\ first \in Seq(S)
            /\ (front \o first) \o Tail(ring) = front \o ring
        BY SMTT(30), <2>0, <3>1, MoveHead
      <3> HIDE DEF first
      <3>3. Holding(held) = <<>> /\ front \o <<>> = front
        BY <2>1, <3>1, ConcatEmptySeq DEF Holding
      <3>4. InOrder((front \o first) \o Tail(ring))
        BY <2>1, <2>3, <3>2, <3>3
      <3>5. InOrder(front \o Tail(ring))
        BY <2>1, <3>2, <3>4, DropOne DEF S
      <3>6. Way' = front \o Tail(ring)
        BY <2>2, <3>1, <3>3 DEF front
      <3> QED
        BY <3>1, <3>5, <3>6 DEF NothingSkipped, InOrder
    <2>7. CASE HandOver
      <3>1. /\ held # 0 /\ held' = 0
            /\ chunksCh' = Append(chunksCh, held)
            /\ UNCHANGED <<taken, ring, submitted, ctxDone, failure>>
        BY <2>7 DEF HandOver, PipeInv, kernelVars, mainVars
      <3>2. held \in S
        BY <3>1 DEF PipeInv, TypeOK, S
      <3>3. Holding(held) = <<held>> /\ Holding(held') = <<>>
        BY <3>1 DEF Holding
      <3>4. Append(front, held) = taken \o Append(chunksCh, held)
        <4>1. taken \in Seq(Nat) /\ chunksCh \in Seq(Nat) /\ held \in Nat
          BY <2>0, <2>1, <3>2, ChunksAreNumbers DEF S
        <4> QED
          BY <4>1, AppendToSecond DEF front
      <3>5. Append(front, held) = front \o <<held>>
        BY <2>1, <3>2, AppendIsConcat
      <3>6. /\ Append(front, held) \in Seq(S)
            /\ Append(front, held) \o <<>> = Append(front, held)
        BY <2>1, <3>2, AppendProperties, ConcatEmptySeq
      <3>7. Way' = Way
        BY <2>1, <2>2, <3>1, <3>3, <3>4, <3>5, <3>6
      <3> QED
        BY <3>1, <3>7, SameWay
    <2>8. CASE GiveUp
      <3>1. /\ held' = 0 /\ ctxDone /\ ctxDone' = ctxDone
            /\ UNCHANGED <<taken, chunksCh, ring>>
        BY <2>8 DEF GiveUp, kernelVars, mainVars
      <3>2. Holding(held') = <<>> /\ front \o <<>> = front
        BY <2>1, <3>1, ConcatEmptySeq DEF Holding
      <3>3. Way' = front \o ring
        BY <2>2, <3>1, <3>2 DEF front
      <3>4. InOrder(front \o ring)
        BY <2>1, <2>3, DropOne DEF S
      <3> QED
        BY <3>1, <3>3, <3>4 DEF NothingSkipped, InOrder
    <2>9. CASE SelectChunk
      <3>1. /\ chunksCh # <<>>
            /\ taken' = Append(taken, Head(chunksCh))
            /\ chunksCh' = Tail(chunksCh)
            /\ UNCHANGED <<held, ring, submitted, ctxDone, failure>>
        BY <2>9 DEF SelectChunk, kernelVars, loopVars
      <3>2. Append(taken, Head(chunksCh)) \o Tail(chunksCh) = front
        BY <2>0, <3>1, MoveHead DEF front
      <3>3. Way' = Way
        BY <2>1, <2>2, <3>1, <3>2 DEF front
      <3> QED
        BY <3>1, <3>3, SameWay
    <2>10. CASE ReadClosed \/ ReadFails
      BY SMTT(30), <2>10, SameWay DEF ReadClosed, ReadFails, Way, kernelVars, mainVars
    <2>11. CASE Signal \/ Report \/ CloseChannel
      BY SMTT(30), <2>11, SameWay
         DEF Signal, Report, CloseChannel, Way, kernelVars, loopVars, mainVars
    <2>12. CASE SelectDone \/ SelectLoopResult \/ SelectClosed \/ PrintEvent
      BY SMTT(30), <2>12, SameWay
         DEF SelectDone, SelectLoopResult, SelectClosed, PrintEvent, Leave, Way,
             kernelVars, loopVars
    <2>13. CASE PrintedAll \/ RenderFails \/ CloseRuntime \/ Cancel
      BY SMTT(30), <2>13, SameWay
         DEF PrintedAll, RenderFails, CloseRuntime, Cancel, Leave, Way,
             kernelVars, loopVars
    <2>14. CASE UNCHANGED vars
      BY <2>14, SameWay DEF vars, Way, kernelVars, loopVars, mainVars
    <2> QED
      BY <2>4, <2>5, <2>6, <2>7, <2>8, <2>9, <2>10, <2>11, <2>12, <2>13, <2>14
         DEF Next, LoopStep, MainStep
  <1> QED
    BY <1>1, <1>2, PipeInductive, PTL DEF Spec, WayInv

\* No chunk overtakes another, none is parsed twice, and while the context lives
\* and the loop works the parser misses none, however full the channel is.
THEOREM OrderCorrect == Spec => []NothingSkipped
  <1>1. WayInv => NothingSkipped
    BY DEF WayInv
  <1> QED
    BY <1>1, WayInductive, PTL

=============================================================================
