-------------------------- MODULE WalDecoderProofs --------------------------
(***************************************************************************)
(* Theorems about WalDecoder, for every page layout, every record and      *)
(* header content, every cap and every sender that the module's            *)
(* assumptions allow.                                                      *)
(***************************************************************************)
EXTENDS WalDecoder, FiniteSetTheorems, SequenceTheorems,
        WellFoundedInduction, TLAPS

-----------------------------------------------------------------------------
(* The layout of the WAL                                                   *)

\* Division with remainder: what % returns, and of which quotient.
LEMMA Remainder ==
    ASSUME NEW a \in Nat, NEW n \in Nat \ {0}
    PROVE  /\ a % n \in 0..(n - 1)
           /\ \E q \in Nat : a = q * n + (a % n)
<1>1. a % n \in 0..(n - 1)
    OBVIOUS
<1>2. a = n * (a \div n) + (a % n)
    OBVIOUS
<1>3. a \div n \in Nat
    OBVIOUS
<1>4. n * (a \div n) = (a \div n) * n
    BY <1>3
<1>5. QED
    BY <1>1, <1>2, <1>3, <1>4

\* The remainder of a multiple plus less than the divisor.
LEMMA RemainderOf ==
    ASSUME NEW q \in Nat, NEW n \in Nat \ {0}, NEW r \in 0..(n - 1)
    PROVE  (q * n + r) % n = r
    OBVIOUS

\* The sizes of the layout, as the proofs below use them.
LEMMA Sizes ==
    /\ PageSize \in Nat \ {0}
    /\ RecordHeader \in Nat \ {0}
    /\ Align \in Nat \ {0}
    /\ MaxRecords \in Nat \ {0}
    /\ MaxLSN \in Nat
    /\ BufferCap \in Nat /\ BufferCap >= 2 * PageSize
    /\ SegmentSize \in Nat \ {0}
<1>1. PageSize \in Nat \ {0}
    BY LayoutAssumption
<1>2. QED
    BY <1>1, LayoutAssumption

\* A header is not empty and leaves room on its page.
LEMMA HeaderFits ==
    ASSUME NEW p
    PROVE  HeaderSize(p) \in 1..(PageSize - 1)
    BY LayoutAssumption DEF HeaderSize

\* The next page starts behind x, at most a page away.
LEMMA NextPageIsNear ==
    ASSUME NEW x \in Nat
    PROVE  /\ NextPage(x) \in (x + 1)..(x + PageSize)
           /\ \E q \in Nat : NextPage(x) = q * PageSize + PageSize
<1>1. /\ x % PageSize \in 0..(PageSize - 1)
      /\ \E q \in Nat : x = q * PageSize + (x % PageSize)
    BY Remainder, Sizes
<1>2. PICK q \in Nat : x = q * PageSize + (x % PageSize)
    BY <1>1
<1>3. q * PageSize \in Nat
    BY Sizes
<1> DEFINE m == q * PageSize  r == x % PageSize
<1>4. m \in Nat /\ r \in 0..(PageSize - 1) /\ x = m + r
      /\ NextPage(x) = x + PageSize - r
    BY <1>1, <1>2, <1>3 DEF NextPage
<1>5. NextPage(x) = m + PageSize /\ NextPage(x) \in (x + 1)..(x + PageSize)
    <2> HIDE DEF m, r
    <2> QED BY <1>4, Sizes
<1>6. QED
    BY <1>5

-----------------------------------------------------------------------------
(* Where a stretch of logical bytes ends                                   *)

\* What a reader from x takes is part of a finite stretch.
LEMMA TakenIsFinite ==
    ASSUME NEW x \in Nat, NEW y \in Int
    PROVE  /\ Taken(x, y) \subseteq x..(y - 1)
           /\ IsFiniteSet(Taken(x, y))
           /\ Cardinality(Taken(x, y)) \in Nat
<1>1. Taken(x, y) \subseteq x..(y - 1)
    BY DEF Taken, Data
<1>2. IsFiniteSet(x..(y - 1))
    BY FS_Interval
<1>3. IsFiniteSet(Taken(x, y))
    BY <1>1, <1>2, FS_Subset
<1>4. QED
    BY <1>1, <1>3, FS_CardinalityType

\* One more byte is one more taken, or none.
LEMMA TakenGrows ==
    ASSUME NEW x \in Nat, NEW y \in Nat, y >= x
    PROVE  \/ /\ y \in Taken(x, y + 1)
              /\ Cardinality(Taken(x, y + 1)) = Cardinality(Taken(x, y)) + 1
           \/ Cardinality(Taken(x, y + 1)) = Cardinality(Taken(x, y))
<1>1. x..((y + 1) - 1) = (x..(y - 1)) \union {y}
    OBVIOUS
<1>2. y \notin x..(y - 1)
    OBVIOUS
<1>3. CASE y \in Taken(x, y + 1)
    <2>1. Taken(x, y + 1) = Taken(x, y) \union {y}
        BY <1>1, <1>2, <1>3 DEF Taken, Data
    <2>2. y \notin Taken(x, y)
        BY <1>2 DEF Taken, Data
    <2>3. IsFiniteSet(Taken(x, y))
        BY TakenIsFinite
    <2>4. Cardinality(Taken(x, y) \union {y}) = Cardinality(Taken(x, y)) + 1
        BY <2>2, <2>3, FS_AddElement
    <2>5. QED
        BY <1>3, <2>1, <2>4
<1>4. CASE y \notin Taken(x, y + 1)
    <2>1. Taken(x, y + 1) = Taken(x, y)
        BY <1>1, <1>2, <1>4 DEF Taken, Data
    <2>2. QED
        BY <2>1
<1>5. QED
    BY <1>3, <1>4

\* The last byte of a page is no header: `len' pages hold `len' bytes.
LEMMA EnoughIsTaken ==
    ASSUME NEW x \in Nat, NEW len \in Nat
    PROVE  Cardinality(Taken(x, x + (len + 1) * PageSize)) >= len
<1> DEFINE y == x + (len + 1) * PageSize
           last == [k \in 1..len |-> NextPage(x) + (k - 1) * PageSize - 1]
<1>1. PICK q \in Nat : NextPage(x) = q * PageSize + PageSize
    BY NextPageIsNear
<1>2. NextPage(x) \in (x + 1)..(x + PageSize)
    BY NextPageIsNear
<1>3. y \in Nat
    BY Sizes
<1>4. ASSUME NEW k \in 1..len
      PROVE  last[k] \in Taken(x, y)
    <2> DEFINE z == last[k]  ahead == (k - 1) * PageSize
    <2>1. /\ ahead \in Nat
          /\ ahead + PageSize <= len * PageSize
          /\ y = x + len * PageSize + PageSize
          /\ len * PageSize \in Nat
        <3>1. k - 1 \in Nat /\ len - k \in Nat
            OBVIOUS
        <3>2. len * PageSize = ahead + PageSize + (len - k) * PageSize
            BY Sizes
        <3>3. (len - k) * PageSize \in Nat /\ ahead \in Nat
            BY <3>1, Sizes
        <3>4. QED
            BY <3>2, <3>3, Sizes
    <2>2. z = NextPage(x) + ahead - 1
        OBVIOUS
    <2>3. z \in x..(y - 1)
        <3> HIDE DEF z, y, ahead
        <3> QED BY <1>2, <1>3, <2>1, <2>2, Sizes
    <2>4. z % PageSize = PageSize - 1
        <3>1. z = (q + k - 1) * PageSize + (PageSize - 1)
            BY <1>1, Sizes
        <3>2. q + k - 1 \in Nat /\ PageSize - 1 \in 0..(PageSize - 1)
            BY Sizes
        <3> HIDE DEF z
        <3>3. QED
            BY <3>1, <3>2, RemainderOf, Sizes
    <2>5. z % PageSize >= HeaderSize(z - (z % PageSize))
        <3> HIDE DEF z
        <3> QED BY <2>4, HeaderFits, Sizes
    <2> HIDE DEF z, y
    <2>6. z \in Taken(x, y)
        BY <2>3, <2>5 DEF Taken, Data, IsData
    <2>7. QED
        BY <2>6 DEF z
<1>5. ASSUME NEW j \in 1..len, NEW k \in 1..len, last[j] = last[k]
      PROVE  j = k
    <2>1. (j - 1) * PageSize = (k - 1) * PageSize
        <3> DEFINE a == (j - 1) * PageSize  b == (k - 1) * PageSize
        <3>1. last[j] = NextPage(x) + a - 1 /\ last[k] = NextPage(x) + b - 1
            OBVIOUS
        <3>2. a \in Int /\ b \in Int
            BY Sizes
        <3>3. NextPage(x) \in Int
            BY <1>2
        <3> HIDE DEF last, a, b
        <3>4. NextPage(x) + a - 1 = NextPage(x) + b - 1
            BY <1>5, <3>1
        <3>5. a = b
            BY <3>2, <3>3, <3>4
        <3>6. QED
            BY <3>5 DEF a, b
    <2>2. QED
        BY <2>1, Sizes
<1> HIDE DEF y, last
<1>6. last \in [1..len -> Taken(x, y)]
    BY <1>4 DEF last
<1>7. last \in Injection(1..len, Taken(x, y))
    BY <1>5, <1>6 DEF Injection, IsInjective
<1>8. IsFiniteSet(Taken(x, y)) /\ Cardinality(Taken(x, y)) \in Nat
    BY <1>3, TakenIsFinite
<1>9. Cardinality(1..len) <= Cardinality(Taken(x, y))
    BY <1>7, <1>8, FS_Injection
<1>10. Cardinality(1..len) = len
    BY FS_Interval
<1>11. QED
    BY <1>8, <1>9, <1>10 DEF y

\* A set of numbers has a least one.
LEMMA LeastOf ==
    ASSUME NEW T, T \subseteq Nat, T # {}
    PROVE  \E m \in T : \A n \in T : m <= n
<1>1. PICK m \in T : \A n \in T : ~ (<<n, m>> \in OpToRel(<, Nat))
    BY WFMin, NatLessThanWellFounded
<1>2. \A n \in T : ~ (n < m)
    BY <1>1 DEF OpToRel
<1>3. QED
    BY <1>2

\* EndOf is what its definition says, whatever a header announces: the `len'
\* logical bytes from x on end somewhere.
LEMMA EndIs ==
    ASSUME NEW x \in LSN, NEW len \in Lengths, len # 0
    PROVE  /\ EndOf(x, len) \in Nat /\ EndOf(x, len) > x
           /\ EndOf(x, len) - 1 \in Taken(x, EndOf(x, len))
           /\ Cardinality(Taken(x, EndOf(x, len))) = len
<1>1. x \in Nat /\ len \in Nat \ {0}
    BY Sizes, ContentAssumption DEF LSN, Lengths
<1> DEFINE B == x + (len + 1) * PageSize
           C(y) == Cardinality(Taken(x, y))
           T == {y \in Nat : y >= x /\ y <= B /\ C(y) >= len}
<1>2. B \in Nat /\ B >= x
    <2>1. (len + 1) * PageSize \in Nat
        BY <1>1, Sizes
    <2>2. QED
        BY <1>1, <2>1
<1>3. B \in T
    BY <1>1, <1>2, EnoughIsTaken
<1>4. PICK y \in T : \A n \in T : y <= n
    BY <1>3, LeastOf
<1>5. C(x) = 0
    <2>1. Taken(x, x) = {}
        BY <1>1 DEF Taken, Data
    <2>2. QED
        BY <2>1, FS_EmptySet
<1>6. y \in Nat /\ y > x /\ y <= B /\ C(y) >= len
    BY <1>1, <1>4, <1>5
<1> DEFINE w == y - 1
<1>7. w \in Nat /\ w >= x /\ w <= B /\ y = w + 1
    BY <1>1, <1>2, <1>6
<1>8. w \notin T
    BY <1>4, <1>7
<1>9. C(w) < len /\ C(w) \in Nat
    <2>1. C(w) \in Nat
        BY <1>1, <1>7, TakenIsFinite
    <2>2. QED
        BY <1>1, <1>7, <1>8, <2>1
<1> HIDE DEF w, B, T
<1>10. w \in Taken(x, w + 1) /\ C(w + 1) = C(w) + 1
    <2>1. \/ w \in Taken(x, w + 1) /\ C(w + 1) = C(w) + 1
          \/ C(w + 1) = C(w)
        BY <1>1, <1>7, TakenGrows
    <2>2. C(w + 1) # C(w)
        BY <1>1, <1>6, <1>7, <1>9
    <2>3. QED
        BY <2>1, <2>2
<1>11. y - 1 \in Taken(x, y) /\ Cardinality(Taken(x, y)) = len
    BY <1>1, <1>6, <1>7, <1>9, <1>10
<1>12. y \in (x + 1)..B
    BY <1>1, <1>2, <1>6
<1> DEFINE E == CHOOSE e \in (x + 1)..B :
                   e - 1 \in Taken(x, e) /\ Cardinality(Taken(x, e)) = len
<1>13. /\ E \in (x + 1)..B
       /\ E - 1 \in Taken(x, E) /\ Cardinality(Taken(x, E)) = len
    BY <1>11, <1>12
<1>14. EndOf(x, len) = E
    <2>1. <<x, len>> \in LSN \X Lengths /\ <<x, len>>[1] = x /\ <<x, len>>[2] = len
        OBVIOUS
    <2>2. QED
        BY <2>1 DEF EndOf, Ends, B
<1> HIDE DEF E
<1>15. E \in Nat /\ E > x
    BY <1>1, <1>2, <1>13
<1>16. QED
    BY <1>13, <1>14, <1>15

\* They end beyond x.
LEMMA EndIsThere ==
    ASSUME NEW x \in LSN, NEW len \in Lengths, len # 0
    PROVE  EndOf(x, len) \in Nat /\ EndOf(x, len) > x
BY EndIs

-----------------------------------------------------------------------------
(* Windows of the stream                                                   *)

\* `bytes' are those the stream holds from `start' on.
IsWindow(start, bytes) ==
    /\ start \in LSN
    /\ bytes \in Seq(LSN)
    /\ start + Len(bytes) \in LSN
    /\ \A i \in 1..Len(bytes) : bytes[i] = start + i - 1

\* The cap, or one message into an empty buffer.
Bounded(bytes) ==
    \/ Len(bytes) <= BufferCap
    \/ \E len \in sender.sizes : Len(bytes) <= len

\* A message is a window.
LEMMA MessageIsWindow ==
    ASSUME NEW lsn \in Nat, NEW len \in Nat, lsn + len <= MaxLSN
    PROVE  IsWindow(lsn, Bytes(lsn, len)) /\ Len(Bytes(lsn, len)) = len
<1>1. lsn \in LSN /\ lsn + len \in LSN
    BY Sizes DEF LSN
<1>2. \A i \in 1..len : lsn + i - 1 \in LSN
    BY Sizes DEF LSN
<1>3. Bytes(lsn, len) \in [1..len -> LSN]
    BY <1>2 DEF Bytes
<1>4. Bytes(lsn, len) \in Seq(LSN) /\ Len(Bytes(lsn, len)) = len
    BY <1>3
<1>5. \A i \in 1..len : Bytes(lsn, len)[i] = lsn + i - 1
    BY DEF Bytes
<1>6. QED
    BY <1>1, <1>4, <1>5 DEF IsWindow

\* What is left of a window without its first `cut' bytes is a window.
LEMMA TailIsWindow ==
    ASSUME NEW start, NEW bytes, IsWindow(start, bytes),
           NEW cut \in 0..Len(bytes)
    PROVE  /\ IsWindow(start + cut, SubSeq(bytes, cut + 1, Len(bytes)))
           /\ Len(SubSeq(bytes, cut + 1, Len(bytes))) = Len(bytes) - cut
<1> DEFINE n == Len(bytes)
           tail == SubSeq(bytes, cut + 1, n)
<1>1. /\ start \in LSN /\ bytes \in Seq(LSN) /\ start + n \in LSN
      /\ \A i \in 1..n : bytes[i] = start + i - 1
    BY DEF IsWindow
<1>2. n \in Nat /\ cut \in Nat /\ cut <= n
    BY <1>1, LenProperties
<1>3. \A i \in (cut + 1)..n : bytes[i] \in LSN
    <2>1. \A i \in 1..n : bytes[i] \in LSN
        BY <1>1, ElementOfSeq
    <2> HIDE DEF n
    <2>2. QED
        BY <1>2, <2>1
<1> HIDE DEF n
<1>4. /\ tail \in Seq(LSN)
      /\ Len(tail) = IF cut + 1 <= n THEN n - (cut + 1) + 1 ELSE 0
      /\ \A i \in 1..(n - (cut + 1) + 1) : tail[i] = bytes[(cut + 1) + i - 1]
    <2>1. cut + 1 \in Int /\ n \in Int
        BY <1>2
    <2>2. QED
        BY <1>3, <2>1, SubSeqProperties
<1> HIDE DEF tail
<1>5. Len(tail) = n - cut
    BY <1>2, <1>4
<1>6. \A i \in 1..(n - cut) : tail[i] = (start + cut) + i - 1
    <2>1. TAKE i \in 1..(n - cut)
    <2>2. i \in 1..(n - (cut + 1) + 1) /\ (cut + 1) + i - 1 = cut + i
        BY <1>2
    <2>3. cut + i \in 1..n
        BY <1>2
    <2>4. tail[i] = bytes[cut + i]
        BY <1>4, <2>2
    <2>5. bytes[cut + i] = start + (cut + i) - 1
        BY <1>1, <2>3
    <2>6. start \in Int
        BY <1>1 DEF LSN
    <2>7. QED
        BY <1>2, <2>4, <2>5, <2>6
<1>7. start + cut \in LSN /\ (start + cut) + (n - cut) \in LSN
    BY <1>1, <1>2, Sizes DEF LSN
<1>8. QED
    BY <1>4, <1>5, <1>6, <1>7 DEF IsWindow, tail, n

\* Two windows of which the second starts where the first ends are one.
LEMMA JoinIsWindow ==
    ASSUME NEW start, NEW a, NEW b,
           IsWindow(start, a), IsWindow(start + Len(a), b)
    PROVE  IsWindow(start, a \o b) /\ Len(a \o b) = Len(a) + Len(b)
<1> DEFINE m == Len(a)  n == Len(b)  ab == a \o b
<1>1. /\ start \in LSN /\ a \in Seq(LSN) /\ b \in Seq(LSN)
      /\ (start + m) + n \in LSN
      /\ \A i \in 1..m : a[i] = start + i - 1
      /\ \A i \in 1..n : b[i] = (start + m) + i - 1
    BY DEF IsWindow
<1>2. m \in Nat /\ n \in Nat /\ start \in Nat
    BY <1>1, LenProperties, Sizes DEF LSN
<1>3. /\ ab \in Seq(LSN) /\ Len(ab) = m + n
      /\ \A i \in 1..(m + n) : ab[i] = IF i <= m THEN a[i] ELSE b[i - m]
    BY <1>1, ConcatProperties
<1> HIDE DEF m, n, ab
<1>4. \A i \in 1..(m + n) : ab[i] = start + i - 1
    <2>1. TAKE i \in 1..(m + n)
    <2>2. CASE i <= m
        BY SMTT(30), <1>1, <1>2, <1>3, <2>2
    <2>3. CASE ~ (i <= m)
        <3>1. i - m \in 1..n /\ (start + m) + (i - m) - 1 = start + i - 1
            BY <1>2, <2>3
        <3>2. ab[i] = b[i - m]
            BY <1>3, <2>3
        <3>3. QED
            BY <1>1, <3>1, <3>2
    <2>4. QED
        BY <2>2, <2>3
<1>5. start + (m + n) \in LSN
    BY <1>1, <1>2 DEF LSN
<1>6. QED
    BY <1>1, <1>3, <1>4, <1>5 DEF IsWindow, m, n, ab

-----------------------------------------------------------------------------
(* The inductive invariant                                                 *)

\* The decoder's own state: the buffer is a window, and so is the one that a
\* preview has put aside.
BufferInv ==
    /\ sender \in Senders
    /\ IsWindow(bufferStart, buffer)
    /\ Bounded(buffer)
    /\ synced \in BOOLEAN
    /\ pc \in {"idle", "consume"}
    /\ pc = "idle" => original = NoCopy
    /\ original # NoCopy =>
          /\ original \in [start : LSN, bytes : Seq(LSN), synced : BOOLEAN]
          /\ IsWindow(original.start, original.bytes)
          /\ Bounded(original.bytes)
    /\ offset \in 0..Len(buffer)

\* What came and what was reported lies in the stream.
StreamInv ==
    /\ found \in 0..MaxRecords
    /\ sent \in LSN
    /\ emitted \in Seq([lsn : LSN, end : LSN, preview : BOOLEAN])
    /\ ends \subseteq LSN
    /\ dropped \subseteq LSN

DecoderInv == BufferInv /\ StreamInv


\* Where an iteration of consume stands.
LEMMA HereIsThere ==
    ASSUME BufferInv, InLoop
    PROVE  /\ Here \in LSN /\ Here \in Nat
           /\ Len(buffer) \in Nat /\ offset \in Nat
           /\ Left \in Nat /\ Left = Len(buffer) - offset
           /\ bufferStart \in Nat /\ Here = bufferStart + offset
           /\ offset < Len(buffer) /\ BufferEnd \in LSN
           /\ BufferEnd = bufferStart + Len(buffer)
<1>1. /\ bufferStart \in LSN /\ buffer \in Seq(LSN)
      /\ bufferStart + Len(buffer) \in LSN
      /\ offset \in 0..Len(buffer) /\ offset < Len(buffer)
    BY DEF BufferInv, IsWindow, InLoop
<1>2. Len(buffer) \in Nat
    BY <1>1, LenProperties
<1>3. QED
    BY <1>1, <1>2, Sizes DEF LSN, Here, Left, BufferEnd

\* A record that parses ends inside the buffer.
LEMMA ParsedIsThere ==
    ASSUME BufferInv, InLoop, Parse(Here) = "ok"
    PROVE  EndOf(Here, Reads[Here]) - bufferStart \in offset..Len(buffer)
<1> DEFINE end == EndOf(Here, Reads[Here])
<1>1. Reads[Here] # 0 /\ Collect(Here, Reads[Here]) = "ok"
    BY DEF Parse
<1>2. Here \in LSN
    BY HereIsThere
<1>3. Reads[Here] \in Lengths
    BY <1>2 DEF Lengths
<1>4. end \in Nat /\ end > Here
    BY <1>1, <1>2, <1>3, EndIsThere
<1>5. BufferEnd >= end
    BY <1>1 DEF Collect
<1> HIDE DEF end
<1>6. end - bufferStart \in offset..Len(buffer)
    BY <1>4, <1>5, HereIsThere DEF LSN
<1>7. QED
    BY <1>6 DEF end

\* What is left of a record behind a page header is a number of bytes.
LEMMA RemLenIsNat ==
    ASSUME NEW p \in Nat
    PROVE  RemLen(p) \in Nat
<1> DEFINE cut == {r \in Records : r < p /\ p < EndOf(r, Reads[r])}
           record == CHOOSE r \in cut : TRUE
           end == EndOf(record, Reads[record])
<1>1. CASE cut = {}
    BY <1>1 DEF RemLen
<1>2. CASE cut # {}
    <2>1. record \in cut
        BY <1>2
    <2>2. record \in LSN /\ Reads[record] > 0 /\ record \in Records
        BY <2>1, ContentAssumption
    <2>3. Reads[record] \in Lengths
        BY <2>2 DEF Lengths
    <2>4. end \in Nat
        BY <2>2, <2>3, EndIsThere, ContentAssumption
    <2> HIDE DEF end
    <2>5. Data(p, end) \subseteq p..(end - 1)
        BY DEF Data
    <2>6. IsFiniteSet(p..(end - 1))
        BY <2>4, FS_Interval
    <2>7. Cardinality(Data(p, end)) \in Nat
        BY <2>5, <2>6, FS_Subset, FS_CardinalityType
    <2>8. RemLen(p) = Cardinality(Data(p, end))
        BY <1>2 DEF RemLen, end
    <2>9. QED
        BY <2>7, <2>8
<1>3. QED
    BY <1>1, <1>2

\* The next page is ahead.
LEMMA AheadIsNat ==
    ASSUME BufferInv, InLoop
    PROVE  NextPage(Here) - Here \in Nat
<1>1. Here \in Nat
    BY HereIsThere
<1>2. NextPage(Here) \in (Here + 1)..(Here + PageSize)
    BY <1>1, NextPageIsNear
<1>3. QED
    BY <1>1, <1>2, Sizes

\* A skip goes on inside the buffer, or leaves.
LEMMA SkipStays ==
    ASSUME BufferInv, InLoop, NEW skip \in Nat, NEW isSynced, Skip(skip, isSynced)
    PROVE  \E c \in offset..Len(buffer) : GoOn(c, isSynced) \/ Leave(c, isSynced)
<1>1. CASE skip > Left
    <2>1. Leave(offset, isSynced)
        BY <1>1 DEF Skip
    <2>2. offset \in offset..Len(buffer)
        BY HereIsThere
    <2>3. QED
        BY <2>1, <2>2
<1>2. CASE ~ (skip > Left)
    <2>1. GoOn(offset + skip, isSynced)
        BY <1>2 DEF Skip
    <2>2. offset + skip \in offset..Len(buffer)
        BY <1>2, HereIsThere
    <2>3. QED
        BY <2>1, <2>2
<1>3. QED
    BY <1>1, <1>2

\* Every iteration of consume moves on inside the buffer, or leaves from a place
\* in it; it reports at most one record, which ends where the iteration does, or
\* at the end of a preview.
ConsumeMove ==
    /\ pc = "consume"
    /\ UNCHANGED <<sender, sent, ends, dropped>>
    /\ \E c \in offset..Len(buffer), s \in BOOLEAN :
          \/ /\ GoOn(c, s) \/ Leave(c, s)
             /\ UNCHANGED <<found, emitted>>
          \/ /\ InLoop
             /\ \/ GoOn(c, s) /\ Emit(bufferStart + c)
                \/ Leave(c, s) /\ allowPartial /\ Emit(BufferEnd)

\* Every branch of consume goes on or leaves, and reports one record at most.
LEMMA ConsumeMoves ==
    ASSUME BufferInv, Consume
    PROVE  ConsumeMove
<1> USE DEF ConsumeMove
<1>1. Len(buffer) \in Nat /\ offset \in 0..Len(buffer) /\ synced \in BOOLEAN
    BY LenProperties DEF BufferInv, IsWindow
<1>2. offset \in offset..Len(buffer) /\ pc = "consume"
    <2>1. offset \in offset..Len(buffer)
        BY <1>1
    <2>2. pc = "consume"
        BY DEF Consume, LoopEnds, AtPage, Resync, Pad, NeedMore, BadRecord,
               GoodRecord, AtRecord, InLoop
    <2>3. QED
        BY <2>1, <2>2
<1>3. CASE LoopEnds
    BY <1>1, <1>2, <1>3 DEF LoopEnds
<1>4. CASE AtPage
    <2> DEFINE after == offset + HeaderSize(Here)
               rest == PageSize - HeaderSize(Here)
               tail == RemLen(Here)
               least == IF tail < rest THEN tail ELSE rest
    <2>1. InLoop /\ UNCHANGED <<sender, found, sent, emitted, ends, dropped>>
        BY <1>4 DEF AtPage
    <2>2. HeaderSize(Here) \in 1..(PageSize - 1)
        BY HeaderFits
    <2>3. tail \in Nat
        BY <2>1, HereIsThere, RemLenIsNat
    <2>4. \/ Left < HeaderSize(Here) /\ Leave(offset, synced)
          \/ Left >= HeaderSize(Here) /\ GoOn(after, TRUE)
          \/ Left >= HeaderSize(Here) /\ Leave(after, TRUE)
          \/ /\ Left >= HeaderSize(Here) /\ PageIsThere(after)
             /\ GoOn(after + least, TRUE)
        BY <1>4 DEF AtPage
    <2>5. Left >= HeaderSize(Here) => after \in offset..Len(buffer)
        BY <2>1, <2>2, HereIsThere
    <2>6. Left >= HeaderSize(Here) /\ PageIsThere(after) =>
              after + least \in offset..Len(buffer)
        <3> HIDE DEF tail
        <3> QED BY SMTT(30), <2>1, <2>2, <2>3, HereIsThere, Sizes DEF PageIsThere
    <2> HIDE DEF after, least
    <2>7. TRUE \in BOOLEAN
        OBVIOUS
    <2>8. QED
        BY <1>1, <1>2, <2>1, <2>4, <2>5, <2>6, <2>7
<1>5. CASE Resync
    <2>1. InLoop /\ UNCHANGED <<sender, found, sent, emitted, ends, dropped>>
        BY <1>5 DEF Resync
    <2>2. NextPage(Here) - Here \in Nat
        BY <2>1, AheadIsNat
    <2>3. Skip(NextPage(Here) - Here, synced)
        BY <1>5 DEF Resync
    <2>4. PICK c \in offset..Len(buffer) : GoOn(c, synced) \/ Leave(c, synced)
        BY <2>1, <2>2, <2>3, SkipStays
    <2>5. QED
        BY <1>1, <1>2, <2>1, <2>4
<1>6. CASE Pad
    <2>1. InLoop /\ UNCHANGED <<sender, found, sent, emitted, ends, dropped>>
        BY <1>6 DEF Pad
    <2>2. Here % Align \in 0..(Align - 1)
        BY <2>1, HereIsThere, Remainder, Sizes
    <2>3. Align - (Here % Align) \in Nat
        BY <2>2, Sizes
    <2>4. Skip(Align - (Here % Align), synced)
        BY <1>6 DEF Pad
    <2>5. PICK c \in offset..Len(buffer) : GoOn(c, synced) \/ Leave(c, synced)
        BY <2>1, <2>3, <2>4, SkipStays
    <2>6. QED
        BY <1>1, <1>2, <2>1, <2>5
<1>7. CASE NeedMore
    <2>1. InLoop /\ Leave(offset, synced)
        BY <1>7 DEF NeedMore, AtRecord
    <2>2. UNCHANGED <<sender, sent, ends, dropped>>
        BY <1>7 DEF NeedMore
    <2>3. UNCHANGED <<found, emitted>> \/ (allowPartial /\ Emit(BufferEnd))
        BY <1>7 DEF NeedMore
    <2>4. QED
        BY <1>1, <1>2, <2>1, <2>2, <2>3
<1>8. CASE BadRecord
    <2>1. InLoop /\ UNCHANGED <<sender, found, sent, emitted, ends, dropped>>
        BY <1>8 DEF BadRecord, AtRecord
    <2>2. NextPage(Here) - Here \in Nat
        BY <2>1, AheadIsNat
    <2>3. Skip(NextPage(Here) - Here, FALSE)
        BY <1>8 DEF BadRecord
    <2>4. PICK c \in offset..Len(buffer) : GoOn(c, FALSE) \/ Leave(c, FALSE)
        BY <2>1, <2>2, <2>3, SkipStays
    <2>5. FALSE \in BOOLEAN
        OBVIOUS
    <2>6. QED
        BY <1>2, <2>1, <2>4, <2>5
<1>9. CASE GoodRecord
    <2> DEFINE end == EndOf(Here, Reads[Here])
               c == end - bufferStart
    <2>1. InLoop /\ Parse(Here) = "ok"
        BY <1>9 DEF GoodRecord, AtRecord
    <2>2. c \in offset..Len(buffer)
        BY <2>1, ParsedIsThere
    <2>3. Emit(end) /\ GoOn(c, TRUE) /\ UNCHANGED <<sender, sent, ends, dropped>>
        BY <1>9 DEF GoodRecord
    <2>4. bufferStart + c = end
        <3>1. bufferStart \in Nat
            BY <2>1, HereIsThere
        <3>2. end \in Nat
            <4>1. Here \in LSN /\ Reads[Here] # 0
                BY <2>1, HereIsThere DEF Parse
            <4>2. Reads[Here] \in Lengths
                BY <4>1 DEF Lengths
            <4>3. QED
                BY <4>1, <4>2, EndIsThere
        <3> HIDE DEF end
        <3>3. QED
            BY <3>1, <3>2
    <2> HIDE DEF end, c
    <2>5. Emit(bufferStart + c)
        BY <2>3, <2>4
    <2>6. TRUE \in BOOLEAN
        OBVIOUS
    <2>7. QED
        BY <1>2, <2>1, <2>2, <2>3, <2>5, <2>6
<1>10. QED
    BY <1>3, <1>4, <1>5, <1>6, <1>7, <1>8, <1>9 DEF Consume

-----------------------------------------------------------------------------
(* append keeps a window                                                   *)

\* A message that does not touch the buffer replaces it.
Replaces == buffer = <<>> \/ sent > BufferEnd \/ sent < bufferStart

LatestEnd(len) == IF sent + len > BufferEnd THEN sent + len ELSE BufferEnd

\* The buffer after a message, before the cap, is a window that ends where the
\* message or the buffer does.
LEMMA AppendedIsWindow ==
    ASSUME BufferInv, NEW len \in Nat, sent \in Nat, sent + len <= MaxLSN
    PROVE  LET b == Appended(sent, len)
           IN  /\ IsWindow(b.start, b.bytes)
               /\ b.synced \in BOOLEAN
               /\ IF Replaces
                  THEN b.start = sent /\ Len(b.bytes) = len
                  ELSE /\ b.start = bufferStart
                       /\ b.start + Len(b.bytes) = LatestEnd(len)
<1> DEFINE message == Bytes(sent, len)
<1>1. IsWindow(sent, message) /\ Len(message) = len
    BY MessageIsWindow
<1>2. /\ IsWindow(bufferStart, buffer) /\ synced \in BOOLEAN
      /\ bufferStart \in Nat /\ Len(buffer) \in Nat
      /\ BufferEnd = bufferStart + Len(buffer) /\ BufferEnd \in Nat
    BY LenProperties, Sizes DEF BufferInv, IsWindow, BufferEnd, LSN
<1>3. CASE Replaces
    <2>1. Appended(sent, len) =
              [start |-> sent, bytes |-> message,
               synced |-> synced /\ buffer = <<>> /\ bufferStart = sent]
        BY <1>3 DEF Appended, Replaces
    <2>2. (synced /\ buffer = <<>> /\ bufferStart = sent) \in BOOLEAN
        OBVIOUS
    <2> HIDE DEF message
    <2>3. QED
        BY <1>1, <1>3, <2>1, <2>2
<1>4. CASE ~ Replaces
    <2> DEFINE overlap == BufferEnd - sent
               new == SubSeq(message, overlap + 1, len)
               bytes == IF overlap < len THEN buffer \o new ELSE buffer
    <2>1. Appended(sent, len) =
              [start |-> bufferStart, bytes |-> bytes, synced |-> synced]
        BY <1>4 DEF Appended, Replaces
    <2>2. overlap \in Nat
        BY <1>2, <1>4 DEF Replaces
    <2>3. IsWindow(bufferStart, bytes) /\ bufferStart + Len(bytes) = LatestEnd(len)
        <3>1. CASE overlap < len
            <4>1. overlap \in 0..Len(message)
                BY <1>1, <2>2, <3>1
            <4> HIDE DEF message, overlap
            <4>2. IsWindow(sent + overlap, new) /\ Len(new) = len - overlap
                BY <1>1, <4>1, TailIsWindow
            <4>3. sent + overlap = bufferStart + Len(buffer)
                BY <1>2 DEF overlap
            <4> HIDE DEF new
            <4>4. /\ IsWindow(bufferStart, buffer \o new)
                  /\ Len(buffer \o new) = Len(buffer) + Len(new)
                BY <1>2, <4>2, <4>3, JoinIsWindow
            <4>5. bytes = buffer \o new
                BY <3>1
            <4>6. bufferStart + (Len(buffer) + (len - overlap)) = LatestEnd(len)
                BY <1>2, <2>2, <3>1 DEF overlap, LatestEnd
            <4> HIDE DEF bytes
            <4>7. QED
                BY <4>2, <4>4, <4>5, <4>6
        <3>2. CASE ~ (overlap < len)
            <4>1. bytes = buffer
                BY <3>2
            <4>2. LatestEnd(len) = BufferEnd
                BY <1>2, <2>2, <3>2 DEF LatestEnd
            <4> HIDE DEF bytes
            <4>3. QED
                BY <1>2, <4>1, <4>2
        <3>3. QED
            BY <3>1, <3>2
    <2> HIDE DEF bytes
    <2>4. QED
        BY <1>2, <1>4, <2>1, <2>3
<1>5. QED
    BY <1>3, <1>4

\* The cap takes bytes at the front only, and enough of them.
LEMMA CappedIsWindow ==
    ASSUME NEW b, IsWindow(b.start, b.bytes)
    PROVE  LET c == Capped(b)
           IN  /\ IsWindow(c.start, c.bytes)
               /\ c.start + Len(c.bytes) = b.start + Len(b.bytes)
               /\ c.start >= b.start
               /\ Len(c.bytes) <= BufferCap
               /\ c.synced = b.synced
<1> DEFINE n == Len(b.bytes)
           keep == IF 2 * PageSize < n THEN 2 * PageSize ELSE n
           cut == n - keep
           tail == SubSeq(b.bytes, cut + 1, n)
<1>1. n \in Nat /\ b.start \in Nat
    BY LenProperties, Sizes DEF IsWindow, LSN
<1>2. cut \in 0..n /\ n - cut = keep
    <2> HIDE DEF n
    <2> QED BY <1>1, Sizes
<1>3. IsWindow(b.start + cut, tail) /\ Len(tail) = n - cut
    <2> HIDE DEF cut
    <2> QED BY <1>2, TailIsWindow
<1>4. CASE n > BufferCap
    <2>1. Capped(b) = [start |-> b.start + cut, bytes |-> tail, synced |-> b.synced]
        BY <1>4 DEF Capped
    <2>2. keep <= BufferCap
        <3> HIDE DEF n
        <3> QED BY <1>1, Sizes
    <2>3. /\ (b.start + cut) + (n - cut) = b.start + n
          /\ b.start + cut >= b.start
        <3> HIDE DEF n, cut
        <3> QED BY <1>1, <1>2
    <2> HIDE DEF n, keep, cut, tail
    <2>4. QED
        BY <1>2, <1>3, <2>1, <2>2, <2>3 DEF n
<1>5. CASE ~ (n > BufferCap)
    <2>1. Capped(b) = b
        BY <1>5 DEF Capped
    <2>2. n <= BufferCap /\ b.start >= b.start
        <3> HIDE DEF n
        <3> QED BY <1>1, <1>5, Sizes
    <2>3. QED
        BY <2>1, <2>2
<1>6. QED
    BY <1>4, <1>5

\* After append the buffer is a window within its bound; it has only grown at its
\* end and shrunk at its front, or the message has replaced it.
LEMMA TakeIsWindow ==
    ASSUME BufferInv, NEW len \in Nat, sent \in Nat, sent + len <= MaxLSN,
           Take(len)
    PROVE  /\ IsWindow(bufferStart', buffer')
           /\ synced' \in BOOLEAN
           /\ Len(buffer') <= BufferCap \/ Len(buffer') <= len
           /\ IF Replaces
              THEN bufferStart' >= sent /\ bufferStart' + Len(buffer') = sent + len
              ELSE /\ bufferStart' >= bufferStart
                   /\ bufferStart' + Len(buffer') = LatestEnd(len)
           /\ dropped' \subseteq dropped \union LSN
<1> DEFINE u == Appended(sent, len)
           b == IF buffer = <<>> THEN u ELSE Capped(u)
<1>1. /\ IsWindow(u.start, u.bytes) /\ u.synced \in BOOLEAN
      /\ IF Replaces
         THEN u.start = sent /\ Len(u.bytes) = len
         ELSE u.start = bufferStart /\ u.start + Len(u.bytes) = LatestEnd(len)
    BY AppendedIsWindow
<1>2. u.start \in Nat /\ u.start + Len(u.bytes) <= MaxLSN /\ Len(u.bytes) \in Nat
    BY <1>1, LenProperties, Sizes DEF IsWindow, LSN
<1>3. /\ bufferStart' = b.start /\ buffer' = b.bytes /\ synced' = b.synced
      /\ \/ dropped' = dropped \union u.start..(b.start - 1)
         \/ dropped' = dropped
    BY DEF Take
<1> HIDE DEF u
<1>4. /\ IsWindow(b.start, b.bytes) /\ b.synced \in BOOLEAN
      /\ b.start + Len(b.bytes) = u.start + Len(u.bytes)
      /\ b.start >= u.start
      /\ Len(b.bytes) <= BufferCap \/ Len(b.bytes) <= len
    <2>1. CASE buffer = <<>>
        <3>1. b = u /\ Replaces
            BY <2>1 DEF Replaces
        <3> HIDE DEF b
        <3>2. QED
            BY <1>1, <1>2, <3>1
    <2>2. CASE buffer # <<>>
        <3>1. b = Capped(u)
            BY <2>2
        <3> HIDE DEF b
        <3>2. QED
            BY <1>1, <3>1, CappedIsWindow
    <2>3. QED
        BY <2>1, <2>2
<1> HIDE DEF b
<1>5. b.start \in LSN /\ Len(b.bytes) \in Nat
    BY <1>4, LenProperties DEF IsWindow
<1>6. u.start..(b.start - 1) \subseteq LSN
    BY <1>2, <1>5, Sizes DEF LSN
<1>7. dropped' \subseteq dropped \union LSN
    BY <1>3, <1>6
<1>8. IF Replaces
      THEN b.start >= sent /\ b.start + Len(b.bytes) = sent + len
      ELSE b.start >= bufferStart /\ b.start + Len(b.bytes) = LatestEnd(len)
    BY <1>1, <1>4
<1>9. QED
    BY <1>3, <1>4, <1>7, <1>8

-----------------------------------------------------------------------------
(* The invariant is kept                                                   *)

\* At the start the buffer is empty.
LEMMA InitDecoder == Init => DecoderInv
<1> SUFFICES ASSUME Init PROVE DecoderInv
    OBVIOUS
<1>1. 0 \in LSN /\ 0 + 0 \in LSN
    BY Sizes DEF LSN
<1>2. buffer \in Seq(LSN) /\ Len(buffer) = 0
    BY EmptySeq DEF Init
<1>3. IsWindow(bufferStart, buffer)
    BY <1>1, <1>2 DEF Init, IsWindow
<1>4. Bounded(buffer)
    BY <1>2, Sizes DEF Bounded
<1>5. BufferInv
    <2>1. synced \in BOOLEAN /\ original = NoCopy /\ sender \in Senders
        BY DEF Init
    <2>2. pc \in {"idle", "consume"} /\ offset \in 0..Len(buffer)
        BY <1>2 DEF Init
    <2>3. QED
        BY <1>3, <1>4, <2>1, <2>2 DEF BufferInv
<1>6. StreamInv
    <2>1. emitted \in Seq([lsn : LSN, end : LSN, preview : BOOLEAN])
        BY EmptySeq DEF Init
    <2>2. found \in 0..MaxRecords /\ sent \in LSN /\ ends = {} /\ dropped = {}
        BY <1>1, Sizes DEF Init
    <2>3. QED
        BY <2>1, <2>2 DEF StreamInv
<1>7. QED
    BY <1>5, <1>6 DEF DecoderInv

\* The sizes of the sender's messages, and what is not beyond the bound.
LEMMA MessageSizes ==
    ASSUME DecoderInv, NEW len \in sender.sizes, sent + len <= MaxLSN
    PROVE  /\ len \in Nat /\ len # 0
           /\ sent \in Nat
           /\ sent + len \in LSN
<1>1. sender \in [sizes : SUBSET (1..MaxLSN), loses : BOOLEAN, restarts : BOOLEAN]
    BY LayoutAssumption DEF DecoderInv, BufferInv
<1>2. len \in 1..MaxLSN
    BY <1>1
<1>3. sent \in Nat
    BY Sizes DEF DecoderInv, StreamInv, LSN
<1>4. QED
    BY <1>2, <1>3, Sizes DEF LSN

\* The copy of a preview is put back as it was.
LEMMA LeaveKeeps ==
    ASSUME BufferInv, NEW c \in 0..Len(buffer), NEW s \in BOOLEAN,
           Leave(c, s), UNCHANGED sender
    PROVE  BufferInv'
<1>1. /\ IsWindow(bufferStart', buffer') /\ Bounded(buffer)'
      /\ synced' \in BOOLEAN
    <2>1. CASE original = NoCopy
        <3>1. /\ bufferStart' = bufferStart + c
              /\ buffer' = SubSeq(buffer, c + 1, Len(buffer))
              /\ synced' = s
            BY <2>1 DEF Leave
        <3>2. IsWindow(bufferStart, buffer) /\ Bounded(buffer)
            BY DEF BufferInv
        <3>3. /\ IsWindow(bufferStart', buffer')
              /\ Len(buffer') = Len(buffer) - c
            BY <3>1, <3>2, TailIsWindow
        <3>4. Len(buffer) \in Nat /\ c \in Nat
            BY <3>2, LenProperties DEF IsWindow
        <3>5. Bounded(buffer)'
            <4>1. CASE Len(buffer) <= BufferCap
                BY <3>3, <3>4, <4>1, Sizes DEF Bounded
            <4>2. CASE \E len \in sender.sizes : Len(buffer) <= len
                <5>1. PICK len \in sender.sizes : Len(buffer) <= len
                    BY <4>2
                <5>2. len \in Nat
                    BY LayoutAssumption DEF BufferInv
                <5>3. Len(buffer') <= len
                    BY <3>3, <3>4, <5>1, <5>2
                <5>4. QED
                    BY <5>1, <5>3 DEF Bounded
            <4>3. QED
                BY <3>2, <4>1, <4>2 DEF Bounded
        <3>6. QED
            BY <3>1, <3>3, <3>5
    <2>2. CASE original # NoCopy
        <3>1. /\ bufferStart' = original.start
              /\ buffer' = original.bytes
              /\ synced' = original.synced
            BY <2>2 DEF Leave
        <3>2. /\ original \in [start : LSN, bytes : Seq(LSN), synced : BOOLEAN]
              /\ IsWindow(original.start, original.bytes)
              /\ Bounded(original.bytes)
            BY <2>2 DEF BufferInv
        <3>3. Bounded(buffer)'
            BY <3>1, <3>2 DEF Bounded
        <3>4. original.synced \in BOOLEAN
            BY <3>2
        <3>5. QED
            BY <3>1, <3>2, <3>3, <3>4
    <2>3. QED
        BY <2>1, <2>2
<1>2. offset' = 0 /\ original' = NoCopy /\ pc' = "idle"
    BY DEF Leave
<1>3. offset' \in 0..Len(buffer')
    <2>1. Len(buffer') \in Nat
        BY <1>1, LenProperties DEF IsWindow
    <2>2. QED
        BY <1>2, <2>1
<1>4. sender' \in Senders
    BY DEF BufferInv
<1>5. QED
    BY <1>1, <1>2, <1>3, <1>4 DEF BufferInv, IsWindow

\* A step that stays in the loop keeps the invariant.
LEMMA GoOnKeeps ==
    ASSUME BufferInv, NEW c \in 0..Len(buffer), NEW s \in BOOLEAN,
           GoOn(c, s), UNCHANGED sender
    PROVE  BufferInv'
<1>1. /\ UNCHANGED <<sender, bufferStart, buffer, original, pc>>
      /\ offset' = c
    BY DEF GoOn
<1>2. synced' \in BOOLEAN
    BY DEF GoOn
<1>3. QED
    BY <1>1, <1>2 DEF BufferInv, IsWindow, Bounded

\* So does whatever a branch of consume may do.
LEMMA ConsumeKeeps ==
    ASSUME DecoderInv, ConsumeMove
    PROVE  DecoderInv'
<1>1. BufferInv /\ StreamInv /\ UNCHANGED <<sender, sent, ends, dropped>>
    BY DEF DecoderInv, ConsumeMove
<1>2. PICK c \in offset..Len(buffer), s \in BOOLEAN :
          \/ /\ GoOn(c, s) \/ Leave(c, s)
             /\ UNCHANGED <<found, emitted>>
          \/ /\ InLoop
             /\ \/ GoOn(c, s) /\ Emit(bufferStart + c)
                \/ Leave(c, s) /\ allowPartial /\ Emit(BufferEnd)
    BY DEF ConsumeMove
<1>3. c \in 0..Len(buffer) /\ c \in Nat
    <2>1. offset \in 0..Len(buffer) /\ Len(buffer) \in Nat
        BY <1>1, LenProperties DEF BufferInv, IsWindow
    <2>2. QED
        BY <2>1
<1>4. BufferInv'
    <2>1. CASE GoOn(c, s)
        BY <1>1, <1>3, <2>1, GoOnKeeps
    <2>2. CASE Leave(c, s)
        BY <1>1, <1>3, <2>2, LeaveKeeps
    <2>3. QED
        BY <1>2, <2>1, <2>2
<1>5. found' \in 0..MaxRecords /\ emitted' \in Seq([lsn : LSN, end : LSN, preview : BOOLEAN])
    <2>1. CASE UNCHANGED <<found, emitted>>
        BY <1>1, <2>1 DEF StreamInv
    <2>2. ASSUME InLoop, NEW e \in LSN, Emit(e)
          PROVE  found' \in 0..MaxRecords /\ emitted' \in Seq([lsn : LSN, end : LSN, preview : BOOLEAN])
        <3>1. found' \in 0..MaxRecords
            BY <1>1, <2>2, Sizes DEF InLoop, Emit, StreamInv
        <3> DEFINE S == [lsn : LSN, end : LSN, preview : BOOLEAN]
                   record == [lsn |-> Here, end |-> e, preview |-> allowPartial]
        <3>2. Here \in LSN
            BY <1>1, <2>2, HereIsThere
        <3>3. allowPartial \in BOOLEAN
            BY DEF allowPartial
        <3>4. record \in S
            BY <2>2, <3>2, <3>3
        <3>5. emitted \in Seq(S)
            BY <1>1 DEF StreamInv
        <3>6. emitted' = Append(emitted, record)
            BY <2>2 DEF Emit
        <3> HIDE DEF record, S
        <3>7. emitted' \in Seq(S)
            BY <3>4, <3>5, <3>6, AppendProperties
        <3>8. QED
            BY <3>1, <3>7 DEF S
    <2>3. CASE InLoop
        <3>1. bufferStart + c \in LSN /\ BufferEnd \in LSN
            <4>1. /\ bufferStart \in Nat /\ Len(buffer) \in Nat
                  /\ BufferEnd \in LSN /\ BufferEnd = bufferStart + Len(buffer)
                BY <1>1, <2>3, HereIsThere
            <4>2. QED
                BY <1>3, <4>1, Sizes DEF LSN
        <3>2. QED
            BY <1>2, <2>1, <2>2, <2>3, <3>1
    <2>4. QED
        BY <1>2, <2>1, <2>3
<1>6. QED
    BY <1>1, <1>4, <1>5 DEF DecoderInv, StreamInv

\* A message that reaches the decoder or its copy.
LEMMA TakeKeeps ==
    ASSUME DecoderInv, NEW size \in sender.sizes, NEW len \in 1..size,
           sent + size <= MaxLSN, Take(len), UNCHANGED sender,
           \/ original' = NoCopy
           \/ /\ original = NoCopy
              /\ original' = [start |-> bufferStart, bytes |-> buffer, synced |-> synced]
    PROVE  BufferInv' /\ found' \in 0..MaxRecords /\ dropped' \subseteq LSN
<1>1. BufferInv /\ StreamInv
    BY DEF DecoderInv
<1>2. size \in Nat /\ len \in Nat /\ sent \in Nat /\ sent + len <= MaxLSN
    BY MessageSizes, Sizes
<1>3. /\ IsWindow(bufferStart', buffer')
      /\ synced' \in BOOLEAN
      /\ Len(buffer') <= BufferCap \/ Len(buffer') <= len
      /\ dropped' \subseteq dropped \union LSN
    BY <1>1, <1>2, TakeIsWindow
<1>4. pc' = "consume" /\ offset' = 0 /\ found' = 0
    BY DEF Take
<1>5. Len(buffer') \in Nat
    BY <1>3, LenProperties DEF IsWindow
<1>6. Bounded(buffer)'
    <2>1. Len(buffer') <= len => Len(buffer') <= size
        BY <1>2, <1>5
    <2>2. QED
        BY <1>3, <2>1 DEF Bounded
<1>7. original' # NoCopy =>
          /\ original' \in [start : LSN, bytes : Seq(LSN), synced : BOOLEAN]
          /\ IsWindow(original'.start, original'.bytes)
          /\ Bounded(original.bytes)'
    <2>1. SUFFICES ASSUME original' = [start |-> bufferStart, bytes |-> buffer,
                                       synced |-> synced]
                   PROVE  /\ original' \in [start : LSN, bytes : Seq(LSN), synced : BOOLEAN]
                          /\ IsWindow(original'.start, original'.bytes)
                          /\ Bounded(original.bytes)'
        OBVIOUS
    <2>2. bufferStart \in LSN /\ buffer \in Seq(LSN) /\ synced \in BOOLEAN
        BY <1>1 DEF BufferInv, IsWindow
    <2>3. original' \in [start : LSN, bytes : Seq(LSN), synced : BOOLEAN]
        BY <2>1, <2>2
    <2>4. original'.start = bufferStart /\ original'.bytes = buffer
        BY <2>1
    <2>5. IsWindow(original'.start, original'.bytes)
        BY <1>1, <2>4 DEF BufferInv
    <2>6. Bounded(original.bytes)'
        BY <1>1, <2>4 DEF BufferInv, Bounded
    <2>7. QED
        BY <2>3, <2>5, <2>6
<1>8. BufferInv'
    <2>1. sender' \in Senders
        BY <1>1 DEF BufferInv
    <2>2. offset' \in 0..Len(buffer')
        BY <1>4, <1>5
    <2>3. QED
        BY <1>3, <1>4, <1>6, <1>7, <2>1, <2>2 DEF BufferInv, IsWindow
<1>9. QED
    BY <1>1, <1>3, <1>4, <1>8, Sizes DEF StreamInv

\* Every step keeps the invariant.
LEMMA NextDecoder == DecoderInv /\ [Next]_vars => DecoderInv'
<1> SUFFICES ASSUME DecoderInv, [Next]_vars PROVE DecoderInv'
    OBVIOUS
<1>1. BufferInv /\ StreamInv
    BY DEF DecoderInv
<1>2. ASSUME NEW len \in sender.sizes, Feed(len)
      PROVE  DecoderInv'
    <2>1. len \in Nat /\ len # 0 /\ sent + len \in LSN
        BY <1>2, MessageSizes DEF Feed
    <2>2. len \in 1..len
        BY <2>1
    <2>3. BufferInv' /\ found' \in 0..MaxRecords /\ dropped' \subseteq LSN
        BY <1>2, <2>2, TakeKeeps DEF Feed
    <2>4. StreamInv'
        BY <1>1, <1>2, <2>1, <2>3 DEF Feed, StreamInv
    <2>5. QED
        BY <2>3, <2>4 DEF DecoderInv
<1>3. ASSUME NEW len \in sender.sizes, NEW captured \in 1..len,
             DecodePreview(len, captured)
      PROVE  DecoderInv'
    <2>1. sent + len \in LSN
        BY <1>3, MessageSizes DEF DecodePreview
    <2>2. original = NoCopy
        BY <1>1, <1>3 DEF DecodePreview, BufferInv
    <2>3. BufferInv' /\ found' \in 0..MaxRecords /\ dropped' \subseteq LSN
        BY <1>3, <2>2, TakeKeeps DEF DecodePreview
    <2>4. StreamInv'
        BY <1>1, <1>3, <2>1, <2>3 DEF DecodePreview, StreamInv
    <2>5. QED
        BY <2>3, <2>4 DEF DecoderInv
<1>4. ASSUME UNCHANGED <<sender, decoderVars>>
      PROVE  BufferInv' /\ found' = found
    BY <1>1, <1>4 DEF BufferInv, IsWindow, Bounded, decoderVars
<1>5. ASSUME NEW len \in sender.sizes, Lose(len)
      PROVE  DecoderInv'
    <2>1. sent + len \in LSN
        BY <1>5, MessageSizes DEF Lose
    <2>2. BufferInv' /\ found' = found
        BY <1>4, <1>5 DEF Lose
    <2>3. QED
        BY <1>1, <1>5, <2>1, <2>2 DEF Lose, StreamInv, DecoderInv
<1>6. ASSUME NEW lsn \in LSN, Restart(lsn)
      PROVE  DecoderInv'
    <2>1. BufferInv' /\ found' = found
        BY <1>4, <1>6 DEF Restart
    <2>2. emitted' \in Seq([lsn : LSN, end : LSN, preview : BOOLEAN])
        BY <1>6, EmptySeq DEF Restart
    <2>3. sent' \in LSN /\ ends' = {} /\ dropped' = {}
        BY <1>6 DEF Restart
    <2>4. QED
        BY <1>1, <2>1, <2>2, <2>3 DEF StreamInv, DecoderInv
<1>7. CASE Consume
    BY <1>1, <1>7, ConsumeMoves, ConsumeKeeps
<1>8. CASE UNCHANGED vars
    <2>1. BufferInv' /\ found' = found
        BY <1>4, <1>8 DEF vars
    <2>2. QED
        BY <1>1, <1>8, <2>1 DEF vars, StreamInv, DecoderInv
<1>9. QED
    BY <1>2, <1>3, <1>5, <1>6, <1>7, <1>8
       DEF Next, FeedAny, PreviewAny, LoseAny, RestartAny

\* The decoder's buffer and the copy of a preview are windows of the stream, and
\* the position of consume stays in the buffer.
THEOREM DecoderInductive == Spec => []DecoderInv
<1>1. Init => DecoderInv
    BY InitDecoder
<1>2. DecoderInv /\ [Next]_vars => DecoderInv'
    BY NextDecoder
<1>3. QED
    BY <1>1, <1>2, PTL DEF Spec

\* walStreamDecoder stays within its types, its positions within the stream and
\* its buffer within maxWALDecoderBufferBytes or one message (waldecode.go).
THEOREM TypeCorrect == Spec => []TypeOK
<1>1. DecoderInv => TypeOK
    BY DEF DecoderInv, BufferInv, StreamInv, IsWindow, Bounded, TypeOK, BufferBounded
<1>2. QED
    BY <1>1, DecoderInductive, PTL

\* Every byte of the buffer is the one its position names, through the overlaps,
\* gaps and cuts of append and trimConsumed.
THEOREM BufferCorrect == Spec => []BufferIsWindow
<1>1. DecoderInv => BufferIsWindow
    <2> SUFFICES ASSUME DecoderInv PROVE BufferIsWindow
        OBVIOUS
    <2>1. IsWindow(bufferStart, buffer)
        BY DEF DecoderInv, BufferInv
    <2>2. DOMAIN buffer = 1..Len(buffer)
        BY <2>1, LenProperties DEF IsWindow
    <2>3. QED
        BY <2>1, <2>2 DEF IsWindow, BufferIsWindow
<1>2. QED
    BY <1>1, DecoderInductive, PTL

-----------------------------------------------------------------------------
(* The buffer implements the abstract window                               *)

\* Which window the mapping shows.
LEMMA Mapping ==
    /\ original = NoCopy => From = bufferStart /\ To = bufferStart + Len(buffer)
    /\ original # NoCopy => /\ From = original.start
                            /\ To = original.start + Len(original.bytes)
    BY DEF From, To, allowPartial, BufferEnd

\* The window the decoder shows after a step.
LEMMA MappingNext ==
    /\ original' = NoCopy => /\ From' = bufferStart'
                             /\ To' = bufferStart' + Len(buffer')
    /\ original' # NoCopy => /\ From' = original'.start
                             /\ To' = original'.start + Len(original'.bytes)
    BY DEF From, To, allowPartial, BufferEnd

\* A message that reaches the decoder is received by the window.
LEMMA FeedReceives ==
    ASSUME DecoderInv, NEW len \in sender.sizes, Feed(len)
    PROVE  Window!Receive(len)
<1>1. BufferInv
    BY DEF DecoderInv
<1>2. original = NoCopy /\ original' = NoCopy /\ sent' = sent + len
    BY <1>1 DEF Feed, BufferInv
<1>3. /\ From = bufferStart /\ To = bufferStart + Len(buffer)
      /\ From' = bufferStart' /\ To' = bufferStart' + Len(buffer')
    BY <1>2, Mapping, MappingNext
<1>4. len \in Nat /\ sent \in Nat /\ sent + len \in LSN /\ len # 0
    BY MessageSizes DEF Feed
<1>5. /\ IsWindow(bufferStart', buffer')
      /\ IF Replaces
         THEN bufferStart' >= sent /\ bufferStart' + Len(buffer') = sent + len
         ELSE /\ bufferStart' >= bufferStart
              /\ bufferStart' + Len(buffer') = LatestEnd(len)
    BY <1>1, <1>4, TakeIsWindow, Sizes DEF Feed, LSN
<1>6. bufferStart \in Nat /\ bufferStart' \in Nat /\ Len(buffer') \in Nat
    BY <1>1, <1>5, LenProperties, Sizes DEF BufferInv, IsWindow, LSN
<1>7. Len(buffer) \in Nat /\ (buffer = <<>> <=> Len(buffer) = 0)
    BY <1>1, LenProperties, EmptySeq DEF BufferInv, IsWindow
<1>8. CASE Replaces
    <2>1. From = To \/ sent < From \/ To < sent
        BY <1>3, <1>4, <1>6, <1>7, <1>8 DEF Replaces, BufferEnd
    <2>2. To' = sent' /\ From' \in sent..To'
        BY <1>2, <1>3, <1>4, <1>5, <1>6, <1>8
    <2>3. QED
        BY <1>2, <2>1, <2>2 DEF Window!Receive
<1>9. CASE ~ Replaces
    <2>1. From < To /\ From <= sent /\ sent <= To
        BY <1>3, <1>4, <1>6, <1>7, <1>9 DEF Replaces, BufferEnd
    <2>2. To' = IF sent' > To THEN sent' ELSE To
        BY <1>2, <1>3, <1>5, <1>9 DEF LatestEnd, BufferEnd
    <2>3. From' \in From..To'
        BY <1>3, <1>5, <1>6, <1>9
    <2>4. QED
        BY <1>2, <2>1, <2>2, <2>3 DEF Window!Receive
<1>10. QED
    BY <1>8, <1>9

\* trimConsumed forgets bytes at the front; the return of a preview, and a step
\* inside the loop, change nothing that the window shows.
LEMMA ConsumeForgets ==
    ASSUME DecoderInv, ConsumeMove
    PROVE  Window!Forget \/ UNCHANGED <<From, To, sent>>
<1>1. BufferInv /\ sent' = sent
    BY DEF DecoderInv, ConsumeMove
<1>2. PICK c \in offset..Len(buffer), s \in BOOLEAN : GoOn(c, s) \/ Leave(c, s)
    BY DEF ConsumeMove
<1>3. /\ Len(buffer) \in Nat /\ c \in 0..Len(buffer) /\ bufferStart \in Nat
      /\ IsWindow(bufferStart, buffer)
    <2>1. Len(buffer) \in Nat /\ offset \in 0..Len(buffer) /\ bufferStart \in Nat
        BY <1>1, LenProperties, Sizes DEF BufferInv, IsWindow, LSN
    <2>2. QED
        BY <1>1, <2>1 DEF BufferInv
<1>4. CASE GoOn(c, s)
    <2>1. UNCHANGED <<bufferStart, buffer, original>>
        BY <1>4 DEF GoOn
    <2>2. QED
        BY <1>1, <2>1 DEF From, To, allowPartial, BufferEnd
<1>5. CASE Leave(c, s) /\ original = NoCopy
    <2>1. /\ bufferStart' = bufferStart + c
          /\ buffer' = SubSeq(buffer, c + 1, Len(buffer))
          /\ original' = NoCopy
        BY <1>5 DEF Leave
    <2>2. Len(buffer') = Len(buffer) - c
        BY <1>3, <2>1, TailIsWindow
    <2>3. /\ From = bufferStart /\ To = bufferStart + Len(buffer)
          /\ From' = bufferStart' /\ To' = bufferStart' + Len(buffer')
        BY <1>5, <2>1, Mapping, MappingNext
    <2>4. From' \in From..To /\ To' = To
        BY <1>3, <2>1, <2>2, <2>3
    <2>5. QED
        BY <1>1, <2>4 DEF Window!Forget
<1>6. CASE Leave(c, s) /\ original # NoCopy
    <2>1. /\ bufferStart' = original.start /\ buffer' = original.bytes
          /\ original' = NoCopy
        BY <1>6 DEF Leave
    <2>2. From' = From /\ To' = To
        BY <1>6, <2>1, Mapping, MappingNext
    <2>3. QED
        BY <1>1, <2>2
<1>7. QED
    BY <1>2, <1>4, <1>5, <1>6

\* Every step of the decoder is a step of the window, or none.
LEMMA StepOfWindow ==
    DecoderInv /\ [Next]_vars => [Window!WindowNext]_<<From, To, sent>>
<1> SUFFICES ASSUME DecoderInv, [Next]_vars
             PROVE  Window!WindowNext \/ UNCHANGED <<From, To, sent>>
    OBVIOUS
<1>1. BufferInv
    BY DEF DecoderInv
<1>2. ASSUME NEW len \in sender.sizes, Feed(len)
      PROVE  Window!WindowNext
    <2>1. len \in 1..MaxLSN
        BY <1>1, LayoutAssumption DEF BufferInv
    <2>2. QED
        BY <1>2, <2>1, FeedReceives DEF Window!WindowNext
<1>3. ASSUME NEW len \in sender.sizes, NEW captured \in 1..len,
             DecodePreview(len, captured)
      PROVE  Window!WindowNext
    <2>1. /\ original = NoCopy
          /\ original' = [start |-> bufferStart, bytes |-> buffer, synced |-> synced]
          /\ sent' = sent + len
        BY <1>1, <1>3 DEF DecodePreview, BufferInv
    <2>2. original' # NoCopy
        <3>1. DOMAIN original' = {"start", "bytes", "synced"}
            BY <2>1
        <3>2. DOMAIN NoCopy = {"bytes"}
            BY DEF NoCopy
        <3>3. QED
            BY <3>1, <3>2
    <2>3. original'.start = bufferStart /\ original'.bytes = buffer
        BY <2>1
    <2>4. From' = From /\ To' = To
        BY <2>1, <2>2, <2>3, Mapping, MappingNext
    <2>5. sent' \in LSN
        BY <1>3, <2>1, MessageSizes DEF DecodePreview
    <2>6. QED
        BY <2>4, <2>5 DEF Window!Move, Window!WindowNext
<1>4. ASSUME UNCHANGED decoderVars
      PROVE  From' = From /\ To' = To
    BY <1>4 DEF decoderVars, From, To, allowPartial, BufferEnd
<1>5. ASSUME NEW len \in sender.sizes, Lose(len)
      PROVE  Window!WindowNext
    <2>1. sent' \in LSN
        BY <1>5, MessageSizes DEF Lose
    <2>2. QED
        BY <1>4, <1>5, <2>1 DEF Lose, Window!Move, Window!WindowNext
<1>6. ASSUME NEW lsn \in LSN, Restart(lsn)
      PROVE  Window!WindowNext
    BY <1>4, <1>6 DEF Restart, Window!Move, Window!WindowNext
<1>7. CASE Consume
    BY <1>1, <1>7, ConsumeMoves, ConsumeForgets DEF Window!WindowNext
<1>8. CASE UNCHANGED vars
    BY <1>4, <1>8 DEF vars
<1>9. QED
    BY <1>2, <1>3, <1>5, <1>6, <1>7, <1>8
       DEF Next, FeedAny, PreviewAny, LoseAny, RestartAny

\* walStreamDecoder's buffer implements WalWindow: one contiguous window of the
\* stream, extended by a message that touches it, replaced by any other, and
\* shortened at its front only; DecodePreview leaves it alone (waldecode.go).
THEOREM WindowRefinement == Spec => ImplementsWindow
<1>1. Init => Window!WindowInit
    <2> SUFFICES ASSUME Init PROVE Window!WindowInit
        OBVIOUS
    <2>1. Len(buffer) = 0
        BY EmptySeq DEF Init
    <2>2. From = 0 /\ To = 0
        BY <2>1, Mapping DEF Init
    <2>3. QED
        BY <2>2 DEF Init, Window!WindowInit
<1>2. DecoderInv /\ [Next]_vars => [Window!WindowNext]_<<From, To, sent>>
    BY StepOfWindow
<1>3. QED
    BY <1>1, <1>2, DecoderInductive, PTL
       DEF Spec, ImplementsWindow, Window!WindowSpec

-----------------------------------------------------------------------------
(* Records are reported in order                                           *)

\* The types of what was reported.
Reported == [lsn : LSN, end : LSN, preview : BOOLEAN]

\* All of the records end at or before x.
EndBy(records, x) == \A i \in 1..Len(records) : records[i].end <= x

InOrder(records) ==
    \A i, j \in 1..Len(records) : i < j => records[i].end <= records[j].lsn

\* With a sender that does not go back: what is buffered came before `sent', and
\* before the preview's message ends; what was reported lies before the position
\* of consume; and between calls, either it lies before the buffer, or the next
\* message starts behind the buffer and replaces it.
OrderInv ==
    ~ sender.restarts =>
        /\ To <= sent
        /\ original # NoCopy => To < sent /\ BufferEnd <= sent
        /\ InOrder(emitted)
        /\ pc = "consume" => EndBy(emitted, Here)
        /\ pc = "idle" =>
              EndBy(emitted, bufferStart) \/ (EndBy(emitted, sent) /\ To < sent)

\* What ends by x ends by any later y.
LEMMA EndByLater ==
    ASSUME NEW records \in Seq(Reported), NEW x \in Nat, NEW y \in Nat,
           x <= y, EndBy(records, x)
    PROVE  EndBy(records, y)
<1>1. \A i \in 1..Len(records) : records[i].end \in Nat
    <2>1. \A i \in 1..Len(records) : records[i] \in Reported
        BY ElementOfSeq
    <2>2. QED
        BY <2>1, Sizes DEF Reported, LSN
<1>2. QED
    BY <1>1 DEF EndBy

\* One more record, behind all others, keeps them in order.
LEMMA OneMore ==
    ASSUME NEW records \in Seq(Reported), NEW record \in Reported,
           InOrder(records), EndBy(records, record.lsn),
           record.lsn <= record.end
    PROVE  /\ InOrder(Append(records, record))
           /\ EndBy(Append(records, record), record.end)
<1> DEFINE n == Len(records)  more == Append(records, record)
<1>1. /\ n \in Nat /\ Len(more) = n + 1
      /\ \A i \in 1..n : more[i] = records[i]
      /\ more[n + 1] = record
    BY AppendProperties, LenProperties
<1>2. record.lsn \in Nat /\ record.end \in Nat
    BY Sizes DEF Reported, LSN
<1>3. EndBy(records, record.end)
    BY <1>2, EndByLater
<1> HIDE DEF n, more
<1>4. /\ \A i, j \in 1..n : i < j => more[i].end <= more[j].lsn
      /\ \A i \in 1..n : more[i].end <= more[n + 1].lsn
      /\ \A i \in 1..n : more[i].end <= record.end
    BY <1>1, <1>3 DEF InOrder, EndBy, n
<1>5. InOrder(more)
    <2>1. SUFFICES ASSUME NEW i \in 1..(n + 1), NEW j \in 1..(n + 1), i < j
                   PROVE  more[i].end <= more[j].lsn
        BY <1>1 DEF InOrder
    <2>2. i \in 1..n /\ (j \in 1..n \/ j = n + 1)
        BY <1>1, <2>1
    <2>3. QED
        BY <1>4, <2>1, <2>2
<1>6. EndBy(more, record.end)
    <2>1. SUFFICES ASSUME NEW i \in 1..(n + 1)
                   PROVE  more[i].end <= record.end
        BY <1>1 DEF EndBy
    <2>2. i \in 1..n \/ i = n + 1
        BY <1>1
    <2>3. record.end <= record.end
        BY <1>2
    <2>4. QED
        BY <1>1, <1>4, <2>2, <2>3
<1>7. QED
    BY <1>5, <1>6 DEF more

\* Types, as the steps below use them.
LEMMA OrderTypes ==
    ASSUME DecoderInv
    PROVE  /\ bufferStart \in Nat /\ Len(buffer) \in Nat /\ sent \in Nat
           /\ offset \in 0..Len(buffer)
           /\ emitted \in Seq(Reported)
           /\ original # NoCopy => /\ original.start \in Nat
                                   /\ Len(original.bytes) \in Nat
<1>1. BufferInv /\ StreamInv
    BY DEF DecoderInv
<1>2. bufferStart \in Nat /\ Len(buffer) \in Nat
    BY <1>1, LenProperties, Sizes DEF BufferInv, IsWindow, LSN
<1>3. original # NoCopy => original.start \in Nat /\ Len(original.bytes) \in Nat
    BY <1>1, LenProperties, Sizes DEF BufferInv, IsWindow, LSN
<1>4. QED
    BY <1>1, <1>2, <1>3, Sizes DEF BufferInv, StreamInv, Reported, LSN

\* A message, or what was captured of it, starts a call of consume behind all
\* that was reported.
LEMMA TakeInOrder ==
    ASSUME DecoderInv, OrderInv, ~ sender.restarts, pc = "idle",
           NEW len \in Nat, len # 0, sent + len <= MaxLSN, Take(len),
           emitted' = emitted
    PROVE  /\ bufferStart' + Len(buffer') = sent + len
           /\ EndBy(emitted', Here')
           /\ To = bufferStart + Len(buffer) /\ To <= sent
           /\ original = NoCopy
<1>1. BufferInv /\ original = NoCopy
    BY DEF DecoderInv, BufferInv
<1>2. /\ bufferStart \in Nat /\ Len(buffer) \in Nat /\ sent \in Nat
      /\ emitted \in Seq(Reported)
    BY OrderTypes
<1>3. To = bufferStart + Len(buffer) /\ To = BufferEnd /\ To <= sent
    BY <1>1, Mapping DEF OrderInv, BufferEnd
<1>4. /\ IsWindow(bufferStart', buffer')
      /\ IF Replaces
         THEN bufferStart' >= sent /\ bufferStart' + Len(buffer') = sent + len
         ELSE /\ bufferStart' >= bufferStart
              /\ bufferStart' + Len(buffer') = LatestEnd(len)
    BY <1>1, <1>2, TakeIsWindow
<1>5. bufferStart' \in Nat
    BY <1>4, Sizes DEF IsWindow, LSN
<1>6. bufferStart' + Len(buffer') = sent + len
    BY <1>2, <1>3, <1>4 DEF LatestEnd
<1>7. Here' = bufferStart'
    BY <1>5 DEF Take, Here
<1>8. EndBy(emitted, bufferStart')
    <2>1. CASE EndBy(emitted, bufferStart)
        <3>1. bufferStart <= bufferStart'
            BY <1>2, <1>3, <1>4, <1>5
        <3>2. QED
            BY <1>2, <1>5, <2>1, <3>1, EndByLater
    <2>2. CASE EndBy(emitted, sent) /\ To < sent
        <3>1. Replaces
            BY <1>2, <1>3, <2>2 DEF Replaces
        <3>2. sent <= bufferStart'
            BY <1>2, <1>4, <1>5, <3>1
        <3>3. QED
            BY <1>2, <1>5, <2>2, <3>2, EndByLater
    <2>3. QED
        BY <2>1, <2>2 DEF OrderInv
<1>9. QED
    BY <1>1, <1>3, <1>6, <1>7, <1>8

\* An iteration of consume reports behind what was reported before.
LEMMA ConsumeInOrder ==
    ASSUME DecoderInv, OrderInv, ~ sender.restarts, ConsumeMove
    PROVE  OrderInv'
<1>1. BufferInv /\ sent' = sent /\ sender' = sender /\ pc = "consume"
    BY DEF DecoderInv, ConsumeMove
<1>2. PICK c \in offset..Len(buffer), s \in BOOLEAN :
          \/ /\ GoOn(c, s) \/ Leave(c, s)
             /\ UNCHANGED <<found, emitted>>
          \/ /\ InLoop
             /\ \/ GoOn(c, s) /\ Emit(bufferStart + c)
                \/ Leave(c, s) /\ allowPartial /\ Emit(BufferEnd)
    BY DEF ConsumeMove
<1>3. /\ bufferStart \in Nat /\ Len(buffer) \in Nat /\ sent \in Nat
      /\ offset \in 0..Len(buffer)
      /\ emitted \in Seq(Reported)
    BY OrderTypes
<1>4. /\ c \in Nat /\ Here \in Nat /\ Here = bufferStart + offset
      /\ BufferEnd = bufferStart + Len(buffer) /\ BufferEnd \in Nat
      /\ Here <= bufferStart + c /\ bufferStart + c <= BufferEnd
      /\ c \in 0..Len(buffer)
    BY <1>3 DEF Here, BufferEnd
<1>5. /\ To <= sent /\ InOrder(emitted) /\ EndBy(emitted, Here)
      /\ original # NoCopy => To < sent /\ BufferEnd <= sent
    BY <1>1 DEF OrderInv
<1>6. DecoderInv'
    BY ConsumeKeeps
<1>7. emitted' \in Seq(Reported) /\ bufferStart' \in Nat /\ sent' \in Nat
    BY <1>6 DEF DecoderInv, BufferInv, StreamInv, IsWindow, Reported, LSN
<1>8. ASSUME NEW e \in Nat, InLoop, Emit(e), Here <= e, e <= BufferEnd
      PROVE  InOrder(emitted') /\ EndBy(emitted', e)
    <2> DEFINE record == [lsn |-> Here, end |-> e, preview |-> allowPartial]
    <2>1. Here \in LSN /\ BufferEnd \in LSN
        BY <1>1, <1>8, HereIsThere
    <2>2. e \in LSN
        BY <1>4, <1>8, <2>1, Sizes DEF LSN
    <2>3. allowPartial \in BOOLEAN
        BY DEF allowPartial
    <2>4. record \in Reported
        BY <2>1, <2>2, <2>3 DEF Reported
    <2>5. record.lsn = Here /\ record.end = e
        OBVIOUS
    <2>6. emitted' = Append(emitted, record)
        BY <1>8 DEF Emit
    <2> HIDE DEF record
    <2>7. QED
        BY <1>3, <1>5, <1>8, <2>4, <2>5, <2>6, OneMore
<1>9. CASE GoOn(c, s)
    <2>1. /\ UNCHANGED <<bufferStart, buffer, original>>
          /\ offset' = c /\ pc' = "consume"
        BY <1>1, <1>9 DEF GoOn
    <2>2. /\ To' = To /\ BufferEnd' = BufferEnd /\ Here' = bufferStart + c
          /\ original' = original
        BY <2>1 DEF To, allowPartial, BufferEnd, Here
    <2>3. InOrder(emitted') /\ EndBy(emitted', bufferStart + c)
        <3>1. CASE emitted' = emitted
            BY <1>3, <1>4, <1>5, <3>1, EndByLater
        <3>2. CASE InLoop /\ Emit(bufferStart + c)
            BY <1>3, <1>4, <1>8, <3>2
        <3>3. QED
            <4>1. InLoop /\ Leave(c, s) => FALSE
                BY <1>1, <2>1 DEF Leave
            <4>2. QED
                BY <1>2, <3>1, <3>2, <4>1
    <2>4. QED
        BY <1>1, <1>5, <2>1, <2>2, <2>3 DEF OrderInv
<1>10. CASE Leave(c, s) /\ original = NoCopy
    <2>1. /\ bufferStart' = bufferStart + c
          /\ buffer' = SubSeq(buffer, c + 1, Len(buffer))
          /\ original' = NoCopy /\ pc' = "idle"
        BY <1>10 DEF Leave
    <2>2. Len(buffer') = Len(buffer) - c
        BY <1>1, <1>4, <2>1, TailIsWindow DEF BufferInv
    <2>3. /\ To = bufferStart + Len(buffer)
          /\ To' = bufferStart' + Len(buffer')
        BY <1>10, <2>1, Mapping, MappingNext
    <2>4. To' = To
        BY <1>3, <1>4, <2>1, <2>2, <2>3
    <2>5. emitted' = emitted
        <3>1. ~ allowPartial
            BY <1>10 DEF allowPartial
        <3>2. GoOn(c, s) => FALSE
            BY <1>1, <2>1 DEF GoOn
        <3>3. QED
            BY <1>2, <3>1, <3>2
    <2>6. EndBy(emitted', bufferStart')
        BY <1>3, <1>4, <1>5, <2>1, <2>5, EndByLater
    <2>7. QED
        BY <1>1, <1>5, <2>1, <2>4, <2>5, <2>6 DEF OrderInv
<1>11. CASE Leave(c, s) /\ original # NoCopy
    <2>1. /\ bufferStart' = original.start /\ buffer' = original.bytes
          /\ original' = NoCopy /\ pc' = "idle"
        BY <1>11 DEF Leave
    <2>2. To' = To /\ To < sent /\ BufferEnd <= sent
        BY <1>5, <1>11, <2>1, Mapping, MappingNext
    <2>3. InOrder(emitted') /\ EndBy(emitted', BufferEnd)
        <3>1. CASE emitted' = emitted
            <4>1. Here <= BufferEnd
                BY <1>3, <1>4
            <4>2. QED
                BY <1>3, <1>4, <1>5, <3>1, <4>1, EndByLater
        <3>2. CASE InLoop /\ Emit(BufferEnd)
            BY <1>3, <1>4, <1>8, <3>2
        <3>3. GoOn(c, s) => FALSE
            BY <1>1, <2>1 DEF GoOn
        <3>4. QED
            BY <1>2, <3>1, <3>2, <3>3
    <2>4. EndBy(emitted', sent')
        BY <1>1, <1>3, <1>4, <1>7, <2>2, <2>3, EndByLater
    <2>5. QED
        BY <1>1, <1>5, <2>1, <2>2, <2>3, <2>4 DEF OrderInv
<1>12. QED
    BY <1>2, <1>9, <1>10, <1>11

\* Every step keeps the order of the records reported.
LEMMA NextOrder == DecoderInv /\ OrderInv /\ [Next]_vars => OrderInv'
<1> SUFFICES ASSUME DecoderInv, OrderInv, [Next]_vars PROVE OrderInv'
    OBVIOUS
<1>1. sender' = sender
    <2>1. Consume => ConsumeMove
        BY ConsumeMoves DEF DecoderInv
    <2>2. QED
        BY <2>1 DEF Next, FeedAny, PreviewAny, LoseAny, RestartAny, Feed,
                    DecodePreview, Lose, Restart, vars, ConsumeMove
<1>2. CASE sender.restarts
    BY <1>1, <1>2 DEF OrderInv
<1>3. CASE ~ sender.restarts
    <2>1. ASSUME NEW len \in sender.sizes, Feed(len)
          PROVE  OrderInv'
        <3>1. len \in Nat /\ len # 0 /\ sent \in Nat /\ sent + len <= MaxLSN
            BY <2>1, MessageSizes DEF Feed
        <3>2. /\ pc = "idle" /\ Take(len) /\ original' = NoCopy
              /\ sent' = sent + len /\ emitted' = emitted /\ pc' = "consume"
            BY <2>1 DEF Feed, Take
        <3>3. /\ bufferStart' + Len(buffer') = sent + len
              /\ EndBy(emitted', Here')
            BY <1>3, <3>1, <3>2, TakeInOrder
        <3>4. To' = sent'
            BY <3>2, <3>3, MappingNext
        <3>5. InOrder(emitted')
            BY <1>3, <3>2 DEF OrderInv
        <3>6. sent' \in Nat
            BY <3>1, <3>2
        <3>7. QED
            BY <1>1, <3>2, <3>3, <3>4, <3>5, <3>6 DEF OrderInv
    <2>2. ASSUME NEW len \in sender.sizes, NEW captured \in 1..len,
                 DecodePreview(len, captured)
          PROVE  OrderInv'
        <3>1. len \in Nat /\ len # 0 /\ sent \in Nat /\ sent + len <= MaxLSN
            BY <2>2, MessageSizes DEF DecodePreview
        <3>2. /\ pc = "idle" /\ Take(captured) /\ captured \in Nat
              /\ captured # 0 /\ captured < len /\ sent + captured <= MaxLSN
              /\ sent' = sent + len /\ emitted' = emitted /\ pc' = "consume"
              /\ original' = [start |-> bufferStart, bytes |-> buffer, synced |-> synced]
            BY <2>2, <3>1, Sizes DEF DecodePreview, Take
        <3>3. /\ bufferStart' + Len(buffer') = sent + captured
              /\ EndBy(emitted', Here')
              /\ To = bufferStart + Len(buffer) /\ To <= sent
            BY <1>3, <3>1, <3>2, TakeInOrder
        <3>4. original'.start = bufferStart /\ original'.bytes = buffer
            BY <3>2
        <3>5. To' = To
            <4>1. original' # NoCopy
                <5>1. DOMAIN original' = {"start", "bytes", "synced"}
                    BY <3>2
                <5>2. DOMAIN NoCopy = {"bytes"}
                    BY DEF NoCopy
                <5>3. QED
                    BY <5>1, <5>2
            <4>2. QED
                BY <3>3, <3>4, <4>1, MappingNext
        <3>6. To \in Nat
            BY <3>3, OrderTypes
        <3>7. To' < sent' /\ To' <= sent' /\ BufferEnd' <= sent'
            BY <3>1, <3>2, <3>3, <3>5, <3>6 DEF BufferEnd
        <3>8. InOrder(emitted')
            BY <1>3, <3>2 DEF OrderInv
        <3>9. QED
            BY <1>1, <3>2, <3>3, <3>7, <3>8 DEF OrderInv
    <2>3. ASSUME NEW len \in sender.sizes, Lose(len)
          PROVE  OrderInv'
        <3>1. len \in Nat /\ len # 0 /\ sent \in Nat
            BY <2>3, MessageSizes DEF Lose
        <3>2. /\ pc = "idle" /\ pc' = "idle" /\ sent' = sent + len
              /\ UNCHANGED <<bufferStart, buffer, original, emitted>>
            BY <2>3 DEF Lose, decoderVars
        <3>3. original = NoCopy /\ To = bufferStart + Len(buffer) /\ To \in Nat
            BY <3>2, Mapping, OrderTypes DEF DecoderInv, BufferInv
        <3>4. To' = To
            BY <3>2, <3>3, Mapping, MappingNext
        <3>5. To <= sent /\ InOrder(emitted)
            BY <1>3 DEF OrderInv
        <3>6. To' < sent' /\ To' <= sent'
            BY <3>1, <3>2, <3>3, <3>4, <3>5
        <3>7. EndBy(emitted, bufferStart) \/ EndBy(emitted, sent)
            BY <1>3, <3>2 DEF OrderInv
        <3>8. EndBy(emitted, bufferStart) \/ EndBy(emitted, sent')
            BY <3>1, <3>2, <3>7, OrderTypes, EndByLater
        <3>9. QED
            BY <1>1, <3>2, <3>3, <3>5, <3>6, <3>8 DEF OrderInv
    <2>4. ASSUME NEW lsn \in LSN, Restart(lsn)
          PROVE  FALSE
        BY <1>3, <2>4 DEF Restart
    <2>5. CASE Consume
        BY <1>3, <2>5, ConsumeMoves, ConsumeInOrder DEF DecoderInv
    <2>6. CASE UNCHANGED vars
        BY <2>6 DEF vars, decoderVars, OrderInv, To, allowPartial, BufferEnd, Here
    <2>7. QED
        BY <2>1, <2>2, <2>3, <2>4, <2>5, <2>6
           DEF Next, FeedAny, PreviewAny, LoseAny, RestartAny
<1>4. QED
    BY <1>2, <1>3

\* With a sender that does not go back, what Feed and DecodePreview report is in
\* the order of the WAL, and nothing is reported twice (waldecode.go, consume).
THEOREM OrderCorrect == Spec => []EmittedInOrder
<1>1. Init => OrderInv
    <2> SUFFICES ASSUME Init PROVE OrderInv
        OBVIOUS
    <2>1. Len(emitted) = 0 /\ Len(buffer) = 0
        BY EmptySeq DEF Init
    <2>2. InOrder(emitted) /\ EndBy(emitted, bufferStart)
        BY <2>1 DEF InOrder, EndBy
    <2>3. To = 0 /\ sent = 0 /\ pc = "idle" /\ original = NoCopy
        BY <2>1, Mapping DEF Init
    <2>4. QED
        BY <2>2, <2>3 DEF OrderInv
<1>2. DecoderInv /\ OrderInv /\ [Next]_vars => OrderInv'
    BY NextOrder
<1>3. DecoderInv /\ OrderInv => EmittedInOrder
    <2> SUFFICES ASSUME DecoderInv, OrderInv PROVE EmittedInOrder
        OBVIOUS
    <2>1. DOMAIN emitted = 1..Len(emitted)
        BY OrderTypes, LenProperties
    <2>2. QED
        BY <2>1 DEF OrderInv, InOrder, EmittedInOrder
<1>4. QED
    BY <1>1, <1>2, <1>3, DecoderInductive, PTL DEF Spec

-----------------------------------------------------------------------------
(* Where records end and pages start                                       *)

\* What % says of multiples.
LEMMA MultipleIs ==
    ASSUME NEW a \in Nat, NEW n \in Nat \ {0}
    PROVE  a % n = 0 <=> \E q \in Nat : a = q * n
<1>1. ASSUME a % n = 0
      PROVE  \E q \in Nat : a = q * n
    <2>1. PICK q \in Nat : a = q * n + (a % n)
        BY Remainder
    <2>2. q * n \in Nat
        OBVIOUS
    <2>3. a = q * n
        BY <1>1, <2>1, <2>2
    <2>4. QED
        BY <2>3
<1>2. ASSUME NEW q \in Nat, a = q * n
      PROVE  a % n = 0
    <2>1. (q * n + 0) % n = 0
        BY RemainderOf
    <2>2. a = q * n + 0
        BY <1>2
    <2>3. QED
        BY <2>1, <2>2
<1>3. QED
    BY <1>1, <1>2

\* The larger of two multiples is larger by n at least.
LEMMA MultiplesApart ==
    ASSUME NEW a \in Nat, NEW b \in Nat, NEW n \in Nat \ {0}, a % n = 0, b % n = 0, a < b
    PROVE  a + n <= b
<1>1. PICK q \in Nat, k \in Nat : a = q * n /\ b = k * n
    BY MultipleIs
<1>2. q < k
    <2>1. CASE k <= q
        <3>1. q * n = k * n + (q - k) * n /\ (q - k) * n \in Nat
            BY <2>1
        <3> DEFINE x == q * n  y == k * n  z == (q - k) * n
        <3>2. x = y + z /\ z \in Nat /\ y \in Nat /\ x < y
            BY <1>1, <3>1
        <3> HIDE DEF x, y, z
        <3>3. QED
            BY <3>2
    <2>2. QED
        BY <2>1
<1>3. k * n = q * n + n + (k - q - 1) * n
    BY <1>2
<1>4. (k - q - 1) * n \in Nat
    BY <1>2
<1> DEFINE z == (k - q - 1) * n
<1>5. b = a + n + z /\ z \in Nat
    BY <1>1, <1>3, <1>4
<1> HIDE DEF z
<1>6. QED
    BY <1>5

\* Sums and differences of multiples are multiples.
LEMMA MultiplesAdd ==
    ASSUME NEW a \in Nat, NEW b \in Nat, NEW n \in Nat \ {0}, a % n = 0, b % n = 0
    PROVE  /\ (a + b) % n = 0
           /\ b <= a => (a - b) % n = 0
<1>1. PICK q \in Nat, k \in Nat : a = q * n /\ b = k * n
    BY MultipleIs
<1>2. (a + b) % n = 0
    <2>1. a + b = (q + k) * n /\ q + k \in Nat /\ a + b \in Nat
        BY <1>1
    <2>2. QED
        BY <2>1, MultipleIs
<1>3. ASSUME b <= a PROVE (a - b) % n = 0
    <2>1. k <= q
        <3>1. CASE q < k
            <4>1. k * n = q * n + n + (k - q - 1) * n /\ (k - q - 1) * n \in Nat
                BY <3>1
            <4> DEFINE z == (k - q - 1) * n
            <4>2. b = a + n + z /\ z \in Nat
                BY <1>1, <4>1
            <4> HIDE DEF z
            <4>3. QED
                BY <1>3, <4>2
        <3>2. QED
            BY <3>1
    <2>2. a - b = (q - k) * n /\ q - k \in Nat
        BY <1>1, <2>1
    <2>3. a - b \in Nat
        BY <1>3
    <2>4. QED
        BY <2>2, <2>3, MultipleIs
<1>4. QED
    BY <1>2, <1>3

\* Every position has a page.
LEMMA ItsPage ==
    ASSUME NEW x \in Nat
    PROVE  \E p \in Nat : PageStart(p) /\ p <= x /\ x < p + PageSize
<1>1. PICK q \in Nat : x = q * PageSize + (x % PageSize)
    BY Remainder, Sizes
<1>2. x % PageSize \in 0..(PageSize - 1)
    BY Remainder, Sizes
<1> DEFINE p == q * PageSize
<1>3. p \in Nat /\ PageStart(p)
    BY MultipleIs, Sizes DEF PageStart
<1>4. x = p + (x % PageSize)
    BY <1>1
<1> HIDE DEF p
<1>5. p <= x /\ x < p + PageSize
    BY <1>2, <1>3, <1>4, Sizes
<1>6. QED
    BY <1>3, <1>5

\* What the position on its page says.
LEMMA OnPage ==
    ASSUME NEW x \in Nat, NEW p \in Nat, PageStart(p), p <= x, x < p + PageSize
    PROVE  /\ x % PageSize = x - p
           /\ IsData(x) <=> x >= p + HeaderSize(p)
           /\ PageStart(x) <=> x = p
           /\ NextPage(x) = p + PageSize
           /\ p + PageSize \in Nat /\ PageStart(p + PageSize)
<1>1. PICK q \in Nat : p = q * PageSize
    BY MultipleIs, Sizes DEF PageStart
<1>2. x - p \in 0..(PageSize - 1) /\ PageSize \in Nat \ {0}
    BY Sizes
<1>3. (q * PageSize + (x - p)) % PageSize = x - p
    BY <1>2, RemainderOf
<1>4. x = q * PageSize + (x - p)
    BY <1>1
<1>5. x % PageSize = x - p
    BY <1>3, <1>4
<1>6. HeaderSize(p) \in Nat
    BY HeaderFits, Sizes
<1>7. x - (x % PageSize) = p
    BY <1>5
<1>8. IsData(x) <=> x >= p + HeaderSize(p)
    BY <1>5, <1>6, <1>7 DEF IsData
<1>9. PageStart(x) <=> x = p
    BY <1>5 DEF PageStart
<1>10. NextPage(x) = p + PageSize
    BY <1>5, <1>2 DEF NextPage
<1>11. PageSize % PageSize = 0
    <2>1. PageSize = 1 * PageSize
        BY Sizes
    <2>2. QED
        BY <2>1, MultipleIs, Sizes
<1>12. p + PageSize \in Nat /\ PageStart(p + PageSize)
    <2>1. p % PageSize = 0 /\ PageSize \in Nat
        BY <1>2 DEF PageStart
    <2>2. (p + PageSize) % PageSize = 0
        BY <1>2, <1>11, <2>1, MultiplesAdd
    <2>3. QED
        BY <2>1, <2>2 DEF PageStart
<1>13. QED
    BY <1>5, <1>8, <1>9, <1>10, <1>12

\* A record ends beyond its start, behind a page header.
LEMMA RecordIs ==
    ASSUME NEW r \in Records
    PROVE  /\ r \in LSN /\ r \in Nat /\ Reads[r] \in Lengths /\ Reads[r] # 0
           /\ Reads[r] \in Nat /\ Reads[r] >= RecordHeader
           /\ EndOf(r, Reads[r]) \in Nat /\ EndOf(r, Reads[r]) > r
           /\ EndOf(r, Reads[r]) - 1 \in Taken(r, EndOf(r, Reads[r]))
           /\ r % Align = 0 /\ IsData(r)
           /\ \A s \in Records : r < s => EndOf(r, Reads[r]) <= s
<1>1. r \in LSN /\ Reads[r] # 0 /\ Reads[r] \in Nat /\ Reads[r] >= RecordHeader
    BY ContentAssumption
<1>2. r \in Nat /\ Reads[r] \in Lengths
    BY <1>1, Sizes DEF LSN, Lengths
<1>3. /\ EndOf(r, Reads[r]) \in Nat /\ EndOf(r, Reads[r]) > r
      /\ EndOf(r, Reads[r]) - 1 \in Taken(r, EndOf(r, Reads[r]))
    BY <1>1, <1>2, EndIs
<1>4. QED
    BY <1>1, <1>2, <1>3, WALAssumption

\* The last byte of a record that goes on to a page is behind the page's header.
LEMMA LastIsData ==
    ASSUME NEW r \in Records, NEW p \in Nat, PageStart(p), r < p,
           p < EndOf(r, Reads[r])
    PROVE  /\ EndOf(r, Reads[r]) - 1 \in Data(p, EndOf(r, Reads[r]))
           /\ NextPage(r) <= p
<1> DEFINE end == EndOf(r, Reads[r])
<1>1. r \in Nat /\ end \in Nat /\ end - 1 \in Taken(r, end)
    BY RecordIs
<1>2. PICK q \in Nat : PageStart(q) /\ q <= r /\ r < q + PageSize
    BY <1>1, ItsPage
<1>3. NextPage(r) = q + PageSize
    BY <1>1, <1>2, OnPage
<1>4. q < p
    BY <1>1, <1>2
<1>5. NextPage(r) <= p
    BY <1>2, <1>3, <1>4, MultiplesApart, Sizes DEF PageStart
<1>6. end - 1 >= p /\ end - 1 \in p..(end - 1)
    BY <1>1
<1>7. NextPage(r) \in Nat
    BY <1>2, <1>3, Sizes
<1> HIDE DEF end
<1>8. IsData(end - 1)
    <2>1. ~ (end - 1 < NextPage(r))
        BY <1>1, <1>5, <1>6, <1>7
    <2>2. QED
        BY <1>1, <2>1 DEF Taken, Data
<1>9. QED
    BY <1>5, <1>6, <1>8 DEF Data, end

\* The parser stands at a page header, or behind one and not inside a record.
OnTrack(x) ==
    \/ PageStart(x)
    \/ IsData(x) /\ \A r \in Records : ~ (r < x /\ x < EndOf(r, Reads[r]))

\* It does at the end of a record.
LEMMA EndIsOnTrack ==
    ASSUME NEW r \in Records
    PROVE  OnTrack(EndOf(r, Reads[r]))
<1> DEFINE end == EndOf(r, Reads[r])
<1>1. r \in Nat /\ end \in Nat /\ end > r /\ IsData(r)
    BY RecordIs
<1>2. PICK p \in Nat : PageStart(p) /\ p <= end /\ end < p + PageSize
    BY <1>1, ItsPage
<1>3. \A s \in Records : ~ (s < end /\ end < EndOf(s, Reads[s]))
    <2>1. SUFFICES ASSUME NEW s \in Records, s < end, end < EndOf(s, Reads[s])
                   PROVE  FALSE
        OBVIOUS
    <2>2. s \in Nat /\ EndOf(s, Reads[s]) \in Nat
        BY RecordIs
    <2>3. r < s => end <= s
        BY RecordIs
    <2>4. s < r => EndOf(s, Reads[s]) <= r
        BY RecordIs
    <2>5. s = r => FALSE
        BY <1>1, <2>1
    <2> HIDE DEF end
    <2>6. QED
        BY <1>1, <2>1, <2>2, <2>3, <2>4, <2>5
<1>4. HeaderSize(p) \in Nat /\ HeaderSize(p) >= 1
    BY HeaderFits, Sizes
<1>5. CASE end = p
    BY <1>2, <1>5 DEF OnTrack
<1>6. CASE end > p
    <2> DEFINE z == end - 1
    <2> HIDE DEF end
    <2>1. z \in Nat /\ p <= z /\ z < p + PageSize
        BY <1>1, <1>2, <1>6, Sizes
    <2>2. z >= p + HeaderSize(p)
        <3>1. CASE r < p
            <4>1. IsData(z)
                BY <1>2, <1>6, <3>1, LastIsData DEF Data, end
            <4>2. QED
                BY <1>2, <2>1, <4>1, OnPage
        <3>2. CASE p <= r
            <4>1. r < p + PageSize
                BY <1>1, <1>2, Sizes
            <4>2. r >= p + HeaderSize(p)
                BY <1>1, <1>2, <3>2, <4>1, OnPage
            <4>3. QED
                BY <1>1, <1>2, <1>4, <4>2
        <3>3. QED
            BY <1>1, <1>2, <3>1, <3>2
    <2>3. end >= p + HeaderSize(p)
        BY <1>1, <1>2, <1>4, <2>2
    <2>4. IsData(end)
        BY <1>1, <1>2, <1>6, <2>3, OnPage
    <2>5. QED
        BY <1>3, <2>4 DEF OnTrack, end
<1>7. QED
    BY <1>1, <1>2, <1>5, <1>6

\* What a page header says of the record it cuts.
LEMMA RemLenIs ==
    ASSUME NEW p \in Nat, PageStart(p)
    PROVE  \/ /\ RemLen(p) = 0
              /\ \A r \in Records : ~ (r < p /\ p < EndOf(r, Reads[r]))
           \/ \E r \in Records :
                 /\ r < p /\ p < EndOf(r, Reads[r])
                 /\ RemLen(p) = Cardinality(Data(p, EndOf(r, Reads[r])))
                 /\ RemLen(p) \in Nat /\ RemLen(p) > 0
<1> DEFINE cut == {r \in Records : r < p /\ p < EndOf(r, Reads[r])}
           record == CHOOSE r \in cut : TRUE
<1>1. CASE cut = {}
    BY <1>1 DEF RemLen
<1>2. CASE cut # {}
    <2> DEFINE end == EndOf(record, Reads[record])
    <2>1. record \in cut
        BY <1>2
    <2>2. record \in Records /\ record < p /\ p < end
        BY <2>1
    <2>3. RemLen(p) = Cardinality(Data(p, end))
        BY <1>2 DEF RemLen
    <2> HIDE DEF record, cut
    <2>4. end \in Nat /\ end - 1 \in Data(p, end)
        BY <2>2, RecordIs, LastIsData
    <2> HIDE DEF end
    <2>5. IsFiniteSet(Data(p, end))
        <3>1. Data(p, end) \subseteq p..(end - 1)
            BY DEF Data
        <3>2. IsFiniteSet(p..(end - 1))
            BY <2>4, FS_Interval
        <3>3. QED
            BY <3>1, <3>2, FS_Subset
    <2>6. Cardinality(Data(p, end)) \in Nat /\ Cardinality(Data(p, end)) # 0
        BY <2>4, <2>5, FS_CardinalityType, FS_EmptySet
    <2>7. RemLen(p) \in Nat /\ RemLen(p) > 0
        BY <2>3, <2>6
    <2>8. QED
        BY <2>2, <2>3, <2>7 DEF end
<1>3. QED
    BY <1>1, <1>2

\* The tail on a page ends with the record, or fills the page.
LEMMA TailEnds ==
    ASSUME NEW p \in Nat, PageStart(p), NEW end \in Nat, p < end,
           end - 1 \in Data(p, end)
    PROVE  LET rest == PageSize - HeaderSize(p)
               tail == Cardinality(Data(p, end))
           IN  /\ tail \in Nat
               /\ end <= p + PageSize => tail = end - p - HeaderSize(p)
               /\ end > p + PageSize => tail >= rest
<1> DEFINE h == HeaderSize(p)
<1>1. h \in Nat /\ h < PageSize /\ PageSize \in Nat
    BY HeaderFits, Sizes
<1>2. /\ IsFiniteSet(Data(p, end)) /\ Cardinality(Data(p, end)) \in Nat
    <2>1. Data(p, end) \subseteq p..(end - 1)
        BY DEF Data
    <2>2. IsFiniteSet(p..(end - 1))
        BY FS_Interval
    <2>3. QED
        BY <2>1, <2>2, FS_Subset, FS_CardinalityType
<1>3. \A z \in p..(p + PageSize - 1) : IsData(z) <=> z >= p + h
    <2>1. \A z \in p..(p + PageSize - 1) : z \in Nat /\ p <= z /\ z < p + PageSize
        BY <1>1
    <2>2. QED
        BY <2>1, OnPage
<1> HIDE DEF h
<1>4. ASSUME end <= p + PageSize
      PROVE  Cardinality(Data(p, end)) = end - p - h
    <2>1. p..(end - 1) \subseteq p..(p + PageSize - 1)
        BY <1>1, <1>4
    <2>2. Data(p, end) = {z \in p..(end - 1) : z >= p + h}
        BY <1>3, <2>1 DEF Data
    <2>3. {z \in p..(end - 1) : z >= p + h} = (p + h)..(end - 1)
        BY <1>1
    <2>4. end - 1 >= p + h
        BY <2>2
    <2>5. Cardinality((p + h)..(end - 1)) = (end - 1) - (p + h) + 1
        BY <1>1, <2>4, FS_Interval
    <2>6. (end - 1) - (p + h) + 1 = end - p - h
        BY <1>1
    <2>7. QED
        BY <2>2, <2>3, <2>5, <2>6
<1>5. ASSUME end > p + PageSize
      PROVE  Cardinality(Data(p, end)) >= PageSize - h
    <2>1. p..(p + PageSize - 1) \subseteq p..(end - 1)
        BY <1>1, <1>5
    <2>2. (p + h)..(p + PageSize - 1) \subseteq p..(p + PageSize - 1)
        BY <1>1
    <2>3. \A z \in (p + h)..(p + PageSize - 1) : z >= p + h
        BY <1>1
    <2>4. (p + h)..(p + PageSize - 1) \subseteq Data(p, end)
        BY <1>3, <2>1, <2>2, <2>3 DEF Data
    <2>5. Cardinality((p + h)..(p + PageSize - 1)) <= Cardinality(Data(p, end))
        BY <1>2, <2>4, FS_Subset
    <2>6. Cardinality((p + h)..(p + PageSize - 1)) = (p + PageSize - 1) - (p + h) + 1
        BY <1>1, FS_Interval
    <2>7. QED
        BY <1>1, <1>2, <2>5, <2>6
<1>6. QED
    BY <1>2, <1>4, <1>5 DEF h

\* More bytes do not end earlier.
LEMMA EndGrows ==
    ASSUME NEW x \in LSN, NEW k \in Lengths, NEW l \in Lengths, k # 0, l # 0,
           k \in Nat, l \in Nat, k <= l
    PROVE  EndOf(x, k) <= EndOf(x, l)
<1> DEFINE a == EndOf(x, k)  b == EndOf(x, l)
<1>1. /\ a \in Nat /\ a - 1 \in Taken(x, a) /\ Cardinality(Taken(x, a)) = k
      /\ b \in Nat /\ Cardinality(Taken(x, b)) = l /\ a > x
    BY EndIs
<1>2. x \in Nat
    BY Sizes DEF LSN
<1> HIDE DEF a, b
<1>3. SUFFICES ASSUME b < a PROVE FALSE
    BY <1>1 DEF a, b
<1>4. /\ IsFiniteSet(Taken(x, b)) /\ IsFiniteSet(Taken(x, a))
      /\ Taken(x, b) \subseteq x..(b - 1)
    BY <1>1, <1>2, TakenIsFinite
<1>5. a - 1 \notin Taken(x, b)
    BY <1>1, <1>3, <1>4
<1>6. Taken(x, b) \subseteq Taken(x, a)
    <2>1. x..(b - 1) \subseteq x..(a - 1)
        BY <1>1, <1>2, <1>3
    <2>2. QED
        BY <2>1 DEF Taken, Data
<1>7. Cardinality(Taken(x, b) \union {a - 1}) = Cardinality(Taken(x, b)) + 1
    BY <1>4, <1>5, FS_AddElement
<1>8. Taken(x, b) \union {a - 1} \subseteq Taken(x, a)
    BY <1>1, <1>6
<1>9. Cardinality(Taken(x, b) \union {a - 1}) <= Cardinality(Taken(x, a))
    BY <1>4, <1>8, FS_Subset
<1>10. QED
    BY <1>1, <1>7, <1>9

\* Page starts are aligned.
LEMMA PageIsAligned ==
    ASSUME NEW p \in Nat, PageStart(p)
    PROVE  p % Align = 0
<1>1. PICK q \in Nat : p = q * PageSize
    BY MultipleIs, Sizes DEF PageStart
<1>2. PICK k \in Nat : PageSize = k * Align
    <2>1. PageSize % Align = 0
        BY WALAssumption
    <2>2. QED
        BY <2>1, MultipleIs, Sizes
<1>3. p = q * (k * Align)
    BY <1>1, <1>2
<1>4. q * (k * Align) = (q * k) * Align /\ q * k \in Nat
    BY Sizes
<1>5. QED
    BY <1>3, <1>4, MultipleIs, Sizes

-----------------------------------------------------------------------------
(* A tidy stream                                                           *)

\* A record the parser has passed: it was reported, a message end cuts it in two,
\* or the cap has removed it.
Settled(r) ==
    \/ \E i \in 1..Len(emitted) : emitted[i].lsn = r
    \/ \E e \in ends : r < e /\ e < EndOf(r, Reads[r])
    \/ r \in dropped

AllReal == \A i \in 1..Len(emitted) : emitted[i].lsn \in Records

\* With a tidy sender the buffer ends with what was sent, at a page boundary; the
\* parser is never inside a record or a header, but for the start of a page, and
\* every record before it is settled.
TidyInv ==
    Tidy =>
        /\ original = NoCopy
        /\ BufferEnd = sent /\ PageStart(sent) /\ (sent # 0 => sent \in ends)
        /\ OnTrack(Here) /\ (~ PageStart(Here) => synced)
        /\ AllReal
        /\ \A r \in Records : r < Here => Settled(r)
        /\ pc = "idle" => offset = 0

\* Types, as the steps below use them.
LEMMA TidyTypes ==
    ASSUME DecoderInv
    PROVE  /\ bufferStart \in Nat /\ Len(buffer) \in Nat /\ sent \in Nat
           /\ offset \in Nat /\ offset <= Len(buffer)
           /\ Here \in Nat /\ Here = bufferStart + offset
           /\ BufferEnd \in Nat /\ BufferEnd = bufferStart + Len(buffer)
           /\ Left = BufferEnd - Here /\ emitted \in Seq(Reported)
<1>1. /\ bufferStart \in Nat /\ Len(buffer) \in Nat /\ sent \in Nat
      /\ offset \in 0..Len(buffer) /\ emitted \in Seq(Reported)
    BY OrderTypes
<1>2. offset \in Nat /\ offset <= Len(buffer)
    BY <1>1
<1>3. /\ Here = bufferStart + offset /\ BufferEnd = bufferStart + Len(buffer)
      /\ Left = Len(buffer) - offset
    BY DEF Here, BufferEnd, Left
<1>4. Left = BufferEnd - Here /\ Here \in Nat /\ BufferEnd \in Nat
    BY <1>1, <1>2, <1>3
<1>5. QED
    BY <1>1, <1>2, <1>3, <1>4

\* The page of an iteration is all there.
LEMMA PageIsBuffered ==
    ASSUME DecoderInv, TidyInv, Tidy, InLoop
    PROVE  /\ Here < BufferEnd /\ NextPage(Here) \in Nat
           /\ Here < NextPage(Here) /\ NextPage(Here) <= BufferEnd
           /\ PageStart(NextPage(Here))
           /\ PageStart(Here) => NextPage(Here) = Here + PageSize
<1>1. /\ Here \in Nat /\ BufferEnd \in Nat /\ Here < BufferEnd
    BY TidyTypes, HereIsThere DEF DecoderInv
<1>2. PICK p \in Nat : PageStart(p) /\ p <= Here /\ Here < p + PageSize
    BY <1>1, ItsPage
<1>3. /\ NextPage(Here) = p + PageSize /\ PageStart(p + PageSize)
      /\ p + PageSize \in Nat /\ (PageStart(Here) => Here = p)
    BY <1>1, <1>2, OnPage
<1>4. PageStart(BufferEnd)
    BY DEF TidyInv
<1>5. p < BufferEnd
    BY <1>1, <1>2
<1>6. p + PageSize <= BufferEnd
    BY <1>1, <1>2, <1>4, <1>5, MultiplesApart, Sizes DEF PageStart
<1>7. QED
    BY <1>1, <1>2, <1>3, <1>6

\* What was reported and what is settled stays so while nothing is added.
LEMMA NothingNew ==
    ASSUME UNCHANGED <<emitted, ends, dropped>>
    PROVE  /\ AllReal => AllReal'
           /\ \A r \in Records : Settled(r) => Settled(r)'
BY DEF AllReal, Settled

\* The loop goes on behind what is settled.
LEMMA GoOnTidy ==
    ASSUME DecoderInv, TidyInv, Tidy, pc = "consume", NEW x \in Nat, NEW c, c = x - bufferStart,
           NEW s \in BOOLEAN, GoOn(c, s), UNCHANGED <<sender, sent, ends, dropped>>,
           OnTrack(x), ~ PageStart(x) => s, AllReal',
           \A r \in Records : Settled(r) => Settled(r)',
           \A r \in Records : Here <= r /\ r < x => Settled(r)'
    PROVE  TidyInv'
<1>1. /\ UNCHANGED <<bufferStart, buffer, original, pc>> /\ offset' = c /\ synced' = s
    BY DEF GoOn
<1>2. Here' = x
    <2>1. Here' = bufferStart + (x - bufferStart)
        BY <1>1 DEF Here
    <2>2. QED
        BY <2>1, TidyTypes
<1>3. BufferEnd' = BufferEnd
    BY <1>1 DEF BufferEnd
<1>4. ASSUME NEW r \in Records, r < x
      PROVE  Settled(r)'
    <2>1. r \in Nat /\ Here \in Nat
        BY RecordIs, TidyTypes
    <2>2. r < Here \/ Here <= r
        BY <2>1
    <2>3. r < Here => Settled(r)
        BY DEF TidyInv
    <2>4. QED
        BY <1>4, <2>2, <2>3
<1>5. Tidy'
    BY DEF Tidy
<1>6. QED
    BY <1>1, <1>2, <1>3, <1>4, <1>5 DEF TidyInv

\* A call ends where the loop stands.
LEMMA LeaveTidy ==
    ASSUME DecoderInv, TidyInv, Tidy, NEW s \in BOOLEAN, Leave(offset, s),
           UNCHANGED <<sender, sent, emitted, ends, dropped>>, ~ PageStart(Here) => s
    PROVE  TidyInv'
<1>1. /\ bufferStart' = bufferStart + offset
      /\ buffer' = SubSeq(buffer, offset + 1, Len(buffer))
      /\ synced' = s /\ original' = NoCopy /\ offset' = 0
    BY DEF Leave, TidyInv
<1>2. Len(buffer') = Len(buffer) - offset
    <2>1. IsWindow(bufferStart, buffer) /\ offset \in 0..Len(buffer)
        BY DEF DecoderInv, BufferInv
    <2>2. QED
        BY <1>1, <2>1, TailIsWindow
<1>3. Here' = Here /\ BufferEnd' = BufferEnd
    <2>1. /\ Here' = (bufferStart + offset) + 0
          /\ BufferEnd' = (bufferStart + offset) + (Len(buffer) - offset)
        BY <1>1, <1>2 DEF Here, BufferEnd
    <2>2. QED
        BY <2>1, TidyTypes
<1>4. AllReal' /\ \A r \in Records : Settled(r) => Settled(r)'
    BY NothingNew DEF TidyInv
<1>5. QED
    BY <1>1, <1>3, <1>4 DEF TidyInv, Tidy

\* AtPage goes on behind the header, and behind the record that it cuts.
LEMMA AtPageTidy ==
    ASSUME DecoderInv, TidyInv, Tidy, AtPage
    PROVE  TidyInv'
<1> DEFINE h == HeaderSize(Here)
           after == offset + h
           rest == PageSize - h
           tail == RemLen(Here)
<1>1. /\ InLoop /\ PageStart(Here) /\ pc = "consume"
      /\ UNCHANGED <<sender, found, sent, emitted, ends, dropped>>
    BY DEF AtPage, InLoop
<1>2. /\ Here \in Nat /\ bufferStart \in Nat /\ offset \in Nat /\ Here = bufferStart + offset
      /\ BufferEnd \in Nat /\ Left = BufferEnd - Here /\ Len(buffer) \in Nat
      /\ BufferEnd = bufferStart + Len(buffer)
    BY TidyTypes
<1>3. Here + PageSize <= BufferEnd /\ PageStart(Here + PageSize)
    BY <1>1, PageIsBuffered
<1>4. h \in Nat /\ h >= 1 /\ h < PageSize /\ PageSize \in Nat
    BY HeaderFits, Sizes
<1>5. AllReal' /\ \A r \in Records : Settled(r) => Settled(r)'
    BY <1>1, NothingNew DEF TidyInv
<1>6. ASSUME NEW x \in Nat, GoOn(x - bufferStart, TRUE), OnTrack(x),
             \A r \in Records : Here <= r /\ r < x => Settled(r)'
      PROVE  TidyInv'
    BY <1>1, <1>5, <1>6, GoOnTidy
<1>7. CASE Left < h
    <2>1. FALSE
        BY <1>2, <1>3, <1>4, <1>7
    <2>2. QED
        BY <2>1
<1>8. CASE tail = 0 /\ GoOn(after, TRUE)
    <2> DEFINE x == Here + h
    <2>1. x \in Nat /\ after = x - bufferStart /\ Here <= x /\ x < Here + PageSize
        BY <1>2, <1>4
    <2>2. ASSUME NEW r \in Records
          PROVE  /\ ~ (r < Here /\ Here < EndOf(r, Reads[r]))
                 /\ ~ (Here <= r /\ r < x)
        <3>1. r \in Nat /\ IsData(r)
            BY RecordIs
        <3>2. ~ (r < Here /\ Here < EndOf(r, Reads[r]))
            <4>1. ~ (RemLen(Here) > 0)
                BY <1>8
            <4>2. QED
                BY <1>1, <1>2, <4>1, RemLenIs
        <3>3. ASSUME Here <= r, r < x
              PROVE  FALSE
            <4>1. r < Here + PageSize
                BY <1>2, <1>4, <2>1, <3>1, <3>3
            <4>2. r >= Here + h
                BY <1>1, <1>2, <3>1, <3>3, <4>1, OnPage
            <4>3. QED
                BY <1>2, <1>4, <3>1, <3>3, <4>2
        <3>4. QED
            BY <3>2, <3>3
    <2>3. IsData(x)
        BY <1>1, <1>2, <2>1, OnPage
    <2>4. ASSUME NEW r \in Records, r < x, x < EndOf(r, Reads[r])
          PROVE  FALSE
        <3>1. r \in Nat /\ EndOf(r, Reads[r]) \in Nat
            BY RecordIs
        <3>2. r < Here
            BY <1>2, <2>2, <2>4, <3>1
        <3>3. Here < EndOf(r, Reads[r])
            BY <1>2, <2>1, <2>4, <3>1
        <3>4. QED
            BY <2>2, <3>2, <3>3
    <2>5. OnTrack(x)
        BY <2>3, <2>4 DEF OnTrack
    <2>6. \A r \in Records : Here <= r /\ r < x => Settled(r)'
        BY <2>2
    <2> HIDE DEF x, after
    <2>7. GoOn(x - bufferStart, TRUE)
        BY <1>8, <2>1
    <2>8. QED
        BY <1>6, <2>1, <2>5, <2>6, <2>7
<1>9. CASE tail > 0 /\ ~ PageIsThere(after)
    <2>1. Len(buffer) - after < PageSize - h
        BY <1>2, <1>4, <1>9 DEF PageIsThere
    <2>2. FALSE
        BY <1>2, <1>3, <1>4, <2>1
    <2>3. QED
        BY <2>2
<1>10. CASE tail > 0 /\ GoOn(after + (IF tail < rest THEN tail ELSE rest), TRUE)
    <2>1. tail \in Nat
        BY <1>2, RemLenIsNat
    <2>2. PICK r \in Records :
              /\ r < Here /\ Here < EndOf(r, Reads[r])
              /\ RemLen(Here) = Cardinality(Data(Here, EndOf(r, Reads[r])))
        <3>1. RemLen(Here) # 0
            BY <1>10, <2>1
        <3>2. QED
            BY <1>1, <1>2, <3>1, RemLenIs
    <2> DEFINE end == EndOf(r, Reads[r])
    <2>3. end \in Nat /\ r \in Nat /\ end - 1 \in Data(Here, end)
        BY <1>1, <1>2, <2>2, RecordIs, LastIsData
    <2>4. /\ end <= Here + PageSize => tail = end - Here - h
          /\ end > Here + PageSize => tail >= rest
        BY <1>1, <1>2, <2>2, <2>3, TailEnds
    <2>5. OnTrack(end)
        BY EndIsOnTrack
    <2>6. ASSUME NEW x \in Nat, x <= end, NEW s \in Records, Here <= s, s < x
          PROVE  FALSE
        <3>1. r < s => end <= s
            BY RecordIs
        <3>2. s \in Nat
            BY RecordIs
        <3> HIDE DEF end
        <3>3. QED
            BY <1>2, <2>2, <2>3, <2>6, <3>1, <3>2
    <2> HIDE DEF end, tail
    <2>7. CASE end <= Here + PageSize
        <3>1. after + (IF tail < rest THEN tail ELSE rest) = end - bufferStart
            <4>1. tail = end - Here - h
                BY <2>4, <2>7
            <4>2. tail <= rest
                BY <1>2, <1>4, <2>3, <2>7, <4>1
            <4>3. (IF tail < rest THEN tail ELSE rest) = tail
                BY <1>4, <2>1, <4>2
            <4>4. after + tail = end - bufferStart
                BY <1>2, <1>4, <2>3, <4>1
            <4>5. QED
                BY <4>3, <4>4
        <3>2. \A s \in Records : Here <= s /\ s < end => Settled(s)'
            BY <2>3, <2>6
        <3>3. GoOn(end - bufferStart, TRUE)
            BY <1>10, <3>1
        <3>4. QED
            BY <1>6, <2>3, <2>5, <3>2, <3>3
    <2>8. CASE end > Here + PageSize
        <3> DEFINE x == Here + PageSize
        <3>1. x \in Nat /\ x <= end /\ OnTrack(x)
            BY <1>2, <1>3, <1>4, <2>3, <2>8 DEF OnTrack
        <3>2. after + (IF tail < rest THEN tail ELSE rest) = x - bufferStart
            <4>1. tail >= rest
                BY <2>4, <2>8
            <4>2. (IF tail < rest THEN tail ELSE rest) = rest
                BY <1>4, <2>1, <4>1
            <4>3. after + rest = x - bufferStart
                BY <1>2, <1>4
            <4>4. QED
                BY <4>2, <4>3
        <3>3. \A s \in Records : Here <= s /\ s < x => Settled(s)'
            BY <2>6, <3>1
        <3> HIDE DEF x
        <3>4. GoOn(x - bufferStart, TRUE)
            BY <1>10, <3>2
        <3>5. QED
            BY <1>6, <3>1, <3>3, <3>4
    <2>9. QED
        BY <1>2, <1>4, <2>3, <2>7, <2>8
<1>11. \/ Left < h
       \/ tail = 0 /\ GoOn(after, TRUE)
       \/ tail > 0 /\ ~ PageIsThere(after)
       \/ tail > 0 /\ GoOn(after + (IF tail < rest THEN tail ELSE rest), TRUE)
    BY DEF AtPage
<1>12. QED
    BY <1>7, <1>8, <1>9, <1>10, <1>11

\* Behind a header the parser is synchronised, and not inside a record.
LEMMA BehindHeader ==
    ASSUME DecoderInv, TidyInv, Tidy, ~ PageStart(Here)
    PROVE  /\ synced /\ IsData(Here)
           /\ \A r \in Records : ~ (r < Here /\ Here < EndOf(r, Reads[r]))
BY DEF TidyInv, OnTrack

\* Pad goes on to the next aligned place: no record starts before it.
LEMMA PadTidy ==
    ASSUME DecoderInv, TidyInv, Tidy, Pad
    PROVE  TidyInv'
<1> DEFINE a == Here % Align
           skip == Align - a
           x == Here + skip
<1>1. /\ InLoop /\ ~ PageStart(Here) /\ a # 0 /\ Skip(skip, synced) /\ pc = "consume"
      /\ UNCHANGED <<sender, found, sent, emitted, ends, dropped>>
    BY DEF Pad, InLoop
<1>2. /\ Here \in Nat /\ bufferStart \in Nat /\ offset \in Nat /\ Here = bufferStart + offset
    BY TidyTypes
<1>3. synced = TRUE /\ IsData(Here) /\ synced \in BOOLEAN
    <2>1. synced \in BOOLEAN
        BY DEF DecoderInv, BufferInv
    <2>2. QED
        BY <1>1, <2>1, BehindHeader
<1>4. CASE Leave(offset, synced)
    BY <1>1, <1>3, <1>4, LeaveTidy
<1>5. CASE GoOn(offset + skip, synced)
    <2>1. PICK q \in Nat : Here = q * Align + a
        BY <1>2, Remainder, Sizes
    <2>2. a \in 0..(Align - 1) /\ Align \in Nat \ {0}
        BY <1>2, Remainder, Sizes
    <2> DEFINE b == q * Align
    <2>3. b \in Nat /\ b % Align = 0
        BY <2>2, MultipleIs
    <2>4. Here = b + a
        BY <2>1
    <2> HIDE DEF a, b
    <2>5. x = b + Align /\ x \in Nat /\ b < Here /\ Here < x
        BY <1>1, <1>2, <2>2, <2>3, <2>4
    <2>6. ASSUME NEW z \in Nat, z % Align = 0, Here <= z
          PROVE  x <= z
        <3>1. b < z
            BY <1>2, <2>3, <2>5, <2>6
        <3>2. b + Align <= z
            BY <2>2, <2>3, <2>6, <3>1, MultiplesApart
        <3>3. QED
            BY <2>5, <3>2
    <2> HIDE DEF x
    <2>7. PICK p \in Nat : PageStart(p) /\ p <= Here /\ Here < p + PageSize
        BY <1>2, ItsPage
    <2>8. /\ p + PageSize \in Nat /\ PageStart(p + PageSize)
          /\ Here >= p + HeaderSize(p)
        BY <1>2, <1>3, <2>7, OnPage
    <2>9. x <= p + PageSize
        <3>1. (p + PageSize) % Align = 0
            BY <2>8, PageIsAligned
        <3>2. Here <= p + PageSize
            BY <1>2, <2>7, <2>8
        <3>3. QED
            BY <2>6, <2>8, <3>1, <3>2
    <2>10. OnTrack(x)
        <3>1. CASE x = p + PageSize
            BY <2>8, <3>1 DEF OnTrack
        <3>2. CASE x < p + PageSize
            <4>1. HeaderSize(p) \in Nat
                BY HeaderFits, Sizes
            <4>2. p <= x /\ x >= p + HeaderSize(p)
                BY <1>2, <2>5, <2>7, <2>8, <4>1
            <4>3. IsData(x)
                BY <2>5, <2>7, <3>2, <4>2, OnPage
            <4>4. ASSUME NEW r \in Records, r < x, x < EndOf(r, Reads[r])
                  PROVE  FALSE
                <5>1. r \in Nat /\ r % Align = 0 /\ EndOf(r, Reads[r]) \in Nat
                    BY RecordIs
                <5>2. ~ (Here <= r)
                    BY <2>5, <2>6, <4>4, <5>1
                <5>3. r < Here /\ Here < EndOf(r, Reads[r])
                    BY <1>2, <2>5, <4>4, <5>1, <5>2
                <5>4. QED
                    BY <1>1, <5>3, BehindHeader
            <4>5. QED
                BY <4>3, <4>4 DEF OnTrack
        <3>3. QED
            BY <2>5, <2>8, <2>9, <3>1, <3>2
    <2>11. ASSUME NEW r \in Records, Here <= r, r < x
           PROVE  FALSE
        <3>1. r \in Nat /\ r % Align = 0
            BY RecordIs
        <3>2. QED
            BY <2>5, <2>6, <2>11, <3>1
    <2>12. offset + skip = x - bufferStart
        BY <1>2, <2>2 DEF x
    <2>13. AllReal' /\ \A r \in Records : Settled(r) => Settled(r)'
        BY <1>1, NothingNew DEF TidyInv
    <2>14. GoOn(x - bufferStart, synced)
        BY <1>5, <2>12
    <2>15. QED
        BY <1>1, <1>3, <2>5, <2>10, <2>11, <2>13, <2>14, GoOnTidy
<1>6. QED
    BY <1>1, <1>4, <1>5 DEF Skip

\* A record that does not parse is one that the end of the buffer cuts in two.
LEMMA BadRecordIsCut ==
    ASSUME DecoderInv, TidyInv, Tidy, InLoop, Here \in Records, Parse(Here) = "bad"
    PROVE  sent \in ends /\ Here < sent /\ sent < EndOf(Here, Reads[Here])
<1> DEFINE end == EndOf(Here, Reads[Here])
<1>1. /\ Here \in LSN /\ Here \in Nat /\ Reads[Here] \in Lengths /\ Reads[Here] # 0
      /\ Reads[Here] \in Nat /\ Reads[Here] >= RecordHeader /\ end \in Nat
    BY RecordIs
<1>2. RecordHeader \in Lengths /\ RecordHeader # 0 /\ RecordHeader \in Nat
    BY Sizes DEF Lengths
<1>3. ~ allowPartial
    BY DEF TidyInv, allowPartial
<1>4. PICK len \in {RecordHeader, Reads[Here]} : Collect(Here, len) = "bad"
    BY <1>1, <1>3 DEF Parse
<1> DEFINE stop == EndOf(Here, len)
<1>5. stop \in Nat /\ stop <= end
    <2>1. EndOf(Here, RecordHeader) <= end
        BY <1>1, <1>2, EndGrows
    <2>2. EndOf(Here, RecordHeader) \in Nat
        BY <1>1, <1>2, EndIs
    <2>3. end <= end
        BY <1>1
    <2>4. QED
        BY <1>1, <1>4, <2>1, <2>2, <2>3
<1>6. PICK p \in Boundaries(Here, stop) :
          /\ p <= BufferEnd
          /\ IF BufferEnd < p + HeaderSize(p) THEN ~ allowPartial ELSE RemLen(p) = 0
    BY <1>4 DEF Collect
<1> HIDE DEF stop, end
<1>7. p \in Nat /\ PageStart(p) /\ Here < p /\ p < stop
    BY <1>1, <1>5, <1>6 DEF Boundaries
<1>8. p < end
    BY <1>1, <1>5, <1>7
<1>9. CASE RemLen(p) = 0
    <2>1. ~ (RemLen(p) > 0)
        BY <1>9
    <2>2. \A r \in Records : ~ (r < p /\ p < EndOf(r, Reads[r]))
        BY <1>7, <2>1, RemLenIs
    <2>3. QED
        BY <1>7, <1>8, <2>2 DEF end
<1>10. CASE BufferEnd < p + HeaderSize(p)
    <2>1. BufferEnd \in Nat /\ BufferEnd = sent /\ PageStart(BufferEnd)
        BY TidyTypes DEF TidyInv
    <2>2. HeaderSize(p) \in Nat /\ HeaderSize(p) < PageSize /\ PageSize \in Nat
        BY HeaderFits, Sizes
    <2>3. ~ (p < BufferEnd)
        <3>1. SUFFICES ASSUME p < BufferEnd PROVE FALSE
            OBVIOUS
        <3>2. p + PageSize <= BufferEnd
            BY <1>7, <2>1, <3>1, MultiplesApart, Sizes DEF PageStart
        <3>3. QED
            BY <1>7, <1>10, <2>1, <2>2, <3>2
    <2>4. p = sent
        BY <1>6, <1>7, <2>1, <2>3
    <2>5. sent # 0
        BY <1>1, <1>7, <2>4
    <2>6. sent \in ends
        BY <2>5 DEF TidyInv
    <2>7. QED
        BY <1>7, <1>8, <2>4, <2>6 DEF end
<1>11. QED
    BY <1>6, <1>9, <1>10

\* Where a record could start there is one, or nothing up to the next page.
LEMMA RecordOrGap ==
    ASSUME DecoderInv, TidyInv, Tidy, AtRecord
    PROVE  \/ Here \in Records
           \/ Reads[Here] = 0 /\ \A r \in Records : r < Here \/ r >= NextPage(Here)
<1>1. InLoop /\ ~ PageStart(Here) /\ Here % Align = 0
    BY DEF AtRecord
<1>2. Here \in LSN /\ Here \in Nat
    BY <1>1, HereIsThere DEF DecoderInv
<1>3. IsData(Here) /\ \A r \in Records : ~ (r < Here /\ Here < EndOf(r, Reads[r]))
    BY <1>1, BehindHeader
<1>4. ASSUME NEW r \in Records, r <= Here, Here < EndOf(r, Reads[r])
      PROVE  Here \in Records
    <2>1. r \in Nat /\ ~ (r < Here)
        BY <1>3, <1>4, RecordIs
    <2>2. r = Here
        BY <1>2, <1>4, <2>1
    <2>3. QED
        BY <2>2
<1>5. QED
    BY <1>1, <1>2, <1>3, <1>4, WALAssumption

\* BadRecord goes on to the next page: the record it gives up is cut.
LEMMA BadRecordTidy ==
    ASSUME DecoderInv, TidyInv, Tidy, BadRecord
    PROVE  TidyInv'
<1> DEFINE x == NextPage(Here)
<1>1. /\ InLoop /\ AtRecord /\ Parse(Here) = "bad" /\ Skip(x - Here, FALSE) /\ pc = "consume"
      /\ UNCHANGED <<sender, found, sent, emitted, ends, dropped>>
    BY DEF BadRecord, AtRecord, InLoop
<1>2. /\ Here \in Nat /\ bufferStart \in Nat /\ offset \in Nat /\ Here = bufferStart + offset
      /\ BufferEnd \in Nat /\ Left = BufferEnd - Here /\ BufferEnd = sent /\ sent \in Nat
    BY TidyTypes DEF TidyInv
<1>3. x \in Nat /\ Here < x /\ x <= BufferEnd /\ PageStart(x)
    BY <1>1, PageIsBuffered
<1>4. AllReal' /\ \A r \in Records : Settled(r) => Settled(r)'
    BY <1>1, NothingNew DEF TidyInv
<1>5. ASSUME NEW r \in Records, Here <= r, r < x
      PROVE  Settled(r)'
    <2>1. r \in Nat
        BY RecordIs
    <2>2. Here \in Records
        BY <1>1, <1>2, <1>3, <1>5, <2>1, RecordOrGap
    <2>3. sent \in ends /\ Here < sent /\ sent < EndOf(Here, Reads[Here])
        BY <1>1, <2>2, BadRecordIsCut
    <2>4. r = Here
        <3>1. Here < r => EndOf(Here, Reads[Here]) <= r
            BY <2>2, RecordIs
        <3>2. EndOf(Here, Reads[Here]) \in Nat
            BY <2>2, RecordIs
        <3>3. QED
            BY <1>2, <1>3, <1>5, <2>1, <2>3, <3>1, <3>2
    <2>5. Settled(r)
        BY <2>3, <2>4 DEF Settled
    <2>6. QED
        BY <1>4, <2>5
<1> HIDE DEF x
<1>6. GoOn(x - bufferStart, FALSE)
    <2>1. ~ (x - Here > Left)
        BY <1>2, <1>3
    <2>2. offset + (x - Here) = x - bufferStart
        BY <1>2, <1>3
    <2>3. QED
        BY <1>1, <2>1, <2>2 DEF Skip
<1>7. OnTrack(x)
    BY <1>3 DEF OnTrack
<1>8. QED
    BY <1>1, <1>3, <1>4, <1>5, <1>6, <1>7, GoOnTidy

\* GoodRecord reports a record of the WAL and goes on at its end.
LEMMA GoodRecordTidy ==
    ASSUME DecoderInv, TidyInv, Tidy, GoodRecord
    PROVE  TidyInv'
<1> DEFINE end == EndOf(Here, Reads[Here])
           record == [lsn |-> Here, end |-> end, preview |-> allowPartial]
<1>1. /\ InLoop /\ AtRecord /\ Parse(Here) = "ok" /\ GoOn(end - bufferStart, TRUE)
      /\ emitted' = Append(emitted, record) /\ pc = "consume"
      /\ UNCHANGED <<sender, sent, ends, dropped>>
    BY DEF GoodRecord, AtRecord, InLoop, Emit
<1>2. /\ Here \in Nat /\ emitted \in Seq(Reported)
    BY TidyTypes
<1>3. Here \in Records
    <2>1. Reads[Here] # 0
        BY <1>1 DEF Parse
    <2>2. QED
        BY <1>1, <2>1, RecordOrGap
<1>4. end \in Nat /\ OnTrack(end)
    BY <1>3, RecordIs, EndIsOnTrack
<1>5. /\ Len(emitted) \in Nat /\ Len(emitted') = Len(emitted) + 1
      /\ \A i \in 1..Len(emitted) : emitted'[i] = emitted[i]
      /\ emitted'[Len(emitted) + 1].lsn = Here
    <2>1. record.lsn = Here
        OBVIOUS
    <2> DEFINE n == Len(emitted)  e == Here
    <2> HIDE DEF record, e
    <2>2. /\ n \in Nat /\ Len(emitted') = n + 1
          /\ \A i \in 1..n : emitted'[i] = emitted[i]
          /\ emitted'[n + 1] = record
        <3>1. record \in Reported
            <4>1. Here \in LSN /\ BufferEnd \in LSN /\ bufferStart \in Nat /\ Len(buffer) \in Nat
                  /\ BufferEnd = bufferStart + Len(buffer)
                BY <1>1, HereIsThere DEF DecoderInv
            <4>2. end - bufferStart \in offset..Len(buffer)
                BY <1>1, ParsedIsThere DEF DecoderInv
            <4>3. end <= BufferEnd
                BY <1>4, <4>1, <4>2, TidyTypes
            <4>4. end \in LSN
                BY <1>4, <4>1, <4>3, Sizes DEF LSN
            <4>5. allowPartial \in BOOLEAN
                BY DEF allowPartial
            <4>6. QED
                BY <4>1, <4>4, <4>5 DEF record, Reported
        <3>2. QED
            BY <1>1, <1>2, <3>1, AppendProperties, LenProperties
    <2>3. QED
        BY <2>1, <2>2
<1>6. AllReal'
    <2>1. \A i \in 1..Len(emitted) : emitted[i].lsn \in Records
        BY DEF TidyInv, AllReal
    <2>2. \A i \in 1..(Len(emitted) + 1) : i \in 1..Len(emitted) \/ i = Len(emitted) + 1
        BY <1>5
    <2>3. QED
        BY <1>3, <1>5, <2>1, <2>2 DEF AllReal
<1>7. \A i \in 1..Len(emitted) : i \in 1..Len(emitted')
    BY <1>5
<1>8. \A r \in Records : Settled(r) => Settled(r)'
    BY <1>1, <1>5, <1>7 DEF Settled
<1>9. ASSUME NEW r \in Records, Here <= r, r < end
      PROVE  Settled(r)'
    <2>1. r = Here
        <3>1. Here < r => end <= r
            BY <1>3, RecordIs
        <3>2. r \in Nat
            BY RecordIs
        <3> HIDE DEF end
        <3>3. QED
            BY <1>2, <1>4, <1>9, <3>1, <3>2
    <2>2. Len(emitted) + 1 \in 1..Len(emitted')
        BY <1>5
    <2>3. \E i \in 1..Len(emitted') : emitted'[i].lsn = r
        BY <1>5, <2>1, <2>2
    <2>4. QED
        BY <2>3 DEF Settled
<1> HIDE DEF end
<1>10. QED
    BY <1>1, <1>4, <1>6, <1>8, <1>9, GoOnTidy

\* Every iteration keeps the parser on track.
LEMMA ConsumeTidy ==
    ASSUME DecoderInv, TidyInv, Tidy, Consume
    PROVE  TidyInv'
<1>1. synced \in BOOLEAN /\ ~ allowPartial
    BY DEF DecoderInv, BufferInv, TidyInv, allowPartial
<1>2. ~ PageStart(Here) => synced
    BY BehindHeader
<1>3. CASE LoopEnds
    BY <1>1, <1>2, <1>3, LeaveTidy DEF LoopEnds
<1>4. CASE AtPage
    BY <1>4, AtPageTidy
<1>5. CASE Resync
    BY <1>2, <1>5 DEF Resync
<1>6. CASE Pad
    BY <1>6, PadTidy
<1>7. CASE NeedMore
    BY <1>1, <1>2, <1>7, LeaveTidy DEF NeedMore
<1>8. CASE BadRecord
    BY <1>8, BadRecordTidy
<1>9. CASE GoodRecord
    BY <1>9, GoodRecordTidy
<1>10. QED
    BY <1>3, <1>4, <1>5, <1>6, <1>7, <1>8, <1>9 DEF Consume

\* A message goes on where the buffer ends, and is whole pages; the cap leaves
\* two.
LEMMA FeedTidy ==
    ASSUME DecoderInv, TidyInv, Tidy, NEW len \in sender.sizes, Feed(len)
    PROVE  TidyInv'
<1> DEFINE u == Appended(sent, len)
           b == IF buffer = <<>> THEN u ELSE Capped(u)
<1>1. /\ pc = "idle" /\ pc' = "consume" /\ sent + len <= MaxLSN /\ original' = NoCopy
      /\ offset' = 0 /\ sent' = sent + len /\ ends' = ends \union {sent + len}
      /\ UNCHANGED <<sender, emitted>> /\ Take(len)
    BY DEF Feed, Take
<1>2. /\ bufferStart' = b.start /\ buffer' = b.bytes /\ synced' = b.synced
      /\ dropped' = dropped \union u.start..(b.start - 1)
    BY <1>1 DEF Take
<1>3. /\ bufferStart \in Nat /\ Len(buffer) \in Nat /\ sent \in Nat /\ Here \in Nat
      /\ BufferEnd = bufferStart + Len(buffer) /\ BufferEnd = sent /\ offset = 0
      /\ Here = bufferStart
    BY <1>1, TidyTypes DEF TidyInv
<1>4. len \in Nat /\ len # 0 /\ len % PageSize = 0
    BY <1>1, MessageSizes DEF Tidy
<1>5. synced \in BOOLEAN /\ BufferInv
    BY DEF DecoderInv, BufferInv
<1>6. u.start = bufferStart /\ u.synced = synced /\ IsWindow(u.start, u.bytes)
      /\ u.start + Len(u.bytes) = sent + len
    <2>1. /\ IsWindow(u.start, u.bytes)
          /\ IF Replaces
             THEN u.start = sent /\ Len(u.bytes) = len
             ELSE u.start = bufferStart /\ u.start + Len(u.bytes) = LatestEnd(len)
        BY <1>1, <1>3, <1>4, <1>5, AppendedIsWindow
    <2>2. CASE buffer = <<>>
        <3>1. Len(buffer) = 0
            BY <2>2, EmptySeq
        <3>2. bufferStart = sent /\ Replaces
            BY <1>3, <2>2, <3>1 DEF Replaces
        <3>3. u.synced = (synced /\ buffer = <<>> /\ bufferStart = sent)
            BY <2>2 DEF Appended
        <3>4. u.synced = synced
            BY <1>5, <2>2, <3>2, <3>3
        <3> HIDE DEF u
        <3>5. QED
            BY <1>3, <2>1, <3>2, <3>4
    <2>3. CASE buffer # <<>>
        <3>1. ~ Replaces
            BY <1>3, <2>3 DEF Replaces
        <3>2. u.synced = synced
            BY <2>3, <3>1 DEF Appended, Replaces
        <3>3. LatestEnd(len) = sent + len
            BY <1>3, <1>4 DEF LatestEnd
        <3> HIDE DEF u
        <3>4. QED
            BY <2>1, <3>1, <3>2, <3>3
    <2>4. QED
        BY <2>2, <2>3
<1>7. Len(u.bytes) \in Nat
    BY <1>6, LenProperties DEF IsWindow
<1>8. sent' \in Nat /\ PageStart(sent') /\ sent' \in ends'
    <2>1. sent % PageSize = 0
        BY DEF TidyInv, PageStart
    <2>2. (sent + len) % PageSize = 0
        BY ZenonT(60), <1>3, <1>4, <2>1, MultiplesAdd, Sizes
    <2>3. QED
        BY <1>1, <1>3, <1>4, <2>2 DEF PageStart
<1> HIDE DEF u
<1>9. /\ b.synced = synced /\ b.start \in Nat /\ Len(b.bytes) \in Nat
      /\ b.start + Len(b.bytes) = sent + len /\ b.start >= bufferStart
      /\ b.start = bufferStart \/ PageStart(b.start)
    <2>1. CASE b = u
        <3> HIDE DEF b
        <3>1. QED
            BY <1>3, <1>6, <1>7, <2>1
    <2>2. CASE b = Capped(u) /\ Len(u.bytes) > BufferCap
        <3> DEFINE n == Len(u.bytes)
                   cut == n - 2 * PageSize
                   tail == SubSeq(u.bytes, cut + 1, n)
        <3>1. n \in Nat /\ 2 * PageSize \in Nat /\ 2 * PageSize < n
              /\ BufferCap \in Nat /\ 2 * PageSize <= BufferCap /\ ~ (n <= BufferCap)
            <4>1. /\ BufferCap \in Nat /\ 2 * PageSize <= BufferCap /\ 2 * PageSize \in Nat
                BY Sizes
            <4> HIDE DEF n
            <4>2. n \in Nat /\ n > BufferCap
                BY <1>7, <2>2 DEF n
            <4>3. QED
                BY <4>1, <4>2
        <3>2. b = [start |-> u.start + cut, bytes |-> tail, synced |-> u.synced]
            BY <2>2, <3>1 DEF Capped
        <3>3. b.start = u.start + cut /\ b.bytes = tail /\ b.synced = u.synced
            BY <3>2
        <3> HIDE DEF b, n
        <3>4. cut \in 0..n /\ cut \in Nat
            BY <3>1
        <3>5. Len(tail) = n - cut
            <4> HIDE DEF cut
            <4>1. QED
                BY <1>6, <3>4, TailIsWindow DEF n
        <3>6. /\ b.start = (sent + len) - 2 * PageSize /\ 2 * PageSize <= sent + len
              /\ b.start \in Nat
            <4>1. u.start + n = sent + len /\ u.start \in Nat
                BY <1>3, <1>6 DEF n
            <4>2. QED
                BY <1>3, <1>4, <3>1, <3>3, <4>1
        <3>7. PageStart(b.start)
            <4>1. PageSize % PageSize = 0
                <5>1. PageSize = 1 * PageSize
                    BY Sizes
                <5>2. QED
                    BY <5>1, MultipleIs, Sizes
            <4>2. (2 * PageSize) % PageSize = 0
                BY <3>1, MultipleIs, Sizes
            <4>3. (sent + len) % PageSize = 0 /\ sent + len \in Nat
                BY <1>1, <1>8 DEF PageStart
            <4>4. ((sent + len) - 2 * PageSize) % PageSize = 0
                BY ZenonT(60), <3>1, <3>6, <4>2, <4>3, MultiplesAdd, Sizes
            <4>5. QED
                BY <3>6, <4>4 DEF PageStart
        <3>8. Len(b.bytes) \in Nat /\ b.start + Len(b.bytes) = sent + len
              /\ b.start >= bufferStart
            <4>1. u.start + n = sent + len /\ u.start = bufferStart
                BY <1>6 DEF n
            <4>2. Len(b.bytes) = n - cut /\ b.start = u.start + cut
                BY <3>3, <3>5
            <4> HIDE DEF cut
            <4>3. n - cut \in Nat /\ u.start \in Nat /\ n \in Nat /\ cut \in Nat
                BY <1>3, <3>1, <3>4, <4>1
            <4>4. b.start + Len(b.bytes) = u.start + n /\ b.start >= u.start
                BY <4>2, <4>3
            <4>5. QED
                BY <4>1, <4>2, <4>3, <4>4
        <3>9. QED
            BY <1>6, <3>3, <3>6, <3>7, <3>8
    <2>3. b = u \/ (b = Capped(u) /\ Len(u.bytes) > BufferCap)
        BY DEF Capped
    <2>4. QED
        BY <2>1, <2>2, <2>3
<1> HIDE DEF b
<1>10. Here' = b.start /\ BufferEnd' = sent'
    <2>1. Here' = b.start + 0 /\ BufferEnd' = b.start + Len(b.bytes)
        BY <1>1, <1>2 DEF Here, BufferEnd
    <2>2. QED
        BY <1>1, <1>9, <2>1
<1>11. OnTrack(Here') /\ (~ PageStart(Here') => synced')
    <2>1. CASE b.start = bufferStart
        <3>1. Here' = Here /\ synced' = synced
            BY <1>2, <1>3, <1>9, <1>10, <2>1
        <3>2. QED
            BY <3>1 DEF TidyInv
    <2>2. CASE PageStart(b.start)
        BY <1>10, <2>2 DEF OnTrack
    <2>3. QED
        BY <1>9, <2>1, <2>2
<1>12. AllReal'
    BY <1>1 DEF TidyInv, AllReal
<1>13. ASSUME NEW r \in Records, r < b.start
       PROVE  Settled(r)'
    <2>1. r \in Nat
        BY RecordIs
    <2>2. CASE r < bufferStart
        <3>1. Settled(r)
            BY <1>3, <2>2 DEF TidyInv
        <3>2. QED
            BY <1>1, <1>2, <3>1 DEF Settled
    <2>3. CASE bufferStart <= r
        <3>1. r \in u.start..(b.start - 1)
            BY <1>3, <1>6, <1>9, <1>13, <2>1, <2>3
        <3>2. QED
            BY <1>2, <3>1 DEF Settled
    <2>4. QED
        BY <1>3, <2>1, <2>2, <2>3
<1>14. QED
    BY <1>1, <1>8, <1>10, <1>11, <1>12, <1>13 DEF TidyInv

\* Every step keeps a tidy stream in order.
LEMMA NextTidy == DecoderInv /\ TidyInv /\ [Next]_vars => TidyInv'
<1> SUFFICES ASSUME DecoderInv, TidyInv, [Next]_vars, Tidy' PROVE TidyInv'
    BY DEF TidyInv
<1>1. sender' = sender
    <2>1. Consume => ConsumeMove
        BY ConsumeMoves DEF DecoderInv
    <2>2. QED
        BY <2>1 DEF Next, FeedAny, PreviewAny, LoseAny, RestartAny, Feed,
                    DecodePreview, Lose, Restart, vars, ConsumeMove
<1>2. Tidy
    BY <1>1 DEF Tidy
<1>3. CASE FeedAny
    BY <1>2, <1>3, FeedTidy DEF FeedAny
<1>4. CASE PreviewAny \/ LoseAny \/ RestartAny
    BY <1>2, <1>4 DEF Tidy, PreviewAny, LoseAny, RestartAny, DecodePreview, Lose, Restart
<1>5. CASE Consume
    BY <1>2, <1>5, ConsumeTidy
<1>6. CASE UNCHANGED vars
    <2>1. UNCHANGED <<bufferStart, buffer, offset, original, synced, pc, sent, emitted, ends,
                      dropped>>
        BY <1>6 DEF vars, decoderVars
    <2>2. Here' = Here /\ BufferEnd' = BufferEnd
        BY <2>1 DEF Here, BufferEnd
    <2>3. AllReal' /\ \A r \in Records : Settled(r) => Settled(r)'
        BY <1>2, <2>1, NothingNew DEF TidyInv
    <2>4. QED
        BY <1>2, <2>1, <2>2, <2>3 DEF TidyInv
<1>7. QED
    BY <1>3, <1>4, <1>5, <1>6 DEF Next

\* From a sender that loses nothing and whose messages are whole pages, every
\* record reported is one of the WAL, and a record in front of the buffer was
\* reported, is cut by the end of a message, or was removed by the cap
\* (waldecode.go, consume and append).
THEOREM TidyCorrect == Spec => []TidyStreamIsDecoded
<1>1. Init => TidyInv
    <2> SUFFICES ASSUME Init PROVE TidyInv
        OBVIOUS
    <2>1. Len(emitted) = 0 /\ Len(buffer) = 0
        BY EmptySeq DEF Init
    <2>2. Here = 0 /\ BufferEnd = 0 /\ sent = 0 /\ original = NoCopy /\ offset = 0
        BY <2>1 DEF Init, Here, BufferEnd
    <2>3. PageStart(0)
        <3>1. 0 = 0 * PageSize
            BY Sizes
        <3>2. QED
            BY <3>1, MultipleIs, Sizes DEF PageStart
    <2>4. AllReal
        BY <2>1 DEF AllReal
    <2>5. \A r \in Records : ~ (r < Here)
        BY <2>2, RecordIs
    <2>6. QED
        BY <2>2, <2>3, <2>4, <2>5 DEF TidyInv, OnTrack
<1>2. DecoderInv /\ TidyInv /\ [Next]_vars => TidyInv'
    BY NextTidy
<1>3. DecoderInv /\ TidyInv => TidyStreamIsDecoded
    <2> SUFFICES ASSUME DecoderInv, TidyInv, Tidy
                 PROVE  /\ RecordsAreReal
                        /\ \A r \in Passed :
                              \/ \E i \in DOMAIN emitted : emitted[i].lsn = r
                              \/ \E e \in ends : r < e /\ e < EndOf(r, Reads[r])
                              \/ r \in dropped
        BY DEF TidyStreamIsDecoded
    <2>1. DOMAIN emitted = 1..Len(emitted)
        BY TidyTypes, LenProperties
    <2>2. RecordsAreReal
        BY <2>1 DEF TidyInv, AllReal, RecordsAreReal
    <2>3. ASSUME NEW r \in Passed
          PROVE  Settled(r)
        <3>1. r \in Records /\ EndOf(r, Reads[r]) <= bufferStart
            BY DEF Passed
        <3>2. r \in Nat /\ EndOf(r, Reads[r]) \in Nat /\ EndOf(r, Reads[r]) > r
            BY <3>1, RecordIs
        <3>3. r < Here
            BY <3>1, <3>2, TidyTypes
        <3>4. QED
            BY <3>1, <3>3 DEF TidyInv
    <2>4. QED
        BY <2>1, <2>2, <2>3 DEF Settled
<1>4. QED
    BY <1>1, <1>2, <1>3, DecoderInductive, PTL DEF Spec

=============================================================================
