------------------------- MODULE RingBuffer_proofs --------------------------
(***************************************************************************)
(* The ring buffer implements the bounded queue of Fifo, for every size of *)
(* the array, every alphabet and every bound on the length of a call.      *)
(***************************************************************************)
EXTENDS RingBuffer, FiniteSets, TLAPS, FiniteSetTheorems, WellFoundedInduction

-----------------------------------------------------------------------------
(* Positions in the array.                                                 *)

\* The number of bytes between two positions, and what the array holds there.
SizeOf(s, e) == (e - s + BufferSize) % BufferSize

View(b, s, e) == [i \in 1 .. SizeOf(s, e) |-> b[Advance(s, i - 1)]]

\* Moving an index by no more than the array's size wraps at most once.
LEMMA AdvanceValue ==
  ASSUME NEW i \in Slots, NEW n \in 0 .. BufferSize
  PROVE  /\ Advance(i, n) = IF i + n < BufferSize THEN i + n ELSE i + n - BufferSize
         /\ Advance(i, n) \in Slots
  BY RingAssumption, SMT DEF Advance, Slots

\* The distance between two positions, forward.
LEMMA SizeValue ==
  ASSUME NEW s \in Slots, NEW e \in Slots
  PROVE  /\ SizeOf(s, e) = IF s <= e THEN e - s ELSE e - s + BufferSize
         /\ SizeOf(s, e) \in 0 .. BufferSize - 1
         /\ Distance(s, e) = SizeOf(s, e)
  BY RingAssumption, SMT DEF SizeOf, Distance, Slots

\* Moving the end away from the start, and the start towards the end.
LEMMA Moving ==
  ASSUME NEW s \in Slots, NEW e \in Slots
  PROVE  /\ Advance(s, SizeOf(s, e)) = e
         /\ \A n \in 0 .. BufferSize - 1 - SizeOf(s, e) :
               SizeOf(s, Advance(e, n)) = SizeOf(s, e) + n
         /\ \A n \in 0 .. SizeOf(s, e) :
               /\ SizeOf(Advance(s, n), e) = SizeOf(s, e) - n
               /\ \A k \in 0 .. SizeOf(s, e) - n :
                     Advance(Advance(s, n), k) = Advance(s, n + k)
         /\ \A k \in 0 .. BufferSize - 1 - SizeOf(s, e) :
               Advance(s, SizeOf(s, e) + k) = Advance(e, k)
  <1>1. /\ SizeOf(s, e) \in 0 .. BufferSize - 1
        /\ SizeOf(s, e) = IF s <= e THEN e - s ELSE e - s + BufferSize
        /\ BufferSize \in Nat \ {0}
        /\ s \in 0 .. BufferSize - 1 /\ e \in 0 .. BufferSize - 1
    BY SizeValue, RingAssumption DEF Slots
  <1>2. Advance(s, SizeOf(s, e)) = e
    BY <1>1, AdvanceValue
  <1>3. ASSUME NEW n \in 0 .. BufferSize - 1 - SizeOf(s, e)
        PROVE  SizeOf(s, Advance(e, n)) = SizeOf(s, e) + n
    <2> DEFINE f == Advance(e, n)
    <2>1. f \in Slots /\ f = IF e + n < BufferSize THEN e + n ELSE e + n - BufferSize
      BY <1>1, AdvanceValue
    <2>2. SizeOf(s, f) = IF s <= f THEN f - s ELSE f - s + BufferSize
      BY <2>1, SizeValue
    <2> HIDE DEF f
    <2>3. SizeOf(s, f) = SizeOf(s, e) + n
      BY <1>1, <2>1, <2>2 DEF Slots
    <2> QED
      BY <2>3 DEF f
  <1>4. ASSUME NEW n \in 0 .. SizeOf(s, e)
        PROVE  /\ SizeOf(Advance(s, n), e) = SizeOf(s, e) - n
               /\ \A k \in 0 .. SizeOf(s, e) - n :
                     Advance(Advance(s, n), k) = Advance(s, n + k)
    <2> DEFINE f == Advance(s, n)
    <2>1. f \in Slots /\ f = IF s + n < BufferSize THEN s + n ELSE s + n - BufferSize
      BY <1>1, AdvanceValue
    <2>2. SizeOf(f, e) = IF f <= e THEN e - f ELSE e - f + BufferSize
      BY <2>1, SizeValue
    <2> HIDE DEF f
    <2>3. SizeOf(f, e) = SizeOf(s, e) - n
      BY <1>1, <2>1, <2>2 DEF Slots
    <2>4. ASSUME NEW k \in 0 .. SizeOf(s, e) - n
          PROVE  Advance(f, k) = Advance(s, n + k)
      <3>1. n + k \in 0 .. BufferSize /\ k \in 0 .. BufferSize
        BY <1>1
      <3>2. /\ Advance(f, k) = IF f + k < BufferSize THEN f + k ELSE f + k - BufferSize
            /\ Advance(s, n + k) = IF s + (n + k) < BufferSize THEN s + (n + k)
                                   ELSE s + (n + k) - BufferSize
        BY <2>1, <3>1, AdvanceValue
      <3> QED
        BY <1>1, <2>1, <3>2 DEF Slots
    <2> QED
      BY <2>3, <2>4 DEF f
  <1>5. ASSUME NEW k \in 0 .. BufferSize - 1 - SizeOf(s, e)
        PROVE  Advance(s, SizeOf(s, e) + k) = Advance(e, k)
    <2>1. SizeOf(s, e) + k \in 0 .. BufferSize /\ k \in 0 .. BufferSize
      BY <1>1
    <2>2. /\ Advance(e, k) = IF e + k < BufferSize THEN e + k ELSE e + k - BufferSize
          /\ Advance(s, SizeOf(s, e) + k) =
                IF s + (SizeOf(s, e) + k) < BufferSize THEN s + (SizeOf(s, e) + k)
                ELSE s + (SizeOf(s, e) + k) - BufferSize
      BY <2>1, AdvanceValue
    <2> QED
      BY <1>1, <2>2
  <1> QED
    BY <1>2, <1>3, <1>4, <1>5

\* A byte between start and end is not among the free slots behind end.
LEMMA HeldIsNotFree ==
  ASSUME NEW s \in Slots, NEW e \in Slots, NEW i \in 1 .. SizeOf(s, e)
  PROVE  /\ Advance(s, i - 1) \in Slots
         /\ Distance(e, Advance(s, i - 1)) >= BufferSize - SizeOf(s, e)
         /\ Advance(s, i - 1) # e
  <1>1. /\ SizeOf(s, e) \in 0 .. BufferSize - 1
        /\ SizeOf(s, e) = IF s <= e THEN e - s ELSE e - s + BufferSize
        /\ BufferSize \in Nat \ {0}
        /\ s \in 0 .. BufferSize - 1 /\ e \in 0 .. BufferSize - 1
    BY SizeValue, RingAssumption DEF Slots
  <1>2. i - 1 \in 0 .. BufferSize
    BY <1>1
  <1> DEFINE f == Advance(s, i - 1)
  <1>3. /\ f \in Slots
        /\ f = IF s + (i - 1) < BufferSize THEN s + (i - 1) ELSE s + (i - 1) - BufferSize
    BY <1>2, AdvanceValue
  <1>4. Distance(e, f) = IF e <= f THEN f - e ELSE f - e + BufferSize
    BY <1>3, SizeValue
  <1> HIDE DEF f
  <1>5. Distance(e, f) >= BufferSize - SizeOf(s, e) /\ f # e
    BY <1>1, <1>3, <1>4 DEF Slots
  <1> QED
    BY <1>3, <1>5 DEF f

-----------------------------------------------------------------------------
(* The bytes the array holds, as a sequence.                               *)

Arrays == [Slots -> Octets]

\* The view of an array is a sequence of at most BufferSize - 1 bytes.
LEMMA ViewType ==
  ASSUME NEW b \in Arrays, NEW s \in Slots, NEW e \in Slots
  PROVE  /\ View(b, s, e) \in Seq(Octets)
         /\ Len(View(b, s, e)) = SizeOf(s, e)
         /\ SizeOf(s, e) \in 0 .. BufferSize - 1
         /\ \A i \in 1 .. SizeOf(s, e) : View(b, s, e)[i] = b[Advance(s, i - 1)]
  <1>1. SizeOf(s, e) \in 0 .. BufferSize - 1 /\ SizeOf(s, e) \in Nat
    BY SizeValue, RingAssumption
  <1>2. \A i \in 1 .. SizeOf(s, e) : b[Advance(s, i - 1)] \in Octets
    BY HeldIsNotFree DEF Arrays
  <1> QED
    BY <1>1, <1>2 DEF View

\* Sequences of the same length and the same elements are equal.
LEMMA SameSequence ==
  ASSUME NEW p \in Seq(Octets), NEW q \in Seq(Octets), Len(p) = Len(q),
         \A i \in 1 .. Len(p) : p[i] = q[i]
  PROVE  p = q
  OBVIOUS

\* Concatenation puts the second sequence behind the first.
LEMMA Concatenation ==
  ASSUME NEW p \in Seq(Octets), NEW q \in Seq(Octets)
  PROVE  /\ p \o q \in Seq(Octets)
         /\ Len(p \o q) = Len(p) + Len(q)
         /\ \A i \in 1 .. Len(p) : (p \o q)[i] = p[i]
         /\ \A i \in Len(p) + 1 .. Len(p) + Len(q) : (p \o q)[i] = q[i - Len(p)]
  OBVIOUS

\* Storing n bytes behind end appends them to the bytes held.
LEMMA StoringAppends ==
  ASSUME NEW b \in Arrays, NEW c \in Arrays, NEW s \in Slots, NEW e \in Slots,
         NEW data \in Seq(Octets), NEW n \in 0 .. Len(data),
         n <= BufferSize - 1 - SizeOf(s, e),
         \A slot \in Slots : c[slot] = IF Distance(e, slot) < n
                                       THEN data[Distance(e, slot) + 1] ELSE b[slot]
  PROVE  View(c, s, Advance(e, n)) = View(b, s, e) \o SubSeq(data, 1, n)
  <1> DEFINE size == SizeOf(s, e)
             f == Advance(e, n)
             q == View(b, s, e)
             d == SubSeq(data, 1, n)
             r == View(c, s, f)
  <1>1. /\ size \in 0 .. BufferSize - 1 /\ BufferSize \in Nat \ {0}
        /\ n \in 0 .. BufferSize /\ n \in 0 .. BufferSize - 1 - size
        /\ f \in Slots /\ SizeOf(s, f) = size + n
    <2> HIDE DEF f
    <2>1. size \in 0 .. BufferSize - 1 /\ BufferSize \in Nat \ {0}
      BY SizeValue, RingAssumption
    <2>2. n \in Nat /\ n <= BufferSize - 1 - size
      OBVIOUS
    <2> HIDE DEF size
    <2>3. n \in 0 .. BufferSize /\ n \in 0 .. BufferSize - 1 - size
      BY <2>1, <2>2
    <2>4. f \in Slots
      BY <2>3, AdvanceValue DEF f
    <2>5. \A k \in 0 .. BufferSize - 1 - SizeOf(s, e) :
             SizeOf(s, Advance(e, k)) = SizeOf(s, e) + k
      BY Moving
    <2>6. SizeOf(s, f) = size + n
      BY <2>3, <2>5 DEF f, size
    <2> QED
      BY <2>1, <2>3, <2>4, <2>6
  <1>2. /\ q \in Seq(Octets) /\ Len(q) = size
        /\ \A i \in 1 .. size : q[i] = b[Advance(s, i - 1)]
    BY ViewType
  <1>3. /\ r \in Seq(Octets) /\ Len(r) = size + n
        /\ \A i \in 1 .. size + n : r[i] = c[Advance(s, i - 1)]
    BY <1>1, ViewType
  <1>4. /\ d \in Seq(Octets) /\ Len(d) = n
        /\ \A i \in 1 .. n : d[i] = data[i]
    BY <1>1
  <1>5. ASSUME NEW i \in 1 .. size PROVE r[i] = q[i]
    <2>1. /\ Advance(s, i - 1) \in Slots
          /\ ~(Distance(e, Advance(s, i - 1)) < n)
      <3>1. /\ Distance(e, Advance(s, i - 1)) >= BufferSize - size
            /\ Advance(s, i - 1) \in Slots
        BY HeldIsNotFree
      <3>2. Distance(e, Advance(s, i - 1)) \in Int
        BY <3>1, SizeValue, RingAssumption
      <3> QED
        BY <1>1, <3>1, <3>2
    <2>2. i \in 1 .. size + n
      BY <1>1
    <2> QED
      BY <1>2, <1>3, <2>1, <2>2
  <1>6. ASSUME NEW k \in 1 .. n PROVE r[size + k] = d[k]
    <2>1. /\ k - 1 \in 0 .. BufferSize - 1 - size /\ k - 1 \in 0 .. BufferSize
          /\ size + k \in 1 .. size + n /\ (size + k) - 1 = size + (k - 1)
      BY <1>1
    <2>2. Advance(s, size + (k - 1)) = Advance(e, k - 1)
      BY <2>1, Moving
    <2>3. Advance(e, k - 1) \in Slots /\ Distance(e, Advance(e, k - 1)) = k - 1
      <3>1. Advance(e, k - 1) \in Slots
        BY <2>1, AdvanceValue
      <3>2. SizeOf(e, e) = 0
        BY SizeValue, RingAssumption DEF Slots
      <3>3. SizeOf(e, Advance(e, k - 1)) = SizeOf(e, e) + (k - 1)
        BY <1>1, <2>1, <3>2, Moving
      <3> QED
        BY <2>1, <3>1, <3>2, <3>3, SizeValue
    <2>4. r[size + k] = c[Advance(e, k - 1)]
      BY <1>3, <2>1, <2>2
    <2>5. c[Advance(e, k - 1)] = data[k]
      BY <1>1, <2>3
    <2> QED
      BY <1>4, <2>4, <2>5
  <1> HIDE DEF size, f, q, d, r
  <1>7. /\ q \o d \in Seq(Octets) /\ Len(q \o d) = size + n
        /\ \A i \in 1 .. size : (q \o d)[i] = q[i]
        /\ \A k \in 1 .. n : (q \o d)[size + k] = d[k]
    <2>1. /\ q \o d \in Seq(Octets) /\ Len(q \o d) = size + n
          /\ \A i \in 1 .. size : (q \o d)[i] = q[i]
          /\ \A i \in size + 1 .. size + n : (q \o d)[i] = d[i - size]
      BY <1>2, <1>4, Concatenation
    <2>2. ASSUME NEW k \in 1 .. n PROVE (q \o d)[size + k] = d[k]
      <3>1. size + k \in size + 1 .. size + n /\ (size + k) - size = k
        BY <1>1
      <3> QED
        BY <2>1, <3>1
    <2> QED
      BY <2>1, <2>2
  <1>8. \A i \in 1 .. Len(r) : r[i] = (q \o d)[i]
    <2> SUFFICES ASSUME NEW i \in 1 .. size + n PROVE r[i] = (q \o d)[i]
      BY <1>3
    <2>1. CASE i <= size
      BY <1>1, <1>5, <1>7, <2>1
    <2>2. CASE ~(i <= size)
      <3>1. i - size \in 1 .. n /\ size + (i - size) = i
        BY <1>1, <2>2
      <3> QED
        BY <1>6, <1>7, <3>1
    <2> QED
      BY <2>1, <2>2
  <1>9. r = q \o d
    BY <1>3, <1>7, <1>8, SameSequence
  <1> QED
    BY <1>9 DEF q, d, r, f

\* Moving start forward by n drops the n oldest bytes, which are the ones read.
LEMMA ReadingDrops ==
  ASSUME NEW b \in Arrays, NEW s \in Slots, NEW e \in Slots, NEW n \in 0 .. SizeOf(s, e)
  PROVE  /\ View(b, Advance(s, n), e)
               = SubSeq(View(b, s, e), n + 1, Len(View(b, s, e)))
         /\ [i \in 1 .. n |-> b[Advance(s, i - 1)]] = SubSeq(View(b, s, e), 1, n)
  <1> DEFINE size == SizeOf(s, e)
             f == Advance(s, n)
             q == View(b, s, e)
             r == View(b, f, e)
             o == [i \in 1 .. n |-> b[Advance(s, i - 1)]]
  <1>1. /\ size \in 0 .. BufferSize - 1 /\ BufferSize \in Nat \ {0}
        /\ n \in 0 .. BufferSize
    BY SizeValue, RingAssumption
  <1>2. f \in Slots /\ SizeOf(f, e) = size - n
    BY <1>1, AdvanceValue, Moving
  <1>3. /\ q \in Seq(Octets) /\ Len(q) = size
        /\ \A i \in 1 .. size : q[i] = b[Advance(s, i - 1)]
    BY ViewType
  <1>4. /\ r \in Seq(Octets) /\ Len(r) = size - n
        /\ \A i \in 1 .. size - n : r[i] = b[Advance(f, i - 1)]
    BY <1>2, ViewType
  <1>5. \A i \in 1 .. size - n : b[Advance(f, i - 1)] = b[Advance(s, (n + i) - 1)]
    <2> TAKE i \in 1 .. size - n
    <2>1. i - 1 \in 0 .. size - n /\ n + (i - 1) = (n + i) - 1
      BY <1>1
    <2> QED
      BY <2>1, Moving
  <1>6. o \in Seq(Octets) /\ Len(o) = n /\ \A i \in 1 .. n : o[i] = b[Advance(s, i - 1)]
    <2>1. \A i \in 1 .. n : b[Advance(s, i - 1)] \in Octets
      <3> TAKE i \in 1 .. n
      <3>1. i \in 1 .. size
        BY <1>1
      <3> QED
        BY <3>1, HeldIsNotFree DEF Arrays
    <2> QED
      BY <1>1, <2>1
  <1> HIDE DEF size, f, q, r, o
  <1>7. r = SubSeq(q, n + 1, Len(q))
    <2> DEFINE w == SubSeq(q, n + 1, Len(q))
    <2>1. /\ w \in Seq(Octets) /\ Len(w) = size - n
          /\ \A i \in 1 .. size - n : w[i] = q[n + i]
      BY <1>1, <1>3 DEF size
    <2> HIDE DEF w
    <2>2. \A i \in 1 .. Len(r) : r[i] = w[i]
      <3> SUFFICES ASSUME NEW i \in 1 .. size - n PROVE r[i] = w[i]
        BY <1>4
      <3>1. n + i \in 1 .. size
        BY <1>1
      <3> QED
        BY <1>3, <1>4, <1>5, <2>1, <3>1
    <2>3. r = w
      BY <1>4, <2>1, <2>2, SameSequence
    <2> QED
      BY <2>3 DEF w
  <1>8. o = SubSeq(q, 1, n)
    <2> DEFINE w == SubSeq(q, 1, n)
    <2>1. /\ w \in Seq(Octets) /\ Len(w) = n
          /\ \A i \in 1 .. n : w[i] = q[i]
      BY <1>1, <1>3 DEF size
    <2> HIDE DEF w
    <2>2. \A i \in 1 .. Len(o) : o[i] = w[i]
      <3> SUFFICES ASSUME NEW i \in 1 .. n PROVE o[i] = w[i]
        BY <1>6
      <3>1. i \in 1 .. size
        BY <1>1 DEF size
      <3> QED
        BY <1>3, <1>6, <2>1, <3>1
    <2>3. o = w
      BY <1>6, <2>1, <2>2, SameSequence
    <2> QED
      BY <2>3 DEF w
  <1> QED
    BY <1>7, <1>8 DEF q, r, f, o

-----------------------------------------------------------------------------
(* Every method does to the bytes held what Fifo's operation does.         *)

\* In every state of the right type the bytes held are the view of the array,
\* and Full, Size and Free say how many there are.
LEMMA Holding ==
  ASSUME RingTypeOK
  PROVE  /\ start \in Slots /\ end \in Slots /\ buf \in Arrays
         /\ Contents = View(buf, start, end)
         /\ Contents \in Seq(Octets) /\ Len(Contents) = Size
         /\ Size = SizeOf(start, end) /\ Size \in 0 .. BufferSize - 1
         /\ Full <=> Size = BufferSize - 1
  <1>1. start \in Slots /\ end \in Slots /\ buf \in Arrays
    BY DEF RingTypeOK, Arrays
  <1>2. Size = SizeOf(start, end) /\ Contents = View(buf, start, end)
    BY DEF Size, SizeOf, Contents, View, BytesFrom
  <1>3. /\ Contents \in Seq(Octets) /\ Len(Contents) = Size
        /\ Size \in 0 .. BufferSize - 1
    BY <1>1, <1>2, ViewType
  <1>4. Full <=> Size = BufferSize - 1
    <2>1. /\ Size = IF start <= end THEN end - start ELSE end - start + BufferSize
          /\ Advance(end, 1) = IF end + 1 < BufferSize THEN end + 1
                               ELSE end + 1 - BufferSize
      <3>1. 1 \in 0 .. BufferSize
        BY RingAssumption
      <3> QED
        BY <1>1, <1>2, <3>1, AdvanceValue, SizeValue
    <2> QED
      BY <1>1, <2>1, RingAssumption DEF Full, Slots
  <1> QED
    BY <1>1, <1>2, <1>3, <1>4

\* A block is a sequence of bytes.
LEMMA BlockType ==
  ASSUME NEW data \in Blocks
  PROVE  data \in Seq(Octets) /\ Len(data) \in 0 .. MaxCall
  BY RingAssumption DEF Blocks

\* What put does to the array: one byte behind the ones held, or nothing.
LEMMA PutStores ==
  ASSUME RingTypeOK, NEW octet \in Octets, Put(octet)
  PROVE  /\ RingTypeOK'
         /\ Contents' = IF Full THEN Contents ELSE Append(Contents, octet)
  <1>1. /\ start \in Slots /\ end \in Slots /\ buf \in Arrays
        /\ Contents = View(buf, start, end)
        /\ Contents \in Seq(Octets) /\ Len(Contents) = Size
        /\ Size = SizeOf(start, end) /\ Size \in 0 .. BufferSize - 1
        /\ Full <=> Size = BufferSize - 1
    BY Holding
  <1>2. ret' = [ok |-> ~Full, bytes |-> << >>] /\ start' = start
    BY DEF Put, Answer
  <1>3. ret'.ok \in BOOLEAN /\ ret'.bytes \in Seq(Octets)
    BY <1>2
  <1>4. CASE Full
    <2>1. UNCHANGED <<buf, end>>
      BY <1>4 DEF Put
    <2> QED
      BY <1>1, <1>2, <1>3, <1>4, <2>1
      DEF RingTypeOK, Arrays, Contents, BytesFrom, Size
  <1>5. CASE ~Full
    <2>1. buf' = [buf EXCEPT ![end] = octet] /\ end' = Advance(end, 1)
      BY <1>5 DEF Put
    <2>2. buf' \in Arrays /\ end' \in Slots
      BY <1>1, <2>1, AdvanceValue, RingAssumption DEF Arrays
    <2>3. Contents' = View(buf', start', end')
      BY DEF Size, SizeOf, Contents, View, BytesFrom
    <2> DEFINE data == <<octet>>
               n == 1
    <2>4. /\ data \in Seq(Octets) /\ Len(data) = n /\ data[1] = octet
          /\ SubSeq(data, 1, n) = data
      <3>1. data \in Seq(Octets) /\ Len(data) = 1 /\ data[1] = octet
        OBVIOUS
      <3> HIDE DEF data
      <3>2. /\ SubSeq(data, 1, 1) \in Seq(Octets) /\ Len(SubSeq(data, 1, 1)) = 1
            /\ SubSeq(data, 1, 1)[1] = data[1]
        BY <3>1
      <3> QED
        BY <3>1, <3>2, SameSequence
    <2> HIDE DEF data
    <2>5. \A slot \in Slots : buf'[slot] = IF Distance(end, slot) < n
                                           THEN data[Distance(end, slot) + 1]
                                           ELSE buf[slot]
      <3> TAKE slot \in Slots
      <3>1. /\ Distance(end, slot)
                  = IF end <= slot THEN slot - end ELSE slot - end + BufferSize
            /\ end \in 0 .. BufferSize - 1 /\ slot \in 0 .. BufferSize - 1
            /\ BufferSize \in Nat
        BY <1>1, SizeValue, RingAssumption DEF Slots
      <3>2. CASE slot = end
        <4>1. Distance(end, slot) = 0
          BY <3>1, <3>2
        <4> QED
          BY <1>1, <2>1, <2>4, <3>2, <4>1 DEF Arrays
      <3>3. CASE slot # end
        <4>1. ~(Distance(end, slot) < 1)
          BY <3>1, <3>3
        <4> QED
          BY <2>1, <3>3, <4>1, <1>1 DEF Arrays
      <3> QED
        BY <3>2, <3>3
    <2>6. n \in 0 .. Len(data) /\ n <= BufferSize - 1 - SizeOf(start, end)
      BY <1>1, <1>5, <2>4, RingAssumption
    <2> HIDE DEF n
    <2>7. View(buf', start, Advance(end, n)) = View(buf, start, end) \o SubSeq(data, 1, n)
      <3>1. /\ start \in Slots /\ end \in Slots /\ buf \in Arrays /\ buf' \in Arrays
            /\ data \in Seq(Octets)
        BY <1>1, <2>2, <2>4
      <3> QED
        BY <2>5, <2>6, <3>1, StoringAppends
    <2>8. Contents' = Contents \o data
      BY <1>1, <1>2, <2>1, <2>3, <2>4, <2>7 DEF n
    <2>9. Contents \o data = Append(Contents, octet)
      BY <1>1 DEF data
    <2> QED
      BY <1>1, <1>2, <1>3, <1>5, <2>2, <2>8, <2>9 DEF RingTypeOK, Arrays
  <1> QED
    BY <1>4, <1>5

\* What writeAll does to the array: it stores as many of the bytes as there
\* are free slots but one, or nothing.
LEMMA WriteAllStores ==
  ASSUME RingTypeOK, NEW data \in Blocks, WriteAll(data)
  PROVE  /\ RingTypeOK'
         /\ Len(data) <= Free =>
              /\ Contents' = Contents \o SubSeq(data, 1, PutsThatFit(Len(data)))
              /\ ret' = Answer(TRUE, << >>)
         /\ ~(Len(data) <= Free) =>
              /\ Contents' = Contents
              /\ ret' = Answer(FALSE, << >>)
  <1>1. /\ start \in Slots /\ end \in Slots /\ buf \in Arrays
        /\ Contents = View(buf, start, end)
        /\ Size = SizeOf(start, end) /\ Size \in 0 .. BufferSize - 1
    BY Holding
  <1>2. data \in Seq(Octets) /\ Len(data) \in Nat
    BY BlockType, RingAssumption
  <1>3. Free = BufferSize - Size /\ Free \in 1 .. BufferSize
    BY <1>1, RingAssumption DEF Free
  <1>4. CASE ~(Len(data) <= Free)
    <2>1. UNCHANGED <<buf, start, end>> /\ ret' = Answer(FALSE, << >>)
      BY <1>4 DEF WriteAll
    <2>2. ret'.ok \in BOOLEAN /\ ret'.bytes \in Seq(Octets)
      BY <2>1 DEF Answer
    <2> QED
      BY <1>4, <2>1, <2>2 DEF RingTypeOK, Contents, BytesFrom, Size
  <1>5. CASE Len(data) <= Free
    <2> DEFINE n == PutsThatFit(Len(data))
    <2>1. /\ buf' = Filled(data, n) /\ end' = Advance(end, n) /\ start' = start
          /\ ret' = Answer(TRUE, << >>)
      <3>1. ~(Len(data) > Free)
        BY <1>2, <1>3, <1>5, RingAssumption
      <3> QED
        BY <3>1 DEF WriteAll
    <2>2. n \in 0 .. Len(data) /\ n <= BufferSize - 1 - SizeOf(start, end)
      BY <1>1, <1>2, <1>3, <1>5, RingAssumption DEF PutsThatFit
    <2>3. n \in 0 .. BufferSize
      BY <1>1, <2>2, RingAssumption
    <2> HIDE DEF n
    <2>4. \A slot \in Slots : buf'[slot] = IF Distance(end, slot) < n
                                           THEN data[Distance(end, slot) + 1]
                                           ELSE buf[slot]
      BY <2>1 DEF Filled
    <2>5. buf' \in Arrays
      <3>1. ASSUME NEW slot \in Slots PROVE buf'[slot] \in Octets
        <4>1. Distance(end, slot) \in 0 .. BufferSize - 1
          BY <1>1, SizeValue
        <4>2. CASE Distance(end, slot) < n
          <5>1. Distance(end, slot) + 1 \in 1 .. Len(data)
            BY <1>2, <2>2, <4>1, <4>2, RingAssumption
          <5> QED
            BY <1>2, <2>4, <4>2, <5>1
        <4>3. CASE ~(Distance(end, slot) < n)
          BY <1>1, <2>4, <4>3 DEF Arrays
        <4> QED
          BY <4>2, <4>3
      <3> QED
        BY <2>1, <3>1 DEF Arrays, Filled
    <2>6. end' \in Slots
      BY <1>1, <2>1, <2>3, AdvanceValue
    <2>7. View(buf', start, Advance(end, n)) = View(buf, start, end) \o SubSeq(data, 1, n)
      BY <1>1, <1>2, <2>2, <2>4, <2>5, StoringAppends
    <2>8. Contents' = View(buf', start', end')
      BY DEF Size, SizeOf, Contents, View, BytesFrom
    <2>9. ret'.ok \in BOOLEAN /\ ret'.bytes \in Seq(Octets)
      BY <2>1 DEF Answer
    <2> QED
      BY <1>1, <1>5, <2>1, <2>5, <2>6, <2>7, <2>8, <2>9 DEF RingTypeOK, Arrays, n
  <1> QED
    BY <1>4, <1>5

\* What moving start forward does: the n oldest bytes are gone, and they are
\* the ones that were copied out.
LEMMA TakingOldest ==
  ASSUME RingTypeOK, NEW n \in 0 .. Size, start' = Advance(start, n),
         UNCHANGED <<buf, end>>
  PROVE  /\ start' \in Slots
         /\ Contents' = SubSeq(Contents, n + 1, Len(Contents))
         /\ BytesFrom(start, n) = SubSeq(Contents, 1, n)
         /\ BytesFrom(start, n) \in Seq(Octets)
  <1>1. /\ start \in Slots /\ end \in Slots /\ buf \in Arrays
        /\ Contents = View(buf, start, end)
        /\ Contents \in Seq(Octets) /\ Len(Contents) = Size
        /\ Size = SizeOf(start, end) /\ Size \in 0 .. BufferSize - 1
    BY Holding
  <1>2. Contents' = View(buf, Advance(start, n), end)
    BY DEF Size, SizeOf, Contents, View, BytesFrom
  <1>3. BytesFrom(start, n) = [i \in 1 .. n |-> buf[Advance(start, i - 1)]]
    BY DEF BytesFrom
  <1>4. n \in 0 .. BufferSize
    BY <1>1, RingAssumption
  <1>5. Advance(start, n) \in Slots
    BY <1>1, <1>4, AdvanceValue
  <1>6. /\ Contents' = SubSeq(Contents, n + 1, Len(Contents))
        /\ BytesFrom(start, n) = SubSeq(Contents, 1, n)
    BY <1>1, <1>2, <1>3, ReadingDrops
  <1>7. SubSeq(Contents, 1, n) \in Seq(Octets)
    BY <1>1, RingAssumption
  <1> QED
    BY <1>5, <1>6, <1>7

-----------------------------------------------------------------------------
(* The theorems.                                                           *)

\* get and readFull: the oldest bytes, or none.
LEMMA ReadFullTakes ==
  ASSUME RingTypeOK, NEW n \in Nat, ReadFull(n)
  PROVE  /\ RingTypeOK'
         /\ QueueOfBytes!FifoReadFull(n)
  <1>1. /\ start \in Slots /\ end \in Slots /\ buf \in Arrays
        /\ Contents \in Seq(Octets) /\ Len(Contents) = Size
        /\ Size \in 0 .. BufferSize - 1
    BY Holding
  <1>2. UNCHANGED <<buf, end>>
    BY DEF ReadFull
  <1>3. CASE n <= Size
    <2>1. start' = Advance(start, n) /\ ret' = Answer(TRUE, BytesFrom(start, n))
      <3>1. ~(n > Size)
        BY <1>1, <1>3
      <3> QED
        BY <3>1 DEF ReadFull
    <2>2. n \in 0 .. Size
      BY <1>1, <1>3
    <2>3. /\ start' \in Slots
          /\ Contents' = SubSeq(Contents, n + 1, Len(Contents))
          /\ BytesFrom(start, n) = SubSeq(Contents, 1, n)
          /\ BytesFrom(start, n) \in Seq(Octets)
      BY <1>2, <2>1, <2>2, TakingOldest
    <2>4. ret'.ok \in BOOLEAN /\ ret'.bytes \in Seq(Octets)
      BY <2>1, <2>3 DEF Answer
    <2>5. RingTypeOK'
      BY <1>1, <1>2, <2>3, <2>4 DEF RingTypeOK, Arrays
    <2>6. QueueOfBytes!FifoReadFull(n)
      BY <1>1, <1>3, <2>1, <2>3
      DEF QueueOfBytes!FifoReadFull, QueueOfBytes!Holds, QueueOfBytes!After,
          QueueOfBytes!ReadFrom, QueueOfBytes!Answer, Answer
    <2> QED
      BY <2>5, <2>6
  <1>4. CASE ~(n <= Size)
    <2>1. start' = start /\ ret' = Answer(FALSE, << >>)
      BY <1>4 DEF ReadFull
    <2>2. Contents' = Contents
      BY <1>2, <2>1 DEF Contents, BytesFrom, Size
    <2>3. ret'.ok \in BOOLEAN /\ ret'.bytes \in Seq(Octets)
      BY <2>1 DEF Answer
    <2>4. RingTypeOK'
      BY <1>1, <1>2, <2>1, <2>3 DEF RingTypeOK, Arrays
    <2>5. QueueOfBytes!FifoReadFull(n)
      BY <1>1, <1>4, <2>1, <2>2
      DEF QueueOfBytes!FifoReadFull, QueueOfBytes!Holds, QueueOfBytes!Answer, Answer
    <2> QED
      BY <2>4, <2>5
  <1> QED
    BY <1>3, <1>4

\* get is readFull of one byte.
LEMMA GetReadsOne ==
  ASSUME RingTypeOK, Get
  PROVE  ReadFull(1)
  <1>1. /\ start \in Slots /\ end \in Slots
        /\ Size = SizeOf(start, end) /\ Size \in 0 .. BufferSize - 1
    BY Holding
  <1>2. Size = IF start <= end THEN end - start ELSE end - start + BufferSize
    BY <1>1, SizeValue
  <1>3. start = end <=> ~(1 <= Size)
    BY <1>1, <1>2, RingAssumption DEF Slots
  <1>4. BytesFrom(start, 1) = <<buf[start]>>
    <2>1. Advance(start, 1 - 1) = start
      <3>1. 0 \in 0 .. BufferSize
        BY RingAssumption
      <3>2. Advance(start, 0) = start
        BY <1>1, <3>1, AdvanceValue, RingAssumption DEF Slots
      <3> QED
        BY <3>2
    <2>2. BytesFrom(start, 1) = [i \in 1 .. 1 |-> buf[start]]
      <3>1. \A i \in 1 .. 1 : Advance(start, i - 1) = start
        BY <2>1
      <3> QED
        BY <3>1 DEF BytesFrom
    <2>3. \A x : [i \in 1 .. 1 |-> x] = <<x>>
      OBVIOUS
    <2> QED
      BY <2>2, <2>3
  <1>5. CASE start = end
    <2>1. ~(1 <= Size) /\ 1 > Size
      BY <1>1, <1>3, <1>5, RingAssumption
    <2> QED
      BY <1>5, <2>1 DEF Get, ReadFull
  <1>6. CASE start # end
    BY <1>3, <1>4, <1>6 DEF Get, ReadFull
  <1> QED
    BY <1>5, <1>6

\* put and writeAll are the queue's operations: they store at the end what
\* there is room for, and answer as the queue does.
LEMMA PutPuts ==
  ASSUME RingTypeOK, NEW octet \in Octets, Put(octet)
  PROVE  QueueOfBytes!FifoPut(octet)
  <1>1. /\ Len(Contents) = Size /\ Size \in 0 .. BufferSize - 1
        /\ Full <=> Size = BufferSize - 1
    BY Holding
  <1>2. Full <=> ~QueueOfBytes!CanPut(Contents)
    BY <1>1, RingAssumption DEF QueueOfBytes!CanPut, QueueOfBytes!MaxBytes
  <1>3. Contents' = IF Full THEN Contents ELSE Append(Contents, octet)
    BY PutStores
  <1>4. Contents' = QueueOfBytes!PutTo(Contents, octet)
    BY <1>2, <1>3 DEF QueueOfBytes!PutTo
  <1>5. ret' = [ok |-> ~Full, bytes |-> << >>]
    BY DEF Put, Answer
  <1>6. (~Full) = QueueOfBytes!CanPut(Contents)
    BY <1>2 DEF Full, QueueOfBytes!CanPut
  <1>7. ret' = QueueOfBytes!Answer(QueueOfBytes!CanPut(Contents), << >>)
    BY <1>5, <1>6 DEF QueueOfBytes!Answer
  <1> QED
    BY <1>4, <1>7 DEF QueueOfBytes!FifoPut

\* writeAll tests, stores and answers as the queue's writeAll, the byte of the
\* full buffer that the test lets through and put then drops included.
LEMMA WriteAllWrites ==
  ASSUME RingTypeOK, NEW data \in Blocks, WriteAll(data)
  PROVE  QueueOfBytes!FifoWriteAll(data)
  <1>1. /\ Len(Contents) = Size /\ Size \in 0 .. BufferSize - 1
        /\ Len(data) \in Nat /\ Free = BufferSize - Size
    BY Holding, BlockType, RingAssumption DEF Free
  <1>2. Len(data) <= Free <=> QueueOfBytes!Fits(Contents, Len(data))
    BY <1>1 DEF QueueOfBytes!Fits, QueueOfBytes!Capacity
  <1>3. CASE Len(data) <= Free
    <2>1. PutsThatFit(Len(data)) = QueueOfBytes!Stored(Contents, Len(data))
      BY <1>1, <1>3, RingAssumption
      DEF PutsThatFit, QueueOfBytes!Stored, QueueOfBytes!MaxBytes
    <2>2. /\ Contents' = Contents \o SubSeq(data, 1, PutsThatFit(Len(data)))
          /\ ret' = Answer(TRUE, << >>)
      BY <1>3, WriteAllStores
    <2>3. Contents' = QueueOfBytes!WriteAllTo(Contents, data)
      BY <1>2, <1>3, <2>1, <2>2 DEF QueueOfBytes!WriteAllTo
    <2>4. QueueOfBytes!Fits(Contents, Len(data)) = TRUE
      BY <1>2, <1>3 DEF QueueOfBytes!Fits
    <2> QED
      BY <2>2, <2>3, <2>4 DEF QueueOfBytes!FifoWriteAll, QueueOfBytes!Answer, Answer
  <1>4. CASE ~(Len(data) <= Free)
    <2>1. Contents' = Contents /\ ret' = Answer(FALSE, << >>)
      BY <1>4, WriteAllStores
    <2>2. Contents' = QueueOfBytes!WriteAllTo(Contents, data)
      BY <1>2, <1>4, <2>1 DEF QueueOfBytes!WriteAllTo
    <2>3. QueueOfBytes!Fits(Contents, Len(data)) = FALSE
      BY <1>2, <1>4 DEF QueueOfBytes!Fits
    <2> QED
      BY <2>1, <2>2, <2>3 DEF QueueOfBytes!FifoWriteAll, QueueOfBytes!Answer, Answer
  <1> QED
    BY <1>3, <1>4

\* The buffer starts within its array, whatever the uninitialised bytes are.
LEMMA InitType ==
  ASSUME RingInit
  PROVE  RingTypeOK
  <1>1. 0 \in Slots
    BY RingAssumption DEF Slots
  <1>2. ret.ok \in BOOLEAN /\ ret.bytes = << >>
    BY DEF RingInit, Answer
  <1>3. ret.bytes \in Seq(Octets)
    BY <1>2
  <1> QED
    BY <1>1, <1>2, <1>3 DEF RingInit, RingTypeOK

\* The indices stay within the array, and what the calls copy out are bytes
\* that were put: no call reads a slot that was never written as its answer.
THEOREM TypeCorrect == RingSpec => []RingTypeOK
  <1>1. RingInit => RingTypeOK
    BY InitType
  <1>2. RingTypeOK /\ [RingNext]_ringVars => RingTypeOK'
    <2> SUFFICES ASSUME RingTypeOK, [RingNext]_ringVars PROVE RingTypeOK'
      OBVIOUS
    <2>1. ASSUME NEW n \in 0 .. MaxCall + 1, ReadFull(n) PROVE RingTypeOK'
      <3>1. n \in Nat
        BY RingAssumption
      <3> QED
        BY <2>1, <3>1, ReadFullTakes
    <2>2. CASE Get
      <3>1. ReadFull(1)
        BY <2>2, GetReadsOne
      <3> QED
        BY <3>1, ReadFullTakes
    <2>3. CASE UNCHANGED ringVars
      BY <2>3 DEF ringVars, RingTypeOK
    <2> QED
      BY <2>1, <2>2, <2>3, PutStores, WriteAllStores DEF RingNext
  <1> QED
    BY <1>1, <1>2, PTL DEF RingSpec

\* The ring buffer is the bounded queue of Fifo: wherever its indices are and
\* wrap, every call does to the bytes held, and answers, what the queue's does.
THEOREM RefinesFifo == RingSpec => ImplementsFifo
  <1>1. RingInit => QueueOfBytes!FifoInit
    <2> SUFFICES ASSUME RingInit PROVE QueueOfBytes!FifoInit
      OBVIOUS
    <2>1. RingTypeOK
      BY InitType
    <2>2. Contents \in Seq(Octets) /\ Len(Contents) = Size /\ Size = SizeOf(start, end)
      BY <2>1, Holding
    <2>3. SizeOf(start, end) = 0
      BY <2>1, SizeValue, RingAssumption DEF RingInit, Slots, RingTypeOK
    <2>4. Contents = << >>
      BY <2>2, <2>3
    <2> QED
      BY <2>4 DEF RingInit, QueueOfBytes!FifoInit, QueueOfBytes!Answer, Answer
  <1>2. RingTypeOK /\ [RingNext]_ringVars
          => [QueueOfBytes!FifoNext]_(QueueOfBytes!fifoVars)
    <2> SUFFICES ASSUME RingTypeOK, [RingNext]_ringVars
                 PROVE  [QueueOfBytes!FifoNext]_(QueueOfBytes!fifoVars)
      OBVIOUS
    <2>1. ASSUME NEW octet \in Octets, Put(octet) PROVE QueueOfBytes!FifoNext
      BY <2>1, PutPuts DEF QueueOfBytes!FifoNext
    <2>2. CASE Get
      <3>1. QueueOfBytes!FifoReadFull(1)
        BY <2>2, GetReadsOne, ReadFullTakes
      <3>2. 1 \in 0 .. MaxCall + 1
        BY RingAssumption
      <3> QED
        BY <3>1, <3>2 DEF QueueOfBytes!FifoNext
    <2>3. ASSUME NEW data \in Blocks, WriteAll(data) PROVE QueueOfBytes!FifoNext
      <3>1. data \in QueueOfBytes!Blocks
        BY DEF Blocks, QueueOfBytes!Blocks
      <3> QED
        BY <2>3, <3>1, WriteAllWrites DEF QueueOfBytes!FifoNext
    <2>4. ASSUME NEW n \in 0 .. MaxCall + 1, ReadFull(n) PROVE QueueOfBytes!FifoNext
      <3>1. n \in Nat
        BY RingAssumption
      <3> QED
        BY <2>4, <3>1, ReadFullTakes DEF QueueOfBytes!FifoNext
    <2>5. CASE UNCHANGED ringVars
      BY <2>5
      DEF ringVars, QueueOfBytes!fifoVars, Contents, BytesFrom, Size
    <2> QED
      BY <2>1, <2>2, <2>3, <2>4, <2>5 DEF RingNext
  <1> QED
    BY <1>1, <1>2, TypeCorrect, PTL
    DEF RingSpec, ImplementsFifo, QueueOfBytes!FifoSpec

-----------------------------------------------------------------------------
(* The loops of writeAll and readFull.                                     *)

\* A set that has zero, and a number whenever it has the one before, has all
\* numbers up to N: otherwise the intervals below those it lacks would have
\* no smallest one.
LEMMA UpTo ==
  ASSUME NEW N \in Nat, NEW T, 0 \in T, \A n \in 1 .. N : n - 1 \in T => n \in T
  PROVE  \A n \in 0 .. N : n \in T
  <1> DEFINE Gaps == {n \in 0 .. N : n \notin T}
             Below == {0 .. n : n \in Gaps}
  <1>1. SUFFICES ASSUME Gaps # {} PROVE FALSE
    OBVIOUS
  <1>2. IsWellFoundedOn(StrictSubsetOrdering(Nat), FiniteSubsetsOf(Nat))
    BY FS_StrictSubsetOrderingWellFounded
  <1>3. Below \subseteq FiniteSubsetsOf(Nat)
    <2>1. \A n \in Nat : IsFiniteSet(0 .. n)
      BY FS_Interval
    <2> QED
      BY <2>1 DEF FiniteSubsetsOf
  <1>4. Below # {}
    BY <1>1
  <1> HIDE DEF Below
  <1>5. PICK m \in Below : \A s \in Below : <<s, m>> \notin StrictSubsetOrdering(Nat)
    BY <1>2, <1>3, <1>4, WFMin
  <1>6. PICK k \in Gaps : m = 0 .. k
    BY <1>5 DEF Below
  <1>7. k \in 1 .. N /\ k - 1 \in Gaps
    BY <1>6
  <1>8. 0 .. k - 1 \in Below
    BY <1>7 DEF Below
  <1>9. <<0 .. k - 1, m>> \in StrictSubsetOrdering(Nat)
    <2>1. k \in m /\ k \notin 0 .. k - 1
      BY <1>6, <1>7
    <2>2. 0 .. k - 1 \subseteq m /\ m \in SUBSET Nat
      BY <1>6, <1>7
    <2>3. 0 .. k - 1 \in SUBSET Nat /\ 0 .. k - 1 # m
      BY <2>1, <2>2
    <2> QED
      BY <2>1, <2>2, <2>3 DEF StrictSubsetOrdering
  <1> QED
    BY <1>5, <1>8, <1>9

\* The states of the loop of writeAll, in closed form: n puts have stored as
\* many bytes as find a slot.
AfterPuts(data, n) ==
    [buf |-> Filled(data, PutsThatFit(n)), start |-> start,
     end |-> Advance(end, PutsThatFit(n)), out |-> << >>]

\* The next put of the loop stores the next byte, or finds the buffer full.
LEMMA NextPut ==
  ASSUME RingTypeOK, NEW data \in Seq(Octets), NEW n \in 1 .. Len(data)
  PROVE  AfterPuts(data, n) = PutStep(AfterPuts(data, n - 1), data[n])
  <1>1. /\ start \in Slots /\ end \in Slots /\ buf \in Arrays
        /\ Size = SizeOf(start, end) /\ Size \in 0 .. BufferSize - 1
    BY Holding
  <1>2. /\ Free = BufferSize - Size /\ Free \in 1 .. BufferSize
        /\ n \in Nat /\ n - 1 \in Nat /\ BufferSize \in Nat \ {0}
    BY <1>1, RingAssumption DEF Free
  <1>3. CASE n < Free
    <2>1. PutsThatFit(n) = n /\ PutsThatFit(n - 1) = n - 1
      BY <1>2, <1>3 DEF PutsThatFit
    <2>2. /\ n \in 0 .. BufferSize - 1 - Size /\ n - 1 \in 0 .. BufferSize - 1 - Size
          /\ n \in 0 .. BufferSize /\ n - 1 \in 0 .. BufferSize
      BY <1>1, <1>2, <1>3
    <2> DEFINE e == Advance(end, n - 1)
    <2>3. e \in Slots /\ Advance(end, n) \in Slots
      BY <1>1, <2>2, AdvanceValue
    <2>4. Advance(e, 1) = Advance(end, n)
      <3>1. /\ e = IF end + (n - 1) < BufferSize THEN end + (n - 1)
                    ELSE end + (n - 1) - BufferSize
            /\ Advance(end, n) = IF end + n < BufferSize THEN end + n
                                 ELSE end + n - BufferSize
        BY <1>1, <2>2, AdvanceValue
      <3>2. Advance(e, 1) = IF e + 1 < BufferSize THEN e + 1 ELSE e + 1 - BufferSize
        <4>1. 1 \in 0 .. BufferSize
          BY <1>2
        <4> QED
          BY <2>3, <4>1, AdvanceValue
      <3> HIDE DEF e
      <3> QED
        BY <1>1, <1>2, <2>2, <2>3, <3>1, <3>2 DEF Slots
    <2>5. Advance(end, n) # start
      <3>1. SizeOf(start, Advance(end, n)) = Size + n
        BY <1>1, <2>2, Moving
      <3>2. SizeOf(start, start) = 0
        BY <1>1, SizeValue, RingAssumption DEF Slots
      <3> QED
        BY <1>1, <1>2, <3>1, <3>2
    <2>6. Filled(data, n) = [Filled(data, n - 1) EXCEPT ![e] = data[n]]
      <3>1. ASSUME NEW slot \in Slots
            PROVE  Distance(end, slot) = n - 1 <=> slot = e
        <4>1. /\ Distance(end, slot) = IF end <= slot THEN slot - end
                                       ELSE slot - end + BufferSize
          BY <1>1, SizeValue
        <4>2. e = IF end + (n - 1) < BufferSize THEN end + (n - 1)
                  ELSE end + (n - 1) - BufferSize
          BY <1>1, <2>2, AdvanceValue
        <4> HIDE DEF e
        <4> QED
          BY <1>1, <1>2, <2>2, <4>1, <4>2 DEF Slots
      <3>2. ASSUME NEW slot \in Slots
            PROVE  Distance(end, slot) \in Nat
        BY <1>1, SizeValue, RingAssumption
      <3>3. ASSUME NEW slot \in Slots
            PROVE  Filled(data, n)[slot] =
                       IF slot = e THEN data[n] ELSE Filled(data, n - 1)[slot]
        <4>1. /\ Filled(data, n)[slot] = IF Distance(end, slot) < n
                     THEN data[Distance(end, slot) + 1] ELSE buf[slot]
              /\ Filled(data, n - 1)[slot] = IF Distance(end, slot) < n - 1
                     THEN data[Distance(end, slot) + 1] ELSE buf[slot]
          BY DEF Filled
        <4>2. Distance(end, slot) < n <=>
                 Distance(end, slot) < n - 1 \/ Distance(end, slot) = n - 1
          BY <1>2, <3>2
        <4>3. Distance(end, slot) = n - 1 => Distance(end, slot) + 1 = n
          BY <1>2
        <4>4. Distance(end, slot) = n - 1 <=> slot = e
          BY <3>1
        <4>5. Distance(end, slot) = n - 1 => ~(Distance(end, slot) < n - 1)
          BY <1>2
        <4> HIDE DEF e
        <4> QED
          BY <4>1, <4>2, <4>3, <4>4, <4>5
      <3>4. /\ Filled(data, n) = [slot \in Slots |-> Filled(data, n)[slot]]
            /\ [Filled(data, n - 1) EXCEPT ![e] = data[n]] =
                 [slot \in Slots |-> IF slot = e THEN data[n]
                                     ELSE Filled(data, n - 1)[slot]]
        BY <2>3 DEF Filled
      <3> HIDE DEF e
      <3> QED
        BY <3>3, <3>4
    <2>7. AfterPuts(data, n - 1) =
              [buf |-> Filled(data, n - 1), start |-> start, end |-> e, out |-> << >>]
      BY <2>1 DEF AfterPuts
    <2>8. AfterPuts(data, n) =
              [buf |-> Filled(data, n), start |-> start, end |-> Advance(end, n),
               out |-> << >>]
      BY <2>1 DEF AfterPuts
    <2> HIDE DEF e
    <2>9. PutStep(AfterPuts(data, n - 1), data[n]) =
              [buf |-> [Filled(data, n - 1) EXCEPT ![e] = data[n]], start |-> start,
               end |-> Advance(e, 1), out |-> << >>]
      <3> DEFINE r == AfterPuts(data, n - 1)
      <3>1. /\ r.end = e /\ r.start = start
            /\ r = [buf |-> Filled(data, n - 1), start |-> start, end |-> e, out |-> << >>]
        BY <2>7
      <3>2. Advance(r.end, 1) # r.start
        BY <2>4, <2>5, <3>1
      <3> HIDE DEF r
      <3>3. PutStep(r, data[n]) =
                [r EXCEPT !.buf[r.end] = data[n], !.end = Advance(r.end, 1)]
        BY <3>2 DEF PutStep
      <3>4. PutStep(r, data[n]) = [r EXCEPT !.buf[e] = data[n], !.end = Advance(e, 1)]
        BY <3>1, <3>3
      <3>5. PutStep(r, data[n]) =
                [[r EXCEPT !.buf[e] = data[n]] EXCEPT !.end = Advance(e, 1)]
        BY <3>1, <3>4
      <3>6. [r EXCEPT !.buf[e] = data[n]] =
                [buf |-> [Filled(data, n - 1) EXCEPT ![e] = data[n]],
                 start |-> start, end |-> e, out |-> << >>]
        BY <3>1
      <3>7. PutStep(r, data[n]) =
                [buf |-> [Filled(data, n - 1) EXCEPT ![e] = data[n]],
                 start |-> start, end |-> Advance(e, 1), out |-> << >>]
        BY <3>5, <3>6
      <3> QED
        BY <3>7 DEF r
    <2> QED
      BY <2>4, <2>6, <2>8, <2>9
  <1>4. CASE ~(n < Free)
    <2>1. PutsThatFit(n) = Free - 1 /\ PutsThatFit(n - 1) = Free - 1
      BY <1>2, <1>4 DEF PutsThatFit
    <2> DEFINE e == Advance(end, Free - 1)
    <2>2. e \in Slots /\ Advance(e, 1) = start
      <3>1. Free - 1 \in 0 .. BufferSize /\ 1 \in 0 .. BufferSize
        BY <1>2
      <3>2. e \in Slots /\ e = IF end + (Free - 1) < BufferSize THEN end + (Free - 1)
                               ELSE end + (Free - 1) - BufferSize
        BY <1>1, <3>1, AdvanceValue
      <3>3. Advance(e, 1) = IF e + 1 < BufferSize THEN e + 1 ELSE e + 1 - BufferSize
        BY <3>1, <3>2, AdvanceValue
      <3>4. Size = IF start <= end THEN end - start ELSE end - start + BufferSize
        BY <1>1, SizeValue
      <3> HIDE DEF e
      <3> QED
        BY <1>1, <1>2, <3>2, <3>3, <3>4 DEF Slots
    <2>3. /\ AfterPuts(data, n - 1) = AfterPuts(data, n)
          /\ AfterPuts(data, n).end = e /\ AfterPuts(data, n).start = start
      BY <2>1 DEF AfterPuts
    <2> HIDE DEF e
    <2> QED
      BY <2>2, <2>3 DEF PutStep
  <1> QED
    BY <1>3, <1>4

\* The loop of writeAll, one put for each byte, does what the closed form says.
LEMMA PutsAre ==
  ASSUME RingTypeOK, NEW data \in Seq(Octets)
  PROVE  Puts(data) = AfterPuts(data, Len(data))
  <1> DEFINE N == Len(data)
             IsLoop(g) == g = [n \in 0 .. N |->
                                 IF n = 0 THEN Here ELSE PutStep(g[n - 1], data[n])]
             f == [n \in 0 .. N |-> AfterPuts(data, n)]
             after == CHOOSE g : IsLoop(g)
  <1>1. N \in Nat
    OBVIOUS
  <1>2. AfterPuts(data, 0) = Here
    <2>1. /\ start \in Slots /\ end \in Slots /\ buf \in Arrays
          /\ Size \in 0 .. BufferSize - 1
      BY Holding
    <2>2. PutsThatFit(0) = 0
      BY <2>1, RingAssumption DEF PutsThatFit, Free
    <2>3. Filled(data, 0) = buf
      <3>1. \A slot \in Slots : ~(Distance(end, slot) < 0)
        BY <2>1, SizeValue, RingAssumption
      <3>2. Filled(data, 0) = [slot \in Slots |-> buf[slot]]
        BY <3>1 DEF Filled
      <3> QED
        BY <2>1, <3>2 DEF Arrays
    <2>4. Advance(end, 0) = end
      <3>1. 0 \in 0 .. BufferSize
        BY RingAssumption
      <3> QED
        BY <2>1, <3>1, AdvanceValue, RingAssumption DEF Slots
    <2> QED
      BY <2>2, <2>3, <2>4 DEF AfterPuts, Here
  <1>3. \A n \in 1 .. N : AfterPuts(data, n) = PutStep(AfterPuts(data, n - 1), data[n])
    BY NextPut
  <1>4. IsLoop(f)
    <2>1. \A n \in 0 .. N : AfterPuts(data, n) =
              IF n = 0 THEN Here ELSE PutStep(f[n - 1], data[n])
      <3> TAKE n \in 0 .. N
      <3>1. CASE n = 0
        BY <1>2, <3>1
      <3>2. CASE n # 0
        <4>1. n \in 1 .. N /\ n - 1 \in 0 .. N
          BY <1>1, <3>2
        <4>2. f[n - 1] = AfterPuts(data, n - 1)
          BY <4>1
        <4> HIDE DEF f
        <4> QED
          BY <1>3, <3>2, <4>1, <4>2
      <3> QED
        BY <3>1, <3>2
    <2>2. f = [n \in 0 .. N |-> AfterPuts(data, n)]
      OBVIOUS
    <2> HIDE DEF f
    <2> QED
      BY <2>1, <2>2
  <1>5. IsLoop(after)
    <2> HIDE DEF IsLoop, f
    <2> QED
      BY <1>4
  <1>6. Puts(data) = after[N]
    BY DEF Puts
  <1> HIDE DEF after
  <1> DEFINE T == {n \in 0 .. N : after[n] = AfterPuts(data, n)}
  <1>7. 0 \in T
    <2>1. 0 \in 0 .. N
      BY <1>1
    <2> QED
      BY <1>2, <1>5, <2>1
  <1>8. ASSUME NEW n \in 1 .. N, n - 1 \in T PROVE n \in T
    <2>1. n \in 0 .. N /\ n # 0
      BY <1>1
    <2>2. after[n] = PutStep(after[n - 1], data[n])
      BY <1>5, <2>1
    <2>3. after[n - 1] = AfterPuts(data, n - 1)
      BY <1>8
    <2>4. after[n] = AfterPuts(data, n)
      BY <1>3, <2>2, <2>3
    <2> QED
      BY <2>1, <2>4
  <1>9. N \in T
    <2>1. \A n \in 0 .. N : n \in T
      <3> HIDE DEF T, N
      <3> QED
        BY <1>1, <1>7, <1>8, UpTo
    <2> QED
      BY <1>1, <2>1
  <1> QED
    BY <1>6, <1>9

\* The states of the loop of readFull, in closed form.
AfterGets(k) ==
    [buf |-> buf, start |-> Advance(start, k), end |-> end, out |-> BytesFrom(start, k)]

\* The next get of the loop takes the next byte: none of the gets of a read
\* that passes the test finds the buffer empty.
LEMMA NextGet ==
  ASSUME RingTypeOK, NEW k \in 1 .. Size
  PROVE  AfterGets(k) = GetStep(AfterGets(k - 1))
  <1>1. /\ start \in Slots /\ end \in Slots /\ buf \in Arrays
        /\ Size = SizeOf(start, end) /\ Size \in 0 .. BufferSize - 1
    BY Holding
  <1>2. /\ k - 1 \in 0 .. Size /\ 1 \in 0 .. Size - (k - 1)
        /\ k - 1 \in 0 .. BufferSize /\ k \in Nat
    BY <1>1, RingAssumption
  <1> DEFINE s == Advance(start, k - 1)
  <1>3. s \in Slots
    BY <1>1, <1>2, AdvanceValue
  <1>4. SizeOf(s, end) = Size - (k - 1) /\ Advance(s, 1) = Advance(start, (k - 1) + 1)
    BY <1>1, <1>2, Moving
  <1>5. (k - 1) + 1 = k
    BY <1>2
  <1> HIDE DEF s
  <1>6. s # end
    <2>1. SizeOf(end, end) = 0
      BY <1>1, SizeValue, RingAssumption DEF Slots
    <2> QED
      BY <1>1, <1>2, <1>4, <2>1
  <1>7. BytesFrom(start, k) = Append(BytesFrom(start, k - 1), buf[s])
    <2>1. /\ BytesFrom(start, k - 1) = [i \in 1 .. k - 1 |-> buf[Advance(start, i - 1)]]
          /\ BytesFrom(start, k) = [i \in 1 .. k |-> buf[Advance(start, i - 1)]]
      BY DEF BytesFrom
    <2> DEFINE g == [i \in 1 .. k |-> buf[Advance(start, i - 1)]]
    <2>2. \A i \in 1 .. k : g[i] \in Octets
      <3> TAKE i \in 1 .. k
      <3>1. i \in 1 .. Size
        BY <1>1
      <3> QED
        BY <1>1, <3>1, HeldIsNotFree DEF Arrays
    <2>3. /\ g \in Seq(Octets) /\ Len(g) = k /\ g[k] = buf[s]
      BY <1>2, <2>2 DEF s
    <2> DEFINE h == [i \in 1 .. k - 1 |-> buf[Advance(start, i - 1)]]
    <2>4. h \in Seq(Octets) /\ Len(h) = k - 1 /\ \A i \in 1 .. k - 1 : h[i] = g[i]
      BY <1>2, <2>2
    <2>5. buf[s] \in Octets
      BY <1>1, <1>3 DEF Arrays
    <2> HIDE DEF g, h
    <2> DEFINE a == Append(h, buf[s])
    <2>6. /\ a \in Seq(Octets) /\ Len(a) = k /\ a[k] = buf[s]
          /\ \A i \in 1 .. k - 1 : a[i] = h[i]
      BY <1>2, <2>4, <2>5
    <2> HIDE DEF a
    <2>7. \A i \in 1 .. Len(g) : g[i] = a[i]
      <3> SUFFICES ASSUME NEW i \in 1 .. k PROVE g[i] = a[i]
        BY <2>3
      <3>1. i = k \/ i \in 1 .. k - 1
        BY <1>2
      <3> QED
        BY <2>3, <2>4, <2>6, <3>1
    <2>8. g = a
      BY <2>3, <2>6, <2>7, SameSequence
    <2> QED
      BY <2>1, <2>8 DEF g, h, a
  <1>8. AfterGets(k - 1) =
            [buf |-> buf, start |-> s, end |-> end, out |-> BytesFrom(start, k - 1)]
    BY DEF AfterGets, s
  <1>9. GetStep(AfterGets(k - 1)) =
            [buf |-> buf, start |-> Advance(s, 1), end |-> end,
             out |-> Append(BytesFrom(start, k - 1), buf[s])]
    <2> DEFINE r == AfterGets(k - 1)
    <2>1. /\ r.start = s /\ r.end = end /\ r.buf[r.start] = buf[s]
          /\ r = [buf |-> buf, start |-> s, end |-> end, out |-> BytesFrom(start, k - 1)]
      BY <1>8
    <2>2. r.start # r.end
      BY <1>6, <2>1
    <2> HIDE DEF r
    <2>3. GetStep(r) =
              [r EXCEPT !.out = Append(@, r.buf[r.start]), !.start = Advance(r.start, 1)]
      BY <2>2 DEF GetStep
    <2>4. GetStep(r) = [r EXCEPT !.out = Append(@, buf[s]), !.start = Advance(s, 1)]
      BY <2>1, <2>3
    <2>5. GetStep(r) = [[r EXCEPT !.out = Append(@, buf[s])] EXCEPT !.start = Advance(s, 1)]
      BY <2>1, <2>4
    <2>6. [r EXCEPT !.out = Append(@, buf[s])] =
              [buf |-> buf, start |-> s, end |-> end,
               out |-> Append(BytesFrom(start, k - 1), buf[s])]
      <3> DEFINE bytes == BytesFrom(start, k - 1)
                 longer == Append(bytes, buf[s])
      <3>1. [r EXCEPT !.out = Append(@, buf[s])] = [r EXCEPT !.out = Append(r.out, buf[s])]
        BY <2>1
      <3>2. r.out = bytes
        BY <2>1
      <3>3. [r EXCEPT !.out = Append(@, buf[s])] = [r EXCEPT !.out = longer]
        BY <3>1, <3>2
      <3> HIDE DEF longer, bytes
      <3>4. [r EXCEPT !.out = longer] =
                [buf |-> buf, start |-> s, end |-> end, out |-> longer]
        BY <2>1
      <3> QED
        BY <3>3, <3>4 DEF longer, bytes
    <2>7. GetStep(r) =
              [buf |-> buf, start |-> Advance(s, 1), end |-> end,
               out |-> Append(BytesFrom(start, k - 1), buf[s])]
      BY <2>5, <2>6
    <2> QED
      BY <2>7 DEF r
  <1> QED
    BY <1>4, <1>5, <1>7, <1>9 DEF AfterGets

\* The loop of readFull, n gets, does what the closed form says.
LEMMA GetsAre ==
  ASSUME RingTypeOK, NEW n \in 0 .. Size
  PROVE  Gets(n) = AfterGets(n)
  <1> DEFINE IsLoop(g) == g = [k \in 0 .. n |-> IF k = 0 THEN Here ELSE GetStep(g[k - 1])]
             f == [k \in 0 .. n |-> AfterGets(k)]
             after == CHOOSE g : IsLoop(g)
  <1>1. Size \in Nat /\ n \in Nat /\ start \in Slots
    BY Holding, RingAssumption
  <1>2. AfterGets(0) = Here
    <2>1. 0 \in 0 .. BufferSize
      BY RingAssumption
    <2>2. Advance(start, 0) = start
      BY <1>1, <2>1, AdvanceValue, RingAssumption DEF Slots
    <2>3. BytesFrom(start, 0) = << >>
      BY DEF BytesFrom
    <2> QED
      BY <2>2, <2>3 DEF AfterGets, Here
  <1>3. \A k \in 1 .. n : AfterGets(k) = GetStep(AfterGets(k - 1))
    <2> TAKE k \in 1 .. n
    <2>1. k \in 1 .. Size
      BY <1>1
    <2> QED
      BY <2>1, NextGet
  <1>4. IsLoop(f)
    <2>1. \A k \in 0 .. n : AfterGets(k) = IF k = 0 THEN Here ELSE GetStep(f[k - 1])
      <3> TAKE k \in 0 .. n
      <3>1. CASE k = 0
        BY <1>2, <3>1
      <3>2. CASE k # 0
        <4>1. k \in 1 .. n /\ k - 1 \in 0 .. n
          BY <1>1, <3>2
        <4>2. f[k - 1] = AfterGets(k - 1)
          BY <4>1
        <4> HIDE DEF f
        <4> QED
          BY <1>3, <3>2, <4>1, <4>2
      <3> QED
        BY <3>1, <3>2
    <2>2. f = [k \in 0 .. n |-> AfterGets(k)]
      OBVIOUS
    <2> HIDE DEF f
    <2> QED
      BY <2>1, <2>2
  <1>5. IsLoop(after)
    <2> HIDE DEF IsLoop, f
    <2> QED
      BY <1>4
  <1>6. Gets(n) = after[n]
    BY DEF Gets
  <1> HIDE DEF after
  <1> DEFINE T == {k \in 0 .. n : after[k] = AfterGets(k)}
  <1>7. 0 \in T
    <2>1. 0 \in 0 .. n
      BY <1>1
    <2> QED
      BY <1>2, <1>5, <2>1
  <1>8. ASSUME NEW k \in 1 .. n, k - 1 \in T PROVE k \in T
    <2>1. k \in 0 .. n /\ k # 0
      BY <1>1
    <2>2. after[k] = GetStep(after[k - 1])
      BY <1>5, <2>1
    <2>3. after[k] = AfterGets(k)
      BY <1>3, <1>8, <2>2
    <2> QED
      BY <2>1, <2>3
  <1>9. n \in T
    <2>1. \A k \in 0 .. n : k \in T
      <3> HIDE DEF T
      <3> QED
        BY <1>1, <1>7, <1>8, UpTo
    <2> QED
      BY <1>1, <2>1
  <1> QED
    BY <1>6, <1>9

\* In every state, for every block and every count that pass the tests, the
\* closed forms of the model are what the code's loops over put and get do
\* (TCP.h:146-148, 156-158).
THEOREM LoopsAreClosedForms == RingSpec => []LoopsArePutsAndGets
  <1>1. ASSUME RingTypeOK PROVE LoopsArePutsAndGets
    <2>1. ASSUME NEW data \in Blocks
          PROVE  /\ Puts(data).buf = Filled(data, PutsThatFit(Len(data)))
                 /\ Puts(data).end = Advance(end, PutsThatFit(Len(data)))
      <3>1. Puts(data) = AfterPuts(data, Len(data))
        BY <1>1, BlockType, PutsAre
      <3> QED
        BY <3>1 DEF AfterPuts
    <2>2. ASSUME NEW n \in 0 .. Size
          PROVE  Gets(n).out = BytesFrom(start, n) /\ Gets(n).start = Advance(start, n)
      <3>1. Gets(n) = AfterGets(n)
        BY <1>1, GetsAre
      <3> QED
        BY <3>1 DEF AfterGets
    <2> QED
      BY <2>1, <2>2 DEF LoopsArePutsAndGets
  <1> QED
    BY <1>1, TypeCorrect, PTL
=============================================================================
