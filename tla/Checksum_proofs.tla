-------------------------- MODULE Checksum_proofs --------------------------
(***************************************************************************)
(* What the checksum's single fold decides, for every size of an octet and *)
(* every packet of at most 2 * WordMod octets: what IPv4 and ICMP accept   *)
(* is exactly what RFC 1071 calls valid, what they send is valid unless    *)
(* the fold carries, no damaged octet goes unnoticed, and UDP refuses the  *)
(* same correct datagrams always.                                          *)
(*                                                                         *)
(* The sums are loops, so their lemmas are inductions over the words of a  *)
(* packet.  UpTo states induction for a set of numbers.                    *)
(***************************************************************************)
EXTENDS Checksum, FiniteSets, TLAPS, FiniteSetTheorems, WellFoundedInduction

-----------------------------------------------------------------------------
(* Induction and recursion up to a number.                                 *)

\* A set that has zero, and a number whenever it has the one before, has all
\* numbers up to N: otherwise the intervals below those it lacks would have
\* no smallest one.
LEMMA UpTo ==
  ASSUME NEW N \in Nat, NEW T, 0 \in T, \A n \in 1 .. N : n - 1 \in T => n \in T
  PROVE  \A n \in 0 .. N : n \in T
  <1> DEFINE Gaps == {n \in 0 .. N : n \notin T}
             Below == {0 .. n : n \in Gaps}
  <1>1. SUFFICES ASSUME Gaps # {} PROVE FALSE
    OBVIOUS
  <1>2. IsWellFoundedOn(StrictSubsetOrdering(Nat), FiniteSubsetsOf(Nat))
    BY FS_StrictSubsetOrderingWellFounded
  <1>3. Below \subseteq FiniteSubsetsOf(Nat)
    <2>1. \A n \in Nat : IsFiniteSet(0 .. n)
      BY FS_Interval
    <2> QED
      BY <2>1 DEF FiniteSubsetsOf
  <1>4. Below # {}
    BY <1>1
  <1> HIDE DEF Below
  <1>5. PICK m \in Below : \A s \in Below : <<s, m>> \notin StrictSubsetOrdering(Nat)
    BY <1>2, <1>3, <1>4, WFMin
  <1>6. PICK k \in Gaps : m = 0 .. k
    BY <1>5 DEF Below
  <1>7. k \in 1 .. N /\ k - 1 \in Gaps
    BY <1>6
  <1>8. 0 .. k - 1 \in Below
    BY <1>7 DEF Below
  <1>9. <<0 .. k - 1, m>> \in StrictSubsetOrdering(Nat)
    <2>1. k \in m /\ k \notin 0 .. k - 1
      BY <1>6, <1>7
    <2>2. 0 .. k - 1 \subseteq m /\ m \in SUBSET Nat
      BY <1>6, <1>7
    <2>3. 0 .. k - 1 \in SUBSET Nat /\ 0 .. k - 1 # m
      BY <2>1, <2>2
    <2> QED
      BY <2>1, <2>2, <2>3 DEF StrictSubsetOrdering
  <1> QED
    BY <1>5, <1>8, <1>9

\* A function on 0 .. N that is defined from its value at the number before
\* exists.
LEMMA Recursion ==
  ASSUME NEW N \in Nat, NEW step \in [Nat \X (1 .. N) -> Nat]
  PROVE  \E f \in [0 .. N -> Nat] :
            f[0] = 0 /\ \A n \in 1 .. N : f[n] = step[<<f[n - 1], n>>]
  <1> DEFINE IsFor(f, m) == \A n \in 0 .. m : f[n] = IF n = 0 THEN 0 ELSE step[<<f[n - 1], n>>]
             T == {m \in 0 .. N : \E f \in [0 .. N -> Nat] : IsFor(f, m)}
  <1>1. 0 \in T
    <2> DEFINE f == [n \in 0 .. N |-> 0]
    <2>1. f \in [0 .. N -> Nat] /\ f[0] = 0
      OBVIOUS
    <2> HIDE DEF f
    <2>2. IsFor(f, 0)
      BY <2>1
    <2> QED
      BY <2>1, <2>2
  <1>2. ASSUME NEW m \in 1 .. N, m - 1 \in T PROVE m \in T
    <2>1. PICK f \in [0 .. N -> Nat] : IsFor(f, m - 1)
      BY <1>2
    <2> DEFINE g == [f EXCEPT ![m] = step[<<f[m - 1], m>>]]
    <2>2. f[m - 1] \in Nat
      OBVIOUS
    <2>3. g \in [0 .. N -> Nat] /\ g[m] = step[<<f[m - 1], m>>]
          /\ \A n \in 0 .. m - 1 : g[n] = f[n]
      BY <2>2
    <2> HIDE DEF g
    <2>4. IsFor(g, m)
      <3> TAKE n \in 0 .. m
      <3>1. CASE n = m
        <4>1. m \in Nat /\ m # 0 /\ m - 1 \in 0 .. m - 1
          OBVIOUS
        <4> QED
          BY <3>1, <4>1, <2>3
      <3>2. CASE n # m
        <4>1. n \in 0 .. m - 1
          BY <3>2
        <4>2. n # 0 => n - 1 \in 0 .. m - 1
          BY <4>1
        <4> QED
          BY <4>1, <4>2, <2>1, <2>3
      <3> QED
        BY <3>1, <3>2
    <2>5. m \in 0 .. N
      OBVIOUS
    <2> HIDE DEF IsFor
    <2> QED
      BY <2>3, <2>4, <2>5
  <1> HIDE DEF T
  <1>3. N \in T
    BY <1>1, <1>2, UpTo
  <1>4. PICK f \in [0 .. N -> Nat] : IsFor(f, N)
    BY <1>3 DEF T
  <1>5. f[0] = 0 /\ \A n \in 1 .. N : f[n] = step[<<f[n - 1], n>>]
    <2>1. ASSUME NEW n \in 1 .. N PROVE f[n] = step[<<f[n - 1], n>>]
      <3>1. n \in 0 .. N /\ n # 0
        OBVIOUS
      <3> QED
        BY <1>4, <3>1
    <2>2. 0 \in 0 .. N
      OBVIOUS
    <2> QED
      BY <1>4, <2>1, <2>2
  <1> QED
    BY <1>5

-----------------------------------------------------------------------------
(* Halves of numbers: words in a sum, octets in a word.                    *)

\* A larger factor makes a larger product.
LEMMA Larger ==
  ASSUME NEW a \in Nat, NEW b \in Nat, NEW c \in Nat, a <= b
  PROVE  c * a <= c * b /\ c * a \in Nat /\ c * b \in Nat
  <1>1. b - a \in Nat /\ c * (b - a) \in Nat
    OBVIOUS
  <1>2. c * b = c * a + c * (b - a)
    OBVIOUS
  <1> QED
    BY <1>1, <1>2

\* There is one way to write a number as a multiple and a rest.
LEMMA HalvesAre ==
  ASSUME NEW m \in Nat \ {0}, NEW h \in Nat, NEW l \in 0 .. m - 1
  PROVE  (m * h + l) \div m = h /\ (m * h + l) % m = l
  OBVIOUS

\* Every number has two halves.
LEMMA HalvesOf ==
  ASSUME NEW m \in Nat \ {0}, NEW s \in Nat
  PROVE  /\ s \div m \in Nat /\ s % m \in 0 .. m - 1
         /\ s = m * (s \div m) + (s % m)
  OBVIOUS

\* A word has at least two bits.
LEMMA WordModType ==
  /\ ByteMod \in Nat \ {0} /\ ByteMod >= 2
  /\ WordMod \in Nat \ {0} /\ WordMod >= ByteMod + 2
  BY ByteModAssumption DEF WordMod

-----------------------------------------------------------------------------
(* The two sums of a packet.                                               *)

\* The partial sums of the code's loop, and those of RFC 1071.
Sums(octets) ==
    CHOOSE sum : sum = [n \in 0 .. WordsRead(octets) |->
        IF n = 0 THEN 0 ELSE Add(sum[n - 1], WordAt(octets, n))]

OnesSums(octets) ==
    CHOOSE sum : sum = [n \in 0 .. Len(octets) \div 2 |->
        IF n = 0 THEN 0 ELSE OnesAdd(sum[n - 1], WordAt(octets, n))]

\* The packets the theorems are about: the code's 32-bit sum has room for
\* twice as many octets as a 16-bit size can tell.
Packets == {octets \in Seq(Octet) : Len(octets) <= 2 * WordMod}

Word == 0 .. WordMod - 1

\* A packet has at most WordMod words, the octet that is left counted as one.
LEMMA WordsOf ==
  ASSUME NEW p \in Packets
  PROVE  /\ p \in Seq(Octet) /\ Len(p) \in Nat
         /\ WordsRead(p) \in Nat /\ WordsRead(p) = Len(p) \div 2
         /\ \/ Len(p) = 2 * WordsRead(p) /\ Len(p) % 2 = 0
            \/ Len(p) = 2 * WordsRead(p) + 1 /\ Len(p) % 2 = 1
         /\ WordsRead(p) + (Len(p) % 2) <= WordMod
  BY WordModType DEF WordsRead, Packets

\* A word of a packet is less than WordMod.
LEMMA WordAtType ==
  ASSUME NEW p \in Packets, NEW n \in 1 .. WordsRead(p)
  PROVE  /\ 2 * n - 1 \in 1 .. Len(p) /\ 2 * n \in 1 .. Len(p)
         /\ p[2 * n - 1] \in Octet /\ p[2 * n] \in Octet
         /\ WordAt(p, n) \in Word
  <1>1. 2 * n - 1 \in 1 .. Len(p) /\ 2 * n \in 1 .. Len(p)
    BY WordsOf
  <1>2. p[2 * n - 1] \in Octet /\ p[2 * n] \in Octet
    BY <1>1, WordsOf
  <1>3. ByteMod * p[2 * n] <= ByteMod * (ByteMod - 1) /\ ByteMod * p[2 * n] \in Nat
    BY <1>2, WordModType, Larger DEF Octet
  <1>4. ByteMod * (ByteMod - 1) = WordMod - ByteMod
    BY WordModType DEF WordMod
  <1> QED
    BY <1>1, <1>2, <1>3, <1>4, WordModType DEF WordAt, Word, Octet

\* The octet that is left is an octet.
LEMMA OddOctetType ==
  ASSUME NEW p \in Packets
  PROVE  OddOctet(p) \in Octet /\ OddOctet(p) \in Word
  <1>1. CASE Len(p) % 2 = 1
    <2>1. Len(p) \in 1 .. Len(p)
      BY <1>1, WordsOf
    <2>2. OddOctet(p) \in Octet
      BY <1>1, <2>1, WordsOf DEF OddOctet
    <2> QED
      BY <2>2, WordModType DEF Octet, Word
  <1>2. CASE Len(p) % 2 # 1
    BY <1>2, WordModType DEF OddOctet, Octet, Word
  <1> QED
    BY <1>1, <1>2

\* The loop's partial sums are 32-bit numbers, each the one before and a word.
LEMMA SumsValue ==
  ASSUME NEW p \in Packets
  PROVE  /\ Sums(p)[0] = 0
         /\ \A n \in 1 .. WordsRead(p) :
               Sums(p)[n] = Add(Sums(p)[n - 1], WordAt(p, n))
         /\ Sum(p) = Add(Sums(p)[WordsRead(p)], OddOctet(p))
  <1> DEFINE N == WordsRead(p)
             step == [x \in Nat \X (1 .. N) |-> Add(x[1], WordAt(p, x[2]))]
             IsSums(f) == f = [n \in 0 .. N |->
                                IF n = 0 THEN 0 ELSE Add(f[n - 1], WordAt(p, n))]
  <1>1. step \in [Nat \X (1 .. N) -> Nat]
    <2> SUFFICES ASSUME NEW a \in Nat, NEW n \in 1 .. N
                 PROVE  Add(a, WordAt(p, n)) \in Nat
      OBVIOUS
    <2>1. WordAt(p, n) \in Nat
      BY WordAtType, WordModType DEF Word
    <2>2. WordMod * WordMod \in Nat \ {0}
      BY WordModType
    <2> HIDE DEF N
    <2> QED
      BY <2>1, <2>2, HalvesOf DEF Add
  <1>2. N \in Nat
    BY WordsOf
  <1> HIDE DEF N
  <1>3. PICK f \in [0 .. N -> Nat] :
            f[0] = 0 /\ \A n \in 1 .. N : f[n] = step[<<f[n - 1], n>>]
    <2> HIDE DEF step
    <2> QED
      BY <1>1, <1>2, Recursion
  <1>4. \A n \in 1 .. N : step[<<f[n - 1], n>>] = Add(f[n - 1], WordAt(p, n))
    <2> TAKE n \in 1 .. N
    <2>1. <<f[n - 1], n>> \in Nat \X (1 .. N)
      BY <1>2
    <2> QED
      BY <2>1
  <1> HIDE DEF step
  <1>5. IsSums(f)
    <2>1. \A n \in 0 .. N : f[n] = IF n = 0 THEN 0 ELSE Add(f[n - 1], WordAt(p, n))
      <3> TAKE n \in 0 .. N
      <3>1. n # 0 => n \in 1 .. N
        BY <1>2
      <3> QED
        BY <1>3, <3>1, <1>4
    <2>2. f = [n \in 0 .. N |-> f[n]]
      OBVIOUS
    <2> QED
      BY <2>1, <2>2
  <1>6. Sums(p) = CHOOSE g : IsSums(g)
    BY DEF Sums, N
  <1>7. IsSums(Sums(p))
    <2> HIDE DEF IsSums
    <2> QED
      BY <1>5, <1>6
  <1>8. Sum(p) = Add(Sums(p)[N], OddOctet(p))
    BY DEF Sum, Sums, N
  <1> QED
    BY <1>2, <1>7, <1>8 DEF N

\* So are those of RFC 1071, with its addition.
LEMMA OnesSumsValue ==
  ASSUME NEW p \in Packets
  PROVE  /\ OnesSums(p)[0] = 0
         /\ \A n \in 1 .. WordsRead(p) :
               OnesSums(p)[n] = OnesAdd(OnesSums(p)[n - 1], WordAt(p, n))
         /\ OnesSum(p) = OnesAdd(OnesSums(p)[WordsRead(p)], OddOctet(p))
  <1> DEFINE N == WordsRead(p)
             step == [x \in Nat \X (1 .. N) |-> OnesAdd(x[1], WordAt(p, x[2]))]
             IsOnes(f) == f = [n \in 0 .. N |->
                                IF n = 0 THEN 0 ELSE OnesAdd(f[n - 1], WordAt(p, n))]
  <1>1. step \in [Nat \X (1 .. N) -> Nat]
    <2> SUFFICES ASSUME NEW a \in Nat, NEW n \in 1 .. N
                 PROVE  OnesAdd(a, WordAt(p, n)) \in Nat
      OBVIOUS
    <2>1. WordAt(p, n) \in Nat
      BY WordAtType, WordModType DEF Word
    <2> HIDE DEF N
    <2> QED
      BY <2>1, WordModType DEF OnesAdd
  <1>2. N \in Nat
    BY WordsOf
  <1> HIDE DEF N
  <1>3. PICK f \in [0 .. N -> Nat] :
            f[0] = 0 /\ \A n \in 1 .. N : f[n] = step[<<f[n - 1], n>>]
    <2> HIDE DEF step
    <2> QED
      BY <1>1, <1>2, Recursion
  <1>4. \A n \in 1 .. N : step[<<f[n - 1], n>>] = OnesAdd(f[n - 1], WordAt(p, n))
    <2> TAKE n \in 1 .. N
    <2>1. <<f[n - 1], n>> \in Nat \X (1 .. N)
      BY <1>2
    <2> QED
      BY <2>1
  <1> HIDE DEF step
  <1>5. IsOnes(f)
    <2>1. \A n \in 0 .. N : f[n] = IF n = 0 THEN 0 ELSE OnesAdd(f[n - 1], WordAt(p, n))
      <3> TAKE n \in 0 .. N
      <3>1. n # 0 => n \in 1 .. N
        BY <1>2
      <3> QED
        BY <1>3, <3>1, <1>4
    <2>2. f = [n \in 0 .. N |-> f[n]]
      OBVIOUS
    <2> QED
      BY <2>1, <2>2
  <1>6. OnesSums(p) = CHOOSE g : IsOnes(g)
    BY WordsOf DEF OnesSums, N
  <1>7. IsOnes(OnesSums(p))
    <2> HIDE DEF IsOnes
    <2> QED
      BY <1>5, <1>6
  <1>8. OnesSum(p) = OnesAdd(OnesSums(p)[N], OddOctet(p))
    BY WordsOf DEF OnesSum, OnesSums, N
  <1> QED
    BY <1>2, <1>7, <1>8 DEF N

\* The halves of a 32-bit sum, added without a carry.
Half(s) == (s \div WordMod) + (s % WordMod)

\* The halves of the code's sum are the sum of RFC 1071, or all ones more.
Agree(s, ones) ==
    /\ Half(s) = ones \/ Half(s) = ones + WordMod - 1
    /\ s = 0 <=> ones = 0

\* No sum exceeds this one, WordMod words of all ones.
MaxSum == WordMod * (WordMod - 1)

\* The largest sum is a number below the size of the accumulator.
LEMMA MaxSumType ==
  /\ MaxSum \in Nat /\ MaxSum < WordMod * WordMod
  /\ WordMod * WordMod \in Nat \ {0}
  /\ WordMod * WordMod = MaxSum + WordMod
  BY WordModType DEF MaxSum

\* A sum up to MaxSum has halves whose sum is less than twice all ones.
LEMMA HalfType ==
  ASSUME NEW s \in Nat, s <= MaxSum
  PROVE  /\ s \div WordMod \in 0 .. WordMod - 1 /\ s % WordMod \in Word
         /\ s = WordMod * (s \div WordMod) + (s % WordMod)
         /\ s \div WordMod = WordMod - 1 => s % WordMod = 0
         /\ Half(s) \in 0 .. 2 * WordMod - 3
         /\ Half(s) = 0 <=> s = 0
  <1> DEFINE h == s \div WordMod
             l == s % WordMod
  <1>1. h \in Nat /\ l \in Word /\ s = WordMod * h + l
    BY WordModType, HalvesOf DEF Word
  <1> HIDE DEF h, l
  <1>2. h <= WordMod - 1
    <2> SUFFICES ASSUME WordMod <= h PROVE FALSE
      BY <1>1, WordModType
    <2>1. WordMod * WordMod <= WordMod * h /\ WordMod * h \in Nat
      BY <1>1, Larger, WordModType
    <2> QED
      BY <1>1, <2>1, MaxSumType, WordModType DEF Word
  <1>3. h = WordMod - 1 => l = 0
    BY <1>1, WordModType DEF MaxSum, Word
  <1>4. h + l \in 0 .. 2 * WordMod - 3
    BY <1>1, <1>2, <1>3, WordModType DEF Word
  <1>5. h + l = 0 <=> s = 0
    <2>1. h >= 1 => WordMod * h >= WordMod
      BY <1>1, Larger, WordModType
    <2> QED
      BY <1>1, <2>1, WordModType DEF Word
  <1> QED
    BY <1>1, <1>2, <1>3, <1>4, <1>5 DEF h, l, Half

\* Adding a word to a sum moves the rest by the word, and carries at most once.
LEMMA HalfStep ==
  ASSUME NEW s \in Nat, NEW w \in Word, s + w <= MaxSum
  PROVE  /\ Add(s, w) = s + w
         /\ Half(s + w) = Half(s) + w \/ Half(s + w) = Half(s) + w - (WordMod - 1)
  <1> DEFINE h == s \div WordMod
             l == s % WordMod
  <1>1. h \in Nat /\ l \in Word /\ s = WordMod * h + l
    BY WordModType, HalvesOf DEF Word
  <1>2. Half(s) = h + l
    BY DEF Half
  <1> HIDE DEF h, l
  <1>3. ASSUME l + w < WordMod PROVE Half(s + w) = Half(s) + w
    <2>1. s + w = WordMod * h + (l + w) /\ l + w \in 0 .. WordMod - 1
      BY <1>1, <1>3, WordModType DEF Word
    <2>2. (s + w) \div WordMod = h /\ (s + w) % WordMod = l + w
      <3>1. (WordMod * h + (l + w)) \div WordMod = h
            /\ (WordMod * h + (l + w)) % WordMod = l + w
        BY <1>1, <2>1, HalvesAre, WordModType
      <3> QED
        BY <2>1, <3>1
    <2>3. Half(s + w) = h + (l + w)
      BY <2>2 DEF Half
    <2> QED
      BY <1>1, <1>2, <2>3, WordModType DEF Word
  <1>4. ASSUME ~(l + w < WordMod) PROVE Half(s + w) = Half(s) + w - (WordMod - 1)
    <2>1. /\ s + w = WordMod * (h + 1) + (l + w - WordMod)
          /\ l + w - WordMod \in 0 .. WordMod - 1 /\ h + 1 \in Nat
      BY <1>1, <1>4, WordModType DEF Word
    <2>2. (s + w) \div WordMod = h + 1 /\ (s + w) % WordMod = l + w - WordMod
      <3>1. /\ (WordMod * (h + 1) + (l + w - WordMod)) \div WordMod = h + 1
            /\ (WordMod * (h + 1) + (l + w - WordMod)) % WordMod = l + w - WordMod
        BY <2>1, HalvesAre, WordModType
      <3> QED
        BY <2>1, <3>1
    <2>3. Half(s + w) = (h + 1) + (l + w - WordMod)
      BY <2>2 DEF Half
    <2> QED
      BY <1>1, <1>2, <2>3, WordModType DEF Word
  <1>5. Add(s, w) = s + w
    <2> DEFINE M == WordMod * WordMod
    <2>1. M \in Nat \ {0} /\ MaxSum \in Nat /\ MaxSum < M
      BY MaxSumType
    <2>2. w \in Nat
      BY WordModType DEF Word
    <2> HIDE DEF M
    <2>3. s + w = M * 0 + (s + w) /\ s + w \in 0 .. M - 1
      BY <2>1, <2>2
    <2>4. (M * 0 + (s + w)) % M = s + w
      BY <2>1, <2>3, HalvesAre
    <2> QED
      BY <2>3, <2>4 DEF Add, M
  <1> QED
    BY <1>3, <1>4, <1>5

\* The code's addition and that of RFC 1071 keep their sums in agreement.
LEMMA AgreeStep ==
  ASSUME NEW s \in Nat, NEW o \in Word, NEW w \in Word,
         Agree(s, o), s + w <= MaxSum
  PROVE  /\ Add(s, w) = s + w /\ OnesAdd(o, w) \in Word
         /\ Agree(s + w, OnesAdd(o, w))
  <1>1. /\ Add(s, w) = s + w
        /\ Half(s + w) = Half(s) + w \/ Half(s + w) = Half(s) + w - (WordMod - 1)
    BY HalfStep
  <1>2. s + w \in Nat /\ s <= MaxSum /\ MaxSum \in Nat
    BY WordModType, MaxSumType DEF Word
  <1>3. Half(s) \in 0 .. 2 * WordMod - 3
    BY <1>2, HalfType
  <1>4. Half(s + w) \in 0 .. 2 * WordMod - 3 /\ (Half(s + w) = 0 <=> s + w = 0)
    BY <1>2, HalfType
  <1>5. OnesAdd(o, w) \in Word /\ (OnesAdd(o, w) = 0 <=> s + w = 0)
    BY WordModType DEF OnesAdd, Word, Agree
  <1>6. \/ Half(s + w) = OnesAdd(o, w)
        \/ Half(s + w) = OnesAdd(o, w) + WordMod - 1
    BY <1>1, <1>3, <1>4, <1>5, WordModType DEF OnesAdd, Word, Agree
  <1> QED
    BY <1>1, <1>5, <1>6 DEF Agree

\* What is true of every partial sum is true of the sums of a packet: they
\* agree, and the code's does not wrap.
LEMMA SumsAgree ==
  ASSUME NEW p \in Packets
  PROVE  /\ \A n \in 0 .. WordsRead(p) :
               Sums(p)[n] \in Nat /\ Sums(p)[n] <= (WordMod - 1) * n
         /\ \A n \in 1 .. WordsRead(p) :
               Sums(p)[n] = Sums(p)[n - 1] + WordAt(p, n)
         /\ Sum(p) = Sums(p)[WordsRead(p)] + OddOctet(p)
         /\ Sum(p) \in Nat /\ Sum(p) <= MaxSum
         /\ OnesSum(p) \in Word /\ Agree(Sum(p), OnesSum(p))
  <1> DEFINE N == WordsRead(p)
             s(n) == Sums(p)[n]
             o(n) == OnesSums(p)[n]
             Good(n) == /\ s(n) \in Nat /\ s(n) <= (WordMod - 1) * n
                        /\ o(n) \in Word /\ Agree(s(n), o(n))
             T == {n \in 0 .. N : Good(n)}
  <1>1. N \in Nat /\ N + (Len(p) % 2) <= WordMod /\ Len(p) % 2 \in {0, 1}
    BY WordsOf
  <1>2. ASSUME NEW a \in Nat, NEW n \in 1 .. WordMod, NEW w \in Word,
               a <= (WordMod - 1) * (n - 1)
        PROVE  a + w <= (WordMod - 1) * n /\ a + w <= MaxSum
    <2>1. (WordMod - 1) * n = (WordMod - 1) * (n - 1) + (WordMod - 1)
      BY WordModType
    <2>2. (WordMod - 1) * n <= (WordMod - 1) * WordMod
      BY WordModType, Larger
    <2>3. (WordMod - 1) * WordMod = MaxSum
      BY WordModType DEF MaxSum
    <2>4. (WordMod - 1) * n \in Nat /\ (WordMod - 1) * (n - 1) \in Nat
      BY WordModType
    <2> QED
      BY <1>2, <2>1, <2>2, <2>3, <2>4, WordModType, MaxSumType DEF Word
  <1>3. 0 \in T
    <2>1. s(0) = 0 /\ o(0) = 0
      BY SumsValue, OnesSumsValue
    <2>2. Half(0) = 0
      BY HalfType, MaxSumType
    <2>3. Good(0)
      BY <2>1, <2>2, WordModType DEF Agree, Word
    <2> QED
      BY <1>1, <2>3
  <1>4. ASSUME NEW n \in 1 .. N, Good(n - 1)
        PROVE  Good(n) /\ s(n) = s(n - 1) + WordAt(p, n)
    <2>1. WordAt(p, n) \in Word /\ n \in 1 .. WordMod
      BY <1>1, WordAtType, WordModType
    <2>2. /\ s(n) = Add(s(n - 1), WordAt(p, n))
          /\ o(n) = OnesAdd(o(n - 1), WordAt(p, n))
      BY SumsValue, OnesSumsValue
    <2>3. /\ s(n - 1) + WordAt(p, n) <= (WordMod - 1) * n
          /\ s(n - 1) + WordAt(p, n) <= MaxSum
      <3> HIDE DEF s, o
      <3> QED
        BY <1>2, <1>4, <2>1
    <2>4. /\ Add(s(n - 1), WordAt(p, n)) = s(n - 1) + WordAt(p, n)
          /\ OnesAdd(o(n - 1), WordAt(p, n)) \in Word
          /\ Agree(s(n - 1) + WordAt(p, n), OnesAdd(o(n - 1), WordAt(p, n)))
      <3> HIDE DEF s, o
      <3> QED
        BY <1>4, <2>1, <2>3, AgreeStep
    <2>5. s(n - 1) + WordAt(p, n) \in Nat
      BY <1>4, <2>1, WordModType DEF Word
    <2> HIDE DEF s, o
    <2> QED
      BY <2>2, <2>3, <2>4, <2>5
  <1>5. \A n \in 0 .. N : n \in T
    <2>1. ASSUME NEW n \in 1 .. N, n - 1 \in T PROVE n \in T
      <3>1. Good(n - 1)
        BY <2>1
      <3>2. Good(n)
        BY <1>4, <3>1
      <3> HIDE DEF Good
      <3> QED
        BY <1>1, <3>2
    <2> HIDE DEF T, N
    <2> QED
      BY <1>1, <1>3, <2>1, UpTo
  <1>6. \A n \in 0 .. N : Good(n)
    BY <1>5
  <1>7. \A n \in 1 .. N : s(n) = s(n - 1) + WordAt(p, n)
    <2> TAKE n \in 1 .. N
    <2>1. n - 1 \in 0 .. N
      BY <1>1
    <2>2. Good(n - 1)
      BY <1>6, <2>1
    <2> QED
      BY <1>4, <2>2
  <1>8. /\ Sum(p) = s(N) + OddOctet(p)
        /\ Sum(p) \in Nat /\ Sum(p) <= MaxSum
        /\ OnesSum(p) \in Word /\ Agree(Sum(p), OnesSum(p))
    <2>1. Good(N)
      BY <1>1, <1>6
    <2>2. OddOctet(p) \in Word /\ OddOctet(p) \in Nat
      BY OddOctetType, WordModType DEF Word
    <2>3. Sum(p) = Add(s(N), OddOctet(p)) /\ OnesSum(p) = OnesAdd(o(N), OddOctet(p))
      BY SumsValue, OnesSumsValue
    <2> HIDE DEF s, o, N
    <2>4. s(N) + OddOctet(p) <= MaxSum
      <3>1. CASE Len(p) % 2 = 0
        <4>1. OddOctet(p) = 0
          BY <3>1 DEF OddOctet
        <4>2. (WordMod - 1) * N <= (WordMod - 1) * WordMod
              /\ (WordMod - 1) * N \in Nat
          BY <1>1, <3>1, WordModType, Larger
        <4>3. (WordMod - 1) * WordMod = MaxSum
          BY WordModType DEF MaxSum
        <4> QED
          BY <2>1, <4>1, <4>2, <4>3, MaxSumType
      <3>2. CASE Len(p) % 2 = 1
        <4>1. N + 1 \in 1 .. WordMod /\ (N + 1) - 1 = N
          BY <1>1, <3>2, WordModType
        <4> QED
          BY <1>2, <2>1, <2>2, <4>1
      <3> QED
        BY <1>1, <3>1, <3>2
    <2>5. /\ Add(s(N), OddOctet(p)) = s(N) + OddOctet(p)
          /\ OnesAdd(o(N), OddOctet(p)) \in Word
          /\ Agree(s(N) + OddOctet(p), OnesAdd(o(N), OddOctet(p)))
      BY <2>1, <2>2, <2>4, AgreeStep
    <2> QED
      BY <2>1, <2>2, <2>3, <2>4, <2>5
  <1> QED
    BY <1>6, <1>7, <1>8

\* The fold adds the halves and drops what that carries.
LEMMA FoldedIs ==
  ASSUME NEW s \in Nat, s <= MaxSum
  PROVE  /\ FoldedSum(s) = IF Half(s) < WordMod THEN Half(s) ELSE Half(s) - WordMod
         /\ FoldedSum(s) \in Word
         /\ Carries(s) <=> Half(s) >= WordMod
  <1> DEFINE h == s \div WordMod
             l == s % WordMod
  <1>1. h \in Nat /\ l \in Word /\ s = WordMod * h + l
    BY HalfType
  <1>2. Half(s) = h + l /\ FoldedSum(s) = (h + s) % WordMod
    BY DEF Half, FoldedSum
  <1>3. Carries(s) <=> Half(s) >= WordMod
    BY DEF Carries, Half
  <1>4. Half(s) \in 0 .. 2 * WordMod - 3
    BY HalfType
  <1> HIDE DEF h, l
  <1>5. ASSUME h + l < WordMod PROVE FoldedSum(s) = h + l
    <2>1. h + s = WordMod * h + (h + l) /\ h + l \in 0 .. WordMod - 1
      BY <1>1, <1>5, WordModType DEF Word
    <2>2. (WordMod * h + (h + l)) % WordMod = h + l
      BY <1>1, <2>1, HalvesAre, WordModType
    <2> QED
      BY <1>2, <2>1, <2>2
  <1>6. ASSUME ~(h + l < WordMod) PROVE FoldedSum(s) = h + l - WordMod
    <2>1. /\ h + s = WordMod * (h + 1) + (h + l - WordMod)
          /\ h + l - WordMod \in 0 .. WordMod - 1 /\ h + 1 \in Nat
      BY <1>1, <1>2, <1>4, <1>6, WordModType DEF Word
    <2>2. (WordMod * (h + 1) + (h + l - WordMod)) % WordMod = h + l - WordMod
      BY <2>1, HalvesAre, WordModType
    <2> QED
      BY <1>2, <2>1, <2>2
  <1> QED
    BY <1>1, <1>2, <1>3, <1>4, <1>5, <1>6, WordModType DEF Word

\* Although the fold drops a carry, its result is all ones exactly when the
\* sum of RFC 1071 is.
LEMMA FoldIsExact ==
  ASSUME NEW p \in Packets
  PROVE  /\ FoldedSum(Sum(p)) = WordMod - 1 <=> Valid(p)
         /\ Valid(p) <=> Half(Sum(p)) = WordMod - 1
  <1>1. /\ Sum(p) \in Nat /\ Sum(p) <= MaxSum
        /\ OnesSum(p) \in Word /\ Agree(Sum(p), OnesSum(p))
    BY SumsAgree
  <1>2. Half(Sum(p)) \in 0 .. 2 * WordMod - 3 /\ (Half(Sum(p)) = 0 <=> Sum(p) = 0)
    BY <1>1, HalfType
  <1>3. FoldedSum(Sum(p)) =
            IF Half(Sum(p)) < WordMod THEN Half(Sum(p)) ELSE Half(Sum(p)) - WordMod
    BY <1>1, FoldedIs
  <1>4. Valid(p) <=> OnesSum(p) = WordMod - 1
    BY DEF Valid
  <1> QED
    BY <1>1, <1>2, <1>3, <1>4, WordModType DEF Agree, Word

-----------------------------------------------------------------------------
(* Octets and words.                                                       *)

\* A word written as two octets and read as a big-endian number loses nothing.
LEMMA OctetsValue ==
  ASSUME NEW w \in Word
  PROVE  /\ OctetsOf(w) \in Seq(Octet) /\ Len(OctetsOf(w)) = 2
         /\ OctetsOf(w)[1] \in Octet /\ OctetsOf(w)[2] \in Octet
         /\ OctetsOf(w)[1] + ByteMod * OctetsOf(w)[2] = w
         /\ BigEndian(Val(OctetsOf(w))) = OctetsOf(w)
         /\ Val(OctetsOf(w)) = 0 <=> w = 0
  <1> DEFINE low == w % ByteMod
             high == w \div ByteMod
  <1>1. /\ high \in Nat /\ low \in 0 .. ByteMod - 1
        /\ w = ByteMod * high + low
    <2>1. w \in Nat
      BY WordModType DEF Word
    <2> QED
      BY <2>1, WordModType, HalvesOf
  <1>2. OctetsOf(w) = <<low, high>>
    BY DEF OctetsOf
  <1> HIDE DEF low, high
  <1>3. high \in 0 .. ByteMod - 1
    <2> SUFFICES ASSUME ByteMod <= high PROVE FALSE
      BY <1>1, WordModType
    <2>1. ByteMod * ByteMod <= ByteMod * high /\ ByteMod * high \in Nat
      BY <1>1, Larger, WordModType
    <2> QED
      BY <1>1, <2>1, WordModType DEF Word, WordMod
  <1>4. Val(<<low, high>>) = ByteMod * low + high
    BY DEF Val
  <1>5. (ByteMod * low + high) \div ByteMod = low /\ (ByteMod * low + high) % ByteMod = high
    BY <1>1, <1>3, HalvesAre, WordModType
  <1>6. BigEndian(Val(<<low, high>>)) = <<low, high>>
    BY <1>4, <1>5 DEF BigEndian
  <1>7. ByteMod * low + high = 0 <=> ByteMod * high + low = 0
    <2>1. low >= 1 => ByteMod * low >= ByteMod
      BY <1>1, Larger, WordModType
    <2>2. high >= 1 => ByteMod * high >= ByteMod
      BY <1>1, Larger, WordModType
    <2>3. ByteMod * low \in Nat /\ ByteMod * high \in Nat
      BY <1>1, WordModType
    <2>4. (low = 0 => ByteMod * low = 0) /\ (high = 0 => ByteMod * high = 0)
      BY WordModType
    <2> QED
      BY <1>1, <1>3, <2>1, <2>2, <2>3, <2>4, WordModType
  <1>8. /\ low \in Octet /\ high \in Octet
        /\ low + ByteMod * high = w
    BY <1>1, <1>3, WordModType DEF Octet
  <1>9. <<low, high>> \in Seq(Octet) /\ Len(<<low, high>>) = 2
    BY <1>8
  <1>10. OctetsOf(w)[1] = low /\ OctetsOf(w)[2] = high
    BY <1>2
  <1>11. Val(OctetsOf(w)) = ByteMod * low + high /\ BigEndian(Val(OctetsOf(w))) = OctetsOf(w)
    BY <1>2, <1>4, <1>6
  <1>12. OctetsOf(w) \in Seq(Octet) /\ Len(OctetsOf(w)) = 2
    BY <1>2, <1>9
  <1> QED
    BY <1>1, <1>7, <1>8, <1>10, <1>11, <1>12

\* The packet p with the octets f in its checksum field.
Fielded(p, f) == f \o SubSeq(p, 3, Len(p))

\* A concatenation holds the first sequence and behind it the second.
LEMMA ConcatIs ==
  ASSUME NEW f \in Seq(Octet), NEW r \in Seq(Octet)
  PROVE  /\ f \o r \in Seq(Octet) /\ Len(f \o r) = Len(f) + Len(r)
         /\ \A i \in 1 .. Len(f) + Len(r) :
               (f \o r)[i] = IF i <= Len(f) THEN f[i] ELSE r[i - Len(f)]
  OBVIOUS

\* Only the field changes.
LEMMA FieldedIs ==
  ASSUME NEW p \in Packets, Len(p) >= 2, NEW f \in Seq(Octet), Len(f) = 2
  PROVE  /\ Fielded(p, f) \in Packets /\ Len(Fielded(p, f)) = Len(p)
         /\ Fielded(p, f)[1] = f[1] /\ Fielded(p, f)[2] = f[2]
         /\ \A i \in 3 .. Len(p) : Fielded(p, f)[i] = p[i]
  <1> DEFINE rest == SubSeq(p, 3, Len(p))
  <1>1. Len(p) \in Nat /\ p \in Seq(Octet)
    BY WordsOf
  <1>2. /\ rest \in Seq(Octet) /\ Len(rest) = Len(p) - 2
        /\ \A j \in 1 .. Len(p) - 2 : rest[j] = p[j + 2]
    BY <1>1
  <1> HIDE DEF rest
  <1>3. /\ f \o rest \in Seq(Octet) /\ Len(f \o rest) = Len(p)
        /\ (f \o rest)[1] = f[1] /\ (f \o rest)[2] = f[2]
        /\ \A i \in 3 .. Len(p) : (f \o rest)[i] = rest[i - 2]
    <2>0. /\ f \o rest \in Seq(Octet) /\ Len(f \o rest) = 2 + (Len(p) - 2)
          /\ \A i \in 1 .. 2 + (Len(p) - 2) :
                (f \o rest)[i] = IF i <= 2 THEN f[i] ELSE rest[i - 2]
      <3>1. rest \in Seq(Octet) /\ Len(rest) = Len(p) - 2
        BY <1>2
      <3>2. /\ f \o rest \in Seq(Octet) /\ Len(f \o rest) = Len(f) + Len(rest)
            /\ \A i \in 1 .. Len(f) + Len(rest) :
                  (f \o rest)[i] = IF i <= Len(f) THEN f[i] ELSE rest[i - Len(f)]
        BY <3>1, ConcatIs
      <3> QED
        BY <3>1, <3>2
    <2>1. f \o rest \in Seq(Octet) /\ Len(f \o rest) = Len(p)
      BY <1>1, <2>0
    <2>2. ASSUME NEW i \in 1 .. Len(p) PROVE (f \o rest)[i] = IF i <= 2 THEN f[i] ELSE rest[i - 2]
      BY <1>1, <2>0
    <2> QED
      BY <1>1, <2>1, <2>2
  <1>4. \A i \in 3 .. Len(p) : rest[i - 2] = p[i]
    <2> TAKE i \in 3 .. Len(p)
    <2>1. i - 2 \in 1 .. Len(p) - 2 /\ (i - 2) + 2 = i
      BY <1>1
    <2>2. rest[i - 2] = p[(i - 2) + 2]
      BY <1>2, <2>1
    <2> QED
      BY <2>1, <2>2
  <1> QED
    BY <1>3, <1>4 DEF Fielded, rest, Packets

-----------------------------------------------------------------------------
(* What changing a packet does to its sum.                                 *)

\* Two packets that differ in word k only, or in the octet that is left when
\* k is behind the last word, have sums that differ by it.
LEMMA SumOfOther ==
  ASSUME NEW p \in Packets, NEW q \in Packets, Len(p) = Len(q),
         NEW k \in 1 .. WordsRead(p) + 1,
         \A n \in 1 .. WordsRead(p) : n # k => WordAt(q, n) = WordAt(p, n),
         k <= WordsRead(p) => OddOctet(q) = OddOctet(p)
  PROVE  IF k <= WordsRead(p) THEN Sum(q) + WordAt(p, k) = Sum(p) + WordAt(q, k)
         ELSE Sum(q) + OddOctet(p) = Sum(p) + OddOctet(q)
  <1> DEFINE N == WordsRead(p)
             s(n) == Sums(p)[n]
             t(n) == Sums(q)[n]
             Shifted(n) == IF n < k THEN t(n) = s(n)
                           ELSE t(n) + WordAt(p, k) = s(n) + WordAt(q, k)
             T == {n \in 0 .. N : Shifted(n)}
  <1>1. N \in Nat /\ WordsRead(q) = N
    BY WordsOf DEF WordsRead
  <1>2. \A n \in 0 .. N : s(n) \in Nat /\ t(n) \in Nat
    BY <1>1, SumsAgree
  <1>3. /\ \A n \in 1 .. N : s(n) = s(n - 1) + WordAt(p, n)
        /\ \A n \in 1 .. N : t(n) = t(n - 1) + WordAt(q, n)
    BY <1>1, SumsAgree
  <1>4. \A n \in 1 .. N : WordAt(p, n) \in Nat /\ WordAt(q, n) \in Nat
    BY <1>1, WordAtType, WordModType DEF Word
  <1>5. s(0) = 0 /\ t(0) = 0
    BY SumsValue
  <1>6. Sum(p) = s(N) + OddOctet(p) /\ Sum(q) = t(N) + OddOctet(q)
    BY <1>1, SumsAgree
  <1>7. OddOctet(p) \in Nat /\ OddOctet(q) \in Nat
    BY OddOctetType, WordModType DEF Word
  <1> HIDE DEF N, s, t
  <1>8. k \in 1 .. N + 1
    BY DEF N
  <1>9. \A n \in 1 .. N : n # k => WordAt(q, n) = WordAt(p, n)
    BY DEF N
  <1>10. 0 \in T
    BY <1>1, <1>5, <1>8
  <1>11. ASSUME NEW n \in 1 .. N, n - 1 \in T PROVE n \in T
    <2>1. /\ s(n) = s(n - 1) + WordAt(p, n) /\ t(n) = t(n - 1) + WordAt(q, n)
          /\ n - 1 \in 0 .. N /\ Shifted(n - 1)
      BY <1>3, <1>11
    <2>2. /\ s(n - 1) \in Nat /\ t(n - 1) \in Nat
          /\ WordAt(p, n) \in Nat /\ WordAt(q, n) \in Nat
      BY <1>2, <1>4, <2>1
    <2>3. CASE n < k
      <3>1. WordAt(q, n) = WordAt(p, n) /\ n - 1 < k
        BY <1>8, <1>9, <2>3
      <3> QED
        BY <2>1, <2>3, <3>1
    <2>4. CASE n = k
      <3>1. n - 1 < k /\ ~(n < k)
        BY <1>8, <2>4
      <3> QED
        BY <2>1, <2>2, <2>4, <3>1
    <2>5. CASE n > k
      <3>1. WordAt(q, n) = WordAt(p, n) /\ ~(n - 1 < k) /\ ~(n < k) /\ k \in 1 .. N
        BY <1>1, <1>8, <1>9, <2>5
      <3>2. WordAt(p, k) \in Nat /\ WordAt(q, k) \in Nat
        BY <1>4, <3>1
      <3>3. t(n - 1) + WordAt(p, k) = s(n - 1) + WordAt(q, k)
        BY <2>1, <3>1
      <3>4. /\ t(n) = t(n - 1) + WordAt(p, n)
            /\ s(n) = s(n - 1) + WordAt(p, n)
        BY <2>1, <3>1
      <3>5. \A a, b, x, y, w \in Nat : a + x = b + y => (a + w) + x = (b + w) + y
        OBVIOUS
      <3>6. t(n) + WordAt(p, k) = s(n) + WordAt(q, k)
        BY <2>2, <3>2, <3>3, <3>4, <3>5
      <3> QED
        BY <3>1, <3>6
    <2> QED
      BY <1>8, <2>3, <2>4, <2>5
  <1>12. Shifted(N)
    <2>1. \A n \in 0 .. N : n \in T
      <3> HIDE DEF T
      <3> QED
        BY <1>1, <1>10, <1>11, UpTo
    <2> QED
      BY <1>1, <2>1
  <1>13. CASE k <= N
    <2>1. WordAt(p, k) \in Nat /\ WordAt(q, k) \in Nat /\ OddOctet(q) = OddOctet(p)
          /\ s(N) \in Nat /\ t(N) \in Nat
      BY <1>1, <1>2, <1>4, <1>8, <1>13 DEF N
    <2>2. t(N) + WordAt(p, k) = s(N) + WordAt(q, k)
      BY <1>1, <1>8, <1>12, <1>13
    <2>3. Sum(q) + WordAt(p, k) = Sum(p) + WordAt(q, k)
      BY <1>6, <1>7, <2>1, <2>2
    <2> QED
      BY <1>13, <2>3 DEF N
  <1>14. CASE ~(k <= N)
    <2>1. t(N) = s(N) /\ s(N) \in Nat
      BY <1>1, <1>2, <1>8, <1>12, <1>14
    <2>2. Sum(q) + OddOctet(p) = Sum(p) + OddOctet(q)
      BY <1>6, <1>7, <2>1
    <2> QED
      BY <1>14, <2>2 DEF N
  <1> QED
    BY <1>13, <1>14

\* Changing the field changes the sum by the words in it.
LEMMA SumOfFielded ==
  ASSUME NEW p \in Packets, Len(p) >= 2, NEW f \in Seq(Octet), Len(f) = 2
  PROVE  /\ Fielded(p, f) \in Packets /\ Len(Fielded(p, f)) = Len(p)
         /\ Sum(Fielded(p, f)) + WordAt(p, 1) = Sum(p) + WordAt(Fielded(p, f), 1)
         /\ WordAt(Fielded(p, f), 1) = f[1] + ByteMod * f[2]
  <1> DEFINE q == Fielded(p, f)
  <1>1. /\ q \in Packets /\ Len(q) = Len(p) /\ q[1] = f[1] /\ q[2] = f[2]
        /\ \A i \in 3 .. Len(p) : q[i] = p[i]
    BY FieldedIs
  <1>2. Len(p) \in Nat /\ WordsRead(p) \in Nat /\ 1 <= WordsRead(p)
    BY WordsOf
  <1> HIDE DEF q
  <1>3. ASSUME NEW n \in 1 .. WordsRead(p), n # 1 PROVE WordAt(q, n) = WordAt(p, n)
    <2>1. 2 * n - 1 \in 3 .. Len(p) /\ 2 * n \in 3 .. Len(p)
      BY <1>2, <1>3, WordAtType
    <2> QED
      BY <1>1, <2>1 DEF WordAt
  <1>4. OddOctet(q) = OddOctet(p)
    <2>1. Len(p) % 2 = 1 => Len(p) \in 3 .. Len(p)
      BY <1>2, WordsOf
    <2> QED
      BY <1>1, <2>1 DEF OddOctet
  <1>5. Sum(q) + WordAt(p, 1) = Sum(p) + WordAt(q, 1)
    <2>1. 1 \in 1 .. WordsRead(p) + 1
      BY <1>2
    <2> QED
      BY <1>1, <1>2, <1>3, <1>4, <2>1, SumOfOther
  <1>6. WordAt(q, 1) = q[1] + ByteMod * q[2]
    BY DEF WordAt
  <1> QED
    BY <1>1, <1>5, <1>6 DEF q

\* The checksum the code stores makes a packet valid unless the halves of the
\* sum of the rest carry: then the sum is one more than all ones.
LEMMA StoredIsValid ==
  ASSUME NEW p \in Packets, Len(p) >= 2, WordAt(p, 1) = 0
  PROVE  Valid(Fielded(p, OctetsOf(Complement(FoldedSum(Sum(p)))))) <=> ~Carries(Sum(p))
  <1> DEFINE s == Sum(p)
             c == Complement(FoldedSum(s))
             q == Fielded(p, OctetsOf(c))
             h == s \div WordMod
             l == s % WordMod
  <1>1. s \in Nat /\ s <= MaxSum
    BY SumsAgree
  <1>2. /\ h \in 0 .. WordMod - 1 /\ l \in Word /\ s = WordMod * h + l
        /\ Half(s) = h + l /\ Half(s) \in 0 .. 2 * WordMod - 3
    <2> HIDE DEF s
    <2> QED
      BY <1>1, HalfType DEF Half
  <1>3. /\ FoldedSum(s) = IF Half(s) < WordMod THEN Half(s) ELSE Half(s) - WordMod
        /\ FoldedSum(s) \in Word /\ (Carries(s) <=> Half(s) >= WordMod)
    <2> HIDE DEF s
    <2> QED
      BY <1>1, FoldedIs
  <1>4. c \in Word /\ c = WordMod - 1 - FoldedSum(s)
    <2> HIDE DEF s
    <2> QED
      BY <1>3, WordModType DEF Complement, Word
  <1> HIDE DEF s, c
  <1>5. q \in Packets /\ Sum(q) = s + c
    <2>1. /\ OctetsOf(c) \in Seq(Octet) /\ Len(OctetsOf(c)) = 2
          /\ OctetsOf(c)[1] + ByteMod * OctetsOf(c)[2] = c
      BY <1>4, OctetsValue
    <2>2. /\ q \in Packets
          /\ Sum(q) + WordAt(p, 1) = Sum(p) + WordAt(q, 1)
          /\ WordAt(q, 1) = OctetsOf(c)[1] + ByteMod * OctetsOf(c)[2]
      BY <2>1, SumOfFielded
    <2>3. Sum(q) \in Nat
      BY <2>2, SumsAgree
    <2> HIDE DEF q
    <2> QED
      BY <1>1, <1>4, <2>1, <2>2, <2>3, WordModType DEF s, Word
  <1>6. Valid(q) <=> Half(Sum(q)) = WordMod - 1
    <2> HIDE DEF q
    <2> QED
      BY <1>5, FoldIsExact
  <1> HIDE DEF q, h, l
  <1>7. CASE Half(s) < WordMod
    <2>1. s + c = WordMod * h + (WordMod - 1 - h) /\ WordMod - 1 - h \in 0 .. WordMod - 1
      BY <1>2, <1>3, <1>4, <1>7, WordModType DEF Word
    <2>2. /\ (WordMod * h + (WordMod - 1 - h)) \div WordMod = h
          /\ (WordMod * h + (WordMod - 1 - h)) % WordMod = WordMod - 1 - h
      <3>1. h \in Nat
        BY <1>2, WordModType
      <3> QED
        BY <2>1, <3>1, HalvesAre, WordModType
    <2>3. Half(s + c) = h + (WordMod - 1 - h)
      BY <2>1, <2>2 DEF Half
    <2>4. Half(s + c) = WordMod - 1
      BY <1>2, <2>3, WordModType
    <2> QED
      BY <1>2, <1>3, <1>5, <1>6, <1>7, <2>4, WordModType DEF s, c, q
  <1>8. CASE ~(Half(s) < WordMod)
    <2>1. /\ s + c = WordMod * (h + 1) + (WordMod - 1 - h)
          /\ WordMod - 1 - h \in 0 .. WordMod - 1 /\ h + 1 \in Nat
      BY <1>2, <1>3, <1>4, <1>8, WordModType DEF Word
    <2>2. /\ (WordMod * (h + 1) + (WordMod - 1 - h)) \div WordMod = h + 1
          /\ (WordMod * (h + 1) + (WordMod - 1 - h)) % WordMod = WordMod - 1 - h
      BY <2>1, HalvesAre, WordModType
    <2>3. Half(s + c) = (h + 1) + (WordMod - 1 - h)
      BY <2>1, <2>2 DEF Half
    <2>4. Half(s + c) # WordMod - 1
      BY <1>2, <2>3, WordModType
    <2> QED
      BY <1>2, <1>3, <1>5, <1>6, <1>8, <2>4, WordModType DEF s, c, q
  <1> QED
    BY <1>7, <1>8

\* Two packets that differ in one octet.
DifferInOne(p, q) ==
    /\ Len(p) = Len(q)
    /\ \E i \in 1 .. Len(p) :
          /\ p[i] # q[i]
          /\ \A j \in 1 .. Len(p) : j # i => p[j] = q[j]

\* One octet moves the sum, and by less than all ones.
LEMMA OneOctetMoves ==
  ASSUME NEW p \in Packets, NEW q \in Packets, DifferInOne(p, q)
  PROVE  /\ Sum(p) # Sum(q)
         /\ Sum(p) - Sum(q) < WordMod - 1 /\ Sum(q) - Sum(p) < WordMod - 1
  <1>1. PICK i \in 1 .. Len(p) :
            p[i] # q[i] /\ \A j \in 1 .. Len(p) : j # i => p[j] = q[j]
    BY DEF DifferInOne
  <1>2. /\ Len(p) = Len(q) /\ Len(p) \in Nat /\ p \in Seq(Octet) /\ q \in Seq(Octet)
        /\ WordsRead(q) = WordsRead(p) /\ WordsRead(p) \in Nat
    BY WordsOf DEF DifferInOne, WordsRead
  <1>3. p[i] \in 0 .. ByteMod - 1 /\ q[i] \in 0 .. ByteMod - 1
    <2>1. p[i] \in Octet /\ q[i] \in Octet
      BY <1>2
    <2> QED
      BY <2>1 DEF Octet
  <1>4. Sum(p) \in Nat /\ Sum(q) \in Nat
    BY SumsAgree
  <1>5. CASE i <= 2 * WordsRead(p)
    <2>1. PICK k \in 1 .. WordsRead(p) : i = 2 * k - 1 \/ i = 2 * k
      <3>1. (i + 1) \div 2 \in 1 .. WordsRead(p)
            /\ (i = 2 * ((i + 1) \div 2) - 1 \/ i = 2 * ((i + 1) \div 2))
        BY <1>2, <1>5
      <3> QED
        BY <3>1
    <2>2. ASSUME NEW n \in 1 .. WordsRead(p), n # k PROVE WordAt(q, n) = WordAt(p, n)
      <3>1. /\ 2 * n - 1 \in 1 .. Len(p) /\ 2 * n \in 1 .. Len(p)
            /\ 2 * n - 1 # i /\ 2 * n # i
        BY <2>1, <2>2, WordAtType
      <3> QED
        BY <1>1, <3>1 DEF WordAt
    <2>3. OddOctet(q) = OddOctet(p)
      <3>1. Len(p) % 2 = 1 => Len(p) \in 1 .. Len(p) /\ Len(p) # i
        BY <1>2, <1>5, WordsOf
      <3> QED
        BY <1>1, <1>2, <3>1 DEF OddOctet
    <2>4. Sum(q) + WordAt(p, k) = Sum(p) + WordAt(q, k)
      <3>1. k \in 1 .. WordsRead(p) + 1 /\ k <= WordsRead(p)
        BY <1>2
      <3> QED
        BY <1>2, <2>2, <2>3, <3>1, SumOfOther
    <2>5. WordAt(p, k) \in Nat /\ WordAt(q, k) \in Nat
      BY <1>2, WordAtType, WordModType DEF Word
    <2>6. /\ WordAt(p, k) # WordAt(q, k)
          /\ WordAt(p, k) - WordAt(q, k) < WordMod - 1
          /\ WordAt(q, k) - WordAt(p, k) < WordMod - 1
      <3>1. CASE i = 2 * k - 1
        <4>1. 2 * k \in 1 .. Len(p) /\ 2 * k # i
          BY <3>1, WordAtType
        <4>2. p[2 * k] = q[2 * k] /\ p[2 * k] \in Octet
          BY <1>1, <1>2, <4>1
        <4>3. ByteMod * p[2 * k] \in Nat
          BY <4>2, WordModType DEF Octet
        <4>4. /\ WordAt(p, k) = p[i] + ByteMod * p[2 * k]
              /\ WordAt(q, k) = q[i] + ByteMod * p[2 * k]
          BY <3>1, <4>2 DEF WordAt
        <4> QED
          BY <1>1, <1>3, <4>3, <4>4, WordModType
      <3>2. CASE i = 2 * k
        <4>1. 2 * k - 1 \in 1 .. Len(p) /\ 2 * k - 1 # i
          BY <3>2, WordAtType
        <4>2. p[2 * k - 1] = q[2 * k - 1] /\ p[2 * k - 1] \in Nat
          <5>1. p[2 * k - 1] = q[2 * k - 1] /\ p[2 * k - 1] \in Octet
            BY <1>1, <1>2, <4>1
          <5> QED
            BY <5>1, WordModType DEF Octet
        <4>3. /\ WordAt(p, k) = p[2 * k - 1] + ByteMod * p[i]
              /\ WordAt(q, k) = p[2 * k - 1] + ByteMod * q[i]
          BY <3>2, <4>2 DEF WordAt
        <4>4. ASSUME NEW a \in 0 .. ByteMod - 1, NEW b \in 0 .. ByteMod - 1, a < b
              PROVE  /\ ByteMod * b - ByteMod * a > 0
                     /\ ByteMod * b - ByteMod * a < WordMod - 1
                     /\ ByteMod * a \in Nat /\ ByteMod * b \in Nat
          <5>1. b - a \in 1 .. ByteMod - 1 /\ ByteMod * b - ByteMod * a = ByteMod * (b - a)
            BY <4>4, WordModType
          <5>2. ByteMod * 1 <= ByteMod * (b - a)
            BY <5>1, Larger, WordModType
          <5>3. ByteMod * (b - a) <= ByteMod * (ByteMod - 1)
            BY <5>1, Larger, WordModType
          <5>4. ByteMod * (ByteMod - 1) = WordMod - ByteMod
            BY WordModType DEF WordMod
          <5> QED
            BY <5>1, <5>2, <5>3, <5>4, WordModType
        <4>5. CASE p[i] < q[i]
          <5>1. /\ ByteMod * q[i] - ByteMod * p[i] > 0
                /\ ByteMod * q[i] - ByteMod * p[i] < WordMod - 1
                /\ ByteMod * p[i] \in Nat /\ ByteMod * q[i] \in Nat
            BY <1>3, <4>4, <4>5
          <5> QED
            BY <4>2, <4>3, <5>1, WordModType
        <4>6. CASE q[i] < p[i]
          <5>1. /\ ByteMod * p[i] - ByteMod * q[i] > 0
                /\ ByteMod * p[i] - ByteMod * q[i] < WordMod - 1
                /\ ByteMod * p[i] \in Nat /\ ByteMod * q[i] \in Nat
            BY <1>3, <4>4, <4>6
          <5> QED
            BY <4>2, <4>3, <5>1, WordModType
        <4> QED
          BY <1>1, <1>3, <4>5, <4>6
      <3> QED
        BY <2>1, <3>1, <3>2
    <2> QED
      BY <1>4, <2>4, <2>5, <2>6, WordModType
  <1>6. CASE i > 2 * WordsRead(p)
    <2>1. i = Len(p) /\ Len(p) % 2 = 1
      BY <1>2, <1>6, WordsOf
    <2>2. ASSUME NEW n \in 1 .. WordsRead(p) PROVE WordAt(q, n) = WordAt(p, n)
      <3>1. /\ 2 * n - 1 \in 1 .. Len(p) /\ 2 * n \in 1 .. Len(p)
            /\ 2 * n - 1 # i /\ 2 * n # i
        BY <1>2, <1>6, WordAtType
      <3> QED
        BY <1>1, <3>1 DEF WordAt
    <2>3. OddOctet(p) = p[i] /\ OddOctet(q) = q[i]
      BY <1>2, <2>1 DEF OddOctet
    <2>4. Sum(q) + OddOctet(p) = Sum(p) + OddOctet(q)
      <3> DEFINE k == WordsRead(p) + 1
      <3>1. k \in 1 .. WordsRead(p) + 1 /\ ~(k <= WordsRead(p))
        BY <1>2
      <3> HIDE DEF k
      <3> QED
        BY <1>2, <2>2, <3>1, SumOfOther
    <2> QED
      BY <1>1, <1>3, <1>4, <2>3, <2>4, WordModType
  <1> QED
    BY <1>2, <1>5, <1>6

\* No two valid packets differ in one octet.
LEMMA OneOctetShows ==
  ASSUME NEW p \in Packets, NEW q \in Packets, DifferInOne(p, q), Valid(p)
  PROVE  ~Valid(q)
  <1> SUFFICES ASSUME Valid(q) PROVE FALSE
    OBVIOUS
  <1>1. ASSUME NEW r \in Packets, Valid(r)
        PROVE  \E h \in Nat : Sum(r) = (WordMod - 1) * (h + 1)
    <2> DEFINE h == Sum(r) \div WordMod
               l == Sum(r) % WordMod
    <2>1. Sum(r) \in Nat /\ Sum(r) <= MaxSum
      BY SumsAgree
    <2>2. h \in Nat /\ l \in Nat /\ Sum(r) = WordMod * h + l
      <3>1. /\ h \in 0 .. WordMod - 1 /\ l \in 0 .. WordMod - 1
            /\ Sum(r) = WordMod * h + l
        BY <2>1, HalfType DEF Word
      <3> HIDE DEF h, l
      <3> QED
        BY <3>1, WordModType
    <2>3. h + l = WordMod - 1
      BY <1>1, FoldIsExact DEF Half
    <2> HIDE DEF h, l
    <2>4. Sum(r) = (WordMod - 1) * (h + 1)
      BY <2>2, <2>3, WordModType
    <2> QED
      BY <2>2, <2>4
  <1>2. PICK g \in Nat : Sum(p) = (WordMod - 1) * (g + 1)
    BY <1>1
  <1>3. PICK h \in Nat : Sum(q) = (WordMod - 1) * (h + 1)
    BY <1>1
  <1>4. ASSUME NEW a \in Nat, NEW b \in Nat, a < b
        PROVE  /\ (WordMod - 1) * (b + 1) - (WordMod - 1) * (a + 1) >= WordMod - 1
    <2>1. /\ b - a \in Nat /\ 1 <= b - a
          /\ (WordMod - 1) * (b + 1) - (WordMod - 1) * (a + 1) = (WordMod - 1) * (b - a)
      BY <1>4, WordModType
    <2>2. (WordMod - 1) * 1 <= (WordMod - 1) * (b - a)
      BY <2>1, Larger, WordModType
    <2> QED
      BY <2>1, <2>2, WordModType
  <1>5. /\ Sum(p) # Sum(q)
        /\ Sum(p) - Sum(q) < WordMod - 1 /\ Sum(q) - Sum(p) < WordMod - 1
    BY OneOctetMoves
  <1>6. g = h \/ g < h \/ h < g
    OBVIOUS
  <1>7. Sum(p) \in Nat /\ Sum(q) \in Nat
    BY SumsAgree
  <1>8. ASSUME g < h PROVE FALSE
    <2>1. Sum(q) - Sum(p) >= WordMod - 1
      BY <1>2, <1>3, <1>4, <1>8
    <2> QED
      BY <1>5, <1>7, <2>1, WordModType
  <1>9. ASSUME h < g PROVE FALSE
    <2>1. Sum(p) - Sum(q) >= WordMod - 1
      BY <1>2, <1>3, <1>4, <1>9
    <2> QED
      BY <1>5, <1>7, <2>1, WordModType
  <1> QED
    BY <1>2, <1>3, <1>5, <1>6, <1>8, <1>9

\* The number read from the octets of a word tells the word, and it tells the
\* octets: nothing is lost between Val and BigEndian.
LEMMA ValTells ==
  ASSUME NEW w \in Word
  PROVE  /\ \A v \in Word : Val(OctetsOf(w)) = Val(OctetsOf(v)) => w = v
         /\ \A p \in Packets : Len(p) >= 2 /\ Val(OctetsOf(w)) = Val(p) =>
                p[1] = OctetsOf(w)[1] /\ p[2] = OctetsOf(w)[2]
  <1>1. ASSUME NEW v \in Word, Val(OctetsOf(w)) = Val(OctetsOf(v)) PROVE w = v
    <2>1. OctetsOf(w) = OctetsOf(v)
      BY <1>1, OctetsValue
    <2> QED
      BY <2>1, OctetsValue
  <1>2. ASSUME NEW p \in Packets, Len(p) >= 2, Val(OctetsOf(w)) = Val(p)
        PROVE  p[1] = OctetsOf(w)[1] /\ p[2] = OctetsOf(w)[2]
    <2>1. p \in Seq(Octet) /\ Len(p) \in Nat
      BY WordsOf
    <2>2. p[1] \in Octet /\ p[2] \in Octet
      BY <1>2, <2>1
    <2>3. p[1] \in Nat /\ p[2] \in 0 .. ByteMod - 1
      BY <2>2, WordModType DEF Octet
    <2>4. /\ (ByteMod * p[1] + p[2]) \div ByteMod = p[1]
          /\ (ByteMod * p[1] + p[2]) % ByteMod = p[2]
      BY <2>3, HalvesAre, WordModType
    <2>5. BigEndian(Val(p)) = <<p[1], p[2]>>
      BY <2>4 DEF BigEndian, Val
    <2>6. BigEndian(Val(p)) = OctetsOf(w)
      BY <1>2, OctetsValue
    <2> QED
      BY <2>5, <2>6
  <1> QED
    BY <1>1, <1>2

\* The fold and the complement of what the code sums are words.
LEMMA ChecksumIs ==
  ASSUME NEW p \in Packets
  PROVE  /\ Complement(FoldedSum(Sum(p))) \in Word
         /\ ChecksumOf(p) = Val(OctetsOf(Complement(FoldedSum(Sum(p)))))
         /\ ChecksumOf(p) = 0 <=> Valid(p)
  <1> DEFINE c == Complement(FoldedSum(Sum(p)))
  <1>1. FoldedSum(Sum(p)) \in Word
    BY SumsAgree, FoldedIs
  <1>2. c \in Word /\ (c = 0 <=> FoldedSum(Sum(p)) = WordMod - 1)
    BY <1>1, WordModType DEF Complement, Word
  <1>3. ChecksumOf(p) = Val(OctetsOf(c))
    BY DEF ChecksumOf
  <1> HIDE DEF c
  <1>4. Val(OctetsOf(c)) = 0 <=> c = 0
    BY <1>2, OctetsValue
  <1> QED
    BY <1>2, <1>3, <1>4, FoldIsExact DEF c

\* What a correct sender of UDP stores: all ones for zero.
UdpField(octets) ==
    IF Complement(OnesSum(octets)) = 0 THEN WordMod - 1 ELSE Complement(OnesSum(octets))

\* UDP's comparison succeeds for it when the code's sum is that of RFC 1071
\* and not all ones: where the fold carries, the two differ by one.
LEMMA UdpCompares ==
  ASSUME NEW p \in Packets
  PROVE  /\ UdpField(p) \in Word /\ Val(OctetsOf(UdpField(p))) # 0
         /\ ChecksumOf(p) = Val(OctetsOf(UdpField(p))) <=>
                ~Carries(Sum(p)) /\ FoldedSum(Sum(p)) # WordMod - 1
  <1> DEFINE s == Sum(p)
             o == OnesSum(p)
             c == Complement(FoldedSum(s))
             f == UdpField(p)
  <1>1. /\ s \in Nat /\ s <= MaxSum /\ o \in Word
        /\ Half(s) = o \/ Half(s) = o + WordMod - 1
        /\ s = 0 <=> o = 0
    BY SumsAgree DEF Agree
  <1>2. /\ FoldedSum(s) = IF Half(s) < WordMod THEN Half(s) ELSE Half(s) - WordMod
        /\ FoldedSum(s) \in Word /\ (Carries(s) <=> Half(s) >= WordMod)
        /\ Half(s) \in 0 .. 2 * WordMod - 3 /\ (Half(s) = 0 <=> s = 0)
    <2> HIDE DEF s
    <2> QED
      BY <1>1, FoldedIs, HalfType
  <1>3. c \in Word /\ c = WordMod - 1 - FoldedSum(s) /\ ChecksumOf(p) = Val(OctetsOf(c))
    BY ChecksumIs DEF Complement
  <1>4. f = IF WordMod - 1 - o = 0 THEN WordMod - 1 ELSE WordMod - 1 - o
    BY DEF UdpField, Complement
  <1> HIDE DEF s, o, c, f
  <1>5. f \in Word /\ f # 0
    BY <1>1, <1>4, WordModType DEF Word
  <1>6. Val(OctetsOf(f)) # 0 /\ (Val(OctetsOf(c)) = Val(OctetsOf(f)) <=> c = f)
    BY <1>3, <1>5, OctetsValue, ValTells
  <1>7. c = f <=> ~Carries(s) /\ FoldedSum(s) # WordMod - 1
    <2>1. CASE Half(s) = o
      BY <1>1, <1>2, <1>3, <1>4, <2>1, WordModType DEF Word
    <2>2. CASE Half(s) = o + WordMod - 1
      <3>1. o # 0
        BY <1>1, <1>2, <2>2, WordModType DEF Word
      <3> QED
        BY <1>1, <1>2, <1>3, <1>4, <2>2, <3>1, WordModType DEF Word
    <2> QED
      BY <1>1, <2>1, <2>2
  <1> QED
    BY <1>3, <1>5, <1>6, <1>7 DEF s, f

-----------------------------------------------------------------------------
(* The packet on its way.                                                  *)

Zeros == <<0, 0>>

\* A field of two zeros is no word of the sum.
LEMMA ZerosAre ==
  /\ Zeros \in Seq(Octet) /\ Len(Zeros) = 2 /\ Zeros[1] = 0 /\ Zeros[2] = 0
  /\ BigEndian(0) = Zeros
  <1>1. 0 \in Octet
    BY WordModType DEF Octet
  <1>2. 0 \div ByteMod = 0 /\ 0 % ByteMod = 0
    <2>1. (ByteMod * 0 + 0) \div ByteMod = 0 /\ (ByteMod * 0 + 0) % ByteMod = 0
      BY HalvesAre, WordModType
    <2>2. ByteMod * 0 + 0 = 0
      BY WordModType
    <2> QED
      BY <2>1, <2>2
  <1> QED
    BY <1>1, <1>2 DEF Zeros, BigEndian

\* The field that is stored last is the one a packet has.
LEMMA FieldedTwice ==
  ASSUME NEW p \in Packets, Len(p) >= 2,
         NEW f \in Seq(Octet), Len(f) = 2, NEW g \in Seq(Octet), Len(g) = 2
  PROVE  /\ Fielded(Fielded(p, f), g) = Fielded(p, g)
         /\ p[1] = f[1] /\ p[2] = f[2] => Fielded(p, f) = p
  <1>1. /\ Fielded(p, f) \in Packets /\ Len(Fielded(p, f)) = Len(p)
        /\ Fielded(p, f)[1] = f[1] /\ Fielded(p, f)[2] = f[2]
        /\ \A i \in 3 .. Len(p) : Fielded(p, f)[i] = p[i]
    BY FieldedIs
  <1>2. /\ Fielded(p, g) \in Packets /\ Len(Fielded(p, g)) = Len(p)
        /\ Fielded(p, g)[1] = g[1] /\ Fielded(p, g)[2] = g[2]
        /\ \A i \in 3 .. Len(p) : Fielded(p, g)[i] = p[i]
    BY FieldedIs
  <1> DEFINE q == Fielded(p, f)
  <1>3. /\ Fielded(q, g) \in Packets /\ Len(Fielded(q, g)) = Len(q)
        /\ Fielded(q, g)[1] = g[1] /\ Fielded(q, g)[2] = g[2]
        /\ \A i \in 3 .. Len(q) : Fielded(q, g)[i] = q[i]
    <2> HIDE DEF q
    <2>1. q \in Packets /\ Len(q) >= 2
      BY <1>1 DEF q
    <2> QED
      BY <2>1, FieldedIs
  <1> HIDE DEF q
  <1>4. ASSUME NEW a \in Packets, NEW b \in Packets, Len(a) = Len(b), Len(a) >= 2,
               a[1] = b[1], a[2] = b[2], \A i \in 3 .. Len(a) : a[i] = b[i]
        PROVE  a = b
    <2>1. a \in Seq(Octet) /\ b \in Seq(Octet) /\ Len(a) \in Nat
      BY WordsOf
    <2>2. \A i \in 1 .. Len(a) : a[i] = b[i]
      <3> TAKE i \in 1 .. Len(a)
      <3>1. i = 1 \/ i = 2 \/ i \in 3 .. Len(a)
        BY <2>1
      <3> QED
        BY <1>4, <3>1
    <2> QED
      BY <1>4, <2>1, <2>2
  <1>5. Fielded(q, g) = Fielded(p, g)
    <2>1. \A i \in 3 .. Len(p) : Fielded(q, g)[i] = Fielded(p, g)[i]
      BY <1>1, <1>2, <1>3 DEF q
    <2>2. Len(Fielded(q, g)) = Len(Fielded(p, g)) /\ Len(Fielded(q, g)) = Len(p)
      BY <1>1, <1>2, <1>3 DEF q
    <2> QED
      BY <1>2, <1>3, <1>4, <2>1, <2>2
  <1>6. ASSUME p[1] = f[1], p[2] = f[2] PROVE Fielded(p, f) = p
    BY <1>1, <1>4, <1>6
  <1> QED
    BY <1>5, <1>6 DEF q

\* The bound of the theorems: the packets are no longer than the 32-bit sum
\* and its single fold can take; sizes of 16 bits are half of that.
PacketsFit == \A n \in Sizes : n + 2 <= 2 * WordMod

\* Changing an octet makes a packet of the same size that differs in one.
LEMMA ChangedIs ==
  ASSUME NEW p \in Packets, NEW i \in 1 .. Len(p), NEW o \in Octet, p[i] # o
  PROVE  /\ [p EXCEPT ![i] = o] \in Packets /\ Len([p EXCEPT ![i] = o]) = Len(p)
         /\ DifferInOne([p EXCEPT ![i] = o], p)
         /\ [p EXCEPT ![i] = o][i] = o
         /\ [[p EXCEPT ![i] = o] EXCEPT ![i] = p[i]] = p
  <1> DEFINE q == [p EXCEPT ![i] = o]
  <1>1. p \in Seq(Octet) /\ Len(p) \in Nat
    BY WordsOf
  <1>2. /\ q \in Seq(Octet) /\ Len(q) = Len(p) /\ q[i] = o
        /\ \A j \in 1 .. Len(p) : j # i => q[j] = p[j]
    BY <1>1
  <1>3. q \in Packets /\ DifferInOne(q, p)
    <2> HIDE DEF q
    <2> QED
      BY <1>1, <1>2 DEF Packets, DifferInOne
  <1>4. [q EXCEPT ![i] = p[i]] = p
    <2> DEFINE r == [q EXCEPT ![i] = p[i]]
    <2>1. p[i] \in Octet
      BY <1>1
    <2> HIDE DEF q
    <2>2. /\ r \in Seq(Octet) /\ Len(r) = Len(p) /\ r[i] = p[i]
          /\ \A j \in 1 .. Len(p) : j # i => r[j] = q[j]
      BY <1>1, <1>2, <2>1
    <2> HIDE DEF r
    <2>3. \A j \in 1 .. Len(p) : r[j] = p[j]
      BY <1>2, <2>2
    <2>4. r = p
      BY <1>1, <2>2, <2>3
    <2> QED
      BY <2>4 DEF r
  <1> QED
    BY <1>2, <1>3, <1>4

\* What is known of the packet on its way: it is built with an empty field; a
\* datagram nothing changed has the field of a correct sender; if something
\* did, one octet is not what it was; the verdict is the receiver's.
PacketInv ==
    /\ packet \in Packets /\ Len(packet) >= 2
    /\ stage \in {"built", "sent", "received"}
    /\ byUdp \in BOOLEAN /\ damaged \in BOOLEAN
    /\ stage = "built" => ~damaged /\ packet = Rest
    /\ byUdp /\ ~damaged /\ stage # "built" =>
           packet = Fielded(Rest, OctetsOf(UdpField(Rest)))
    /\ ~damaged /\ stage # "built" => (intact <=> Valid(packet))
    /\ damaged => \E i \in 1 .. Len(packet), o \in Octet :
           packet[i] # o /\ (intact <=> Valid([packet EXCEPT ![i] = o]))
    /\ stage = "received" /\ ~byUdp => (verdict <=> ChecksumOf(packet) = 0)
    /\ stage = "received" /\ byUdp =>
           (verdict <=> Field = 0 \/ ChecksumOf(Rest) = Field)

\* The module's operators on the packet, in the terms of the lemmas.
LEMMA FieldedOperators ==
  /\ \A f : WithField(f) = Fielded(packet, f)
  /\ Rest = Fielded(packet, Zeros) /\ WithoutField = Rest
  /\ Field = Val(packet)
  BY ZerosAre DEF WithField, Fielded, Rest, Zeros, WithoutField, Field

\* A packet without its field is a packet whose first word is zero.
LEMMA RestIs ==
  ASSUME packet \in Packets, Len(packet) >= 2
  PROVE  Rest \in Packets /\ Len(Rest) = Len(packet) /\ WordAt(Rest, 1) = 0
  <1>1. /\ Fielded(packet, Zeros) \in Packets /\ Len(Fielded(packet, Zeros)) = Len(packet)
        /\ WordAt(Fielded(packet, Zeros), 1) = Zeros[1] + ByteMod * Zeros[2]
    BY ZerosAre, SumOfFielded
  <1> QED
    BY <1>1, ZerosAre, FieldedOperators, WordModType

\* The packet is built as PacketInv says.
LEMMA PacketStarts == ASSUME PacketsFit, Init PROVE PacketInv
  <1>1. PICK data \in Data : packet = Zeros \o data
    BY DEF Init, Zeros
  <1>2. PICK n \in Sizes : data \in [1 .. n -> Octet]
    BY DEF Data
  <1>3. n \in Nat /\ n + 2 <= 2 * WordMod
    BY SizesAssumption DEF PacketsFit
  <1>4. data \in Seq(Octet) /\ Len(data) = n
    BY <1>2, <1>3
  <1>5. /\ packet \in Seq(Octet) /\ Len(packet) = 2 + n
        /\ packet[1] = 0 /\ packet[2] = 0
    <2>1. /\ Zeros \o data \in Seq(Octet) /\ Len(Zeros \o data) = Len(Zeros) + Len(data)
          /\ \A i \in 1 .. Len(Zeros) + Len(data) :
                (Zeros \o data)[i] = IF i <= Len(Zeros) THEN Zeros[i] ELSE data[i - Len(Zeros)]
      BY <1>4, ZerosAre, ConcatIs
    <2>2. 1 \in 1 .. Len(Zeros) + Len(data) /\ 2 \in 1 .. Len(Zeros) + Len(data)
      BY <1>3, <1>4, ZerosAre
    <2> QED
      BY <1>1, <1>3, <1>4, <2>1, <2>2, ZerosAre
  <1>6. packet \in Packets /\ Len(packet) >= 2
    BY <1>3, <1>5 DEF Packets
  <1>7. packet = Rest
    BY <1>5, <1>6, ZerosAre, FieldedTwice, FieldedOperators
  <1> QED
    BY <1>6, <1>7 DEF Init, PacketInv

\* Storing a word in the field keeps it.
LEMMA StoresKeeps ==
  ASSUME PacketInv, NEW w \in Word, Stores(OctetsOf(w)),
         byUdp => w = UdpField(packet)
  PROVE  PacketInv'
  <1>1. /\ packet \in Packets /\ Len(packet) >= 2 /\ ~damaged /\ packet = Rest
        /\ stage' = "sent" /\ packet' = Fielded(packet, OctetsOf(w))
        /\ intact' = Valid(packet') /\ damaged' = damaged /\ byUdp' = byUdp
        /\ byUdp \in BOOLEAN /\ damaged \in BOOLEAN
    BY FieldedOperators DEF PacketInv, Stores
  <1>2. OctetsOf(w) \in Seq(Octet) /\ Len(OctetsOf(w)) = 2
    BY OctetsValue
  <1>3. packet' \in Packets /\ Len(packet') >= 2
    BY <1>1, <1>2, FieldedIs
  <1>4. Rest' = Fielded(packet', Zeros)
    BY DEF Rest, Fielded, Zeros
  <1>5. Fielded(packet', Zeros) = Fielded(packet, Zeros)
    BY <1>1, <1>2, ZerosAre, FieldedTwice
  <1>6. Rest' = packet
    BY <1>1, <1>4, <1>5, FieldedOperators
  <1>7. byUdp => packet' = Fielded(Rest', OctetsOf(UdpField(Rest')))
    BY <1>1, <1>6
  <1> QED
    BY <1>1, <1>3, <1>7 DEF PacketInv

\* Every step keeps what is known of the packet.
LEMMA PacketStays == ASSUME PacketInv, [Next]_vars PROVE PacketInv'
  <1>1. CASE Send
    <2> DEFINE c == Complement(FoldedSum(Sum(packet)))
    <2>1. packet \in Packets /\ ~byUdp /\ Stores(BigEndian(ChecksumOf(packet)))
      BY <1>1 DEF Send, PacketInv
    <2>2. c \in Word /\ ChecksumOf(packet) = Val(OctetsOf(c))
      BY <2>1, ChecksumIs
    <2> HIDE DEF c
    <2>3. BigEndian(ChecksumOf(packet)) = OctetsOf(c)
      BY <2>2, OctetsValue
    <2> QED
      BY <2>1, <2>2, <2>3, StoresKeeps
  <1>2. CASE PeerSend
    <2> DEFINE w == IF byUdp THEN UdpField(packet) ELSE Complement(OnesSum(packet))
    <2>1. packet \in Packets /\ byUdp \in BOOLEAN
      BY DEF PacketInv
    <2>2. w \in Word
      <3>1. OnesSum(packet) \in Word
        BY <2>1, SumsAgree
      <3> QED
        BY <3>1, WordModType DEF Complement, UdpField, Word
    <2>3. Stores(OctetsOf(w))
      BY <1>2 DEF PeerSend, UdpField
    <2>4. byUdp => w = UdpField(packet)
      OBVIOUS
    <2> HIDE DEF w
    <2> QED
      BY <2>2, <2>3, <2>4, StoresKeeps
  <1>3. CASE Damage
    <2>1. PICK i \in 1 .. Len(packet), o \in Octet :
              packet[i] # o /\ packet' = [packet EXCEPT ![i] = o]
      BY <1>3 DEF Damage
    <2>2. /\ packet \in Packets /\ Len(packet) >= 2 /\ byUdp \in BOOLEAN
          /\ ~damaged /\ stage = "sent" /\ (intact <=> Valid(packet))
          /\ damaged' = TRUE /\ stage' = stage /\ intact' = intact /\ byUdp' = byUdp
      BY <1>3 DEF PacketInv, Damage
    <2>3. /\ packet' \in Packets /\ Len(packet') = Len(packet) /\ packet'[i] = o
          /\ [packet' EXCEPT ![i] = packet[i]] = packet
      BY <2>1, <2>2, ChangedIs
    <2>4. packet[i] \in Octet
      BY <2>1, <2>2, WordsOf
    <2>5. \E j \in 1 .. Len(packet'), x \in Octet :
              packet'[j] # x /\ (intact' <=> Valid([packet' EXCEPT ![j] = x]))
      BY <2>1, <2>2, <2>3, <2>4
    <2> QED
      BY <2>2, <2>3, <2>5 DEF PacketInv
  <1>4. CASE Receive
    <2>1. /\ packet' = packet /\ damaged' = damaged /\ intact' = intact /\ byUdp' = byUdp
          /\ stage = "sent" /\ stage' = "received" /\ Rest' = Rest /\ Field' = Field
      BY <1>4 DEF Receive, Rest, Field
    <2>2. /\ ~byUdp => verdict' = (ChecksumOf(packet) = 0)
          /\ byUdp => verdict' = (Field = 0 \/ ChecksumOf(Rest) = Field)
      BY <1>4, FieldedOperators DEF Receive, ReceiveIp, ReceiveUdp
    <2> QED
      BY <2>1, <2>2 DEF PacketInv
  <1>5. CASE UNCHANGED vars
    <2>1. Rest' = Rest /\ Field' = Field
      BY <1>5 DEF vars, Rest, Field
    <2> QED
      BY <1>5, <2>1 DEF vars, PacketInv
  <1> QED
    BY <1>1, <1>2, <1>3, <1>4, <1>5 DEF Next

\* What is known of the packet is known at every time (util.cpp:17-33 and
\* its callers), whatever the sizes and the octets are.
THEOREM PacketInvariant == ASSUME PacketsFit PROVE Spec => []PacketInv
  <1>1. Init => PacketInv
    BY PacketStarts
  <1>2. PacketInv /\ [Next]_vars => PacketInv'
    BY PacketStays
  <1> QED
    BY <1>1, <1>2, PTL DEF Spec

\* IPv4's and ICMP's receivers accept exactly the packets RFC 1071 calls
\* valid, although the fold drops a carry (util.cpp:29, L3.cpp:49-50).
THEOREM VerifiesExactly == ASSUME PacketsFit PROVE Spec => []VerifyIsExact
  <1>1. ASSUME PacketInv PROVE VerifyIsExact
    <2>1. packet \in Packets
      BY <1>1 DEF PacketInv
    <2>2. ChecksumOf(packet) = 0 <=> Valid(packet)
      BY <2>1, ChecksumIs
    <2> QED
      BY <1>1, <2>2 DEF PacketInv, VerifyIsExact
  <1> QED
    BY <1>1, PacketInvariant, PTL

\* What the code stores is valid unless the fold carries, and then never.
THEOREM StoresValidUnlessCarry == ASSUME PacketsFit PROVE Spec => []ValidUnlessCarry
  <1>1. ASSUME PacketInv PROVE ValidUnlessCarry
    <2> SUFFICES ASSUME stage = "built"
                 PROVE  Valid(WithField(BigEndian(ChecksumOf(packet)))) <=> ~Carries(Sum(packet))
      BY DEF ValidUnlessCarry
    <2>1. packet \in Packets /\ Len(packet) >= 2 /\ packet = Rest
      BY <1>1 DEF PacketInv
    <2>2. WordAt(packet, 1) = 0
      BY <2>1, RestIs
    <2> DEFINE c == Complement(FoldedSum(Sum(packet)))
    <2>3. BigEndian(ChecksumOf(packet)) = OctetsOf(c)
      BY <2>1, ChecksumIs, OctetsValue
    <2>4. Valid(Fielded(packet, OctetsOf(c))) <=> ~Carries(Sum(packet))
      BY <2>1, <2>2, StoredIsValid
    <2> QED
      BY <2>3, <2>4, FieldedOperators
  <1> QED
    BY <1>1, PacketInvariant, PTL

\* A damaged octet is noticed: a valid packet that lost one is refused, except
\* by UDP when the field became zero or the fold carries.
THEOREM DetectsDamage == ASSUME PacketsFit PROVE Spec => []DamageIsDetected
  <1>1. ASSUME PacketInv PROVE DamageIsDetected
    <2> SUFFICES ASSUME stage = "received", damaged, intact, verdict
                 PROVE  byUdp /\ (Field = 0 \/ Carries(Sum(Rest)))
      BY DEF DamageIsDetected
    <2>1. packet \in Packets /\ Len(packet) >= 2 /\ byUdp \in BOOLEAN
      BY <1>1 DEF PacketInv
    <2>2. ~Valid(packet)
      <3>1. PICK i \in 1 .. Len(packet), o \in Octet :
                packet[i] # o /\ Valid([packet EXCEPT ![i] = o])
        BY <1>1 DEF PacketInv
      <3>2. /\ [packet EXCEPT ![i] = o] \in Packets
            /\ DifferInOne([packet EXCEPT ![i] = o], packet)
        BY <2>1, <3>1, ChangedIs
      <3> QED
        BY <2>1, <3>1, <3>2, OneOctetShows
    <2>3. byUdp
      <3> SUFFICES ASSUME ~byUdp PROVE FALSE
        BY <2>1
      <3>1. ChecksumOf(packet) = 0
        BY <1>1 DEF PacketInv
      <3> QED
        BY <2>1, <2>2, <3>1, ChecksumIs
    <2>4. ASSUME Field # 0, ~Carries(Sum(Rest)) PROVE FALSE
      <3> DEFINE c == Complement(FoldedSum(Sum(Rest)))
      <3>1. ChecksumOf(Rest) = Val(packet)
        BY <1>1, <2>3, <2>4, FieldedOperators DEF PacketInv
      <3>2. Rest \in Packets /\ Len(Rest) = Len(packet) /\ WordAt(Rest, 1) = 0
        BY <2>1, RestIs
      <3>3. c \in Word /\ Val(OctetsOf(c)) = Val(packet)
        BY <3>1, <3>2, ChecksumIs
      <3>4. Valid(Fielded(Rest, OctetsOf(c)))
        BY <2>1, <2>4, <3>2, StoredIsValid
      <3> HIDE DEF c
      <3>5. packet[1] = OctetsOf(c)[1] /\ packet[2] = OctetsOf(c)[2]
        BY <2>1, <3>3, ValTells
      <3>6. OctetsOf(c) \in Seq(Octet) /\ Len(OctetsOf(c)) = 2
        BY <3>3, OctetsValue
      <3>7. Fielded(packet, OctetsOf(c)) = packet
        BY <2>1, <3>5, <3>6, FieldedTwice
      <3>8. Fielded(Rest, OctetsOf(c)) = Fielded(packet, OctetsOf(c))
        BY <2>1, <3>6, ZerosAre, FieldedTwice, FieldedOperators
      <3> QED
        BY <2>2, <3>4, <3>7, <3>8
    <2> QED
      BY <2>3, <2>4
  <1> QED
    BY <1>1, PacketInvariant, PTL

\* UDP refuses the correct datagrams whose sum carries in the fold or is all
\* ones, and no other that arrives as it was sent (UDP.cpp:35-41).
THEOREM UdpDropsAlways == ASSUME PacketsFit PROVE Spec => []UdpDropsOnlyCarriesAndOnes
  <1>1. ASSUME PacketInv PROVE UdpDropsOnlyCarriesAndOnes
    <2> SUFFICES ASSUME stage = "received", byUdp, ~damaged
                 PROVE  verdict <=>
                           ~Carries(Sum(Rest)) /\ FoldedSum(Sum(Rest)) # WordMod - 1
      BY DEF UdpDropsOnlyCarriesAndOnes
    <2> DEFINE f == UdpField(Rest)
    <2>1. /\ packet \in Packets /\ Len(packet) >= 2
          /\ packet = Fielded(Rest, OctetsOf(f))
          /\ verdict <=> Field = 0 \/ ChecksumOf(Rest) = Field
      BY <1>1 DEF PacketInv
    <2>2. Rest \in Packets /\ Len(Rest) >= 2
      BY <2>1, RestIs
    <2>3. /\ f \in Word /\ Val(OctetsOf(f)) # 0
          /\ ChecksumOf(Rest) = Val(OctetsOf(f)) <=>
                 ~Carries(Sum(Rest)) /\ FoldedSum(Sum(Rest)) # WordMod - 1
      BY <2>2, UdpCompares
    <2> HIDE DEF f
    <2>4. /\ OctetsOf(f) \in Seq(Octet) /\ Len(OctetsOf(f)) = 2
      BY <2>3, OctetsValue
    <2>5. packet[1] = OctetsOf(f)[1] /\ packet[2] = OctetsOf(f)[2]
      BY <2>1, <2>2, <2>4, FieldedIs
    <2>6. Field = Val(OctetsOf(f))
      BY <2>5, FieldedOperators DEF Val
    <2> QED
      BY <2>1, <2>3, <2>6
  <1> QED
    BY <1>1, PacketInvariant, PTL
=============================================================================
