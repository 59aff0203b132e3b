--------------------------- MODULE Services_proofs ---------------------------
(***************************************************************************)
(* Theorems about Services, for any records, clients and requests, any     *)
(* damage and loss on the way and any padding of frames: the names in a    *)
(* query and in an alias, and the answers the clients get.                 *)
(***************************************************************************)
EXTENDS Services, TLAPS, FiniteSetTheorems, WellFoundedInduction

-----------------------------------------------------------------------------
(* Induction and recursion up to a number.                                 *)

\* A set that has zero, and a number whenever it has the one before, has all
\* numbers up to N: otherwise the intervals below those it lacks would have
\* no smallest one.
LEMMA UpTo ==
  ASSUME NEW N \in Nat, NEW T, 0 \in T, \A n \in 1 .. N : n - 1 \in T => n \in T
  PROVE  \A n \in 0 .. N : n \in T
  <1> DEFINE Gaps == {n \in 0 .. N : n \notin T}
             Below == {0 .. n : n \in Gaps}
  <1>1. SUFFICES ASSUME Gaps # {} PROVE FALSE
    OBVIOUS
  <1>2. IsWellFoundedOn(StrictSubsetOrdering(Nat), FiniteSubsetsOf(Nat))
    BY FS_StrictSubsetOrderingWellFounded
  <1>3. Below \subseteq FiniteSubsetsOf(Nat)
    <2>1. \A n \in Nat : IsFiniteSet(0 .. n)
      BY FS_Interval
    <2> QED
      BY <2>1 DEF FiniteSubsetsOf
  <1>4. Below # {}
    BY <1>1
  <1> HIDE DEF Below
  <1>5. PICK m \in Below : \A s \in Below : <<s, m>> \notin StrictSubsetOrdering(Nat)
    BY <1>2, <1>3, <1>4, WFMin
  <1>6. PICK k \in Gaps : m = 0 .. k
    BY <1>5 DEF Below
  <1>7. k \in 1 .. N /\ k - 1 \in Gaps
    BY <1>6
  <1>8. 0 .. k - 1 \in Below
    BY <1>7 DEF Below
  <1>9. <<0 .. k - 1, m>> \in StrictSubsetOrdering(Nat)
    <2>1. k \in m /\ k \notin 0 .. k - 1
      BY <1>6, <1>7
    <2>2. 0 .. k - 1 \subseteq m /\ m \in SUBSET Nat
      BY <1>6, <1>7
    <2>3. 0 .. k - 1 \in SUBSET Nat /\ 0 .. k - 1 # m
      BY <2>1, <2>2
    <2> QED
      BY <2>1, <2>2, <2>3 DEF StrictSubsetOrdering
  <1> QED
    BY <1>5, <1>8, <1>9

\* The values of f from 0 to N: z at first, and then each from the one before.
Iterates(f, N, z, step) ==
    /\ f = [n \in 0 .. N |-> f[n]] /\ f[0] = z
    /\ \A n \in 1 .. N : f[n] = step[<<f[n - 1], n>>]

\* There is a function on 0 .. N whose values are each made from the one before.
LEMMA Recursion ==
  ASSUME NEW N \in Nat, NEW z, NEW step
  PROVE  \E f : Iterates(f, N, z, step)
  <1> DEFINE IsFor(f, m) ==
               /\ f = [n \in 0 .. N |-> f[n]]
               /\ \A n \in 0 .. m : f[n] = IF n = 0 THEN z ELSE step[<<f[n - 1], n>>]
             T == {m \in 0 .. N : \E f : IsFor(f, m)}
  <1>1. 0 \in T
    <2> DEFINE f == [n \in 0 .. N |-> z]
    <2>1. f = [n \in 0 .. N |-> f[n]] /\ f[0] = z
      OBVIOUS
    <2> HIDE DEF f
    <2>2. IsFor(f, 0)
      BY <2>1
    <2> HIDE DEF IsFor
    <2> QED
      BY <2>2
  <1>2. ASSUME NEW m \in 1 .. N, m - 1 \in T PROVE m \in T
    <2>1. PICK f : IsFor(f, m - 1)
      BY <1>2
    <2> DEFINE g == [n \in 0 .. N |-> IF n = m THEN step[<<f[m - 1], m>>] ELSE f[n]]
    <2>2. /\ g = [n \in 0 .. N |-> g[n]] /\ g[m] = step[<<f[m - 1], m>>]
          /\ \A n \in 0 .. m - 1 : g[n] = f[n]
      <3>1. m \in 0 .. N /\ \A n \in 0 .. m - 1 : n \in 0 .. N /\ n # m
        OBVIOUS
      <3> QED
        BY <3>1
    <2> HIDE DEF g
    <2>3. IsFor(g, m)
      <3>1. ASSUME NEW n \in 0 .. m
            PROVE  g[n] = IF n = 0 THEN z ELSE step[<<g[n - 1], n>>]
        <4>1. CASE n = m
          <5>1. m \in Nat /\ m # 0 /\ m - 1 \in 0 .. m - 1
            OBVIOUS
          <5> QED
            BY <4>1, <5>1, <2>2
        <4>2. CASE n # m
          <5>1. n \in 0 .. m - 1
            BY <4>2
          <5>2. n # 0 => n - 1 \in 0 .. m - 1
            BY <5>1
          <5> QED
            BY <5>1, <5>2, <2>1, <2>2
        <4> QED
          BY <4>1, <4>2
      <3> QED
        BY <2>2, <3>1
    <2>4. m \in 0 .. N
      OBVIOUS
    <2> HIDE DEF IsFor
    <2> QED
      BY <2>3, <2>4
  <1> HIDE DEF T
  <1>3. N \in T
    BY <1>1, <1>2, UpTo
  <1>4. PICK f : IsFor(f, N)
    BY <1>3 DEF T
  <1>5. 0 \in 0 .. N /\ \A n \in 1 .. N : n \in 0 .. N /\ n # 0
    OBVIOUS
  <1>6. Iterates(f, N, z, step)
    BY <1>4, <1>5 DEF Iterates
  <1> QED
    BY <1>6

-----------------------------------------------------------------------------
(* Names as texts and on the wire.                                         *)

\* Where the labels of a text begin and end, and that l octets lie between.
BeginsAt(text, i) == i = 1 \/ text[i - 1] = Dot

EndsAt(text, i) == i = Len(text) + 1 \/ text[i] = Dot

LabelOf(text, i, l) ==
    EndsAt(text, i + l) /\ \A j \in i .. i + l - 1 : ~EndsAt(text, j)

\* Octet i of a name on the wire, if the name spells the text.
SpelledAt(text, i, octet) ==
    IF BeginsAt(text, i) THEN i + octet <= Len(text) + 1 /\ LabelOf(text, i, octet)
    ELSE octet = text[i - 1] \/ (octet \in 65 .. 90 /\ octet + 32 = text[i - 1])

\* Whether a name spells a text can be told octet by octet.
LEMMA SpellsIs ==
  ASSUME NEW text \in Seq(Octet), NEW wire \in Seq(Octet)
  PROVE  Spells(wire, text) <=>
            /\ Len(wire) = Len(text) + 2 /\ wire[Len(wire)] = 0
            /\ \A i \in 1 .. Len(text) + 1 : SpelledAt(text, i, wire[i])
  <1> DEFINE N == Len(text)
             Ends(i) == {j \in i .. N + 1 : j = N + 1 \/ text[j] = Dot}
             At(i) == IF i = 1 \/ text[i - 1] = Dot
                      THEN i + wire[i] \in Ends(i) /\ \A j \in Ends(i) : i + wire[i] <= j
                      ELSE \/ wire[i] = text[i - 1]
                           \/ wire[i] \in 65 .. 90 /\ wire[i] + 32 = text[i - 1]
  <1>1. Spells(wire, text) <=>
            /\ Len(wire) = N + 2 /\ wire[Len(wire)] = 0
            /\ \A i \in 1 .. N + 1 : At(i)
    BY DEF Spells, Last
  <1>2. ASSUME Len(wire) = N + 2, NEW i \in 1 .. N + 1
        PROVE  At(i) <=> SpelledAt(text, i, wire[i])
    <2>1. N \in Nat /\ i \in 1 .. Len(wire)
      BY <1>2
    <2>2. wire[i] \in Octet
      BY <2>1
    <2>3. \A octet \in Octet : octet \in Nat
      BY DEF Octet
    <2> DEFINE l == wire[i]
    <2>4. (i + l \in Ends(i) /\ \A j \in Ends(i) : i + l <= j) <=>
              i + l <= N + 1 /\ LabelOf(text, i, l)
      <3> HIDE DEF l
      <3>0. l \in Nat
        BY <2>2, <2>3 DEF l
      <3>1. ASSUME i + l \in Ends(i), \A j \in Ends(i) : i + l <= j
            PROVE  i + l <= N + 1 /\ LabelOf(text, i, l)
        <4>1. i + l <= N + 1 /\ EndsAt(text, i + l)
          BY <2>1, <3>0, <3>1 DEF EndsAt
        <4>2. ASSUME NEW j \in i .. i + l - 1 PROVE ~EndsAt(text, j)
          <5>1. j \in i .. N + 1 /\ ~(i + l <= j)
            BY <2>1, <3>0, <4>1
          <5> QED
            BY <3>1, <5>1 DEF EndsAt
        <4> QED
          BY <4>1, <4>2 DEF LabelOf
      <3>2. ASSUME i + l <= N + 1, LabelOf(text, i, l)
            PROVE  i + l \in Ends(i) /\ \A j \in Ends(i) : i + l <= j
        <4>1. i + l \in Ends(i)
          BY <2>1, <3>0, <3>2 DEF EndsAt, LabelOf
        <4>2. ASSUME NEW j \in Ends(i), ~(i + l <= j) PROVE FALSE
          <5>1. j \in i .. i + l - 1
            BY <2>1, <3>0, <4>2
          <5> QED
            BY <3>2, <4>2, <5>1 DEF EndsAt, LabelOf
        <4> QED
          BY <4>1, <4>2
      <3> QED
        BY <3>1, <3>2
    <2>5. CASE BeginsAt(text, i)
      <3> HIDE DEF Ends
      <3> QED
        BY <2>4, <2>5 DEF SpelledAt, BeginsAt
    <2>6. CASE ~BeginsAt(text, i)
      BY <2>6 DEF SpelledAt, BeginsAt
    <2> QED
      BY <2>5, <2>6
  <1> HIDE DEF At
  <1> QED
    BY <1>1, <1>2

-----------------------------------------------------------------------------
(* The loop that registers an alias (DNS.h:43-56).                         *)

\* What the concatenation of two sequences of octets holds.
LEMMA Concatenation ==
  ASSUME NEW p \in Seq(Octet), NEW q \in Seq(Octet)
  PROVE  /\ p \o q \in Seq(Octet)
         /\ Len(p \o q) = Len(p) + Len(q)
         /\ \A i \in 1 .. Len(p) : (p \o q)[i] = p[i]
         /\ \A i \in Len(p) + 1 .. Len(p) + Len(q) : (p \o q)[i] = q[i - Len(p)]
  OBVIOUS

\* Octets m to n of a sequence.
LEMMA Part ==
  ASSUME NEW p \in Seq(Octet), NEW m \in 1 .. Len(p) + 1, NEW n \in m - 1 .. Len(p)
  PROVE  /\ SubSeq(p, m, n) \in Seq(Octet)
         /\ Len(SubSeq(p, m, n)) = n - m + 1
         /\ \A i \in 1 .. n - m + 1 : SubSeq(p, m, n)[i] = p[m + i - 1]
  OBVIOUS

\* The sequence of one octet.
LEMMA OneOctet ==
  ASSUME NEW o \in Octet
  PROVE  <<o>> \in Seq(Octet) /\ Len(<<o>>) = 1 /\ <<o>>[1] = o
  OBVIOUS

\* The texts the macro is used with.
Texts ==
    {text \in Seq(Octet) : Len(text) < 256 /\ \A i \in DOMAIN text : text[i] # 0}

\* The C string of a text: its octets, and a zero.
LEMMA CString ==
  ASSUME NEW text \in Texts, NEW n \in 1 .. Len(text) + 1
  PROVE  /\ Append(text, 0)[n] \in {Dot, 0} <=> EndsAt(text, n)
         /\ n <= Len(text) => Append(text, 0)[n] = text[n]
  <1>1. text \in Seq(Octet) /\ Len(text) \in Nat /\ \A i \in 1 .. Len(text) : text[i] # 0
    BY DEF Texts
  <1>2. CASE n <= Len(text)
    <2>1. n \in 1 .. Len(text) /\ n # Len(text) + 1
      BY <1>1, <1>2
    <2>2. Append(text, 0)[n] = text[n]
      BY <1>1, <2>1
    <2> QED
      BY <1>1, <2>1, <2>2 DEF EndsAt
  <1>3. CASE ~(n <= Len(text))
    <2>1. n = Len(text) + 1
      BY <1>1, <1>3
    <2>2. Append(text, 0)[Len(text) + 1] = 0
      BY <1>1
    <2> QED
      BY <1>3, <2>1, <2>2 DEF EndsAt
  <1> QED
    BY <1>2, <1>3

\* After n octets of the text: the labels that ended so far are spelled, and
\* the l octets behind them are the beginning of a label.
EncodedTo(text, s, n) ==
    /\ s \in [data : Seq(Octet), l : Nat]
    /\ s.l <= n /\ s.l <= Len(text) /\ Len(s.data) = n - s.l
    /\ n = s.l \/ EndsAt(text, n - s.l)
    /\ \A j \in n - s.l + 1 .. n : ~EndsAt(text, j)
    /\ \A i \in 1 .. n - s.l : SpelledAt(text, i, s.data[i])

\* A round of the loop keeps that.
LEMMA EncodeOctetKeeps ==
  ASSUME NEW text \in Texts, NEW n \in 1 .. Len(text) + 1, NEW s, EncodedTo(text, s, n - 1)
  PROVE  EncodedTo(text, EncodeOctet(text, s, n), n)
  <1> DEFINE N == Len(text)
             l == s.l
             data == s.data
             t == EncodeOctet(text, s, n)
             m == n - l
  <1>1. /\ text \in Seq(Octet) /\ N \in Nat /\ N < 256
        /\ l \in 0 .. n - 1 /\ l \in 0 .. N /\ n \in Nat
        /\ data \in Seq(Octet) /\ Len(data) = n - 1 - l
        /\ n - 1 = l \/ EndsAt(text, n - 1 - l)
        /\ \A j \in n - 1 - l + 1 .. n - 1 : ~EndsAt(text, j)
        /\ \A i \in 1 .. n - 1 - l : SpelledAt(text, i, data[i])
    <2>1. s.l \in Nat /\ s.data \in Seq(Octet)
      BY DEF EncodedTo
    <2> QED
      BY <2>1 DEF EncodedTo, Texts
  <1>2. /\ m \in 1 .. n /\ n - 1 - l = m - 1 /\ n - l = m /\ m + l = n
        /\ m + l - 1 = n - 1 /\ n - (l + 1) = m - 1 /\ (m - 1) + 1 = m
    <2>1. l \in Nat /\ n \in Nat /\ l <= n - 1
      BY <1>1
    <2> HIDE DEF l
    <2> QED
      BY <2>1
  <1>3. /\ m = 1 \/ EndsAt(text, m - 1)
        /\ \A j \in m .. n - 1 : ~EndsAt(text, j)
        /\ Len(data) = m - 1
        /\ \A i \in 1 .. m - 1 : SpelledAt(text, i, data[i])
    <2>1. n - 1 = l => m = 1
      BY <1>1
    <2>2. (n - 1 - l) + 1 = m
      BY <1>1
    <2> HIDE DEF m
    <2> QED
      BY <1>1, <1>2, <2>1, <2>2
  <1> HIDE DEF l, data, m
  <1>4. CASE EndsAt(text, n)
    <2> DEFINE label == SubSeq(text, m, n - 1)
    <2>1. t = [data |-> data \o <<l>> \o label, l |-> 0]
      BY <1>2, <1>4, CString DEF EncodeOctet, l, data, m
    <2>2. label \in Seq(Octet) /\ Len(label) = l /\ \A i \in 1 .. l : label[i] = text[m + i - 1]
      <3>1. /\ m \in 1 .. N + 1 /\ n - 1 \in m - 1 .. N /\ (n - 1) - m + 1 = l
        BY <1>1, <1>2
      <3> HIDE DEF N
      <3> QED
        BY <1>1, <3>1, Part DEF N
    <2> HIDE DEF label, t
    <2>3. /\ data \o <<l>> \in Seq(Octet) /\ Len(data \o <<l>>) = m
          /\ (data \o <<l>>)[m] = l
          /\ \A i \in 1 .. m - 1 : (data \o <<l>>)[i] = data[i]
      <3>1. l \in Octet
        BY <1>1 DEF Octet
      <3>2. <<l>> \in Seq(Octet) /\ Len(<<l>>) = 1 /\ <<l>>[1] = l
        BY <3>1, OneOctet
      <3>3. m \in (m - 1) + 1 .. (m - 1) + 1 /\ m - (m - 1) = 1 /\ (m - 1) + 1 = m
        BY <1>2
      <3> QED
        <4>1. /\ data \o <<l>> \in Seq(Octet) /\ Len(data \o <<l>>) = Len(data) + Len(<<l>>)
              /\ \A i \in 1 .. Len(data) : (data \o <<l>>)[i] = data[i]
              /\ \A i \in Len(data) + 1 .. Len(data) + Len(<<l>>) :
                    (data \o <<l>>)[i] = <<l>>[i - Len(data)]
          BY <1>1, <3>2, Concatenation
        <4>2. Len(data) = m - 1
          BY <1>3
        <4> QED
          BY <3>2, <3>3, <4>1, <4>2
    <2> DEFINE d == (data \o <<l>>) \o label
    <2>4. /\ d \in Seq(Octet) /\ Len(d) = n
          /\ \A i \in 1 .. m - 1 : d[i] = data[i]
          /\ d[m] = l
          /\ \A i \in m + 1 .. n : d[i] = text[i - 1]
      <3> DEFINE p == data \o <<l>>
      <3>1. /\ p \in Seq(Octet) /\ Len(p) = m /\ p[m] = l
            /\ \A i \in 1 .. m - 1 : p[i] = data[i]
        BY <2>3
      <3>2. d = p \o label
        OBVIOUS
      <3> HIDE DEF p, d
      <3>3. /\ d \in Seq(Octet) /\ Len(d) = m + l
            /\ \A i \in 1 .. m : d[i] = p[i]
            /\ \A i \in m + 1 .. m + l : d[i] = label[i - m]
        <4>1. /\ p \o label \in Seq(Octet) /\ Len(p \o label) = Len(p) + Len(label)
              /\ \A i \in 1 .. Len(p) : (p \o label)[i] = p[i]
              /\ \A i \in Len(p) + 1 .. Len(p) + Len(label) :
                    (p \o label)[i] = label[i - Len(p)]
          BY <2>2, <3>1, Concatenation
        <4>2. Len(p) = m /\ Len(label) = l
          BY <2>2, <3>1
        <4> QED
          BY <3>2, <4>1, <4>2
      <3>4. ASSUME NEW i \in m + 1 .. n PROVE d[i] = text[i - 1]
        <4>1. i - m \in 1 .. l /\ m + (i - m) - 1 = i - 1 /\ i \in m + 1 .. m + l
          BY <1>1, <1>2
        <4> QED
          BY <2>2, <3>3, <4>1
      <3>5. \A i \in 1 .. m - 1 : i \in 1 .. m
        BY <1>2
      <3>6. m \in 1 .. m
        BY <1>2
      <3> QED
        BY <1>2, <3>1, <3>3, <3>4, <3>5, <3>6
    <2>5. t.data = d /\ t.l = 0 /\ t \in [data : Seq(Octet), l : Nat]
      <3> HIDE DEF d
      <3>1. t = [data |-> d, l |-> 0]
        BY <2>1 DEF d
      <3> QED
        BY <2>4, <3>1
    <2> HIDE DEF d
    <2>6. ASSUME NEW i \in 1 .. n PROVE SpelledAt(text, i, d[i])
      <3>1. CASE i \in 1 .. m - 1
        BY <1>3, <2>4, <3>1
      <3>2. CASE i = m
        <4>1. BeginsAt(text, m)
          BY <1>1, <1>2, <1>3 DEF EndsAt, BeginsAt
        <4>2. m + l <= N + 1 /\ LabelOf(text, m, l)
          BY <1>2, <1>3, <1>4 DEF LabelOf
        <4> QED
          BY <2>4, <3>2, <4>1, <4>2 DEF SpelledAt
      <3>3. CASE i \in m + 1 .. n
        <4>1. i - 1 \in m .. n - 1 /\ i # 1
          BY <1>2, <3>3
        <4>2. ~BeginsAt(text, i)
          BY <1>3, <4>1 DEF EndsAt, BeginsAt
        <4> QED
          BY <2>4, <3>3, <4>2 DEF SpelledAt
      <3> QED
        BY <1>2, <3>1, <3>2, <3>3
    <2>7. /\ t.l <= n /\ t.l <= Len(text) /\ Len(t.data) = n - t.l
          /\ EndsAt(text, n - t.l)
      BY <1>1, <1>4, <2>4, <2>5
    <2>8. \A j \in n - t.l + 1 .. n : ~EndsAt(text, j)
      BY <1>1, <2>5
    <2>9. \A i \in 1 .. n - t.l : SpelledAt(text, i, t.data[i])
      BY <1>1, <2>5, <2>6
    <2> QED
      BY <2>5, <2>7, <2>8, <2>9 DEF EncodedTo, t
  <1>5. CASE ~EndsAt(text, n)
    <2>1. t = [data |-> data, l |-> (l + 1) % 256]
      BY <1>5, CString DEF EncodeOctet, l, data
    <2>2. n <= N /\ l + 1 <= N /\ (l + 1) % 256 = l + 1
      <3>1. n <= N
        BY <1>1, <1>5 DEF EndsAt
      <3>2. l \in Nat /\ l + 1 <= N /\ l + 1 \in 0 .. 255
        BY <1>1, <3>1
      <3>3. \A k \in 0 .. 255 : k % 256 = k
        OBVIOUS
      <3> QED
        BY <3>1, <3>2, <3>3
    <2> HIDE DEF t
    <2>3. t.data = data /\ t.l = l + 1 /\ t \in [data : Seq(Octet), l : Nat]
      BY <1>1, <2>1, <2>2
    <2>4. l + 1 <= n
      BY <1>1
    <2>5. \A j \in m .. n : ~EndsAt(text, j)
      BY <1>2, <1>3, <1>5
    <2>6. n = l + 1 \/ EndsAt(text, m - 1)
      <3>1. m = 1 => n = l + 1
        BY <1>1, <1>2
      <3> QED
        BY <1>3, <3>1
    <2> QED
      BY <1>1, <1>2, <1>3, <2>2, <2>3, <2>4, <2>5, <2>6 DEF EncodedTo, t
  <1> QED
    BY <1>4, <1>5

\* A function whose values follow the rounds of the loop as far as it is
\* known what these do.
LEMMA EncodedUpTo ==
  ASSUME NEW text \in Texts, NEW f, f[0] = [data |-> << >>, l |-> 0],
         \A n \in 1 .. Len(text) + 1 :
             EncodedTo(text, f[n - 1], n - 1) => f[n] = EncodeOctet(text, f[n - 1], n)
  PROVE  \A n \in 0 .. Len(text) + 1 : EncodedTo(text, f[n], n)
  <1> DEFINE N == Len(text) + 1
             T == {n \in 0 .. N : EncodedTo(text, f[n], n)}
  <1>1. N \in Nat
    BY DEF Texts
  <1>2. EncodedTo(text, f[0], 0)
    <2> DEFINE s == [data |-> << >>, l |-> 0]
    <2>1. s.data = << >> /\ s.l = 0 /\ s \in [data : Seq(Octet), l : Nat]
      OBVIOUS
    <2> HIDE DEF s
    <2>2. EncodedTo(text, s, 0)
      BY <1>1, <2>1 DEF EncodedTo, Texts
    <2> QED
      BY <2>2 DEF s
  <1>3. ASSUME NEW n \in 1 .. N, n - 1 \in T PROVE n \in T
    BY <1>3, EncodeOctetKeeps
  <1>4. 0 \in T
    BY <1>1, <1>2
  <1> HIDE DEF N
  <1>5. \A n \in 0 .. N : n \in T
    <2> HIDE DEF T
    <2> QED
      BY <1>1, <1>3, <1>4, UpTo
  <1> QED
    BY <1>5 DEF N

\* The data of an alias spell its text, for every text.
THEOREM AliasIsSpelled ==
  ASSUME NEW text \in Texts
  PROVE  EncodeName(text) \in Seq(Octet) /\ Spells(EncodeName(text), text)
  <1> DEFINE N == Len(text) + 1
             z == [data |-> << >>, l |-> 0]
             IsLoop(g) == g = [n \in 0 .. N |->
                                 IF n = 0 THEN z ELSE EncodeOctet(text, g[n - 1], n)]
             Reached == [data : Seq(Octet), l : Nat]
             step == [p \in Reached \X (1 .. N) |-> EncodeOctet(text, p[1], p[2])]
             after == CHOOSE g : IsLoop(g)
  <1>1. N \in Nat /\ text \in Seq(Octet) /\ Len(text) \in Nat
    BY DEF Texts
  <1>2. \A g : IsLoop(g) => \A n \in 0 .. N : EncodedTo(text, g[n], n)
    <2> SUFFICES ASSUME NEW g, IsLoop(g) PROVE \A n \in 0 .. N : EncodedTo(text, g[n], n)
      OBVIOUS
    <2>1. g[0] = z
      BY <1>1
    <2>2. \A n \in 1 .. N : g[n] = EncodeOctet(text, g[n - 1], n)
      <3> TAKE n \in 1 .. N
      <3>1. n \in 0 .. N /\ n # 0
        BY <1>1
      <3> QED
        BY <3>1
    <2> QED
      BY <2>1, <2>2, EncodedUpTo
  <1>3. \E g : IsLoop(g)
    <2> HIDE DEF z, step, N
    <2>1. PICK f : Iterates(f, N, z, step)
      BY <1>1, Recursion
    <2>2. /\ f = [n \in 0 .. N |-> f[n]] /\ f[0] = z
          /\ \A n \in 1 .. N : f[n] = step[<<f[n - 1], n>>]
      BY <2>1 DEF Iterates
    <2>3. \A n \in 1 .. N : n \in 0 .. N /\ n # 0
      BY <1>1
    <2>4. \A n \in 1 .. N : f[n] = step[<<f[n - 1], n>>]
      BY <2>2
    <2>5. ASSUME NEW n \in 1 .. N, EncodedTo(text, f[n - 1], n - 1)
          PROVE  f[n] = EncodeOctet(text, f[n - 1], n)
      <3>1. f[n - 1] \in Reached
        BY <2>5 DEF EncodedTo
      <3>2. step[<<f[n - 1], n>>] = EncodeOctet(text, f[n - 1], n)
        BY <3>1 DEF step
      <3> QED
        BY <2>4, <3>2
    <2>6. \A n \in 0 .. N : EncodedTo(text, f[n], n)
      BY <2>2, <2>5, EncodedUpTo DEF z, N
    <2>7. \A n \in 1 .. N : n - 1 \in 0 .. N
      BY <1>1
    <2>8. \A n \in 1 .. N : f[n] = EncodeOctet(text, f[n - 1], n)
      BY <2>5, <2>6, <2>7
    <2>9. f = [n \in 0 .. N |-> f[n]]
      BY <2>2
    <2>10. \A n \in 0 .. N : f[n] = IF n = 0 THEN z ELSE EncodeOctet(text, f[n - 1], n)
      <3> TAKE n \in 0 .. N
      <3>1. n = 0 \/ n \in 1 .. N
        BY <1>1
      <3> QED
        BY <2>2, <2>3, <2>8, <3>1
    <2>11. IsLoop(f)
      BY <2>9, <2>10
    <2> QED
      BY <2>11
  <1>4. IsLoop(after)
    <2> HIDE DEF IsLoop
    <2> QED
      BY <1>3
  <1> DEFINE s == after[N]
  <1>5. EncodeName(text) = Append(s.data, 0)
    BY DEF EncodeName
  <1> HIDE DEF after, IsLoop, N
  <1>6. EncodedTo(text, s, N)
    BY <1>1, <1>2, <1>4
  <1> HIDE DEF s
  <1>7. s.l \in Nat /\ s.data \in Seq(Octet) /\ s.l <= N
    BY <1>6 DEF EncodedTo
  <1>8. s.l = 0
    <2>1. EndsAt(text, N)
      BY DEF EndsAt, N
    <2>2. \A j \in N - s.l + 1 .. N : ~EndsAt(text, j)
      BY <1>6 DEF EncodedTo
    <2>3. s.l # 0 => N \in N - s.l + 1 .. N
      BY <1>1, <1>7
    <2> QED
      BY <2>1, <2>2, <2>3
  <1>9. Len(s.data) = N /\ \A i \in 1 .. N : SpelledAt(text, i, s.data[i])
    <2>1. N - s.l = N
      BY <1>1, <1>8
    <2> QED
      BY <1>6, <2>1 DEF EncodedTo
  <1> DEFINE wire == Append(s.data, 0)
  <1>10. /\ wire \in Seq(Octet) /\ Len(wire) = N + 1 /\ wire[N + 1] = 0
         /\ \A i \in 1 .. N : wire[i] = s.data[i]
    <2>1. 0 \in Octet
      BY DEF Octet
    <2> QED
      BY <1>1, <1>7, <1>9, <2>1
  <1> HIDE DEF wire
  <1>11. Len(wire) = Len(text) + 2
    BY <1>1, <1>10 DEF N
  <1>12. wire[Len(wire)] = 0
    BY <1>10
  <1>13. \A i \in 1 .. Len(text) + 1 : SpelledAt(text, i, wire[i])
    BY <1>9, <1>10 DEF N
  <1>14. Spells(wire, text)
    BY <1>1, <1>10, <1>11, <1>12, <1>13, SpellsIs
  <1> QED
    BY <1>5, <1>10, <1>14 DEF wire

-----------------------------------------------------------------------------
(* The loop that parses the question (DNS.cpp:22-30).                      *)

\* B are the octets of a name that begin a label, and its last one.
IsNameAt(wire, B) ==
    /\ B \subseteq 1 .. Len(wire)
    /\ {1, Len(wire)} \subseteq B /\ wire[Len(wire)] = 0 /\ Len(wire) > 1
    /\ \A i \in B \ {Len(wire)} :
          /\ wire[i] > 0 /\ i + wire[i] + 1 \in B
          /\ \A j \in i + 1 .. i + wire[i] : j \notin B /\ wire[j] \notin {0, Dot}

\* What stands for octet i of a name in its text.
Letter(wire, B, i) == IF i \in B THEN Dot ELSE wire[i]

\* After n rounds: the labels in front of at are parsed, and at is where the
\* next one begins.
ReadTo(wire, B, s, n) ==
    /\ s \in [text : Seq(Octet), at : Nat]
    /\ s.at \in B /\ (s.at = Len(wire) \/ s.at > n)
    /\ Len(s.text) = s.at - 1
    /\ \A j \in 1 .. s.at - 1 : s.text[j] = Letter(wire, B, j + 1)

\* A round of the loop keeps that.
LEMMA ReadLabelKeeps ==
  ASSUME NEW wire \in Seq(Octet), NEW B, IsNameAt(wire, B),
         NEW n \in 1 .. Len(wire), NEW s, ReadTo(wire, B, s, n - 1)
  PROVE  ReadTo(wire, B, ReadLabel(wire, s), n)
  <1> DEFINE at == s.at
             text == s.text
             l == wire[at]
             t == ReadLabel(wire, s)
  <1>1. /\ at \in Nat /\ text \in Seq(Octet) /\ Len(wire) \in Nat /\ n \in Nat
        /\ at \in B /\ (at = Len(wire) \/ at > n - 1) /\ Len(text) = at - 1
        /\ \A j \in 1 .. at - 1 : text[j] = Letter(wire, B, j + 1)
    BY DEF ReadTo
  <1>2. at \in 1 .. Len(wire)
    BY <1>1 DEF IsNameAt
  <1>3. l \in Octet /\ l \in Nat
    <2>1. \A octet \in Octet : octet \in Nat
      BY DEF Octet
    <2> QED
      BY <1>2, <2>1
  <1>4. CASE at = Len(wire)
    <2>1. t = s
      BY <1>4 DEF IsNameAt, ReadLabel
    <2> QED
      BY <1>1, <1>4, <2>1 DEF ReadTo
  <1>5. CASE at # Len(wire)
    <2>1. /\ l > 0 /\ at + l + 1 \in B /\ at > n - 1
          /\ \A j \in at + 1 .. at + l : j \notin B
      BY <1>1, <1>5 DEF IsNameAt
    <2> DEFINE label == SubSeq(wire, at + 1, at + l)
    <2>2. t = [text |-> text \o label \o <<Dot>>, at |-> at + l + 1]
      BY <2>1 DEF ReadLabel
    <2> HIDE DEF t, label, l, at, text
    <2>3. at + l + 1 \in 1 .. Len(wire)
      BY <2>1 DEF IsNameAt
    <2>4. label \in Seq(Octet) /\ Len(label) = l /\ \A i \in 1 .. l : label[i] = wire[at + i]
      <3> DEFINE m == at + 1
                 k == at + l
      <3>1. m \in 1 .. Len(wire) + 1 /\ k \in m - 1 .. Len(wire) /\ k - m + 1 = l
        BY <1>2, <1>3, <2>3
      <3>2. \A i \in Nat : m + i - 1 = at + i
        BY <1>1
      <3>3. label = SubSeq(wire, m, k)
        BY DEF label
      <3>4. \A i \in 1 .. l : i \in Nat
        BY <1>3
      <3> HIDE DEF m, k
      <3>5. /\ SubSeq(wire, m, k) \in Seq(Octet) /\ Len(SubSeq(wire, m, k)) = k - m + 1
            /\ \A i \in 1 .. k - m + 1 : SubSeq(wire, m, k)[i] = wire[m + i - 1]
        BY <3>1, Part
      <3> QED
        BY <3>1, <3>2, <3>3, <3>4, <3>5
    <2>5. <<Dot>> \in Seq(Octet) /\ Len(<<Dot>>) = 1 /\ <<Dot>>[1] = Dot
      <3>1. Dot \in Octet
        BY DEF Dot, Octet
      <3> QED
        BY <3>1, OneOctet
    <2> DEFINE p == text \o label
               d == p \o <<Dot>>
    <2>6. /\ p \in Seq(Octet) /\ Len(p) = at - 1 + l
          /\ \A j \in 1 .. at - 1 : p[j] = text[j]
          /\ \A j \in at .. at - 1 + l : p[j] = label[j - (at - 1)]
      <3>1. /\ text \o label \in Seq(Octet) /\ Len(text \o label) = Len(text) + Len(label)
            /\ \A i \in 1 .. Len(text) : (text \o label)[i] = text[i]
            /\ \A i \in Len(text) + 1 .. Len(text) + Len(label) :
                  (text \o label)[i] = label[i - Len(text)]
        BY <1>1, <2>4, Concatenation
      <3>2. Len(text) = at - 1 /\ Len(label) = l /\ (at - 1) + 1 = at
        BY <1>1, <2>4
      <3> QED
        BY <3>1, <3>2
    <2> HIDE DEF p
    <2>7. /\ d \in Seq(Octet) /\ Len(d) = at + l
          /\ \A j \in 1 .. at - 1 + l : d[j] = p[j]
          /\ d[at + l] = Dot
      <3>1. /\ p \o <<Dot>> \in Seq(Octet) /\ Len(p \o <<Dot>>) = Len(p) + Len(<<Dot>>)
            /\ \A i \in 1 .. Len(p) : (p \o <<Dot>>)[i] = p[i]
            /\ \A i \in Len(p) + 1 .. Len(p) + Len(<<Dot>>) :
                  (p \o <<Dot>>)[i] = <<Dot>>[i - Len(p)]
        BY <2>5, <2>6, Concatenation
      <3>2. /\ Len(p) + Len(<<Dot>>) = at + l /\ Len(p) + 1 = at + l
            /\ at + l \in at + l .. at + l /\ (at + l) - Len(p) = 1
        BY <1>1, <1>3, <2>5, <2>6
      <3> QED
        BY <2>5, <2>6, <3>1, <3>2
    <2> HIDE DEF d
    <2>8. ASSUME NEW j \in 1 .. at + l PROVE d[j] = Letter(wire, B, j + 1)
      <3>1. CASE j \in 1 .. at - 1
        <4>1. j \in 1 .. at - 1 + l
          BY <1>1, <1>3, <3>1
        <4> QED
          BY <1>1, <2>6, <2>7, <3>1, <4>1
      <3>2. CASE j \in at .. at - 1 + l
        <4>1. /\ j \in 1 .. at - 1 + l /\ j - (at - 1) \in 1 .. l
              /\ at + (j - (at - 1)) = j + 1 /\ j + 1 \in at + 1 .. at + l
          BY <1>1, <1>2, <1>3, <3>2
        <4>2. d[j] = wire[j + 1]
          BY <2>4, <2>6, <2>7, <3>2, <4>1
        <4> QED
          BY <2>1, <4>1, <4>2 DEF Letter
      <3>3. CASE j = at + l
        BY <2>1, <2>7, <3>3 DEF Letter
      <3>4. j \in 1 .. at - 1 \/ j \in at .. at - 1 + l \/ j = at + l
        BY <1>1, <1>3
      <3> QED
        BY <3>1, <3>2, <3>3, <3>4
    <2>9. t.text = d /\ t.at = at + l + 1 /\ t \in [text : Seq(Octet), at : Nat]
      <3>1. t = [text |-> d, at |-> at + l + 1]
        BY <2>2 DEF d, p
      <3>2. at + l + 1 \in Nat
        BY <1>1, <1>3
      <3> QED
        BY <2>7, <3>1, <3>2
    <2>10. at + l + 1 > n /\ (at + l + 1) - 1 = at + l
      BY <1>1, <1>3, <2>1
    <2> QED
      BY <2>1, <2>7, <2>8, <2>9, <2>10 DEF ReadTo, t
  <1> QED
    BY <1>4, <1>5

\* A function whose values follow the rounds of the loop as far as it is
\* known what these do.
LEMMA ReadUpTo ==
  ASSUME NEW wire \in Seq(Octet), NEW B, IsNameAt(wire, B),
         NEW f, f[0] = [text |-> << >>, at |-> 1],
         \A n \in 1 .. Len(wire) :
             ReadTo(wire, B, f[n - 1], n - 1) => f[n] = ReadLabel(wire, f[n - 1])
  PROVE  \A n \in 0 .. Len(wire) : ReadTo(wire, B, f[n], n)
  <1> DEFINE N == Len(wire)
             T == {n \in 0 .. N : ReadTo(wire, B, f[n], n)}
  <1>1. N \in Nat
    OBVIOUS
  <1>2. ReadTo(wire, B, f[0], 0)
    <2> DEFINE s == [text |-> << >>, at |-> 1]
    <2>1. s.text = << >> /\ s.at = 1 /\ s \in [text : Seq(Octet), at : Nat]
      OBVIOUS
    <2>2. 1 \in B
      BY DEF IsNameAt
    <2> HIDE DEF s
    <2>3. ReadTo(wire, B, s, 0)
      BY <1>1, <2>1, <2>2 DEF ReadTo
    <2> QED
      BY <2>3 DEF s
  <1>3. ASSUME NEW n \in 1 .. N, n - 1 \in T PROVE n \in T
    <2>1. ReadTo(wire, B, f[n - 1], n - 1)
      BY <1>3
    <2>2. ReadTo(wire, B, f[n], n)
      BY <2>1, ReadLabelKeeps
    <2> QED
      BY <1>1, <2>2
  <1>4. 0 \in T
    BY <1>1, <1>2
  <1> HIDE DEF N
  <1>5. \A n \in 0 .. N : n \in T
    <2> HIDE DEF T
    <2> QED
      BY <1>1, <1>3, <1>4, UpTo
  <1> QED
    BY <1>5 DEF N

\* The text parsed from a name has its letters, and dots between its labels.
THEOREM NameIsParsed ==
  ASSUME NEW wire \in Seq(Octet), NEW B, IsNameAt(wire, B)
  PROVE  /\ TextOf(wire) \in Seq(Octet)
         /\ Len(TextOf(wire)) = Len(wire) - 2
         /\ \A j \in 1 .. Len(wire) - 2 : TextOf(wire)[j] = Letter(wire, B, j + 1)
  <1> DEFINE N == Len(wire)
             z == [text |-> << >>, at |-> 1]
             IsLoop(g) == g = [n \in 0 .. N |->
                                 IF n = 0 THEN z ELSE ReadLabel(wire, g[n - 1])]
             Reached == [text : Seq(Octet), at : Nat]
             step == [p \in Reached \X (1 .. N) |-> ReadLabel(wire, p[1])]
             after == CHOOSE g : IsLoop(g)
  <1>1. N \in Nat
    OBVIOUS
  <1>2. \A g : IsLoop(g) => \A n \in 0 .. N : ReadTo(wire, B, g[n], n)
    <2> SUFFICES ASSUME NEW g, IsLoop(g) PROVE \A n \in 0 .. N : ReadTo(wire, B, g[n], n)
      OBVIOUS
    <2>1. g[0] = z
      BY <1>1
    <2>2. \A n \in 1 .. N : g[n] = ReadLabel(wire, g[n - 1])
      <3> TAKE n \in 1 .. N
      <3>1. n \in 0 .. N /\ n # 0
        BY <1>1
      <3> QED
        BY <3>1
    <2> QED
      BY <2>1, <2>2, ReadUpTo
  <1>3. \E g : IsLoop(g)
    <2> HIDE DEF z, step, N
    <2>1. PICK f : Iterates(f, N, z, step)
      BY <1>1, Recursion
    <2>2. /\ f = [n \in 0 .. N |-> f[n]] /\ f[0] = z
          /\ \A n \in 1 .. N : f[n] = step[<<f[n - 1], n>>]
      BY <2>1 DEF Iterates
    <2>3. \A n \in 1 .. N : n \in 0 .. N /\ n # 0
      BY <1>1
    <2>4. ASSUME NEW n \in 1 .. N, ReadTo(wire, B, f[n - 1], n - 1)
          PROVE  f[n] = ReadLabel(wire, f[n - 1])
      <3>1. f[n - 1] \in Reached
        BY <2>4 DEF ReadTo
      <3>2. step[<<f[n - 1], n>>] = ReadLabel(wire, f[n - 1])
        BY <3>1 DEF step
      <3> QED
        BY <2>2, <3>2
    <2>5. \A n \in 0 .. N : ReadTo(wire, B, f[n], n)
      BY <2>2, <2>4, ReadUpTo DEF z, N
    <2>6. \A n \in 1 .. N : n - 1 \in 0 .. N
      BY <1>1
    <2>7. \A n \in 1 .. N : f[n] = ReadLabel(wire, f[n - 1])
      BY <2>4, <2>5, <2>6
    <2>8. \A n \in 0 .. N : f[n] = IF n = 0 THEN z ELSE ReadLabel(wire, f[n - 1])
      <3> TAKE n \in 0 .. N
      <3>1. n = 0 \/ n \in 1 .. N
        BY <1>1
      <3> QED
        BY <2>2, <2>3, <2>7, <3>1
    <2>9. IsLoop(f)
      BY <2>2, <2>8
    <2> QED
      BY <2>9
  <1>4. IsLoop(after)
    <2> HIDE DEF IsLoop
    <2> QED
      BY <1>3
  <1> DEFINE s == after[N]
  <1>5. TextOf(wire) = SubSeq(s.text, 1, Len(s.text) - 1)
    BY DEF TextOf, Front
  <1> HIDE DEF after, IsLoop
  <1>6. ReadTo(wire, B, s, N)
    BY <1>1, <1>2, <1>4
  <1> HIDE DEF s
  <1>7. s.at = N
    <2>1. s.at \in 1 .. N
      BY <1>6 DEF ReadTo, IsNameAt
    <2> QED
      BY <1>1, <1>6, <2>1 DEF ReadTo
  <1>8. /\ s.text \in Seq(Octet) /\ Len(s.text) = N - 1 /\ N > 1
        /\ \A j \in 1 .. N - 1 : s.text[j] = Letter(wire, B, j + 1)
    BY <1>6, <1>7 DEF ReadTo, IsNameAt
  <1> DEFINE text == s.text
             k == N - 2
  <1>9. /\ Len(text) - 1 = k /\ k \in 1 - 1 .. Len(text) /\ 1 \in 1 .. Len(text) + 1
        /\ k - 1 + 1 = k /\ k \in Nat /\ \A j \in 1 .. k : 1 + j - 1 = j /\ j \in 1 .. N - 1
    BY <1>1, <1>8
  <1> HIDE DEF text, k
  <1>10. /\ SubSeq(text, 1, k) \in Seq(Octet) /\ Len(SubSeq(text, 1, k)) = k - 1 + 1
         /\ \A i \in 1 .. k - 1 + 1 : SubSeq(text, 1, k)[i] = text[1 + i - 1]
    <2>1. text \in Seq(Octet)
      BY <1>8 DEF text
    <2> QED
      BY <1>9, <2>1, Part
  <1>11. TextOf(wire) = SubSeq(text, 1, k)
    BY <1>5, <1>9 DEF text
  <1>12. \A j \in 1 .. k : text[1 + j - 1] = Letter(wire, B, j + 1)
    BY <1>8, <1>9 DEF text
  <1> QED
    BY <1>9, <1>10, <1>11, <1>12 DEF k

-----------------------------------------------------------------------------
(* A name in a question spells the text its lower-cased labels make.       *)

\* Every octet of a name but the last one is a label's length or letter.
LEMMA LabelsCover ==
  ASSUME NEW wire \in Seq(Octet), NEW B, IsNameAt(wire, B)
  PROVE  \A n \in 1 .. Len(wire) - 1 :
            \E k \in B : k <= n /\ n <= k + wire[k]
  <1> DEFINE N == Len(wire) - 1
             Covered(n) == \E k \in B : k <= n /\ n <= k + wire[k]
             T == {n \in 0 .. N : n = 0 \/ Covered(n)}
  <1>1. N \in Nat /\ Len(wire) = N + 1 /\ N > 0
    BY DEF IsNameAt
  <1>2. \A i \in B : i \in 1 .. N + 1 /\ wire[i] \in Nat
    <2>1. \A octet \in Octet : octet \in Nat
      BY DEF Octet
    <2>2. \A i \in 1 .. Len(wire) : wire[i] \in Octet
      OBVIOUS
    <2>3. \A i \in B : i \in 1 .. Len(wire)
      BY DEF IsNameAt
    <2> QED
      BY <1>1, <2>1, <2>2, <2>3
  <1>3. \A i \in B \ {N + 1} : i + wire[i] + 1 \in B
    BY <1>1 DEF IsNameAt
  <1>4. 1 \in B
    BY DEF IsNameAt
  <1> HIDE DEF N
  <1>5. ASSUME NEW n \in 1 .. N, n - 1 \in T PROVE n \in T
    <2>1. CASE n = 1
      <3>1. 1 <= n /\ n <= 1 + wire[1]
        BY <1>2, <1>4, <2>1
      <3> QED
        BY <1>4, <3>1
    <2>2. CASE n # 1
      <3>1. PICK k \in B : k <= n - 1 /\ n - 1 <= k + wire[k]
        BY <1>5, <2>2
      <3>2. /\ k \in Nat /\ wire[k] \in Nat /\ n \in Nat /\ k # N + 1
        BY <1>1, <1>2, <3>1
      <3>3. CASE n <= k + wire[k]
        <4>1. k <= n
          BY <3>1, <3>2
        <4> QED
          BY <3>3, <4>1
      <3>4. CASE ~(n <= k + wire[k])
        <4> DEFINE l == wire[k]
        <4>1. l \in Nat /\ n - 1 <= k + l /\ ~(n <= k + l)
          BY <3>1, <3>2, <3>4
        <4> HIDE DEF l
        <4>2. n = k + l + 1
          BY <3>2, <4>1
        <4>3. n \in B
          BY <1>3, <3>2, <4>2 DEF l
        <4>4. n <= n /\ n <= n + wire[n]
          BY <1>2, <3>2, <4>3
        <4> QED
          BY <4>3, <4>4
      <3> QED
        BY <3>3, <3>4
    <2> QED
      BY <2>1, <2>2
  <1>6. 0 \in T
    BY <1>1
  <1>7. \A n \in 0 .. N : n \in T
    <2> HIDE DEF T
    <2> QED
      BY <1>1, <1>5, <1>6, UpTo
  <1>8. \A n \in 1 .. N : n \in 0 .. N /\ n # 0
    BY <1>1
  <1>9. \A n \in 1 .. N : Covered(n)
    BY <1>7, <1>8
  <1> QED
    BY <1>9 DEF N

\* No letter of the text is an upper-case one.
LowerCased(text) == \A i \in 1 .. Len(text) : text[i] \notin 65 .. 90

\* A text is another one in lower case if its letters are.
LEMMA LowerCaseIs ==
  ASSUME NEW p \in Seq(Octet), NEW text \in Seq(Octet)
  PROVE  text = LowerCase(p) <=>
            Len(text) = Len(p) /\ \A j \in 1 .. Len(p) : text[j] = Lower(p[j])
  <1> DEFINE q == LowerCase(p)
  <1>1. q = [i \in 1 .. Len(p) |-> Lower(p[i])]
    BY DEF LowerCase
  <1>2. \A i \in 1 .. Len(p) : Lower(p[i]) \in Octet
    <2> TAKE i \in 1 .. Len(p)
    <2>1. p[i] \in Octet
      OBVIOUS
    <2> DEFINE o == p[i]
    <2> HIDE DEF o
    <2>2. o \in Octet => Lower(o) \in Octet
      BY DEF Lower, Octet
    <2> QED
      BY <2>1, <2>2 DEF o
  <1>3. q \in Seq(Octet) /\ Len(q) = Len(p) /\ \A j \in 1 .. Len(p) : q[j] = Lower(p[j])
    BY <1>1, <1>2
  <1> HIDE DEF q
  <1>4. ASSUME Len(text) = Len(p), \A j \in 1 .. Len(p) : text[j] = Lower(p[j])
        PROVE  text = q
    <2>1. \A j \in 1 .. Len(p) : text[j] = q[j]
      BY <1>3, <1>4
    <2> QED
      BY <1>3, <1>4, <2>1
  <1>5. text = q <=> Len(text) = Len(p) /\ \A j \in 1 .. Len(p) : text[j] = Lower(p[j])
    BY <1>3, <1>4
  <1> QED
    BY <1>5 DEF q

\* If a name spells a text, labels begin in both at the same places.
LEMMA LabelsOfSpelled ==
  ASSUME NEW wire \in Seq(Octet), NEW B, IsNameAt(wire, B), NEW text \in Seq(Octet),
         Len(wire) = Len(text) + 2,
         \A i \in 1 .. Len(text) + 1 : SpelledAt(text, i, wire[i])
  PROVE  \A i \in 1 .. Len(text) + 1 : i \in B <=> BeginsAt(text, i)
  <1> DEFINE N == Len(text) + 1
             Same(i) == i \in B <=> BeginsAt(text, i)
             T == {n \in 0 .. N : \A i \in 1 .. n : Same(i)}
  <1>1. N \in Nat /\ Len(wire) = N + 1
    OBVIOUS
  <1>2. \A i \in B : i \in 1 .. N + 1 /\ wire[i] \in Nat
    <2>1. \A octet \in Octet : octet \in Nat
      BY DEF Octet
    <2>2. \A i \in 1 .. Len(wire) : wire[i] \in Octet
      OBVIOUS
    <2>3. \A i \in B : i \in 1 .. Len(wire)
      BY DEF IsNameAt
    <2> QED
      BY <1>1, <2>1, <2>2, <2>3
  <1>3. \A i \in B \ {N + 1} : /\ i + wire[i] + 1 \in B
                               /\ \A j \in i + 1 .. i + wire[i] : j \notin B
    BY <1>1 DEF IsNameAt
  <1>4. \A n \in 1 .. N : \E k \in B : k <= n /\ n <= k + wire[k]
    <2>1. Len(wire) - 1 = N
      BY <1>1
    <2> QED
      BY <2>1, LabelsCover
  <1>5. \A i \in 1 .. N : BeginsAt(text, i) => LabelOf(text, i, wire[i])
    BY DEF SpelledAt
  <1>6. ASSUME NEW n \in 1 .. N, n - 1 \in T PROVE n \in T
    <2>1. \A i \in 1 .. n - 1 : Same(i)
      BY <1>6
    <2>2. Same(n)
      <3>1. CASE n = 1
        <4>1. 1 \in B
          BY DEF IsNameAt
        <4> QED
          BY <3>1, <4>1 DEF BeginsAt
      <3>2. CASE n # 1
        <4>1. n - 1 \in 1 .. N /\ n \in Nat
          BY <1>1, <3>2
        <4>2. PICK k \in B : k <= n - 1 /\ n - 1 <= k + wire[k]
          BY <1>4, <4>1
        <4> DEFINE l == wire[k]
        <4>3. /\ k \in Nat /\ l \in Nat /\ k \in 1 .. n - 1 /\ k \in 1 .. N /\ k # N + 1
              /\ n - 1 <= k + l
          BY <1>1, <1>2, <4>1, <4>2
        <4>4. BeginsAt(text, k)
          BY <2>1, <4>3
        <4>5. EndsAt(text, k + l) /\ \A j \in k .. k + l - 1 : ~EndsAt(text, j)
          BY <1>5, <4>3, <4>4 DEF LabelOf
        <4>6. k + l + 1 \in B /\ \A j \in k + 1 .. k + l : j \notin B
          BY <1>3, <4>3
        <4> HIDE DEF l, N
        <4>7. CASE n <= k + l
          <5>1. n \in k + 1 .. k + l /\ n - 1 \in k .. k + l - 1
            BY <4>1, <4>3, <4>7
          <5>2. n \notin B /\ ~EndsAt(text, n - 1)
            BY <4>5, <4>6, <5>1
          <5> QED
            BY <3>2, <5>2 DEF EndsAt, BeginsAt
        <4>8. CASE ~(n <= k + l)
          <5>1. n = k + l + 1 /\ n - 1 = k + l /\ n - 1 # N
            BY <1>1, <4>1, <4>3, <4>8
          <5>2. n \in B /\ EndsAt(text, n - 1)
            BY <4>5, <4>6, <5>1
          <5> QED
            BY <5>1, <5>2 DEF EndsAt, BeginsAt, N
        <4> QED
          BY <4>7, <4>8
      <3> QED
        BY <3>1, <3>2
    <2>3. \A i \in 1 .. n : i \in 1 .. n - 1 \/ i = n
      OBVIOUS
    <2>4. n \in 0 .. N
      BY <1>1
    <2> HIDE DEF Same, N
    <2> QED
      BY <2>1, <2>2, <2>3, <2>4
  <1>7. 0 \in T
    BY <1>1
  <1> HIDE DEF N
  <1>8. \A n \in 0 .. N : n \in T
    <2> HIDE DEF T
    <2> QED
      BY <1>1, <1>6, <1>7, UpTo
  <1>9. N \in T /\ N \in 0 .. N
    BY <1>1, <1>8
  <1>10. \A i \in 1 .. N : Same(i)
    BY <1>9
  <1> QED
    BY <1>10 DEF N

\* A name spells the registered text that is its parsed text in lower case,
\* and no other: the lookup finds a name however its letters are written.
THEOREM NameSpells ==
  ASSUME NEW wire \in Seq(Octet), IsName(wire), NEW text \in Seq(Octet), LowerCased(text)
  PROVE  Spells(wire, text) <=> text = LowerCase(TextOf(wire))
  <1> DEFINE M == Len(text)
             p == TextOf(wire)
  <1>1. PICK B : IsNameAt(wire, B)
    BY DEF IsName, IsNameAt
  <1>2. M \in Nat /\ \A i \in 1 .. M : text[i] \notin 65 .. 90
    BY DEF LowerCased
  <1>3. /\ p \in Seq(Octet) /\ Len(p) = Len(wire) - 2
        /\ \A j \in 1 .. Len(wire) - 2 : p[j] = Letter(wire, B, j + 1)
    BY <1>1, NameIsParsed
  <1> HIDE DEF p
  <1>4. text = LowerCase(p) <=> M = Len(p) /\ \A j \in 1 .. Len(p) : text[j] = Lower(p[j])
    BY <1>3, LowerCaseIs
  <1>5. \A i \in B : i \in 1 .. Len(wire) /\ wire[i] \in Nat
    <2>1. \A octet \in Octet : octet \in Nat
      BY DEF Octet
    <2>2. \A i \in 1 .. Len(wire) : wire[i] \in Octet
      OBVIOUS
    <2>3. \A i \in B : i \in 1 .. Len(wire)
      BY <1>1 DEF IsNameAt
    <2> QED
      BY <2>1, <2>2, <2>3
  <1>6. /\ 1 \in B /\ wire[Len(wire)] = 0
        /\ \A i \in B \ {Len(wire)} :
              /\ i + wire[i] + 1 \in B
              /\ \A j \in i + 1 .. i + wire[i] : j \notin B /\ wire[j] # Dot
    BY <1>1 DEF IsNameAt
  <1>7. Lower(Dot) = Dot
    BY DEF Lower, Dot
  <1>8. ASSUME Spells(wire, text) PROVE text = LowerCase(p)
    <2>1. /\ Len(wire) = M + 2
          /\ \A i \in 1 .. M + 1 : SpelledAt(text, i, wire[i])
      BY <1>8, SpellsIs
    <2>2. \A i \in 1 .. M + 1 : i \in B <=> BeginsAt(text, i)
      BY <1>1, <2>1, LabelsOfSpelled
    <2>3. Len(p) = M
      BY <1>2, <1>3, <2>1
    <2>4. ASSUME NEW j \in 1 .. M PROVE text[j] = Lower(p[j])
      <3>1. j + 1 \in 1 .. M + 1 /\ (j + 1) - 1 = j /\ j + 1 # 1 /\ j \in 1 .. Len(wire) - 2
        BY <1>2, <2>1
      <3>2. p[j] = Letter(wire, B, j + 1)
        BY <1>3, <3>1
      <3>3. CASE j + 1 \in B
        <4>1. text[j] = Dot
          BY <2>2, <3>1, <3>3 DEF BeginsAt
        <4> QED
          BY <1>7, <3>2, <3>3, <4>1 DEF Letter
      <3>4. CASE j + 1 \notin B
        <4> DEFINE o == wire[j + 1]
        <4>1. p[j] = o
          BY <3>2, <3>4 DEF Letter
        <4>2. o = text[j] \/ (o \in 65 .. 90 /\ o + 32 = text[j])
          BY <2>1, <2>2, <3>1, <3>4 DEF SpelledAt
        <4>3. text[j] \notin 65 .. 90
          BY <1>2
        <4> HIDE DEF o
        <4>4. text[j] = Lower(o)
          BY <4>2, <4>3 DEF Lower
        <4> QED
          BY <4>1, <4>4
      <3> QED
        BY <3>3, <3>4
    <2> QED
      BY <1>4, <2>3, <2>4
  <1>9. ASSUME text = LowerCase(p) PROVE Spells(wire, text)
    <2>1. Len(wire) = M + 2 /\ \A j \in 1 .. M : text[j] = Lower(Letter(wire, B, j + 1))
      <3>1. M = Len(wire) - 2 /\ \A j \in 1 .. M : text[j] = Lower(p[j])
        BY <1>3, <1>4, <1>9
      <3>2. Len(wire) \in Nat
        OBVIOUS
      <3> QED
        BY <1>2, <1>3, <3>1, <3>2
    <2>2. ASSUME NEW i \in 1 .. M + 1, i # 1
          PROVE  /\ i \in B => text[i - 1] = Dot
                 /\ i \notin B => /\ text[i - 1] = Lower(wire[i]) /\ text[i - 1] # Dot
                                  /\ wire[i] \in Octet
      <3>1. i - 1 \in 1 .. M /\ (i - 1) + 1 = i /\ i \in 1 .. Len(wire) /\ i \in Nat
        BY <1>2, <2>1, <2>2
      <3>2. text[i - 1] = Lower(Letter(wire, B, i))
        BY <2>1, <3>1
      <3>3. CASE i \in B
        BY <1>7, <3>2, <3>3 DEF Letter
      <3>4. CASE i \notin B
        <4>1. i - 1 \in 1 .. Len(wire) - 1 /\ i \in 1 .. Len(wire) - 1
          BY <1>2, <2>1, <3>1
        <4>2. PICK k \in B : k <= i /\ i <= k + wire[k]
          BY <1>1, <4>1, LabelsCover
        <4> DEFINE l == wire[k]
        <4>3. k \in Nat /\ l \in Nat /\ k # Len(wire) /\ k # i /\ k <= i /\ i <= k + l
          BY <1>5, <3>4, <4>1, <4>2
        <4> HIDE DEF l
        <4>4. i \in k + 1 .. k + l
          BY <3>1, <4>3
        <4>5. wire[i] # Dot
          BY <1>6, <4>3, <4>4 DEF l
        <4>6. wire[i] \in Octet /\ text[i - 1] = Lower(wire[i])
          BY <3>1, <3>2, <3>4 DEF Letter
        <4> DEFINE o == wire[i]
        <4> HIDE DEF o
        <4>7. o \in Octet /\ o # Dot => Lower(o) # Dot
          BY DEF Lower, Dot, Octet
        <4> QED
          BY <3>4, <4>5, <4>6, <4>7 DEF o
      <3> QED
        BY <3>3, <3>4
    <2>3. ASSUME NEW i \in 1 .. M + 1 PROVE i \in B <=> BeginsAt(text, i)
      BY <1>6, <2>2 DEF BeginsAt
    <2>4. ASSUME NEW i \in 1 .. M + 1 PROVE SpelledAt(text, i, wire[i])
      <3>1. CASE i \in B
        <4> DEFINE e == i + wire[i]
        <4>1. i \in Nat /\ wire[i] \in Nat /\ i # Len(wire)
          BY <1>2, <1>5, <2>1, <3>1
        <4>2. e + 1 \in B /\ \A j \in i + 1 .. e : j \notin B
          BY <1>6, <3>1, <4>1
        <4>3. e \in Nat /\ e + 1 \in 1 .. M + 2 /\ i <= e /\ e # 0
          BY <1>5, <2>1, <4>1, <4>2
        <4> HIDE DEF e
        <4>4. e <= M + 1
          BY <1>2, <4>3
        <4>5. EndsAt(text, e)
          <5>1. CASE e = M + 1
            BY <5>1 DEF EndsAt
          <5>2. CASE e # M + 1
            <6>1. e + 1 \in 1 .. M + 1 /\ e + 1 # 1 /\ (e + 1) - 1 = e
              BY <1>2, <4>3, <4>4, <5>2
            <6>2. text[(e + 1) - 1] = Dot
              BY <2>2, <4>2, <6>1
            <6> QED
              BY <6>1, <6>2 DEF EndsAt
          <5> QED
            BY <5>1, <5>2
        <4>6. ASSUME NEW j \in i .. e - 1 PROVE ~EndsAt(text, j)
          <5>1. /\ j + 1 \in i + 1 .. e /\ j + 1 \in 1 .. M + 1 /\ j + 1 # 1
                /\ (j + 1) - 1 = j /\ j # M + 1
            BY <1>2, <4>1, <4>3, <4>4
          <5>2. text[(j + 1) - 1] # Dot
            BY <2>2, <4>2, <5>1
          <5> QED
            BY <5>1, <5>2 DEF EndsAt
        <4>7. BeginsAt(text, i)
          BY <2>3, <3>1
        <4>8. LabelOf(text, i, wire[i])
          <5>1. EndsAt(text, i + wire[i])
            BY <4>5 DEF e
          <5>2. \A j \in i .. i + wire[i] - 1 : ~EndsAt(text, j)
            <6>1. e - 1 = i + wire[i] - 1
              BY <4>1 DEF e
            <6> QED
              BY <4>6, <6>1
          <5> QED
            BY <5>1, <5>2 DEF LabelOf
        <4> QED
          BY <4>4, <4>7, <4>8 DEF SpelledAt, e
      <3>2. CASE i \notin B
        <4>1. i # 1 /\ ~BeginsAt(text, i)
          BY <1>6, <2>3, <3>2
        <4>2. text[i - 1] = Lower(wire[i]) /\ wire[i] \in Octet
          BY <2>2, <3>2, <4>1
        <4> DEFINE o == wire[i]
        <4> HIDE DEF o
        <4>3. Lower(o) = o \/ (o \in 65 .. 90 /\ Lower(o) = o + 32)
          BY DEF Lower
        <4>4. o = text[i - 1] \/ (o \in 65 .. 90 /\ o + 32 = text[i - 1])
          BY <4>2, <4>3 DEF o
        <4> QED
          BY <4>1, <4>4 DEF SpelledAt, o
      <3> QED
        BY <3>1, <3>2
    <2> QED
      BY <1>6, <2>1, <2>4, SpellsIs
  <1> QED
    BY <1>8, <1>9 DEF p

-----------------------------------------------------------------------------
(* The frames under way and the answers.                                   *)

\* A frame for DNet has the checksum of what a client asked, whatever its data
\* have become.
Sent(f) ==
    \E r \in Requests :
        f = [client |-> r.client, service |-> r.service, data |-> f.data,
             summed |-> r.data, header |-> f.header]

\* An answer is that to a request as it was sent.
Replied(a) == \E r \in Requests : BodyAccepted(Frame(r)) /\ a = Reply(Frame(r))

Inv ==
    /\ \A f \in toDnet : Sent(f)
    /\ \A a \in toClients : Replied(a)
    /\ \A a \in received : Replied(a)

\* A frame a service accepts is the frame of a request: its data are those
\* the checksum was computed over.
LEMMA AcceptedIsSent ==
  ASSUME NEW f, Sent(f), HeaderAccepted(f), BodyAccepted(f)
  PROVE  Replied(Reply(f))
  <1>1. PICK r \in Requests :
           f = [client |-> r.client, service |-> r.service, data |-> f.data,
                summed |-> r.data, header |-> f.header]
    BY DEF Sent
  <1>2. f.summed = f.data /\ f.header = "ok"
    BY DEF HeaderAccepted, BodyAccepted
  <1>3. f.summed = r.data
    BY <1>1
  <1>4. f = Frame(r)
    BY <1>1, <1>2, <1>3 DEF Frame
  <1> QED
    BY <1>4 DEF Replied

\* The invariant holds at first and is kept by every step.
LEMMA SentAndReplied == Spec => []Inv
  <1>1. Init => Inv
    BY DEF Init, Inv
  <1>2. Inv /\ [Next]_vars => Inv'
    <2> SUFFICES ASSUME Inv, [Next]_vars PROVE Inv'
      OBVIOUS
    <2> USE DEF Inv
    <2>1. ASSUME NEW r \in Requests, Ask(r) PROVE Inv'
      <3>1. Sent(Frame(r))
        BY DEF Sent, Frame
      <3> QED
        BY <2>1, <3>1 DEF Ask
    <2>2. ASSUME NEW f \in toDnet, Serve(f) PROVE Inv'
      <3>1. Replied(Reply(f))
        BY <2>2, AcceptedIsSent DEF Serve
      <3>2. toClients' \subseteq toClients \cup {Reply(f)}
        BY <2>2 DEF Serve, L3Send
      <3> QED
        BY <2>2, <3>1, <3>2 DEF Serve
    <2>3. ASSUME NEW f \in toDnet, DropFrame(f) PROVE Inv'
      BY <2>3 DEF DropFrame
    <2>4. ASSUME NEW f \in toDnet, Damage(f) PROVE Inv'
      <3>1. PICK r \in Requests :
               f = [client |-> r.client, service |-> r.service, data |-> f.data,
                    summed |-> r.data, header |-> f.header]
        BY <2>4 DEF Sent
      <3>2. CASE toDnet' = (toDnet \ {f}) \cup {[f EXCEPT !.header = "bad"]}
        <4> DEFINE g == [f EXCEPT !.header = "bad"]
        <4>1. g = [client |-> r.client, service |-> r.service, data |-> g.data,
                   summed |-> r.data, header |-> g.header]
          BY <3>1
        <4> HIDE DEF g
        <4>2. Sent(g)
          BY <4>1 DEF Sent
        <4>3. \A e \in toDnet' : e \in toDnet \/ e = g
          BY <3>2 DEF g
        <4> QED
          BY <2>4, <4>2, <4>3 DEF Damage
      <3>3. ASSUME NEW d \in Damaged, toDnet' = (toDnet \ {f}) \cup {[f EXCEPT !.data = d.data]}
            PROVE  Inv'
        <4> DEFINE g == [f EXCEPT !.data = d.data]
        <4>1. g = [client |-> r.client, service |-> r.service, data |-> g.data,
                   summed |-> r.data, header |-> g.header]
          BY <3>1
        <4> HIDE DEF g
        <4>2. Sent(g)
          BY <4>1 DEF Sent
        <4>3. \A e \in toDnet' : e \in toDnet \/ e = g
          BY <3>3 DEF g
        <4> QED
          BY <2>4, <4>2, <4>3 DEF Damage
      <3> QED
        BY <2>4, <3>2, <3>3 DEF Damage
    <2>5. ASSUME NEW f \in toDnet, Lose(f) PROVE Inv'
      BY <2>5 DEF Lose
    <2>6. ASSUME NEW c \in Clients, Resolve(c) PROVE Inv'
      BY <2>6 DEF Resolve
    <2>7. ASSUME NEW c \in Clients, Expire(c) PROVE Inv'
      BY <2>7 DEF Expire
    <2>8. ASSUME NEW a \in toClients, GetAnswer(a) PROVE Inv'
      BY <2>8 DEF GetAnswer
    <2>9. CASE UNCHANGED vars
      BY <2>9 DEF vars
    <2> QED
      BY <2>1, <2>2, <2>3, <2>4, <2>5, <2>6, <2>7, <2>8, <2>9 DEF Next
  <1> QED
    BY <1>1, <1>2, PTL DEF Spec

-----------------------------------------------------------------------------
(* The echoes.                                                             *)

\* What the wire makes of data: the data, and padding behind them.
LEMMA Padded ==
  ASSUME NEW S, NEW data \in Seq(S)
  PROVE  /\ EchoedFor(data, OnTheWire(data))
         /\ Len(data) = Len(OnTheWire(data)) => OnTheWire(data) = data
  <1> DEFINE N == Len(data)
             M == IF N < MinData THEN MinData ELSE N
             wire == OnTheWire(data)
  <1>1. N \in Nat /\ M \in Nat /\ N <= M
    BY ServicesAssumption
  <1>2. wire = [i \in 1 .. M |-> IF i <= N THEN data[i] ELSE Pad]
    BY DEF OnTheWire
  <1> HIDE DEF wire, M
  <1>3. wire \in Seq(S \cup {Pad})
    <2>1. \A i \in 1 .. M : i <= N => i \in 1 .. N
      BY <1>1
    <2>2. \A i \in 1 .. N : data[i] \in S
      OBVIOUS
    <2>3. wire \in [1 .. M -> S \cup {Pad}]
      BY <1>2, <2>1, <2>2
    <2> QED
      BY <1>1, <2>3
  <1>4. Len(wire) = M
    BY <1>1, <1>2, <1>3
  <1>5. \A i \in 1 .. N : wire[i] = data[i]
    <2>1. \A i \in 1 .. N : i \in 1 .. M /\ i <= N
      BY <1>1
    <2> QED
      BY <1>2, <2>1
  <1>6. \A i \in N + 1 .. M : wire[i] = Pad
    <2>1. \A i \in N + 1 .. M : i \in 1 .. M /\ ~(i <= N)
      BY <1>1
    <2> QED
      BY <1>2, <2>1
  <1>7. SubSeq(data, 1, N) = SubSeq(wire, 1, N)
    <2>1. SubSeq(data, 1, N) = [i \in 1 .. N |-> data[i]]
      BY <1>1
    <2>2. SubSeq(wire, 1, N) = [i \in 1 .. N |-> wire[i]]
      BY <1>1, <1>3, <1>4
    <2> QED
      BY <1>5, <2>1, <2>2
  <1>8. IsPrefix(data, wire)
    BY <1>1, <1>4, <1>7 DEF IsPrefix
  <1>9. EchoedFor(data, wire)
    BY <1>4, <1>6, <1>8 DEF EchoedFor
  <1>10. N = Len(wire) => wire = data
    BY <1>3, <1>5
  <1> QED
    BY <1>9, <1>10 DEF wire

\* Every echo a client has is that of something it sent, whatever was damaged
\* on the way, and no datagram is echoed with padding (ICMP.cpp:15,
\* UDP.cpp:16, UDP.cpp:35).
THEOREM EchoesCorrect == Spec => []EchoesAreRight
  <1>1. Inv => EchoesAreRight
    <2> SUFFICES ASSUME Inv, NEW a \in received, a.service # "DNS"
                 PROVE  \E r \in Requests :
                           /\ r.client = a.client /\ r.service = a.service
                           /\ IF r.service = "ICMP" THEN EchoedFor(r.data, a.data)
                                                    ELSE a.data = Upper(r.data)
      BY DEF EchoesAreRight
    <2>1. PICK r \in Requests : BodyAccepted(Frame(r)) /\ a = Reply(Frame(r))
      BY DEF Inv, Replied
    <2>2. a.client = r.client /\ a.service = r.service
      BY <2>1 DEF Reply, Frame
    <2>3. r.service \in {"ICMP", "UDP"} /\ r.data \in Seq(DOMAIN UpperCase)
      BY <2>2, ServicesAssumption
    <2>4. CASE r.service = "ICMP"
      <3>1. a.data = OnTheWire(r.data)
        BY <2>1, <2>4 DEF Reply, Frame
      <3>2. EchoedFor(r.data, a.data)
        BY <2>3, <3>1, Padded
      <3> QED
        BY <2>2, <2>4, <3>2
    <2>5. CASE r.service = "UDP"
      <3>1. a.data = Upper(OnTheWire(r.data)) /\ Len(r.data) = Len(OnTheWire(r.data))
        BY <2>1, <2>5 DEF Reply, Frame, BodyAccepted
      <3>2. OnTheWire(r.data) = r.data
        BY <2>3, <3>1, Padded
      <3> QED
        BY <2>2, <2>5, <3>1, <3>2
    <2> QED
      BY <2>3, <2>4, <2>5
  <1> QED
    BY <1>1, SentAndReplied, PTL

-----------------------------------------------------------------------------
(* The answers to queries.                                                 *)

\* The record the multimap has for a registered one.
Stored(r) == IF r.type = "CNAME" THEN [r EXCEPT !.rdata = EncodeName(@)] ELSE r

\* A stored record keeps the type and the name, and carries the data.
LEMMA StoredCarries ==
  ASSUME NEW r \in Registered
  PROVE  Stored(r).type = r.type /\ Stored(r).name = r.name /\ Carries(Stored(r), r)
  <1>1. /\ r \in [type : STRING, name : Seq(Octet), rdata : Seq(Octet)]
        /\ r.type = "CNAME" => r.rdata \in Texts
    BY RegisteredAssumption DEF Texts
  <1>2. CASE r.type = "CNAME"
    <2> DEFINE a == [r EXCEPT !.rdata = EncodeName(@)]
    <2>1. Stored(r) = a
      BY <1>2 DEF Stored
    <2>2. a.type = r.type /\ a.name = r.name /\ a.rdata = EncodeName(r.rdata)
      BY <1>1
    <2>3. Spells(EncodeName(r.rdata), r.rdata)
      BY <1>1, <1>2, AliasIsSpelled
    <2> HIDE DEF a
    <2> QED
      BY <1>2, <2>1, <2>2, <2>3 DEF Carries
  <1>3. CASE r.type # "CNAME"
    BY <1>3 DEF Stored, Carries
  <1> QED
    BY <1>2, <1>3

\* What is found under a name carries registered records of that name and
\* type, each of them.
LEMMA FoundCarries ==
  ASSUME NEW type, NEW name
  PROVE  /\ \A a \in EqualRange(type, name) :
               /\ a.type = type
               /\ \E r \in Registered : r.name = name /\ Carries(a, r)
         /\ \A r \in Registered :
               r.name = name /\ r.type = type => \E a \in EqualRange(type, name) : Carries(a, r)
  <1>1. Records = {Stored(r) : r \in Registered}
    BY DEF Records, Stored
  <1>2. EqualRange(type, name) = {a \in Records : a.type = type /\ a.name = name}
    BY DEF EqualRange
  <1>3. ASSUME NEW a \in EqualRange(type, name)
        PROVE  a.type = type /\ \E r \in Registered : r.name = name /\ Carries(a, r)
    <2>1. a \in Records /\ a.type = type /\ a.name = name
      BY <1>2
    <2>2. PICK r \in Registered : a = Stored(r)
      BY <1>1, <2>1
    <2> QED
      BY <2>1, <2>2, StoredCarries
  <1>4. ASSUME NEW r \in Registered, r.name = name, r.type = type
        PROVE  \E a \in EqualRange(type, name) : Carries(a, r)
    <2>1. Stored(r) \in EqualRange(type, name)
      BY <1>1, <1>2, <1>4, StoredCarries
    <2> QED
      BY <2>1, StoredCarries
  <1> QED
    BY <1>3, <1>4

\* The registered records a name spells are those with its text in lower case.
LEMMA AskedIs ==
  ASSUME NEW q \in Queries, IsQuery(q)
  PROVE  Asked[q] = {r \in Registered : r.name = LowerCase(TextOf(q.qname))}
  <1>1. Asked[q] = {r \in Registered : Spells(q.qname, r.name)}
    BY DEF Asked
  <1>2. q.qname \in Seq(Octet) /\ IsName(q.qname)
    BY DEF IsQuery
  <1>3. ASSUME NEW r \in Registered
        PROVE  Spells(q.qname, r.name) <=> r.name = LowerCase(TextOf(q.qname))
    <2>1. r.name \in Seq(Octet) /\ \A i \in DOMAIN r.name : r.name[i] \notin 65 .. 90
      BY RegisteredAssumption
    <2>2. LowerCased(r.name)
      BY <2>1 DEF LowerCased
    <2> QED
      BY <1>2, <2>1, <2>2, NameSpells
  <1> QED
    BY <1>1, <1>3

\* The response to a query the server accepts answers it: with the records of
\* the type, with the alias when there are none, or with nothing.
LEMMA ResponseAnswers ==
  ASSUME NEW q \in Queries, IsQuery(q), q.qr = 0
  PROVE  AnswersQuery(q, DnsResponse(q))
  <1> DEFINE name == LowerCase(TextOf(q.qname))
             asked == {r \in Registered : r.name = name}
             records == RecordsFor(q)
             found == EqualRange(q.qtype, name)
             aliases == EqualRange("CNAME", name)
             response == DnsResponse(q)
  <1>1. Asked[q] = asked
    BY AskedIs
  <1>2. records = IF found # {} THEN found ELSE aliases
    BY DEF RecordsFor
  <1>3. /\ \A a \in found : a.type = q.qtype /\ \E r \in asked : Carries(a, r)
        /\ \A r \in asked : r.type = q.qtype => \E a \in found : Carries(a, r)
    BY FoundCarries
  <1>4. /\ \A a \in aliases : a.type = "CNAME" /\ \E r \in asked : Carries(a, r)
        /\ \A r \in asked : r.type = "CNAME" => \E a \in aliases : Carries(a, r)
    BY FoundCarries
  <1>5. /\ response.qr = 1 /\ response.qname = q.qname /\ response.qtype = q.qtype
        /\ response.answers = records
    <2>1. q.answers = {} /\ q \in [qr : 0 .. 1, rcode : STRING, aa : BOOLEAN, qdcount : Nat,
             qname : Seq(Octet), qtype : STRING, qclass : STRING,
             answers : {{}}, additional : SUBSET {"OPT"}]
      BY DEF IsQuery
    <2>2. CASE records = {}
      <3>1. response = [q EXCEPT !.qr = 1, !.rcode = "NOERROR"]
        BY <2>2 DEF DnsResponse
      <3> HIDE DEF response, records
      <3> QED
        BY <2>1, <2>2, <3>1
    <2>3. CASE records # {}
      <3>1. response = [q EXCEPT !.qr = 1, !.aa = TRUE, !.answers = records, !.additional = {}]
        BY <2>3 DEF DnsResponse
      <3> HIDE DEF response, records
      <3> QED
        BY <2>1, <3>1
    <2> QED
      BY <2>2, <2>3
  <1> HIDE DEF name, asked, records, found, aliases, response
  <1> DEFINE ofType == {r \in asked : r.type = q.qtype}
             alias == {r \in asked : r.type = "CNAME"}
  <1>6. \A a \in found : \E r \in ofType : Carries(a, r)
    BY <1>3 DEF Carries
  <1>7. \A r \in ofType : \E a \in found : Carries(a, r)
    BY <1>3
  <1>8. \A a \in aliases : \E r \in alias : Carries(a, r)
    BY <1>4 DEF Carries
  <1>9. \A r \in alias : \E a \in aliases : Carries(a, r)
    BY <1>4
  <1>10. found # {} <=> ofType # {}
    BY <1>6, <1>7
  <1>11. Expected(q) = IF ofType # {} THEN ofType ELSE alias
    BY <1>1 DEF Expected
  <1> HIDE DEF ofType, alias
  <1>12. /\ \A a \in records : \E r \in Expected(q) : Carries(a, r)
         /\ \A r \in Expected(q) : \E a \in records : Carries(a, r)
    <2>1. CASE ofType # {}
      BY <2>1, <1>2, <1>6, <1>7, <1>10, <1>11
    <2>2. CASE ofType = {}
      BY <2>2, <1>2, <1>8, <1>9, <1>10, <1>11
    <2> QED
      BY <2>1, <2>2
  <1>13. AnswersQuery(q, response)
    BY <1>5, <1>12 DEF AnswersQuery
  <1> QED
    BY <1>13 DEF response

\* Every response a client has answers one of its queries, however the name
\* was spelled in it (DNS.cpp:24-43), with all records of the type and no
\* others, with the alias only when there are none (DNS.cpp:47-52), and with
\* the registered alias, label by label (DNS.h:43-56).
THEOREM DnsCorrect == Spec => []DnsAnswersAreRight
  <1>1. Inv => DnsAnswersAreRight
    <2> SUFFICES ASSUME Inv, NEW a \in received, a.service = "DNS"
                 PROVE  \E r \in Requests :
                           r.client = a.client /\ r.service = "DNS" /\ AnswersQuery(r.data, a.data)
      BY DEF DnsAnswersAreRight
    <2>1. PICK r \in Requests : BodyAccepted(Frame(r)) /\ a = Reply(Frame(r))
      BY DEF Inv, Replied
    <2>2. a.client = r.client /\ r.service = "DNS"
      BY <2>1 DEF Reply, Frame
    <2>3. r.data \in Queries
      BY <2>2 DEF Queries
    <2>4. IsQuery(r.data)
      BY <2>2, ServicesAssumption
    <2>5. r.data.qr = 0
      BY <2>1, <2>2 DEF BodyAccepted, Frame, DnsAccepts
    <2>6. a.data = DnsResponse(r.data)
      BY <2>1, <2>2, <2>3 DEF Reply, Frame, Answers
    <2> QED
      BY <2>2, <2>3, <2>4, <2>5, <2>6, ResponseAnswers
  <1> QED
    BY <1>1, SentAndReplied, PTL
=============================================================================
