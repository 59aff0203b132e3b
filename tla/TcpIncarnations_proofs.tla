------------------------ MODULE TcpIncarnations_proofs ------------------------
(***************************************************************************)
(* Theorems about TcpIncarnations, for any number of incarnations, lives   *)
(* of DNet, tuples and bytes, and any network that keeps, repeats and      *)
(* reorders every segment: what an old segment can do to a connection.     *)
(***************************************************************************)
EXTENDS TcpIncarnations, TLAPS

PeerStates == {"CLOSED", "SYN_SENT", "ESTABLISHED", "FIN_WAIT"}

Segments ==
    [tuple : Tuples, flags : SUBSET {"SYN", "ACK", "FIN", "RST"},
     seq : SeqNo, ack : SeqNo, off : Nat, len : Nat]

Replies == [tuple : Tuples, flags : SUBSET Flags, seq : SeqNo, ack : SeqNo]

Agreements == [inc : Nat, iss : SeqNo]

TypeOK ==
    /\ TcpTypeOK
    /\ peer   \in [Tuples -> PeerStates]
    /\ inc    \in [Tuples -> Nat]
    /\ \A t \in Tuples : peer[t] # "CLOSED" => inc[t] \in Incarnations
    /\ irs    \in [Tuples -> SeqNo]
    /\ acked  \in [Tuples -> 0 .. StreamLen]
    /\ sent   \in [Tuples -> 0 .. StreamLen]
    /\ agreed \in [Tuples -> SUBSET Agreements]
    /\ toServer \subseteq Segments /\ toPeer \subseteq Replies
    /\ restarts \in 0 .. MaxRestarts

IsConnected(t) == peer[t] \in {"ESTABLISHED", "FIN_WAIT"}

\* The incarnations so far, the numbers DNet has chosen in its lives so far,
\* and the one of its present life.
SoFar(t) == 1 .. inc[t]

Chosen == {IssOf[i] : i \in 0 .. restarts}

Own == IssOf[restarts]

\* What a peer agreed on: one of its incarnations, with a number of some life
\* of DNet; what it believes in, it agreed on.
PeerInv(t) ==
    /\ SoFar(t) \subseteq Incarnations
    /\ \A a \in agreed[t] : a.inc \in SoFar(t) /\ a.iss \in Chosen
    /\ IsConnected(t) => /\ [inc |-> inc[t], iss |-> irs[t]] \in agreed[t]
                         /\ acked[t] <= sent[t]
    /\ peer[t] = "SYN_SENT" => inc[t] \in SoFar(t) /\ acked[t] = 0 /\ sent[t] = 0

\* A segment with its bytes, its FIN or its RST behind n bytes of the stream
\* that the agreement a is about.
IsBehind(s, a, n) ==
    /\ n \in 0 .. StreamLen /\ n + s.len <= StreamLen
    /\ s.seq = SeqAdd(IsnOf[a.inc], n + 1)
    /\ s.ack = SeqAdd(a.iss, 1)
    /\ s.off = Base(a.inc) + n
    /\ a.inc = inc[s.tuple] => n + s.len <= sent[s.tuple]

\* Every segment that a peer ever sent is a SYN of an incarnation, a reset
\* that answers what it cannot place, or was sent under an agreement.
SegmentInv(s) ==
    \/ /\ s.flags = {"SYN"} /\ s.len = 0
       /\ \E k \in SoFar(s.tuple) : s.seq = IsnOf[k]
    \/ s.flags = {"RST"} /\ s.len = 0
    \/ /\ "SYN" \notin s.flags
       /\ \E a \in agreed[s.tuple], n \in 0 .. StreamLen : IsBehind(s, a, n)

\* Every reply carries a number that DNet chose in some life.
ReplyInv(r) ==
    IF "SYN" \in r.flags THEN r.seq \in Chosen
    ELSE \E i \in Chosen : r.seq = SeqAdd(i, 1)

\* Whether a reply is of DNet's present life.
Recent(r) == r.seq = IF "SYN" \in r.flags THEN Own ELSE SeqAdd(Own, 1)

\* A tuple that DNet knows nothing of in this life: nobody has heard of it.
Unknown(t) ==
    /\ rcvbuf[t] = << >>
    /\ \A r \in toPeer : r.tuple = t => ~Recent(r)
    /\ \A a \in agreed[t] : a.iss # Own

\* A connection of incarnation k of which n bytes have been received, stored
\* as far as there was room: all that DNet has answered in this life, and all
\* that was agreed on with it, is about that incarnation and no later byte.
ConnectedTo(t, k, n) ==
    /\ rcv_nxt[t] = SeqAdd(IsnOf[k], n + 1)
    /\ snd_nxt[t] = SeqAdd(Own, 1)
    /\ Len(rcvbuf[t]) = IF n <= MaxBytes THEN n ELSE MaxBytes
    /\ \A i \in 1 .. Len(rcvbuf[t]) : rcvbuf[t][i] = Base(k) + i
    /\ state[t] = "SYN_RECVED" => n = 0
    /\ k = inc[t] => n <= sent[t]
    /\ IsConnected(t) /\ irs[t] = Own => acked[t] <= n
    /\ \A a \in agreed[t] : a.iss = Own => a.inc = k
    /\ \A r \in toPeer : r.tuple = t /\ Recent(r) =>
          \E m \in 0 .. n : /\ r.ack = SeqAdd(IsnOf[k], m + 1)
                            /\ "SYN" \in r.flags => m = 0

ServerInv(t) ==
    /\ state[t] = "ABSENT" => Unknown(t)
    /\ state[t] # "ABSENT" =>
          \E k \in SoFar(t), n \in 0 .. StreamLen : ConnectedTo(t, k, n)
    /\ state[t] = "ESTABLISHED" => \E a \in agreed[t] : a.iss = Own

TupleInv(t) ==
    /\ PeerInv(t) /\ ServerInv(t)
    /\ \A s \in toServer : s.tuple = t => SegmentInv(s)
    /\ \A r \in toPeer : r.tuple = t => ReplyInv(r)

IncarnationsInv == \A t \in Tuples : TupleInv(t)

-----------------------------------------------------------------------------
(* What the payload of a segment is, and what writeAll keeps of it.        *)

\* The sum of two sequence numbers is a sequence number.
LEMMA SeqAddType == \A a, n \in Nat : SeqAdd(a, n) \in SeqNo
  BY SeqModAssumption, SMT DEF SeqAdd, SeqNo

\* Sequence numbers are naturals, zero among them.
LEMMA SeqNoNat == SeqNo \subseteq Nat /\ 0 \in SeqNo
  BY SeqModAssumption, SMT DEF SeqNo

\* The payload on_recv takes from a segment: a sequence of octets as long as
\* payload_size, which is a natural number.
LEMMA PayloadType ==
  ASSUME NEW s, s.off \in Nat, s.len \in Nat
  PROVE  /\ PayloadSize(s) \in Nat
         /\ Payload(s) \in Seq(Nat)
         /\ Len(Payload(s)) = PayloadSize(s)
         /\ \A i \in 1 .. PayloadSize(s) :
                Payload(s)[i] = IF i <= s.len THEN s.off + i ELSE PadOctet
  <1>1. PayloadSize(s) \in Nat
    BY MinPayloadAssumption DEF PayloadSize, Max2
  <1> QED
    BY <1>1 DEF Payload, PadOctet

\* Appending to a sequence keeps what it holds and puts the rest behind it.
LEMMA ConcatKeeps ==
  ASSUME NEW q \in Seq(Nat), NEW e \in Seq(Nat)
  PROVE  /\ q \o e \in Seq(Nat)
         /\ Len(q \o e) = Len(q) + Len(e)
         /\ \A i \in 1 .. Len(q) : (q \o e)[i] = q[i]
         /\ \A i \in Len(q) + 1 .. Len(q \o e) : (q \o e)[i] = e[i - Len(q)]
  OBVIOUS

\* writeAll keeps what the buffer holds, adds the first bytes of the segment,
\* and never holds more than MaxBytes.
LEMMA WriteAllKeeps ==
  ASSUME NEW q \in Seq(Nat), NEW d \in Seq(Nat), Len(q) <= MaxBytes
  PROVE  /\ WriteAllTo(q, d) \in Seq(Nat)
         /\ Len(WriteAllTo(q, d)) <= MaxBytes
         /\ Len(WriteAllTo(q, d)) >= Len(q)
         /\ \A i \in 1 .. Len(q) : WriteAllTo(q, d)[i] = q[i]
         /\ Fits(q, Len(d)) =>
              /\ Len(WriteAllTo(q, d)) = Len(q) + Stored(q, Len(d))
              /\ \A i \in Len(q) + 1 .. Len(WriteAllTo(q, d)) :
                     WriteAllTo(q, d)[i] = d[i - Len(q)]
  <1>1. /\ Stored(q, Len(d)) \in Nat
        /\ Stored(q, Len(d)) <= Len(d)
        /\ Len(q) + Stored(q, Len(d)) <= MaxBytes
    BY BufferSizeAssumption DEF Stored, MaxBytes
  <1> DEFINE e == SubSeq(d, 1, Stored(q, Len(d)))
  <1>2. /\ e \in Seq(Nat)
        /\ Len(e) = Stored(q, Len(d))
        /\ \A i \in 1 .. Len(e) : e[i] = d[i]
    BY <1>1
  <1>3. CASE Fits(q, Len(d))
    <2>1. WriteAllTo(q, d) = q \o e
      BY <1>3 DEF WriteAllTo
    <2> HIDE DEF e
    <2>2. /\ q \o e \in Seq(Nat)
          /\ Len(q \o e) = Len(q) + Len(e)
          /\ \A i \in 1 .. Len(q) : (q \o e)[i] = q[i]
          /\ \A i \in Len(q) + 1 .. Len(q \o e) : (q \o e)[i] = e[i - Len(q)]
      BY <1>2, ConcatKeeps
    <2>3. \A i \in Len(q) + 1 .. Len(q \o e) : (q \o e)[i] = d[i - Len(q)]
      <3> TAKE i \in Len(q) + 1 .. Len(q \o e)
      <3>1. i - Len(q) \in 1 .. Len(e)
        BY <1>2, <2>2
      <3> QED
        BY <2>2, <3>1, <1>2
    <2> QED
      BY <2>1, <2>2, <2>3, <1>1, <1>2
  <1>4. CASE ~Fits(q, Len(d))
    BY <1>4 DEF WriteAllTo
  <1> QED
    BY <1>3, <1>4

\* A buffer that holds the beginning of a numbered stream, cut off where it is
\* full, holds the beginning of it still when the next bytes are written: what
\* writeAll drops is behind everything that it keeps.
LEMMA WritingExtends ==
  ASSUME NEW q \in Seq(Nat), NEW d \in Seq(Nat), NEW base \in Nat,
         NEW n \in Nat, NEW len \in Nat,
         Len(q) = IF n <= MaxBytes THEN n ELSE MaxBytes,
         \A i \in 1 .. Len(q) : q[i] = base + i,
         Len(d) = len, \A i \in 1 .. len : d[i] = base + n + i,
         Fits(q, len)
  PROVE  /\ WriteAllTo(q, d) \in Seq(Nat)
         /\ Len(WriteAllTo(q, d)) = IF n + len <= MaxBytes THEN n + len ELSE MaxBytes
         /\ \A i \in 1 .. Len(WriteAllTo(q, d)) : WriteAllTo(q, d)[i] = base + i
  <1>1. MaxBytes \in Nat /\ Len(q) \in Nat /\ Len(q) <= MaxBytes
    BY BufferSizeAssumption DEF MaxBytes
  <1> DEFINE w == WriteAllTo(q, d)
  <1>2. /\ Len(w) = Len(q) + Stored(q, len)
        /\ w \in Seq(Nat)
        /\ \A i \in 1 .. Len(q) : w[i] = q[i]
        /\ \A i \in Len(q) + 1 .. Len(w) : w[i] = d[i - Len(q)]
    BY <1>1, WriteAllKeeps
  <1> HIDE DEF w
  <1>3. Len(w) = IF n + len <= MaxBytes THEN n + len ELSE MaxBytes
    BY <1>1, <1>2 DEF Stored
  <1>4. ASSUME NEW i \in 1 .. Len(w), ~(i <= Len(q)) PROVE w[i] = base + i
    <2>1. Len(w) \in Nat
      BY <1>2
    <2>2. i \in Len(q) + 1 .. Len(w)
      BY <1>1, <1>4, <2>1
    <2>3. Len(q) = n /\ Len(w) <= n + len
      BY <1>1, <1>3, <2>1, <2>2
    <2>4. i - n \in 1 .. len
      BY <2>1, <2>2, <2>3
    <2>5. w[i] = d[i - n]
      BY <1>2, <2>2, <2>3
    <2>6. d[i - n] = base + n + (i - n)
      BY <2>4
    <2> QED
      BY <2>5, <2>6, <2>4
  <1>5. ASSUME NEW i \in 1 .. Len(w), i <= Len(q) PROVE w[i] = base + i
    BY <1>1, <1>2, <1>5
  <1> QED
    BY <1>2, <1>3, <1>4, <1>5 DEF w

-----------------------------------------------------------------------------
(* Arithmetic of sequence numbers.                                         *)

\* Adding less than SeqMod to a sequence number wraps at most once.
LEMMA SeqAddValue ==
  \A a, n \in 0 .. SeqMod - 1 :
      SeqAdd(a, n) = IF a + n < SeqMod THEN a + n ELSE a + n - SeqMod
  BY SeqModAssumption, SMT DEF SeqAdd

\* A sequence number tells how far from the initial one it is.
LEMMA SeqAddInjective ==
  ASSUME NEW a \in SeqNo, NEW m \in SeqNo, NEW n \in SeqNo,
         SeqAdd(a, m) = SeqAdd(a, n)
  PROVE  m = n
  BY SeqModAssumption, SeqAddValue, SMT DEF SeqNo

\* Advancing twice is advancing by the sum, across a wrap too.
LEMMA SeqAddAssociative ==
  ASSUME NEW a \in SeqNo, NEW m \in Nat, NEW n \in Nat, m + n < SeqMod
  PROVE  SeqAdd(SeqAdd(a, m), n) = SeqAdd(a, m + n)
  <1>1. /\ m \in 0 .. SeqMod - 1 /\ n \in 0 .. SeqMod - 1
        /\ m + n \in 0 .. SeqMod - 1 /\ a \in 0 .. SeqMod - 1
    BY SeqModAssumption DEF SeqNo
  <1>2. CASE a + m < SeqMod
    <2>1. SeqAdd(a, m) = a + m /\ a + m \in 0 .. SeqMod - 1
      BY <1>1, <1>2, SeqAddValue, SeqModAssumption
    <2>2. SeqAdd(a + m, n) = IF (a + m) + n < SeqMod THEN (a + m) + n
                             ELSE (a + m) + n - SeqMod
      BY <1>1, <2>1, SeqAddValue
    <2>3. SeqAdd(a, m + n) = IF a + (m + n) < SeqMod THEN a + (m + n)
                             ELSE a + (m + n) - SeqMod
      BY <1>1, SeqAddValue
    <2> QED
      BY <1>1, <2>1, <2>2, <2>3, SeqModAssumption
  <1>3. CASE ~(a + m < SeqMod)
    <2>1. /\ SeqAdd(a, m) = a + m - SeqMod
          /\ a + m - SeqMod \in 0 .. SeqMod - 1
      BY <1>1, <1>3, SeqAddValue, SeqModAssumption
    <2>2. SeqAdd(a + m - SeqMod, n) = (a + m - SeqMod) + n
      BY <1>1, <2>1, SeqAddValue, SeqModAssumption
    <2>3. SeqAdd(a, m + n) = a + (m + n) - SeqMod
      BY <1>1, <1>3, SeqAddValue, SeqModAssumption
    <2> QED
      BY <1>1, <2>1, <2>2, <2>3, SeqModAssumption
  <1> QED
    BY <1>2, <1>3

-----------------------------------------------------------------------------
(* The numbers of the incarnations and of the lives of DNet.               *)

\* Where the bytes of an incarnation are numbered from.
LEMMA BaseType == \A k \in Nat : Base(k) \in Nat
  <1> SUFFICES ASSUME NEW k \in Nat PROVE Base(k) \in Nat
    OBVIOUS
  <1>1. StreamLen + 1 \in Nat
    BY IncarnationsAssumption
  <1>2. \A a, b \in Nat : a * b \in Nat
    OBVIOUS
  <1> QED
    BY <1>1, <1>2 DEF Base

\* A number of one incarnation tells which incarnation it is, and which byte.
LEMMA SameByte ==
  ASSUME NEW j \in Incarnations, NEW k \in Incarnations,
         NEW m \in 0 .. StreamLen + 1, NEW n \in 0 .. StreamLen + 1,
         SeqAdd(IsnOf[j], m) = SeqAdd(IsnOf[k], n)
  PROVE  j = k /\ m = n
  <1>1. SeqAdd(IsnOf[j], m) \in NumbersOf(j) \cap NumbersOf(k)
    BY DEF NumbersOf
  <1>2. j = k
    BY <1>1, IncarnationsAssumption
  <1>3. IsnOf[j] \in SeqNo /\ m \in SeqNo /\ n \in SeqNo
    BY IncarnationsAssumption, SeqModAssumption DEF SeqNo
  <1> QED
    BY <1>2, <1>3, SeqAddInjective

\* Two numbers that are one behind the same number are the same.
LEMMA SameBefore ==
  ASSUME NEW a \in SeqNo, NEW b \in SeqNo, SeqAdd(a, 1) = SeqAdd(b, 1)
  PROVE  a = b
  <1>1. /\ a \in 0 .. SeqMod - 1 /\ b \in 0 .. SeqMod - 1 /\ 1 \in 0 .. SeqMod - 1
        /\ SeqMod \in Nat
    BY SeqModAssumption DEF SeqNo
  <1>2. /\ SeqAdd(a, 1) = IF a + 1 < SeqMod THEN a + 1 ELSE a + 1 - SeqMod
        /\ SeqAdd(b, 1) = IF b + 1 < SeqMod THEN b + 1 ELSE b + 1 - SeqMod
    BY <1>1, SeqAddValue
  <1> QED
    BY <1>1, <1>2

\* DNet's number in this life is one of those it has chosen, and they are
\* sequence numbers.
LEMMA ChosenType ==
  ASSUME restarts \in 0 .. MaxRestarts
  PROVE  Own \in Chosen /\ Chosen \subseteq SeqNo /\ Own \in Iss
  <1>1. /\ restarts \in 0 .. restarts
        /\ \A i \in 0 .. restarts : i \in 0 .. MaxRestarts
    BY IncarnationsAssumption
  <1>2. \A i \in 0 .. restarts : IssOf[i] \in Iss
    BY <1>1, IncarnationsAssumption
  <1> QED
    BY <1>1, <1>2, IssAssumption DEF Own, Chosen, SeqNo

-----------------------------------------------------------------------------
(* Types.                                                                  *)

\* Every segment that a peer sends is a segment.
LEMMA BehindType ==
  ASSUME TypeOK, NEW t \in Tuples, inc[t] \in Incarnations, NEW server \in SeqNo,
         NEW n \in 0 .. StreamLen, NEW len \in 0 .. StreamLen,
         NEW flags \in SUBSET {"SYN", "ACK", "FIN", "RST"}
  PROVE  Behind(t, flags, server, n, len) \in Segments
  <1>1. IsnOf[inc[t]] \in SeqNo
    BY IncarnationsAssumption
  <1>2. inc[t] \in Nat
    BY DEF TypeOK
  <1>3. n + 1 \in Nat /\ n \in Nat /\ len \in Nat
    BY IncarnationsAssumption
  <1>4. SeqAdd(IsnOf[inc[t]], n + 1) \in SeqNo /\ SeqAdd(server, 1) \in SeqNo
    BY <1>1, <1>3, SeqAddType, SeqNoNat
  <1>5. Base(inc[t]) + n \in Nat
    BY <1>2, <1>3, BaseType
  <1> QED
    BY <1>3, <1>4, <1>5 DEF Behind, Segment, Segments
\* Nothing is known and nobody is connected at the beginning.
LEMMA InitType == Init => TypeOK
  <1> SUFFICES ASSUME Init PROVE TypeOK
    OBVIOUS
  <1>1. MaxBytes >= 0
    BY BufferSizeAssumption DEF MaxBytes
  <1>2. TcpTypeOK
    BY <1>1, SeqNoNat DEF Init, TcpInit, TcpTypeOK, TcpStates
  <1> QED
    BY <1>2, SeqNoNat, IncarnationsAssumption DEF Init, TypeOK, PeerStates

\* One call of on_recv keeps every variable in its type.
LEMMA ServerKeepsTypes ==
  ASSUME TypeOK, NEW s \in toServer, ServerRecv(s)
  PROVE  TypeOK'
  <1>1. /\ s \in Segments /\ s.tuple \in Tuples
        /\ s.seq \in SeqNo /\ s.seq \in Nat /\ s.ack \in SeqNo
        /\ s.off \in Nat /\ s.len \in Nat
    BY SeqNoNat DEF TypeOK, Segments
  <1>2. TcpTypeOK' /\ toPeer' \subseteq Replies
    <2>1. CASE AcceptSyn(s, Own) /\ toPeer' = toPeer \cup {SynAck(s, Own)}
      <3>1. Own \in SeqNo /\ SeqAdd(Own, 1) \in SeqNo /\ SeqAdd(s.seq, 1) \in SeqNo
        BY <1>1, ChosenType, SeqAddType, SeqNoNat DEF TypeOK
      <3>2. MaxBytes >= 0
        BY BufferSizeAssumption DEF MaxBytes
      <3>3. TcpTypeOK'
        BY <1>1, <2>1, <3>1, <3>2 DEF AcceptSyn, TypeOK, TcpTypeOK, TcpStates
      <3>4. SynAck(s, Own) \in Replies
        BY <1>1, <3>1 DEF SynAck, Replies, Flags
      <3> QED
        BY <2>1, <3>3, <3>4 DEF TypeOK
    <2>2. CASE ReceiveInOrder(s) /\ toPeer' = toPeer \cup {DataAck(s)}
      <3>1. SeqAdd(s.seq, PayloadSize(s)) \in SeqNo
        BY <1>1, PayloadType, SeqAddType
      <3>2. DataAck(s) \in Replies
        BY <1>1, <3>1 DEF DataAck, Replies, Flags, TypeOK, TcpTypeOK
      <3>3. /\ WriteAllTo(rcvbuf[s.tuple], Payload(s)) \in Seq(Nat)
            /\ Len(WriteAllTo(rcvbuf[s.tuple], Payload(s))) <= MaxBytes
        BY <1>1, PayloadType, WriteAllKeeps DEF TypeOK, TcpTypeOK
      <3>4. TcpTypeOK'
        BY <1>1, <2>2, <3>1, <3>3 DEF ReceiveInOrder, TypeOK, TcpTypeOK
      <3> QED
        BY <2>2, <3>2, <3>4 DEF TypeOK
    <2>3. CASE Silent(s) /\ UNCHANGED toPeer
      <3>1. CASE CompleteHandshake(s)
        BY <1>1, <2>3, <3>1 DEF CompleteHandshake, TypeOK, TcpTypeOK, TcpStates
      <3>2. CASE UNCHANGED tcpVars
        BY <2>3, <3>2 DEF tcpVars, TypeOK, TcpTypeOK
      <3> QED
        BY <2>3, <3>1, <3>2
        DEF Silent, DropUnknown, IgnoreInHandshake, RefuseWhenFull, IgnoreOutOfOrder
    <2> QED
      BY <2>1, <2>2, <2>3 DEF ServerRecv, Own
  <1> QED
    BY <1>2 DEF ServerRecv, peerVars, TypeOK

\* So does everything that a peer sends of its own accord.
LEMMA SendingKeepsTypes ==
  ASSUME TypeOK, NEW t \in Tuples, PeerSends(t)
  PROVE  TypeOK'
  <1>1. TcpTypeOK' /\ toPeer' \subseteq Replies /\ restarts' \in 0 .. MaxRestarts
    BY DEF PeerSends, tcpVars, TypeOK, TcpTypeOK
  <1>2. /\ \A n \in Incarnations : IsnOf[n] \in SeqNo
        /\ StreamLen \in 0 .. StreamLen /\ 0 \in 0 .. StreamLen
        /\ peer[t] # "CLOSED" => inc[t] \in Incarnations
        /\ irs[t] \in SeqNo /\ sent[t] \in 0 .. StreamLen
    BY IncarnationsAssumption DEF TypeOK
  <1>3. CASE Connect(t)
    <2>1. /\ inc[t] + 1 \in Nat /\ inc[t] + 1 \in Incarnations
      BY <1>3 DEF Connect, TypeOK
    <2>2. Syn(t, inc[t] + 1) \in Segments
      BY <1>2, <2>1, SeqNoNat DEF Syn, Segment, Segments
    <2>3. toServer' \subseteq Segments
      BY <1>3, <2>2 DEF Connect, Sends, TypeOK
    <2> QED
      BY <1>1, <1>2, <1>3, <2>1, <2>3 DEF Connect, TypeOK, PeerStates
  <1>4. CASE SendFin(t)
    <2>1. Behind(t, {"FIN", "ACK"}, irs[t], StreamLen, 0) \in Segments
      BY <1>2, <1>4, BehindType DEF SendFin
    <2> QED
      BY <1>1, <1>2, <1>4, <2>1 DEF SendFin, Sends, TypeOK, PeerStates
  <1>5. CASE GiveUp(t)
    <2>1. peer[t] # "SYN_SENT" => Behind(t, {"RST", "ACK"}, irs[t], sent[t], 0) \in Segments
      BY <1>2, <1>5, BehindType DEF GiveUp
    <2> QED
      BY <1>1, <1>2, <1>5, <2>1 DEF GiveUp, Sends, TypeOK, PeerStates
  <1>6. ASSUME NEW n \in 0 .. StreamLen, NEW len \in 1 .. StreamLen, SendBytes(t, n, len)
        PROVE  TypeOK'
    <2>1. len \in 0 .. StreamLen /\ n + len \in 0 .. StreamLen
      BY <1>6, IncarnationsAssumption DEF SendBytes
    <2>2. Behind(t, {"ACK"}, irs[t], n, len) \in Segments
      BY <1>2, <1>6, <2>1, BehindType DEF SendBytes
    <2>3. Max2(sent[t], n + len) \in 0 .. StreamLen
      BY <1>2, <2>1 DEF Max2
    <2> QED
      BY <1>1, <1>2, <1>6, <2>2, <2>3 DEF SendBytes, Sends, TypeOK, PeerStates
  <1> QED
    BY <1>3, <1>4, <1>5, <1>6 DEF PeerSends

\* And so does what a peer does when a reply reaches it.
LEMMA RepliesKeepTypes ==
  ASSUME TypeOK, NEW r \in toPeer, PeerRecv(r)
  PROVE  TypeOK'
  <1>1. TcpTypeOK' /\ toPeer' \subseteq Replies /\ restarts' \in 0 .. MaxRestarts
    BY DEF PeerRecv, tcpVars, TypeOK, TcpTypeOK
  <1>2. /\ r.tuple \in Tuples /\ r.seq \in SeqNo /\ r.ack \in SeqNo
        /\ 0 \in 0 .. StreamLen
    BY IncarnationsAssumption DEF TypeOK, Replies
  <1>3. CASE TakeSynAck(r)
    <2>1. inc[r.tuple] \in Incarnations /\ inc[r.tuple] \in Nat
      BY <1>2, <1>3 DEF TakeSynAck, TypeOK
    <2>2. Behind(r.tuple, {"ACK"}, r.seq, 0, 0) \in Segments
      BY <1>2, <2>1, BehindType
    <2>3. [inc |-> inc[r.tuple], iss |-> r.seq] \in Agreements
      BY <1>2, <2>1 DEF Agreements
    <2> QED
      BY <1>1, <1>2, <1>3, <2>1, <2>2, <2>3 DEF TakeSynAck, TypeOK, PeerStates
  <1>4. CASE Reset(r)
    <2>1. Segment(r.tuple, {"RST"}, r.ack, 0, 0, 0) \in Segments
      BY <1>2, SeqNoNat DEF Segment, Segments
    <2> QED
      BY <1>1, <1>4, <2>1 DEF Reset, peerVars, TypeOK
  <1>5. CASE TakeAck(r)
    <2>1. PICK n \in acked[r.tuple] + 1 .. sent[r.tuple] :
             acked' = [acked EXCEPT ![r.tuple] = n]
      BY <1>5 DEF TakeAck
    <2>2. n \in 0 .. StreamLen
      BY <1>2, IncarnationsAssumption DEF TypeOK
    <2> QED
      BY <1>1, <1>2, <1>5, <2>1, <2>2 DEF TakeAck, TypeOK
  <1> QED
    BY <1>3, <1>4, <1>5 DEF PeerRecv

\* No step leaves the types: on_recv meets no other state than those that its
\* switch handles, whatever is still under way of earlier incarnations.
LEMMA StepKeepsTypes ==
  ASSUME TypeOK, [Next]_vars
  PROVE  TypeOK'
  <1>1. CASE Restart
    <2>1. restarts' \in 0 .. MaxRestarts
      BY <1>1, IncarnationsAssumption DEF Restart, TypeOK
    <2>2. MaxBytes >= 0
      BY BufferSizeAssumption DEF MaxBytes
    <2>3. TcpTypeOK'
      BY <1>1, <2>2, SeqNoNat DEF Restart, TcpRestart, TcpTypeOK, TcpStates
    <2> QED
      BY <1>1, <2>1, <2>3 DEF Restart, peerVars, TypeOK
  <1>2. CASE UNCHANGED vars
    BY <1>2 DEF vars, tcpVars, peerVars, TypeOK, TcpTypeOK
  <1> QED
    BY <1>1, <1>2, ServerKeepsTypes, SendingKeepsTypes, RepliesKeepTypes DEF Next

\* Each variable keeps a value of its type, and the buffer never holds more
\* than it can.
THEOREM TypeCorrect == Spec => []TypeOK
  BY InitType, StepKeepsTypes, PTL DEF Spec
-----------------------------------------------------------------------------
(* What a step leaves alone.                                               *)

TupleVars(t) == <<state[t], rcv_nxt[t], snd_nxt[t], rcvbuf[t],
                  peer[t], inc[t], irs[t], acked[t], sent[t], agreed[t]>>

\* A step that changes nothing of a tuple, and sends nothing for it, keeps
\* what holds of it.
LEMMA UntouchedTuple ==
  ASSUME NEW t \in Tuples, TupleInv(t), TupleVars(t)' = TupleVars(t),
         restarts' = restarts,
         \A s \in toServer' : s.tuple = t => s \in toServer,
         \A r \in toPeer' : r.tuple = t => r \in toPeer
  PROVE  TupleInv(t)'
  <1>1. /\ state'[t] = state[t] /\ rcv_nxt'[t] = rcv_nxt[t] /\ snd_nxt'[t] = snd_nxt[t]
        /\ rcvbuf'[t] = rcvbuf[t] /\ peer'[t] = peer[t] /\ inc'[t] = inc[t]
        /\ irs'[t] = irs[t] /\ acked'[t] = acked[t] /\ sent'[t] = sent[t]
        /\ agreed'[t] = agreed[t]
    BY DEF TupleVars
  <1>2. Own' = Own /\ Chosen' = Chosen /\ SoFar(t)' = SoFar(t)
        /\ (IsConnected(t)' <=> IsConnected(t))
    BY <1>1 DEF Own, Chosen, SoFar, IsConnected
  <1>3. PeerInv(t)'
    BY <1>1, <1>2 DEF TupleInv, PeerInv
  <1>4. ASSUME NEW s \in toServer', s.tuple = t PROVE SegmentInv(s)'
    <2>1. SegmentInv(s)
      BY <1>4 DEF TupleInv
    <2>2. SoFar(s.tuple)' = SoFar(s.tuple) /\ agreed'[s.tuple] = agreed[s.tuple]
          /\ inc'[s.tuple] = inc[s.tuple] /\ sent'[s.tuple] = sent[s.tuple]
      BY <1>1, <1>2, <1>4
    <2> QED
      BY <2>1, <2>2 DEF SegmentInv, IsBehind
  <1>5. ASSUME NEW r \in toPeer', r.tuple = t PROVE ReplyInv(r)' /\ r \in toPeer
    BY <1>2, <1>5 DEF TupleInv, ReplyInv
  <1>6. ASSUME NEW k, NEW n, ConnectedTo(t, k, n) PROVE ConnectedTo(t, k, n)'
    BY <1>1, <1>2, <1>5, <1>6 DEF ConnectedTo, Recent
  <1>7. Unknown(t) => Unknown(t)'
    BY <1>1, <1>2, <1>5 DEF Unknown, Recent
  <1>8. ServerInv(t)'
    BY <1>1, <1>2, <1>6, <1>7 DEF TupleInv, ServerInv
  <1> QED
    BY <1>3, <1>4, <1>5, <1>8 DEF TupleInv

\* A call of on_recv keeps what the peer of the tuple knows, what it has sent
\* and what is known of the replies that there already are.
LEMMA ServerKeepsPeer ==
  ASSUME NEW t \in Tuples, TupleInv(t), UNCHANGED <<peerVars, toServer, restarts>>
  PROVE  /\ PeerInv(t)'
         /\ \A s \in toServer' : s.tuple = t => SegmentInv(s)'
         /\ \A r \in toPeer : ReplyInv(r)' <=> ReplyInv(r)
         /\ Own' = Own /\ Chosen' = Chosen /\ SoFar(t)' = SoFar(t)
         /\ (IsConnected(t)' <=> IsConnected(t))
  <1>1. Own' = Own /\ Chosen' = Chosen /\ (\A u : SoFar(u)' = SoFar(u))
        /\ (IsConnected(t)' <=> IsConnected(t))
    BY DEF Own, Chosen, SoFar, IsConnected, peerVars
  <1>2. PeerInv(t)'
    BY <1>1 DEF TupleInv, PeerInv, peerVars
  <1>3. \A s \in toServer' : s.tuple = t => SegmentInv(s)'
    BY <1>1 DEF TupleInv, SegmentInv, IsBehind, peerVars
  <1> QED
    BY <1>1, <1>2, <1>3 DEF ReplyInv

-----------------------------------------------------------------------------
(* The steps of DNet.                                                      *)

\* A SYN, old or new, makes a connection of its own incarnation: nobody can
\* have heard of the number DNet chooses before.
LEMMA AcceptSynKeeps ==
  ASSUME TypeOK, NEW s \in toServer, TupleInv(s.tuple), AcceptSyn(s, Own),
         toPeer' = toPeer \cup {SynAck(s, Own)},
         UNCHANGED <<peerVars, toServer, restarts>>
  PROVE  TupleInv(s.tuple)'
  <1> DEFINE t == s.tuple
  <1>1. t \in Tuples /\ s.seq \in SeqNo
    BY DEF TypeOK, Segments
  <1>2. PICK k \in SoFar(t) : s.seq = IsnOf[k]
    BY DEF AcceptSyn, TupleInv, SegmentInv
  <1>3. /\ Unknown(t)
        /\ state'[t] = "SYN_RECVED" /\ rcv_nxt'[t] = SeqAdd(IsnOf[k], 0 + 1)
        /\ snd_nxt'[t] = SeqAdd(Own, 1) /\ rcvbuf'[t] = << >>
    BY <1>1, <1>2 DEF AcceptSyn, TupleInv, ServerInv, TypeOK, TcpTypeOK
  <1>4. /\ PeerInv(t)'
        /\ \A z \in toServer' : z.tuple = t => SegmentInv(z)'
        /\ \A r \in toPeer : ReplyInv(r)' <=> ReplyInv(r)
        /\ Own' = Own /\ Chosen' = Chosen /\ SoFar(t)' = SoFar(t)
        /\ (IsConnected(t)' <=> IsConnected(t))
    BY <1>1, ServerKeepsPeer
  <1>5. SynAck(s, Own).seq = Own /\ SynAck(s, Own).ack = SeqAdd(IsnOf[k], 0 + 1)
        /\ "SYN" \in SynAck(s, Own).flags
    BY <1>2 DEF SynAck
  <1>6. \A r \in toPeer' : r.tuple = t => ReplyInv(r)'
    <2>1. ReplyInv(SynAck(s, Own))'
      BY <1>4, <1>5, ChosenType DEF TypeOK, ReplyInv
    <2> QED
      BY <1>4, <2>1 DEF TupleInv
  <1>7. ConnectedTo(t, k, 0)'
    <2>1. \A r \in toPeer' : r.tuple = t /\ Recent(r)' => r = SynAck(s, Own)
      BY <1>3, <1>4 DEF Unknown, Recent
    <2>2. \A r \in toPeer' : r.tuple = t /\ Recent(r)' =>
             \E m \in 0 .. 0 : /\ r.ack = SeqAdd(IsnOf[k], m + 1)
                               /\ "SYN" \in r.flags => m = 0
      BY <1>5, <2>1
    <2>3. agreed'[t] = agreed[t] /\ sent'[t] \in Nat /\ irs'[t] = irs[t]
      BY <1>1 DEF peerVars, TypeOK
    <2>4. ~(IsConnected(t)' /\ irs'[t] = Own)
      <3>1. IsConnected(t) => [inc |-> inc[t], iss |-> irs[t]] \in agreed[t]
        BY DEF TupleInv, PeerInv
      <3> QED
        BY <1>3, <1>4, <2>3, <3>1 DEF Unknown
    <2>5. \A a \in agreed'[t] : a.iss # Own
      BY <1>3, <2>3 DEF Unknown
    <2>6. MaxBytes \in Nat /\ Len(rcvbuf'[t]) = 0
      BY <1>3, BufferSizeAssumption DEF MaxBytes
    <2>7. Len(rcvbuf'[t]) = (IF 0 <= MaxBytes THEN 0 ELSE MaxBytes)
          /\ (\A i \in 1 .. Len(rcvbuf'[t]) : rcvbuf'[t][i] = Base(k) + i)
          /\ 0 <= sent'[t]
      BY <2>3, <2>6
    <2> QED
      BY <1>3, <1>4, <2>2, <2>4, <2>5, <2>7 DEF ConnectedTo
  <1>8. ServerInv(t)'
    <2>1. 0 \in 0 .. StreamLen
      BY IncarnationsAssumption
    <2> QED
      BY <1>2, <1>3, <1>4, <1>7, <2>1 DEF ServerInv
  <1> QED
    BY <1>4, <1>6, <1>8 DEF TupleInv
\* The acknowledgement that completes the handshake was sent under an agreement
\* on DNet's number of this life, so it is the connection's own.
LEMMA CompleteHandshakeKeeps ==
  ASSUME TypeOK, NEW s \in toServer, TupleInv(s.tuple), CompleteHandshake(s),
         UNCHANGED <<peerVars, toServer, toPeer, restarts>>
  PROVE  TupleInv(s.tuple)'
  <1> DEFINE t == s.tuple
  <1>1. t \in Tuples
    BY DEF TypeOK, Segments
  <1>2. /\ state[t] = "SYN_RECVED" /\ state'[t] = "ESTABLISHED"
        /\ UNCHANGED <<rcv_nxt, snd_nxt, rcvbuf>>
        /\ "ACK" \in s.flags /\ s.ack = snd_nxt[t]
    BY <1>1 DEF CompleteHandshake, AcksSynAck, TypeOK, TcpTypeOK
  <1>3. PICK k \in SoFar(t), n \in 0 .. StreamLen : ConnectedTo(t, k, n)
    BY <1>2 DEF TupleInv, ServerInv
  <1>4. PICK a \in agreed[t] : s.ack = SeqAdd(a.iss, 1)
    BY <1>2 DEF TupleInv, SegmentInv, IsBehind
  <1>5. a.iss = Own
    <2>1. a.iss \in SeqNo /\ Own \in SeqNo
      BY <1>1, <1>4, ChosenType DEF TypeOK, Agreements
    <2>2. SeqAdd(a.iss, 1) = SeqAdd(Own, 1)
      BY <1>2, <1>3, <1>4 DEF ConnectedTo
    <2> QED
      BY <2>1, <2>2, SameBefore
  <1>6. /\ PeerInv(t)'
        /\ \A z \in toServer' : z.tuple = t => SegmentInv(z)'
        /\ \A r \in toPeer : ReplyInv(r)' <=> ReplyInv(r)
        /\ Own' = Own /\ Chosen' = Chosen /\ SoFar(t)' = SoFar(t)
        /\ (IsConnected(t)' <=> IsConnected(t))
    BY <1>1, ServerKeepsPeer
  <1>7. ConnectedTo(t, k, n)'
    BY <1>2, <1>3, <1>6 DEF ConnectedTo, Recent, peerVars
  <1>8. ServerInv(t)'
    BY <1>2, <1>3, <1>4, <1>5, <1>6, <1>7 DEF ServerInv, peerVars
  <1> QED
    BY <1>6, <1>8 DEF TupleInv

\* A segment in order carries no byte, or the very next ones of the stream of
\* the connection's incarnation: the numbers of any other are elsewhere.
LEMMA InOrderIsNext ==
  ASSUME TypeOK, NEW s \in toServer, TupleInv(s.tuple), InOrder(s),
         NEW k \in SoFar(s.tuple), NEW n \in 0 .. StreamLen,
         ConnectedTo(s.tuple, k, n)
  PROVE  /\ n + s.len \in 0 .. StreamLen
         /\ \A i \in 1 .. s.len : s.off + i = Base(k) + n + i
         /\ k = inc[s.tuple] => n + s.len <= sent[s.tuple]
  <1> DEFINE t == s.tuple
  <1>1. t \in Tuples /\ s.len \in Nat /\ s.off \in Nat
    BY DEF TypeOK, Segments
  <1>2. StreamLen \in Nat /\ n \in Nat /\ n <= StreamLen
        /\ (k = inc[t] => n <= sent[t]) /\ sent[t] \in Nat
    BY <1>1, IncarnationsAssumption DEF ConnectedTo, TypeOK
  <1>3. CASE s.len = 0
    BY <1>2, <1>3
  <1>4. CASE s.len # 0
    <2>1. PICK a \in agreed[t], m \in 0 .. StreamLen : IsBehind(s, a, m)
      BY <1>4 DEF TupleInv, SegmentInv
    <2>2. SeqAdd(IsnOf[a.inc], m + 1) = SeqAdd(IsnOf[k], n + 1)
      BY <2>1 DEF IsBehind, InOrder, ConnectedTo
    <2>3. a.inc \in Incarnations /\ k \in Incarnations
      BY <2>1 DEF TupleInv, PeerInv
    <2>4. m + 1 \in 0 .. StreamLen + 1 /\ n + 1 \in 0 .. StreamLen + 1 /\ m \in Nat
      BY <1>2
    <2>5. a.inc = k /\ m = n
      <3>1. a.inc = k /\ m + 1 = n + 1
        BY <2>2, <2>3, <2>4, SameByte
      <3> QED
        BY <1>2, <2>4, <3>1
    <2>6. s.off = Base(k) + n /\ n + s.len <= StreamLen
          /\ (k = inc[t] => n + s.len <= sent[t])
      BY <2>1, <2>5 DEF IsBehind
    <2> QED
      BY <1>1, <1>2, <2>6
  <1> QED
    BY <1>3, <1>4

\* A segment in order extends the connection by its bytes, and is acknowledged
\* as far as it goes.
LEMMA ReceiveInOrderKeeps ==
  ASSUME MinPayload = 0, TypeOK, NEW s \in toServer, TupleInv(s.tuple),
         ReceiveInOrder(s), toPeer' = toPeer \cup {DataAck(s)},
         UNCHANGED <<peerVars, toServer, restarts>>
  PROVE  TupleInv(s.tuple)'
  <1> DEFINE t == s.tuple
             q == rcvbuf[t]
             d == Payload(s)
  <1>1. /\ s \in Segments /\ t \in Tuples /\ s.len \in Nat /\ s.off \in Nat
        /\ s.seq \in SeqNo
    BY DEF TypeOK, Segments
  <1>2. PayloadSize(s) = s.len
    BY <1>1 DEF PayloadSize, Max2
  <1>3. /\ state[t] = "ESTABLISHED" /\ state'[t] = "ESTABLISHED" /\ InOrder(s)
        /\ rcvbuf'[t] = WriteAllTo(q, d) /\ Fits(q, s.len)
        /\ rcv_nxt'[t] = SeqAdd(s.seq, s.len) /\ snd_nxt'[t] = snd_nxt[t]
    BY <1>1, <1>2 DEF ReceiveInOrder, Accepts, TypeOK, TcpTypeOK
  <1>4. PICK k \in SoFar(t), n \in 0 .. StreamLen : ConnectedTo(t, k, n)
    BY <1>3 DEF TupleInv, ServerInv
  <1>5. /\ n + s.len \in 0 .. StreamLen
        /\ \A i \in 1 .. s.len : s.off + i = Base(k) + n + i
        /\ k = inc[t] => n + s.len <= sent[t]
    BY <1>3, <1>4, InOrderIsNext
  <1>6. /\ k \in Nat /\ k \in Incarnations /\ IsnOf[k] \in SeqNo /\ Base(k) \in Nat
        /\ StreamLen \in Nat /\ n \in Nat
    <2>1. SoFar(t) \subseteq Incarnations
      BY DEF TupleInv, PeerInv
    <2>2. k \in Nat
      BY <1>1 DEF SoFar, TypeOK
    <2>3. StreamLen \in Nat /\ n \in Nat
      BY IncarnationsAssumption
    <2> QED
      BY <2>1, <2>2, <2>3, IncarnationsAssumption, BaseType
  <1>7. SeqAdd(s.seq, s.len) = SeqAdd(IsnOf[k], (n + s.len) + 1)
    <2>1. s.seq = SeqAdd(IsnOf[k], n + 1)
      BY <1>3, <1>4 DEF InOrder, ConnectedTo
    <2>2. n + 1 \in Nat /\ (n + 1) + s.len < SeqMod /\ (n + 1) + s.len = (n + s.len) + 1
      BY <1>1, <1>5, <1>6, IncarnationsAssumption, SeqModAssumption
    <2> QED
      BY <1>1, <1>6, <2>1, <2>2, SeqAddAssociative
  <1>8. /\ rcvbuf'[t] \in Seq(Nat)
        /\ Len(rcvbuf'[t]) = IF n + s.len <= MaxBytes THEN n + s.len ELSE MaxBytes
        /\ \A i \in 1 .. Len(rcvbuf'[t]) : rcvbuf'[t][i] = Base(k) + i
    <2>1. /\ d \in Seq(Nat) /\ Len(d) = s.len
          /\ \A i \in 1 .. s.len : d[i] = Base(k) + n + i
      <3>1. /\ d \in Seq(Nat) /\ Len(d) = PayloadSize(s)
            /\ \A i \in 1 .. PayloadSize(s) :
                   d[i] = IF i <= s.len THEN s.off + i ELSE PadOctet
        BY <1>1, PayloadType
      <3> HIDE DEF d
      <3>2. ASSUME NEW i \in 1 .. s.len PROVE d[i] = s.off + i
        BY <1>1, <1>2, <3>1
      <3> QED
        BY <1>2, <1>5, <3>1, <3>2
    <2>2. /\ q \in Seq(Nat) /\ Len(q) = IF n <= MaxBytes THEN n ELSE MaxBytes
          /\ \A i \in 1 .. Len(q) : q[i] = Base(k) + i
      BY <1>1, <1>4 DEF TypeOK, TcpTypeOK, ConnectedTo
    <2> DEFINE w == WriteAllTo(q, d)
    <2> HIDE DEF q, d
    <2>3. \A base, m, len \in Nat :
             /\ Len(q) = IF m <= MaxBytes THEN m ELSE MaxBytes
             /\ \A i \in 1 .. Len(q) : q[i] = base + i
             /\ Len(d) = len /\ \A i \in 1 .. len : d[i] = base + m + i
             /\ Fits(q, len)
             => /\ w \in Seq(Nat)
                /\ Len(w) = IF m + len <= MaxBytes THEN m + len ELSE MaxBytes
                /\ \A i \in 1 .. Len(w) : w[i] = base + i
      BY <2>1, <2>2, WritingExtends
    <2> HIDE DEF w
    <2>4. /\ w \in Seq(Nat)
          /\ Len(w) = IF n + s.len <= MaxBytes THEN n + s.len ELSE MaxBytes
          /\ \A i \in 1 .. Len(w) : w[i] = Base(k) + i
      BY <1>1, <1>3, <1>6, <2>1, <2>2, <2>3
    <2> QED
      BY <1>3, <2>4 DEF w, q, d
  <1>9. /\ PeerInv(t)'
        /\ \A z \in toServer' : z.tuple = t => SegmentInv(z)'
        /\ \A r \in toPeer : ReplyInv(r)' <=> ReplyInv(r)
        /\ Own' = Own /\ Chosen' = Chosen /\ SoFar(t)' = SoFar(t)
        /\ (IsConnected(t)' <=> IsConnected(t))
    BY <1>1, ServerKeepsPeer
  <1>10. /\ DataAck(s).seq = SeqAdd(Own, 1) /\ "SYN" \notin DataAck(s).flags
         /\ DataAck(s).ack = SeqAdd(IsnOf[k], (n + s.len) + 1)
    BY <1>2, <1>4, <1>7 DEF DataAck, ConnectedTo
  <1>11. \A r \in toPeer' : r.tuple = t => ReplyInv(r)'
    <2>1. Own \in Chosen
      BY ChosenType DEF TypeOK
    <2>2. ASSUME NEW r, r = DataAck(s) PROVE ReplyInv(r)'
      BY <1>9, <1>10, <2>1, <2>2 DEF ReplyInv
    <2> QED
      BY <1>9, <2>2 DEF TupleInv
  <1>12. ConnectedTo(t, k, n + s.len)'
    <2>1. \A r \in toPeer' : r.tuple = t /\ Recent(r)' =>
             \E m \in 0 .. n + s.len : /\ r.ack = SeqAdd(IsnOf[k], m + 1)
                                       /\ "SYN" \in r.flags => m = 0
      <3> SUFFICES ASSUME NEW r \in toPeer', r.tuple = t, Recent(r)'
                   PROVE  \E m \in 0 .. n + s.len :
                             /\ r.ack = SeqAdd(IsnOf[k], m + 1)
                             /\ "SYN" \in r.flags => m = 0
        OBVIOUS
      <3>1. CASE r = DataAck(s)
        BY <1>1, <1>5, <1>6, <1>10, <3>1
      <3>2. CASE r \in toPeer
        <4>1. Recent(r)
          BY <1>9 DEF Recent
        <4>2. PICK m \in 0 .. n : /\ r.ack = SeqAdd(IsnOf[k], m + 1)
                                  /\ "SYN" \in r.flags => m = 0
          BY <1>4, <3>2, <4>1 DEF ConnectedTo
        <4>3. m \in 0 .. n + s.len
          BY <1>1, <1>6
        <4> QED
          BY <4>2, <4>3
      <3> QED
        BY <3>1, <3>2
    <2>2. agreed'[t] = agreed[t] /\ sent'[t] = sent[t] /\ inc'[t] = inc[t]
          /\ acked'[t] = acked[t] /\ irs'[t] = irs[t] /\ acked[t] \in Nat
      BY <1>1, <1>6 DEF peerVars, TypeOK
    <2>3. IsConnected(t) /\ irs[t] = Own => acked[t] <= n + s.len
      BY <1>1, <1>4, <1>6, <2>2 DEF ConnectedTo
    <2> QED
      BY <1>3, <1>4, <1>5, <1>7, <1>8, <1>9, <2>1, <2>2, <2>3 DEF ConnectedTo
  <1>13. ServerInv(t)'
    BY <1>3, <1>5, <1>9, <1>12 DEF ServerInv, TupleInv, peerVars
  <1> QED
    BY <1>9, <1>11, <1>13 DEF TupleInv

\* No call of on_recv breaks the invariant of any tuple.
LEMMA ServerKeepsInv ==
  ASSUME MinPayload = 0, TypeOK, IncarnationsInv, NEW s \in toServer, ServerRecv(s)
  PROVE  IncarnationsInv'
  <1>1. s.tuple \in Tuples /\ UNCHANGED <<peerVars, toServer, restarts>>
    BY DEF TypeOK, Segments, ServerRecv
  <1>2. TupleInv(s.tuple)
    BY <1>1 DEF IncarnationsInv
  <1>3. CASE UNCHANGED <<tcpVars, toPeer>>
    BY <1>1, <1>3, UntouchedTuple DEF IncarnationsInv, TupleVars, tcpVars, peerVars
  <1>4. CASE AcceptSyn(s, Own) /\ toPeer' = toPeer \cup {SynAck(s, Own)}
    <2>1. TupleInv(s.tuple)'
      BY <1>1, <1>2, <1>4, AcceptSynKeeps
    <2>2. ASSUME NEW t \in Tuples, t # s.tuple PROVE TupleInv(t)'
      <3>1. TupleVars(t)' = TupleVars(t)
        BY <1>1, <1>4, <2>2 DEF TupleVars, AcceptSyn, peerVars, TypeOK, TcpTypeOK
      <3>2. \A r \in toPeer' : r.tuple = t => r \in toPeer
        BY <1>4, <2>2 DEF SynAck
      <3> QED
        BY <1>1, <3>1, <3>2, UntouchedTuple DEF IncarnationsInv
    <2> QED
      BY <2>1, <2>2 DEF IncarnationsInv
  <1>5. CASE ReceiveInOrder(s) /\ toPeer' = toPeer \cup {DataAck(s)}
    <2>1. TupleInv(s.tuple)'
      BY <1>1, <1>2, <1>5, ReceiveInOrderKeeps
    <2>2. ASSUME NEW t \in Tuples, t # s.tuple PROVE TupleInv(t)'
      <3>1. TupleVars(t)' = TupleVars(t)
        BY <1>1, <1>5, <2>2 DEF TupleVars, ReceiveInOrder, peerVars, TypeOK, TcpTypeOK
      <3>2. \A r \in toPeer' : r.tuple = t => r \in toPeer
        BY <1>5, <2>2 DEF DataAck
      <3> QED
        BY <1>1, <3>1, <3>2, UntouchedTuple DEF IncarnationsInv
    <2> QED
      BY <2>1, <2>2 DEF IncarnationsInv
  <1>6. CASE CompleteHandshake(s) /\ UNCHANGED toPeer
    <2>1. TupleInv(s.tuple)'
      BY <1>1, <1>2, <1>6, CompleteHandshakeKeeps
    <2>2. ASSUME NEW t \in Tuples, t # s.tuple PROVE TupleInv(t)'
      <3>1. TupleVars(t)' = TupleVars(t)
        BY <1>1, <1>6, <2>2 DEF TupleVars, CompleteHandshake, peerVars, TypeOK, TcpTypeOK
      <3> QED
        BY <1>1, <1>6, <3>1, UntouchedTuple DEF IncarnationsInv
    <2> QED
      BY <2>1, <2>2 DEF IncarnationsInv
  <1> QED
    BY <1>3, <1>4, <1>5, <1>6
    DEF ServerRecv, Own, Silent, DropUnknown, IgnoreInHandshake, RefuseWhenFull,
        IgnoreOutOfOrder
-----------------------------------------------------------------------------
(* The steps of the peers.                                                 *)

\* What a step of the tuple's peer has to say for itself: what the peer now
\* believes and has agreed on is still about DNet's connection, and what it has
\* just sent is what peers send.
LEMMA PeerStepKeeps ==
  ASSUME TypeOK, NEW t \in Tuples, TupleInv(t), UNCHANGED <<tcpVars, toPeer, restarts>>,
         agreed[t] \subseteq agreed'[t], inc'[t] \in Nat, sent'[t] \in Nat,
         \/ inc'[t] = inc[t] /\ sent[t] <= sent'[t]
         \/ inc'[t] = inc[t] + 1,
         PeerInv(t)',
         \A k \in SoFar(t), n \in 0 .. StreamLen : ConnectedTo(t, k, n) =>
            /\ IsConnected(t)' /\ irs'[t] = Own => acked'[t] <= n
            /\ \A a \in agreed'[t] : a.iss = Own => a.inc = k,
         state[t] = "ABSENT" => \A a \in agreed'[t] : a.iss # Own,
         \A s \in toServer' : s.tuple = t => s \in toServer \/ SegmentInv(s)'
  PROVE  TupleInv(t)'
  <1>1. inc[t] \in Nat /\ sent[t] \in Nat
    BY DEF TypeOK
  <1>2. /\ Own' = Own /\ Chosen' = Chosen
        /\ SoFar(t) \subseteq SoFar(t)'
    BY <1>1 DEF Own, Chosen, SoFar
  <1>3. ASSUME NEW s \in toServer', s.tuple = t PROVE SegmentInv(s)'
    <2>1. CASE s \in toServer
      <3>1. SegmentInv(s)
        BY <1>3, <2>1 DEF TupleInv
      <3>2. ASSUME NEW a \in agreed[t], NEW n \in 0 .. StreamLen, IsBehind(s, a, n)
            PROVE  IsBehind(s, a, n)'
        <4>1. a.inc \in SoFar(t)
          BY DEF TupleInv, PeerInv
        <4>2. a.inc = inc'[t] => inc'[t] = inc[t] /\ sent[t] <= sent'[t]
          BY <1>1, <4>1 DEF SoFar
        <4>3. n \in Nat /\ s.len \in Nat
          BY <2>1, IncarnationsAssumption DEF TypeOK, Segments
        <4> QED
          BY <1>1, <1>3, <3>2, <4>2, <4>3 DEF IsBehind
      <3> QED
        BY <1>2, <1>3, <3>1, <3>2 DEF SegmentInv
    <2> QED
      BY <1>3, <2>1
  <1>4. \A r \in toPeer' : r.tuple = t => ReplyInv(r)'
    BY <1>2 DEF TupleInv, ReplyInv
  <1>5. ASSUME NEW k \in SoFar(t), NEW n \in 0 .. StreamLen, ConnectedTo(t, k, n)
        PROVE  ConnectedTo(t, k, n)'
    <2>1. n \in Nat /\ (k = inc[t] => n <= sent[t])
      BY <1>5, IncarnationsAssumption DEF ConnectedTo
    <2>2. k = inc'[t] => n <= sent'[t]
      BY <1>1, <2>1 DEF SoFar
    <2> QED
      BY <1>2, <1>5, <2>2 DEF ConnectedTo, Recent, tcpVars
  <1>6. ServerInv(t)'
    <2>1. state'[t] = state[t] /\ rcvbuf'[t] = rcvbuf[t]
      BY DEF tcpVars
    <2>2. state[t] = "ABSENT" => Unknown(t)'
      BY <1>2, <2>1 DEF TupleInv, ServerInv, Unknown, Recent
    <2> QED
      BY <1>2, <1>5, <2>1, <2>2 DEF TupleInv, ServerInv
  <1> QED
    BY <1>3, <1>4, <1>6 DEF TupleInv

\* What a connected peer sends behind n bytes of its stream is sent under the
\* agreement that it believes in.
LEMMA BehindIsAgreed ==
  ASSUME TypeOK, NEW t \in Tuples, [inc |-> inc[t], iss |-> irs[t]] \in agreed'[t],
         inc'[t] = inc[t], NEW server, server = irs[t],
         NEW n \in 0 .. StreamLen, NEW len \in Nat, n + len <= StreamLen,
         n + len <= sent'[t],
         NEW flags, "SYN" \notin flags, NEW s, s = Behind(t, flags, server, n, len)
  PROVE  SegmentInv(s)'
  <1>1. /\ s.tuple = t /\ s.flags = flags /\ s.len = len
        /\ s.seq = SeqAdd(IsnOf[inc[t]], n + 1) /\ s.ack = SeqAdd(server, 1)
        /\ s.off = Base(inc[t]) + n
    BY DEF Behind, Segment
  <1>2. PICK a \in agreed'[t] : a.inc = inc[t] /\ a.iss = irs[t]
    OBVIOUS
  <1>3. IsBehind(s, a, n)'
    BY <1>1, <1>2 DEF IsBehind
  <1> QED
    BY <1>1, <1>2, <1>3 DEF SegmentInv

\* Nothing that a peer sends of its own accord breaks what holds of its tuple.
LEMMA SendingKeeps ==
  ASSUME TypeOK, NEW t \in Tuples, TupleInv(t), PeerSends(t)
  PROVE  TupleInv(t)'
  <1>1. /\ UNCHANGED <<tcpVars, toPeer, restarts, irs, agreed>>
        /\ inc[t] \in Nat /\ sent[t] \in Nat /\ acked[t] \in Nat
        /\ StreamLen \in Nat
    BY IncarnationsAssumption
    DEF PeerSends, Connect, SendFin, GiveUp, SendBytes, TypeOK
  <1>2. /\ IsConnected(t) => [inc |-> inc[t], iss |-> irs[t]] \in agreed'[t]
        /\ IsConnected(t) => acked[t] <= sent[t]
        /\ \A k, n : ConnectedTo(t, k, n) /\ IsConnected(t) /\ irs[t] = Own => acked[t] <= n
        /\ \A k, n : ConnectedTo(t, k, n) =>
              \A a \in agreed'[t] : a.iss = Own => a.inc = k
        /\ state[t] = "ABSENT" => \A a \in agreed'[t] : a.iss # Own
    BY <1>1 DEF TupleInv, PeerInv, ServerInv, ConnectedTo, Unknown
  <1>3. Chosen' = Chosen
    BY <1>1 DEF Chosen
  <1>4. CASE Connect(t)
    <2>1. /\ inc'[t] = inc[t] + 1 /\ inc[t] + 1 \in Incarnations
          /\ peer'[t] = "SYN_SENT" /\ acked'[t] = 0 /\ sent'[t] = 0
          /\ toServer' = toServer \cup {Syn(t, inc[t] + 1)}
      BY <1>4 DEF Connect, Sends, TypeOK
    <2>2. SoFar(t)' = SoFar(t) \cup {inc[t] + 1} /\ inc[t] + 1 \in SoFar(t)'
      BY <1>1, <2>1 DEF SoFar
    <2>3. PeerInv(t)'
      BY <1>1, <1>3, <2>1, <2>2 DEF TupleInv, PeerInv, IsConnected
    <2>4. ASSUME NEW s, s = Syn(t, inc[t] + 1) PROVE SegmentInv(s)'
      BY <2>2, <2>4 DEF Syn, Segment, SegmentInv
    <2>5. ~IsConnected(t)'
      BY <2>1 DEF IsConnected
    <2> QED
      BY <1>1, <1>2, <2>1, <2>3, <2>4, <2>5, PeerStepKeeps
  <1>5. CASE SendFin(t)
    <2>1. /\ IsConnected(t) /\ IsConnected(t)' /\ sent[t] = StreamLen
          /\ peer'[t] = "FIN_WAIT"
          /\ UNCHANGED <<inc, acked, sent>>
          /\ toServer' = toServer \cup {Behind(t, {"FIN", "ACK"}, irs[t], StreamLen, 0)}
      BY <1>5 DEF SendFin, Sends, IsConnected, TypeOK
    <2>2. PeerInv(t)'
      BY <1>1, <1>3, <2>1 DEF TupleInv, PeerInv, SoFar
    <2>3. ASSUME NEW s, s = Behind(t, {"FIN", "ACK"}, irs[t], StreamLen, 0)
          PROVE  SegmentInv(s)'
      <3>1. StreamLen \in 0 .. StreamLen /\ 0 \in Nat /\ StreamLen + 0 <= sent'[t]
            /\ StreamLen + 0 <= StreamLen
        BY <1>1, <2>1
      <3> QED
        BY <1>2, <2>1, <2>3, <3>1, BehindIsAgreed
    <2> QED
      BY <1>1, <1>2, <2>1, <2>2, <2>3, PeerStepKeeps
  <1>6. CASE GiveUp(t)
    <2>1. /\ ~IsConnected(t)' /\ peer'[t] = "CLOSED"
          /\ UNCHANGED <<inc, acked, sent>>
      BY <1>6 DEF GiveUp, IsConnected, TypeOK
    <2>2. PeerInv(t)'
      BY <1>1, <1>3, <2>1 DEF TupleInv, PeerInv, SoFar
    <2>3. ASSUME NEW s \in toServer', s \notin toServer
          PROVE  SegmentInv(s)'
      <3>1. IsConnected(t) /\ s = Behind(t, {"RST", "ACK"}, irs[t], sent[t], 0)
        BY <1>6, <2>3 DEF GiveUp, Sends, IsConnected
      <3>2. sent[t] \in 0 .. StreamLen /\ 0 \in Nat /\ sent[t] + 0 <= sent'[t]
            /\ sent[t] + 0 <= StreamLen
        BY <1>1, <2>1 DEF TypeOK
      <3> QED
        BY <1>2, <2>1, <3>1, <3>2, BehindIsAgreed
    <2> QED
      BY <1>1, <1>2, <2>1, <2>2, <2>3, PeerStepKeeps
  <1>7. ASSUME NEW n \in 0 .. StreamLen, NEW len \in 1 .. StreamLen, SendBytes(t, n, len)
        PROVE  TupleInv(t)'
    <2>1. /\ IsConnected(t) /\ n + len <= StreamLen
          /\ UNCHANGED <<peer, inc, acked>> /\ sent'[t] = Max2(sent[t], n + len)
          /\ toServer' = toServer \cup {Behind(t, {"ACK"}, irs[t], n, len)}
      BY <1>7 DEF SendBytes, Sends, IsConnected, TypeOK
    <2>2. /\ sent'[t] \in Nat /\ sent[t] <= sent'[t] /\ n + len <= sent'[t]
          /\ len \in Nat /\ acked[t] <= sent'[t]
      BY <1>1, <1>2, <2>1 DEF Max2
    <2>3. PeerInv(t)'
      BY <1>1, <1>3, <2>1, <2>2 DEF TupleInv, PeerInv, SoFar, IsConnected
    <2>4. ASSUME NEW s, s = Behind(t, {"ACK"}, irs[t], n, len) PROVE SegmentInv(s)'
      BY <1>2, <2>1, <2>2, <2>4, BehindIsAgreed
    <2>5. IsConnected(t)' <=> IsConnected(t)
      BY <2>1 DEF IsConnected
    <2> QED
      BY <1>1, <1>2, <2>1, <2>2, <2>3, <2>4, <2>5, PeerStepKeeps
  <1> QED
    BY <1>4, <1>5, <1>6, <1>7 DEF PeerSends
\* A SYN-ACK that acknowledges the peer's SYN and is of DNet's present life is
\* about the connection of the peer's own incarnation: the peer agrees with
\* DNet, and never takes what DNet holds of an earlier incarnation for its own.
LEMMA TakeSynAckKeeps ==
  ASSUME TypeOK, NEW r \in toPeer, TupleInv(r.tuple), TakeSynAck(r),
         UNCHANGED <<tcpVars, toPeer, restarts>>
  PROVE  TupleInv(r.tuple)'
  <1> DEFINE t == r.tuple
             new == [inc |-> inc[t], iss |-> r.seq]
  <1>1. /\ t \in Tuples /\ r.seq \in SeqNo
        /\ inc[t] \in Nat /\ sent[t] \in Nat /\ 0 \in 0 .. StreamLen
    BY IncarnationsAssumption DEF TypeOK, Replies
  <1>2. /\ peer[t] = "SYN_SENT" /\ "SYN" \in r.flags
        /\ r.ack = SeqAdd(IsnOf[inc[t]], 0 + 1)
        /\ peer'[t] = "ESTABLISHED" /\ irs'[t] = r.seq
        /\ agreed'[t] = agreed[t] \cup {new}
        /\ toServer' = toServer \cup {Behind(t, {"ACK"}, r.seq, 0, 0)}
        /\ UNCHANGED <<inc, acked, sent>>
    BY <1>1 DEF TakeSynAck, Acks, TypeOK
  <1>3. /\ inc[t] \in SoFar(t) /\ inc[t] \in Incarnations
        /\ acked[t] = 0 /\ sent[t] = 0
    BY <1>2 DEF TupleInv, PeerInv
  <1>4. r.seq \in Chosen
    BY <1>2 DEF TupleInv, ReplyInv
  <1>5. Chosen' = Chosen /\ SoFar(t)' = SoFar(t)
    BY <1>2 DEF Chosen, SoFar
  <1>6. new.inc = inc[t] /\ new.iss = r.seq
    OBVIOUS
  <1>7. ASSUME NEW k \in SoFar(t), NEW n \in 0 .. StreamLen, ConnectedTo(t, k, n),
               r.seq = Own
        PROVE  k = inc[t]
    <2>1. r.ack = SeqAdd(IsnOf[k], 0 + 1)
      BY <1>2, <1>7 DEF ConnectedTo, Recent
    <2>2. k \in Incarnations
      BY DEF TupleInv, PeerInv
    <2>3. 0 + 1 \in 0 .. StreamLen + 1
      BY IncarnationsAssumption
    <2> QED
      BY <1>2, <1>3, <2>1, <2>2, <2>3, SameByte
  <1>8. state[t] = "ABSENT" => r.seq # Own
    BY <1>2 DEF TupleInv, ServerInv, Unknown, Recent
  <1>9. PeerInv(t)'
    BY <1>2, <1>3, <1>4, <1>5 DEF TupleInv, PeerInv, IsConnected
  <1>10. ASSUME NEW s, s = Behind(t, {"ACK"}, r.seq, 0, 0) PROVE SegmentInv(s)'
    <2>1. /\ s.tuple = t /\ "SYN" \notin s.flags /\ s.len = 0
          /\ s.seq = SeqAdd(IsnOf[inc[t]], 0 + 1) /\ s.ack = SeqAdd(r.seq, 1)
          /\ s.off = Base(inc[t]) + 0
      BY <1>10 DEF Behind, Segment
    <2>2. PICK a \in agreed'[t] : a.inc = inc[t] /\ a.iss = r.seq
      BY <1>2, <1>6
    <2>3. 0 + 0 <= StreamLen /\ 0 + 0 <= sent'[t]
      BY <1>1, <1>2, <1>3
    <2>4. IsBehind(s, a, 0)'
      BY <1>1, <2>1, <2>2, <2>3 DEF IsBehind
    <2> QED
      BY <1>1, <2>1, <2>2, <2>4 DEF SegmentInv
  <1>11. ASSUME NEW k \in SoFar(t), NEW n \in 0 .. StreamLen, ConnectedTo(t, k, n)
         PROVE  /\ IsConnected(t)' /\ irs'[t] = Own => acked'[t] <= n
                /\ \A a \in agreed'[t] : a.iss = Own => a.inc = k
    <2>1. acked'[t] <= n
      BY <1>1, <1>2, <1>3
    <2>2. ASSUME NEW a \in agreed'[t], a.iss = Own PROVE a.inc = k
      <3>1. CASE a = new
        BY <1>6, <1>7, <1>11, <2>2, <3>1
      <3>2. CASE a \in agreed[t]
        BY <1>11, <2>2, <3>2 DEF ConnectedTo
      <3> QED
        BY <1>2, <3>1, <3>2
    <2> QED
      BY <2>1, <2>2
  <1>12. state[t] = "ABSENT" => \A a \in agreed'[t] : a.iss # Own
    <2>1. state[t] = "ABSENT" => \A a \in agreed[t] : a.iss # Own
      BY DEF TupleInv, ServerInv, Unknown
    <2> QED
      BY <1>2, <1>6, <1>8, <2>1
  <1> HIDE DEF t, new
  <1>13. /\ agreed[t] \subseteq agreed'[t] /\ inc'[t] \in Nat /\ sent'[t] \in Nat
         /\ inc'[t] = inc[t] /\ sent[t] <= sent'[t]
         /\ \A s \in toServer' : s.tuple = t => s \in toServer \/ SegmentInv(s)'
    BY <1>1, <1>2, <1>10
  <1>14. TupleInv(t)
    BY DEF t
  <1>15. TupleInv(t)'
    BY <1>1, <1>9, <1>11, <1>12, <1>13, <1>14, PeerStepKeeps
  <1> QED
    BY <1>15 DEF t

\* An acknowledgement that a peer takes is no older than its agreement and
\* acknowledges nothing that DNet has not received.
LEMMA TakeAckKeeps ==
  ASSUME TypeOK, NEW r \in toPeer, TupleInv(r.tuple), TakeAck(r),
         UNCHANGED <<tcpVars, toPeer, restarts>>
  PROVE  TupleInv(r.tuple)'
  <1>1. PICK t \in Tuples : t = r.tuple
    BY DEF TypeOK, Replies
  <1>2. /\ inc[t] \in Nat /\ sent[t] \in 0 .. StreamLen /\ acked[t] \in Nat
        /\ irs[t] \in SeqNo /\ StreamLen \in Nat
    BY IncarnationsAssumption DEF TypeOK
  <1>3. PICK b \in acked[t] + 1 .. sent[t] :
           Acks(r, inc[t], b) /\ acked' = [acked EXCEPT ![t] = b]
    BY <1>1 DEF TakeAck
  <1>4. /\ IsConnected(t) /\ "SYN" \notin r.flags /\ r.seq = SeqAdd(irs[t], 1)
        /\ r.ack = SeqAdd(IsnOf[inc[t]], b + 1) /\ acked'[t] = b
        /\ UNCHANGED <<peer, inc, irs, sent, agreed, toServer>>
    BY <1>1, <1>3 DEF TakeAck, IsConnected, Acks, TypeOK
  <1>5. b \in Nat /\ b <= sent[t] /\ b + 1 \in 0 .. StreamLen + 1
    BY <1>2
  <1>6. /\ TupleInv(t) /\ SoFar(t) \subseteq Incarnations /\ inc[t] \in Incarnations
    BY <1>1, <1>4 DEF TupleInv, PeerInv
  <1>7. PeerInv(t)'
    BY <1>4, <1>5, <1>6 DEF TupleInv, PeerInv, IsConnected, SoFar, Chosen
  <1>8. ASSUME NEW k \in SoFar(t), NEW n \in 0 .. StreamLen, ConnectedTo(t, k, n),
               irs[t] = Own
        PROVE  b <= n
    <2>1. Recent(r)
      BY <1>4, <1>8 DEF Recent
    <2>2. PICK m \in 0 .. n : r.ack = SeqAdd(IsnOf[k], m + 1)
      BY <1>1, <1>8, <2>1 DEF ConnectedTo
    <2>3. m + 1 \in 0 .. StreamLen + 1 /\ m \in Nat /\ m <= n
      BY <1>2
    <2>4. b + 1 = m + 1
      BY <1>4, <1>5, <1>6, <2>2, <2>3, SameByte
    <2> QED
      BY <1>5, <2>3, <2>4
  <1>9. ASSUME NEW k \in SoFar(t), NEW n \in 0 .. StreamLen, ConnectedTo(t, k, n)
        PROVE  /\ IsConnected(t)' /\ irs'[t] = Own => acked'[t] <= n
               /\ \A a \in agreed'[t] : a.iss = Own => a.inc = k
    BY <1>4, <1>8, <1>9 DEF ConnectedTo
  <1>10. state[t] = "ABSENT" => \A a \in agreed'[t] : a.iss # Own
    BY <1>4, <1>6 DEF TupleInv, ServerInv, Unknown
  <1>11. /\ agreed[t] \subseteq agreed'[t] /\ inc'[t] \in Nat /\ sent'[t] \in Nat
         /\ inc'[t] = inc[t] /\ sent[t] <= sent'[t]
         /\ \A s \in toServer' : s.tuple = t => s \in toServer \/ SegmentInv(s)'
    BY <1>2, <1>4
  <1>12. TupleInv(t)'
    BY <1>6, <1>7, <1>9, <1>10, <1>11, PeerStepKeeps
  <1> QED
    BY <1>1, <1>12

\* The reset with which a peer answers what it cannot place carries no byte
\* and acknowledges nothing.
LEMMA ResetKeeps ==
  ASSUME TypeOK, NEW r \in toPeer, TupleInv(r.tuple), Reset(r),
         UNCHANGED <<tcpVars, toPeer, restarts>>
  PROVE  TupleInv(r.tuple)'
  <1>1. PICK t \in Tuples : t = r.tuple
    BY DEF TypeOK, Replies
  <1>2. /\ UNCHANGED peerVars
        /\ toServer' = toServer \cup {Segment(t, {"RST"}, r.ack, 0, 0, 0)}
    BY <1>1 DEF Reset
  <1>3. ASSUME NEW s, s = Segment(t, {"RST"}, r.ack, 0, 0, 0) PROVE SegmentInv(s)'
    BY <1>3 DEF Segment, SegmentInv
  <1>4. TupleInv(t) /\ inc[t] \in Nat /\ sent[t] \in Nat
    BY <1>1 DEF TypeOK
  <1>5. PeerInv(t)'
    BY <1>2, <1>4 DEF TupleInv, PeerInv, peerVars, IsConnected, SoFar, Chosen
  <1>6. ASSUME NEW k \in SoFar(t), NEW n \in 0 .. StreamLen, ConnectedTo(t, k, n)
        PROVE  /\ IsConnected(t)' /\ irs'[t] = Own => acked'[t] <= n
               /\ \A a \in agreed'[t] : a.iss = Own => a.inc = k
    BY <1>2, <1>6 DEF ConnectedTo, IsConnected, peerVars
  <1>7. state[t] = "ABSENT" => \A a \in agreed'[t] : a.iss # Own
    BY <1>2, <1>4 DEF TupleInv, ServerInv, Unknown, peerVars
  <1>8. /\ agreed[t] \subseteq agreed'[t] /\ inc'[t] \in Nat /\ sent'[t] \in Nat
        /\ inc'[t] = inc[t] /\ sent[t] <= sent'[t]
        /\ \A s \in toServer' : s.tuple = t => s \in toServer \/ SegmentInv(s)'
    BY <1>2, <1>3, <1>4 DEF peerVars
  <1>9. TupleInv(t)'
    BY <1>4, <1>5, <1>6, <1>7, <1>8, PeerStepKeeps
  <1> QED
    BY <1>1, <1>9

\* No step of any peer breaks the invariant of any tuple.
LEMMA PeersKeepInv ==
  ASSUME TypeOK, IncarnationsInv,
         (\E t \in Tuples : PeerSends(t)) \/ (\E r \in toPeer : PeerRecv(r))
  PROVE  IncarnationsInv'
  <1>1. ASSUME NEW t \in Tuples, PeerSends(t) PROVE IncarnationsInv'
    <2>1. TupleInv(t)'
      BY <1>1, SendingKeeps DEF IncarnationsInv
    <2>2. ASSUME NEW u \in Tuples, u # t PROVE TupleInv(u)'
      <3>1. TupleVars(u)' = TupleVars(u)
        BY <1>1, <2>2 DEF PeerSends, Connect, SendFin, GiveUp, SendBytes, TupleVars,
                          tcpVars, TypeOK
      <3>2. restarts' = restarts /\ toPeer' = toPeer
        BY <1>1 DEF PeerSends
      <3>3. \A s \in toServer' : s.tuple = u => s \in toServer
        BY <1>1, <2>2 DEF PeerSends, Connect, SendFin, GiveUp, SendBytes, Sends,
                          Syn, Behind, Segment
      <3> QED
        BY <3>1, <3>2, <3>3, UntouchedTuple DEF IncarnationsInv
    <2> QED
      BY <2>1, <2>2 DEF IncarnationsInv
  <1>2. ASSUME NEW r \in toPeer, PeerRecv(r) PROVE IncarnationsInv'
    <2>1. r.tuple \in Tuples /\ UNCHANGED <<tcpVars, toPeer, restarts>>
      BY <1>2 DEF PeerRecv, TypeOK, Replies
    <2>2. TupleInv(r.tuple)'
      BY <1>2, <2>1, TakeSynAckKeeps, TakeAckKeeps, ResetKeeps
      DEF PeerRecv, IncarnationsInv
    <2>3. ASSUME NEW u \in Tuples, u # r.tuple PROVE TupleInv(u)'
      <3>1. TupleVars(u)' = TupleVars(u)
        BY <1>2, <2>1, <2>3 DEF PeerRecv, TakeSynAck, Reset, TakeAck, TupleVars,
                                tcpVars, peerVars, TypeOK
      <3>2. \A s \in toServer' : s.tuple = u => s \in toServer
        BY <1>2, <2>3 DEF PeerRecv, TakeSynAck, Reset, TakeAck, Behind, Segment
      <3> QED
        BY <2>1, <3>1, <3>2, UntouchedTuple DEF IncarnationsInv
    <2> QED
      BY <2>2, <2>3 DEF IncarnationsInv
  <1> QED
    BY <1>1, <1>2
-----------------------------------------------------------------------------
(* The invariant and what it gives.                                        *)

\* After a restart DNet chooses a number that it has not chosen in any earlier
\* life, so everything still under way is of an earlier life.
LEMMA RestartKeepsInv ==
  ASSUME TypeOK, IncarnationsInv, Restart
  PROVE  IncarnationsInv'
  <1>1. /\ restarts \in Nat /\ restarts' = restarts + 1 /\ restarts + 1 <= MaxRestarts
        /\ UNCHANGED <<peerVars, toServer, toPeer>>
        /\ \A t \in Tuples : state'[t] = "ABSENT" /\ rcvbuf'[t] = << >>
    BY IncarnationsAssumption DEF TypeOK, Restart, TcpRestart
  <1>2. /\ Chosen \subseteq Chosen' /\ Chosen \subseteq SeqNo
        /\ Own' \in SeqNo /\ Own' \notin Chosen
    <2>1. 0 .. restarts \subseteq 0 .. restarts'
      BY <1>1
    <2>2. /\ restarts + 1 \in 0 .. MaxRestarts
          /\ \A i \in 0 .. restarts : i \in 0 .. MaxRestarts /\ i # restarts + 1
      BY <1>1, IncarnationsAssumption
    <2>3. \A i \in 0 .. restarts : IssOf[i] # IssOf[restarts + 1]
      BY <2>2, IncarnationsAssumption
    <2>4. IssOf[restarts + 1] \in SeqNo
      BY <2>2, IncarnationsAssumption, IssAssumption DEF SeqNo
    <2>5. Chosen \subseteq SeqNo
      BY ChosenType DEF TypeOK
    <2> QED
      BY <1>1, <2>1, <2>3, <2>4, <2>5 DEF Chosen, Own
  <1>3. \A t : SoFar(t)' = SoFar(t) /\ (IsConnected(t)' <=> IsConnected(t))
    BY <1>1 DEF SoFar, IsConnected, peerVars
  <1>4. ASSUME NEW t \in Tuples PROVE TupleInv(t)'
    <2>1. TupleInv(t)
      BY DEF IncarnationsInv
    <2>2. PeerInv(t)'
      BY <1>1, <1>2, <1>3, <2>1 DEF TupleInv, PeerInv, peerVars
    <2>3. \A s \in toServer' : s.tuple = t => SegmentInv(s)'
      BY <1>1, <1>3, <2>1 DEF TupleInv, SegmentInv, IsBehind, peerVars
    <2>4. \A r \in toPeer' : r.tuple = t => ReplyInv(r)'
      BY <1>1, <1>2, <2>1 DEF TupleInv, ReplyInv
    <2>5. ASSUME NEW r \in toPeer', r.tuple = t PROVE ~Recent(r)'
      <3>1. ReplyInv(r)
        BY <1>1, <2>1, <2>5 DEF TupleInv
      <3>2. CASE "SYN" \in r.flags
        BY <1>2, <3>1, <3>2 DEF ReplyInv, Recent
      <3>3. CASE "SYN" \notin r.flags
        <4>1. PICK i \in Chosen : r.seq = SeqAdd(i, 1)
          BY <3>1, <3>3 DEF ReplyInv
        <4>2. SeqAdd(i, 1) # SeqAdd(Own', 1)
          BY <1>2, SameBefore
        <4> QED
          BY <3>3, <4>1, <4>2 DEF Recent
      <3> QED
        BY <3>2, <3>3
    <2>6. \A a \in agreed'[t] : a.iss # Own'
      BY <1>1, <1>2, <2>1 DEF TupleInv, PeerInv, peerVars
    <2>7. ServerInv(t)'
      BY <1>1, <2>5, <2>6 DEF ServerInv, Unknown
    <2> QED
      BY <2>2, <2>3, <2>4, <2>7 DEF TupleInv
  <1> QED
    BY <1>4 DEF IncarnationsInv

\* At the beginning nobody has heard of anything.
LEMMA InitInv == Init => IncarnationsInv
  <1> SUFFICES ASSUME Init, NEW t \in Tuples PROVE TupleInv(t)
    BY DEF IncarnationsInv
  <1>1. /\ state[t] = "ABSENT" /\ rcvbuf[t] = << >> /\ peer[t] = "CLOSED"
        /\ inc[t] = 0 /\ agreed[t] = {} /\ toServer = {} /\ toPeer = {}
    BY DEF Init, TcpInit
  <1>2. SoFar(t) = {}
    BY <1>1 DEF SoFar
  <1>3. PeerInv(t) /\ ServerInv(t)
    BY <1>1, <1>2 DEF PeerInv, ServerInv, IsConnected, Unknown
  <1> QED
    BY <1>1, <1>3 DEF TupleInv

\* Whatever the network keeps, repeats and reorders, all that is known of a
\* tuple in DNet's present life is about one incarnation of its peer.
THEOREM IncarnationsInvariant ==
  ASSUME MinPayload = 0
  PROVE  Spec => []IncarnationsInv
  <1>1. TypeOK /\ IncarnationsInv /\ [Next]_vars => IncarnationsInv'
    <2> SUFFICES ASSUME TypeOK, IncarnationsInv, [Next]_vars PROVE IncarnationsInv'
      OBVIOUS
    <2>1. CASE UNCHANGED vars
      BY <2>1, UntouchedTuple
      DEF IncarnationsInv, TupleVars, vars, tcpVars, peerVars
    <2> QED
      BY <2>1, ServerKeepsInv, PeersKeepInv, RestartKeepsInv DEF Next
  <1> QED
    BY InitInv, TypeCorrect, <1>1, PTL DEF Spec

\* The bytes kept for a tuple are the beginning of one incarnation's stream.
THEOREM OneStreamOnly ==
  ASSUME MinPayload = 0
  PROVE  Spec => []OneStream
  <1>1. TypeOK /\ IncarnationsInv => OneStream
    <2> SUFFICES ASSUME TypeOK, IncarnationsInv, NEW t \in Tuples, rcvbuf[t] # << >>
                 PROVE  \E k \in 1 .. inc[t] :
                           \A i \in DOMAIN rcvbuf[t] : rcvbuf[t][i] = Base(k) + i
      BY DEF OneStream
    <2>1. ServerInv(t)
      BY DEF IncarnationsInv, TupleInv
    <2>2. PICK k \in SoFar(t), n \in 0 .. StreamLen : ConnectedTo(t, k, n)
      BY <2>1 DEF ServerInv, Unknown
    <2>3. DOMAIN rcvbuf[t] = 1 .. Len(rcvbuf[t])
      BY DEF TypeOK, TcpTypeOK
    <2> QED
      BY <2>2, <2>3 DEF ConnectedTo, SoFar
  <1> QED
    BY TypeCorrect, IncarnationsInvariant, <1>1, PTL

\* A connected peer is connected to what DNet holds of its own incarnation, as
\* long as DNet has not restarted, and DNet has what it takes as acknowledged.
THEOREM NeverTheOldConnection ==
  ASSUME MinPayload = 0
  PROVE  Spec => []NotTheOldConnection
  <1>1. TypeOK /\ IncarnationsInv => NotTheOldConnection
    <2> SUFFICES ASSUME TypeOK, IncarnationsInv, NEW t \in Tuples,
                        IsConnected(t), restarts = 0
                 PROVE  /\ state[t] # "ABSENT"
                        /\ snd_nxt[t] = SeqAdd(irs[t], 1)
                        /\ \E n \in acked[t] .. sent[t] :
                              rcv_nxt[t] = SeqAdd(IsnOf[inc[t]], n + 1)
      BY DEF NotTheOldConnection, IsConnected
    <2>1. PeerInv(t) /\ ServerInv(t)
      BY DEF IncarnationsInv, TupleInv
    <2>2. PICK a \in agreed[t] : a.inc = inc[t] /\ a.iss = irs[t]
      BY <2>1 DEF PeerInv
    <2>3. irs[t] = Own
      <3>1. irs[t] \in Chosen
        BY <2>1, <2>2 DEF PeerInv
      <3>2. \A i \in 0 .. restarts : i = restarts
        OBVIOUS
      <3> QED
        BY <3>1, <3>2 DEF Chosen, Own
    <2>4. state[t] # "ABSENT"
      BY <2>1, <2>2, <2>3 DEF ServerInv, Unknown
    <2>5. PICK k \in SoFar(t), n \in 0 .. StreamLen : ConnectedTo(t, k, n)
      BY <2>1, <2>4 DEF ServerInv
    <2>6. k = inc[t]
      BY <2>2, <2>3, <2>5 DEF ConnectedTo
    <2>7. acked[t] <= n /\ n <= sent[t]
      BY <2>3, <2>5, <2>6 DEF ConnectedTo
    <2>8. n \in acked[t] .. sent[t]
      <3>1. acked[t] \in Nat /\ sent[t] \in Nat /\ n \in Nat
        BY IncarnationsAssumption DEF TypeOK
      <3> QED
        BY <2>7, <3>1
    <2> QED
      BY <2>3, <2>4, <2>5, <2>6, <2>8 DEF ConnectedTo
  <1> QED
    BY TypeCorrect, IncarnationsInvariant, <1>1, PTL

\* An ESTABLISHED connection was agreed on with some incarnation: neither an
\* old SYN nor an old acknowledgement establishes one, across restarts too.
THEOREM EstablishedIsAgreed ==
  ASSUME MinPayload = 0
  PROVE  Spec => []EstablishedWasAgreed
  <1>1. TypeOK /\ IncarnationsInv => EstablishedWasAgreed
    <2> SUFFICES ASSUME TypeOK, IncarnationsInv, NEW t \in Tuples,
                        state[t] = "ESTABLISHED"
                 PROVE  \E a \in agreed[t] : /\ snd_nxt[t] = SeqAdd(a.iss, 1)
                                             /\ rcv_nxt[t] \in NumbersOf(a.inc)
      BY DEF EstablishedWasAgreed
    <2>1. ServerInv(t)
      BY DEF IncarnationsInv, TupleInv
    <2>2. PICK a \in agreed[t] : a.iss = Own
      BY <2>1 DEF ServerInv
    <2>3. PICK k \in SoFar(t), n \in 0 .. StreamLen : ConnectedTo(t, k, n)
      BY <2>1 DEF ServerInv
    <2>4. snd_nxt[t] = SeqAdd(a.iss, 1) /\ rcv_nxt[t] = SeqAdd(IsnOf[a.inc], n + 1)
      BY <2>2, <2>3 DEF ConnectedTo
    <2>5. n + 1 \in 0 .. StreamLen + 1
      BY IncarnationsAssumption
    <2> QED
      BY <2>4, <2>5 DEF NumbersOf
  <1> QED
    BY TypeCorrect, IncarnationsInvariant, <1>1, PTL
=============================================================================
