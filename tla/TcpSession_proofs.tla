------------------------- MODULE TcpSession_proofs -------------------------
(***************************************************************************)
(* Theorems about TcpSession, for every set of tuples, buffer size, stream *)
(* length, window and sequence space that the named assumptions allow.     *)
(***************************************************************************)
EXTENDS TcpSession, TLAPS

USE DEF PeerTypeOK

-----------------------------------------------------------------------------
(* What the payload of a segment is, and what writeAll keeps of it.        *)

\* The sum of two sequence numbers is a sequence number.
LEMMA SeqAddType == \A a, n \in Nat : SeqAdd(a, n) \in SeqNo
  BY SeqModAssumption, SMT DEF SeqAdd, SeqNo

\* Sequence numbers are naturals, zero among them.
LEMMA SeqNoNat == SeqNo \subseteq Nat /\ 0 \in SeqNo
  BY SeqModAssumption, SMT DEF SeqNo

\* The payload on_recv takes from a segment: a sequence of octets as long as
\* payload_size, which is a natural number.
LEMMA PayloadType ==
  ASSUME NEW s, s.off \in Nat, s.len \in Nat
  PROVE  /\ PayloadSize(s) \in Nat
         /\ Payload(s) \in Seq(Nat)
         /\ Len(Payload(s)) = PayloadSize(s)
         /\ \A i \in 1 .. PayloadSize(s) :
                Payload(s)[i] = IF i <= s.len THEN s.off + i ELSE PadOctet
  <1>1. PayloadSize(s) \in Nat
    BY MinPayloadAssumption DEF PayloadSize, Max2
  <1> QED
    BY <1>1 DEF Payload, PadOctet

\* Appending to a sequence keeps what it holds and puts the rest behind it.
LEMMA ConcatKeeps ==
  ASSUME NEW q \in Seq(Nat), NEW e \in Seq(Nat)
  PROVE  /\ q \o e \in Seq(Nat)
         /\ Len(q \o e) = Len(q) + Len(e)
         /\ \A i \in 1 .. Len(q) : (q \o e)[i] = q[i]
         /\ \A i \in Len(q) + 1 .. Len(q \o e) : (q \o e)[i] = e[i - Len(q)]
  OBVIOUS

\* writeAll keeps what the buffer holds, adds the first bytes of the segment,
\* and never holds more than MaxBytes.
LEMMA WriteAllKeeps ==
  ASSUME NEW q \in Seq(Nat), NEW d \in Seq(Nat), Len(q) <= MaxBytes
  PROVE  /\ WriteAllTo(q, d) \in Seq(Nat)
         /\ Len(WriteAllTo(q, d)) <= MaxBytes
         /\ Len(WriteAllTo(q, d)) >= Len(q)
         /\ \A i \in 1 .. Len(q) : WriteAllTo(q, d)[i] = q[i]
         /\ Fits(q, Len(d)) =>
              /\ Len(WriteAllTo(q, d)) = Len(q) + Stored(q, Len(d))
              /\ \A i \in Len(q) + 1 .. Len(WriteAllTo(q, d)) :
                     WriteAllTo(q, d)[i] = d[i - Len(q)]
  <1>1. /\ Stored(q, Len(d)) \in Nat
        /\ Stored(q, Len(d)) <= Len(d)
        /\ Len(q) + Stored(q, Len(d)) <= MaxBytes
    BY BufferSizeAssumption DEF Stored, MaxBytes
  <1> DEFINE e == SubSeq(d, 1, Stored(q, Len(d)))
  <1>2. /\ e \in Seq(Nat)
        /\ Len(e) = Stored(q, Len(d))
        /\ \A i \in 1 .. Len(e) : e[i] = d[i]
    BY <1>1
  <1>3. CASE Fits(q, Len(d))
    <2>1. WriteAllTo(q, d) = q \o e
      BY <1>3 DEF WriteAllTo
    <2> HIDE DEF e
    <2>2. /\ q \o e \in Seq(Nat)
          /\ Len(q \o e) = Len(q) + Len(e)
          /\ \A i \in 1 .. Len(q) : (q \o e)[i] = q[i]
          /\ \A i \in Len(q) + 1 .. Len(q \o e) : (q \o e)[i] = e[i - Len(q)]
      BY <1>2, ConcatKeeps
    <2>3. \A i \in Len(q) + 1 .. Len(q \o e) : (q \o e)[i] = d[i - Len(q)]
      <3> TAKE i \in Len(q) + 1 .. Len(q \o e)
      <3>1. i - Len(q) \in 1 .. Len(e)
        BY <1>2, <2>2
      <3> QED
        BY <2>2, <3>1, <1>2
    <2> QED
      BY <2>1, <2>2, <2>3, <1>1, <1>2
  <1>4. CASE ~Fits(q, Len(d))
    BY <1>4 DEF WriteAllTo
  <1> QED
    BY <1>3, <1>4

\* A buffer that holds the beginning of a numbered stream, cut off where it is
\* full, holds the beginning of it still when the next bytes are written: what
\* writeAll drops is behind everything that it keeps.
LEMMA WritingExtends ==
  ASSUME NEW q \in Seq(Nat), NEW d \in Seq(Nat), NEW base \in Nat,
         NEW n \in Nat, NEW len \in Nat,
         Len(q) = IF n <= MaxBytes THEN n ELSE MaxBytes,
         \A i \in 1 .. Len(q) : q[i] = base + i,
         Len(d) = len, \A i \in 1 .. len : d[i] = base + n + i,
         Fits(q, len)
  PROVE  /\ WriteAllTo(q, d) \in Seq(Nat)
         /\ Len(WriteAllTo(q, d)) = IF n + len <= MaxBytes THEN n + len ELSE MaxBytes
         /\ \A i \in 1 .. Len(WriteAllTo(q, d)) : WriteAllTo(q, d)[i] = base + i
  <1>1. MaxBytes \in Nat /\ Len(q) \in Nat /\ Len(q) <= MaxBytes
    BY BufferSizeAssumption DEF MaxBytes
  <1> DEFINE w == WriteAllTo(q, d)
  <1>2. /\ Len(w) = Len(q) + Stored(q, len)
        /\ w \in Seq(Nat)
        /\ \A i \in 1 .. Len(q) : w[i] = q[i]
        /\ \A i \in Len(q) + 1 .. Len(w) : w[i] = d[i - Len(q)]
    BY <1>1, WriteAllKeeps
  <1> HIDE DEF w
  <1>3. Len(w) = IF n + len <= MaxBytes THEN n + len ELSE MaxBytes
    BY <1>1, <1>2 DEF Stored
  <1>4. ASSUME NEW i \in 1 .. Len(w), ~(i <= Len(q)) PROVE w[i] = base + i
    <2>1. Len(w) \in Nat
      BY <1>2
    <2>2. i \in Len(q) + 1 .. Len(w)
      BY <1>1, <1>4, <2>1
    <2>3. Len(q) = n /\ Len(w) <= n + len
      BY <1>1, <1>3, <2>1, <2>2
    <2>4. i - n \in 1 .. len
      BY <2>1, <2>2, <2>3
    <2>5. w[i] = d[i - n]
      BY <1>2, <2>2, <2>3
    <2>6. d[i - n] = base + n + (i - n)
      BY <2>4
    <2> QED
      BY <2>5, <2>6, <2>4
  <1>5. ASSUME NEW i \in 1 .. Len(w), i <= Len(q) PROVE w[i] = base + i
    BY <1>1, <1>2, <1>5
  <1> QED
    BY <1>2, <1>3, <1>4, <1>5 DEF w

-----------------------------------------------------------------------------
(* Arithmetic of sequence numbers.                                         *)

\* Adding less than SeqMod to a sequence number wraps at most once.
LEMMA SeqAddValue ==
  \A a, n \in 0 .. SeqMod - 1 :
      SeqAdd(a, n) = IF a + n < SeqMod THEN a + n ELSE a + n - SeqMod
  BY SeqModAssumption, SMT DEF SeqAdd

\* A sequence number tells how far from the initial one it is.
LEMMA SeqAddInjective ==
  ASSUME NEW a \in SeqNo, NEW m \in SeqNo, NEW n \in SeqNo,
         SeqAdd(a, m) = SeqAdd(a, n)
  PROVE  m = n
  BY SeqModAssumption, SeqAddValue, SMT DEF SeqNo

\* Adding nothing to a sequence number changes nothing.
LEMMA SeqAddZero == \A a \in SeqNo : SeqAdd(a, 0) = a
  BY SeqModAssumption, SeqAddValue, SMT DEF SeqNo

\* Advancing twice is advancing by the sum, across a wrap too.
LEMMA SeqAddAssociative ==
  ASSUME NEW a \in SeqNo, NEW m \in Nat, NEW n \in Nat, m + n < SeqMod
  PROVE  SeqAdd(SeqAdd(a, m), n) = SeqAdd(a, m + n)
  <1>1. /\ m \in 0 .. SeqMod - 1 /\ n \in 0 .. SeqMod - 1
        /\ m + n \in 0 .. SeqMod - 1 /\ a \in 0 .. SeqMod - 1
    BY SeqModAssumption DEF SeqNo
  <1>2. CASE a + m < SeqMod
    <2>1. SeqAdd(a, m) = a + m /\ a + m \in 0 .. SeqMod - 1
      BY <1>1, <1>2, SeqAddValue, SeqModAssumption
    <2>2. SeqAdd(a + m, n) = IF (a + m) + n < SeqMod THEN (a + m) + n
                             ELSE (a + m) + n - SeqMod
      BY <1>1, <2>1, SeqAddValue
    <2>3. SeqAdd(a, m + n) = IF a + (m + n) < SeqMod THEN a + (m + n)
                             ELSE a + (m + n) - SeqMod
      BY <1>1, SeqAddValue
    <2> QED
      BY <1>1, <2>1, <2>2, <2>3, SeqModAssumption
  <1>3. CASE ~(a + m < SeqMod)
    <2>1. /\ SeqAdd(a, m) = a + m - SeqMod
          /\ a + m - SeqMod \in 0 .. SeqMod - 1
      BY <1>1, <1>3, SeqAddValue, SeqModAssumption
    <2>2. SeqAdd(a + m - SeqMod, n) = (a + m - SeqMod) + n
      BY <1>1, <2>1, SeqAddValue, SeqModAssumption
    <2>3. SeqAdd(a, m + n) = a + (m + n) - SeqMod
      BY <1>1, <1>3, SeqAddValue, SeqModAssumption
    <2> QED
      BY <1>1, <2>1, <2>2, <2>3, SeqModAssumption
  <1> QED
    BY <1>2, <1>3

-----------------------------------------------------------------------------
(* The session.                                                            *)

\* The SYN of a peer is a segment.
LEMMA SynSegmentType ==
  ASSUME TypeOK, NEW t \in Tuples, NEW n \in SeqNo
  PROVE  SynSegment(t) \in Segments /\ [SynSegment(t) EXCEPT !.seq = n] \in Segments
  BY SeqNoNat, StreamAssumption DEF TypeOK, SynSegment, Segments, Flags

\* So is every segment with bytes of the stream.
LEMMA DataSegmentType ==
  ASSUME TypeOK, NEW t \in Tuples, NEW server \in SeqNo,
         NEW off \in 0 .. StreamLen, NEW len \in 0 .. StreamLen
  PROVE  DataSegment(t, server, off, len) \in Segments
  <1>1. isn[t] \in SeqNo
    BY DEF TypeOK
  <1>2. isn[t] \in Nat /\ server \in Nat
    BY <1>1, SeqNoNat
  <1>3. off + 1 \in Nat
    BY StreamAssumption
  <1>4. SeqAdd(isn[t], off + 1) \in SeqNo /\ SeqAdd(server, 1) \in SeqNo
    BY <1>2, <1>3, SeqAddType
  <1> QED
    BY <1>4 DEF DataSegment, Segments, Flags

\* The initial states, and every step, give each variable a value of its type:
\* on_recv finds a connection in no other state than the ones its switch
\* handles, and the ring buffer never holds more than it can.
THEOREM TypeCorrect == Spec => []TypeOK
  <1>1. Init => TypeOK
    <2> SUFFICES ASSUME Init PROVE TypeOK
      OBVIOUS
    <2>1. MaxBytes >= 0
      BY BufferSizeAssumption DEF MaxBytes
    <2>2. TcpTypeOK
      BY <2>1, SeqNoNat DEF Init, TcpInit, TcpTypeOK, TcpStates
    <2> QED
      BY <2>2, SeqNoNat, StreamAssumption, MaxRestartsAssumption
      DEF Init, PeerInit, TypeOK, PeerStates
  <1>2. TypeOK /\ [Next]_vars => TypeOK'
    <2> SUFFICES ASSUME TypeOK, [Next]_vars PROVE TypeOK'
      OBVIOUS
    <2>1. ASSUME NEW s \in toServer, ServerRecv(s) PROVE TypeOK'
      <3>1. /\ s \in Segments /\ s.tuple \in Tuples
            /\ s.seq \in SeqNo /\ s.seq \in Nat /\ s.ack \in SeqNo
            /\ s.off \in Nat /\ s.len \in Nat
        <4>1. s \in Segments
          BY DEF TypeOK
        <4>2. s.off \in Nat /\ s.len \in Nat
          BY <4>1, StreamAssumption DEF Segments
        <4> QED
          BY <4>1, <4>2, SeqNoNat DEF Segments
      <3>2. toServer' \subseteq Segments
        BY <2>1 DEF ServerRecv, Consume, TypeOK
      <3>3. TcpTypeOK' /\ toPeer' \subseteq Replies
        <4>1. ASSUME NEW iss \in Iss, AcceptSyn(s, iss),
                     toPeer' = toPeer \cup {SynAck(s, iss)}
              PROVE  TcpTypeOK' /\ toPeer' \subseteq Replies
          <5>1. /\ iss \in SeqNo /\ iss \in Nat
                /\ SeqAdd(iss, 1) \in SeqNo /\ SeqAdd(s.seq, 1) \in SeqNo
            BY <3>1, IssAssumption, SeqAddType, SeqNoNat DEF SeqNo
          <5>2. MaxBytes >= 0
            BY BufferSizeAssumption DEF MaxBytes
          <5>3. TcpTypeOK'
            BY <4>1, <3>1, <5>1, <5>2 DEF AcceptSyn, TypeOK, TcpTypeOK, TcpStates
          <5>4. SynAck(s, iss) \in Replies
            BY <3>1, <5>1 DEF SynAck, Replies, Flags
          <5> QED
            BY <4>1, <5>3, <5>4 DEF TypeOK
        <4>2. ASSUME ReceiveInOrder(s), toPeer' = toPeer \cup {DataAck(s)}
              PROVE  TcpTypeOK' /\ toPeer' \subseteq Replies
          <5>1. SeqAdd(s.seq, PayloadSize(s)) \in SeqNo
            BY <3>1, PayloadType, SeqAddType
          <5>2. DataAck(s) \in Replies
            BY <3>1, <5>1 DEF DataAck, Replies, Flags, TypeOK, TcpTypeOK
          <5>3. /\ WriteAllTo(rcvbuf[s.tuple], Payload(s)) \in Seq(Nat)
                /\ Len(WriteAllTo(rcvbuf[s.tuple], Payload(s))) <= MaxBytes
            BY <3>1, PayloadType, WriteAllKeeps DEF TypeOK, TcpTypeOK
          <5>4. TcpTypeOK'
            BY <4>2, <3>1, <5>1, <5>3 DEF ReceiveInOrder, TypeOK, TcpTypeOK
          <5> QED
            BY <4>2, <5>2, <5>4 DEF TypeOK
        <4>3. ASSUME Silent(s), UNCHANGED toPeer
              PROVE  TcpTypeOK' /\ toPeer' \subseteq Replies
          <5>1. CASE CompleteHandshake(s)
            BY <4>3, <5>1, <3>1
            DEF CompleteHandshake, TypeOK, TcpTypeOK, TcpStates
          <5>2. CASE UNCHANGED tcpVars
            BY <4>3, <5>2 DEF tcpVars, TypeOK, TcpTypeOK
          <5> QED
            BY <4>3, <5>1, <5>2
            DEF Silent, DropUnknown, IgnoreInHandshake, RefuseWhenFull,
                IgnoreOutOfOrder
        <4> QED
          BY <2>1, <4>1, <4>2, <4>3 DEF ServerRecv
      <3> QED
        BY <2>1, <3>2, <3>3 DEF ServerRecv, peerVars, TypeOK
    <2>2. CASE Restart
      <3>1. MaxBytes >= 0
        BY BufferSizeAssumption DEF MaxBytes
      <3>2. TcpTypeOK'
        BY <2>2, <3>1, SeqNoNat DEF Restart, TcpRestart, TcpTypeOK, TcpStates
      <3> QED
        BY <2>2, <3>2, MaxRestartsAssumption
        DEF Restart, peerVars, netVars, TypeOK
    <2>3. CASE PeerSends
      <3>1. TcpTypeOK' /\ restarts' \in 0 .. MaxRestarts
        BY <2>3 DEF PeerSends, tcpVars, TypeOK, TcpTypeOK
      <3>2. ASSUME NEW t \in Tuples, NEW n \in Isn, Open(t, n) PROVE TypeOK'
        <4>1. n \in SeqNo
          BY IsnAssumption
        <4> QED
          BY <3>1, <3>2, <4>1, SynSegmentType DEF Open, TypeOK, PeerStates
      <3>3. ASSUME NEW t \in Tuples, ResendSyn(t) PROVE TypeOK'
        BY <3>1, <3>3, SynSegmentType, SeqNoNat DEF ResendSyn, peerVars, TypeOK
      <3>4. ASSUME NEW t \in Tuples, NEW off \in 0 .. StreamLen,
                   NEW len \in 0 .. Window, SendBytes(t, off, len)
            PROVE  TypeOK'
        <4>1. len \in 0 .. StreamLen /\ off + len \in 0 .. StreamLen
          BY <3>4, StreamAssumption, WindowAssumption DEF SendBytes
        <4>2. DataSegment(t, irs[t], off, len) \in Segments
          BY <4>1, DataSegmentType DEF TypeOK
        <4>3. Max2(sent[t], off + len) \in 0 .. StreamLen
          BY <4>1 DEF Max2, TypeOK
        <4> QED
          BY <3>1, <3>4, <4>2, <4>3 DEF SendBytes, TypeOK
      <3> QED
        BY <2>3, <3>2, <3>3, <3>4 DEF PeerSends
    <2>4. CASE PeerReceives
      <3>1. TcpTypeOK' /\ restarts' \in 0 .. MaxRestarts
        BY <2>4 DEF PeerReceives, tcpVars, TypeOK, TcpTypeOK
      <3>2. PICK r \in toPeer : PeerRecv(r)
        BY <2>4 DEF PeerReceives
      <3>3. /\ r \in Replies /\ r.tuple \in Tuples
            /\ r.seq \in SeqNo /\ toPeer' \subseteq Replies
        BY <3>2 DEF TypeOK, Replies, PeerRecv, Consume
      <3>4. CASE TakeSynAck(r)
        <4>1. DataSegment(r.tuple, r.seq, 0, 0) \in Segments
          BY <3>3, StreamAssumption, DataSegmentType
        <4> QED
          BY <3>1, <3>3, <3>4, <4>1 DEF TakeSynAck, TypeOK, PeerStates
      <3>5. ASSUME NEW n \in 1 .. sent[r.tuple], TakeAck(r, n) PROVE TypeOK'
        <4>1. n \in 0 .. StreamLen
          BY <3>3, StreamAssumption DEF TypeOK
        <4> QED
          BY <3>1, <3>3, <3>5, <4>1 DEF TakeAck, TypeOK
      <3>6. CASE IgnoreReply(r)
        BY <3>1, <3>3, <3>6 DEF IgnoreReply, peerVars, TypeOK
      <3> QED
        BY <3>2, <3>4, <3>5, <3>6 DEF PeerRecv
    <2>5. CASE NetworkLoses
      BY <2>5 DEF NetworkLoses, LoseSegment, LoseReply, tcpVars, peerVars,
                  TypeOK, TcpTypeOK
    <2>6. CASE UNCHANGED vars
      BY <2>6 DEF vars, tcpVars, peerVars, netVars, TypeOK, TcpTypeOK
    <2> QED
      BY <2>1, <2>2, <2>3, <2>4, <2>5, <2>6 DEF Next
  <1> QED
    BY <1>1, <1>2, PTL DEF Spec

-----------------------------------------------------------------------------
(* The inductive invariant.                                                *)

\* A step of the peers or of the network that only adds to what the peers
\* sent and know leaves everything true of the old messages and connections.
LEMMA PeersOnlyAdd ==
  ASSUME TypeOK, TypeOK', SessionInv, UNCHANGED tcpVars,
         \A t \in Tuples :
             /\ peer[t] # "CLOSED" => peer'[t] # "CLOSED" /\ isn'[t] = isn[t]
             /\ peer[t] = "ESTABLISHED" =>
                    peer'[t] = "ESTABLISHED" /\ irs'[t] = irs[t]
             /\ sent[t] <= sent'[t]
  PROVE  /\ \A s \in toServer : IsThePeers(s)'
         /\ \A r \in toPeer : AcksTheStream(r)'
         /\ \A t \in Tuples : MatchesThePeer(t)'
  <1>1. /\ \A t \in Tuples : sent[t] \in Nat /\ sent'[t] \in Nat
        /\ \A t \in Tuples : 0 .. sent[t] \subseteq 0 .. sent'[t]
    BY StreamAssumption DEF TypeOK
  <1>2. ASSUME NEW s \in toServer PROVE IsThePeers(s)'
    <2>1. s.tuple \in Tuples /\ s.off \in Nat /\ s.len \in Nat
      BY StreamAssumption DEF TypeOK, Segments
    <2>2. IsThePeers(s)
      BY DEF SessionInv
    <2> QED
      BY <1>1, <2>1, <2>2 DEF IsThePeers
  <1>3. ASSUME NEW r \in toPeer PROVE AcksTheStream(r)'
    <2>1. r.tuple \in Tuples
      BY DEF TypeOK, Replies
    <2>2. AcksTheStream(r)
      BY DEF SessionInv
    <2> QED
      BY <1>1, <2>1, <2>2 DEF AcksTheStream, AcksBytes
  <1>4. ASSUME NEW t \in Tuples PROVE MatchesThePeer(t)'
    <2>1. MatchesThePeer(t)
      BY DEF SessionInv
    <2> QED
      BY <1>1, <2>1 DEF MatchesThePeer, HoldsTheStream, Received, tcpVars
  <1> QED
    BY <1>2, <1>3, <1>4

\* The segment at rcv_nxt carries the bytes that follow the received ones.
LEMMA InOrderIsNext ==
  ASSUME TypeOK, SessionInv, NEW s \in toServer,
         state[s.tuple] = "ESTABLISHED", InOrder(s)
  PROVE  /\ s.tuple \in Tuples /\ s.off \in Nat /\ s.len \in Nat
         /\ s.off + s.len <= sent[s.tuple]
         /\ s.seq = SeqAdd(isn[s.tuple], s.off + 1)
         /\ Len(rcvbuf[s.tuple]) = IF s.off <= MaxBytes THEN s.off ELSE MaxBytes
  <1> DEFINE t == s.tuple
  <1>1. /\ t \in Tuples /\ s.off \in 0 .. StreamLen /\ s.len \in 0 .. StreamLen
        /\ isn[t] \in SeqNo /\ sent[t] \in 0 .. StreamLen
    BY DEF TypeOK, Segments
  <1>2. PICK n \in 0 .. sent[t] :
          Received(t, n) /\ Len(rcvbuf[t]) = IF n <= MaxBytes THEN n ELSE MaxBytes
    BY <1>1 DEF SessionInv, MatchesThePeer, HoldsTheStream
  <1>3. n + 1 \in SeqNo /\ n + 1 # 0 /\ s.off + 1 \in SeqNo
    BY <1>1, <1>2, StreamAssumption, SeqModAssumption DEF SeqNo
  <1>4. s.seq = SeqAdd(isn[t], n + 1)
    BY <1>2 DEF InOrder, Received
  <1>5. IsThePeers(s)
    BY DEF SessionInv
  <1>6. s.flags # {"SYN"}
    <2> SUFFICES ASSUME s.seq = isn[t] PROVE FALSE
      BY <1>5 DEF IsThePeers
    <2>1. s.seq = SeqAdd(isn[t], 0)
      BY <1>1, SeqAddZero
    <2> QED
      BY <2>1, <1>1, <1>3, <1>4, SeqNoNat, SeqAddInjective
  <1>7. s.seq = SeqAdd(isn[t], s.off + 1) /\ s.off + s.len <= sent[t]
    BY <1>5, <1>6 DEF IsThePeers
  <1>8. s.off + 1 = n + 1
    BY <1>1, <1>3, <1>4, <1>7, SeqAddInjective
  <1>9. s.off = n
    BY <1>1, <1>2, <1>8, StreamAssumption
  <1> QED
    BY <1>1, <1>2, <1>7, <1>9, StreamAssumption

\* Taking the segment at rcv_nxt keeps the buffer a prefix of the stream.
LEMMA ReceivingExtends ==
  ASSUME MinPayload = 0, TypeOK, SessionInv, NEW s \in toServer,
         ReceiveInOrder(s), UNCHANGED peerVars
  PROVE  /\ s.off + s.len \in 0 .. sent[s.tuple]
         /\ SeqAdd(s.seq, PayloadSize(s)) = SeqAdd(isn[s.tuple], s.off + s.len + 1)
         /\ Received(s.tuple, s.off + s.len)'
         /\ HoldsTheStream(s.tuple)'
  <1> DEFINE t == s.tuple
             q == rcvbuf[t]
             d == Payload(s)
             n == s.off + s.len
  <1>1. /\ t \in Tuples /\ s.off \in Nat /\ s.len \in Nat
        /\ n <= sent[t]
        /\ s.seq = SeqAdd(isn[t], s.off + 1)
        /\ Len(q) = IF s.off <= MaxBytes THEN s.off ELSE MaxBytes
    BY InOrderIsNext DEF ReceiveInOrder
  <1>2. /\ s \in Segments /\ isn[t] \in SeqNo /\ sent[t] \in 0 .. StreamLen
        /\ q \in Seq(Nat) /\ Len(q) <= MaxBytes
    BY <1>1 DEF TypeOK, TcpTypeOK
  <1>3. PayloadSize(s) = s.len
    BY <1>1 DEF PayloadSize, Max2
  <1>4. n \in 0 .. sent[t]
    BY <1>1, <1>2, StreamAssumption
  <1>5. SeqAdd(s.seq, PayloadSize(s)) = SeqAdd(isn[t], n + 1)
    <2>1. s.off + s.len <= StreamLen
      BY <1>1, <1>2, StreamAssumption
    <2>2. s.off + 1 \in Nat /\ (s.off + 1) + s.len = n + 1
      BY <1>1
    <2>3. (s.off + 1) + s.len < SeqMod
      BY <1>1, <2>1, StreamAssumption, SeqModAssumption
    <2> QED
      BY <1>1, <1>2, <1>3, <2>2, <2>3, SeqAddAssociative
  <1>6. rcv_nxt'[t] = SeqAdd(isn[t], n + 1) /\ isn'[t] = isn[t] /\ sent'[t] = sent[t]
    BY <1>1, <1>5 DEF ReceiveInOrder, TypeOK, TcpTypeOK, peerVars
  <1>7. /\ d \in Seq(Nat) /\ Len(d) = s.len
        /\ \A i \in 1 .. s.len : d[i] = s.off + i
    BY <1>1, <1>2, <1>3, PayloadType
  <1>8. rcvbuf'[t] = WriteAllTo(q, d) /\ Fits(q, Len(d))
    BY <1>1, <1>3, <1>7 DEF ReceiveInOrder, Accepts, TypeOK, TcpTypeOK
  <1>9. \A i \in 1 .. Len(q) : q[i] = i
    BY <1>1 DEF SessionInv, MatchesThePeer, HoldsTheStream, ReceiveInOrder
  <1> DEFINE w == WriteAllTo(q, d)
  <1> HIDE DEF t, q, d, n
  <1>10. /\ w \in Seq(Nat)
         /\ Len(w) = IF s.off + s.len <= MaxBytes THEN s.off + s.len ELSE MaxBytes
         /\ \A i \in 1 .. Len(w) : w[i] = 0 + i
    <2>1. /\ \A i \in 1 .. Len(q) : q[i] = 0 + i
          /\ \A i \in 1 .. s.len : d[i] = 0 + s.off + i
          /\ Fits(q, s.len) /\ 0 \in Nat
      BY <1>1, <1>2, <1>7, <1>8, <1>9
    <2>2. \A base, m, len \in Nat :
             /\ Len(q) = IF m <= MaxBytes THEN m ELSE MaxBytes
             /\ \A i \in 1 .. Len(q) : q[i] = base + i
             /\ Len(d) = len /\ \A i \in 1 .. len : d[i] = base + m + i
             /\ Fits(q, len)
             => /\ w \in Seq(Nat)
                /\ Len(w) = IF m + len <= MaxBytes THEN m + len ELSE MaxBytes
                /\ \A i \in 1 .. Len(w) : w[i] = base + i
      BY <1>2, <1>7, WritingExtends
    <2> HIDE DEF w
    <2> QED
      BY <1>1, <1>7, <2>1, <2>2
  <1> HIDE DEF w
  <1>11. Len(w) = IF n <= MaxBytes THEN n ELSE MaxBytes
    BY <1>10 DEF n
  <1>12. \A i \in 1 .. Len(w) : w[i] = i
    BY <1>10
  <1>13. HoldsTheStream(t)'
    BY <1>4, <1>6, <1>8, <1>11, <1>12 DEF HoldsTheStream, Received, w
  <1> QED
    BY <1>4, <1>5, <1>6, <1>13 DEF t, n, Received

\* What one call of on_recv does to the connections and to the replies.
LEMMA ServerKeepsInv ==
  ASSUME MinPayload = 0, TypeOK, SessionInv, NEW s \in toServer, ServerRecv(s)
  PROVE  SessionInv'
  <1>1. /\ s \in Segments /\ s.tuple \in Tuples /\ IsThePeers(s)
        /\ s.off \in Nat /\ s.len \in Nat /\ isn[s.tuple] \in SeqNo
        /\ sent[s.tuple] \in Nat
    BY StreamAssumption DEF TypeOK, Segments, SessionInv
  <1>2. UNCHANGED peerVars /\ toServer' \subseteq toServer
    BY DEF ServerRecv, Consume
  <1>3. \A x \in toServer' : IsThePeers(x)'
    BY <1>2 DEF SessionInv, IsThePeers, peerVars
  <1>4. \A r \in toPeer : AcksTheStream(r)'
    BY <1>2 DEF SessionInv, AcksTheStream, AcksBytes, peerVars
  <1>5. ASSUME NEW t \in Tuples,
               state'[t] = state[t] /\ rcvbuf'[t] = rcvbuf[t]
               /\ rcv_nxt'[t] = rcv_nxt[t] /\ snd_una'[t] = snd_una[t]
               /\ snd_nxt'[t] = snd_nxt[t]
        PROVE  MatchesThePeer(t)'
    <2>1. MatchesThePeer(t)
      BY DEF SessionInv
    <2> QED
      BY <2>1, <1>2, <1>5
      DEF MatchesThePeer, HoldsTheStream, Received, peerVars
  <1>6. ASSUME NEW iss \in Iss, AcceptSyn(s, iss),
               toPeer' = toPeer \cup {SynAck(s, iss)}
        PROVE  SessionInv'
    <2>1. s.seq = isn[s.tuple] /\ peer[s.tuple] # "CLOSED"
      BY <1>1, <1>6 DEF IsThePeers, AcceptSyn
    <2>2. AcksTheStream(SynAck(s, iss))'
      <3>1. SynAck(s, iss).ack = SeqAdd(isn[s.tuple], 0 + 1)
        BY <2>1 DEF SynAck
      <3>2. SynAck(s, iss).tuple = s.tuple
        BY DEF SynAck
      <3>3. 0 \in 0 .. sent[s.tuple]
        BY <1>1
      <3> QED
        BY <1>2, <2>1, <3>1, <3>2, <3>3 DEF AcksTheStream, AcksBytes, peerVars
    <2>3. MatchesThePeer(s.tuple)'
      BY <1>1, <1>2, <1>6, <2>1
      DEF AcceptSyn, MatchesThePeer, Received, peerVars, TypeOK, TcpTypeOK
    <2>4. ASSUME NEW t \in Tuples, t # s.tuple PROVE MatchesThePeer(t)'
      BY <1>5, <1>6, <2>4 DEF AcceptSyn, TypeOK, TcpTypeOK
    <2> QED
      BY <1>3, <1>4, <1>6, <2>2, <2>3, <2>4 DEF SessionInv
  <1>7. ASSUME ReceiveInOrder(s), toPeer' = toPeer \cup {DataAck(s)}
        PROVE  SessionInv'
    <2>1. /\ s.off + s.len \in 0 .. sent[s.tuple]
          /\ SeqAdd(s.seq, PayloadSize(s)) = SeqAdd(isn[s.tuple], s.off + s.len + 1)
          /\ HoldsTheStream(s.tuple)'
      BY <1>2, <1>7, ReceivingExtends
    <2>2. /\ peer[s.tuple] = "ESTABLISHED"
          /\ snd_nxt[s.tuple] = SeqAdd(irs[s.tuple], 1)
          /\ snd_una[s.tuple] = snd_nxt[s.tuple]
      BY <1>1, <1>7 DEF ReceiveInOrder, SessionInv, MatchesThePeer
    <2>3. ASSUME NEW r \in toPeer', r = DataAck(s) PROVE AcksTheStream(r)'
      <3>1. r.ack = SeqAdd(isn[s.tuple], s.off + s.len + 1) /\ r.tuple = s.tuple
        BY <2>1, <2>3 DEF DataAck
      <3>2. AcksBytes(r, s.off + s.len)'
        BY <1>2, <3>1 DEF AcksBytes, peerVars
      <3> QED
        BY <1>2, <2>1, <2>2, <3>1, <3>2 DEF AcksTheStream, peerVars
    <2>4. MatchesThePeer(s.tuple)'
      BY <1>1, <1>2, <1>7, <2>1, <2>2 DEF ReceiveInOrder, MatchesThePeer, peerVars
    <2>5. ASSUME NEW t \in Tuples, t # s.tuple PROVE MatchesThePeer(t)'
      BY <1>5, <1>7, <2>5 DEF ReceiveInOrder, TypeOK, TcpTypeOK
    <2> QED
      BY <1>3, <1>4, <1>7, <2>3, <2>4, <2>5 DEF SessionInv
  <1>8. ASSUME CompleteHandshake(s), UNCHANGED toPeer PROVE SessionInv'
    <2>1. /\ peer[s.tuple] = "ESTABLISHED"
          /\ s.ack = SeqAdd(irs[s.tuple], 1)
          /\ s.ack = snd_nxt[s.tuple]
      BY <1>1, <1>8 DEF CompleteHandshake, AcksSynAck, IsThePeers
    <2>2. Received(s.tuple, 0) /\ rcvbuf[s.tuple] = << >>
      BY <1>1, <1>8 DEF CompleteHandshake, SessionInv, MatchesThePeer
    <2>3. HoldsTheStream(s.tuple)'
      <3>1. 0 <= MaxBytes /\ 0 \in 0 .. sent[s.tuple]
        BY <1>1, BufferSizeAssumption DEF MaxBytes
      <3> QED
        BY <1>2, <1>8, <2>2, <3>1
        DEF CompleteHandshake, HoldsTheStream, Received, peerVars
    <2>4. MatchesThePeer(s.tuple)'
      BY <1>1, <1>2, <1>8, <2>1, <2>3
      DEF CompleteHandshake, MatchesThePeer, peerVars, TypeOK, TcpTypeOK
    <2>5. ASSUME NEW t \in Tuples, t # s.tuple PROVE MatchesThePeer(t)'
      BY <1>5, <1>8, <2>5 DEF CompleteHandshake, TypeOK, TcpTypeOK
    <2> QED
      BY <1>3, <1>4, <1>8, <2>4, <2>5 DEF SessionInv
  <1>9. ASSUME UNCHANGED tcpVars, UNCHANGED toPeer PROVE SessionInv'
    <2>1. \A t \in Tuples : MatchesThePeer(t)'
      BY <1>5, <1>9 DEF tcpVars
    <2> QED
      BY <1>3, <1>4, <1>9, <2>1 DEF SessionInv
  <1> QED
    BY <1>6, <1>7, <1>8, <1>9
    DEF ServerRecv, Silent, DropUnknown, IgnoreInHandshake, RefuseWhenFull,
        IgnoreOutOfOrder

\* What the peers add to the network.
LEMMA PeersKeepInv ==
  ASSUME TypeOK, TypeOK', SessionInv, PeerSends \/ PeerReceives \/ NetworkLoses
  PROVE  SessionInv'
  <1>1. UNCHANGED tcpVars
    BY DEF PeerSends, PeerReceives, NetworkLoses
  <1>2. \A t \in Tuples : sent[t] \in Nat /\ isn[t] \in SeqNo
    BY StreamAssumption DEF TypeOK
  <1>3. ASSUME NEW t \in Tuples, NEW n \in Isn, Open(t, n) PROVE SessionInv'
    <2>1. toServer' = toServer \cup {[SynSegment(t) EXCEPT !.seq = n]}
          /\ toPeer' = toPeer
      BY <1>3 DEF Open
    <2>2. ASSUME NEW s, s = [SynSegment(t) EXCEPT !.seq = n] PROVE IsThePeers(s)'
      BY <1>3, <2>2 DEF Open, IsThePeers, SynSegment, TypeOK
    <2>3. /\ \A s \in toServer : IsThePeers(s)'
          /\ \A r \in toPeer : AcksTheStream(r)'
          /\ \A u \in Tuples : MatchesThePeer(u)'
      BY <1>1, <1>2, <1>3, PeersOnlyAdd DEF Open, TypeOK
    <2> QED
      BY <2>1, <2>2, <2>3 DEF SessionInv
  <1>4. ASSUME NEW t \in Tuples, ResendSyn(t) PROVE SessionInv'
    <2>1. toServer' = toServer \cup {SynSegment(t)} /\ toPeer' = toPeer
          /\ UNCHANGED peerVars
      BY <1>4 DEF ResendSyn
    <2>2. ASSUME NEW s, s = SynSegment(t) PROVE IsThePeers(s)'
      BY <1>4, <2>1, <2>2 DEF ResendSyn, IsThePeers, SynSegment, peerVars
    <2>3. /\ \A s \in toServer : IsThePeers(s)'
          /\ \A r \in toPeer : AcksTheStream(r)'
          /\ \A u \in Tuples : MatchesThePeer(u)'
      BY <1>1, <1>2, <2>1, PeersOnlyAdd DEF peerVars
    <2> QED
      BY <2>1, <2>2, <2>3 DEF SessionInv
  <1>5. ASSUME NEW t \in Tuples, NEW off \in 0 .. StreamLen, NEW len \in 0 .. Window,
               SendBytes(t, off, len)
        PROVE  SessionInv'
    <2>1. toServer' = toServer \cup {DataSegment(t, irs[t], off, len)}
          /\ toPeer' = toPeer
      BY <1>5 DEF SendBytes
    <2>2. /\ UNCHANGED <<peer, isn, irs>>
          /\ off + len <= sent'[t]
          /\ \A u \in Tuples : sent[u] <= sent'[u]
      BY <1>2, <1>5, StreamAssumption, WindowAssumption DEF SendBytes, Max2, TypeOK
    <2>3. ASSUME NEW s, s = DataSegment(t, irs[t], off, len) PROVE IsThePeers(s)'
      BY <1>5, <2>2, <2>3 DEF SendBytes, IsThePeers, DataSegment
    <2>4. /\ \A s \in toServer : IsThePeers(s)'
          /\ \A r \in toPeer : AcksTheStream(r)'
          /\ \A u \in Tuples : MatchesThePeer(u)'
      BY <1>1, <2>2, PeersOnlyAdd
    <2> QED
      BY <2>1, <2>3, <2>4 DEF SessionInv
  <1>6. ASSUME NEW r \in toPeer, PeerRecv(r) PROVE SessionInv'
    <2>1. r.tuple \in Tuples /\ toPeer' \subseteq toPeer
      BY <1>6 DEF PeerRecv, Consume, TypeOK, Replies
    <2>2. /\ UNCHANGED <<isn, sent>>
          /\ \A t \in Tuples : peer[t] # "CLOSED" => peer'[t] # "CLOSED"
          /\ \A t \in Tuples : peer[t] = "ESTABLISHED" =>
                 peer'[t] = "ESTABLISHED" /\ irs'[t] = irs[t]
      BY <1>6, <2>1 DEF PeerRecv, TakeSynAck, TakeAck, IgnoreReply, peerVars, TypeOK
    <2>3. /\ \A s \in toServer : IsThePeers(s)'
          /\ \A x \in toPeer : AcksTheStream(x)'
          /\ \A u \in Tuples : MatchesThePeer(u)'
      BY <1>1, <1>2, <2>2, PeersOnlyAdd
    <2>4. \A s \in toServer' : IsThePeers(s)'
      <3>1. CASE TakeSynAck(r)
        <4>1. ASSUME NEW s, s = DataSegment(r.tuple, r.seq, 0, 0)
              PROVE  IsThePeers(s)'
          BY <1>2, <2>1, <2>2, <3>1, <4>1
          DEF TakeSynAck, IsThePeers, DataSegment, TypeOK
        <4> QED
          BY <2>3, <3>1, <4>1 DEF TakeSynAck
      <3>2. CASE toServer' = toServer
        BY <2>3, <3>2
      <3> QED
        BY <1>6, <3>1, <3>2 DEF PeerRecv, TakeAck, IgnoreReply
    <2> QED
      BY <2>1, <2>3, <2>4 DEF SessionInv
  <1>7. CASE NetworkLoses
    <2>1. UNCHANGED peerVars /\ toServer' \subseteq toServer /\ toPeer' \subseteq toPeer
      BY <1>7 DEF NetworkLoses, LoseSegment, LoseReply
    <2>2. /\ \A s \in toServer : IsThePeers(s)'
          /\ \A r \in toPeer : AcksTheStream(r)'
          /\ \A u \in Tuples : MatchesThePeer(u)'
      BY <1>1, <1>2, <2>1, PeersOnlyAdd DEF peerVars
    <2> QED
      BY <2>1, <2>2 DEF SessionInv
  <1> QED
    BY <1>3, <1>4, <1>5, <1>6, <1>7 DEF PeerSends, PeerReceives

\* Every step keeps the invariant, a restart of DNet included: it forgets
\* connections, and an absent connection contradicts nothing.
LEMMA StepKeepsInv ==
  ASSUME MinPayload = 0, TypeOK, TypeOK', SessionInv, [Next]_vars
  PROVE  SessionInv'
  <1>1. ASSUME NEW s \in toServer, ServerRecv(s) PROVE SessionInv'
    BY <1>1, ServerKeepsInv
  <1>2. CASE Restart
    BY <1>2
    DEF Restart, TcpRestart, SessionInv, IsThePeers, AcksTheStream, AcksBytes,
        MatchesThePeer, peerVars, netVars
  <1>3. CASE PeerSends \/ PeerReceives \/ NetworkLoses
    BY <1>3, PeersKeepInv
  <1>4. CASE UNCHANGED vars
    BY <1>4
    DEF vars, tcpVars, peerVars, netVars, SessionInv, IsThePeers, AcksTheStream,
        AcksBytes, MatchesThePeer, HoldsTheStream, Received
  <1> QED
    BY <1>1, <1>2, <1>3, <1>4 DEF Next

\* On a link that does not pad frames, segments, replies and connections
\* always agree about the stream of their peer, whatever the network loses,
\* repeats and reorders and however often DNet restarts.
THEOREM SessionInvariant ==
  ASSUME MinPayload = 0
  PROVE  Spec => []SessionInv
  <1>1. Init => SessionInv
    BY DEF Init, TcpInit, PeerInit, SessionInv, MatchesThePeer
  <1>2. TypeOK /\ TypeOK' /\ SessionInv /\ [Next]_vars => SessionInv'
    BY StepKeepsInv
  <1> QED
    BY <1>1, <1>2, TypeCorrect, PTL DEF Spec

\* What DNet keeps for the application is the beginning of what its peer sent.
THEOREM ReceivedIsAlwaysPrefix ==
  ASSUME MinPayload = 0
  PROVE  Spec => []ReceivedIsPrefix
  <1>1. TypeOK /\ SessionInv => ReceivedIsPrefix
    <2> SUFFICES ASSUME TypeOK, SessionInv, NEW t \in Tuples
                 PROVE  /\ Len(rcvbuf[t]) <= sent[t]
                        /\ \A i \in 1 .. Len(rcvbuf[t]) : rcvbuf[t][i] = i
      BY DEF ReceivedIsPrefix
    <2>1. sent[t] \in Nat /\ MaxBytes \in Nat
      BY StreamAssumption, BufferSizeAssumption DEF TypeOK, MaxBytes
    <2>2. MatchesThePeer(t) /\ state[t] \in TcpStates
      BY DEF SessionInv, TypeOK, TcpTypeOK
    <2>3. CASE rcvbuf[t] = << >>
      BY <2>1, <2>3
    <2>4. CASE HoldsTheStream(t)
      BY <2>1, <2>4 DEF HoldsTheStream
    <2> QED
      BY <2>2, <2>3, <2>4 DEF MatchesThePeer, TcpStates
  <1> QED
    BY <1>1, TypeCorrect, SessionInvariant, PTL

\* No acknowledgement of DNet covers a byte its peer has not sent.
THEOREM NeverAcksUnsent ==
  ASSUME MinPayload = 0
  PROVE  Spec => []AckNeverBeyondSent
  <1>1. SessionInv => AckNeverBeyondSent
    BY DEF SessionInv, AcksTheStream, AckNeverBeyondSent
  <1> QED
    BY <1>1, SessionInvariant, PTL

\* The three-way handshake: DNet never considers a connection established
\* that its peer does not hold with the same two initial sequence numbers.
THEOREM EstablishedTogether ==
  ASSUME MinPayload = 0
  PROVE  Spec => []NoFalseEstablishment
  <1>1. SessionInv => NoFalseEstablishment
    BY DEF SessionInv, MatchesThePeer, NoFalseEstablishment
  <1> QED
    BY <1>1, SessionInvariant, PTL

\* A step moves the position in the stream of an established connection
\* forward or not at all.
LEMMA StepNeverMovesBack ==
  ASSUME MinPayload = 0, TypeOK, SessionInv, [Next]_vars,
         NEW t \in Tuples, NEW n \in 0 .. StreamLen
  PROVE  (Received(t, n) /\ state[t] = "ESTABLISHED" /\ state'[t] = "ESTABLISHED")
             => \E m \in n .. StreamLen : Received(t, m)'
  <1> SUFFICES ASSUME Received(t, n), state[t] = "ESTABLISHED",
                      state'[t] = "ESTABLISHED"
               PROVE  \E m \in n .. StreamLen : Received(t, m)'
    OBVIOUS
  <1>1. n \in n .. StreamLen
    BY StreamAssumption
  <1>2. isn'[t] = isn[t]
    <2>1. peer[t] = "ESTABLISHED"
      BY DEF SessionInv, MatchesThePeer
    <2> QED
      BY <2>1
      DEF Next, vars, ServerRecv, Restart, PeerSends, Open, ResendSyn, SendBytes,
          PeerReceives, PeerRecv, TakeSynAck, TakeAck, IgnoreReply, NetworkLoses,
          LoseSegment, LoseReply, peerVars, TypeOK
  <1>3. CASE rcv_nxt'[t] = rcv_nxt[t]
    BY <1>1, <1>2, <1>3 DEF Received
  <1>4. ASSUME NEW s \in toServer, ServerRecv(s), ReceiveInOrder(s), s.tuple = t
        PROVE  \E m \in n .. StreamLen : Received(t, m)'
    <2>1. /\ s.off + s.len \in 0 .. sent[t]
          /\ Received(t, s.off + s.len)'
      BY <1>4, ReceivingExtends DEF ServerRecv
    <2>2. /\ s.seq = SeqAdd(isn[t], s.off + 1) /\ s.seq = SeqAdd(isn[t], n + 1)
          /\ s.off \in Nat /\ s.len \in Nat
      BY <1>4, InOrderIsNext DEF ReceiveInOrder, InOrder, Received
    <2>3. isn[t] \in SeqNo /\ sent[t] \in 0 .. StreamLen
      BY DEF TypeOK
    <2>4. s.off + 1 \in SeqNo /\ n + 1 \in SeqNo
      BY <2>1, <2>2, <2>3, StreamAssumption, SeqModAssumption DEF SeqNo
    <2>5. s.off = n
      BY <2>2, <2>3, <2>4, SeqAddInjective
    <2>6. s.off + s.len \in n .. StreamLen
      BY <2>1, <2>2, <2>3, <2>5, StreamAssumption
    <2> QED
      BY <2>1, <2>6
  <1>5. ASSUME NEW s \in toServer, ServerRecv(s)
        PROVE  \E m \in n .. StreamLen : Received(t, m)'
    <2>1. s.tuple \in Tuples
      BY DEF TypeOK, Segments
    <2>2. CASE rcv_nxt'[t] = rcv_nxt[t]
      BY <1>3, <2>2
    <2>3. CASE rcv_nxt'[t] # rcv_nxt[t]
      <3>1. ReceiveInOrder(s) /\ s.tuple = t
        BY <1>5, <2>1, <2>3
        DEF ServerRecv, AcceptSyn, ReceiveInOrder, Silent, DropUnknown,
            CompleteHandshake, IgnoreInHandshake, RefuseWhenFull,
            IgnoreOutOfOrder, tcpVars, TypeOK, TcpTypeOK
      <3> QED
        BY <1>4, <1>5, <3>1
    <2> QED
      BY <2>2, <2>3
  <1>6. CASE Restart
    BY <1>6 DEF Restart, TcpRestart
  <1>7. CASE UNCHANGED rcv_nxt
    BY <1>3, <1>7
  <1> QED
    BY <1>5, <1>6, <1>7
    DEF Next, vars, tcpVars, PeerSends, PeerReceives, NetworkLoses

\* Within a connection the position in the peer's stream never moves back,
\* whichever old segment the network delivers again.
THEOREM PositionNeverMovesBack ==
  ASSUME MinPayload = 0
  PROVE  Spec => NeverUnreceives
  <1> DEFINE Forward ==
        \A t \in Tuples, n \in 0 .. StreamLen :
            (Received(t, n) /\ state[t] = "ESTABLISHED" /\ state'[t] = "ESTABLISHED")
                => \E m \in n .. StreamLen : Received(t, m)'
  <1>1. TypeOK /\ SessionInv /\ [Next]_vars => [Forward]_vars
    BY StepNeverMovesBack
  <1> QED
    BY <1>1, TypeCorrect, SessionInvariant, PTL DEF Spec, NeverUnreceives

-----------------------------------------------------------------------------
(* What the two ends know of each other until DNet restarts.               *)

\* A call of on_recv moves no connection back: the replies in the network and
\* what the peers know still speak of the connections that DNet holds.
LEMMA ServerKeepsConnections ==
  ASSUME MinPayload = 0, TypeOK, SessionInv, ConnectionInv, restarts = 0,
         NEW s \in toServer, ServerRecv(s)
  PROVE  ConnectionInv'
  <1>1. /\ s \in Segments /\ s.tuple \in Tuples /\ IsThePeers(s)
        /\ s.off \in Nat /\ s.len \in Nat
        /\ \A t \in Tuples : sent[t] \in Nat /\ acked[t] \in Nat
    BY StreamAssumption DEF TypeOK, Segments, SessionInv
  <1>2. UNCHANGED peerVars /\ restarts' = 0
    BY DEF ServerRecv
  <1>3. /\ PeerIsConnected
        /\ \A r \in toPeer : OfTheConnection(r)
        /\ \A t \in Tuples : peer[t] # "ESTABLISHED" => acked[t] = 0
    BY DEF ConnectionInv
  <1>4. \A r \in toPeer : r.tuple \in Tuples
    BY DEF TypeOK, Replies
  <1>5. ASSUME NEW iss \in Iss, AcceptSyn(s, iss),
               toPeer' = toPeer \cup {SynAck(s, iss)}
        PROVE  ConnectionInv'
    <2>1. /\ s.seq = isn[s.tuple] /\ peer[s.tuple] # "ESTABLISHED"
          /\ state[s.tuple] = "ABSENT"
      BY <1>1, <1>2, <1>3, <1>5
      DEF IsThePeers, AcceptSyn, PeerIsConnected, SessionInv
    <2>2. \A r \in toPeer : r.tuple # s.tuple
      BY <1>3, <2>1 DEF OfTheConnection
    <2>3. /\ state' = [state EXCEPT ![s.tuple] = "SYN_RECVED"]
          /\ rcv_nxt' = [rcv_nxt EXCEPT ![s.tuple] = SeqAdd(s.seq, 1)]
          /\ snd_nxt' = [snd_nxt EXCEPT ![s.tuple] = SeqAdd(iss, 1)]
      BY <1>5 DEF AcceptSyn
    <2>4. PeerIsConnected'
      BY <1>1, <1>2, <1>3, <2>1, <2>3
      DEF PeerIsConnected, Received, peerVars, TypeOK, TcpTypeOK
    <2>5. \A r \in toPeer : OfTheConnection(r)'
      BY <1>1, <1>2, <1>3, <1>4, <2>2, <2>3
      DEF OfTheConnection, Received, AcksBytes, peerVars, TypeOK, TcpTypeOK
    <2>6. OfTheConnection(SynAck(s, iss))'
      <3> DEFINE r == SynAck(s, iss)
      <3>1. /\ r.tuple = s.tuple /\ r.seq = iss
            /\ r.ack = SeqAdd(isn[s.tuple], 0 + 1)
        BY <2>1 DEF SynAck
      <3>2. /\ state'[s.tuple] = "SYN_RECVED"
            /\ snd_nxt'[s.tuple] = SeqAdd(iss, 1)
            /\ rcv_nxt'[s.tuple] = SeqAdd(isn[s.tuple], 0 + 1)
        BY <1>1, <2>1, <2>3 DEF TypeOK, TcpTypeOK
      <3>3. 0 \in 0 .. sent[s.tuple] /\ 0 \in 0 .. 0
        BY <1>1
      <3> HIDE DEF r
      <3> QED
        BY <1>2, <3>1, <3>2, <3>3
        DEF OfTheConnection, Received, AcksBytes, peerVars, r
    <2> QED
      BY <1>2, <1>3, <1>5, <2>4, <2>5, <2>6 DEF ConnectionInv, peerVars
  <1>6. ASSUME ReceiveInOrder(s), toPeer' = toPeer \cup {DataAck(s)}
        PROVE  ConnectionInv'
    <2> DEFINE k == s.off + s.len
    <2>1. /\ k \in 0 .. sent[s.tuple]
          /\ SeqAdd(s.seq, PayloadSize(s)) = SeqAdd(isn[s.tuple], k + 1)
          /\ Received(s.tuple, k)'
      BY <1>2, <1>6, ReceivingExtends
    <2>2. /\ state' = state /\ snd_nxt' = snd_nxt
          /\ state[s.tuple] = "ESTABLISHED"
          /\ \A t \in Tuples : t # s.tuple => rcv_nxt'[t] = rcv_nxt[t]
      BY <1>1, <1>6 DEF ReceiveInOrder, TypeOK, TcpTypeOK
    <2>3. ASSUME NEW n \in 0 .. sent[s.tuple], Received(s.tuple, n)
          PROVE  n <= k
      <3>1. s.seq = SeqAdd(isn[s.tuple], s.off + 1) /\ s.off + s.len <= sent[s.tuple]
        BY <1>6, InOrderIsNext DEF ReceiveInOrder
      <3>2. s.seq = SeqAdd(isn[s.tuple], n + 1)
        BY <1>6, <2>3 DEF ReceiveInOrder, InOrder, Received
      <3>3. /\ s.off + 1 \in SeqNo /\ n + 1 \in SeqNo /\ isn[s.tuple] \in SeqNo
        BY <1>1, <3>1, StreamAssumption, SeqModAssumption DEF SeqNo, TypeOK
      <3>4. s.off + 1 = n + 1
        BY <3>1, <3>2, <3>3, SeqAddInjective
      <3> QED
        BY <1>1, <3>4
    <2> HIDE DEF k
    <2>4. PeerIsConnected'
      <3> SUFFICES ASSUME NEW t \in Tuples, peer[t] = "ESTABLISHED"
                   PROVE  /\ state[t] \in {"SYN_RECVED", "ESTABLISHED"}
                          /\ snd_nxt[t] = SeqAdd(irs[t], 1)
                          /\ \E n \in acked[t] .. sent[t] : Received(t, n)'
        BY <1>2, <2>2 DEF PeerIsConnected, peerVars
      <3>1. PICK n \in acked[t] .. sent[t] : Received(t, n)
        BY <1>3 DEF PeerIsConnected
      <3>2. /\ state[t] \in {"SYN_RECVED", "ESTABLISHED"}
            /\ snd_nxt[t] = SeqAdd(irs[t], 1)
        BY <1>3 DEF PeerIsConnected
      <3>3. CASE t = s.tuple
        <4>1. n <= k
          BY <1>1, <2>3, <3>1, <3>3
        <4>2. k \in acked[t] .. sent[t]
          BY <1>1, <2>1, <3>1, <3>3, <4>1
        <4> QED
          BY <2>1, <3>2, <3>3, <4>2
      <3>4. CASE t # s.tuple
        BY <1>2, <2>2, <3>1, <3>2, <3>4 DEF Received, peerVars
      <3> QED
        BY <3>3, <3>4
    <2>5. \A r \in toPeer : OfTheConnection(r)'
      <3> TAKE r \in toPeer
      <3>1. /\ state[r.tuple] # "ABSENT"
            /\ "SYN" \in r.flags => SeqAdd(r.seq, 1) = snd_nxt[r.tuple]
        BY <1>3 DEF OfTheConnection
      <3>2. PICK m \in 0 .. sent[r.tuple] :
              Received(r.tuple, m) /\ \E n \in 0 .. m : AcksBytes(r, n)
        BY <1>3 DEF OfTheConnection
      <3>3. PICK n \in 0 .. m : AcksBytes(r, n)
        BY <3>2
      <3>4. CASE r.tuple = s.tuple
        <4>1. m <= k
          BY <2>3, <3>2, <3>4
        <4>2. n \in 0 .. k
          BY <1>1, <2>1, <4>1
        <4>3. AcksBytes(r, n)' /\ Received(r.tuple, k)' /\ k \in 0 .. sent'[r.tuple]
          BY <1>2, <2>1, <3>3, <3>4 DEF AcksBytes, peerVars
        <4> QED
          BY <2>2, <3>1, <4>2, <4>3 DEF OfTheConnection
      <3>5. CASE r.tuple # s.tuple
        <4>1. AcksBytes(r, n)' /\ Received(r.tuple, m)' /\ m \in 0 .. sent'[r.tuple]
          BY <1>2, <1>4, <2>2, <3>2, <3>3, <3>5 DEF AcksBytes, Received, peerVars
        <4> QED
          BY <2>2, <3>1, <4>1 DEF OfTheConnection
      <3> QED
        BY <3>4, <3>5
    <2>6. ASSUME NEW r, r = DataAck(s) PROVE OfTheConnection(r)'
      <3>1. /\ r.tuple = s.tuple /\ "SYN" \notin r.flags
            /\ r.ack = SeqAdd(isn[s.tuple], k + 1)
        BY <2>1, <2>6 DEF DataAck
      <3>2. /\ AcksBytes(r, k)' /\ Received(r.tuple, k)'
            /\ k \in 0 .. sent'[r.tuple] /\ k \in 0 .. k
        BY <1>2, <2>1, <3>1 DEF AcksBytes, peerVars
      <3> QED
        BY <2>2, <3>1, <3>2 DEF OfTheConnection
    <2> QED
      BY <1>2, <1>3, <1>6, <2>4, <2>5, <2>6 DEF ConnectionInv, peerVars
  <1>7. ASSUME CompleteHandshake(s), UNCHANGED toPeer PROVE ConnectionInv'
    <2>1. /\ state' = [state EXCEPT ![s.tuple] = "ESTABLISHED"]
          /\ UNCHANGED <<rcv_nxt, snd_nxt>>
      BY <1>7 DEF CompleteHandshake
    <2>2. PeerIsConnected'
      BY <1>1, <1>2, <1>3, <2>1
      DEF PeerIsConnected, Received, peerVars, TypeOK, TcpTypeOK
    <2>3. \A r \in toPeer : OfTheConnection(r)'
      BY <1>1, <1>2, <1>3, <1>4, <2>1
      DEF OfTheConnection, Received, AcksBytes, peerVars, TypeOK, TcpTypeOK
    <2> QED
      BY <1>2, <1>3, <1>7, <2>2, <2>3 DEF ConnectionInv, peerVars
  <1>8. ASSUME UNCHANGED tcpVars, UNCHANGED toPeer PROVE ConnectionInv'
    BY <1>2, <1>3, <1>8
    DEF ConnectionInv, PeerIsConnected, OfTheConnection, Received, AcksBytes,
        tcpVars, peerVars
  <1> QED
    BY <1>5, <1>6, <1>7, <1>8
    DEF ServerRecv, Silent, DropUnknown, IgnoreInHandshake, RefuseWhenFull,
        IgnoreOutOfOrder

\* The peers and the network: what a peer takes from a reply is what DNet has.
LEMMA PeersKeepConnections ==
  ASSUME TypeOK, TypeOK', SessionInv, ConnectionInv, restarts = 0,
         PeerSends \/ PeerReceives \/ NetworkLoses
  PROVE  ConnectionInv'
  <1>1. UNCHANGED tcpVars /\ restarts' = 0
    BY DEF PeerSends, PeerReceives, NetworkLoses
  <1>2. /\ PeerIsConnected
        /\ \A r \in toPeer : OfTheConnection(r) /\ AcksTheStream(r)
        /\ \A t \in Tuples : peer[t] # "ESTABLISHED" => acked[t] = 0
    BY DEF ConnectionInv, SessionInv
  <1>3. /\ \A t \in Tuples : sent[t] \in Nat /\ sent'[t] \in Nat /\ acked[t] \in Nat
        /\ \A r \in toPeer : r.tuple \in Tuples
    BY StreamAssumption DEF TypeOK, Replies
  <1>4. ASSUME toPeer' \subseteq toPeer,
               \A t \in Tuples : peer[t] # "CLOSED" => isn'[t] = isn[t],
               \A t \in Tuples : sent[t] <= sent'[t]
        PROVE  \A r \in toPeer' : OfTheConnection(r)'
    <2> SUFFICES ASSUME NEW r \in toPeer PROVE OfTheConnection(r)'
      BY <1>4
    <2>1. /\ state[r.tuple] # "ABSENT"
          /\ "SYN" \in r.flags => SeqAdd(r.seq, 1) = snd_nxt[r.tuple]
          /\ isn'[r.tuple] = isn[r.tuple]
      BY <1>2, <1>3, <1>4 DEF OfTheConnection, AcksTheStream
    <2>2. PICK m \in 0 .. sent[r.tuple] :
            Received(r.tuple, m) /\ \E n \in 0 .. m : AcksBytes(r, n)
      BY <1>2 DEF OfTheConnection
    <2>3. m \in 0 .. sent'[r.tuple]
      BY <1>3, <1>4
    <2> QED
      BY <1>1, <2>1, <2>2, <2>3 DEF OfTheConnection, Received, AcksBytes, tcpVars
  <1>5. ASSUME \A t \in Tuples :
                 peer'[t] = "ESTABLISHED" =>
                   /\ peer[t] = "ESTABLISHED" /\ irs'[t] = irs[t] /\ isn'[t] = isn[t]
                   /\ acked'[t] = acked[t] /\ sent[t] <= sent'[t]
        PROVE  PeerIsConnected'
    <2> SUFFICES ASSUME NEW t \in Tuples, peer'[t] = "ESTABLISHED"
                 PROVE  /\ state[t] \in {"SYN_RECVED", "ESTABLISHED"}
                        /\ snd_nxt[t] = SeqAdd(irs'[t], 1)
                        /\ \E n \in acked'[t] .. sent'[t] : Received(t, n)'
      BY <1>1 DEF PeerIsConnected, tcpVars
    <2>1. PICK n \in acked[t] .. sent[t] : Received(t, n)
      BY <1>2, <1>5 DEF PeerIsConnected
    <2>2. n \in acked'[t] .. sent'[t] /\ Received(t, n)'
      BY <1>1, <1>3, <1>5, <2>1 DEF Received, tcpVars
    <2> QED
      BY <1>2, <1>5, <2>2 DEF PeerIsConnected
  <1>6. CASE NetworkLoses
    <2>1. UNCHANGED peerVars /\ toPeer' \subseteq toPeer
      BY <1>6 DEF NetworkLoses, LoseSegment, LoseReply
    <2> QED
      BY <1>1, <1>2, <1>3, <1>4, <1>5, <2>1 DEF ConnectionInv, peerVars
  <1>7. CASE PeerSends
    <2>1. /\ UNCHANGED <<irs, acked, toPeer>>
          /\ \A t \in Tuples : sent[t] <= sent'[t]
          /\ \A t \in Tuples : peer[t] # "CLOSED" => peer'[t] = peer[t]
                                                     /\ isn'[t] = isn[t]
          /\ \A t \in Tuples : peer[t] = "CLOSED" => peer'[t] # "ESTABLISHED"
      BY <1>3, <1>7, StreamAssumption, WindowAssumption
      DEF PeerSends, Open, ResendSyn, SendBytes, Max2, peerVars, TypeOK
    <2> QED
      BY <1>1, <1>2, <1>4, <1>5, <2>1 DEF ConnectionInv
  <1>8. ASSUME NEW r \in toPeer, PeerRecv(r) PROVE ConnectionInv'
    <2>1. /\ r.tuple \in Tuples /\ toPeer' \subseteq toPeer
          /\ UNCHANGED <<isn, sent>>
      BY <1>3, <1>8
      DEF PeerRecv, Consume, TakeSynAck, TakeAck, IgnoreReply, peerVars
    <2>2. \A x \in toPeer' : OfTheConnection(x)'
      BY <1>3, <1>4, <2>1
    <2>3. /\ state[r.tuple] # "ABSENT"
          /\ "SYN" \in r.flags => SeqAdd(r.seq, 1) = snd_nxt[r.tuple]
      BY <1>2 DEF OfTheConnection
    <2>4. PICK m \in 0 .. sent[r.tuple] :
            Received(r.tuple, m) /\ \E n \in 0 .. m : AcksBytes(r, n)
      BY <1>2 DEF OfTheConnection
    <2>5. m \in 0 .. sent'[r.tuple] /\ Received(r.tuple, m)'
      BY <1>1, <2>1, <2>4 DEF Received, tcpVars
    <2>6. ASSUME NEW t \in Tuples, t # r.tuple
          PROVE  /\ peer'[t] = peer[t] /\ irs'[t] = irs[t] /\ acked'[t] = acked[t]
                 /\ sent'[t] = sent[t]
                 /\ \A n : Received(t, n)' <=> Received(t, n)
      BY <1>1, <1>8, <2>1, <2>6
      DEF PeerRecv, TakeSynAck, TakeAck, IgnoreReply, Received, peerVars, tcpVars,
          TypeOK
    <2>7. CASE TakeSynAck(r)
      <3>1. /\ peer' = [peer EXCEPT ![r.tuple] = "ESTABLISHED"]
            /\ irs' = [irs EXCEPT ![r.tuple] = r.seq]
            /\ acked' = acked /\ acked[r.tuple] = 0
            /\ snd_nxt' = snd_nxt /\ state' = state
            /\ snd_nxt[r.tuple] = SeqAdd(r.seq, 1)
            /\ state[r.tuple] \in {"SYN_RECVED", "ESTABLISHED"}
        BY <1>1, <1>2, <2>1, <2>3, <2>7
        DEF TakeSynAck, TypeOK, TcpTypeOK, TcpStates, tcpVars
      <3>2. PeerIsConnected'
        <4> SUFFICES ASSUME NEW t \in Tuples, peer'[t] = "ESTABLISHED"
                     PROVE  /\ state[t] \in {"SYN_RECVED", "ESTABLISHED"}
                            /\ snd_nxt[t] = SeqAdd(irs'[t], 1)
                            /\ \E n \in acked'[t] .. sent'[t] : Received(t, n)'
          BY <3>1 DEF PeerIsConnected
        <4>1. CASE t = r.tuple
          BY <2>1, <2>5, <3>1, <4>1 DEF TypeOK
        <4>2. CASE t # r.tuple
          BY <1>2, <2>6, <4>2 DEF PeerIsConnected
        <4> QED
          BY <4>1, <4>2
      <3> QED
        BY <1>1, <1>2, <2>2, <3>1, <3>2 DEF ConnectionInv, TypeOK
    <2>8. ASSUME NEW n \in 1 .. sent[r.tuple], TakeAck(r, n) PROVE ConnectionInv'
      <3>1. /\ peer[r.tuple] = "ESTABLISHED" /\ n > acked[r.tuple]
            /\ acked' = [acked EXCEPT ![r.tuple] = n]
            /\ UNCHANGED <<peer, irs>> /\ snd_nxt' = snd_nxt /\ state' = state
        BY <1>1, <2>8 DEF TakeAck, Acceptable, tcpVars
      <3>2. n <= m
        <4>1. PICK k \in 0 .. m : AcksBytes(r, k)
          BY <2>4
        <4>2. SeqAdd(isn[r.tuple], n + 1) = SeqAdd(isn[r.tuple], k + 1)
          BY <2>8, <4>1 DEF TakeAck, AcksBytes
        <4>3. n + 1 \in SeqNo /\ k + 1 \in SeqNo /\ isn[r.tuple] \in SeqNo
          BY <2>1, <2>4, <2>8, StreamAssumption, SeqModAssumption DEF SeqNo, TypeOK
        <4>4. n + 1 = k + 1
          BY <4>2, <4>3, SeqAddInjective
        <4> QED
          BY <2>8, <2>4, <4>4
      <3>3. PeerIsConnected'
        <4> SUFFICES ASSUME NEW t \in Tuples, peer[t] = "ESTABLISHED"
                     PROVE  /\ state[t] \in {"SYN_RECVED", "ESTABLISHED"}
                            /\ snd_nxt[t] = SeqAdd(irs[t], 1)
                            /\ \E i \in acked'[t] .. sent'[t] : Received(t, i)'
          BY <3>1 DEF PeerIsConnected
        <4>1. CASE t = r.tuple
          <5>1. acked'[t] = n /\ m \in n .. sent'[t]
            BY <1>3, <2>1, <2>5, <2>8, <3>1, <3>2, <4>1 DEF TypeOK
          <5> QED
            BY <1>2, <2>5, <4>1, <5>1 DEF PeerIsConnected
        <4>2. CASE t # r.tuple
          BY <1>2, <2>6, <4>2 DEF PeerIsConnected
        <4> QED
          BY <4>1, <4>2
      <3> QED
        BY <1>1, <1>2, <2>1, <2>2, <3>1, <3>3 DEF ConnectionInv, TypeOK
    <2>9. CASE IgnoreReply(r)
      BY <1>1, <1>2, <1>3, <1>5, <2>2, <2>9 DEF IgnoreReply, ConnectionInv, peerVars
    <2> QED
      BY <1>8, <2>7, <2>8, <2>9 DEF PeerRecv
  <1> QED
    BY <1>6, <1>7, <1>8 DEF PeerReceives

\* Until DNet restarts, and on a link that does not pad frames, every reply in
\* the network and everything the peers learnt from replies is about a
\* connection that DNet holds.
THEOREM ConnectionInvariant ==
  ASSUME MinPayload = 0
  PROVE  Spec => []ConnectionInv
  <1>1. Init => ConnectionInv
    BY DEF Init, TcpInit, PeerInit, ConnectionInv, PeerIsConnected
  <1>2. TypeOK /\ TypeOK' /\ SessionInv /\ ConnectionInv /\ [Next]_vars
          => ConnectionInv'
    <2> SUFFICES ASSUME TypeOK, TypeOK', SessionInv, ConnectionInv, [Next]_vars,
                        restarts' = 0
                 PROVE  ConnectionInv'
      BY DEF ConnectionInv
    <2>1. restarts = 0 /\ ~Restart
      BY DEF Next, vars, ServerRecv, Restart, PeerSends, PeerReceives, NetworkLoses,
             TypeOK
    <2>2. CASE UNCHANGED vars
      BY <2>1, <2>2
      DEF vars, tcpVars, peerVars, netVars, ConnectionInv, PeerIsConnected,
          OfTheConnection, Received, AcksBytes
    <2> QED
      BY <2>1, <2>2, ServerKeepsConnections, PeersKeepConnections DEF Next
  <1> QED
    BY <1>1, <1>2, TypeCorrect, SessionInvariant, PTL DEF Spec

\* Until DNet restarts, a peer that believes it is connected is, with the
\* sequence numbers it knows, and nothing it takes as acknowledged is missing.
THEOREM ConnectedTogether ==
  ASSUME MinPayload = 0
  PROVE  Spec => []PeerIsConnected
  <1>1. ConnectionInv => PeerIsConnected
    BY DEF ConnectionInv, PeerIsConnected
  <1> QED
    BY <1>1, ConnectionInvariant, PTL

\* Until DNet restarts, the bytes on_recv acknowledges are in the ring buffer,
\* as long as the ring buffer has not been full.
THEOREM AcknowledgedIsHeld ==
  ASSUME MinPayload = 0
  PROVE  Spec => []AckedIsHeldUntilFull
  <1>1. TypeOK /\ SessionInv /\ ConnectionInv => AckedIsHeldUntilFull
    <2> SUFFICES ASSUME TypeOK, SessionInv, ConnectionInv, NEW r \in toPeer,
                        restarts = 0
                 PROVE  \E n \in 0 .. sent[r.tuple] :
                            /\ AcksBytes(r, n)
                            /\ \/ n <= Len(rcvbuf[r.tuple])
                               \/ Len(rcvbuf[r.tuple]) = MaxBytes
      BY DEF AckedIsHeldUntilFull
    <2> DEFINE t == r.tuple
    <2>1. t \in Tuples /\ sent[t] \in 0 .. StreamLen /\ isn[t] \in SeqNo
      BY DEF TypeOK, Replies
    <2>2. state[t] \in {"SYN_RECVED", "ESTABLISHED"}
      BY <2>1 DEF ConnectionInv, OfTheConnection, TypeOK, TcpTypeOK, TcpStates
    <2>3. PICK m \in 0 .. sent[t] :
            Received(t, m) /\ \E n \in 0 .. m : AcksBytes(r, n)
      BY DEF ConnectionInv, OfTheConnection
    <2>4. PICK n \in 0 .. m : AcksBytes(r, n)
      BY <2>3
    <2>5. PICK k \in 0 .. sent[t] :
            /\ Received(t, k)
            /\ Len(rcvbuf[t]) = IF k <= MaxBytes THEN k ELSE MaxBytes
      <3>1. CASE state[t] = "ESTABLISHED"
        BY <2>1, <3>1 DEF SessionInv, MatchesThePeer, HoldsTheStream
      <3>2. CASE state[t] = "SYN_RECVED"
        <4>1. Received(t, 0) /\ rcvbuf[t] = << >>
          BY <2>1, <3>2 DEF SessionInv, MatchesThePeer
        <4>2. 0 \in 0 .. sent[t] /\ 0 <= MaxBytes /\ Len(rcvbuf[t]) = 0
          BY <2>1, <4>1, StreamAssumption, BufferSizeAssumption DEF MaxBytes
        <4> QED
          BY <4>1, <4>2
      <3> QED
        BY <2>2, <3>1, <3>2
    <2>6. m = k
      <3>1. SeqAdd(isn[t], m + 1) = SeqAdd(isn[t], k + 1)
        BY <2>3, <2>5 DEF Received
      <3>2. m + 1 \in SeqNo /\ k + 1 \in SeqNo
        BY <2>1, <2>3, <2>5, StreamAssumption, SeqModAssumption DEF SeqNo
      <3>3. m + 1 = k + 1
        BY <2>1, <3>1, <3>2, SeqAddInjective
      <3> QED
        BY <2>1, <2>3, <2>5, <3>3
    <2> HIDE DEF t
    <2>7. n \in 0 .. sent[t] /\ (n <= Len(rcvbuf[t]) \/ Len(rcvbuf[t]) = MaxBytes)
      <3>1. sent[t] \in Nat /\ MaxBytes \in Nat
        BY <2>1, StreamAssumption, BufferSizeAssumption DEF MaxBytes
      <3> QED
        BY <2>3, <2>4, <2>5, <2>6, <3>1
    <2> QED
      BY <2>4, <2>7 DEF t
  <1> QED
    BY <1>1, TypeCorrect, SessionInvariant, ConnectionInvariant, PTL
=============================================================================
