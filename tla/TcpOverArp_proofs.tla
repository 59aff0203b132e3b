------------------------- MODULE TcpOverArp_proofs --------------------------
(***************************************************************************)
(* Theorems about TcpOverArp: it implements TcpSession, whose theorems     *)
(* therefore hold of the TCP handler on top of ARP and IPv4 too, and what  *)
(* ARP does for the replies it cannot send.                                *)
(***************************************************************************)
EXTENDS TcpOverArp, TLAPS

\* TcpSession with its theorems, under the same refinement mapping.
Proved == INSTANCE TcpSession_proofs WITH toPeer <- toPeer \cup unsent

-----------------------------------------------------------------------------
(* The refinement.                                                         *)

\* The handler's branches, and what the two ends put into the network towards
\* DNet, are the same under the refinement mapping.
LEMMA SameHandler ==
  /\ \A s, iss : AcceptSyn(s, iss) <=> Session!AcceptSyn(s, iss)
  /\ \A s, iss : SynAck(s, iss) = Session!SynAck(s, iss)
  /\ \A s : ReceiveInOrder(s) <=> Session!ReceiveInOrder(s)
  /\ \A s : DataAck(s) = Session!DataAck(s)
  /\ \A s : Silent(s) <=> Session!Silent(s)
  /\ TcpRestart <=> Session!TcpRestart
  /\ \A s : Consume(toServer, s) = Session!Consume(toServer, s)
  BY DEF AcceptSyn, SynAck, ReceiveInOrder, DataAck, Silent, TcpRestart, Consume,
         DropUnknown, CompleteHandshake, IgnoreInHandshake, RefuseWhenFull,
         IgnoreOutOfOrder, AcksSynAck, InOrder, Accepts, Fits, Capacity,
         WriteAllTo, Stored, MaxBytes, Payload, PayloadSize, PadOctet, Max2,
         SeqAdd, tcpVars,
         Session!AcceptSyn, Session!SynAck, Session!ReceiveInOrder,
         Session!DataAck, Session!Silent, Session!TcpRestart, Session!Consume,
         Session!DropUnknown, Session!CompleteHandshake,
         Session!IgnoreInHandshake, Session!RefuseWhenFull,
         Session!IgnoreOutOfOrder, Session!AcksSynAck, Session!InOrder,
         Session!Accepts, Session!Fits, Session!Capacity, Session!WriteAllTo,
         Session!Stored, Session!MaxBytes, Session!Payload,
         Session!PayloadSize, Session!PadOctet, Session!Max2, Session!SeqAdd,
         Session!tcpVars

\* So is what a peer does, for what it does not put into the network.
LEMMA SamePeer ==
  /\ \A t, n : Open(t, n) /\ UNCHANGED unsent => Session!Open(t, n)
  /\ \A t : ResendSyn(t) /\ UNCHANGED unsent => Session!ResendSyn(t)
  /\ \A t, off, len : SendBytes(t, off, len) /\ UNCHANGED unsent
                          => Session!SendBytes(t, off, len)
  /\ \A r : TakeSynAck(r) <=> Session!TakeSynAck(r)
  /\ \A r, n : TakeAck(r, n) <=> Session!TakeAck(r, n)
  /\ \A r : IgnoreReply(r) <=> Session!IgnoreReply(r)
  /\ \A s : LoseSegment(s) /\ UNCHANGED unsent => Session!LoseSegment(s)
  <1>1. \A t, n : Open(t, n) /\ UNCHANGED unsent => Session!Open(t, n)
    BY DEF Open, SynSegment, Session!Open, Session!SynSegment
  <1>2. \A t : ResendSyn(t) /\ UNCHANGED unsent => Session!ResendSyn(t)
    BY DEF ResendSyn, SynSegment, peerVars,
           Session!ResendSyn, Session!SynSegment, Session!peerVars
  <1>3. \A t, off, len : SendBytes(t, off, len) /\ UNCHANGED unsent
                             => Session!SendBytes(t, off, len)
    BY DEF SendBytes, DataSegment, SeqAdd, Max2,
           Session!SendBytes, Session!DataSegment, Session!SeqAdd, Session!Max2
  <1>4. /\ \A r : TakeSynAck(r) <=> Session!TakeSynAck(r)
        /\ \A r, n : TakeAck(r, n) <=> Session!TakeAck(r, n)
        /\ \A r : IgnoreReply(r) <=> Session!IgnoreReply(r)
    BY DEF TakeSynAck, TakeAck, IgnoreReply, DataSegment, Acceptable, AcksBytes,
           SeqAdd, peerVars,
           Session!TakeSynAck, Session!TakeAck, Session!IgnoreReply,
           Session!DataSegment, Session!Acceptable, Session!AcksBytes,
           Session!SeqAdd, Session!peerVars
  <1>5. \A s : LoseSegment(s) /\ UNCHANGED unsent => Session!LoseSegment(s)
    BY DEF LoseSegment, peerVars, Session!LoseSegment, Session!peerVars
  <1> QED
    BY <1>1, <1>2, <1>3, <1>4, <1>5

\* Whether L3::send sends a reply or drops it for lack of a MAC address, for
\* the two ends of TCP it is on its way, delivered late or never.
THEOREM RefinesSession == Spec => ImplementsSession
  <1> DEFINE net == toPeer \cup unsent
  <1>1. Init => Session!Init
    BY DEF Init, TcpInit, PeerInit, Session!Init, Session!TcpInit, Session!PeerInit
  <1>2. [Next]_vars => [Session!Next]_(Session!vars)
    <2> SUFFICES ASSUME [Next]_vars PROVE [Session!Next]_(Session!vars)
      OBVIOUS
    <2>1. ASSUME UNCHANGED <<tcpVars, peerVars, netVars, unsent, restarts>>
          PROVE  UNCHANGED Session!vars
      BY <2>1 DEF tcpVars, peerVars, netVars, Session!vars, Session!tcpVars,
                  Session!peerVars, Session!netVars
    <2>2. ASSUME NEW r, L4Send(r) PROVE net' = net \cup {r}
      BY <2>2 DEF L4Send
    <2>3. ASSUME NEW s \in toServer, TcpFrame(s) PROVE Session!Next
      <3>1. UNCHANGED <<Session!peerVars, restarts>>
        BY <2>3 DEF TcpFrame, peerVars, Session!peerVars
      <3>2. CASE \E iss \in Iss : AcceptSyn(s, iss) /\ L4Send(SynAck(s, iss))
        BY <2>2, <2>3, <3>1, <3>2, SameHandler
        DEF TcpFrame, Session!Next, Session!ServerRecv
      <3>3. CASE ReceiveInOrder(s) /\ L4Send(DataAck(s))
        BY <2>2, <2>3, <3>1, <3>3, SameHandler
        DEF TcpFrame, Session!Next, Session!ServerRecv
      <3>4. CASE Silent(s) /\ UNCHANGED <<toPeer, unsent, requests>>
        BY <2>3, <3>1, <3>4, SameHandler
        DEF TcpFrame, Session!Next, Session!ServerRecv
      <3> QED
        BY <2>3, <3>2, <3>3, <3>4 DEF TcpFrame
    <2>4. ASSUME NEW p \in responses, ArpResponseFrame(p)
          PROVE  UNCHANGED Session!vars
      BY <2>1, <2>4 DEF ArpResponseFrame
    <2>5. ASSUME NEW t \in Tuples, NEW target \in Ips,
                 ArpRequestFrame(HostOf[t], target)
          PROVE  UNCHANGED Session!vars
      BY <2>1, <2>5 DEF ArpRequestFrame
    <2>6. ASSUME NEW ip \in Ips, HostAnswers(ip) PROVE UNCHANGED Session!vars
      BY <2>1, <2>6 DEF HostAnswers
    <2>7. CASE Tick
      BY <2>1, <2>7 DEF Tick
    <2>8. CASE Restart
      BY <2>8, SameHandler
      DEF Restart, peerVars, netVars, Session!Next, Session!Restart,
          Session!peerVars, Session!netVars
    <2>9. CASE PeerSends
      <3>1. UNCHANGED <<Session!tcpVars, restarts, unsent>>
        BY <2>9 DEF PeerSends, tcpVars, Session!tcpVars
      <3> QED
        BY <2>9, <3>1, SamePeer
        DEF PeerSends, Session!Next, Session!PeerSends
    <2>10. CASE PeerReceives
      <3>1. PICK r \in toPeer : PeerRecv(r)
        BY <2>10 DEF PeerReceives
      <3>2. UNCHANGED <<Session!tcpVars, restarts, unsent>>
        BY <2>10 DEF PeerReceives, tcpVars, Session!tcpVars
      <3>3. net' \in {net, net \ {r}}
        BY <3>1, <3>2 DEF PeerRecv, Consume
      <3>4. Session!PeerRecv(r)
        BY <3>1, <3>3, SamePeer DEF PeerRecv, Session!PeerRecv, Session!Consume
      <3> QED
        BY <3>1, <3>2, <3>4 DEF Session!Next, Session!PeerReceives
    <2>11. CASE NetworkLoses
      <3>1. UNCHANGED <<Session!tcpVars, restarts, unsent>>
        BY <2>11 DEF NetworkLoses, tcpVars, Session!tcpVars
      <3>2. ASSUME NEW s \in toServer, LoseSegment(s) PROVE Session!Next
        BY <3>1, <3>2, SamePeer DEF Session!Next, Session!NetworkLoses
      <3>3. ASSUME NEW r \in toPeer, LossyReplies, LoseReply(r), r \notin unsent
            PROVE  Session!Next
        <4>1. net' = net \ {r} /\ r \in net /\ UNCHANGED <<Session!peerVars, toServer>>
          BY <3>1, <3>3 DEF LoseReply, peerVars, Session!peerVars
        <4> QED
          BY <3>1, <3>3, <4>1
          DEF Session!Next, Session!NetworkLoses, Session!LoseReply
      <3>4. ASSUME NEW r \in toPeer, LoseReply(r), r \in unsent
            PROVE  UNCHANGED Session!vars
        <4>1. net' = net /\ UNCHANGED <<Session!peerVars, toServer>>
          BY <3>1, <3>4 DEF LoseReply, peerVars, Session!peerVars
        <4> QED
          BY <3>1, <4>1 DEF Session!vars, Session!netVars
      <3> QED
        BY <2>11, <3>2, <3>3, <3>4 DEF NetworkLoses
    <2>12. CASE UNCHANGED vars
      BY <2>1, <2>12 DEF vars
    <2> QED
      BY <2>3, <2>4, <2>5, <2>6, <2>7, <2>8, <2>9, <2>10, <2>11, <2>12,
         <2>1 DEF Next
  <1> QED
    BY <1>1, <1>2, PTL DEF Spec, ImplementsSession, Session!Spec

\* Both instances of TcpSession are the same specification.
LEMMA SameSession == Session!Spec <=> Proved!Spec
  BY PTL
  DEF Session!Spec, Session!Init, Session!TcpInit, Session!PeerInit,
      Session!Next, Session!vars, Session!tcpVars, Session!peerVars,
      Session!netVars, Session!ServerRecv, Session!Consume,
      Session!AcceptSyn, Session!SynAck, Session!ReceiveInOrder,
      Session!InOrder, Session!Accepts, Session!Fits, Session!Capacity,
      Session!WriteAllTo, Session!Stored, Session!MaxBytes, Session!Payload,
      Session!PayloadSize, Session!Max2, Session!PadOctet, Session!SeqAdd,
      Session!DataAck, Session!Silent, Session!DropUnknown,
      Session!CompleteHandshake, Session!AcksSynAck,
      Session!IgnoreInHandshake, Session!RefuseWhenFull,
      Session!IgnoreOutOfOrder, Session!Restart, Session!TcpRestart,
      Session!PeerSends, Session!Open, Session!SynSegment,
      Session!ResendSyn, Session!SendBytes, Session!DataSegment,
      Session!PeerReceives, Session!PeerRecv, Session!TakeSynAck,
      Session!TakeAck, Session!Acceptable, Session!AcksBytes,
      Session!IgnoreReply, Session!NetworkLoses, Session!LoseSegment,
      Session!LoseReply, Proved!Spec, Proved!Init, Proved!TcpInit,
      Proved!PeerInit, Proved!Next, Proved!vars, Proved!tcpVars,
      Proved!peerVars, Proved!netVars, Proved!ServerRecv, Proved!Consume,
      Proved!AcceptSyn, Proved!SynAck, Proved!ReceiveInOrder,
      Proved!InOrder, Proved!Accepts, Proved!Fits, Proved!Capacity,
      Proved!WriteAllTo, Proved!Stored, Proved!MaxBytes, Proved!Payload,
      Proved!PayloadSize, Proved!Max2, Proved!PadOctet, Proved!SeqAdd,
      Proved!DataAck, Proved!Silent, Proved!DropUnknown,
      Proved!CompleteHandshake, Proved!AcksSynAck, Proved!IgnoreInHandshake,
      Proved!RefuseWhenFull, Proved!IgnoreOutOfOrder, Proved!Restart,
      Proved!TcpRestart, Proved!PeerSends, Proved!Open, Proved!SynSegment,
      Proved!ResendSyn, Proved!SendBytes, Proved!DataSegment,
      Proved!PeerReceives, Proved!PeerRecv, Proved!TakeSynAck,
      Proved!TakeAck, Proved!Acceptable, Proved!AcksBytes,
      Proved!IgnoreReply, Proved!NetworkLoses, Proved!LoseSegment,
      Proved!LoseReply

\* The constants satisfy what TcpSession assumes of its own.
LEMMA SessionAssumptions ==
  /\ BufferSize \in Nat \ {0}
  /\ SeqMod \in Nat \ {0, 1}
  /\ Iss \subseteq 0 .. SeqMod - 1
  /\ MinPayload \in Nat
  /\ Isn \subseteq Proved!SeqNo
  /\ StreamLen \in Nat /\ StreamLen + 1 < SeqMod
  /\ Window \in Nat
  /\ LossyReplies \in BOOLEAN
  /\ MaxRestarts \in Nat
  BY BufferSizeAssumption, SeqModAssumption, IssAssumption,
     MinPayloadAssumption, IsnAssumption, StreamAssumption, WindowAssumption,
     BoundsAssumption
  DEF SeqNo, Proved!SeqNo

\* Segments and replies have their types, the dropped ones included.
LEMMA SessionTypes == Spec => []Session!TypeOK
  <1>1. Proved!Spec => []Proved!TypeOK
    BY Proved!TypeCorrect, SessionAssumptions
  <1>2. Proved!TypeOK <=> Session!TypeOK
    BY DEF Proved!TypeOK, Proved!TcpTypeOK, Proved!TcpStates, Proved!SeqNo,
           Proved!MaxBytes, Proved!PeerStates, Proved!Segments, Proved!Replies,
           Proved!Flags, Proved!PeerTypeOK,
           Session!TypeOK, Session!TcpTypeOK, Session!TcpStates, Session!SeqNo,
           Session!MaxBytes, Session!PeerStates, Session!Segments,
           Session!Replies, Session!Flags, Session!PeerTypeOK
  <1> QED
    BY <1>1, <1>2, RefinesSession, SameSession, PTL DEF ImplementsSession

\* What TcpSession promises holds of the TCP handler on top of the other
\* layers, the replies those drop counted as still on their way: what is kept
\* for the application is the beginning of the peer's stream, nothing that was
\* not sent is acknowledged, and no connection is established alone.
THEOREM SessionSafety ==
  ASSUME MinPayload = 0
  PROVE  Spec => /\ []Session!ReceivedIsPrefix
                 /\ []Session!AckNeverBeyondSent
                 /\ []Session!NoFalseEstablishment
  <1>1. /\ Proved!Spec => []Proved!ReceivedIsPrefix
        /\ Proved!Spec => []Proved!AckNeverBeyondSent
        /\ Proved!Spec => []Proved!NoFalseEstablishment
    BY Proved!ReceivedIsAlwaysPrefix, Proved!NeverAcksUnsent,
       Proved!EstablishedTogether, SessionAssumptions
  <1>2. /\ Proved!ReceivedIsPrefix <=> Session!ReceivedIsPrefix
        /\ Proved!AckNeverBeyondSent <=> Session!AckNeverBeyondSent
        /\ Proved!NoFalseEstablishment <=> Session!NoFalseEstablishment
    BY DEF Proved!ReceivedIsPrefix, Proved!AckNeverBeyondSent,
           Proved!NoFalseEstablishment, Proved!AcksBytes, Proved!SeqAdd,
           Session!ReceivedIsPrefix, Session!AckNeverBeyondSent,
           Session!NoFalseEstablishment, Session!AcksBytes, Session!SeqAdd
  <1> QED
    BY <1>1, <1>2, RefinesSession, SameSession, PTL DEF ImplementsSession

\* Until DNet restarts, a peer that believes it is connected is, also when its
\* address had to be resolved first.
THEOREM SessionConnected ==
  ASSUME MinPayload = 0
  PROVE  Spec => /\ []Session!PeerIsConnected
                 /\ []Session!AckedIsHeldUntilFull
  <1>1. /\ Proved!Spec => []Proved!PeerIsConnected
        /\ Proved!Spec => []Proved!AckedIsHeldUntilFull
    BY Proved!ConnectedTogether, Proved!AcknowledgedIsHeld, SessionAssumptions
  <1>2. /\ Proved!PeerIsConnected <=> Session!PeerIsConnected
        /\ Proved!AckedIsHeldUntilFull <=> Session!AckedIsHeldUntilFull
    BY DEF Proved!PeerIsConnected, Proved!AckedIsHeldUntilFull,
           Proved!AcksBytes, Proved!Received, Proved!SeqAdd, Proved!MaxBytes,
           Session!PeerIsConnected, Session!AckedIsHeldUntilFull,
           Session!AcksBytes, Session!Received, Session!SeqAdd, Session!MaxBytes
  <1> QED
    BY <1>1, <1>2, RefinesSession, SameSession, PTL DEF ImplementsSession

-----------------------------------------------------------------------------
(* The ARP cache under the handler.                                        *)

\* The cache holds the addresses of hosts that answered, with the time of the
\* answer; requests and answers are about addresses in use.
LEMMA ArpTypeCorrect == Spec => []ArpTypeOK
  <1>1. Init => ArpTypeOK
    BY BoundsAssumption
    DEF Init, ArpInit, ArpTypeOK
  <1>2. Session!TypeOK /\ ArpTypeOK /\ [Next]_vars => ArpTypeOK'
    <2> SUFFICES ASSUME Session!TypeOK, ArpTypeOK, [Next]_vars PROVE ArpTypeOK'
      OBVIOUS
    <2> USE DEF ArpTypeOK
    <2>1. ASSUME UNCHANGED <<arpVars, clock, resolved, restarts>> PROVE ArpTypeOK'
      BY <2>1 DEF arpVars
    <2>2. ASSUME NEW s \in toServer, TcpFrame(s) PROVE ArpTypeOK'
      <3>1. HostOf[s.tuple] \in Ips
        BY HostsAssumption DEF Session!TypeOK, Session!PeerTypeOK, Session!Segments
      <3>2. ASSUME NEW r, L4Send(r), r.tuple = s.tuple PROVE requests' \subseteq Ips
        BY <3>1, <3>2 DEF L4Send, Request
      <3>3. (\A iss : SynAck(s, iss).tuple = s.tuple) /\ DataAck(s).tuple = s.tuple
        BY DEF SynAck, DataAck
      <3>4. requests' \subseteq Ips
        BY <2>2, <3>2, <3>3 DEF TcpFrame
      <3> QED
        BY <2>2, <3>4 DEF TcpFrame
    <2>3. ASSUME NEW p \in responses, ArpResponseFrame(p) PROVE ArpTypeOK'
      BY <2>3 DEF ArpResponseFrame, CacheResponse, Entry, HostResponse
    <2>4. ASSUME NEW t \in Tuples, NEW target \in Ips,
                 ArpRequestFrame(HostOf[t], target)
          PROVE  ArpTypeOK'
      BY <2>4, HostsAssumption
      DEF ArpRequestFrame, AnswerRequest, IgnoreRequest, Response
    <2>5. ASSUME NEW ip \in Ips, HostAnswers(ip) PROVE ArpTypeOK'
      BY <2>5 DEF HostAnswers
    <2>6. CASE Tick
      BY <2>6, BoundsAssumption DEF Tick, arpVars
    <2>7. CASE Restart
      BY <2>7, BoundsAssumption DEF Restart
    <2>8. CASE PeerSends \/ PeerReceives \/ NetworkLoses \/ UNCHANGED vars
      BY <2>1, <2>8 DEF PeerSends, PeerReceives, NetworkLoses, vars
    <2> QED
      BY <2>2, <2>3, <2>4, <2>5, <2>6, <2>7, <2>8 DEF Next
  <1> QED
    BY <1>1, <1>2, SessionTypes, PTL DEF Spec

\* In every state of the stack the handler, the peers and both directions of the
\* network have their types, the replies L3::send dropped are replies, and the
\* ARP cache, the requests and the responses speak of hosts in use.
THEOREM TypeCorrect == Spec => []TypeOK
  <1>1. Session!TypeOK /\ ArpTypeOK => TypeOK
    BY DEF TypeOK, TcpTypeOK, TcpStates, SeqNo, MaxBytes,
           PeerTypeOK, PeerStates, Segments, Replies, Flags,
           Session!TypeOK, Session!TcpTypeOK, Session!TcpStates, Session!SeqNo,
           Session!MaxBytes, Session!PeerTypeOK, Session!PeerStates,
           Session!Segments, Session!Replies, Session!Flags
  <1> QED
    BY <1>1, SessionTypes, ArpTypeCorrect, PTL

\* L3::send drops a reply only for a host of the subnet, and DNet is asking for
\* the host's address then, or will have it: the caller that was told nothing
\* can count on the peer's repetition to be answered.
THEOREM DroppedAreAskedFor == Spec => []DroppedRepliesAreAskedFor
  <1>1. Init => DroppedRepliesAreAskedFor
    BY DEF Init, DroppedRepliesAreAskedFor
  <1>2. ArpTypeOK /\ DroppedRepliesAreAskedFor /\ [Next]_vars
          => DroppedRepliesAreAskedFor'
    <2> SUFFICES ASSUME ArpTypeOK, DroppedRepliesAreAskedFor, [Next]_vars
                 PROVE  DroppedRepliesAreAskedFor'
      OBVIOUS
    <2> USE DEF DroppedRepliesAreAskedFor, Routed
    <2>1. ASSUME UNCHANGED <<arpVars, unsent, restarts>>
          PROVE  DroppedRepliesAreAskedFor'
      BY <2>1 DEF arpVars
    <2>2. ASSUME NEW s \in toServer, TcpFrame(s)
          PROVE  DroppedRepliesAreAskedFor'
      <3>1. UNCHANGED <<cache, responses, restarts>>
        BY <2>2 DEF TcpFrame
      <3>2. ASSUME NEW r, L4Send(r) PROVE DroppedRepliesAreAskedFor'
        BY <3>1, <3>2 DEF L4Send, Reachable, Request
      <3>3. CASE UNCHANGED <<toPeer, unsent, requests>>
        BY <2>1, <3>1, <3>3 DEF arpVars
      <3> QED
        BY <2>2, <3>2, <3>3 DEF TcpFrame
    <2>3. ASSUME NEW p \in responses, ArpResponseFrame(p)
          PROVE  DroppedRepliesAreAskedFor'
      BY <2>3 DEF ArpResponseFrame, CacheResponse
    <2>4. ASSUME NEW t \in Tuples, NEW target \in Ips,
                 ArpRequestFrame(HostOf[t], target)
          PROVE  DroppedRepliesAreAskedFor'
      BY <2>1, <2>4 DEF ArpRequestFrame, AnswerRequest, IgnoreRequest, arpVars
    <2>5. ASSUME NEW ip \in Ips, HostAnswers(ip) PROVE DroppedRepliesAreAskedFor'
      <3> DEFINE p == HostResponse(ip)
      <3>1. /\ requests' = requests \ {ip} /\ responses' = responses \cup {p}
            /\ UNCHANGED <<cache, unsent, restarts>>
        BY <2>5 DEF HostAnswers
      <3>2. p.sender_ip = ip
        BY DEF HostResponse
      <3> HIDE DEF p
      <3> QED
        BY <3>1, <3>2
    <2>6. CASE Restart
      <3>1. restarts' # 0 /\ unsent' = unsent
        BY <2>6, BoundsAssumption DEF Restart, ArpTypeOK
      <3> QED
        BY <3>1
    <2>7. CASE Tick \/ PeerSends \/ PeerReceives \/ NetworkLoses \/ UNCHANGED vars
      BY <2>1, <2>7 DEF Tick, PeerSends, PeerReceives, NetworkLoses, vars
    <2> QED
      BY <2>2, <2>3, <2>4, <2>5, <2>6, <2>7 DEF Next
  <1> QED
    BY <1>1, <1>2, ArpTypeCorrect, PTL DEF Spec
=============================================================================
