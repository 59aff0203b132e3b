---------------------------- MODULE TcpSession -----------------------------
(***************************************************************************)
(* The TCP handler and its peers over a network that loses, duplicates and *)
(* reorders segments in both directions, while DNet may be stopped and     *)
(* started again.  A reply is in the network as soon as L4_send returns;   *)
(* the module TcpOverArp models what the layers below do to it first.      *)
(***************************************************************************)
EXTENDS TcpPeer

CONSTANTS
    LossyReplies,  \* whether the network may lose DNet's segments
    MaxRestarts    \* bound on the restarts of DNet

ASSUME LossyRepliesAssumption == LossyReplies \in BOOLEAN
ASSUME MaxRestartsAssumption == MaxRestarts \in Nat

VARIABLE restarts

vars == <<tcpVars, peerVars, netVars, restarts>>

Init == TcpInit /\ PeerInit /\ restarts = 0

\* One call of on_recv, and the reply it hands to L4_send.
ServerRecv(s) ==
    /\ s \in toServer
    /\ toServer' \in Consume(toServer, s)
    /\ \/ \E iss \in Iss : /\ AcceptSyn(s, iss)
                           /\ toPeer' = toPeer \cup {SynAck(s, iss)}
       \/ /\ ReceiveInOrder(s)
          /\ toPeer' = toPeer \cup {DataAck(s)}
       \/ Silent(s) /\ UNCHANGED toPeer
    /\ UNCHANGED <<peerVars, restarts>>

Restart ==
    /\ restarts < MaxRestarts
    /\ restarts' = restarts + 1
    /\ TcpRestart
    /\ UNCHANGED <<peerVars, netVars>>

PeerSends ==
    /\ \/ \E t \in Tuples, n \in Isn : Open(t, n)
       \/ \E t \in Tuples : ResendSyn(t)
       \/ \E t \in Tuples, off \in 0 .. StreamLen, len \in 0 .. Window :
              SendBytes(t, off, len)
    /\ UNCHANGED <<tcpVars, restarts>>

PeerReceives == (\E r \in toPeer : PeerRecv(r)) /\ UNCHANGED <<tcpVars, restarts>>

NetworkLoses ==
    /\ \/ \E s \in toServer : LoseSegment(s)
       \/ LossyReplies /\ \E r \in toPeer : LoseReply(r)
    /\ UNCHANGED <<tcpVars, restarts>>

Next ==
    \/ \E s \in toServer : ServerRecv(s)
    \/ Restart
    \/ PeerSends
    \/ PeerReceives
    \/ NetworkLoses

Spec == Init /\ [][Next]_vars

-----------------------------------------------------------------------------
\* Every variable, and every segment in the network, has its type.  The
\* states of TcpStates are the only ones a call of on_recv finds, so that the
\* assertion of its default case cannot fail, and rcvbuf never holds more
\* than the ring buffer can.
TypeOK ==
    /\ TcpTypeOK
    /\ PeerTypeOK
    /\ restarts \in 0 .. MaxRestarts

\* The bytes kept for the application are the first bytes of the peer's
\* stream, each once and in order, whatever the network loses, repeats or
\* reorders: rcvbuf only grows by the segment at rcv_nxt.
ReceivedIsPrefix ==
    \A t \in Tuples :
        /\ Len(rcvbuf[t]) <= sent[t]
        /\ \A i \in 1 .. Len(rcvbuf[t]) : rcvbuf[t][i] = i

\* DNet never acknowledges a byte the peer has not sent.
AckNeverBeyondSent ==
    \A r \in toPeer : \E n \in 0 .. sent[r.tuple] : AcksBytes(r, n)

\* A connection is ESTABLISHED only when its peer holds the same connection:
\* it took the SYN-ACK with the initial sequence number of this very
\* connection, also after a restart of DNet and repeated SYNs.
NoFalseEstablishment ==
    \A t \in Tuples :
        state[t] = "ESTABLISHED" =>
            /\ peer[t] = "ESTABLISHED"
            /\ snd_nxt[t] = SeqAdd(irs[t], 1)
            /\ snd_una[t] = snd_nxt[t]

\* The bytes of the peer's stream that rcv_nxt says DNet has received.
Received(t, n) == rcv_nxt[t] = SeqAdd(isn[t], n + 1)

\* Until DNet restarts, a peer that believes it is connected is: the server
\* still has the connection, with the sequence numbers the peer knows, and has
\* received at least what the peer takes as acknowledged.
PeerIsConnected ==
    \A t \in Tuples :
        (peer[t] = "ESTABLISHED" /\ restarts = 0) =>
            /\ state[t] \in {"SYN_RECVED", "ESTABLISHED"}
            /\ snd_nxt[t] = SeqAdd(irs[t], 1)
            /\ \E n \in acked[t] .. sent[t] : Received(t, n)

\* Until DNet restarts, what it acknowledged it holds, until the buffer is
\* full: from then on writeAll loses bytes that on_recv acknowledges.
AckedIsHeldUntilFull ==
    \A r \in toPeer :
        restarts = 0 =>
            \E n \in 0 .. sent[r.tuple] :
                /\ AcksBytes(r, n)
                /\ \/ n <= Len(rcvbuf[r.tuple])
                   \/ Len(rcvbuf[r.tuple]) = MaxBytes

\* rcv_nxt never moves back within a connection.
NeverUnreceives ==
    [][\A t \in Tuples, n \in 0 .. StreamLen :
          (Received(t, n) /\ state[t] = "ESTABLISHED" /\ state'[t] = "ESTABLISHED")
              => \E m \in n .. StreamLen : Received(t, m)']_vars

-----------------------------------------------------------------------------
\* Why the safety properties hold: an inductive invariant, for a link that
\* does not pad frames.  A segment in the network is one the peer of the
\* present connection sent.
IsThePeers(s) ==
    \/ /\ s.flags = {"SYN"} /\ s.off = 0 /\ s.len = 0
       /\ peer[s.tuple] # "CLOSED"
       /\ s.seq = isn[s.tuple]
    \/ /\ s.flags = {"ACK"}
       /\ peer[s.tuple] = "ESTABLISHED"
       /\ s.seq = SeqAdd(isn[s.tuple], s.off + 1)
       /\ s.ack = SeqAdd(irs[s.tuple], 1)
       /\ s.off + s.len <= sent[s.tuple]

\* A reply acknowledges a part of the stream that was sent.
AcksTheStream(r) ==
    /\ peer[r.tuple] # "CLOSED"
    /\ \E n \in 0 .. sent[r.tuple] : AcksBytes(r, n)

\* rcv_nxt and rcvbuf agree on how much of the stream has arrived, and
\* rcvbuf holds it up to the size of the buffer.
HoldsTheStream(t) ==
    /\ \A i \in 1 .. Len(rcvbuf[t]) : rcvbuf[t][i] = i
    /\ \E n \in 0 .. sent[t] :
          /\ Received(t, n)
          /\ Len(rcvbuf[t]) = IF n <= MaxBytes THEN n ELSE MaxBytes

MatchesThePeer(t) ==
    /\ state[t] = "ABSENT" => rcvbuf[t] = << >>
    /\ state[t] = "SYN_RECVED" =>
          /\ peer[t] # "CLOSED"
          /\ Received(t, 0)
          /\ rcvbuf[t] = << >>
    /\ state[t] = "ESTABLISHED" =>
          /\ peer[t] = "ESTABLISHED"
          /\ snd_nxt[t] = SeqAdd(irs[t], 1)
          /\ snd_una[t] = snd_nxt[t]
          /\ HoldsTheStream(t)

\* Segments, replies and connections all speak of the one stream of their
\* peer, at positions that agree.
SessionInv ==
    /\ \A s \in toServer : IsThePeers(s)
    /\ \A r \in toPeer : AcksTheStream(r)
    /\ \A t \in Tuples : MatchesThePeer(t)

\* Until DNet restarts, a reply belongs to the connection DNet still has: a
\* SYN-ACK bears its sequence number, and what a reply acknowledges DNet has
\* received.
OfTheConnection(r) ==
    /\ state[r.tuple] # "ABSENT"
    /\ "SYN" \in r.flags => SeqAdd(r.seq, 1) = snd_nxt[r.tuple]
    /\ \E m \in 0 .. sent[r.tuple] :
          Received(r.tuple, m) /\ \E n \in 0 .. m : AcksBytes(r, n)

\* The replies of the first run of DNet and what the peers learnt from them
\* speak of connections that DNet holds.
ConnectionInv ==
    restarts = 0 =>
        /\ PeerIsConnected
        /\ \A r \in toPeer : OfTheConnection(r)
        /\ \A t \in Tuples : peer[t] # "ESTABLISHED" => acked[t] = 0

-----------------------------------------------------------------------------
\* TCP.cpp:88 "receive buffer full, dropping packet": a packet that does not
\* fit is dropped, so every byte DNet acknowledged is in the buffer.
AckedIsHeld ==
    \A r \in toPeer :
        restarts = 0 =>
            \E n \in 0 .. Len(rcvbuf[r.tuple]) : AcksBytes(r, n)
=============================================================================
