----------------------------- MODULE TcpOverArp -----------------------------
(***************************************************************************)
(* The TCP handler on top of the layers that carry its segments.  A frame  *)
(* of the listener goes through L2::on_recv to ARP::on_recv or, through    *)
(* L3::on_recv and L4::on_recv, to TCP::on_recv; a reply goes through      *)
(* L4::send to L3::send, which needs the MAC address of a host of the      *)
(* subnet: when the ARP cache does not have it, the packet is dropped and  *)
(* a request is sent in its place, and the caller is told nothing.         *)
(***************************************************************************)
EXTENDS TcpPeer, ARP

CONSTANTS
    HostOf,        \* the peer's address of each tuple
    MacOf,         \* the MAC address of each host
    LossyReplies, MaxRestarts,
    MaxClock       \* bound on the seconds that pass

ASSUME HostsAssumption ==
    /\ HostOf \in [Tuples -> Ips]
    /\ MacOf \in [Ips -> Macs]
ASSUME BoundsAssumption ==
    LossyReplies \in BOOLEAN /\ MaxRestarts \in Nat /\ MaxClock \in Nat

VARIABLES
    clock,
    requests,      \* addresses DNet's ARP requests on the wire ask for
    responses,     \* ARP responses on their way to DNet
    resolved,      \* the hosts that know DNet's MAC address
    unsent,        \* segments on_recv handed to L4_send that L3::send dropped
    restarts

arpVars == <<cache, requests, responses>>

vars == <<tcpVars, peerVars, netVars, arpVars, clock, resolved, unsent, restarts>>

Init ==
    /\ TcpInit /\ PeerInit /\ ArpInit
    /\ clock = 0 /\ restarts = 0
    /\ requests = {} /\ responses = {} /\ resolved = {} /\ unsent = {}

-----------------------------------------------------------------------------
\* L3::send to a host outside the subnet goes to the TAP device's MAC.
Routed(ip) == ip \notin Subnet

Reachable(ip) == Routed(ip) \/ Hit(ip, clock)

\* Faults: a miss sends no request; a miss flushes what is still queued.
L4SendNotAsking(r) ==
    /\ IF Reachable(HostOf[r.tuple])
       THEN toPeer' = toPeer \cup {r} /\ UNCHANGED unsent
       ELSE unsent' = unsent \cup {r} /\ UNCHANGED toPeer
    /\ UNCHANGED requests

L4SendFlushing(r) ==
    \/ /\ Reachable(HostOf[r.tuple])
       /\ toPeer' = toPeer \cup {r}
       /\ UNCHANGED <<unsent, requests>>
    \/ /\ ~Reachable(HostOf[r.tuple])
       /\ requests' = requests \cup {Request(HostOf[r.tuple]).target_ip}
       /\ unsent' = unsent \cup {r}
       /\ toPeer' = {}

\* L4::send, L3::send, and L2::send of what is left of it.
L4Send(r) ==
    \/ /\ Reachable(HostOf[r.tuple])
       /\ toPeer' = toPeer \cup {r}
       /\ UNCHANGED <<unsent, requests>>
    \/ /\ ~Reachable(HostOf[r.tuple])
       /\ requests' = requests \cup {Request(HostOf[r.tuple]).target_ip}
       /\ unsent' = unsent \cup {r}
       /\ UNCHANGED toPeer

\* The listener hands an IP frame with a TCP segment to L2::on_recv.
TcpFrame(s) ==
    /\ s \in toServer
    /\ toServer' \in Consume(toServer, s)
    /\ \/ \E iss \in Iss : AcceptSyn(s, iss) /\ L4Send(SynAck(s, iss))
       \/ ReceiveInOrder(s) /\ L4Send(DataAck(s))
       \/ Silent(s) /\ UNCHANGED <<toPeer, unsent, requests>>
    /\ UNCHANGED <<peerVars, cache, responses, clock, resolved, restarts>>

\* The listener hands an ARP frame to L2::on_recv: a host's answer, or a
\* host's request for any address, which teaches DNet nothing.
ArpResponseFrame(p) ==
    /\ p \in responses
    /\ responses' = responses \ {p}
    /\ CacheResponse(p, clock)
    /\ UNCHANGED <<tcpVars, peerVars, netVars, requests, clock, resolved, unsent, restarts>>

ArpRequestFrame(ip, target) ==
    LET p == [op |-> "REQUEST", sender_mac |-> MacOf[ip], sender_ip |-> ip,
              target_ip |-> target]
    IN  /\ \/ AnswerRequest(p) /\ resolved' = resolved \cup {Response(p).target_ip}
           \/ IgnoreRequest(p) /\ UNCHANGED resolved
        /\ UNCHANGED <<tcpVars, peerVars, netVars, requests, responses, clock, unsent, restarts>>

HostResponse(ip) == [op |-> "RESPONSE", sender_mac |-> MacOf[ip], sender_ip |-> ip]

\* The asked host answers; ARP frames are not lost here.
HostAnswers(ip) ==
    /\ ip \in requests
    /\ requests' = requests \ {ip}
    /\ responses' = responses \cup {HostResponse(ip)}
    /\ UNCHANGED <<tcpVars, peerVars, netVars, cache, clock, resolved, unsent, restarts>>

Tick ==
    /\ clock < MaxClock
    /\ clock' = clock + 1
    /\ UNCHANGED <<tcpVars, peerVars, netVars, arpVars, resolved, unsent, restarts>>

Restart ==
    /\ restarts < MaxRestarts
    /\ restarts' = restarts + 1
    /\ TcpRestart
    /\ cache' = [ip \in {} |-> Entry(OwnMac, 0)]
    /\ UNCHANGED <<peerVars, netVars, requests, responses, clock, resolved, unsent>>

-----------------------------------------------------------------------------
\* A host of the subnet sends to DNet once it has resolved its address.
MaySend(t) == Routed(HostOf[t]) \/ HostOf[t] \in resolved

PeerSends ==
    /\ \/ \E t \in Tuples, n \in Isn : MaySend(t) /\ Open(t, n)
       \/ \E t \in Tuples : ResendSyn(t)
       \/ \E t \in Tuples, off \in 0 .. StreamLen, len \in 0 .. Window :
              SendBytes(t, off, len)
    /\ UNCHANGED <<tcpVars, arpVars, clock, resolved, unsent, restarts>>

PeerReceives ==
    /\ \E r \in toPeer : PeerRecv(r)
    /\ UNCHANGED <<tcpVars, arpVars, clock, resolved, unsent, restarts>>

NetworkLoses ==
    /\ \/ \E s \in toServer : LoseSegment(s)
       \/ LossyReplies /\ \E r \in toPeer : LoseReply(r)
    /\ UNCHANGED <<tcpVars, arpVars, clock, resolved, unsent, restarts>>

Next ==
    \/ \E s \in toServer : TcpFrame(s)
    \/ \E p \in responses : ArpResponseFrame(p)
    \/ \E t \in Tuples, target \in Ips : ArpRequestFrame(HostOf[t], target)
    \/ \E ip \in Ips : HostAnswers(ip)
    \/ Tick \/ Restart
    \/ PeerSends \/ PeerReceives \/ NetworkLoses

Spec == Init /\ [][Next]_vars

-----------------------------------------------------------------------------
\* The listener handles the frames it reads, hosts answer ARP requests, and
\* peers repeat what is not acknowledged: a segment that is sent again and
\* again gets through in the end.
Fairness ==
    /\ \A ip \in Ips : WF_vars(HostAnswers(ip))
    /\ WF_vars(\E p \in responses : ArpResponseFrame(p))
    /\ \A t \in Tuples :
          /\ WF_vars(ArpRequestFrame(HostOf[t], Network))
          /\ WF_vars(/\ MaySend(t)
                     /\ \/ \E n \in Isn : Open(t, n)
                        \/ ResendSyn(t)
                     /\ UNCHANGED <<tcpVars, arpVars, clock, resolved, unsent, restarts>>)
          /\ SF_vars(\E s \in toServer : s.tuple = t /\ s.flags = {"SYN"} /\ TcpFrame(s))
          /\ SF_vars(/\ \E r \in toPeer : r.tuple = t /\ TakeSynAck(r) /\ PeerRecv(r)
                     /\ UNCHANGED <<tcpVars, arpVars, clock, resolved, unsent, restarts>>)

FairSpec == Spec /\ Fairness

-----------------------------------------------------------------------------
\* Every variable of the handler, of the peers and of the two directions of the
\* network has its type, the dropped replies are replies, and what the ARP cache
\* has and hears of a host is that host's MAC address (ARP.cpp:81-86), no newer
\* than the clock can be.
ArpTypeOK ==
    /\ DOMAIN cache \subseteq Ips
    /\ \A ip \in DOMAIN cache :
          cache[ip].address = MacOf[ip] /\ cache[ip].last_update \in 0 .. MaxClock
    /\ clock \in 0 .. MaxClock /\ restarts \in 0 .. MaxRestarts
    /\ requests \subseteq Ips /\ resolved \subseteq Ips
    /\ responses \subseteq {HostResponse(ip) : ip \in Ips}

TypeOK ==
    /\ TcpTypeOK
    /\ PeerTypeOK
    /\ unsent \subseteq Replies
    /\ ArpTypeOK

\* Seen from the two ends, dropping a reply for lack of a MAC address is a
\* network that never delivers it: with the dropped segments counted as still
\* on their way, every behaviour is one of TcpSession, whose safety properties
\* hold here too.
Session == INSTANCE TcpSession WITH toPeer <- toPeer \cup unsent

ImplementsSession == Session!Spec

\* A reply is dropped only for a host of the subnet, and not without asking
\* for its MAC address: the request is on its way, or its answer is, or DNet
\* has learnt the address since.
DroppedRepliesAreAskedFor ==
    \A r \in unsent :
        LET ip == HostOf[r.tuple]
        IN  /\ ~Routed(ip)
            /\ restarts = 0 =>
                  \/ ip \in requests
                  \/ \E p \in responses : p.sender_ip = ip
                  \/ ip \in DOMAIN cache

\* A connection that its peer opens while its address is in the cache, or from
\* outside the subnet, is established in the end, unless the address leaves
\* the cache before.
ReachablePeersConnect ==
    \A t \in Tuples :
        (state[t] = "ABSENT" /\ Reachable(HostOf[t])) ~>
            (peer[t] = "ESTABLISHED" \/ ~Reachable(HostOf[t]))

-----------------------------------------------------------------------------
\* TCP.cpp:63 "LISTEN->SYN_RECVED, sent SYN-ACK": a connection whose
\* handshake has begun has sent its SYN-ACK.
SynAckIsSent ==
    \A t \in Tuples :
        (state[t] = "SYN_RECVED" /\ restarts = 0) =>
            ~\E r \in unsent : r.tuple = t /\ "SYN" \in r.flags
=============================================================================
