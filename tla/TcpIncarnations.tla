-------------------------- MODULE TcpIncarnations --------------------------
(***************************************************************************)
(* The TCP handler with peers that end a connection and open the same      *)
(* tuple again.  DNet never removes a connection and handles neither FIN   *)
(* nor RST: a FIN in order is acknowledged as an empty segment, without    *)
(* its own number, and a reset changes nothing.  So a later incarnation    *)
(* of the peer meets the connection of an earlier one, and segments of     *)
(* all of them may still be under way, across a restart of DNet too.       *)
(*                                                                         *)
(* The peers are external: conforming TCPs whose initial sequence numbers  *)
(* stay clear of the numbers of their earlier incarnations (RFC 793, 3.3). *)
(* The bytes of incarnation k are numbered Base(k) + 1 and so on, so that  *)
(* a byte in the receive buffer tells whose it is.                         *)
(*                                                                         *)
(* The network keeps every segment and may deliver it any number of times, *)
(* at any time, or never.                                                  *)
(***************************************************************************)
EXTENDS TCP

CONSTANTS
    IsnOf,         \* initial sequence number of each incarnation
    IssOf,         \* what rand() returns in each life of DNet
    StreamLen,     \* bytes an incarnation sends
    MaxRestarts    \* bound: restarts of DNet

Incarnations == DOMAIN IsnOf

\* The numbers of its SYN, its bytes and its FIN.
NumbersOf(k) == {SeqAdd(IsnOf[k], n) : n \in 0 .. StreamLen + 1}

ASSUME IncarnationsAssumption ==
    /\ StreamLen \in Nat /\ StreamLen + 1 < SeqMod /\ MaxRestarts \in Nat
    /\ IsnOf \in [Incarnations -> SeqNo] /\ 1 \in Incarnations
    /\ \A j, k \in Incarnations : j # k => NumbersOf(j) \cap NumbersOf(k) = {}
    /\ IssOf \in [0 .. MaxRestarts -> Iss]
    /\ \A i, j \in 0 .. MaxRestarts : i # j => IssOf[i] # IssOf[j]

VARIABLES
    peer,          \* the peer's connection state
    inc,           \* its incarnation, 0 before the first
    irs,           \* DNet's initial sequence number, as it learnt it
    acked, sent,   \* bytes of this incarnation's stream
    toServer, toPeer,
    agreed,        \* what each peer ever agreed on: [inc, iss]
    restarts

peerVars == <<peer, inc, irs, acked, sent, agreed>>

vars == <<tcpVars, peerVars, toServer, toPeer, restarts>>

Base(k) == k * (StreamLen + 1)

Segment(t, flags, seq, ack, off, len) ==
    [tuple |-> t, flags |-> flags, seq |-> seq, ack |-> ack, off |-> off, len |-> len]

Syn(t, k) == Segment(t, {"SYN"}, IsnOf[k], 0, 0, 0)

\* Bytes n + 1 .. n + len of the peer's present stream; behind the last one,
\* its FIN or its RST.
Behind(t, flags, server, n, len) ==
    Segment(t, flags, SeqAdd(IsnOf[inc[t]], n + 1), SeqAdd(server, 1),
            Base(inc[t]) + n, len)

Init ==
    /\ TcpInit
    /\ peer  = [t \in Tuples |-> "CLOSED"]
    /\ inc   = [t \in Tuples |-> 0]
    /\ irs   = [t \in Tuples |-> 0]
    /\ acked = [t \in Tuples |-> 0]
    /\ sent  = [t \in Tuples |-> 0]
    /\ toServer = {} /\ toPeer = {}
    /\ agreed = [t \in Tuples |-> {}]
    /\ restarts = 0

-----------------------------------------------------------------------------
Sends(s) == toServer' = toServer \cup {s}

Connect(t) ==
    /\ peer[t] = "CLOSED" /\ inc[t] + 1 \in Incarnations
    /\ Sends(Syn(t, inc[t] + 1))
    /\ peer'  = [peer  EXCEPT ![t] = "SYN_SENT"]
    /\ inc'   = [inc   EXCEPT ![t] = @ + 1]
    /\ acked' = [acked EXCEPT ![t] = 0]
    /\ sent'  = [sent  EXCEPT ![t] = 0]
    /\ UNCHANGED <<irs, agreed>>

SendBytes(t, n, len) ==
    /\ peer[t] \in {"ESTABLISHED", "FIN_WAIT"}
    /\ n \in acked[t] .. sent[t] /\ len > 0 /\ n + len <= StreamLen
    /\ Sends(Behind(t, {"ACK"}, irs[t], n, len))
    /\ sent' = [sent EXCEPT ![t] = Max2(@, n + len)]
    /\ UNCHANGED <<peer, inc, irs, acked, agreed>>

\* The peer closes and sends its FIN again and again, for DNet never
\* acknowledges it.
SendFin(t) ==
    /\ peer[t] \in {"ESTABLISHED", "FIN_WAIT"} /\ sent[t] = StreamLen
    /\ Sends(Behind(t, {"FIN", "ACK"}, irs[t], StreamLen, 0))
    /\ peer' = [peer EXCEPT ![t] = "FIN_WAIT"]
    /\ UNCHANGED <<inc, irs, acked, sent, agreed>>

\* It gives up, on a timeout or because its application aborts, and resets
\* the connection if it had one.
GiveUp(t) ==
    /\ \/ /\ peer[t] = "SYN_SENT"
          /\ UNCHANGED toServer
       \/ /\ peer[t] \in {"ESTABLISHED", "FIN_WAIT"}
          /\ Sends(Behind(t, {"RST", "ACK"}, irs[t], sent[t], 0))
    /\ peer' = [peer EXCEPT ![t] = "CLOSED"]
    /\ UNCHANGED <<inc, irs, acked, sent, agreed>>

-----------------------------------------------------------------------------
Acks(r, k, n) == r.ack = SeqAdd(IsnOf[k], n + 1)

TakeSynAck(r) ==
    LET t == r.tuple
    IN  /\ peer[t] = "SYN_SENT" /\ "SYN" \in r.flags /\ Acks(r, inc[t], 0)
        /\ peer' = [peer EXCEPT ![t] = "ESTABLISHED"]
        /\ irs'  = [irs  EXCEPT ![t] = r.seq]
        /\ agreed' = [agreed EXCEPT ![t] = @ \cup {[inc |-> inc[t], iss |-> r.seq]}]
        /\ toServer' = toServer \cup {Behind(t, {"ACK"}, r.seq, 0, 0)}
        /\ UNCHANGED <<inc, acked, sent>>

\* An acknowledgement that is none of this incarnation's SYN is reset, and so
\* is anything that reaches a closed tuple.
Reset(r) ==
    LET t == r.tuple
    IN  /\ \/ peer[t] = "SYN_SENT" /\ ~Acks(r, inc[t], 0)
           \/ peer[t] = "CLOSED"
        /\ toServer' = toServer \cup {Segment(t, {"RST"}, r.ack, 0, 0, 0)}
        /\ UNCHANGED peerVars

TakeAck(r) ==
    LET t == r.tuple
    IN  /\ peer[t] \in {"ESTABLISHED", "FIN_WAIT"}
        /\ "SYN" \notin r.flags /\ r.seq = SeqAdd(irs[t], 1)
        /\ \E n \in acked[t] + 1 .. sent[t] :
              Acks(r, inc[t], n) /\ acked' = [acked EXCEPT ![t] = n]
        /\ UNCHANGED <<peer, inc, irs, sent, agreed, toServer>>

PeerRecv(r) ==
    /\ TakeSynAck(r) \/ Reset(r) \/ TakeAck(r)
    /\ UNCHANGED <<tcpVars, toPeer, restarts>>

-----------------------------------------------------------------------------
\* One call of on_recv, and the reply it hands to L4_send.
ServerRecv(s) ==
    /\ \/ /\ AcceptSyn(s, IssOf[restarts])
          /\ toPeer' = toPeer \cup {SynAck(s, IssOf[restarts])}
       \/ ReceiveInOrder(s) /\ toPeer' = toPeer \cup {DataAck(s)}
       \/ Silent(s) /\ UNCHANGED toPeer
    /\ UNCHANGED <<peerVars, toServer, restarts>>

Restart ==
    /\ restarts < MaxRestarts
    /\ restarts' = restarts + 1
    /\ TcpRestart
    /\ UNCHANGED <<peerVars, toServer, toPeer>>

PeerSends(t) ==
    /\ \/ Connect(t) \/ SendFin(t) \/ GiveUp(t)
       \/ \E n \in 0 .. StreamLen, len \in 1 .. StreamLen : SendBytes(t, n, len)
    /\ UNCHANGED <<tcpVars, toPeer, restarts>>

Next ==
    \/ \E s \in toServer : ServerRecv(s)
    \/ Restart
    \/ \E t \in Tuples : PeerSends(t)
    \/ \E r \in toPeer : PeerRecv(r)

Spec == Init /\ [][Next]_vars

\* The peer's timers repeat what is not acknowledged, so that it gets through
\* in the end, the listener handles the frames it reads, and the network does
\* not lose DNet's replies.
Fairness ==
    /\ WF_vars(\E s \in toServer : ServerRecv(s))
    /\ WF_vars(\E r \in toPeer : PeerRecv(r))
    /\ \A t \in Tuples :
          /\ WF_vars(inc[t] = 0 /\ PeerSends(t))
          /\ WF_vars(/\ \E len \in 1 .. StreamLen : SendBytes(t, acked[t], len)
                     /\ UNCHANGED <<tcpVars, toPeer, restarts>>)

FairSpec == Spec /\ Fairness

-----------------------------------------------------------------------------
\* The bytes kept for a tuple are the beginning of the stream of one
\* incarnation, whatever is still under way of the others.
OneStream ==
    \A t \in Tuples : rcvbuf[t] # << >> =>
        \E k \in 1 .. inc[t] : \A i \in DOMAIN rcvbuf[t] : rcvbuf[t][i] = Base(k) + i

\* Until DNet restarts, a peer that believes it is connected is connected to
\* a connection of its own incarnation, never to what DNet still holds of an
\* earlier one: both ends have the same numbers, and DNet has received what
\* the peer takes as acknowledged.
NotTheOldConnection ==
    \A t \in Tuples :
        (peer[t] \in {"ESTABLISHED", "FIN_WAIT"} /\ restarts = 0) =>
            /\ state[t] # "ABSENT"
            /\ snd_nxt[t] = SeqAdd(irs[t], 1)
            /\ \E n \in acked[t] .. sent[t] : rcv_nxt[t] = SeqAdd(IsnOf[inc[t]], n + 1)

\* A connection is ESTABLISHED only if some incarnation of the peer agreed on
\* it: with the number DNet chose, and that incarnation's own numbers.  An old
\* SYN or an old acknowledgement alone establishes nothing.
EstablishedWasAgreed ==
    \A t \in Tuples : state[t] = "ESTABLISHED" =>
        \E a \in agreed[t] :
            snd_nxt[t] = SeqAdd(a.iss, 1) /\ rcv_nxt[t] \in NumbersOf(a.inc)

\* The first connection of a tuple gets its whole stream acknowledged, though
\* DNet has no timers and never repeats a reply, unless its peer gives it up
\* or DNet restarts.  (A later one may not: DNet still holds the earlier.)
EventuallyAllAcked ==
    \A t \in Tuples :
        <>(\/ acked[t] = StreamLen
           \/ inc[t] > 0 /\ peer[t] = "CLOSED"
           \/ restarts > 0)
=============================================================================
