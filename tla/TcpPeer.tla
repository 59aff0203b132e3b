------------------------------ MODULE TcpPeer ------------------------------
(***************************************************************************)
(* The environment of the TCP handler: for every tuple one peer, a         *)
(* conforming TCP that opens the connection and sends a stream of bytes,   *)
(* and the two directions of the network between it and DNet.  None of it  *)
(* is code of the repository: DNet never opens a connection and never      *)
(* sends data, so the peer is modelled from what on_recv answers to it.    *)
(*                                                                         *)
(* The peer may send any bytes of its window again at any time, cut into   *)
(* segments as it likes (retransmission timeouts, coalescing); it may also *)
(* send an empty acknowledgement at any time.                              *)
(***************************************************************************)
EXTENDS TCP

CONSTANTS
    Isn,           \* the peer's possible initial sequence numbers
    StreamLen,     \* bytes the peer has to send
    Window         \* bytes it sends beyond the last acknowledged one

\* The peer's stream is shorter than the sequence space, so that a segment's
\* sequence number tells which bytes of the stream it carries.
ASSUME IsnAssumption == Isn \subseteq SeqNo
ASSUME StreamAssumption == StreamLen \in Nat /\ StreamLen + 1 < SeqMod
ASSUME WindowAssumption == Window \in Nat

VARIABLES
    peer,          \* the peer's own connection state
    isn,           \* its initial sequence number
    irs,           \* the server's, as the peer learnt it from the SYN-ACK
    acked,         \* bytes of its stream it knows to be acknowledged
    sent,          \* bytes of its stream it has sent at least once
    toServer,      \* segments on their way to DNet
    toPeer         \* segments on their way to the peers

peerVars == <<peer, isn, irs, acked, sent>>
netVars  == <<toServer, toPeer>>

PeerStates == {"CLOSED", "SYN_SENT", "ESTABLISHED"}

SynSegment(t) ==
    [tuple |-> t, flags |-> {"SYN"}, seq |-> isn[t], ack |-> 0,
     off |-> 0, len |-> 0]

\* Bytes off + 1 .. off + len of the stream; SEG.SEQ of its first byte.
DataSegment(t, server, off, len) ==
    [tuple |-> t, flags |-> {"ACK"}, seq |-> SeqAdd(isn[t], off + 1),
     ack |-> SeqAdd(server, 1), off |-> off, len |-> len]

Segments ==
    [tuple : Tuples, flags : SUBSET Flags, seq : SeqNo, ack : SeqNo,
     off : 0 .. StreamLen, len : 0 .. StreamLen]

Replies == [tuple : Tuples, flags : SUBSET Flags, seq : SeqNo, ack : SeqNo]

PeerTypeOK ==
    /\ peer  \in [Tuples -> PeerStates]
    /\ isn   \in [Tuples -> SeqNo]
    /\ irs   \in [Tuples -> SeqNo]
    /\ acked \in [Tuples -> 0 .. StreamLen]
    /\ sent  \in [Tuples -> 0 .. StreamLen]
    /\ toServer \subseteq Segments
    /\ toPeer \subseteq Replies

PeerInit ==
    /\ peer  = [t \in Tuples |-> "CLOSED"]
    /\ isn   = [t \in Tuples |-> 0]
    /\ irs   = [t \in Tuples |-> 0]
    /\ acked = [t \in Tuples |-> 0]
    /\ sent  = [t \in Tuples |-> 0]
    /\ toServer = {}
    /\ toPeer = {}

-----------------------------------------------------------------------------
Open(t, n) ==
    /\ peer[t] = "CLOSED"
    /\ peer' = [peer EXCEPT ![t] = "SYN_SENT"]
    /\ isn'  = [isn EXCEPT ![t] = n]
    /\ toServer' = toServer \cup {[SynSegment(t) EXCEPT !.seq = n]}
    /\ UNCHANGED <<irs, acked, sent, toPeer>>

\* The SYN's retransmission timer fires.
ResendSyn(t) ==
    /\ peer[t] = "SYN_SENT"
    /\ toServer' = toServer \cup {SynSegment(t)}
    /\ UNCHANGED <<peerVars, toPeer>>

\* New bytes, bytes sent before, or none (len = 0).
SendBytes(t, off, len) ==
    /\ peer[t] = "ESTABLISHED"
    /\ off \in acked[t] .. sent[t]
    /\ off + len <= acked[t] + Window
    /\ off + len <= StreamLen
    /\ toServer' = toServer \cup {DataSegment(t, irs[t], off, len)}
    /\ sent' = [sent EXCEPT ![t] = Max2(@, off + len)]
    /\ UNCHANGED <<peer, isn, irs, acked, toPeer>>

-----------------------------------------------------------------------------
\* What the peer does with a segment of the server.
TakeSynAck(r) ==
    /\ peer[r.tuple] = "SYN_SENT"
    /\ "SYN" \in r.flags
    /\ r.ack = SeqAdd(isn[r.tuple], 1)
    /\ peer' = [peer EXCEPT ![r.tuple] = "ESTABLISHED"]
    /\ irs'  = [irs EXCEPT ![r.tuple] = r.seq]
    /\ toServer' = toServer \cup {DataSegment(r.tuple, r.seq, 0, 0)}
    /\ UNCHANGED <<isn, acked, sent>>

\* The acknowledgement number n bytes into the stream.
AcksBytes(r, n) == r.ack = SeqAdd(isn[r.tuple], n + 1)

Acceptable(r) ==
    /\ peer[r.tuple] = "ESTABLISHED"
    /\ "SYN" \notin r.flags
    /\ r.seq = SeqAdd(irs[r.tuple], 1)

TakeAck(r, n) ==
    /\ Acceptable(r)
    /\ n > acked[r.tuple]
    /\ AcksBytes(r, n)
    /\ acked' = [acked EXCEPT ![r.tuple] = n]
    /\ UNCHANGED <<peer, isn, irs, sent, toServer>>

IgnoreReply(r) ==
    /\ ~(peer[r.tuple] = "SYN_SENT" /\ "SYN" \in r.flags
            /\ r.ack = SeqAdd(isn[r.tuple], 1))
    /\ ~(Acceptable(r) /\ \E n \in acked[r.tuple] + 1 .. sent[r.tuple] : AcksBytes(r, n))
    /\ UNCHANGED <<peerVars, toServer>>

\* A delivered message may stay in the network, to be delivered again.
Consume(net, m) == {net, net \ {m}}

PeerRecv(r) ==
    /\ r \in toPeer
    /\ toPeer' \in Consume(toPeer, r)
    /\ \/ TakeSynAck(r)
       \/ \E n \in 1 .. sent[r.tuple] : TakeAck(r, n)
       \/ IgnoreReply(r)

LoseSegment(s) ==
    /\ s \in toServer
    /\ toServer' = toServer \ {s}
    /\ UNCHANGED <<peerVars, toPeer>>

LoseReply(r) ==
    /\ r \in toPeer
    /\ toPeer' = toPeer \ {r}
    /\ UNCHANGED <<peerVars, toServer>>
=============================================================================
