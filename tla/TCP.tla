-------------------------------- MODULE TCP --------------------------------
(***************************************************************************)
(* TCP::on_recv (layers/L4/tcp/TCP.cpp): the server side of TCP, a map     *)
(* from connection tuples to connections, driven by one received segment   *)
(* at a time.  Every branch of the handler is an action of its own; the    *)
(* branches that answer have an operator for the segment they hand to      *)
(* L4_send.  What happens to that segment, and who sends the received      *)
(* ones, is left to the modules that extend this one.                      *)
(*                                                                         *)
(* A tuple is a value: the map's hash and operator== on the four fields    *)
(* make equal tuples the same key.  A tuple absent from the map is in      *)
(* state "ABSENT"; a connection never stays in LISTEN, because the call    *)
(* that creates it goes on to the LISTEN case of its switch.               *)
(*                                                                         *)
(* Sequence numbers are uint32_t in the program and wrap at SeqMod here.   *)
(* The payload is the peer's byte stream: a segment carries the bytes      *)
(* off + 1 .. off + len of it, byte i being the number i.  The handler     *)
(* takes the payload's size from the frame's size (size - header_size), so *)
(* the bytes that pad a short frame to the link's minimum, MinPayload      *)
(* beyond the headers, count as payload too.  A segment's data_offset is   *)
(* the length of its header, as every TCP sends it: the code checks it no  *)
(* more than the size, and with one beyond the segment payload_size would  *)
(* wrap in its 16 bits.                                                    *)
(***************************************************************************)
EXTENDS ByteQueue

CONSTANTS
    Tuples,        \* connection tuples (source, source port, target, target port)
    SeqMod,        \* 2^32 in the program
    Iss,           \* what rand() may return: initial sequence numbers
    MinPayload     \* 0 on a link that does not pad frames

ASSUME SeqModAssumption == SeqMod \in Nat \ {0, 1}
ASSUME IssAssumption == Iss \subseteq 0 .. SeqMod - 1
ASSUME MinPayloadAssumption == MinPayload \in Nat

VARIABLES
    state,         \* TcpConn::state of the tuple's connection
    rcv_nxt,       \* next sequence number expected from the peer
    snd_una,       \* oldest unacknowledged sequence number
    snd_nxt,       \* next sequence number to send
    rcvbuf         \* the received bytes no application has read

tcpVars == <<state, rcv_nxt, snd_una, snd_nxt, rcvbuf>>

SeqNo == 0 .. SeqMod - 1

SeqAdd(a, n) == (a + n) % SeqMod

TcpStates == {"ABSENT", "SYN_RECVED", "ESTABLISHED"}

Flags == {"SYN", "ACK"}

PadOctet == 0

Max2(a, b) == IF a >= b THEN a ELSE b

\* payload_size and the payload the handler sees behind the header.
PayloadSize(s) == Max2(s.len, MinPayload)

Payload(s) ==
    [i \in 1 .. PayloadSize(s) |-> IF i <= s.len THEN s.off + i ELSE PadOctet]

TcpInit ==
    /\ state   = [t \in Tuples |-> "ABSENT"]
    /\ rcv_nxt = [t \in Tuples |-> 0]
    /\ snd_una = [t \in Tuples |-> 0]
    /\ snd_nxt = [t \in Tuples |-> 0]
    /\ rcvbuf  = [t \in Tuples |-> << >>]

-----------------------------------------------------------------------------
\* No connection has this tuple and the segment is no SYN: it is dropped.
DropUnknown(s) ==
    /\ state[s.tuple] = "ABSENT"
    /\ "SYN" \notin s.flags
    /\ UNCHANGED tcpVars

\* Fault: a repeated SYN makes the LISTEN case run again.
AcceptSynAgain(s, iss) ==
    /\ state[s.tuple] \in {"ABSENT", "SYN_RECVED"}
    /\ "SYN" \in s.flags
    /\ state'   = [state   EXCEPT ![s.tuple] = "SYN_RECVED"]
    /\ rcv_nxt' = [rcv_nxt EXCEPT ![s.tuple] = SeqAdd(s.seq, 1)]
    /\ snd_una' = [snd_una EXCEPT ![s.tuple] = iss]
    /\ snd_nxt' = [snd_nxt EXCEPT ![s.tuple] = SeqAdd(iss, 1)]
    /\ rcvbuf'  = [rcvbuf  EXCEPT ![s.tuple] = << >>]

\* A SYN for a new tuple: the connection is created, and the LISTEN case
\* consumes the SYN and chooses the server's initial sequence number.
AcceptSyn(s, iss) ==
    /\ state[s.tuple] = "ABSENT"
    /\ "SYN" \in s.flags
    /\ state'   = [state   EXCEPT ![s.tuple] = "SYN_RECVED"]
    /\ rcv_nxt' = [rcv_nxt EXCEPT ![s.tuple] = SeqAdd(s.seq, 1)]
    /\ snd_una' = [snd_una EXCEPT ![s.tuple] = iss]
    /\ snd_nxt' = [snd_nxt EXCEPT ![s.tuple] = SeqAdd(iss, 1)]
    /\ rcvbuf'  = [rcvbuf  EXCEPT ![s.tuple] = << >>]

\* Fault: the SYN-ACK does not count the SYN it acknowledges.
SynAckOneLess(s, iss) ==
    [tuple |-> s.tuple, flags |-> {"SYN", "ACK"}, seq |-> iss, ack |-> s.seq]

SynAck(s, iss) ==
    [tuple |-> s.tuple, flags |-> {"SYN", "ACK"},
     seq |-> iss, ack |-> SeqAdd(s.seq, 1)]

\* Faults: the acknowledgement number is not looked at, or is compared with
\* the number of the SYN itself.
AnyAck(s) == "ACK" \in s.flags

AcksBeforeSynAck(s) == "ACK" \in s.flags /\ s.ack = snd_una[s.tuple]

AcksSynAck(s) == "ACK" \in s.flags /\ s.ack = snd_nxt[s.tuple]

\* Step 3 of the three-way handshake.  The segment's own sequence number is
\* not looked at and its payload, if it has one, is not stored.
CompleteHandshake(s) ==
    /\ state[s.tuple] = "SYN_RECVED"
    /\ AcksSynAck(s)
    /\ state'   = [state   EXCEPT ![s.tuple] = "ESTABLISHED"]
    /\ snd_una' = [snd_una EXCEPT ![s.tuple] = s.ack]
    /\ UNCHANGED <<rcv_nxt, snd_nxt, rcvbuf>>

\* Anything else in SYN_RECVED, a repeated SYN included, changes nothing and
\* is not answered.
IgnoreInHandshake(s) ==
    /\ state[s.tuple] = "SYN_RECVED"
    /\ ~AcksSynAck(s)
    /\ UNCHANGED tcpVars

\* Fault: every segment of the connection is taken.
AnyOrder(s) == s.len >= 0

InOrder(s) == s.seq = rcv_nxt[s.tuple]

Accepts(s) == Fits(rcvbuf[s.tuple], PayloadSize(s))

\* The expected segment, and writeAll takes its payload.  Its flags are not
\* looked at.
ReceiveInOrder(s) ==
    /\ state[s.tuple] = "ESTABLISHED"
    /\ InOrder(s)
    /\ Accepts(s)
    /\ rcvbuf'  = [rcvbuf  EXCEPT ![s.tuple] = WriteAllTo(@, Payload(s))]
    /\ rcv_nxt' = [rcv_nxt EXCEPT ![s.tuple] = SeqAdd(s.seq, PayloadSize(s))]
    /\ UNCHANGED <<state, snd_una, snd_nxt>>

\* Fault: data is acknowledged as a SYN is, with one number more.
DataAckOneMore(s) ==
    [tuple |-> s.tuple, flags |-> {"ACK"},
     seq |-> snd_nxt[s.tuple], ack |-> SeqAdd(s.seq, PayloadSize(s) + 1)]

DataAck(s) ==
    [tuple |-> s.tuple, flags |-> {"ACK"},
     seq |-> snd_nxt[s.tuple], ack |-> SeqAdd(s.seq, PayloadSize(s))]

\* The expected segment does not fit: dropped, and not acknowledged.
RefuseWhenFull(s) ==
    /\ state[s.tuple] = "ESTABLISHED"
    /\ InOrder(s)
    /\ ~Accepts(s)
    /\ UNCHANGED tcpVars

\* Any other segment, one already received included, is ignored and not
\* answered.
IgnoreOutOfOrder(s) ==
    /\ state[s.tuple] = "ESTABLISHED"
    /\ ~InOrder(s)
    /\ UNCHANGED tcpVars

-----------------------------------------------------------------------------
\* The branches that send nothing.
Silent(s) ==
    \/ DropUnknown(s)
    \/ CompleteHandshake(s)
    \/ IgnoreInHandshake(s)
    \/ RefuseWhenFull(s)
    \/ IgnoreOutOfOrder(s)

\* The process ends and starts again: the map of connections is empty.
TcpRestart ==
    /\ state'   = [t \in Tuples |-> "ABSENT"]
    /\ rcv_nxt' = [t \in Tuples |-> 0]
    /\ snd_una' = [t \in Tuples |-> 0]
    /\ snd_nxt' = [t \in Tuples |-> 0]
    /\ rcvbuf'  = [t \in Tuples |-> << >>]

TcpTypeOK ==
    /\ state   \in [Tuples -> TcpStates]
    /\ rcv_nxt \in [Tuples -> SeqNo]
    /\ snd_una \in [Tuples -> SeqNo]
    /\ snd_nxt \in [Tuples -> SeqNo]
    /\ rcvbuf  \in [Tuples -> Seq(Nat)]
    /\ \A t \in Tuples : Len(rcvbuf[t]) <= MaxBytes
=============================================================================
