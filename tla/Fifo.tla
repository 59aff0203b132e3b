-------------------------------- MODULE Fifo --------------------------------
(***************************************************************************)
(* What the receive buffer of a connection promises its users: a bounded   *)
(* first-in first-out queue of bytes.  ret is what the last call answered: *)
(* its result and the bytes it copied out.                                 *)
(***************************************************************************)
EXTENDS ByteQueue

CONSTANTS
    Octets,        \* the values of a byte
    MaxCall        \* bound on the bytes of one writeAll or readFull

VARIABLES queue, ret

fifoVars == <<queue, ret>>

Blocks == UNION {[1 .. n -> Octets] : n \in 0 .. MaxCall}

Answer(ok, bytes) == [ok |-> ok, bytes |-> bytes]

FifoInit == queue = << >> /\ ret = Answer(TRUE, << >>)

FifoPut(octet) ==
    /\ queue' = PutTo(queue, octet)
    /\ ret' = Answer(CanPut(queue), << >>)

FifoWriteAll(data) ==
    /\ queue' = WriteAllTo(queue, data)
    /\ ret' = Answer(Fits(queue, Len(data)), << >>)

FifoReadFull(n) ==
    \/ /\ Holds(queue, n)
       /\ queue' = After(queue, n)
       /\ ret' = Answer(TRUE, ReadFrom(queue, n))
    \/ /\ ~Holds(queue, n)
       /\ queue' = queue
       /\ ret' = Answer(FALSE, << >>)

FifoNext ==
    \/ \E octet \in Octets : FifoPut(octet)
    \/ \E data \in Blocks : FifoWriteAll(data)
    \/ \E n \in 0 .. MaxCall + 1 : FifoReadFull(n)

FifoSpec == FifoInit /\ [][FifoNext]_fifoVars
=============================================================================
