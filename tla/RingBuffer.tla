----------------------------- MODULE RingBuffer -----------------------------
(***************************************************************************)
(* struct RingBuffer (layers/L4/tcp/TCP.h): an array of BufferSize bytes,  *)
(* the index of the oldest byte and the index of the next free one, equal  *)
(* when the buffer is empty.  Every method is an action; ret is what it    *)
(* returned and copied out.  The loops of writeAll and readFull are given  *)
(* in closed form, and LoopsArePutsAndGets compares them with the loops.   *)
(***************************************************************************)
EXTENDS Integers, Sequences

CONSTANTS
    BufferSize,    \* BUFFER_SIZE, 65536 in the program
    Octets,        \* the values of a byte
    MaxCall        \* bound on the bytes of one writeAll or readFull

ASSUME RingAssumption ==
    BufferSize \in Nat \ {0} /\ Octets # {} /\ MaxCall \in Nat

VARIABLES
    buf,           \* the array; a byte never written holds any value
    start, end,
    ret

ringVars == <<buf, start, end, ret>>

Slots == 0 .. BufferSize - 1

\* Fault: the index runs past the end of the array.
AdvanceUnwrapped(i, n) == i + n

Advance(i, n) == (i + n) % BufferSize

Answer(ok, bytes) == [ok |-> ok, bytes |-> bytes]

\* size and capacity.
Size == (end - start + BufferSize) % BufferSize

Free == BufferSize - Size

\* The constructor leaves the array uninitialised.
RingInit ==
    /\ buf \in [Slots -> Octets]
    /\ start = 0 /\ end = 0
    /\ ret = Answer(TRUE, << >>)

-----------------------------------------------------------------------------
\* Fault: a put into the last free slot is accepted.
NeverFull == FALSE

Full == Advance(end, 1) = start

Put(octet) ==
    /\ ret' = Answer(~Full, << >>)
    /\ \/ /\ ~Full
          /\ buf' = [buf EXCEPT ![end] = octet]
          /\ end' = Advance(end, 1)
       \/ Full /\ UNCHANGED <<buf, end>>
    /\ UNCHANGED start

Get ==
    /\ \/ /\ start # end
          /\ start' = Advance(start, 1)
          /\ ret' = Answer(TRUE, <<buf[start]>>)
       \/ /\ start = end
          /\ ret' = Answer(FALSE, << >>)
          /\ UNCHANGED start
    /\ UNCHANGED <<buf, end>>

\* Fault: as many bytes as the test of writeAll lets through.
PutsThatPassTheTest(n) == n

\* How many of n puts find a free slot, and the array after them: the k-th
\* byte goes to the slot k - 1 places behind end.
PutsThatFit(n) == IF n < Free THEN n ELSE Free - 1

Distance(from, slot) == (slot - from + BufferSize) % BufferSize

Filled(data, n) ==
    [slot \in Slots |-> IF Distance(end, slot) < n
                        THEN data[Distance(end, slot) + 1] ELSE buf[slot]]

WriteAll(data) ==
    \/ /\ Len(data) <= Free
       /\ buf' = Filled(data, PutsThatFit(Len(data)))
       /\ end' = Advance(end, PutsThatFit(Len(data)))
       /\ ret' = Answer(TRUE, << >>)
       /\ UNCHANGED start
    \/ /\ Len(data) > Free
       /\ ret' = Answer(FALSE, << >>)
       /\ UNCHANGED <<buf, start, end>>

BytesFrom(first, n) == [i \in 1 .. n |-> buf[Advance(first, i - 1)]]

ReadFull(n) ==
    /\ \/ /\ n <= Size
          /\ start' = Advance(start, n)
          /\ ret' = Answer(TRUE, BytesFrom(start, n))
       \/ /\ n > Size
          /\ ret' = Answer(FALSE, << >>)
          /\ UNCHANGED start
    /\ UNCHANGED <<buf, end>>

Blocks == UNION {[1 .. n -> Octets] : n \in 0 .. MaxCall}

RingNext ==
    \/ \E octet \in Octets : Put(octet)
    \/ Get
    \/ \E data \in Blocks : WriteAll(data)
    \/ \E n \in 0 .. MaxCall + 1 : ReadFull(n)

RingSpec == RingInit /\ [][RingNext]_ringVars

-----------------------------------------------------------------------------
RingTypeOK ==
    /\ buf \in [Slots -> Octets]
    /\ start \in Slots /\ end \in Slots
    /\ ret.ok \in BOOLEAN /\ ret.bytes \in Seq(Octets)

\* The bytes the buffer holds, oldest first.
Contents == BytesFrom(start, Size)

\* Whatever the two indices are and wherever they wrap, the buffer behaves as
\* the bounded queue of Fifo: no call returns a byte out of order, twice, or
\* one that was never put.
QueueOfBytes == INSTANCE Fifo WITH queue <- Contents

ImplementsFifo == QueueOfBytes!FifoSpec

\* The loops of writeAll and readFull, one put and one get at a time.
PutStep(s, octet) ==
    IF Advance(s.end, 1) = s.start THEN s
    ELSE [s EXCEPT !.buf[s.end] = octet, !.end = Advance(s.end, 1)]

GetStep(s) ==
    IF s.start = s.end THEN s
    ELSE [s EXCEPT !.out = Append(@, s.buf[s.start]), !.start = Advance(s.start, 1)]

Here == [buf |-> buf, start |-> start, end |-> end, out |-> << >>]

Puts(data) ==
    LET after[n \in 0 .. Len(data)] ==
            IF n = 0 THEN Here ELSE PutStep(after[n - 1], data[n])
    IN  after[Len(data)]

Gets(n) ==
    LET after[k \in 0 .. n] == IF k = 0 THEN Here ELSE GetStep(after[k - 1])
    IN  after[n]

\* In every state, the closed forms that WriteAll and ReadFull use give what
\* the loops over put and get give, for every block that passes the test.
LoopsArePutsAndGets ==
    /\ \A data \in Blocks :
          Len(data) <= Free =>
              LET n == PutsThatFit(Len(data))
              IN  /\ Puts(data).buf = Filled(data, n)
                  /\ Puts(data).end = Advance(end, n)
    /\ \A n \in 0 .. Size :
          Gets(n).out = BytesFrom(start, n) /\ Gets(n).start = Advance(start, n)
=============================================================================
