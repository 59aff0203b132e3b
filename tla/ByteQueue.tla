----------------------------- MODULE ByteQueue -----------------------------
(***************************************************************************)
(* What the methods of RingBuffer (layers/L4/tcp/TCP.h) do to the bytes    *)
(* the buffer holds, with the array and its two indices abstracted to the  *)
(* sequence of those bytes, oldest first.  The module RingBuffer models    *)
(* the array and the indices and implements these operators.               *)
(*                                                                         *)
(* One slot of the array always stays empty, so the buffer holds at most   *)
(* BufferSize - 1 bytes, while capacity() answers BufferSize - size().     *)
(***************************************************************************)
EXTENDS Integers, Sequences

CONSTANT BufferSize    \* BUFFER_SIZE, 65536 in the program

ASSUME BufferSizeAssumption == BufferSize \in Nat \ {0}

MaxBytes == BufferSize - 1

\* put: nothing is stored when the buffer is full.
CanPut(q) == Len(q) < MaxBytes

PutTo(q, octet) == IF CanPut(q) THEN Append(q, octet) ELSE q

Capacity(q) == BufferSize - Len(q)

\* The test writeAll and readFull make before they touch the buffer.
Fits(q, n) == n <= Capacity(q)

Holds(q, n) == n <= Len(q)

\* Faults: put without its test for a full buffer; a loop that ends one early.
StoredOverrunning(q, n) == n

StoredOneShort(q, n) == IF n = 0 THEN 0 ELSE n - 1

\* The number of bytes the loop of writeAll stores: the puts beyond MaxBytes
\* return 0, which the loop does not look at.
Stored(q, n) == IF n <= MaxBytes - Len(q) THEN n ELSE MaxBytes - Len(q)

WriteAllTo(q, data) ==
    IF Fits(q, Len(data)) THEN q \o SubSeq(data, 1, Stored(q, Len(data))) ELSE q

ReadFrom(q, n) == SubSeq(q, 1, n)

After(q, n) == SubSeq(q, n + 1, Len(q))
=============================================================================
