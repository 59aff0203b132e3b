------------------------------ MODULE Checksum ------------------------------
(***************************************************************************)
(* checksum_16bit_be (util/util.cpp), the checksum of the IPv4 header, of  *)
(* ICMP and of the TCP and UDP pseudo-header, and the way it is used: the  *)
(* sender computes it over the packet with a zero checksum field and       *)
(* stores it there (L3::send, ICMP::send), the receiver asserts that the   *)
(* checksum of what it received is zero (L3::on_recv, ICMP::on_recv).      *)
(* UDP::on_recv does otherwise: it takes the field out, computes again     *)
(* and compares, and it accepts a datagram whose field is zero as it is.   *)
(*                                                                         *)
(* A word is two octets, the first one the low half, as a little-endian    *)
(* machine reads them.  ByteMod is 256 in the program: a word has 16 bits  *)
(* and the sum 32.                                                         *)
(***************************************************************************)
EXTENDS Integers, Sequences

CONSTANTS
    ByteMod,       \* the number of values of an octet
    Sizes          \* bound: the sizes of the data behind the checksum field

ASSUME ByteModAssumption == ByteMod \in Nat \ {0, 1}
ASSUME SizesAssumption == Sizes \subseteq Nat

VARIABLES
    packet,        \* the octets, the checksum field first
    stage,         \* "built", "sent", "received"
    damaged,       \* one octet changed on the way
    intact,        \* whether the packet was valid when it was sent
    byUdp,         \* the packet is a peer's datagram with its pseudo-header
    verdict        \* whether the receiver accepts it

vars == <<packet, stage, damaged, intact, byUdp, verdict>>

Octet == 0 .. ByteMod - 1

WordMod == ByteMod * ByteMod

\* Fault: the loop ends while two octets are left.
WordsReadShort(octets) == (Len(octets) - 1) \div 2

\* The words the loop adds: len > 1 holds for each of them.
WordsRead(octets) == Len(octets) \div 2

WordAt(octets, i) == octets[2 * i - 1] + ByteMod * octets[2 * i]

\* The octet after the last word, if the size is odd.
OddOctet(octets) == IF Len(octets) % 2 = 1 THEN octets[Len(octets)] ELSE 0

Add(acc, word) == (acc + word) % (WordMod * WordMod)

\* The loop, and behind it the octet that is left.
Sum(octets) ==
    LET sum[n \in 0 .. WordsRead(octets)] ==
            IF n = 0 THEN 0 ELSE Add(sum[n - 1], WordAt(octets, n))
    IN  Add(sum[WordsRead(octets)], OddOctet(octets))

\* Fault: the upper half of the sum is dropped.
LowHalf(sum) == sum % WordMod

\* (ret >> 16) + ret & 0xffff: the upper half is added to the lower one, and
\* what this addition carries is dropped.
FoldedSum(sum) == ((sum \div WordMod) + sum) % WordMod

\* Fault: the result is not complemented.
NotComplemented(word) == word

Complement(word) == WordMod - 1 - word

OctetsOf(word) == <<word % ByteMod, word \div ByteMod>>

\* uint16_be::val and its assignment: the first octet is the high half.
Val(octets) == ByteMod * octets[1] + octets[2]

BigEndian(value) == <<value \div ByteMod, value % ByteMod>>

\* The octets of the result are read as a big-endian number, and written as
\* one when the number is stored in a packet.
ChecksumOf(octets) == Val(OctetsOf(Complement(FoldedSum(Sum(octets)))))

-----------------------------------------------------------------------------
Data == UNION {[1 .. n -> Octet] : n \in Sizes}

Init ==
    /\ \E data \in Data : packet = <<0, 0>> \o data
    /\ stage = "built" /\ byUdp \in BOOLEAN
    /\ damaged = FALSE /\ intact = FALSE /\ verdict = FALSE

\* The ones' complement sum of RFC 1071: every carry is added where it occurs.
OnesAdd(a, b) == IF a + b < WordMod THEN a + b ELSE a + b - WordMod + 1

OnesSum(octets) ==
    LET sum[n \in 0 .. Len(octets) \div 2] ==
            IF n = 0 THEN 0 ELSE OnesAdd(sum[n - 1], WordAt(octets, n))
    IN  OnesAdd(sum[Len(octets) \div 2], OddOctet(octets))

\* A packet is valid when the sum over all of it is all ones.
Valid(octets) == OnesSum(octets) = WordMod - 1

WithField(octets) == octets \o SubSeq(packet, 3, Len(packet))

Stores(octets) ==
    /\ stage = "built" /\ stage' = "sent"
    /\ packet' = WithField(octets)
    /\ intact' = Valid(packet')
    /\ UNCHANGED <<damaged, byUdp, verdict>>

Send == ~byUdp /\ Stores(BigEndian(ChecksumOf(packet)))

\* A correct sender: the checksum of RFC 1071, which UDP transmits as all ones
\* when it is zero (RFC 768).
PeerSend ==
    LET word == Complement(OnesSum(packet))
    IN  Stores(OctetsOf(IF byUdp /\ word = 0 THEN WordMod - 1 ELSE word))

Damage ==
    /\ stage = "sent" /\ ~damaged
    /\ \E i \in 1 .. Len(packet), o \in Octet :
          packet[i] # o /\ packet' = [packet EXCEPT ![i] = o]
    /\ damaged' = TRUE
    /\ UNCHANGED <<stage, intact, byUdp, verdict>>

ReceiveIp ==
    /\ ~byUdp
    /\ verdict' = (ChecksumOf(packet) = 0)

Field == Val(packet)

\* Fault: the checksum is computed with the received one still in its field.
FieldKept == packet

WithoutField == WithField(BigEndian(0))

ReceiveUdp ==
    /\ byUdp
    /\ verdict' = (Field = 0 \/ ChecksumOf(WithoutField) = Field)

Receive ==
    /\ stage = "sent" /\ stage' = "received"
    /\ ReceiveIp \/ ReceiveUdp
    /\ UNCHANGED <<packet, damaged, intact, byUdp>>

Next == Send \/ PeerSend \/ Damage \/ Receive

Spec == Init /\ [][Next]_vars

-----------------------------------------------------------------------------
\* Although one fold drops a carry, comparing the result with zero accepts
\* exactly the packets that RFC 1071 calls valid.
VerifyIsExact == stage = "received" /\ ~byUdp => (verdict <=> Valid(packet))

\* The carry that FoldedSum drops.
Carries(sum) == (sum \div WordMod) + (sum % WordMod) >= WordMod

Rest == <<0, 0>> \o SubSeq(packet, 3, Len(packet))

\* No packet that was valid is accepted after one of its octets changed;
\* a datagram only if the damage zeroed its field or made the fold carry.
DamageIsDetected ==
    stage = "received" /\ damaged /\ intact /\ verdict =>
        byUdp /\ (Field = 0 \/ Carries(Sum(Rest)))

\* The checksum stored in a packet makes it valid unless the two halves of the
\* sum of the other words carry, and then it never does.
ValidUnlessCarry ==
    stage = "built" =>
        (Valid(WithField(BigEndian(ChecksumOf(packet)))) <=> ~Carries(Sum(packet)))

\* What UDP accepts of a correct sender's datagrams, when nothing changes them:
\* neither one whose sum carries when it is folded, nor one whose sum is all
\* ones, sent with the field all ones (UDP.cpp:39, util.cpp:31).
UdpDropsOnlyCarriesAndOnes ==
    stage = "received" /\ byUdp /\ ~damaged =>
        LET sum == Sum(Rest)
        IN  verdict <=> ~Carries(sum) /\ FoldedSum(sum) # WordMod - 1

-----------------------------------------------------------------------------
\* L3.cpp:49 "Verify checksum", L3.cpp:50 "Checksum Mismatch.": the header
\* L3::send fills in passes the test of L3::on_recv when nothing changes it.
UndamagedIsAccepted == stage = "received" /\ ~damaged /\ ~byUdp => verdict
=============================================================================
