# A TLA+ development of DNet-core

DNet-core is a TCP/IP stack in user space behind a Linux TAP device. It answers
for every address of one IPv4 subnet: ARP, ping, an upper-casing UDP echo, an
authoritative DNS server, and the receiving side of TCP. This directory models
the stack in TLA+, checks the models with TLC on small instances, and proves
all of their safety properties that the code keeps, and two refinements, with
TLAPS for every value of the constants.

Line numbers below are those of the repository's files; `PROJECT.json` gives the
lines each definition stands for.

## 1. The system

One thread, `driver::do_listen`, reads a frame, hands it to `L2::on_recv`, and
reads the next one when the call returns. Everything in the stack runs inside
that call: there is no other thread, no queue and no timer. A frame climbs
through L2, L3 and L4 by function calls, and a reply goes down through
`L4::send`, `L3::send` and `L2::send` to `write` before the handler that sent it
returns. A handler rejects a frame by throwing (`DNET_ASSERT`); the listener
catches and goes on. One call of the listener is therefore one atomic step of the
models, and all concurrency is in the network: frames are lost, repeated,
reordered, delayed and padded, peers retransmit, hosts come and go, the wall
clock moves.

| component | state | operations | hard behaviour | what makes it correct |
|---|---|---|---|---|
| TCP handler (`layers/L4/tcp`) | map from tuples to connections: state, `rcv_nxt`, `snd_una`, `snd_nxt`, receive buffer | `on_recv`: drop, accept a SYN, complete the handshake, receive in order, refuse when full, ignore | no retransmission, nothing is ever acknowledged twice, connections never end though peers reset and reopen them; sequence numbers wrap | the bytes kept are the peer's stream; only sent bytes are acknowledged; the ends agree on the connection; what is acknowledged is held; incarnations of a peer never mix |
| Ring buffer (`TCP.h`) | array and two indices | `put`, `get`, `size`, `capacity`, `writeAll`, `readFull` | both indices wrap; one slot stays empty; `capacity()` counts that slot | a bounded first-in first-out queue |
| Checksum (`util`) | none | `checksum_16bit_be` | a single fold of a 32-bit sum; two kinds of receivers | accepts exactly valid packets; makes what is sent valid |
| ARP (`layers/L2/arp`) | cache with time stamps | `on_recv` (request, response), `lookup` with expiry | stale and late answers, the wall clock, a miss that replaces the packet by a request | an answer is not older than the TTL allows; a miss always asks |
| IPv4 (`layers/L3`) | none | `on_recv` (assert, dispatch), `send` (subnet, ARP, TAP) | drops the packet on an ARP miss and reports nothing | a dropped packet is a lost packet, never a wrong one |
| Ethernet, L4 dispatch | none | dispatch, framing | sizes come from the frame, padding included | |
| UDP, ICMP, DNS | the DNS records, constant | echo, answer | damage, padding, spelling of names, first answer lost to ARP | the right answer, to the client that asked; in the end an answer |
| Driver, `DNet`, `main` | the thread and its flag, the device, sockets, the kernel's route | construction, `init_dev`, `add_route`, `start_listen`, `do_listen`, `stop_listen` | initialisation order, failing system calls, throwing handlers, sizes nobody checks | no frame before the layers exist; DNet's subnet is the kernel's; every frame is handled, and one the code cannot handle costs no other |

How they interact: `TCP`, `ICMP`, `UDP` and `DNS` call `L3::send` (through
`DNet`), `L3::send` calls `ARP::lookup` and `L2::send`, `ARP` calls `L2::send`.
The only state shared between services is the ARP cache: the miss of one
connection asks for the address another one needs.

## 2. The modules

| module | models | extends / instantiates |
|---|---|---|
| `ByteQueue` | what the methods of `RingBuffer` do to the bytes held | |
| `TCP` | `TCP::on_recv`, one action per branch | `ByteQueue` |
| `TcpPeer` | external: a conforming TCP client per tuple, and the network | `TCP` |
| `TcpSession` | handler, clients, network, restarts; properties, inductive invariant | `TcpPeer` |
| `TcpIncarnations` | handler and peers that close, reset and reopen a tuple; fairness | `TCP` |
| `Fifo` | abstract specification of the buffer | `ByteQueue` |
| `RingBuffer` | the array and indices; implements `Fifo` | instantiates `Fifo` |
| `Checksum` | `checksum_16bit_be`, its senders and its two kinds of receivers | |
| `ARP` | the cache, `lookup` and `on_recv` | |
| `ArpNetwork` | the cache on a LAN whose hosts change, with a wall clock | `ARP` |
| `TcpOverArp` | frames through L2, L3, L4 to TCP and ARP; implements `TcpSession` | `TcpPeer`, `ARP`, instantiates `TcpSession` |
| `DNS` | registration of records, parsing of the query's name, tests, lookup and response of `DNS::on_recv` | |
| `Services` | ICMP echo, UDP echo, DNS, with ARP below | `DNS` |
| `Lifecycle` | `main`, the constructor of `DNet`, the driver's set-up and its listener thread | |
| `TcpSession_proofs`, `TcpIncarnations_proofs` | theorems about the module of that name, each behind the lemmas about sequence numbers and `writeAll` it needs | the module |
| `TcpOverArp_proofs` | theorems about `TcpOverArp` | the module, `TcpSession_proofs` |
| `ArpNetwork_proofs`, `RingBuffer_proofs`, `Checksum_proofs`, `Lifecycle_proofs`, `Services_proofs` | theorems about the module of that name, and of `DNS` in the last one | the module |
| `MCTcpSession`, `MCTcpIncarnations`, `MCTcpOverArp`, `MCServices`, `MCLifecycle` | values and bounds for TLC | |

Correspondence to the code, where it is not literal:

- A connection absent from the map is in state `ABSENT`. It never rests in
  `LISTEN`: the call that creates it (TCP.cpp:21) continues in the LISTEN case.
- The payload is the peer's stream: byte *i* is the number *i*, and a segment
  carries `off + 1 .. off + len`. So "the bytes kept are the stream" is
  `rcvbuf[t][i] = i`. Padding is the octet 0, which is in no stream.
- `rcvbuf` is the sequence of bytes in the ring buffer. `WriteAllTo` includes the
  off-by-one of `capacity()`; `RingBuffer` shows that these are the bytes the
  array really holds.
- Sequence numbers wrap at `SeqMod`, 2^32 in the program. `rand()` is any member
  of `Iss`.
- The network is a set: delivering may keep a copy (`Consume`), so every message
  can be repeated and reordered. TCP segments are not damaged: the code announces
  that it does not verify their checksum (TCP.cpp:11).
- A restart empties the table of connections and the ARP cache, while peers and
  messages under way go on.
- In `TcpIncarnations` the network is the set of all segments ever sent: each may
  be delivered at any time, any number of times, or never, so losing one is no
  action and repeating one no state. The bytes of incarnation *k* carry numbers
  of their own; `agreed` is a history variable. The code takes a FIN or RST in
  order for an empty segment and acknowledges it, without the FIN's own number;
  the model's `ReceiveInOrder` does the same.
- Octets in `DNS` are ASCII numbers. `TextOf` is the parsing loop with its rounds
  `ReadLabel`, `EncodeName` the macro that registers an alias with its rounds
  `EncodeOctet`, and `Spells`, which the property uses, is a third statement of
  what a name on the wire is. Clients send the questions `IsQuery` describes:
  a name that is not the root's, whose labels end where the next one begins
  (`IsName`). There are neither dots nor zeros inside a label: the code compares
  text, so two labels and one label with a dot would be the same name. `IsName`
  is a condition on the model's inputs; the code does not test it.
- In `Lifecycle` each system call of the constructor is a step that succeeds or
  fails; an address is the set of its one bits. The kernel takes a route when its
  mask is a prefix and no other bit of the address is set. After a failed read,
  when the layers get a size of `SIZE_MAX`, they may return, throw, or crash. So
  they may with a frame of the set `Unchecked`: one that is shorter than its
  headers, where L3.cpp:56, L3.cpp:64, UDP.cpp:49 or TCP.cpp:82 subtracts below
  zero, or too long for the arrays of DNS (DNS.cpp:20, 59, 75). Nobody calls
  `stop_listen`; it is in the model because it is an operation of the driver, and
  the properties say what it is to blame for.
- In `Services` a client is in the subnet, and reached through the ARP cache, or
  one of `Outside`, reached through the kernel (L3.cpp:103-108).
- `TcpOverArp` keeps the segments that `L3::send` drops in `unsent`, a history
  variable that no action reads.

An operator marked *Fault* in a comment is a plausible mistake in the code it
stands before. No specification uses it; each is substituted for the definition
behind it to see that the properties notice.

## 3. What is checked

| run | shows | bounds |
|---|---|---|
| `tcp_safety` | `ReceivedIsPrefix`, `AckNeverBeyondSent`, `NoFalseEstablishment`, `PeerIsConnected`, `AckedIsHeldUntilFull`, `NeverUnreceives` and the two inductive invariants they are proved from | one tuple, `SeqMod` 8 and initial number 6, so that the stream of 4 bytes wraps; buffer of 4 (holds 3), so that it fills and the off-by-one occurs; one restart with a second server number; 3 + 2 messages under way |
| `tcp_incarnations` | `OneStream`, `NotTheOldConnection`, `EstablishedWasAgreed`, `EventuallyAllAcked` | two incarnations of 2 bytes with their FIN and RST, whose numbers wrap at 8; one restart with a new server number; every segment of both directions kept for ever |
| `ring_buffer` | `RingBuffer` implements `Fifo`; closed forms equal the loops | 4 slots, blocks of up to 5 bytes: all index pairs, blocks that fit, exceed by one, by more |
| `checksum` | exact verification, detection of one damaged octet, validity unless the fold carries, what UDP accepts | octets of 2 bits, up to 4 words: the smallest size at which the fold carries |
| `arp` | `BoundedStaleness` | one address, two owners, TTL 2, delay 2, skew 1, eight seconds |
| `tcp_over_arp` | implements `TcpSession`; a dropped reply has been asked for; `ReachablePeersConnect` | two connections of one host of the subnet, which share its cache entry: the miss of one brings the address the other needs, and the other's reply may be sent when the first one's was dropped; handshakes and empty segments, an entry that expires (TTL 1, two seconds), one restart; nothing cut off, so that liveness is checked on the whole graph |
| `services` | `EchoesAreRight`, `DnsAnswersAreRight`, `EventuallyAnswered` | names of labels of one to three letters, six requests of a client outside the subnet and one inside; a name with records beside its alias, asked for their type and for another, and a query nothing answers; link padding to 2 octets, two frames under way, one expiry |
| `lifecycle` | `StackIsWhole`, `SubnetIsRouted`, `SocketsAreClosed`, `FrameCostsItself`, `EveryFrameIsHandled` | addresses of 3 bits: masks with a hole and networks with a host bit exist; five command lines; three frames, one refused and one unchecked; two failing reads |
| `tcp_full`, `tcp_padding`, `checksum_carry`, `syn_ack_lost` | the disagreements below | |

One tuple suffices in the TCP runs because handlers of different tuples share
nothing in `TCP`; what they share below, the ARP cache and its misses, is checked
with two tuples of one host in `tcp_over_arp`. A peer outside the subnet needs no
entry and waits for none: TCP over `L3::send` is then `TcpSession` itself, which the
theorem `RefinesSession` covers for every `HostOf`. The length of a segment makes no difference to
`L4Send`, so empty segments stand for all data there. The theorems hold for any set
of tuples.

`AckedIsHeldUntilFull` is the strongest statement about acknowledged bytes that
the code keeps: all of them are in the buffer, unless the buffer is full.

`tcp_incarnations` shows what still holds of a handler that forgets nothing: as
long as peers choose initial numbers that stay clear of their old ones and DNet
does not restart with the same `rand()` value, a new incarnation is never taken
for an old one. It is not served either: DNet ignores its SYN until it restarts,
and so `EventuallyAllAcked` speaks of the first incarnation only. A reset that is
in order is acknowledged, and a host that has closed the connection answers that
acknowledgement with the same reset, so that the two may exchange segments for
ever; in the model both are in the network once.

`checksum` shows that UDP's receiver differs from the others': where they accept
exactly the valid packets, it drops the correct datagrams whose sum carries in the
fold or is all ones (`UdpDropsOnlyCarriesAndOnes`), always and not only now and
then, so that repeating them does not help.

### Disagreements between the code and what it says of itself

- `tcp_full` (TCP.h:139): `capacity()` counts the slot that `put` never fills. A
  segment one byte too large passes `writeAll`, loses its last byte and is
  acknowledged, against "receive buffer full, dropping packet" (TCP.cpp:88).
- `tcp_padding` (TCP.cpp:82): the payload's size comes from the frame, so padding
  becomes stream data and `rcv_nxt` moves past bytes that were not sent. The ARP
  handler knows of padded frames (ARP.cpp:63).
- `checksum_carry` (util.cpp:29): the sum is folded once. When that addition
  carries, the header that `L3::send` fills in fails the test of `L3::on_recv`
  ("Verify checksum", L3.cpp:49), and every other receiver's.
- `syn_ack_lost` (TCP.cpp:63): "sent SYN-ACK" is logged although `L3::send`
  dropped it for lack of a MAC address. A repeated SYN is not answered and there
  is no timer, so that tuple never connects. `ReachablePeersConnect` is the positive
  counterpart.

### Fairness

- The listener takes every frame the TAP device keeps delivering, because
  `do_listen` loops for ever: a frame that is sent again and again is handled in
  the end. As the network may lose any copy, this is strong fairness of the
  handling of each kind of frame.
- Peers and clients retransmit what is not answered (weak fairness, strong where
  the bound on frames under way may interrupt them). Hosts answer ARP requests.
- In `TcpIncarnations`, where the network keeps every segment, weak fairness of its
  delivery says the same: what is repeated for ever gets through. No fairness is
  assumed of closing, giving up or restarting.
- In `Services` the specification is fair only to the listener and to a client's
  taking of a frame that is sent to it. That a client asks until it is answered,
  that not every copy of its frame is lost, and that it answers ARP requests is the
  hypothesis `KeepsAsking` of `EventuallyAnswered`.
- In `Lifecycle` both threads run (weak fairness of the constructor and of the
  listener's loop), and only finitely many reads fail.
- DNet itself has no timers, so no fairness is assumed of any action of its own
  other than handling a frame. That is why `EventuallyAllAcked` needs replies that are
  not lost: a lost acknowledgement is never repeated (TCP.cpp:115).

## 4. What is proved

Each proof module has the theorems of one model, for every value of its
constants: any set of tuples, sequence space, stream, buffer size, width of an
octet or an address, delay, number of restarts. `PROJECT.json` lists each theorem
with the property it states.

| proof module | theorems | assumed besides the models' assumptions |
|---|---|---|
| `TcpSession_proofs` | `TypeCorrect`, `SessionInvariant`, `ReceivedIsAlwaysPrefix`, `NeverAcksUnsent`, `EstablishedTogether`, `PositionNeverMovesBack`, `ConnectionInvariant`, `ConnectedTogether`, `AcknowledgedIsHeld` | `MinPayload = 0`, except for `TypeCorrect` |
| `TcpIncarnations_proofs` | `TypeCorrect`, `IncarnationsInvariant`, `OneStreamOnly`, `NeverTheOldConnection`, `EstablishedIsAgreed` | `MinPayload = 0`, except for `TypeCorrect` |
| `TcpOverArp_proofs` | `RefinesSession`, `TypeCorrect`, `DroppedAreAskedFor`, `SessionSafety`, `SessionConnected` | `MinPayload = 0` for the last two |
| `ArpNetwork_proofs` | `TypeCorrect`, `StalenessBounded` | |
| `RingBuffer_proofs` | `TypeCorrect`, `RefinesFifo`, `LoopsAreClosedForms` | |
| `Checksum_proofs` | `PacketInvariant`, `VerifiesExactly`, `StoresValidUnlessCarry`, `DetectsDamage`, `UdpDropsAlways` | `PacketsFit` |
| `Lifecycle_proofs` | `LifecycleInvariant`, `WholeStack`, `SubnetRouted`, `SocketsClosed`, `FramesCostThemselves` | |
| `Services_proofs` | `AliasIsSpelled`, `NameIsParsed`, `NameSpells`, `EchoesCorrect`, `DnsCorrect` | |

The assumptions. In the models: `StreamLen + 1 < SeqMod`, so that a sequence number
tells which bytes a segment carries, and that the incarnations of a peer and the
lives of DNet choose numbers that stay clear of each other. `MinPayload = 0` is a link
that does not pad frames; `tcp_padding` shows that it is needed. `PacketsFit` bounds
a packet by `2 * WordMod` octets, 131072 in the program, twice what its 16-bit sizes
allow: so many words of all ones are the most whose sum, folded once (util.cpp:29),
is known up to one multiple of all ones. `RegisteredAssumption` and
`ServicesAssumption` describe the inputs of the services: names are registered in
lower case, as `DNSRecord.h` has them and the lookup requires; an alias has fewer
than 256 octets, which is the limit of a DNS name and keeps a label's length in its
octet; questions are as `IsQuery` says; damage that reaches a service's data shows
in their checksum, as far as `Checksum` allows.

### The arguments

**The session.** None of the properties is inductive: an old segment in the network
can only be harmless if it still speaks of the present stream. `SessionInv` says
so: every segment under way is the peer's SYN or a piece of its stream at the
right sequence number, no further than what was sent, and acknowledges the number
the peer learnt (`IsThePeers`); every reply acknowledges a part of the stream that
was sent (`AcksTheStream`); and a connection in `ESTABLISHED` has a peer in
`ESTABLISHED`, the numbers the peer knows, and an `rcv_nxt` and buffer that both
stand at the same number of received bytes, up to the buffer's size
(`HoldsTheStream`). The step that needs work is `ReceiveInOrder`:
`SeqAddInjective` turns `s.seq = rcv_nxt` into "the segment starts where the
buffer ends" (`InOrderIsNext`), and `WriteAllKeeps` extends the prefix, whether
the block fits or loses its tail to the off-by-one (`ReceivingExtends`).

`PeerIsConnected` and `AckedIsHeldUntilFull` look at DNet from the peer's side and
hold only until DNet forgets. `ConnectionInv` is what they need: before the first
restart every reply in the network is of a connection that DNet holds, carries the
number DNet chose, and acknowledges at most what was received. Together with
`SessionInv`, which says where the buffer stands, that is inductive.

**Incarnations.** In `TcpIncarnations` nothing leaves the network, so the invariant
has to say of every segment ever sent why it cannot do harm. `IncarnationsInv` says
it per tuple: a segment is a SYN of some incarnation, a stray reset, or was sent
under an agreement, a pair of one incarnation's number and one life's number
(`SegmentInv`); what DNet holds is about one incarnation, and all it has answered
in this life, and all that was agreed on with this life, is about the same one
(`ConnectedTo`), or else nobody has heard of the tuple in this life (`Unknown`). An
old segment is then out of order because its number lies in another incarnation's
range, and an old acknowledgement carries another life's number.

**The stack.** `RefinesSession` maps the replies of the session to
`toPeer \cup unsent`: a reply that `L3::send` drops is, for TCP, one that is under way
and never arrives. Each action maps to a step of `TcpSession`: a delivered frame to
its branch of `on_recv`, the ARP exchange and the clock to stutters. The
session's invariants hold of the stack through it (`SessionSafety`,
`SessionConnected`). `TypeCorrect` takes the types of the handler, the peers and the
replies from the session's in the same way, and proves those of the cache and the ARP
frames (`ArpTypeOK`) directly. `DroppedAreAskedFor` is inductive with the types alone: a miss
that drops a reply sends a request in the same step, and the request stays in the
network or has been answered.

**ARP.** `BoundedStaleness` speaks of a moment, a lookup; `StalenessInv` carries the
time: the host named in a response owned the address when it was sent and frames
are no older than `MaxDelay`; the host named in an entry owned the address
`MaxSkew + MaxDelay` before `last_update` at the latest.

**The ring buffer.** The refinement mapping is `Contents`, the bytes from `start`
to `end` modulo the array's size. The work is in the lemmas about positions: moving
an index wraps at most once (`AdvanceValue`), a slot between `start` and `end` is not free (`HeldIsNotFree`),
writing behind `end` appends (`StoringAppends`), moving `start` drops
(`ReadingDrops`). `LoopsAreClosedForms` then shows that the loops of `writeAll` and
`readFull`, call by call, give the closed forms the model uses, for blocks of every
length.

**The checksum.** For words `w1 .. wn` the code adds in 32 bits and folds once; RFC
1071 adds and folds at every step. The invariant of the loop is that the halves of
the code's sum add up to the RFC's sum, or to that plus all ones, and that one is
zero exactly when the other is (`Agree`). Hence the complement of a single fold is
zero exactly when the RFC's sum is all ones (`VerifiesExactly`), although a fold that carries
makes the stored field one too large (`StoresValidUnlessCarry`). A changed octet
changes the sum by less than all ones, so it cannot reach the same value again
(`DetectsDamage`). `PacketInv` relates the packet to what was built: the field is the
sender's, at most one octet differs, the verdict is the receiver's.

**The life cycle.** `LifecycleInv` reads off the place of the main thread what has been
achieved there: the device's state, the layers, the open socket, the route. The
properties are what it says at the places where a listener exists. For
`FrameCostsItself` it also says that every frame read so far was handled, except the
one in the buffer: the listener is the only thread that reads, and it comes back to
the read only when the handler has returned or thrown.

**The services.** `EchoesAreRight` and `DnsAnswersAreRight` speak of the answers a
client has, long after the frame it asked with is gone. `Inv` follows a request
through the stack: a frame under way to DNet carries the checksum of some request's
data, whatever its data have become (`Sent`), and an answer under way or received
is the reply to some request as it was sent (`Replied`). `AcceptedIsSent` joins the
two: a frame that passes the tests is the frame of a request. For the echoes the
rest is that padding changes no datagram that passes UDP's length test (`Padded`).
For DNS it is that the three views of a name agree. `AliasIsSpelled` and
`NameIsParsed` give what the two loops of the code compute, and `NameSpells` that
`LowerCase(TextOf(wire))` is a registered name exactly when the wire spells that
name. Its hard part is that labels begin at the same places in both: each octet of
a name belongs to a label (`LabelsCover`), and by induction from the front a label
that begins at the same place ends at the same place (`LabelsOfSpelled`). The cases
of the response, records of the type, an alias, none, are `ResponseAnswers`.

### Induction over data

Three modules have results about loops: what `Puts` and `Gets`, what `Sum` and
`OnesSum`, and what `EncodeName` and `TextOf` compute for every input. They are
recursive functions on `0 .. n`, and the induction is by the least counterexample:
the lemma `UpTo` of each module states that a set of numbers that has 0 and with every number the next
one has all of them, from the well-foundedness of the finite sets under
inclusion. That the function of a recursive definition exists is proved with it
(`Recursion`; `PutsAre` and `GetsAre` name the function). The loops of the names
have an invariant each, `EncodedTo` and `ReadTo`, that a round keeps
(`EncodeOctetKeeps`, `ReadLabelKeeps`), as one would prove the code itself.

### Model-checked only

- Liveness and everything that needs fairness: `EventuallyAllAcked`,
  `EventuallyAnswered`, `ReachablePeersConnect`, `EveryFrameIsHandled`. The prover
  does not treat enabledness.
- The four runs that expect a violation: each shows an execution.

Every other property a run checks is a theorem.

## 5. What is not modelled

- `add_ip`, whose only call is commented out (DNet.cpp:45).
- Logging, formatting, `to_string`, and the parsing of addresses: a command line is
  well formed or it is not.
- The end of the block that declares the `DNet` object (main.cpp:11), behind which
  the listener goes on using it: whether its storage is reused is the compiler's
  choice, and nothing in `main` needs it.
- The offsets and sizes of DNS records in the response, queries for the root
  (DNS.cpp:30) or with malformed names; IPv4 fragments, TTL and options,
  which the code ignores or rejects; UDP ports.
- What the layers do with sizes they do not check: frames shorter than their
  headers, DNS messages longer than the code's arrays (512 octets), and in TCP a
  `data_offset` that is not the length of the header: beyond the segment it makes
  `payload_size` wrap in its 16 bits (TCP.cpp:81-82), below five words it makes
  header octets payload. This is undefined or is whatever the build has in its
  memory. `Lifecycle` has it as a choice, where the listener either goes on or the
  process ends; the models of the services have frames that are as long as their
  headers say they are, from conforming peers. Nothing is said of a process that
  goes on after it has written outside an array.
- The TAP device's own descriptor, which the errors behind `TUNSETIFF` leave open
  until the process ends: `sockets` counts those opened for ioctl calls.
- The sending of data and `sndbuf`: the code has none of it.
- Damage to TCP segments, whose checksum the code does not verify.

## 6. Plan

1. Done: the TCP session with its proofs, peers with several incarnations, ring
   buffer, checksum with both receivers, ARP, their composition, the services with
   names on the wire, the life cycle.
2. Done: proofs of the safety properties of the session, the incarnations, the
   stack, ARP, the ring buffer, the checksum, the life cycle and the services; the
   refinements `ImplementsFifo` and `ImplementsSession`; the loops of the ring
   buffer, of the checksum and of the names by induction.
3. Next, if the code grows: a data-sending side of TCP needs `sndbuf` and timers in
   `TCP`; records larger than the response buffer need sizes in `DNS`.
