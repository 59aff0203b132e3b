------------------------------ MODULE Services ------------------------------
(***************************************************************************)
(* The services without a connection, from the frame the listener reads to *)
(* the frame it writes: ICMP echo, the UDP echo and DNS.  Clients of the   *)
(* subnet and others ask, and ask again, over a network that loses,        *)
(* reorders and damages frames; a repeated frame is one asked again.  A    *)
(* handler that finds a frame unacceptable throws, and do_listen drops the *)
(* frame and reads the next one.                                           *)
(*                                                                         *)
(* A frame is what the layers look at of it: whether ethernet, IPv4 and    *)
(* the protocol are in order, the service it is for, the data, and the     *)
(* data its checksum was computed over (Checksum says what the checksum    *)
(* tells apart); clients send UDP with a checksum, which is optional, and  *)
(* a datagram without one is not verified.  The data's size is taken from  *)
(* the frame, so the octets that pad it to the link's minimum count as     *)
(* data.                                                                   *)
(***************************************************************************)
EXTENDS DNS, FiniteSets

CONSTANTS
    Requests,      \* what the clients ask: [client, service, data]
    Outside,       \* the clients that are not in DNet's subnet
    Damaged,       \* what damage makes of data: [service, data]
    MinData,       \* 0 on a link that does not pad frames
    UpperCase,     \* the upper-case letter of each octet
    MaxFrames,     \* bound: frames under way when a client asks
    MaxExpiries    \* bound: ARP entries that expire

ASSUME ServicesAssumption ==
    /\ MinData \in Nat /\ MaxExpiries \in Nat /\ MaxFrames \in Nat \ {0}
    /\ \A r \in Requests : /\ DOMAIN r = {"client", "service", "data"}
                           /\ r.service \in {"ICMP", "UDP", "DNS"}
    /\ \A r \in Requests, d \in Damaged : r.service = d.service => r.data # d.data
    /\ \A r \in Requests : IF r.service = "DNS" THEN IsQuery(r.data)
                           ELSE r.data \in Seq(DOMAIN UpperCase)

VARIABLES
    toDnet,        \* frames the TAP device has or will have for DNet
    toClients,     \* frames DNet wrote
    cache,         \* clients whose MAC address DNet knows
    requested,     \* clients DNet broadcast an ARP request for
    received,      \* the answers the clients got
    expiries

vars == <<toDnet, toClients, cache, requested, received, expiries>>

Clients == {r.client : r \in Requests}

Queries == {r.data : r \in {d \in Requests \cup Damaged : d.service = "DNS"}}

Answers == [q \in Queries |-> DnsResponse(q)]

Pad == "0"

\* The data of a frame on a link that pads.
OnTheWire(data) ==
    [i \in 1 .. (IF Len(data) < MinData THEN MinData ELSE Len(data)) |->
        IF i <= Len(data) THEN data[i] ELSE Pad]

Frame(r) ==
    [client |-> r.client, service |-> r.service, data |-> r.data,
     summed |-> r.data, header |-> "ok"]

Init ==
    /\ toDnet = {} /\ toClients = {}
    /\ cache = {} /\ requested = {}
    /\ received = {} /\ expiries = 0

-----------------------------------------------------------------------------
\* A client asks, for the first time or again.
Ask(r) ==
    /\ Cardinality(toDnet) + Cardinality(toClients) < MaxFrames
    /\ toDnet' = toDnet \cup {Frame(r)}
    /\ UNCHANGED <<toClients, cache, requested, received, expiries>>

\* An ethernet type, an IPv4 header or a protocol the layers refuse, or data
\* that are not the data the checksum was computed over.
Damage(f) ==
    /\ f \in toDnet
    /\ \/ toDnet' = (toDnet \ {f}) \cup {[f EXCEPT !.header = "bad"]}
       \/ \E d \in Damaged :
             /\ d.service = f.service
             /\ toDnet' = (toDnet \ {f}) \cup {[f EXCEPT !.data = d.data]}
    /\ UNCHANGED <<toClients, cache, requested, received, expiries>>

\* A lost answer is a lost frame: no service remembers that it answered.
Lose(f) ==
    /\ f \in toDnet
    /\ toDnet' = toDnet \ {f}
    /\ UNCHANGED <<toClients, cache, requested, received, expiries>>

-----------------------------------------------------------------------------
\* The assertions of L2, L3 and L4.
HeaderAccepted(f) == f.header = "ok"

\* Fault: UDP and ICMP do not verify the checksum.
AnyBody(f) ==
    /\ f.service = "UDP" => Len(f.data) = Len(OnTheWire(f.data))
    /\ f.service = "DNS" => DnsAccepts(f.data)

\* The assertions of ICMP, UDP and DNS.  UDP compares the datagram's own
\* length with the size of what arrived (a DNS query is longer than MinData).
BodyAccepted(f) ==
    /\ f.summed = f.data
    /\ f.service = "UDP" => Len(f.data) = Len(OnTheWire(f.data))
    /\ f.service = "DNS" => DnsAccepts(f.data)

Upper(data) == [i \in 1 .. Len(data) |-> UpperCase[data[i]]]

\* What the service answers to the frame's source.
Reply(f) ==
    [client |-> f.client, service |-> f.service,
     data |-> CASE f.service = "ICMP" -> OnTheWire(f.data)
                [] f.service = "UDP"  -> Upper(OnTheWire(f.data))
                [] f.service = "DNS"  -> Answers[f.data]]

\* L3::send needs a MAC address for the clients of the subnet only.
Reachable(c) == c \in Outside \/ c \in cache

\* Fault: an answer that has to wait for ARP asks nobody.
L3SendNotAsking(a) ==
    /\ toClients' = toClients \cup {b \in {a} : Reachable(b.client)}
    /\ UNCHANGED requested

\* L3::send: to a client of the subnet whose MAC address is not cached only a
\* request goes.
L3Send(a) ==
    \/ /\ Reachable(a.client)
       /\ toClients' = toClients \cup {a}
       /\ UNCHANGED requested
    \/ /\ ~Reachable(a.client)
       /\ requested' = requested \cup {a.client}
       /\ UNCHANGED toClients

Serve(f) ==
    /\ f \in toDnet
    /\ HeaderAccepted(f) /\ BodyAccepted(f)
    /\ toDnet' = toDnet \ {f}
    /\ L3Send(Reply(f))
    /\ UNCHANGED <<cache, received, expiries>>

\* An assertion throws; do_listen catches and goes on.
DropFrame(f) ==
    /\ f \in toDnet
    /\ ~(HeaderAccepted(f) /\ BodyAccepted(f))
    /\ toDnet' = toDnet \ {f}
    /\ UNCHANGED <<toClients, cache, requested, received, expiries>>

\* The client's answer to the ARP request arrives; an entry expires.
Resolve(c) ==
    /\ c \in requested
    /\ requested' = requested \ {c}
    /\ cache' = cache \cup {c}
    /\ UNCHANGED <<toDnet, toClients, received, expiries>>

Expire(c) ==
    /\ c \in cache /\ expiries < MaxExpiries
    /\ cache' = cache \ {c}
    /\ expiries' = expiries + 1
    /\ UNCHANGED <<toDnet, toClients, requested, received>>

GetAnswer(a) ==
    /\ a \in toClients
    /\ toClients' = toClients \ {a}
    /\ received' = received \cup {a}
    /\ UNCHANGED <<toDnet, cache, requested, expiries>>

Next ==
    \/ \E r \in Requests : Ask(r)
    \/ \E f \in toDnet : Serve(f) \/ DropFrame(f) \/ Damage(f) \/ Lose(f)
    \/ \E c \in Clients : Resolve(c) \/ Expire(c)
    \/ \E a \in toClients : GetAnswer(a)

Spec == Init /\ [][Next]_vars

\* The listener and the clients take frames that wait for them.
Fairness ==
    /\ WF_vars(\E f \in toDnet : Serve(f) \/ DropFrame(f))
    /\ WF_vars(\E a \in toClients : GetAnswer(a))

FairSpec == Spec /\ Fairness

\* A client asks until it is answered, and answers when DNet asks for its MAC
\* address.  The network loses and damages some frames of its request, but not
\* all of them.
KeepsAsking(r) ==
    /\ SF_vars(Ask(r)) /\ SF_vars(Serve(Frame(r)))
    /\ WF_vars(Resolve(r.client))
    /\ WF_vars(GetAnswer(Reply(Frame(r))))
-----------------------------------------------------------------------------
\* An echo has the data of its request in front, and nothing but padding
\* behind them.
EchoedFor(data, answer) ==
    /\ IsPrefix(data, answer)
    /\ \A i \in Len(data) + 1 .. Len(answer) : answer[i] = Pad

\* The name on the wire spells the text: a length where the text begins a
\* label, the letters of the text in either case, and a zero at the end.
Spells(wire, text) ==
    LET LabelEnds(i) == {j \in i .. Len(text) + 1 : j = Len(text) + 1 \/ text[j] = Dot}
        Begins(i) == i = 1 \/ text[i - 1] = Dot
    IN  /\ Len(wire) = Len(text) + 2 /\ Last(wire) = 0
        /\ \A i \in 1 .. Len(text) + 1 :
              IF Begins(i)
              THEN i + wire[i] \in LabelEnds(i)
                      /\ \A j \in LabelEnds(i) : i + wire[i] <= j
              ELSE \/ wire[i] = text[i - 1]
                   \/ wire[i] \in 65 .. 90 /\ wire[i] + 32 = text[i - 1]

\* An answer carries a registered record; an alias is spelled on the wire.
Carries(a, r) ==
    /\ a.type = r.type
    /\ IF r.type = "CNAME" THEN Spells(a.rdata, r.rdata) ELSE a.rdata = r.rdata

Asked == [q \in Queries |-> {r \in Registered : Spells(q.qname, r.name)}]

\* What a query is to be told of its name, however it was spelled: all records
\* of its type, and the alias only when there are none.
Expected(q) ==
    LET ofType(type) == {r \in Asked[q] : r.type = type}
    IN  IF ofType(q.qtype) # {} THEN ofType(q.qtype) ELSE ofType("CNAME")

\* A response answers a query, with these records and no others.
AnswersQuery(q, response) ==
    /\ q.qr = 0 /\ response.qr = 1
    /\ response.qname = q.qname /\ response.qtype = q.qtype
    /\ \A a \in response.answers : \E r \in Expected(q) : Carries(a, r)
    /\ \A r \in Expected(q) : \E a \in response.answers : Carries(a, r)

\* Every echo a client has is that of something it sent: damage on the way
\* never reaches a service (ICMP.cpp:15, UDP.cpp:35) and a padded datagram is
\* not echoed with its padding (UDP.cpp:16).
EchoesAreRight ==
    \A a \in {b \in received : b.service # "DNS"} : \E r \in Requests :
        /\ r.client = a.client /\ r.service = a.service
        /\ IF r.service = "ICMP" THEN EchoedFor(r.data, a.data)
                                 ELSE a.data = Upper(r.data)

\* Every response a client has answers one of its queries with exactly what is
\* registered: its spelling does not change the records found
\* (DNS.cpp:24-43), it is told an alias only when there are no records of the
\* type (DNS.cpp:47-52), nothing when there is no alias either, and the alias
\* is the registered one, label by label (DNS.h:43-56).
DnsAnswersAreRight ==
    \A a \in {b \in received : b.service = "DNS"} : \E r \in Requests :
        r.client = a.client /\ r.service = "DNS" /\ AnswersQuery(r.data, a.data)

\* A request in order that its client repeats is answered in the end, whatever
\* the other clients do, although the answer to the first one is dropped while
\* ARP resolves the client (L3.cpp:97-102): each service answers again when it
\* is asked again.
EventuallyAnswered ==
    \A r \in Requests :
        BodyAccepted(Frame(r)) /\ KeepsAsking(r) => <>(Reply(Frame(r)) \in received)
=============================================================================
