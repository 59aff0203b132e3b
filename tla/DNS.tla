-------------------------------- MODULE DNS --------------------------------
(***************************************************************************)
(* The DNS server (layers/L7): the records register_dns_records puts into  *)
(* the multimap, and the answer of DNS::on_recv to one query.  A name is   *)
(* text when it is registered and labels with their lengths in a query or  *)
(* a CNAME's data; both are sequences of octets here.  The response is     *)
(* built over a copy of the query, so a field of the header that the code  *)
(* does not set keeps the query's value.                                   *)
(***************************************************************************)
EXTENDS Integers, Sequences, SequencesExt

CONSTANT Registered  \* the REGISTER macros' arguments: [type, name, rdata]

Octet == 0 .. 255

\* The text of a name or of an alias is a C string: no octet of it is zero.
\* Names are registered in lower case (DNSRecord.h).
ASSUME RegisteredAssumption ==
    \A r \in Registered :
        /\ r \in [type : STRING, name : Seq(Octet), rdata : Seq(Octet)]
        /\ \A i \in DOMAIN r.name : r.name[i] \notin 65 .. 90
        /\ r.type = "CNAME" => /\ Len(r.rdata) < 256
                              /\ \A i \in DOMAIN r.rdata : r.rdata[i] # 0

Dot == 46

\* Fault: the length of a label goes on counting with the next one.
EncodeOctetCounting(text, s, n) ==
    IF Append(text, 0)[n] \in {Dot, 0}
    THEN [s EXCEPT !.data = @ \o <<s.l>> \o SubSeq(text, n - s.l, n - 1)]
    ELSE [s EXCEPT !.l = @ + 1]

\* One round of the loop that registers an alias: at a dot, and at the zero
\* behind the text, the l octets of the label that ends there.
EncodeOctet(text, s, n) ==
    IF Append(text, 0)[n] \in {Dot, 0}
    THEN [data |-> s.data \o <<s.l>> \o SubSeq(text, n - s.l, n - 1), l |-> 0]
    ELSE [data |-> s.data, l |-> (s.l + 1) % 256]

EncodeName(text) ==
    LET after[n \in 0 .. Len(text) + 1] ==
            IF n = 0 THEN [data |-> << >>, l |-> 0] ELSE EncodeOctet(text, after[n - 1], n)
    IN  Append(after[Len(text) + 1].data, 0)

Records ==
    {IF r.type = "CNAME" THEN [r EXCEPT !.rdata = EncodeName(@)] ELSE r : r \in Registered}

\* One round of the loop that parses the question: the label at, and a dot.
ReadLabel(wire, s) ==
    IF wire[s.at] = 0 THEN s
    ELSE [text |-> s.text \o SubSeq(wire, s.at + 1, s.at + wire[s.at]) \o <<Dot>>,
          at   |-> s.at + wire[s.at] + 1]

\* The last dot is overwritten.  (The name of the root has none: nothing is
\* known of what the code does with it.)
TextOf(wire) ==
    LET after[n \in 0 .. Len(wire)] ==
            IF n = 0 THEN [text |-> << >>, at |-> 1] ELSE ReadLabel(wire, after[n - 1])
    IN  Front(after[Len(wire)].text)

Lower(octet) == IF octet \in 65 .. 90 THEN octet + 32 ELSE octet

LowerCase(text) == [i \in DOMAIN text |-> Lower(text[i])]

\* A name as a question has it, but the root's: labels with their lengths, from
\* one octet that begins a label to the next, without dots, and a zero.
IsName(wire) ==
    \E begins \in SUBSET (1 .. Len(wire)) :
        /\ {1, Len(wire)} \subseteq begins /\ wire[Len(wire)] = 0 /\ Len(wire) > 1
        /\ \A i \in begins \ {Len(wire)} :
              /\ wire[i] > 0 /\ i + wire[i] + 1 \in begins
              /\ \A j \in i + 1 .. i + wire[i] : j \notin begins /\ wire[j] \notin {0, Dot}

\* What a client sends; nothing is in the sections behind its question but
\* what the additional one may have.
IsQuery(q) ==
    /\ q \in [qr : 0 .. 1, rcode : STRING, aa : BOOLEAN, qdcount : Nat,
             qname : Seq(Octet), qtype : STRING, qclass : STRING,
             answers : {{}}, additional : SUBSET {"OPT"}]
    /\ IsName(q.qname)

\* The assertions on_recv makes; a query that fails one is dropped.
DnsAccepts(q) == q.qr = 0 /\ q.qdcount = 1 /\ q.qclass = "IN"

EqualRange(type, name) == {r \in Records : r.type = type /\ r.name = name}

\* Fault: the alias is looked up whether there are records or not.
RecordsWithAlias(q) ==
    LET name == LowerCase(TextOf(q.qname))
    IN  EqualRange(q.qtype, name) \cup EqualRange("CNAME", name)

\* The records of the asked type, and without any the alias of the name.
RecordsFor(q) ==
    LET name  == LowerCase(TextOf(q.qname))
        found == EqualRange(q.qtype, name)
    IN  IF found # {} THEN found ELSE EqualRange("CNAME", name)

\* Without a record the answer is the whole query, marked as a response
\* without an error; otherwise the question, and the records behind it.
DnsResponse(q) ==
    LET records == RecordsFor(q)
    IN  IF records = {}
        THEN [q EXCEPT !.qr = 1, !.rcode = "NOERROR"]
        ELSE [q EXCEPT !.qr = 1, !.aa = TRUE, !.answers = records, !.additional = {}]
=============================================================================
