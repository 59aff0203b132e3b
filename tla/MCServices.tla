----------------------------- MODULE MCServices -----------------------------
(* A client from behind a router and one of the subnet use the echoes and   *)
(* query records like those of DNSRecord.h: a type that the name has beside *)
(* an alias, one that only the alias answers, and one that nothing answers. *)
EXTENDS Services

\* "z.c" and "www.z.c", which has records beside its alias; "ns" in front of
\* a pointer to the name.
Zone == <<122, 46, 99>>

Alias == <<119, 119, 119, 46>> \o Zone

NameServer(digit) == <<3, 110, 115, digit, 192, 12>>

MCRegistered ==
    {[type |-> "SOA",   name |-> Zone,  rdata |-> NameServer(49)],
     [type |-> "A",     name |-> Zone,  rdata |-> <<1, 2, 3, 4>>],
     [type |-> "NS",    name |-> Zone,  rdata |-> NameServer(49)],
     [type |-> "NS",    name |-> Zone,  rdata |-> NameServer(50)],
     [type |-> "TXT",   name |-> Alias, rdata |-> <<1, 116>>],
     [type |-> "TXT",   name |-> Alias, rdata |-> <<1, 117>>],
     [type |-> "CNAME", name |-> Alias, rdata |-> <<116, 49, 46>> \o Zone]}

\* "Z.c" and "Www.Z.c" in a question.
ZoneWire == <<1, 90, 1, 99, 0>>

AliasWire == <<3, 87, 119, 119>> \o ZoneWire

MCUpperCase ==
    [o \in {"a", "A", "b", "1", "0"} |->
        CASE o = "a" -> "A" [] o = "b" -> "B" [] OTHER -> o]

Query(name, type) ==
    [qr |-> 0, rcode |-> "NOERROR", aa |-> FALSE, qdcount |-> 1,
     qname |-> name, qtype |-> type, qclass |-> "IN",
     answers |-> {}, additional |-> {"OPT"}]

MCRequests ==
    {[client |-> "c1", service |-> "ICMP", data |-> <<"a">>],
     [client |-> "c2", service |-> "UDP",  data |-> <<"a", "1">>],
     [client |-> "c2", service |-> "UDP",  data |-> <<"a">>],
     [client |-> "c2", service |-> "DNS",  data |-> Query(AliasWire, "TXT")],
     [client |-> "c1", service |-> "DNS",  data |-> Query(AliasWire, "A")],
     [client |-> "c2", service |-> "DNS",  data |-> Query(ZoneWire, "MX")]}

\* An octet or the type of a query that changed on the way.
MCDamaged ==
    {[service |-> "ICMP", data |-> <<"b">>],
     [service |-> "UDP",  data |-> <<"b", "1">>],
     [service |-> "DNS",  data |-> Query(ZoneWire, "SOA")]}
=============================================================================
