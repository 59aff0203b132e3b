-------------------------------- MODULE ARP --------------------------------
(***************************************************************************)
(* class ARP (layers/L2/arp): the cache of the MAC addresses of other      *)
(* hosts, and the handler of the ARP frames that L2::on_recv passes on.    *)
(* now is the wall clock, time(nullptr); the frames an operator names are  *)
(* the ones handed to L2_send.                                             *)
(***************************************************************************)
EXTENDS Integers

CONSTANTS
    Ips,           \* the addresses in use
    Subnet,        \* the ones that ipv4_subnet contains
    Network,       \* the subnet's own address, the sender of DNet's requests
    Macs,          \* the MAC addresses of the other hosts
    OwnMac,        \* DNet's
    Ttl            \* ARP_CACHE_TTL

ASSUME SubnetAssumption == Subnet \subseteq Ips /\ Network \in Ips
ASSUME MacAssumption == OwnMac \notin Macs
ASSUME TtlAssumption == Ttl \in Nat

VARIABLE cache     \* unordered_map: a function on the addresses it holds

Entry(mac, now) == [address |-> mac, last_update |-> now]

ArpInit == cache = [ip \in {} |-> Entry(OwnMac, 0)]

\* Fault: entries do not expire.
Cached(ip, now) == ip \in DOMAIN cache

\* lookup finds an entry that has not expired.
Hit(ip, now) == ip \in DOMAIN cache /\ ~(cache[ip].last_update + Ttl < now)

\* What lookup broadcasts when it does not.
Request(ip) ==
    [op |-> "REQUEST", sender_mac |-> OwnMac, sender_ip |-> Network, target_ip |-> ip]

\* The answer to a request.
Response(p) ==
    [op |-> "RESPONSE", sender_mac |-> OwnMac, sender_ip |-> p.target_ip,
     target_ip |-> p.sender_ip]

\* DNet answers for every address of its subnet.
Answers(p) == p.op = "REQUEST" /\ p.target_ip \in Subnet

AnswerRequest(p) == Answers(p) /\ UNCHANGED cache

IgnoreRequest(p) == p.op = "REQUEST" /\ ~Answers(p) /\ UNCHANGED cache

\* Fault: the time an entry expires is stored as the time it was learnt.
CacheWithExpiry(p, now) ==
    /\ p.op = "RESPONSE"
    /\ cache' = [ip \in DOMAIN cache \cup {p.sender_ip} |->
                    IF ip = p.sender_ip THEN Entry(p.sender_mac, now + Ttl) ELSE cache[ip]]

\* A reply replaces whatever the cache holds for its sender, asked for or not.
CacheResponse(p, now) ==
    /\ p.op = "RESPONSE"
    /\ cache' = [ip \in DOMAIN cache \cup {p.sender_ip} |->
                    IF ip = p.sender_ip THEN Entry(p.sender_mac, now) ELSE cache[ip]]
=============================================================================
