----------------------------- MODULE ArpNetwork -----------------------------
(***************************************************************************)
(* The ARP cache on a LAN where addresses change hands, replies are        *)
(* delayed, and the wall clock that ages the cache is set by somebody      *)
(* else.  The hosts are external: a host announces the addresses it owns,  *)
(* asked or not, and a frame arrives at most MaxDelay seconds later.       *)
(***************************************************************************)
EXTENDS ARP

CONSTANTS
    MaxDelay,      \* seconds a frame spends in the network
    MaxSkew,       \* how far the wall clock is set forward and back again
    MaxClock       \* bound on the seconds that pass

ASSUME DelayAssumption == MaxDelay \in Nat /\ MaxSkew \in Nat /\ MaxClock \in Nat

VARIABLES
    clock,         \* seconds that really passed
    skew,          \* wall clock minus clock
    owner,         \* the MAC of the host that owns an address
    lastOwned,     \* when a MAC last owned an address; -1: never
    inFlight,      \* frames on their way to DNet, with the time they left
    requested      \* addresses DNet has asked for

vars == <<cache, clock, skew, owner, lastOwned, inFlight, requested>>

WallClock == clock + skew

Init ==
    /\ ArpInit
    /\ clock = 0 /\ skew = 0
    /\ owner \in [Ips -> Macs]
    /\ lastOwned = [ip \in Ips |-> [mac \in Macs |-> -1]]
    /\ inFlight = {} /\ requested = {}

OwnedSince(ip, mac, time) ==
    \/ owner[ip] = mac
    \/ lastOwned[ip][mac] >= 0 /\ lastOwned[ip][mac] >= time

Tick ==
    /\ clock < MaxClock
    /\ \A f \in inFlight : clock < f.sent + MaxDelay
    /\ clock' = clock + 1
    /\ UNCHANGED <<cache, skew, owner, lastOwned, inFlight, requested>>

SetClock ==
    /\ skew' \in 0 .. MaxSkew
    /\ UNCHANGED <<cache, clock, owner, lastOwned, inFlight, requested>>

\* Another host takes the address over.
TakeOver(ip, mac) ==
    /\ owner[ip] # mac
    /\ owner' = [owner EXCEPT ![ip] = mac]
    /\ lastOwned' = [lastOwned EXCEPT ![ip][owner[ip]] = clock]
    /\ UNCHANGED <<cache, clock, skew, inFlight, requested>>

\* The owner answers DNet's request, or announces its address.
Announce(ip) ==
    /\ inFlight' = inFlight \cup
          {[op |-> "RESPONSE", sender_ip |-> ip, sender_mac |-> owner[ip], sent |-> clock]}
    /\ UNCHANGED <<cache, clock, skew, owner, lastOwned, requested>>

Recv(f) ==
    /\ f \in inFlight
    /\ inFlight' \in {inFlight, inFlight \ {f}}
    /\ CacheResponse(f, WallClock)
    /\ UNCHANGED <<clock, skew, owner, lastOwned, requested>>

Lose(f) ==
    /\ f \in inFlight
    /\ inFlight' = inFlight \ {f}
    /\ UNCHANGED <<cache, clock, skew, owner, lastOwned, requested>>

\* A lookup that misses broadcasts a request; one that hits changes nothing.
LookupMisses(ip) ==
    /\ ~Hit(ip, WallClock)
    /\ requested' = requested \cup {Request(ip).target_ip}
    /\ UNCHANGED <<cache, clock, skew, owner, lastOwned, inFlight>>

Next ==
    \/ Tick
    \/ SetClock
    \/ \E ip \in Ips, mac \in Macs : TakeOver(ip, mac)
    \/ \E ip \in Ips : Announce(ip)
    \/ \E f \in inFlight : Recv(f) \/ Lose(f)
    \/ \E ip \in Ips : LookupMisses(ip)

Spec == Init /\ [][Next]_vars

-----------------------------------------------------------------------------
Frames ==
    [op : {"RESPONSE"}, sender_ip : Ips, sender_mac : Macs, sent : 0 .. MaxClock]

Entries == [address : Macs, last_update : 0 .. MaxClock + MaxSkew]

TypeOK ==
    /\ DOMAIN cache \subseteq Ips
    /\ \A ip \in DOMAIN cache : cache[ip] \in Entries
    /\ clock \in 0 .. MaxClock /\ skew \in 0 .. MaxSkew
    /\ owner \in [Ips -> Macs]
    /\ lastOwned \in [Ips -> [Macs -> -1 .. MaxClock]]
    /\ inFlight \subseteq Frames
    /\ requested \subseteq Ips

\* The address a lookup returns belonged to the host it asks for at most
\* Ttl seconds ago, and as many more as a reply may be late and the wall clock
\* may have been set back: a frame of DNet never goes to a host that gave the
\* address up before that.
BoundedStaleness ==
    \A ip \in Ips :
        Hit(ip, WallClock) =>
            OwnedSince(ip, cache[ip].address, clock - (Ttl + MaxDelay + MaxSkew))
=============================================================================
