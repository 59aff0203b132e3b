------------------------- MODULE ArpNetwork_proofs --------------------------
(***************************************************************************)
(* Theorems about ArpNetwork: how stale the MAC address can be that        *)
(* ARP::lookup returns, for every time to live of the entries, delay of    *)
(* the network and error of the wall clock.                                *)
(***************************************************************************)
EXTENDS ArpNetwork, TLAPS

\* The cache holds addresses in use and MAC addresses of hosts, and no entry
\* is newer than the latest wall clock.
THEOREM TypeCorrect == Spec => []TypeOK
  <1>1. Init => TypeOK
    BY DelayAssumption DEF Init, ArpInit, TypeOK
  <1>2. TypeOK /\ [Next]_vars => TypeOK'
    <2> SUFFICES ASSUME TypeOK, [Next]_vars PROVE TypeOK'
      OBVIOUS
    <2> USE DEF TypeOK
    <2>1. CASE Tick
      BY <2>1, DelayAssumption DEF Tick
    <2>2. CASE SetClock
      BY <2>2 DEF SetClock
    <2>3. ASSUME NEW ip \in Ips, NEW mac \in Macs, TakeOver(ip, mac) PROVE TypeOK'
      <3>1. owner' \in [Ips -> Macs]
        BY <2>3 DEF TakeOver
      <3>2. lastOwned' \in [Ips -> [Macs -> -1 .. MaxClock]]
        <4>1. clock \in -1 .. MaxClock /\ owner[ip] \in Macs
          BY DelayAssumption
        <4>2. [lastOwned[ip] EXCEPT ![owner[ip]] = clock] \in [Macs -> -1 .. MaxClock]
          BY <4>1
        <4>3. lastOwned' = [lastOwned EXCEPT
                               ![ip] = [lastOwned[ip] EXCEPT ![owner[ip]] = clock]]
          BY <2>3 DEF TakeOver
        <4> QED
          BY <4>2, <4>3
      <3> QED
        BY <2>3, <3>1, <3>2 DEF TakeOver
    <2>4. ASSUME NEW ip \in Ips, Announce(ip) PROVE TypeOK'
      BY <2>4 DEF Announce, Frames
    <2>5. ASSUME NEW f \in inFlight, Recv(f) PROVE TypeOK'
      <3>1. WallClock \in 0 .. MaxClock + MaxSkew
        BY DelayAssumption DEF WallClock
      <3>2. Entry(f.sender_mac, WallClock) \in Entries /\ f.sender_ip \in Ips
        BY <3>1 DEF Frames, Entry, Entries
      <3> QED
        BY <2>5, <3>2 DEF Recv, CacheResponse
    <2>6. ASSUME NEW f \in inFlight, Lose(f) PROVE TypeOK'
      BY <2>6 DEF Lose
    <2>7. ASSUME NEW ip \in Ips, LookupMisses(ip) PROVE TypeOK'
      BY <2>7 DEF LookupMisses, Request
    <2>8. CASE UNCHANGED vars
      BY <2>8 DEF vars
    <2> QED
      BY <2>1, <2>2, <2>3, <2>4, <2>5, <2>6, <2>7, <2>8 DEF Next
  <1> QED
    BY <1>1, <1>2, PTL DEF Spec

-----------------------------------------------------------------------------
(* How stale an address is.                                                *)

\* A frame in the network was sent by the host that owned its address, at most
\* MaxDelay seconds ago.
FramesAreFresh ==
  \A f \in inFlight :
      /\ f.op = "RESPONSE"
      /\ f.sent <= clock /\ clock <= f.sent + MaxDelay
      /\ OwnedSince(f.sender_ip, f.sender_mac, f.sent)

\* The host whose address an entry holds owned it when the frame was sent that
\* the entry was learnt from, and last_update is no later than the wall clock
\* can have been so far.
EntriesWereTrue ==
  \A ip \in DOMAIN cache :
      /\ cache[ip].last_update <= clock + MaxSkew
      /\ OwnedSince(ip, cache[ip].address, cache[ip].last_update - MaxSkew - MaxDelay)

StalenessInv == FramesAreFresh /\ EntriesWereTrue

\* To have owned an address since some time is to have owned it since any
\* earlier time.
LEMMA OwnedEarlier ==
  ASSUME TypeOK, NEW ip \in Ips, NEW mac \in Macs, NEW a \in Int, NEW b \in Int,
         b <= a, OwnedSince(ip, mac, a)
  PROVE  OwnedSince(ip, mac, b)
  <1>1. lastOwned[ip][mac] \in Int
    BY DelayAssumption DEF TypeOK
  <1> QED
    BY <1>1 DEF OwnedSince

\* A host that gives an address up owned it until now.
LEMMA TakeOverKeepsOwned ==
  ASSUME TypeOK, NEW ip \in Ips, NEW mac \in Macs, TakeOver(ip, mac),
         NEW i \in Ips, NEW m \in Macs, NEW time \in Int, time <= clock,
         OwnedSince(i, m, time)
  PROVE  OwnedSince(i, m, time)'
  <1>1. clock \in Nat /\ owner[ip] \in Macs
    BY DelayAssumption DEF TypeOK
  <1>2. CASE i = ip /\ m = owner[ip]
    <2>1. lastOwned'[i][m] = clock
      BY <1>1, <1>2 DEF TakeOver, TypeOK
    <2> QED
      BY <1>1, <2>1 DEF OwnedSince
  <1>3. CASE ~(i = ip /\ m = owner[ip])
    <2>1. lastOwned'[i][m] = lastOwned[i][m]
      BY <1>3 DEF TakeOver, TypeOK
    <2>2. owner[i] = m => owner'[i] = m
      BY <1>3 DEF TakeOver, TypeOK
    <2> QED
      BY <2>1, <2>2 DEF OwnedSince
  <1> QED
    BY <1>2, <1>3

\* What the network and the cache say about the owners of addresses was true
\* when it was said.
LEMMA StalenessInvariant == Spec => []StalenessInv
  <1>1. Init => StalenessInv
    BY DEF Init, ArpInit, StalenessInv, FramesAreFresh, EntriesWereTrue
  <1>2. TypeOK /\ TypeOK' /\ StalenessInv /\ [Next]_vars => StalenessInv'
    <2> SUFFICES ASSUME TypeOK, TypeOK', StalenessInv, [Next]_vars
                 PROVE  StalenessInv'
      OBVIOUS
    <2>1. /\ \A f \in inFlight : /\ f.sent \in Int /\ f.sender_ip \in Ips
                                 /\ f.sender_mac \in Macs
          /\ \A ip \in DOMAIN cache : /\ ip \in Ips
                                      /\ cache[ip].last_update \in Int
                                      /\ cache[ip].address \in Macs
          /\ clock \in Nat /\ skew \in Nat /\ skew <= MaxSkew
          /\ MaxSkew \in Nat /\ MaxDelay \in Nat
      BY DelayAssumption DEF TypeOK, Frames, Entries
    <2>2. ASSUME UNCHANGED <<owner, lastOwned>>
          PROVE  \A i, m, time : OwnedSince(i, m, time)' <=> OwnedSince(i, m, time)
      BY <2>2 DEF OwnedSince
    <2>3. CASE Tick
      <3>1. /\ UNCHANGED <<cache, owner, lastOwned, inFlight>> /\ clock' = clock + 1
            /\ \A f \in inFlight : clock < f.sent + MaxDelay
        BY <2>3 DEF Tick
      <3>2. FramesAreFresh'
        BY <2>1, <2>2, <3>1 DEF StalenessInv, FramesAreFresh
      <3>3. EntriesWereTrue'
        BY <2>1, <2>2, <3>1 DEF StalenessInv, EntriesWereTrue
      <3> QED
        BY <3>2, <3>3 DEF StalenessInv
    <2>4. ASSUME NEW ip \in Ips, NEW mac \in Macs, TakeOver(ip, mac)
          PROVE  StalenessInv'
      <3>1. UNCHANGED <<cache, clock, inFlight>>
        BY <2>4 DEF TakeOver
      <3>2. ASSUME NEW f \in inFlight
            PROVE  OwnedSince(f.sender_ip, f.sender_mac, f.sent)'
        BY <2>1, <2>4, TakeOverKeepsOwned DEF StalenessInv, FramesAreFresh
      <3>3. ASSUME NEW i \in DOMAIN cache
            PROVE  /\ cache[i].last_update <= clock + MaxSkew
                   /\ OwnedSince(i, cache[i].address,
                                 cache[i].last_update - MaxSkew - MaxDelay)'
        <4> DEFINE time == cache[i].last_update - MaxSkew - MaxDelay
        <4>1. /\ cache[i].last_update <= clock + MaxSkew
              /\ OwnedSince(i, cache[i].address, time)
          BY DEF StalenessInv, EntriesWereTrue
        <4>2. time \in Int /\ time <= clock
          BY <2>1, <4>1
        <4>3. time' = time
          BY <3>1
        <4> HIDE DEF time
        <4>4. ASSUME NEW b \in Int, b = time
              PROVE  OwnedSince(i, cache[i].address, b)'
          <5>1. \A m \in Macs : OwnedSince(i, m, b) => OwnedSince(i, m, b)'
            BY <2>1, <2>4, <4>2, <4>4, TakeOverKeepsOwned
          <5> QED
            BY <2>1, <3>1, <4>1, <4>4, <5>1 DEF OwnedSince
        <4> QED
          BY <3>1, <4>1, <4>2, <4>3, <4>4 DEF OwnedSince, time
      <3> QED
        BY <3>1, <3>2, <3>3 DEF StalenessInv, FramesAreFresh, EntriesWereTrue
    <2>5. ASSUME NEW ip \in Ips, Announce(ip) PROVE StalenessInv'
      <3>1. UNCHANGED <<cache, clock, owner, lastOwned>>
        BY <2>5 DEF Announce
      <3>2. ASSUME NEW f \in inFlight', f \notin inFlight
            PROVE  /\ f.op = "RESPONSE" /\ f.sender_ip = ip
                   /\ f.sender_mac = owner[ip] /\ f.sent = clock
        BY <2>5, <3>2 DEF Announce
      <3>3. FramesAreFresh'
        BY <2>1, <3>1, <3>2 DEF StalenessInv, FramesAreFresh, OwnedSince
      <3>4. EntriesWereTrue'
        BY <3>1 DEF StalenessInv, EntriesWereTrue, OwnedSince
      <3> QED
        BY <3>3, <3>4 DEF StalenessInv
    <2>6. ASSUME NEW f \in inFlight, Recv(f) PROVE StalenessInv'
      <3>1. /\ UNCHANGED <<clock, owner, lastOwned>> /\ inFlight' \subseteq inFlight
            /\ CacheResponse(f, WallClock)
        BY <2>6 DEF Recv
      <3>2. FramesAreFresh'
        BY <2>2, <3>1 DEF StalenessInv, FramesAreFresh
      <3>3. OwnedSince(f.sender_ip, f.sender_mac, WallClock - MaxSkew - MaxDelay)
        <4>1. /\ OwnedSince(f.sender_ip, f.sender_mac, f.sent)
              /\ clock <= f.sent + MaxDelay
          BY DEF StalenessInv, FramesAreFresh
        <4>2. WallClock - MaxSkew - MaxDelay <= f.sent /\ WallClock \in Int
          BY <2>1, <4>1 DEF WallClock
        <4> QED
          BY <2>1, <4>1, <4>2, OwnedEarlier
      <3>4. ASSUME NEW i \in DOMAIN cache'
            PROVE  \/ i = f.sender_ip /\ cache'[i].address = f.sender_mac
                                      /\ cache'[i].last_update = WallClock
                   \/ i \in DOMAIN cache /\ cache'[i] = cache[i]
        BY <3>1 DEF CacheResponse, Entry
      <3>5. EntriesWereTrue'
        BY <2>1, <2>2, <3>1, <3>3, <3>4
        DEF StalenessInv, EntriesWereTrue, WallClock
      <3> QED
        BY <3>2, <3>5 DEF StalenessInv
    <2>7. CASE \/ SetClock
               \/ \E f \in inFlight : Lose(f)
               \/ \E ip \in Ips : LookupMisses(ip)
               \/ UNCHANGED vars
      <3>1. UNCHANGED <<cache, clock, owner, lastOwned>> /\ inFlight' \subseteq inFlight
        BY <2>7 DEF SetClock, Lose, LookupMisses, vars
      <3> QED
        BY <2>2, <3>1 DEF StalenessInv, FramesAreFresh, EntriesWereTrue
    <2> QED
      BY <2>3, <2>4, <2>5, <2>6, <2>7 DEF Next
  <1> QED
    BY <1>1, <1>2, TypeCorrect, PTL DEF Spec

\* The address lookup returns belonged to the host it asks for at most Ttl
\* seconds ago, and as many more as frames are delayed and the wall clock may
\* have been set back.
THEOREM StalenessBounded == Spec => []BoundedStaleness
  <1>1. TypeOK /\ StalenessInv => BoundedStaleness
    <2> SUFFICES ASSUME TypeOK, StalenessInv, NEW ip \in Ips, Hit(ip, WallClock)
                 PROVE  OwnedSince(ip, cache[ip].address,
                                   clock - (Ttl + MaxDelay + MaxSkew))
      BY DEF BoundedStaleness
    <2>1. /\ ip \in DOMAIN cache
          /\ cache[ip].address \in Macs /\ cache[ip].last_update \in Int
          /\ clock \in Nat /\ skew \in Nat
          /\ MaxSkew \in Nat /\ MaxDelay \in Nat /\ Ttl \in Nat
      BY DelayAssumption, TtlAssumption DEF Hit, TypeOK, Entries
    <2>2. OwnedSince(ip, cache[ip].address, cache[ip].last_update - MaxSkew - MaxDelay)
      BY <2>1 DEF StalenessInv, EntriesWereTrue
    <2>3. clock <= cache[ip].last_update + Ttl
      BY <2>1 DEF Hit, WallClock
    <2>4. clock - (Ttl + MaxDelay + MaxSkew)
             <= cache[ip].last_update - MaxSkew - MaxDelay
      BY <2>1, <2>3
    <2> QED
      BY <2>1, <2>2, <2>4, OwnedEarlier
  <1> QED
    BY <1>1, TypeCorrect, StalenessInvariant, PTL
=============================================================================
