\* One address that two hosts hand to each other while its entry expires
\* twice over.
SPECIFICATION Spec
CONSTANTS
    Ips = {i1}
    Subnet = {i1}
    Network = i1
    Macs = {m1, m2}
    OwnMac = own
    Ttl = 2
    MaxDelay = 2
    MaxSkew = 1
    MaxClock = 8
INVARIANT TypeOK
INVARIANT BoundedStaleness
