\* Two connections of one host of the subnet, which share an entry of the ARP
\* cache: handshakes and empty segments; the entry expires, and DNet restarts
\* once.
SPECIFICATION FairSpec
CONSTANTS
    inside = inside
    outside = outside
    own_net = own_net
    mac1 = mac1
    Tuples = {near, too}
    Ips = {inside, outside, own_net}
    Subnet = {inside, own_net}
    Network = own_net
    Macs = {mac1}
    OwnMac = own
    HostOf <- Hosts
    MacOf <- OneMac
    Ttl = 1
    MaxClock = 2
    SeqMod = 4
    BufferSize = 2
    Isn = {1}
    Iss = {2}
    MinPayload = 0
    StreamLen = 0
    Window = 0
    LossyReplies = FALSE
    MaxRestarts = 1
INVARIANT TypeOK
INVARIANT DroppedRepliesAreAskedFor
PROPERTY ImplementsSession
PROPERTY ReachablePeersConnect
