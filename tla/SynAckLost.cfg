\* The first connection of a host of the subnet, whose MAC address DNet has
\* not asked for yet.
SPECIFICATION Spec
CONSTANTS
    inside = inside
    outside = outside
    own_net = own_net
    mac1 = mac1
    Tuples = {near}
    Ips = {inside, outside, own_net}
    Subnet = {inside, own_net}
    Network = own_net
    Macs = {mac1}
    OwnMac = own
    HostOf <- Hosts
    MacOf <- OneMac
    Ttl = 0
    MaxClock = 0
    SeqMod = 4
    BufferSize = 1
    Isn = {1}
    Iss = {2}
    MinPayload = 0
    StreamLen = 0
    Window = 0
    LossyReplies = FALSE
    MaxRestarts = 0
INVARIANT SynAckIsSent
