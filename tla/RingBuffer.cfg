\* Four slots, so that both indices wrap, and blocks that fill the buffer and
\* that exceed it by one and by two bytes.
SPECIFICATION RingSpec
CONSTANTS
    BufferSize = 4
    Octets = {1, 2}
    MaxCall = 5
INVARIANT RingTypeOK
INVARIANT LoopsArePutsAndGets
PROPERTY ImplementsFifo
