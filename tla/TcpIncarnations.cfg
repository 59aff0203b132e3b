\* Two incarnations of one peer, whose numbers share the sequence space, and
\* one restart of DNet; the buffer holds a whole stream.
SPECIFICATION FairSpec
CONSTANTS
    Tuples = {t1}
    SeqMod = 8
    BufferSize = 4
    Iss = {3, 7}
    MinPayload = 0
    IsnOf <- MCIsnOf
    IssOf <- MCIssOf
    StreamLen = 2
    MaxRestarts = 1
CHECK_DEADLOCK FALSE
INVARIANT OneStream
INVARIANT NotTheOldConnection
INVARIANT EstablishedWasAgreed
PROPERTY EventuallyAllAcked
