\* One connection whose sequence numbers wrap, a buffer one byte smaller than
\* the stream, and one restart of DNet.
SPECIFICATION Spec
CONSTANTS
    Tuples = {t1}
    SeqMod = 8
    BufferSize = 4
    Isn = {6}
    Iss = {3, 7}
    MinPayload = 0
    StreamLen = 4
    Window = 2
    LossyReplies = TRUE
    MaxRestarts = 1
    MaxToServer = 3
    MaxToPeer = 2
CONSTRAINT FewInFlight
INVARIANT TypeOK
INVARIANT ReceivedIsPrefix
INVARIANT AckNeverBeyondSent
INVARIANT NoFalseEstablishment
INVARIANT PeerIsConnected
INVARIANT AckedIsHeldUntilFull
INVARIANT SessionInv
INVARIANT ConnectionInv
PROPERTY NeverUnreceives
