\* A stream as long as the buffer's declared capacity, one connection and no
\* restart.
SPECIFICATION Spec
CONSTANTS
    Tuples = {t1}
    SeqMod = 8
    BufferSize = 3
    Isn = {6}
    Iss = {3}
    MinPayload = 0
    StreamLen = 3
    Window = 2
    LossyReplies = TRUE
    MaxRestarts = 0
    MaxToServer = 3
    MaxToPeer = 2
CONSTRAINT FewInFlight
INVARIANT AckedIsHeld
