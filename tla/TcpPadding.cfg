\* A link whose frames have room for one octet behind the headers of an empty
\* segment.
SPECIFICATION Spec
CONSTANTS
    Tuples = {t1}
    SeqMod = 8
    BufferSize = 4
    Isn = {6}
    Iss = {3}
    MinPayload = 1
    StreamLen = 2
    Window = 1
    LossyReplies = TRUE
    MaxRestarts = 0
    MaxToServer = 3
    MaxToPeer = 2
CONSTRAINT FewInFlight
INVARIANT ReceivedIsPrefix
