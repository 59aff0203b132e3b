\* Addresses of three bits; a good command line, a network with a host bit, a
\* mask with a hole, a malformed argument and a missing one.  Three frames, the
\* first of them refused and the second one too short; two failing reads.
SPECIFICATION FairSpec
CONSTANTS
    Width = 3
    Arguments <- MCArguments
    Refused = {1}
    Unchecked = {2}
    MaxFrames = 3
    MaxErrors = 2
CHECK_DEADLOCK FALSE
INVARIANT StackIsWhole
INVARIANT SubnetIsRouted
INVARIANT SocketsAreClosed
INVARIANT FrameCostsItself
PROPERTY EveryFrameIsHandled
