SPECIFICATION FairSpec
CONSTANTS
    Registered <- MCRegistered
    UpperCase <- MCUpperCase
    Requests <- MCRequests
    Outside = {"c1"}
    Damaged <- MCDamaged
    MinData = 2
    MaxFrames = 2
    MaxExpiries = 1
INVARIANT EchoesAreRight
INVARIANT DnsAnswersAreRight
PROPERTY EventuallyAnswered
