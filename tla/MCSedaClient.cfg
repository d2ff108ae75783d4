SPECIFICATION FairSpec
CONSTANTS
    NConns = 1
    CrpcQlen = 2
    Word = 4
    MaxToken = 2
    SedaNReq = 2
    MaxUnanswered = 2
INVARIANTS QueueWithinRing NoSleepOnWork
PROPERTIES ExpiredLeave CloseCompletes
CHECK_DEADLOCK FALSE
