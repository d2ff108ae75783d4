SPECIFICATION FairSpec
CONSTANTS
    k1 = k1
    k2 = k2
    c1 = c1
    Socks <- TwoSocks
    Callers <- OneCaller
    Readers = {1, 2}
    MaxInit = 2
    MaxTime = 3
    MaxStamps = 1
CHECK_DEADLOCK FALSE
INVARIANTS NoReadAfterTearDown StampOfUnread
PROPERTIES  NoTimeChargedTwice DeInitReturns
