SPECIFICATION FairSpec
CONSTANTS
    i1 = i1
    i2 = i2
    i3 = i3
    NoSlot = NoSlot
    Slots <- TwoSlots
    MaxWindow = 2
    Procs = 2
    CrpcQlen = 2
    MaxDelay = TRUE
    UnusedChoices <- AnyUnused
    NumSessChoices <- FewOrMany
    AQM = TRUE
    MaxUsedShare = 1
PROPERTIES  ExpiredAreDropped CloseCompletes
CHECK_DEADLOCK FALSE
