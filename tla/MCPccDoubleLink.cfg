SPECIFICATION Spec
CONSTANTS
    i1 = i1
    i2 = i2
    i3 = i3
    NoSlot = NoSlot
    Slots <- ThreeSlots
    MaxWindow = 3
    Procs = 2
    CrpcQlen = 2
    MaxDelay = FALSE
    UnusedChoices <- ShortOrPlenty
    NumSessChoices <- FewOrMany
    AQM = TRUE
    MaxUsedShare = 1
SYMMETRY SlotSymmetry
INVARIANT NumDrainedExact
CHECK_DEADLOCK FALSE
