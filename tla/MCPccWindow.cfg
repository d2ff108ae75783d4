SPECIFICATION Spec
CONSTANTS
    i1 = i1
    i2 = i2
    i3 = i3
    NoSlot = NoSlot
    Slots <- ThreeSlots
    MaxWindow = 3
    Procs = 2
    CrpcQlen = 2
    MaxDelay = FALSE
    UnusedChoices <- ShortOrPlenty
    NumSessChoices <- FewOrMany
    AQM = TRUE
    MaxUsedShare = 0
SYMMETRY SlotSymmetry
INVARIANTS TypeOK CreditConservation SlotForEveryCall PendingAccounting CreditNotUndercounted
PROPERTY ImplementsRpcSession
CHECK_DEADLOCK FALSE
