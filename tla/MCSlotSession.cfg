SPECIFICATION FairSpec
CONSTANTS
    i1 = i1
    i2 = i2
    i3 = i3
    NoSlot = NoSlot
    Slots <- ThreeSlots
    AqmOn = TRUE
    MaxCalls = 3
INVARIANTS PendingAccounting
PROPERTIES ImplementsRpcSession SlotsComeBack SessionEnds
CHECK_DEADLOCK FALSE
