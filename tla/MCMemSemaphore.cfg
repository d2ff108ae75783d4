SPECIFICATION FairSpec
CONSTANTS
    g1 = g1
    g2 = g2
    g3 = g3
    g4 = g4
    w1 = w1
    w2 = w2
    w3 = w3
    w4 = w4
    NoWaiter = NoWaiter
    Goroutines <- FourGoroutines
    TryCallers <- TwoGoroutines
    Waiters <- FourWaiters
    MaxCap = 3
    Impls = {"eg", "ts"}
INVARIANTS SlotAccounting WaiterDiscipline NoStrandedWaiters
PROPERTIES ImplementsAdaptiveSemaphore WaitIsGranted
