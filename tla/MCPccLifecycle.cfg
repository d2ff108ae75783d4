SPECIFICATION Spec
CONSTANTS
    s1 = s1
    s2 = s2
    Sessions <- TwoSessions
    MaxWindow = 3
    Procs = 2
    Word = 32
    SpccEpsilon = 2
    MaxStep = 2
    MaxDemand = 1
    Algos = {"pcc", "breakwater", "protego"}
SYMMETRY SessionSymmetry
INVARIANTS ServingCounted AsNewWhenIdle OverloadNeverRaises
 
