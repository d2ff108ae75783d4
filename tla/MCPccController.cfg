SPECIFICATION Spec
CONSTANTS
    r1 = r1
    Requests <- OneRequest
    Word = 32
    SpccEpsilon = 2
    MaxStep = 1
    MaxWindow = 4
    Procs = 3
    MaxSess = 2
    MaxCount = 2
    LeaveChoices = {TRUE, FALSE}
    PerturbCp = TRUE
    StrictChoices = {TRUE, FALSE}
INVARIANTS ExperimentPhases DecisionFromBase PlusAboveMinus
