SPECIFICATION FairSpec
CONSTANTS
    a1 = a1
    a2 = a2
    Agents <- TwoAgents
    Master = Master
    NumConns = 2
    MaxDeaths = 3
CHECK_DEADLOCK FALSE
INVARIANTS StartTogether ReportIsComplete
 
