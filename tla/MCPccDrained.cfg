SPECIFICATION FairDrainedSpec
CONSTANTS
    s1 = s1
    s2 = s2
    s3 = s3
    Clients <- ThreeSessions
    MaxProcs = 2
 
PROPERTIES SearchIsComplete 
