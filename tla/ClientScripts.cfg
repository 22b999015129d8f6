SPECIFICATION FairSpec
CONSTANTS
    Procs = {p1, p2}
    Steps = 3
    MaxWrites = 4
    MaxFaults = 1
CHECK_DEADLOCK FALSE
INVARIANT OwnObjectOnly
INVARIANT RetriesSuffice
PROPERTY OthersPreserved
PROPERTY CleansUp
