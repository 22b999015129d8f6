SPECIFICATION FairSpec
CONSTANTS
    Procs = {p1, p2}
    Free = Free
    Absent = Absent
    Lease = 5
    Renew = 2
    Retry = 1
    MaxDelay = 1
    MaxFaults = 3
PROPERTY LeaderEmerges
PROPERTY KeepsPromises
INVARIANT LeaderHoldsLock
