SPECIFICATION LeaseSpec
CONSTANTS
    Procs = {p1, p2}
    Free = Free
    Absent = Absent
    Lease = 5
    Renew = 2
    Retry = 1
    MaxDelay = 1
    MaxFaults = 1
INVARIANT OneProtectedLoop
