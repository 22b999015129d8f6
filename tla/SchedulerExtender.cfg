SPECIFICATION FairSpec
CONSTANTS
    Pods = {u, a, b}
    Nodes = {n1, n2}
    Urgent = {u}
    NoNode = NoNode
    MaxFaults = 2
CHECK_DEADLOCK FALSE
INVARIANT NoOvercommit
INVARIANT BelievedIsBound
PROPERTY Neutral
PROPERTY Scheduled
