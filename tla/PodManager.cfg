SPECIFICATION LiveSpec
CONSTANTS
    MaxReplicas = 2
    MaxUid = 2
    MaxEvictions = 1
    MaxFaults = 1
    ShrinkAllowed = TRUE
    SeedTypes <- OneSeed
CHECK_DEADLOCK FALSE
INVARIANT FinalizerBeforePods
INVARIANT NoOrphanCreate
INVARIANT OnlyOwnPodsDeleted
INVARIANT NoSurplus
PROPERTY NoLostUserWrite
PROPERTY StatusConverges
PROPERTY CleanupCompletes
PROPERTY ReplicasConverge
