SPECIFICATION FairSpec
CONSTANTS
    MaxUid = 3
    MaxEvicts = 2
    MaxFaults = 2
CHECK_DEADLOCK FALSE
PROPERTY DeletionCompletes
PROPERTY PodConverges
INVARIANT PodsUnderFinalizer
