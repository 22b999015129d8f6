SPECIFICATION FairSpec
CONSTANTS
    Keys = {k1, k2}
    Workers = {0, 1}
    Chronic = {1}
    MissIsError = TRUE
    MaxRetries = 2
    MaxChanges = 3
CHECK_DEADLOCK FALSE
PROPERTY AddInProcessingIgnored
