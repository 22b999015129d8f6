SPECIFICATION FairSpec
CONSTANTS
    Half = 8
    Operands <- Edges
    MaxWrites = 2
    MaxFaults = 1
CHECK_DEADLOCK FALSE
INVARIANT TypeOK
PROPERTY ResultOfItsSpec
PROPERTY StatusConverges
