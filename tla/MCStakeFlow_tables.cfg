SPECIFICATION FairSpec
CONSTANTS
    Log <- Separate
    MaxBlock = 3
    BatchSize = 2
    OutOfOrder = FALSE
    MaxFaults = 2
INVARIANTS TypeOK RowsMatchHistory  RegistryMatches
CHECK_DEADLOCK FALSE
PROPERTY EventuallyReplayed
