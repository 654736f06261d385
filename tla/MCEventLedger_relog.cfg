SPECIFICATION IndexedSpec
CONSTANTS
    e1 = e1
    e2 = e2
    Events <- TwoLogs
    BlockOf <- SameBlock
    Contract <- TwoContracts
    On <- Reincluded
    MaxBlock = 2
    WalkDepth = 2
    MaxReorgs = 1
    MaxFaults = 0
    MaxCommit = 1
    MaxClock = 1
PROPERTY CanonicalLogsIndexed
