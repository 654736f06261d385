SPECIFICATION Spec
CONSTANTS
    Log <- SelfBonded
    MaxBlock = 3
    BatchSize = 1
    OutOfOrder = FALSE
    MaxFaults = 0
INVARIANT RowsMatchHistory
CHECK_DEADLOCK FALSE
