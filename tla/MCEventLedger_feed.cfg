SPECIFICATION FairSpec
CONSTANTS
    e1 = e1
    e2 = e2
    Events <- TwoLogs
    BlockOf <- TwoBlocks
    Contract <- OneContract
    On <- LosesSecond
    MaxBlock = 2
    WalkDepth = 2
    MaxReorgs = 1
    MaxFaults = 1
    MaxCommit = 1
    MaxClock = 2
INVARIANTS WithdrawalsAudited ReplayFinalizesAll
PROPERTIES ImplementsFeed EventuallyFinalized
