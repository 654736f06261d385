SPECIFICATION FairSpec
CONSTANTS
    e1 = e1
    e2 = e2
    e3 = e3
    Events <- MixedEvents
    Class <- MixedClass
    Seeds <- SeedEth
    Lookback = 1
    MaxPass = 1
    MaxCommit = 0
    MaxClock = 1
    FlushThreshold = 3
    MaxFaults = 1
INVARIANT AttemptHasOutcomeRow
PROPERTIES ValuationsImmutable EventuallyResolved
