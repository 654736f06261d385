SPECIFICATION MCSpec
CONSTANTS
    Callers <- MCCallers
    Ask <- MCAsk
    Kinds <- MCKinds
    Task <- MCTask
    TaskLimit <- MCTaskLimit
    GlobalLimit = 1
    Lagging = {"receipt"}
    Disputed = {"price"}
    MaxRpcFaults = 1
    NoTask = "none"
    NoKey = "no key"
    Tasks <- MCTasks
    Period <- MCPeriod
    Threshold <- MCThreshold
    MaxConsecutive = 1
    MaxBackoff = 2
    Grace = 2
    MaxLag = 2
    ProbeRestarts = TRUE
    MaxDeaths = 4
    Rows = {1, 2, 3}
    Place <- MCPlace
    Values = {0, 1, 2}
    Valuations = {1, 2, 3, 4, 5, 6, 7, 8, 9}
    EventOf <- MCEventOf
    Limit = 2
    MaxWrites = 2
    TopBlock = 2
    Touched <- MCTouched
    Requests = {r1}
    Staker = staker
    LatestTag = latest
    MaxReorgs = 1
    None = None
INVARIANTS
    ServingTypeOK
    AnswersMatchRequests
    ReplaySeesLiveBytes
    EscalatesOnlyBarren
    SoundIsHealthy
    PagesAreExact
    AnswersNotAhead
    ExactUnlessReadEarly
PROPERTIES
    EachPartSettles
CHECK_DEADLOCK FALSE
