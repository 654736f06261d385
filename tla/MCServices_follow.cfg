SPECIFICATION MCSpec
CONSTANTS
    Log <- MCLog
    None = "null"
    MaxFaults = 1
    Runners = {"daemon", "cli"}
    FlowLimit = 2
    ClaimantLimit = 1
    BalanceLimit = 1
    ReceiptLimit = 3
    Fanout = 2
    ProfileLimit = 4
    Delegators <- MCDelegators
    Blocks <- MCBlocks
    Bonded <- MCBonded
    Estimate <- MCEstimate
    RoundOf <- MCRoundOf
    FlowBatch = 2
    StaleRetries = 1
    Chunk = 1
    Orchs = {"o1"}
    Gateways = {"g1", "g2", "g3"}
    AddressOrder <- MCAddressOrder
    Names = {"n1", "n2"}
    KnownExts = {"png", "jpg"}
    Images = {"png", "jpg", "html"}
    Broken = {"g1"}
    L1Start <- MCStart
    L1Changes <- MCChanges
    MaxHead = 3
    WatchChunk = 1
    SweepLimit = 2
INVARIANTS
    ServicesTypeOK
    
    BalanceTriggerIsLastTouch
    
    ReconciledRowsAreExact
    EnsRowsHold
PROPERTIES
    
    NoUnreadRound
