SPECIFICATION Spec
CONSTANTS
    e1 = e1
    e2 = e2
    e3 = e3
    Events <- EthEvents
    Class <- EthClass
    Seeds = {}
    Lookback = 2
    MaxPass = 1
    MaxCommit = 1
    MaxClock = 4
    FlushThreshold = 2
    MaxFaults = 1
INVARIANTS NoSkippedWork IInv
SYMMETRY Symmetry
