SPECIFICATION Spec
CONSTANTS
    SourceRows <- Tickets
    BlockOf <- TicketBlock
    DayOf <- BlockDay
    BatchLimit = 2
    InOrder = TRUE
    MaxFaults = 1
    MaxWithdrawn = 0
    MaxMutations = 0
INVARIANT NothingTwice
