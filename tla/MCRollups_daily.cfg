SPECIFICATION FairSpec
CONSTANTS
    SourceRows <- Tickets
    BlockOf <- TicketBlock
    DayOf <- BlockDay
    BatchLimit = 2
    InOrder = TRUE
    MaxFaults = 1
    MaxWithdrawn = 2
    MaxMutations = 1
INVARIANTS  WithdrawnRemoved ExactWhenUndisturbed 
PROPERTY CatchesUp
