SPECIFICATION FairSpec
CONSTANTS
    MaxBlock = 3
    HeadDepth = 1
    PerTick = 3
    DefaultBatch = 2
    MaxBatch = 3
    MinBatch = 1
    MaxRetries = 3
    CliFrom <- FromGenesis
    MaxFaults = 2
INVARIANTS CheckpointCovers NothingBeyondCheckpoint ChunkWithinCap
PROPERTY CatchesUp
