SPECIFICATION FairSpec
CONSTANTS
    Workers = {w1, w2}
    NoWorker = none
    Lines = {1, 2, 3}
    Diff <- TwoChunks
    Prior = {3}
    BatchSize = 2
    MaxCalls = 4
    CallReserve = 1
    MaxTools = 1
    ToolReserve = 1
    MaxRounds = 1
    MaxChunks = 2
    MaxFrozen = 1
    MaxFindings = 1
    ToolBatch = 2
    MaxAttempts = 2
INVARIANTS
    TypeOK
    FinalSlotKept
    ReserveKept
    NothingUnaccounted
    AcceptedFindingsKept
    CompleteIsTrue
PROPERTIES
    AttemptEnds
    RowOnlyGrows
