SPECIFICATION FairSpec
CONSTANTS
    Workers = {w1}
    NoWorker = none
    MaxPS = 2
    Budget <- SmallBudget
    StallPoints <- StallAnywhere
    LatePosts = FALSE
    ScopeAdmin = FALSE
    LegacyPS = 0
    MaxRequeues = 1
    BoundFaults = TRUE
    MaxFaults = 2
INVARIANTS
    NoLostSideEffect
    PendingMeansNotPosted
PROPERTIES
    EveryJobEnds
