SPECIFICATION Spec
CONSTANTS
    Workers = {w1, w2}
    NoWorker = none
    MaxPS = 1
    Budget <- SmallBudget
    StallPoints <- StallExceptPost
    LatePosts = FALSE
    ScopeAdmin = FALSE
    LegacyPS = 0
    MaxRequeues = 1
    BoundFaults = FALSE
    MaxFaults = 0
SYMMETRY WorkerSymmetry
INVARIANTS
    PendingMeansNotPosted
