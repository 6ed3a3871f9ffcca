SPECIFICATION Spec
CONSTANTS
    Workers = {w1, w2}
    NoWorker = none
    MaxPS = 1
    Budget <- SmallBudget
    StallPoints <- StallAnywhere
    LatePosts = FALSE
    ScopeAdmin = FALSE
    LegacyPS = 0
    MaxRequeues = 0
    BoundFaults = FALSE
    MaxFaults = 0
SYMMETRY WorkerSymmetry
INVARIANTS
    AtMostOnePost
