SPECIFICATION Spec
CONSTANTS
    Workers = {w1, w2}
    NoWorker = none
    MaxPS = 2
    Budget <- SmallBudget
    StallPoints <- StallExceptPost
    LatePosts = FALSE
    ScopeAdmin = FALSE
    LegacyPS = 0
    MaxRequeues = 0
    BoundFaults = TRUE
    MaxFaults = 2
SYMMETRY WorkerSymmetry
INVARIANTS
    TypeOK
    AtMostOnePost
    OlderRetired
    NewerWaits
PROPERTIES
    OlderNeverLandsLater
    NoRepeatedInference
