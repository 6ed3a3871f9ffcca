SPECIFICATION Spec
CONSTANTS
    Workers = {w1}
    NoWorker = none
    MaxPS = 2
    Budget <- SmallBudget
    StallPoints <- StallAnywhere
    LatePosts = TRUE
    ScopeAdmin = TRUE
    LegacyPS = 1
    MaxRequeues = 1
    BoundFaults = TRUE
    MaxFaults = 1
INVARIANTS
    IntentPinsPublishPhase
    DoneMeansPosted
    ResumeIsPossible
PROPERTIES
    LegalTransitions
