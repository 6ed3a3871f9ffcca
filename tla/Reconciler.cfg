SPECIFICATION FairSpec
CONSTANTS
    Changes = {c1}
    Never = never
    NoScope = noScope
    Overlap = 1
    SweepEvery = 2
    MaxOutage = 2
    MaxUpdates = 1
    MaxEdits = 1
    MaxFailures = 1
INVARIANTS
    TypeOK
    WithinReach
PROPERTIES
    EveryMissingFound
