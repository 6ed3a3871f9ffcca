SPECIFICATION FairSpec
CONSTANTS
    Slots = {s1, s2}
    Revisions = {r1, r2}
    None = none
    MaxRoots = 3
    MaxFaults = 2
    MaxCrashes = 1
INVARIANTS
    TypeOK
    OnlyRebuildTakesAway
    NoDirectoryLeaks
PROPERTIES
    EveryCallEnds
