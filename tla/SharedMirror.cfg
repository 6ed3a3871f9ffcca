SPECIFICATION Spec
CONSTANTS
    Slots = {s1, s2}
    Revisions = {r1, r2}
    None = none
    MaxRoots = 2
    MaxFaults = 0
    MaxCrashes = 0
INVARIANTS
    WorktreeStays
