SPECIFICATION FairSpec
CONSTANTS
    a1 = a1
    a2 = a2
    a3 = a3
    b1 = b1
    a = a
    b = b
    None = none
    Changes = {a1, a2, a3, b1}
    Projects = {a, b}
    ProjectOf <- OfProject
    Cutoff <- StartOfReview
    Ms = 2
    Second = 2
    PageSize = 1
    MaxExcluded = 1
    Start = 3
    MaxUpdates = 1
INVARIANTS
    NothingMissed
    RefusedOnlyWhenCrowded
PROPERTIES
    PagesAdvance
    QueryEnds
CHECK_DEADLOCK FALSE
