SPECIFICATION Spec
CONSTANTS
    Workers = {w1, w2}
    NoWorker = none
    MaxPS = 1
    Budget <- VoteLimit
    Accounts = {a1, a2}
    NoAccount = noAccount
    StallPoints <- StallExceptPost
    LatePosts = FALSE
    MaxFaults = 2
SYMMETRY Symmetry
INVARIANTS
    TypeOK
    VoteOnce
    AppliedMeansVoted
    DoneIsSettled
    MergedSkipSentNothing
    VoteBudget
