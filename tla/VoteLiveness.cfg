SPECIFICATION FairSpec
CONSTANTS
    Workers = {w1}
    NoWorker = none
    MaxPS = 1
    Budget <- VoteLimit
    Accounts = {a1, a2}
    NoAccount = noAccount
    StallPoints <- StallAnywhere
    LatePosts = TRUE
    MaxFaults = 1
PROPERTIES
    ImplementsVotePhase
    EveryVoteEnds
