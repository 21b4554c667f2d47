CONSTANTS
    summary = summary
    old = old
    w1 = w1
    w2 = w2
    production = production
    Production = production
    NoEnvironment = NoEnvironment
    NoClaim = NoClaim
    Workers <- TwoWorkers
    Notices <- TwoNotices
    Home <- TwoHomes
    Env <- OneEnv
    ClaimLimit = 2
    MaxCycle = 2
    MaxAttempts = 3
    MaxResends = 0
    MaxFaults = 1
    LateWorkers = FALSE
    KeysExpire = TRUE
SPECIFICATION FairSpec
PROPERTY EventuallySettled
CHECK_DEADLOCK FALSE
