CONSTANTS
    summary = summary
    old = old
    w1 = w1
    w2 = w2
    production = production
    Production = production
    NoEnvironment = NoEnvironment
    NoClaim = NoClaim
    Workers <- TwoWorkers
    Notices <- OneNotice
    Home <- OneHome
    Env <- OneEnv
    ClaimLimit = 1
    MaxCycle = 2
    MaxAttempts = 5
    MaxResends = 2
    MaxFaults = 2
    LateWorkers = TRUE
    KeysExpire = FALSE
SPECIFICATION Spec
INVARIANTS TypeOK SentIsTrue OneCopyPerRequest LogMatchesRow
PROPERTY Refines
SYMMETRY Symmetry
CHECK_DEADLOCK FALSE
