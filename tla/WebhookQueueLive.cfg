CONSTANTS
    image = image
    close = close
    late = late
    group = group
    Events <- PairEvents
    Sources <- OneGroup
    Source <- PairSource
    Stamp <- PairStamp
    Images = {}
    Payloads <- PairPayloads
    Invocations = {i1, i2}
    NoOne = NoOne
    StaleAge = 3
    Lease = 2
    MaxDuration = 1
    Deadline = 1
    WebhookBudget = 1
    RecoverBudget = 1
    SurfaceLimit = 1
SPECIFICATION FairSpec
INVARIANT ExclusiveWork
PROPERTIES EventuallySettled StaleIsSurfaced
CHECK_DEADLOCK FALSE
