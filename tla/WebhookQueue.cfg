CONSTANTS
    image = image
    close = close
    late = late
    group = group
    Events <- MCEvents
    Sources <- OneGroup
    Source <- MCSource
    Stamp <- MCStamp
    Images <- MCImages
    Payloads <- MCPayloads
    Invocations = {i1, i2}
    NoOne = NoOne
    StaleAge = 3
    Lease = 2
    MaxDuration = 2
    Deadline = 2
    WebhookBudget = 1
    RecoverBudget = 1
    SurfaceLimit = 1
SPECIFICATION Spec
SYMMETRY Symmetry
INVARIANTS TypeOK NoOvertaking OwnedWhileLeased PayloadPrefix
PROPERTY Refines
CHECK_DEADLOCK FALSE
