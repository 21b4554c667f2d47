CONSTANTS
    open = open
    open2 = open2
    image = image
    image2 = image2
    close = close
    cancel = cancel
    None = None
    Depth = 5
    Images <- PairImages
    Opens <- OneOpen
    Closes <- OneClose
    Cancels = {}
    Stamp <- PairStamp
    Receipts <- PairReceipts
    MaxAttempts = 1
    MaxBatches = 1
SPECIFICATION Spec
INVARIANTS TypeOK CompletedIsWhole NoSessionMeansNone
PROPERTIES TotalsAreSettled
CHECK_DEADLOCK FALSE
