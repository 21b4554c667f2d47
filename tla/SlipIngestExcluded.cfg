CONSTANTS
    open = open
    open2 = open2
    image = image
    image2 = image2
    close = close
    cancel = cancel
    None = None
    Depth = 5
    Images <- OneImage
    Opens <- TwoOpens
    Closes <- OneClose
    Cancels = {}
    Stamp <- TwoStamp
    Receipts <- TwoReceipts
    MaxAttempts = 1
    MaxBatches = 2
SPECIFICATION Spec
INVARIANTS ExcludedHasNoSession
CHECK_DEADLOCK FALSE
