CONSTANTS
    open = open
    open2 = open2
    image = image
    image2 = image2
    close = close
    cancel = cancel
    None = None
    Depth = 5
    Images <- OneImage
    Opens <- OneOpen
    Closes <- OneClose
    Cancels <- OneCancel
    Stamp <- CancelStamp
    Receipts <- CancelReceipts
    MaxAttempts = 2
    MaxBatches = 1
SPECIFICATION FairSpec
PROPERTIES Refines FateIsFixed AttemptsEnd ClosingEnds
CHECK_DEADLOCK FALSE
