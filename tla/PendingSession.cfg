CONSTANTS
    w1 = w1
    w2 = w2
    N = 4
    Scripts <- Short
    Announced <- OneAnnounced
    Workers = {w1, w2}
    MaxFaults = 1
SPECIFICATION FairSpec
INVARIANTS TypeOK NoItemForgotten ParkedForReview
PROPERTIES NothingWaitingBehind ClosedEnds Refines
CHECK_DEADLOCK FALSE
