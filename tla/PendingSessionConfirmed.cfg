CONSTANTS
    w1 = w1
    w2 = w2
    N = 5
    Scripts <- Thrice
    Announced <- NoneAnnounced
    Workers = {w1}
    MaxFaults = 0
SPECIFICATION FairSpec
PROPERTIES ConfirmedEnds
CHECK_DEADLOCK FALSE
