CONSTANTS
    i1 = i1
    f1 = f1
    f2 = f2
    Images = {i1}
    Finalizers = {f1, f2}
    Admins = {f2}
    MaxClaims = 2
    MaxFaults = 1
    StaleAge = 2
    MaxDuration = 1
    NoMessage = NoMessage
SPECIFICATION FairSpec
INVARIANTS TypeOK OneSummary AnnouncedStands StoredIsShown ResultOfNewestClaim
PROPERTIES SummaryEnds Refines
CHECK_DEADLOCK FALSE
