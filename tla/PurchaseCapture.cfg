CONSTANTS
    h = h
    c = c
    i1 = i1
    z1 = z1
    p1 = p1
    f1 = f1
    w1 = w1
    Header = h
    Close = c
    Before = {i1}
    After = {z1}
    Document = {h, i1, c}
    Identities = {p1}
    Unresolved = Unresolved
    Finalizers = {Sweep, f1}
    Runners = {Sweep, w1}
    Sweep = Sweep
    MaxOverlap = 1
    MaxRechecks = 1
    MaxFaults = 1
    Nobody = Nobody
SPECIFICATION FairSpec
INVARIANTS TypeOK PostedAsPreviewed
PROPERTIES ClosingEnds ConfirmedIsAnnounced Refines
CHECK_DEADLOCK FALSE
