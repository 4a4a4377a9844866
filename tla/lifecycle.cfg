SPECIFICATION Spec
CONSTANTS
    m1 = m1  m2 = m2  w1 = w1  w2 = w2  f1 = f1  NoId = NoId
    Ids <- TwoIds
    Batch = 2
    Workers <- TwoWorkers
    Forwarders = {f1}
    MaxAttempts = 2
    HandleTimeout = 2
    RetrySecs <- Mixed
    Delays = {0, 2}
    Results = {"ACK", "DROP", "REQUEUE", "ERROR"}
    HasTTL = FALSE
    Mgmt = {"cancel", "reload"}
    Faults = {"crash"}
    Timely = TRUE
    MaxFaults = 1
    MaxTime = 2
    MaxRuns = 0
SYMMETRY Symmetric
INVARIANTS Exclusive StatusTellsPosition
PROPERTIES FollowsLifecycle
