SPECIFICATION FairSpec
CONSTANTS
    m1 = m1  m2 = m2  w1 = w1  w2 = w2  f1 = f1  NoId = NoId
    Ids <- TwoIds
    Batch = 1
    Workers <- TwoWorkers
    Forwarders = {f1}
    MaxAttempts = 1
    HandleTimeout = 1
    RetrySecs <- TwoSeconds
    Delays = {0}
    Results = {"ACK", "RETRY"}
    HasTTL = FALSE
    Mgmt = {}
    Faults = {"crash", "fwderror"}
    Timely = TRUE
    MaxFaults = 1
    MaxTime = 7
    MaxRuns = 3
INVARIANTS RunsBounded
PROPERTIES EventuallySettled DelayEnds LeaseEnds
