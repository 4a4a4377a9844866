SPECIFICATION Spec
CONSTANTS
    m1 = m1  m2 = m2  w1 = w1  w2 = w2  f1 = f1  NoId = NoId
    Ids <- OneId
    Batch = 1
    Workers <- OneWorker
    Forwarders = {f1}
    MaxAttempts = 2
    HandleTimeout = 2
    RetrySecs <- Immediate
    Delays = {0}
    Results = {"ACK", "ERROR"}
    HasTTL = FALSE
    Mgmt = {}
    Faults = {}
    Timely = TRUE
    MaxFaults = 0
    MaxTime = 3
    MaxRuns = 4
INVARIANT AttemptsTotal
