SPECIFICATION Spec
CONSTANTS
    m1 = m1  m2 = m2  w1 = w1  w2 = w2  f1 = f1  NoId = NoId
    Ids <- OneId
    Batch = 1
    Workers <- OneWorker
    Forwarders = {f1}
    MaxAttempts = 1
    HandleTimeout = 1
    RetrySecs <- Immediate
    Delays = {0}
    Results = {"ACK"}
    HasTTL = FALSE
    Mgmt = {}
    Faults = {}
    Timely = FALSE
    MaxFaults = 0
    MaxTime = 2
    MaxRuns = 0
INVARIANT TimeoutHasItsStatus
