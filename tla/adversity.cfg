SPECIFICATION Spec
CONSTANTS
    m1 = m1  m2 = m2  w1 = w1  w2 = w2  f1 = f1  NoId = NoId
    Ids <- OneId
    Batch = 1
    Workers <- TwoWorkers
    Forwarders = {f1}
    MaxAttempts = 1
    HandleTimeout = 1
    RetrySecs <- Immediate
    Delays = {1}
    Results = {"ACK", "PANIC"}
    HasTTL = TRUE
    Mgmt = {"cancel", "retry", "reload", "flush"}
    Faults = {"crash", "hookpanic", "fwderror", "resend"}
    Timely = FALSE
    MaxFaults = 1
    MaxTime = 1
    MaxRuns = 0
SYMMETRY Symmetric
CONSTRAINT FewCopies
INVARIANTS TypeOK NoSilentLoss
PROPERTIES ExpiryKept SettledIsFinal
