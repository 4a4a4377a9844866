SPECIFICATION WorkerSpec
CONSTANTS
    c1 = c1  c2 = c2  c3 = c3
    Callers = {c1, c2, c3}
    MaxRuns = 2
INVARIANTS NoCrash OneRunner FailureTold
PROPERTY StopReturns
