SPECIFICATION Spec
CONSTANTS
    m1 = m1  m2 = m2  m3 = m3
    Messages = {m1, m2, m3}
    MaxFaults = 2
    Concurrent = 1
    AutoRestart = TRUE
    MaxMessages = 2
    PopRetryBackoff = 1
    PopRetryMaxBackoff = 3
    ErrorRetryBackoff = 0
    ErrorRetryMaxBackoff = 3
INVARIANTS Drained OneAhead TakesMaxMessages BackoffDoubles ForwarderStays
PROPERTIES ConsumerReturns ForwarderReturns DelayedTaken
CHECK_DEADLOCK FALSE
