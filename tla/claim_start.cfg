SPECIFICATION AnyUseSpec
CONSTANTS
    c1 = c1  c2 = c2  q1 = q1  q2 = q2  p1 = p1
    Callers = {c1, c2}
    Uses <- TwoOwners
    Queues = {q1, q2}
    Processes <- OneConsumer
    Rolling = {q1}
    Failing = {}
    MaxStarts = 3
INVARIANT StartsOnce
