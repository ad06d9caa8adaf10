SPECIFICATION Spec
CONSTANTS
    g1 = g1
    g2 = g2
    k1 = k1
    k2 = k2
    Callers = {g1}
    Closers = {k1}
    QueueCap = 1
    SemCap = 1
    MaxEvents = 1
    NilEvents = {1}
INVARIANTS AnyPayload
CHECK_DEADLOCK FALSE
