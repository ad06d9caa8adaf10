SPECIFICATION Spec
CONSTANTS
    g1 = g1
    g2 = g2
    k1 = k1
    k2 = k2
    Callers = {g1, g2}
    Closers = {k1, k2}
    QueueCap = 1
    SemCap = 1
    MaxEvents = 4
    NilEvents = {}
INVARIANTS NoPanic SentOnce CloseDrains
PROPERTIES PublishReturns CloseReturns
CHECK_DEADLOCK FALSE
