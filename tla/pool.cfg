SPECIFICATION Spec
CONSTANTS
    w1 = w1
    w2 = w2
    p1 = p1
    p2 = p2
    Workers = {w1, w2}
    Publishers = {p1}
    ChanCap = 1
    QueueSize = 1
    MaxRetries = 1
    MaxEvents = 3
INVARIANTS OnePlace AttemptsBounded
PROPERTIES NeverLost QuietAfterUnsubscribe StopReleases QueuedIsSettled ImplementsPubSub
CHECK_DEADLOCK FALSE
