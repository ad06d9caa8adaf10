SPECIFICATION Spec
CONSTANTS
    r1 = r1
    r2 = r2
    m1 = m1
    m2 = m2
    Receivers = {r1, r2}
    Messages = {m1, m2}
    Undecodable = {m2}
    Prefetch = 2
    MaxRetries = 1
    NoMessage = NoMessage
INVARIANTS SettledOnce StopGivesBack
PROPERTIES ImplementsWorkQueue CommittedIsAcked StopReturns EveryMessageEnds
CHECK_DEADLOCK FALSE
