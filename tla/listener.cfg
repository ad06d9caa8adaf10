SPECIFICATION Spec
CONSTANTS
    r1 = r1
    r2 = r2
    m1 = m1
    m2 = m2
    Receivers = {r1, r2}
    Messages = {m1, m2}
    Undecodable = {m2}
    Prefetch = 1
    Fleets <- Pairs
    NoMessage = NoMessage
PROPERTIES ImplementsWorkQueue StopReturns EveryMessageDelivered
CHECK_DEADLOCK FALSE
