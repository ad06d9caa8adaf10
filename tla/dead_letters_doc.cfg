SPECIFICATION DeadLettersSpec
CONSTANTS
    r1 = r1
    m1 = m1
    Receivers = {r1}
    Messages = {m1}
    Undecodable = {}
    Prefetch = 1
    MaxRetries = 1
    NoMessage = NoMessage
INVARIANT RejectedIsParked
CHECK_DEADLOCK FALSE
