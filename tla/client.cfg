SPECIFICATION Spec
CONSTANTS
    c1 = c1
    c2 = c2
    Callers = {c1, c2}
    Async = {c1}
    Size = 2
    MaxRetries = 1
    Capacity = 1
INVARIANTS SuccessIsStored StoredOnce SilentIsUnsent
PROPERTY CallEnds
CHECK_DEADLOCK FALSE
