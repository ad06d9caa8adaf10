SPECIFICATION Spec
CONSTANTS
    k1 = k1
    k2 = k2
    main = main
    user = user
    d1 = d1
    d2 = d2
    Configs = {k1, k2}
    Starters = {main, user}
    Main = main
    Closers = {d1, d2}
    None = None
INVARIANTS ShutdownOrder StartedOnce
PROPERTY ShutdownReturns
CHECK_DEADLOCK FALSE
