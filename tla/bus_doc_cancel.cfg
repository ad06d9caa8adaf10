SPECIFICATION Spec
CONSTANTS
    s1 = s1
    s2 = s2
    s3 = s3
    w1 = w1
    w2 = w2
    p1 = p1
    p2 = p2
    c1 = c1
    c2 = c2
    RawSubs = {}
    AsyncSubs = {s1}
    Workers = {w1}
    Publishers = {}
    Closers = {}
    ExactTopics <- Exact
    WildcardPatterns <- Wild
    Matches <- Hits
    NoTopic = NoTopic
    ChanCap = 1
    MaxEvents = 1
PROPERTIES CancelCleansUp
CHECK_DEADLOCK FALSE
