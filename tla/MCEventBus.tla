----------------------------- MODULE MCEventBus -----------------------------
EXTENDS EventBus, Wildcard
CONSTANTS s1, s2, s3, w1, w2, p1, p2, c1, c2

Literal(name) == [wellFormed |-> TRUE, meta |-> FALSE, names |-> {name}]
Star == [wellFormed |-> TRUE, meta |-> TRUE, names |-> {"order", "created"}]
Unclosed == [wellFormed |-> FALSE, meta |-> TRUE, names |-> {}]

\* The topics, with their segments as patterns, and as topics.
Parsed ==
    [t \in {"order.created", "order.*", "*", "order.[", "*.["} |->
        CASE t = "order.created" -> <<Literal("order"), Literal("created")>>
          [] t = "order.*" -> <<Literal("order"), Star>>
          [] t = "*" -> <<Star>>
          [] t = "order.[" -> <<Literal("order"), Unclosed>>
          [] t = "*.[" -> <<Star, Unclosed>>]
Segments == [t \in {"order.created"} |-> <<"order", "created">>]

\* A star is one segment, and a malformed pattern none.
ASSUME MatchingOK ==
    /\ {t \in DOMAIN Parsed : IsWildcardPattern(Parsed[t])} = {"order.*", "*"}
    /\ {t \in DOMAIN Parsed : MatchSegments(Parsed[t], Segments["order.created"])}
          = {"order.created", "order.*"}

Exact == {"order.created"}
Wild == {"order.*"}
None == {}
Hits == {<<p, t>> \in Wild \X Exact : MatchSegments(Parsed[p], Segments[t])}

SafetySymmetry == Permutations(RawSubs) \cup Permutations(AsyncSubs) \cup Permutations(Workers)
                  \cup Permutations(Publishers) \cup Permutations(Closers)
=============================================================================
