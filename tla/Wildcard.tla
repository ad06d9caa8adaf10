------------------------------ MODULE Wildcard ------------------------------
(***************************************************************************)
(* The matching of topics of wildcard.go.  A topic is the sequence of its  *)
(* segments, which strings.Split makes at the dots; a segment of a pattern *)
(* is what path.Match knows of it: whether it is well formed, whether it   *)
(* has a meta character, and which names it matches.                       *)
(***************************************************************************)
EXTENDS Naturals, Sequences

\* A pattern with a malformed segment is an exact topic.
IsWildcardPattern(pattern) ==
    /\ \E i \in DOMAIN pattern : pattern[i].meta
    /\ \A i \in DOMAIN pattern : pattern[i].wellFormed

MatchSegments(pattern, topic) ==
    /\ Len(pattern) = Len(topic)
    /\ \A i \in DOMAIN pattern : pattern[i].wellFormed /\ topic[i] \in pattern[i].names
=============================================================================
