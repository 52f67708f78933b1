------------------------------ MODULE MCEngine ------------------------------
(* Instances of Engine for TLC.                                            *)
EXTENDS Engine

CONSTANTS u1, u2, s1, s2, g1

\* A request at each boundary of the tiers, at the upper end of mood_boost and at
\* the lower one, and one the API must refuse.
Hike == [name |-> "hike", category |-> "outdoors", mood |-> 10]
Walk == [name |-> "hike", category |-> "outdoors", mood |-> 5]
Read == [name |-> "nap", category |-> "rest", mood |-> 2]
Nap == [name |-> "nap", category |-> "rest", mood |-> 1]
Bad == [name |-> "hike", category |-> "outdoors", mood |-> 11]
Posted == {Hike, Walk, Read, Nap, Bad}
Hikes == {Hike}
PostedScore ==
  [r \in Requests |-> CASE r.mood = 1 -> 29 [] r.mood = 2 -> 30 [] r.mood = 5 -> 55 [] OTHER -> 80]

\* All words are in lower case, so that ToLower and EqualFold tell the same apart.
Categories == {"", "outdoors", "rest"}
Tiers == {"critical", "high", "medium", "low"}
NoSpace == {""}
SameWord == [x \in Categories \union Tiers \union {r.name : r \in Requests} |-> x]
ToOnePartition == [k \in Categories |-> 0]
OneGroup == [s \in Subscriptions |-> g1]

=============================================================================
