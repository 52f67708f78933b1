------------------------------ MODULE MCServer ------------------------------
(* Instances of Server for TLC.                                            *)
EXTENDS Server

CONSTANTS u1, s1, g1

Hike == [name |-> "hike", category |-> "outdoors", mood |-> 10]
Hikes == {Hike}
Eighty == [r \in Requests |-> 80]

\* All words are in lower case, so that ToLower and EqualFold tell the same apart.
Categories == {"", "outdoors"}
Tiers == {"critical", "high", "medium", "low"}
NoSpace == {""}
SameWord == [x \in Categories \union Tiers \union {r.name : r \in Requests} |-> x]
ToOnePartition == [k \in Categories |-> 0]
OneGroup == [s \in Subscriptions |-> g1]

=============================================================================
