---------------------------- MODULE MCEventStore ----------------------------
(* An instance of EventStore and EventViews for TLC.                       *)
EXTENDS EventViews

CONSTANTS none, Food, food, games, longs, ini, dotted, low, i1, i2, i3

\* ToLower and EqualFold, of five categories.  "Food" and "food" are one word to
\* both.  "games" and "games" with a long s are one word to EqualFold only, "ini"
\* and "ini" with a dotted capital I to ToLower only.  No word is part of another.
LowerCase == [x \in Words |-> IF x = Food THEN food ELSE IF x = dotted THEN ini ELSE x]
Folded == [x \in Words |-> IF x = Food THEN food ELSE IF x = longs THEN games ELSE x]
Itself == [x \in Words |-> {y \in Words : LowerCase[y] = LowerCase[x]}]

\* Events with and without priority and expiry, in all spellings and four score
\* buckets, of which some are of the same age.
Contents ==
  { [name |-> games, category |-> Food,   priority |-> none, score |-> 80, created |-> 0, expires |-> 0],
    [name |-> games, category |-> food,   priority |-> low,  score |-> 55, created |-> 0, expires |-> 1],
    [name |-> low,   category |-> games,  priority |-> low,  score |-> 30, created |-> 1, expires |-> 2],
    [name |-> low,   category |-> longs,  priority |-> low,  score |-> 30, created |-> 1, expires |-> 1],
    [name |-> low,   category |-> ini,    priority |-> none, score |-> 29, created |-> 1, expires |-> 2],
    [name |-> low,   category |-> dotted, priority |-> low,  score |-> 80, created |-> 2, expires |-> 0] }
Events ==
  { [id |-> i, name |-> c.name, category |-> c.category, priority |-> c.priority,
     score |-> c.score, created |-> c.created, expires |-> c.expires] :
      i \in Ids, c \in Contents }

=============================================================================
