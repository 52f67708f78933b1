----------------------------- MODULE EventStore -----------------------------
(***************************************************************************)
(* The indexed in-memory store of processed events                         *)
(* (internal/storage/store.go): the primary map, its two secondary indices *)
(* and the eviction of expired events.                                     *)
(*                                                                         *)
(* Every method holds Store.mu from beginning to end and is one action,    *)
(* except EvictExpired, which reads the clock before it locks.  Methods    *)
(* that only read are operators, here and in EventViews.  Of an event the  *)
(* model keeps what these methods look at; zero is the expiry that was     *)
(* never set.                                                              *)
(***************************************************************************)
EXTENDS Integers, FiniteSets

CONSTANTS
  Ids,          \* event ids
  Words,        \* strings used as category or priority
  NoWord,       \* the empty string
  Categories, Priorities,
  Lower,        \* strings.ToLower
  Fold,         \* strings.EqualFold(x, y) is Fold[x] = Fold[y].  Of ASCII words it
                \* tells the same apart as Lower; of others neither follows from the
                \* other: s and long s fold alike only, i and dotted I lower alike only
  Event,        \* the events that may be put
  MaxTime       \* bound of the model: the clock stops here

ASSUME StoreAssumption ==
  /\ NoWord \in Words
  /\ Categories \subseteq Words \ {NoWord}     \* Validate rejects an empty category
  /\ Priorities \subseteq Words                \* empty before classification
  /\ Lower \in [Words -> Words]
  /\ \A x \in Words : Lower[x] = NoWord <=> x = NoWord
  /\ DOMAIN Fold = Words
  /\ Event \subseteq [id : Ids, name : Words, category : Categories, priority : Priorities,
                      score : 0 .. 100, created : Nat, expires : Nat]
  /\ MaxTime \in Nat

VARIABLES
  primary,      \* Store.primary, a function on the ids present
  byCategory,   \* Store.byCategory, a missing entry being the empty set
  byPriority,   \* Store.byPriority
  clock,        \* time.Now
  now           \* EvictExpired's local now while it waits for the lock, or -1

vars == <<primary, byCategory, byPriority, clock, now>>

-----------------------------------------------------------------------------
Present == DOMAIN primary

\* Mutant of Added: the word is indexed as it is written.
AddedAsWritten(index, word, id) == [index EXCEPT ![word] = @ \union {id}]

\* addIndex and removeIndex on one index: the set of the event's word.
Added(index, word, id) == [index EXCEPT ![Lower[word]] = @ \union {id}]
Removed(index, word, id) == [index EXCEPT ![Lower[word]] = @ \ {id}]

\* An event without a priority is left out of byPriority.
AddedPriority(index, e) ==
  IF Lower[e.priority] = NoWord THEN index ELSE Added(index, e.priority, e.id)
RemovedPriority(index, e) ==
  IF Lower[e.priority] = NoWord THEN index ELSE Removed(index, e.priority, e.id)

\* ExpiresAt is set and before t.
Expired(e, t) == e.expires # 0 /\ e.expires < t

-----------------------------------------------------------------------------
Init ==
  /\ primary = [id \in {} |-> 0]
  /\ byCategory = [x \in Words |-> {}]
  /\ byPriority = [x \in Words |-> {}]
  /\ clock = 0
  /\ now = -1

\* Mutant of Put: the index entries of the replaced event stay.
PutOver(e) ==
  /\ primary' = [id \in Present \union {e.id} |-> IF id = e.id THEN e ELSE primary[id]]
  /\ byCategory' = Added(byCategory, e.category, e.id)
  /\ byPriority' = AddedPriority(byPriority, e)
  /\ UNCHANGED <<clock, now>>

\* Put: the entries of the event it replaces leave the indices first.
Put(e) ==
  LET cat == IF e.id \in Present
             THEN Removed(byCategory, primary[e.id].category, e.id) ELSE byCategory
      pri == IF e.id \in Present
             THEN RemovedPriority(byPriority, primary[e.id]) ELSE byPriority
  IN
  /\ primary' = [id \in Present \union {e.id} |-> IF id = e.id THEN e ELSE primary[id]]
  /\ byCategory' = Added(cat, e.category, e.id)
  /\ byPriority' = AddedPriority(pri, e)
  /\ UNCHANGED <<clock, now>>

\* Mutant of Delete: the entry is overwritten with an empty event.
DeleteByClearing(id) ==
  /\ id \in Present
  /\ byCategory' = Removed(byCategory, primary[id].category, id)
  /\ byPriority' = RemovedPriority(byPriority, primary[id])
  /\ primary' = [primary EXCEPT ![id] =
       [@ EXCEPT !.category = NoWord, !.priority = NoWord, !.expires = 0]]
  /\ UNCHANGED <<clock, now>>

\* Delete of an id that is present; of any other it changes nothing.
Delete(id) ==
  /\ id \in Present
  /\ byCategory' = Removed(byCategory, primary[id].category, id)
  /\ byPriority' = RemovedPriority(byPriority, primary[id])
  /\ primary' = [i \in Present \ {id} |-> primary[i]]
  /\ UNCHANGED <<clock, now>>

\* EvictExpired reads the clock ...
EvictStart ==
  /\ now = -1
  /\ now' = clock
  /\ UNCHANGED <<primary, byCategory, byPriority, clock>>

\* Mutants of EvictExpired: an event expires a moment early, and the time is
\* taken once and for all.
EvictEarly ==
  LET gone == {id \in Present : primary[id].expires # 0 /\ primary[id].expires <= now} IN
  /\ now # -1
  /\ primary' = [id \in Present \ gone |-> primary[id]]
  /\ byCategory' = [x \in Words |-> byCategory[x] \ gone]
  /\ byPriority' = [x \in Words |-> byPriority[x] \ gone]
  /\ now' = -1
  /\ UNCHANGED clock
EvictByFirstTime ==
  LET gone == {id \in Present : Expired(primary[id], now)} IN
  /\ now # -1
  /\ primary' = [id \in Present \ gone |-> primary[id]]
  /\ byCategory' = [x \in Words |-> byCategory[x] \ gone]
  /\ byPriority' = [x \in Words |-> byPriority[x] \ gone]
  /\ UNCHANGED <<clock, now>>

\* ... and removes under the lock what had expired by then.
EvictExpired ==
  LET gone == {id \in Present : Expired(primary[id], now)} IN
  /\ now # -1
  /\ primary' = [id \in Present \ gone |-> primary[id]]
  /\ byCategory' = [x \in Words |->
       byCategory[x] \ {id \in gone : Lower[primary[id].category] = x}]
  /\ byPriority' = [x \in Words |->
       byPriority[x] \ {id \in gone : x # NoWord /\ Lower[primary[id].priority] = x}]
  /\ now' = -1
  /\ UNCHANGED clock

Tick ==
  /\ clock < MaxTime + 1
  /\ clock' = clock + 1
  /\ UNCHANGED <<primary, byCategory, byPriority, now>>

Next ==
  \/ \E e \in Event : Put(e)
  \/ \E id \in Ids : Delete(id)
  \/ EvictStart \/ EvictExpired \/ Tick

Spec == Init /\ [][Next]_vars

\* The scheduler runs EvictExpired again and again, and time passes.
FairSpec == Spec /\ WF_vars(EvictStart \/ EvictExpired) /\ WF_vars(Tick)

-----------------------------------------------------------------------------
(* The reading methods.                                                    *)

\* Mutant of Matches: the words are compared as they are written.
MatchesExactly(e, cat, pri) == cat \in {NoWord, e.category} /\ pri \in {NoWord, e.priority}

\* MatchesFilter: an empty field matches everything.  The query on the name,
\* which no caller sets, is left out.
Matches(e, cat, pri) ==
  /\ cat # NoWord => Fold[e.category] = Fold[cat]
  /\ pri # NoWord => Fold[e.priority] = Fold[pri]

\* The candidates of List, from the category index if the filter has one.
Listed(cat, pri) ==
  LET ids == IF cat # NoWord THEN byCategory[Lower[cat]] ELSE Present
  IN  {id \in ids \intersect Present : Matches(primary[id], cat, pri)}

\* The counts of Stats: by category and priority as they are written, and by
\* score.  A missing entry is zero.
Bucket(e) ==
  CASE e.score >= 80 -> "80-100" [] e.score >= 55 -> "55-79"
    [] e.score >= 30 -> "30-54"  [] OTHER -> "0-29"
Buckets == {"80-100", "55-79", "30-54", "0-29"}

Stats ==
  [totalEvents  |-> Cardinality(Present),
   byCategory   |-> [x \in Words |-> Cardinality({id \in Present : primary[id].category = x})],
   byPriority   |-> [x \in Words |-> Cardinality({id \in Present : primary[id].priority = x})],
   scoreDistrib |-> [b \in Buckets |-> Cardinality({id \in Present : Bucket(primary[id]) = b})]]

-----------------------------------------------------------------------------
(* Properties.                                                             *)

\* The maps hold events under their own ids, and the clock values are times.
TypeOK ==
  /\ Present \subseteq Ids
  /\ \A id \in Present : primary[id] \in Event
  /\ byCategory \in [Words -> SUBSET Ids]
  /\ byPriority \in [Words -> SUBSET Ids]
  /\ clock \in Nat
  /\ now \in Nat \union {-1}

\* The indices hold exactly the stored events, each under the lower case of
\* its present category and priority: an update leaves no entry under the old
\* words, a delete or an eviction leaves no id behind.
IndexExact ==
  /\ \A id \in Present : primary[id].id = id
  /\ \A x \in Words :
       /\ byCategory[x] = {id \in Present : Lower[primary[id].category] = x}
       /\ byPriority[x] = {id \in Present : x # NoWord /\ Lower[primary[id].priority] = x}

\* A list by category, taken from the index, against a scan of every event with
\* the filter.  It misses exactly those matches of which ToLower and EqualFold
\* judge differently, whose category folds to that of the filter and has another
\* lower case; that the events were put, replaced, deleted and evicted in
\* whatever spelling costs it no other.
ListMatchesScan ==
  \A cat \in Categories, pri \in Priorities :
    LET scan == {id \in Present : Matches(primary[id], cat, pri)} IN
    /\ Listed(cat, pri) \subseteq scan
    /\ scan \ Listed(cat, pri) = {id \in scan : Lower[primary[id].category] # Lower[cat]}

\* Only a Delete, or the eviction of an event that is expired at that moment,
\* makes an id disappear: an event put again with a later expiry while the
\* eviction waits for the lock survives it.
NothingElseVanishes ==
  [][ \A id \in Present \ DOMAIN primary' :
        Expired(primary[id], clock) \/ Delete(id) ]_vars

\* An expired event does not stay: it is evicted, deleted or replaced.
ExpiredLeaves ==
  \A id \in Ids :
    (id \in Present /\ Expired(primary[id], clock))
      ~> (id \notin Present \/ ~Expired(primary[id], clock))

=============================================================================
