-------------------------- MODULE EventStoreProofs --------------------------
(***************************************************************************)
(* Proofs about EventStore and EventViews: the indices are exact, and so   *)
(* the readers that use them and those that scan tell of the same store.   *)
(***************************************************************************)
EXTENDS EventViews, SequenceTheorems, Counting

LEMMA StoreInit == Init => TypeOK /\ IndexExact
<1> SUFFICES ASSUME Init PROVE TypeOK /\ IndexExact
  OBVIOUS
<1>1. Present = {}
  BY DEF Init, Present
<1> QED
  BY <1>1 DEF Init, TypeOK, IndexExact

\* What is stored has its words among the known ones.
LEMMA StoredWords ==
  ASSUME TypeOK, NEW id \in Present
  PROVE  /\ id \in Ids /\ primary[id] \in Event
         /\ primary[id].category \in Words /\ primary[id].priority \in Words
         /\ Lower[primary[id].category] \in Words \ {NoWord}
         /\ Lower[primary[id].priority] \in Words
<1>1. id \in Ids /\ primary[id] \in Event
  BY DEF TypeOK
<1>2. /\ primary[id].category \in Words \ {NoWord} /\ primary[id].priority \in Words
  BY <1>1, StoreAssumption
<1> QED
  BY <1>1, <1>2, StoreAssumption

LEMMA PutStep ==
  ASSUME TypeOK, IndexExact, NEW e \in Event, Put(e)
  PROVE  TypeOK' /\ IndexExact'
<1>1. /\ e.id \in Ids /\ e.category \in Words \ {NoWord} /\ e.priority \in Words
      /\ Lower[e.category] \in Words \ {NoWord} /\ Lower[e.priority] \in Words
  BY StoreAssumption
<1>2. /\ Present' = Present \union {e.id}
      /\ primary' = [id \in Present \union {e.id} |-> IF id = e.id THEN e ELSE primary[id]]
      /\ UNCHANGED <<clock, now>>
  BY DEF Put, Present
<1> DEFINE old == e.id \in Present
           cat == IF old THEN Removed(byCategory, primary[e.id].category, e.id) ELSE byCategory
           pri == IF old THEN RemovedPriority(byPriority, primary[e.id]) ELSE byPriority
<1>3. byCategory' = Added(cat, e.category, e.id) /\ byPriority' = AddedPriority(pri, e)
  BY DEF Put
<1>4. cat \in [Words -> SUBSET Ids] /\ pri \in [Words -> SUBSET Ids]
  BY DEF TypeOK, Removed, RemovedPriority
<1>5. \A x \in Words : cat[x] = byCategory[x] \ {e.id}
  BY StoredWords DEF TypeOK, IndexExact, Removed
<1>6. \A x \in Words : pri[x] = byPriority[x] \ {e.id}
  BY StoredWords DEF TypeOK, IndexExact, Removed, RemovedPriority
<1> HIDE DEF cat, pri
<1>7. byCategory' \in [Words -> SUBSET Ids] /\ byPriority' \in [Words -> SUBSET Ids]
  BY <1>1, <1>3, <1>4 DEF Added, AddedPriority
<1>8. TypeOK'
  BY <1>1, <1>2, <1>7 DEF TypeOK, Present
<1>9. ASSUME NEW x \in Words
      PROVE  byCategory'[x] = {id \in Present' : Lower[primary'[id].category] = x}
  <2>1. byCategory'[x] = IF x = Lower[e.category] THEN cat[x] \union {e.id} ELSE cat[x]
    BY <1>1, <1>3, <1>4 DEF Added
  <2> QED
    BY <1>2, <1>5, <2>1 DEF IndexExact
<1>10. ASSUME NEW x \in Words
       PROVE  byPriority'[x] = {id \in Present' : x # NoWord /\ Lower[primary'[id].priority] = x}
  <2>1. byPriority'[x] = IF x # NoWord /\ x = Lower[e.priority] THEN pri[x] \union {e.id}
                                                                ELSE pri[x]
    BY <1>1, <1>3, <1>4 DEF Added, AddedPriority
  <2> QED
    BY <1>2, <1>6, <2>1 DEF IndexExact
<1>11. \A id \in Present' : primary'[id].id = id
  BY <1>2 DEF IndexExact
<1> QED
  BY <1>8, <1>9, <1>10, <1>11 DEF IndexExact

LEMMA DeleteStep ==
  ASSUME TypeOK, IndexExact, NEW d \in Ids, Delete(d)
  PROVE  TypeOK' /\ IndexExact'
<1>1. /\ d \in Present /\ Present' = Present \ {d}
      /\ primary' = [id \in Present \ {d} |-> primary[id]]
      /\ UNCHANGED <<clock, now>>
  BY DEF Delete, Present
<1>2. /\ byCategory' = Removed(byCategory, primary[d].category, d)
      /\ byPriority' = RemovedPriority(byPriority, primary[d])
  BY DEF Delete
<1>3. byCategory' \in [Words -> SUBSET Ids] /\ byPriority' \in [Words -> SUBSET Ids]
  BY <1>2 DEF TypeOK, Removed, RemovedPriority
<1>4. \A x \in Words : byCategory'[x] = byCategory[x] \ {d}
  BY <1>1, <1>2, StoredWords DEF TypeOK, IndexExact, Removed
<1>5. \A x \in Words : byPriority'[x] = byPriority[x] \ {d}
  BY <1>1, <1>2, StoredWords DEF TypeOK, IndexExact, Removed, RemovedPriority
<1>6. TypeOK'
  BY <1>1, <1>3 DEF TypeOK, Present
<1>7. IndexExact'
  BY <1>1, <1>4, <1>5 DEF IndexExact
<1> QED
  BY <1>6, <1>7

LEMMA EvictStep ==
  ASSUME TypeOK, IndexExact, EvictExpired
  PROVE  TypeOK' /\ IndexExact'
<1> DEFINE gone == {id \in Present : Expired(primary[id], now)}
<1>1. /\ Present' = Present \ gone
      /\ primary' = [id \in Present \ gone |-> primary[id]]
      /\ clock' = clock /\ now' = -1
  BY DEF EvictExpired, Present
<1>2. /\ byCategory' \in [Words -> SUBSET Ids] /\ byPriority' \in [Words -> SUBSET Ids]
      /\ \A x \in Words :
           /\ byCategory'[x] = byCategory[x] \ {id \in gone : Lower[primary[id].category] = x}
           /\ byPriority'[x] = byPriority[x] \
                {id \in gone : x # NoWord /\ Lower[primary[id].priority] = x}
  BY DEF EvictExpired, TypeOK
<1> HIDE DEF gone
<1>3. TypeOK'
  BY <1>1, <1>2 DEF TypeOK, Present
<1>4. IndexExact'
  BY <1>1, <1>2 DEF IndexExact
<1> QED
  BY <1>3, <1>4

LEMMA StoreStep == TypeOK /\ IndexExact /\ [Next]_vars => TypeOK' /\ IndexExact'
<1> SUFFICES ASSUME TypeOK, IndexExact, [Next]_vars PROVE TypeOK' /\ IndexExact'
  OBVIOUS
<1>1. ASSUME EvictStart \/ Tick \/ UNCHANGED vars PROVE TypeOK' /\ IndexExact'
  <2>1. UNCHANGED <<primary, byCategory, byPriority>> /\ Present' = Present
    BY <1>1 DEF EvictStart, Tick, vars, Present
  <2>2. clock' \in Nat /\ now' \in Nat \union {-1}
    BY <1>1 DEF EvictStart, Tick, vars, TypeOK
  <2> QED
    BY <2>1, <2>2 DEF TypeOK, IndexExact
<1> QED
  BY <1>1, PutStep, DeleteStep, EvictStep DEF Next

-----------------------------------------------------------------------------
(* The theorems.                                                           *)

\* The store holds events it was given, under ids, and the indices sets of ids.
THEOREM StoreTypes == Spec => []TypeOK
BY StoreInit, StoreStep, PTL DEF Spec

\* The indices hold exactly the stored events under their present words, in
\* every state any sequence of Put, Delete and eviction reaches.
THEOREM IndicesExact == Spec => []IndexExact
<1>1. Spec => [](TypeOK /\ IndexExact)
  BY StoreInit, StoreStep, PTL DEF Spec
<1> QED
  BY <1>1, PTL

\* Listing by category through the index finds all that a scan of every event
\* finds, but for the events whose category only EqualFold takes for the one that
\* is asked for.
THEOREM ListComplete == Spec => []ListMatchesScan
<1>1. TypeOK /\ IndexExact => ListMatchesScan
  <2> SUFFICES ASSUME TypeOK, IndexExact, NEW cat \in Categories, NEW pri \in Priorities,
                      NEW scan, scan = {id \in Present : Matches(primary[id], cat, pri)}
               PROVE  /\ Listed(cat, pri) \subseteq scan
                      /\ scan \ Listed(cat, pri)
                           = {id \in scan : Lower[primary[id].category] # Lower[cat]}
    BY DEF ListMatchesScan
  <2>1. cat \in Words /\ cat # NoWord /\ Lower[cat] \in Words
    BY StoreAssumption
  <2>2. Listed(cat, pri) = {id \in byCategory[Lower[cat]] \intersect Present :
                              Matches(primary[id], cat, pri)}
    BY <2>1 DEF Listed
  <2>3. byCategory[Lower[cat]] = {id \in Present : Lower[primary[id].category] = Lower[cat]}
    BY <2>1 DEF IndexExact
  <2> QED
    BY <2>2, <2>3
<1>2. Spec => [](TypeOK /\ IndexExact)
  BY StoreInit, StoreStep, PTL DEF Spec
<1> QED
  BY <1>1, <1>2, PTL

-----------------------------------------------------------------------------
(* Eviction.                                                               *)

\* The time an eviction goes by is one that has been.
NowPassed == now <= clock

LEMMA NowPassedStep == TypeOK /\ NowPassed /\ [Next]_vars => NowPassed'
<1> SUFFICES ASSUME TypeOK, NowPassed, [Next]_vars PROVE NowPassed'
  OBVIOUS
<1> USE DEF NowPassed
<1>1. clock \in Nat /\ now \in Nat \union {-1}
  BY DEF TypeOK
<1>2. ASSUME (\E e \in Event : Put(e)) \/ (\E id \in Ids : Delete(id)) \/ UNCHANGED vars
      PROVE  NowPassed'
  BY <1>2 DEF Put, Delete, vars
<1>3. ASSUME EvictStart \/ EvictExpired \/ Tick PROVE NowPassed'
  BY <1>1, <1>3 DEF EvictStart, EvictExpired, Tick
<1> QED
  BY <1>2, <1>3 DEF Next

\* What disappears was deleted, or was expired at that moment, even though the
\* eviction had read the clock before it waited for the lock.
THEOREM OnlyExpiredVanish == Spec => NothingElseVanishes
<1> DEFINE Expected(id) == Expired(primary[id], clock) \/ Delete(id)
<1>1. ASSUME TypeOK, NowPassed, [Next]_vars, NEW id \in Present \ DOMAIN primary'
      PROVE  Expected(id)
  <2>1. id \in Ids /\ primary[id] \in Event /\ primary[id].expires \in Nat
    <3>1. id \in Ids /\ primary[id] \in Event
      BY <1>1 DEF TypeOK
    <3> QED  BY <3>1, StoreAssumption
  <2>2. ~\E e \in Event : Put(e)
    BY <1>1 DEF Put
  <2>3. ASSUME NEW d \in Ids, Delete(d) PROVE Expected(id)
    <3>1. d = id
      BY <1>1, <2>3 DEF Delete
    <3> QED  BY <2>3, <3>1
  <2>4. CASE EvictExpired
    <3>1. Expired(primary[id], now)
      BY <1>1, <2>4 DEF EvictExpired
    <3>2. Expired(primary[id], clock)
      BY <1>1, <2>1, <3>1 DEF Expired, NowPassed, TypeOK
    <3> QED  BY <3>2
  <2>5. ~(EvictStart \/ Tick \/ UNCHANGED vars)
    BY <1>1 DEF EvictStart, Tick, vars, Present
  <2> QED
    BY <1>1, <2>2, <2>3, <2>4, <2>5 DEF Next
<1>2. TypeOK /\ NowPassed /\ [Next]_vars
        => [\A id \in Present \ DOMAIN primary' : Expired(primary[id], clock) \/ Delete(id)]_vars
  BY <1>1
<1>3. Init => NowPassed
  BY DEF Init, NowPassed
<1> QED
  BY <1>2, <1>3, StoreInit, StoreStep, NowPassedStep, PTL DEF Spec, NothingElseVanishes

-----------------------------------------------------------------------------
(* Pages.  Nobody says how many events there may be, but what is stored was *)
(* put, one by one.                                                         *)

Stored == IsFiniteSet(Present)

LEMMA StoredInit == Init => Stored
<1>1. Init => Present = {}
  BY DEF Init, Present
<1> QED
  BY <1>1, FS_EmptySet DEF Stored

LEMMA StoredStep == Stored /\ [Next]_vars => Stored'
<1> SUFFICES ASSUME Stored, [Next]_vars PROVE Stored'
  OBVIOUS
<1>1. ASSUME NEW e \in Event, Put(e) PROVE Stored'
  <2>1. Present' = Present \union {e.id}
    BY <1>1 DEF Put, Present
  <2> QED
    BY <2>1, FS_AddElement DEF Stored
<1>2. CASE ~\E e \in Event : Put(e)
  <2>1. Present' \subseteq Present
    BY <1>2 DEF Next, Delete, EvictStart, EvictExpired, Tick, vars, Present
  <2> QED
    BY <2>1, FS_Subset DEF Stored
<1> QED
  BY <1>1, <1>2

\* The position of a page that an int can hold is computed as it is.
LEMMA SmallInt == ASSUME NEW n \in 0 .. MaxInt PROVE Int64(n) = n
<1> PICK m : m = MaxInt + 1
  OBVIOUS
<1>1. m \in Nat /\ m >= 1 /\ MaxInt \in Nat
  BY ViewsAssumption
<1>2. (n + m) % (2 * m) = n + m
  BY <1>1
<1> QED
  BY <1>1, <1>2 DEF Int64

\* The order of a list is that of the creation times, and there is one.
LEMMA NewestFirst ==
  ASSUME NEW S
  PROVE  ByCreation(S) = Descending(S, [id \in S |-> primary[id].created])
  BY DEF ByCreation, Sorted, SetToSeqs, Descending

\* A part of such an order is a page.
LEMMA PageOfOrder ==
  ASSUME NEW S, IsFiniteSet(S), \A id \in S : primary[id].created \in Int,
         NEW s \in ByCreation(S), NEW first \in Nat, NEW limit \in Nat \ {0},
         first < Cardinality(S), NEW end,
         end = IF first + limit > Cardinality(S) THEN Cardinality(S) ELSE first + limit
  PROVE  IsPageFrom(SubSeq(s, first + 1, end), S, first, limit)
<1>n. PICK n, key : n = Cardinality(S) /\ key = [id \in S |-> primary[id].created]
  OBVIOUS
<1>r. PICK r : r = SubSeq(s, first + 1, end)
  OBVIOUS
<1>1. /\ n \in Nat /\ s \in Descending(S, key)
      /\ \A id \in S : key[id] = primary[id].created /\ key[id] \in Int
  BY <1>n, NewestFirst, FS_CardinalityType
<1>2. /\ s \in [1 .. n -> S]
      /\ \A i, j \in 1 .. n : i # j => s[i] # s[j]
  BY <1>n, <1>1 DEF Descending
<1>3. end \in Int /\ first + 1 <= end /\ end <= n /\ end <= first + limit
  BY <1>n, <1>1
<1>4. /\ r \in Seq(S) /\ Len(r) = end - first
      /\ \A i \in 1 .. end - first : r[i] = s[first + i]
  <2>1. \A i \in first + 1 .. end : s[i] \in S
    BY <1>1, <1>2, <1>3
  <2>2. /\ SubSeq(s, first + 1, end) \in Seq(S)
        /\ Len(SubSeq(s, first + 1, end)) = IF first + 1 <= end THEN end - (first + 1) + 1 ELSE 0
        /\ \A i \in 1 .. end - (first + 1) + 1 :
             SubSeq(s, first + 1, end)[i] = s[first + 1 + i - 1]
    BY <1>3, <2>1, SubSeqProperties
  <2>3. end - (first + 1) + 1 = end - first
    BY <1>3
  <2>4. \A i \in 1 .. end - first : first + 1 + i - 1 = first + i
    BY <1>3
  <2> QED
    BY <1>r, <1>3, <2>2, <2>3, <2>4
<1>5. DOMAIN r = 1 .. end - first /\ \A i \in DOMAIN r : first + i \in 1 .. n /\ r[i] = s[first + i]
  <2>1. DOMAIN r = 1 .. end - first
    BY <1>4
  <2> QED
    BY <1>1, <1>3, <1>4, <2>1
<1>6. IsInjective(r)
  <2> SUFFICES ASSUME NEW i \in DOMAIN r, NEW j \in DOMAIN r, r[i] = r[j] PROVE i = j
    BY DEF IsInjective
  <2>1. i \in Int /\ j \in Int /\ first + i \in 1 .. n /\ first + j \in 1 .. n /\ s[first + i] = s[first + j]
    BY <1>3, <1>5
  <2> QED
    BY <1>2, <2>1
<1>7. Range(r) \subseteq S
  <2>1. \A i \in DOMAIN r : r[i] \in S
    BY <1>2, <1>5
  <2> QED
    BY <2>1 DEF Range
<1>8. Len(r) = IF n - first < 0 THEN 0 ELSE IF n - first > limit THEN limit ELSE n - first
  BY <1>n, <1>1, <1>4
<1>9. ASSUME NEW i \in DOMAIN r
      PROVE  /\ Cardinality({id \in S : primary[id].created > primary[r[i]].created}) < first + i
             /\ Cardinality({id \in S : primary[id].created >= primary[r[i]].created}) >= first + i
  <2>k. PICK k : k = first + i
    OBVIOUS
  <2>1. k \in 1 .. Cardinality(S) /\ r[i] = s[k] /\ s[k] \in S
    BY <1>n, <1>2, <1>5, <2>k
  <2>2. /\ Cardinality(Above(S, key, key[s[k]])) < k
        /\ Cardinality(AtLeast(S, key, key[s[k]])) >= k
    <3>1. \A id \in S : key[id] \in Int
      BY <1>1
    <3>2. s \in Descending(S, key)
      BY <1>1
    <3> QED
      BY <2>1, <3>1, <3>2, Ranks
  <2>3. /\ {id \in S : primary[id].created > primary[r[i]].created} = Above(S, key, key[s[k]])
        /\ {id \in S : primary[id].created >= primary[r[i]].created} = AtLeast(S, key, key[s[k]])
    BY <1>1, <2>1 DEF Above, AtLeast
  <2> QED
    BY <2>2, <2>3, <2>k
<1> QED
  BY <1>n, <1>r, <1>6, <1>7, <1>8, <1>9 DEF IsPageFrom

\* Every page of every list holds the events that belong on it, however many
\* there are and in whatever order map, index and sort come up with them.
THEOREM PagesHoldTheirEvents == Spec => []PagesExact
<1>1. ASSUME TypeOK, Stored PROVE PagesExact
  <2> SUFFICES ASSUME NEW cat \in Categories \union {NoWord}, NEW pri \in Priorities,
                      NEW page \in 0 .. MaxInt, NEW limit \in 0 .. MaxLimit + 1,
                      (PageOf(page) - 1) * LimitOf(limit) <= MaxInt
               PROVE  /\ Page(cat, pri, page, limit) # {}
                      /\ \A r \in Page(cat, pri, page, limit) :
                           IsPageFrom(r, Listed(cat, pri), (PageOf(page) - 1) * LimitOf(limit), LimitOf(limit))
    BY DEF PagesExact
  <2> PICK S, total, first, size :
        /\ S = Listed(cat, pri) /\ total = Cardinality(S)
        /\ first = (PageOf(page) - 1) * LimitOf(limit) /\ size = LimitOf(limit)
    OBVIOUS
  <2>1. size \in Nat \ {0} /\ first \in 0 .. MaxInt
    <3>1. PageOf(page) - 1 \in Nat /\ size \in Nat \ {0}
      BY ViewsAssumption DEF PageOf, LimitOf
    <3>2. \A a, b \in Nat : a * b \in Nat
      OBVIOUS
    <3>3. first \in Nat /\ MaxInt \in Nat
      BY <3>1, <3>2, ViewsAssumption
    <3> QED
      BY <3>1, <3>3
  <2>2. Start(page, limit) = first
    BY <2>1, SmallInt DEF Start
  <2>3. S \subseteq Present /\ IsFiniteSet(S) /\ total \in Nat
    <3>1. S \subseteq Present
      BY DEF Listed
    <3> QED
      BY <1>1, <3>1, FS_Subset, FS_CardinalityType DEF Stored
  <2>4. \A id \in S : primary[id].created \in Int
    <3>1. \A id \in S : primary[id] \in Event
      BY <1>1, <2>3 DEF TypeOK
    <3> QED
      BY <3>1, StoreAssumption
  <2>5. CASE first >= total
    <3>1. Page(cat, pri, page, limit) = {<< >>}
      <4>1. Start(page, limit) >= Cardinality(Listed(cat, pri))
        BY <2>2, <2>5
      <4>2. ~(Start(page, limit) < 0)
        BY <2>1, <2>2
      <4> QED
        BY <4>1, <4>2, Zenon DEF Page
    <3>2. IsPageFrom(<< >>, S, first, size)
      BY <2>1, <2>3, <2>5 DEF IsPageFrom, IsInjective, Range
    <3> QED
      BY <3>1, <3>2
  <2>6. CASE ~(first >= total)
    <3> PICK end : end = IF first + size > total THEN total ELSE first + size
      OBVIOUS
    <3>1. Page(cat, pri, page, limit) = {SubSeq(s, first + 1, end) : s \in ByCreation(S)}
      BY <2>1, <2>2, <2>6 DEF Page
    <3>2. ByCreation(S) # {}
      BY <2>3, <2>4, NewestFirst, CanBeSorted
    <3>3. \A s \in ByCreation(S) : IsPageFrom(SubSeq(s, first + 1, end), S, first, size)
      BY <2>1, <2>3, <2>4, <2>6, PageOfOrder
    <3> QED
      BY <3>1, <3>2, <3>3
  <2> QED
    BY <2>5, <2>6
<1> QED
  BY <1>1, StoredInit, StoreInit, StoreStep, StoredStep, PTL DEF Spec

-----------------------------------------------------------------------------
(* The readers.  Events are counted class by class: by their spelling of a  *)
(* word, or by their score.                                                 *)

LEMMA CountOfClasses ==
  ASSUME Stored, NEW C, IsFiniteSet(C), NEW class, NEW count,
         \A c \in C : count[c] = Cardinality(InClasses(Present, class, {c}))
  PROVE  SumFunctionOnSet(count, C) = Cardinality(InClasses(Present, class, C))
<1> PICK S : S = Present
  OBVIOUS
<1>1. IsFiniteSet(S)
  BY DEF Stored
<1>2. \A c \in C : count[c] = Cardinality(InClasses(S, class, {c}))
  OBVIOUS
<1>3. SumFunctionOnSet(count, C) = Cardinality(InClasses(S, class, C))
  BY <1>1, <1>2, SumOfClasses
<1> QED
  BY <1>3

\* What the list filtered by one word holds.
LEMMA ListedByWord ==
  ASSUME TypeOK, IndexExact
  PROVE  /\ Listed(NoWord, NoWord) = Present
         /\ \A x \in Categories :
              Listed(x, NoWord) = {id \in Present : primary[id].category \in IndexSpellings(x)}
         /\ \A x \in Priorities \ {NoWord} :
              Listed(NoWord, x) = {id \in Present : primary[id].priority \in Spellings(x)}
<1>1. Listed(NoWord, NoWord) = Present
  BY DEF Listed, Matches
<1>2. ASSUME NEW x \in Categories
      PROVE  Listed(x, NoWord) = {id \in Present : primary[id].category \in IndexSpellings(x)}
  <2>1. x \in Words /\ x # NoWord /\ Lower[x] \in Words
    BY StoreAssumption
  <2>2. byCategory[Lower[x]] = {id \in Present : Lower[primary[id].category] = Lower[x]}
    BY <2>1 DEF IndexExact
  <2>3. \A id \in Present : Matches(primary[id], x, NoWord) <=> Fold[primary[id].category] = Fold[x]
    BY <2>1 DEF Matches
  <2>4. \A id \in Present : primary[id].category \in IndexSpellings(x) <=>
                              /\ Fold[primary[id].category] = Fold[x]
                              /\ Lower[primary[id].category] = Lower[x]
    BY StoredWords DEF IndexSpellings, Spellings
  <2>5. Listed(x, NoWord) = {id \in byCategory[Lower[x]] \intersect Present : Matches(primary[id], x, NoWord)}
    BY <2>1 DEF Listed
  <2> QED
    BY <2>2, <2>3, <2>4, <2>5
<1>3. ASSUME NEW x \in Priorities \ {NoWord}
      PROVE  Listed(NoWord, x) = {id \in Present : primary[id].priority \in Spellings(x)}
  <2>1. Listed(NoWord, x) = {id \in Present : Matches(primary[id], NoWord, x)}
    BY DEF Listed
  <2>2. \A id \in Present : Matches(primary[id], NoWord, x) <=> Fold[primary[id].priority] = Fold[x]
    BY <1>3 DEF Matches
  <2>3. \A id \in Present : primary[id].priority \in Spellings(x) <=> Fold[primary[id].priority] = Fold[x]
    BY StoredWords DEF Spellings
  <2> QED
    BY <2>1, <2>2, <2>3
<1> QED
  BY <1>1, <1>2, <1>3

LEMMA ScoresCounted ==
  ASSUME Stored
  PROVE  SumFunction(Stats.scoreDistrib) = Stats.totalEvents
<1> PICK f, class : /\ f = [b \in Buckets |-> Cardinality({id \in Present : Bucket(primary[id]) = b})]
                    /\ class = [id \in Present |-> Bucket(primary[id])]
  OBVIOUS
<1>1. Stats.scoreDistrib = f /\ Stats.totalEvents = Cardinality(Present) /\ DOMAIN f = Buckets
  BY DEF Stats
<1>2. IsFiniteSet(Buckets)
  <2>1. Buckets = (({"80-100"} \cup {"55-79"}) \cup {"30-54"}) \cup {"0-29"}
    BY DEF Buckets
  <2> QED
    BY <2>1, FS_Singleton, FS_Union
<1>3. \A b \in Buckets : f[b] = Cardinality(InClasses(Present, class, {b}))
  <2> SUFFICES ASSUME NEW b \in Buckets
               PROVE  {id \in Present : Bucket(primary[id]) = b} = InClasses(Present, class, {b})
    OBVIOUS
  <2> QED
    BY DEF InClasses
<1>4. InClasses(Present, class, Buckets) = Present
  BY DEF InClasses, Bucket, Buckets
<1>5. SumFunctionOnSet(f, Buckets) = Cardinality(InClasses(Present, class, Buckets))
  BY <1>2, <1>3, CountOfClasses
<1> QED
  BY <1>1, <1>4, <1>5 DEF SumFunction

LEMMA CategoriesCounted ==
  ASSUME TypeOK, IndexExact, Stored, NEW x \in Categories
  PROVE  SumFunctionOnSet(Stats.byCategory, IndexSpellings(x)) = Cardinality(Listed(x, NoWord))
<1> PICK f, class : /\ f = [y \in Words |-> Cardinality({id \in Present : primary[id].category = y})]
                    /\ class = [id \in Present |-> primary[id].category]
  OBVIOUS
<1>1. Stats.byCategory = f
  BY DEF Stats
<1>2. IsFiniteSet(IndexSpellings(x)) /\ IndexSpellings(x) \subseteq Words
  <2>1. IsFiniteSet(Spellings(x))
    BY StoreAssumption, WordsAssumption DEF Spellings
  <2>2. IndexSpellings(x) \subseteq Spellings(x) /\ Spellings(x) \subseteq Words
    BY DEF IndexSpellings, Spellings
  <2> QED
    BY <2>1, <2>2, FS_Subset
<1>3. \A y \in IndexSpellings(x) : f[y] = Cardinality(InClasses(Present, class, {y}))
  <2> SUFFICES ASSUME NEW y \in Words
               PROVE  {id \in Present : primary[id].category = y} = InClasses(Present, class, {y})
    BY <1>2
  <2> QED
    BY DEF InClasses
<1>4. InClasses(Present, class, IndexSpellings(x)) = {id \in Present : primary[id].category \in IndexSpellings(x)}
  BY DEF InClasses
<1>5. SumFunctionOnSet(f, IndexSpellings(x)) = Cardinality(InClasses(Present, class, IndexSpellings(x)))
  BY <1>2, <1>3, CountOfClasses
<1> QED
  BY <1>1, <1>4, <1>5, ListedByWord

LEMMA PrioritiesCounted ==
  ASSUME TypeOK, IndexExact, Stored, NEW x \in Priorities \ {NoWord}
  PROVE  SumFunctionOnSet(Stats.byPriority, Spellings(x)) = Cardinality(Listed(NoWord, x))
<1> PICK f, class : /\ f = [y \in Words |-> Cardinality({id \in Present : primary[id].priority = y})]
                    /\ class = [id \in Present |-> primary[id].priority]
  OBVIOUS
<1>1. Stats.byPriority = f
  BY DEF Stats
<1>2. IsFiniteSet(Spellings(x)) /\ Spellings(x) \subseteq Words
  BY StoreAssumption, WordsAssumption DEF Spellings
<1>3. \A y \in Spellings(x) : f[y] = Cardinality(InClasses(Present, class, {y}))
  <2> SUFFICES ASSUME NEW y \in Words
               PROVE  {id \in Present : primary[id].priority = y} = InClasses(Present, class, {y})
    BY <1>2
  <2> QED
    BY DEF InClasses
<1>4. InClasses(Present, class, Spellings(x)) = {id \in Present : primary[id].priority \in Spellings(x)}
  BY DEF InClasses
<1>5. SumFunctionOnSet(f, Spellings(x)) = Cardinality(InClasses(Present, class, Spellings(x)))
  BY <1>2, <1>3, CountOfClasses
<1> QED
  BY <1>1, <1>4, <1>5, ListedByWord

\* A search finds a category by its name.
LEMMA SearchFindsListed ==
  ASSUME TypeOK, IndexExact, Stored, NEW x \in Categories, NEW s \in Search(x)
  PROVE  Listed(x, NoWord) \subseteq Range(s)
<1> DEFINE S == Found(x)
           key == [id \in S |-> primary[id].score]
<1>1. s \in Descending(S, key)
  BY DEF Search, Sorted, SetToSeqs, Descending
<1>2. S \subseteq Present /\ IsFiniteSet(S)
  <2>1. S \subseteq Present
    BY DEF Found
  <2> QED
    BY <2>1, FS_Subset DEF Stored
<1>3. Listed(x, NoWord) \subseteq S
  <2> SUFFICES ASSUME NEW id \in Present, primary[id].category \in IndexSpellings(x) PROVE id \in S
    BY ListedByWord
  <2>1. x \in Words /\ primary[id].category \in Words /\ Lower[x] = Lower[primary[id].category]
    BY StoreAssumption DEF IndexSpellings, Spellings
  <2>2. primary[id].category \in Within[x]
    BY <2>1, WordsAssumption
  <2> QED
    BY <2>2 DEF Found
<1>4. \A id \in S : id \in Range(s)
  <2> HIDE DEF S, key
  <2>1. \A id \in S : \E j \in 1 .. Cardinality(S) : s[j] = id
    BY <1>1, <1>2, PlaceInOrder
  <2>2. DOMAIN s = 1 .. Cardinality(S)
    BY <1>1 DEF Descending
  <2> QED
    BY <2>1, <2>2 DEF Range
<1> QED
  BY <1>3, <1>4

LEMMA TopOrder ==
  TopCategories = {SubSeq(t, 1, IF Len(t) > TopCount THEN TopCount ELSE Len(t)) :
                     t \in Descending({x \in Words : Stats.byCategory[x] > 0}, Stats.byCategory)}
  BY DEF TopCategories, Sorted, SetToSeqs, Descending

\* A category that is left out comes behind those that are in.
LEMMA TopIsMostFrequent ==
  ASSUME TypeOK, Stored, NEW s \in TopCategories, NEW x \in Words \ Range(s), NEW i \in DOMAIN s
  PROVE  Stats.byCategory[x] <= Stats.byCategory[s[i]]
<1>c. PICK count : count = [y \in Words |-> Cardinality({id \in Present : primary[id].category = y})]
  OBVIOUS
<1>u. PICK used : used = {y \in Words : count[y] > 0}
  OBVIOUS
<1>1. Stats.byCategory = count /\ \A y \in Words : count[y] \in Nat
  <2>1. \A y \in Words : IsFiniteSet({id \in Present : primary[id].category = y})
    BY FS_Subset DEF Stored
  <2> QED
    BY <1>c, <2>1, FS_CardinalityType DEF Stats
<1>2. PICK t \in Descending(used, count) :
        s = SubSeq(t, 1, IF Len(t) > TopCount THEN TopCount ELSE Len(t))
  BY <1>1, <1>u, TopOrder
<1>3. IsFiniteSet(used)
  <2> DEFINE f == [id \in Present |-> primary[id].category]
             T == {f[id] : id \in Present}
  <2>1. IsFiniteSet(T)
    <3>1. f \in Surjection(Present, T)
      BY DEF Surjection
    <3> HIDE DEF f, T
    <3> QED
      BY <3>1, FS_Surjection DEF Stored
  <2>2. used \subseteq T
    <3> SUFFICES ASSUME NEW y \in Words, count[y] > 0 PROVE y \in T
      BY <1>u
    <3>1. {id \in Present : primary[id].category = y} # {}
      BY <1>c, FS_EmptySet
    <3> QED
      BY <3>1
  <2> QED
    BY <2>1, <2>2, FS_Subset
<1>n. PICK n : n = Cardinality(used)
  OBVIOUS
<1>4. /\ n \in Nat /\ t \in [1 .. n -> used] /\ t \in Seq(used) /\ Len(t) = n
      /\ \A j, k \in 1 .. n : j < k => count[t[j]] >= count[t[k]]
  <2>1. n \in Nat
    BY <1>3, <1>n, FS_CardinalityType
  <2>2. t \in [1 .. n -> used] /\ \A j, k \in 1 .. n : j < k => count[t[j]] >= count[t[k]]
    BY <1>2, <1>n DEF Descending
  <2> QED
    BY <2>1, <2>2
<1>m. PICK m : m = IF n > TopCount THEN TopCount ELSE n
  OBVIOUS
<1>5. m \in Nat /\ m <= n /\ s = SubSeq(t, 1, m)
  BY <1>2, <1>4, <1>m, ViewsAssumption
<1>6. DOMAIN s = 1 .. m /\ \A j \in 1 .. m : s[j] = t[j]
  BY <1>4, <1>5
<1>7. CASE count[x] = 0
  <2>1. s[i] \in Words
    BY <1>4, <1>5, <1>6, <1>u
  <2> QED
    BY <1>1, <1>7, <2>1
<1>8. CASE count[x] # 0
  <2>1. x \in used
    BY <1>1, <1>8, <1>u
  <2>2. PICK j \in 1 .. n : t[j] = x
    BY <1>2, <1>3, <1>n, <2>1, PlaceInOrder
  <2>3. j \notin 1 .. m
    BY <1>6, <2>2 DEF Range
  <2>4. i \in 1 .. n /\ i < j /\ s[i] = t[i]
    BY <1>4, <1>5, <1>6, <2>2, <2>3
  <2> QED
    BY <1>1, <1>4, <2>2, <2>4
<1> QED
  BY <1>7, <1>8

\* List goes by its index, Search by substrings, Stats by what is written, and
\* all of them tell of the same store, whatever it holds.
THEOREM AllReadersAgree == Spec => []ReadersAgree
<1>1. ASSUME TypeOK, IndexExact, Stored PROVE ReadersAgree
  <2>1. Stats.totalEvents = Cardinality(Listed(NoWord, NoWord))
    BY <1>1, ListedByWord DEF Stats
  <2> QED
    BY <1>1, <2>1, ScoresCounted, CategoriesCounted, PrioritiesCounted, SearchFindsListed,
       TopIsMostFrequent DEF ReadersAgree
<1> QED
  BY <1>1, StoredInit, StoreInit, StoreStep, StoredStep, PTL DEF Spec

=============================================================================
