----------------------------- MODULE EventViews -----------------------------
(***************************************************************************)
(* The reading methods of the event store that arrange what they find:     *)
(* List with its sort and its pages, Search, and the top categories of     *)
(* Stats.  Each reads under the read lock and so sees one state.           *)
(*                                                                         *)
(* sort.Slice is not stable and the order it is given is that of a Go map, *)
(* so a result is one of a set: every order the comparison allows.         *)
(***************************************************************************)
EXTENDS EventStore, SequencesExt

CONSTANTS
  Within,         \* Within[q]: the words whose lower case contains that of q
  MaxInt,         \* the largest int: 2^63 - 1
  MaxLimit, DefaultLimit,   \* of a page: 100 and 20
  TopCount        \* top categories: 5

ASSUME ViewsAssumption ==
  /\ Within \in [Words -> SUBSET Words]
  /\ MaxInt \in Nat /\ MaxLimit \in Nat /\ TopCount \in Nat
  /\ DefaultLimit \in 1 .. MaxLimit
  /\ MaxLimit <= MaxInt

\* A word contains itself, and few words differ from it in case only.
ASSUME WordsAssumption ==
  /\ \A x, y \in Words : Lower[x] = Lower[y] => y \in Within[x]
  /\ \A x \in Words : IsFiniteSet({y \in Words : Fold[y] = Fold[x]})

\* An int wraps around.
Int64(n) == ((n + MaxInt + 1) % (2 * (MaxInt + 1))) - (MaxInt + 1)

\* sort.Slice of S in descending order of By, with equal elements in any order.
Sorted(S, By(_)) ==
  {s \in SetToSeqs(S) : \A i, j \in DOMAIN s : i < j => By(s[i]) >= By(s[j])}

\* Newest first.
ByCreation(S) == Sorted(S, LAMBDA id : primary[id].created)

-----------------------------------------------------------------------------
(* List: the filter, the number of the page and its limit come from the    *)
(* URL, where Atoi makes zero of what is not a number.                     *)

PageOf(page) == IF page < 1 THEN 1 ELSE page
LimitOf(limit) == IF limit < 1 \/ limit > MaxLimit THEN DefaultLimit ELSE limit

\* Mutant of Start: pages are counted from zero.
StartFromZero(page, limit) == Int64(PageOf(page) * LimitOf(limit))

\* The position of the page among the candidates, as an int.
Start(page, limit) == Int64((PageOf(page) - 1) * LimitOf(limit))

\* What List may return: the ids on the page.  There is nothing it returns when
\* the slice begins before its array does: it panics, and Recovery answers 500.
Page(cat, pri, page, limit) ==
  LET listed == Listed(cat, pri)
      total == Cardinality(listed)
      start == Start(page, limit)
      end == IF start + LimitOf(limit) > total THEN total ELSE start + LimitOf(limit)
  IN  CASE start >= total -> {<< >>}
        [] start < 0      -> {}
        [] OTHER          -> {SubSeq(s, start + 1, end) : s \in ByCreation(listed)}

-----------------------------------------------------------------------------
(* Search and the top categories.                                          *)

\* What Search looks through: names and categories, in lower case.
Found(q) == {id \in Present : {primary[id].name, primary[id].category} \intersect Within[q] # {}}

\* The best score comes first.
Search(q) == Sorted(Found(q), LAMBDA id : primary[id].score)

\* Stats.TopCategories: the categories in use, the most frequent first.
TopCategories ==
  LET count == Stats.byCategory
      used == {x \in Words : count[x] > 0}
  IN  {SubSeq(s, 1, IF Len(s) > TopCount THEN TopCount ELSE Len(s)) :
         s \in Sorted(used, LAMBDA x : count[x])}

-----------------------------------------------------------------------------
(* Properties.                                                             *)

\* What a page of up to MaxLimit events from `first` on must be, told by rank
\* instead of sorting: fewer than n of all listed are newer than the n-th, and
\* at least n, itself among them, are not older.
IsPageFrom(r, listed, first, limit) ==
  /\ Len(r) = (IF Cardinality(listed) - first < 0 THEN 0
               ELSE IF Cardinality(listed) - first > limit THEN limit
               ELSE Cardinality(listed) - first)
  /\ IsInjective(r) /\ Range(r) \subseteq listed
  /\ \A i \in DOMAIN r :
       /\ Cardinality({id \in listed : primary[id].created > primary[r[i]].created}) < first + i
       /\ Cardinality({id \in listed : primary[id].created >= primary[r[i]].created}) >= first + i

\* Every page of every list holds the events that belong on it, whatever order
\* the map, the index and the unstable sort came up with, and there is one: the
\* comparison can be satisfied and nothing panics.  With a page size
\* the server does not accept it is as good a page of the default size.  It is
\* said of pages whose position is an int, up to the very last one: beyond it
\* the multiplication wraps around.
PagesExact ==
  \A cat \in Categories \union {NoWord}, pri \in Priorities :
    \A page \in 0 .. MaxInt, limit \in 0 .. MaxLimit + 1 :
      LET first == (PageOf(page) - 1) * LimitOf(limit) IN
      first <= MaxInt =>
        /\ Page(cat, pri, page, limit) # {}
        /\ \A r \in Page(cat, pri, page, limit) :
             IsPageFrom(r, Listed(cat, pri), first, LimitOf(limit))

\* The spellings of a word that EqualFold does not tell apart, and those of them
\* that an index does not tell apart either.
Spellings(x) == {y \in Words : Fold[y] = Fold[x]}
IndexSpellings(x) == {y \in Spellings(x) : Lower[y] = Lower[x]}

\* List by category goes through an index, List by priority scans, Search looks
\* for substrings, Stats counts words as they are written, and all of them tell
\* of the same store: the list of a word has as many events as Stats counts
\* under the spellings that this way of listing finds, the score buckets add up
\* to all events, what is listed under a category is found by searching for it,
\* and no category that is left out of the top ones is more frequent than one of
\* them.
ReadersAgree ==
  /\ Stats.totalEvents = Cardinality(Listed(NoWord, NoWord))
  /\ SumFunction(Stats.scoreDistrib) = Stats.totalEvents
  /\ \A x \in Categories :
       /\ SumFunctionOnSet(Stats.byCategory, IndexSpellings(x)) = Cardinality(Listed(x, NoWord))
       /\ \A s \in Search(x) : Listed(x, NoWord) \subseteq Range(s)
  /\ \A x \in Priorities \ {NoWord} :
       SumFunctionOnSet(Stats.byPriority, Spellings(x)) = Cardinality(Listed(NoWord, x))
  /\ \A s \in TopCategories : \A x \in Words \ Range(s), i \in DOMAIN s :
       Stats.byCategory[x] <= Stats.byCategory[s[i]]

=============================================================================
