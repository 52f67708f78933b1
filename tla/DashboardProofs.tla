--------------------------- MODULE DashboardProofs ---------------------------
(***************************************************************************)
(* Proofs about the dashboard page, for any filters, words, sizes of list  *)
(* and number of requests and changes under way: the table does not fall   *)
(* back to a view the user has left, nor the search box to results of      *)
(* older words, once the last request for those is answered.               *)
(***************************************************************************)
EXTENDS Dashboard, SequenceTheorems, TLAPS

-----------------------------------------------------------------------------
(* The table.  What makes an answer safe to apply is that it says for which *)
(* view it was asked.                                                       *)

Views == [filter : Filters, page : Nat \ {0}]

\* A fetchAll that is answered has the answer to what it asked.
Asked(f) ==
  \/ f = << >>
  \/ \E v \in Views : f = <<v>>
  \/ \E v \in Views, n \in Int : f = <<v, [view |-> v, total |-> n]>>

TableInv ==
  /\ view \in Views
  /\ totals \in [Filters -> Int]
  /\ DOMAIN pending = Changes
  /\ \A c \in Changes : pending[c] = << >> \/ \E v \in Views : pending[c] = <<v>>
  /\ DOMAIN fetches = Slots
  /\ \A s \in Slots : Asked(fetches[s])
  /\ table = << >> \/ \E v \in Views, n \in Int : table = <<[view |-> v, total |-> n]>>

\* The views under way, one by one.
LEMMA UnderWayViews ==
  \A v : v \in UnderWay <=> \/ \E c \in Changes : pending[c] # << >> /\ v = pending[c][1]
                            \/ \E s \in Slots : fetches[s] # << >> /\ v = fetches[s][1]
  BY DEF UnderWay

\* A request that begins is for its view, and leaves the others alone.
LEMMA FetchFacts ==
  ASSUME TableInv, NEW v \in Views, Fetch(v)
  PROVE  /\ DOMAIN fetches' = Slots
         /\ \A s \in Slots : fetches'[s] = fetches[s] \/ fetches'[s] = <<v>>
         /\ \A s \in Slots : Asked(fetches'[s])
<1>1. PICK s \in Slots : fetches' = [fetches EXCEPT ![s] = <<v>>]
  BY DEF Fetch
<1>2. Asked(<<v>>)
  BY DEF Asked
<1> QED
  BY <1>1, <1>2 DEF TableInv

\* The type of what the table is made of, and that an answer is for the view
\* that its request was made for.
LEMMA TableInitial == TableInit => TableInv
<1> SUFFICES ASSUME TableInit PROVE TableInv
  OBVIOUS
<1>1. FirstView \in Views
  BY DashboardAssumption DEF FirstView, Views
<1>2. PICK s \in Slots : fetches = [t \in Slots |-> IF t = s THEN <<FirstView>> ELSE << >>]
  BY DEF TableInit
<1>3. \A t \in Slots : fetches[t] = << >> \/ fetches[t] = <<FirstView>>
  BY <1>2
<1>4. \A t \in Slots : Asked(fetches[t])
  BY <1>1, <1>3 DEF Asked
<1>5. totals \in [Filters -> Int]
  BY DashboardAssumption DEF TableInit
<1> QED
  BY <1>1, <1>2, <1>4, <1>5 DEF TableInit, TableInv

\* Wherever the user goes is a view.
LEMMA ViewsOnly ==
  ASSUME TableInv
  PROVE  /\ \A f \in Filters : SetFilter(f) => view' \in Views /\ view' # view
         /\ NextPage => view' \in Views /\ view' # view
         /\ PreviousPage => view' \in Views /\ view' # view
<1>1. PICK g \in Filters, p \in Nat \ {0} : view = [filter |-> g, page |-> p]
  BY DEF TableInv, Views
<1>2. ASSUME NEW f \in Filters, SetFilter(f) PROVE view' \in Views /\ view' # view
  <2>1. f # view.filter /\ view' = [filter |-> f, page |-> 1]
    BY <1>2 DEF SetFilter, Show
  <2> QED
    BY <2>1 DEF Views
<1>3. ASSUME NextPage PROVE view' \in Views /\ view' # view
  <2>1. view' = [filter |-> g, page |-> p + 1]
    BY <1>1, <1>3 DEF NextPage, Show
  <2> QED
    BY <1>1, <2>1 DEF Views
<1>4. ASSUME PreviousPage PROVE view' \in Views /\ view' # view
  <2>1. view' = [filter |-> g, page |-> p - 1] /\ p > 1
    BY <1>1, <1>4 DEF PreviousPage, Show
  <2> QED
    BY <1>1, <2>1 DEF Views
<1> QED
  BY <1>2, <1>3, <1>4

\* What the server answers with.
LEMMA ListingFacts ==
  ASSUME TableInv, NEW v \in Views
  PROVE  \E n \in Int : Listing(v) = [view |-> v, total |-> n]
  BY DEF TableInv, Listing, Views

\* What Append makes of the view of a request.
LEMMA AppendOne == ASSUME NEW v, NEW a PROVE Append(<<v>>, a) = <<v, a>>
<1> PICK f : f = <<v>>
  OBVIOUS
<1> PICK g : g = <<v, a>>
  OBVIOUS
<1>1. f \in Seq({v, a}) /\ Append(f, a) \in Seq({v, a}) /\ g \in Seq({v, a})
  OBVIOUS
<1>2. Len(Append(f, a)) = 2 /\ Append(f, a)[1] = v /\ Append(f, a)[2] = a
  OBVIOUS
<1>3. Len(Append(f, a)) = Len(g) /\ \A i \in 1 .. 2 : Append(f, a)[i] = g[i]
  BY <1>2
<1>4. Append(f, a) = g
  BY <1>1, <1>2, <1>3, SeqEqual
<1> QED
  BY <1>4

\* A request under way is answered.
LEMMA AnswerFacts ==
  ASSUME TableInv, NEW s \in Slots, Answer(s)
  PROVE  \E v \in Views, n \in Int :
           /\ fetches[s] = <<v>>
           /\ fetches' = [fetches EXCEPT ![s] = <<v, [view |-> v, total |-> n]>>]
<1>1. Asked(fetches[s]) /\ Len(fetches[s]) = 1
  BY DEF TableInv, Answer
<1>2. fetches[s] # << >> /\ \A v, a : fetches[s] # <<v, a>>
  BY <1>1
<1>3. PICK v \in Views : fetches[s] = <<v>>
  BY <1>1, <1>2 DEF Asked
<1>4. PICK n \in Int : Listing(v) = [view |-> v, total |-> n]
  BY ListingFacts
<1>5. Append(<<v>>, Listing(v)) = <<v, Listing(v)>>
  BY AppendOne
<1>6. fetches' = [fetches EXCEPT ![s] = Append(<<v>>, Listing(v))]
  BY <1>3 DEF Answer
<1> QED
  BY <1>3, <1>4, <1>5, <1>6

\* What is applied is the answer to what was asked.
LEMMA ApplyFacts ==
  ASSUME TableInv, NEW s \in Slots, Apply(s)
  PROVE  \E v \in Views, n \in Int : fetches[s] = <<v, [view |-> v, total |-> n]>>
<1>1. Asked(fetches[s]) /\ Len(fetches[s]) = 2
  BY DEF Apply, TableInv
<1>2. Len(<< >>) # 2 /\ \A v : Len(<<v>>) # 2
  OBVIOUS
<1> QED
  BY <1>1, <1>2, Zenon DEF Asked

LEMMA TableStep == TableInv /\ [TableNext]_tableVars => TableInv'
<1> SUFFICES ASSUME TableInv, [TableNext]_tableVars PROVE TableInv'
  OBVIOUS
<1> USE DEF TableInv
<1>1. CASE ServerChanges
  BY <1>1, DashboardAssumption DEF ServerChanges, Asked
<1>2. ASSUME NEW v \in Views, Show(v) PROVE TableInv'
  BY <1>2, FetchFacts DEF Show
<1>3. ASSUME NEW f \in Filters, SetFilter(f) PROVE TableInv'
  BY <1>2, <1>3, ViewsOnly DEF SetFilter, Show
<1>4. CASE NextPage \/ PreviousPage
  BY <1>2, <1>4, ViewsOnly DEF NextPage, PreviousPage, Show
<1>5. CASE Tick
  BY <1>5, FetchFacts DEF Tick
<1>6. ASSUME NEW c \in Changes, Change(c) PROVE TableInv'
  BY <1>6 DEF Change
<1>7. ASSUME NEW c \in Changes, Changed(c) PROVE TableInv'
  <2>1. PICK v \in Views : pending[c] = <<v>>
    BY <1>7 DEF Changed
  <2>2. Fetch(v) \/ UNCHANGED fetches
    BY <1>7, <2>1 DEF Changed
  <2>3. DOMAIN fetches' = Slots /\ \A s \in Slots : Asked(fetches'[s])
    <3>1. CASE Fetch(v)
      BY <3>1, FetchFacts
    <3>2. CASE UNCHANGED fetches
      BY <3>2 DEF Asked
    <3> QED
      BY <2>2, <3>1, <3>2
  <2> QED
    BY <1>7, <2>3 DEF Changed
<1>8. ASSUME NEW s \in Slots, Answer(s) PROVE TableInv'
  <2>1. PICK v \in Views, n \in Int :
          fetches' = [fetches EXCEPT ![s] = <<v, [view |-> v, total |-> n]>>]
    BY <1>8, AnswerFacts
  <2>2. \A t \in Slots : Asked(fetches'[t])
    BY <2>1 DEF Asked
  <2> QED
    BY <1>8, <2>1, <2>2 DEF Answer
<1>9. ASSUME NEW s \in Slots, Apply(s) PROVE TableInv'
  <2>1. PICK v \in Views, n \in Int : fetches[s] = <<v, [view |-> v, total |-> n]>>
    BY <1>9, ApplyFacts
  <2>2. \A t \in Slots : Asked(fetches'[t])
    BY <1>9 DEF Apply, Asked
  <2> QED
    BY <1>9, <2>1, <2>2 DEF Apply
<1>10. ASSUME NEW s \in Slots, Fail(s) PROVE TableInv'
  <2>1. \A t \in Slots : Asked(fetches'[t])
    BY <1>10 DEF Fail, Asked
  <2> QED
    BY <1>10, <2>1 DEF Fail
<1>11. CASE UNCHANGED tableVars
  BY <1>11 DEF tableVars
<1> QED
  BY <1>1, <1>3, <1>4, <1>5, <1>6, <1>7, <1>8, <1>9, <1>10, <1>11 DEF TableNext

\* Of the chosen view: what is under way, and the table if it is of that view.
NoReturn ==
  UnderWay \subseteq {view} /\ view' = view
    => /\ UnderWay' \subseteq {view}
       /\ table # << >> /\ table[1].view = view => table'[1].view = view

\* Once nothing of another view is under way, nothing of another view comes.
LEMMA NoReturnStep == TableInv /\ [TableNext]_tableVars => NoReturn
<1> SUFFICES ASSUME TableInv, [TableNext]_tableVars, UnderWay \subseteq {view}, view' = view
             PROVE  /\ UnderWay' \subseteq {view}
                    /\ table # << >> /\ table[1].view = view => table'[1].view = view
  BY DEF NoReturn
<1> DEFINE Kept == \A s \in Slots : fetches'[s] # << >> => fetches'[s][1] = view
           Waited == \A c \in Changes : pending'[c] # << >> => pending'[c][1] = view
<1>1. /\ \A c \in Changes : pending[c] # << >> => pending[c][1] = view
      /\ \A s \in Slots : fetches[s] # << >> => fetches[s][1] = view
  BY UnderWayViews
<1>2. Kept /\ Waited => UnderWay' \subseteq {view}
  BY DEF UnderWay
<1>3. view \in Views
  BY DEF TableInv
<1>4. ASSUME Fetch(view) PROVE Kept
  <2>1. \A s \in Slots : fetches'[s] = fetches[s] \/ fetches'[s] = <<view>>
    BY <1>3, <1>4, FetchFacts
  <2> QED
    BY <2>1, <1>1
<1>5. CASE ServerChanges \/ UNCHANGED tableVars
  BY <1>1, <1>2, <1>5 DEF ServerChanges, tableVars
<1>6. ~NextPage /\ ~PreviousPage /\ \A f \in Filters : ~SetFilter(f)
  BY ViewsOnly
<1>7. CASE Tick
  BY <1>1, <1>2, <1>4, <1>7 DEF Tick
<1>8. ASSUME NEW c \in Changes, Change(c) PROVE Kept /\ Waited /\ UNCHANGED table
  <2>1. \A d \in Changes : pending'[d] = pending[d] \/ pending'[d] = <<view>>
    BY <1>8 DEF Change, TableInv
  <2> QED
    BY <2>1, <1>1, <1>8 DEF Change
<1>9. ASSUME NEW c \in Changes, Changed(c) PROVE Kept /\ Waited /\ UNCHANGED table
  <2>1. \A d \in Changes : pending'[d] = pending[d] \/ pending'[d] = << >>
    BY <1>9 DEF Changed, TableInv
  <2>2. pending[c][1] = view
    BY <1>1, <1>9 DEF Changed
  <2>3. Kept
    BY <1>1, <1>4, <1>9, <2>2 DEF Changed
  <2> QED
    BY <2>1, <2>3, <1>1, <1>9 DEF Changed
<1>10. ASSUME NEW s \in Slots, Answer(s)
       PROVE  Kept /\ Waited /\ UNCHANGED table
  <2>1. PICK v \in Views, n \in Int :
          /\ fetches[s] = <<v>>
          /\ fetches' = [fetches EXCEPT ![s] = <<v, [view |-> v, total |-> n]>>]
    BY <1>10, AnswerFacts
  <2>2. v = view
    BY <2>1, <1>1
  <2>3. \A t \in Slots : fetches'[t] = fetches[t] \/ fetches'[t][1] = view
    BY <2>1, <2>2 DEF TableInv
  <2> QED
    BY <2>3, <1>1, <1>10 DEF Answer
<1>11. ASSUME NEW s \in Slots, Apply(s)
       PROVE  Kept /\ Waited /\ table'[1].view = view
  <2>1. PICK v \in Views, n \in Int : fetches[s] = <<v, [view |-> v, total |-> n]>>
    BY <1>11, ApplyFacts
  <2>2. v = view
    BY <2>1, <1>1
  <2>3. \A t \in Slots : fetches'[t] = fetches[t] \/ fetches'[t] = << >>
    BY <1>11 DEF Apply, TableInv
  <2> QED
    BY <2>1, <2>2, <2>3, <1>1, <1>11 DEF Apply
<1>12. ASSUME NEW s \in Slots, Fail(s)
       PROVE  Kept /\ Waited /\ UNCHANGED table
  <2>1. \A t \in Slots : fetches'[t] = fetches[t] \/ fetches'[t] = << >>
    BY <1>12 DEF Fail, TableInv
  <2> QED
    BY <2>1, <1>1, <1>12 DEF Fail
<1> QED
  BY <1>2, <1>5, <1>6, <1>7, <1>8, <1>9, <1>10, <1>11, <1>12 DEF TableNext

\* When only requests of the chosen view are under way, none of another is made
\* before the user chooses again, and a table of the chosen view stays one.
THEOREM TableStaysChosen == TableSpec => NoFallingBack
<1>1. TableSpec => []TableInv
  BY TableInitial, TableStep, PTL DEF TableSpec
<1>2. TableInv /\ [TableNext]_tableVars => [NoReturn]_tableVars
  BY NoReturnStep
<1> QED
  BY <1>1, <1>2, PTL DEF TableSpec, NoFallingBack, NoReturn

-----------------------------------------------------------------------------
(* The search box.  Nothing blank is ever searched for, and the timer has   *)
(* the words of the box.                                                    *)

SearchInv ==
  /\ input \in Words
  /\ timer \in {Blank, input}
  /\ DOMAIN searches = Slots
  /\ \A s \in Slots : searches[s] = Free \/ searches[s] \in Words \ {Blank}

LEMMA SearchStep == SearchInv /\ [SearchNext]_searchVars => SearchInv'
<1> SUFFICES ASSUME SearchInv, [SearchNext]_searchVars PROVE SearchInv'
  OBVIOUS
<1> USE DashboardAssumption, MarkAssumption DEF SearchInv
<1>1. ASSUME NEW q \in Words, Type(q) PROVE SearchInv'
  BY <1>1 DEF Type
<1>2. ASSUME NEW s \in Slots, Search(s) PROVE SearchInv'
  BY <1>2 DEF Search
<1>3. ASSUME NEW s \in Slots, Found(s) \/ SearchFails(s) PROVE SearchInv'
  BY <1>3 DEF Found, SearchFails
<1>4. CASE UNCHANGED searchVars
  BY <1>4 DEF searchVars
<1> QED
  BY <1>1, <1>2, <1>3, <1>4 DEF SearchNext

\* The searches under way are all for the words in the box.
LEMMA NoOlder ==
  OlderSearches = {} <=> \A s \in Slots : searches[s] \in {Free, input}
  BY DEF OlderSearches

\* What NoStaleReturn says of a step.
NoStale ==
  OlderSearches = {} /\ input' = input
    => /\ OlderSearches' = {}
       /\ results \in Answers(input) => results' \in Answers(input)

\* An answer that comes is for the words in the box, which are not blank then,
\* and a search that is sent is for what the timer has of it.
LEMMA NoStaleStep == SearchInv /\ [SearchNext]_searchVars => NoStale
<1> SUFFICES ASSUME SearchInv, [SearchNext]_searchVars,
                    \A s \in Slots : searches[s] \in {Free, input}, input' = input
             PROVE  /\ \A s \in Slots : searches'[s] \in {Free, input}
                    /\ results \in Answers(input) => results' \in Answers(input)
  BY NoOlder DEF NoStale, OlderSearches
<1> USE DEF SearchInv
<1>1. ~\E q \in Words : Type(q)
  BY DEF Type
<1>2. ASSUME NEW s \in Slots, Search(s)
      PROVE  (\A t \in Slots : searches'[t] \in {Free, input}) /\ UNCHANGED results
  BY <1>2 DEF Search
<1>3. ASSUME NEW s \in Slots, Found(s) \/ SearchFails(s)
      PROVE  /\ \A t \in Slots : searches'[t] \in {Free, input}
             /\ results' \in Answers(input)
  <2>1. searches[s] = input /\ input # Blank
    BY <1>3 DEF Found, SearchFails
  <2>2. results' \in Answers(input)
    BY <1>3, <2>1 DEF Found, SearchFails, Answers
  <2>3. \A t \in Slots : searches'[t] \in {Free, input}
    BY <1>3 DEF Found, SearchFails
  <2> QED
    BY <2>2, <2>3
<1>4. CASE UNCHANGED searchVars
  BY <1>4 DEF searchVars
<1> QED
  BY <1>1, <1>2, <1>3, <1>4 DEF SearchNext

\* When no search for older words is left under way, no timer sends one, and the
\* results of the box, or its blank list, stay until the user types again.
THEOREM OlderWordsStayGone == SearchSpec => NoStaleReturn
<1>1. SearchInit => SearchInv
  BY DashboardAssumption DEF SearchInit, SearchInv
<1>2. SearchInv /\ [SearchNext]_searchVars => [NoStale]_searchVars
  BY NoStaleStep
<1> QED
  BY <1>1, <1>2, SearchStep, PTL DEF SearchSpec, NoStaleReturn, NoStale

=============================================================================
