------------------------------ MODULE Dashboard ------------------------------
(***************************************************************************)
(* The dashboard page of the React frontend (frontend/src/App.tsx): the    *)
(* table of events with its filter and pages, refreshed every five         *)
(* seconds, and the search box.                                            *)
(*                                                                         *)
(* A request is answered some time after it was sent and its answer is     *)
(* applied some time after that, so requests overtake each other.          *)
(* fetchAll sends four requests and applies the four answers together, or  *)
(* none when one fails; it is one request here, of which the list counts.  *)
(* It asks for the filter and page of the render it was made in: the view. *)
(* Of an answered list the number of events that match is kept.  The page  *)
(* stays mounted.                                                          *)
(*                                                                         *)
(* Table and search box share no state but the choice of what is shown:    *)
(* while there are search results the table's controls are hidden, which   *)
(* only takes choices from the user.  So each has a specification of its   *)
(* own, and their properties hold of the page.                             *)
(***************************************************************************)
EXTENDS Integers, Sequences

CONSTANTS
  Filters, AllEvents,   \* choices of the two filters, and the first one
  Words,                \* what can be typed into the search box
  Blank,                \* what trim makes empty
  Matching,             \* words that the server finds events for
  PageSize,             \* 10
  MaxTotal,             \* bound of the model: matching events
  Slots,                \* bound of the model: requests of one kind under way
  Changes               \* bound of the model: deletes and creates under way

ASSUME DashboardAssumption ==
  /\ AllEvents \in Filters
  /\ Blank \in Words /\ Matching \subseteq Words \ {Blank}
  /\ PageSize \in Nat \ {0} /\ MaxTotal \in Nat

VARIABLES
  totals,     \* per filter: number of events the server would list
  view,       \* catFilter, priFilter and page
  loading,    \* nothing was answered yet, and only a spinner is shown
  table,      \* events: <<the answer>> that is shown, or << >>
  fetches,    \* per slot: a fetchAll under way, <<view>> when it is not answered and
              \* <<view, answer>> when it is, or << >>
  pending,    \* per change: <<view>> of the fetchAll that follows the delete or create,
              \* or << >> when there is none
  input,      \* searchQuery
  timer,      \* words the pending searchTimeout will send, or Blank
  searches,   \* per slot: words of a search under way, or Free
  results     \* searchResults: whose they are, Failed for [], or NoResults for null

tableVars == <<totals, view, loading, table, fetches, pending>>
searchVars == <<input, timer, searches, results>>

\* Marks of the model, which nobody types.
Free == "free"
NoResults == "no results"
Failed == "failed"

ASSUME MarkAssumption == Free \notin Words

FirstView == [filter |-> AllEvents, page |-> 1]

\* What the server answers to a list request now.
Listing(v) == [view |-> v, total |-> totals[v.filter]]

\* The table has rows, and buttons to turn its pages.
Rows == table # << >> /\ (table[1].view.page - 1) * PageSize < table[1].total

\* fetchAll of a render with view v begins.
Fetch(v) == \E s \in Slots :
  /\ fetches[s] = << >>
  /\ fetches' = [fetches EXCEPT ![s] = <<v>>]

-----------------------------------------------------------------------------
(* The table.                                                              *)

TableInit ==
  /\ totals \in [Filters -> 0 .. MaxTotal]
  /\ view = FirstView
  /\ loading = TRUE
  /\ table = << >>
  /\ \E s \in Slots :
       fetches = [t \in Slots |-> IF t = s THEN <<FirstView>> ELSE << >>]
  /\ pending = [c \in Changes |-> << >>]

\* Events come and go on the server.
ServerChanges ==
  /\ \E f \in Filters, n \in 0 .. MaxTotal : totals' = [totals EXCEPT ![f] = n]
  /\ UNCHANGED <<view, loading, table, fetches, pending>>

\* The view changes: the effect of the new fetchAll runs it, and the interval
\* is made again with it.
Show(v) == view' = v /\ Fetch(v) /\ UNCHANGED <<totals, loading, table, pending>>

\* Another filter, on its first page.
SetFilter(f) ==
  /\ ~loading
  /\ f # view.filter
  /\ Show([filter |-> f, page |-> 1])

\* The buttons below the rows: with the total of the table that is shown.
NextPage ==
  /\ Rows
  /\ view.page * PageSize < table[1].total
  /\ Show([view EXCEPT !.page = @ + 1])
PreviousPage ==
  /\ Rows
  /\ view.page > 1
  /\ Show([view EXCEPT !.page = @ - 1])

\* Mutants of Tick: the interval keeps the fetchAll of the first render, and it
\* is gone once the page has loaded.
TickOfFirst ==
  Fetch(FirstView) /\ UNCHANGED <<totals, view, loading, table, pending>>
TickUntilLoaded ==
  loading /\ Fetch(view) /\ UNCHANGED <<totals, view, loading, table, pending>>

\* Every five seconds: the interval has the fetchAll of the present view.
Tick == Fetch(view) /\ UNCHANGED <<totals, view, loading, table, pending>>

\* handleDelete of a row, or the modal's handleSubmit: the fetchAll that runs
\* when it is done is the one of the present render.
Change(c) ==
  /\ ~loading /\ pending[c] = << >>
  /\ pending' = [pending EXCEPT ![c] = <<view>>]
  /\ UNCHANGED <<totals, view, loading, table, fetches>>

\* The request succeeded, after which the list is fetched, or it failed.
Changed(c) ==
  /\ pending[c] # << >>
  /\ pending' = [pending EXCEPT ![c] = << >>]
  /\ Fetch(pending[c][1]) \/ UNCHANGED fetches
  /\ UNCHANGED <<totals, view, loading, table>>

\* The server reads its store ...
Answer(s) ==
  /\ Len(fetches[s]) = 1
  /\ fetches' = [fetches EXCEPT ![s] = Append(@, Listing(@[1]))]
  /\ UNCHANGED <<totals, view, loading, table, pending>>

\* ... and when the answer comes it is what the table shows.
Apply(s) ==
  /\ Len(fetches[s]) = 2
  /\ table' = <<fetches[s][2]>>
  /\ loading' = FALSE
  /\ fetches' = [fetches EXCEPT ![s] = << >>]
  /\ UNCHANGED <<totals, view, pending>>

\* Or it does not come, and the table stays.
Fail(s) ==
  /\ fetches[s] # << >>
  /\ loading' = FALSE
  /\ fetches' = [fetches EXCEPT ![s] = << >>]
  /\ UNCHANGED <<totals, view, table, pending>>

-----------------------------------------------------------------------------
(* The search.                                                             *)

SearchInit ==
  /\ input = Blank /\ timer = Blank /\ results = NoResults
  /\ searches = [s \in Slots |-> Free]

\* Mutant of Type: whether the box is empty is asked before the timer is cleared.
TypeKeepingTimer(q) ==
  /\ q # input
  /\ input' = q
  /\ timer' = IF q = Blank THEN timer ELSE q
  /\ results' = IF q = Blank THEN NoResults ELSE results
  /\ UNCHANGED <<searches>>

\* handleSearch: a keystroke.  The timer starts again; an empty box ends the
\* search.
Type(q) ==
  /\ q # input
  /\ input' = q /\ timer' = q
  /\ results' = IF q = Blank THEN NoResults ELSE results
  /\ UNCHANGED <<searches>>

\* Mutant of Search: while another search is under way none is begun.
SearchUnlessBusy(s) ==
  /\ timer # Blank /\ searches[s] = Free
  /\ searches' = IF \A t \in Slots : searches[t] = Free
                   THEN [searches EXCEPT ![s] = timer] ELSE searches
  /\ timer' = Blank
  /\ UNCHANGED <<input, results>>

\* After 300 ms without a keystroke.
Search(s) ==
  /\ timer # Blank /\ searches[s] = Free
  /\ searches' = [searches EXCEPT ![s] = timer]
  /\ timer' = Blank
  /\ UNCHANGED <<input, results>>

\* The answer, whatever the box says by now.  When the server found nothing its
\* list is null, and that is what searchResults is when there is no search.
Found(s) ==
  /\ searches[s] # Free
  /\ results' = IF searches[s] \in Matching THEN searches[s] ELSE NoResults
  /\ searches' = [searches EXCEPT ![s] = Free]
  /\ UNCHANGED <<input, timer>>

SearchFails(s) ==
  /\ searches[s] # Free
  /\ results' = Failed
  /\ searches' = [searches EXCEPT ![s] = Free]
  /\ UNCHANGED <<input, timer>>

-----------------------------------------------------------------------------
TableNext ==
  \/ ServerChanges
  \/ \E f \in Filters : SetFilter(f)
  \/ NextPage \/ PreviousPage \/ Tick
  \/ \E c \in Changes : Change(c) \/ Changed(c)
  \/ \E s \in Slots : Answer(s) \/ Apply(s) \/ Fail(s)

SearchNext ==
  \/ \E q \in Words : Type(q)
  \/ \E s \in Slots : Search(s) \/ Found(s) \/ SearchFails(s)

TableSpec == TableInit /\ [][TableNext]_tableVars
SearchSpec == SearchInit /\ [][SearchNext]_searchVars

\* The interval goes on, and requests do not fail for ever.  Nothing is asked
\* of the user.
TableFairness ==
  /\ WF_tableVars(Tick)
  /\ \A c \in Changes : WF_tableVars(Changed(c))
  /\ \A s \in Slots : SF_tableVars(Answer(s)) /\ SF_tableVars(Apply(s))

\* The timer goes off, and a search that was sent is answered or fails.
SearchFairness ==
  /\ WF_searchVars(\E s \in Slots : Search(s))
  /\ \A s \in Slots : WF_searchVars(Found(s) \/ SearchFails(s))

-----------------------------------------------------------------------------
(* Properties.                                                             *)

\* The view of every request that may still change the table.
UnderWay ==
  {f[1] : f \in ({pending[c] : c \in Changes} \union {fetches[s] : s \in Slots}) \ {<< >>}}

\* Views the user has left die out.  When no request for another view than the
\* chosen one is left, none is made before the user chooses again, be it by an
\* interval of an older render or after a delete, and a table of the chosen
\* view is not replaced by one of another.
NoFallingBack ==
  [][ UnderWay \subseteq {view} /\ view' = view
        => /\ UnderWay' \subseteq {view}
           /\ table # << >> /\ table[1].view = view => table'[1].view = view ]_tableVars

\* Answers come in any order, the refresh that a delete or a create ends with
\* may be for a view the user has left, and requests fail; but when the user
\* and the server come to rest, the table ends up showing the chosen view as
\* the server has it.
TableSettles ==
  <>[][UNCHANGED <<view, totals>>]_tableVars => <>[](table = <<Listing(view)>>)

\* What the user may be shown for the words in the box: what was found for them,
\* or no result, for which the code has two values, or none while it is empty.
Answers(q) ==
  IF q = Blank THEN {NoResults}
  ELSE IF q \in Matching THEN {q, Failed} ELSE {NoResults, Failed}

\* Searches under way for words that are no longer in the box.
OlderSearches == {searches[s] : s \in Slots} \ {Free, input}

\* Results of older words come from searches that were sent before the box was
\* changed, and from nowhere else.  When none of those is left, none is sent for
\* words that are gone, be it by a timer that outlived them, and once the box
\* has its results or is empty it keeps what it shows.
NoStaleReturn ==
  [][ OlderSearches = {} /\ input' = input
        => /\ OlderSearches' = {}
           /\ results \in Answers(input) => results' \in Answers(input) ]_searchVars

\* Words the user stops at are searched for and their answer is shown, whatever
\* searches are under way and whatever they left on the screen.  A later answer
\* to older words may replace it; no other search is made then.  It is said of
\* words that something is found for: no result looks like no search.
RestingWordsAnswered ==
  \A q \in Matching : timer = q ~> (input # q \/ results \in Answers(q))

==============================================================================
