----------------------------- MODULE MCDashboard -----------------------------
(* An instance of Dashboard for TLC.  A behaviour is one of the table or one of *)
(* the search box, which share no variable: moving one while the other moves    *)
(* would add nothing but the product of their states.                           *)
EXTENDS Dashboard

CONSTANTS all, food, blank, hike, moon, r1, r2, d1

VARIABLE part

\* A table that has come to rest.
AtRest ==
  /\ totals = [f \in Filters |-> 1]
  /\ view = FirstView /\ table = <<Listing(FirstView)>> /\ loading = FALSE
  /\ fetches = [s \in Slots |-> << >>] /\ pending = [c \in Changes |-> << >>]

MCInit ==
  /\ SearchInit
  /\ \/ part = "table" /\ TableInit
     \/ part = "search" /\ AtRest

MCNext ==
  \/ part = "table" /\ TableNext /\ UNCHANGED <<searchVars, part>>
  \/ part = "search" /\ SearchNext /\ UNCHANGED <<tableVars, part>>

MCSpec ==
  /\ MCInit /\ [][MCNext]_<<tableVars, searchVars, part>>
  /\ part = "table" => TableFairness
  /\ SearchFairness      \* where only the table moves, nothing is searched

==============================================================================
