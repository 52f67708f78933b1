------------------------------- MODULE Server -------------------------------
(***************************************************************************)
(* The life of the server process: Engine with what starts and stops it.   *)
(* main (cmd/api/main.go) starts the scheduler's jobs, subscribes the      *)
(* pipeline, serves requests until a signal cancels the one context they   *)
(* all share, gives the requests under way ten seconds, waits for the jobs *)
(* and returns, whatever the broker's goroutines are doing.                *)
(*                                                                         *)
(* The jobs are goroutines of internal/scheduler: an initial jitter, then  *)
(* a select between the context and the ticker.  Go's select picks one at  *)
(* random when both are ready.  Of the job that sets the gauges only the   *)
(* time it takes is kept.  Requests come on connections that were accepted *)
(* while main served; Shutdown waits for them, not for new ones.           *)
(***************************************************************************)
EXTENDS Engine

ASSUME OneSubscription == \E s \in Subscriptions : Subscriptions = {s}

VARIABLES
  main,       \* where main is
  phase,      \* per job of the scheduler: where its goroutine is
  timedOut    \* Shutdown returned before all requests were answered

serverVars == <<allVars, main, phase, timedOut>>

Eviction == "ttl-eviction"
Jobs == {Eviction, "metrics-snapshot"}

Signalled == cancelled # {}
InFlight == uncounted \union {u \in Publishers : ppc[u] # "idle"}

Proceed(j, p) == phase' = [phase EXCEPT ![j] = p]

-----------------------------------------------------------------------------
ServerInit ==
  /\ EngineInit
  /\ main = "start"
  /\ phase = [j \in Jobs |-> "none"]
  /\ timedOut = FALSE

\* Scheduler.Start: one goroutine for every job.
StartJobs ==
  /\ main = "start"
  /\ main' = "subscribe"
  /\ phase' = [j \in Jobs |-> "jitter"]
  /\ UNCHANGED <<allVars, timedOut>>

\* Subscribe, and the listener is started.
SubscribePipeline ==
  /\ main = "subscribe"
  /\ \E s \in Subscriptions : Subscribe(s)
  /\ main' = "serving"
  /\ UNCHANGED <<storeVars, engineVars, historyVars, phase, timedOut>>

\* The context is cancelled for everybody who has it, at any time.
Signal ==
  /\ \E s \in Subscriptions : Cancel(s)
  /\ UNCHANGED <<storeVars, engineVars, historyVars, main, phase, timedOut>>

-----------------------------------------------------------------------------
(* The scheduler's goroutines.                                             *)

\* The jitter is over.
JobReady(j) ==
  /\ phase[j] = "jitter"
  /\ Proceed(j, "select")
  /\ UNCHANGED <<allVars, main, timedOut>>

\* Mutant of JobStop: the context is looked at before the first tick only.
JobStopEarly(j) ==
  /\ phase[j] = "jitter"
  /\ Signalled
  /\ Proceed(j, "over")
  /\ UNCHANGED <<allVars, main, timedOut>>

\* The jitter and the wait for the next tick both end with the context.
JobStop(j) ==
  /\ phase[j] \in {"jitter", "select"}
  /\ Signalled
  /\ Proceed(j, "over")
  /\ UNCHANGED <<allVars, main, timedOut>>

\* A tick: the function of the job begins.
JobTick(j) ==
  /\ phase[j] = "select"
  /\ Proceed(j, "body")
  /\ UNCHANGED <<allVars, main, timedOut>>

\* The function returns, or panics and is recovered: the loop goes on.  That
\* of the eviction has the steps of Engine, which end when nothing is left to
\* count.
JobBody(j) ==
  /\ phase[j] = "body"
  /\ IF j = Eviction
       THEN /\ Evicting \/ CountEvicted
            /\ IF evicted' = 0 /\ now' = -1 THEN Proceed(j, "select") ELSE UNCHANGED phase
       ELSE Proceed(j, "select") /\ UNCHANGED allVars
  /\ UNCHANGED <<main, timedOut>>

-----------------------------------------------------------------------------
(* Requests, and the end.                                                  *)

\* A connection on which a request can still come or be answered.
Connected == main \in {"serving", "draining"} \/ timedOut

Request ==
  /\ \/ /\ Connected
        /\ \/ \E u \in Publishers, r \in Requests : CreateEvent(u, r)
           \/ \E id \in Ids : DeleteEvent(id)
     \/ \E u \in Publishers : Publishing(u) \/ CountPublished(u)
  /\ UNCHANGED <<main, phase, timedOut>>

Worker(w) ==
  /\ BrokerLoop(w) \/ Handle(w)
  /\ UNCHANGED <<main, phase, timedOut>>

Passing == Time /\ UNCHANGED <<main, phase, timedOut>>

\* main sees the context done and calls Shutdown ...
BeginDrain ==
  /\ main = "serving"
  /\ Signalled
  /\ main' = "draining"
  /\ UNCHANGED <<allVars, phase, timedOut>>

\* ... which returns when no request is under way ...
DrainDone ==
  /\ main = "draining"
  /\ InFlight = {}
  /\ main' = "waiting"
  /\ UNCHANGED <<allVars, phase, timedOut>>

\* ... or after ten seconds, be it for a request that is still being published or
\* for one that the model does not show: a read, or a body that has not come yet.
DrainTimeout ==
  /\ main = "draining"
  /\ main' = "waiting"
  /\ timedOut' = TRUE
  /\ UNCHANGED <<allVars, phase>>

\* Mutant of Exit: main does not wait for the jobs.
ExitAtOnce ==
  /\ main = "waiting"
  /\ main' = "exited"
  /\ UNCHANGED <<allVars, phase, timedOut>>

\* Scheduler.Wait returns when every job has, and with main the process ends.
Exit ==
  /\ main = "waiting"
  /\ \A j \in Jobs : phase[j] = "over"
  /\ main' = "exited"
  /\ UNCHANGED <<allVars, phase, timedOut>>

-----------------------------------------------------------------------------
ServerNext ==
  /\ main # "exited"
  /\ \/ StartJobs \/ SubscribePipeline \/ Signal
     \/ \E j \in Jobs : JobReady(j) \/ JobStop(j) \/ JobTick(j) \/ JobBody(j)
     \/ Request \/ \E w \in Workers : Worker(w)
     \/ Passing
     \/ BeginDrain \/ DrainDone \/ DrainTimeout \/ Exit

ServerSpec == ServerInit /\ [][ServerNext]_serverVars

Running(A) == main # "exited" /\ A

\* Goroutines that can go on do, and a request that was begun goes on.  No
\* request and no signal has to come.  Shutdown returns in the one way or the
\* other.  A job in its select stops when it
\* may again and again, for the choice between context and ticker is random.
ServerFairSpec ==
  /\ ServerSpec
  /\ WF_serverVars(StartJobs \/ SubscribePipeline \/ BeginDrain \/ DrainDone \/ DrainTimeout
                   \/ Exit)
  /\ \A j \in Jobs : /\ WF_serverVars(Running(JobReady(j) \/ JobTick(j) \/ JobBody(j)))
                     /\ SF_serverVars(Running(JobStop(j)))
  /\ \A u \in Publishers : WF_serverVars(Running(
       (Publishing(u) \/ CountPublished(u)) /\ UNCHANGED <<main, phase, timedOut>>))
  /\ \A w \in Workers : WF_serverVars(Running(Worker(w)))
  /\ WF_serverVars(Running(Passing))

-----------------------------------------------------------------------------
(* Properties.                                                             *)

\* What main waits for is over when it returns: no job is cut off, so every
\* event that was evicted is counted, and unless Shutdown timed out no request
\* is left without its answer and its count.
ExitAfterJobs ==
  main = "exited" =>
    /\ now = -1 /\ evicted = 0
    /\ timedOut \/ (InFlight = {} /\ counters.published = publishCount)

\* A signal ends the process, whatever the jobs, the requests and the broker's
\* goroutines are doing when it comes, even before the server serves.
ShutdownTerminates == Signalled ~> main = "exited"

\* As long as no signal comes, every accepted event is stored in the end ...
AcceptedIsStored ==
  \A m \in 1 .. MaxPublished : m <= Len(accepted) ~> (StoredFor(m) # {} \/ Signalled)

\* ... and leaves the store when its time is over.
ExpiredIsEvicted ==
  \A id \in Ids :
    (id \in DOMAIN primary /\ Store!Expired(primary[id], clock))
      ~> (id \notin DOMAIN primary \/ Signalled)

=============================================================================
