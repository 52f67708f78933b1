------------------------------- MODULE Engine -------------------------------
(***************************************************************************)
(* The server as it is wired in cmd/api/main.go: requests that create      *)
(* events are published to the broker, the handler of the consumer group   *)
(* takes every message through the pipeline (internal/pipeline), whose     *)
(* last stage puts the event into the store, and the scheduler evicts      *)
(* what has expired.  Composes Broker with EventStore.                     *)
(*                                                                         *)
(* Where Broker lets a handler return what it likes, here it is the        *)
(* handler of main.go: its stages only read and write the event in hand,   *)
(* so everything up to Persist is one step.  No stage looks at the         *)
(* timeout of its context.  The clock, a local variable of the scheduler's *)
(* job and the two indices are those of EventStore.                        *)
(***************************************************************************)
EXTENDS Broker

CONSTANTS
  Requests,      \* bodies clients post: [name, category, mood]
  Blank,         \* the strings that TrimSpace empties
  Score,         \* FunScore of a request, weekend and tag bonus included
  TTL,           \* EnrichStage.TTL, from EVENT_TTL
  Priorities,    \* critical, high, medium, low
  Lower, Fold, MaxTime,   \* see EventStore
  MaxIds         \* bound of the model: number of UUIDs

ASSUME EngineAssumption ==
  /\ Requests \subseteq [name : STRING, category : Keys, mood : Int]
  /\ NoKey \in Blank
  /\ Score \in [Requests -> 0 .. 100]
  /\ {"critical", "high", "medium", "low"} \subseteq Priorities
  /\ TTL \in Int
  /\ MaxIds \in Nat

Ids == 1 .. MaxIds

VARIABLES
  primary, byCategory, byPriority, clock, now,   \* see EventStore
  accepted,   \* payload of every message: the request and its CreatedAt
  job,        \* per consumer goroutine: how far its handler is, and with what
  counters,   \* metrics.Collector.counters, those that count events
  uncounted,  \* publishers whose handler has not yet incremented events.published
  evicted,    \* result of EvictExpired the job has not yet added, 0 if none
  origin,     \* history: the message that every UUID was made for
  puts,       \* history: the ids that were put into the store
  deletes     \* history: number of events deleted through the API

storeVars == <<primary, byCategory, byPriority, clock, now>>
historyVars == <<origin, puts, deletes>>
engineVars == <<accepted, job, counters, uncounted, evicted>>
allVars == <<vars, storeVars, engineVars, historyVars>>

Store == INSTANCE EventStore WITH
  Words <- Keys \union Priorities \union {r.name : r \in Requests}, NoWord <- NoKey, Categories <- Keys \ {NoKey},
  Event <- [id : Ids, name : {r.name : r \in Requests}, category : Keys \ {NoKey},
            priority : Priorities, score : 0 .. 100, created : Nat, expires : Nat]

-----------------------------------------------------------------------------
(* The event model and the stages.                                         *)

\* WeekendEvent.Validate, run on the request and again as the first stage.
Valid(r) == r.name \notin Blank /\ r.category \notin Blank /\ r.mood \in 1 .. 10

\* Mutant of Tier: a score on the boundary is in the tier below.
TierAbove(score) ==
  CASE score > 80 -> "critical" [] score > 55 -> "high"
    [] score > 30 -> "medium"   [] OTHER -> "low"

\* ClassifyPriority.
Tier(score) ==
  CASE score >= 80 -> "critical" [] score >= 55 -> "high"
    [] score >= 30 -> "medium"   [] OTHER -> "low"

\* Mutant of Processed: the event expires TTL after it is processed.
ProcessedFromNow(a, id) ==
  [id |-> id, name |-> a.request.name, category |-> a.request.category,
   priority |-> Tier(Score[a.request]), score |-> Score[a.request], created |-> a.created,
   expires |-> IF TTL > 0 THEN clock + TTL ELSE 0]

\* Enrich, Score and Classify: a new id, the priority of the score, and the
\* expiry counted from CreatedAt, which the server set when it accepted.
Processed(a, id) ==
  [id |-> id, name |-> a.request.name, category |-> a.request.category,
   priority |-> Tier(Score[a.request]), score |-> Score[a.request], created |-> a.created,
   expires |-> IF TTL > 0 THEN a.created + TTL ELSE 0]

\* A handler that is not running or about to; with "persist" it is before its
\* last stage, with "done" or "failed" after its last.
Ready == [pc |-> "start", event |-> [id |-> 0]]

-----------------------------------------------------------------------------
EngineInit ==
  /\ Init
  /\ Store!Init
  /\ accepted = <<>>
  /\ job = [w \in Workers |-> Ready]
  /\ counters = [published |-> 0, runs |-> 0, processed |-> 0, failed |-> 0, expired |-> 0]
  /\ uncounted = {}
  /\ evicted = 0
  /\ origin = <<>>
  /\ puts = {}
  /\ deletes = 0

\* Mutant of CreateEvent: the request is published unseen.
CreateUnchecked(u, r) ==
  /\ u \notin uncounted
  /\ PublishBegin(u, r.category)
  /\ accepted' = Append(accepted, [request |-> r, created |-> clock])
  /\ UNCHANGED <<storeVars, job, counters, uncounted, evicted, historyVars>>

\* handleCreateEvent: a valid request gets its CreatedAt and is published,
\* keyed by its category.  Any other is answered 422 and changes nothing.
CreateEvent(u, r) ==
  /\ u \notin uncounted
  /\ Valid(r)
  /\ PublishBegin(u, r.category)
  /\ accepted' = Append(accepted, [request |-> r, created |-> clock])
  /\ UNCHANGED <<storeVars, job, counters, uncounted, evicted, historyVars>>

\* Publish goes on ...
Publishing(u) ==
  /\ \/ PublishAppend(u) /\ UNCHANGED uncounted
     \/ PublishCount(u) /\ uncounted' = uncounted \union {u}
  /\ UNCHANGED <<storeVars, accepted, job, counters, evicted, historyVars>>

\* ... and only when it has returned does the handler count the event.
CountPublished(u) ==
  /\ u \in uncounted
  /\ uncounted' = uncounted \ {u}
  /\ counters' = [counters EXCEPT !.published = @ + 1]
  /\ UNCHANGED <<vars, storeVars, accepted, job, evicted, historyVars>>

-----------------------------------------------------------------------------
(* The handler of the consumer group.                                      *)

\* Mutant of RunStages: Validate as a stage wants less than the API let in.
RunStagesStricter(w) ==
  LET a == accepted[Current(w).id]
      id == Len(origin) + 1
  IN
  /\ wpc[w] = "handle" /\ job[w] = Ready
  /\ id \in Ids
  /\ counters' = [counters EXCEPT !.runs = @ + 1]
  /\ IF Valid(a.request) /\ a.request.mood # 10
       THEN /\ job' = [job EXCEPT ![w] = [pc |-> "persist", event |-> Processed(a, id)]]
            /\ origin' = Append(origin, Current(w).id)
       ELSE /\ job' = [job EXCEPT ![w].pc = "failed"]
            /\ UNCHANGED origin
  /\ UNCHANGED <<vars, storeVars, accepted, uncounted, evicted, puts, deletes>>

\* The payload is decoded and runs through validate, enrich, score, classify.
\* The first error ends the run.  It is decoded to what was encoded: nothing else
\* publishes to the topic than CreateEvent, so the handler's return before
\* pipeline.runs, for a payload that is no event, is never taken and left out.
RunStages(w) ==
  LET a == accepted[Current(w).id]
      id == Len(origin) + 1
  IN
  /\ wpc[w] = "handle" /\ job[w] = Ready
  /\ id \in Ids
  /\ counters' = [counters EXCEPT !.runs = @ + 1]
  /\ IF Valid(a.request)
       THEN /\ job' = [job EXCEPT ![w] = [pc |-> "persist", event |-> Processed(a, id)]]
            /\ origin' = Append(origin, Current(w).id)
       ELSE /\ job' = [job EXCEPT ![w].pc = "failed"]
            /\ UNCHANGED origin
  /\ UNCHANGED <<vars, storeVars, accepted, uncounted, evicted, puts, deletes>>

\* The last stage: Store.Put.
Persist(w) ==
  /\ job[w].pc = "persist"
  /\ Store!Put(job[w].event)
  /\ puts' = puts \union {job[w].event.id}
  /\ job' = [job EXCEPT ![w].pc = "done"]
  /\ UNCHANGED <<vars, accepted, counters, uncounted, evicted, origin, deletes>>

\* Mutant of HandlerReturn: a successful run is reported as an error.
HandlerReturnErr(w) ==
  /\ job[w].pc \in {"done", "failed"}
  /\ HandlerErr(w)
  /\ counters' = [counters EXCEPT !.failed = @ + 1]
  /\ job' = [job EXCEPT ![w] = Ready]
  /\ UNCHANGED <<storeVars, accepted, uncounted, evicted, historyVars>>

\* The run is counted and the handler returns: nil, or the error of a stage.
HandlerReturn(w) ==
  /\ job[w].pc \in {"done", "failed"}
  /\ IF job[w].pc = "done"
       THEN HandlerOk(w) /\ counters' = [counters EXCEPT !.processed = @ + 1]
       ELSE HandlerErr(w) /\ counters' = [counters EXCEPT !.failed = @ + 1]
  /\ job' = [job EXCEPT ![w] = Ready]
  /\ UNCHANGED <<storeVars, accepted, uncounted, evicted, historyVars>>

\* The rest of consumePartition is the broker's.
BrokerLoop(w) ==
  /\ \/ Register(w) \/ GetOffset(w) \/ GetHit(w) \/ GetMiss(w) \/ Wake(w)
     \/ Stop(w) \/ DeadLetter(w) \/ Commit(w)
  /\ UNCHANGED <<storeVars, engineVars, historyVars>>

Subscribing(s) ==
  /\ Subscribe(s) \/ Cancel(s)
  /\ UNCHANGED <<storeVars, engineVars, historyVars>>

-----------------------------------------------------------------------------
(* Around the store: the API's delete and the scheduler's eviction job.    *)

\* handleDeleteEvent of an event that is there.
DeleteEvent(id) ==
  /\ Store!Delete(id)
  /\ deletes' = deletes + 1
  /\ UNCHANGED <<vars, engineVars, origin, puts>>

\* The job runs EvictExpired.  It is not run again before it has counted.
Evicting ==
  /\ evicted = 0
  /\ \/ Store!EvictStart /\ UNCHANGED evicted
     \/ Store!EvictExpired
        /\ evicted' = Cardinality(DOMAIN primary) - Cardinality(DOMAIN primary')
  /\ UNCHANGED <<vars, accepted, job, counters, uncounted, historyVars>>

\* Mutant of CountEvicted: one, however many were evicted.
CountOneEvicted ==
  /\ evicted # 0
  /\ counters' = [counters EXCEPT !.expired = @ + 1]
  /\ evicted' = 0
  /\ UNCHANGED <<vars, storeVars, accepted, job, uncounted, historyVars>>

\* It adds what was evicted to events.expired.
CountEvicted ==
  /\ evicted # 0
  /\ counters' = [counters EXCEPT !.expired = @ + evicted]
  /\ evicted' = 0
  /\ UNCHANGED <<vars, storeVars, accepted, job, uncounted, historyVars>>

Time == Store!Tick /\ UNCHANGED <<vars, engineVars, historyVars>>

-----------------------------------------------------------------------------
Handle(w) == RunStages(w) \/ Persist(w) \/ HandlerReturn(w)

EngineNext ==
  \/ \E u \in Publishers, r \in Requests : CreateEvent(u, r)
  \/ \E u \in Publishers : Publishing(u) \/ CountPublished(u)
  \/ \E w \in Workers : BrokerLoop(w) \/ Handle(w)
  \/ \E s \in Subscriptions : Subscribing(s)
  \/ \E id \in Ids : DeleteEvent(id)
  \/ Evicting \/ CountEvicted \/ Time

EngineSpec == EngineInit /\ [][EngineNext]_allVars

-----------------------------------------------------------------------------
(* Properties.                                                             *)

\* The ids under which the message m was put into the store.
StoredFor(m) == {id \in puts : origin[id] = m}

\* The message ids at the offsets of a partition.
IdAt(p, o) == log[p][o + 1].id

\* Nothing a client was told is queued ends up as a dead letter: what passed
\* validation in the API passes it again in the pipeline, whatever happens to
\* the event in between.
NoDeadLetters == dlq = <<>>

\* What the group has consumed was put into the store, and no message more
\* often than there are Subscribe calls of the group: exactly once in the
\* server, which has one.
StoredPerMessage ==
  \A c \in Cells : \A o \in 0 .. Len(log[c[2]]) - 1 :
    /\ o < offsets[c] => StoredFor(IdAt(c[2], o)) # {}
    /\ Cardinality(StoredFor(IdAt(c[2], o))) <= Cardinality(Subscriptions)

\* No reader of the store ever sees an event before all stages have worked on
\* it: it has the priority of its score, the category it was posted with and
\* a lifetime that began when it was accepted, however long it was queued.
StoredComplete ==
  \A id \in DOMAIN primary :
    LET e == primary[id]
        a == accepted[origin[id]]
    IN  /\ Valid(a.request)
        /\ e.category = a.request.category
        /\ e.priority = Tier(Score[a.request])
        /\ e.expires = IF TTL > 0 THEN a.created + TTL ELSE 0

\* The two counts of Stats that a dashboard shows side by side tell the same:
\* the score buckets of the store have the boundaries of the priority tiers of
\* the pipeline, which are written down elsewhere.
TiersMatchBuckets ==
  LET st == Store!Stats IN
  /\ st.byPriority["critical"] = st.scoreDistrib["80-100"]
  /\ st.byPriority["high"] = st.scoreDistrib["55-79"]
  /\ st.byPriority["medium"] = st.scoreDistrib["30-54"]
  /\ st.byPriority["low"] = st.scoreDistrib["0-29"]

\* The books balance at every moment.  Every run of the pipeline is under way,
\* processed or failed; events.published lags the broker's counter by the
\* requests about to count; and every event ever processed is in the store,
\* deleted, or evicted, up to the event just put and the eviction just made.
BooksBalance ==
  /\ counters.runs = counters.processed + counters.failed
                       + Cardinality({w \in Workers : job[w].pc # "start"})
  /\ counters.published + Cardinality(uncounted) = publishCount
  /\ Cardinality(DOMAIN primary) + deletes + counters.expired + evicted
       = counters.processed + Cardinality({w \in Workers : job[w].pc = "done"})

=============================================================================
