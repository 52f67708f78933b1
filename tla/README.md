# Weekend Engine: specification and proofs

TLA+ models of the Go program in `src/`, the TLC configurations that check them, and TLAPS
proofs about them. A comment above every definition names the code it stands for;
`PROJECT.json` (`map`) gives the lines.

## The system

| Component | State | Operations | Hard behaviour |
|---|---|---|---|
| Broker (`internal/broker`) | per topic: partition logs, dead-letter queue, notification channels, consumer groups with committed offsets; publish counters | Publish, Subscribe and its goroutines, Replay, DLQ, GetStats, QueueDepth | goroutines on the same partition, wake-ups, retries, late commits, cancellation |
| Event store (`internal/storage`) | events by id, ids by category and by priority | Put, Get, Delete, List, Search, EvictExpired, Stats | indices in step with the events, eviction with a time read before locking |
| Event model (`internal/events`) | none | validation, classification, filter | |
| Pipeline (`internal/pipeline`) | none but the event it works on | Run: validate, enrich, score, classify, persist | redelivery after a partial run, timeouts nobody looks at |
| Metrics (`internal/metrics`) | counters, rings of latencies | Inc, Add, Set, RecordLatency, Snapshot | creation under two locks, snapshots beside increments |
| Scheduler (`internal/scheduler`) | jobs, wait group | Add, Start, Wait | jitter, recovery of a job, stopping |
| Middleware (`internal/middleware`) | token buckets by client | the chain of handlers | bucket arithmetic, what is counted |
| API server, worker (`cmd`) | wiring, context | routes, startup, shutdown | order of shutdown, several Subscribe calls per group |
| Configuration (`internal/config`) | read once | Load | values that parse but mean nothing |
| Dashboard (`frontend`) | React state of the last responses | refresh, search, filters | responses out of order, closures of older renders |

The API server publishes an accepted event to the broker, keyed by its category. A goroutine
per partition takes it through the pipeline, whose last stage puts it into the store. HTTP
reads go to the store, the metrics and the broker's reading calls. The scheduler runs eviction
every 30 seconds and copies store size and queue depth into gauges every 10. The worker
binary wires the same parts to a broker of its own and calls Subscribe `WorkerCount` times.

What makes each part correct:

* broker: no message is skipped, none is slept through, a goroutine goes forward only, a
  dead letter is really given up, offsets never move back, everything is eventually consumed;
* store: indices exact, listing through them complete, eviction of what is expired only;
* pipeline with broker and store: what is accepted is stored, once if nothing fails;
* reading: every page holds the events that belong on it, and list, search and statistics
  agree with one another;
* metrics: no call lost, snapshots no further torn than the time they take, percentiles of the
  last samples; middleware: never more than burst + rate·time requests pass in any window, and
  who waits is served;
* scheduler and shutdown: a signal ends the process, and no job is cut off;
* dashboard: at rest the table is the server's list in the chosen view; words the user stops at are
  searched for and answered, and words that are gone do not come back by a new search.

## Modules

| Module | What it is |
|---|---|
| `Broker` | one topic: Publish, Subscribe, consumePartition, cancellation, and their properties |
| `GroupLog` | the abstract promise of the broker to its groups |
| `BrokerRefinement` | the mapping from `Broker` to `GroupLog` |
| `BrokerProofs` | the inductive invariants of `Broker`, the safety theorems and the refinement |
| `BrokerViews` | `Broker` with readers in Replay, GetStats and QueueDepth |
| `ViewsProofs` | proofs about what those readers return |
| `EventStore` | the store, its indices and eviction |
| `EventViews` | the methods of the store that arrange what they find: pages of List, Search, top categories |
| `EventStoreProofs` | proofs about both |
| `Engine` | the server: API, `Broker`, pipeline, `EventStore`, eviction job and event counters, composed |
| `Server` | `Engine` with the scheduler's goroutines, the signal and the shutdown |
| `EngineProofs` | proofs about both: `Server` implements `Engine`, `Engine` implements `Broker`, and what follows |
| `Metrics`, `MetricsProofs` | the collector with goroutines that create, add, set and take snapshots; proofs |
| `Config` | what Load makes of the environment and validate accepts |
| `Http`, `HttpProofs` | requests through the middleware stack, the rate limiter and the answers; proofs |
| `Dashboard`, `DashboardProofs` | the table and the search box of the dashboard page; proofs |
| `Counting` | lemmas used by several of the proofs: least numbers, induction over a finite set, sorted orders and ranks, sums |
| `MCBroker`, `MCBrokerViews`, `MCEventStore`, `MCEngine`, `MCServer`, `MCMetrics`, `MCHttp`, `MCDashboard` | values of the constants for TLC |

### Broker

A step is what one goroutine does between two points where others can interfere: one section
under a mutex, or one call of the handler. Publish is three steps, `PublishBegin` (ensureTopic
under `Broker.mu`, then the message is built), `PublishAppend` (log and wake-ups under the
partition's mutex) and `PublishCount` (the counter under `Broker.mu`). `Subscribe` makes the
group if it is new and starts a goroutine per partition; a goroutine is a pair of the call and
the partition, and `wpc` says where in `consumePartition` it is:

    spawned -Register-> offset -GetOffset-> get -GetHit-> handle -HandlerOk-> commit -Commit-> offset
                                            get -GetMiss-> wait -Wake-> offset, -Stop-> stopped
                                                   handle -HandlerErr-> handle or dlq -DeadLetter-> commit

`cur` and `attempt` are its local variables. A notification channel is one Boolean, its buffer
of one place; `subs` is the list of channels of a partition, which the code never shortens.
The handler is nondeterministic: it may return nil or an error at every attempt. `settled` is
a history variable, the offsets a goroutine got handled or dead-lettered, in order.

Left out: several topics (they share nothing but the maps), sleeping between attempts (it
changes no state), payload and time (a message is the number of its Publish call), a handler
that panics or never returns, and the wrap-around of `int(Sum32())` where int has 32 bits.

`GroupLog` is what the broker promises without goroutines: every message is accepted once, into
one log, and a group settles entries at its cursor or behind it and moves the cursor over settled
entries only.

`BrokerViews` adds readers. `Those` is the loop with which Replay copies a partition. While a reader
holds `Broker.mu` for reading, steps that take it for writing wait; appends, dead letters and
commits do not. RWMutex lets a waiting writer keep out new readers; the model allows more
interleavings than that. Its constant `Froms` includes a negative `fromOffset`, which the API passes
on.

### EventStore

Every method holds `Store.mu` from beginning to end and is one action; `EvictExpired` reads
the clock before it locks and is two. A missing inner map of an index is the empty set, as Go
reads it. `Lower` and `Fold` stand for `strings.ToLower`, by which the category index is kept and
looked up, and `strings.EqualFold`, by which the filter decides. They are two functions about which
nothing is assumed: they agree on ASCII words, but long s folds to s and is lower case itself (so does
the final sigma), and dotted capital I becomes i in lower case and folds to itself. So
`ListMatchesScan` says what listing by category finds and what it misses: it finds nothing that a scan
with the filter would not, and misses the events whose category is the filter's to EqualFold and not
to ToLower, and no others. `WordsAssumption` says that a word contains itself and that a word has
finitely many spellings.

`EventViews` EXTENDS it with what arranges the result. `sort.Slice` is not stable and starts from
the order of a map, so `Page`, `Search` and `TopCategories` are *sets* of results, every order the
comparison allows. `Start` multiplies as a 64-bit int does; its width is the constant `MaxInt`. A
page so far out that `(page-1)*limit` overflows is another, earlier page, or a slice with a negative
bound: a panic, which Recovery answers with 500 and for which `Page` has no result. `PagesExact` is
about all pages before.

### Engine

`Engine` EXTENDS `Broker` and has an INSTANCE of `EventStore`; its actions conjoin theirs.
`CreateEvent` is `handleCreateEvent` up to the topic being ensured: `Valid`, CreatedAt, and
`PublishBegin` keyed by the category. `Publishing` is the rest of Publish and `CountPublished`
the increment after it. In place of a handler that returns what it likes there is the one of
`main.go`: `RunStages` decodes the payload and runs validate, enrich, score and classify, which
touch nothing but the event in hand; `Persist` is the last stage, `Store!Put`; `HandlerReturn`
counts the run and is `HandlerOk` or `HandlerErr`. A retry starts from the payload, which has no
id, and so gets a new UUID. `Evicting` and `CountEvicted` are the scheduler's job, `DeleteEvent`
the API's. `accepted` is the payload of every message; `origin`, `puts` and `deletes` are history.

Nothing but `CreateEvent` publishes to the topic, so the payload decodes to what was encoded and the
handler's return for one that does not (main.go:72, which counts a failed event without a run) is
never taken; it is left out of `RunStages`.

Abstracted: the score is a constant function of the request (the properties need only that the
tier follows from it), names are present or blank, the increments of one handler that follow one
another without anything between are one step. Left out: durations (no stage looks at its
timeout), bodies that are not JSON and other requests answered without effect; the shutdown is in
`Server`.

### Server

`Server` EXTENDS `Engine` with `main`, `phase` (one per scheduler job) and `timedOut`. `StartJobs`,
`SubscribePipeline`, `BeginDrain`, `DrainDone` or `DrainTimeout`, and `Exit` are main's statements
in order; `Signal` may come at any time and cancels the one context of jobs and consumers. A job is
a goroutine that waits out its jitter, then selects between context and ticker. `JobBody` of the
eviction is `Evicting` and `CountEvicted` of `Engine`; that of the gauges takes time only (its
values are those of `BrokerViews` and `Metrics`). `Request` allows new requests while main serves or
drains, since idle connections are kept, and goes on with those under way; `ExitAfterJobs` counts on
Shutdown waiting for requests that are under way only. `DrainTimeout` may come whether or not the
model has a request under way: Shutdown also waits for reads and for bodies that are still sent.
After `exited` nothing moves: a consumer in the middle of a message is cut off, and as the store is
in memory nothing is left of it either.

### Metrics

A counter is a cell: `counters` maps names to indices of `cells`, as the Go map holds pointers. Add
and Set are `Lookup` (read lock), `Create` (write lock, for a name that was missing) and `Apply`
(the atomic operation, with no lock held). A Snapshot is `SnapshotBegin`, one `SnapshotLoad` per
name in any order, `SnapshotEnd`; while it holds the read lock no one creates. `effect` is what the
calls that returned amount to, `since` the values of `effect` during a snapshot. `latency` is one
ring and `samples`, a history, everything recorded in it; `Sorted` says by places where the samples
go that LatencySnapshot sorts.

### Config and Http

`Config` has Load and validate as operators: an environment variable is unset, does not parse, or is
what the parser returns, which for a float may be NaN. `Http` starts in any environment the server
starts in. Of main's chain, outermost first, the parts with an effect are CORS (preflights end
here), Recovery, Logger and RateLimiter; SecurityHeaders, RequestID and Powered set headers, and a
body over the limit of RequestSize is one that does not decode (400). `Limit` is `allow` under its
mutex, `Handle` the router with one of the `Statuses` of the route or a panic, `CountRequest` and
`CountError` what Logger does afterwards. A key of the limiter is RemoteAddr, hence one connection
with one request at a time. Tokens are counted in parts of a tick, so that arithmetic is exact;
rounding of floats is left out. Time does not run backwards (Go's clock readings are monotonic).

### Dashboard

Two independent specifications. The table: a `fetchAll` belongs to the view (filter and page) of the
render that started it; `Tick` and `Show` are the two effects that depend on it; a delete or a
create ends with the `fetchAll` of the render it was begun in (`pending`, for any number of them at
once, `Changes`); `Answer` is the server reading, `Apply` and `Fail` the promise. The search box:
`Type` restarts the timer, `Search` sends, `Found` and `SearchFails` set the results, whatever the
box says by then. `Answers` is what may be shown for the words in the box; it takes neither side on
null, which the server sends when it finds nothing and the page takes for no search. `OlderSearches`
are the searches under way for words no longer in the box. Their late answers are shown, as in the
code: `NoStaleReturn` says that nothing else brings older words back, and `RestingWordsAnswered`
that the present words are answered all the same. A list is reduced to its view and its total.
`MarkAssumption`: nobody types what the model writes for a free request.

## Runs

| Run | Instance | Shows |
|---|---|---|
| `broker_shared` | 1 partition, 2 Subscribe calls of one group, 3 messages, 2 attempts, symmetric in the calls | TypeOK, NoMessageSkipped, SettlesInOrder, NoLostWakeup, DeadLettersFaithful, OnlyForward, ImplementsGroupLog |
| `broker_sole` | 2 partitions, 2 publishers, 1 Subscribe call, 2 messages, fair | SoleConsumerExactlyOnce, CountLagsLogs, EventuallyCommitted, CancelStops |
| `broker_group` | as `broker_shared` | violation of GroupExactlyOnce |
| `broker_cancel` | 1 partition, 1 consumer, 2 messages, fair | violation of CancelStopsConsumption |
| `broker_views` | 2 partitions, 1 publisher, 1 consumer, 1 reader, 2 messages | ReplayWithoutGaps, StatsOfOneMoment, DepthWithinCall |
| `broker_depth` | as `broker_views` | violation of DepthIsBacklog |
| `event_store` | 3 ids, 3 categories in two spellings each (one word to ToLower and EqualFold, to EqualFold only, to ToLower only), a score at each boundary, events with and without priority and expiry, of equal and different age, 4 clock values, pages of up to 3, ints up to 5, fair | TypeOK, IndexExact, ListMatchesScan, PagesExact, ReadersAgree, NothingElseVanishes, ExpiredLeaves |
| `engine` | 1 partition, 1 Subscribe call, 2 events out of four requests with scores 29, 30, 55 and 80 and an invalid one, 4 clock values | NoDeadLetters, StoredPerMessage, StoredComplete, TiersMatchBuckets, BooksBalance |
| `server` | 1 partition, 1 Subscribe call, 1 event, both jobs, a signal at any time, 3 clock values, fair | ExitAfterJobs, ShutdownTerminates, AcceptedIsStored, ExpiredIsEvicted |
| `metrics` | 2 callers, 1 reader, 2 registered names and one created on first use, 3 calls; or a ring of 4, 6 samples of 3 values | NoCallLost, SnapshotWithin, PercentilesOfLatest |
| `http` | 2 connections, 5 requests, 4 half seconds, five settings: bursts of 0, 1 and 2, a rate of NaN with a burst that does not parse, and a rate of 0, with which the server does not start; symmetric in the connections | RateBound, HttpBooks, PatientServed |
| `dashboard` | 2 filters, up to 2 pages, 2 words of which one is found, 2 requests of a kind and 1 delete or create at a time, fair | NoFallingBack, TableSettles, NoStaleReturn, RestingWordsAnswered |

Bounds. Three messages and two goroutines are enough for one goroutine to fall two commits behind
the other, to be given an old offset, and to settle a message again; a message more only repeats
that. Two attempts reach every branch of the retry loop. Two partitions reach both results of
`partitionFor` and every mix of exhausted and full partitions. In `engine` two events and a TTL of
one tick let an event expire before it is stored, while another is stored, and with another in one
eviction. `server` has one event because its liveness is checked with everything else of the server
in the state; what several events do to each other is `engine`'s. `event_store` takes every page
from 0 to the largest int, in which positions wrap around as they do in 64 bits, and three events
leave a page full, half full and empty; two events of categories that only EqualFold takes for one
are stored together, and listed by either. In `metrics` the name that is not registered is created
while both callers want it and a snapshot is on. Counters and latencies share neither a variable nor
a lock, so `MCMetrics` moves the ones or the others; of four samples p50 and p95 are of different
rank (p99 is p95's; the theorem is for any number), and two samples are dropped from the full ring.
In `http` a bucket is filled past its burst, emptied and refused, and the time between two requests
is less than, as much as, and more than a token takes. In `dashboard` two requests are enough to
overtake each other, and one delete is enough for a refresh of a view the user has left, since a
delete may be begun again while the refresh of the last is under way; `TableStaysChosen` is proved
for any number. `MaxPublished`, `MaxIds`, `MaxTime`, `MaxRequests`, `MaxApplied`, `MaxSamples`,
`MaxTotal`, `Slots` and `Changes` are bounds of the models, not of the code; the theorems hold for
every value of them. Symmetry is used in `broker_shared` and `http`, which check no liveness and
whose definitions do not tell the calls, or the connections, apart. `MCDashboard` runs the table or
the search box, never both: they share no variable. The systems may stop (all messages consumed,
nobody publishes, the process has exited), so deadlock is not checked.

Fairness. `broker_sole` assumes weak fairness of each goroutine that has been started and of a
Publish call under way: the Go scheduler runs them, mutexes are held for a few statements, and the
handler of this program returns. Nobody has to publish, subscribe or cancel. In `event_store` time
passes and the scheduler calls EvictExpired again and again. `server` derives that from its
goroutines: weak fairness of main, of each consumer, of each job and of a request that was begun,
while the process lives. Stopping a job has strong fairness, because Go's select picks at random
among what is ready: a job cannot prefer its ticker for ever. No request and no signal has to come;
Shutdown returns, when all is answered or when its ten seconds are over. In `dashboard` the interval
goes on, a delete or create is answered, and requests do not fail for ever (strong fairness of being
answered and applied); the search timer goes off and a search that was sent is answered or fails
(`SearchFairness`); nothing is asked of the user. AcceptedIsStored and ExpiredIsEvicted end with the
signal, after which the code promises neither.

### Where code and documents disagree

* **Groups.** GUIDE.md:169 and README.md:21 promise one goroutine per partition and group, and
  exactly-once processing. This holds if a group has one Subscribe call (`SoleConsumerExactlyOnce`,
  the API server). The worker makes `WorkerCount` calls with one group id (`cmd/worker/main.go:70`),
  and two goroutines handle the same message (`broker_group`). Delivery is at least once, and that
  is proved.
* **Cancellation.** broker.go:212 says cancelling stops consumption. The context is looked at only
  when the partition is exhausted, so everything waiting is still consumed (`broker_cancel`).
  Goroutines do return once publishers pause (`CancelStops`).
* **Queue depth.** broker.go:325 and GUIDE.md:243 say un-consumed messages. It is the number of
  messages ever published (`broker_depth`).
* **Rate limit.** README.md:189, GUIDE.md:329 and middleware.go:91 say requests are limited per IP.
  The key is RemoteAddr, address and port, so every connection has a bucket of its own (`RateBound`
  is about keys). No run is spent on this, nor on the following.
* **Attempts.** broker.go:210 says a message is "retried up to maxRetries times"; there are
  maxRetries attempts, hence one retry fewer, as the comment at broker.go:136 says
  (`DeadLettersFaithful`).
* **Stage timeout.** GUIDE.md:175 says a stage that takes too long is cancelled. Its context is
  (pipeline.go:40), but no stage looks at it.
* **Order of the chain.** README.md:68 draws the rate limiter before CORS; in main.go:158 CORS comes
  first, so preflights are neither limited nor counted, and Recovery stands outside Logger, so a
  panic is answered with 500 and counted nowhere (`HttpBooks`).
* **Snapshot.** metrics.go:99 calls it a point-in-time copy. Counters move while it is made: it may
  have an error without its request. `SnapshotWithin` is what holds.
* **Configuration.** `RATE_LIMIT_RPS=NaN` passes validate and turns the limiter off.
  `METRICS_ENABLED` has no effect, and neither has `WORKER_COUNT` on the API server.
* **Categories.** validate takes any word for a category and event.go:93 compares without regard to
  case, but store.go:89 looks the filter up by its lower case. A category with a final sigma or a
  long s is not listed under its other small form (`ListMatchesScan` says which events are missed).
* **Dashboard.** A search that finds nothing is answered with null (main.go:290), where types.ts:33
  has a list. The page takes null for no search and shows the whole list, though GUIDE.md:224
  promises a search. No property takes this for right: Answers allows it, and RestingWordsAnswered
  is about words that are found. An answer that comes after the box was changed or cleared is shown
  and stays until the next one. When the list shrinks below the page on show, the page is empty and
  has no buttons to go back.
* **Worker.** Its broker is its own, in another process than the API's, and nobody publishes to it.

## Proofs

Everything in the eight proof modules is checked by TLAPS; nothing is assumed but the named
assumptions on constants: `BrokerAssumption` (at least one partition and one attempt, as the options
enforce), `StoreAssumption`, `WordsAssumption` and the `ViewsAssumption` of `EventViews` (words and
page sizes) and of `BrokerViews` (fromOffset is an int), `EngineAssumption` (what requests and
scores look like), `OneSubscription` (main subscribes once), `MetricsAssumption` and
`HttpAssumption` (the types of what the environment gives), `DashboardAssumption` and
`MarkAssumption`. `StoredOncePerCall` alone has a hypothesis of its own, that there are finitely
many Subscribe calls, since it compares with their number. No theorem assumes that publishers,
goroutines or connections are finitely many: where a count needs a finite set, that only finitely
many have started is part of the invariant.

All invariants and action properties that a passing run checks are proved, and so is the
refinement; TLC shows them on a small instance, the theorems for every value of the constants.

**Broker.** `TypeCorrect`, `NothingSkipped`, `InOrder`, `NoWakeupLost` and `Forward` follow from
one inductive invariant, `IInv`. NoMessageSkipped alone is not inductive: a commit is sound only
because the goroutine has settled what it commits *and* its offset is at or behind the group's,
so that a commit that moves the offset moves it by exactly one. `CursorOf` says this of each
goroutine, and also that all it settled earlier is behind its cursor, which gives the order.
`Joined` and `FreshGroups` say that a goroutine's group exists and an unknown group has committed
nothing, so that Subscribe resets no offset in use. `Registered` says that a goroutine in its loop
has its channel listed, without which the notification of an append would not reach it.
`CursorFrame` covers the goroutines that do not move, `CursorMoves` the one that does, by action.

Three more invariants stand on `IInv`. `SoleInv`, for `ExactlyOnceAlone`: the cursor of a goroutine
without rivals is *at* the group's offset (`SoleCell`: nobody else moves it), so it has settled the
offsets before it, each once. `IdsUnique`: no two messages, in a log or on their way to one, have
the same id, and each is in its partition. With it `CallBooks`, for `CounterLagsLogs`: every Publish
call begun is on its way to a log, in a log and uncounted, or counted; and `LettersInv`, for
`GivenUpOnce`: there is a function from dead letters to the goroutines that sent them, and the
letters of one message have different senders, because a goroutine settles an offset once.

**Refinement.** `BrokerImplementsGroupLog` maps entries to message ids, the cursor to the committed
offset, and what a group has settled to the union over its goroutines. Append is `Accept`, which
`IdsUnique` permits; a success or a dead letter is `Settle`, a commit is `Advance` if the goroutine is
level with the group and a stutter if it is late; everything else stutters.

**Reading calls.** By `ReadersDoNotDisturb` the broker with readers does nothing that `Broker` does
not, so `IInv` and `IdsUnique` hold beside them. `ViewsInv` says of every reader how far its loop
over the partitions has come: `Replaying`, that what it has of each partition it has passed is a
stretch of that log (`Copied`), which appends cannot change; `Measuring`, that its sum lies between
the sums of the lengths at the begin and now; `Counted`, that the counter it read stands still under
its lock (`LockedOut`). `ViewKept` shows once that no step of the broker disturbs any of this, and
`ReaderMoves` that a reader does not disturb another. `OffsetsRight`, that a message has the offset
of its place, turns Replay's filter into a stretch. The lemmas about `Those` say what a loop that
collects messages finds in a stretch of a log and in two pieces one behind the other.

**Store.** `StoreTypes` and `IndicesExact` are one induction, in which the indices need the types
and nothing else. `ListComplete` follows from the exact index: the ids under a lower case are those
of the events whose category has it, so what a scan finds and List does not has another.
`OnlyExpiredVanish` adds that an eviction's `now` is never ahead of the clock: what had expired then
has expired when it goes. `PagesHoldTheirEvents` is about one state: the store is finite since it
was filled one by one, a finite set can be sorted, and the i-th in any order the unstable sort may
choose has rank i. `AllReadersAgree` adds up counts: those of the words with one lower case
(`IndexSpellings`: ToLower is a function, so they are disjoint whatever EqualFold makes of them), or
of the score buckets, are counts of disjoint sets whose union is what List or Stats counts at once
(`SumOfClasses`).

**Engine.** `EngineImplementsBroker` holds because every action of `Engine` conjoins one of
`Broker` or leaves its variables alone; hence all theorems about `Broker` hold of the server.
`NothingGivenUp` adds two invariants to `IInv`: `Tracked`, that every message in a log or on its
way there carries a request found valid, and that no goroutine is at "dlq" or holds a failed run.
`TiersAreBuckets` rests on `AllClassified`: an event in the store, or in the hands of a handler
about to store it, has the tier of its score. Events of a tier are then the same *set* as those
of its bucket, and the counts need no arithmetic. `OnlyCompleteStored` rests on `AllComplete`: every
stored event, and every event about to be stored, is what the pipeline makes of the request of the
message its id was drawn for; `Extended` says that a new id or message changes nothing for the old.

`BooksAlwaysBalance` has one invariant per book. `PublishBooks`: the counter of published events
and the requests about to count make up the broker's counter. `RunBooks`: a run is under way,
processed or failed. `StockBooks`: an event on its way to the store has an id that was never there,
so a put adds one, and what a delete or an eviction takes is counted. `StoredOncePerCall` rests on
`StoredInv`: what a goroutine has settled it has stored, and there is a function
from ids to the goroutines that drew them, with different goroutines for the ids of one message.

**Server.** `ServerImplementsEngine` is by action; all of the above holds of the process.
`ExitsAfterItsJobs` needs `PublishBooks` and `LifeInv`, of the server alone: an eviction is under way
only while its job is in its body, all jobs are over once main has exited, and from the end of the
drain on no request is under way unless it timed out. The lemma `Undisturbed` shows once, for all
steps of the engine but the job's own, that they leave an eviction alone.

**Metrics.** The invariant says that two names never share a cell, that a caller past its lookup
holds the very cell the map has for its name (which the second look in `Create` preserves), and
that the present effects are among those of every snapshot under way. `PercentilesAreRanks` rests on
`RingInv`, that the ring has the last samples recorded, and on the ranks in a sorted order.

**Http.** `RateBound` speaks of windows, which is not inductive. `Weighed` is: for every request
that passed, those from it on, together with the tokens left, amount to no more than the burst and
what the rate has added since. It keeps a bucket with a burst of zero below one token after its
first request. `RefillFacts`, `Aged` and `Spent` are its arithmetic; `PatientIsServed` follows from
it. `LoggerBalances` rests on `LoggerBooks`, which has, beyond the property, that an error still to
be counted has its request counted: errors and those still to come are no more than the requests.

**Dashboard.** `TableInv` says that an answer is to what its request asked, whatever the order, so
that requests of the chosen view can only bring tables of that view (`TableStaysChosen`). `SearchInv`
says that the timer has the words of the box or none, and that nothing blank is searched for. It gives
`OlderWordsStayGone` (NoStaleReturn): a search that is sent is for the words in the box, and a search
under way for them can only bring what belongs to them.

**Counting.** What the provers lack is here: a set of subsets that has the empty set, and with a
set those with one element more, has all finite ones (`SetInduction`, from the least number of
`NaturalsInduction`'s order); a finite set can be sorted, and in any sorted order the i-th element has
rank i; sums of `FoldFunction`, element by element, as an order-preserving function, and by
classes. Induction is over sets rather than predicates because no prover here
instantiates a theorem with an operator as its parameter.

Only model-checked: liveness (EventuallyCommitted, CancelStops, ExpiredLeaves, ShutdownTerminates,
AcceptedIsStored, ExpiredIsEvicted, TableSettles, RestingWordsAnswered). It needs fairness, hence
ENABLED, which is out of the prover's reach. The three violations are counterexamples, which only
TLC gives. SelectSeq and SortSeq have no facts a prover can use: where the models need them, `Those`
and the two operators called `Sorted` say the same by a recursive function and by the order that
results.

## Plan

All modules of the plan are there, and every safety property that is checked is proved. What could
come next are safety halves of the liveness properties: that a goroutine that waits with the context
done can always stop, and that what makes TableSettles true is a measure that a fair step lowers.

## Not modelled

* JSON and HTTP encoding, headers, logging, the season and the day of the week, the average score
  and the arithmetic of the score: formatting or pure functions no property depends on.
* The values of the gauges `store.total_events` and `broker.queue_depth`: copies of `Size` and
  `QueueDepth`, taken without any relation between them.
* A listener that fails to start (`log.Fatalf`): the process ends without a shutdown.
* A handler of the broker that panics: it would take the process down, and none does on a message
  the API lets in.
* The worker binary has no module: it is `Server` without requests and with several Subscribe calls
  on a broker that stays empty. Those calls on a broker with messages are `broker_shared` and
  `broker_group`.
* Of the frontend: the broker page, the create form, toasts, navigation, rendering and styling.

`PROJECT.json` lists under `hazards` what is hard to test in this code, with the properties that
cover it, or why there is none.
