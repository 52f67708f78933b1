------------------------------- MODULE Broker -------------------------------
(***************************************************************************)
(* The in-memory message broker (internal/broker/broker.go): one topic     *)
(* with its partition logs, its dead-letter queue, its consumer groups and *)
(* the goroutines that Publish and Subscribe run.                          *)
(*                                                                         *)
(* An action is what one goroutine does between two points at which other  *)
(* goroutines can see or change the broker: every mutex-protected section  *)
(* is one action, and so is one call of the handler.                       *)
(*                                                                         *)
(* Topics share nothing but the maps of Broker, so one topic is modelled.  *)
(* Sleeping between attempts changes no state and is part of the failed    *)
(* attempt.  Payload and timestamp are abstracted to id, the number of the *)
(* Publish call.                                                           *)
(***************************************************************************)
EXTENDS Integers, Sequences, FiniteSets

CONSTANTS
  NumPartitions,   \* Broker.defaultPartitions
  MaxRetries,      \* Broker.maxRetries
  Keys,            \* message keys
  NoKey,           \* the key of length zero
  Hash,            \* FNV-1a of a key
  Publishers,      \* goroutines that call Publish, one call after the other
  Subscriptions,   \* calls of Subscribe
  Groups,          \* consumer group ids
  GroupOf,         \* the groupID argument of a Subscribe call
  MaxPublished     \* bound of the model: number of Publish calls

ASSUME BrokerAssumption ==
  /\ NumPartitions \in Nat \ {0}          \* WithPartitions ignores n <= 0
  /\ MaxRetries \in Nat \ {0}             \* WithMaxRetries ignores n <= 0
  /\ NoKey \in Keys
  /\ Hash \in [Keys -> Nat]
  /\ GroupOf \in [Subscriptions -> Groups]
  /\ MaxPublished \in Nat

Partitions == 0 .. NumPartitions - 1

\* The goroutines of consumePartition: one per partition and Subscribe call.
Workers == Subscriptions \X Partitions

\* The entry of consumerGroup.offsets that the goroutine w reads and commits.
Cells == Groups \X Partitions
CellOf(w) == <<GroupOf[w[1]], w[2]>>

Message == [id : Nat, key : Keys, partition : Partitions,
            offset : Nat, attempt : Nat]

\* "offset" and "get" are the two reads at the top of the loop, "wait" its
\* select, "handle" the attempts, "dlq" and "commit" its end.
WorkerPc == {"none", "spawned", "offset", "get", "wait", "handle",
             "dlq", "commit", "stopped"}
PublisherPc == {"idle", "append", "count"}

VARIABLES
  created,       \* the topic is in Broker.topics
  log,           \* partition.log of every partition
  dlq,           \* log of the dead-letter partition
  subs,          \* partition.subs: whose notification channels are registered
  notify,        \* the one-place buffer of a goroutine's channel is full
  groups,        \* the groups in Broker.groups[topic]
  offsets,       \* consumerGroup.offsets
  publishCount,  \* Broker.publishCount
  cancelled,     \* Subscribe calls whose context is done
  wpc, cur, attempt,   \* per consumer goroutine: where it is, offset, msg.Attempt
  ppc, draft,    \* per publisher: where it is, the message under construction
  published,     \* number of Publish calls begun
  settled        \* history: the offsets a goroutine got handled or dead-lettered

topicVars == <<created, log, dlq, subs, notify>>
groupVars == <<groups, offsets>>
workerVars == <<wpc, cur, attempt, settled>>
publisherVars == <<ppc, draft, published, publishCount>>
vars == <<topicVars, groupVars, workerVars, publisherVars, cancelled>>

-----------------------------------------------------------------------------
(* Helpers of the code.                                                    *)

\* partitionFor: keyed messages go where the hash says, the others to 0.
partitionFor(k) ==
  IF k = NoKey \/ NumPartitions <= 1 THEN 0 ELSE Hash[k] % NumPartitions

\* Mutant of AppendTo: the log keeps the offset the message came with.
AppendToAsIs(q, m) == Append(q, m)

\* partition.append: the log assigns the offset, whatever m carried.
AppendTo(q, m) == Append(q, [m EXCEPT !.offset = Len(q)])

\* partition.append wakes every registered channel; a full one is skipped.
Woken(p) == [w \in Workers |-> notify[w] \/ w \in subs[p]]

\* Mutant of Committed: without the guard of commit.
CommittedAlways(c, o) == o

\* consumerGroup.commit: the committed offset never moves back.
Committed(c, o) == IF o > offsets[c] THEN o ELSE offsets[c]

\* partition.get succeeds.
Available(w) == cur[w] < Len(log[w[2]])

\* The goroutine's local copy of the message it handles.
Current(w) == [log[w[2]][cur[w] + 1] EXCEPT !.attempt = attempt[w]]

Goto(w, pc) == wpc' = [wpc EXCEPT ![w] = pc]

-----------------------------------------------------------------------------
(* New, before any call.                                                   *)

NoMessage == [id |-> 0, key |-> NoKey, partition |-> 0, offset |-> 0, attempt |-> 1]

Init ==
  /\ created = FALSE
  /\ log = [p \in Partitions |-> <<>>]
  /\ dlq = <<>>
  /\ subs = [p \in Partitions |-> {}]
  /\ notify = [w \in Workers |-> FALSE]
  /\ groups = {}
  /\ offsets = [c \in Cells |-> 0]
  /\ publishCount = 0
  /\ cancelled = {}
  /\ wpc = [w \in Workers |-> "none"]
  /\ cur = [w \in Workers |-> 0]
  /\ attempt = [w \in Workers |-> 0]
  /\ ppc = [u \in Publishers |-> "idle"]
  /\ draft = [u \in Publishers |-> NoMessage]
  /\ published = 0
  /\ settled = [w \in Workers |-> <<>>]

-----------------------------------------------------------------------------
(* Publish.                                                                *)

\* ensureTopic under Broker.mu, then the message is built.
PublishBegin(u, k) ==
  /\ ppc[u] = "idle"
  /\ published < MaxPublished
  /\ created' = TRUE
  /\ published' = published + 1
  /\ draft' = [draft EXCEPT ![u] =
       [id |-> published + 1, key |-> k, partition |-> partitionFor(k),
        offset |-> 0, attempt |-> 1]]
  /\ ppc' = [ppc EXCEPT ![u] = "append"]
  /\ UNCHANGED <<log, dlq, subs, notify, groupVars, workerVars, publishCount, cancelled>>

\* Mutant of PublishAppend: the message is also counted here.
PublishAppendCounting(u) ==
  LET p == draft[u].partition IN
  /\ ppc[u] = "append"
  /\ log' = [log EXCEPT ![p] = AppendTo(@, draft[u])]
  /\ notify' = Woken(p)
  /\ ppc' = [ppc EXCEPT ![u] = "count"]
  /\ publishCount' = publishCount + 1
  /\ UNCHANGED <<created, dlq, subs, groupVars, workerVars, draft, published, cancelled>>

\* partition.append under the partition's mutex: the log and the wake-ups.
PublishAppend(u) ==
  LET p == draft[u].partition IN
  /\ ppc[u] = "append"
  /\ log' = [log EXCEPT ![p] = AppendTo(@, draft[u])]
  /\ notify' = Woken(p)
  /\ ppc' = [ppc EXCEPT ![u] = "count"]
  /\ UNCHANGED <<created, dlq, subs, groupVars, workerVars, draft, published,
                 publishCount, cancelled>>

\* Only now is the message counted, under Broker.mu again.
PublishCount(u) ==
  /\ ppc[u] = "count"
  /\ publishCount' = publishCount + 1
  /\ ppc' = [ppc EXCEPT ![u] = "idle"]
  /\ UNCHANGED <<topicVars, groupVars, workerVars, draft, published, cancelled>>

-----------------------------------------------------------------------------
(* Subscribe and consumePartition.                                         *)

\* Mutant of Subscribe: every call makes the group anew.
SubscribeAnew(s) ==
  /\ \A p \in Partitions : wpc[<<s, p>>] = "none"
  /\ created' = TRUE
  /\ groups' = groups \union {GroupOf[s]}
  /\ offsets' = [c \in Cells |-> IF c[1] = GroupOf[s] THEN 0 ELSE offsets[c]]
  /\ wpc' = [w \in Workers |-> IF w[1] = s THEN "spawned" ELSE wpc[w]]
  /\ UNCHANGED <<log, dlq, subs, notify, cur, attempt, settled, publisherVars, cancelled>>

\* The group is created once; every call starts one goroutine per partition.
Subscribe(s) ==
  LET g == GroupOf[s] IN
  /\ \A p \in Partitions : wpc[<<s, p>>] = "none"
  /\ created' = TRUE
  /\ groups' = groups \union {g}
  /\ offsets' = IF g \in groups THEN offsets
                ELSE [c \in Cells |-> IF c[1] = g THEN 0 ELSE offsets[c]]
  /\ wpc' = [w \in Workers |-> IF w[1] = s THEN "spawned" ELSE wpc[w]]
  /\ UNCHANGED <<log, dlq, subs, notify, cur, attempt, settled, publisherVars, cancelled>>

\* Mutant of Register: the channel is not put in the partition's list.
RegisterUnlisted(w) ==
  /\ wpc[w] = "spawned"
  /\ notify' = [notify EXCEPT ![w] = FALSE]
  /\ Goto(w, "offset")
  /\ UNCHANGED <<created, log, dlq, subs, groupVars, cur, attempt, settled,
                 publisherVars, cancelled>>

\* partition.subscribe: a fresh, empty channel joins the partition's list.
Register(w) ==
  /\ wpc[w] = "spawned"
  /\ subs' = [subs EXCEPT ![w[2]] = @ \union {w}]
  /\ notify' = [notify EXCEPT ![w] = FALSE]
  /\ Goto(w, "offset")
  /\ UNCHANGED <<created, log, dlq, groupVars, cur, attempt, settled,
                 publisherVars, cancelled>>

\* consumerGroup.getOffset.
GetOffset(w) ==
  /\ wpc[w] = "offset"
  /\ cur' = [cur EXCEPT ![w] = offsets[CellOf(w)]]
  /\ Goto(w, "get")
  /\ UNCHANGED <<topicVars, groupVars, attempt, settled, publisherVars, cancelled>>

\* partition.get finds a message: the first attempt is next.
GetHit(w) ==
  /\ wpc[w] = "get"
  /\ Available(w)
  /\ attempt' = [attempt EXCEPT ![w] = 1]
  /\ Goto(w, "handle")
  /\ UNCHANGED <<topicVars, groupVars, cur, settled, publisherVars, cancelled>>

\* partition.get finds none: from here to the end of the select is "wait".
GetMiss(w) ==
  /\ wpc[w] = "get"
  /\ ~Available(w)
  /\ Goto(w, "wait")
  /\ UNCHANGED <<topicVars, groupVars, cur, attempt, settled, publisherVars, cancelled>>

\* Mutant of Wake: a break where the code has continue.
WakeAndReturn(w) ==
  /\ wpc[w] = "wait"
  /\ notify[w]
  /\ notify' = [notify EXCEPT ![w] = FALSE]
  /\ Goto(w, "stopped")
  /\ UNCHANGED <<created, log, dlq, subs, groupVars, cur, attempt, settled,
                 publisherVars, cancelled>>

\* select: the notification is consumed and the loop starts again.
Wake(w) ==
  /\ wpc[w] = "wait"
  /\ notify[w]
  /\ notify' = [notify EXCEPT ![w] = FALSE]
  /\ Goto(w, "offset")
  /\ UNCHANGED <<created, log, dlq, subs, groupVars, cur, attempt, settled,
                 publisherVars, cancelled>>

\* Mutant of Stop: the context is looked at only after a notification.
StopWhenNotified(w) ==
  /\ wpc[w] = "wait"
  /\ w[1] \in cancelled
  /\ notify[w]
  /\ Goto(w, "stopped")
  /\ UNCHANGED <<topicVars, groupVars, cur, attempt, settled, publisherVars, cancelled>>

\* select: the context is done and the goroutine returns.  Its channel stays
\* registered, and when both cases are ready either may be taken.
Stop(w) ==
  /\ wpc[w] = "wait"
  /\ w[1] \in cancelled
  /\ Goto(w, "stopped")
  /\ UNCHANGED <<topicVars, groupVars, cur, attempt, settled, publisherVars, cancelled>>

\* The handler returns nil.
HandlerOk(w) ==
  /\ wpc[w] = "handle"
  /\ settled' = [settled EXCEPT ![w] = Append(@, cur[w])]
  /\ Goto(w, "commit")
  /\ UNCHANGED <<topicVars, groupVars, cur, attempt, publisherVars, cancelled>>

\* Mutants of HandlerErr: one attempt too many, one too few, and no dead letter.
HandlerErrOneMore(w) ==
  /\ wpc[w] = "handle"
  /\ IF attempt[w] <= MaxRetries
       THEN attempt' = [attempt EXCEPT ![w] = @ + 1] /\ UNCHANGED wpc
       ELSE Goto(w, "dlq") /\ UNCHANGED attempt
  /\ UNCHANGED <<topicVars, groupVars, cur, settled, publisherVars, cancelled>>
HandlerErrOneLess(w) ==
  /\ wpc[w] = "handle"
  /\ IF attempt[w] < MaxRetries - 1
       THEN attempt' = [attempt EXCEPT ![w] = @ + 1] /\ UNCHANGED wpc
       ELSE Goto(w, "dlq") /\ UNCHANGED attempt
  /\ UNCHANGED <<topicVars, groupVars, cur, settled, publisherVars, cancelled>>
HandlerErrDropped(w) ==
  /\ wpc[w] = "handle"
  /\ IF attempt[w] < MaxRetries
       THEN attempt' = [attempt EXCEPT ![w] = @ + 1] /\ UNCHANGED wpc
       ELSE Goto(w, "commit") /\ UNCHANGED attempt
  /\ UNCHANGED <<topicVars, groupVars, cur, settled, publisherVars, cancelled>>

\* The handler returns an error: another attempt, or the dead-letter queue.
HandlerErr(w) ==
  /\ wpc[w] = "handle"
  /\ IF attempt[w] < MaxRetries
       THEN attempt' = [attempt EXCEPT ![w] = @ + 1] /\ UNCHANGED wpc
       ELSE Goto(w, "dlq") /\ UNCHANGED attempt
  /\ UNCHANGED <<topicVars, groupVars, cur, settled, publisherVars, cancelled>>

\* t.dlq.append: the copy gets the offset it has in the dead-letter queue.
DeadLetter(w) ==
  /\ wpc[w] = "dlq"
  /\ dlq' = AppendTo(dlq, Current(w))
  /\ settled' = [settled EXCEPT ![w] = Append(@, cur[w])]
  /\ Goto(w, "commit")
  /\ UNCHANGED <<created, log, subs, notify, groupVars, cur, attempt,
                 publisherVars, cancelled>>

\* Mutants of Commit: the offset of the message itself, and the end of the log.
CommitSame(w) ==
  /\ wpc[w] = "commit"
  /\ offsets' = [offsets EXCEPT ![CellOf(w)] = Committed(CellOf(w), cur[w])]
  /\ Goto(w, "offset")
  /\ UNCHANGED <<topicVars, groups, cur, attempt, settled, publisherVars, cancelled>>
CommitToEnd(w) ==
  /\ wpc[w] = "commit"
  /\ offsets' = [offsets EXCEPT ![CellOf(w)] = Committed(CellOf(w), Len(log[w[2]]))]
  /\ Goto(w, "offset")
  /\ UNCHANGED <<topicVars, groups, cur, attempt, settled, publisherVars, cancelled>>

\* consumerGroup.commit of the next offset, and back to the top of the loop.
Commit(w) ==
  /\ wpc[w] = "commit"
  /\ offsets' = [offsets EXCEPT ![CellOf(w)] = Committed(CellOf(w), cur[w] + 1)]
  /\ Goto(w, "offset")
  /\ UNCHANGED <<topicVars, groups, cur, attempt, settled, publisherVars, cancelled>>

\* The caller cancels the context it gave to Subscribe.
Cancel(s) ==
  /\ s \notin cancelled
  /\ cancelled' = cancelled \union {s}
  /\ UNCHANGED <<topicVars, groupVars, workerVars, publisherVars>>

-----------------------------------------------------------------------------
Consume(w) ==
  \/ Register(w)  \/ GetOffset(w) \/ GetHit(w)     \/ GetMiss(w)
  \/ Wake(w)      \/ Stop(w)      \/ HandlerOk(w)  \/ HandlerErr(w)
  \/ DeadLetter(w) \/ Commit(w)

Next ==
  \/ \E u \in Publishers, k \in Keys : PublishBegin(u, k)
  \/ \E u \in Publishers : PublishAppend(u) \/ PublishCount(u)
  \/ \E s \in Subscriptions : Subscribe(s) \/ Cancel(s)
  \/ \E w \in Workers : Consume(w)

Spec == Init /\ [][Next]_vars

\* A started goroutine keeps running and the handler returns; nobody has to
\* call Publish, Subscribe or cancel.
Fairness ==
  /\ \A u \in Publishers : WF_vars(PublishAppend(u) \/ PublishCount(u))
  /\ \A w \in Workers : WF_vars(Consume(w))

FairSpec == Spec /\ Fairness

-----------------------------------------------------------------------------
(* Properties.                                                             *)

\* Every variable holds a value the Go types and the loop bounds allow; in
\* particular an attempt number never exceeds maxRetries.
TypeOK ==
  /\ created \in BOOLEAN
  /\ log \in [Partitions -> Seq(Message)]
  /\ dlq \in Seq(Message)
  /\ subs \in [Partitions -> SUBSET Workers]
  /\ notify \in [Workers -> BOOLEAN]
  /\ groups \subseteq Groups
  /\ offsets \in [Cells -> Nat]
  /\ publishCount \in Nat
  /\ cancelled \subseteq Subscriptions
  /\ wpc \in [Workers -> WorkerPc]
  /\ cur \in [Workers -> Nat]
  /\ attempt \in [Workers -> 0 .. MaxRetries]
  /\ ppc \in [Publishers -> PublisherPc]
  /\ draft \in [Publishers -> Message]
  /\ published \in Nat
  /\ settled \in [Workers -> Seq(Nat)]

\* The offsets that some goroutine of the group of c has settled.
SettledBy(w) == {settled[w][i] : i \in 1 .. Len(settled[w])}
SettledIn(c) == UNION {SettledBy(w) : w \in {v \in Workers : CellOf(v) = c}}

\* At least once: a group's committed offset never passes a message that no
\* goroutine of the group has got handled or dead-lettered, however many
\* Subscribe calls share the group and however slow one of them is.
NoMessageSkipped ==
  \A c \in Cells :
    /\ offsets[c] <= Len(log[c[2]])
    /\ \A o \in 0 .. offsets[c] - 1 : o \in SettledIn(c)

\* A goroutine never goes back: the offsets it settles strictly increase, so
\* it neither reorders the messages of a key nor settles one of them twice.
SettlesInOrder ==
  \A w \in Workers : \A i, j \in 1 .. Len(settled[w]) :
    i < j => settled[w][i] < settled[w][j]

\* A goroutine waiting in the select while its partition holds a message it
\* has not seen has a notification pending: no append is slept through.
NoLostWakeup ==
  \A w \in Workers : wpc[w] = "wait" /\ Available(w) => notify[w]

\* The subscription is the only one of its group.
Sole(w) == \A s \in Subscriptions : GroupOf[s] = GroupOf[w[1]] => s = w[1]

\* Exactly once, in log order: the only goroutine a group has on a partition
\* settles offset 0, then 1, and so on, and is at most one ahead of the
\* committed offset.
SoleConsumerExactlyOnce ==
  \A w \in Workers : Sole(w) =>
    /\ \A i \in 1 .. Len(settled[w]) : settled[w][i] = i - 1
    /\ Len(settled[w]) = offsets[CellOf(w)] + (IF wpc[w] = "commit" THEN 1 ELSE 0)

\* The dead-letter queue holds a message once per goroutine that gave up on it
\* at most, only after maxRetries attempts, and unaltered but for its offset.
DeadLettersFaithful ==
  /\ \A i \in 1 .. Len(dlq) :
       /\ dlq[i].attempt = MaxRetries
       /\ \E j \in 1 .. Len(log[dlq[i].partition]) :
            LET m == log[dlq[i].partition][j] IN
            /\ m.id = dlq[i].id /\ m.key = dlq[i].key
            /\ \E w \in Workers :
                 w[2] = dlq[i].partition /\ j - 1 \in SettledBy(w)
  /\ \A i \in 1 .. Len(dlq) :
       Cardinality({j \in 1 .. Len(dlq) : dlq[j].id = dlq[i].id})
         <= Cardinality({w \in Workers : wpc[w] \notin {"none", "spawned"}
                                         /\ w[2] = dlq[i].partition})

\* The publish counter lags the logs by the publishers that have appended and
\* not yet counted, and by nothing else.
CountLagsLogs ==
  LET appended == {e \in Partitions \X (1 .. MaxPublished) : e[2] <= Len(log[e[1]])}
  IN  Cardinality(appended)
        = publishCount + Cardinality({u \in Publishers : ppc[u] = "count"})

\* Logs and dead letters are only appended to, and a committed offset never
\* moves back: not when a slow goroutine of the group commits late, not when
\* another Subscribe joins the group.
Grows(q, r) == Len(q) <= Len(r) /\ \A i \in 1 .. Len(q) : r[i] = q[i]
OnlyForward ==
  [][ /\ \A p \in Partitions : Grows(log[p], log'[p])
      /\ Grows(dlq, dlq')
      /\ \A c \in Cells : offsets[c] <= offsets'[c] ]_vars

\* Every message of a partition is eventually behind the committed offset of
\* every subscribed group, unless the subscription is cancelled.
EventuallyCommitted ==
  \A w \in Workers : \A o \in 0 .. MaxPublished - 1 :
    (wpc[w] # "none" /\ o < Len(log[w[2]]))
      ~> (o < offsets[CellOf(w)] \/ w[1] \in cancelled)

\* Once its context is done a goroutine returns, as soon as publishers let it
\* reach the end of its partition (the model's publishers are finitely many).
CancelStops ==
  \A w \in Workers :
    (wpc[w] # "none" /\ w[1] \in cancelled) ~> (wpc[w] = "stopped")

\* What the comment on Subscribe says of cancelling, that it stops consumption:
\* a goroutine finishes the message it has in hand and settles no other.
CancelStopsConsumption ==
  \A w \in Workers : \A n \in 0 .. MaxPublished :
    []((w[1] \in cancelled /\ wpc[w] # "none" /\ Len(settled[w]) <= n)
         => [](Len(settled[w]) <= n + 1))

\* What GUIDE.md and README.md say of a consumer group: no two goroutines of
\* it settle the same message.
GroupExactlyOnce ==
  \A v, w \in Workers :
    v # w /\ CellOf(v) = CellOf(w) => SettledBy(v) \intersect SettledBy(w) = {}

=============================================================================
