----------------------------- MODULE BrokerViews ----------------------------
(***************************************************************************)
(* The broker's reading calls that take more than one lock: Replay,        *)
(* GetStats and QueueDepth, running beside publishers and consumers.       *)
(* Each locks the partitions one after the other; GetStats and QueueDepth  *)
(* also hold Broker.mu for reading throughout, which keeps out the calls   *)
(* that write under Broker.mu, and no others.                              *)
(***************************************************************************)
EXTENDS Broker, Functions

CONSTANTS
  Readers,    \* goroutines of the API server and the scheduler that read
  Froms       \* the fromOffset arguments of Replay

ASSUME ViewsAssumption == Froms \subseteq Int

VARIABLE view   \* per reader: the call it is in and its local variables

allVars == <<vars, view>>

\* part is the next partition to read, got and total what has been read; from
\* is the argument of Replay.  History: start and consumed, how much was in the
\* logs and how much of it was consumed when the call began.
Idle == [pc |-> "idle", from |-> 0, part |-> 0, got |-> <<>>, total |-> 0,
         start |-> [p \in Partitions |-> 0], consumed |-> [p \in Partitions |-> 0]]

Lengths == [p \in Partitions |-> Len(log[p])]

\* How many messages of every partition all the groups have consumed.
Consumed == [p \in Partitions |->
  Cardinality({o \in 0 .. Len(log[p]) - 1 :
                 groups # {} /\ \A g \in groups : o < offsets[<<g, p>>]})]

Total(f) == FoldFunction(+, 0, f)

\* The messages of q that are in T, as a loop over q collects them.
Those(q, T) ==
  LET collected[n \in 0 .. Len(q)] ==
        IF n = 0 THEN <<>>
        ELSE IF q[n] \in T THEN Append(collected[n - 1], q[n]) ELSE collected[n - 1]
  IN  collected[Len(q)]

\* Some reader holds Broker.mu.
ReadLocked == \E r \in Readers : view[r].pc \in {"stats", "depth"}

-----------------------------------------------------------------------------
ViewsInit == Init /\ view = [r \in Readers |-> Idle]

\* A call begins.  getTopic finds nothing before the first Publish or Subscribe.
Begin(r, call) ==
  /\ view[r].pc = "idle"
  /\ created
  /\ view' = [view EXCEPT ![r] = call]
  /\ UNCHANGED vars

ReplayBegin(r, f) ==
  Begin(r, [Idle EXCEPT !.pc = "replay", !.from = f, !.start = Lengths])

\* Replay copies one partition under its lock.
ReplayPartition(r) ==
  LET v == view[r]
      wanted == {m \in Message : m.offset >= v.from}
  IN
  /\ v.pc = "replay"
  /\ view' = [view EXCEPT ![r] =
       [v EXCEPT !.got = @ \o Those(log[v.part], wanted),
                 !.part = @ + 1,
                 !.pc = IF v.part + 1 = NumPartitions THEN "replayed" ELSE @]]
  /\ UNCHANGED vars

\* GetStats takes Broker.mu and reads the counter ...
StatsBegin(r) ==
  Begin(r, [Idle EXCEPT !.pc = "stats", !.total = publishCount])

\* ... and then the length of the dead-letter queue under that queue's lock.
StatsDlq(r) ==
  /\ view[r].pc = "stats"
  /\ view' = [view EXCEPT ![r] = [@ EXCEPT !.got = dlq, !.pc = "counted"]]
  /\ UNCHANGED vars

DepthBegin(r) ==
  Begin(r, [Idle EXCEPT !.pc = "depth", !.start = Lengths, !.consumed = Consumed])

\* Mutant of DepthPartition: the loop variable is not used.
DepthPartitionZero(r) ==
  LET v == view[r] IN
  /\ v.pc = "depth"
  /\ view' = [view EXCEPT ![r] =
       [v EXCEPT !.total = @ + Len(log[0]),
                 !.part = @ + 1,
                 !.pc = IF v.part + 1 = NumPartitions THEN "measured" ELSE @]]
  /\ UNCHANGED vars

\* QueueDepth adds the length of one partition's log.
DepthPartition(r) ==
  LET v == view[r] IN
  /\ v.pc = "depth"
  /\ view' = [view EXCEPT ![r] =
       [v EXCEPT !.total = @ + Len(log[v.part]),
                 !.part = @ + 1,
                 !.pc = IF v.part + 1 = NumPartitions THEN "measured" ELSE @]]
  /\ UNCHANGED vars

\* The call returns its result.
Return(r) ==
  /\ view[r].pc \in {"replayed", "counted", "measured"}
  /\ view' = [view EXCEPT ![r] = Idle]
  /\ UNCHANGED vars

\* Mutant of BrokerStep: publishing does not take Broker.mu.
BrokerStepUnlocked == Next /\ UNCHANGED view

\* ensureTopic, the publish counter and the group map are written under
\* Broker.mu; appends, dead letters and commits are not.
BrokerStep ==
  /\ \/ /\ ~ReadLocked
        /\ \/ \E u \in Publishers, k \in Keys : PublishBegin(u, k)
           \/ \E u \in Publishers : PublishCount(u)
           \/ \E s \in Subscriptions : Subscribe(s)
     \/ \E u \in Publishers : PublishAppend(u)
     \/ \E s \in Subscriptions : Cancel(s)
     \/ \E w \in Workers : Consume(w)
  /\ UNCHANGED view

ViewsNext ==
  \/ BrokerStep
  \/ \E r \in Readers :
       \/ \E f \in Froms : ReplayBegin(r, f)
       \/ StatsBegin(r) \/ DepthBegin(r)
       \/ ReplayPartition(r) \/ StatsDlq(r) \/ DepthPartition(r)
       \/ Return(r)

ViewsSpec == ViewsInit /\ [][ViewsNext]_allVars

-----------------------------------------------------------------------------
(* Properties.                                                             *)

\* The messages of one partition.
Of(p) == {m \in Message : m.partition = p}

\* Although Replay is not one snapshot, of every partition it returns a run
\* without gaps, in log order, that begins at fromOffset and reaches at least
\* what was in the log when the call began.
ReplayWithoutGaps ==
  \A r \in Readers : view[r].pc = "replayed" =>
    \A p \in Partitions :
      LET first == IF view[r].from < 0 THEN 1 ELSE view[r].from + 1
      IN  \E n \in view[r].start[p] .. Len(log[p]) :
            Those(view[r].got, Of(p)) = SubSeq(log[p], first, n)

\* The two numbers GetStats gives for a topic were true at one moment, that of
\* reading the second one: no publish is counted in between.
StatsOfOneMoment ==
  \A r \in Readers : view[r].pc = "stats" => view[r].total = publishCount

\* What QueueDepth returns lies between what the logs held when it began and
\* what they hold when it returns.
DepthWithinCall ==
  \A r \in Readers : view[r].pc = "measured" =>
    /\ Total(view[r].start) <= view[r].total
    /\ view[r].total <= Total(Lengths)

\* What the comment on QueueDepth and GUIDE.md say it returns, the messages
\* not yet consumed: no more than the logs hold by now without those that every
\* group had consumed when the call began.
DepthIsBacklog ==
  \A r \in Readers : view[r].pc = "measured" =>
    view[r].total <= Total(Lengths) - Total(view[r].consumed)

=============================================================================
