---------------------------- MODULE BrokerProofs ----------------------------
(***************************************************************************)
(* Proofs about Broker, for every number of partitions, publishers,        *)
(* subscriptions and messages.                                             *)
(*                                                                         *)
(* First the goroutines: what they have settled and where their cursors    *)
(* stand.  Then what becomes of a message: it has a number of its own and  *)
(* one place in one log, it is counted once, and no goroutine gives it up  *)
(* twice; so that the broker implements GroupLog.                          *)
(***************************************************************************)
EXTENDS BrokerRefinement, FiniteSetTheorems, TLAPS

-----------------------------------------------------------------------------
(* Typing.                                                                 *)

\* partitionFor names a partition of the topic, so Publish never indexes past
\* the end of topic.partitions.
LEMMA PartitionForType == ASSUME NEW k \in Keys PROVE partitionFor(k) \in Partitions
  BY BrokerAssumption DEF partitionFor, Partitions

\* A consumer's offset cell exists.
LEMMA CellOfType == ASSUME NEW w \in Workers PROVE CellOf(w) \in Cells /\ w[1] \in Subscriptions
                                                   /\ w[2] \in Partitions
                                                   /\ CellOf(w)[2] = w[2]
                                                   /\ CellOf(w)[1] = GroupOf[w[1]]
  BY BrokerAssumption DEF CellOf, Cells, Workers

LEMMA AppendToType ==
  ASSUME NEW q \in Seq(Message), NEW m \in Message
  PROVE  AppendTo(q, m) \in Seq(Message)
  BY DEF AppendTo, Message

LEMMA CurrentType ==
  ASSUME TypeOK, NEW w \in Workers, Available(w)
  PROVE  Current(w) \in Message
<1>1. w[2] \in Partitions /\ cur[w] \in Nat /\ attempt[w] \in Nat
  BY CellOfType, BrokerAssumption DEF TypeOK
<1>2. log[w[2]] \in Seq(Message) /\ cur[w] + 1 \in 1 .. Len(log[w[2]])
  BY <1>1 DEF TypeOK, Available
<1>3. log[w[2]][cur[w] + 1] \in Message
  BY <1>2
<1> QED
  BY <1>1, <1>3 DEF Current, Message

\* Between the hit and the commit, the offset a goroutine works on is in the log.
CurInLog ==
  \A w \in Workers : wpc[w] \in {"handle", "dlq", "commit"} => Available(w)

LEMMA TypeInit == Init => TypeOK /\ CurInLog
<1> SUFFICES ASSUME Init PROVE TypeOK /\ CurInLog
  OBVIOUS
<1>1. NoMessage \in Message
  BY BrokerAssumption DEF NoMessage, Message, Partitions
<1>2. CurInLog
  BY DEF Init, CurInLog
<1>3. <<>> \in Seq(Message) /\ <<>> \in Seq(Nat)
  OBVIOUS
<1>4. created \in BOOLEAN /\ notify \in [Workers -> BOOLEAN]
  BY DEF Init
<1>5. attempt \in [Workers -> 0 .. MaxRetries]
  BY BrokerAssumption DEF Init
<1>6. draft \in [Publishers -> Message]
  BY <1>1 DEF Init
<1>7. log \in [Partitions -> Seq(Message)] /\ dlq \in Seq(Message) /\ settled \in [Workers -> Seq(Nat)]
  BY <1>3 DEF Init
<1>8. wpc \in [Workers -> WorkerPc] /\ ppc \in [Publishers -> PublisherPc]
  BY DEF Init, WorkerPc, PublisherPc
<1>9. TypeOK
  BY <1>4, <1>5, <1>6, <1>7, <1>8 DEF Init, TypeOK
<1> QED
  BY <1>2, <1>9

LEMMA TypeStep == TypeOK /\ CurInLog /\ [Next]_vars => TypeOK'
<1> SUFFICES ASSUME TypeOK, CurInLog, [Next]_vars PROVE TypeOK'
  OBVIOUS
<1> USE DEF TypeOK
<1>1. ASSUME NEW u \in Publishers, NEW k \in Keys, PublishBegin(u, k) PROVE TypeOK'
  <2>1. [id |-> published + 1, key |-> k, partition |-> partitionFor(k),
         offset |-> 0, attempt |-> 1] \in Message
    BY PartitionForType DEF Message
  <2> QED
    BY <1>1, <2>1 DEF PublishBegin, groupVars, workerVars, PublisherPc
<1>2. ASSUME NEW u \in Publishers, PublishAppend(u) PROVE TypeOK'
  <2>1. draft[u] \in Message /\ draft[u].partition \in Partitions
    BY DEF Message
  <2>2. log' \in [Partitions -> Seq(Message)]
    BY <1>2, <2>1, AppendToType DEF PublishAppend
  <2>3. notify' \in [Workers -> BOOLEAN]
    BY <1>2 DEF PublishAppend, Woken
  <2> QED
    BY <1>2, <2>2, <2>3 DEF PublishAppend, groupVars, workerVars, PublisherPc
<1>3. ASSUME NEW u \in Publishers, PublishCount(u) PROVE TypeOK'
  BY <1>3 DEF PublishCount, topicVars, groupVars, workerVars, PublisherPc
<1>4. ASSUME NEW s \in Subscriptions, Subscribe(s) PROVE TypeOK'
  <2>1. groups' \subseteq Groups
    BY <1>4, BrokerAssumption DEF Subscribe
  <2>2. offsets' \in [Cells -> Nat]
    BY <1>4 DEF Subscribe
  <2>3. wpc' \in [Workers -> WorkerPc]
    BY <1>4 DEF Subscribe, WorkerPc
  <2> QED
    BY <1>4, <2>1, <2>2, <2>3 DEF Subscribe, publisherVars
<1>5. ASSUME NEW s \in Subscriptions, Cancel(s) PROVE TypeOK'
  BY <1>5 DEF Cancel, topicVars, groupVars, workerVars, publisherVars
<1>6. ASSUME NEW w \in Workers, Consume(w) PROVE TypeOK'
  <2> USE DEF Goto, WorkerPc
  <2>0. /\ w[2] \in Partitions /\ CellOf(w) \in Cells
        /\ cur[w] \in Nat /\ attempt[w] \in 0 .. MaxRetries
        /\ MaxRetries \in Nat \ {0}
    BY CellOfType, BrokerAssumption
  <2>1. CASE Register(w)
    BY <2>0, <2>1 DEF Register, groupVars, publisherVars
  <2>2. CASE GetOffset(w)
    BY <2>0, <2>2 DEF GetOffset, topicVars, groupVars, publisherVars
  <2>3. CASE GetHit(w)
    BY <2>0, <2>3 DEF GetHit, topicVars, groupVars, publisherVars
  <2>4. CASE GetMiss(w)
    BY <2>0, <2>4 DEF GetMiss, topicVars, groupVars, publisherVars
  <2>5. CASE Wake(w)
    BY <2>0, <2>5 DEF Wake, groupVars, publisherVars
  <2>6. CASE Stop(w)
    BY <2>0, <2>6 DEF Stop, topicVars, groupVars, publisherVars
  <2>7. CASE HandlerOk(w)
    BY <2>0, <2>7 DEF HandlerOk, topicVars, groupVars, publisherVars
  <2>8. CASE HandlerErr(w)
    <3>1. attempt' \in [Workers -> 0 .. MaxRetries]
      <4>1. CASE attempt[w] < MaxRetries
        <5>1. attempt' = [attempt EXCEPT ![w] = attempt[w] + 1]
          BY <2>8, <4>1 DEF HandlerErr
        <5>2. attempt[w] + 1 \in 0 .. MaxRetries
          BY <2>0, <4>1
        <5> QED
          BY <5>1, <5>2
      <4>2. CASE ~ (attempt[w] < MaxRetries)
        BY <2>8, <4>2 DEF HandlerErr
      <4> QED
        BY <4>1, <4>2
    <3>2. wpc' \in [Workers -> WorkerPc]
      BY <2>8 DEF HandlerErr
    <3> QED
      BY <2>8, <3>1, <3>2 DEF HandlerErr, topicVars, groupVars, publisherVars
  <2>9. CASE DeadLetter(w)
    <3>1. Current(w) \in Message
      BY <2>9, CurrentType DEF DeadLetter, CurInLog
    <3>2. dlq' \in Seq(Message)
      BY <2>9, <3>1, AppendToType DEF DeadLetter
    <3> QED
      BY <2>0, <2>9, <3>2 DEF DeadLetter, groupVars, publisherVars
  <2>10. CASE Commit(w)
    BY <2>0, <2>10 DEF Commit, Committed, topicVars, publisherVars
  <2> QED
    BY <1>6, <2>1, <2>2, <2>3, <2>4, <2>5, <2>6, <2>7, <2>8, <2>9, <2>10 DEF Consume
<1>7. CASE UNCHANGED vars
  BY <1>7 DEF vars, topicVars, groupVars, workerVars, publisherVars
<1> QED
  BY <1>1, <1>2, <1>3, <1>4, <1>5, <1>6, <1>7 DEF Next

-----------------------------------------------------------------------------
(* Frame lemmas: what each kind of step leaves alone or only lets grow.    *)

\* Logs only grow.
LEMMA LogGrows ==
  ASSUME TypeOK, [Next]_vars, NEW p \in Partitions
  PROVE  Len(log[p]) <= Len(log'[p]) /\ Len(log'[p]) \in Nat /\ Len(log[p]) \in Nat
<1> USE DEF TypeOK
<1>1. log[p] \in Seq(Message)
  OBVIOUS
<1>2. ASSUME NEW u \in Publishers, PublishAppend(u)
      PROVE  log'[p] = log[p] \/ log'[p] = AppendTo(log[p], draft[u])
  BY <1>2 DEF PublishAppend
<1>3. ASSUME NEW u \in Publishers, NEW k \in Keys, PublishBegin(u, k) PROVE log' = log
  BY <1>3 DEF PublishBegin
<1>4. ASSUME NEW u \in Publishers, PublishCount(u) PROVE log' = log
  BY <1>4 DEF PublishCount, topicVars
<1>5. ASSUME NEW s \in Subscriptions, Subscribe(s) \/ Cancel(s) PROVE log' = log
  BY <1>5 DEF Subscribe, Cancel, topicVars
<1>6. ASSUME NEW w \in Workers, Consume(w) PROVE log' = log
  BY <1>6 DEF Consume, Register, GetOffset, GetHit, GetMiss, Wake, Stop, HandlerOk,
              HandlerErr, DeadLetter, Commit, topicVars
<1>8. log'[p] = log[p] \/ \E u \in Publishers : log'[p] = AppendTo(log[p], draft[u])
  BY <1>2, <1>3, <1>4, <1>5, <1>6 DEF Next, vars, topicVars
<1>9. ASSUME NEW u \in Publishers
      PROVE  Len(AppendTo(log[p], draft[u])) = Len(log[p]) + 1
  <2>0. draft[u] \in Message /\ Len(log[p]) \in Nat
    BY <1>1
  <2>1. [draft[u] EXCEPT !.offset = Len(log[p])] \in Message
    BY <2>0 DEF Message
  <2> QED
    BY <1>1, <2>1 DEF AppendTo
<1> QED
  BY <1>1, <1>8, <1>9

\* Settling adds the current offset and forgets nothing.
LEMMA SettledByGrows ==
  ASSUME TypeOK, NEW w \in Workers, settled' = [settled EXCEPT ![w] = Append(@, cur[w])]
  PROVE  \A v \in Workers :
           SettledBy(v)' = IF v = w THEN SettledBy(v) \union {cur[w]} ELSE SettledBy(v)
<1> USE DEF TypeOK
<1>1. settled[w] \in Seq(Nat) /\ cur[w] \in Nat
  OBVIOUS
<1>2. ASSUME NEW v \in Workers, v # w PROVE SettledBy(v)' = SettledBy(v)
  BY <1>2 DEF SettledBy
<1>3. SettledBy(w)' = SettledBy(w) \union {cur[w]}
  <2>1. settled'[w] = Append(settled[w], cur[w])
    OBVIOUS
  <2>2. Len(settled'[w]) = Len(settled[w]) + 1
    BY <1>1, <2>1
  <2>3. \A i \in 1 .. Len(settled[w]) : settled'[w][i] = settled[w][i]
    BY <1>1, <2>1
  <2>4. settled'[w][Len(settled[w]) + 1] = cur[w]
    BY <1>1, <2>1
  <2>5. 1 .. Len(settled'[w]) = (1 .. Len(settled[w])) \union {Len(settled[w]) + 1}
    BY <1>1, <2>2
  <2> QED
    BY <1>1, <2>3, <2>4, <2>5 DEF SettledBy
<1> QED
  BY <1>2, <1>3

\* Logs keep what they hold, so an available message stays available.
LEMMA AvailableStays ==
  ASSUME TypeOK, [Next]_vars, NEW w \in Workers, cur'[w] = cur[w], Available(w)
  PROVE  Available(w)'
<1>1. w[2] \in Partitions /\ cur[w] \in Nat
  BY CellOfType DEF TypeOK
<1> QED
  BY <1>1, LogGrows DEF Available

-----------------------------------------------------------------------------
(* The inductive invariant.                                                *)

\* A goroutine runs only for a group the broker knows.
Joined == \A w \in Workers : wpc[w] # "none" => GroupOf[w[1]] \in groups

\* A group the broker does not know has committed nothing.
FreshGroups == \A c \in Cells : c[1] \notin groups => offsets[c] = 0

\* Where the cursor of a goroutine stands.  The offset it has read is at or
\* behind its group's, which other goroutines may have moved on meanwhile, and
\* in the log from the hit to the commit; what is about to be committed has
\* been settled; and everything else the goroutine has settled is behind its
\* own cursor while it works, behind its group's offset between two rounds.
CursorOf(w) ==
  /\ wpc[w] \in {"get", "wait", "handle", "dlq", "commit"} => cur[w] <= offsets[CellOf(w)]
  /\ wpc[w] \in {"handle", "dlq", "commit"} => Available(w)
  /\ wpc[w] = "commit" => cur[w] \in SettledBy(w)
  /\ \A o \in SettledBy(w) :
       /\ wpc[w] = "commit" => o <= cur[w]
       /\ wpc[w] \in {"get", "wait", "handle", "dlq"} => o < cur[w]
       /\ wpc[w] \in {"none", "spawned", "offset", "stopped"} => o < offsets[CellOf(w)]

Cursors == \A w \in Workers : CursorOf(w)

\* A goroutine in its loop has its channel in the list of its partition.
Registered == \A w \in Workers : wpc[w] \notin {"none", "spawned"} => w \in subs[w[2]]

IInv ==
  /\ TypeOK
  /\ Joined /\ FreshGroups
  /\ Cursors
  /\ NoMessageSkipped
  /\ SettlesInOrder
  /\ Registered /\ NoLostWakeup

LEMMA IInvInit == Init => IInv
<1> SUFFICES ASSUME Init PROVE IInv
  OBVIOUS
<1>1. TypeOK /\ CurInLog
  BY TypeInit
<1>2. ASSUME NEW w \in Workers
      PROVE  wpc[w] = "none" /\ settled[w] = <<>> /\ SettledBy(w) = {}
  BY DEF Init, SettledBy
<1>3. \A c \in Cells : offsets[c] = 0 /\ log[c[2]] = <<>>
  BY DEF Init, Cells
<1>4. Joined /\ FreshGroups /\ Registered
  BY <1>2, <1>3 DEF Joined, FreshGroups, Registered
<1>5. Cursors
  BY <1>2 DEF Cursors, CursorOf
<1>6. NoMessageSkipped
  BY <1>3 DEF NoMessageSkipped
<1>7. SettlesInOrder /\ NoLostWakeup
  BY <1>2 DEF SettlesInOrder, NoLostWakeup
<1> QED
  BY <1>1, <1>4, <1>5, <1>6, <1>7 DEF IInv

\* Only Subscribe adds groups, and it zeroes the offsets of a new one only.
LEMMA GroupsStep ==
  ASSUME IInv, [Next]_vars
  PROVE  Joined' /\ FreshGroups' /\ \A c \in Cells : offsets[c] <= offsets'[c]
<1> USE DEF IInv, TypeOK, Joined, FreshGroups
<1>1. ASSUME UNCHANGED <<groups, offsets>>,
             \A w \in Workers : wpc'[w] # "none" => wpc[w] # "none"
      PROVE  Joined' /\ FreshGroups' /\ \A c \in Cells : offsets[c] <= offsets'[c]
  BY <1>1
<1>2. ASSUME NEW s \in Subscriptions, Subscribe(s)
      PROVE  Joined' /\ FreshGroups' /\ \A c \in Cells : offsets[c] <= offsets'[c]
  <2>1. \A w \in Workers : wpc'[w] # "none" => w[1] = s \/ wpc[w] # "none"
    BY <1>2 DEF Subscribe
  <2>2. groups' = groups \union {GroupOf[s]}
    BY <1>2 DEF Subscribe
  <2>3. Joined'
    BY <2>1, <2>2
  <2>4. \A c \in Cells : offsets'[c] = offsets[c]
    BY <1>2 DEF Subscribe
  <2> QED
    BY <2>2, <2>3, <2>4
<1>3. ASSUME NEW w \in Workers, Commit(w)
      PROVE  Joined' /\ FreshGroups' /\ \A c \in Cells : offsets[c] <= offsets'[c]
  <2>1. CellOf(w) \in Cells /\ CellOf(w)[1] = GroupOf[w[1]] /\ cur[w] \in Nat
    BY CellOfType
  <2>2. groups' = groups /\ wpc[w] = "commit" /\ wpc' = [wpc EXCEPT ![w] = "offset"]
    BY <1>3 DEF Commit, Goto
  <2>3. \A c \in Cells : offsets'[c] = IF c = CellOf(w) THEN Committed(c, cur[w] + 1)
                                       ELSE offsets[c]
    BY <1>3, <2>1 DEF Commit
  <2>4. Joined'
    BY <2>2
  <2>5. FreshGroups'
    BY <2>1, <2>2, <2>3
  <2>6. \A c \in Cells : offsets[c] <= offsets'[c]
    <3>1. offsets[CellOf(w)] <= Committed(CellOf(w), cur[w] + 1)
      BY <2>1 DEF Committed
    <3>2. \A c \in Cells : offsets[c] \in Nat
      OBVIOUS
    <3>3. ASSUME NEW c \in Cells PROVE offsets[c] <= offsets'[c]
      <4>1. CASE c = CellOf(w)
        BY <2>3, <3>1, <4>1
      <4>2. CASE c # CellOf(w)
        BY <2>3, <3>2, <4>2
      <4> QED
        BY <4>1, <4>2
    <3> QED
      BY <3>3
  <2> QED
    BY <2>4, <2>5, <2>6
<1>4. ASSUME NEW w \in Workers, Consume(w), ~Commit(w)
      PROVE  UNCHANGED <<groups, offsets>> /\ \A v \in Workers : wpc'[v] # "none" => wpc[v] # "none"
  BY <1>4 DEF Consume, Register, GetOffset, GetHit, GetMiss, Wake, Stop, HandlerOk,
              HandlerErr, DeadLetter, Goto, groupVars
<1>5. ASSUME (\E u \in Publishers : PublishAppend(u) \/ PublishCount(u)
                                    \/ \E k \in Keys : PublishBegin(u, k))
             \/ (\E s \in Subscriptions : Cancel(s)) \/ UNCHANGED vars
      PROVE  UNCHANGED <<groups, offsets, wpc>>
  BY <1>5 DEF PublishBegin, PublishAppend, PublishCount, Cancel, vars, groupVars, workerVars
<1> QED
  BY <1>1, <1>2, <1>3, <1>4, <1>5 DEF Next

LEMMA SettledByType ==
  ASSUME TypeOK, NEW w \in Workers PROVE SettledBy(w) \subseteq Nat
  BY DEF TypeOK, SettledBy

\* A goroutine that does not move keeps its cursor in place while others act.
LEMMA CursorFrame ==
  ASSUME IInv, [Next]_vars, NEW v \in Workers,
         wpc'[v] = wpc[v], cur'[v] = cur[v], SettledBy(v)' = SettledBy(v)
  PROVE  CursorOf(v)'
<1>1. CursorOf(v) /\ TypeOK
  BY DEF IInv, Cursors
<1>2. Available(v) => Available(v)'
  BY <1>1, AvailableStays
<1>3. /\ CellOf(v) \in Cells /\ CellOf(v)' = CellOf(v)
      /\ cur[v] \in Nat /\ SettledBy(v) \subseteq Nat
      /\ offsets[CellOf(v)] \in Nat
  BY <1>1, CellOfType, SettledByType DEF TypeOK, CellOf
<1>4. offsets'[CellOf(v)] \in Nat
  <2>1. TypeOK'
    BY <1>1, TypeStep DEF IInv, Cursors, CursorOf, CurInLog
  <2> QED
    BY <1>3, <2>1 DEF TypeOK
<1>5. offsets[CellOf(v)] <= offsets'[CellOf(v)]
  BY <1>3, GroupsStep
<1> QED
  BY <1>1, <1>2, <1>3, <1>4, <1>5 DEF CursorOf

\* Every step of the goroutine itself puts its cursor where CursorOf says.
LEMMA CursorMoves ==
  ASSUME IInv, NEW w \in Workers, Consume(w)
  PROVE  CursorOf(w)'
<1> DEFINE c == CellOf(w)
<1>1. /\ TypeOK /\ CursorOf(w) /\ [Next]_vars
      /\ c \in Cells /\ c' = c /\ w[2] \in Partitions
      /\ cur[w] \in Nat /\ SettledBy(w) \subseteq Nat /\ offsets[c] \in Nat
  BY CellOfType, SettledByType DEF IInv, Cursors, TypeOK, CellOf, Next
<1>2. /\ offsets[c] <= offsets'[c] /\ offsets'[c] \in Nat
      /\ (cur'[w] = cur[w] /\ Available(w)) => Available(w)'
  <2>1. TypeOK'
    BY <1>1, TypeStep DEF IInv, Cursors, CursorOf, CurInLog
  <2> QED
    BY <1>1, <2>1, GroupsStep, AvailableStays DEF TypeOK
<1> USE DEF Goto, CursorOf
<1> HIDE DEF c
<1>3. wpc \in [Workers -> WorkerPc] /\ cur \in [Workers -> Nat]
  BY <1>1 DEF TypeOK
<1>4. settled' = settled => SettledBy(w)' = SettledBy(w)
  BY DEF SettledBy
<1>5. settled' = [settled EXCEPT ![w] = Append(@, cur[w])]
        => SettledBy(w)' = SettledBy(w) \union {cur[w]}
  BY <1>1, SettledByGrows
<1>6. CASE Register(w)
  <2>1. wpc[w] = "spawned" /\ wpc'[w] = "offset" /\ SettledBy(w)' = SettledBy(w)
    BY <1>3, <1>4, <1>6 DEF Register
  <2> QED
    BY <1>1, <1>2, <2>1 DEF c
<1>7. CASE GetOffset(w)
  <2>1. /\ wpc[w] = "offset" /\ wpc'[w] = "get" /\ cur'[w] = offsets[c]
        /\ SettledBy(w)' = SettledBy(w)
    BY <1>3, <1>4, <1>7 DEF GetOffset, c
  <2> QED
    BY <1>1, <1>2, <2>1 DEF c
<1>8. CASE GetHit(w)
  <2>1. /\ wpc[w] = "get" /\ wpc'[w] = "handle" /\ cur'[w] = cur[w]
        /\ SettledBy(w)' = SettledBy(w) /\ Available(w)
    BY <1>3, <1>4, <1>8 DEF GetHit
  <2> QED
    BY <1>1, <1>2, <2>1 DEF c
<1>9. CASE GetMiss(w)
  <2>1. /\ wpc[w] = "get" /\ wpc'[w] = "wait" /\ cur'[w] = cur[w]
        /\ SettledBy(w)' = SettledBy(w)
    BY <1>3, <1>4, <1>9 DEF GetMiss
  <2> QED
    BY <1>1, <1>2, <2>1 DEF c
<1>10. CASE Wake(w) \/ Stop(w)
  <2>1. /\ wpc[w] = "wait" /\ wpc'[w] \in {"offset", "stopped"} /\ cur'[w] = cur[w]
        /\ SettledBy(w)' = SettledBy(w)
    BY <1>3, <1>4, <1>10 DEF Wake, Stop
  <2> QED
    BY <1>1, <1>2, <2>1 DEF c
<1>11. CASE HandlerOk(w) \/ DeadLetter(w)
  <2>1. /\ wpc[w] \in {"handle", "dlq"} /\ wpc'[w] = "commit" /\ cur'[w] = cur[w]
        /\ SettledBy(w)' = SettledBy(w) \union {cur[w]}
    BY <1>3, <1>5, <1>11 DEF HandlerOk, DeadLetter
  <2> QED
    BY <1>1, <1>2, <2>1 DEF c
<1>12. CASE HandlerErr(w)
  <2>1. /\ wpc[w] = "handle" /\ wpc'[w] \in {"handle", "dlq"} /\ cur'[w] = cur[w]
        /\ SettledBy(w)' = SettledBy(w)
    BY <1>3, <1>4, <1>12 DEF HandlerErr
  <2> QED
    BY <1>1, <1>2, <2>1 DEF c
<1>13. CASE Commit(w)
  <2>1. /\ wpc[w] = "commit" /\ wpc'[w] = "offset" /\ cur'[w] = cur[w]
        /\ SettledBy(w)' = SettledBy(w)
    BY <1>3, <1>4, <1>13 DEF Commit
  <2>2. cur[w] < offsets'[c]
    <3>1. offsets'[c] = Committed(c, cur[w] + 1)
      BY <1>1, <1>13 DEF Commit, TypeOK, c
    <3> QED
      BY <1>1, <3>1 DEF Committed
  <2> QED
    BY <1>1, <1>2, <2>1, <2>2 DEF c
<1> QED
  BY <1>6, <1>7, <1>8, <1>9, <1>10, <1>11, <1>12, <1>13 DEF Consume

LEMMA CursorsStep ==
  ASSUME IInv, [Next]_vars
  PROVE  Cursors'
<1>1. TypeOK /\ Cursors
  BY DEF IInv
<1>2. Workers' = Workers
  BY DEF Workers
<1> SUFFICES ASSUME NEW v \in Workers PROVE CursorOf(v)'
  BY <1>2 DEF Cursors
<1>3. CASE UNCHANGED <<wpc, cur, settled>>
  <2>1. SettledBy(v)' = SettledBy(v)
    BY <1>3 DEF SettledBy
  <2> QED
    BY <1>3, <2>1, CursorFrame
<1>4. ASSUME NEW s \in Subscriptions, Subscribe(s) PROVE CursorOf(v)'
  <2>1. UNCHANGED <<cur, settled>>
    BY <1>4 DEF Subscribe
  <2>2. SettledBy(v)' = SettledBy(v)
    BY <2>1 DEF SettledBy
  <2>3. CASE v[1] = s
    <3>1. wpc[v] = "none" /\ wpc'[v] = "spawned"
      BY <1>1, <1>4, <2>3 DEF Subscribe, TypeOK, Workers
    <3>2. CellOf(v) \in Cells /\ SettledBy(v) \subseteq Nat /\ offsets[CellOf(v)] \in Nat
      BY <1>1, CellOfType, SettledByType DEF TypeOK
    <3>3. offsets'[CellOf(v)] = offsets[CellOf(v)]
      BY <1>1, <1>4, <3>2, GroupsStep DEF Subscribe, IInv, FreshGroups
    <3>4. CellOf(v)' = CellOf(v)
      BY DEF CellOf
    <3> QED
      BY <1>1, <2>2, <3>1, <3>2, <3>3, <3>4 DEF Cursors, CursorOf
  <2>4. CASE v[1] # s
    <3>1. wpc'[v] = wpc[v]
      BY <1>4, <2>4 DEF Subscribe
    <3> QED
      BY <2>1, <2>2, <3>1, CursorFrame
  <2> QED
    BY <2>3, <2>4
<1>5. ASSUME NEW w \in Workers, Consume(w) PROVE CursorOf(v)'
  <2>1. CASE v = w
    BY <1>5, <2>1, CursorMoves
  <2>2. CASE v # w
    <3>1. wpc'[v] = wpc[v] /\ cur'[v] = cur[v] /\ settled'[v] = settled[v]
      BY <1>1, <1>5, <2>2 DEF Consume, Register, GetOffset, GetHit, GetMiss, Wake, Stop,
           HandlerOk, HandlerErr, DeadLetter, Commit, Goto, TypeOK
    <3>2. SettledBy(v)' = SettledBy(v)
      BY <3>1 DEF SettledBy
    <3> QED
      BY <3>1, <3>2, CursorFrame
  <2> QED
    BY <2>1, <2>2
<1>6. ASSUME (\E u \in Publishers : PublishAppend(u) \/ PublishCount(u)
                                    \/ \E k \in Keys : PublishBegin(u, k))
             \/ (\E s \in Subscriptions : Cancel(s)) \/ UNCHANGED vars
      PROVE  UNCHANGED <<wpc, cur, settled>>
  BY <1>6 DEF PublishBegin, PublishAppend, PublishCount, Cancel, vars, workerVars
<1> QED
  BY <1>3, <1>4, <1>5, <1>6 DEF Next

\* What each kind of step does to the histories of the goroutines.
LEMMA SettledStep ==
  ASSUME IInv, [Next]_vars
  PROVE  \/ settled' = settled
         \/ \E w \in Workers :
              /\ wpc[w] \in {"handle", "dlq"}
              /\ settled' = [settled EXCEPT ![w] = Append(@, cur[w])]
<1>1. ASSUME NEW w \in Workers, Consume(w)
      PROVE  \/ settled' = settled
             \/ /\ wpc[w] \in {"handle", "dlq"}
                /\ settled' = [settled EXCEPT ![w] = Append(@, cur[w])]
  BY <1>1 DEF Consume, Register, GetOffset, GetHit, GetMiss, Wake, Stop,
              HandlerOk, HandlerErr, DeadLetter, Commit
<1>2. ASSUME (\E u \in Publishers : PublishAppend(u) \/ PublishCount(u)
                                    \/ \E k \in Keys : PublishBegin(u, k))
             \/ (\E s \in Subscriptions : Subscribe(s) \/ Cancel(s)) \/ UNCHANGED vars
      PROVE  settled' = settled
  BY <1>2 DEF PublishBegin, PublishAppend, PublishCount, Subscribe, Cancel, vars, workerVars
<1> QED
  BY <1>1, <1>2 DEF Next

\* What a group has settled stays settled.
LEMMA SettledInGrows ==
  ASSUME IInv, [Next]_vars, NEW c \in Cells
  PROVE  SettledIn(c) \subseteq SettledIn(c)'
<1>1. \A w \in Workers : SettledBy(w) \subseteq SettledBy(w)'
  <2>1. CASE settled' = settled
    BY <2>1 DEF SettledBy
  <2>2. ASSUME NEW w \in Workers, settled' = [settled EXCEPT ![w] = Append(@, cur[w])]
        PROVE  \A v \in Workers : SettledBy(v) \subseteq SettledBy(v)'
    BY <2>2, SettledByGrows DEF IInv
  <2> QED
    BY <2>1, <2>2, SettledStep
<1>2. Workers' = Workers /\ \A w \in Workers : CellOf(w)' = CellOf(w)
  BY DEF Workers, CellOf
<1> QED
  BY <1>1, <1>2 DEF SettledIn

\* Committed offsets move only over what the group has settled.
LEMMA SkippedStep ==
  ASSUME IInv, [Next]_vars
  PROVE  NoMessageSkipped'
<1> SUFFICES ASSUME NEW c \in Cells
             PROVE  /\ offsets'[c] <= Len(log'[c[2]])
                    /\ \A o \in 0 .. offsets'[c] - 1 : o \in SettledIn(c)'
  BY DEF NoMessageSkipped
<1>1. /\ TypeOK /\ c[2] \in Partitions /\ offsets[c] \in Nat
      /\ offsets[c] <= Len(log[c[2]])
      /\ \A o \in 0 .. offsets[c] - 1 : o \in SettledIn(c)
  BY DEF IInv, NoMessageSkipped, Cells, TypeOK
<1>2. /\ Len(log[c[2]]) <= Len(log'[c[2]])
      /\ Len(log[c[2]]) \in Nat /\ Len(log'[c[2]]) \in Nat
  BY <1>1, LogGrows
<1>3. SettledIn(c) \subseteq SettledIn(c)'
  BY SettledInGrows
<1>4. CASE offsets'[c] = offsets[c]
  BY <1>1, <1>2, <1>3, <1>4
<1>5. ASSUME NEW w \in Workers, Commit(w), c = CellOf(w)
      PROVE  /\ offsets'[c] <= Len(log'[c[2]])
             /\ \A o \in 0 .. offsets'[c] - 1 : o \in SettledIn(c)'
  <2>1. /\ cur[w] \in Nat /\ cur[w] <= offsets[c] /\ cur[w] < Len(log[c[2]])
        /\ cur[w] \in SettledBy(w)
    BY <1>1, <1>5, CellOfType DEF Commit, IInv, Cursors, CursorOf, Available, TypeOK
  <2>2. cur[w] \in SettledIn(c)
    BY <1>5, <2>1 DEF SettledIn
  <2>3. offsets'[c] = IF cur[w] + 1 > offsets[c] THEN cur[w] + 1 ELSE offsets[c]
    BY <1>1, <1>5 DEF Commit, Committed, TypeOK
  <2> QED
    BY <1>1, <1>2, <1>3, <2>1, <2>2, <2>3
<1>6. ASSUME NEW w \in Workers, Commit(w), c # CellOf(w) PROVE offsets'[c] = offsets[c]
  BY <1>1, <1>6 DEF Commit, TypeOK
<1>7. ASSUME NEW s \in Subscriptions, Subscribe(s) PROVE offsets'[c] = offsets[c]
  BY <1>7 DEF Subscribe, IInv, FreshGroups
<1>8. ASSUME NEW w \in Workers, Consume(w), ~Commit(w) PROVE offsets' = offsets
  BY <1>8 DEF Consume, Register, GetOffset, GetHit, GetMiss, Wake, Stop, HandlerOk,
              HandlerErr, DeadLetter, groupVars
<1>9. ASSUME (\E u \in Publishers : PublishAppend(u) \/ PublishCount(u)
                                    \/ \E k \in Keys : PublishBegin(u, k))
             \/ (\E s \in Subscriptions : Cancel(s)) \/ UNCHANGED vars
      PROVE  offsets' = offsets
  BY <1>9 DEF PublishBegin, PublishAppend, PublishCount, Cancel, vars, groupVars
<1> QED
  BY <1>4, <1>5, <1>6, <1>7, <1>8, <1>9 DEF Next

\* What a goroutine settles next is beyond all it has settled.
LEMMA OrderStep ==
  ASSUME IInv, [Next]_vars
  PROVE  SettlesInOrder'
<1>1. TypeOK /\ SettlesInOrder
  BY DEF IInv
<1>2. CASE settled' = settled
  BY <1>1, <1>2 DEF SettlesInOrder, Workers
<1>3. ASSUME NEW w \in Workers, wpc[w] \in {"handle", "dlq"},
             settled' = [settled EXCEPT ![w] = Append(@, cur[w])]
      PROVE  SettlesInOrder'
  <2>1. settled[w] \in Seq(Nat) /\ cur[w] \in Nat /\ settled'[w] = Append(settled[w], cur[w])
    BY <1>1, <1>3 DEF TypeOK
  <2>2. \A i \in 1 .. Len(settled[w]) : settled[w][i] < cur[w]
    BY <1>3 DEF IInv, Cursors, CursorOf, SettledBy
  <2>3. /\ Len(settled'[w]) = Len(settled[w]) + 1
        /\ \A i \in 1 .. Len(settled[w]) : settled'[w][i] = settled[w][i]
        /\ settled'[w][Len(settled[w]) + 1] = cur[w]
    BY <2>1
  <2>4. ASSUME NEW i \in 1 .. Len(settled'[w]), NEW j \in 1 .. Len(settled'[w]), i < j
        PROVE  settled'[w][i] < settled'[w][j]
    <3>1. i \in 1 .. Len(settled[w])
      BY <2>1, <2>3, <2>4
    <3>2. CASE j \in 1 .. Len(settled[w])
      BY <1>1, <2>3, <2>4, <3>1, <3>2 DEF SettlesInOrder
    <3>3. CASE j = Len(settled[w]) + 1
      BY <2>2, <2>3, <3>1, <3>3
    <3> QED
      BY <2>1, <2>3, <3>2, <3>3
  <2>5. \A v \in Workers : v # w => settled'[v] = settled[v]
    BY <1>1, <1>3 DEF TypeOK
  <2> QED
    BY <1>1, <2>4, <2>5 DEF SettlesInOrder, Workers
<1> QED
  BY <1>2, <1>3, SettledStep

\* An append notifies every channel of its partition, and a goroutine starts
\* to wait only after it has found its partition exhausted.
LEMMA WakeupStep ==
  ASSUME IInv, [Next]_vars
  PROVE  Registered' /\ NoLostWakeup'
<1>1. TypeOK /\ Registered /\ NoLostWakeup
  BY DEF IInv
<1> SUFFICES ASSUME NEW v \in Workers
             PROVE  /\ wpc'[v] \notin {"none", "spawned"} => v \in subs'[v[2]]
                    /\ wpc'[v] = "wait" /\ Available(v)' => notify'[v]
  BY DEF Registered, NoLostWakeup, Workers
<1> DEFINE Kept == /\ wpc'[v] \notin {"none", "spawned"} => v \in subs'[v[2]]
                   /\ wpc'[v] = "wait" /\ Available(v)' => notify'[v]
<1>2. v[2] \in Partitions
  BY CellOfType
<1>3. /\ wpc[v] \notin {"none", "spawned"} => v \in subs[v[2]]
      /\ wpc[v] = "wait" /\ Available(v) => notify[v]
  BY <1>1 DEF Registered, NoLostWakeup
<1>4. ASSUME wpc'[v] = wpc[v] \/ wpc'[v] \in {"none", "spawned"},
             UNCHANGED <<log, subs, notify, cur>>
      PROVE  Kept
  BY <1>3, <1>4 DEF Available
<1>5. ASSUME NEW u \in Publishers, PublishAppend(u) PROVE Kept
  <2> DEFINE p == draft[u].partition
  <2>1. UNCHANGED <<subs, wpc, cur>> /\ notify' = Woken(p)
    BY <1>5 DEF PublishAppend, workerVars
  <2>2. CASE v[2] = p
    <3>1. v \in subs[v[2]] => notify'[v]
      BY <2>1, <2>2 DEF Woken
    <3> QED
      BY <1>3, <2>1, <3>1
  <2>3. CASE v[2] # p
    <3>1. log'[v[2]] = log[v[2]]
      BY <1>1, <1>2, <1>5, <2>3 DEF PublishAppend, TypeOK
    <3>2. Available(v)' = Available(v)
      BY <2>1, <3>1 DEF Available
    <3>3. notify[v] => notify'[v]
      BY <2>1 DEF Woken
    <3> QED
      BY <1>3, <2>1, <3>2, <3>3
  <2> QED
    BY <2>2, <2>3
<1>6. ASSUME NEW s \in Subscriptions, Subscribe(s) PROVE Kept
  BY <1>4, <1>6 DEF Subscribe
<1>7. ASSUME NEW w \in Workers, Consume(w), v # w PROVE Kept
  <2>1. /\ wpc'[v] = wpc[v] /\ cur'[v] = cur[v] /\ notify'[v] = notify[v]
        /\ log' = log /\ subs[v[2]] \subseteq subs'[v[2]]
    <3> USE DEF Goto
    <3>1. CASE Register(w)
      BY <1>1, <1>2, <1>7, <3>1 DEF Register, TypeOK
    <3>2. CASE Wake(w) \/ DeadLetter(w)
      BY <1>1, <1>7, <3>2 DEF Wake, DeadLetter, TypeOK
    <3>3. CASE GetOffset(w) \/ GetHit(w) \/ GetMiss(w) \/ Stop(w)
      BY <1>1, <1>7, <3>3 DEF GetOffset, GetHit, GetMiss, Stop, topicVars, TypeOK
    <3>4. CASE HandlerOk(w) \/ HandlerErr(w) \/ Commit(w)
      BY <1>1, <1>7, <3>4 DEF HandlerOk, HandlerErr, Commit, topicVars, TypeOK
    <3> QED
      BY <1>7, <3>1, <3>2, <3>3, <3>4 DEF Consume
  <2> QED
    BY <1>3, <2>1 DEF Available
<1>8. ASSUME Consume(v) PROVE Kept
  <2> USE DEF Goto
  <2>1. CASE Register(v)
    <3>1. wpc'[v] = "offset" /\ subs'[v[2]] = subs[v[2]] \union {v}
      BY <1>1, <1>2, <2>1 DEF Register, TypeOK
    <3> QED
      BY <3>1
  <2>2. CASE GetMiss(v)
    <3>1. ~Available(v)'
      BY <2>2 DEF GetMiss, Available, topicVars
    <3> QED
      BY <1>3, <2>2, <3>1 DEF GetMiss, topicVars
  <2>3. CASE GetOffset(v) \/ GetHit(v) \/ Wake(v) \/ Stop(v) \/ HandlerOk(v)
             \/ HandlerErr(v) \/ DeadLetter(v) \/ Commit(v)
    <3>1. /\ wpc'[v] # "wait" /\ subs' = subs
          /\ wpc[v] \notin {"none", "spawned"}
      BY <1>1, <2>3 DEF GetOffset, GetHit, Wake, Stop, HandlerOk, HandlerErr, DeadLetter,
           Commit, topicVars, TypeOK
    <3> QED
      BY <1>2, <1>3, <3>1
  <2> QED
    BY <1>8, <2>1, <2>2, <2>3 DEF Consume
<1>9. ASSUME (\E u \in Publishers : PublishCount(u) \/ \E k \in Keys : PublishBegin(u, k))
             \/ (\E s \in Subscriptions : Cancel(s)) \/ UNCHANGED vars
      PROVE  UNCHANGED <<log, subs, notify, cur, wpc>>
  BY <1>9 DEF PublishBegin, PublishCount, Cancel, vars, topicVars, workerVars
<1> QED
  BY <1>4, <1>5, <1>6, <1>7, <1>8, <1>9 DEF Next

LEMMA IInvStep == IInv /\ [Next]_vars => IInv'
<1> SUFFICES ASSUME IInv, [Next]_vars PROVE IInv'
  OBVIOUS
<1>1. TypeOK'
  BY TypeStep DEF IInv, Cursors, CursorOf, CurInLog
<1>2. Joined' /\ FreshGroups'
  BY GroupsStep
<1>3. Cursors'
  BY CursorsStep
<1>4. NoMessageSkipped' /\ SettlesInOrder'
  BY SkippedStep, OrderStep
<1>5. Registered' /\ NoLostWakeup'
  BY WakeupStep
<1> QED
  BY <1>1, <1>2, <1>3, <1>4, <1>5 DEF IInv

LEMMA Invariance == Spec => []IInv
  BY IInvInit, IInvStep, PTL DEF Spec

-----------------------------------------------------------------------------
(* The theorems.                                                           *)

\* Types: in every reachable state of the broker every variable has its type,
\* so no attempt number exceeds maxRetries and no partition index or offset
\* is out of range.
THEOREM TypeCorrect == Spec => []TypeOK
<1>1. IInv => TypeOK
  BY DEF IInv
<1> QED
  BY <1>1, Invariance, PTL

\* At least once: whatever the number of Subscribe calls that share a group,
\* its committed offset never passes a message nobody has settled.
THEOREM NothingSkipped == Spec => []NoMessageSkipped
<1>1. IInv => NoMessageSkipped
  BY DEF IInv
<1> QED
  BY <1>1, Invariance, PTL

\* In order: a goroutine settles offsets in strictly increasing order.
THEOREM InOrder == Spec => []SettlesInOrder
<1>1. IInv => SettlesInOrder
  BY DEF IInv
<1> QED
  BY <1>1, Invariance, PTL

\* No append is slept through by a goroutine that waits for its partition.
THEOREM NoWakeupLost == Spec => []NoLostWakeup
<1>1. IInv => NoLostWakeup
  BY DEF IInv
<1> QED
  BY <1>1, Invariance, PTL

LEMMA AppendGrows ==
  ASSUME NEW q \in Seq(Message), NEW m \in Message
  PROVE  Grows(q, AppendTo(q, m)) /\ Grows(q, q)
<1>1. [m EXCEPT !.offset = Len(q)] \in Message
  BY DEF Message
<1> QED
  BY <1>1 DEF AppendTo, Grows

\* The condition of OnlyForward, for one step.
LEMMA ForwardStep ==
  ASSUME IInv, Next
  PROVE  /\ \A p \in Partitions : Grows(log[p], log'[p])
         /\ Grows(dlq, dlq')
         /\ \A c \in Cells : offsets[c] <= offsets'[c]
<1>1. /\ TypeOK /\ dlq \in Seq(Message)
      /\ \A p \in Partitions : log[p] \in Seq(Message)
      /\ \A u \in Publishers : draft[u] \in Message
  BY DEF IInv, TypeOK
<1>2. ASSUME NEW u \in Publishers, PublishAppend(u), NEW p \in Partitions
      PROVE  log'[p] = log[p] \/ log'[p] = AppendTo(log[p], draft[u])
  BY <1>1, <1>2 DEF PublishAppend, TypeOK
<1>3. ASSUME NEW w \in Workers, DeadLetter(w)
      PROVE  log' = log /\ dlq' = AppendTo(dlq, Current(w)) /\ Current(w) \in Message
  BY <1>1, <1>3, CurrentType DEF DeadLetter, IInv, Cursors, CursorOf
<1>4. ASSUME NEW w \in Workers, Consume(w), ~DeadLetter(w) PROVE UNCHANGED <<log, dlq>>
  BY <1>4 DEF Consume, Register, GetOffset, GetHit, GetMiss, Wake, Stop, HandlerOk,
              HandlerErr, Commit, topicVars
<1>5. ASSUME \/ \E u \in Publishers : PublishCount(u) \/ \E k \in Keys : PublishBegin(u, k)
             \/ \E s \in Subscriptions : Subscribe(s) \/ Cancel(s)
      PROVE  UNCHANGED <<log, dlq>>
  BY <1>5 DEF PublishBegin, PublishCount, Subscribe, Cancel, topicVars
<1>6. ASSUME NEW u \in Publishers, PublishAppend(u) PROVE dlq' = dlq
  BY <1>6 DEF PublishAppend
<1>7. \A p \in Partitions : Grows(log[p], log'[p])
  <2> SUFFICES ASSUME NEW p \in Partitions PROVE Grows(log[p], log'[p])
    OBVIOUS
  <2>1. log'[p] = log[p] \/ \E u \in Publishers : log'[p] = AppendTo(log[p], draft[u])
    BY <1>2, <1>3, <1>4, <1>5 DEF Next
  <2> QED
    BY <1>1, <2>1, AppendGrows DEF Grows
<1>8. Grows(dlq, dlq')
  <2>1. dlq' = dlq \/ \E w \in Workers : dlq' = AppendTo(dlq, Current(w)) /\ Current(w) \in Message
    BY <1>3, <1>4, <1>5, <1>6 DEF Next
  <2> QED
    BY <1>1, <2>1, AppendGrows DEF Grows
<1> QED
  BY <1>7, <1>8, GroupsStep

\* Nothing moves back: logs and dead letters are append-only, and neither a
\* late commit nor another Subscribe of the group lowers a committed offset.
THEOREM Forward == Spec => OnlyForward
  BY ForwardStep, Invariance, PTL DEF Spec, OnlyForward

-----------------------------------------------------------------------------
(* One Subscribe call per group.                                           *)

\* The cursor of a goroutine without rivals stands at the committed offset.
SoleLevel(w) ==
  wpc[w] \in {"get", "wait", "handle", "dlq", "commit"} => cur[w] = offsets[CellOf(w)]

\* The number of messages it has settled: those behind the committed offset,
\* and the one it is about to commit.
SoleCount(w) == offsets[CellOf(w)] + (IF wpc[w] = "commit" THEN 1 ELSE 0)

SoleOf(w) ==
  /\ SoleLevel(w)
  /\ \A i \in 1 .. Len(settled[w]) : settled[w][i] = i - 1
  /\ Len(settled[w]) = SoleCount(w)

SoleInv == \A w \in Workers : Sole(w) => SoleOf(w)

LEMMA SoleInit == Init => SoleInv
  BY CellOfType DEF Init, SoleInv, SoleOf, SoleLevel, SoleCount

\* Nobody but itself moves the committed offset of a goroutine without rivals.
LEMMA SoleCell ==
  ASSUME IInv, [Next]_vars, NEW w \in Workers, Sole(w), ~Commit(w)
  PROVE  offsets'[CellOf(w)] = offsets[CellOf(w)]
<1>1. TypeOK /\ CellOf(w) \in Cells
  BY CellOfType DEF IInv
<1>2. ASSUME NEW v \in Workers, Commit(v) PROVE offsets'[CellOf(w)] = offsets[CellOf(w)]
  <2>1. CASE CellOf(v) = CellOf(w)
    <3>1. v[1] \in Subscriptions /\ GroupOf[v[1]] = GroupOf[w[1]] /\ v[2] = w[2]
      BY <2>1, CellOfType
    <3>2. v = w
      BY <3>1 DEF Sole, Workers
    <3> QED
      BY <1>2, <3>2
  <2>2. CASE CellOf(v) # CellOf(w)
    BY <1>1, <1>2, <2>2 DEF Commit, TypeOK
  <2> QED
    BY <2>1, <2>2
<1>3. ASSUME NEW s \in Subscriptions, Subscribe(s) PROVE offsets'[CellOf(w)] = offsets[CellOf(w)]
  BY <1>1, <1>3 DEF Subscribe, IInv, FreshGroups
<1>4. ASSUME NEW v \in Workers, Consume(v), ~Commit(v) PROVE offsets' = offsets
  BY <1>4 DEF Consume, Register, GetOffset, GetHit, GetMiss, Wake, Stop, HandlerOk,
              HandlerErr, DeadLetter, groupVars
<1>5. ASSUME (\E u \in Publishers : PublishAppend(u) \/ PublishCount(u)
                                    \/ \E k \in Keys : PublishBegin(u, k))
             \/ (\E s \in Subscriptions : Cancel(s)) \/ UNCHANGED vars
      PROVE  offsets' = offsets
  BY <1>5 DEF PublishBegin, PublishAppend, PublishCount, Cancel, vars, groupVars
<1> QED
  BY <1>2, <1>3, <1>4, <1>5 DEF Next

\* What a step of somebody else does to a goroutine: nothing, or it starts it.
LEMMA OthersStep ==
  ASSUME TypeOK, [Next]_vars, NEW w \in Workers, ~Consume(w)
  PROVE  /\ cur'[w] = cur[w] /\ settled'[w] = settled[w] /\ attempt'[w] = attempt[w]
         /\ wpc'[w] = wpc[w] \/ (wpc[w] = "none" /\ wpc'[w] = "spawned")
<1>1. ASSUME NEW v \in Workers, Consume(v)
      PROVE  /\ cur'[w] = cur[w] /\ settled'[w] = settled[w] /\ attempt'[w] = attempt[w]
             /\ wpc'[w] = wpc[w]
  <2>1. v # w
    BY <1>1
  <2> QED
    BY <1>1, <2>1 DEF Consume, Register, GetOffset, GetHit, GetMiss, Wake, Stop,
       HandlerOk, HandlerErr, DeadLetter, Commit, Goto, TypeOK
<1>2. ASSUME NEW s \in Subscriptions, Subscribe(s)
      PROVE  /\ cur'[w] = cur[w] /\ settled'[w] = settled[w] /\ attempt'[w] = attempt[w]
             /\ wpc'[w] = wpc[w] \/ (wpc[w] = "none" /\ wpc'[w] = "spawned")
  <2>1. w[1] = s => wpc[w] = "none"
    BY <1>2 DEF Subscribe, Workers
  <2> QED
    BY <1>2, <2>1 DEF Subscribe
<1>3. ASSUME (\E u \in Publishers : PublishAppend(u) \/ PublishCount(u)
                                    \/ \E k \in Keys : PublishBegin(u, k))
             \/ (\E s \in Subscriptions : Cancel(s)) \/ UNCHANGED vars
      PROVE  UNCHANGED <<wpc, cur, attempt, settled>>
  BY <1>3 DEF PublishBegin, PublishAppend, PublishCount, Cancel, vars, workerVars
<1> QED
  BY <1>1, <1>2, <1>3 DEF Next

LEMMA SoleStep == IInv /\ SoleInv /\ [Next]_vars => SoleInv'
<1> SUFFICES ASSUME IInv, SoleInv, [Next]_vars, NEW w \in Workers, Sole(w) PROVE SoleOf(w)'
  BY DEF SoleInv, Sole, Workers
<1> DEFINE c == CellOf(w)
<1>1. /\ TypeOK /\ SoleOf(w) /\ c \in Cells /\ c' = c
      /\ offsets[c] \in Nat /\ cur[w] \in Nat /\ settled[w] \in Seq(Nat)
  BY CellOfType DEF IInv, SoleInv, TypeOK, CellOf
<1>2. ~Commit(w) => offsets'[c] = offsets[c]
  BY SoleCell
<1>3. wpc \in [Workers -> WorkerPc] /\ cur \in [Workers -> Nat]
  BY <1>1 DEF TypeOK
<1> HIDE DEF c
<1> USE DEF SoleOf, SoleLevel, SoleCount, Goto
<1>4. CASE ~Consume(w)
  <2>1. ~Commit(w)
    BY <1>4 DEF Consume
  <2> QED
    BY <1>1, <1>2, <1>4, <2>1, OthersStep DEF c
<1>5. CASE Register(w) \/ GetHit(w) \/ GetMiss(w) \/ Wake(w) \/ Stop(w) \/ HandlerErr(w)
  <2>1. /\ settled'[w] = settled[w] /\ cur'[w] = cur[w] /\ offsets'[c] = offsets[c]
        /\ wpc[w] # "commit" /\ wpc'[w] # "commit"
        /\ wpc'[w] \in {"get", "wait", "handle", "dlq"} => wpc[w] \in {"get", "wait", "handle", "dlq"}
    BY <1>3, <1>5 DEF Register, GetHit, GetMiss, Wake, Stop, HandlerErr, groupVars
  <2> QED
    BY <1>1, <2>1 DEF c
<1>6. CASE GetOffset(w)
  <2>1. /\ settled'[w] = settled[w] /\ cur'[w] = offsets[c] /\ offsets'[c] = offsets[c]
        /\ wpc[w] = "offset" /\ wpc'[w] = "get"
    BY <1>3, <1>6 DEF GetOffset, groupVars, c
  <2> QED
    BY <1>1, <2>1 DEF c
<1>7. CASE HandlerOk(w) \/ DeadLetter(w)
  <2>1. /\ settled'[w] = Append(settled[w], cur[w]) /\ cur'[w] = cur[w]
        /\ offsets'[c] = offsets[c]
        /\ wpc[w] \in {"handle", "dlq"} /\ wpc'[w] = "commit"
    BY <1>1, <1>3, <1>7 DEF HandlerOk, DeadLetter, groupVars, TypeOK
  <2>2. /\ Len(settled'[w]) = Len(settled[w]) + 1
        /\ \A i \in 1 .. Len(settled[w]) : settled'[w][i] = settled[w][i]
        /\ settled'[w][Len(settled[w]) + 1] = cur[w]
    BY <1>1, <2>1
  <2>3. cur[w] = offsets[c] /\ Len(settled[w]) = offsets[c]
    BY <1>1, <2>1 DEF c
  <2>4. ASSUME NEW i \in 1 .. Len(settled'[w]) PROVE settled'[w][i] = i - 1
    <3>1. i \in 1 .. Len(settled[w]) \/ i = Len(settled[w]) + 1
      BY <1>1, <2>2, <2>4
    <3> QED
      BY <1>1, <2>2, <2>3, <3>1
  <2> QED
    BY <1>1, <2>1, <2>2, <2>3, <2>4 DEF c
<1>8. CASE Commit(w)
  <2>1. /\ settled'[w] = settled[w] /\ wpc[w] = "commit" /\ wpc'[w] = "offset"
        /\ offsets'[c] = Committed(c, cur[w] + 1)
    BY <1>1, <1>3, <1>8 DEF Commit, TypeOK, c
  <2>2. cur[w] = offsets[c] /\ Len(settled[w]) = offsets[c] + 1
    BY <1>1, <2>1 DEF c
  <2>3. offsets'[c] = offsets[c] + 1
    BY <1>1, <2>1, <2>2 DEF Committed
  <2> QED
    BY <1>1, <2>1, <2>2, <2>3 DEF c
<1> QED
  BY <1>4, <1>5, <1>6, <1>7, <1>8 DEF Consume

\* Exactly once: the only goroutine a group has on a partition settles offset
\* 0, then 1, and so on, and is at most one ahead of the committed offset.
THEOREM ExactlyOnceAlone == Spec => []SoleConsumerExactlyOnce
<1>1. SoleInv => SoleConsumerExactlyOnce
  BY DEF SoleInv, SoleOf, SoleCount, SoleConsumerExactlyOnce
<1> QED
  BY <1>1, Invariance, SoleInit, SoleStep, PTL DEF Spec

-----------------------------------------------------------------------------
(* Ids and places.                                                         *)

\* What an append does to the logs.
LEMMA AppendedLog ==
  ASSUME TypeOK, NEW u \in Publishers, PublishAppend(u)
  PROVE  LET p == draft[u].partition
             n == Len(log[p])
         IN  /\ p \in Partitions /\ n \in Nat /\ Len(log'[p]) = n + 1
             /\ \A i \in 1 .. n : log'[p][i] = log[p][i]
             /\ log'[p][n + 1].id = draft[u].id /\ log'[p][n + 1].partition = p
             /\ \A q \in Partitions : q # p => log'[q] = log[q]
<1> DEFINE p == draft[u].partition
           n == Len(log[p])
           m == [draft[u] EXCEPT !.offset = n]
<1>1. draft[u] \in Message /\ p \in Partitions /\ log \in [Partitions -> Seq(Message)]
  BY DEF TypeOK, Message
<1>2. log[p] \in Seq(Message) /\ n \in Nat
  BY <1>1
<1>3. m \in Message /\ m.id = draft[u].id /\ m.partition = p
  BY <1>1, <1>2 DEF Message
<1>4. log' = [log EXCEPT ![p] = Append(log[p], m)]
  BY DEF PublishAppend, AppendTo
<1> HIDE DEF m
<1>5. log'[p] = Append(log[p], m) /\ \A q \in Partitions : q # p => log'[q] = log[q]
  BY <1>1, <1>4
<1>6. /\ Len(log'[p]) = n + 1 /\ log'[p][n + 1] = m
      /\ \A i \in 1 .. n : log'[p][i] = log[p][i]
  BY <1>2, <1>3, <1>5
<1> QED
  BY <1>1, <1>2, <1>3, <1>5, <1>6

\* Only Publish touches the logs and what the publishers have.
LEMMA OthersPublishNothing ==
  ASSUME [Next]_vars,
         \A u \in Publishers : /\ ~PublishAppend(u) /\ ~PublishCount(u)
                               /\ \A k \in Keys : ~PublishBegin(u, k)
  PROVE  UNCHANGED <<log, publisherVars>>
<1>1. ASSUME NEW w \in Workers, Consume(w) PROVE UNCHANGED <<log, publisherVars>>
  BY <1>1 DEF Consume, Register, GetOffset, GetHit, GetMiss, Wake, Stop, HandlerOk,
              HandlerErr, DeadLetter, Commit, topicVars
<1>2. ASSUME \/ \E s \in Subscriptions : Subscribe(s) \/ Cancel(s)
             \/ UNCHANGED vars
      PROVE  UNCHANGED <<log, publisherVars>>
  BY <1>2 DEF Subscribe, Cancel, vars, topicVars
<1> QED
  BY <1>1, <1>2 DEF Next

\* What a log holds stays where it is.
LEMMA LogKept ==
  ASSUME TypeOK, [Next]_vars, NEW p \in Partitions
  PROVE  \A i \in 1 .. Len(log[p]) : i \in 1 .. Len(log'[p]) /\ log'[p][i] = log[p][i]
<1>1. ASSUME NEW u \in Publishers, PublishAppend(u)
      PROVE  \A i \in 1 .. Len(log[p]) : i \in 1 .. Len(log'[p]) /\ log'[p][i] = log[p][i]
  <2>1. CASE p = draft[u].partition
    <3>1. Len(log[p]) \in Nat /\ Len(log'[p]) = Len(log[p]) + 1
      BY <1>1, <2>1, AppendedLog
    <3> QED
      BY <1>1, <2>1, <3>1, AppendedLog
  <2>2. CASE p # draft[u].partition
    BY <1>1, <2>2, AppendedLog
  <2> QED
    BY <2>1, <2>2
<1>2. ASSUME NEW u \in Publishers, PublishCount(u) \/ \E k \in Keys : PublishBegin(u, k)
      PROVE  log' = log
  BY <1>2 DEF PublishCount, PublishBegin, topicVars
<1> QED
  BY <1>1, <1>2, OthersPublishNothing

\* The messages on their way into a log.
Drafts == {u \in Publishers : ppc[u] = "append"}

\* Message ids are the numbers of the Publish calls, and no two places, in the
\* logs or on the way there, have the same.
IdsUnique ==
  /\ published <= MaxPublished
  /\ \A u \in Drafts : draft[u].id \in 1 .. published
  /\ \A u, v \in Drafts : draft[u].id = draft[v].id => u = v
  /\ \A p \in Partitions : \A i \in 1 .. Len(log[p]) :
       /\ log[p][i].id \in 1 .. published
       /\ log[p][i].partition = p
       /\ \A u \in Drafts : log[p][i].id # draft[u].id
  /\ \A p, q \in Partitions : \A i \in 1 .. Len(log[p]), j \in 1 .. Len(log[q]) :
       log[p][i].id = log[q][j].id => p = q /\ i = j

LEMMA IdsInit == Init => IdsUnique
  BY BrokerAssumption DEF Init, IdsUnique, Drafts

LEMMA IdsStep == TypeOK /\ IdsUnique /\ [Next]_vars => IdsUnique'
<1> SUFFICES ASSUME TypeOK, IdsUnique, [Next]_vars PROVE IdsUnique'
  OBVIOUS
<1>0. Partitions' = Partitions /\ published \in Nat /\ MaxPublished \in Nat
  BY BrokerAssumption DEF Partitions, TypeOK
<1>1. ASSUME NEW u \in Publishers, NEW k \in Keys, PublishBegin(u, k) PROVE IdsUnique'
  <2>1. /\ draft'[u].id = published + 1 /\ published' = published + 1 /\ log' = log
        /\ published' <= MaxPublished
        /\ \A v \in Publishers : v # u => draft'[v] = draft[v] /\ ppc'[v] = ppc[v]
    BY <1>0, <1>1 DEF PublishBegin, TypeOK
  <2>2. \A v \in Drafts' : v = u \/ (v \in Drafts /\ draft'[v] = draft[v])
    BY <2>1 DEF Drafts
  <2>3. \A v \in Drafts' : draft'[v].id \in 1 .. published'
    BY <1>0, <2>1, <2>2 DEF IdsUnique
  <2>4. \A v, x \in Drafts' : draft'[v].id = draft'[x].id => v = x
    BY <1>0, <2>1, <2>2 DEF IdsUnique
  <2>5. \A p \in Partitions : \A i \in 1 .. Len(log[p]) :
          /\ log[p][i].id \in 1 .. published'
          /\ log[p][i].partition = p
          /\ \A v \in Drafts' : log[p][i].id # draft'[v].id
    BY <1>0, <2>1, <2>2 DEF IdsUnique
  <2> QED
    BY <1>0, <2>1, <2>3, <2>4, <2>5 DEF IdsUnique
<1>2. ASSUME NEW u \in Publishers, PublishAppend(u) PROVE IdsUnique'
  <2> DEFINE p == draft[u].partition
             n == Len(log[p])
  <2>1. /\ p \in Partitions /\ n \in Nat /\ Len(log'[p]) = n + 1
        /\ \A i \in 1 .. n : log'[p][i] = log[p][i]
        /\ log'[p][n + 1].id = draft[u].id /\ log'[p][n + 1].partition = p
        /\ \A q \in Partitions : q # p => log'[q] = log[q]
    BY <1>2, AppendedLog
  <2>2. /\ published' = published /\ draft' = draft
        /\ u \in Drafts /\ u \notin Drafts' /\ Drafts' \subseteq Drafts
    BY <1>2 DEF PublishAppend, Drafts, TypeOK
  <2> DEFINE New(q, i) == q = p /\ i = n + 1
  <2>3. \A q \in Partitions : \A i \in 1 .. Len(log'[q]) :
          IF New(q, i) THEN log'[q][i].id = draft[u].id /\ log'[q][i].partition = q
                       ELSE i \in 1 .. Len(log[q]) /\ log'[q][i] = log[q][i]
    <3>1. ASSUME NEW i \in 1 .. n + 1, i # n + 1 PROVE i \in 1 .. n
      BY <2>1, <3>1
    <3> HIDE DEF n
    <3>2. ASSUME NEW q \in Partitions, q = p, NEW i \in 1 .. Len(log'[q])
          PROVE  IF New(q, i) THEN log'[q][i].id = draft[u].id /\ log'[q][i].partition = q
                              ELSE i \in 1 .. Len(log[q]) /\ log'[q][i] = log[q][i]
      BY <2>1, <3>1, <3>2 DEF n
    <3> QED
      BY <2>1, <3>2
  <2> HIDE DEF New, n
  <2>4. \A q \in Partitions : \A i \in 1 .. Len(log'[q]) :
          /\ log'[q][i].id \in 1 .. published
          /\ log'[q][i].partition = q
          /\ \A v \in Drafts' : log'[q][i].id # draft[v].id
    BY <2>2, <2>3 DEF IdsUnique
  <2>5. ASSUME NEW q \in Partitions, NEW r \in Partitions,
               NEW i \in 1 .. Len(log'[q]), NEW j \in 1 .. Len(log'[r]),
               log'[q][i].id = log'[r][j].id
        PROVE  q = r /\ i = j
    <3>1. CASE New(q, i) /\ New(r, j)
      BY <3>1 DEF New
    <3>2. CASE New(q, i) /\ ~New(r, j)
      BY <2>2, <2>3, <2>5, <3>2 DEF IdsUnique
    <3>3. CASE ~New(q, i) /\ New(r, j)
      BY <2>2, <2>3, <2>5, <3>3 DEF IdsUnique
    <3>4. CASE ~New(q, i) /\ ~New(r, j)
      <4>1. i \in 1 .. Len(log[q]) /\ j \in 1 .. Len(log[r]) /\ log[q][i].id = log[r][j].id
        BY <2>3, <2>5, <3>4
      <4> QED
        BY <4>1 DEF IdsUnique
    <3> QED
      BY <3>1, <3>2, <3>3, <3>4
  <2>6. /\ \A v \in Drafts' : draft[v].id \in 1 .. published
        /\ \A v, x \in Drafts' : draft[v].id = draft[x].id => v = x
        /\ published <= MaxPublished
    BY <2>2 DEF IdsUnique
  <2> QED
    BY <1>0, <2>2, <2>4, <2>5, <2>6 DEF IdsUnique
<1>3. ASSUME NEW u \in Publishers, PublishCount(u) PROVE IdsUnique'
  <2>1. UNCHANGED <<log, draft, published>> /\ Drafts' \subseteq Drafts
    BY <1>3 DEF PublishCount, topicVars, Drafts, TypeOK
  <2> QED
    BY <1>0, <2>1 DEF IdsUnique
<1>4. CASE UNCHANGED <<log, publisherVars>>
  BY <1>0, <1>4 DEF IdsUnique, Drafts, publisherVars
<1> QED
  BY <1>1, <1>2, <1>3, <1>4, OthersPublishNothing

LEMMA IdsInvariance == Spec => []IdsUnique
<1>1. IInv => TypeOK
  BY DEF IInv
<1> QED
  BY <1>1, IdsInit, IdsStep, Invariance, PTL DEF Spec

-----------------------------------------------------------------------------
(* The books of Publish.                                                   *)

\* A place in a log, and the publishers that have yet to count theirs.
Places == {e \in Partitions \X (1 .. MaxPublished) : e[2] <= Len(log[e[1]])}
Uncounted == {u \in Publishers : ppc[u] = "count"}

\* Every Publish call is in one of three stages: its message is on its way to
\* a log, in a log but not counted, or counted.  Since no log holds more than
\* the calls made, Places has all of what is in the logs.
CallBooks ==
  /\ IsFiniteSet(Drafts) /\ IsFiniteSet(Uncounted)
  /\ Cardinality(Places) + Cardinality(Drafts) = published
  /\ Cardinality(Places) = publishCount + Cardinality(Uncounted)
  /\ \A p \in Partitions : Len(log[p]) <= MaxPublished

LEMMA PlacesFinite == IsFiniteSet(Places) /\ Cardinality(Places) \in Nat
<1>1. IsFiniteSet(0 .. NumPartitions - 1) /\ IsFiniteSet(1 .. MaxPublished)
  BY BrokerAssumption, FS_Interval
<1>2. IsFiniteSet(Partitions \X (1 .. MaxPublished))
  BY <1>1, FS_Product DEF Partitions
<1>3. Places \in SUBSET (Partitions \X (1 .. MaxPublished))
  BY DEF Places
<1> QED
  BY <1>2, <1>3, FS_Subset, FS_CardinalityType

\* A log has no more messages than all logs together.
LEMMA LogWithinPlaces ==
  ASSUME TypeOK, NEW p \in Partitions, Len(log[p]) <= MaxPublished
  PROVE  Len(log[p]) <= Cardinality(Places)
<1> DEFINE n == Len(log[p])
           f == [i \in 1 .. n |-> <<p, i>>]
<1>1. n \in Nat /\ MaxPublished \in Nat
  BY BrokerAssumption DEF TypeOK
<1>2. \A i \in 1 .. n : <<p, i>> \in Places
  BY <1>1 DEF Places
<1>3. f \in Injection(1 .. n, Places)
  BY <1>2 DEF Injection, IsInjective
<1>4. IsFiniteSet(1 .. n) /\ Cardinality(1 .. n) = n
  BY <1>1, FS_Interval
<1> HIDE DEF f, n
<1>5. Cardinality(1 .. n) <= Cardinality(Places)
  BY <1>3, PlacesFinite, FS_Injection
<1> QED
  BY <1>4, <1>5 DEF n

LEMMA CallBooksInit == Init => CallBooks
<1> SUFFICES ASSUME Init PROVE CallBooks
  OBVIOUS
<1>1. Drafts = {} /\ Uncounted = {} /\ Places = {}
  BY DEF Init, Drafts, Uncounted, Places
<1>2. \A p \in Partitions : Len(log[p]) <= MaxPublished
  BY BrokerAssumption DEF Init
<1>3. published = 0 /\ publishCount = 0
  BY DEF Init
<1> QED
  BY <1>1, <1>2, <1>3, FS_EmptySet DEF CallBooks

LEMMA CallBooksStep == TypeOK /\ IdsUnique /\ CallBooks /\ [Next]_vars => CallBooks'
<1> SUFFICES ASSUME TypeOK, IdsUnique, CallBooks, [Next]_vars PROVE CallBooks'
  OBVIOUS
<1>0. /\ published \in Nat /\ publishCount \in Nat /\ MaxPublished \in Nat
      /\ Cardinality(Drafts) \in Nat /\ Cardinality(Uncounted) \in Nat /\ Cardinality(Places) \in Nat
      /\ Partitions' = Partitions
  BY BrokerAssumption, PlacesFinite, FS_CardinalityType DEF TypeOK, CallBooks, Partitions
<1>1. ASSUME log' = log PROVE Places' = Places
  BY <1>0, <1>1 DEF Places
<1>2. ASSUME NEW u \in Publishers, NEW k \in Keys, PublishBegin(u, k) PROVE CallBooks'
  <2>1. /\ log' = log /\ published' = published + 1 /\ publishCount' = publishCount
        /\ ppc[u] = "idle" /\ ppc' = [ppc EXCEPT ![u] = "append"]
    BY <1>2 DEF PublishBegin
  <2>2. Drafts' = Drafts \cup {u} /\ u \notin Drafts /\ Uncounted' = Uncounted
    BY <2>1 DEF Drafts, Uncounted, TypeOK
  <2>3. IsFiniteSet(Drafts') /\ Cardinality(Drafts') = Cardinality(Drafts) + 1
    BY <2>2, FS_AddElement DEF CallBooks
  <2> QED
    BY <1>0, <1>1, <2>1, <2>2, <2>3 DEF CallBooks
<1>3. ASSUME NEW u \in Publishers, PublishAppend(u) PROVE CallBooks'
  <2> DEFINE p == draft[u].partition
             n == Len(log[p])
  <2>1. /\ p \in Partitions /\ n \in Nat /\ Len(log'[p]) = n + 1
        /\ \A q \in Partitions : q # p => log'[q] = log[q]
    BY <1>3, AppendedLog
  <2>2. /\ published' = published /\ publishCount' = publishCount
        /\ ppc[u] = "append" /\ ppc' = [ppc EXCEPT ![u] = "count"]
    BY <1>3 DEF PublishAppend
  <2>3. /\ Drafts' = Drafts \ {u} /\ u \in Drafts
        /\ Uncounted' = Uncounted \cup {u} /\ u \notin Uncounted
    BY <2>2 DEF Drafts, Uncounted, TypeOK
  <2>4. /\ IsFiniteSet(Drafts') /\ Cardinality(Drafts') = Cardinality(Drafts) - 1
        /\ Cardinality(Drafts') \in Nat
    BY <2>3, FS_RemoveElement, FS_CardinalityType DEF CallBooks
  <2>5. IsFiniteSet(Uncounted') /\ Cardinality(Uncounted') = Cardinality(Uncounted) + 1
    BY <2>3, FS_AddElement DEF CallBooks
  <2>6. n + 1 <= MaxPublished
    <3>1. n <= Cardinality(Places)
      BY <2>1, LogWithinPlaces DEF CallBooks
    <3>2. Cardinality(Places) + 1 <= published
      BY <1>0, <2>4 DEF CallBooks
    <3> QED
      BY <1>0, <2>1, <3>1, <3>2 DEF IdsUnique
  <2>7. Places' = Places \cup {<<p, n + 1>>} /\ <<p, n + 1>> \notin Places
    <3>1. \A i \in 1 .. MaxPublished : i <= Len(log'[p]) <=> i <= n \/ i = n + 1
      BY <1>0, <2>1
    <3>2. \A q \in Partitions, i \in 1 .. MaxPublished :
            <<q, i>> \in Places' <=> <<q, i>> \in Places \/ <<q, i>> = <<p, n + 1>>
      BY <1>0, <2>1, <3>1 DEF Places
    <3>3. /\ Places \subseteq Partitions \X (1 .. MaxPublished)
          /\ Places' \subseteq Partitions \X (1 .. MaxPublished)
          /\ <<p, n + 1>> \in Partitions \X (1 .. MaxPublished)
      BY <1>0, <2>1, <2>6 DEF Places
    <3>4. <<p, n + 1>> \notin Places
      BY <2>1 DEF Places
    <3> QED
      BY <3>2, <3>3, <3>4
  <2>8. Cardinality(Places') = Cardinality(Places) + 1
    BY <2>7, PlacesFinite, FS_AddElement
  <2>9. \A q \in Partitions : Len(log'[q]) <= MaxPublished
    BY <2>1, <2>6 DEF CallBooks
  <2> QED
    BY <1>0, <2>2, <2>4, <2>5, <2>8, <2>9 DEF CallBooks
<1>4. ASSUME NEW u \in Publishers, PublishCount(u) PROVE CallBooks'
  <2>1. /\ log' = log /\ published' = published /\ publishCount' = publishCount + 1
        /\ ppc[u] = "count" /\ ppc' = [ppc EXCEPT ![u] = "idle"]
    BY <1>4 DEF PublishCount, topicVars
  <2>2. Uncounted' = Uncounted \ {u} /\ u \in Uncounted /\ Drafts' = Drafts
    BY <2>1 DEF Drafts, Uncounted, TypeOK
  <2>3. IsFiniteSet(Uncounted') /\ Cardinality(Uncounted') = Cardinality(Uncounted) - 1
    BY <2>2, FS_RemoveElement DEF CallBooks
  <2> QED
    BY <1>0, <1>1, <2>1, <2>2, <2>3 DEF CallBooks
<1>5. CASE UNCHANGED <<log, publisherVars>>
  <2>1. Places' = Places /\ Drafts' = Drafts /\ Uncounted' = Uncounted
    BY <1>1, <1>5 DEF Drafts, Uncounted, publisherVars
  <2> QED
    BY <1>0, <1>5, <2>1 DEF CallBooks, publisherVars
<1> QED
  BY <1>2, <1>3, <1>4, <1>5, OthersPublishNothing

\* The publish counter lags the logs by exactly the publishers that have
\* appended and not yet counted, however many publish at once.
THEOREM CounterLagsLogs == Spec => []CountLagsLogs
<1>1. IInv => TypeOK
  BY DEF IInv
<1>2. CallBooks => CountLagsLogs
  BY DEF CallBooks, CountLagsLogs, Places, Uncounted
<1> QED
  BY <1>1, <1>2, CallBooksInit, CallBooksStep, Invariance, IdsInvariance, PTL DEF Spec

-----------------------------------------------------------------------------
(* Dead letters.                                                           *)

\* The goroutines that have begun to consume, and those that were started.
Active == {w \in Workers : wpc[w] \notin {"none", "spawned"}}
Started == {w \in Workers : wpc[w] # "none"}

\* The goroutine w gave up on the message that d is a copy of.
LetterOf(w, d) ==
  /\ d.attempt = MaxRetries /\ d.partition = w[2] /\ w \in Active
  /\ \E j \in 1 .. Len(log[w[2]]) :
       /\ log[w[2]][j].id = d.id /\ log[w[2]][j].key = d.key
       /\ j - 1 \in SettledBy(w)

\* Every dead letter is some goroutine's, and no two for one message are of the
\* same goroutine.
Senders(by) ==
  /\ by \in [1 .. Len(dlq) -> Workers]
  /\ \A i \in 1 .. Len(dlq) : LetterOf(by[i], dlq[i])
  /\ \A i, j \in 1 .. Len(dlq) : dlq[i].id = dlq[j].id /\ by[i] = by[j] => i = j

LettersInv ==
  /\ \A w \in Workers : wpc[w] = "dlq" => attempt[w] = MaxRetries
  /\ IsFiniteSet(Started)
  /\ \E by : Senders(by)

LEMMA LettersInit == Init => LettersInv
<1> SUFFICES ASSUME Init PROVE LettersInv
  OBVIOUS
<1>1. Started = {} /\ dlq = <<>> /\ \A w \in Workers : wpc[w] = "none"
  BY DEF Init, Started
<1> DEFINE none == [i \in 1 .. 0 |-> CHOOSE w \in Workers : TRUE]
<1>2. Senders(none)
  BY <1>1 DEF Senders
<1> QED
  BY <1>1, <1>2, FS_EmptySet DEF LettersInv

\* A Subscribe call starts finitely many goroutines, and nothing else does.
LEMMA StartedStep ==
  ASSUME TypeOK, IsFiniteSet(Started), [Next]_vars
  PROVE  IsFiniteSet(Started')
<1>1. ASSUME NEW s \in Subscriptions, Subscribe(s) PROVE IsFiniteSet(Started')
  <2>1. IsFiniteSet({s} \X Partitions)
    <3>1. IsFiniteSet(Partitions)
      BY BrokerAssumption, FS_Interval DEF Partitions
    <3>2. IsFiniteSet({s})
      BY FS_Singleton
    <3> QED
      BY <3>1, <3>2, FS_Product
  <2>2. Started' \in SUBSET (Started \cup ({s} \X Partitions))
    <3>1. ASSUME NEW w \in Workers, wpc'[w] # "none", w[1] = s PROVE w \in {s} \X Partitions
      BY <3>1 DEF Workers
    <3>2. ASSUME NEW w \in Workers, wpc'[w] # "none", w[1] # s PROVE w \in Started
      BY <1>1, <3>2 DEF Subscribe, Started
    <3> QED
      BY <3>1, <3>2 DEF Started, Workers, Partitions
  <2> QED
    BY <2>1, <2>2, FS_Union, FS_Subset
<1>2. ASSUME \A s \in Subscriptions : ~Subscribe(s) PROVE Started' = Started
  <2>1. \A w \in Workers : wpc'[w] # "none" <=> wpc[w] # "none"
    <3>1. ASSUME NEW v \in Workers, Consume(v)
          PROVE  \A w \in Workers : wpc'[w] # "none" <=> wpc[w] # "none"
      BY <3>1 DEF Consume, Register, GetOffset, GetHit, GetMiss, Wake, Stop, HandlerOk,
         HandlerErr, DeadLetter, Commit, Goto, TypeOK
    <3>2. ASSUME (\E u \in Publishers : PublishAppend(u) \/ PublishCount(u)
                                        \/ \E k \in Keys : PublishBegin(u, k))
                 \/ (\E s \in Subscriptions : Cancel(s)) \/ UNCHANGED vars
          PROVE  wpc' = wpc
      BY <3>2 DEF PublishBegin, PublishAppend, PublishCount, Cancel, vars, workerVars
    <3> QED
      BY <1>2, <3>1, <3>2 DEF Next
  <2> QED
    BY <2>1 DEF Started, Workers, Partitions
<1> QED
  BY <1>1, <1>2

\* A dead letter remains the one of its goroutine.
LEMMA LetterStays ==
  ASSUME IInv, [Next]_vars, NEW w \in Workers, NEW d, LetterOf(w, d)
  PROVE  LetterOf(w, d)'
<1>1. TypeOK /\ w[2] \in Partitions
  BY CellOfType DEF IInv
<1>2. wpc'[w] \notin {"none", "spawned"}
  <2>1. wpc[w] \notin {"none", "spawned"}
    BY DEF LetterOf, Active
  <2>2. CASE ~Consume(w)
    BY <1>1, <2>1, <2>2, OthersStep
  <2>3. CASE Consume(w)
    BY <1>1, <2>1, <2>3 DEF Consume, Register, GetOffset, GetHit, GetMiss, Wake, Stop,
       HandlerOk, HandlerErr, DeadLetter, Commit, Goto, TypeOK
  <2> QED
    BY <2>2, <2>3
<1>3. \A i \in 1 .. Len(log[w[2]]) : i \in 1 .. Len(log'[w[2]]) /\ log'[w[2]][i] = log[w[2]][i]
  BY <1>1, LogKept
<1>4. SettledBy(w) \subseteq SettledBy(w)'
  <2>1. CASE settled' = settled
    BY <2>1 DEF SettledBy
  <2>2. ASSUME NEW v \in Workers, settled' = [settled EXCEPT ![v] = Append(@, cur[v])]
        PROVE  SettledBy(w) \subseteq SettledBy(w)'
    BY <1>1, <2>2, SettledByGrows
  <2> QED
    BY <2>1, <2>2, SettledStep
<1>5. w \in Active'
  BY <1>2 DEF Active, Workers, Partitions
<1> QED
  BY <1>3, <1>4, <1>5 DEF LetterOf

LEMMA NoLetterStep ==
  ASSUME IInv, [Next]_vars, dlq' = dlq, NEW by, Senders(by)
  PROVE  Senders(by)'
<1>1. \A i \in 1 .. Len(dlq) : LetterOf(by[i], dlq[i])'
  <2> SUFFICES ASSUME NEW i \in 1 .. Len(dlq) PROVE LetterOf(by[i], dlq[i])'
    OBVIOUS
  <2>1. by[i] \in Workers /\ LetterOf(by[i], dlq[i])
    BY DEF Senders
  <2> DEFINE d == dlq[i]
  <2>2. d' = d
    OBVIOUS
  <2> QED
    BY <2>1, <2>2, LetterStays DEF LetterOf
<1> QED
  BY <1>1 DEF Senders, Workers, Partitions

\* The dead letter of a goroutine is the first it sends for the message: what
\* it settled before is behind its cursor.
LEMMA LetterSent ==
  ASSUME IInv, IdsUnique, NEW w \in Workers, DeadLetter(w), attempt[w] = MaxRetries,
         NEW by, Senders(by)
  PROVE  \E b : Senders(b)'
<1> DEFINE n == Len(dlq)
           c == cur[w] + 1
           m == log[w[2]][c]
<1>1. TypeOK /\ CursorOf(w) /\ w[2] \in Partitions /\ wpc[w] = "dlq" /\ cur[w] \in Nat
  BY CellOfType DEF IInv, Cursors, DeadLetter, TypeOK
<1>2. Available(w) /\ Current(w) \in Message
  BY <1>1, CurrentType DEF CursorOf
<1>3. c \in 1 .. Len(log[w[2]]) /\ m \in Message
  BY <1>1, <1>2 DEF Available, TypeOK
<1>4. m.partition = w[2]
  BY <1>1, <1>3 DEF IdsUnique
<1> PICK d : d = [Current(w) EXCEPT !.offset = n]
  OBVIOUS
<1>5. /\ d \in Message /\ d.id = m.id /\ d.key = m.key /\ d.partition = w[2]
      /\ d.attempt = MaxRetries
  <2>1. Current(w) = [m EXCEPT !.attempt = attempt[w]] /\ n \in Nat
    BY <1>1 DEF Current, TypeOK
  <2> HIDE DEF m, n
  <2>2. /\ Current(w).id = m.id /\ Current(w).key = m.key /\ Current(w).partition = m.partition
        /\ Current(w).attempt = attempt[w]
    BY <1>3, <2>1 DEF Message
  <2> QED
    BY <1>2, <1>4, <2>1, <2>2 DEF Message
<1>6. n \in Nat /\ dlq' = Append(dlq, d) /\ dlq \in Seq(Message)
  BY <1>1 DEF DeadLetter, AppendTo, TypeOK
<1> HIDE DEF m
<1>7. /\ Len(dlq') = n + 1 /\ dlq'[n + 1] = d
      /\ \A i \in 1 .. n : dlq'[i] = dlq[i]
  BY <1>5, <1>6
<1>8. cur[w] \in SettledBy(w)'
  BY <1>1, SettledByGrows DEF DeadLetter
<1>9. LetterOf(w, d)'
  <2>1. log' = log /\ w \in Active'
    BY <1>1 DEF DeadLetter, Goto, Active, TypeOK
  <2>2. log[w[2]][c].id = d.id /\ log[w[2]][c].key = d.key /\ c - 1 = cur[w]
    BY <1>1, <1>5 DEF m
  <2> QED
    BY <1>3, <1>5, <1>8, <2>1, <2>2 DEF LetterOf
<1>10. ASSUME NEW i \in 1 .. n, dlq[i].id = d.id, by[i] = w PROVE FALSE
  <2>1. PICK j \in 1 .. Len(log[w[2]]) : /\ log[w[2]][j].id = d.id /\ j - 1 \in SettledBy(w)
    BY <1>10 DEF Senders, LetterOf
  <2>2. j = c
    <3>1. \A x, y \in 1 .. Len(log[w[2]]) : log[w[2]][x].id = log[w[2]][y].id => x = y
      BY <1>1 DEF IdsUnique
    <3>2. log[w[2]][c].id = d.id
      BY <1>5 DEF m
    <3> QED
      BY <1>3, <2>1, <3>1, <3>2
  <2>3. cur[w] \in SettledBy(w)
    BY <1>1, <2>1, <2>2
  <2> QED
    BY <1>1, <2>3 DEF CursorOf
<1>11. [Next]_vars
  BY DEF Next, Consume
<1>12. \A i \in 1 .. n : LetterOf(by[i], dlq[i])'
  <2> SUFFICES ASSUME NEW i \in 1 .. n PROVE LetterOf(by[i], dlq[i])'
    OBVIOUS
  <2> PICK e : e = dlq[i]
    OBVIOUS
  <2>1. by[i] \in Workers /\ LetterOf(by[i], e)
    BY DEF Senders
  <2>2. LetterOf(by[i], e)'
    BY <1>11, <2>1, LetterStays
  <2>3. dlq'[i] = e
    BY <1>7
  <2> QED
    BY <2>2, <2>3 DEF LetterOf
<1> PICK b : b = [i \in 1 .. n + 1 |-> IF i = n + 1 THEN w ELSE by[i]]
  OBVIOUS
<1>13. /\ b \in [1 .. n + 1 -> Workers] /\ b[n + 1] = w
       /\ \A i \in 1 .. n : b[i] = by[i]
       /\ \A i \in 1 .. n + 1 : i = n + 1 \/ i \in 1 .. n
  BY <1>6 DEF Senders
<1> HIDE DEF n
<1>14. \A i \in 1 .. n + 1 : LetterOf(b[i], dlq[i])'
  BY <1>7, <1>9, <1>12, <1>13
<1>15. ASSUME NEW i \in 1 .. n + 1, NEW j \in 1 .. n + 1, dlq'[i].id = dlq'[j].id, b[i] = b[j]
       PROVE  i = j
  <2>1. CASE i \in 1 .. n /\ j \in 1 .. n
    BY <1>7, <1>13, <1>15, <2>1 DEF Senders, n
  <2>2. CASE i = n + 1 /\ j \in 1 .. n
    BY <1>7, <1>10, <1>13, <1>15, <2>2
  <2>3. CASE i \in 1 .. n /\ j = n + 1
    BY <1>7, <1>10, <1>13, <1>15, <2>3
  <2> QED
    BY <1>13, <2>1, <2>2, <2>3
<1>16. Senders(b)'
  BY <1>7, <1>13, <1>14, <1>15 DEF Senders, Workers, Partitions
<1> QED
  BY <1>16

LEMMA LettersStep == IInv /\ IdsUnique /\ LettersInv /\ [Next]_vars => LettersInv'
<1> SUFFICES ASSUME IInv, IdsUnique, LettersInv, [Next]_vars PROVE LettersInv'
  OBVIOUS
<1>0. TypeOK
  BY DEF IInv
<1>1. ASSUME NEW w \in Workers, wpc'[w] = "dlq" PROVE attempt'[w] = MaxRetries
  <2>1. CASE ~Consume(w)
    BY <1>0, <1>1, <2>1, OthersStep DEF LettersInv
  <2>2. CASE HandlerErr(w)
    <3>1. wpc[w] = "handle" /\ attempt'[w] = attempt[w] /\ ~(attempt[w] < MaxRetries)
      BY <1>0, <1>1, <2>2 DEF HandlerErr, Goto, TypeOK
    <3>2. attempt[w] \in 0 .. MaxRetries /\ MaxRetries \in Nat
      BY <1>0, BrokerAssumption DEF TypeOK
    <3> QED
      BY <3>1, <3>2
  <2>3. CASE Consume(w) /\ ~HandlerErr(w)
    BY <1>0, <1>1, <2>3 DEF Consume, Register, GetOffset, GetHit, GetMiss, Wake, Stop,
       HandlerOk, DeadLetter, Commit, Goto, TypeOK
  <2> QED
    BY <2>1, <2>2, <2>3
<1>2. IsFiniteSet(Started')
  BY <1>0, StartedStep DEF LettersInv
<1>3. PICK by : Senders(by)
  BY DEF LettersInv
<1>4. ASSUME NEW w \in Workers, DeadLetter(w) PROVE \E b : Senders(b)'
  <2>1. attempt[w] = MaxRetries
    BY <1>4 DEF DeadLetter, LettersInv
  <2> QED
    BY <1>3, <1>4, <2>1, LetterSent
<1>5. ASSUME \A w \in Workers : ~DeadLetter(w) PROVE dlq' = dlq
  <2>1. ASSUME NEW w \in Workers, Consume(w) PROVE dlq' = dlq
    BY <1>5, <2>1 DEF Consume, Register, GetOffset, GetHit, GetMiss, Wake, Stop, HandlerOk,
       HandlerErr, Commit, topicVars
  <2>2. ASSUME (\E u \in Publishers : PublishAppend(u) \/ PublishCount(u)
                                      \/ \E k \in Keys : PublishBegin(u, k))
               \/ (\E s \in Subscriptions : Subscribe(s) \/ Cancel(s)) \/ UNCHANGED vars
        PROVE  dlq' = dlq
    BY <2>2 DEF PublishBegin, PublishAppend, PublishCount, Subscribe, Cancel, vars, topicVars
  <2> QED
    BY <2>1, <2>2 DEF Next
<1>6. \E b : Senders(b)'
  BY <1>3, <1>4, <1>5, NoLetterStep
<1> QED
  BY <1>1, <1>2, <1>6 DEF LettersInv, Workers, Partitions

LEMMA LettersInvariance == Spec => []LettersInv
<1> QED
  BY LettersInit, LettersStep, Invariance, IdsInvariance, PTL DEF Spec

\* No more dead letters of a message than goroutines that consume its partition.
LEMMA LettersBounded ==
  ASSUME IdsUnique, IsFiniteSet(Started), NEW by, Senders(by), NEW i \in 1 .. Len(dlq)
  PROVE  Cardinality({j \in 1 .. Len(dlq) : dlq[j].id = dlq[i].id})
           <= Cardinality({w \in Active : w[2] = dlq[i].partition})
<1> DEFINE J == {j \in 1 .. Len(dlq) : dlq[j].id = dlq[i].id}
           W == {w \in Active : w[2] = dlq[i].partition}
           f == [j \in J |-> by[j]]
<1>1. IsFiniteSet(W)
  <2>1. W \in SUBSET Started
    BY DEF Active, Started
  <2> QED
    BY <2>1, FS_Subset
<1>2. ASSUME NEW j \in J PROVE by[j] \in W
  <2>1. LetterOf(by[j], dlq[j]) /\ LetterOf(by[i], dlq[i]) /\ by[j] \in Workers /\ by[i] \in Workers
    BY DEF Senders
  <2>2. PICK k \in 1 .. Len(log[by[j][2]]) : log[by[j][2]][k].id = dlq[j].id
    BY <2>1 DEF LetterOf
  <2>3. PICK l \in 1 .. Len(log[by[i][2]]) : log[by[i][2]][l].id = dlq[i].id
    BY <2>1 DEF LetterOf
  <2>4. by[j][2] \in Partitions /\ by[i][2] \in Partitions
    BY <2>1, CellOfType
  <2>5. by[j][2] = by[i][2]
    <3> DEFINE p == by[j][2]
               q == by[i][2]
    <3>1. log[p][k].id = log[q][l].id
      BY <2>2, <2>3
    <3>2. /\ p \in Partitions /\ k \in 1 .. Len(log[p])
          /\ q \in Partitions /\ l \in 1 .. Len(log[q])
      BY <2>4
    <3> HIDE DEF p, q
    <3>3. p = q
      BY <3>1, <3>2 DEF IdsUnique
    <3> QED
      BY <3>3 DEF p, q
  <2> QED
    BY <2>1, <2>5 DEF LetterOf
<1>3. \A j, k \in J : by[j] = by[k] => j = k
  BY DEF Senders
<1>4. f \in Injection(J, W)
  BY <1>2, <1>3 DEF Injection, IsInjective
<1> HIDE DEF f, J, W
<1>5. Cardinality(J) <= Cardinality(W)
  BY <1>1, <1>4, FS_Injection
<1> QED
  BY <1>5 DEF J, W

\* A message in the dead-letter queue was given up after MaxRetries attempts by
\* goroutines that settled it, by none of them twice, and is a true copy.
THEOREM GivenUpOnce == Spec => []DeadLettersFaithful
<1>1. IdsUnique /\ LettersInv => DeadLettersFaithful
  <2> SUFFICES ASSUME IdsUnique, LettersInv PROVE DeadLettersFaithful
    OBVIOUS
  <2>1. PICK by : Senders(by)
    BY DEF LettersInv
  <2>2. ASSUME NEW i \in 1 .. Len(dlq)
        PROVE  /\ dlq[i].attempt = MaxRetries
               /\ \E j \in 1 .. Len(log[dlq[i].partition]) :
                    LET m == log[dlq[i].partition][j] IN
                    /\ m.id = dlq[i].id /\ m.key = dlq[i].key
                    /\ \E w \in Workers :
                         w[2] = dlq[i].partition /\ j - 1 \in SettledBy(w)
    <3>1. by[i] \in Workers /\ LetterOf(by[i], dlq[i])
      BY <2>1 DEF Senders
    <3> QED
      BY <3>1 DEF LetterOf
  <2>3. ASSUME NEW i \in 1 .. Len(dlq)
        PROVE  Cardinality({j \in 1 .. Len(dlq) : dlq[j].id = dlq[i].id})
                 <= Cardinality({w \in Workers : wpc[w] \notin {"none", "spawned"}
                                                 /\ w[2] = dlq[i].partition})
    <3>1. {w \in Workers : wpc[w] \notin {"none", "spawned"} /\ w[2] = dlq[i].partition}
            = {w \in Active : w[2] = dlq[i].partition}
      BY DEF Active
    <3> QED
      BY <2>1, <3>1, LettersBounded DEF LettersInv
  <2> QED
    BY <2>2, <2>3 DEF DeadLettersFaithful
<1> QED
  BY <1>1, IdsInvariance, LettersInvariance, PTL

-----------------------------------------------------------------------------
(* The mapped state and the actions of GroupLog on it.                     *)

\* The refinement mapping in one place.
Logs == [p \in Partitions |-> EntriesOf(log[p])]
Done == [c \in Cells |-> SettledIn(c)]

LEMMA PromiseInit == Init => Promise!Init
<1> SUFFICES ASSUME Init PROVE Promise!Init
  OBVIOUS
<1>1. ASSUME NEW p \in Partitions PROVE EntriesOf(log[p]) = <<>>
  BY DEF Init, EntriesOf
<1>2. ASSUME NEW c \in Cells PROVE SettledIn(c) = {}
  BY DEF Init, SettledIn, SettledBy
<1>3. offsets = [c \in Cells |-> 0]
  BY DEF Init
<1> QED
  BY <1>1, <1>2, <1>3 DEF Promise!Init, Promise!Cells, Cells

\* Appending a message to a log appends its id to the entries.
LEMMA EntriesAppend ==
  ASSUME NEW q \in Seq(Message), NEW m \in Message
  PROVE  EntriesOf(AppendTo(q, m)) = Append(EntriesOf(q), m.id)
<1>1. [m EXCEPT !.offset = Len(q)] \in Message /\ [m EXCEPT !.offset = Len(q)].id = m.id
  BY DEF Message
<1>2. Len(AppendTo(q, m)) = Len(q) + 1
  BY <1>1 DEF AppendTo
<1>3. \A i \in 1 .. Len(q) : AppendTo(q, m)[i] = q[i]
  BY <1>1 DEF AppendTo
<1>4. AppendTo(q, m)[Len(q) + 1].id = m.id
  BY <1>1 DEF AppendTo
<1>5. EntriesOf(q) \in Seq(Nat) /\ Len(EntriesOf(q)) = Len(q) /\ m.id \in Nat
  <2>1. Len(q) \in Nat /\ (\A i \in 1 .. Len(q) : q[i].id \in Nat) /\ m.id \in Nat
    <3>1. \A x \in Message : x.id \in Nat
      BY DEF Message
    <3> QED
      BY <3>1
  <2> QED
    BY <2>1 DEF EntriesOf
<1>6. /\ Append(EntriesOf(q), m.id) \in Seq(Nat)
      /\ Len(Append(EntriesOf(q), m.id)) = Len(q) + 1
  BY <1>5
<1>7. \A i \in 1 .. Len(q) + 1 : EntriesOf(AppendTo(q, m))[i] = Append(EntriesOf(q), m.id)[i]
  BY <1>2, <1>3, <1>4, <1>5 DEF EntriesOf
<1>8. EntriesOf(AppendTo(q, m)) = [i \in 1 .. Len(q) + 1 |-> EntriesOf(AppendTo(q, m))[i]]
  BY <1>2 DEF EntriesOf
<1>9. Append(EntriesOf(q), m.id) = [i \in 1 .. Len(q) + 1 |-> Append(EntriesOf(q), m.id)[i]]
  BY <1>6
<1> QED
  BY <1>7, <1>8, <1>9

\* The three ways the mapped state changes, in the terms of the broker.
LEMMA AcceptStep ==
  ASSUME NEW p \in Partitions, NEW e \in 1 .. MaxPublished,
         \A q \in Partitions : \A i \in 1 .. Len(Logs[q]) : Logs[q][i] # e,
         Logs' = [Logs EXCEPT ![p] = Append(@, e)], offsets' = offsets, Done' = Done
  PROVE  Promise!Next
  BY DEF Promise!Next, Promise!Accept, Logs, Done

LEMMA SettleStep ==
  ASSUME NEW c \in Cells, NEW o \in 0 .. offsets[c],
         o < Len(Logs[c[2]]), o <= offsets[c],
         Done' = [Done EXCEPT ![c] = @ \union {o}], offsets' = offsets, Logs' = Logs
  PROVE  Promise!Next
<1>1. Promise!Settle(c, o)
  BY DEF Promise!Settle, Logs, Done, Cells, Promise!Cells
<1> QED
  BY <1>1 DEF Promise!Next, Promise!Cells, Cells

LEMMA AdvanceStep ==
  ASSUME NEW c \in Cells, offsets[c] \in Done[c],
         offsets' = [offsets EXCEPT ![c] = @ + 1], Logs' = Logs, Done' = Done
  PROVE  Promise!Next
<1>1. Promise!Advance(c)
  BY DEF Promise!Advance, Logs, Done, Cells, Promise!Cells
<1> QED
  BY <1>1 DEF Promise!Next, Promise!Cells, Cells

LEMMA StutterStep ==
  ASSUME Logs' = Logs, offsets' = offsets, Done' = Done
  PROVE  UNCHANGED Promise!vars
  BY DEF Promise!vars, Logs, Done, Cells, Promise!Cells

LEMMA LogsSame == ASSUME log' = log PROVE Logs' = Logs
  BY DEF Logs, EntriesOf, Partitions

LEMMA DoneSame == ASSUME settled' = settled PROVE Done' = Done
  BY DEF Done, SettledIn, SettledBy, Cells, Workers, CellOf, Partitions

\* A goroutine that settles its offset settles it for its group.
LEMMA DoneGrows ==
  ASSUME TypeOK, NEW w \in Workers, settled' = [settled EXCEPT ![w] = Append(@, cur[w])]
  PROVE  Done' = [Done EXCEPT ![CellOf(w)] = @ \union {cur[w]}]
<1>1. \A v \in Workers :
        SettledBy(v)' = IF v = w THEN SettledBy(v) \union {cur[w]} ELSE SettledBy(v)
  BY SettledByGrows
<1>2. Workers' = Workers /\ Cells' = Cells /\ \A v \in Workers : CellOf(v)' = CellOf(v)
  BY DEF Workers, Cells, CellOf, Partitions
<1>3. ASSUME NEW c \in Cells
      PROVE  SettledIn(c)' = IF c = CellOf(w) THEN SettledIn(c) \union {cur[w]}
                                              ELSE SettledIn(c)
  <2>1. SettledIn(c)' = UNION {SettledBy(v)' : v \in {u \in Workers : CellOf(u) = c}}
    BY <1>2 DEF SettledIn
  <2>2. CASE c = CellOf(w)
    BY <1>1, <2>1, <2>2 DEF SettledIn
  <2>3. CASE c # CellOf(w)
    BY <1>1, <2>1, <2>3 DEF SettledIn
  <2> QED
    BY <2>2, <2>3
<1> QED
  BY <1>2, <1>3, CellOfType DEF Done

-----------------------------------------------------------------------------
\* Every step of the broker is a step of GroupLog or changes nothing there.
LEMMA PromiseStep ==
  ASSUME IInv, IdsUnique, [Next]_vars
  PROVE  [Promise!Next]_(Promise!vars)
<1>1. TypeOK
  BY DEF IInv
<1>2. ASSUME NEW u \in Publishers, PublishAppend(u) PROVE Promise!Next
  <2> DEFINE p == draft[u].partition
  <2>1. /\ draft[u] \in Message /\ p \in Partitions /\ draft[u].id \in 1 .. MaxPublished
        /\ log \in [Partitions -> Seq(Message)]
    <3>1. u \in Drafts
      BY <1>2 DEF Drafts, PublishAppend
    <3>2. draft[u].id \in 1 .. published /\ published <= MaxPublished
      BY <3>1 DEF IdsUnique
    <3>3. published \in Nat /\ MaxPublished \in Nat /\ draft[u] \in Message /\ draft[u].partition \in Partitions
      BY <1>1, BrokerAssumption DEF TypeOK, Message
    <3> QED
      BY <1>1, <3>2, <3>3 DEF TypeOK
  <2>2. log' = [log EXCEPT ![p] = AppendTo(@, draft[u])]
        /\ offsets' = offsets /\ settled' = settled
    BY <1>2 DEF PublishAppend, groupVars, workerVars
  <2>3. EntriesOf(log'[p]) = Append(EntriesOf(log[p]), draft[u].id)
    BY <2>1, <2>2, EntriesAppend
  <2>4. \A q \in Partitions : q # p => EntriesOf(log'[q]) = EntriesOf(log[q])
    BY <2>1, <2>2
  <2>5. Logs' = [Logs EXCEPT ![p] = Append(@, draft[u].id)]
    BY <2>1, <2>3, <2>4 DEF Logs, Partitions
  <2>6. ASSUME NEW q \in Partitions, NEW i \in 1 .. Len(Logs[q])
        PROVE  Logs[q][i] # draft[u].id
    <3>1. u \in Drafts
      BY <1>2 DEF Drafts, PublishAppend
    <3>2. Logs[q] = EntriesOf(log[q]) /\ Len(log[q]) \in Nat
      BY <2>1 DEF Logs
    <3>3. i \in 1 .. Len(log[q]) /\ Logs[q][i] = log[q][i].id
      BY <3>2 DEF EntriesOf
    <3> QED
      BY <3>1, <3>3 DEF IdsUnique
  <2> QED
    BY <2>1, <2>2, <2>5, <2>6, DoneSame, AcceptStep
<1>3. ASSUME NEW w \in Workers, HandlerOk(w) \/ DeadLetter(w) PROVE Promise!Next
  <2> DEFINE c == CellOf(w)
  <2>1. /\ log' = log /\ offsets' = offsets /\ wpc[w] \in {"handle", "dlq"}
        /\ settled' = [settled EXCEPT ![w] = Append(@, cur[w])]
    BY <1>3 DEF HandlerOk, DeadLetter, topicVars, groupVars
  <2>2. /\ c \in Cells /\ c[2] = w[2] /\ w[2] \in Partitions /\ cur[w] \in Nat
        /\ offsets[c] \in Nat /\ cur[w] <= offsets[c] /\ cur[w] < Len(log[w[2]])
    BY <1>1, <2>1, CellOfType DEF TypeOK, IInv, Cursors, CursorOf, Available
  <2>3. log[w[2]] \in Seq(Message) /\ Len(Logs[c[2]]) = Len(log[c[2]])
    <3>1. log[w[2]] \in Seq(Message)
      BY <1>1, <2>2 DEF TypeOK
    <3>2. Logs[c[2]] = EntriesOf(log[w[2]])
      BY <2>2 DEF Logs
    <3>3. Len(EntriesOf(log[w[2]])) = Len(log[w[2]])
      BY <3>1 DEF EntriesOf
    <3> QED
      BY <2>2, <3>1, <3>2, <3>3
  <2>4. Done' = [Done EXCEPT ![c] = @ \union {cur[w]}]
    BY <1>1, <2>1, DoneGrows
  <2>5. cur[w] \in 0 .. offsets[c] /\ cur[w] < Len(Logs[c[2]])
    BY <2>2, <2>3
  <2>6. Logs' = Logs
    BY <2>1, LogsSame
  <2> HIDE DEF c
  <2> QED
    BY <2>1, <2>2, <2>4, <2>5, <2>6, SettleStep
<1>4. ASSUME NEW w \in Workers, Commit(w) PROVE Promise!Next \/ UNCHANGED Promise!vars
  <2> DEFINE c == CellOf(w)
  <2>1. /\ log' = log /\ settled' = settled /\ wpc[w] = "commit"
        /\ offsets' = [offsets EXCEPT ![c] = Committed(c, cur[w] + 1)]
    BY <1>4 DEF Commit, topicVars
  <2>2. /\ c \in Cells /\ cur[w] \in Nat /\ cur[w] <= offsets[c] /\ cur[w] \in SettledBy(w)
        /\ offsets \in [Cells -> Nat]
    BY <1>1, <2>1, CellOfType DEF TypeOK, IInv, Cursors, CursorOf
  <2>3. Logs' = Logs /\ Done' = Done
    BY <2>1, LogsSame, DoneSame
  <2>4. CASE cur[w] = offsets[c]
    <3>1. offsets' = [offsets EXCEPT ![c] = @ + 1]
      <4>1. Committed(c, cur[w] + 1) = offsets[c] + 1
        BY <2>2, <2>4 DEF Committed
      <4> QED
        BY <2>1, <4>1
    <3>2. offsets[c] \in Done[c]
      BY <2>2, <2>4 DEF Done, SettledIn
    <3> QED
      BY <2>2, <2>3, <3>1, <3>2, AdvanceStep
  <2>5. CASE cur[w] # offsets[c]
    <3>1. Committed(c, cur[w] + 1) = offsets[c]
      BY <2>2, <2>5 DEF Committed
    <3>2. offsets' = offsets
      BY <2>1, <2>2, <3>1
    <3> QED
      BY <2>3, <3>2, StutterStep
  <2> QED
    BY <2>4, <2>5
<1>5. ASSUME NEW s \in Subscriptions, Subscribe(s) PROVE UNCHANGED Promise!vars
  <2>1. log' = log /\ settled' = settled
    BY <1>5 DEF Subscribe
  <2>2. offsets' = offsets
    <3>1. CASE GroupOf[s] \in groups
      BY <1>5, <3>1 DEF Subscribe
    <3>2. CASE GroupOf[s] \notin groups
      BY <1>1, <1>5, <3>2 DEF Subscribe, IInv, FreshGroups, TypeOK
    <3> QED
      BY <3>1, <3>2
  <2> QED
    BY <2>1, <2>2, LogsSame, DoneSame, StutterStep
<1>6. ASSUME NEW w \in Workers, Consume(w), ~HandlerOk(w), ~DeadLetter(w), ~Commit(w)
      PROVE  UNCHANGED <<log, offsets, settled>>
  BY <1>6 DEF Consume, Register, GetOffset, GetHit, GetMiss, Wake, Stop, HandlerErr,
              topicVars, groupVars
<1>7. ASSUME (\E u \in Publishers : PublishCount(u) \/ \E k \in Keys : PublishBegin(u, k))
             \/ (\E s \in Subscriptions : Cancel(s)) \/ UNCHANGED vars
      PROVE  UNCHANGED <<log, offsets, settled>>
  BY <1>7 DEF PublishBegin, PublishCount, Cancel, vars, topicVars, groupVars, workerVars
<1>8. CASE UNCHANGED <<log, offsets, settled>>
  BY <1>8, LogsSame, DoneSame, StutterStep
<1> QED
  BY <1>2, <1>3, <1>4, <1>5, <1>6, <1>7, <1>8 DEF Next

\* The broker implements the abstract log: groups settle messages in order,
\* at least once, and their cursors never skip one or move back.
THEOREM BrokerImplementsGroupLog == Spec => ImplementsGroupLog
<1>1. IInv /\ IdsUnique /\ [Next]_vars => [Promise!Next]_(Promise!vars)
  BY PromiseStep
<1> QED
  BY <1>1, PromiseInit, Invariance, IdsInvariance, PTL DEF Spec, ImplementsGroupLog, Promise!Spec

=============================================================================
