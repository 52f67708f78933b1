---------------------------- MODULE EngineProofs ----------------------------
(***************************************************************************)
(* Proofs about Engine, for every set of requests, scores and bounds: it   *)
(* drives the broker by the broker's own steps, so all that is proved of   *)
(* Broker holds of it, and it never gives up on an accepted event.         *)
(*                                                                         *)
(* At the end, Server: it implements Engine, so that what is proved of the *)
(* engine holds from start to exit, and the process does not end before    *)
(* what main waits for.                                                    *)
(***************************************************************************)
EXTENDS Server, BrokerProofs

\* A step of the server is a step of the broker or leaves the broker alone.
LEMMA EngineStepsAreBrokerSteps == [EngineNext]_allVars => [Next]_vars
<1> SUFFICES ASSUME [EngineNext]_allVars PROVE [Next]_vars
  OBVIOUS
<1>1. ASSUME NEW u \in Publishers, NEW r \in Requests, CreateEvent(u, r) PROVE Next
  <2>1. r.category \in Keys
    BY EngineAssumption
  <2> QED
    BY <1>1, <2>1 DEF CreateEvent, Next
<1>2. ASSUME NEW u \in Publishers, Publishing(u) PROVE Next
  BY <1>2 DEF Publishing, Next
<1>3. ASSUME NEW u \in Publishers, CountPublished(u) PROVE UNCHANGED vars
  BY <1>3 DEF CountPublished
<1>4. ASSUME NEW w \in Workers, BrokerLoop(w) PROVE Next
  BY <1>4 DEF BrokerLoop, Next, Consume
<1>5. ASSUME NEW w \in Workers, Handle(w) PROVE [Next]_vars
  BY <1>5 DEF Handle, RunStages, Persist, HandlerReturn, Next, Consume
<1>6. ASSUME NEW s \in Subscriptions, Subscribing(s) PROVE Next
  BY <1>6 DEF Subscribing, Next
<1>7. ASSUME \/ \E id \in Ids : DeleteEvent(id)
             \/ Evicting \/ CountEvicted \/ Time
      PROVE  UNCHANGED vars
  BY <1>7 DEF DeleteEvent, Evicting, CountEvicted, Time
<1>8. CASE UNCHANGED allVars
  BY <1>8 DEF allVars
<1> QED
  BY <1>1, <1>2, <1>3, <1>4, <1>5, <1>6, <1>7, <1>8 DEF EngineNext

\* The server implements the broker's specification: with the handler of
\* main.go in the place of one that returns what it likes, every theorem about
\* Broker carries over.
THEOREM EngineImplementsBroker == EngineSpec => Spec
<1>1. EngineInit => Init
  BY DEF EngineInit
<1> QED
  BY <1>1, EngineStepsAreBrokerSteps, PTL DEF EngineSpec, Spec

-----------------------------------------------------------------------------
(* No accepted event is given up.                                          *)

AcceptedEvent == [request : {r \in Requests : Valid(r)}, created : Int]

\* Every message, in a log or on its way to one, has its payload, and the
\* payload is a request the API found valid.
Tracked ==
  /\ clock \in Int
  /\ accepted \in Seq(AcceptedEvent)
  /\ published = Len(accepted)
  /\ \A p \in Partitions : \A i \in 1 .. Len(log[p]) : log[p][i].id \in 1 .. Len(accepted)
  /\ \A u \in Publishers : ppc[u] = "append" => draft[u].id \in 1 .. Len(accepted)

\* No goroutine is on its way to the dead-letter queue, and none holds a run
\* that failed.
Succeeding(w) ==
  /\ wpc[w] # "dlq"
  /\ w \in DOMAIN job /\ "pc" \in DOMAIN job[w]
  /\ job[w].pc \in {"start", "persist", "done"}

\* The inductive invariant, beside that of Broker.
GivesUpNothing == NoDeadLetters /\ \A w \in Workers : Succeeding(w)

LEMMA ClockTyped == clock \in Int /\ [EngineNext]_allVars => clock' \in Int
<1> SUFFICES ASSUME clock \in Int, [EngineNext]_allVars PROVE clock' \in Int
  OBVIOUS
<1>1. CASE Time
  BY <1>1 DEF Time, Store!Tick
<1>2. ASSUME NEW w \in Workers, BrokerLoop(w) \/ Handle(w) PROVE clock' = clock
  <2>1. CASE Persist(w)
    BY <2>1 DEF Persist, Store!Put
  <2>2. CASE BrokerLoop(w)
    BY <2>2 DEF BrokerLoop, storeVars
  <2>3. CASE RunStages(w) \/ HandlerReturn(w)
    BY <2>3 DEF RunStages, HandlerReturn, storeVars
  <2> QED
    BY <1>2, <2>1, <2>2, <2>3 DEF Handle
<1>3. ASSUME NEW id \in Ids, DeleteEvent(id) PROVE clock' = clock
  BY <1>3 DEF DeleteEvent, Store!Delete
<1>4. CASE Evicting
  BY <1>4 DEF Evicting, Store!EvictStart, Store!EvictExpired
<1>5. ASSUME NEW u \in Publishers,
             Publishing(u) \/ CountPublished(u) \/ \E r \in Requests : CreateEvent(u, r)
      PROVE  clock' = clock
  BY <1>5 DEF Publishing, CountPublished, CreateEvent, storeVars
<1>6. ASSUME (\E s \in Subscriptions : Subscribing(s)) \/ CountEvicted \/ UNCHANGED allVars
      PROVE  clock' = clock
  BY <1>6 DEF Subscribing, CountEvicted, allVars, storeVars
<1> QED
  BY <1>1, <1>2, <1>3, <1>4, <1>5, <1>6 DEF EngineNext

LEMMA TrackedStep == TypeOK /\ Tracked /\ [EngineNext]_allVars => Tracked'
<1> SUFFICES ASSUME TypeOK, Tracked, [EngineNext]_allVars PROVE Tracked'
  OBVIOUS
<1>0. /\ clock' \in Int /\ Len(accepted) \in Nat
      /\ \A p \in Partitions : log[p] \in Seq(Message)
      /\ \A u \in Publishers : draft[u] \in Message
  BY ClockTyped DEF TypeOK, Tracked
<1>1. ASSUME NEW u \in Publishers, NEW r \in Requests, CreateEvent(u, r) PROVE Tracked'
  <2>1. [request |-> r, created |-> clock] \in AcceptedEvent
    BY <1>1 DEF AcceptedEvent, Tracked, CreateEvent
  <2>2. accepted' \in Seq(AcceptedEvent) /\ Len(accepted') = Len(accepted) + 1
    BY <1>1, <2>1 DEF CreateEvent, Tracked
  <2>3. log' = log /\ published' = Len(accepted')
    BY <1>1, <2>2 DEF CreateEvent, PublishBegin, Tracked
  <2>4. \A v \in Publishers : ppc'[v] = "append" => draft'[v].id \in 1 .. Len(accepted')
    BY <1>0, <1>1, <2>2 DEF CreateEvent, PublishBegin, Tracked, TypeOK
  <2> QED
    BY <1>0, <2>2, <2>3, <2>4 DEF Tracked
<1>2. ASSUME NEW u \in Publishers, PublishAppend(u), accepted' = accepted PROVE Tracked'
  <2> DEFINE q == draft[u].partition
             m == [draft[u] EXCEPT !.offset = Len(log[q])]
  <2>1. /\ q \in Partitions /\ m \in Message /\ m.id \in 1 .. Len(accepted)
        /\ log' = [log EXCEPT ![q] = Append(log[q], m)]
    <3>1. draft[u] \in Message /\ draft[u].id \in 1 .. Len(accepted)
      BY <1>0, <1>2 DEF PublishAppend, Tracked
    <3>2. q \in Partitions
      BY <3>1 DEF Message
    <3>3. Len(log[q]) \in Nat
      BY <1>0, <3>2
    <3>4. m \in Message /\ m.id = draft[u].id
      BY <3>1, <3>3 DEF Message
    <3>5. log' = [log EXCEPT ![q] = Append(log[q], m)]
      BY <1>2 DEF PublishAppend, AppendTo
    <3> QED
      BY <3>1, <3>2, <3>4, <3>5
  <2>2. \A p \in Partitions : \A i \in 1 .. Len(log'[p]) : log'[p][i].id \in 1 .. Len(accepted)
    <3> SUFFICES ASSUME NEW p \in Partitions, NEW i \in 1 .. Len(log'[p])
                 PROVE  log'[p][i].id \in 1 .. Len(accepted)
      OBVIOUS
    <3> HIDE DEF m
    <3>1. CASE p = q
      BY <1>0, <2>1, <3>1 DEF Tracked, TypeOK
    <3>2. CASE p # q
      BY <1>0, <2>1, <3>2 DEF Tracked, TypeOK
    <3> QED
      BY <3>1, <3>2
  <2>3. /\ published' = published /\ draft' = draft
        /\ \A v \in Publishers : ppc'[v] = "append" => ppc[v] = "append"
    BY <1>2 DEF PublishAppend, TypeOK
  <2> QED
    BY <1>0, <1>2, <2>2, <2>3 DEF Tracked
<1>3. ASSUME NEW u \in Publishers, PublishCount(u), accepted' = accepted PROVE Tracked'
  BY <1>0, <1>3 DEF PublishCount, Tracked, topicVars, TypeOK
<1>4. ASSUME UNCHANGED <<accepted, log, published, ppc, draft>> PROVE Tracked'
  BY <1>0, <1>4 DEF Tracked
<1>5. ASSUME NEW w \in Workers, BrokerLoop(w) \/ Handle(w)
      PROVE  UNCHANGED <<accepted, log, published, ppc, draft>>
  BY <1>5 DEF BrokerLoop, Register, GetOffset, GetHit, GetMiss, Wake, Stop, DeadLetter, Commit,
              Handle, RunStages, Persist, HandlerReturn, HandlerOk, HandlerErr,
              vars, engineVars, topicVars, publisherVars
<1>6. ASSUME \/ \E s \in Subscriptions : Subscribing(s)
             \/ \E u \in Publishers : CountPublished(u)
             \/ \E id \in Ids : DeleteEvent(id)
             \/ Evicting \/ CountEvicted \/ Time
             \/ UNCHANGED allVars
      PROVE  UNCHANGED <<accepted, log, published, ppc, draft>>
  BY <1>6 DEF Subscribing, Subscribe, Cancel, CountPublished, DeleteEvent, Evicting,
              CountEvicted, Time, allVars, vars, engineVars, topicVars, publisherVars
<1> QED
  BY <1>1, <1>2, <1>3, <1>4, <1>5, <1>6 DEF EngineNext, Publishing

\* The payload of the message a goroutine handles is a valid request.
LEMMA HandledIsValid ==
  ASSUME TypeOK, Tracked, NEW w \in Workers, Available(w)
  PROVE  Valid(accepted[Current(w).id].request)
<1>1. w[2] \in Partitions /\ cur[w] + 1 \in 1 .. Len(log[w[2]])
  BY CellOfType DEF TypeOK, Available
<1>2. log[w[2]][cur[w] + 1] \in Message
  BY <1>1 DEF TypeOK
<1>3. Current(w).id = log[w[2]][cur[w] + 1].id
  BY <1>2 DEF Current, Message
<1>4. Current(w).id \in 1 .. Len(accepted)
  BY <1>1, <1>3 DEF Tracked
<1>5. accepted[Current(w).id] \in AcceptedEvent
  BY <1>4 DEF Tracked
<1> QED
  BY <1>5 DEF AcceptedEvent

LEMMA GivesUpNothingStep ==
  IInv /\ Tracked /\ GivesUpNothing /\ [EngineNext]_allVars => GivesUpNothing'
<1> SUFFICES ASSUME IInv, Tracked, GivesUpNothing, [EngineNext]_allVars PROVE GivesUpNothing'
  OBVIOUS
<1> USE DEF GivesUpNothing, Succeeding, NoDeadLetters
<1>0. TypeOK /\ CurInLog
  BY DEF IInv, Cursors, CursorOf, CurInLog
<1>1. ASSUME NEW w \in Workers, BrokerLoop(w) PROVE GivesUpNothing'
  BY <1>0, <1>1 DEF BrokerLoop, Register, GetOffset, GetHit, GetMiss, Wake, Stop, DeadLetter,
                    Commit, Goto, engineVars, topicVars, TypeOK
<1>2. ASSUME NEW w \in Workers, RunStages(w) PROVE GivesUpNothing'
  <2>1. Valid(accepted[Current(w).id].request)
    BY <1>0, <1>2, HandledIsValid DEF RunStages, CurInLog
  <2> QED
    BY <1>2, <2>1 DEF RunStages, vars, topicVars, workerVars
<1>3. ASSUME NEW w \in Workers, Persist(w) PROVE GivesUpNothing'
  BY <1>3 DEF Persist, vars, topicVars, workerVars
<1>4. ASSUME NEW w \in Workers, HandlerReturn(w) PROVE GivesUpNothing'
  <2>1. HandlerOk(w)
    BY <1>4 DEF HandlerReturn
  <2> QED
    BY <1>0, <1>4, <2>1 DEF HandlerReturn, HandlerOk, Goto, topicVars, TypeOK, Ready
<1>5. ASSUME NEW s \in Subscriptions, Subscribing(s) PROVE GivesUpNothing'
  BY <1>5 DEF Subscribing, Subscribe, Cancel, engineVars, topicVars, workerVars
<1>6. ASSUME NEW u \in Publishers,
             Publishing(u) \/ CountPublished(u) \/ \E r \in Requests : CreateEvent(u, r)
      PROVE  GivesUpNothing'
  BY <1>6 DEF Publishing, PublishAppend, PublishCount, CountPublished, CreateEvent, PublishBegin,
              vars, topicVars, workerVars
<1>7. ASSUME (\E id \in Ids : DeleteEvent(id)) \/ Evicting \/ CountEvicted \/ Time
      PROVE  GivesUpNothing'
  BY <1>7 DEF DeleteEvent, Evicting, CountEvicted, Time, vars, engineVars, topicVars, workerVars
<1>8. CASE UNCHANGED allVars
  BY <1>8 DEF allVars, vars, engineVars, topicVars, workerVars
<1> QED
  BY <1>1, <1>2, <1>3, <1>4, <1>5, <1>6, <1>7, <1>8 DEF EngineNext, Handle

\* What the API answered 202 for is never a dead letter, however requests,
\* goroutines, deletes and evictions interleave and however many Subscribe
\* calls share a group.
THEOREM NothingGivenUp == EngineSpec => []NoDeadLetters
<1>1. EngineInit => Tracked /\ GivesUpNothing
  <2> SUFFICES ASSUME EngineInit PROVE Tracked /\ GivesUpNothing
    OBVIOUS
  <2>1. Tracked
    BY DEF EngineInit, Init, Store!Init, Tracked
  <2>2. GivesUpNothing
    BY DEF EngineInit, Init, Ready, GivesUpNothing, Succeeding, NoDeadLetters
  <2> QED
    BY <2>1, <2>2
<1>2. EngineSpec => []IInv
  BY EngineImplementsBroker, Invariance, PTL
<1>3. IInv => TypeOK
  BY DEF IInv
<1>4. GivesUpNothing => NoDeadLetters
  BY DEF GivesUpNothing
<1> QED
  BY <1>1, <1>2, <1>3, <1>4, TrackedStep, GivesUpNothingStep, PTL DEF EngineSpec

-----------------------------------------------------------------------------
(* Tiers and buckets.                                                      *)

Classified(e) == e.score \in 0 .. 100 /\ e.priority = Tier(e.score)

\* Every event in the store, or on its way to it, has the tier of its score.
AllClassified ==
  /\ \A id \in DOMAIN primary : Classified(primary[id])
  /\ \A w \in Workers : job[w].pc = "persist" => Classified(job[w].event)

LEMMA AllClassifiedStep ==
  IInv /\ Tracked /\ GivesUpNothing /\ AllClassified /\ [EngineNext]_allVars => AllClassified'
<1> SUFFICES ASSUME IInv, Tracked, GivesUpNothing, AllClassified, [EngineNext]_allVars
             PROVE  AllClassified'
  OBVIOUS
<1> USE DEF AllClassified
<1>0. /\ TypeOK /\ CurInLog
      /\ \A w \in Workers : w \in DOMAIN job /\ "pc" \in DOMAIN job[w]
  BY DEF IInv, Cursors, CursorOf, CurInLog, GivesUpNothing, Succeeding
<1>1. ASSUME UNCHANGED <<primary, job>> PROVE AllClassified'
  BY <1>1
<1>2. ASSUME NEW w \in Workers, RunStages(w) PROVE AllClassified'
  <2> DEFINE a == accepted[Current(w).id]
             id == Len(origin) + 1
  <2>1. Valid(a.request) /\ a.request \in Requests
    <3>1. Available(w)
      BY <1>0, <1>2 DEF RunStages, CurInLog
    <3>2. w[2] \in Partitions /\ cur[w] + 1 \in 1 .. Len(log[w[2]])
      BY <3>1, <1>0, CellOfType DEF TypeOK, Available
    <3>3. Current(w).id = log[w[2]][cur[w] + 1].id
      BY <3>2, <1>0 DEF TypeOK, Current, Message
    <3>4. a \in AcceptedEvent
      BY <3>2, <3>3 DEF Tracked
    <3> QED  BY <3>4 DEF AcceptedEvent
  <2>2. job' = [job EXCEPT ![w] = [pc |-> "persist", event |-> Processed(a, id)]]
          /\ primary' = primary
    BY <1>2, <2>1 DEF RunStages, storeVars
  <2>3. Classified(Processed(a, id))
    <3>1. Score[a.request] \in 0 .. 100
      BY <2>1, EngineAssumption
    <3>2. /\ Processed(a, id).score = Score[a.request]
          /\ Processed(a, id).priority = Tier(Score[a.request])
      BY DEF Processed
    <3> QED  BY <3>1, <3>2 DEF Classified
  <2> HIDE DEF a, id
  <2> QED  BY <1>0, <2>2, <2>3
<1>3. ASSUME NEW w \in Workers, Persist(w) PROVE AllClassified'
  <2>1. /\ Classified(job[w].event)
        /\ job' = [job EXCEPT ![w].pc = "done"]
    BY <1>3 DEF Persist
  <2>2. \A v \in Workers : job'[v].pc = "persist" => job'[v] = job[v]
    BY <1>0, <2>1
  <2>3. \A id \in DOMAIN primary' : primary'[id] \in {job[w].event, primary[id]}
    BY <1>3 DEF Persist, Store!Put
  <2>4. \A id \in DOMAIN primary' : primary'[id] = job[w].event \/ id \in DOMAIN primary
    BY <1>3 DEF Persist, Store!Put, Store!Present
  <2> QED  BY <2>1, <2>2, <2>3, <2>4
<1>4. ASSUME NEW w \in Workers, HandlerReturn(w) PROVE AllClassified'
  BY <1>0, <1>4 DEF HandlerReturn, Ready, storeVars
<1>5. ASSUME NEW id \in Ids, DeleteEvent(id) PROVE AllClassified'
  BY <1>5 DEF DeleteEvent, Store!Delete, Store!Present, engineVars
<1>6. CASE Evicting
  BY <1>6 DEF Evicting, Store!EvictStart, Store!EvictExpired, Store!Present
<1>7. ASSUME NEW w \in Workers, BrokerLoop(w) PROVE AllClassified'
  BY <1>1, <1>7 DEF BrokerLoop, storeVars, engineVars
<1>8. ASSUME NEW u \in Publishers,
             Publishing(u) \/ CountPublished(u) \/ \E r \in Requests : CreateEvent(u, r)
      PROVE  AllClassified'
  BY <1>1, <1>8 DEF Publishing, CountPublished, CreateEvent, storeVars
<1>9. ASSUME (\E s \in Subscriptions : Subscribing(s)) \/ CountEvicted \/ Time
             \/ UNCHANGED allVars
      PROVE  AllClassified'
  BY <1>1, <1>9 DEF Subscribing, CountEvicted, Time, Store!Tick, allVars, storeVars, engineVars
<1> QED
  BY <1>2, <1>3, <1>4, <1>5, <1>6, <1>7, <1>8, <1>9 DEF EngineNext, Handle

\* The buckets that Stats counts scores in are the tiers the pipeline assigned,
\* for every score: the two pairs of boundaries in the code agree.
THEOREM TiersAreBuckets == EngineSpec => []TiersMatchBuckets
<1>1. EngineInit => Tracked /\ GivesUpNothing /\ AllClassified
  <2> SUFFICES ASSUME EngineInit PROVE Tracked /\ GivesUpNothing /\ AllClassified
    OBVIOUS
  <2>1. Tracked
    BY DEF EngineInit, Init, Store!Init, Tracked
  <2>2. GivesUpNothing
    BY DEF EngineInit, Init, Ready, GivesUpNothing, Succeeding, NoDeadLetters
  <2>3. AllClassified
    BY DEF EngineInit, Store!Init, Ready, AllClassified
  <2> QED  BY <2>1, <2>2, <2>3
<1>2. EngineSpec => []IInv
  BY EngineImplementsBroker, Invariance, PTL
<1>3. IInv => TypeOK
  BY DEF IInv
<1>4. AllClassified => TiersMatchBuckets
  <2> SUFFICES ASSUME AllClassified PROVE TiersMatchBuckets
    OBVIOUS
  <2>1. ASSUME NEW id \in DOMAIN primary
        PROVE  /\ primary[id].priority = "critical" <=> Store!Bucket(primary[id]) = "80-100"
               /\ primary[id].priority = "high" <=> Store!Bucket(primary[id]) = "55-79"
               /\ primary[id].priority = "medium" <=> Store!Bucket(primary[id]) = "30-54"
               /\ primary[id].priority = "low" <=> Store!Bucket(primary[id]) = "0-29"
    BY DEF AllClassified, Classified, Tier, Store!Bucket
  <2>2. /\ {id \in DOMAIN primary : primary[id].priority = "critical"}
             = {id \in DOMAIN primary : Store!Bucket(primary[id]) = "80-100"}
        /\ {id \in DOMAIN primary : primary[id].priority = "high"}
             = {id \in DOMAIN primary : Store!Bucket(primary[id]) = "55-79"}
        /\ {id \in DOMAIN primary : primary[id].priority = "medium"}
             = {id \in DOMAIN primary : Store!Bucket(primary[id]) = "30-54"}
        /\ {id \in DOMAIN primary : primary[id].priority = "low"}
             = {id \in DOMAIN primary : Store!Bucket(primary[id]) = "0-29"}
    BY <2>1
  <2>3. {"critical", "high", "medium", "low"} \subseteq Keys \union Priorities
    BY EngineAssumption
  <2> QED
    BY <2>2, <2>3 DEF TiersMatchBuckets, Store!Stats, Store!Present, Store!Buckets
<1> QED
  BY <1>1, <1>2, <1>3, <1>4, TrackedStep, GivesUpNothingStep, AllClassifiedStep, PTL
     DEF EngineSpec

-----------------------------------------------------------------------------
(* Completeness.                                                           *)

\* An event with all that the stages make of the request it came with.
Complete(e, a) ==
  /\ Valid(a.request)
  /\ e.category = a.request.category
  /\ e.priority = Tier(Score[a.request])
  /\ e.expires = IF TTL > 0 THEN a.created + TTL ELSE 0

Origins(org, acc) == org \in Seq(Nat) /\ \A i \in 1 .. Len(org) : org[i] \in 1 .. Len(acc)
OfRequest(org, acc, id, e) == id \in 1 .. Len(org) /\ e.id = id /\ Complete(e, acc[org[id]])

\* Every event in the store, or on its way to it, is complete for the request
\* of the message its id was made for.
AllComplete ==
  /\ Origins(origin, accepted)
  /\ \A id \in DOMAIN primary : OfRequest(origin, accepted, id, primary[id])
  /\ \A w \in Workers :
       job[w].pc = "persist" => OfRequest(origin, accepted, job[w].event.id, job[w].event)

\* New ids and new messages change nothing for the old ones.
LEMMA Extended ==
  ASSUME NEW org, NEW acc, Origins(org, acc), NEW S, acc \in Seq(S),
         NEW m \in 1 .. Len(acc), NEW x \in S, NEW id, NEW e, OfRequest(org, acc, id, e)
  PROVE  /\ OfRequest(Append(org, m), acc, id, e)
         /\ OfRequest(org, Append(acc, x), id, e)
<1> DEFINE more == Append(org, m)
           longer == Append(acc, x)
<1>1. /\ org \in Seq(Nat) /\ Len(org) \in Nat /\ Len(acc) \in Nat /\ m \in Nat
      /\ id \in 1 .. Len(org) /\ org[id] \in 1 .. Len(acc)
  BY DEF Origins, OfRequest
<1>2. more \in Seq(Nat) /\ Len(more) = Len(org) + 1 /\ more[id] = org[id]
  BY <1>1
<1>3. longer[org[id]] = acc[org[id]]
  BY <1>1
<1> HIDE DEF more, longer
<1>4. OfRequest(more, acc, id, e)
  BY <1>1, <1>2 DEF OfRequest
<1>5. OfRequest(org, longer, id, e)
  BY <1>3 DEF OfRequest
<1> QED
  BY <1>4, <1>5 DEF more, longer

LEMMA CreateComplete ==
  ASSUME Tracked, AllComplete, NEW u \in Publishers, NEW r \in Requests, CreateEvent(u, r)
  PROVE  AllComplete'
<1> DEFINE x == [request |-> r, created |-> clock]
<1>1. /\ accepted' = Append(accepted, x) /\ accepted \in Seq(AcceptedEvent) /\ x \in AcceptedEvent
      /\ origin' = origin /\ primary' = primary /\ job' = job
  BY DEF CreateEvent, Tracked, AcceptedEvent, storeVars, historyVars
<1> HIDE DEF x
<1>2. Len(accepted') = Len(accepted) + 1 /\ Len(accepted) \in Nat
  BY <1>1
<1>3. Origins(origin, accepted')
  BY <1>2 DEF AllComplete, Origins
<1>4. ASSUME NEW id, NEW e, OfRequest(origin, accepted, id, e)
      PROVE  OfRequest(origin, accepted', id, e)
  <2>1. id \in 1 .. Len(origin) /\ origin[id] \in 1 .. Len(accepted)
    BY <1>4 DEF OfRequest, AllComplete, Origins
  <2> QED
    BY <1>1, <1>4, <2>1, Extended DEF AllComplete
<1> QED
  BY <1>1, <1>3, <1>4 DEF AllComplete

\* A run of the stages makes the event of a new id complete, since the request
\* of the message in hand is valid.
LEMMA RunStep ==
  ASSUME IInv, Tracked, GivesUpNothing, AllComplete, NEW w \in Workers, RunStages(w)
  PROVE  LET m == Current(w).id
             id == Len(origin) + 1
         IN  /\ m \in 1 .. Len(accepted) /\ m \in Nat /\ m = log[w[2]][cur[w] + 1].id
             /\ Len(origin) \in Nat /\ origin' = Append(origin, m)
             /\ origin' \in Seq(Nat) /\ Len(origin') = id
             /\ origin'[id] = m /\ \A i \in 1 .. Len(origin) : origin'[i] = origin[i]
             /\ \E e : /\ job' = [job EXCEPT ![w] = [pc |-> "persist", event |-> e]]
                       /\ Complete(e, accepted[m]) /\ e.id = id
<1> DEFINE m == Current(w).id
           id == Len(origin) + 1
           done == Processed(accepted[m], id)
<1>1. /\ w[2] \in Partitions /\ cur[w] + 1 \in 1 .. Len(log[w[2]]) /\ TypeOK
      /\ w \in DOMAIN job /\ "pc" \in DOMAIN job[w]
  <2>1. TypeOK /\ Available(w)
    BY DEF IInv, Cursors, CursorOf, CurInLog, RunStages
  <2> QED
    BY <2>1, CellOfType DEF TypeOK, Available, GivesUpNothing, Succeeding
<1>2. /\ m \in 1 .. Len(accepted) /\ m \in Nat /\ accepted[m] \in AcceptedEvent
      /\ m = log[w[2]][cur[w] + 1].id
  <2>1. m = log[w[2]][cur[w] + 1].id
    BY <1>1 DEF TypeOK, Current, Message
  <2>2. m \in 1 .. Len(accepted) /\ Len(accepted) \in Nat
    BY <1>1, <2>1 DEF Tracked
  <2> QED
    BY <2>1, <2>2 DEF Tracked
<1>3. Valid(accepted[m].request)
  BY <1>2 DEF AcceptedEvent
<1>4. /\ job' = [job EXCEPT ![w] = [pc |-> "persist", event |-> done]]
      /\ origin' = Append(origin, m)
  BY <1>3 DEF RunStages
<1>5. Complete(done, accepted[m]) /\ done.id = id
  BY <1>3 DEF Complete, Processed
<1> HIDE DEF done, m
<1>6. /\ Len(origin) \in Nat /\ origin' \in Seq(Nat) /\ Len(origin') = id
      /\ origin'[id] = m /\ \A i \in 1 .. Len(origin) : origin'[i] = origin[i]
  BY <1>2, <1>4 DEF AllComplete, Origins
<1> QED
  BY <1>2, <1>4, <1>5, <1>6 DEF m

LEMMA RunComplete ==
  ASSUME IInv, Tracked, GivesUpNothing, AllComplete, NEW w \in Workers, RunStages(w)
  PROVE  AllComplete'
<1> DEFINE m == Current(w).id
           id == Len(origin) + 1
<1>1. w \in DOMAIN job /\ primary' = primary /\ accepted' = accepted
  BY DEF GivesUpNothing, Succeeding, RunStages, storeVars
<1>2. m \in 1 .. Len(accepted) /\ accepted \in Seq(AcceptedEvent)
  BY RunStep DEF Tracked
<1>3. PICK done : /\ job' = [job EXCEPT ![w] = [pc |-> "persist", event |-> done]]
                  /\ Complete(done, accepted[m]) /\ done.id = id
  BY RunStep
<1>4. origin' = Append(origin, m) /\ primary' = primary /\ accepted' = accepted
  BY <1>1, RunStep
<1>5. /\ Len(origin) \in Nat /\ origin' \in Seq(Nat) /\ Len(origin') = id
      /\ origin'[id] = m /\ \A i \in 1 .. Len(origin) : origin'[i] = origin[i]
  BY RunStep
<1> HIDE DEF m
<1>6. Origins(origin', accepted)
  <2>0. \A i \in 1 .. Len(origin) : origin'[i] \in 1 .. Len(accepted)
    BY <1>5 DEF AllComplete, Origins
  <2>1. ASSUME NEW i \in 1 .. Len(origin') PROVE origin'[i] \in 1 .. Len(accepted)
    <3>1. i = id \/ i \in 1 .. Len(origin)
      BY <1>5, <2>1
    <3> HIDE DEF id
    <3> QED
      BY <1>2, <1>5, <2>0, <3>1
  <2> QED
    BY <1>5, <2>1 DEF Origins
<1>7. OfRequest(origin', accepted, id, done)
  BY <1>3, <1>5 DEF OfRequest
<1>8. ASSUME NEW i, NEW e, OfRequest(origin, accepted, i, e)
      PROVE  OfRequest(origin', accepted, i, e)
  BY <1>2, <1>4, <1>8, Extended DEF AllComplete
<1>9. ASSUME NEW v \in Workers, job'[v].pc = "persist"
       PROVE  OfRequest(origin', accepted, job'[v].event.id, job'[v].event)
  <2>1. CASE v = w
    <3>1. job'[v].event = done
      BY <1>1, <1>3, <2>1
    <3> QED  BY <1>3, <1>7, <3>1
  <2>2. CASE v # w
    <3>1. job'[v] = job[v]
      BY <1>3, <2>2
    <3> QED  BY <1>8, <1>9, <3>1 DEF AllComplete
  <2> QED  BY <2>1, <2>2
<1>10. \A i \in DOMAIN primary : OfRequest(origin', accepted, i, primary[i])
  BY <1>8 DEF AllComplete
<1> QED
  BY <1>4, <1>6, <1>9, <1>10 DEF AllComplete

LEMMA AllCompleteStep ==
  IInv /\ Tracked /\ GivesUpNothing /\ AllComplete /\ [EngineNext]_allVars => AllComplete'
<1> SUFFICES ASSUME IInv, Tracked, GivesUpNothing, AllComplete, [EngineNext]_allVars
             PROVE  AllComplete'
  OBVIOUS
<1>0. \A w \in Workers : w \in DOMAIN job /\ "pc" \in DOMAIN job[w]
  BY DEF GivesUpNothing, Succeeding
<1>1. ASSUME UNCHANGED <<primary, job, origin, accepted>> PROVE AllComplete'
  BY <1>1 DEF AllComplete
<1>2. ASSUME NEW w \in Workers, Persist(w) PROVE AllComplete'
  <2>1. /\ OfRequest(origin, accepted, job[w].event.id, job[w].event)
        /\ job' = [job EXCEPT ![w].pc = "done"]
        /\ UNCHANGED <<origin, accepted>>
    BY <1>2 DEF Persist, AllComplete
  <2>2. \A v \in Workers : job'[v].pc = "persist" => job'[v] = job[v]
    BY <1>0, <2>1
  <2>3. \A id \in DOMAIN primary' :
          primary'[id] = IF id = job[w].event.id THEN job[w].event ELSE primary[id]
    BY <1>2 DEF Persist, Store!Put
  <2>4. \A id \in DOMAIN primary' : id = job[w].event.id \/ id \in DOMAIN primary
    BY <1>2 DEF Persist, Store!Put, Store!Present
  <2>5. \A id \in DOMAIN primary' : OfRequest(origin, accepted, id, primary'[id])
    BY <2>1, <2>3, <2>4 DEF AllComplete
  <2> QED  BY <2>1, <2>2, <2>5 DEF AllComplete
<1>3. ASSUME NEW w \in Workers, HandlerReturn(w) PROVE AllComplete'
  <2>1. UNCHANGED <<primary, origin, accepted>> /\ job' = [job EXCEPT ![w] = Ready]
    BY <1>3 DEF HandlerReturn, storeVars, historyVars
  <2>2. \A v \in Workers : job'[v].pc = "persist" => job'[v] = job[v]
    BY <1>0, <2>1 DEF Ready
  <2> QED  BY <2>1, <2>2 DEF AllComplete
<1>4. ASSUME UNCHANGED <<job, origin, accepted>>, DOMAIN primary' \subseteq DOMAIN primary,
             \A id \in DOMAIN primary' : primary'[id] = primary[id]
      PROVE  AllComplete'
  BY <1>4 DEF AllComplete
<1>5. ASSUME NEW id \in Ids, DeleteEvent(id) PROVE AllComplete'
  BY <1>4, <1>5 DEF DeleteEvent, Store!Delete, Store!Present, engineVars
<1>6. CASE Evicting
  <2>1. UNCHANGED <<job, origin, accepted>>
    BY <1>6 DEF Evicting, historyVars
  <2>2. DOMAIN primary' \subseteq DOMAIN primary
          /\ \A id \in DOMAIN primary' : primary'[id] = primary[id]
    BY <1>6 DEF Evicting, Store!EvictStart, Store!EvictExpired, Store!Present
  <2> QED  BY <1>4, <2>1, <2>2
<1>7. ASSUME NEW w \in Workers, BrokerLoop(w) PROVE AllComplete'
  BY <1>1, <1>7 DEF BrokerLoop, storeVars, engineVars, historyVars
<1>8. ASSUME NEW u \in Publishers, Publishing(u) \/ CountPublished(u) PROVE AllComplete'
  BY <1>1, <1>8 DEF Publishing, CountPublished, storeVars, historyVars
<1>9. ASSUME (\E s \in Subscriptions : Subscribing(s)) \/ CountEvicted \/ Time
             \/ UNCHANGED allVars
      PROVE  AllComplete'
  BY <1>1, <1>9 DEF Subscribing, CountEvicted, Time, Store!Tick, allVars, storeVars, engineVars, historyVars
<1> QED
  BY <1>2, <1>3, <1>5, <1>6, <1>7, <1>8, <1>9, CreateComplete, RunComplete DEF EngineNext, Handle

LEMMA EngineInvariance == EngineSpec => [](IInv /\ Tracked /\ GivesUpNothing /\ AllComplete)
<1>1. EngineInit => Tracked /\ GivesUpNothing /\ AllComplete
  <2> SUFFICES ASSUME EngineInit PROVE Tracked /\ GivesUpNothing /\ AllComplete
    OBVIOUS
  <2>1. Tracked
    BY DEF EngineInit, Init, Store!Init, Tracked
  <2>2. GivesUpNothing
    BY DEF EngineInit, Init, Ready, GivesUpNothing, Succeeding, NoDeadLetters
  <2>3. AllComplete
    BY DEF EngineInit, Store!Init, Ready, AllComplete, Origins
  <2> QED  BY <2>1, <2>2, <2>3
<1>2. EngineSpec => []IInv
  BY EngineImplementsBroker, Invariance, PTL
<1>3. IInv => TypeOK
  BY DEF IInv
<1> QED
  BY <1>1, <1>2, <1>3, TrackedStep, GivesUpNothingStep, AllCompleteStep, PTL DEF EngineSpec

\* What a reader finds in the store is complete: the category that was posted,
\* the tier of its score and a lifetime that began when it was accepted.
THEOREM OnlyCompleteStored == EngineSpec => []StoredComplete
<1>1. AllComplete => StoredComplete
  BY DEF AllComplete, OfRequest, Complete, StoredComplete
<1> QED
  BY <1>1, EngineInvariance, PTL

-----------------------------------------------------------------------------
(* The counter of published events.                                        *)

CounterNames == {"published", "runs", "processed", "failed", "expired"}

\* events.published lags the broker's counter by the requests about to count,
\* and such a request is not publishing.
PublishBooks ==
  /\ DOMAIN counters = CounterNames
  /\ counters.published \in Int /\ publishCount \in Int
  /\ IsFiniteSet(uncounted)
  /\ DOMAIN ppc = Publishers
  /\ uncounted \subseteq Publishers
  /\ \A u \in uncounted : ppc[u] = "idle"
  /\ counters.published + Cardinality(uncounted) = publishCount

LEMMA PublishBooksStep == PublishBooks /\ [EngineNext]_allVars => PublishBooks'
<1> SUFFICES ASSUME PublishBooks, [EngineNext]_allVars PROVE PublishBooks'
  OBVIOUS
<1> USE DEF PublishBooks, CounterNames
<1>1. ASSUME UNCHANGED <<uncounted, publishCount, ppc>>, DOMAIN counters' = DOMAIN counters,
             counters'.published = counters.published
      PROVE  PublishBooks'
  BY <1>1
<1>2. ASSUME NEW u \in Publishers, NEW r \in Requests, CreateEvent(u, r) PROVE PublishBooks'
  BY <1>2 DEF CreateEvent, PublishBegin
<1>3. ASSUME NEW u \in Publishers, Publishing(u) PROVE PublishBooks'
  <2>1. CASE PublishAppend(u) /\ UNCHANGED uncounted
    BY <2>1, <1>3 DEF PublishAppend, Publishing
  <2>2. CASE PublishCount(u) /\ uncounted' = uncounted \union {u}
    <3>1. /\ ppc[u] = "count" /\ ppc' = [ppc EXCEPT ![u] = "idle"]
          /\ publishCount' = publishCount + 1 /\ counters' = counters
      BY <2>2, <1>3 DEF PublishCount, Publishing
    <3>2. u \notin uncounted
      BY <3>1
    <3>3. IsFiniteSet(uncounted') /\ Cardinality(uncounted') = Cardinality(uncounted) + 1
            /\ Cardinality(uncounted) \in Nat
      BY <3>2, <2>2, FS_AddElement, FS_CardinalityType
    <3> QED  BY <3>1, <3>3, <2>2
  <2> QED  BY <2>1, <2>2, <1>3 DEF Publishing
<1>4. ASSUME NEW u \in Publishers, CountPublished(u) PROVE PublishBooks'
  <2>1. /\ u \in uncounted /\ uncounted' = uncounted \ {u}
        /\ counters' = [counters EXCEPT !.published = @ + 1]
        /\ UNCHANGED <<publishCount, ppc>>
    BY <1>4 DEF CountPublished, vars, publisherVars
  <2>2. IsFiniteSet(uncounted') /\ Cardinality(uncounted') = Cardinality(uncounted) - 1
          /\ Cardinality(uncounted) \in Nat
    BY <2>1, FS_RemoveElement, FS_CardinalityType
  <2>3. counters'.published = counters.published + 1 /\ DOMAIN counters' = CounterNames
    BY <2>1
  <2> QED  BY <2>1, <2>2, <2>3
<1>5. ASSUME NEW w \in Workers, BrokerLoop(w) \/ Handle(w) PROVE PublishBooks'
  <2>1. CASE BrokerLoop(w)
    BY <2>1, <1>1 DEF BrokerLoop, engineVars, publisherVars, Register, GetOffset, GetHit,
         GetMiss, Wake, Stop, DeadLetter, Commit
  <2>2. CASE RunStages(w)
    <3>1. UNCHANGED <<uncounted, publishCount, ppc>>
            /\ counters' = [counters EXCEPT !.runs = @ + 1]
      BY <2>2 DEF RunStages, vars, publisherVars
    <3> QED  BY <3>1, <1>1
  <2>3. CASE Persist(w)
    BY <2>3, <1>1 DEF Persist, vars, publisherVars
  <2>4. CASE HandlerReturn(w)
    <3>1. UNCHANGED <<uncounted, publishCount, ppc>>
      BY <2>4 DEF HandlerReturn, HandlerOk, HandlerErr, publisherVars
    <3>2. \/ counters' = [counters EXCEPT !.processed = @ + 1]
          \/ counters' = [counters EXCEPT !.failed = @ + 1]
      BY <2>4 DEF HandlerReturn
    <3> QED  BY <3>1, <3>2, <1>1
  <2> QED  BY <2>1, <2>2, <2>3, <2>4, <1>5 DEF Handle
<1>6. ASSUME NEW s \in Subscriptions, Subscribing(s) PROVE PublishBooks'
  BY <1>6, <1>1 DEF Subscribing, Subscribe, Cancel, engineVars, publisherVars
<1>7. ASSUME NEW id \in Ids, DeleteEvent(id) PROVE PublishBooks'
  BY <1>7, <1>1 DEF DeleteEvent, engineVars, vars, publisherVars
<1>8. CASE Evicting \/ Time \/ UNCHANGED allVars
  BY <1>8, <1>1 DEF Evicting, Time, allVars, engineVars, vars, publisherVars
<1>9. CASE CountEvicted
  <2>1. UNCHANGED <<uncounted, publishCount, ppc>>
          /\ counters' = [counters EXCEPT !.expired = @ + evicted]
    BY <1>9 DEF CountEvicted, vars, publisherVars
  <2> QED  BY <2>1, <1>1
<1> QED  BY <1>2, <1>3, <1>4, <1>5, <1>6, <1>7, <1>8, <1>9 DEF EngineNext

-----------------------------------------------------------------------------
(* The books of the pipeline and of the store.                             *)

UnderWay == {w \in Workers : job[w].pc # "start"}
Saving == {w \in Workers : job[w].pc = "persist"}
Finished == {w \in Workers : job[w].pc = "done"}

\* The steps that touch nothing those books are about.
Elsewhere ==
  /\ UNCHANGED <<primary, job, evicted, historyVars>>
  /\ DOMAIN counters' = DOMAIN counters
  /\ counters'.runs = counters.runs /\ counters'.processed = counters.processed
  /\ counters'.failed = counters.failed /\ counters'.expired = counters.expired

LEMMA KindsOfStep ==
  ASSUME DOMAIN counters = CounterNames, [EngineNext]_allVars
  PROVE  \/ \E w \in Workers : Handle(w)
         \/ \E id \in Ids : DeleteEvent(id)
         \/ Evicting \/ CountEvicted \/ Elsewhere
<1>1. ASSUME NEW u \in Publishers,
             Publishing(u) \/ CountPublished(u) \/ \E r \in Requests : CreateEvent(u, r)
      PROVE  Elsewhere
  BY <1>1 DEF Publishing, CountPublished, CreateEvent, Elsewhere, CounterNames, storeVars
<1>2. ASSUME NEW w \in Workers, BrokerLoop(w) PROVE Elsewhere
  BY <1>2 DEF BrokerLoop, Elsewhere, storeVars, engineVars
<1>3. ASSUME (\E s \in Subscriptions : Subscribing(s)) \/ Time \/ UNCHANGED allVars
      PROVE  Elsewhere
  BY <1>3 DEF Subscribing, Time, Store!Tick, Elsewhere, allVars, storeVars, engineVars
<1> QED
  BY <1>1, <1>2, <1>3 DEF EngineNext

\* Every run of the pipeline is under way, processed or failed.
RunBooks ==
  /\ DOMAIN counters = CounterNames
  /\ counters.runs \in Int /\ counters.processed \in Int /\ counters.failed \in Int
  /\ IsFiniteSet(UnderWay)
  /\ counters.runs = counters.processed + counters.failed + Cardinality(UnderWay)

LEMMA RunBooksStep ==
  IInv /\ Tracked /\ GivesUpNothing /\ AllComplete /\ RunBooks /\ [EngineNext]_allVars
    => RunBooks'
<1> SUFFICES ASSUME IInv, Tracked, GivesUpNothing, AllComplete, RunBooks, [EngineNext]_allVars
             PROVE  RunBooks'
  OBVIOUS
<1>0. /\ \A w \in Workers : w \in DOMAIN job /\ "pc" \in DOMAIN job[w]
      /\ Workers' = Workers /\ Cardinality(UnderWay) \in Nat
  BY FS_CardinalityType DEF GivesUpNothing, Succeeding, RunBooks, Workers, Partitions
<1>1. ASSUME NEW w \in Workers, RunStages(w) PROVE RunBooks'
  <2>1. PICK e : job' = [job EXCEPT ![w] = [pc |-> "persist", event |-> e]]
    BY <1>1, RunStep
  <2>2. job[w].pc = "start" /\ counters' = [counters EXCEPT !.runs = @ + 1]
    BY <1>1 DEF RunStages, Ready
  <2>3. UnderWay' = UnderWay \cup {w} /\ w \notin UnderWay
    BY <1>0, <2>1, <2>2 DEF UnderWay
  <2>4. IsFiniteSet(UnderWay') /\ Cardinality(UnderWay') = Cardinality(UnderWay) + 1
    BY <2>3, FS_AddElement DEF RunBooks
  <2> QED
    BY <1>0, <2>2, <2>4 DEF RunBooks, CounterNames
<1>2. ASSUME NEW w \in Workers, Persist(w) PROVE RunBooks'
  <2>1. job[w].pc = "persist" /\ job' = [job EXCEPT ![w].pc = "done"] /\ counters' = counters
    BY <1>2 DEF Persist
  <2>2. UnderWay' = UnderWay
    BY <1>0, <2>1 DEF UnderWay
  <2> QED
    BY <2>1, <2>2 DEF RunBooks
<1>3. ASSUME NEW w \in Workers, HandlerReturn(w) PROVE RunBooks'
  <2>1. /\ job[w].pc # "start" /\ job' = [job EXCEPT ![w] = Ready]
        /\ \/ counters' = [counters EXCEPT !.processed = @ + 1]
           \/ counters' = [counters EXCEPT !.failed = @ + 1]
    BY <1>3 DEF HandlerReturn
  <2>2. UnderWay' = UnderWay \ {w} /\ w \in UnderWay
    BY <1>0, <2>1 DEF UnderWay, Ready
  <2>3. IsFiniteSet(UnderWay') /\ Cardinality(UnderWay') = Cardinality(UnderWay) - 1
    BY <2>2, FS_RemoveElement DEF RunBooks
  <2> QED
    BY <1>0, <2>1, <2>3 DEF RunBooks, CounterNames
<1>4. ASSUME (\E id \in Ids : DeleteEvent(id)) \/ Evicting \/ CountEvicted \/ Elsewhere
      PROVE  RunBooks'
  <2>1. CASE (\E id \in Ids : DeleteEvent(id)) \/ Evicting
    BY <2>1 DEF DeleteEvent, Evicting, engineVars, RunBooks, UnderWay, Workers, Partitions
  <2>2. CASE CountEvicted
    <3>1. job' = job /\ counters' = [counters EXCEPT !.expired = @ + evicted]
      BY <2>2 DEF CountEvicted
    <3> QED
      BY <1>0, <3>1 DEF RunBooks, CounterNames, UnderWay
  <2>3. CASE Elsewhere
    BY <1>0, <2>3 DEF Elsewhere, RunBooks, UnderWay
  <2> QED
    BY <1>4, <2>1, <2>2, <2>3
<1> QED
  BY <1>1, <1>2, <1>3, <1>4, KindsOfStep DEF RunBooks, Handle

\* Every event that was processed is in the store, deleted or evicted, up to
\* the events just put and the eviction just made.  No id is put twice: those on
\* their way to the store were never there, and are each other's unlike.
StockBooks ==
  /\ counters.expired \in Int /\ evicted \in Int /\ deletes \in Int
  /\ puts \subseteq 1 .. Len(origin)
  /\ IsFiniteSet(DOMAIN primary) /\ DOMAIN primary \subseteq puts
  /\ \A w \in Saving : job[w].event.id \notin puts
  /\ \A v, w \in Saving : job[v].event.id = job[w].event.id => v = w
  /\ IsFiniteSet(Finished)
  /\ Cardinality(DOMAIN primary) + deletes + counters.expired + evicted
       = counters.processed + Cardinality(Finished)

\* The steps of the handler, one by one.
LEMMA StockRun ==
  ASSUME IInv, Tracked, GivesUpNothing, AllComplete, RunBooks, StockBooks,
         NEW w \in Workers, RunStages(w)
  PROVE  StockBooks'
<1> DEFINE id == Len(origin) + 1
<1>0. \A v \in Workers : v \in DOMAIN job /\ "pc" \in DOMAIN job[v]
  BY DEF GivesUpNothing, Succeeding
<1>1. PICK e : job' = [job EXCEPT ![w] = [pc |-> "persist", event |-> e]] /\ e.id = id
  BY RunStep
<1>2. Len(origin) \in Nat /\ Len(origin') = id
  BY RunStep
<1>3. /\ job[w].pc = "start" /\ counters' = [counters EXCEPT !.runs = @ + 1]
      /\ UNCHANGED <<primary, evicted, puts, deletes>>
  BY DEF RunStages, Ready, storeVars
<1>4. Finished' = Finished
  BY <1>0, <1>1, <1>3 DEF Finished, Workers, Partitions
<1>5. \A v \in Saving' : IF v = w THEN job'[v].event.id = id
                                  ELSE v \in Saving /\ job'[v] = job[v]
  BY <1>0, <1>1 DEF Saving, Workers, Partitions
<1>6. \A v \in Saving : job[v].event.id \in 1 .. Len(origin)
  BY DEF AllComplete, OfRequest, Saving
<1>7. puts' \subseteq 1 .. Len(origin') /\ id \notin puts /\ id \notin 1 .. Len(origin)
  BY <1>2, <1>3 DEF StockBooks
<1>8. counters'.expired = counters.expired /\ counters'.processed = counters.processed
  BY <1>3 DEF RunBooks, CounterNames
<1> HIDE DEF id
<1>9. \A v \in Saving' : job'[v].event.id \notin puts
  BY <1>5, <1>7 DEF StockBooks
<1>10. \A u, v \in Saving' : job'[u].event.id = job'[v].event.id => u = v
  BY <1>5, <1>6, <1>7 DEF StockBooks
<1> QED
  BY <1>3, <1>4, <1>7, <1>8, <1>9, <1>10 DEF StockBooks

LEMMA StockPersist ==
  ASSUME GivesUpNothing, AllComplete, RunBooks, StockBooks, NEW w \in Workers, Persist(w)
  PROVE  StockBooks'
<1> DEFINE id == job[w].event.id
<1>0. \A v \in Workers : v \in DOMAIN job /\ "pc" \in DOMAIN job[v]
  BY DEF GivesUpNothing, Succeeding
<1>1. /\ w \in Saving /\ job' = [job EXCEPT ![w].pc = "done"] /\ puts' = puts \cup {id}
      /\ DOMAIN primary' = DOMAIN primary \cup {id}
      /\ UNCHANGED <<counters, evicted, origin, deletes>>
  BY DEF Persist, Saving, Store!Put, Store!Present
<1>2. id \in 1 .. Len(origin) /\ id \notin puts /\ id \notin DOMAIN primary
  BY <1>1 DEF StockBooks, AllComplete, OfRequest, Saving
<1>3. Finished' = Finished \cup {w} /\ w \notin Finished
  BY <1>0, <1>1 DEF Finished, Saving, Workers, Partitions
<1>4. \A v \in Saving' : v # w /\ v \in Saving /\ job'[v] = job[v]
  BY <1>0, <1>1 DEF Saving, Workers, Partitions
<1>5. \A v \in Saving' : job'[v].event.id \notin puts'
  BY <1>1, <1>4 DEF StockBooks
<1>6. \A u, v \in Saving' : job'[u].event.id = job'[v].event.id => u = v
  BY <1>4 DEF StockBooks
<1> HIDE DEF id
<1>7. /\ IsFiniteSet(Finished') /\ Cardinality(Finished') = Cardinality(Finished) + 1
      /\ Cardinality(Finished) \in Nat
  BY <1>3, FS_AddElement, FS_CardinalityType DEF StockBooks
<1>8. /\ IsFiniteSet(DOMAIN primary')
      /\ Cardinality(DOMAIN primary') = Cardinality(DOMAIN primary) + 1
      /\ Cardinality(DOMAIN primary) \in Nat
  <2>1. IsFiniteSet(DOMAIN primary)
    BY DEF StockBooks
  <2> QED
    BY <1>1, <1>2, <2>1, FS_AddElement, FS_CardinalityType
<1>9. puts' \subseteq 1 .. Len(origin') /\ DOMAIN primary' \subseteq puts'
  BY <1>1, <1>2 DEF StockBooks
<1>10. /\ counters'.expired \in Int /\ evicted' \in Int /\ deletes' \in Int
       /\ Cardinality(DOMAIN primary') + deletes' + counters'.expired + evicted'
            = counters'.processed + Cardinality(Finished')
  <2>1. /\ counters.expired \in Int /\ evicted \in Int /\ deletes \in Int /\ counters.processed \in Int
        /\ Cardinality(DOMAIN primary) + deletes + counters.expired + evicted
             = counters.processed + Cardinality(Finished)
    BY DEF StockBooks, RunBooks
  <2> QED
    BY <1>1, <1>7, <1>8, <2>1
<1> QED
  BY <1>5, <1>6, <1>7, <1>8, <1>9, <1>10 DEF StockBooks

LEMMA StockReturn ==
  ASSUME GivesUpNothing, RunBooks, StockBooks, NEW w \in Workers, HandlerReturn(w)
  PROVE  StockBooks'
<1>0. \A v \in Workers : v \in DOMAIN job /\ "pc" \in DOMAIN job[v]
  BY DEF GivesUpNothing, Succeeding
<1>1. /\ w \in Finished /\ job' = [job EXCEPT ![w] = Ready]
      /\ counters' = [counters EXCEPT !.processed = @ + 1]
      /\ UNCHANGED <<primary, evicted, historyVars>>
  BY DEF HandlerReturn, Finished, GivesUpNothing, Succeeding, storeVars
<1>2. Finished' = Finished \ {w}
  BY <1>0, <1>1 DEF Finished, Ready, Workers, Partitions
<1>3. \A v \in Saving' : v \in Saving /\ job'[v] = job[v]
  BY <1>0, <1>1 DEF Saving, Ready, Workers, Partitions
<1>4. /\ IsFiniteSet(Finished') /\ Cardinality(Finished') = Cardinality(Finished) - 1
      /\ Cardinality(Finished) \in Nat
  BY <1>1, <1>2, FS_RemoveElement, FS_CardinalityType DEF StockBooks
<1>5. counters'.expired = counters.expired /\ counters'.processed = counters.processed + 1
  BY <1>1 DEF RunBooks, CounterNames
<1>6. Cardinality(DOMAIN primary) \in Nat
  BY FS_CardinalityType DEF StockBooks
<1>7. /\ counters'.expired \in Int /\ evicted' \in Int /\ deletes' \in Int
      /\ Cardinality(DOMAIN primary') + deletes' + counters'.expired + evicted'
           = counters'.processed + Cardinality(Finished')
  <2>1. /\ counters.expired \in Int /\ evicted \in Int /\ deletes \in Int /\ counters.processed \in Int
        /\ Cardinality(DOMAIN primary) + deletes + counters.expired + evicted
             = counters.processed + Cardinality(Finished)
    BY DEF StockBooks, RunBooks
  <2>2. UNCHANGED <<primary, evicted, deletes>>
    BY <1>1 DEF historyVars
  <2>3. DOMAIN primary' = DOMAIN primary /\ deletes' = deletes /\ evicted' = evicted
    BY <2>2
  <2>4. /\ counters'.expired = counters.expired /\ counters'.processed = counters.processed + 1
        /\ Cardinality(Finished') = Cardinality(Finished) - 1
        /\ Cardinality(Finished) \in Nat /\ Cardinality(DOMAIN primary) \in Nat
    BY <1>4, <1>5, <1>6
  <2> QED
    BY <2>1, <2>3, <2>4
<1>8. /\ \A v \in Saving' : job'[v].event.id \notin puts
      /\ \A u, v \in Saving' : job'[u].event.id = job'[v].event.id => u = v
  BY <1>3 DEF StockBooks
<1> QED
  BY <1>1, <1>4, <1>7, <1>8 DEF StockBooks, historyVars

\* What leaves the store is counted: by the API, or by the scheduler's job.
LEMMA StockLeaves ==
  ASSUME RunBooks, StockBooks,
         (\E id \in Ids : DeleteEvent(id)) \/ Evicting \/ CountEvicted \/ Elsewhere
  PROVE  StockBooks'
<1>1. /\ Cardinality(DOMAIN primary) \in Nat /\ Cardinality(Finished) \in Nat
      /\ counters.processed \in Int
  BY FS_CardinalityType DEF StockBooks, RunBooks
<1>2. job' = job => Saving' = Saving /\ Finished' = Finished
  BY DEF Saving, Finished, Workers, Partitions
<1>3. ASSUME NEW id \in Ids, DeleteEvent(id) PROVE StockBooks'
  <2>1. /\ id \in DOMAIN primary /\ DOMAIN primary' = DOMAIN primary \ {id}
        /\ deletes' = deletes + 1 /\ UNCHANGED <<job, counters, evicted, origin, puts>>
    BY <1>3 DEF DeleteEvent, Store!Delete, Store!Present, engineVars
  <2>2. /\ IsFiniteSet(DOMAIN primary')
        /\ Cardinality(DOMAIN primary') = Cardinality(DOMAIN primary) - 1
    BY <2>1, FS_RemoveElement DEF StockBooks
  <2> QED
    BY <1>1, <1>2, <2>1, <2>2 DEF StockBooks
<1>4. CASE Evicting
  <2>1. CASE Store!EvictStart /\ UNCHANGED evicted
    BY <1>2, <1>4, <2>1 DEF Evicting, Store!EvictStart, historyVars, StockBooks
  <2>2. CASE Store!EvictExpired
    <3>1. /\ evicted = 0 /\ evicted' = Cardinality(DOMAIN primary) - Cardinality(DOMAIN primary')
          /\ DOMAIN primary' \subseteq DOMAIN primary
          /\ UNCHANGED <<job, counters, historyVars>>
      BY <1>4, <2>2 DEF Evicting, Store!EvictStart, Store!EvictExpired, Store!Present
    <3>2. IsFiniteSet(DOMAIN primary') /\ Cardinality(DOMAIN primary') \in Nat
      BY <3>1, FS_Subset, FS_CardinalityType DEF StockBooks
    <3> QED
      BY <1>1, <1>2, <3>1, <3>2 DEF StockBooks, historyVars
  <2> QED
    BY <1>4, <2>1, <2>2 DEF Evicting
<1>5. CASE CountEvicted
  <2>1. /\ evicted' = 0 /\ counters' = [counters EXCEPT !.expired = @ + evicted]
        /\ UNCHANGED <<primary, job, historyVars>>
    BY <1>5 DEF CountEvicted, storeVars
  <2>2. counters'.expired = counters.expired + evicted /\ counters'.processed = counters.processed
    BY <2>1 DEF RunBooks, CounterNames
  <2> QED
    BY <1>1, <1>2, <2>1, <2>2 DEF StockBooks, historyVars
<1>6. CASE Elsewhere
  BY <1>2, <1>6 DEF Elsewhere, historyVars, StockBooks
<1> QED
  BY <1>3, <1>4, <1>5, <1>6

LEMMA StockBooksStep ==
  IInv /\ Tracked /\ GivesUpNothing /\ AllComplete /\ RunBooks /\ StockBooks
    /\ [EngineNext]_allVars => StockBooks'
  BY KindsOfStep, StockRun, StockPersist, StockReturn, StockLeaves DEF RunBooks, Handle

LEMMA BooksInit == EngineInit => PublishBooks /\ RunBooks /\ StockBooks
<1> SUFFICES ASSUME EngineInit PROVE PublishBooks /\ RunBooks /\ StockBooks
  OBVIOUS
<1>1. UnderWay = {} /\ Saving = {} /\ Finished = {}
  BY DEF EngineInit, Ready, UnderWay, Saving, Finished
<1>2. /\ counters = [published |-> 0, runs |-> 0, processed |-> 0, failed |-> 0, expired |-> 0]
      /\ uncounted = {} /\ evicted = 0 /\ deletes = 0 /\ puts = {} /\ DOMAIN primary = {}
  BY DEF EngineInit, Store!Init
<1>3. PublishBooks
  BY <1>2, FS_EmptySet DEF EngineInit, Init, PublishBooks, CounterNames
<1>4. RunBooks
  BY <1>1, <1>2, FS_EmptySet DEF RunBooks, CounterNames
<1>5. StockBooks
  BY <1>1, <1>2, FS_EmptySet DEF StockBooks
<1> QED
  BY <1>3, <1>4, <1>5

LEMMA BooksInvariance == EngineSpec => [](PublishBooks /\ RunBooks /\ StockBooks)
  BY EngineInvariance, BooksInit, PublishBooksStep, RunBooksStep, StockBooksStep, PTL DEF EngineSpec

\* The metrics add up at every moment, whatever is published, handled, deleted
\* and evicted at once: no event is lost between two counters or counted twice.
THEOREM BooksAlwaysBalance == EngineSpec => []BooksBalance
<1>1. PublishBooks /\ RunBooks /\ StockBooks => BooksBalance
  BY DEF PublishBooks, RunBooks, StockBooks, BooksBalance, UnderWay, Finished
<1> QED
  BY <1>1, BooksInvariance, PTL

-----------------------------------------------------------------------------
(* What is stored of a message.                                            *)

\* A handler at work has the message of its goroutine in hand, and what it has
\* put is in the history of the store.
InHand(w) ==
  job[w].pc # "start" =>
    /\ wpc[w] = "handle" /\ "event" \in DOMAIN job[w]
    /\ job[w].event.id \in 1 .. Len(origin)
    /\ origin[job[w].event.id] = IdAt(w[2], cur[w])
    /\ job[w].pc = "done" => job[w].event.id \in puts

\* What a goroutine has settled was put into the store.
SettledStored(w) == \A o \in SettledBy(w) : StoredFor(IdAt(w[2], o)) # {}

\* The goroutine w has run the stages on the message m: it has settled it, or
\* has it in hand.
RunOf(w, m) ==
  \E j \in 1 .. Len(log[w[2]]) :
    /\ log[w[2]][j].id = m
    /\ j - 1 \in SettledBy(w) \/ (job[w].pc # "start" /\ cur[w] = j - 1)

\* Every id was made by some goroutine, and no two for one message by the same.
Runners(by) ==
  /\ by \in [1 .. Len(origin) -> Workers]
  /\ \A i \in 1 .. Len(origin) : RunOf(by[i], origin[i])
  /\ \A i, j \in 1 .. Len(origin) : origin[i] = origin[j] /\ by[i] = by[j] => i = j

StoredInv ==
  /\ \A w \in Workers : InHand(w) /\ SettledStored(w)
  /\ \E by : Runners(by)

\* What the proofs below know of the state before a step.
Known ==
  /\ IInv /\ IdsUnique /\ Tracked /\ GivesUpNothing /\ AllComplete
  /\ puts \subseteq 1 .. Len(origin)

LEMMA SettledInLog ==
  ASSUME IInv, NEW w \in Workers, NEW o \in SettledBy(w)
  PROVE  o \in Nat /\ o + 1 \in 1 .. Len(log[w[2]])
<1>1. /\ TypeOK /\ CursorOf(w) /\ w[2] \in Partitions /\ CellOf(w) \in Cells
      /\ CellOf(w)[2] = w[2] /\ offsets[CellOf(w)] <= Len(log[w[2]])
  BY CellOfType DEF IInv, Cursors, NoMessageSkipped, CellOf
<1>2. /\ o \in Nat /\ cur[w] \in Nat /\ offsets[CellOf(w)] \in Nat /\ Len(log[w[2]]) \in Nat
      /\ wpc[w] \in WorkerPc
  BY <1>1, SettledByType DEF TypeOK
<1>3. o < Len(log[w[2]])
  BY <1>1, <1>2 DEF CursorOf, Available, WorkerPc
<1> QED
  BY <1>2, <1>3

\* Ids keep the message they were made for, and what was put was put.
LEMMA HistoryGrows ==
  ASSUME Known, [EngineNext]_allVars
  PROVE  /\ puts \subseteq puts'
         /\ \A i \in 1 .. Len(origin) : i \in 1 .. Len(origin') /\ origin'[i] = origin[i]
<1>1. ASSUME NEW w \in Workers, RunStages(w)
      PROVE  /\ puts' = puts
             /\ \A i \in 1 .. Len(origin) : i \in 1 .. Len(origin') /\ origin'[i] = origin[i]
  <2>1. puts' = puts
    BY <1>1 DEF RunStages
  <2>2. /\ Len(origin) \in Nat /\ Len(origin') = Len(origin) + 1
        /\ \A i \in 1 .. Len(origin) : origin'[i] = origin[i]
    BY <1>1, RunStep DEF Known
  <2> QED
    BY <2>1, <2>2
<1>2. ASSUME NEW w \in Workers, BrokerLoop(w) \/ Persist(w) \/ HandlerReturn(w)
      PROVE  origin' = origin /\ puts \subseteq puts'
  BY <1>2 DEF BrokerLoop, Persist, HandlerReturn, historyVars
<1>3. ASSUME NEW u \in Publishers,
             Publishing(u) \/ CountPublished(u) \/ \E r \in Requests : CreateEvent(u, r)
      PROVE  origin' = origin /\ puts' = puts
  BY <1>3 DEF Publishing, CountPublished, CreateEvent, historyVars
<1>4. ASSUME (\E s \in Subscriptions : Subscribing(s)) \/ (\E id \in Ids : DeleteEvent(id))
             \/ Evicting \/ CountEvicted \/ Time \/ UNCHANGED allVars
      PROVE  origin' = origin /\ puts' = puts
  BY <1>4 DEF Subscribing, DeleteEvent, Evicting, CountEvicted, Time, allVars, historyVars
<1> QED
  BY <1>1, <1>2, <1>3, <1>4 DEF EngineNext, Handle

\* What was put for a message of a log stays known as put for it.
LEMMA StoredStays ==
  ASSUME Known, [EngineNext]_allVars, NEW p \in Partitions, NEW o \in Nat,
         o + 1 \in 1 .. Len(log[p]), StoredFor(IdAt(p, o)) # {}
  PROVE  StoredFor(IdAt(p, o))' # {}
<1>1. IdAt(p, o)' = IdAt(p, o)
  BY EngineStepsAreBrokerSteps, LogKept DEF Known, IInv, IdAt
<1>2. PICK id \in puts : origin[id] = IdAt(p, o)
  BY DEF StoredFor
<1>3. id \in puts' /\ origin'[id] = origin[id]
  BY HistoryGrows DEF Known
<1> QED
  BY <1>1, <1>2, <1>3 DEF StoredFor

\* While its handler does not move, a goroutine keeps the message in hand.
LEMMA WorkStays ==
  ASSUME Known, [EngineNext]_allVars, NEW w \in Workers, ~Handle(w)
  PROVE  /\ job'[w] = job[w] /\ settled'[w] = settled[w]
         /\ wpc[w] = "handle" => wpc'[w] = "handle" /\ cur'[w] = cur[w]
<1>0. /\ TypeOK /\ \A v \in Workers : v \in DOMAIN job /\ job[v].pc # "failed" /\ wpc[v] # "dlq"
  BY DEF Known, IInv, GivesUpNothing, Succeeding
<1>1. ASSUME NEW v \in Workers, Handle(v)
      PROVE  job'[w] = job[w] /\ settled'[w] = settled[w] /\ wpc'[w] = wpc[w] /\ cur'[w] = cur[w]
  <2>0. v # w
    BY <1>1
  <2>1. CASE RunStages(v)
    BY <1>0, <2>0, <2>1 DEF RunStages, vars, workerVars
  <2>2. CASE Persist(v)
    BY <1>0, <2>0, <2>2 DEF Persist, vars, workerVars
  <2>3. CASE HandlerReturn(v)
    BY <1>0, <2>0, <2>3 DEF HandlerReturn, HandlerOk, Goto, TypeOK
  <2> QED
    BY <1>1, <2>1, <2>2, <2>3 DEF Handle
<1>2. ASSUME NEW v \in Workers, BrokerLoop(v)
      PROVE  /\ job' = job /\ settled' = settled
             /\ wpc[w] = "handle" => wpc'[w] = "handle" /\ cur'[w] = cur[w]
  BY <1>0, <1>2 DEF BrokerLoop, engineVars, Register, GetOffset, GetHit, GetMiss, Wake, Stop,
     DeadLetter, Commit, Goto, TypeOK
<1>3. ASSUME NEW s \in Subscriptions, Subscribing(s)
      PROVE  /\ job' = job /\ settled' = settled
             /\ wpc[w] = "handle" => wpc'[w] = "handle" /\ cur'[w] = cur[w]
  <2>1. CASE Cancel(s)
    BY <1>3, <2>1 DEF Subscribing, Cancel, engineVars, workerVars
  <2>2. CASE Subscribe(s)
    <3>1. w[1] = s => wpc[w] = "none"
      BY <2>2 DEF Subscribe, Workers
    <3> QED
      BY <1>0, <1>3, <2>2, <3>1 DEF Subscribing, Subscribe, engineVars
  <2> QED
    BY <1>3, <2>1, <2>2 DEF Subscribing
<1>4. ASSUME NEW u \in Publishers,
             Publishing(u) \/ CountPublished(u) \/ \E r \in Requests : CreateEvent(u, r)
      PROVE  UNCHANGED <<job, settled, wpc, cur>>
  BY <1>4 DEF Publishing, PublishAppend, PublishCount, CountPublished, CreateEvent, PublishBegin,
     vars, workerVars
<1>5. ASSUME (\E id \in Ids : DeleteEvent(id)) \/ Evicting \/ CountEvicted \/ Time
             \/ UNCHANGED allVars
      PROVE  UNCHANGED <<job, settled, wpc, cur>>
  BY <1>5 DEF DeleteEvent, Evicting, CountEvicted, Time, allVars, vars, engineVars, workerVars
<1> QED
  BY <1>1, <1>2, <1>3, <1>4, <1>5 DEF EngineNext

\* A handler that returns has put the event of the message it settles.
LEMMA ReturnStep ==
  ASSUME Known, NEW w \in Workers, HandlerReturn(w)
  PROVE  /\ job[w].pc = "done" /\ job'[w].pc = "start"
         /\ SettledBy(w)' = SettledBy(w) \cup {cur[w]}
<1>1. TypeOK /\ w \in DOMAIN job /\ job[w].pc \in {"start", "persist", "done"}
  BY DEF Known, IInv, GivesUpNothing, Succeeding
<1>2. job[w].pc = "done" /\ HandlerOk(w) /\ job' = [job EXCEPT ![w] = Ready]
  BY <1>1 DEF HandlerReturn
<1>3. settled' = [settled EXCEPT ![w] = Append(@, cur[w])]
  BY <1>2 DEF HandlerOk
<1> QED
  BY <1>1, <1>2, <1>3, SettledByGrows DEF Ready

LEMMA InHandStep ==
  ASSUME Known, [EngineNext]_allVars, NEW w \in Workers, InHand(w)
  PROVE  InHand(w)'
<1>0. /\ TypeOK /\ w[2] \in Partitions /\ w \in DOMAIN job /\ "pc" \in DOMAIN job[w]
      /\ (job[w].pc # "start" => Available(w))
  BY CellOfType DEF Known, IInv, Cursors, CursorOf, GivesUpNothing, Succeeding, InHand
<1>1. CASE RunStages(w)
  <2> DEFINE id == Len(origin) + 1
             m == Current(w).id
  <2>1. PICK e : job' = [job EXCEPT ![w] = [pc |-> "persist", event |-> e]] /\ e.id = id
    BY <1>1, RunStep DEF Known
  <2>2. /\ Len(origin) \in Nat /\ Len(origin') = id /\ origin'[id] = m
        /\ m = log[w[2]][cur[w] + 1].id
    BY <1>1, RunStep DEF Known
  <2>3. wpc' = wpc /\ cur' = cur /\ log' = log /\ wpc[w] = "handle"
    BY <1>1 DEF RunStages, vars, topicVars, workerVars
  <2>4. job'[w].pc = "persist" /\ job'[w].event = e /\ "event" \in DOMAIN job'[w]
    BY <1>0, <2>1
  <2> HIDE DEF m
  <2>5. id \in 1 .. id
    BY <2>2
  <2> QED
    BY <2>1, <2>2, <2>3, <2>4, <2>5 DEF InHand, IdAt
<1>2. CASE Persist(w)
  <2>1. /\ job'[w].pc = "done" /\ job'[w].event = job[w].event
        /\ "event" \in DOMAIN job'[w]
    <3>1. job[w].pc = "persist" /\ job' = [job EXCEPT ![w].pc = "done"]
      BY <1>2 DEF Persist
    <3> QED
      BY <1>0, <3>1 DEF InHand
  <2>2. job[w].pc = "persist" /\ puts' = puts \cup {job[w].event.id}
    BY <1>2 DEF Persist
  <2>3. UNCHANGED <<wpc, cur, log, origin>>
    BY <1>2 DEF Persist, vars, topicVars, workerVars
  <2> QED
    BY <2>1, <2>2, <2>3 DEF InHand, IdAt
<1>3. CASE HandlerReturn(w)
  BY <1>3, ReturnStep DEF InHand
<1>4. CASE ~Handle(w)
  <2>1. job'[w] = job[w]
    BY <1>4, WorkStays
  <2>2. CASE job[w].pc = "start"
    BY <2>1, <2>2 DEF InHand
  <2>3. CASE job[w].pc # "start"
    <3>1. wpc'[w] = "handle" /\ cur'[w] = cur[w]
      BY <1>4, <2>3, WorkStays DEF InHand
    <3>2. cur[w] + 1 \in 1 .. Len(log[w[2]])
      BY <1>0, <2>3 DEF Available, TypeOK
    <3>3. log'[w[2]][cur[w] + 1] = log[w[2]][cur[w] + 1]
      BY <1>0, <3>2, EngineStepsAreBrokerSteps, LogKept
    <3> QED
      BY <2>1, <2>3, <3>1, <3>3, HistoryGrows DEF InHand, IdAt
  <2> QED
    BY <2>2, <2>3
<1> QED
  BY <1>1, <1>2, <1>3, <1>4 DEF Handle

LEMMA SettledStoredStep ==
  ASSUME Known, [EngineNext]_allVars, NEW w \in Workers, InHand(w), SettledStored(w)
  PROVE  SettledStored(w)'
<1>0. w[2] \in Partitions /\ IInv
  BY CellOfType DEF Known
<1>1. ASSUME NEW o \in SettledBy(w) PROVE StoredFor(IdAt(w[2], o))' # {}
  BY <1>0, SettledInLog, StoredStays DEF SettledStored
<1>2. CASE HandlerReturn(w)
  <2>1. job[w].pc = "done" /\ SettledBy(w)' = SettledBy(w) \cup {cur[w]}
    BY <1>2, ReturnStep
  <2>2. StoredFor(IdAt(w[2], cur[w])) # {}
    <3>1. job[w].event.id \in puts /\ origin[job[w].event.id] = IdAt(w[2], cur[w])
      BY <2>1 DEF InHand
    <3> QED
      BY <3>1 DEF StoredFor
  <2>3. cur[w] \in Nat /\ cur[w] + 1 \in 1 .. Len(log[w[2]])
    BY <1>0, <2>1 DEF IInv, TypeOK, Cursors, CursorOf, InHand, Available
  <2>4. StoredFor(IdAt(w[2], cur[w]))' # {}
    <3> PICK o : o = cur[w]
      OBVIOUS
    <3>1. StoredFor(IdAt(w[2], o))' # {}
      BY <1>0, <2>2, <2>3, StoredStays
    <3>2. cur' = cur
      BY <1>2, <2>1 DEF HandlerReturn, HandlerOk
    <3> QED
      BY <3>1, <3>2 DEF IdAt
  <2>5. \A o \in SettledBy(w)' : StoredFor(IdAt(w[2], o))' # {}
    <3> PICK c : c = cur[w] /\ SettledBy(w)' = SettledBy(w) \cup {c}
      BY <2>1
    <3>1. cur' = cur
      BY <1>2, <2>1 DEF HandlerReturn, HandlerOk
    <3>2. StoredFor(IdAt(w[2], c))' # {}
      BY <2>4, <3>1 DEF IdAt
    <3> QED
      BY <1>1, <3>2
  <2> QED
    BY <2>5 DEF SettledStored
<1>3. CASE ~HandlerReturn(w)
  <2>1. settled'[w] = settled[w]
    <3>1. CASE RunStages(w) \/ Persist(w)
      BY <3>1 DEF RunStages, Persist, vars, workerVars
    <3>2. CASE ~Handle(w)
      BY <3>2, WorkStays
    <3> QED
      BY <1>3, <3>1, <3>2 DEF Handle
  <2>2. SettledBy(w)' = SettledBy(w)
    BY <2>1 DEF SettledBy
  <2> QED
    BY <1>1, <2>2 DEF SettledStored
<1> QED
  BY <1>2, <1>3

\* Who ran the stages on a message has done so.
LEMMA RunOfStays ==
  ASSUME Known, [EngineNext]_allVars, NEW w \in Workers, InHand(w), NEW m, RunOf(w, m)
  PROVE  RunOf(w, m)'
<1>0. TypeOK /\ w[2] \in Partitions /\ w \in DOMAIN job /\ "pc" \in DOMAIN job[w]
  BY CellOfType DEF Known, IInv, GivesUpNothing, Succeeding
<1>1. PICK j \in 1 .. Len(log[w[2]]) :
        /\ log[w[2]][j].id = m
        /\ j - 1 \in SettledBy(w) \/ (job[w].pc # "start" /\ cur[w] = j - 1)
  BY DEF RunOf
<1>2. j \in 1 .. Len(log'[w[2]]) /\ log'[w[2]][j].id = m
  BY <1>0, <1>1, EngineStepsAreBrokerSteps, LogKept
<1>3. CASE HandlerReturn(w)
  <2>1. j - 1 \in SettledBy(w)'
    BY <1>1, <1>3, ReturnStep
  <2> QED
    BY <1>2, <2>1 DEF RunOf
<1>4. CASE RunStages(w) \/ Persist(w)
  <2>1. UNCHANGED <<settled, cur>>
    BY <1>4 DEF RunStages, Persist, vars, workerVars
  <2>2. job'[w].pc # "start"
    <3>1. CASE RunStages(w)
      <4>1. \E e : job' = [job EXCEPT ![w] = [pc |-> "persist", event |-> e]]
        BY <3>1, RunStep DEF Known
      <4> QED
        BY <1>0, <4>1
    <3>2. CASE Persist(w)
      BY <1>0, <3>2 DEF Persist
    <3> QED
      BY <1>4, <3>1, <3>2
  <2> QED
    BY <1>1, <1>2, <2>1, <2>2 DEF RunOf, SettledBy
<1>5. CASE ~Handle(w)
  <2>1. job'[w] = job[w] /\ settled'[w] = settled[w]
        /\ (job[w].pc # "start" => cur'[w] = cur[w])
    BY <1>5, WorkStays DEF InHand
  <2>2. SettledBy(w)' = SettledBy(w)
    BY <2>1 DEF SettledBy
  <2> QED
    BY <1>1, <1>2, <2>1, <2>2 DEF RunOf
<1> QED
  BY <1>3, <1>4, <1>5 DEF Handle

\* The goroutine that makes an id has not run the stages on its message before:
\* what it has settled is behind its cursor, and it has no other run in hand.
LEMMA RunnersRun ==
  ASSUME Known, \A v \in Workers : InHand(v), NEW w \in Workers, RunStages(w),
         NEW by, Runners(by)
  PROVE  \E b : Runners(b)'
<1> PICK n, m, c : n = Len(origin) /\ m = Current(w).id /\ c = cur[w] + 1
  OBVIOUS
<1>1. /\ TypeOK /\ CursorOf(w) /\ Available(w) /\ w[2] \in Partitions
      /\ wpc[w] = "handle" /\ job[w].pc = "start"
      /\ w \in DOMAIN job /\ "pc" \in DOMAIN job[w] /\ IdsUnique
  BY CellOfType DEF Known, IInv, Cursors, CursorOf, RunStages, Ready, GivesUpNothing, Succeeding
<1>2. cur[w] \in Nat /\ c \in 1 .. Len(log[w[2]])
  BY <1>1 DEF Available, TypeOK
<1>3. /\ n \in Nat /\ m = log[w[2]][c].id
      /\ Len(origin') = n + 1 /\ origin'[n + 1] = m /\ \A i \in 1 .. n : origin'[i] = origin[i]
  BY RunStep DEF Known
<1>4. PICK e : job' = [job EXCEPT ![w] = [pc |-> "persist", event |-> e]]
  BY RunStep DEF Known
<1>5. UNCHANGED <<log, cur>> /\ [EngineNext]_allVars
  BY DEF RunStages, vars, topicVars, workerVars, EngineNext, Handle
<1>6. RunOf(w, origin[n + 1])'
  <2>1. job'[w].pc # "start"
    BY <1>1, <1>4
  <2>2. log'[w[2]][c].id = m /\ c \in 1 .. Len(log'[w[2]]) /\ cur'[w] = c - 1
    BY <1>2, <1>3, <1>5
  <2> QED
    BY <1>3, <2>1, <2>2 DEF RunOf
<1>7. ASSUME NEW i \in 1 .. n PROVE RunOf(by[i], origin[i])'
  <2> PICK x : x = origin[i]
    OBVIOUS
  <2>1. by[i] \in Workers /\ RunOf(by[i], x)
    BY DEF Runners
  <2>2. RunOf(by[i], x)'
    BY <1>5, <2>1, RunOfStays
  <2> QED
    BY <1>3, <2>2
<1>8. ASSUME NEW i \in 1 .. n, origin[i] = m, by[i] = w PROVE FALSE
  <2>1. RunOf(w, m)
    BY <1>8 DEF Runners
  <2>2. PICK j \in 1 .. Len(log[w[2]]) : log[w[2]][j].id = m /\ j - 1 \in SettledBy(w)
    BY <1>1, <2>1 DEF RunOf
  <2>3. j = c
    <3> PICK ids, len : ids = [k \in 1 .. len |-> log[w[2]][k].id] /\ len = Len(log[w[2]])
      OBVIOUS
    <3>1. \A k, l \in 1 .. len : ids[k] = ids[l] => k = l
      BY <1>1 DEF IdsUnique
    <3>2. j \in 1 .. len /\ ids[j] = m
      BY <2>2
    <3>3. c \in 1 .. len /\ ids[c] = m
      BY <1>2, <1>3
    <3> QED
      BY <3>1, <3>2, <3>3
  <2>4. cur[w] \in SettledBy(w)
    BY <1>2, <2>2, <2>3
  <2> QED
    BY <1>1, <1>2, <2>4 DEF CursorOf
<1> PICK b : b = [i \in 1 .. n + 1 |-> IF i = n + 1 THEN w ELSE by[i]]
  OBVIOUS
<1>9. /\ b \in [1 .. n + 1 -> Workers] /\ b[n + 1] = w
      /\ \A i \in 1 .. n : b[i] = by[i]
      /\ \A i \in 1 .. n + 1 : i = n + 1 \/ i \in 1 .. n
  BY <1>3 DEF Runners
<1>10. \A i \in 1 .. n + 1 : RunOf(b[i], origin[i])'
  BY <1>6, <1>7, <1>9
<1>11. ASSUME NEW i \in 1 .. n + 1, NEW j \in 1 .. n + 1, origin'[i] = origin'[j], b[i] = b[j]
       PROVE  i = j
  <2>1. CASE i \in 1 .. n /\ j \in 1 .. n
    BY <1>3, <1>9, <1>11, <2>1 DEF Runners
  <2>2. CASE i = n + 1 /\ j \in 1 .. n
    BY <1>3, <1>8, <1>9, <1>11, <2>2
  <2>3. CASE i \in 1 .. n /\ j = n + 1
    BY <1>3, <1>8, <1>9, <1>11, <2>3
  <2> QED
    BY <1>9, <2>1, <2>2, <2>3
<1>12. Runners(b)'
  BY <1>3, <1>9, <1>10, <1>11 DEF Runners, Workers, Partitions
<1> QED
  BY <1>12

LEMMA RunnersKept ==
  ASSUME Known, [EngineNext]_allVars, \A v \in Workers : InHand(v), origin' = origin,
         NEW by, Runners(by)
  PROVE  Runners(by)'
<1>1. ASSUME NEW i \in 1 .. Len(origin) PROVE RunOf(by[i], origin[i])'
  <2> PICK x : x = origin[i]
    OBVIOUS
  <2>1. by[i] \in Workers /\ RunOf(by[i], x)
    BY DEF Runners
  <2>2. RunOf(by[i], x)'
    BY <2>1, RunOfStays
  <2> QED
    BY <2>2
<1> QED
  BY <1>1 DEF Runners, Workers, Partitions

LEMMA StoredInvStep ==
  Known /\ StoredInv /\ [EngineNext]_allVars => StoredInv'
<1> SUFFICES ASSUME Known, StoredInv, [EngineNext]_allVars PROVE StoredInv'
  OBVIOUS
<1>1. \A w \in Workers : InHand(w)' /\ SettledStored(w)'
  BY InHandStep, SettledStoredStep DEF StoredInv
<1>2. PICK by : Runners(by)
  BY DEF StoredInv
<1>3. ASSUME NEW w \in Workers, RunStages(w) PROVE \E b : Runners(b)'
  BY <1>2, <1>3, RunnersRun DEF StoredInv
<1>4. ASSUME \A w \in Workers : ~RunStages(w) PROVE origin' = origin
  <2>1. ASSUME NEW w \in Workers, BrokerLoop(w) \/ Handle(w) PROVE origin' = origin
    BY <1>4, <2>1 DEF Handle, BrokerLoop, Persist, HandlerReturn, historyVars
  <2>2. ASSUME NEW u \in Publishers,
               Publishing(u) \/ CountPublished(u) \/ \E r \in Requests : CreateEvent(u, r)
        PROVE  origin' = origin
    BY <2>2 DEF Publishing, CountPublished, CreateEvent, historyVars
  <2>3. ASSUME (\E s \in Subscriptions : Subscribing(s)) \/ (\E id \in Ids : DeleteEvent(id))
               \/ Evicting \/ CountEvicted \/ Time \/ UNCHANGED allVars
        PROVE  origin' = origin
    BY <2>3 DEF Subscribing, DeleteEvent, Evicting, CountEvicted, Time, allVars, historyVars
  <2> QED
    BY <2>1, <2>2, <2>3 DEF EngineNext
<1>5. \E b : Runners(b)'
  BY <1>2, <1>3, <1>4, RunnersKept DEF StoredInv
<1> QED
  BY <1>1, <1>5 DEF StoredInv, Workers, Partitions

LEMMA StoredInvInit == EngineInit => StoredInv
<1> SUFFICES ASSUME EngineInit PROVE StoredInv
  OBVIOUS
<1>1. /\ origin = <<>>
      /\ \A w \in Workers : job[w].pc = "start" /\ settled[w] = <<>>
  BY DEF EngineInit, Init, Ready
<1>2. \A w \in Workers : InHand(w) /\ SettledStored(w)
  BY <1>1 DEF InHand, SettledStored, SettledBy
<1> DEFINE none == [i \in 1 .. 0 |-> CHOOSE w \in Workers : TRUE]
<1>3. Runners(none)
  BY <1>1 DEF Runners
<1> QED
  BY <1>2, <1>3 DEF StoredInv

\* No message is stored more often than goroutines of its partition can run the
\* stages on it: once per Subscribe call.
LEMMA StoredBounded ==
  ASSUME Known, IsFiniteSet(Subscriptions), NEW by, Runners(by), NEW m
  PROVE  Cardinality(StoredFor(m)) <= Cardinality(Subscriptions)
<1> DEFINE f == [i \in StoredFor(m) |-> by[i][1]]
<1>1. ASSUME NEW i \in StoredFor(m)
      PROVE  /\ i \in 1 .. Len(origin) /\ origin[i] = m /\ by[i] \in Workers
             /\ \E k \in 1 .. Len(log[by[i][2]]) : log[by[i][2]][k].id = m
  <2>1. i \in 1 .. Len(origin) /\ origin[i] = m
    BY DEF StoredFor, Known
  <2> QED
    BY <2>1 DEF Runners, RunOf
<1>2. ASSUME NEW i \in StoredFor(m), NEW j \in StoredFor(m), by[i][1] = by[j][1]
      PROVE  i = j
  <2> DEFINE p == by[i][2]
             q == by[j][2]
  <2>1. p \in Partitions /\ q \in Partitions
    BY <1>1, CellOfType
  <2>2. PICK k \in 1 .. Len(log[p]) : log[p][k].id = m
    BY <1>1
  <2>3. PICK l \in 1 .. Len(log[q]) : log[q][l].id = m
    BY <1>1
  <2> HIDE DEF p, q
  <2>4. p = q
    BY <2>1, <2>2, <2>3 DEF Known, IdsUnique
  <2>5. by[i] = by[j]
    BY <1>1, <1>2, <2>4 DEF p, q, Workers
  <2> QED
    BY <1>1, <2>5 DEF Runners
<1>3. \A i \in StoredFor(m) : by[i][1] \in Subscriptions
  BY <1>1 DEF Workers
<1>4. f \in Injection(StoredFor(m), Subscriptions)
  BY <1>2, <1>3 DEF Injection, IsInjective
<1> HIDE DEF f
<1> QED
  BY <1>4, FS_Injection

\* What a group has consumed is in the history of the store, and no message more
\* often than there are Subscribe calls, which are finitely many.
THEOREM StoredOncePerCall ==
  ASSUME IsFiniteSet(Subscriptions)
  PROVE  EngineSpec => []StoredPerMessage
<1>1. Known /\ StoredInv => StoredPerMessage
  <2> SUFFICES ASSUME Known, StoredInv, NEW c \in Cells, NEW o \in 0 .. Len(log[c[2]]) - 1
               PROVE  /\ o < offsets[c] => StoredFor(IdAt(c[2], o)) # {}
                      /\ Cardinality(StoredFor(IdAt(c[2], o))) <= Cardinality(Subscriptions)
    BY DEF StoredPerMessage
  <2>1. ASSUME o < offsets[c] PROVE StoredFor(IdAt(c[2], o)) # {}
    <3>1. offsets[c] \in Nat /\ o \in Nat
      BY DEF Known, IInv, TypeOK
    <3>2. o \in SettledIn(c)
      BY <2>1, <3>1 DEF Known, IInv, NoMessageSkipped
    <3>3. PICK w \in Workers : CellOf(w) = c /\ o \in SettledBy(w)
      BY <3>2 DEF SettledIn
    <3> QED
      BY <3>3 DEF StoredInv, SettledStored, CellOf
  <2>2. Cardinality(StoredFor(IdAt(c[2], o))) <= Cardinality(Subscriptions)
    BY StoredBounded DEF StoredInv
  <2> QED
    BY <2>1, <2>2
<1>2. StockBooks => puts \subseteq 1 .. Len(origin)
  BY DEF StockBooks
<1>3. EngineSpec => []Known
  <2>1. EngineSpec => []IdsUnique
    BY EngineImplementsBroker, IdsInvariance, PTL
  <2>2. IInv /\ Tracked /\ GivesUpNothing /\ AllComplete /\ IdsUnique /\ StockBooks => Known
    BY <1>2 DEF Known
  <2> QED
    BY <2>1, <2>2, EngineInvariance, BooksInvariance, PTL
<1> QED
  BY <1>1, <1>3, StoredInvInit, StoredInvStep, PTL DEF EngineSpec

-----------------------------------------------------------------------------
(* The life cycle of the server.                                           *)

\* What the life cycle adds never moves the engine but by its own steps.
LEMMA ServerStepsAreEngineSteps == [ServerNext]_serverVars => [EngineNext]_allVars
<1> SUFFICES ASSUME [ServerNext]_serverVars PROVE [EngineNext]_allVars
  OBVIOUS
<1>1. CASE UNCHANGED serverVars
  BY <1>1 DEF serverVars
<1>2. CASE StartJobs \/ BeginDrain \/ DrainDone \/ DrainTimeout \/ Exit
  BY <1>2 DEF StartJobs, BeginDrain, DrainDone, DrainTimeout, Exit
<1>3. CASE SubscribePipeline \/ Signal
  BY <1>3 DEF SubscribePipeline, Signal, EngineNext, Subscribing
<1>4. ASSUME NEW j \in Jobs, JobReady(j) \/ JobStop(j) \/ JobTick(j)
      PROVE  [EngineNext]_allVars
  BY <1>4 DEF JobReady, JobStop, JobTick
<1>5. ASSUME NEW j \in Jobs, JobBody(j) PROVE [EngineNext]_allVars
  BY <1>5 DEF JobBody, EngineNext
<1>6. CASE Request
  BY <1>6 DEF Request, EngineNext
<1>7. ASSUME NEW w \in Workers, Worker(w) PROVE [EngineNext]_allVars
  BY <1>7 DEF Worker, EngineNext
<1>8. CASE Passing
  BY <1>8 DEF Passing, EngineNext
<1> QED  BY <1>1, <1>2, <1>3, <1>4, <1>5, <1>6, <1>7, <1>8 DEF ServerNext

\* The process from start to exit is the engine, started, slowed down and cut
\* off: its broker, pipeline and store do nothing they do not do in Engine.
THEOREM ServerImplementsEngine == ServerSpec => EngineSpec
<1>1. ServerInit => EngineInit
  BY DEF ServerInit
<1> QED  BY <1>1, ServerStepsAreEngineSteps, PTL DEF ServerSpec, EngineSpec

-----------------------------------------------------------------------------
(* The end of the process.                                                 *)

\* The eviction is at rest unless its job is running, no job runs before main
\* has started it, the jobs are over at exit, and a drain that did not time out left no request behind.
LifeInv ==
  /\ DOMAIN phase = Jobs
  /\ phase[Eviction] # "body" => now = -1 /\ evicted = 0
  /\ main = "start" => \A j \in Jobs : phase[j] = "none"
  /\ main = "exited" => \A j \in Jobs : phase[j] = "over"
  /\ main \in {"waiting", "exited"} /\ ~timedOut => InFlight = {}
  /\ timedOut \in BOOLEAN

LEMMA LifeInit == ServerInit => LifeInv /\ PublishBooks
<1> SUFFICES ASSUME ServerInit PROVE LifeInv /\ PublishBooks
  OBVIOUS
<1>1. LifeInv
  BY DEF ServerInit, EngineInit, Store!Init, LifeInv, Jobs, Eviction
<1>2. PublishBooks
  BY BooksInit DEF ServerInit
<1> QED  BY <1>1, <1>2

\* Outside its job nothing touches the eviction, and the requests under way
\* are begun by CreateEvent alone.
LEMMA Undisturbed ==
  /\ \A u \in Publishers, r \in Requests : CreateEvent(u, r) => UNCHANGED <<now, evicted>>
  /\ \A u \in Publishers : Publishing(u) \/ CountPublished(u) =>
       UNCHANGED <<now, evicted>> /\ u \in InFlight
  /\ \A id \in Ids : DeleteEvent(id) => UNCHANGED <<now, evicted, ppc, uncounted>>
  /\ \A w \in Workers : BrokerLoop(w) \/ Handle(w) =>
       UNCHANGED <<now, evicted, ppc, uncounted>>
  /\ \A s \in Subscriptions : Subscribe(s) \/ Cancel(s) => UNCHANGED ppc
  /\ Time => UNCHANGED <<now, evicted, ppc, uncounted>>
  /\ Evicting \/ CountEvicted => UNCHANGED <<ppc, uncounted>>
<1>1. \A u \in Publishers, r \in Requests : CreateEvent(u, r) => UNCHANGED <<now, evicted>>
  BY DEF CreateEvent, storeVars
<1>2. \A u \in Publishers : Publishing(u) \/ CountPublished(u) =>
        UNCHANGED <<now, evicted>> /\ u \in InFlight
  BY DEF Publishing, CountPublished, PublishAppend, PublishCount, InFlight, storeVars
<1>3. \A id \in Ids : DeleteEvent(id) => UNCHANGED <<now, evicted, ppc, uncounted>>
  BY DEF DeleteEvent, Store!Delete, engineVars, vars, publisherVars
<1>4. ASSUME NEW w \in Workers, BrokerLoop(w) \/ Handle(w)
      PROVE  UNCHANGED <<now, evicted, ppc, uncounted>>
  <2>1. CASE BrokerLoop(w)
    BY <2>1 DEF BrokerLoop, storeVars, engineVars, publisherVars, Register, GetOffset,
         GetHit, GetMiss, Wake, Stop, DeadLetter, Commit
  <2>2. CASE RunStages(w)
    BY <2>2 DEF RunStages, storeVars, vars, publisherVars
  <2>3. CASE Persist(w)
    BY <2>3 DEF Persist, Store!Put, vars, publisherVars
  <2>4. CASE HandlerReturn(w)
    BY <2>4 DEF HandlerReturn, HandlerOk, HandlerErr, storeVars, publisherVars
  <2> QED  BY <2>1, <2>2, <2>3, <2>4, <1>4 DEF Handle
<1>5. \A s \in Subscriptions : Subscribe(s) \/ Cancel(s) => UNCHANGED ppc
  BY DEF Subscribe, Cancel, publisherVars
<1>6. Time => UNCHANGED <<now, evicted, ppc, uncounted>>
  BY DEF Time, Store!Tick, engineVars, vars, publisherVars
<1>7. Evicting \/ CountEvicted => UNCHANGED <<ppc, uncounted>>
  BY DEF Evicting, CountEvicted, vars, publisherVars
<1> QED  BY <1>1, <1>2, <1>3, <1>4, <1>5, <1>6, <1>7

LEMMA LifeStep == LifeInv /\ [ServerNext]_serverVars => LifeInv'
<1> SUFFICES ASSUME LifeInv, [ServerNext]_serverVars PROVE LifeInv'
  OBVIOUS
<1> USE DEF LifeInv, Jobs, Eviction
<1>1. CASE UNCHANGED serverVars
  BY <1>1 DEF serverVars, allVars, storeVars, engineVars, vars, publisherVars, InFlight
<1>2. ASSUME ServerNext PROVE main # "exited"
  BY <1>2 DEF ServerNext
<1>3. CASE ServerNext /\ (StartJobs \/ BeginDrain \/ DrainDone \/ DrainTimeout \/ Exit)
  <2>1. UNCHANGED <<now, evicted, ppc, uncounted>>
    BY <1>3 DEF StartJobs, BeginDrain, DrainDone, DrainTimeout, Exit, allVars, storeVars,
         engineVars, vars, publisherVars
  <2>2. InFlight' = InFlight
    BY <2>1 DEF InFlight
  <2>3. CASE StartJobs
    BY <1>2, <1>3, <2>1, <2>2, <2>3 DEF StartJobs
  <2>4. CASE BeginDrain
    BY <1>2, <1>3, <2>1, <2>2, <2>4 DEF BeginDrain
  <2>5. CASE DrainDone
    BY <1>2, <1>3, <2>1, <2>2, <2>5 DEF DrainDone
  <2>6. CASE DrainTimeout
    BY <1>2, <1>3, <2>1, <2>2, <2>6 DEF DrainTimeout
  <2>7. CASE Exit
    BY <1>2, <1>3, <2>1, <2>2, <2>7 DEF Exit
  <2> QED  BY <1>3, <2>3, <2>4, <2>5, <2>6, <2>7
<1>4. CASE ServerNext /\ (SubscribePipeline \/ Signal)
  <2>1. UNCHANGED <<now, evicted, ppc, uncounted, phase, timedOut>>
    BY <1>4, Undisturbed DEF SubscribePipeline, Signal, storeVars, engineVars
  <2>2. main' \in {main, "serving"}
    BY <1>4 DEF SubscribePipeline, Signal
  <2> QED  BY <1>2, <1>4, <2>1, <2>2 DEF InFlight
<1>5. ASSUME NEW j \in Jobs, ServerNext, JobReady(j) \/ JobStop(j) \/ JobTick(j)
      PROVE  LifeInv'
  BY <1>2, <1>5 DEF JobReady, JobStop, JobTick, Proceed, allVars, storeVars, engineVars, vars,
       publisherVars, InFlight
<1>6. ASSUME NEW j \in Jobs, ServerNext, JobBody(j) PROVE LifeInv'
  <2>1. CASE j = Eviction
    <3>1. UNCHANGED <<ppc, uncounted, main, timedOut>>
      BY <1>6, <2>1, Undisturbed DEF JobBody
    <3>2. IF evicted' = 0 /\ now' = -1 THEN phase' = [phase EXCEPT ![j] = "select"]
                                       ELSE phase' = phase
      BY <1>6, <2>1 DEF JobBody, Proceed
    <3>3. phase[j] = "body"
      BY <1>6 DEF JobBody
    <3> QED  BY <1>2, <1>6, <2>1, <3>1, <3>2, <3>3 DEF InFlight
  <2>2. CASE j # Eviction
    BY <1>2, <1>6, <2>2 DEF JobBody, Proceed, allVars, storeVars, engineVars, vars,
         publisherVars, InFlight
  <2> QED  BY <2>1, <2>2
<1>7. CASE ServerNext /\ Request
  <2>1. UNCHANGED <<main, phase, timedOut>>
    BY <1>7 DEF Request
  <2>2. UNCHANGED <<now, evicted>>
    BY <1>7, Undisturbed DEF Request
  <2>3. main = "waiting" /\ ~timedOut => InFlight' = {}
    <3>1. main = "waiting" /\ ~timedOut => ~Connected /\ InFlight = {}
      BY DEF Connected
    <3> QED  BY <3>1, <1>7, Undisturbed DEF Request
  <2> QED  BY <1>2, <1>7, <2>1, <2>2, <2>3
<1>8. ASSUME NEW w \in Workers, ServerNext, Worker(w) PROVE LifeInv'
  <2>1. UNCHANGED <<now, evicted, ppc, uncounted, main, phase, timedOut>>
    BY <1>8, Undisturbed DEF Worker
  <2> QED  BY <2>1 DEF InFlight
<1>9. CASE ServerNext /\ Passing
  <2>1. UNCHANGED <<now, evicted, ppc, uncounted, main, phase, timedOut>>
    BY <1>9, Undisturbed DEF Passing
  <2> QED  BY <2>1 DEF InFlight
<1> QED  BY <1>1, <1>3, <1>4, <1>5, <1>6, <1>7, <1>8, <1>9 DEF ServerNext

\* The process does not end before its jobs and the requests it drained: no
\* event is evicted and not counted, none published and not counted.
THEOREM ExitsAfterItsJobs == ServerSpec => []ExitAfterJobs
<1>1. LifeInv /\ PublishBooks => ExitAfterJobs
  <2> SUFFICES ASSUME LifeInv, PublishBooks, main = "exited" PROVE
        /\ now = -1 /\ evicted = 0
        /\ timedOut \/ (InFlight = {} /\ counters.published = publishCount)
    BY DEF ExitAfterJobs
  <2>1. phase[Eviction] = "over"
    BY DEF LifeInv, Jobs
  <2>2. now = -1 /\ evicted = 0
    BY <2>1 DEF LifeInv
  <2>3. ~timedOut => InFlight = {} /\ uncounted = {}
    BY DEF LifeInv, InFlight
  <2>4. Cardinality({}) = 0
    BY FS_EmptySet
  <2>5. uncounted = {} => counters.published = publishCount
    BY <2>4 DEF PublishBooks
  <2> QED  BY <2>2, <2>3, <2>5
<1>2. PublishBooks /\ [ServerNext]_serverVars => PublishBooks'
  BY PublishBooksStep, ServerStepsAreEngineSteps
<1> QED  BY <1>1, <1>2, LifeInit, LifeStep, PTL DEF ServerSpec

=============================================================================
