--------------------------- MODULE MetricsProofs ---------------------------
(***************************************************************************)
(* Proofs about Metrics: no call of Add or Set is lost, and a snapshot     *)
(* holds only values of its own time, for every number of callers, readers *)
(* and names; and the percentiles are those of the latest samples.         *)
(*                                                                         *)
(* The first two follow from one invariant.  Names do not share cells, whoever is   *)
(* about to change a cell has the one the map points to, and what the      *)
(* calls amount to now is among the values a running snapshot may show.    *)
(***************************************************************************)
EXTENDS Metrics, SequenceTheorems, Counting

\* The map points to cells that exist, and no two names share one.
CellsInv ==
  /\ cells \in Seq(Int)
  /\ Exists \subseteq Names
  /\ counters \in [Exists -> 1 .. Len(cells)]
  /\ \A m, n \in Exists : counters[m] = counters[n] => m = n

\* A caller that has found or created its cell has the one of its name.
CallInv(g) ==
  \/ call[g] = Idle
  \/ \E c \in Calls :
       \/ call[g] = [pc |-> "create", do |-> c]
       \/ c.name \in Exists /\ call[g] = [pc |-> "apply", do |-> c, cell |-> counters[c.name]]

\* A snapshot under way partitions the names into those it has loaded and
\* those it has not, and the present effects are among those of its time.
SnapInv(r) ==
  \/ snap[r] = Idle
  \/ /\ DOMAIN snap[r] = {"pc", "left", "got"}
     /\ snap[r] = [pc |-> "load", left |-> snap[r].left, got |-> snap[r].got]
     /\ snap[r].left \union DOMAIN snap[r].got = Exists
     /\ effect \in since[r]
     /\ \A n \in DOMAIN snap[r].got : \E e \in since[r] : snap[r].got[n] = e[n]

EffectInv ==
  /\ effect \in [Names -> Int]
  /\ NoCallLost

IInv ==
  /\ CellsInv
  /\ EffectInv
  /\ DOMAIN call = Callers /\ \A g \in Callers : CallInv(g)
  /\ DOMAIN snap = Readers /\ \A r \in Readers : SnapInv(r)
  /\ DOMAIN since = Readers

\* New establishes the invariant.
LEMMA InitInv == Init => IInv
<1> SUFFICES ASSUME Init PROVE IInv
  OBVIOUS
<1>1. Cardinality(Registered) \in Nat
  BY FS_CardinalityType, MetricsAssumption
<1>2. PICK order \in [Registered -> 1 .. Cardinality(Registered)] :
        /\ \A m, n \in Registered : order[m] = order[n] => m = n
        /\ counters = order
  BY DEF Init
<1>3. /\ cells = [i \in 1 .. Cardinality(Registered) |-> 0]
      /\ call = [g \in Callers |-> Idle]
      /\ snap = [r \in Readers |-> Idle]
      /\ effect = [n \in Names |-> 0]
      /\ since = [r \in Readers |-> {}]
  BY DEF Init
<1>4. cells \in Seq(Int) /\ Len(cells) = Cardinality(Registered)
  BY <1>1, <1>3
<1>5. CellsInv
  BY <1>2, <1>4, MetricsAssumption DEF CellsInv, Exists
<1>6. EffectInv
  <2>1. \A n \in Exists : cells[counters[n]] = 0
    BY <1>2, <1>3 DEF Exists
  <2>2. effect \in [Names -> Int] /\ \A n \in Names : effect[n] = 0
    BY <1>3
  <2> QED  BY <2>1, <2>2 DEF EffectInv, NoCallLost
<1> QED  BY <1>3, <1>5, <1>6 DEF IInv, CallInv, SnapInv

\* The first look disturbs nothing but the call.
LEMMA LookupInv ==
  ASSUME IInv, NEW g \in Callers, NEW c \in Calls, Lookup(g, c)
  PROVE  IInv'
<1>1. UNCHANGED <<counters, cells, snap, effect, since>>
  BY DEF Lookup
<1>2. CellsInv' /\ EffectInv'
  BY <1>1 DEF IInv, CellsInv, EffectInv, NoCallLost, Exists
<1>3. DOMAIN call' = Callers /\ \A h \in Callers : CallInv(h)'
  <2>1. call' = [call EXCEPT ![g] =
          IF c.name \in Exists THEN [pc |-> "apply", do |-> c, cell |-> counters[c.name]]
                               ELSE [pc |-> "create", do |-> c]]
    BY DEF Lookup
  <2>2. ASSUME NEW h \in Callers PROVE CallInv(h)'
    <3>1. CASE h = g
      BY <3>1, <2>1, <1>1 DEF IInv, CallInv, Exists
    <3>2. CASE h # g
      BY <3>2, <2>1, <1>1 DEF IInv, CallInv, Exists
    <3> QED  BY <3>1, <3>2
  <2> QED  BY <2>1, <2>2 DEF IInv
<1>4. \A r \in Readers : SnapInv(r)'
  BY <1>1 DEF IInv, SnapInv, Exists
<1> QED  BY <1>1, <1>2, <1>3, <1>4 DEF IInv

\* Create points the name to a cell of its own, or finds the one it has.
LEMMA CreateInv ==
  ASSUME IInv, NEW g \in Callers, Create(g)
  PROVE  IInv'
<1> DEFINE name == call[g].do.name
           cell == IF name \in Exists THEN counters[name] ELSE Len(cells) + 1
<1>1. UNCHANGED <<snap, effect, since>> /\ call[g].pc = "create"
  BY DEF Create
<1>2. PICK c \in Calls : call[g] = [pc |-> "create", do |-> c]
  BY <1>1 DEF IInv, CallInv, Idle
<1>3. name = c.name /\ name \in Names
  BY <1>2, MetricsAssumption
<1>4. call' = [call EXCEPT ![g] = [pc |-> "apply", do |-> c, cell |-> cell]]
  BY <1>2 DEF Create
<1>5. CellsInv' /\ Exists' = Exists \union {name} /\ counters'[name] = cell
         /\ \A n \in Exists : counters'[n] = counters[n] /\ cells'[counters[n]] = cells[counters[n]]
  <2>1. CASE name \in Exists
    BY <2>1, <1>1 DEF Create, IInv, CellsInv, Exists
  <2>2. CASE name \notin Exists
    <3>1. /\ cells' = Append(cells, 0)
          /\ counters' = [n \in Exists \union {name} |-> IF n = name THEN cell ELSE counters[n]]
      BY <2>2 DEF Create
    <3>2. cells' \in Seq(Int) /\ Len(cells') = Len(cells) + 1 /\ Len(cells) \in Nat
            /\ \A i \in 1 .. Len(cells) : cells'[i] = cells[i]
      BY <3>1 DEF IInv, CellsInv
    <3>3. Exists' = Exists \union {name} /\ counters'[name] = Len(cells) + 1
            /\ \A n \in Exists : counters'[n] = counters[n]
      BY <3>1, <2>2 DEF Exists
    <3>4. \A n \in Exists : counters[n] \in 1 .. Len(cells)
      BY DEF IInv, CellsInv
    <3>5. counters' \in [Exists' -> 1 .. Len(cells')]
      BY <3>1, <3>2, <3>3, <3>4, <2>2 DEF Exists
    <3> QED  BY <2>2, <3>2, <3>3, <3>4, <3>5, <1>3 DEF IInv, CellsInv
  <2> QED  BY <2>1, <2>2
<1>6. EffectInv'
  <2>1. ASSUME NEW n \in Names
        PROVE  effect[n] = IF n \in Exists' THEN cells'[counters'[n]] ELSE 0
    <3>1. CASE n \in Exists
      BY <3>1, <1>5 DEF IInv, EffectInv, NoCallLost
    <3>2. CASE n \notin Exists
      <4>1. effect[n] = 0
        BY <3>2 DEF IInv, EffectInv, NoCallLost
      <4>2. CASE n = name
        BY <4>1, <4>2, <3>2, <1>5 DEF Create, IInv, CellsInv
      <4> QED  BY <4>1, <4>2, <3>2, <1>5
    <3> QED  BY <3>1, <3>2
  <2> QED  BY <2>1, <1>1 DEF IInv, EffectInv, NoCallLost
<1>7. DOMAIN call' = Callers /\ \A h \in Callers : CallInv(h)'
  <2>1. ASSUME NEW h \in Callers PROVE CallInv(h)'
    <3>1. CASE h = g
      BY <3>1, <1>3, <1>4, <1>5 DEF IInv, CallInv
    <3>2. CASE h # g
      BY <3>2, <1>4, <1>5 DEF IInv, CallInv
    <3> QED  BY <3>1, <3>2
  <2> QED  BY <2>1, <1>4 DEF IInv
<1>8. \A r \in Readers : SnapInv(r)'
  BY <1>1 DEF Create, SnapInv, Idle
<1> QED  BY <1>1, <1>5, <1>6, <1>7, <1>8 DEF IInv

\* The cell that changes is the one of the name, and of no other.
LEMMA ApplyInv ==
  ASSUME IInv, NEW g \in Callers, Apply(g)
  PROVE  IInv'
<1>1. UNCHANGED <<counters, snap>> /\ call[g].pc = "apply"
  BY DEF Apply
<1>2. PICK c \in Calls :
        c.name \in Exists /\ call[g] = [pc |-> "apply", do |-> c, cell |-> counters[c.name]]
  BY <1>1 DEF IInv, CallInv, Idle
<1>3. /\ cells' = [cells EXCEPT ![counters[c.name]] = Result(c, cells[counters[c.name]])]
      /\ effect' = [effect EXCEPT ![c.name] = Result(c, effect[c.name])]
      /\ since' = [r \in Readers |-> IF snap[r] = Idle THEN since[r] ELSE since[r] \union {effect'}]
      /\ call' = [call EXCEPT ![g] = Idle]
  BY <1>2 DEF Apply
<1>4. \A v \in Int : Result(c, v) \in Int
  BY MetricsAssumption DEF Result
<1>5. counters[c.name] \in 1 .. Len(cells) /\ c.name \in Names
        /\ effect[c.name] = cells[counters[c.name]]
  BY <1>2 DEF IInv, CellsInv, EffectInv, NoCallLost
<1>6. CellsInv'
  <2>1. cells' \in Seq(Int) /\ Len(cells') = Len(cells)
    <3>1. cells \in Seq(Int) /\ Result(c, cells[counters[c.name]]) \in Int
      BY <1>4, <1>5 DEF IInv, CellsInv, EffectInv
    <3> QED  BY <3>1, <1>3, <1>5, ExceptSeq
  <2> QED  BY <2>1, <1>1 DEF IInv, CellsInv, Exists
<1>7. EffectInv'
  <2>1. effect' \in [Names -> Int]
    BY <1>3, <1>4, <1>5 DEF IInv, EffectInv
  <2>2. ASSUME NEW n \in Names
        PROVE  effect'[n] = IF n \in Exists THEN cells'[counters[n]] ELSE 0
    <3>1. CASE n = c.name
      BY <3>1, <1>2, <1>3, <1>5 DEF IInv, EffectInv, CellsInv
    <3>2. CASE n # c.name
      <4>1. effect'[n] = effect[n]
        BY <3>2, <1>3 DEF IInv, EffectInv
      <4>2. n \in Exists => counters[n] # counters[c.name] /\ counters[n] \in 1 .. Len(cells)
        BY <3>2, <1>2 DEF IInv, CellsInv
      <4> QED  BY <4>1, <4>2, <1>3 DEF IInv, EffectInv, NoCallLost, CellsInv
    <3> QED  BY <3>1, <3>2
  <2> QED  BY <2>1, <2>2, <1>1 DEF EffectInv, NoCallLost, Exists
<1>8. DOMAIN call' = Callers /\ \A h \in Callers : CallInv(h)'
  BY <1>1, <1>3 DEF IInv, CallInv, Exists
<1>9. ASSUME NEW r \in Readers PROVE SnapInv(r)'
  <2>1. CASE snap[r] = Idle
    BY <2>1, <1>1 DEF SnapInv
  <2>2. CASE snap[r] # Idle
    <3>1. since'[r] = since[r] \union {effect'}
      BY <2>2, <1>3
    <3>2. SnapInv(r) /\ snap'[r] = snap[r] /\ Exists' = Exists
      BY <1>1 DEF IInv, Exists
    <3> QED  BY <2>2, <3>1, <3>2 DEF SnapInv
  <2> QED  BY <2>1, <2>2
<1> QED  BY <1>1, <1>3, <1>6, <1>7, <1>8, <1>9 DEF IInv

\* What a snapshot loads is the effect of the calls at that moment.
LEMMA SnapshotInv ==
  ASSUME IInv, NEW r \in Readers,
         \/ SnapshotBegin(r) \/ SnapshotEnd(r) \/ \E n \in Names : SnapshotLoad(r, n)
  PROVE  IInv'
<1>1. UNCHANGED <<counters, cells, call, effect>>
  BY DEF SnapshotBegin, SnapshotEnd, SnapshotLoad
<1>2. CellsInv' /\ EffectInv' /\ DOMAIN call' = Callers /\ \A g \in Callers : CallInv(g)'
  BY <1>1 DEF IInv, CellsInv, EffectInv, NoCallLost, CallInv, Exists
<1>3. \A q \in Readers : q # r => snap'[q] = snap[q] /\ since'[q] = since[q]
  BY DEF SnapshotBegin, SnapshotEnd, SnapshotLoad, IInv
<1>4. DOMAIN snap' = Readers /\ DOMAIN since' = Readers
  BY DEF SnapshotBegin, SnapshotEnd, SnapshotLoad, IInv
<1>5. SnapInv(r)'
  <2>1. CASE SnapshotBegin(r)
    <3>1. snap'[r] = [pc |-> "load", left |-> Exists, got |-> <<>>] /\ since'[r] = {effect}
      BY <2>1 DEF SnapshotBegin, IInv
    <3> QED  BY <3>1, <1>1 DEF SnapInv, Exists
  <2>2. CASE SnapshotEnd(r)
    BY <2>2 DEF SnapshotEnd, SnapInv, IInv
  <2>3. ASSUME NEW n \in Names, SnapshotLoad(r, n) PROVE SnapInv(r)'
    <3> DEFINE left == snap[r].left
               got == snap[r].got
               got2 == [x \in DOMAIN got \union {n} |->
                          IF x = n THEN cells[counters[n]] ELSE got[x]]
    <3>1. snap[r].pc = "load" /\ n \in left
      BY <2>3 DEF SnapshotLoad
    <3>2. /\ snap[r] = [pc |-> "load", left |-> left, got |-> got]
          /\ left \union DOMAIN got = Exists
          /\ effect \in since[r]
          /\ \A m \in DOMAIN got : \E e \in since[r] : got[m] = e[m]
      BY <3>1 DEF IInv, SnapInv, Idle
    <3>3. snap'[r] = [pc |-> "load", left |-> left \ {n}, got |-> got2]
      BY <2>3 DEF SnapshotLoad, IInv
    <3>4. since'[r] = since[r]
      BY <2>3 DEF SnapshotLoad
    <3>5. cells[counters[n]] = effect[n]
      BY <3>1, <3>2 DEF IInv, EffectInv, NoCallLost
    <3>6. (left \ {n}) \union DOMAIN got2 = Exists
      BY <3>1, <3>2
    <3>7. \A m \in DOMAIN got2 : \E e \in since[r] : got2[m] = e[m]
      BY <3>2, <3>5
    <3>8. Exists' = Exists /\ effect' = effect
      BY <1>1 DEF Exists
    <3> HIDE DEF got2, got, left
    <3>9. /\ DOMAIN snap'[r] = {"pc", "left", "got"}
          /\ snap'[r].left = left \ {n} /\ snap'[r].got = got2
          /\ snap'[r] = [pc |-> "load", left |-> snap'[r].left, got |-> snap'[r].got]
      BY <3>3
    <3> QED  BY <3>2, <3>9, <3>4, <3>6, <3>7, <3>8 DEF SnapInv
  <2> QED  BY <2>1, <2>2, <2>3
<1>6. ASSUME NEW q \in Readers, q # r PROVE SnapInv(q)'
  BY <1>1, <1>3, <1>6 DEF IInv, SnapInv, Exists
<1> QED  BY <1>1, <1>2, <1>4, <1>5, <1>6 DEF IInv

\* Every step keeps the invariant.
LEMMA NextInv == IInv /\ [Next]_vars => IInv'
<1> SUFFICES ASSUME IInv, [Next]_vars PROVE IInv'
  OBVIOUS
<1>1. CASE UNCHANGED <<counters, cells, call, snap, effect, since>>
  <2>1. CellsInv' /\ EffectInv'
    BY <1>1 DEF IInv, CellsInv, EffectInv, NoCallLost, Exists
  <2>2. \A g \in Callers : CallInv(g)'
    BY <1>1 DEF IInv, CallInv, Exists
  <2>3. ASSUME NEW r \in Readers PROVE SnapInv(r)'
    <3>1. SnapInv(r) /\ snap'[r] = snap[r] /\ since'[r] = since[r]
             /\ Exists' = Exists /\ effect' = effect
      BY <1>1 DEF IInv, Exists
    <3> QED  BY <3>1 DEF SnapInv
  <2> QED  BY <1>1, <2>1, <2>2, <2>3 DEF IInv
<1>2. CASE UNCHANGED vars
  BY <1>1, <1>2 DEF vars
<1>3. CASE \E us \in Samples : RecordLatency(us)
  BY <1>1, <1>3 DEF RecordLatency
<1> QED  BY <1>2, <1>3, LookupInv, CreateInv, ApplyInv, SnapshotInv DEF Next

\* What the collector promises its callers: a counter shows the effect of
\* every Add and Set that has returned, whoever created it.
THEOREM NoCallIsLost == Spec => []NoCallLost
<1>1. IInv => NoCallLost
  BY DEF IInv, EffectInv
<1> QED  BY <1>1, InitInv, NextInv, PTL DEF Spec

\* What it promises readers: a snapshot is complete, and no value in it is
\* older than its beginning or newer than its end.
THEOREM SnapshotsWithinTheirTime == Spec => []SnapshotWithin
<1>1. IInv => SnapshotWithin
  BY DEF IInv, SnapInv, SnapshotWithin
<1> QED  BY <1>1, InitInv, NextInv, PTL DEF Spec

-----------------------------------------------------------------------------
(* The ring of latencies and its percentiles.                              *)

\* The ring holds the samples recorded last, in their order.
RingInv ==
  /\ samples \in Seq(Int) /\ latency \in Seq(Int)
  /\ Len(latency) = IF Len(samples) > RingSize THEN RingSize ELSE Len(samples)
  /\ \A i \in 1 .. Len(latency) : latency[i] = samples[Len(samples) - Len(latency) + i]

LEMMA RingStep == RingInv /\ [Next]_vars => RingInv'
<1> SUFFICES ASSUME RingInv, [Next]_vars PROVE RingInv'
  OBVIOUS
<1>1. CASE UNCHANGED <<latency, samples>>
  BY <1>1 DEF RingInv
<1>2. ASSUME NEW us \in Samples, RecordLatency(us) PROVE RingInv'
  <2>n. PICK n, m : n = Len(samples) /\ m = Len(latency)
    OBVIOUS
  <2>k. PICK kept : kept = Kept(latency)
    OBVIOUS
  <2>1. /\ n \in Nat /\ m \in Nat /\ RingSize \in Nat \ {0} /\ us \in Int
        /\ m = IF n > RingSize THEN RingSize ELSE n
        /\ \A i \in 1 .. m : latency[i] = samples[n - m + i]
    <3>1. RingSize \in Nat \ {0} /\ us \in Int
      BY MetricsAssumption
    <3>2. n \in Nat /\ m \in Nat /\ m = IF n > RingSize THEN RingSize ELSE n
      BY <2>n DEF RingInv
    <3>3. \A i \in 1 .. m : latency[i] = samples[n - m + i]
      BY <2>n DEF RingInv
    <3> QED
      BY <3>1, <3>2, <3>3
  <2>2. latency' = Append(kept, us) /\ samples' = Append(samples, us)
    BY <1>2, <2>k DEF RecordLatency
  <2>3. PICK size : size = IF n >= RingSize THEN RingSize - 1 ELSE n
    OBVIOUS
  <2>4. /\ kept \in Seq(Int) /\ Len(kept) = size /\ size \in Nat
        /\ \A i \in 1 .. size : kept[i] = samples[n - size + i]
    <3>1. CASE m >= RingSize
      <4>1. kept = Tail(latency) /\ latency # << >>
        <5>1. m # 0
          BY <3>1, <2>1
        <5> QED
          BY <3>1, <5>1, <2>n, <2>k DEF Kept
      <4>5. size = m - 1 /\ m # 0
        BY <3>1, <2>1, <2>3
      <4>2. /\ kept \in Seq(Int) /\ Len(kept) = m - 1
            /\ \A i \in 1 .. m - 1 : kept[i] = latency[i + 1]
        BY <4>1, <4>5, <2>n DEF RingInv
      <4>3. \A i \in 1 .. m - 1 : i + 1 \in 1 .. m /\ n - m + (i + 1) = n - (m - 1) + i
        BY <2>1
      <4>4. \A i \in 1 .. m - 1 : kept[i] = samples[n - (m - 1) + i]
        BY <4>2, <4>3, <2>1
      <4> QED
        BY <4>2, <4>4, <4>5, <2>1
    <3>2. CASE ~(m >= RingSize)
      <4>1. kept = latency /\ latency \in Seq(Int) /\ Len(latency) = m
        BY <3>2, <2>n, <2>k DEF Kept, RingInv
      <4>2. size = m
        BY <3>2, <2>1, <2>3
      <4> QED
        BY <4>1, <4>2, <2>1
    <3> QED
      BY <3>1, <3>2
  <2>5. /\ samples' \in Seq(Int) /\ Len(samples') = n + 1
        /\ samples'[n + 1] = us /\ \A i \in 1 .. n : samples'[i] = samples[i]
    BY <2>n, <2>1, <2>2 DEF RingInv
  <2>6. /\ latency' \in Seq(Int) /\ Len(latency') = size + 1
        /\ latency'[size + 1] = us /\ \A i \in 1 .. size : latency'[i] = kept[i]
    BY <2>1, <2>2, <2>4
  <2>7. size <= n /\ size + 1 = IF n + 1 > RingSize THEN RingSize ELSE n + 1
    BY <2>1, <2>3
  <2>8. ASSUME NEW i \in 1 .. size + 1
        PROVE  latency'[i] = samples'[(n + 1) - (size + 1) + i]
    <3>1. CASE i = size + 1
      BY <3>1, <2>1, <2>4, <2>5, <2>6
    <3>2. CASE i \in 1 .. size
      <4>1. (n + 1) - (size + 1) + i = n - size + i /\ n - size + i \in 1 .. n
        BY <3>2, <2>1, <2>4, <2>7
      <4> QED
        BY <3>2, <4>1, <2>4, <2>5, <2>6
    <3> QED
      BY <3>1, <3>2, <2>4
  <2> QED
    BY <2>5, <2>6, <2>7, <2>8 DEF RingInv
<1> QED
  BY <1>1, <1>2 DEF Next, vars, Create, Apply, Lookup, SnapshotBegin, SnapshotEnd, SnapshotLoad

\* sort.Slice can do what is asked of it, and does.
LEMMA Sorting ==
  ASSUME NEW buf \in Seq(Int)
  PROVE  Sorted(buf) \in Descending(DOMAIN buf, [i \in DOMAIN buf |-> -buf[i]])
<1> DEFINE D == DOMAIN buf
<1>n. PICK n, key : n = Len(buf) /\ key = [i \in D |-> -buf[i]]
  OBVIOUS
<1>1. n \in Nat /\ D = 1 .. n /\ \A i \in D : buf[i] \in Int /\ key[i] = -buf[i] /\ key[i] \in Int
  BY <1>n
<1> HIDE DEF D
<1>2. IsFiniteSet(D) /\ Cardinality(D) = n
  <2>1. IsFiniteSet(1 .. n) /\ Cardinality(1 .. n) = n
    BY <1>1, FS_Interval
  <2> QED
    BY <2>1, <1>1
<1> DEFINE Sorts(q) == \A i, j \in D : i < j => q[i] # q[j] /\ buf[q[i]] <= buf[q[j]]
<1>3. ASSUME NEW q \in [D -> D] PROVE Sorts(q) <=> q \in Descending(D, key)
  <2>1. (\A i, j \in D : i < j => q[i] # q[j]) <=> (\A i, j \in D : i # j => q[i] # q[j])
    <3>1. \A i, j \in D : i # j <=> i < j \/ j < i
      BY <1>1
    <3>2. \A i, j \in D : i < j => i # j
      BY <1>1
    <3> QED
      BY <3>1, <3>2, Zenon
  <2>2. ASSUME NEW i \in D, NEW j \in D PROVE (buf[q[i]] <= buf[q[j]]) <=> (key[q[i]] >= key[q[j]])
    <3> PICK x, y : x = q[i] /\ y = q[j] /\ x \in D /\ y \in D
      OBVIOUS
    <3>1. buf[x] \in Int /\ buf[y] \in Int
      BY <1>1
    <3>2. key[x] = -buf[x] /\ key[y] = -buf[y]
      BY <1>1
    <3>3. buf[x] <= buf[y] <=> key[x] >= key[y]
      BY <3>1, <3>2
    <3> QED
      BY <3>3
  <2> QED
    BY <1>1, <1>2, <2>1, <2>2 DEF Descending
<1>4. \E q \in [D -> D] : q \in Descending(D, key)
  <2>1. Descending(D, key) # {}
    BY <1>1, <1>2, CanBeSorted
  <2> QED
    BY <2>1, <1>1, <1>2 DEF Descending
<1>5. Sorted(buf) \in [D -> D] /\ Sorts(Sorted(buf))
  <2>1. \E q \in [D -> D] : Sorts(q)
    <3> HIDE DEF Sorts
    <3> QED
      BY <1>3, <1>4
  <2> QED
    BY <2>1, Zenon DEF Sorted, D
<1>6. Sorted(buf) \in Descending(D, key)
  <2> HIDE DEF Sorts
  <2> QED
    BY <1>3, <1>5
<1> QED
  BY <1>n, <1>6 DEF D

\* At most p percent of the samples are below v, and the rest at or above.
RankedAt(buf, v, p) ==
  LET n == Len(buf) IN
  /\ Cardinality({i \in 1 .. n : buf[i] < v}) * 100 <= (n - 1) * p
  /\ Cardinality({i \in 1 .. n : buf[i] <= v}) * 100 > (n - 1) * p

\* What is picked has the rank that was asked for.
LEMMA PercentileRank ==
  ASSUME NEW buf \in Seq(Int), buf # << >>, NEW p \in {50, 95, 99}
  PROVE  RankedAt(buf, Percentile(buf, p), p)
<1>n. PICK n, D, key, k, v :
        /\ n = Len(buf) /\ D = DOMAIN buf /\ key = [i \in DOMAIN buf |-> -buf[i]]
        /\ k = ((n - 1) * p) \div 100 + 1 /\ v = Percentile(buf, p)
  OBVIOUS
<1>q. PICK q : q = Sorted(buf) /\ q \in Descending(D, key)
  BY <1>n, Sorting
<1>1. n \in Nat \ {0} /\ D = 1 .. n /\ \A i \in D : buf[i] \in Int /\ key[i] = -buf[i] /\ key[i] \in Int
  BY <1>n
<1>2. k \in 1 .. n /\ (k - 1) * 100 <= (n - 1) * p /\ (n - 1) * p < k * 100
  <2>1. k = ((n - 1) * p) \div 100 + 1
    BY <1>n
  <2>2. n \in Nat \ {0}
    BY <1>1
  <2>3. p \in {50, 95, 99}
    OBVIOUS
  <2>4. CASE p = 50
    BY <2>1, <2>2, <2>4
  <2>5. CASE p = 95
    BY <2>1, <2>2, <2>5
  <2>6. CASE p = 99
    BY <2>1, <2>2, <2>6
  <2> QED
    BY <2>4, <2>5, <2>6
<1>3. IsFiniteSet(D) /\ Cardinality(D) = n
  <2>1. IsFiniteSet(1 .. n) /\ Cardinality(1 .. n) = n
    BY <1>1, FS_Interval
  <2> QED
    BY <2>1, <1>1
<1>4. q[k] \in D /\ v = buf[q[k]]
  <2>1. q \in [D -> D]
    BY <1>1, <1>3, <1>q DEF Descending
  <2> QED
    BY <2>1, <1>1, <1>2, <1>n, <1>q DEF Percentile
<1>5. /\ Cardinality(Above(D, key, key[q[k]])) < k
      /\ Cardinality(AtLeast(D, key, key[q[k]])) >= k
  <2>1. \A i \in D : key[i] \in Int
    BY <1>1
  <2>2. k \in 1 .. Cardinality(D)
    BY <1>2, <1>3
  <2>3. q \in Descending(D, key)
    BY <1>q
  <2>4. IsFiniteSet(D)
    BY <1>3
  <2> QED
    BY <2>1, <2>2, <2>3, <2>4, Ranks
<1>6. /\ Above(D, key, key[q[k]]) = {i \in 1 .. n : buf[i] < v}
      /\ AtLeast(D, key, key[q[k]]) = {i \in 1 .. n : buf[i] <= v}
  <2>1. \A i \in D : /\ key[i] > key[q[k]] <=> buf[i] < v
                     /\ key[i] >= key[q[k]] <=> buf[i] <= v
    <3> SUFFICES ASSUME NEW i \in D
                 PROVE  /\ key[i] > key[q[k]] <=> buf[i] < v
                        /\ key[i] >= key[q[k]] <=> buf[i] <= v
      OBVIOUS
    <3>1. buf[i] \in Int /\ key[i] = -buf[i]
      BY <1>1
    <3>2. v \in Int /\ key[q[k]] = -v
      BY <1>1, <1>4
    <3> QED
      BY <3>1, <3>2
  <2> QED
    BY <2>1, <1>1 DEF Above, AtLeast
<1> PICK below, upto : /\ below = Cardinality({i \in 1 .. n : buf[i] < v})
                       /\ upto = Cardinality({i \in 1 .. n : buf[i] <= v})
  OBVIOUS
<1>7. below \in Nat /\ upto \in Nat
  <2>1. IsFiniteSet({i \in D : buf[i] < v}) /\ IsFiniteSet({i \in D : buf[i] <= v})
    BY <1>3, FS_Subset
  <2> QED
    BY <1>1, <2>1, FS_CardinalityType
<1>8. below < k /\ upto >= k
  BY <1>5, <1>6
<1>9. below * 100 <= (n - 1) * p /\ upto * 100 > (n - 1) * p
  <2> PICK x : x = (n - 1) * p
    OBVIOUS
  <2>1. x \in Int
    BY <1>1
  <2> QED
    BY <2>1, <1>1, <1>2, <1>7, <1>8
<1> QED
  BY <1>n, <1>9 DEF RankedAt

\* /metrics reports percentiles of the last RingSize samples of a name, however
\* many were recorded before and in whatever order sort.Slice leaves equals.
THEOREM PercentilesAreRanks == Spec => []PercentilesOfLatest
<1>1. Init => RingInv
  <2> SUFFICES ASSUME Init PROVE RingInv
    OBVIOUS
  <2>1. latency = << >> /\ samples = << >>
    BY DEF Init
  <2> QED
    BY <2>1, MetricsAssumption DEF RingInv
<1>2. ASSUME RingInv PROVE PercentilesOfLatest
  <2> DEFINE last == SubSeq(samples, IF Len(samples) > RingSize THEN Len(samples) - RingSize + 1
                                     ELSE 1, Len(samples))
  <2>n. PICK n, m : n = Len(samples) /\ m = Len(latency)
    OBVIOUS
  <2>1. n \in Nat /\ m \in Nat /\ m = (IF n > RingSize THEN RingSize ELSE n) /\ m <= n
    BY <1>2, <2>n, MetricsAssumption DEF RingInv
  <2>2. samples \in Seq(Int) /\ latency \in Seq(Int) /\ \A i \in 1 .. m : latency[i] = samples[n - m + i]
    BY <1>2, <2>n DEF RingInv
  <2>3. last = latency
    <3>1. last = SubSeq(samples, n - m + 1, n)
      <4>1. (IF n > RingSize THEN n - RingSize + 1 ELSE 1) = n - m + 1
        BY <2>1, MetricsAssumption
      <4> QED
        BY <2>n, <4>1
    <3>2. /\ last \in Seq(Int) /\ Len(last) = m
          /\ \A i \in 1 .. m : last[i] = samples[(n - m + 1) + i - 1]
      <4>1. n - m + 1 \in Int /\ n \in Int /\ \A i \in n - m + 1 .. n : i \in 1 .. n
        BY <2>1
      <4>2. \A i \in n - m + 1 .. n : samples[i] \in Int
        BY <4>1, <2>2, <2>n
      <4>3. m = IF n - m + 1 <= n THEN n - (n - m + 1) + 1 ELSE 0
        BY <2>1
      <4>4. n - (n - m + 1) + 1 = m
        BY <2>1
      <4> HIDE DEF last
      <4> QED
        BY <3>1, <4>1, <4>2, <4>3, <4>4, SubSeqProperties
    <3> HIDE DEF last
    <3>3. \A i \in 1 .. m : last[i] = latency[i]
      <4>1. \A i \in 1 .. m : (n - m + 1) + i - 1 = n - m + i
        BY <2>1
      <4> QED
        BY <3>2, <4>1, <2>2
    <3> QED
      BY <3>2, <3>3, <2>2, <2>n, SeqEqual
  <2>4. ASSUME Len(last) > 0, NEW p \in {50, 95, 99}
        PROVE  RankedAt(last, Percentile(latency, p), p)
    <3> HIDE DEF last
    <3>1. last # << >> /\ last \in Seq(Int)
      BY <2>2, <2>3, <2>4
    <3> QED
      BY <2>3, <3>1, PercentileRank
  <2> QED
    BY <2>4, Zenon DEF PercentilesOfLatest, RankedAt
<1> QED
  BY <1>1, <1>2, RingStep, PTL DEF Spec

=============================================================================
