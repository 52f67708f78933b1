------------------------------ MODULE Metrics ------------------------------
(***************************************************************************)
(* The metrics collector (internal/metrics/metrics.go) as its callers use  *)
(* it at the same time: request goroutines, the consumer goroutines and    *)
(* the scheduler's jobs add to counters and set gauges while /metrics      *)
(* takes snapshots.                                                        *)
(*                                                                         *)
(* A counter is a cell the map points to.  Add and Set find the cell under *)
(* one lock and change it after they have released it, so a call is up to  *)
(* three steps.  A snapshot keeps the read lock while it loads the cells   *)
(* one after the other, in any order.  It shuts out whoever wants to       *)
(* create a counter, not those who already hold a cell.                    *)
(***************************************************************************)
EXTENDS Integers, Sequences, FiniteSets, TLC

CONSTANTS
  Names,        \* names of counters and gauges
  Registered,   \* those New registers
  Callers,      \* goroutines that call Add or Set
  Readers,      \* goroutines that take snapshots
  Calls,        \* what a caller may call: Add or Set, of which name, with what
  Samples,      \* latencies
  RingSize,     \* 1000 in the code
  MaxApplied, MaxSamples   \* bounds of the model

ASSUME MetricsAssumption ==
  /\ Registered \subseteq Names /\ IsFiniteSet(Registered)
  /\ Calls \subseteq [op : {"Add", "Set"}, name : Names, arg : Int]
  /\ Samples \subseteq Int
  /\ RingSize \in Nat \ {0}
  /\ MaxApplied \in Nat /\ MaxSamples \in Nat

VARIABLES
  counters,   \* Collector.counters: name -> cell, for the names that exist
  cells,      \* what the cells hold; a new cell is appended
  call,       \* per caller: the call under way
  snap,       \* per reader: the names yet to load, and what was loaded
  latency,    \* Collector.latency of one name
  effect,     \* history: per name, what the calls so far amount to
  since,      \* history: per reader, the effects since its snapshot began
  applied,    \* history: number of calls that have returned
  samples     \* history: every sample ever recorded

vars == <<counters, cells, call, snap, latency, effect, since, applied, samples>>

Idle == [pc |-> "idle"]
Exists == DOMAIN counters

-----------------------------------------------------------------------------
\* New: a cell for every well-known name.
Init ==
  \E order \in [Registered -> 1 .. Cardinality(Registered)] :
    /\ \A m, n \in Registered : order[m] = order[n] => m = n
    /\ counters = order
    /\ cells = [i \in 1 .. Cardinality(Registered) |-> 0]
    /\ call = [g \in Callers |-> Idle]
    /\ snap = [r \in Readers |-> Idle]
    /\ latency = <<>>
    /\ effect = [n \in Names |-> 0]
    /\ since = [r \in Readers |-> {}]
    /\ applied = 0
    /\ samples = <<>>

\* Add and Set look for the name under the read lock.
Lookup(g, c) ==
  /\ call[g] = Idle
  /\ call' = [call EXCEPT ![g] =
       IF c.name \in Exists THEN [pc |-> "apply", do |-> c, cell |-> counters[c.name]]
                            ELSE [pc |-> "create", do |-> c]]
  /\ UNCHANGED <<counters, cells, snap, latency, effect, since, applied, samples>>

\* Mutant of Create: the name is not looked up again under the write lock.
CreateBlindly(g) ==
  /\ call[g].pc = "create"
  /\ \A r \in Readers : snap[r] = Idle
  /\ cells' = Append(cells, 0)
  /\ counters' = [n \in Exists \union {call[g].do.name} |->
       IF n = call[g].do.name THEN Len(cells) + 1 ELSE counters[n]]
  /\ call' = [call EXCEPT ![g] = [pc |-> "apply", do |-> @.do, cell |-> Len(cells) + 1]]
  /\ UNCHANGED <<snap, latency, effect, since, applied, samples>>

\* The name was missing.  Under the write lock it is looked up once more,
\* and created only if it is still missing.
Create(g) ==
  LET name == call[g].do.name
      cell == IF name \in Exists THEN counters[name] ELSE Len(cells) + 1
  IN
  /\ call[g].pc = "create"
  /\ \A r \in Readers : snap[r] = Idle
  /\ IF name \in Exists
       THEN UNCHANGED <<counters, cells>>
       ELSE /\ cells' = Append(cells, 0)
            /\ counters' = [n \in Exists \union {name} |->
                 IF n = name THEN cell ELSE counters[n]]
  /\ call' = [call EXCEPT ![g] = [pc |-> "apply", do |-> @.do, cell |-> cell]]
  /\ UNCHANGED <<snap, latency, effect, since, applied, samples>>

\* What a call makes of a value.
Result(c, old) == IF c.op = "Add" THEN old + c.arg ELSE c.arg

\* The atomic Add or Store on the cell, without a lock.
Apply(g) ==
  LET c == call[g].do IN
  /\ call[g].pc = "apply"
  /\ applied < MaxApplied
  /\ cells' = [cells EXCEPT ![call[g].cell] = Result(c, @)]
  /\ effect' = [effect EXCEPT ![c.name] = Result(c, @)]
  /\ since' = [r \in Readers |-> IF snap[r] = Idle THEN since[r] ELSE since[r] \union {effect'}]
  /\ call' = [call EXCEPT ![g] = Idle]
  /\ applied' = applied + 1
  /\ UNCHANGED <<counters, snap, latency, samples>>

-----------------------------------------------------------------------------
\* Snapshot takes the read lock ...
SnapshotBegin(r) ==
  /\ snap[r] = Idle
  /\ snap' = [snap EXCEPT ![r] = [pc |-> "load", left |-> Exists, got |-> <<>>]]
  /\ since' = [since EXCEPT ![r] = {effect}]
  /\ UNCHANGED <<counters, cells, call, latency, effect, applied, samples>>

\* Mutant of SnapshotLoad: the first value loaded serves for every name.
SnapshotLoadOnce(r, n) ==
  /\ snap[r].pc = "load" /\ n \in snap[r].left
  /\ snap' = [snap EXCEPT ![r].left = @ \ {n},
       ![r].got = @ @@ (n :> IF @ = <<>> THEN cells[counters[n]]
                             ELSE @[CHOOSE m \in DOMAIN @ : TRUE])]
  /\ UNCHANGED <<counters, cells, call, latency, effect, since, applied, samples>>

\* ... loads the counters in the order of the map ...
SnapshotLoad(r, n) ==
  /\ snap[r].pc = "load" /\ n \in snap[r].left
  /\ snap' = [snap EXCEPT ![r] =
       [pc |-> "load", left |-> @.left \ {n},
        got |-> [m \in DOMAIN @.got \union {n} |->
                   IF m = n THEN cells[counters[n]] ELSE @.got[m]]]]
  /\ UNCHANGED <<counters, cells, call, latency, effect, since, applied, samples>>

\* ... and returns.
SnapshotEnd(r) ==
  /\ snap[r].pc = "load" /\ snap[r].left = {}
  /\ snap' = [snap EXCEPT ![r] = Idle]
  /\ since' = [since EXCEPT ![r] = {}]
  /\ UNCHANGED <<counters, cells, call, latency, effect, applied, samples>>

\* Mutant of Kept: the newest sample of a full ring is dropped, not the oldest.
KeptOldest(buf) ==
  IF Len(buf) >= RingSize THEN SubSeq(buf, 1, RingSize - 1) ELSE buf

\* What RecordLatency keeps of the samples before it appends its own.
Kept(buf) == IF Len(buf) >= RingSize THEN Tail(buf) ELSE buf

\* RecordLatency, all of it under histMu.
RecordLatency(us) ==
  /\ Len(samples) < MaxSamples
  /\ latency' = Append(Kept(latency), us)
  /\ samples' = Append(samples, us)
  /\ UNCHANGED <<counters, cells, call, snap, effect, since, applied>>

\* The places of the samples in the order sort.Slice brings them into.
Sorted(buf) ==
  CHOOSE q \in [DOMAIN buf -> DOMAIN buf] :
    \A i, j \in DOMAIN buf : i < j => q[i] # q[j] /\ buf[q[i]] <= buf[q[j]]

\* LatencySnapshot for p of 100: one of the sorted samples is picked.
Percentile(buf, p) ==
  IF buf = <<>> THEN 0 ELSE buf[Sorted(buf)[((Len(buf) - 1) * p) \div 100 + 1]]

Next ==
  \/ \E g \in Callers : Create(g) \/ Apply(g) \/ \E c \in Calls : Lookup(g, c)
  \/ \E r \in Readers : \/ SnapshotBegin(r) \/ SnapshotEnd(r)
                        \/ \E n \in Names : SnapshotLoad(r, n)
  \/ \E us \in Samples : RecordLatency(us)

Spec == Init /\ [][Next]_vars

-----------------------------------------------------------------------------
(* Properties.                                                             *)

\* No call is lost.  However first uses of a name and snapshots interleave,
\* a counter shows what the calls that have returned amount to; a goroutine
\* never adds to a cell the map no longer points to.
NoCallLost ==
  \A n \in Names :
    effect[n] = IF n \in Exists THEN cells[counters[n]] ELSE 0

\* How far a snapshot may be torn.  Every value it holds is one the counter
\* had since the snapshot began, and it holds every counter that exists: none
\* is created under its hands.  A counter that only grows is therefore never
\* shown smaller than in the snapshot before.
SnapshotWithin ==
  \A r \in Readers : snap[r] # Idle =>
    /\ snap[r].left \union DOMAIN snap[r].got = Exists
    /\ \A n \in DOMAIN snap[r].got : \E e \in since[r] : snap[r].got[n] = e[n]

\* The percentiles are those of the last RingSize samples: at a full ring the
\* oldest makes room.  The value for p has at most p percent of those samples
\* below it and the rest at or above.
PercentilesOfLatest ==
  LET last == SubSeq(samples, IF Len(samples) > RingSize THEN Len(samples) - RingSize + 1
                              ELSE 1, Len(samples))
      n == Len(last)
  IN  n > 0 =>
        \A p \in {50, 95, 99} :
          LET v == Percentile(latency, p) IN
          /\ Cardinality({i \in 1 .. n : last[i] < v}) * 100 <= (n - 1) * p
          /\ Cardinality({i \in 1 .. n : last[i] <= v}) * 100 > (n - 1) * p

=============================================================================
