----------------------------- MODULE MCMetrics -----------------------------
(* An instance of Metrics for TLC.  Counters and latencies share neither a *)
(* variable nor a lock, so a behaviour is one of the counters or one of    *)
(* the latencies: all combinations would add nothing but the product.      *)
EXTENDS Metrics

CONSTANTS requests, errors, other, g1, g2, r1

\* Two counters that every request uses in this order, and a name that New
\* does not register, used as a counter by one and as a gauge by another.
AllCalls == {[op |-> "Add", name |-> requests, arg |-> 1],
             [op |-> "Add", name |-> errors, arg |-> 1],
             [op |-> "Add", name |-> other, arg |-> 2],
             [op |-> "Set", name |-> other, arg |-> 7]}

CountersUnused == applied = 0 /\ (\A g \in Callers : call[g] = Idle) /\ (\A r \in Readers : snap[r] = Idle)

MCNext ==
  \/ samples = <<>> /\ Next /\ UNCHANGED samples
  \/ CountersUnused /\ \E us \in Samples : RecordLatency(us)

MCSpec == Init /\ [][MCNext]_vars

=============================================================================
