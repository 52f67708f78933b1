------------------------------ MODULE GroupLog ------------------------------
(***************************************************************************)
(* What the broker promises its consumer groups, without goroutines,       *)
(* channels or retries. Every partition is a log of entries, and no entry  *)
(* is in the logs twice. A group settles entries (gets them handled, or    *)
(* gives them up as dead letters) and has one cursor per partition, which  *)
(* moves over settled entries only, one at a time, and never back. A group *)
(* may settle again what is behind its cursor (delivery is at least once)  *)
(* but never an entry ahead of it (delivery is in order).                  *)
(***************************************************************************)
EXTENDS Integers, Sequences

CONSTANTS Partitions, Groups, Entries

Cells == Groups \X Partitions

VARIABLES
  entries,   \* the log of every partition
  cursor,    \* the next entry of every group and partition
  done       \* the positions every group has settled

vars == <<entries, cursor, done>>

Init ==
  /\ entries = [p \in Partitions |-> <<>>]
  /\ cursor = [c \in Cells |-> 0]
  /\ done = [c \in Cells |-> {}]

\* A message is accepted, once and for one partition.
Accept(p, e) ==
  /\ \A q \in Partitions : \A i \in 1 .. Len(entries[q]) : entries[q][i] # e
  /\ entries' = [entries EXCEPT ![p] = Append(@, e)]
  /\ UNCHANGED <<cursor, done>>

\* A group settles the entry at its cursor, or one behind it again.
Settle(c, o) ==
  /\ o < Len(entries[c[2]])
  /\ o <= cursor[c]
  /\ done' = [done EXCEPT ![c] = @ \union {o}]
  /\ UNCHANGED <<entries, cursor>>

\* The cursor moves over a settled entry.
Advance(c) ==
  /\ cursor[c] \in done[c]
  /\ cursor' = [cursor EXCEPT ![c] = @ + 1]
  /\ UNCHANGED <<entries, done>>

Next ==
  \/ \E p \in Partitions, e \in Entries : Accept(p, e)
  \/ \E c \in Cells : (\E o \in 0 .. cursor[c] : Settle(c, o)) \/ Advance(c)

Spec == Init /\ [][Next]_vars

=============================================================================
