-------------------------- MODULE BrokerRefinement --------------------------
(***************************************************************************)
(* The broker implements GroupLog: an entry is the id of a message, the    *)
(* cursor is the committed offset, and a group has settled what any of its *)
(* goroutines has got handled or dead-lettered.                            *)
(***************************************************************************)
EXTENDS Broker

EntriesOf(q) == [i \in 1 .. Len(q) |-> q[i].id]

Promise == INSTANCE GroupLog WITH
  Entries <- 1 .. MaxPublished,
  entries <- [p \in Partitions |-> EntriesOf(log[p])],
  cursor <- offsets,
  done <- [c \in Cells |-> SettledIn(c)]

\* Every step of the broker is a step of the abstract log or leaves it
\* unchanged: publishing accepts one entry at the end of one partition, a
\* handler success or a dead letter settles one entry at or behind the
\* committed offset, and a commit advances over one settled entry or, when
\* another goroutine of the group was faster, does nothing.
ImplementsGroupLog == Promise!Spec

=============================================================================
