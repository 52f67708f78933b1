---------------------------- MODULE MCBrokerViews ---------------------------
(* An instance of BrokerViews for TLC.                                     *)
EXTENDS BrokerViews

CONSTANTS u1, s1, g1, k0, k1, r1

GroupOfSubscription == [s \in Subscriptions |-> g1]

\* With two partitions the key k1 hashes to 1, the empty key k0 goes to 0.
KeyHash == [k \in Keys |-> IF k = k1 THEN 3 ELSE 1]

\* A replay from before the beginning, from it, and from the second message.
Offsets == {-1, 0, 1}

=============================================================================
