------------------------------ MODULE MCBroker ------------------------------
(* Instances of Broker for TLC.                                            *)
EXTENDS BrokerRefinement, TLC

CONSTANTS u1, u2, s1, s2, s3, g1, g2, k0, k1

\* s3 consumes for g2, every other Subscribe call for g1.
GroupOfSubscription == [s \in Subscriptions |-> IF s = s3 THEN g2 ELSE g1]

\* With two partitions the key k1 hashes to 1, the empty key k0 goes to 0.
KeyHash == [k \in Keys |-> IF k = k1 THEN 3 ELSE 1]

\* The two Subscribe calls of g1 are interchangeable.
Interchangeable == Permutations({s1, s2})

=============================================================================
