\* Two partitions, two publishers, one Subscribe call: the configuration of
\* cmd/api, small.
CONSTANTS
  s1 = s1  s2 = s2  s3 = s3  g1 = g1  g2 = g2  k0 = k0  k1 = k1  u1 = u1  u2 = u2
  NumPartitions = 2
  MaxRetries = 2
  Keys = {k0, k1}
  NoKey = k0
  Hash <- KeyHash
  Publishers = {u1, u2}
  Subscriptions = {s1}
  Groups = {g1}
  GroupOf <- GroupOfSubscription
  MaxPublished = 2
SPECIFICATION FairSpec
INVARIANTS SoleConsumerExactlyOnce CountLagsLogs
PROPERTIES EventuallyCommitted CancelStops
CHECK_DEADLOCK FALSE
