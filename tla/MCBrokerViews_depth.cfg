\* The same instance, against what QueueDepth is said to return.
CONSTANTS
  s1 = s1  g1 = g1  k0 = k0  k1 = k1  u1 = u1  r1 = r1
  NumPartitions = 2
  MaxRetries = 1
  Keys = {k0, k1}
  NoKey = k0
  Hash <- KeyHash
  Publishers = {u1}
  Subscriptions = {s1}
  Groups = {g1}
  GroupOf <- GroupOfSubscription
  MaxPublished = 2
  Readers = {r1}
  Froms <- Offsets
SPECIFICATION ViewsSpec
INVARIANT DepthIsBacklog
CHECK_DEADLOCK FALSE
