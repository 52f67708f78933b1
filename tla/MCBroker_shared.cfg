\* One partition whose two goroutines belong to one group.
CONSTANTS
  s1 = s1  s2 = s2  s3 = s3  g1 = g1  g2 = g2  k0 = k0  k1 = k1  u1 = u1  u2 = u2
  NumPartitions = 1
  MaxRetries = 2
  Keys = {k0}
  NoKey = k0
  Hash <- KeyHash
  Publishers = {u1}
  Subscriptions = {s1, s2}
  Groups = {g1}
  GroupOf <- GroupOfSubscription
  MaxPublished = 3
SPECIFICATION Spec
SYMMETRY Interchangeable
INVARIANTS TypeOK NoMessageSkipped SettlesInOrder NoLostWakeup DeadLettersFaithful
PROPERTIES OnlyForward ImplementsGroupLog
CHECK_DEADLOCK FALSE
