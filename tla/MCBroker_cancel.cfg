\* One consumer of one partition whose context is cancelled while messages wait.
CONSTANTS
  s1 = s1  s2 = s2  s3 = s3  g1 = g1  g2 = g2  k0 = k0  k1 = k1  u1 = u1  u2 = u2
  NumPartitions = 1
  MaxRetries = 1
  Keys = {k0}
  NoKey = k0
  Hash <- KeyHash
  Publishers = {u1}
  Subscriptions = {s1}
  Groups = {g1}
  GroupOf <- GroupOfSubscription
  MaxPublished = 2
SPECIFICATION FairSpec
PROPERTY CancelStopsConsumption
CHECK_DEADLOCK FALSE
