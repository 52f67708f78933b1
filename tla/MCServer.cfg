\* The server from start to exit under fairness: one event.
CONSTANTS
  u1 = u1  s1 = s1  g1 = g1
  NumPartitions = 1
  MaxRetries = 1
  Keys <- Categories
  NoKey = ""
  Hash <- ToOnePartition
  Publishers = {u1}
  Subscriptions = {s1}
  Groups = {g1}
  GroupOf <- OneGroup
  MaxPublished = 1
  Requests <- Hikes
  Blank <- NoSpace
  Score <- Eighty
  TTL = 1
  Priorities <- Tiers
  Lower <- SameWord
  Fold <- SameWord
  MaxTime = 1
  MaxIds = 1
SPECIFICATION ServerFairSpec
PROPERTIES ShutdownTerminates AcceptedIsStored ExpiredIsEvicted
INVARIANTS ExitAfterJobs
CHECK_DEADLOCK FALSE
