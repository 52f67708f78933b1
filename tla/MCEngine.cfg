\* The server: one Subscribe call, two events, time to let both expire.
CONSTANTS
  u1 = u1  u2 = u2  s1 = s1  s2 = s2  g1 = g1
  NumPartitions = 1
  MaxRetries = 2
  Keys <- Categories
  NoKey = ""
  Hash <- ToOnePartition
  Publishers = {u1}
  Subscriptions = {s1}
  Groups = {g1}
  GroupOf <- OneGroup
  MaxPublished = 2
  Requests <- Posted
  Blank <- NoSpace
  Score <- PostedScore
  TTL = 1
  Priorities <- Tiers
  Lower <- SameWord
  Fold <- SameWord
  MaxTime = 2
  MaxIds = 3
SPECIFICATION EngineSpec
INVARIANTS NoDeadLetters StoredPerMessage StoredComplete TiersMatchBuckets BooksBalance
CHECK_DEADLOCK FALSE
