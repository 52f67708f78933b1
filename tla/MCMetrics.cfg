\* Two callers, one reader, a name created on first use, a ring of four.
CONSTANTS
  requests = requests  errors = errors  other = other
  g1 = g1  g2 = g2  r1 = r1
  Names = {requests, errors, other}
  Registered = {requests, errors}
  Callers = {g1, g2}
  Readers = {r1}
  Calls <- AllCalls
  Samples = {1, 2, 3}
  RingSize = 4
  MaxApplied = 3
  MaxSamples = 6
SPECIFICATION MCSpec
INVARIANTS NoCallLost SnapshotWithin PercentilesOfLatest
CHECK_DEADLOCK FALSE
