\* Two connections, half a second a tick.
CONSTANTS
  c1 = c1  c2 = c2
  Unset = Unset  Bad = Bad  NaN = NaN
  Environments <- Settings
  Connections = {c1, c2}
  Asked <- Requests
  Second = 2
  MaxTime = 4
  MaxRequests = 5
SYMMETRY Symmetry
SPECIFICATION Spec
INVARIANTS RateBound HttpBooks
PROPERTIES PatientServed
CHECK_DEADLOCK FALSE
