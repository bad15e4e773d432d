SPECIFICATION FairSpec
CONSTANTS
  c = c
  d = d
  j = j
  k = k
  Conn = {c, d}
  Caller = {j, k}
  MaxConnections = 1
  IdleTimeout = TRUE
  MaxStarts = 2
  MaxStops = 2
  MaxFailures = 1
INVARIANTS SlotsConserved CallbacksPaired NoStragglers
PROPERTIES StopEnds
CHECK_DEADLOCK FALSE
