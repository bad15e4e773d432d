SPECIFICATION FairSpec
CONSTANTS
  c = c
  d = d
  j = j
  k = k
  Conn = {c}
  Caller = {k}
  MaxConnections = 1
  IdleTimeout = FALSE
  MaxStarts = 1
  MaxStops = 1
  MaxFailures = 0
PROPERTIES StopEndsConnections
CHECK_DEADLOCK FALSE
