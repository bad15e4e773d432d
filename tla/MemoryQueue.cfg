SPECIFICATION FairSpec
CONSTANTS
  a = a
  b = b
  u = u
  v = v
  w = w
  Task = {a, b}
  Unregistered = {b}
  Budget <- SomeRetry
  Thread = {u, v, w}
  Delays = {FALSE, TRUE}
  StatusMax = 1
  DeadMax = 1
  MaxExits = 1
INVARIANTS StatusAgrees WakeupsCoverReady
PROPERTIES DeliveryPromise EveryTaskSettles
CHECK_DEADLOCK FALSE
