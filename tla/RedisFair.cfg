SPECIFICATION FairSpec
CONSTANTS
  a = a
  b = b
  p = p
  q = q
  Task = {a}
  Unregistered = {}
  Corrupt = {}
  Budget <- NoRetry
  Process = {p, q}
  Slot = {1}
  Stoppable = {q}
  Delays = {FALSE, TRUE}
  DeadMax = 1
  MaxCrashes = 1
  MaxErrors = 0
  MaxSlow = 1
  MaxExits = 1
PROPERTIES EveryTaskLeaves
CHECK_DEADLOCK FALSE
