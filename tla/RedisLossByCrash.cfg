SPECIFICATION Spec
CONSTANTS
  a = a
  b = b
  p = p
  q = q
  Task = {a}
  Unregistered = {}
  Corrupt = {}
  Budget <- OneRetry
  Process = {p, q}
  Slot = {1}
  Stoppable = {}
  Delays = {FALSE}
  DeadMax = 1
  MaxCrashes = 1
  MaxErrors = 0
  MaxSlow = 0
  MaxExits = 0
INVARIANTS AtLeastOnce
