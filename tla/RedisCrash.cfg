SPECIFICATION Spec
CONSTANTS
  a = a
  b = b
  p = p
  q = q
  Task = {a, b}
  Unregistered = {b}
  Corrupt = {}
  Budget <- OneRetry
  Process = {p, q}
  Slot = {1}
  Stoppable = {q}
  Delays = {FALSE}
  DeadMax = 1
  MaxCrashes = 1
  MaxErrors = 0
  MaxSlow = 0
  MaxExits = 1
INVARIANTS SoleCopy DeadLettersExhausted ConfirmedIsDeleted
PROPERTIES OnlyLateWritesReopen
CHECK_DEADLOCK FALSE
