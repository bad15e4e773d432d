SPECIFICATION Spec
CONSTANTS
  a = a
  b = b
  p = p
  q = q
  Task = {a, b}
  Unregistered = {}
  Corrupt = {b}
  Budget <- NoRetry
  Process = {p, q}
  Slot = {1}
  Stoppable = {}
  Delays = {FALSE, TRUE}
  DeadMax = 1
  MaxCrashes = 0
  MaxErrors = 1
  MaxSlow = 1
  MaxExits = 1
SYMMETRY Symmetry
INVARIANTS NothingLost BudgetUpToFaults
PROPERTIES DeliveryPromise
