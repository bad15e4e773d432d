SPECIFICATION Spec
CONSTANTS
  p = p
  q = q
  s = s
  t = t
  Process = {p, q}
  Thread = {s, t}
  Home <- OneEach
  UseRedis = TRUE
  MaxGrants = 2
  MaxFaults = 1
  MaxLogouts = 1
  MaxLosses = 1
SYMMETRY Swap
INVARIANTS RefreshSpentOnce RotationNeverForks LogoutRevokes HeldTokensKept
CHECK_DEADLOCK FALSE
