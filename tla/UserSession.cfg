SPECIFICATION Spec
CONSTANTS
  t1 = t1
  t2 = t2
  t3 = t3
  t4 = t4
  r1 = r1
  r2 = r2
  Ids = {t1, t2, t3, t4}
  Requests = {r1, r2}
  Life = 14
  RefreshWindow = 9
  SessionTimeout = 4
  RefreshInterval = 1
  MaxDuration = 1
  MaxIdle = 1
  None = None
SYMMETRY Interchangeable
INVARIANTS
  ActiveUserStays
PROPERTY
  ForwardedTokenIsValid
