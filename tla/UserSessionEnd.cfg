SPECIFICATION Spec
CONSTANTS
  t1 = t1
  t2 = t2
  t3 = t3
  t4 = t4
  r1 = r1
  r2 = r2
  Ids = {t1, t2, t3}
  Requests = {r1, r2}
  Life = 2
  RefreshWindow = 1
  SessionTimeout = 2
  RefreshInterval = 0
  MaxDuration = 1
  MaxIdle = 0
  None = None
PROPERTY
  ExpiredLeadsToLogin
