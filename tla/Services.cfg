SPECIFICATION Spec
CONSTANTS
  Absent = Absent
  Items = {a, b, c}
  MaxRuns = 2
  MaxLists = 2
  MaxClicks = 2
  Dates = {d1, d2}
  Now = d1
  MaxInputs = 5
  Tenants = {t1, t2}
  Checked = {"MigrateProcessInstance"}
  Toolbars = {}
  ItemIds = {i1}
  MaxChecks = 2
  MaxTurns = 3
  PageSize = 2
  MaxConcurrency = 2
  MaxTotal = 5
  MaxStarts = 8
  MaxReaders = 2
  MaxReads = 3
  MaxChanges = 2
  CacheTTL = 1
  Lifetimes = {2, 3, Absent}
  RenewBefore = 1
  TokenTTL = 2
  MaxTime = 6
  MaxWaiting = 2
  MaxFailures = 2
INVARIANTS
  ToastsTellTheTruth
  ChangesGetShown
  SpinnerEnds
  ConfirmsWhatIsShown
  PermissionsAccountedFor
  HistoryServedIsWhole
  OAuthTokenIsFit
SYMMETRY Symmetry
CHECK_DEADLOCK FALSE
