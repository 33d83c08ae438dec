SPECIFICATION MCSpec
CONSTANTS
  Ids = {i1, i2}
  Absent = Absent
  MaxEvents = 5
  ItemPermitted = {"suspend", "terminate", "delete", "retry"}
  TypePermitted = {"suspend", "activate"}
  MemoLife = 0
  MaxRequests = 2
  MaxLoads = 2
  MaxActions = 2
  Values = {v1, v2}
  MaxSaves = 2
  Timelines = {v1, v2}
  MaxTicks = 3
  FileKinds <- MCFileKinds
  FilterTabs = {incidents, jobs}
  PlainTabs = {variables}
  MaxCounts = 1
INVARIANTS
  PageAtRestFitsItsInstance
  DefinitionAtRestShowsItsVersion
  SpinnerMeansWork
  BatchAtRestIsTrue
  SavesWhatWasShown
  RowsCatchUp
  HeatmapAtRestIsRight
  DeploymentAtRestShowsItsFile
  FilterIsOneEverywhere
SYMMETRY Symmetry
CHECK_DEADLOCK FALSE
