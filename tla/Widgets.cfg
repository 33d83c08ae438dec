SPECIFICATION Spec
CONSTANTS
  Absent = Absent
  orders = orders
  bills = bills
  orders1 = orders1
  orders2 = orders2
  bills1 = bills1
  KeyOf <- MCKeyOf
  MaxItems = 1
  MaxLoads = 2
  MaxGestures = 7
  start = start
  ready = ready
  review = review
  again = again
  done = done
  SequenceFlowList <- MCSequenceFlowList
  Gateways = {ready, again}
  StartEvent = start
  MaxActivities = 8
  MaxMoves = 1
  MaxClock = 6
  id = id
  name = name
  started = started
  state = state
  Releases <- MCReleases
  FlexColumns = {name}
  PinnedFirst = {id}
  MaxDrags = 6
  Days = 2
  MaxInputs = 5
  VersionElements <- MCVersionElements
  OldVersion = 2
  MaxDialogs = 2
  MaxModalInputs = 6
  nothing = nothing
  good = good
  odd = odd
  broken = broken
  SoundTexts = {nothing, good}
  OddTexts = {odd}
  BrokenTexts = {broken}
  EmptyForm = nothing
  MaxForms = 2
  MaxFormInputs = 5
  Width <- MCWidth
  MaxDialogSteps = 4
  MarkedActivities = {start, done}
  MaxMarkInputs = 6
  HeatNodes = {start, again, review}
  HeatTypes <- MCHeatTypes
  HeatFlows <- MCHeatFlows
  HeatSecond = 2
  HeatMinute = 4
  HeatHour = 5
  HeatRuns <- MCHeatRuns
  HeatSpacings = {0, 4}
  HeatBends <- MCHeatBends
  MaxHeatings = 5
  TypeChoices <- MCTypeChoices
  LogEntries <- MCLogEntries
  MaxLog = 2
  MaxTabInputs = 2
  MaxHistoryRequests = 2
  Callers = {review}
  Keys = {good, odd}
  FilterKeys = {odd}
  MaxCalls = 2
  MaxCalledInputs = 2
  MaxListInputs = 3
  MaxLists = 2
INVARIANTS
  DashboardTellsOneStory
  ColouredFlowsWereTaken
  ColumnsComeBack
  RangeSentIsShown
  MigrateDialogIsTrue
  FormsSubmitWhatIsChecked
  VariableDialogIsTrue
  DiagramShowsWhatIsKnown
  HeatTellsTheHistory
  HistoryRowsAreWhole
  CalledRowsAreCounted
  ListAsksWhatItShows
CHECK_DEADLOCK FALSE
