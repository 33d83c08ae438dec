SPECIFICATION FairSpec
CONSTANTS
  Items = {i1, i2}
  Filters = {f1, f2}
  Default = f1
  Pages = {1, 2}
  Subscriptions = {1, 2}
  KeepsSubscription = TRUE
  MaxItems = 2
  MaxComparing = 2
  None = None
INVARIANTS
  SettledTabShowsItsState
PROPERTIES
  LastAnswerWins
  SpinnerEnds
