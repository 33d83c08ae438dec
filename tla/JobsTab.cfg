SPECIFICATION Spec
CONSTANTS
  Items = {i1, i2}
  Filters = {f1, f2}
  Default = f1
  Pages = {1, 2}
  Subscriptions = {1, 2}
  KeepsSubscription = FALSE
  MaxItems = 2
  MaxComparing = 2
  None = None
INVARIANT SettledTabShowsItsState
