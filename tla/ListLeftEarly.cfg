SPECIFICATION Spec
CONSTANTS
  definitions = definitions
  deployments = deployments
  active = active
  name = name
  Lists = {definitions, deployments}
  Filters = {active}
  Sorts = {name}
  Pages = {1, 2}
  Toggled = {definitions}
  DefaultToggled = {definitions}
  DefaultFilters <- MCDefaultFilters
  DefaultSorting <- MCDefaultSorting
  Empty = Empty
  Absent = Absent
  MaxRequests = 2
  MaxGhosts = 1
INVARIANT NothingProvidedNothingFound
