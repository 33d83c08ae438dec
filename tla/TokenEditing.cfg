SPECIFICATION Spec
CONSTANTS
  i1 = i1
  i2 = i2
  d1 = d1
  a = a
  b = b
  r1 = r1
  r2 = r2
  Instances = {i1, i2}
  Diagrams = {d1}
  Elements = {a, b}
  DiagramOf <- MCDiagramOf
  Shown <- MCShown
  Nested = {}
  Requests = {r1}
  NoItem = NoItem
SYMMETRY Interchangeable
INVARIANTS
  NoElementTwice
  EditorAgreesWithStack
  WarningExactOnFlatTrees
PROPERTY
  HistoryImplemented
