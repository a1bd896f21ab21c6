\* Two requests whose lists grow to two items, or have four from the start.
CONSTANTS
  r1 = r1
  r2 = r2
  None = None
  Request <- MCRequest
  Given <- MCGiven
  Added <- MCAdded
  MaxItems = 2
SPECIFICATION Spec
SYMMETRY Symmetry
INVARIANTS
  QueriesAreConsistent
  RequestsAreSeparate
  SentAsGiven
CHECK_DEADLOCK FALSE
