\* Two keys with two values, up to four routes.
CONSTANTS
  action = action
  ref = ref
  x = x
  y = y
  Key <- MCKey
  Val <- MCVal
  Absent = Absent
  Object = Object
  MaxRoutes = 4
SPECIFICATION Spec
SYMMETRY Symmetry
INVARIANTS
  EmittedMatchOnce
  NoneForgotten
  InOrder
PROPERTY
  FailsForAReason
