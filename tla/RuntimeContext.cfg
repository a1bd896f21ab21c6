\* The server, two more tasks, one attribute with two values.
CONSTANTS
  server = server
  a = a
  b = b
  x = x
  y = y
  Task <- MCTask
  Root = server
  Name = {"app_installation"}
  Value <- MCValue
  Unset = Unset
SPECIFICATION Spec
SYMMETRY Symmetry
INVARIANTS
  OnlyOwnOrInherited
PROPERTY
  DeleteUndoesLast
