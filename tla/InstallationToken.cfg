\* Tokens live for 3 ticks, answers take up to 2, the clock stops at 9.
CONSTANTS
  a = a
  b = b
  c = c
  None = None
  Client <- MCClient
  Lifetime = 3
  Timeout = 2
  MaxTime = 9
SPECIFICATION Spec
SYMMETRY Symmetry
INVARIANTS
  SentFresh
PROPERTY
  RefreshedRarely
