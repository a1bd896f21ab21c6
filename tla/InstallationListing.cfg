\* Pages of two, tokens valid for 3 ticks, requests that take up to 1; the clock stops at 6.
CONSTANTS
  i = i
  j = j
  k = k
  l = l
  u = u
  None = None
  Installation <- MCInstallation
  Unfit <- MCUnfit
  Skews <- MCSkews
  PageSize = 2
  Lifetime = 3
  Slowest = 1
  MaxTime = 6
SPECIFICATION Spec
SYMMETRY Symmetry
INVARIANTS
  FewAreMissed
  RefusedForAReason
