\* Three routers, five callbacks; ActionFailure with codes of each kind, two of them above a byte, with the lowest bytes of 0 and 78.
CONSTANTS
  Strategy <- MCStrategy
  Matching <- MCMatching
  FailureCodes = {0, 2, 78, 256, 334}
SPECIFICATION ActionSpec
INVARIANTS
  SuccessMeansHandled
  CrashFails
  FailureIsNotSuccess
