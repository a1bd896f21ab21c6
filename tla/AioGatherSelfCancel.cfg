\* Four awaitables, one of which may raise CancelledError by itself.
CONSTANTS
  N = 4
  SelfCancelling = {4}
SPECIFICATION FairSpec
PROPERTIES
  FailureIsRaised
  EndsWhenSettled
