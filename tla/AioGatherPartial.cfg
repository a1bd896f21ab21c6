\* Two awaitables, one of which may raise CancelledError by itself.
CONSTANTS
  N = 2
  SelfCancelling = {2}
SPECIFICATION Spec
INVARIANT
  ReturnedInOrder
