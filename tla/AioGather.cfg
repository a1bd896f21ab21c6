\* Four awaitables, none of which raises CancelledError by itself.
CONSTANTS
  N = 4
  SelfCancelling = {}
SPECIFICATION FairSpec
INVARIANTS
  ReturnedInOrder
  HostIsNotStranded
PROPERTY
  ImplementsGather
