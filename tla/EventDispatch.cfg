\* Two sequential routers, a concurrent and a non-blocking one, with up to two callbacks each.
CONSTANTS
  Strategy <- MCStrategy
  Matching <- MCMatching
SPECIFICATION FairSpec
INVARIANTS
  ReturnedMeansHandled
  NothingOutlivesDispatch
  OneCulprit
  StrategiesKept
PROPERTIES
  ConcurrentRoutersGather
  NoCallAfterFailure
  FailureEndsDispatch
