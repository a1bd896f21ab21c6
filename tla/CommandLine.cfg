\* 31 kinds of fixture, all options, four environments with three fingerprints.
SPECIFICATION CommandSpec
CONSTANTS
  File <- MCFile
  LeftOver <- MCLeftOver
INVARIANTS
  FormatsAreRead
  EventsAreSound
  OwnCredentials
  SuccessMeansProcessed
