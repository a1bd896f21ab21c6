\* Two connections, two events, up to two handlers.
CONSTANTS
  c1 = c1
  c2 = c2
  push = push
  ping = ping
  inst = inst
  h1 = h1
  h2 = h2
  NoInstall = NoInstall
  Unset = Unset
  Conn <- MCConn
  Event <- MCEvent
  Installation <- MCInstallation
  InstallOf <- MCInstallOf
  Routes <- MCRoutes
SPECIFICATION FairSpec
INVARIANTS
  OnlyTrustedDeliveries
  HandlersSeeTheirEvent
  FailuresCaptured
  NothingLeftRunning
PROPERTIES
  HandlersAreGathered
  AnswerIsPrompt
  EventMovesOn
  ShutdownCompletes
