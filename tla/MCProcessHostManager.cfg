\* Two hosts with different timeouts: safety and liveness together.
SPECIFICATION FairSpec
CONSTANTS
  h1 = h1
  h2 = h2
  NoHost = NoHost
  Host = {h1, h2}
  Timeouts = {1, 2}
  MaxTime = 3
  MaximumWaitObjects = 64
INVARIANTS
  TypeOK
  IndexDenotesExitedPeer
  NoMissedConnection
  JoinWillReturn
  OwnedExactlyOnce
PROPERTIES
  DeletedForCause
  ExitedPeerIsCleanedUp
  ShutdownCompletes
CHECK_DEADLOCK FALSE
