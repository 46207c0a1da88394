\* Both thread modes; one other process.
SPECIFICATION FairSpec
CONSTANTS
  local = local
  remote = remote
  c1 = c1
  c2 = c2
  none = none
  Remotes = {remote}
  Local = local
  Contexts = {c1, c2}
  NoContext = none
  MaxViews = 1
  MaxPending = 2
INVARIANTS
  TypeOK
  NothingOutlivesItsContext
  ChannelErrorMeansDeath
PROPERTIES
  ShutdownCompletes
CHECK_DEADLOCK FALSE
