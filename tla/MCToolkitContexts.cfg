\* The DCHECKs of BrowserContextImpl when another process ends meanwhile.
SPECIFICATION Spec
CONSTANTS
  local = local
  remote = remote
  c1 = c1
  c2 = c2
  none = none
  Remotes = {remote}
  Local = local
  Contexts = {c1, c2}
  NoContext = none
  MaxViews = 1
  MaxPending = 2
INVARIANTS
  ContextsAreIdle
CHECK_DEADLOCK FALSE
