\* The documented timeout against the one-shot timer.
SPECIFICATION FairSpec
CONSTANTS
  h1 = h1
  h2 = h2
  NoHost = NoHost
  Host = {h1, h2}
  Timeouts = {1, 2}
  MaxTime = 3
  MaximumWaitObjects = 64
PROPERTIES
  UnconnectedHostIsDestroyed
CHECK_DEADLOCK FALSE
