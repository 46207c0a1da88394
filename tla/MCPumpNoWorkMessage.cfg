\* MANUAL mode with disableWorkMessageWhileDoingWork.
SPECIFICATION Spec
CONSTANTS
  t1 = t1
  t2 = t2
  Task = {t1, t2}
  DelayedTask = {}
  QuitTask = {}
  Config <- NoWorkMessageConfig
  PostMessageMayFail = {}
  MaxTime = 1
INVARIANTS
  RemainingWorkIsScheduled
CHECK_DEADLOCK FALSE
