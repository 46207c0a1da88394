\* The auto-pump timer the comments promise, in both pump modes.
SPECIFICATION Spec
CONSTANTS
  t1 = t1
  t2 = t2
  t3 = t3
  d1 = d1
  Task = {t1, t2, t3}
  DelayedTask = {d1}
  QuitTask = {}
  Config <- AutoPumpConfigs
  PostMessageMayFail = {}
  MaxTime = 1
INVARIANTS
  AutoPumpTimerKeepsFiring
CHECK_DEADLOCK FALSE
