SPECIFICATION FairSpec
CONSTANTS
  t1 = t1
  t2 = t2
  d1 = d1
  Task = {t1, t2}
  DelayedTask = {d1}
  QuitTask = {t2}
  Config <- AllConfigs
  PostMessageMayFail <- NoWorkMessageConfig
  MaxTime = 1
INVARIANTS
  TypeOK
  HaveWorkDChecks
  OneWorkMessage
  RunInPostOrder
  OnlyAutoPumpTimerIsMissing
  DelayedWorkIsArmed
PROPERTIES
  EveryTaskRuns
CHECK_DEADLOCK FALSE
