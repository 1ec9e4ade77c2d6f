SPECIFICATION Spec
CONSTANTS
  t1 = t1
  Tasks = {t1}
  Keys = {}
  Stops = {"end_turn"}
  Verdicts = {}
  MaxConcurrent = 1
  AutoProcess = FALSE
  NoLaunch = NoLaunch
  MaxLaunches = 2
  MaxSeq = 2
  MaxBus = 1
  MaxCleanups = 1
  MaxFaults = 0
INVARIANTS
  ReviewIsEarned
CHECK_DEADLOCK FALSE
