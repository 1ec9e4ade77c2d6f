SPECIFICATION Spec
CONSTANTS
  t1 = t1
  Tasks = {t1}
  Keys = {}
  Stops = {"end_turn"}
  Verdicts = {}
  MaxConcurrent = 1
  AutoProcess = FALSE
  NoLaunch = NoLaunch
  MaxLaunches = 3
  MaxSeq = 3
  MaxBus = 1
  MaxCleanups = 0
  MaxFaults = 0
INVARIANTS
  PreparingIsOwned
CHECK_DEADLOCK FALSE
