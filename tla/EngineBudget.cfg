SPECIFICATION Spec
CONSTANTS
  t1 = t1
  t2 = t2
  Tasks = {t1, t2}
  Keys = {}
  Stops = {"cancelled"}
  Verdicts = {"blocked"}
  MaxConcurrent = 1
  AutoProcess = TRUE
  NoLaunch = NoLaunch
  MaxLaunches = 1
  MaxSeq = 1
  MaxBus = 1
  MaxCleanups = 1
  MaxFaults = 0
INVARIANTS
  LaunchBudget
SYMMETRY Symmetry
CHECK_DEADLOCK FALSE
