SPECIFICATION FairSpec
CONSTANTS
  t1 = t1
  k1 = k1
  Tasks = {t1}
  Keys = {k1}
  Stops = {"end_turn"}
  Verdicts = {}
  MaxConcurrent = 1
  AutoProcess = FALSE
  NoLaunch = NoLaunch
  MaxLaunches = 2
  MaxSeq = 1
  MaxBus = 1
  MaxCleanups = 1
  MaxFaults = 1
PROPERTIES
  ImplementsLifecycle
  QueuedLeaves
  EndedRunSettles
  CancelStops
  SetupStops
CHECK_DEADLOCK FALSE
