SPECIFICATION Spec
CONSTANTS
  t1 = t1
  k1 = k1
  k2 = k2
  Tasks = {t1}
  Keys = {k1, k2}
  Stops = {"end_turn"}
  Verdicts = {}
  MaxConcurrent = 1
  AutoProcess = FALSE
  NoLaunch = NoLaunch
  MaxLaunches = 2
  MaxSeq = 2
  MaxBus = 1
  MaxCleanups = 1
  MaxFaults = 0
INVARIANTS
  TypeOK
  OnePromptPerGeneration
  NoOrphanAgent
  SetupIsKillable
  SlotIsOwned
  AwaitingIsAccurate
SYMMETRY Symmetry
CHECK_DEADLOCK FALSE
