SPECIFICATION FairSpec
CONSTANTS
  MaxRuns = 2
  ByHand = {2}
  MaxTime = 2
  MaxLaunches = 1
  MaxEdits = 1
  MaxFaults = 1
INVARIANTS
  TypeOK
  AgentServesRun
  InstantFiresOnce
  BadgeCounts
  SuccessIsEarned
PROPERTIES
  RunEnds
  RunIsCleared
CHECK_DEADLOCK FALSE
