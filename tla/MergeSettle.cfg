SPECIFICATION FairSpec
CONSTANTS
  t1 = t1
  t2 = t2
  i1 = i1
  d1 = d1
  Tasks = {t1, t2}
  Sourced = {t2}
  Waiting = {t1}
  Intents = {i1}
  Dispatchers = {d1}
  AutoMerge = FALSE
  MaxSeq = 3
  MaxAsks = 2
  MaxHead = 0
  MaxCrashes = 1
  MaxFaults = 1
PROPERTIES
  QueueDrains
  MergeSettles
CHECK_DEADLOCK FALSE
