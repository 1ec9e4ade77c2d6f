SPECIFICATION Spec
CONSTANTS
  t1 = t1
  i1 = i1
  d1 = d1
  Tasks = {t1}
  Sourced = {}
  Waiting = {}
  Intents = {i1}
  Dispatchers = {d1}
  AutoMerge = FALSE
  MaxSeq = 3
  MaxAsks = 2
  MaxHead = 0
  MaxCrashes = 0
  MaxFaults = 1
PROPERTIES
  DispatchIsSpared
CHECK_DEADLOCK FALSE
