SPECIFICATION Spec
CONSTANTS
  t1 = t1
  i1 = i1
  d1 = d1
  d2 = d2
  Tasks = {t1}
  Sourced = {}
  Waiting = {}
  Intents = {i1}
  Dispatchers = {d1, d2}
  AutoMerge = TRUE
  MaxSeq = 3
  MaxAsks = 3
  MaxHead = 2
  MaxCrashes = 1
  MaxFaults = 1
INVARIANTS
  TypeOK
  DoneIsTrue
PROPERTIES
  NoUnattendedRetry
  MergesByLifecycle
SYMMETRY Symmetry
CHECK_DEADLOCK FALSE
