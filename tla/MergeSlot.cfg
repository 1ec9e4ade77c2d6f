SPECIFICATION Spec
CONSTANTS
  t1 = t1
  t2 = t2
  i1 = i1
  i2 = i2
  d1 = d1
  d2 = d2
  Tasks = {t1, t2}
  Sourced = {}
  Waiting = {t1, t2}
  Intents = {i1, i2}
  Dispatchers = {d1, d2}
  AutoMerge = FALSE
  MaxSeq = 2
  MaxAsks = 3
  MaxHead = 0
  MaxCrashes = 0
  MaxFaults = 0
INVARIANTS
  OneLanding
  LastWordWins
PROPERTIES
  InLine
SYMMETRY Symmetry
CHECK_DEADLOCK FALSE
