SPECIFICATION Spec
CONSTANTS
  c1 = c1
  c2 = c2
  c3 = c3
  Calls = {c1, c2, c3}
  Starts = {c1, c2}
  NoCall = NoCall
  Cap = 1
  Stops = {"end_turn"}
  MaxParents = 1
  Cancelable = {c3}
  MaxLosses = 0
INVARIANTS
  TypeOK
  BooksBalance
  FirstEndWins
  OneRunPerTask
  NoOrphanChild
SYMMETRY Symmetry
CHECK_DEADLOCK FALSE
