SPECIFICATION FairSpec
CONSTANTS
  c1 = c1
  c2 = c2
  Calls = {c1, c2}
  Starts = {c1}
  NoCall = NoCall
  Cap = 1
  Stops = {"failed", "cancelled"}
  MaxParents = 2
  Cancelable = {}
  MaxLosses = 1
INVARIANTS
  ChildrenGoWithParent
PROPERTIES
  RunSettles
  CardCloses
  ChildrenFollowParent
CHECK_DEADLOCK FALSE
