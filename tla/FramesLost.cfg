SPECIFICATION Spec
CONSTANTS
  NProcs = 3
  Machines <- ForkOnly
  MaxTable = 4
  Written = {1}
  ForkRaces = TRUE
  Reuse = FALSE
  ParentWrites = FALSE
INVARIANT
  FramesConsistent
CHECK_DEADLOCK FALSE
