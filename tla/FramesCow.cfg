SPECIFICATION Spec
CONSTANTS
  NProcs = 3
  Machines <- ForkOnly
  MaxTable = 4
  Written = {1}
  ForkRaces = FALSE
  Reuse = FALSE
  ParentWrites = TRUE
INVARIANT
  MemoryKept
CHECK_DEADLOCK FALSE
