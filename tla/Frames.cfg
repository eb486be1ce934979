SPECIFICATION Spec
CONSTANTS
  NProcs = 3
  Machines <- AllMachines
  MaxTable = 4
  Written = {1}
  ForkRaces = FALSE
  Reuse = FALSE
  ParentWrites = FALSE
INVARIANTS
  MemoryKept
  FramesConsistent
PROPERTY
  SecondChance
CHECK_DEADLOCK FALSE
