SPECIFICATION Spec
CONSTANTS
  Procs = {p1, p2}
  First = p1
  NSect = 3
  NObj = 2
  MAX_FD = 3
  Makers = {p1}
  ArgFds = {1, 2}
  MaxOpen = 2
  Paths <- SomePaths
  Preempt = FALSE
  ForkShares = FALSE
  WildCount = FALSE
  WildDir = FALSE
INVARIANT NonEmptyKept
CHECK_DEADLOCK FALSE
