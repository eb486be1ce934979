SPECIFICATION Spec
CONSTANTS
  Threads = {t1, t2, t3}
  Main = t1
  Idle = idle
  Locks = {tid, l1}
  TidLock = tid
  Semas = {s1}
  IntrSemas = {s1}
  Prio = {0, 1, 2, 3}
  NewPrio = {2}
  SetPrio = {3}
  MainPrio = 1
  IdlePrio = 0
  TIME_SLICE = 1
  MaxValue = 1
  None = None
SYMMETRY Symmetry
INVARIANT NeverBelowOwn
CHECK_DEADLOCK FALSE
