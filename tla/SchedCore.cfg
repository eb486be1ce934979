SPECIFICATION Spec
CONSTANTS
  Threads = {t1, t2, t3}
  Main = t1
  Idle = idle
  Locks = {tid, l1}
  TidLock = tid
  Semas = {s1}
  IntrSemas = {s1}
  Prio = {0, 1}
  NewPrio = {0}
  SetPrio = {}
  MainPrio = 1
  IdlePrio = 0
  TIME_SLICE = 1
  MaxValue = 1
  None = None
SYMMETRY Symmetry
INVARIANTS TypeOK ElemExclusive LockExclusive NoLostWakeup HaltOnlyWhenIdle
PROPERTY HolderHandover
CHECK_DEADLOCK FALSE
