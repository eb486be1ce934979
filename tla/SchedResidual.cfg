SPECIFICATION Spec
CONSTANTS
  Threads = {t1, t2}
  Main = t1
  Idle = idle
  Locks = {tid, l1}
  TidLock = tid
  Semas = {}
  IntrSemas = {}
  Prio = {0, 1, 2}
  NewPrio = {2}
  SetPrio = {}
  MainPrio = 1
  IdlePrio = 0
  TIME_SLICE = 1
  MaxValue = 1
  None = None
SYMMETRY Symmetry
INVARIANT DonationReturned
CHECK_DEADLOCK FALSE
