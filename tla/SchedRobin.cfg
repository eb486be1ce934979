SPECIFICATION FairSpec
CONSTANTS
  Threads = {t1, t2, t3}
  Main = t1
  Idle = idle
  Locks = {tid}
  TidLock = tid
  Semas = {s1}
  IntrSemas = {s1}
  Prio = {0, 1}
  NewPrio = {1}
  SetPrio = {1}
  MainPrio = 1
  IdlePrio = 0
  TIME_SLICE = 2
  MaxValue = 1
  None = None
PROPERTY ReadyRuns
