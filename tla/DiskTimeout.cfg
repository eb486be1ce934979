SPECIFICATION Spec
CONSTANTS
  Threads = {t1, t2}
  Main = t1
  Kinds <- SlowKinds
  Sectors = {0}
  Values = {v1, v2}
  MaxSpurious = 1
  Readers = {r1}
  Writers = {w1, w2}
  INTQ_BUFSIZE = 3
  MaxIntr = 1
INVARIANT
  WaitedUntilIdle
CHECK_DEADLOCK FALSE
