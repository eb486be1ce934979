SPECIFICATION Spec
CONSTANTS
  Threads = {t1, t2}
  Main = t1
  Kinds <- AllKinds
  Sectors = {0}
  Values = {v1, v2}
  MaxSpurious = 1
  Readers = {r1, r2}
  Writers = {w1, w2}
  INTQ_BUFSIZE = 3
  MaxIntr = 1
INVARIANT
  WaitAsserted
CHECK_DEADLOCK FALSE
