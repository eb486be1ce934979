SPECIFICATION KSpec
CONSTANTS
  Threads = {t1, t2}
  NPages = 3
  PGSIZE = 72
  Sizes = {10, 30, 60}
  MaxHeap = 4
  Keys = {0, 1, 2, 3, 5}
  Copies = {1, 2}
  MIN_BUCKETS = 1
  BEST_ELEMS_PER_BUCKET = 1
  Pool = {1, 2, 3, 4, 5, 6}
  UserFrames = {7, 8}
  Vas <- MCVas
  Indices = {0, 1}
  Users = {u1, u2}
  MThreads = {m1, m2}
  F = 128
  TIMER_FREQ = 2
  Nices <- MCNices
  MaxTicks = 5
  MaxCalls = 2
INVARIANT
  DonationOnlyBasic
CHECK_DEADLOCK FALSE
