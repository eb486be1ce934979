SPECIFICATION FairSpec
CONSTANTS
  Threads = {t1, t2, t3}
  Durations = {1, 2, 3}
  MaxTick = 6
INVARIANT SleepListConsistent
PROPERTIES ImplementsClock SleepersWake
CHECK_DEADLOCK FALSE
