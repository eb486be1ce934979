SPECIFICATION FairSpec
CONSTANTS
  Threads = {t1, t2}
  Durations <- AnyDuration
  MaxTick = 3
PROPERTY SleepersWake
CHECK_DEADLOCK FALSE
