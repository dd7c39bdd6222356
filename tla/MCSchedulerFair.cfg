SPECIFICATION FairSpec
CONSTANTS
  Threads = {t1, t2, t3}
  None = None
  Modulus = 12
  tick_microseconds = 2
  Horizon = 12
INVARIANT FairShare
PROPERTY EveryThreadRuns
CHECK_DEADLOCK TRUE
