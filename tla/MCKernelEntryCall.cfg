SPECIFICATION Spec
CONSTANTS
  Threads = {t1, t2}
  None = None
  Modulus = 8
  tick_microseconds = 2
  Horizon = 16
  Interruptible <- CallPoints
INVARIANT StubFindsGs
CHECK_DEADLOCK FALSE
