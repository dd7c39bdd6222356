SPECIFICATION Spec
CONSTANTS
  Threads = {t1, t2, t3}
  None = None
  Modulus = 4
  tick_microseconds = 2
  Horizon = 16
  Interruptible <- Points
SYMMETRY Symmetry
INVARIANTS TypeOK RegistersKept FrameKept OwnGsOrNull
PROPERTY ImplementsScheduler
CHECK_DEADLOCK FALSE
