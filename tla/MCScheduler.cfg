SPECIFICATION Spec
CONSTANTS
  Threads = {t1, t2, t3, t4}
  None = None
  Modulus = 16
  tick_microseconds = 2
  Horizon = 32
SYMMETRY Symmetry
INVARIANTS TypeOK OneRunning ContextIsCurrents MinRuntimeFound
CHECK_DEADLOCK TRUE
