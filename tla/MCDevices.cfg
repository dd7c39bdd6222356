SPECIFICATION Spec
CONSTANTS
  t1 = t1
  t2 = t2
  t3 = t3
  nil = nil
INVARIANTS OutputTogether KeysArrive
PROPERTIES NvmeInStep ControllerReady ShowsText CallsReturn SleepReturns BootInterrupts ThreadsSound
CHECK_DEADLOCK FALSE
