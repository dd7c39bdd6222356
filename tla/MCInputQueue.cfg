SPECIFICATION Spec
CONSTANTS
  Threads = {t1, t2, t3}
  Nul = nul
  Chars = {nul, a}
  IQUEUE_BUFSIZE = 3
SYMMETRY Symmetry
INVARIANTS TypeOK MutualExclusion HandlerNeverWaits
PROPERTY ImplementsFifo
CHECK_DEADLOCK TRUE
