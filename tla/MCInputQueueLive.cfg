SPECIFICATION FairSpec
CONSTANTS
  Threads = {t1, t2}
  Nul = nul
  Chars = {nul}
  IQUEUE_BUFSIZE = 3
PROPERTIES ReaderProgress LockReleased
CHECK_DEADLOCK TRUE
