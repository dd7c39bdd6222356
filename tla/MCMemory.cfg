SPECIFICATION Spec
CONSTANTS
  e1 = e1
  e2 = e2
  e3 = e3
  e4 = e4
  nil = nil
  Junk = Junk
INVARIANTS HeapSound PagesAccounted ProgramLoaded StringFunctions Formatting
PROPERTIES ListsAreSequences OnlyAsked
CHECK_DEADLOCK FALSE
