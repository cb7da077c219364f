SPECIFICATION FairSpec
CONSTANTS
  Lib = Lib
  Threads = {t1}
  Concurrent = TRUE
  Interrupts = FALSE
  SleepSuffices = TRUE
  Jails = {"up", "none"}
  Failures = TRUE
  ProgramCodes <- MCProgramCodes
  LibraryCodes <- MCLibraryCodes
  Errnos = {0, 1}
  MaxDepth = 2

INVARIANTS DataIntact ErrnoTravels
PROPERTIES BehavesLocally CallsReturn LibraryDeathNoticed ProgramDeathNoticed SemaphoresRemoved LibraryExceptionReported
