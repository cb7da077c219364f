SPECIFICATION Spec
CONSTANTS
  Lib = Lib
  Threads = {t1, t2}
  Concurrent = TRUE
  Interrupts = TRUE
  SleepSuffices = TRUE
  Jails = {"up"}
  Failures = FALSE
  ProgramCodes <- MCProgramCodes
  LibraryCodes <- MCLibraryCodes
  Errnos = {0}
  MaxDepth = 1
INVARIANTS OneSender
