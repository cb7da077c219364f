SPECIFICATION Spec
CONSTANTS
  Lib = Lib
  Threads = {t1}
  Concurrent = TRUE
  Interrupts = FALSE
  SleepSuffices = FALSE
  Jails = {"up", "none"}
  Failures = TRUE
  ProgramCodes <- MCProgramCodes
  LibraryCodes <- MCLibraryCodes
  Errnos = {0, 1}
  MaxDepth = 3

INVARIANTS TypeOK OneThreadInv ReturnIsMine
