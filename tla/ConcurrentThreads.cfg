SPECIFICATION Spec
CONSTANTS
  Lib = Lib
  Threads = {t1, t2}
  Concurrent = TRUE
  Interrupts = FALSE
  SleepSuffices = TRUE
  Jails = {"up", "none"}
  Failures = TRUE
  ProgramCodes = {9}
  LibraryCodes <- MCLibraryCodes
  Errnos = {0}
  MaxDepth = 2
SYMMETRY ThreadSymmetry
INVARIANTS OneSender NoLostWakeup NoBlockedWarning RequestsNotOverwritten
