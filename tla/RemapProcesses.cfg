SPECIFICATION Spec
CHECK_DEADLOCK FALSE
CONSTANTS
  program = program
  library = library
  thread = thread
  NoThread = NoThread
  NoSlot = NoSlot
  Threads <- Sides
  ProcOf <- SidesProc
  Procs <- Sides
  Concurrent = TRUE
  MayShrink = FALSE
  TruncateFails = FALSE
  Slots = {s1, s2}
  Counts = {1, 4}
  Width = 4
  Elements = 3
  Reserved = 5
INVARIANTS
  RemapSucceeds
