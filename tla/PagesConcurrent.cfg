SPECIFICATION Spec
SYMMETRY SlotSymmetry
CHECK_DEADLOCK FALSE
CONSTANTS
  program = program
  library = library
  thread = thread
  NoThread = NoThread
  NoSlot = NoSlot
  Threads <- Sides
  ProcOf <- SidesProc
  Procs <- Sides
  Concurrent = TRUE
  MayShrink = FALSE
  TruncateFails = TRUE
  Slots = {s1, s2}
  Counts = {1, 3}
  Width = 4
  Elements = 2
  Reserved = 5
INVARIANTS
  MetadataKept
  NoLeak
  FoundRunFree
