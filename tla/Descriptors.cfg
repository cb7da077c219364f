SPECIFICATION Spec
SYMMETRY FileSymmetry
CONSTANTS
  main = main
  worker = worker
  handler = handler
  Threads <- OneEach
  ProcOf <- MCProcOf
  Concurrent = FALSE
  Files = {f1, f2, f3, f4}
  NoFile = NoFile
  f1 = f1
  f2 = f2
  f3 = f3
  f4 = f4
  Opener <- MCOpener
  Std = {0}
  MaxFD = 3
INVARIANTS
  SharedIsSame
  TablesAgree
  NoStrayDuplicate
