SPECIFICATION FairSpec
CONSTANTS
  Threads = {t1}
  Lib = Lib
  Functions <- MCFunctions
  Specials = {1, 60}
  Reserved = 1
  MaxAddress = 60
  Pages <- MCPages
  PageBytes = 7
  TrampolineBytes = 3
  MaxEntries = 5
CHECK_DEADLOCK FALSE
INVARIANTS CallsTheOriginal SpecialsKept TrampolinesFit
PROPERTIES InvocationEnds
