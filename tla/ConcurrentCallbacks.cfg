SPECIFICATION Spec
CONSTANTS
  Threads = {t1,t2}
  Lib = Lib
  Functions <- MCTwoFunctions
  Specials = {1}
  Reserved = 1
  MaxAddress = 60
  Pages = {20}
  PageBytes = 30
  TrampolineBytes = 3
  MaxEntries = 5
CHECK_DEADLOCK FALSE
INVARIANT CallsTheOriginal

