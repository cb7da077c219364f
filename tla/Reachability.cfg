SPECIFICATION FairSpec
CONSTANTS
  Vertices <- MCVertices
  Functions <- MCFunctions
  Programs <- MCPrograms
CHECK_DEADLOCK FALSE
INVARIANTS SearchComplete NothingElseMarked FirstPassExact SecondPassExact
PROPERTIES PassesEnd
