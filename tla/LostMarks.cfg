SPECIFICATION Spec
CONSTANTS
  Vertices <- MCVertices
  Functions <- MCFunctions
  Programs <- Layered
CHECK_DEADLOCK FALSE
INVARIANT MarksFollowed
