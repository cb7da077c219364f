SPECIFICATION Spec
CONSTANTS
  Vertices <- MCVertices
  Functions <- MCFunctions
  Programs <- Dense
CHECK_DEADLOCK FALSE
INVARIANTS ReachInv LayeredInv SharedInv
