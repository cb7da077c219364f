SPECIFICATION Spec
CONSTANTS
  Nodes <- MCNodes
  Graphs <- MCGraphs
CHECK_DEADLOCK FALSE
INVARIANTS OrderInv SearchType TimeInv LineInv PathInv RootInv OpenInv LowInv FoundInv SearchDone
