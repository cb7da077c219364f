SPECIFICATION FairSpec
CONSTANTS
  Nodes <- MCNodes
  Graphs <- MCGraphs
CHECK_DEADLOCK FALSE
PROPERTIES ComponentsInOrder ListsCalleesFirst AllListed
