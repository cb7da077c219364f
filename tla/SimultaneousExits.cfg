SPECIFICATION FairSpec
CONSTANTS
  main = main
  fork1 = fork1
  fork2 = fork2
  Procs <- MCProcs
  Main = main
  Modes = {TRUE}
  SleepSuffices = TRUE
  ExitsOverlap = {TRUE}
  Kills = {}
  LibraryCrashes = {}
PROPERTIES GoneIsRemoved
