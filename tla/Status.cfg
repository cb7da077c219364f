SPECIFICATION FairSpec
CONSTANTS
  main = main
  fork1 = fork1
  fork2 = fork2
  Procs <- MCProcs
  Main = main
  Modes = {TRUE, FALSE}
  SleepSuffices = TRUE
  ExitsOverlap = {FALSE}
  Kills = {FALSE}
  LibraryCrashes = {FALSE}
INVARIANTS NotRemovedInUse
PROPERTIES GoneIsRemoved GoneMutexRemoved CallersReleased
