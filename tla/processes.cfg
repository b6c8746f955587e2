SPECIFICATION FairSpec
CONSTANTS
  r1 = r1
  r2 = r2
  r3 = r3
  Repos <- MCRepos
  Importer = svn2git
  Capacity = 1
  MaxWritten <- MCMaxWritten
  MaxFaults = 1
INVARIANTS
  StreamsInv
  DeathIsSeen
  EverythingRead
PROPERTIES
  Terminates
  NoneLeftBehind
CHECK_DEADLOCK FALSE
