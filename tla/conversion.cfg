SPECIFICATION FairSpec
CONSTANTS
  Repos = {"boost", "lib"}
  NoRepo = NoRepo
  Boost = "boost"
  MaxRev = 2
  Editions = {0, 1, 2, 3, 4, 5, 6}
  RepositoriesIn <- MCRepositoriesIn
  ThrowsAt <- MCThrowsAt
  ReportsAt <- MCReportsAt
  Writes <- MCWrites
  HostsOf <- MCHostsOf
  Uncleanable <- MCUncleanable
  MaxBuilds = 3
  MaxEdits = 1
  MaxFaults = 2
INVARIANTS
  ExitStatusHonest
PROPERTIES
  HostsAgree
  PushesWhole
  Recovers
CHECK_DEADLOCK FALSE
