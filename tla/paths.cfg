SPECIFICATION Spec
CONSTANTS
  Components = {0, 1, 2, 3, 9}
  AllPaths <- MCPaths
  Directories <- MCDirectories
  Origins <- MCOrigins
  Files <- MCFiles
  SvnRevs = {1}
  NoCopy = NoCopy
  CvsRoot = 9
INVARIANTS
  MinimalCover
  InnermostCopy
  PoolsInScope
  EachFileOnce
