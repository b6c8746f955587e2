SPECIFICATION FairSpec
CONSTANTS
  boost = boost
  lib1 = lib1
  lib2 = lib2
  master = master
  NoRepo = NoRepo
  NoRef = NoRef
  NoRule = NoRule
  NoTree = NoTree
  Repos = {boost, lib1, lib2}
  Names = {master}
  SuperModule <- MCSuperModule
  Files <- MCFiles
  Paths <- MCGitPaths
  RootPath <- Root
  Under <- MCUnder
  SvnPaths <- MCSvnPaths
  SvnFiles <- MCSvnFiles
  Within <- MCWithin
  Moved <- PathMoved
  Rules <- MCRules
  GitPath <- MCGitPath
  GitSubtree <- SameAddress
  SvnSubtree <- NothingFound
  Changes <- MCChanges
  Contents = {1}
  GitAttributes = TRUE
  MaxRev = 2
  MaxChanges = 3
  PassLimit = 6
INVARIANTS
  TreesInv
  AttributesKept
PROPERTIES
  DropsOnlyRepeats
  RevisionCompletes
