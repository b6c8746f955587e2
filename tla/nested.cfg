SPECIFICATION FairSpec
CONSTANTS
  top = top
  middle = middle
  lib = lib
  master = master
  NoRepo = NoRepo
  NoRef = NoRef
  NoRule = NoRule
  NoTree = NoTree
  Repos = {top, middle, lib}
  Names = {master}
  SuperModule <- MCSuperModule
  Files <- MCFiles
  Paths <- MCGitPaths
  RootPath <- Root
  Under <- MCUnder
  SvnPaths <- MCSvnPaths
  SvnFiles <- MCSvnFiles
  Within <- MCWithin
  Moved <- PathMoved
  Rules <- MCRules
  GitPath <- MCGitPath
  GitSubtree <- SameAddress
  SvnSubtree <- NothingFound
  Changes <- MCChanges
  Contents = {1}
  GitAttributes = TRUE
  MaxRev = 2
  MaxChanges = 2
  PassLimit = 4
PROPERTIES
  RevisionEnds
