SPECIFICATION Spec
CONSTANTS
  boost = boost
  lib = lib
  master = master
  develop = develop
  NoRepo = NoRepo
  NoRef = NoRef
  NoRule = NoRule
  NoTree = NoTree
  Repos = {boost, lib}
  Names = {master, develop}
  SuperModule <- MCSuperModule
  Files <- MCFiles
  Paths <- MCGitPaths
  RootPath <- Root
  Under <- MCUnder
  SvnPaths <- MCSvnPaths
  SvnFiles <- MCSvnFiles
  Within <- MCWithin
  Moved <- PathMoved
  Rules <- MCRules
  GitPath <- MCGitPath
  GitSubtree <- SameAddress
  SvnSubtree <- NothingFound
  Changes <- MCChanges
  Contents = {1}
  GitAttributes = TRUE
  MaxRev = 2
  MaxChanges = 3
  PassLimit = 6
INVARIANTS
  PassFindsCommit
  LsInStep
  LinksFresh
  NothingLeftOver
PROPERTIES
  KeepsPromise
