SPECIFICATION Spec
CONSTANTS
  lib = lib
  other = other
  master = master
  develop = develop
  NoRepo = NoRepo
  NoRef = NoRef
  NoRule = NoRule
  NoTree = NoTree
  Repos = {lib, other}
  Names = {master, develop}
  SuperModule <- MCSuperModule
  Files <- MCFiles
  Paths <- MCGitPaths
  RootPath <- Root
  Under <- MCUnder
  SvnPaths <- MCSvnPaths
  SvnFiles <- MCSvnFiles
  Within <- MCWithin
  Moved <- PathMoved
  Rules <- MCRules
  GitPath <- MCGitPath
  GitSubtree <- SameAddress
  SvnSubtree <- NothingFound
  Changes <- MCChanges
  Contents = {1}
  GitAttributes = TRUE
  MaxRev = 3
  MaxChanges = 2
  PassLimit = 6
INVARIANTS
  AncestorsSurvive
  MergeSourceFound
  Mirror
PROPERTIES
  PastIsFinal
