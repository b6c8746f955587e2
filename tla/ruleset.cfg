SPECIFICATION RulesetSpec
CONSTANTS
  a = a
  b = b
  lib = lib
  super = super
  top = top
  sub = sub
  Slash = Slash
  NoSubmodule = NoSubmodule
  Absent = Absent
  UintMax = 3
  Forever = 3
  Files <- MCFiles
  Names <- MCNames
  RefNames <- MCRefNames
  Submodules <- MCSubmodules
  Chars <- MCChars
  Candidates = {}
  Paths <- MCPaths
  Addresses = {}
  MaxRules = 16
INVARIANTS
  RulesComplete
  LegalAccepted
  SuperModulesAgree
  CoverageSound
