SPECIFICATION Spec
CONSTANTS
  a = a
  b = b
  R = R
  Slash = Slash
  Chars <- MCChars
  Candidates <- MCCandidates
  Paths <- MCPaths
  Addresses <- MCAddresses
  Forever = 4
  MaxRules = 4
INVARIANTS
  TrieInv
  MatchIsLongest
  SubtreeSound
  
  TransitionsComplete
CHECK_DEADLOCK FALSE
