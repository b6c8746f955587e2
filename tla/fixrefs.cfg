SPECIFICATION Spec
CONSTANTS
  p = p
  q = q
  Repos = {1, 2, 3}
  NoRepo = NoRepo
  Paths = {p, q}
  Marks = {1, 2, 3}
  NotANumber = NotANumber
  Shas <- MCShas
  Garbage = Garbage
  Buffer = 2
  Target = 1
  Rulesets <- MCRulesets
  MarksFiles <- MCMarksFiles
  Streams <- MCStreams
INVARIANTS
  MarksComplete
  CopiedInPlace
  HashOfOwner
  SameSubmodules
