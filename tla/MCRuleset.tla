------------------------------- MODULE MCRuleset -------------------------------
(***************************************************************************)
(* Files of up to three blocks: an abstract repository and its users,      *)
(* bases of bases, in a circle, missing or twice, branches that overlap,   *)
(* repositories in several rules, super-modules, and errors of grammar.    *)
(***************************************************************************)
EXTENDS RulesetProperties

CONSTANTS a, b, lib, super, top, sub

MCBranch(min, max, svn) == [min |-> min, max |-> max, svn |-> svn, name |-> top]
MCContent == [kind |-> "content", value |-> <<[svn |-> <<b, Slash>>, git |-> <<Slash>>]>>]
MCBranches(list) == [kind |-> "branches", value |-> list]
MCTags(list) == [kind |-> "tags", value |-> list]
MCSubmodule(p) == [kind |-> "submodule", value |-> <<super, p>>]
MCMin(n) == [kind |-> "minrev", value |-> n]
MCMax(n) == [kind |-> "maxrev", value |-> n]

MCBlock(abstract, name, bases, clauses) ==
  [keyword |-> TRUE, abstract |-> abstract, name |-> name, bases |-> bases, clauses |-> clauses]

MCBlocks ==
  { MCBlock(TRUE, 1, << >>, <<MCBranches(<<MCBranch(Absent, 1, <<a>>), MCBranch(2, Absent, <<a>>)>>)>>),
    MCBlock(TRUE, 1, << >>, <<MCContent, MCTags(<<MCBranch(1, Absent, <<Slash, a, b>>)>>)>>),
    MCBlock(FALSE, 1, <<2>>, <<MCBranches(<<MCBranch(Absent, Absent, <<b>>)>>)>>),
    MCBlock(FALSE, 2, <<1>>, <<MCSubmodule(lib), MCMin(2), MCContent>>),
    MCBlock(FALSE, 2, <<1>>, <<MCMax(1)>>),
    MCBlock(FALSE, 2, << >>, <<MCSubmodule(lib), MCTags(<<MCBranch(Absent, Absent, <<b>>)>>)>>),
    MCBlock(FALSE, 2, << >>, <<MCSubmodule(sub)>>),
    MCBlock(FALSE, 3, <<2>>, <<MCMin(1), MCMax(2)>>),
    MCBlock(FALSE, 3, <<1, 2>>, <<MCContent>>),
    MCBlock(FALSE, 3, << >>, <<MCMax(1), MCMin(2)>>),
    MCBlock(FALSE, 3, << >>, <<MCTags(<< >>)>>),
    [MCBlock(FALSE, 3, << >>, << >>) EXCEPT !.keyword = FALSE] }

MCFiles == UNION {[1..n -> MCBlocks] : n \in 1..3}

MCNames == 1..3
MCRefNames == {top}
MCSubmodules == {super} \X {lib, sub}

MCChars == {a, b, Slash} \cup ({1, 2, 3} \X ({"branches", "tags"} \X {top}))
MCPaths == {<<a>>, <<b>>, <<a, Slash, b>>, <<a, b>>}
=============================================================================
