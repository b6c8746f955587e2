------------------------------ MODULE MCRuleTrie ------------------------------
(***************************************************************************)
(* Rules whose paths share prefixes inside a component and at its end, in  *)
(* force in revisions that follow each other, overlap or contain others.   *)
(***************************************************************************)
EXTENDS RuleTrieProperties, TLC

CONSTANTS a, b, R

MCChars == {a, b, R, Slash}

MCKinds == {[svn |-> << >>,          git |-> <<a, b>>],
            [svn |-> <<a>>,          git |-> <<a, Slash, b>>],
            [svn |-> <<a, Slash, b>>, git |-> << >>],
            [svn |-> <<a, Slash, a>>, git |-> <<a, Slash, a>>],
            [svn |-> <<a, b>>,       git |-> <<a>>]}

MCRanges == {<<1, 2>>, <<2, Forever>>, <<3, 3>>}

MCCandidates ==
  {[svn |-> k.svn, ref |-> R, git |-> k.git, min |-> v[1], max |-> v[2]] :
     k \in MCKinds, v \in MCRanges}

MCPaths == {<< >>, <<a>>, <<b>>, <<a, b>>, <<a, b, Slash, a>>, <<a, Slash, b>>,
            <<a, Slash, b, a>>, <<a, Slash, a, Slash, b>>}

MCAddresses == {<<R>>, <<R, a>>, <<R, a, Slash>>, <<R, a, b>>, <<R, a, Slash, b>>, <<R, b>>}
=============================================================================
