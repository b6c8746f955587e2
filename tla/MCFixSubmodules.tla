---------------------------- MODULE MCFixSubmodules ----------------------------
(***************************************************************************)
(* A super-module, 1, and two repositories.  Their rules come twice, in    *)
(* another order, with conflicts or without; their marks files have        *)
(* lines out of order, twice, malformed or cut off; and the stream has     *)
(* submodules as lines and as data, and may be cut off.                    *)
(***************************************************************************)
EXTENDS FixSubmodulesProperties, TLC

CONSTANTS p, q

MCRule(a, n, r, x) == [abstract |-> a, name |-> n, inRepo |-> r, path |-> x]

MCTop == MCRule(FALSE, 1, NoRepo, p)
MCRulesets ==
  {<<MCTop, MCRule(FALSE, 2, 1, x), MCRule(FALSE, 3, r, q)>> : x \in {p, q}, r \in {1, 2}}
  \cup {<<MCTop, MCRule(FALSE, 2, 1, p), MCRule(FALSE, 2, r, x)>> : x \in {p, q}, r \in {1, 3, NoRepo}}
  \cup {<<MCRule(FALSE, 3, 1, p), MCRule(TRUE, 2, 1, q)>>, <<MCRule(FALSE, 2, NoRepo, p)>>}

MCLine(m, r) == [colon |-> TRUE, mark |-> m, sha |-> <<r, m>>, newline |-> TRUE]
MCBad(r) == {[MCLine(2, r) EXCEPT !.colon = FALSE], [MCLine(2, r) EXCEPT !.newline = FALSE],
             [MCLine(2, r) EXCEPT !.mark = NotANumber]}
MCGood(r) == {<< >>, <<MCLine(1, r), MCLine(2, r), MCLine(3, r)>>, <<MCLine(3, r), MCLine(1, r)>>}
MCAny(r) ==
  MCGood(r) \cup {<<MCLine(1, r), MCLine(1, r)>>}
  \cup {<<b, MCLine(3, r)>> : b \in MCBad(r)} \cup {<<MCLine(3, r), b>> : b \in MCBad(r)}
  \cup {<<b>> : b \in MCBad(r)}
MCMarksFiles ==
  {(1 :> << >>) @@ (2 :> f) @@ (3 :> g) : f \in MCAny(2), g \in MCGood(3)}

MCShas == Repos \X Marks

MCGitlink(m, x) == [kind |-> "gitlink", mark |-> m, path |-> x]
MCData == {[kind |-> "data", length |-> 2], [kind |-> "data", length |-> 3]}
MCUnits ==
  {MCGitlink(1, p), MCGitlink(2, p), MCGitlink(3, q), MCGitlink(NotANumber, p),
   [kind |-> "line"]} \cup MCData
MCStreams ==
  UNION {[1..n -> MCUnits] : n \in 1..2}
  \cup {<<d, u, MCGitlink(1, p), v>> : d \in MCData, u \in MCUnits,
                                        v \in {MCGitlink(2, p), MCGitlink(3, q)}}
=============================================================================
