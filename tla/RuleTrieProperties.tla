-------------------------- MODULE RuleTrieProperties --------------------------
(***************************************************************************)
(* What looking up rules must achieve, stated over module RuleTrie.        *)
(***************************************************************************)
EXTENDS RuleTrie

Positions == DOMAIN rules

InForce(i, rev) == rules[i].min <= rev /\ rev <= rules[i].max

\* Is path p the path q or a directory above it?
AtOrAbove(p, q) == p \in {<< >>, q} \/ IsPrefix(Append(p, Slash), q)

\* Does rule i map into the subtree of the Git address t?
MapsInto(i, t) ==
  LET address == GitAddress(rules[i])
  IN  t = address \/ IsPrefix(IF Last(t) = Slash THEN t ELSE Append(t, Slash), address)

Disjoint(i, j) == rules[i].max < rules[j].min \/ rules[j].max < rules[i].min

NoOverlap(address(_)) ==
  \A i, j \in Positions :
    i # j /\ address(rules[i]) = address(rules[j]) => Disjoint(i, j)

SvnPath(r) == r.svn

-----------------------------------------------------------------------------
ByLastRevision(list) ==
  \A i, j \in DOMAIN list : i < j => rules[list[i]].max <= rules[list[j]].max

\* The type invariant, with the order lower_bound relies on.
TypeOK ==
  /\ rules \in Seq(Insertable)
  /\ \A T \in {trie, rtrie} : \A k \in DOMAIN T :
       T[k] \in Seq(Positions) /\ ByLastRevision(T[k])
  /\ transitionMap \in [0..Forever -> SUBSET Positions]
  /\ rejected \in BOOLEAN

\* Two nodes part at a node.
PartAtNodes(T) ==
  \A j, k \in DOMAIN T :
    \E b \in DOMAIN T : /\ IsPrefix(b, j) /\ IsPrefix(b, k)
                        /\ j = b \/ k = b \/ j[Len(b) + 1] # k[Len(b) + 1]

\* A node without a rule has several children.
HasChildren(T) ==
  \A b \in DOMAIN T \ {<< >>} : T[b] = << >> =>
    \E j, k \in DOMAIN T : /\ IsStrictPrefix(b, j) /\ IsStrictPrefix(b, k)
                           /\ j[Len(b) + 1] # k[Len(b) + 1]

\* Both trees are well-typed radix trees whatever the order of insertion: two
\* nodes part at a node, so that a child is determined by its first character
\* (patrie.hpp:364-369), and a node without a rule has several children.
RadixTree ==
  /\ TypeOK
  /\ \A T \in {trie, rtrie} : PartAtNodes(T) /\ HasChildren(T)

\* longest_match returns the rule in force for the longest path at or above the
\* one looked up, and no rule only if there is none, as long as the rules of
\* one SVN path are in force at different times.
MatchIsLongest ==
  NoOverlap(SvnPath) =>
    \A p \in Paths, v \in 0..Forever :
      LET m == LongestMatch(p, v)
          C == {i \in Positions : InForce(i, v) /\ AtOrAbove(rules[i].svn, p)}
      IN  IF C = {} THEN m = NoRule
          ELSE m \in C /\ \A i \in C : Len(rules[i].svn) <= Len(rules[m].svn)

Subpaths == {p \in Paths : Slash \notin ToSet(p)}

\* git_subtree_rules never returns a rule that is not in force or that maps
\* outside the subtree, such as one whose address only starts with the text; so
\* invalidate_svn_tree, when it deletes what a rule has at some suffix, marks no
\* SVN tree for conversion but that of the rule itself and those mapped into
\* what is deleted (importer.cpp:88-107).
SubtreeSound ==
  /\ \A t \in Addresses, v \in 0..Forever :
       \A i \in SubtreeRules(t, v) : InForce(i, v) /\ MapsInto(i, t)
  /\ \A r \in Positions, suffix \in Subpaths, v \in 0..Forever :
       \A tree \in TreesToConvert(rules[r], suffix, v) \ {Below(rules[r].svn, suffix)} :
         \E i \in Positions :
           /\ InForce(i, v) /\ rules[i].svn = tree /\ rules[i].ref = rules[r].ref
           /\ AtOrAbove(Below(rules[r].git, suffix), rules[i].git)

\* The rules invalidate_svn_tree finds when it deletes the whole tree of a rule.
FoundBelow(i, v) == SubtreeRules(InvalidatedAddress(rules[i], << >>), v)

\* Are there two rules whose addresses start with t and then differ?
PartAfter(t) ==
  \E j, k \in Positions :
    LET p == GitAddress(rules[j])
        q == GitAddress(rules[k])
    IN  IsStrictPrefix(t, p) /\ IsStrictPrefix(t, q) /\ p[Len(t) + 1] # q[Len(t) + 1]

\* What invalidate_svn_tree finds in the Git tree of a rule (importer.cpp:97-105),
\* as long as the rules of one address are in force at different times.  A rule
\* with the root of a branch finds the rules with that root, and none in its
\* subdirectories; a rule with a subdirectory finds all rules in force below that
\* subdirectory or none, and surely all if the address that is looked up, with the
\* slash at its end, is where two rules part.
SubtreeOfRule ==
  NoOverlap(GitAddress) =>
    \A i \in Positions, v \in 0..Forever :
      LET git == rules[i].git
          ofRef == {j \in Positions : InForce(j, v) /\ rules[j].ref = rules[i].ref}
          below == {j \in ofRef : IsPrefix(Append(git, Slash), rules[j].git)}
      IN  IF git = << >> THEN FoundBelow(i, v) = {j \in ofRef : rules[j].git = << >>}
          ELSE \/ FoundBelow(i, v) = below
               \/ FoundBelow(i, v) = {} /\ ~PartAfter(InvalidatedAddress(rules[i], << >>))

\* rules_in_transition returns exactly the rules whose being in force differs
\* between a revision and the one before it: SVN files that change their place
\* in Git without a change in SVN are found by nothing else
\* (importer.cpp:219-221).
TransitionsComplete ==
  \A v \in 2..Forever :
    transitionMap[v] = {i \in Positions : InForce(i, v) # InForce(i, v - 1)}

-----------------------------------------------------------------------------
(* The inductive invariant.                                                *)

\* Every rule is at the node of its text, and nothing else is.
AtNodes(T, text) ==
  /\ DOMAIN T \subseteq Seq(Chars) /\ << >> \in DOMAIN T
  /\ \A i \in Positions : text[i] \in DOMAIN T /\ i \in ToSet(T[text[i]])
  /\ \A k \in DOMAIN T : \A i \in ToSet(T[k]) : text[i] = k

TrieInv ==
  /\ RadixTree
  /\ AtNodes(trie, [i \in Positions |-> rules[i].svn])
  /\ AtNodes(rtrie, [i \in Positions |-> GitAddress(rules[i])])
  /\ \A v \in 0..Forever : transitionMap[v] = {i \in Positions : v \in Transitions(rules[i])}
=============================================================================
