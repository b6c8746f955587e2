------------------------------- MODULE RuleTrie -------------------------------
(***************************************************************************)
(* The rules of a conversion, looked up by SVN path and by Git address:    *)
(* src/src/patrie.hpp with the Rule of src/src/rule.hpp.                   *)
(*                                                                         *)
(* A patrie keeps two radix trees.  trie finds the rule that maps an SVN   *)
(* path: the longest matching one that is in force in a revision.  rtrie   *)
(* finds the rules that map into a subtree of a Git address.  A node of a  *)
(* radix tree is known by the text from the root to it, so a tree is a     *)
(* function from those texts to the rules of the node, ordered by their    *)
(* last revision; a rule is known by its position in the deque rules.      *)
(***************************************************************************)
EXTENDS Integers, Sequences, FiniteSets, SequencesExt, TLC

CONSTANTS
  Chars,       \* the characters of paths and addresses
  Slash,       \* the character that separates the components of a path
  Candidates,  \* the rules a ruleset may have: [svn, ref, git, min, max]
  Paths,       \* the SVN paths that are looked up
  Addresses,   \* the Git addresses whose subtrees are looked up
  Forever,     \* UINT_MAX: the last revision of a rule without an end
  MaxRules     \* bound: the rules of one ruleset

Rule == [svn : Seq(Chars), ref : Chars, git : Seq(Chars),
         min : 0..Forever, max : 0..Forever]

\* A ref stands for "<repo>:<ref>:", which neither ends in a slash nor is the
\* prefix of another one.  Ruleset never inserts a rule with min > max, and a path
\* starts with no slash.
Insertable ==
  {r \in Rule : r.min <= r.max /\ r.ref # Slash /\ ~IsPrefix(<<Slash>>, r.git)}

ASSUME RuleAssumption ==
  /\ Slash \in Chars /\ Forever \in Nat /\ MaxRules \in Nat
  /\ Candidates \subseteq Insertable
  /\ Paths \subseteq Seq(Chars) /\ Addresses \subseteq Seq(Chars) \ {<< >>}

VARIABLES
  rules,          \* the deque of rules
  trie, rtrie,    \* the radix trees: text of a node -> positions in rules
  transitionMap,  \* transition_map: revision -> positions in rules
  rejected        \* has report_overlap thrown?

vars == <<rules, trie, rtrie, transitionMap, rejected>>

NewNode == << >>

Init ==
  /\ rules = << >>
  /\ trie = [k \in {<< >>} |-> NewNode] /\ rtrie = [k \in {<< >>} |-> NewNode]
  /\ transitionMap = [v \in 0..Forever |-> {}]
  /\ rejected = FALSE

GitAddress(r) == <<r.ref>> \o r.git

-----------------------------------------------------------------------------
(* The rules of one node.                                                  *)

\* Mutant: upper_bound in place of lower_bound.
FindRevisionAfter(list, rev) ==
  Min({i \in 1..Len(list) : rules[list[i]].max > rev} \cup {Len(list) + 1})

\* find_revision: lower_bound by the last revision of the rules.
FindRevision(list, rev) ==
  Min({i \in 1..Len(list) : rules[list[i]].max >= rev} \cup {Len(list) + 1})

NoRule == 0

FindRule(list, rev) ==
  LET i == FindRevision(list, rev)
  IN  IF i <= Len(list) /\ rules[list[i]].min <= rev THEN list[i] ELSE NoRule

\* What full_match of the inserting visitor takes for an overlap.
Overlaps(list, r) ==
  LET i == FindRevision(list, r.max)
  IN  i <= Len(list) /\ rules[list[i]].min <= r.max

-----------------------------------------------------------------------------
(* insert                                                                  *)

\* The part of text that traverse can follow in tree T.
Matched(T, text) ==
  SubSeq(text, 1, Max({n \in 0..Len(text) :
    \E k \in DOMAIN T : IsPrefix(SubSeq(text, 1, n), k)}))

\* Mutant: partial_match does not split the node.
WithNodeUnsplit(T, text) ==
  [k \in DOMAIN T \cup {text} |-> IF k \in DOMAIN T THEN T[k] ELSE NewNode]

\* nomatch adds a node for text; partial_match first splits the node in which
\* the match ends.
WithNode(T, text) ==
  [k \in DOMAIN T \cup {Matched(T, text), text} |->
     IF k \in DOMAIN T THEN T[k] ELSE NewNode]

WithRule(T, text, r) ==
  [WithNode(T, text) EXCEPT
     ![text] = InsertAt(@, FindRevision(@, r.max), Len(rules) + 1)]

\* Mutant: a rule expires with its last revision.
TransitionsEarly(r) ==
  (IF r.min > 1 THEN {r.min} ELSE {}) \cup (IF r.max < Forever THEN {r.max} ELSE {})

\* The revisions in which the rule comes into force or expires.
Transitions(r) ==
  (IF r.min > 1 THEN {r.min} ELSE {}) \cup (IF r.max < Forever THEN {r.max + 1} ELSE {})

\* The exception of report_overlap destroys the ruleset under construction.
Insert(r) ==
  /\ ~rejected /\ Len(rules) < MaxRules
  /\ IF r.svn \in DOMAIN trie /\ Overlaps(trie[r.svn], r)
     THEN /\ rejected' = TRUE
          /\ UNCHANGED <<rules, trie, rtrie, transitionMap>>
     ELSE /\ rules' = Append(rules, r)
          /\ trie' = WithRule(trie, r.svn, r)
          /\ rtrie' = WithRule(rtrie, GitAddress(r), r)
          /\ transitionMap' = [v \in 0..Forever |->
               transitionMap[v] \cup IF v \in Transitions(r) THEN {Len(rules) + 1} ELSE {}]
          /\ UNCHANGED rejected

Next == \E r \in Candidates : Insert(r)

Spec == Init /\ [][Next]_vars

-----------------------------------------------------------------------------
(* Looking rules up.                                                       *)

\* Mutant: a match may end inside a component.
OnAnyCharacter(k, text) == IsPrefix(k, text)

\* A match counts at the end of a component only.
OnBoundary(k, text) ==
  IsPrefix(k, text) /\ (k \in {<< >>, text} \/ text[Len(k) + 1] = Slash)

LongestMatch(path, rev) ==
  LET found == {k \in DOMAIN trie : OnBoundary(k, path) /\ FindRule(trie[k], rev) # NoRule}
  IN  IF found = {} THEN NoRule
      ELSE FindRule(trie[CHOOSE k \in found : \A j \in found : Len(j) <= Len(k)], rev)

\* Mutant: no slash is required below the node.
BeneathText(k, text) == IsPrefix(text, k)

\* subtree_search_visitor: nothing is found unless the text ends at a node;
\* the nodes below it must continue with a slash, unless it ends in one.
Beneath(k, text) ==
  IsPrefix(text, k) /\ (k = text \/ Last(text) = Slash \/ k[Len(text) + 1] = Slash)

EndsAtNode(text) == text \in DOMAIN rtrie

SubtreeRules(text, rev) ==
  IF ~EndsAtNode(text) THEN {}
  ELSE {FindRule(rtrie[k], rev) : k \in {j \in DOMAIN rtrie : Beneath(j, text)}} \ {NoRule}

\* svn_subtree_rules searches rtrie, as git_subtree_rules does.
SvnSubtreeRules(path, rev) == SubtreeRules(path, rev)

\* The address whose subtree importer::invalidate_svn_tree looks up for a rule.
InvalidatedAddress(r, suffix) ==
  GitAddress(r) \o (IF r.git = << >> THEN << >> ELSE <<Slash>>) \o suffix

\* operator/ of path
Below(p, q) == IF << >> \in {p, q} THEN p \o q ELSE p \o <<Slash>> \o q

\* The SVN trees that invalidate_svn_tree marks for conversion when it deletes
\* what rule r has at suffix.
TreesToConvert(r, suffix, rev) ==
  {Below(r.svn, suffix)}
  \cup {rules[i].svn : i \in SubtreeRules(InvalidatedAddress(r, suffix), rev)}
=============================================================================
