------------------------------- MODULE RulesFile -------------------------------
(***************************************************************************)
(* Parsing the rules file: the grammar of src/src/parse_rules.cpp and the  *)
(* AST of src/src/AST.hpp.  A file is a sequence of blocks, one for each   *)
(* repository; a block has its clauses in the order of the file.  What is  *)
(* inside a clause is well formed, except that a list may be empty.        *)
(***************************************************************************)
EXTENDS Integers, Sequences, SequencesExt

CONSTANTS
  NoSubmodule,  \* a repository that is not in a super-module
  Absent,       \* a revision that is not written
  UintMax,      \* UINT_MAX
  Names,        \* names of repositories, numbers in place of strings
  RefNames,     \* names of branches and tags
  Submodules,   \* a super-module with a path in it
  Files         \* the rules files: sequences of blocks

\* The clauses of a repository, in the order the grammar demands.
Clauses == <<"submodule", "minrev", "maxrev", "content", "branches", "tags">>

VARIABLES
  parsing,  \* "parsing", "parsed" or "failed"
  file,     \* the blocks that are not parsed yet
  ast       \* the repository rules, ordered by name

fileVars == <<parsing, file, ast>>

FileInit == parsing = "parsing" /\ file \in Files /\ ast = << >>

-----------------------------------------------------------------------------
Rank(clause) == CHOOSE i \in DOMAIN Clauses : Clauses[i] = clause.kind

\* Every clause is optional and comes once, in its place, and a list has at least
\* one member.
WellFormed(b) ==
  /\ \A i, j \in DOMAIN b.clauses : i < j => Rank(b.clauses[i]) < Rank(b.clauses[j])
  /\ \A i \in DOMAIN b.clauses :
       b.clauses[i].kind \in {"content", "branches", "tags"} => b.clauses[i].value # << >>

ValueOf(b, kind, default) ==
  LET found == {i \in DOMAIN b.clauses : b.clauses[i].kind = kind}
  IN  IF found = {} THEN default ELSE b.clauses[CHOOSE i \in found : TRUE].value

Default(n, default) == IF n = Absent THEN default ELSE n

\* branch_
BranchRules(b, kind) ==
  LET list == ValueOf(b, kind, << >>)
  IN  [i \in DOMAIN list |->
         [list[i] EXCEPT !.min = Default(@, 0), !.max = Default(@, UintMax)]]

\* repository_
RepoRuleOf(b) ==
  [abstract |-> b.abstract, name |-> b.name, bases |-> b.bases,
   submodule |-> ValueOf(b, "submodule", NoSubmodule),
   minrev |-> ValueOf(b, "minrev", 0), maxrev |-> ValueOf(b, "maxrev", UintMax),
   content |-> ValueOf(b, "content", << >>),
   branches |-> BranchRules(b, "branches"), tags |-> BranchRules(b, "tags")]

\* The multiset of RepoRuleByName: behind the rules with the same name.
Inserted(rule) ==
  InsertAt(ast, Min({i \in DOMAIN ast : ast[i].name > rule.name} \cup {Len(ast) + 1}), rule)

\* A block is parsed when it starts with "repository"; from then on an error is
\* an exception.
ParseRepository ==
  /\ parsing = "parsing" /\ file # << >> /\ Head(file).keyword
  /\ IF WellFormed(Head(file))
     THEN ast' = Inserted(RepoRuleOf(Head(file))) /\ file' = Tail(file) /\ UNCHANGED parsing
     ELSE parsing' = "failed" /\ UNCHANGED <<file, ast>>

\* At anything else phrase_parse returns, and what is left is not looked at; only
\* the first repository is expected.
ParseEnds ==
  /\ parsing = "parsing" /\ (file # << >> => ~Head(file).keyword)
  /\ parsing' = IF ast = << >> THEN "failed" ELSE "parsed"
  /\ UNCHANGED <<file, ast>>

Parse == ParseRepository \/ ParseEnds
=============================================================================
