-------------------------------- MODULE Ruleset --------------------------------
(***************************************************************************)
(* From the rules file to the rules in force: the constructor of Ruleset   *)
(* (src/src/ruleset.cpp), which expands the AST and inserts every          *)
(* combination of a branch or tag with a content rule into the rule trie;  *)
(* the super-modules set by the constructor of importer; and the coverage  *)
(* of the rules by lookups (src/src/coverage.cpp), with --coverage given.  *)
(***************************************************************************)
EXTENDS RulesFile, RuleTrie

ASSUME ForeverAssumption == UintMax = Forever

\* What a file can say: everything that the grammar lets pass, or stops at.
Revisions == 0..UintMax
ContentRules == [svn : Seq(Chars), git : Seq(Chars)]
BranchClauses == [min : Revisions \cup {Absent}, max : Revisions \cup {Absent},
                  svn : Seq(Chars), name : RefNames]
BlockClauses ==
  [kind : {"submodule"}, value : Submodules] \cup [kind : {"minrev", "maxrev"}, value : Revisions]
  \cup [kind : {"content"}, value : Seq(ContentRules)]
  \cup [kind : {"branches", "tags"}, value : Seq(BranchClauses)]
Blocks == [keyword : BOOLEAN, abstract : BOOLEAN, name : Names, bases : Seq(Names),
           clauses : Seq(BlockClauses)]

\* A repository with one of its branches or tags is a ref of RuleTrie.
ASSUME FilesAssumption ==
  /\ Files \subseteq Seq(Blocks)
  /\ Names \subseteq Nat
  /\ \A n \in Names, kind \in {"branches", "tags"}, ref \in RefNames :
       <<n, <<kind, ref>>>> \in Chars \ {Slash}

VARIABLES
  pc,            \* "parse", "collect", "insert", "submodules", "ready", "failed", "crashed"
  next,          \* the place in the AST, or in repositories
  todo,          \* the matches of the current repository not yet inserted
  repositories,  \* the vector of that name
  superModule,   \* super_module and submodule_path: repository -> value
  origin,        \* the repository, branch and content rule of each rule
  declared,      \* pairs of a branch rule and a repository rule
  matched        \* likewise

buildVars == <<pc, next, todo, repositories, superModule, origin>>
coverageVars == <<declared, matched>>
trieVars == <<rules, trie, rtrie, transitionMap, rejected>>
rulesetVars == <<fileVars, trieVars, buildVars, coverageVars>>

RulesetInit ==
  /\ FileInit /\ Init
  /\ pc = "parse" /\ next = 1 /\ todo = << >> /\ repositories = << >>
  /\ superModule = [r \in {} |-> NoSubmodule] /\ origin = << >>
  /\ declared = {} /\ matched = {}

ParseFile ==
  /\ pc = "parse" /\ Parse
  /\ pc' = CASE parsing' = "parsing" -> "parse"
             [] parsing' = "parsed"  -> "collect"
             [] parsing' = "failed"  -> "failed"
  /\ UNCHANGED <<trieVars, next, todo, repositories, superModule, origin, coverageVars>>

-----------------------------------------------------------------------------
(* collect_rule_components: a rule of the AST is known by its position, a  *)
(* branch or content rule by that, its list and its position there.        *)

\* equal_range
Named(name) ==
  LET first == Min({i \in DOMAIN ast : ast[i].name >= name} \cup {Len(ast) + 1})
      last == Min({i \in DOMAIN ast : ast[i].name > name} \cup {Len(ast) + 1})
  IN  [k \in 1..(last - first) |-> first + k - 1]

\* The rules that collect_rule_components visits from rule i, base by base; every
\* rule of the name is one.
Bases(i) == FlattenSeq([b \in DOMAIN ast[i].bases |-> Named(ast[i].bases[b])])

\* What a chain of as many calls as there are rules, or more, goes through.
HasChain(i) ==
  LET f[n \in 0..Len(ast)] ==
        IF n = 0 THEN DOMAIN ast ELSE {j \in DOMAIN ast : ToSet(Bases(j)) \cap f[n - 1] # {}}
  IN  i \in f[Len(ast)]

MissesBase(i) ==
  LET f[n \in 0..Len(ast)] ==
        IF n = 0 THEN {j \in DOMAIN ast : \E b \in DOMAIN ast[j].bases : Named(ast[j].bases[b]) = << >>}
        ELSE f[n - 1] \cup {j \in DOMAIN ast : ToSet(Bases(j)) \cap f[n - 1] # {}}
  IN  i \in f[Len(ast)]

Own(i, kind) ==
  LET list == CASE kind = "branches" -> ast[i].branches
                [] kind = "tags"     -> ast[i].tags
                [] kind = "content"  -> ast[i].content
  IN  [k \in DOMAIN list |-> <<i, kind, k>>]

\* Mutant: bases of bases are not visited.
ComponentsOnce(i, kind) ==
  FlattenSeq([b \in DOMAIN Bases(i) |-> Own(Bases(i)[b], kind)]) \o Own(i, kind)

\* The bases' rules come first; a base that is reached twice adds its rules twice.
Components(i, kind) ==
  LET f[n \in 0..Len(ast)] ==
        [j \in DOMAIN ast |->
           IF n = 0 THEN << >>
           ELSE FlattenSeq([b \in DOMAIN Bases(j) |-> f[n - 1][Bases(j)[b]]]) \o Own(j, kind)]
  IN  f[Len(ast)][i]

BranchRule(id) == IF id[2] = "branches" THEN ast[id[1]].branches[id[3]] ELSE ast[id[1]].tags[id[3]]
ContentRule(id) == ast[id[1]].content[id[3]]

-----------------------------------------------------------------------------
(* Ruleset::Ruleset                                                        *)

Larger(m, n) == IF m > n THEN m ELSE n
Smaller(m, n) == IF m < n THEN m ELSE n

NoContent == << >>

\* A match: a repository rule, a branch rule and a content rule or none.
MinRev(m) == Larger(BranchRule(m.branch).min, ast[m.repo].minrev)
MaxRev(m) == Smaller(BranchRule(m.branch).max, ast[m.repo].maxrev)
EverInForce(m) == MinRev(m) <= MaxRev(m)

\* All branches and tags with all content rules, if the repository itself has any.
Matches(i) ==
  LET content == IF ast[i].content = << >> THEN <<NoContent>> ELSE Components(i, "content")
      refs == Components(i, "branches") \o Components(i, "tags")
  IN  FlattenSeq([b \in DOMAIN refs |->
        [c \in DOMAIN content |-> [repo |-> i, branch |-> refs[b], content |-> content[c]]]])

\* path::path strips the slashes at the ends.
Trimmed(text) ==
  LET kept == {i \in DOMAIN text : text[i] # Slash}
  IN  IF kept = {} THEN << >> ELSE SubSeq(text, Min(kept), Max(kept))

Qualified(id) == <<id[2], BranchRule(id).name>>

\* The constructor of Rule, and svn_path, git_path and git_address.
RuleOf(m) ==
  [svn |-> Below(Trimmed(BranchRule(m.branch).svn),
                 IF m.content = NoContent THEN << >> ELSE Trimmed(ContentRule(m.content).svn)),
   ref |-> <<ast[m.repo].name, Qualified(m.branch)>>,
   git |-> IF m.content = NoContent THEN << >> ELSE Trimmed(ContentRule(m.content).git),
   min |-> MinRev(m), max |-> MaxRev(m)]

\* The next repository rule.  A base that is missing is an error, and bases in a
\* circle overflow the stack; with both, either may be met first.
Collect ==
  /\ pc = "collect" /\ next <= Len(ast)
  /\ \/ /\ ast[next].abstract
        /\ next' = next + 1 /\ UNCHANGED <<pc, todo>>
     \/ /\ ~ast[next].abstract /\ MissesBase(next)
        /\ pc' = "failed" /\ UNCHANGED <<next, todo>>
     \/ /\ ~ast[next].abstract /\ HasChain(next)
        /\ pc' = "crashed" /\ UNCHANGED <<next, todo>>
     \/ /\ ~ast[next].abstract /\ ~MissesBase(next) /\ ~HasChain(next)
        /\ pc' = "insert" /\ todo' = Matches(next) /\ UNCHANGED next
  /\ UNCHANGED <<fileVars, trieVars, repositories, superModule, origin, coverageVars>>

\* The rule that is found to overlap r.
Overlapped(r) == trie[r.svn][FindRevision(trie[r.svn], r.max)]

\* coverage::declare
Declare(m) == declared' = declared \cup {<<m.branch, m.repo>>}

\* report_overlap prints the content rules of both rules, even of those that have
\* none.
InsertMatch ==
  /\ pc = "insert" /\ todo # << >> /\ EverInForce(Head(todo))
  /\ LET m == Head(todo)
     IN  /\ Insert(RuleOf(m))
         /\ Declare(m)
         /\ IF rejected'
            THEN /\ pc' = IF NoContent \in {m.content, origin[Overlapped(RuleOf(m))].content}
                          THEN "crashed" ELSE "failed"
                 /\ UNCHANGED <<todo, origin>>
            ELSE /\ todo' = Tail(todo) /\ origin' = Append(origin, m)
                 /\ UNCHANGED pc
  /\ UNCHANGED <<fileVars, next, repositories, superModule, matched>>

\* A branch that is never in force is passed over.
SkipMatch ==
  /\ pc = "insert" /\ todo # << >> /\ ~EverInForce(Head(todo))
  /\ todo' = Tail(todo)
  /\ UNCHANGED <<fileVars, trieVars, pc, next, repositories, superModule, origin, coverageVars>>

RepositoryDone ==
  /\ pc = "insert" /\ todo = << >>
  /\ repositories' = Append(repositories, [name |-> ast[next].name, submodule |-> ast[next].submodule])
  /\ next' = next + 1 /\ pc' = "collect"
  /\ UNCHANGED <<fileVars, trieVars, todo, superModule, origin, coverageVars>>

Built ==
  /\ pc = "collect" /\ next > Len(ast)
  /\ pc' = "submodules" /\ next' = 1
  /\ UNCHANGED <<fileVars, trieVars, todo, repositories, superModule, origin, coverageVars>>

-----------------------------------------------------------------------------
(* importer::importer and git_repository::set_super_module                 *)

\* Mutant: a second declaration is not compared with the first.
ConflictsNever(name, submodule) == FALSE

\* Mutant: a second declaration is an error even if it is the same.
ConflictsAlways(name, submodule) == name \in DOMAIN superModule

Conflicts(name, submodule) == name \in DOMAIN superModule /\ superModule[name] # submodule

SetSuperModule ==
  /\ pc = "submodules" /\ next <= Len(repositories)
  /\ LET r == repositories[next]
     IN  IF r.submodule # NoSubmodule /\ Conflicts(r.name, r.submodule)
         THEN pc' = "failed" /\ UNCHANGED <<next, superModule>>
         ELSE /\ superModule' = IF r.submodule = NoSubmodule THEN superModule
                                ELSE [n \in DOMAIN superModule \cup {r.name} |->
                                        IF n = r.name THEN r.submodule ELSE superModule[n]]
              /\ next' = next + 1 /\ UNCHANGED pc
  /\ UNCHANGED <<fileVars, trieVars, todo, repositories, origin, coverageVars>>

Ready ==
  /\ pc = "submodules" /\ next > Len(repositories)
  /\ pc' = "ready"
  /\ UNCHANGED <<fileVars, trieVars, next, todo, repositories, superModule, origin, coverageVars>>

-----------------------------------------------------------------------------
(* Coverage                                                                *)

\* Mutant: a rule is counted under the repository that has the branch.
MatchedPairOfBase(i) == <<origin[i].branch, origin[i].branch[1]>>

MatchedPair(i) == <<origin[i].branch, origin[i].repo>>

\* longest_match and coverage::match, for a path in some revision.
Lookup ==
  /\ pc = "ready"
  /\ \E path \in Paths, rev \in 0..Forever :
       /\ LongestMatch(path, rev) # NoRule
       /\ matched' = matched \cup {MatchedPair(LongestMatch(path, rev))}
  /\ UNCHANGED <<fileVars, trieVars, buildVars, declared>>

RepositoriesIn(pairs, branch) == {pair \in pairs : pair[1] = branch}

\* The rounded percentage that coverage::report compares.
Utilization(branch) ==
  LET n == Cardinality(RepositoriesIn(declared, branch))
  IN  (200 * Cardinality(RepositoriesIn(matched, branch)) + n) \div (2 * n)

DeclaredBranches == {pair[1] : pair \in declared}

Reported == {branch \in DeclaredBranches : Utilization(branch) < 70}

Ended == pc \in {"ready", "failed", "crashed"} /\ UNCHANGED rulesetVars

RulesetNext ==
  \/ ParseFile \/ Collect \/ InsertMatch \/ SkipMatch \/ RepositoryDone \/ Built
  \/ SetSuperModule \/ Ready \/ Lookup \/ Ended

RulesetSpec == RulesetInit /\ [][RulesetNext]_rulesetVars
=============================================================================
