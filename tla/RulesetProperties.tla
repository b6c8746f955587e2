--------------------------- MODULE RulesetProperties ---------------------------
(***************************************************************************)
(* What a ruleset must be, whatever the file and the order in it.          *)
(***************************************************************************)
EXTENDS Ruleset, RuleTrieProperties

RulesetTypeOK ==
  /\ pc \in {"parse", "collect", "insert", "submodules", "ready", "failed", "crashed"}
  /\ parsing \in {"parsing", "parsed", "failed"}
  /\ \A i, j \in DOMAIN ast : i < j => ast[i].name <= ast[j].name
  /\ next \in 1..(Len(ast) + 1)
  /\ Len(origin) = Len(rules)
  /\ \A i \in DOMAIN rules : rules[i] = RuleOf(origin[i]) /\ rules[i].min <= rules[i].max
  /\ \A i \in DOMAIN rules : rules[i].svn # << >> => Slash \notin {Head(rules[i].svn), Last(rules[i].svn)}
  /\ \A pair \in declared \cup matched :
       pair[2] \in DOMAIN ast /\ pair[1][3] \in DOMAIN ast[pair[1][1]][pair[1][2]]

-----------------------------------------------------------------------------
\* The rules of the AST that rule i builds on: the least set with i that has, for
\* a base named by one of its members, all rules of that name.
Closure(i) ==
  LET closed == {S \in SUBSET DOMAIN ast : i \in S /\
        \A j \in S : \A k \in DOMAIN ast : ast[k].name \in ToSet(ast[j].bases) => k \in S}
  IN  {j \in DOMAIN ast : \A S \in closed : j \in S}

Contents(i) == IF ast[i].content = << >> THEN {[svn |-> << >>, git |-> << >>]}
               ELSE UNION {ToSet(ast[j].content) : j \in Closure(i)}

\* The rule repository i must have for a branch or tag, if it ever is in force.
Expanded(i, kind, branch, content) ==
  [svn |-> Below(Trimmed(branch.svn), Trimmed(content.svn)),
   ref |-> <<ast[i].name, <<kind, branch.name>>>>, git |-> Trimmed(content.git),
   min |-> Larger(branch.min, ast[i].minrev), max |-> Smaller(branch.max, ast[i].maxrev)]

Imported == {i \in DOMAIN ast : ~ast[i].abstract}

ExpectedRules ==
  UNION {{Expanded(i, kind, b, c) : b \in UNION {ToSet(ast[j][kind]) : j \in Closure(i)}, c \in Contents(i)} :
           i \in Imported, kind \in {"branches", "tags"}}

\* The state is well typed.  When the ruleset is built, every repository has a
\* rule for every branch and tag of its own and of the rules it builds on, near or
\* far, with every content rule; each once, in force exactly where the ranges of
\* branch and repository meet.  Content that is only inherited is not used
\* (ruleset.cpp:112).
RulesComplete ==
  /\ RulesetTypeOK
  /\ pc \in {"submodules", "ready"} =>
       /\ ToSet(rules) = {r \in ExpectedRules : r.min <= r.max}
       /\ IsInjective(rules)

Overlapping(r, s) == r.svn = s.svn /\ r.min <= s.max /\ s.min <= r.max

\* Nothing is wrong with what has been parsed of the file.
Legal ==
  /\ parsing # "failed"
  /\ \A i \in Imported :
       /\ ~MissesBase(i) /\ ~HasChain(i)
       /\ \A kind \in {"branches", "tags", "content"} : IsInjective(Components(i, kind))
       /\ \A j \in Imported : \A m, n \in ToSet(Matches(i)) \cup ToSet(Matches(j)) :
            m # n /\ EverInForce(m) /\ EverInForce(n) => ~Overlapping(RuleOf(m), RuleOf(n))
  /\ \A i, j \in Imported :
       ast[i].name = ast[j].name /\ NoSubmodule \notin {ast[i].submodule, ast[j].submodule}
         => ast[i].submodule = ast[j].submodule

\* A ruleset is refused for a reason: rules of one name, rules of one branch in
\* other revisions and of one repository in other places are none, and neither
\* is the order of the file.
LegalAccepted == Legal => pc \notin {"failed", "crashed"}

IsSequence(s) == s \in Seq(ToSet(s))

\* Repository rule i is in repositories.
Listed(i) ==
  \E k \in DOMAIN repositories :
    repositories[k] = [name |-> ast[i].name, submodule |-> ast[i].submodule]

\* The super-module that repositories[k] has is set.
IsSet(k) ==
  LET r == repositories[k]
  IN  r.submodule # NoSubmodule =>
        r.name \in DOMAIN superModule /\ superModule[r.name] = r.submodule

\* What SuperModulesAgree rests on while a ruleset is built.
SuperModulesInv ==
  /\ IsSequence(ast) /\ IsSequence(repositories) /\ next \in Nat \ {0}
  /\ pc = "parse" => next = 1
  /\ pc \in {"collect", "insert"} => \A i \in Imported : i < next => Listed(i)
  /\ pc = "insert" => next \in Imported
  /\ pc \in {"submodules", "ready"} => \A i \in Imported : Listed(i)
  /\ pc = "submodules" => \A k \in DOMAIN repositories : k < next => IsSet(k)
  /\ pc = "ready" => \A k \in DOMAIN repositories : IsSet(k)

\* A repository has the super-module and the path that its rules say, all of them,
\* whichever comes last and whether all say it or not.
SuperModulesAgree ==
  pc = "ready" => \A i \in Imported :
    ast[i].submodule # NoSubmodule => superModule[ast[i].name] = ast[i].submodule

\* A branch that no repository has used is reported, one that all have used is
\* not, and nothing is used that is not declared, which is what match asserts
\* and utilization divides by.
CoverageSound ==
  /\ matched \subseteq declared
  /\ \A branch \in DeclaredBranches :
       /\ RepositoriesIn(matched, branch) = {} => branch \in Reported
       /\ RepositoriesIn(matched, branch) = RepositoriesIn(declared, branch) => branch \notin Reported
-----------------------------------------------------------------------------
(* The inductive invariant.                                                *)

Kinds == {"branches", "tags", "content"}

ParsedBranches == [min : Revisions, max : Revisions, svn : Seq(Chars), name : RefNames]

RepoRules ==
  [abstract : BOOLEAN, name : Names, bases : Seq(Names), submodule : Submodules \cup {NoSubmodule},
   minrev : Revisions, maxrev : Revisions, content : Seq(ContentRules),
   branches : Seq(ParsedBranches), tags : Seq(ParsedBranches)]

ByName == \A i, j \in DOMAIN ast : i < j => ast[i].name <= ast[j].name

\* The file is parsed before anything else happens.
FileInv ==
  /\ file \in Seq(Blocks) /\ ast \in Seq(RepoRules) /\ ByName
  /\ parsing \in {"parsing", "parsed", "failed"}
  /\ pc = "parse" => parsing = "parsing" /\ rules = << >> /\ declared = {}
  /\ pc \notin {"parse", "failed"} => parsing = "parsed"

\* repositories and super_module have what imported rules say.
RepositoriesInv ==
  /\ next \in 1..Len(ast) + 1 /\ Len(repositories) <= Len(ast)
  /\ pc \in {"parse", "collect", "insert"} => Len(repositories) < next
  /\ pc = "parse" => repositories = << >> /\ next = 1
  /\ pc \in {"parse", "collect", "insert"} => DOMAIN superModule = {}
  /\ repositories \in Seq({[name |-> ast[i].name, submodule |-> ast[i].submodule] : i \in Imported})
  /\ \A n \in DOMAIN superModule : \E i \in Imported :
       ast[i].name = n /\ ast[i].submodule = superModule[n] /\ ast[i].submodule # NoSubmodule

\* The imported rules that have been expanded.
Reached ==
  CASE pc \in {"parse", "failed", "crashed"} -> {}
    [] pc = "collect"               -> {i \in Imported : i < next}
    [] pc = "insert"                -> {i \in Imported : i <= next}
    [] pc \in {"submodules", "ready"} -> Imported

\* The matches of repository rules that are to be inserted.
Wanted(I) == {m \in UNION {ToSet(Matches(i)) : i \in I} : EverInForce(m)}

\* Each rule is that of its match; the matches of all repositories reached are
\* inserted or still to do, and rules are not repeated.
MatchesInv ==
  /\ pc \in {"parse", "collect", "insert", "submodules", "ready", "failed", "crashed"}
  /\ pc \notin {"insert", "failed", "crashed"} => todo = << >>
  /\ pc = "insert" => next \in Imported /\ ToSet(todo) \subseteq ToSet(Matches(next))
  /\ pc \notin {"failed", "crashed"} =>
       /\ ToSet(origin) \cup {m \in ToSet(todo) : EverInForce(m)} = Wanted(Reached)
       /\ \A i \in Reached : ~HasChain(i)
  /\ IsSequence(todo) /\ IsSequence(origin) /\ Len(origin) = Len(rules)
  /\ ToSet(origin) \subseteq Wanted(Imported)
  /\ \A k \in DOMAIN rules : rules[k] = RuleOf(origin[k])
  /\ IsInjective(rules)

\* The branch, tag or content rules of the file.
Ids(kind) == UNION {ToSet(Own(i, kind)) : i \in DOMAIN ast}
RefIds == Ids("branches") \cup Ids("tags")

\* What is declared is a branch or tag of a rule of the file with a repository;
\* every match that is inserted is.
DeclaredInv ==
  /\ matched \subseteq declared /\ IsFiniteSet(declared)
  /\ \A pair \in declared : pair[1] \in RefIds /\ pair[2] \in DOMAIN ast
  /\ \A k \in DOMAIN origin : MatchedPair(k) \in declared

\* If no components are collected twice, no match is inserted twice.
FreshInv ==
  pc = "insert" /\ (\A i \in Imported, kind \in Kinds : IsInjective(Components(i, kind)))
    => IsInjective(todo) /\ ToSet(todo) \cap ToSet(origin) = {}

RulesetInv ==
  /\ FileInv /\ RepositoriesInv /\ TrieInv /\ MatchesInv /\ DeclaredInv
  /\ FreshInv /\ LegalAccepted
=============================================================================
