---------------------------- MODULE ImporterProofs ----------------------------
(***************************************************************************)
(* Theorems about module Importer, for any set of repositories, branches,  *)
(* files and revisions.                                                    *)
(*                                                                         *)
(* 1. Type correctness, one lemma per action.                              *)
(* 2. SafetyInv is inductive when no super-module is itself a submodule    *)
(*    (FlatSubmodules), one lemma per action; the counts, the passes and   *)
(*    the "ls" replies follow from it.                                     *)
(* 3. Phases I and II implement RevisionCommits.                           *)
(* 4. RevisionInv is inductive: what a revision leaves behind, marks and   *)
(*    histories.                                                           *)
(***************************************************************************)
EXTENDS ImporterProperties, FiniteSetTheorems, SequenceTheorems,
        WellFoundedInduction, TLAPS

\* A non-empty set of naturals below a bound has a greatest element, which is
\* what Max returns.
LEMMA MaxIsMember ==
  ASSUME NEW n \in Nat, NEW S \in SUBSET (0..n), S # {}
  PROVE  Max(S) \in S /\ \A x \in S : x <= Max(S)
<1> DEFINE D == {d \in Nat : n - d \in S}
           R == OpToRel(<, Nat)
<1>1. IsWellFoundedOn(R, Nat)
  BY NatLessThanWellFounded
<1>2. D # {}
  <2>1. PICK x \in S : TRUE
    OBVIOUS
  <2>2. n - x \in Nat /\ n - (n - x) = x
    OBVIOUS
  <2> QED  BY <2>1, <2>2
<1>3. \E x \in D : \A y \in D : ~ (<<y, x>> \in R)
  <2> HIDE DEF D, R
  <2> D \subseteq Nat
    BY DEF D
  <2> QED  BY <1>1, <1>2, WFMin
<1>4. PICK d \in D : \A e \in D : ~ (<<e, d>> \in R)
  BY <1>3
<1>5. \A e \in D : ~ (e < d)
  BY <1>4 DEF OpToRel
<1>6. \A y \in S : n - d >= y
  <2> TAKE y \in S
  <2>1. n - y \in D
    OBVIOUS
  <2>2. ~ (n - y < d) /\ d \in Nat /\ y \in Nat
    BY <2>1, <1>5
  <2> QED  BY <2>2
<1>7. n - d \in S
  OBVIOUS
<1> QED
  BY <1>6, <1>7 DEF Max

-----------------------------------------------------------------------------
(* Types of the operators.                                                 *)

\* The super-module ref of a ref is a ref or null.
LEMMA SuperRefType ==
  ASSUME NEW r \in Refs \cup {NoRef}
  PROVE  SuperRef(r) \in Refs \cup {NoRef}
BY RepositoryAssumption DEF SuperRef, Refs

\* Looking up a mark returns a natural number.
LEMMA MarkType ==
  ASSUME GitTypeOK, NEW r \in Refs, NEW rev \in Int, rev <= MaxRev
  PROVE  MarkUpTo(r, rev) \in Nat
<1> DEFINE S == {0} \cup {w \in 1..rev : marks[r][w] # 0}
<1>1. MaxRev \in Nat
  BY TreeAssumption
<1>2. S \in SUBSET (0..MaxRev) /\ S # {}
  BY <1>1
<1>3. Max(S) \in S
  BY <1>1, <1>2, MaxIsMember
<1>4. Max(S) = 0 \/ Max(S) \in 1..MaxRev
  BY <1>1, <1>3
<1>5. marks[r] \in [1..MaxRev -> Nat]
  BY DEF GitTypeOK
<1> QED
  BY <1>4, <1>5 DEF MarkUpTo

\* The empty tree is a tree.
LEMMA EmptyTreeType == EmptyTree \in Trees
BY DEF EmptyTree, Trees

\* The commit at a mark has a tree and a history.
LEMMA CommitAtType ==
  ASSUME GitTypeOK, NEW p \in Repos, NEW m
  PROVE  CommitAt(p, m).tree \in Trees /\ CommitAt(p, m).history \in SUBSET Nat
<1>1. commits[p] \in Seq(Commits)
  BY DEF GitTypeOK
<1>2. CASE m \in DOMAIN commits[p]
  <2>1. commits[p][m] \in Commits
    BY <1>1, <1>2
  <2> QED  BY <1>2, <2>1 DEF CommitAt, Commits
<1>3. CASE m \notin DOMAIN commits[p]
  BY <1>3, EmptyTreeType DEF CommitAt
<1> QED  BY <1>2, <1>3

\* Deleting paths from a tree leaves a tree.
LEMMA AfterDeletionsType ==
  ASSUME GitTypeOK, NEW r \in Refs
  PROVE  AfterDeletions(r) \in Trees
<1>1. tree[r] \in Trees
  BY DEF GitTypeOK
<1> QED
  BY <1>1 DEF AfterDeletions, Trees

\* Writing gitlinks and attributes into a tree leaves a tree.
LEMMA PreparedTreeType ==
  ASSUME GitTypeOK, NEW r \in Refs
  PROVE  PreparedTree(r) \in Trees
<1> DEFINE in(p) == [repo |-> p, name |-> r.name]
           subs == SubRefsToWrite(r)
           links == [p \in Repos |->
                       IF in(p) \in subs THEN LatestMark(in(p)) ELSE tree[r].links[p]]
           mods == IF subs = {} THEN tree[r].modules
                   ELSE {q.repo : q \in submoduleRefs[r] \cup subs}
           attrs == tree[r].attrs \/ attrsOutdated[r]
<1>1. tree[r] \in Trees /\ attrsOutdated[r] \in BOOLEAN
      /\ subs \subseteq Refs /\ submoduleRefs[r] \subseteq Refs
  BY DEF GitTypeOK, SubRefsToWrite
<1>2. \A q \in Refs : LatestMark(q) \in Nat
  BY MarkType, TreeAssumption DEF LatestMark
<1>3. links \in [Repos -> Nat]
  BY <1>1, <1>2 DEF Trees
<1>4. mods \in SUBSET Repos
  BY <1>1 DEF Trees, Refs
<1>5. attrs \in BOOLEAN
  BY <1>1 DEF Trees
<1>6. PreparedTree(r) = [tree[r] EXCEPT !.links = links, !.modules = mods, !.attrs = attrs]
  BY DEF PreparedTree
<1>7. PreparedTree(r) = [files |-> tree[r].files, links |-> links,
                         modules |-> mods, attrs |-> attrs]
  <2> HIDE DEF links, mods, attrs
  <2> QED  BY <1>1, <1>6 DEF Trees
<1> HIDE DEF links, mods, attrs
<1> QED
  BY <1>1, <1>3, <1>4, <1>5, <1>7 DEF Trees

\* Writing a file into a tree leaves a tree.
LEMMA WritesType ==
  ASSUME NEW t \in Trees, NEW f \in Files, NEW s, svn[revnum][s] \in Contents \cup {0}
  PROVE  Writes(t, f, s) \in Trees
BY DEF Writes, Trees

\* The rules are typed.
LEMMA RuleType ==
  ASSUME NEW m \in Rules
  PROVE  /\ m.svn \in SvnPaths /\ m.ref \in Refs /\ m.ref.repo \in Repos
         /\ m.min \in Nat /\ m.max \in Nat
         /\ \A p \in SvnPaths : GitPath[m][p] \in Paths
         /\ Within[m.svn] \subseteq SvnPaths
BY RulesAssumption, PlaceAssumption, PathAssumption DEF Refs

\* The rule that maps a path is one in force at or above it, and no other one
\* in force there is below.
LEMMA MatchMeans ==
  ASSUME NEW p \in SvnPaths, NEW v \in Revs
  PROVE  LET m == Match(p, v)
         IN  /\ m # NoRule => /\ m \in Rules /\ InForce(m, v) /\ p \in Within[m.svn]
                              /\ m \in Longest(p, v)
             /\ m = NoRule => Longest(p, v) = {}
<1>1. Match(p, v) = IF Longest(p, v) = {} THEN NoRule ELSE CHOOSE m \in Longest(p, v) : TRUE
  BY DEF Match, Matches
<1>2. Longest(p, v) \subseteq Rules /\ NoRule \notin Rules
  BY RulesAssumption DEF Longest
<1>3. CASE Longest(p, v) = {}
  BY <1>1, <1>3
<1>4. CASE Longest(p, v) # {}
  <2>1. Match(p, v) \in Longest(p, v)
    BY <1>1, <1>4
  <2> QED  BY <1>2, <1>4, <2>1 DEF Longest
<1> QED
  BY <1>3, <1>4

\* The rule of a path and the place it gives the path are typed.
LEMMA MatchType ==
  ASSUME NEW p \in SvnPaths, NEW v \in Revs, Match(p, v) # NoRule
  PROVE  LET m == Match(p, v)
         IN  /\ m \in Rules /\ m.svn \in SvnPaths /\ m.ref \in Refs /\ m.ref.repo \in Repos
             /\ GitPath[m][p] \in Paths /\ p \in Within[m.svn]
             /\ p \in SvnFiles => GitPath[m][p] \in Files
<1> DEFINE m == Match(p, v)
<1>1. m \in Rules /\ p \in Within[m.svn]
  BY MatchMeans
<1> HIDE DEF m
<1>2. p \in SvnFiles => GitPath[m][p] \in Files
  BY <1>1, PlaceAssumption, PathAssumption
<1> QED
  BY <1>1, <1>2, RuleType DEF m

\* What SVN reports about a revision, and which places it leaves astray.
LEMMA BeginRevisionInputs ==
  ASSUME BeginRevision
  PROVE  \E C \in SUBSET Reportable, new \in [SvnFiles -> Contents \cup {0}] :
           /\ Reported(C, new) /\ OnePerPlace(new, revnum + 1)
           /\ changes' = C /\ svn' = [svn EXCEPT ![revnum + 1] = new]
           /\ astray' = astray \cup
                {x \in Refs \X Files :
                   Missed(x[1], x[2], C, svn[revnum], new, revnum + 1)}
BY DEF BeginRevision, kSubset

\* Reports are typed, and a copy leads from paths to paths.
LEMMA ReportType ==
  ASSUME NEW c \in Reports
  PROVE  /\ c.path \in SvnPaths /\ c.kind \in Kinds /\ c.from \in SvnPaths /\ c.rev \in Revs
         /\ c.kind = "copy" =>
              \A s \in Within[c.path] \cap SvnFiles : Moved(s, c.path, c.from) \in SvnPaths
<1>1. PICK d \in Changes, v \in Revs : c = Report(d, v)
  BY DEF Reports
<1>2. d \in [path : SvnPaths, kind : Kinds, from : SvnPaths]
  BY ImporterAssumption
<1>3. c.path = d.path /\ c.kind = d.kind /\ c.from = d.from /\ c.rev = v
  BY <1>1 DEF Report
<1>4. d.kind = "copy" =>
        \A s \in Within[d.path] \cap SvnFiles : Moved(s, d.path, d.from) \in SvnPaths
  BY ImporterAssumption
<1> QED
  BY <1>2, <1>3, <1>4

\* What can be reported are reports, which name a revision that was imported.
LEMMA ReportableType ==
  ASSUME revnum \in Revs
  PROVE  Reportable \subseteq {c \in Reports : c.rev <= revnum}
<1>1. Revs = 0..MaxRev /\ MaxRev \in Nat
  BY TreeAssumption DEF Revs
<1>2. ASSUME NEW c \in Changes, NEW v \in 0..revnum
      PROVE  Report(c, v) \in Reports /\ Report(c, v).rev = v /\ v <= revnum
  BY <1>1, <1>2, ImporterAssumption DEF Report, Reports
<1>3. 0 \in 0..revnum /\ 1..revnum \subseteq 0..revnum
  BY <1>1
<1> QED
  BY <1>2, <1>3 DEF Reportable

-----------------------------------------------------------------------------
(* The type invariant.  It needs to know that close_commit finds a reply   *)
(* to read, and that the repositories of the loops that prepare and close  *)
(* have an open commit, in one of their own refs.                          *)

CommitsOpen ==
  /\ repoWork \subseteq passRepos
  /\ \A p \in OpenSoFar : currentRef[p] # NoRef
  /\ \A p \in Repos : currentRef[p] # NoRef => currentRef[p].repo = p
  /\ \A p \in Repos : prepared[p] => lsReplies[p] # << >>

TypeInv == TypeOK /\ CommitsOpen

\* The constructors establish the types.
LEMMA TypeInit == Init => TypeInv
<1> SUFFICES ASSUME Init PROVE TypeInv
  OBVIOUS
<1> USE RepositoryAssumption, TreeAssumption, EmptyTreeType
<1>1. GitTypeOK
  BY DEF Init, GitInit, GitTypeOK, NoRevs, Revs
<1>2. TypeOK
  BY <1>1 DEF Init, TypeOK, Revs, Phases
<1>3. CommitsOpen
  BY DEF Init, GitInit, CommitsOpen, OpenSoFar
<1> QED  BY <1>2, <1>3 DEF TypeInv

\* Starting a revision keeps the types.
LEMMA BeginRevisionType == TypeInv /\ BeginRevision => TypeInv'
<1> SUFFICES ASSUME TypeInv, BeginRevision PROVE TypeInv'
  OBVIOUS
<1> USE DEF TypeInv
<1>1. GitTypeOK'
  BY DEF TypeOK, GitTypeOK, BeginRevision, gitVars, refVars
<1>2. PICK C \in SUBSET Reportable, new \in [SvnFiles -> Contents \cup {0}] :
        /\ changes' = C /\ svn' = [svn EXCEPT ![revnum + 1] = new]
        /\ astray' = astray \cup
             {x \in Refs \X Files : Missed(x[1], x[2], C, svn[revnum], new, revnum + 1)}
  BY BeginRevisionInputs
<1>3. /\ changes' \subseteq Reports /\ svn' \in [Revs -> [SvnFiles -> Contents \cup {0}]]
      /\ astray' \subseteq Refs \X Files
  <2>1. svn \in [Revs -> [SvnFiles -> Contents \cup {0}]] /\ astray \subseteq Refs \X Files
        /\ revnum \in Revs
    BY DEF TypeOK
  <2>2. Reportable \subseteq Reports
    BY <2>1, ReportableType
  <2> QED  BY <1>2, <2>1, <2>2
<1>4. invalid' \subseteq Rules /\ revnum' \in Revs
  BY TreeAssumption DEF BeginRevision, Transition, TypeOK, Revs
<1>5. TypeOK'
  BY <1>1, <1>3, <1>4 DEF TypeOK, BeginRevision, Phases, loopVars
<1>6. CommitsOpen'
  BY DEF CommitsOpen, BeginRevision, OpenSoFar, gitVars, loopVars
<1> QED  BY <1>5, <1>6

\* modify_ref keeps the types.
LEMMA ModifyRefType ==
  ASSUME TypeOK, NEW r \in Refs, DiscoverRef(r)
  PROVE  /\ modifiedRefs' \subseteq Refs
         /\ changedSubs' \in [Refs -> SUBSET Refs]
         /\ changedRepos' \subseteq Repos
<1>1. NewlyModified(r) \subseteq Refs
  <2>1. SuperRef(r) \in Refs \cup {NoRef} /\ SuperRef(SuperRef(r)) \in Refs \cup {NoRef}
    BY SuperRefType
  <2> QED  BY <2>1 DEF NewlyModified
<1>2. InSuperModule(r.repo) \subseteq Repos /\ r.repo \in Repos
  BY RepositoryAssumption DEF InSuperModule, Refs
<1> QED
  BY <1>1, <1>2 DEF DiscoverRef, ModifyRef, TypeOK, GitTypeOK

\* What is reported or marked of a revision is typed.
LEMMA PhaseITypes ==
  ASSUME TypeOK
  PROVE  /\ revnum \in Revs
         /\ \A p \in SvnPaths : FilesAt(p) \subseteq SvnFiles
         /\ \A c \in Reports : ConvertedFiles(c) \subseteq SvnFiles
                               /\ RulesBelow(c, revnum) \subseteq Rules
         /\ \A m \in Rules : InvalidatedFiles(m) \subseteq SvnFiles
<1>1. \A p : FilesAt(p) \subseteq SvnFiles
  BY DEF FilesAt
<1>2. \A c \in Reports : RulesBelow(c, revnum) \subseteq Rules
  BY LookupAssumption, ReportType DEF RulesBelow
<1> QED
  BY <1>1, <1>2 DEF TypeOK, ConvertedFiles, InvalidatedFiles

\* add_svn_tree_to_delete keeps the types.
LEMMA AddTreeToDeleteType ==
  ASSUME TypeOK, NEW m \in Rules, NEW p \in SvnPaths, AddTreeToDelete(m, p)
  PROVE  /\ modifiedRefs' \subseteq Refs
         /\ changedSubs' \in [Refs -> SUBSET Refs]
         /\ changedRepos' \subseteq Repos
         /\ pendingDeletions' \in [Refs -> SUBSET Paths]
<1>1. m.ref \in Refs /\ GitPath[m][p] \in Paths
  BY RuleType
<1>2. pendingDeletions' \in [Refs -> SUBSET Paths]
  <2>1. pendingDeletions \in [Refs -> SUBSET Paths]
    BY DEF TypeOK, GitTypeOK
  <2>2. pendingDeletions' =
          [pendingDeletions EXCEPT ![m.ref] = pendingDeletions[m.ref] \cup {GitPath[m][p]}]
    BY DEF AddTreeToDelete
  <2> QED  BY <1>1, <2>1, <2>2
<1> QED
  BY <1>1, <1>2, ModifyRefType DEF AddTreeToDelete

\* invalidate_svn_tree keeps the types.
LEMMA InvalidateRuleType ==
  ASSUME TypeInv, NEW m \in invalid, InvalidateRule(m)
  PROVE  TypeInv'
<1> USE DEF TypeInv
<1>1. m \in Rules /\ m.svn \in SvnPaths
  BY RuleType DEF TypeOK
<1>2. /\ modifiedRefs' \subseteq Refs
      /\ changedSubs' \in [Refs -> SUBSET Refs]
      /\ changedRepos' \subseteq Repos
      /\ pendingDeletions' \in [Refs -> SUBSET Paths]
  BY <1>1, AddTreeToDeleteType DEF InvalidateRule
<1>3. GitTypeOK'
  BY <1>2 DEF InvalidateRule, TypeOK, GitTypeOK, otherGitVars
<1>4. toConvert' \subseteq SvnFiles /\ invalid' \subseteq Rules
  BY <1>1, PhaseITypes DEF InvalidateRule, TypeOK
<1>5. TypeOK'
  BY <1>2, <1>3, <1>4 DEF InvalidateRule, TypeOK, inputVars, loopVars
<1>6. CommitsOpen'
  BY DEF CommitsOpen, InvalidateRule, OpenSoFar, loopVars, otherGitVars
<1> QED  BY <1>5, <1>6

\* process_svn_changes keeps the types.
LEMMA ProcessChangeType ==
  ASSUME TypeInv, NEW c \in changes, ProcessChange(c)
  PROVE  TypeInv'
<1> USE DEF TypeInv
<1> DEFINE m == Match(c.path, revnum)
<1>1. c \in Reports /\ c.path \in SvnPaths /\ revnum \in Revs
  BY ReportType DEF TypeOK
<1>2. /\ modifiedRefs' \subseteq Refs
      /\ changedSubs' \in [Refs -> SUBSET Refs]
      /\ changedRepos' \subseteq Repos
      /\ pendingDeletions' \in [Refs -> SUBSET Paths]
  <2>1. CASE m = NoRule
    BY <2>1 DEF ProcessChange, TypeOK, GitTypeOK
  <2>2. CASE m # NoRule
    <3>1. m \in Rules
      BY <1>1, <2>2, MatchType
    <3>2. AddTreeToDelete(m, c.path)
      BY <2>2 DEF ProcessChange
    <3> QED  BY <1>1, <3>1, <3>2, AddTreeToDeleteType
  <2> QED  BY <2>1, <2>2
<1>3. GitTypeOK'
  BY <1>2 DEF ProcessChange, TypeOK, GitTypeOK, otherGitVars
<1>4. /\ toConvert' \subseteq SvnFiles /\ invalid' \subseteq Rules /\ toMerge' \subseteq SvnFiles
      /\ copies' \subseteq {d \in Reports : d.kind = "copy"} /\ changes' \subseteq Reports
  BY <1>1, PhaseITypes DEF ProcessChange, TypeOK
<1>5. TypeOK'
  BY <1>2, <1>3, <1>4 DEF ProcessChange, TypeOK, inputVars, loopVars
<1>6. CommitsOpen'
  BY DEF CommitsOpen, ProcessChange, OpenSoFar, loopVars, otherGitVars
<1> QED  BY <1>5, <1>6

\* Either nothing is recorded about a merge, or it is recorded for the ref of a
\* rule in the same repository.
LEMMA DiscoverMergeKinds ==
  ASSUME TypeOK, NEW s \in toMerge, DiscoverMerge(s)
  PROVE  \/ /\ Match(s, revnum) = NoRule
            /\ UNCHANGED <<changedRepos, modifiedRefs, changedSubs, pendingMerges>>
         \/ /\ Match(s, revnum) # NoRule /\ DiscoverRef(Match(s, revnum).ref)
            /\ Match(s, revnum).ref \in Refs
            /\ \/ UNCHANGED pendingMerges
               \/ \E k \in copies, q \in Refs :
                    /\ q.repo = Match(s, revnum).ref.repo
                    /\ RecordAncestor(Match(s, revnum).ref, q, k.rev)
<1> DEFINE m == Match(s, revnum)
<1>1. s \in SvnPaths /\ revnum \in Revs
  BY PathAssumption DEF TypeOK
<1>2. CASE m = NoRule
  BY <1>2 DEF DiscoverMerge
<1>3. CASE m # NoRule
  <2>1. DiscoverRef(m.ref) /\ m.ref \in Refs
    BY <1>1, <1>3, MatchType DEF DiscoverMerge
  <2>2. PICK k \in Around(s) : RecordMerge(m.ref, s, k) \/ UNCHANGED pendingMerges
    BY <1>3 DEF DiscoverMerge
  <2>3. /\ k \in copies /\ s \in Within[k.path] \cap SvnFiles /\ k \in Reports
        /\ k.kind = "copy"
    BY <2>2 DEF Around, TypeOK
  <2>4. CASE UNCHANGED pendingMerges
    BY <1>3, <2>1, <2>4
  <2>5. CASE RecordMerge(m.ref, s, k) /\ ~ UNCHANGED pendingMerges
    <3> DEFINE q == Match(Moved(s, k.path, k.from), k.rev)
    <3>1. q # NoRule /\ q.ref.repo = m.ref.repo /\ RecordAncestor(m.ref, q.ref, k.rev)
      BY <2>5 DEF RecordMerge
    <3>2. Moved(s, k.path, k.from) \in SvnPaths /\ k.rev \in Revs
      BY <2>3, ReportType
    <3>3. q.ref \in Refs
      BY <3>1, <3>2, MatchType
    <3> QED  BY <1>3, <2>1, <2>3, <3>1, <3>3
  <2> QED  BY <2>2, <2>4, <2>5
<1> QED
  BY <1>2, <1>3

\* discover_merges keeps the types.
LEMMA DiscoverMergeType ==
  ASSUME TypeInv, NEW s \in toMerge, DiscoverMerge(s)
  PROVE  TypeInv'
<1> USE DEF TypeInv
<1>1. /\ modifiedRefs' \subseteq Refs
      /\ changedSubs' \in [Refs -> SUBSET Refs]
      /\ changedRepos' \subseteq Repos
  <2>1. CASE UNCHANGED <<changedRepos, modifiedRefs, changedSubs>>
    BY <2>1 DEF TypeOK, GitTypeOK
  <2>2. CASE Match(s, revnum).ref \in Refs /\ DiscoverRef(Match(s, revnum).ref)
    BY <2>2, ModifyRefType
  <2> QED  BY <2>1, <2>2, DiscoverMergeKinds
<1>2. pendingMerges' \in [Refs -> [Refs -> Revs]]
  <2>1. pendingMerges \in [Refs -> [Refs -> Revs]]
    BY DEF TypeOK, GitTypeOK
  <2>2. CASE UNCHANGED pendingMerges
    BY <2>1, <2>2
  <2>3. ASSUME NEW r \in Refs, NEW q \in Refs, NEW k \in copies, RecordAncestor(r, q, k.rev)
        PROVE  pendingMerges' \in [Refs -> [Refs -> Revs]]
    <3> DEFINE v == IF pendingMerges[r][q] < k.rev THEN k.rev ELSE pendingMerges[r][q]
    <3>1. k.rev \in Revs
      BY ReportType DEF TypeOK
    <3>2. v \in Revs
      BY <2>1, <3>1
    <3>3. \/ pendingMerges' = pendingMerges
          \/ pendingMerges' = [pendingMerges EXCEPT ![r][q] = v]
      BY <2>3 DEF RecordAncestor
    <3> HIDE DEF v
    <3> QED  BY <2>1, <3>2, <3>3
  <2> QED  BY <2>2, <2>3, DiscoverMergeKinds
<1>3. GitTypeOK'
  BY <1>1, <1>2 DEF DiscoverMerge, TypeOK, GitTypeOK, otherGitVars
<1>4. TypeOK'
  BY <1>1, <1>3 DEF DiscoverMerge, TypeOK, inputVars, loopVars
<1>5. CommitsOpen'
  BY DEF CommitsOpen, DiscoverMerge, OpenSoFar, loopVars, otherGitVars
<1> QED  BY <1>4, <1>5

\* The steps of Phase I.
PhaseI ==
  \/ \E m \in invalid : InvalidateRule(m)
  \/ \E c \in changes : ProcessChange(c)
  \/ \E s \in toMerge : DiscoverMerge(s)

\* They mark refs and nothing else in the repositories.
LEMMA PhaseIKinds ==
  ASSUME TypeOK, PhaseI
  PROVE  /\ phase = "discover"
         /\ UNCHANGED <<phase, inputVars, loopVars, otherGitVars>>
         /\ \/ UNCHANGED <<changedRepos, modifiedRefs, changedSubs>>
            \/ \E r \in Refs : DiscoverRef(r)
<1>1. ASSUME NEW m \in invalid, InvalidateRule(m)
      PROVE  \E r \in Refs : DiscoverRef(r)
  <2>1. m.ref \in Refs
    BY RuleType DEF TypeOK
  <2> QED  BY <1>1, <2>1 DEF InvalidateRule, AddTreeToDelete
<1>2. ASSUME NEW c \in changes, ProcessChange(c)
      PROVE  \/ UNCHANGED <<changedRepos, modifiedRefs, changedSubs>>
             \/ \E r \in Refs : DiscoverRef(r)
  <2> DEFINE m == Match(c.path, revnum)
  <2>1. c.path \in SvnPaths /\ revnum \in Revs
    BY ReportType DEF TypeOK
  <2>2. CASE m = NoRule
    BY <1>2, <2>2 DEF ProcessChange
  <2>3. CASE m # NoRule
    <3>1. m.ref \in Refs
      BY <2>1, <2>3, MatchType
    <3>2. DiscoverRef(m.ref)
      BY <1>2, <2>3 DEF ProcessChange, AddTreeToDelete
    <3> QED  BY <3>1, <3>2
  <2> QED  BY <2>2, <2>3
<1>3. ASSUME NEW s \in toMerge, DiscoverMerge(s)
      PROVE  \/ UNCHANGED <<changedRepos, modifiedRefs, changedSubs>>
             \/ \E r \in Refs : DiscoverRef(r)
  BY <1>3, DiscoverMergeKinds
<1>4. phase = "discover" /\ UNCHANGED <<phase, inputVars, loopVars, otherGitVars>>
  BY DEF PhaseI, InvalidateRule, ProcessChange, DiscoverMerge
<1> QED
  BY <1>1, <1>2, <1>3, <1>4 DEF PhaseI

\* Phase I keeps the types.
LEMMA PhaseIType == TypeInv /\ PhaseI => TypeInv'
BY InvalidateRuleType, ProcessChangeType, DiscoverMergeType DEF PhaseI

\* open_commit keeps the types of what it assigns.
LEMMA OpenRefType ==
  ASSUME TypeOK, NEW r \in Refs, OpenRef(r, revnum)
  PROVE  /\ currentRef' \in [Repos -> Refs \cup {NoRef}]
         /\ lastMark' \in [Repos -> Nat]
         /\ marks' \in [Refs -> [1..MaxRev -> Nat]]
         /\ mergedRevs' \in [Refs -> [Refs -> Revs]]
         /\ pendingMerges' \in [Refs -> [Refs -> Revs]]
         /\ pendingDeletions' \in [Refs -> SUBSET Paths]
         /\ history' \in [Refs -> SUBSET Nat]
         /\ staleSubs' \in [Refs -> SUBSET Refs]
         /\ attrsOutdated' \in [Refs -> BOOLEAN]
<1>1. r.repo \in Repos
  BY DEF Refs
<1> DEFINE m == lastMark[r.repo] + 1
<1>2. m \in Nat
  BY <1>1 DEF TypeOK, GitTypeOK
<1>3. currentRef' \in [Repos -> Refs \cup {NoRef}] /\ lastMark' \in [Repos -> Nat]
  BY <1>1, <1>2 DEF OpenRef, TypeOK, GitTypeOK
<1>4. marks' \in [Refs -> [1..MaxRev -> Nat]]
  <2>1. marks \in [Refs -> [1..MaxRev -> Nat]]
    BY DEF TypeOK, GitTypeOK
  <2>2. marks' = [marks EXCEPT ![r][revnum] = m]
    BY DEF OpenRef
  <2> HIDE DEF m
  <2> QED  BY <1>2, <2>1, <2>2
<1>5. mergedRevs' \in [Refs -> [Refs -> Revs]]
  <2>1. mergedRevs \in [Refs -> [Refs -> Revs]]
        /\ pendingMerges \in [Refs -> [Refs -> Revs]]
    BY DEF TypeOK, GitTypeOK
  <2>2. mergedRevs' = [mergedRevs EXCEPT ![r] = [q \in Refs |->
          IF q \in MergesToWrite(r) THEN pendingMerges[r][q] ELSE mergedRevs[r][q]]]
    BY DEF OpenRef, WriteMerges
  <2> QED  BY <2>1, <2>2
<1>6. pendingMerges' \in [Refs -> [Refs -> Revs]]
  <2>1. pendingMerges \in [Refs -> [Refs -> Revs]] /\ NoRevs \in [Refs -> Revs]
    BY TreeAssumption DEF TypeOK, GitTypeOK, NoRevs, Revs
  <2>2. pendingMerges' = [pendingMerges EXCEPT ![r] = NoRevs]
    BY DEF OpenRef, WriteMerges
  <2> QED  BY <2>1, <2>2
<1>7. pendingDeletions' \in [Refs -> SUBSET Paths]
  BY DEF OpenRef, TypeOK, GitTypeOK
<1>8. history' \in [Refs -> SUBSET Nat]
  <2> DEFINE merged == {CommitAt(r.repo, MarkUpTo(q, pendingMerges[r][q])).history :
                          q \in MergesToWrite(r)}
  <2>1. UNION merged \subseteq Nat
    BY <1>1, CommitAtType DEF TypeOK
  <2>2. history \in [Refs -> SUBSET Nat]
    BY DEF TypeOK, GitTypeOK
  <2>3. history' = [history EXCEPT ![r] = history[r] \cup {m} \cup UNION merged]
    BY DEF OpenRef
  <2> HIDE DEF m, merged
  <2> QED  BY <1>2, <2>1, <2>2, <2>3
<1>9. staleSubs' \in [Refs -> SUBSET Refs]
  <2> DEFINE covered == {q \in submoduleRefs[r] :
                           \E d \in pendingDeletions[r] : q.repo \in Under[d]}
  <2>1. staleSubs \in [Refs -> SUBSET Refs] /\ covered \subseteq Refs
    BY DEF TypeOK, GitTypeOK
  <2>2. staleSubs' = [staleSubs EXCEPT ![r] = staleSubs[r] \cup covered]
    BY DEF OpenRef
  <2> HIDE DEF covered
  <2> QED  BY <2>1, <2>2
<1>10. attrsOutdated' \in [Refs -> BOOLEAN]
  <2> DEFINE b == attrsOutdated[r] \/ (GitAttributes /\ RootPath \in pendingDeletions[r])
  <2>1. attrsOutdated \in [Refs -> BOOLEAN] /\ b \in BOOLEAN
    BY DEF TypeOK, GitTypeOK
  <2>2. attrsOutdated' = [attrsOutdated EXCEPT ![r] = b]
    BY DEF OpenRef, OutdatedAfterDeletions
  <2> HIDE DEF b
  <2> QED  BY <2>1, <2>2
<1> QED  BY <1>3, <1>4, <1>5, <1>6, <1>7, <1>8, <1>9, <1>10

\* The opening loop keeps the types.
LEMMA OpenCommitType ==
  ASSUME TypeInv, NEW p \in Repos, OpenCommit(p)
  PROVE  TypeInv'
<1> USE DEF TypeInv
<1>1. CASE currentRef[p] # NoRef
  <2>1. UNCHANGED gitVars
    BY <1>1 DEF OpenCommit
  <2>2. TypeOK'
    BY <2>1 DEF OpenCommit, TypeOK, GitTypeOK, gitVars, refVars, rest, inputVars, phaseIVars
  <2>3. CommitsOpen'
    BY <1>1, <2>1 DEF OpenCommit, CommitsOpen, OpenSoFar, gitVars
  <2> QED  BY <2>2, <2>3
<1>2. CASE currentRef[p] = NoRef
  <2>1. PICK r \in ModifiedIn(p) :
          OpenRef(r, revnum) /\ tree' = [tree EXCEPT ![r] = AfterDeletions(r)]
    BY <1>2 DEF OpenCommit
  <2>2. UNCHANGED <<modifiedRefs, prepared, submoduleRefs, changedSubs,
                    subsWritten, headTree, lsReplies, commits>>
    BY <1>2 DEF OpenCommit
  <2>3. r \in Refs /\ r.repo = p
    BY DEF ModifiedIn, TypeOK, GitTypeOK
  <2>4. tree' \in [Refs -> Trees]
    BY <2>1, <2>3, AfterDeletionsType DEF TypeOK, GitTypeOK
  <2>5. GitTypeOK'
    BY <2>1, <2>2, <2>3, <2>4, OpenRefType DEF TypeOK, GitTypeOK
  <2>6. TypeOK'
    BY <2>5 DEF OpenCommit, TypeOK, rest, inputVars, phaseIVars
  <2>7. currentRef' = [currentRef EXCEPT ![p] = r] /\ r # NoRef
    BY <2>1, <2>3, RepositoryAssumption DEF OpenRef
  <2>8. CommitsOpen'
    BY <2>2, <2>3, <2>7 DEF OpenCommit, CommitsOpen, OpenSoFar, TypeOK, GitTypeOK
  <2> QED  BY <2>6, <2>8
<1> QED  BY <1>1, <1>2

\* convert_svn_file skips a file or writes it.  It skips files without a rule, and
\* from pass 1 on those whose repository or ref need not be written.
Skips(s) ==
  LET m == Match(s, revnum)
  IN  m = NoRule \/ (pass > 0 /\ (m.ref.repo \notin changedRepos \/ m.ref \notin modifiedRefs))

LEMMA ConvertFileCases ==
  ASSUME TypeOK, NEW s \in SvnFiles, ConvertFile(s)
  PROVE  LET m == Match(s, revnum)
             r == m.ref
             p == r.repo
             f == GitPath[m][s]
         IN  /\ phase = "convert" /\ s \in fileWork /\ fileWork' = fileWork \ {s}
             /\ UNCHANGED <<rest, phase, pass, passRepos, repoWork, closed>>
             /\ m # NoRule => r \in Refs /\ p \in Repos /\ f \in Files /\ m \in Rules
             /\ m = NoRule => UNCHANGED <<gitVars, changedRepos>>
             /\ Skips(s) =>
                  /\ UNCHANGED gitVars
                  /\ changedRepos' \subseteq Repos /\ changedRepos \subseteq changedRepos'
                  /\ m # NoRule => changedRepos' = changedRepos \cup
                       IF p \in changedRepos THEN InSuperModule(p) ELSE {}
             /\ ~Skips(s) =>
                  /\ m # NoRule /\ DiscoverRef(r)
                  /\ pass > 0 => p \in changedRepos /\ r \in modifiedRefs
                  /\ currentRef[p] # NoRef =>
                       /\ UNCHANGED openVars
                       /\ tree' = IF currentRef[p] # r THEN tree
                                  ELSE [tree EXCEPT ![r] = Writes(@, f, s)]
                  /\ currentRef[p] = NoRef =>
                       \E o \in ModifiedIn(p) \cup {r} :
                         /\ OpenRef(o, revnum)
                         /\ tree' = [tree EXCEPT ![o] =
                              IF o = r THEN Writes(AfterDeletions(o), f, s)
                              ELSE AfterDeletions(o)]
                  /\ UNCHANGED <<prepared, submoduleRefs, subsWritten, headTree,
                                 lsReplies, commits>>
<1> DEFINE m == Match(s, revnum)
           r == m.ref
           p == r.repo
<1>1. s \in SvnPaths /\ revnum \in Revs /\ changedRepos \subseteq Repos
  BY PathAssumption DEF TypeOK
<1>2. m # NoRule => r \in Refs /\ p \in Repos /\ GitPath[m][s] \in Files /\ m \in Rules
  BY <1>1, MatchType
<1>3. /\ phase = "convert" /\ s \in fileWork /\ fileWork' = fileWork \ {s}
      /\ UNCHANGED <<rest, phase, pass, passRepos, repoWork, closed>>
      /\ IF m = NoRule THEN UNCHANGED <<gitVars, changedRepos>> ELSE ConvertMapped(s, m)
  BY DEF ConvertFile
<1>4. CASE m = NoRule
  BY <1>1, <1>3, <1>4 DEF Skips
<1>5. CASE m # NoRule
  <2>1. InSuperModule(p) \subseteq Repos
    BY <1>2, <1>5, RepositoryAssumption DEF InSuperModule
  <2>2. ConvertMapped(s, m)
    BY <1>3, <1>5
  <2>3. CASE Skips(s)
    BY <1>1, <1>2, <1>3, <1>5, <2>1, <2>2, <2>3 DEF Skips, ConvertMapped
  <2>4. CASE ~Skips(s)
    BY <1>2, <1>3, <1>5, <2>2, <2>4 DEF Skips, ConvertMapped
  <2> QED  BY <2>3, <2>4
<1> QED
  BY <1>4, <1>5

\* convert_svn_file keeps the types.
LEMMA ConvertFileType ==
  ASSUME TypeInv, NEW s \in SvnFiles, ConvertFile(s)
  PROVE  TypeInv'
<1> USE DEF TypeInv
<1> DEFINE r == Match(s, revnum).ref
           p == r.repo
           f == GitPath[Match(s, revnum)][s]
<1>2. fileWork' = fileWork \ {s} /\ phase = "convert"
      /\ UNCHANGED <<rest, phase, pass, passRepos, repoWork, closed>>
  BY ConvertFileCases
<1>3. CASE Skips(s)
  <2>0. UNCHANGED gitVars /\ changedRepos' \subseteq Repos
    BY <1>3, ConvertFileCases
  <2>1. TypeOK'
    <3>2. GitTypeOK'
      BY <2>0 DEF TypeOK, GitTypeOK, gitVars, refVars
    <3> QED  BY <1>2, <2>0, <3>2 DEF TypeOK, rest, inputVars, phaseIVars
  <2>2. CommitsOpen'
    BY <1>2, <2>0 DEF CommitsOpen, OpenSoFar, gitVars
  <2> QED  BY <2>1, <2>2
<1>4. CASE ~ Skips(s)
  <2>0. r \in Refs /\ p \in Repos /\ f \in Files
    BY <1>4, ConvertFileCases
  <2>1. /\ DiscoverRef(r)
        /\ UNCHANGED <<prepared, submoduleRefs, subsWritten, headTree, lsReplies,
                       commits>>
    BY <1>4, ConvertFileCases
  <2>2. /\ modifiedRefs' \subseteq Refs
        /\ changedSubs' \in [Refs -> SUBSET Refs]
        /\ changedRepos' \subseteq Repos
    BY <2>0, <2>1, ModifyRefType
  <2>3. svn[revnum][s] \in Contents \cup {0}
    BY DEF TypeOK
  <2>4. CASE currentRef[p] # NoRef
    <3>1. /\ UNCHANGED openVars
          /\ tree' = IF currentRef[p] # r THEN tree
                     ELSE [tree EXCEPT ![r] = Writes(tree[r], f, s)]
      BY <1>4, <2>4, ConvertFileCases
    <3>2. tree' \in [Refs -> Trees]
      <4>1. tree \in [Refs -> Trees]
        BY DEF TypeOK, GitTypeOK
      <4>2. Writes(tree[r], f, s) \in Trees
        BY <2>0, <2>3, <4>1, WritesType
      <4> QED  BY <2>0, <3>1, <4>1, <4>2
    <3>3. GitTypeOK'
      BY <2>1, <2>2, <3>1, <3>2 DEF TypeOK, GitTypeOK, openVars, refVars
    <3>4. TypeOK'
      BY <1>2, <2>2, <3>3 DEF TypeOK, rest, inputVars, phaseIVars
    <3>5. CommitsOpen'
      BY <1>2, <2>1, <3>1 DEF CommitsOpen, OpenSoFar, openVars
    <3> QED  BY <3>4, <3>5
  <2>5. CASE currentRef[p] = NoRef
    <3>1. PICK o \in ModifiedIn(p) \cup {r} :
            /\ OpenRef(o, revnum)
            /\ tree' = [tree EXCEPT ![o] = IF o = r THEN Writes(AfterDeletions(o), f, s)
                                           ELSE AfterDeletions(o)]
      BY <1>4, <2>5, ConvertFileCases
    <3>2. o \in Refs /\ o.repo = p
      BY <2>0 DEF ModifiedIn, TypeOK, GitTypeOK
    <3>3. tree' \in [Refs -> Trees]
      <4>1. tree \in [Refs -> Trees]
        BY DEF TypeOK, GitTypeOK
      <4>2. AfterDeletions(o) \in Trees
        BY <3>2, AfterDeletionsType DEF TypeOK
      <4>3. Writes(AfterDeletions(o), f, s) \in Trees
        BY <2>0, <2>3, <4>2, WritesType
      <4> QED  BY <3>1, <3>2, <4>1, <4>2, <4>3
    <3>4. GitTypeOK'
      BY <2>1, <2>2, <3>1, <3>2, <3>3, OpenRefType DEF TypeOK, GitTypeOK
    <3>5. TypeOK'
      BY <1>2, <2>2, <3>4 DEF TypeOK, rest, inputVars, phaseIVars
    <3>6. currentRef' = [currentRef EXCEPT ![p] = o] /\ o # NoRef
      BY <3>1, <3>2, RepositoryAssumption DEF OpenRef
    <3>7. CommitsOpen'
      BY <2>0, <1>2, <2>1, <3>2, <3>6 DEF CommitsOpen, OpenSoFar, TypeOK, GitTypeOK
    <3> QED  BY <3>5, <3>7
  <2> QED  BY <2>4, <2>5
<1> QED  BY <1>3, <1>4

\* What both callers of PrepareRef do to a ref keeps the types.
LEMMA PrepareRefType ==
  ASSUME TypeOK, NEW r \in Refs, PrepareRef(r)
  PROVE  /\ submoduleRefs' \in [Refs -> SUBSET Refs]
         /\ staleSubs' \in [Refs -> SUBSET Refs]
         /\ attrsOutdated' \in [Refs -> BOOLEAN]
<1>1. SubRefsToWrite(r) \subseteq Refs
  BY DEF SubRefsToWrite, TypeOK, GitTypeOK
<1> QED
  BY <1>1 DEF PrepareRef, TypeOK, GitTypeOK

\* prepare_to_close_commit keeps the types.
LEMMA PrepareRepoType ==
  ASSUME TypeInv, NEW p \in Repos, PrepareRepo(p)
  PROVE  TypeInv'
<1> USE DEF TypeInv
<1> DEFINE r == currentRef[p]
<1>1. /\ phase = "prepare" /\ p \in repoWork /\ repoWork' = repoWork \ {p}
      /\ UNCHANGED <<rest, phase, changedRepos, pass, passRepos, fileWork, closed>>
      /\ PrepareToCloseCommit(p)
  BY DEF PrepareRepo
<1>2. r \in Refs /\ r.repo = p
  BY <1>1 DEF CommitsOpen, OpenSoFar, TypeOK, GitTypeOK
<1>3. CASE CanClose(r)
  <2>1. /\ PrepareRef(r)
        /\ tree' = [tree EXCEPT ![r] = PreparedTree(r)]
        /\ lsReplies' = [lsReplies EXCEPT ![p] = Append(lsReplies[p], PreparedTree(r))]
        /\ prepared' = [prepared EXCEPT ![p] = TRUE]
        /\ UNCHANGED <<modifiedRefs, currentRef, lastMark, marks, refVars,
                       changedSubs, subsWritten, headTree, history, commits>>
    BY <1>1, <1>3 DEF PrepareToCloseCommit
  <2>2. PreparedTree(r) \in Trees
    BY <1>2, PreparedTreeType DEF TypeOK
  <2>3. Append(lsReplies[p], PreparedTree(r)) \in Seq(Trees) \ {<< >>}
    <3>1. lsReplies[p] \in Seq(Trees)
      BY DEF TypeOK, GitTypeOK
    <3> QED  BY <2>2, <3>1, AppendProperties
  <2>4. GitTypeOK'
    <3>1. /\ tree' \in [Refs -> Trees]
          /\ lsReplies' \in [Repos -> Seq(Trees)]
          /\ prepared' \in [Repos -> BOOLEAN]
      BY <1>2, <2>1, <2>2, <2>3 DEF TypeOK, GitTypeOK
    <3> QED  BY <1>2, <2>1, <3>1, PrepareRefType DEF TypeOK, GitTypeOK, refVars
  <2>5. TypeOK'
    BY <1>1, <2>4 DEF TypeOK, rest, inputVars, phaseIVars
  <2>6. CommitsOpen'
    BY <1>1, <2>1, <2>3 DEF CommitsOpen, OpenSoFar, TypeOK, GitTypeOK
  <2> QED  BY <2>5, <2>6
<1>4. CASE ~ CanClose(r)
  <2>1. UNCHANGED gitVars
    BY <1>1, <1>4 DEF PrepareToCloseCommit
  <2>2. TypeOK'
    BY <1>1, <2>1 DEF TypeOK, GitTypeOK, gitVars, refVars, rest, inputVars, phaseIVars
  <2>3. CommitsOpen'
    BY <1>1, <2>1 DEF CommitsOpen, OpenSoFar, gitVars
  <2> QED  BY <2>2, <2>3
<1> QED  BY <1>3, <1>4

\* close_commit keeps the types, whether the commit is kept or dropped.
LEMMA CloseRefType ==
  ASSUME TypeInv, NEW r \in Refs, CloseRef(r, revnum)
  PROVE  GitTypeOK'
<1> USE DEF TypeInv
<1> DEFINE p == r.repo
           written == IF prepared[p] THEN tree[r] ELSE PreparedTree(r)
           replies == IF prepared[p] THEN lsReplies[p] ELSE Append(lsReplies[p], written)
           sha == Head(replies)
<1>1. p \in Repos
  BY DEF Refs
<1>2. written \in Trees
  BY PreparedTreeType DEF TypeOK, GitTypeOK
<1>3. replies \in Seq(Trees) /\ replies # << >>
  <2>1. lsReplies[p] \in Seq(Trees) /\ (prepared[p] => lsReplies[p] # << >>)
    BY <1>1 DEF TypeOK, GitTypeOK, CommitsOpen
  <2> HIDE DEF written
  <2> QED  BY <1>2, <2>1, AppendProperties
<1>4. Head(replies) \in Trees /\ Tail(replies) \in Seq(Trees)
  <2> HIDE DEF replies
  <2> QED  BY <1>3, HeadTailProperties
<1>5. sha \in Trees
  BY <1>4
<1>6. /\ marks' \in [Refs -> [1..MaxRev -> Nat]]
      /\ tree' \in [Refs -> Trees]
      /\ history' \in [Refs -> SUBSET Nat]
      /\ changedSubs' \in [Refs -> SUBSET Refs]
      /\ subsWritten' \in [Refs -> Nat]
      /\ headTree' \in [Refs -> Trees \cup {NoTree}]
  <2> IF sha = headTree[r] THEN DropCommit(r, revnum) ELSE KeepCommit(r, written, sha)
    BY DEF CloseRef
  <2> HIDE DEF sha, written
  <2> /\ marks \in [Refs -> [1..MaxRev -> Nat]]
      /\ tree \in [Refs -> Trees]
      /\ history \in [Refs -> SUBSET Nat]
      /\ changedSubs \in [Refs -> SUBSET Refs]
      /\ subsWritten \in [Refs -> Nat]
      /\ headTree \in [Refs -> Trees \cup {NoTree}]
    BY DEF TypeOK, GitTypeOK
  <2>1. CASE DropCommit(r, revnum)
    <3> DEFINE previous == CommitAt(p, MarkUpTo(r, revnum - 1))
    <3>1. previous.tree \in Trees /\ previous.history \in SUBSET Nat
      BY <1>1, CommitAtType DEF TypeOK
    <3>2. marks' = [marks EXCEPT ![r][revnum] = 0]
      BY <2>1 DEF DropCommit, Retracted
    <3>3. marks' \in [Refs -> [1..MaxRev -> Nat]]
      BY <3>2
    <3>4. tree' \in [Refs -> Trees] /\ history' \in [Refs -> SUBSET Nat]
      BY <2>1, <3>1 DEF DropCommit, Retracted
    <3>5. changedSubs' \in [Refs -> SUBSET Refs] /\ subsWritten' \in [Refs -> Nat]
      BY <2>1 DEF DropCommit, Retracted
    <3> QED  BY <2>1, <3>3, <3>4, <3>5 DEF DropCommit, Retracted
  <2>2. CASE KeepCommit(r, written, sha)
    BY <1>2, <1>5, <2>2 DEF KeepCommit
  <2> QED  BY <2>1, <2>2
<1>7. /\ submoduleRefs' \in [Refs -> SUBSET Refs]
      /\ staleSubs' \in [Refs -> SUBSET Refs]
      /\ attrsOutdated' \in [Refs -> BOOLEAN]
  <2>1. CASE prepared[p]
    BY <2>1 DEF CloseRef, TypeOK, GitTypeOK
  <2>2. CASE ~ prepared[p]
    BY <2>2, PrepareRefType DEF CloseRef
  <2> QED  BY <2>1, <2>2
<1>8. commits' \in [Repos -> Seq(Commits)]
  <2> DEFINE c == [ref |-> r, rev |-> revnum, tree |-> written, history |-> history[r]]
  <2>1. c \in Commits
    BY <1>2 DEF Commits, TypeOK, GitTypeOK
  <2>2. commits \in [Repos -> Seq(Commits)]
    BY DEF TypeOK, GitTypeOK
  <2>3. commits' = [commits EXCEPT ![p] = Append(commits[p], c)]
    BY DEF CloseRef
  <2> HIDE DEF c
  <2> QED  BY <1>1, <2>1, <2>2, <2>3
<1>9. lsReplies' \in [Repos -> Seq(Trees)]
  <2>1. lsReplies' = [lsReplies EXCEPT ![p] = Tail(replies)]
    BY DEF CloseRef
  <2> HIDE DEF replies
  <2> QED  BY <1>1, <1>4, <2>1 DEF TypeOK, GitTypeOK
<1>10. /\ modifiedRefs' \subseteq Refs
       /\ currentRef' \in [Repos -> Refs \cup {NoRef}]
       /\ prepared' \in [Repos -> BOOLEAN]
       /\ UNCHANGED <<lastMark, refVars>>
  BY DEF CloseRef, TypeOK, GitTypeOK
<1> QED
  BY <1>6, <1>7, <1>8, <1>9, <1>10 DEF TypeOK, GitTypeOK, refVars

\* The closing loop keeps the types.
LEMMA CloseCommitType ==
  ASSUME TypeInv, NEW p \in Repos, CloseCommit(p)
  PROVE  TypeInv'
<1> USE DEF TypeInv
<1> DEFINE r == currentRef[p]
<1>1. /\ phase = "close" /\ p \in repoWork /\ repoWork' = repoWork \ {p}
      /\ UNCHANGED <<rest, phase, changedRepos, pass, passRepos, fileWork>>
  BY DEF CloseCommit
<1>2. r \in Refs /\ r.repo = p
  BY <1>1 DEF CommitsOpen, OpenSoFar, TypeOK, GitTypeOK
<1>3. CASE CanClose(r)
  <2>1. CloseRef(r, revnum) /\ closed' \subseteq Repos
    BY <1>3 DEF CloseCommit, TypeOK
  <2>2. GitTypeOK'
    BY <1>2, <2>1, CloseRefType
  <2>3. TypeOK'
    BY <1>1, <2>1, <2>2 DEF TypeOK, rest, inputVars, phaseIVars
  <2>4. /\ currentRef' = [currentRef EXCEPT ![p] = NoRef]
        /\ prepared' = [prepared EXCEPT ![p] = FALSE]
        /\ \A q \in Repos \ {p} : lsReplies'[q] = lsReplies[q]
    BY <1>2, <2>1 DEF CloseRef, TypeOK, GitTypeOK
  <2>5. CommitsOpen'
    BY <1>1, <2>4 DEF CommitsOpen, OpenSoFar, TypeOK, GitTypeOK
  <2> QED  BY <2>3, <2>5
<1>4. CASE ~ CanClose(r)
  <2>1. UNCHANGED <<gitVars, closed>>
    BY <1>4 DEF CloseCommit
  <2>2. TypeOK'
    BY <1>1, <2>1 DEF TypeOK, GitTypeOK, gitVars, refVars, rest, inputVars, phaseIVars
  <2>3. CommitsOpen'
    BY <1>1, <2>1 DEF CommitsOpen, OpenSoFar, gitVars
  <2> QED  BY <2>2, <2>3
<1> QED  BY <1>3, <1>4

\* The steps of the loops that leave every repository alone.
Bookkeeping ==
  \/ BeginPhaseII \/ BeginPass \/ GiveUp \/ NextLoop \/ EndPass
  \/ \E p \in Repos : OpenNothing(p)

\* The steps that only move the program counter keep the types.
LEMMA BookkeepingType == TypeInv /\ Bookkeeping => TypeInv'
<1> SUFFICES ASSUME TypeInv, Bookkeeping PROVE TypeInv'
  OBVIOUS
<1> USE DEF TypeInv
<1>1. GitTypeOK' /\ UNCHANGED gitVars
  BY DEF Bookkeeping, BeginPhaseII, BeginPass, GiveUp, NextLoop, EndPass, OpenNothing,
         TypeOK, GitTypeOK, gitVars, refVars
<1>2. TypeOK'
  BY <1>1 DEF Bookkeeping, BeginPhaseII, BeginPass, GiveUp, NextLoop, EndPass,
              OpenNothing, TypeOK, Phases, rest, inputVars, phaseIVars, loopVars
<1>3. CommitsOpen'
  BY <1>1 DEF Bookkeeping, BeginPhaseII, BeginPass, GiveUp, NextLoop, EndPass,
              OpenNothing, CommitsOpen, OpenSoFar, gitVars, loopVars, TypeOK
<1> QED  BY <1>2, <1>3

\* So does a step that changes nothing.
LEMMA StutterType == TypeInv /\ UNCHANGED vars => TypeInv'
BY DEF TypeInv, TypeOK, GitTypeOK, CommitsOpen, OpenSoFar, vars, gitVars, refVars,
       inputVars, phaseIVars, loopVars

\* Every variable of every component keeps its type in every reachable state,
\* for any set of repositories, also nested ones.
THEOREM TypeCorrect == Spec => []TypeOK
<1>1. TypeInv /\ [Next]_vars => TypeInv'
  BY BeginRevisionType, PhaseIType, OpenCommitType,
     ConvertFileType, PrepareRepoType, CloseCommitType, BookkeepingType, StutterType
     DEF Next, PhaseI, Bookkeeping, Finished
<1>2. TypeInv => TypeOK
  BY DEF TypeInv
<1> QED  BY TypeInit, <1>1, <1>2, PTL DEF Spec

-----------------------------------------------------------------------------
(* The safety invariant, for super-modules that are not submodules.        *)

\* The safety invariant contains the type invariant.
LEMMA SafetyTyped == SafetyInv => TypeInv
<1> SUFFICES ASSUME SafetyInv PROVE CommitsOpen
  BY DEF SafetyInv, TypeInv
<1>1. \A p \in Repos : currentRef[p] # NoRef => currentRef[p].repo = p
  BY DEF SafetyInv, OpenInv, ModifiedIn
<1>2. \A p \in Repos : prepared[p] => lsReplies[p] # << >>
  <2>1. \A x : <<x>> # << >>
    OBVIOUS
  <2>2. \A p \in Repos : prepared[p] => lsReplies[p] = <<tree[currentRef[p]]>>
    BY DEF SafetyInv, LsInStep
  <2> QED  BY <2>1, <2>2
<1>3. repoWork \subseteq passRepos /\ \A p \in OpenSoFar : currentRef[p] # NoRef
  BY DEF SafetyInv, LoopInv
<1> QED  BY <1>1, <1>2, <1>3 DEF CommitsOpen

\* There are finitely many refs, so that waiting refs can be counted.
LEMMA RefsFinite == IsFiniteSet(Refs)
<1> DEFINE f == [x \in Repos \X Names |-> [repo |-> x[1], name |-> x[2]]]
<1>1. IsFiniteSet(Repos \X Names)
  BY RepositoryAssumption, FS_Product
<1>2. f \in Surjection(Repos \X Names, Refs)
  <2>1. f \in [Repos \X Names -> Refs]
    BY DEF Refs
  <2>2. \A r \in Refs : \E x \in Repos \X Names : f[x] = r
    <3> TAKE r \in Refs
    <3>1. <<r.repo, r.name>> \in Repos \X Names
          /\ r = [repo |-> r.repo, name |-> r.name]
      BY DEF Refs
    <3>2. f[<<r.repo, r.name>>] = r
      BY <3>1
    <3> QED  BY <3>1, <3>2
  <2> QED  BY <2>1, <2>2 DEF Surjection
<1> QED  BY <1>1, <1>2, FS_Surjection

\* The safety invariant holds before the first revision.
LEMMA SafetyInit == Init => SafetyInv
<1> SUFFICES ASSUME Init PROVE SafetyInv
  OBVIOUS
<1>1. TypeOK
  BY TypeInit DEF TypeInv
<1>2. modifiedRefs = {} /\ changedRepos = {} /\ phase = "idle" /\ repoWork = {}
      /\ passRepos = {} /\ currentRef = [p \in Repos |-> NoRef]
      /\ prepared = [p \in Repos |-> FALSE] /\ lsReplies = [p \in Repos |-> << >>]
      /\ changedSubs = [r \in Refs |-> {}] /\ subsWritten = [r \in Refs |-> 0]
  BY DEF Init, GitInit
<1>3. SubmodulesCounted
  BY <1>2, FS_EmptySet DEF SubmodulesCounted
<1>4. MarkedTogether /\ ReposMatchRefs /\ LoopInv /\ OpenInv /\ LsInStep
  BY <1>2 DEF MarkedTogether, ReposMatchRefs, LoopInv, OpenInv, LsInStep, OpenSoFar,
              Marking
<1> QED  BY <1>1, <1>3, <1>4 DEF SafetyInv

\* prepare_to_modify marks a ref together with its super-module ref, and puts
\* the repositories of both into changed_repositories.
LEMMA DiscoverRefSafe ==
  ASSUME FlatSubmodules, SafetyInv, phase # "close", NEW r \in Refs, DiscoverRef(r),
         Marking \/ r \in modifiedRefs
  PROVE  /\ MarkedTogether'
         /\ changedRepos' = {q.repo : q \in modifiedRefs'}
         /\ changedRepos \subseteq changedRepos'
         /\ modifiedRefs \subseteq modifiedRefs' /\ r \in modifiedRefs'
         /\ Marking => \A s \in Refs : changedSubs'[s] \subseteq modifiedRefs'
         /\ \A s \in Refs : subsWritten[s] = Cardinality(changedSubs'[s] \ modifiedRefs')
<1> DEFINE s == SuperRef(r)
           new == NewlyModified(r)
<1>1. s \in Refs \cup {NoRef} /\ SuperRef(s) = NoRef /\ NoRef \notin Refs
  BY SuperRefType, RepositoryAssumption DEF FlatSubmodules, SuperRef
<1>2. new = IF r \in modifiedRefs THEN {}
            ELSE {r} \cup IF s \in modifiedRefs \cup {NoRef} THEN {} ELSE {s}
  BY <1>1 DEF NewlyModified
<1>3. modifiedRefs' = modifiedRefs \cup new
      /\ changedSubs' = [x \in Refs |-> changedSubs[x] \cup {q \in new : SuperRef(q) = x}]
      /\ changedRepos' = changedRepos \cup {r.repo} \cup InSuperModule(r.repo)
  BY DEF DiscoverRef, ModifyRef
<1>4. changedSubs \in [Refs -> SUBSET Refs] /\ modifiedRefs \subseteq Refs
  BY DEF SafetyInv, TypeOK, GitTypeOK
<1>5. changedRepos = {q.repo : q \in modifiedRefs}
  BY DEF SafetyInv, ReposMatchRefs
<1>6. InSuperModule(r.repo) = IF s = NoRef THEN {} ELSE {s.repo}
  BY RepositoryAssumption, <1>1 DEF InSuperModule, SuperRef, Refs
<1>7. MarkedTogether
  BY DEF SafetyInv
<1> HIDE DEF s, new
<1>8. r \in modifiedRefs' /\ (s # NoRef => s \in modifiedRefs')
  BY <1>2, <1>3, <1>7 DEF MarkedTogether, s
<1>9. MarkedTogether'
  <2>1. \A q \in modifiedRefs' : SuperRef(q) # NoRef =>
          SuperRef(q) \in modifiedRefs' /\ q \in changedSubs'[SuperRef(q)]
    <3> SUFFICES ASSUME NEW q \in modifiedRefs', SuperRef(q) # NoRef
                 PROVE  SuperRef(q) \in modifiedRefs' /\ q \in changedSubs'[SuperRef(q)]
      OBVIOUS
    <3>1. CASE q \in modifiedRefs
      BY <1>3, <1>4, <1>7, <3>1 DEF MarkedTogether
    <3>2. CASE q \in new
      <4>1. q = r
        BY <1>1, <1>2, <3>2 DEF s
      <4> QED  BY <1>1, <1>3, <1>8, <3>2, <4>1 DEF s
    <3> QED  BY <1>3, <3>1, <3>2
  <2>2. \A x \in Refs : \A q \in changedSubs'[x] : SuperRef(q) = x
    BY <1>3, <1>7 DEF MarkedTogether
  <2>3. \A x \in Refs : changedSubs'[x] # {} => x \in modifiedRefs'
    <3> TAKE x \in Refs
    <3>1. CASE changedSubs[x] # {}
      BY <1>3, <1>7, <3>1 DEF MarkedTogether
    <3>2. CASE \E q \in new : SuperRef(q) = x
      <4>1. PICK q \in new : SuperRef(q) = x
        BY <3>2
      <4>2. q = r
        BY <1>1, <1>2, <4>1 DEF s
      <4> QED  BY <1>1, <1>8, <4>1, <4>2 DEF s
    <3> QED  BY <1>3, <3>1, <3>2
  <2> QED  BY <2>1, <2>2, <2>3 DEF MarkedTogether
<1>10. changedRepos' = {q.repo : q \in modifiedRefs'}
  <2>1. \A q \in new : q.repo \in {r.repo} \cup InSuperModule(r.repo)
    BY <1>2, <1>6
  <2> QED  BY <1>3, <1>5, <1>6, <1>8, <2>1
<1>11. Marking => \A x \in Refs : changedSubs'[x] \subseteq modifiedRefs'
  BY <1>3 DEF SafetyInv, LoopInv
<1>12. \A x \in Refs : subsWritten[x] = Cardinality(changedSubs'[x] \ modifiedRefs')
  <2>1. CASE r \in modifiedRefs
    <3>1. new = {}
      BY <1>2, <2>1
    <3>2. modifiedRefs' = modifiedRefs /\ \A x \in Refs : changedSubs'[x] = changedSubs[x]
      BY <1>3, <3>1
    <3> QED  BY <3>2 DEF SafetyInv, SubmodulesCounted
  <2>2. CASE Marking
    <3> TAKE x \in Refs
    <3>1. changedSubs'[x] \ modifiedRefs' = {} /\ changedSubs[x] \ modifiedRefs = {}
      BY <1>11, <2>2 DEF SafetyInv, LoopInv
    <3> QED  BY <3>1 DEF SafetyInv, SubmodulesCounted
  <2> QED  BY <2>1, <2>2
<1> QED  BY <1>3, <1>8, <1>9, <1>10, <1>11, <1>12

\* can_close answers what its comment promises: no submodule ref of r is left
\* to be committed.
LEMMA CanCloseMeansDone ==
  ASSUME SafetyInv, NEW r \in Refs, CanClose(r)
  PROVE  \A q \in modifiedRefs : SuperRef(q) # r
<1>1. changedSubs[r] \subseteq Refs
  BY DEF SafetyInv, TypeOK, GitTypeOK
<1>2. IsFiniteSet(changedSubs[r])
  BY <1>1, RefsFinite, FS_Subset
<1>3. Cardinality(changedSubs[r] \ modifiedRefs) = Cardinality(changedSubs[r])
  BY DEF SafetyInv, SubmodulesCounted, CanClose
<1>4. changedSubs[r] = changedSubs[r] \ modifiedRefs
  <2>1. (changedSubs[r] \ modifiedRefs) \in SUBSET changedSubs[r]
    OBVIOUS
  <2> QED  BY <1>2, <1>3, <2>1, FS_Subset
<1>5. \A q \in modifiedRefs : SuperRef(q) = r => q \in changedSubs[r]
  BY RepositoryAssumption DEF SafetyInv, MarkedTogether
<1> QED  BY <1>4, <1>5

\* Closing a commit keeps the counts of its super-module ref right, whether the
\* commit is kept or dropped.
LEMMA CloseRefSafe ==
  ASSUME SafetyInv, NEW r \in modifiedRefs, CanClose(r), CloseRef(r, revnum)
  PROVE  /\ MarkedTogether'
         /\ SubmodulesCounted'
         /\ \A x \in Refs \ {r, SuperRef(r)} : changedSubs'[x] = changedSubs[x]
                                              /\ subsWritten'[x] = subsWritten[x]
         /\ \A x \in Refs \ {r} : tree'[x] = tree[x]
<1> DEFINE s == SuperRef(r)
           written == IF prepared[r.repo] THEN tree[r] ELSE PreparedTree(r)
<1>1. r \in Refs /\ s # r
  BY NestingAssumption DEF SafetyInv, TypeOK, GitTypeOK
<1>2. /\ changedSubs \in [Refs -> SUBSET Refs] /\ subsWritten \in [Refs -> Nat]
      /\ tree \in [Refs -> Trees]
  BY DEF SafetyInv, TypeOK, GitTypeOK
<1>3. modifiedRefs' = modifiedRefs \ {r}
  BY DEF CloseRef
<1>4. MarkedTogether /\ SubmodulesCounted
  BY DEF SafetyInv
<1>5. \A q \in modifiedRefs : SuperRef(q) # r
  BY <1>1, CanCloseMeansDone
<1>6. \A x \in Refs : IsFiniteSet(changedSubs[x] \ modifiedRefs)
  BY <1>2, RefsFinite, FS_Subset
<1>7. s \in Refs => r \in changedSubs[s]
  BY <1>4, RepositoryAssumption DEF MarkedTogether
<1>8. \A x \in Refs \ {s} : r \notin changedSubs[x]
  BY <1>4 DEF MarkedTogether
<1>9. \E sha : DropCommit(r, revnum) \/ KeepCommit(r, written, sha)
  BY DEF CloseRef
<1>10. CASE DropCommit(r, revnum)
  <2>1. /\ changedSubs' = [q \in Refs |->
             IF q = r THEN {} ELSE IF q = s THEN changedSubs[q] \ {r} ELSE changedSubs[q]]
        /\ subsWritten' = [subsWritten EXCEPT ![r] = 0]
    BY <1>10 DEF DropCommit, Retracted
  <2>2. MarkedTogether'
    <3>1. \A x \in Refs \ {r} : changedSubs'[x] \subseteq changedSubs[x]
                              /\ changedSubs[x] \ {r} \subseteq changedSubs'[x]
      BY <2>1
    <3>2. changedSubs'[r] = {}
      BY <1>1, <2>1
    <3>3. \A q \in modifiedRefs' : SuperRef(q) # NoRef =>
            SuperRef(q) \in modifiedRefs' /\ q \in changedSubs'[SuperRef(q)]
      BY <1>3, <1>4, <1>5, <3>1, SuperRefType DEF MarkedTogether, SafetyInv, TypeOK, GitTypeOK
    <3>4. \A x \in Refs : \A q \in changedSubs'[x] : SuperRef(q) = x
      BY <1>4, <3>1, <3>2 DEF MarkedTogether
    <3>5. \A x \in Refs : changedSubs'[x] # {} => x \in modifiedRefs'
      BY <1>3, <1>4, <3>1, <3>2 DEF MarkedTogether
    <3> QED  BY <3>3, <3>4, <3>5 DEF MarkedTogether
  <2>3. \A x \in Refs \ {r} : changedSubs'[x] \ modifiedRefs' = changedSubs[x] \ modifiedRefs
    BY <1>3, <1>8, <2>1
  <2>4. changedSubs'[r] \ modifiedRefs' = {}
    BY <1>1, <2>1
  <2>5. SubmodulesCounted'
    <3>1. \A x \in Refs \ {r} : subsWritten'[x] = Cardinality(changedSubs'[x] \ modifiedRefs')
      BY <1>2, <1>4, <2>1, <2>3 DEF SubmodulesCounted
    <3>2. subsWritten'[r] = Cardinality(changedSubs'[r] \ modifiedRefs')
      BY <1>1, <1>2, <2>1, <2>4, FS_EmptySet
    <3> QED  BY <3>1, <3>2 DEF SubmodulesCounted
  <2>6. \A x \in Refs \ {r, s} : changedSubs'[x] = changedSubs[x]
                                /\ subsWritten'[x] = subsWritten[x]
    BY <1>2, <2>1
  <2>7. \A x \in Refs \ {r} : tree'[x] = tree[x]
    BY <1>2, <1>10 DEF DropCommit, Retracted
  <2> QED  BY <2>2, <2>5, <2>6, <2>7
<1>11. CASE \E sha : KeepCommit(r, written, sha)
  <2>1. /\ changedSubs' = [changedSubs EXCEPT ![r] = {}]
        /\ subsWritten' = [q \in Refs |->
             IF q = r THEN 0 ELSE IF q = s THEN subsWritten[q] + 1 ELSE subsWritten[q]]
    BY <1>11 DEF KeepCommit
  <2>2. MarkedTogether'
    <3>1. \A x \in Refs \ {r} : changedSubs'[x] = changedSubs[x]
      BY <1>2, <2>1
    <3>2. changedSubs'[r] = {}
      BY <1>1, <1>2, <2>1
    <3>3. \A q \in modifiedRefs' : SuperRef(q) # NoRef =>
            SuperRef(q) \in modifiedRefs' /\ q \in changedSubs'[SuperRef(q)]
      BY <1>3, <1>4, <1>5, <3>1, SuperRefType DEF MarkedTogether, SafetyInv, TypeOK, GitTypeOK
    <3>4. \A x \in Refs : \A q \in changedSubs'[x] : SuperRef(q) = x
      BY <1>4, <3>1, <3>2 DEF MarkedTogether
    <3>5. \A x \in Refs : changedSubs'[x] # {} => x \in modifiedRefs'
      BY <1>3, <1>4, <3>1, <3>2 DEF MarkedTogether
    <3> QED  BY <3>3, <3>4, <3>5 DEF MarkedTogether
  <2>3. \A x \in Refs \ {r, s} : changedSubs'[x] \ modifiedRefs' = changedSubs[x] \ modifiedRefs
    BY <1>2, <1>3, <1>8, <2>1
  <2>4. changedSubs'[r] \ modifiedRefs' = {}
    BY <1>1, <1>2, <2>1
  <2>5. s \in Refs => changedSubs'[s] \ modifiedRefs' = (changedSubs[s] \ modifiedRefs) \cup {r}
    BY <1>1, <1>2, <1>3, <1>7, <2>1
  <2>6. s \in Refs => Cardinality(changedSubs'[s] \ modifiedRefs')
                        = Cardinality(changedSubs[s] \ modifiedRefs) + 1
    BY <1>6, <2>5, FS_AddElement
  <2>7. SubmodulesCounted'
    <3>1. \A x \in Refs \ {r, s} : subsWritten'[x] = Cardinality(changedSubs'[x] \ modifiedRefs')
      BY <1>4, <2>1, <2>3 DEF SubmodulesCounted
    <3>2. subsWritten'[r] = Cardinality(changedSubs'[r] \ modifiedRefs')
      BY <1>1, <2>1, <2>4, FS_EmptySet
    <3>3. s \in Refs => subsWritten'[s] = Cardinality(changedSubs'[s] \ modifiedRefs')
      BY <1>1, <1>4, <2>1, <2>6 DEF SubmodulesCounted
    <3> QED  BY <3>1, <3>2, <3>3 DEF SubmodulesCounted
  <2>8. \A x \in Refs \ {r, s} : changedSubs'[x] = changedSubs[x]
                                /\ subsWritten'[x] = subsWritten[x]
    BY <1>2, <2>1
  <2>9. \A x \in Refs \ {r} : tree'[x] = tree[x]
    BY <1>2, <1>11 DEF KeepCommit
  <2> QED  BY <2>2, <2>7, <2>8, <2>9
<1> QED  BY <1>9, <1>10, <1>11

\* What most steps leave alone.
LEMMA CountsUnchanged ==
  ASSUME SafetyInv, UNCHANGED <<modifiedRefs, changedSubs, subsWritten>>
  PROVE  MarkedTogether' /\ SubmodulesCounted' /\ \A r \in Refs : CanClose(r) <=> CanClose(r)'
BY DEF SafetyInv, MarkedTogether, SubmodulesCounted, CanClose

\* Outside the last two loops of a pass no commit is prepared.
LEMMA NothingPrepared ==
  ASSUME SafetyInv, phase \notin {"prepare", "close"}
  PROVE  \A p \in Repos : ~ prepared[p] /\ lsReplies[p] = << >>
<1>1. \A p \in Repos : ~ prepared[p]
  BY DEF SafetyInv, OpenInv
<1> QED  BY <1>1 DEF SafetyInv, LsInStep

\* Starting a revision keeps the safety invariant.
LEMMA BeginRevisionSafe == SafetyInv /\ BeginRevision => SafetyInv'
<1> SUFFICES ASSUME SafetyInv, BeginRevision PROVE SafetyInv'
  OBVIOUS
<1>1. TypeOK'
  BY SafetyTyped, BeginRevisionType DEF TypeInv
<1>2. /\ phase = "idle" /\ phase' = "discover" /\ changedRepos' = {}
      /\ UNCHANGED <<gitVars, loopVars>>
  BY DEF BeginRevision
<1>3. modifiedRefs = {}
  BY <1>2 DEF SafetyInv, LoopInv, ReposMatchRefs
<1>4. \A s \in Refs : changedSubs[s] = {}
  BY <1>3 DEF SafetyInv, MarkedTogether
<1>5. MarkedTogether' /\ SubmodulesCounted'
  BY <1>2, CountsUnchanged DEF gitVars
<1>6. ReposMatchRefs'
  BY <1>2, <1>3 DEF ReposMatchRefs, gitVars
<1>7. LoopInv'
  BY <1>2, <1>4 DEF SafetyInv, LoopInv, OpenSoFar, gitVars, loopVars
<1>8. OpenInv' /\ LsInStep'
  BY <1>2, NothingPrepared DEF SafetyInv, OpenInv, LsInStep, ModifiedIn, gitVars
<1> QED  BY <1>1, <1>5, <1>6, <1>7, <1>8 DEF SafetyInv

\* A step of Phase I that marks a ref.
LEMMA DiscoveryStepSafe ==
  ASSUME FlatSubmodules, SafetyInv, TypeOK', phase = "discover",
         UNCHANGED <<phase, loopVars, currentRef, prepared, subsWritten, lsReplies, tree>>,
         \/ UNCHANGED <<changedRepos, modifiedRefs, changedSubs>>
         \/ \E r \in Refs : DiscoverRef(r)
  PROVE  SafetyInv'
<1>1. Marking
  BY DEF Marking
<1>2. /\ MarkedTogether' /\ SubmodulesCounted'
      /\ changedRepos' = {q.repo : q \in modifiedRefs'}
      /\ modifiedRefs \subseteq modifiedRefs'
      /\ \A s \in Refs : changedSubs'[s] \subseteq modifiedRefs'
  <2>1. CASE UNCHANGED <<changedRepos, modifiedRefs, changedSubs>>
    <3>1. MarkedTogether' /\ SubmodulesCounted'
      BY <2>1, CountsUnchanged
    <3> QED  BY <1>1, <2>1, <3>1 DEF SafetyInv, ReposMatchRefs, LoopInv
  <2>2. CASE \E r \in Refs : DiscoverRef(r)
    BY <1>1, <2>2, DiscoverRefSafe DEF SubmodulesCounted
  <2> QED  BY <2>1, <2>2
<1>3. ReposMatchRefs'
  BY <1>2 DEF ReposMatchRefs
<1>4. LoopInv'
  BY <1>2 DEF SafetyInv, LoopInv, OpenSoFar, loopVars
<1>5. OpenInv' /\ LsInStep'
  BY <1>2, NothingPrepared DEF SafetyInv, OpenInv, LsInStep, ModifiedIn
<1> QED  BY <1>2, <1>3, <1>4, <1>5 DEF SafetyInv

\* Phase I keeps the safety invariant.
LEMMA PhaseISafe ==
  ASSUME FlatSubmodules, SafetyInv, PhaseI
  PROVE  SafetyInv'
<1>1. TypeOK /\ TypeOK'
  BY SafetyTyped, PhaseIType DEF TypeInv
<1>2. /\ phase = "discover" /\ UNCHANGED <<phase, loopVars, otherGitVars>>
      /\ \/ UNCHANGED <<changedRepos, modifiedRefs, changedSubs>>
         \/ \E r \in Refs : DiscoverRef(r)
  BY <1>1, PhaseIKinds
<1>3. UNCHANGED <<currentRef, prepared, subsWritten, lsReplies, tree>>
  BY <1>2 DEF otherGitVars
<1> QED  BY <1>1, <1>2, <1>3, DiscoveryStepSafe

\* The opening loop keeps the safety invariant.
LEMMA OpenCommitSafe ==
  ASSUME SafetyInv, NEW p \in Repos, OpenCommit(p)
  PROVE  SafetyInv'
<1>1. TypeOK'
  BY SafetyTyped, OpenCommitType DEF TypeInv
<1>2. /\ phase = "open" /\ p \in repoWork /\ repoWork' = repoWork \ {p}
      /\ UNCHANGED <<phase, changedRepos, pass, passRepos, closed>>
  BY DEF OpenCommit
<1>3. UNCHANGED <<modifiedRefs, prepared, changedSubs, subsWritten, lsReplies>>
  BY DEF OpenCommit, gitVars
<1>4. \/ currentRef[p] # NoRef /\ currentRef' = currentRef
      \/ \E r \in ModifiedIn(p) : currentRef' = [currentRef EXCEPT ![p] = r]
  BY DEF OpenCommit, OpenRef, ModifiedIn, gitVars
<1>5. MarkedTogether' /\ SubmodulesCounted'
  BY <1>3, CountsUnchanged
<1>6. ReposMatchRefs'
  BY <1>2, <1>3 DEF SafetyInv, ReposMatchRefs
<1>7. currentRef \in [Repos -> Refs \cup {NoRef}] /\ NoRef \notin modifiedRefs
  BY RepositoryAssumption DEF SafetyInv, TypeOK, GitTypeOK
<1>8. currentRef'[p] # NoRef /\ \A q \in Repos \ {p} : currentRef'[q] = currentRef[q]
  BY <1>4, <1>7 DEF ModifiedIn
<1>9. LoopInv'
  <2>1. \A q \in OpenSoFar' : q \in Repos /\ (q = p \/ q \in OpenSoFar)
    BY <1>2 DEF OpenSoFar, SafetyInv, TypeOK
  <2>2. \A q \in OpenSoFar' : currentRef'[q] # NoRef
    BY <1>8, <2>1 DEF SafetyInv, LoopInv
  <2> QED  BY <1>2, <1>3, <2>2 DEF SafetyInv, LoopInv, Marking
<1>10. OpenInv'
  <2>1. \A q \in Repos : currentRef'[q] # NoRef => currentRef'[q] \in ModifiedIn(q)
    BY <1>4, <1>7 DEF SafetyInv, OpenInv
  <2> QED  BY <1>2, <1>3, <2>1, NothingPrepared DEF OpenInv, ModifiedIn
<1>11. LsInStep'
  BY <1>2, <1>3, NothingPrepared DEF LsInStep
<1> QED  BY <1>1, <1>5, <1>6, <1>9, <1>10, <1>11 DEF SafetyInv

\* convert_svn_file keeps the safety invariant, also when it opens a commit.
LEMMA ConvertFileSafe ==
  ASSUME FlatSubmodules, SafetyInv, NEW s \in SvnFiles, ConvertFile(s)
  PROVE  SafetyInv'
<1> DEFINE m == Match(s, revnum)
           r == m.ref
           p == r.repo
<1>1. TypeOK /\ TypeOK'
  BY SafetyTyped, ConvertFileType DEF TypeInv
<1>2. m # NoRule => r \in Refs /\ p \in Repos
  BY <1>1, ConvertFileCases
<1>3. phase = "convert" /\ UNCHANGED <<phase, pass, passRepos, repoWork, closed>>
  BY <1>1, ConvertFileCases
<1>4. \A q \in Repos : ~ prepared[q] /\ lsReplies[q] = << >>
  BY <1>3, NothingPrepared
<1>5. CASE Skips(s)
  <2>0. UNCHANGED <<gitVars, changedRepos>>
    <3>0. /\ UNCHANGED gitVars
          /\ m = NoRule => UNCHANGED changedRepos
          /\ m # NoRule => changedRepos' = changedRepos \cup
               IF p \in changedRepos THEN InSuperModule(p) ELSE {}
      BY <1>1, <1>5, ConvertFileCases
    <3> SUFFICES ASSUME m # NoRule PROVE UNCHANGED changedRepos
      BY <3>0
    <3>1. changedRepos' = changedRepos \cup IF p \in changedRepos THEN InSuperModule(p) ELSE {}
      BY <3>0
    <3>2. CASE p \in changedRepos /\ SuperModule[p] # NoRepo
      <4>1. changedRepos = {q.repo : q \in modifiedRefs} /\ modifiedRefs \subseteq Refs
        BY <1>3 DEF SafetyInv, ReposMatchRefs, TypeOK, GitTypeOK
      <4>2. PICK q \in modifiedRefs : q.repo = p
        BY <3>2, <4>1
      <4>3. q \in Refs /\ SuperRef(q) # NoRef /\ SuperRef(q).repo = SuperModule[p]
        BY <1>2, <3>2, <4>1, <4>2, RepositoryAssumption DEF SuperRef, Refs
      <4>4. SuperRef(q) \in modifiedRefs
        BY <4>2, <4>3 DEF SafetyInv, MarkedTogether
      <4> QED  BY <3>1, <4>1, <4>3, <4>4 DEF InSuperModule
    <3>3. CASE ~ (p \in changedRepos /\ SuperModule[p] # NoRepo)
      BY <3>1, <3>3 DEF InSuperModule
    <3> QED  BY <3>1, <3>2, <3>3
  <2>1. MarkedTogether' /\ SubmodulesCounted'
    BY <2>0, CountsUnchanged DEF gitVars
  <2>2. ReposMatchRefs'
    BY <1>3, <2>0 DEF SafetyInv, ReposMatchRefs, gitVars
  <2>3. LoopInv'
    BY <1>3, <2>0 DEF SafetyInv, LoopInv, OpenSoFar, Marking, gitVars
  <2>4. OpenInv' /\ LsInStep'
    BY <1>4, <2>0 DEF SafetyInv, OpenInv, LsInStep, ModifiedIn, gitVars
  <2> QED  BY <1>1, <2>1, <2>2, <2>3, <2>4 DEF SafetyInv
<1>6. CASE ~ Skips(s)
  <2>0. r \in Refs /\ p \in Repos
    BY <1>1, <1>2, <1>6, ConvertFileCases
  <2>1. /\ DiscoverRef(r)
        /\ UNCHANGED <<prepared, subsWritten, lsReplies>>
        /\ pass > 0 => r \in modifiedRefs
    BY <1>1, <1>6, ConvertFileCases
  <2>2. Marking \/ r \in modifiedRefs
    BY <1>3, <2>1 DEF Marking, SafetyInv, TypeOK
  <2>3. /\ MarkedTogether'
        /\ changedRepos' = {q.repo : q \in modifiedRefs'}
        /\ modifiedRefs \subseteq modifiedRefs' /\ r \in modifiedRefs'
        /\ Marking => \A t \in Refs : changedSubs'[t] \subseteq modifiedRefs'
        /\ SubmodulesCounted'
    BY <2>0, <1>3, <2>1, <2>2, DiscoverRefSafe DEF SubmodulesCounted
  <2>4. \/ currentRef' = currentRef
        \/ \E o \in Refs : o \in modifiedRefs' /\ o.repo = p /\ currentRef[p] = NoRef
                           /\ currentRef' = [currentRef EXCEPT ![p] = o]
    <3>1. CASE currentRef[p] # NoRef
      BY <1>1, <1>6, <3>1, ConvertFileCases DEF openVars
    <3>2. CASE currentRef[p] = NoRef
      <4>1. PICK o \in ModifiedIn(p) \cup {r} : OpenRef(o, revnum)
        BY <1>1, <1>6, <3>2, ConvertFileCases
      <4>2. o \in Refs /\ o \in modifiedRefs' /\ o.repo = p
        BY <2>0, <2>3 DEF ModifiedIn, SafetyInv, TypeOK, GitTypeOK
      <4> QED  BY <3>2, <4>1, <4>2 DEF OpenRef
    <3> QED  BY <3>1, <3>2
  <2>5. \A q \in Repos : /\ currentRef[q] # NoRef => currentRef'[q] # NoRef
                         /\ currentRef'[q] # NoRef =>
                              currentRef'[q] \in modifiedRefs' /\ currentRef'[q].repo = q
    <3>1. \A q \in Repos : currentRef[q] # NoRef =>
            currentRef[q] \in modifiedRefs /\ currentRef[q].repo = q
      BY DEF SafetyInv, OpenInv, ModifiedIn
    <3>2. currentRef \in [Repos -> Refs \cup {NoRef}]
      BY DEF SafetyInv, TypeOK, GitTypeOK
    <3> QED  BY <2>0, <2>3, <2>4, <3>1, <3>2, RepositoryAssumption
  <2>6. ReposMatchRefs'
    BY <1>3, <2>3 DEF ReposMatchRefs
  <2>7. LoopInv'
    <3>1. OpenSoFar' = passRepos /\ passRepos \subseteq Repos
      BY <1>3 DEF OpenSoFar, SafetyInv, TypeOK
    <3>2. \A q \in passRepos : currentRef[q] # NoRef
      BY <1>3 DEF SafetyInv, LoopInv, OpenSoFar
    <3> QED  BY <1>3, <2>3, <2>5, <3>1, <3>2 DEF SafetyInv, LoopInv, Marking
  <2>8. OpenInv' /\ LsInStep'
    BY <1>4, <2>1, <2>5 DEF OpenInv, LsInStep, ModifiedIn
  <2> QED  BY <1>1, <2>3, <2>6, <2>7, <2>8 DEF SafetyInv
<1> QED  BY <1>5, <1>6

\* prepare_to_close_commit keeps the safety invariant.
LEMMA PrepareRepoSafe ==
  ASSUME SafetyInv, NEW p \in Repos, PrepareRepo(p)
  PROVE  SafetyInv'
<1> DEFINE r == currentRef[p]
<1>1. TypeOK'
  BY SafetyTyped, PrepareRepoType DEF TypeInv
<1>2. /\ phase = "prepare" /\ p \in repoWork /\ repoWork' = repoWork \ {p}
      /\ UNCHANGED <<phase, changedRepos, pass, passRepos, closed>>
      /\ PrepareToCloseCommit(p)
  BY DEF PrepareRepo
<1>3. UNCHANGED <<modifiedRefs, currentRef, changedSubs, subsWritten>>
  BY <1>2 DEF PrepareToCloseCommit, gitVars
<1>4. MarkedTogether' /\ SubmodulesCounted' /\ \A q \in Refs : CanClose(q) <=> CanClose(q)'
  BY <1>3, CountsUnchanged
<1>5. ReposMatchRefs'
  BY <1>2, <1>3 DEF SafetyInv, ReposMatchRefs
<1>6. LoopInv'
  BY <1>2, <1>3 DEF SafetyInv, LoopInv, OpenSoFar, Marking
<1>7. p \in passRepos /\ r # NoRef /\ r \in ModifiedIn(p) /\ r \in Refs
      /\ ~ prepared[p] /\ lsReplies[p] = << >>
  <2>1. p \in passRepos /\ r # NoRef
    BY <1>2 DEF SafetyInv, LoopInv, OpenSoFar
  <2>2. ~ prepared[p] /\ r \in ModifiedIn(p)
    BY <1>2, <2>1 DEF SafetyInv, OpenInv
  <2> QED  BY <2>1, <2>2 DEF SafetyInv, LsInStep, ModifiedIn, TypeOK, GitTypeOK
<1>8. \A q \in Repos : currentRef[q] # NoRef => currentRef[q] \in ModifiedIn(q)
  BY DEF SafetyInv, OpenInv
<1>9. CASE CanClose(r)
  <2>1. /\ tree' = [tree EXCEPT ![r] = PreparedTree(r)]
        /\ lsReplies' = [lsReplies EXCEPT ![p] = Append(lsReplies[p], PreparedTree(r))]
        /\ prepared' = [prepared EXCEPT ![p] = TRUE]
    BY <1>2, <1>9 DEF PrepareToCloseCommit
  <2>2. /\ prepared \in [Repos -> BOOLEAN] /\ lsReplies \in [Repos -> Seq(Trees)]
        /\ tree \in [Refs -> Trees] /\ PreparedTree(r) \in Trees
    BY <1>7, PreparedTreeType DEF SafetyInv, TypeOK, GitTypeOK
  <2>3. \A q \in Repos \ {p} : prepared'[q] = prepared[q] /\ lsReplies'[q] = lsReplies[q]
    BY <2>1, <2>2
  <2>4. prepared'[p] /\ lsReplies'[p] = <<tree'[r]>>
    <3>1. Append(<< >>, PreparedTree(r)) = <<PreparedTree(r)>>
      BY <2>2
    <3> QED  BY <1>7, <2>1, <2>2, <3>1
  <2>5. OpenInv'
    <3> SUFFICES ASSUME NEW q \in Repos
                 PROVE /\ currentRef'[q] # NoRef => currentRef'[q] \in ModifiedIn(q)'
                       /\ prepared'[q] => /\ currentRef'[q] # NoRef /\ CanClose(currentRef[q])'
                                          /\ phase' = "prepare"
                                          /\ q \in passRepos' \ repoWork'
      BY <1>3 DEF OpenInv, CanClose
    <3>1. CASE q = p
      <4>1. CanClose(currentRef[q])'
        BY <1>3, <1>9, <3>1 DEF CanClose
      <4>2. currentRef'[q] # NoRef /\ currentRef'[q] \in ModifiedIn(q)'
        BY <1>3, <1>7, <3>1 DEF ModifiedIn
      <4> QED  BY <1>2, <1>7, <3>1, <4>1, <4>2
    <3>2. CASE q # p
      <4>1. prepared[q] => currentRef[q] # NoRef /\ CanClose(currentRef[q])
                           /\ q \in passRepos \ repoWork
        BY <1>2 DEF SafetyInv, OpenInv
      <4>2. prepared[q] => CanClose(currentRef[q])'
        BY <1>3, <4>1 DEF CanClose
      <4> QED  BY <1>2, <1>3, <1>8, <2>3, <3>2, <4>1, <4>2 DEF ModifiedIn
    <3> QED  BY <3>1, <3>2
  <2>6. LsInStep'
    <3>1. \A q \in Repos \ {p} : prepared[q] => tree'[currentRef[q]] = tree[currentRef[q]]
      <4> SUFFICES ASSUME NEW q \in Repos \ {p}, prepared[q]
                   PROVE  tree'[currentRef[q]] = tree[currentRef[q]]
        OBVIOUS
      <4>1. currentRef[q] \in Refs /\ currentRef[q] # r
        BY <1>7, <1>8 DEF SafetyInv, OpenInv, ModifiedIn, TypeOK, GitTypeOK
      <4> QED  BY <2>1, <2>2, <4>1
    <3>2. \A q \in Repos \ {p} :
            lsReplies'[q] = IF prepared'[q] THEN <<tree'[currentRef'[q]]>> ELSE << >>
      BY <1>3, <2>3, <3>1 DEF SafetyInv, LsInStep
    <3>3. lsReplies'[p] = IF prepared'[p] THEN <<tree'[currentRef'[p]]>> ELSE << >>
      BY <1>3, <2>4
    <3> QED  BY <3>2, <3>3 DEF LsInStep
  <2> QED  BY <1>1, <1>4, <1>5, <1>6, <2>5, <2>6 DEF SafetyInv
<1>10. CASE ~ CanClose(r)
  <2>1. UNCHANGED gitVars
    BY <1>2, <1>10 DEF PrepareToCloseCommit
  <2>2. OpenInv'
    BY <1>2, <2>1 DEF SafetyInv, OpenInv, ModifiedIn, CanClose, gitVars
  <2>3. LsInStep'
    BY <2>1 DEF SafetyInv, LsInStep, gitVars
  <2> QED  BY <1>1, <1>4, <1>5, <1>6, <2>2, <2>3 DEF SafetyInv
<1> QED  BY <1>9, <1>10

\* The heart of the argument: closing r cannot disturb another repository whose
\* commit is already prepared, because a super-module ref that can be closed is
\* not waiting for r.
LEMMA CloseCommitSafe ==
  ASSUME SafetyInv, NEW p \in Repos, CloseCommit(p)
  PROVE  SafetyInv'
<1> DEFINE r == currentRef[p]
<1>1. TypeOK'
  BY SafetyTyped, CloseCommitType DEF TypeInv
<1>2. /\ phase = "close" /\ p \in repoWork /\ repoWork' = repoWork \ {p}
      /\ UNCHANGED <<phase, changedRepos, pass, passRepos>>
  BY DEF CloseCommit
<1>3. \A q \in Repos : currentRef[q] # NoRef => currentRef[q] \in ModifiedIn(q)
  BY DEF SafetyInv, OpenInv
<1>4. r # NoRef /\ r \in modifiedRefs /\ r \in Refs /\ r.repo = p
  <2>1. r # NoRef
    BY <1>2 DEF SafetyInv, LoopInv, OpenSoFar
  <2> QED  BY <1>3, <2>1 DEF ModifiedIn, SafetyInv, TypeOK, GitTypeOK
<1>5. CASE CanClose(r)
  <2>1. CloseRef(r, revnum)
        /\ closed' = IF ModifiedIn(p) = {r} THEN closed \cup {p} ELSE closed
    BY <1>5 DEF CloseCommit
  <2>2. /\ MarkedTogether' /\ SubmodulesCounted'
        /\ \A x \in Refs \ {r, SuperRef(r)} : changedSubs'[x] = changedSubs[x]
                                             /\ subsWritten'[x] = subsWritten[x]
        /\ \A x \in Refs \ {r} : tree'[x] = tree[x]
    BY <1>4, <1>5, <2>1, CloseRefSafe
  <2>3. /\ modifiedRefs' = modifiedRefs \ {r}
        /\ currentRef' = [currentRef EXCEPT ![p] = NoRef]
        /\ prepared' = [prepared EXCEPT ![p] = FALSE]
        /\ \E replies : lsReplies' = [lsReplies EXCEPT ![p] = Tail(replies)]
                        /\ replies = IF prepared[p] THEN lsReplies[p]
                             ELSE Append(lsReplies[p], PreparedTree(r))
    BY <1>4, <2>1 DEF CloseRef
  <2>4. /\ currentRef \in [Repos -> Refs \cup {NoRef}] /\ prepared \in [Repos -> BOOLEAN]
        /\ lsReplies \in [Repos -> Seq(Trees)]
        /\ tree \in [Refs -> Trees] /\ PreparedTree(r) \in Trees
        /\ modifiedRefs \subseteq Refs
    BY <1>4, PreparedTreeType DEF SafetyInv, TypeOK, GitTypeOK
  <2>5. /\ currentRef'[p] = NoRef /\ ~ prepared'[p]
        /\ \A q \in Repos \ {p} : /\ currentRef'[q] = currentRef[q]
                                  /\ prepared'[q] = prepared[q]
                                  /\ lsReplies'[q] = lsReplies[q]
    BY <2>3, <2>4
  <2>6. \A q \in Repos \ {p} : currentRef[q] # NoRef =>
          currentRef[q] \in Refs /\ currentRef[q] \in modifiedRefs' /\ currentRef[q].repo = q
          /\ currentRef[q] # r
    BY <1>3, <1>4, <2>3, <2>4 DEF ModifiedIn
  <2>7. ReposMatchRefs'
    <3>1. changedRepos \ closed = {q.repo : q \in modifiedRefs}
      BY <1>2 DEF SafetyInv, ReposMatchRefs
    <3>2. CASE ModifiedIn(p) = {r}
      <4>1. \A q \in modifiedRefs : q.repo = p <=> q = r
        BY <1>4, <3>2 DEF ModifiedIn
      <4>2. changedRepos' \ closed' = {q.repo : q \in modifiedRefs'}
        BY <1>2, <1>4, <2>1, <2>3, <3>1, <3>2, <4>1
      <4> QED  BY <1>2, <4>2 DEF ReposMatchRefs
    <3>3. CASE ModifiedIn(p) # {r}
      <4>1. PICK o \in modifiedRefs : o.repo = p /\ o # r
        BY <1>4, <3>3 DEF ModifiedIn
      <4>2. changedRepos' \ closed' = {q.repo : q \in modifiedRefs'}
        BY <1>2, <1>4, <2>1, <2>3, <3>1, <3>3, <4>1
      <4> QED  BY <1>2, <4>2 DEF ReposMatchRefs
    <3> QED  BY <3>2, <3>3
  <2>8. LoopInv'
    BY <1>2, <2>5 DEF SafetyInv, LoopInv, OpenSoFar, Marking, TypeOK
  <2>9. \A q \in Repos \ {p} : prepared[q] =>
          /\ currentRef[q] # NoRef /\ CanClose(currentRef[q]) /\ q \in repoWork
          /\ currentRef[q] # SuperRef(r)
    <3> SUFFICES ASSUME NEW q \in Repos \ {p}, prepared[q]
                 PROVE  /\ currentRef[q] # NoRef /\ CanClose(currentRef[q])
                        /\ q \in repoWork /\ currentRef[q] # SuperRef(r)
      OBVIOUS
    <3>1. currentRef[q] # NoRef /\ CanClose(currentRef[q]) /\ q \in repoWork
      BY <1>2 DEF SafetyInv, OpenInv
    <3>2. currentRef[q] \in Refs
      BY <2>6, <3>1
    <3>3. SuperRef(r) # currentRef[q]
      BY <1>4, <3>1, <3>2, CanCloseMeansDone
    <3> QED  BY <3>1, <3>3
  <2>10. OpenInv'
    <3>1. \A q \in Repos : currentRef'[q] # NoRef => currentRef'[q] \in ModifiedIn(q)'
      BY <2>5, <2>6 DEF ModifiedIn
    <3>2. \A q \in Repos : prepared'[q] => q \in Repos \ {p} /\ prepared[q]
      BY <2>5
    <3>3. ASSUME NEW q \in Repos \ {p}, prepared[q]
          PROVE  /\ currentRef'[q] # NoRef /\ CanClose(currentRef[q])'
                 /\ phase' = "close" /\ q \in repoWork'
      <4>1. currentRef[q] \in Refs \ {r, SuperRef(r)} /\ CanClose(currentRef[q])
        BY <2>6, <2>9, <3>3
      <4>2. CanClose(currentRef[q])'
        BY <2>2, <2>5, <4>1 DEF CanClose
      <4> QED  BY <1>2, <2>5, <2>9, <3>3, <4>2
    <3> QED  BY <3>1, <3>2, <3>3 DEF OpenInv, CanClose
  <2>11. LsInStep'
    <3>1. \A q \in Repos \ {p} :
            lsReplies'[q] = IF prepared'[q] THEN <<tree'[currentRef'[q]]>> ELSE << >>
      <4>1. \A q \in Repos \ {p} : prepared[q] => tree'[currentRef[q]] = tree[currentRef[q]]
        BY <2>2, <2>6, <2>9
      <4> QED  BY <2>5, <4>1 DEF SafetyInv, LsInStep
    <3>2. lsReplies'[p] = << >>
      <4>1. PICK replies : lsReplies' = [lsReplies EXCEPT ![p] = Tail(replies)]
                           /\ replies = IF prepared[p] THEN lsReplies[p]
                                        ELSE Append(lsReplies[p], PreparedTree(r))
        BY <2>3
      <4>2. lsReplies[p] = IF prepared[p] THEN <<tree[r]>> ELSE << >>
        BY DEF SafetyInv, LsInStep
      <4>3. \A t \in Trees : Append(<< >>, t) = <<t>> /\ Tail(<<t>>) = << >>
        OBVIOUS
      <4>4. \E t \in Trees : replies = <<t>>
        BY <1>4, <2>4, <4>1, <4>2, <4>3
      <4>5. Tail(replies) = << >>
        BY <4>3, <4>4
      <4> QED  BY <2>4, <4>1, <4>5
    <3> QED  BY <2>5, <3>1, <3>2 DEF LsInStep
  <2> QED  BY <1>1, <2>2, <2>7, <2>8, <2>10, <2>11 DEF SafetyInv
<1>6. CASE ~ CanClose(r)
  <2>1. UNCHANGED <<gitVars, closed>>
    BY <1>6 DEF CloseCommit
  <2>2. MarkedTogether' /\ SubmodulesCounted'
    BY <2>1, CountsUnchanged DEF gitVars
  <2>3. ReposMatchRefs' /\ LsInStep'
    BY <1>2, <2>1 DEF SafetyInv, ReposMatchRefs, LsInStep, gitVars
  <2>4. LoopInv'
    BY <1>2, <2>1 DEF SafetyInv, LoopInv, OpenSoFar, Marking, gitVars
  <2>5. ~ prepared[p]
    BY <1>6 DEF SafetyInv, OpenInv
  <2>6. OpenInv'
    BY <1>2, <2>1, <2>5 DEF SafetyInv, OpenInv, ModifiedIn, CanClose, gitVars
  <2> QED  BY <1>1, <2>2, <2>3, <2>4, <2>6 DEF SafetyInv
<1> QED  BY <1>5, <1>6

\* The steps between the loops keep the safety invariant.
LEMMA BookkeepingSafe == SafetyInv /\ Bookkeeping => SafetyInv'
<1> SUFFICES ASSUME SafetyInv, Bookkeeping PROVE SafetyInv'
  OBVIOUS
<1> USE DEF SafetyInv
<1>1. TypeOK'
  BY SafetyTyped, BookkeepingType DEF TypeInv
<1>2. UNCHANGED gitVars
  BY DEF Bookkeeping, BeginPhaseII, BeginPass, GiveUp, NextLoop, EndPass, OpenNothing
<1>3. MarkedTogether' /\ SubmodulesCounted'
  BY <1>2, CountsUnchanged DEF gitVars
<1>4. LsInStep'
  BY <1>2 DEF LsInStep, gitVars
<1>5. ReposMatchRefs'
  BY <1>2 DEF ReposMatchRefs, LoopInv, Bookkeeping, BeginPhaseII, BeginPass, GiveUp,
              NextLoop, EndPass, OpenNothing, gitVars
<1>6. LoopInv'
  BY <1>2 DEF LoopInv, OpenSoFar, Marking, Bookkeeping, BeginPhaseII, BeginPass, GiveUp,
              NextLoop, EndPass, OpenNothing, gitVars, loopVars, TypeOK
<1>7. OpenInv'
  <2>1. \A q \in Repos : prepared[q] => /\ phase \in {"prepare", "close"}
                                        /\ phase = "prepare" => q \in passRepos \ repoWork
                                        /\ phase = "close" => q \in repoWork
    BY DEF OpenInv
  <2>2. \A q \in Repos : prepared[q] => phase' = "close" /\ q \in repoWork'
    BY <2>1 DEF Bookkeeping, BeginPhaseII, BeginPass, GiveUp, NextLoop, EndPass, OpenNothing
  <2> QED  BY <1>2, <2>2 DEF OpenInv, ModifiedIn, CanClose, gitVars
<1> QED  BY <1>1, <1>3, <1>4, <1>5, <1>6, <1>7

\* So does a step that changes nothing.
LEMMA StutterSafe == SafetyInv /\ UNCHANGED vars => SafetyInv'
<1> SUFFICES ASSUME SafetyInv, UNCHANGED vars PROVE SafetyInv'
  OBVIOUS
<1>1. TypeOK'
  BY SafetyTyped, StutterType DEF TypeInv
<1>2. MarkedTogether' /\ SubmodulesCounted'
  BY CountsUnchanged DEF vars, gitVars
<1> QED
  BY <1>1, <1>2 DEF SafetyInv, ReposMatchRefs, LoopInv, OpenInv, LsInStep, OpenSoFar,
     Marking, ModifiedIn, CanClose, vars, gitVars, inputVars, phaseIVars, loopVars

\* No step breaks the safety invariant.
LEMMA SafetyStep ==
  ASSUME FlatSubmodules, SafetyInv, [Next]_vars
  PROVE  SafetyInv'
BY BeginRevisionSafe, PhaseISafe, OpenCommitSafe,
   ConvertFileSafe, PrepareRepoSafe, CloseCommitSafe, BookkeepingSafe, StutterSafe
   DEF Next, PhaseI, Bookkeeping, Finished

\* The safety invariant holds in every reachable state: counts, passes, open
\* commits and "ls" replies of importer.cpp and git_repository.cpp agree.
THEOREM SafetyInvariant ==
  ASSUME FlatSubmodules
  PROVE  Spec => []SafetyInv
<1>1. SafetyInv /\ [Next]_vars => SafetyInv'
  BY FlatSubmodules, SafetyStep
<1> QED  BY SafetyInit, <1>1, PTL DEF Spec

\* In every reachable state submodule_refs_written is the number of changed
\* submodule refs already committed: can_close is right, and the assertion of
\* git_repository.cpp:180 holds, for any number of submodules and branches.
THEOREM CountsCorrect ==
  ASSUME FlatSubmodules
  PROVE  Spec => [](SubmodulesCounted /\ SubmoduleCountBounded)
<1>1. SafetyInv => SubmodulesCounted /\ SubmoduleCountBounded
  <2> SUFFICES ASSUME SafetyInv PROVE SubmoduleCountBounded
    BY DEF SafetyInv
  <2>1. \A s \in Refs : IsFiniteSet(changedSubs[s])
    BY RefsFinite, FS_Subset DEF SafetyInv, TypeOK, GitTypeOK
  <2>2. \A s \in Refs : Cardinality(changedSubs[s] \ modifiedRefs) <= Cardinality(changedSubs[s])
    BY <2>1, FS_Subset
  <2> QED  BY <2>2 DEF SafetyInv, SubmodulesCounted, SubmoduleCountBounded
<1> QED  BY <1>1, SafetyInvariant, PTL

\* A pass never opens a repository that has nothing to commit and never closes
\* one without an open commit; a revision ends with no modified ref left.
THEOREM PassesCorrect ==
  ASSUME FlatSubmodules
  PROVE  Spec => [](PassFindsCommit /\ ReposMatchRefs /\ (phase = "idle" => modifiedRefs = {}))
<1>1. SafetyInv => PassFindsCommit /\ ReposMatchRefs /\ (phase = "idle" => modifiedRefs = {})
  <2> SUFFICES ASSUME SafetyInv
               PROVE  PassFindsCommit /\ (phase = "idle" => modifiedRefs = {})
    BY DEF SafetyInv
  <2>1. phase = "idle" => modifiedRefs = {}
    BY DEF SafetyInv, LoopInv, ReposMatchRefs
  <2>2. ASSUME NEW p \in repoWork, phase = "open"
        PROVE  ModifiedIn(p) # {}
    <3>1. p \in changedRepos
      BY <2>2 DEF SafetyInv, LoopInv
    <3>2. \E r \in modifiedRefs : r.repo = p
      BY <2>2, <3>1 DEF SafetyInv, ReposMatchRefs
    <3> QED  BY <3>2 DEF ModifiedIn
  <2>3. ASSUME NEW p \in repoWork, phase \in {"prepare", "close"}
        PROVE  currentRef[p] # NoRef
    BY <2>3 DEF SafetyInv, LoopInv, OpenSoFar
  <2> QED  BY <2>1, <2>2, <2>3 DEF PassFindsCommit
<1> QED  BY <1>1, SafetyInvariant, PTL

\* Every reply to "ls" is read by the commit that asked for it, and lists the
\* tree that commit is closed with.
THEOREM RepliesCorrect ==
  ASSUME FlatSubmodules
  PROVE  Spec => []LsInStep
<1>1. SafetyInv => LsInStep
  BY DEF SafetyInv
<1> QED  BY <1>1, SafetyInvariant, PTL

-----------------------------------------------------------------------------
(* The refinement.  Marking steps are Mark or stutter, closing a commit is *)
(* Commit, and the end of the last pass is Finish.                         *)

\* The importer starts where the promise starts.
LEMMA PromiseInit == Init => Promise!Init
BY DEF Init, GitInit, Promise!Init, Stage

\* A step during which refs may be marked, in terms of the promise.
LEMMA MarkStep ==
  ASSUME SafetyInv, SafetyInv', Stage = "marking", Stage' = "marking", revnum' = revnum,
         \E R \in SUBSET Refs : modifiedRefs' = modifiedRefs \cup R
  PROVE  Promise!Mark
<1>1. \A r \in modifiedRefs' : r \in Refs /\ SuperRef(r) \in modifiedRefs' \cup {NoRef}
  BY DEF SafetyInv, MarkedTogether, TypeOK, GitTypeOK
<1> QED  BY <1>1 DEF Promise!Mark

\* prepare_to_modify marks a ref together with its super-module ref.
LEMMA DiscoverRefMarks ==
  ASSUME SafetyInv, NEW r \in Refs, DiscoverRef(r)
  PROVE  \E R \in SUBSET Refs : modifiedRefs' = modifiedRefs \cup R
<1>1. NewlyModified(r) \subseteq Refs
  BY SuperRefType DEF NewlyModified
<1> QED  BY <1>1 DEF DiscoverRef, ModifyRef

\* Every step of the importer is a step of the promise or none.
LEMMA PromiseStep ==
  ASSUME FlatSubmodules, SafetyInv, SafetyInv', [Next]_vars
  PROVE  [Promise!Next]_(Promise!vars)
<1> USE DEF Promise!Next, Promise!vars
<1>1. CASE BeginRevision
  BY <1>1 DEF BeginRevision, Promise!Start, Stage, Marking, gitVars
<1>2. CASE PhaseI
  <2>1. /\ phase = "discover" /\ UNCHANGED <<phase, inputVars, loopVars, otherGitVars>>
        /\ \/ UNCHANGED <<changedRepos, modifiedRefs, changedSubs>>
           \/ \E r \in Refs : DiscoverRef(r)
    BY <1>2, PhaseIKinds DEF SafetyInv
  <2>2. Stage = "marking" /\ Stage' = "marking" /\ revnum' = revnum
    BY <2>1 DEF Stage, Marking, inputVars
  <2>3. modifiedRefs' = modifiedRefs \/ \E R \in SUBSET Refs : modifiedRefs' = modifiedRefs \cup R
    BY <2>1, DiscoverRefMarks
  <2> QED  BY <2>2, <2>3, MarkStep
<1>4. ASSUME NEW s \in SvnFiles, ConvertFile(s) PROVE [Promise!Next]_(Promise!vars)
  <2> DEFINE r == Match(s, revnum).ref
  <2>0. phase = "convert" /\ UNCHANGED <<rest, phase, pass>>
    BY <1>4, ConvertFileCases DEF SafetyInv
  <2>1. Stage' = Stage /\ revnum' = revnum /\ (Marking => Stage = "marking")
    BY <2>0 DEF Stage, Marking, rest, inputVars, phaseIVars
  <2>3. CASE UNCHANGED modifiedRefs
    BY <2>1, <2>3
  <2>4. CASE ~ UNCHANGED modifiedRefs
    <3>0. ~Skips(s)
      BY <1>4, <2>4, ConvertFileCases DEF gitVars, SafetyInv
    <3>1. r \in Refs /\ DiscoverRef(r) /\ (pass > 0 => r \in modifiedRefs)
      BY <1>4, <3>0, ConvertFileCases DEF SafetyInv
    <3>2. r \notin modifiedRefs
      BY <2>4, <3>1 DEF DiscoverRef, ModifyRef, NewlyModified
    <3>3. Marking
      BY <2>0, <3>1, <3>2 DEF Marking, SafetyInv, TypeOK
    <3> QED  BY <2>1, <3>1, <3>3, DiscoverRefMarks, MarkStep
  <2> QED  BY <2>3, <2>4
<1>5. ASSUME NEW p \in Repos, OpenCommit(p) \/ PrepareRepo(p)
      PROVE  [Promise!Next]_(Promise!vars)
  BY <1>5 DEF OpenCommit, PrepareRepo, PrepareToCloseCommit, Stage, Marking, rest,
     inputVars, gitVars
<1>6. ASSUME NEW p \in Repos, CloseCommit(p) PROVE [Promise!Next]_(Promise!vars)
  <2> DEFINE r == currentRef[p]
  <2>1. phase = "close" /\ Stage = "committing" /\ Stage' = "committing" /\ revnum' = revnum
    BY <1>6 DEF CloseCommit, Stage, Marking, rest, inputVars, phaseIVars
  <2>2. r \in modifiedRefs /\ r \in Refs
    <3>1. r # NoRef
      BY <1>6, <2>1 DEF CloseCommit, SafetyInv, LoopInv, OpenSoFar
    <3> QED  BY <3>1 DEF SafetyInv, OpenInv, ModifiedIn, TypeOK, GitTypeOK
  <2>3. CASE CanClose(r)
    <3>1. modifiedRefs' = modifiedRefs \ {r}
      BY <1>6, <2>3 DEF CloseCommit, CloseRef
    <3>2. \A q \in modifiedRefs : q \in Refs /\ SuperRef(q) # r
      BY <2>2, <2>3, CanCloseMeansDone DEF SafetyInv, TypeOK, GitTypeOK
    <3>3. Promise!Commit(r)
      BY <2>1, <2>2, <3>1, <3>2 DEF Promise!Commit
    <3> QED  BY <2>2, <3>3
  <2>4. CASE ~ CanClose(r)
    BY <1>6, <2>1, <2>4 DEF CloseCommit, gitVars
  <2> QED  BY <2>3, <2>4
<1>7. CASE Bookkeeping
  <2>1. revnum' = revnum /\ modifiedRefs' = modifiedRefs
    BY <1>7 DEF Bookkeeping, BeginPhaseII, BeginPass, GiveUp, NextLoop, EndPass,
       OpenNothing, rest, inputVars, phaseIVars, gitVars
  <2>2. CASE BeginPhaseII \/ BeginPass
    BY <2>1, <2>2 DEF BeginPhaseII, BeginPass, Stage, Marking
  <2>3. CASE GiveUp \/ NextLoop \/ \E p \in Repos : OpenNothing(p)
    BY <2>1, <2>3 DEF GiveUp, NextLoop, OpenNothing, Stage, Marking, Promise!AllMarked
  <2>4. CASE EndPass
    <3>1. pass' > 0 /\ phase = "close" /\ changedRepos' = changedRepos \ closed
          /\ phase' = IF changedRepos \ closed = {} THEN "idle" ELSE "pass"
      BY <2>4 DEF EndPass, SafetyInv, TypeOK
    <3>2. changedRepos \ closed = {} => modifiedRefs = {}
      BY <3>1 DEF SafetyInv, ReposMatchRefs
    <3> QED  BY <2>1, <3>1, <3>2 DEF Stage, Marking, Promise!Finish
  <2> QED  BY <1>7, <2>2, <2>3, <2>4 DEF Bookkeeping
<1>8. CASE UNCHANGED vars
  BY <1>8 DEF vars, gitVars, inputVars, phaseIVars, loopVars, Stage, Marking
<1> QED
  BY <1>1, <1>2, <1>4, <1>5, <1>6, <1>7, <1>8 DEF Next, PhaseI, Bookkeeping, Finished

\* The passes of Phase II implement RevisionCommits: each ref that Phase I or
\* pass 0 marks is committed exactly once, after the submodules it waits for.
THEOREM PromiseKept ==
  ASSUME FlatSubmodules
  PROVE  Spec => KeepsPromise
<1>1. SafetyInv /\ SafetyInv' /\ [Next]_vars => [Promise!Next]_(Promise!vars)
  BY FlatSubmodules, PromiseStep
<1> QED
  BY <1>1, PromiseInit, SafetyInvariant, PTL DEF Spec, KeepsPromise, Promise!Spec

-----------------------------------------------------------------------------
(***************************************************************************)
(* The marks and histories that are built up over the revisions.           *)
(*                                                                         *)
(* RevisionInv is inductive.  Its parts need three kinds of steps told     *)
(* apart: the start of a revision; a step that may mark refs and open one  *)
(* commit, but finishes none (Forward); and close_commit (Closes).         *)
(***************************************************************************)

(* Looking up marks.                                                       *)

\* MarkUpTo depends on the marks of the ref alone, before and after a step.
LastOf(ms, n) ==
  LET v == Max({0} \cup {w \in 1..n : ms[w] # 0})
  IN  IF v = 0 THEN 0 ELSE ms[v]

LEMMA MarkUpToIsLastOf ==
  \A r, n : /\ MarkUpTo(r, n) = LastOf(marks[r], n)
            /\ MarkUpTo(r, n)' = LastOf(marks'[r], n)
BY DEF MarkUpTo, LastOf

\* It returns the last mark up to a revision, and 0 if there is none.
LEMMA LastOfIsLast ==
  ASSUME NEW ms \in [1..MaxRev -> Nat], NEW n \in 0..MaxRev
  PROVE  \/ LastOf(ms, n) = 0 /\ \A w \in 1..n : ms[w] = 0
         \/ \E w \in 1..n : /\ ms[w] # 0 /\ LastOf(ms, n) = ms[w]
                            /\ \A u \in (w + 1)..n : ms[u] = 0
<1> DEFINE S == {0} \cup {w \in 1..n : ms[w] # 0}
           m == Max(S)
<1>1. MaxRev \in Nat
  BY TreeAssumption
<1>2. S \in SUBSET (0..n) /\ S # {} /\ n \in Nat
  BY <1>1
<1>3. m \in S /\ \A x \in S : x <= m
  <2> HIDE DEF S
  <2> QED  BY <1>2, MaxIsMember
<1>4. LastOf(ms, n) = IF m = 0 THEN 0 ELSE ms[m]
  BY DEF LastOf
<1>5. m \in S /\ \A w \in 1..n : ms[w] # 0 => w <= m
  BY <1>3
<1> HIDE DEF m
<1>6. CASE m = 0
  BY <1>4, <1>5, <1>6
<1>7. CASE m # 0
  <2>1. m \in 1..n /\ ms[m] # 0
    BY <1>5, <1>7
  <2>2. \A u \in (m + 1)..n : ms[u] = 0
    BY <1>1, <1>5, <2>1
  <2> QED  BY <1>4, <1>7, <2>1, <2>2
<1> QED  BY <1>6, <1>7

\* The last mark is the only one without a later one.
LEMMA LastOfUnique ==
  ASSUME NEW ms \in [1..MaxRev -> Nat], NEW n \in 0..MaxRev, NEW w \in 1..n,
         ms[w] # 0, \A u \in (w + 1)..n : ms[u] = 0
  PROVE  LastOf(ms, n) = ms[w]
<1>1. MaxRev \in Nat
  BY TreeAssumption
<1>2. PICK x \in 1..n : /\ ms[x] # 0 /\ LastOf(ms, n) = ms[x]
                        /\ \A u \in (x + 1)..n : ms[u] = 0
  BY LastOfIsLast
<1>3. x = w
  BY <1>1, <1>2
<1> QED  BY <1>2, <1>3

\* Two refs with the same marks up to two revisions have the same last mark there.
LEMMA LastOfSame ==
  ASSUME NEW ms \in [1..MaxRev -> Nat], NEW ns \in [1..MaxRev -> Nat],
         NEW k \in 0..MaxRev, NEW n \in 0..MaxRev,
         \A w \in 1..MaxRev : (IF w <= k THEN ms[w] ELSE 0) = (IF w <= n THEN ns[w] ELSE 0)
  PROVE  LastOf(ms, k) = LastOf(ns, n)
<1>1. MaxRev \in Nat
  BY TreeAssumption
<1>2. CASE LastOf(ms, k) = 0 /\ \A w \in 1..k : ms[w] = 0
  <2>1. \A w \in 1..n : ns[w] = 0
    BY <1>1, <1>2
  <2>2. LastOf(ns, n) = 0
    BY <2>1, LastOfIsLast
  <2> QED  BY <1>2, <2>2
<1>3. ASSUME NEW x \in 1..k, ms[x] # 0, LastOf(ms, k) = ms[x],
             \A u \in (x + 1)..k : ms[u] = 0
      PROVE  LastOf(ms, k) = LastOf(ns, n)
  <2>1. x \in 1..n /\ ns[x] = ms[x]
    BY <1>1, <1>3
  <2>2. \A u \in (x + 1)..n : ns[u] = 0
    BY <1>1, <1>3
  <2>3. LastOf(ns, n) = ns[x]
    BY <1>3, <2>1, <2>2, LastOfUnique
  <2> QED  BY <1>3, <2>1, <2>3
<1>4. \/ LastOf(ms, k) = 0 /\ \A w \in 1..k : ms[w] = 0
      \/ \E x \in 1..k : /\ ms[x] # 0 /\ LastOf(ms, k) = ms[x]
                         /\ \A u \in (x + 1)..k : ms[u] = 0
  BY LastOfIsLast
<1> QED  BY <1>2, <1>3, <1>4

-----------------------------------------------------------------------------
(* The three kinds of steps.                                               *)

\* open_commit of a ref that is to be written.
Opens(r) ==
  /\ phase \in {"open", "convert"} /\ r \in modifiedRefs'
  /\ currentRef[r.repo] = NoRef
  /\ OpenRef(r, revnum)

\* A step that finishes no commit: it may mark refs, as long as refs are marked
\* at all, and it may open a commit.
Forward ==
  /\ modifiedRefs \subseteq modifiedRefs' /\ modifiedRefs' \subseteq Refs
  /\ modifiedRefs' # modifiedRefs => Marking
  /\ Marking' => Marking
  /\ phase = "idle" => phase' = "idle"
  /\ UNCHANGED <<svn, revnum, astray, headTree, commits>>
  /\ \/ UNCHANGED <<currentRef, lastMark, marks, history>>
     \/ \E r \in Refs : Opens(r)

\* close_commit of a ref that can be closed.
Closes(r) ==
  /\ r \in modifiedRefs /\ r \in Refs /\ IsOpen(r)
  /\ phase = "close" /\ phase' = "close" /\ r.repo \in repoWork
  /\ CanClose(r) /\ CloseRef(r, revnum)
  /\ UNCHANGED <<svn, revnum, astray, invalid, changes, copies, toConvert, pass, passRepos>>

\* prepare_to_modify marks refs, and none once commits have been closed.
LEMMA DiscoverRefForward ==
  ASSUME SafetyInv, NEW r \in Refs, DiscoverRef(r), Marking \/ r \in modifiedRefs
  PROVE  /\ modifiedRefs \subseteq modifiedRefs' /\ modifiedRefs' \subseteq Refs
         /\ modifiedRefs' # modifiedRefs => Marking
         /\ r \in modifiedRefs'
<1>1. NewlyModified(r) \subseteq Refs
  BY SuperRefType DEF NewlyModified
<1>2. r \notin NewlyModified(r) => r \in modifiedRefs /\ NewlyModified(r) = {}
  BY DEF NewlyModified
<1>3. r \in modifiedRefs => NewlyModified(r) = {}
  BY DEF NewlyModified
<1> QED  BY <1>1, <1>2, <1>3 DEF DiscoverRef, ModifyRef, SafetyInv, TypeOK, GitTypeOK

\* The opening loop.
LEMMA OpenCommitForward ==
  ASSUME SafetyInv, NEW p \in Repos, OpenCommit(p)
  PROVE  Forward
<1>1. /\ phase = "open" /\ UNCHANGED <<svn, revnum, astray, phase, pass>>
      /\ Marking' => Marking
  BY DEF OpenCommit, rest, inputVars, phaseIVars, Marking
<1>2. modifiedRefs \subseteq Refs
  BY DEF SafetyInv, TypeOK, GitTypeOK
<1>3. CASE UNCHANGED gitVars
  BY <1>1, <1>2, <1>3 DEF Forward, gitVars
<1>4. CASE ~ UNCHANGED gitVars
  <2>1. /\ currentRef[p] = NoRef
        /\ \E r \in ModifiedIn(p) : OpenRef(r, revnum)
        /\ UNCHANGED <<modifiedRefs, headTree, commits>>
    BY <1>4 DEF OpenCommit
  <2>2. PICK r \in ModifiedIn(p) : OpenRef(r, revnum)
    BY <2>1
  <2>3. Opens(r) /\ r \in Refs
    BY <1>1, <1>2, <2>1, <2>2 DEF Opens, ModifiedIn
  <2> QED  BY <1>1, <1>2, <2>1, <2>3 DEF Forward
<1> QED  BY <1>3, <1>4

\* convert_svn_file marks the file's ref, and opens a commit if none is open.
LEMMA ConvertFileKind ==
  ASSUME SafetyInv, NEW s \in SvnFiles, ConvertFile(s)
  PROVE  LET r == Match(s, revnum).ref
         IN  /\ phase = "convert" /\ UNCHANGED <<svn, revnum, astray, phase, pass>>
             /\ modifiedRefs \subseteq modifiedRefs' /\ modifiedRefs' \subseteq Refs
             /\ modifiedRefs' # modifiedRefs => Marking
             /\ UNCHANGED <<headTree, commits>>
             /\ UNCHANGED gitVars \/ (r \in Refs /\ r \in modifiedRefs')
             /\ \/ UNCHANGED openVars
                \/ \E o \in Refs : Opens(o) /\ o.repo = r.repo
<1> DEFINE r == Match(s, revnum).ref
           p == r.repo
<1>1. phase = "convert" /\ UNCHANGED <<svn, revnum, astray, phase, pass>>
  BY DEF ConvertFile, rest, inputVars, phaseIVars
<1>2. TypeOK /\ modifiedRefs \subseteq Refs
  BY DEF SafetyInv, TypeOK, GitTypeOK
<1>3. CASE UNCHANGED gitVars
  BY <1>1, <1>2, <1>3 DEF gitVars, openVars, refVars
<1>4. CASE ~ UNCHANGED gitVars
  <2>1. /\ r \in Refs /\ DiscoverRef(r)
        /\ pass > 0 => r \in modifiedRefs
        /\ UNCHANGED <<headTree, commits>>
        /\ currentRef[p] # NoRef => UNCHANGED openVars
        /\ currentRef[p] = NoRef => \E o \in ModifiedIn(p) \cup {r} : OpenRef(o, revnum)
    BY <1>2, <1>4, ConvertFileCases
  <2>2. Marking \/ r \in modifiedRefs
    BY <1>1, <2>1 DEF Marking, SafetyInv, TypeOK
  <2>3. /\ modifiedRefs \subseteq modifiedRefs' /\ modifiedRefs' \subseteq Refs
        /\ modifiedRefs' # modifiedRefs => Marking
        /\ r \in modifiedRefs'
    BY <1>2, <2>1, <2>2, DiscoverRefForward
  <2>4. CASE currentRef[p] # NoRef
    BY <1>1, <2>1, <2>3, <2>4
  <2>5. CASE currentRef[p] = NoRef
    <3>1. PICK o \in ModifiedIn(p) \cup {r} : OpenRef(o, revnum)
      BY <2>1, <2>5
    <3>2. Opens(o) /\ o \in Refs /\ o.repo = p
      BY <1>1, <1>2, <2>1, <2>3, <2>5, <3>1 DEF Opens, ModifiedIn
    <3> QED  BY <1>1, <2>1, <2>3, <3>2
  <2> QED  BY <2>4, <2>5
<1> QED  BY <1>3, <1>4

LEMMA ConvertFileForward ==
  ASSUME SafetyInv, NEW s \in SvnFiles, ConvertFile(s)
  PROVE  Forward
<1> DEFINE r == Match(s, revnum).ref
<1>1. /\ phase = "convert" /\ UNCHANGED <<svn, revnum, astray, phase, pass>>
      /\ modifiedRefs \subseteq modifiedRefs' /\ modifiedRefs' \subseteq Refs
      /\ modifiedRefs' # modifiedRefs => Marking
      /\ UNCHANGED <<headTree, commits>>
      /\ \/ UNCHANGED openVars
         \/ \E o \in Refs : Opens(o) /\ o.repo = r.repo
  BY ConvertFileKind
<1> QED
  BY <1>1 DEF Forward, Marking, openVars

\* The closing loop closes a commit or leaves everything as it is.
LEMMA CloseCommitKind ==
  ASSUME SafetyInv, NEW p \in Repos, CloseCommit(p)
  PROVE  /\ phase = "close" /\ UNCHANGED <<rest, phase, pass, passRepos>>
         /\ UNCHANGED <<svn, revnum, astray>>
         /\ UNCHANGED gitVars \/ (currentRef[p] \in Refs /\ Closes(currentRef[p]))
<1> DEFINE r == currentRef[p]
<1>1. /\ phase = "close" /\ p \in repoWork
      /\ UNCHANGED <<rest, phase, pass, passRepos>>
      /\ UNCHANGED <<svn, revnum, astray, invalid, changes, copies, toConvert>>
  BY DEF CloseCommit, rest, inputVars, phaseIVars
<1>2. r \in modifiedRefs /\ r \in Refs /\ r.repo = p
  <2>1. r # NoRef
    BY <1>1 DEF SafetyInv, LoopInv, OpenSoFar
  <2> QED  BY <2>1 DEF SafetyInv, OpenInv, ModifiedIn, TypeOK, GitTypeOK
<1>3. CASE CanClose(r)
  <2>1. CloseRef(r, revnum)
    BY <1>3 DEF CloseCommit
  <2>2. Closes(r)
    BY <1>1, <1>2, <1>3, <2>1 DEF Closes, IsOpen
  <2> QED  BY <1>1, <1>2, <2>2
<1>4. CASE ~ CanClose(r)
  BY <1>1, <1>4 DEF CloseCommit
<1> QED  BY <1>3, <1>4

\* Every step is of one of the three kinds.
LEMMA StepKinds ==
  ASSUME SafetyInv, [Next]_vars
  PROVE  BeginRevision \/ Forward \/ \E r \in Refs : Closes(r)
<1>1. modifiedRefs \subseteq Refs
  BY DEF SafetyInv, TypeOK, GitTypeOK
<1>2. CASE PhaseI
  <2>1. /\ phase = "discover" /\ UNCHANGED <<phase, inputVars, loopVars, otherGitVars>>
        /\ \/ UNCHANGED <<changedRepos, modifiedRefs, changedSubs>>
           \/ \E r \in Refs : DiscoverRef(r)
    BY <1>2, PhaseIKinds DEF SafetyInv
  <2>2. /\ Marking
        /\ UNCHANGED <<svn, revnum, astray, headTree, commits, currentRef, lastMark, marks,
                       history>>
    BY <2>1 DEF inputVars, otherGitVars, Marking
  <2> QED  BY <1>1, <2>1, <2>2, DiscoverRefForward DEF Forward
<1>4. ASSUME NEW p \in Repos, PrepareRepo(p) PROVE Forward
  BY <1>1, <1>4 DEF PrepareRepo, PrepareToCloseCommit, Forward, Marking, rest, inputVars, phaseIVars,
     gitVars
<1>5. ASSUME NEW p \in Repos, CloseCommit(p) PROVE Forward \/ \E r \in Refs : Closes(r)
  BY <1>1, <1>5, CloseCommitKind DEF Forward, Marking, gitVars
<1>6. CASE Bookkeeping
  <2>1. UNCHANGED <<gitVars, inputVars>>
    BY <1>6 DEF Bookkeeping, BeginPhaseII, BeginPass, GiveUp, NextLoop, EndPass,
       OpenNothing, rest
  <2>2. Marking' => Marking
    BY <1>6 DEF Bookkeeping, BeginPhaseII, BeginPass, GiveUp, NextLoop, EndPass,
       OpenNothing, rest, loopVars, Marking, SafetyInv, TypeOK
  <2>3. phase # "idle"
    BY <1>6 DEF Bookkeeping, BeginPhaseII, BeginPass, GiveUp, NextLoop, EndPass,
       OpenNothing
  <2> QED  BY <1>1, <2>1, <2>2, <2>3 DEF Forward, gitVars, inputVars
<1>7. CASE UNCHANGED vars
  BY <1>1, <1>7 DEF vars, gitVars, inputVars, loopVars, Forward, Marking
<1> QED
  BY <1>2, <1>4, <1>5, <1>6, <1>7, OpenCommitForward, ConvertFileForward
     DEF Next, Bookkeeping, Finished, PhaseI

\* A revision ends with the last pass, and the SVN history is fixed until then.
LEMMA RevisionEndsOnce ==
  ASSUME SafetyInv, [Next]_vars, ~ BeginRevision
  PROVE  /\ UNCHANGED <<svn, revnum, astray>>
         /\ phase # "discover" => UNCHANGED phaseIVars
         /\ phase = "idle" => UNCHANGED vars
         /\ phase # "idle" /\ phase' = "idle" => EndPass
<1>1. CASE UNCHANGED vars
  BY <1>1 DEF vars, inputVars
<1>2. ASSUME NEW p \in Repos, OpenCommit(p) \/ OpenNothing(p) \/ PrepareRepo(p) \/ CloseCommit(p)
      PROVE  UNCHANGED rest /\ phase # "idle" /\ phase' # "idle"
  BY <1>2 DEF OpenCommit, OpenNothing, PrepareRepo, CloseCommit
<1>3. ASSUME NEW s \in SvnFiles, ConvertFile(s)
      PROVE  UNCHANGED rest /\ phase # "idle" /\ phase' # "idle"
  BY <1>3 DEF ConvertFile
<1>4. CASE PhaseI
  BY <1>4, PhaseIKinds DEF SafetyInv, inputVars
<1>5. CASE BeginPhaseII \/ BeginPass \/ GiveUp \/ NextLoop
  BY <1>5 DEF BeginPhaseII, BeginPass, GiveUp, NextLoop, rest, inputVars
<1>6. CASE EndPass
  BY <1>6 DEF EndPass, rest, inputVars
<1> QED
  BY <1>1, <1>2, <1>3, <1>4, <1>5, <1>6 DEF Next, Finished, PhaseI, rest, inputVars

\* The tree a commit is closed with.
ClosedTree(r) == IF prepared[r.repo] THEN tree[r] ELSE PreparedTree(r)

\* close_commit compares the tree it has written with head_tree_sha: the reply to
\* "ls" is for this commit.
LEMMA ClosesEffect ==
  ASSUME SafetyInv, NEW r \in Refs, Closes(r)
  PROVE  /\ ClosedTree(r) \in Trees
         /\ IF ClosedTree(r) = headTree[r] THEN DropCommit(r, revnum)
            ELSE KeepCommit(r, ClosedTree(r), ClosedTree(r))
         /\ r.repo \in Repos /\ revnum \in Int
         /\ currentRef[r.repo] = r /\ currentRef' = [currentRef EXCEPT ![r.repo] = NoRef]
         /\ modifiedRefs' = modifiedRefs \ {r}
         /\ commits' = [commits EXCEPT ![r.repo] = Append(@,
              [ref |-> r, rev |-> revnum, tree |-> ClosedTree(r), history |-> history[r]])]
         /\ UNCHANGED <<lastMark, revnum, phase, mergedRevs, pendingMerges, pendingDeletions>>
         /\ staleSubs' = [staleSubs EXCEPT ![r] = {}]
<1> DEFINE p == r.repo
           written == IF prepared[p] THEN tree[r] ELSE PreparedTree(r)
           replies == IF prepared[p] THEN lsReplies[p] ELSE Append(lsReplies[p], written)
<1>1. p \in Repos /\ currentRef[p] = r /\ revnum \in Int
  BY DEF Closes, IsOpen, Refs, SafetyInv, TypeOK, Revs
<1>2. written \in Trees
  BY PreparedTreeType DEF SafetyInv, TypeOK, GitTypeOK
<1>3. lsReplies[p] = IF prepared[p] THEN <<written>> ELSE << >>
  BY <1>1 DEF SafetyInv, LsInStep
<1>4. Head(replies) = written
  <2>1. Append(<< >>, written) = <<written>> /\ Head(<<written>>) = written
    <3> HIDE DEF written
    <3> QED  BY <1>2
  <2> QED  BY <1>3, <2>1
<1>5. /\ IF Head(replies) = headTree[r] THEN DropCommit(r, revnum)
         ELSE KeepCommit(r, written, Head(replies))
      /\ commits' = [commits EXCEPT ![p] = Append(@,
           [ref |-> r, rev |-> revnum, tree |-> written, history |-> history[r]])]
      /\ modifiedRefs' = modifiedRefs \ {r}
      /\ currentRef' = [currentRef EXCEPT ![p] = NoRef]
      /\ UNCHANGED <<lastMark, refVars>>
      /\ staleSubs' = [staleSubs EXCEPT ![r] = {}]
  BY DEF Closes, CloseRef, PrepareRef
<1>6. written = ClosedTree(r)
  BY DEF ClosedTree
<1>7. UNCHANGED <<revnum, phase>>
  BY DEF Closes
<1> HIDE DEF written, replies
<1> QED  BY <1>1, <1>2, <1>4, <1>5, <1>6, <1>7 DEF refVars

-----------------------------------------------------------------------------
(* PendingInv.                                                             *)

\* Between revisions no commit is open.
LEMMA IdleClosed ==
  ASSUME SafetyInv, phase = "idle"
  PROVE  modifiedRefs = {} /\ \A p \in Repos : currentRef[p] = NoRef
BY DEF SafetyInv, LoopInv, ReposMatchRefs, OpenInv, ModifiedIn

\* Before the first revision nothing is pending.
LEMMA PendingInit == Init => PendingInv
BY DEF Init, GitInit, PendingInv, NoRevs

\* open_commit writes what is pending for the ref.
LEMMA OpensPending ==
  ASSUME SafetyInv, PendingInv, phase # "discover", phase' # "discover",
         modifiedRefs \subseteq modifiedRefs', NEW r \in Refs, Opens(r)
  PROVE  PendingInv'
<1>1. /\ r.repo \in Repos /\ currentRef[r.repo] = NoRef /\ r # NoRef /\ r \in modifiedRefs'
      /\ currentRef' = [currentRef EXCEPT ![r.repo] = r]
      /\ pendingDeletions' = [pendingDeletions EXCEPT ![r] = {}]
      /\ pendingMerges' = [pendingMerges EXCEPT ![r] = NoRevs]
      /\ \A q \in Refs \ {r} : staleSubs'[q] = staleSubs[q]
  BY RepositoryAssumption DEF Opens, OpenRef, WriteMerges, Refs, SafetyInv, TypeOK, GitTypeOK
<1>2. /\ currentRef \in [Repos -> Refs \cup {NoRef}]
      /\ pendingMerges \in [Refs -> [Refs -> Revs]]
      /\ pendingDeletions \in [Refs -> SUBSET Paths]
  BY DEF SafetyInv, TypeOK, GitTypeOK
<1>3. \A q \in Refs : q.repo \in Repos
  BY DEF Refs
<1>4. pendingDeletions'[r] = {} /\ pendingMerges'[r] = NoRevs
  BY <1>1, <1>2
<1>5. \A q \in Refs \ {r} : pendingDeletions'[q] = pendingDeletions[q]
                            /\ pendingMerges'[q] = pendingMerges[q]
                            /\ (IsOpen(q)' <=> IsOpen(q))
  <2> TAKE q \in Refs \ {r}
  <2>1. IsOpen(q)' <=> currentRef'[q.repo] = q
    BY DEF IsOpen
  <2>2. currentRef'[q.repo] = IF q.repo = r.repo THEN r ELSE currentRef[q.repo]
    BY <1>1, <1>2, <1>3
  <2>3. IsOpen(q)' <=> IsOpen(q)
    BY <1>1, <2>1, <2>2, RepositoryAssumption DEF IsOpen
  <2> QED  BY <1>1, <1>2, <2>3
<1>6. IsOpen(r)'
  BY <1>1, <1>2 DEF IsOpen
<1> QED  BY <1>1, <1>3, <1>4, <1>5, <1>6 DEF PendingInv, NoRevs

\* A step that leaves the pending work alone.
LEMMA QuietPending ==
  ASSUME PendingInv, UNCHANGED <<currentRef, pendingDeletions, pendingMerges>>,
         modifiedRefs \subseteq modifiedRefs',
         \A r \in Refs : staleSubs'[r] \subseteq staleSubs[r],
         phase' = "discover" => \A p \in Repos : currentRef[p] = NoRef
  PROVE  PendingInv'
BY DEF PendingInv, IsOpen, NoRevs

\* prepare_to_modify and record_ancestor put work off for modified refs only.
LEMMA AddTreeToDeletePending ==
  ASSUME SafetyInv, PendingInv, phase = "discover",
         NEW m, NEW p \in SvnPaths, m \in Rules, AddTreeToDelete(m, p),
         UNCHANGED <<phase, pendingMerges, otherGitVars>>
  PROVE  PendingInv'
<1> DEFINE r == m.ref
<1>1. /\ UNCHANGED <<currentRef, staleSubs>>
      /\ Marking /\ \A x \in Repos : currentRef[x] = NoRef
  BY DEF PendingInv, Marking, otherGitVars
<1>2. /\ r \in Refs /\ DiscoverRef(r)
      /\ \A q \in Refs \ {r} : pendingDeletions'[q] = pendingDeletions[q]
  <2>1. pendingDeletions \in [Refs -> SUBSET Paths]
    BY DEF SafetyInv, TypeOK, GitTypeOK
  <2> QED  BY <2>1, RuleType DEF AddTreeToDelete
<1>3. modifiedRefs \subseteq modifiedRefs' /\ r \in modifiedRefs'
  BY <1>1, <1>2, DiscoverRefForward
<1>4. \A q \in Refs : ~ IsOpen(q)' /\ ~ IsOpen(q) /\ q.repo \in Repos
  BY <1>1, RepositoryAssumption DEF IsOpen, Refs
<1>5. \A q \in Refs : staleSubs'[q] # {} => IsOpen(q)'
  BY <1>1, <1>4 DEF PendingInv
<1> HIDE DEF r
<1> QED
  BY <1>1, <1>2, <1>3, <1>4, <1>5 DEF PendingInv, NoRevs

LEMMA DiscoverMergePending ==
  ASSUME SafetyInv, PendingInv, NEW s \in toMerge, DiscoverMerge(s)
  PROVE  PendingInv'
<1> DEFINE r == Match(s, revnum).ref
<1>1. /\ phase = "discover" /\ UNCHANGED <<phase, currentRef, pendingDeletions, staleSubs>>
      /\ Marking /\ \A p \in Repos : currentRef[p] = NoRef
  BY DEF DiscoverMerge, PendingInv, Marking, otherGitVars
<1>2. \A q \in Refs : ~ IsOpen(q)' /\ ~ IsOpen(q)
  BY <1>1, RepositoryAssumption DEF IsOpen, Refs
<1>3. CASE UNCHANGED <<modifiedRefs, pendingMerges>>
  BY <1>1, <1>2, <1>3 DEF PendingInv, NoRevs
<1>4. CASE ~ UNCHANGED <<modifiedRefs, pendingMerges>>
  <2>1. /\ r \in Refs /\ DiscoverRef(r)
        /\ \/ UNCHANGED pendingMerges
           \/ \E k \in copies, q \in Refs : q.repo = r.repo /\ RecordAncestor(r, q, k.rev)
    BY <1>4, DiscoverMergeKinds DEF SafetyInv
  <2>2. modifiedRefs \subseteq modifiedRefs' /\ r \in modifiedRefs'
    BY <1>1, <2>1, DiscoverRefForward
  <2>3. pendingMerges \in [Refs -> [Refs -> Revs]]
    BY DEF SafetyInv, TypeOK, GitTypeOK
  <2> HIDE DEF r
  <2>4. /\ \A x \in Refs \ {r} : pendingMerges'[x] = pendingMerges[x]
        /\ \A x, q \in Refs : pendingMerges'[x][q] # 0 => q.repo = x.repo
    <3>1. CASE UNCHANGED pendingMerges
      BY <3>1 DEF PendingInv
    <3>2. CASE ~ UNCHANGED pendingMerges
      <4>1. PICK k \in copies, q \in Refs : q.repo = r.repo /\ RecordAncestor(r, q, k.rev)
        BY <2>1, <3>2
      <4> QED  BY <2>1, <2>3, <4>1 DEF RecordAncestor, PendingInv
    <3> QED  BY <3>1, <3>2
  <2> QED  BY <1>1, <1>2, <2>2, <2>4 DEF PendingInv, NoRevs
<1> QED  BY <1>3, <1>4

LEMMA PhaseIPending == SafetyInv /\ PendingInv /\ PhaseI => PendingInv'
<1> SUFFICES ASSUME SafetyInv, PendingInv, PhaseI PROVE PendingInv'
  OBVIOUS
<1>1. ASSUME NEW m \in invalid, InvalidateRule(m) PROVE PendingInv'
  <2>1. m \in Rules /\ m.svn \in SvnPaths
    BY RuleType DEF SafetyInv, TypeOK
  <2> QED  BY <1>1, <2>1, AddTreeToDeletePending DEF InvalidateRule
<1>2. ASSUME NEW c \in changes, ProcessChange(c) PROVE PendingInv'
  <2>1. c.path \in SvnPaths /\ revnum \in Revs
    BY ReportType DEF SafetyInv, TypeOK
  <2>2. CASE Match(c.path, revnum) = NoRule
    BY <1>2, <2>2, QuietPending DEF ProcessChange, otherGitVars, PendingInv
  <2>3. CASE Match(c.path, revnum) # NoRule
    <3>1. Match(c.path, revnum) \in Rules
      BY <2>1, <2>3, MatchType
    <3> QED  BY <1>2, <2>1, <2>3, <3>1, AddTreeToDeletePending DEF ProcessChange
  <2> QED  BY <2>2, <2>3
<1> QED
  BY <1>1, <1>2, DiscoverMergePending DEF PhaseI

LEMMA BeginRevisionPending == SafetyInv /\ PendingInv /\ BeginRevision => PendingInv'
BY IdleClosed DEF BeginRevision, PendingInv, IsOpen, gitVars, refVars, NoRevs

\* close_commit ends with nothing left for its ref.
LEMMA ClosesPending ==
  ASSUME SafetyInv, PendingInv, NEW r \in Refs, Closes(r)
  PROVE  PendingInv'
<1>1. /\ r.repo \in Repos /\ currentRef[r.repo] = r
      /\ currentRef' = [currentRef EXCEPT ![r.repo] = NoRef]
      /\ modifiedRefs' = modifiedRefs \ {r}
      /\ UNCHANGED <<pendingMerges, pendingDeletions>>
      /\ staleSubs' = [staleSubs EXCEPT ![r] = {}]
      /\ phase' # "discover"
  BY ClosesEffect DEF Closes
<1>2. currentRef \in [Repos -> Refs \cup {NoRef}] /\ staleSubs \in [Refs -> SUBSET Refs]
  BY DEF SafetyInv, TypeOK, GitTypeOK
<1>3. \A q \in Refs : q.repo \in Repos
  BY DEF Refs
<1>4. \A q \in Refs \ {r} : IsOpen(q)' <=> IsOpen(q)
  BY <1>1, <1>2, <1>3, RepositoryAssumption DEF IsOpen
<1>5. IsOpen(r)
  BY <1>1 DEF IsOpen
<1>6. ~ IsOpen(r)'
  BY <1>1, <1>2, RepositoryAssumption DEF IsOpen
<1>7. \A q \in Refs \ {r} : staleSubs'[q] = staleSubs[q]
  BY <1>1, <1>2
<1>8. staleSubs'[r] = {}
  BY <1>1, <1>2
<1> QED  BY <1>1, <1>4, <1>5, <1>6, <1>7, <1>8 DEF PendingInv, NoRevs

\* No step leaves anything waiting for a ref that will not be written.
LEMMA PendingStep ==
  ASSUME SafetyInv, PendingInv, [Next]_vars
  PROVE  PendingInv'
<1>1. ASSUME NEW p \in Repos, OpenCommit(p) PROVE PendingInv'
  <2>1. phase = "open" /\ phase' = "open"
    BY <1>1 DEF OpenCommit
  <2>2. CASE UNCHANGED gitVars
    BY <2>1, <2>2, QuietPending DEF gitVars, refVars
  <2>3. CASE ~ UNCHANGED gitVars
    <3>1. /\ currentRef[p] = NoRef /\ UNCHANGED modifiedRefs
          /\ \E r \in ModifiedIn(p) : OpenRef(r, revnum)
      BY <1>1, <2>3 DEF OpenCommit
    <3>2. \E r \in Refs : Opens(r)
      BY <2>1, <3>1 DEF Opens, ModifiedIn, SafetyInv, TypeOK, GitTypeOK
    <3> QED  BY <2>1, <3>1, <3>2, OpensPending
  <2> QED  BY <2>2, <2>3
<1>2. ASSUME NEW s \in SvnFiles, ConvertFile(s) PROVE PendingInv'
  <2>1. phase = "convert" /\ phase' = "convert" /\ modifiedRefs \subseteq modifiedRefs'
    BY <1>2, ConvertFileKind
  <2>2. CASE \E r \in Refs : Opens(r)
    BY <2>1, <2>2, OpensPending
  <2>3. CASE ~ \E r \in Refs : Opens(r)
    <3>1. UNCHANGED openVars
      BY <1>2, <2>3, ConvertFileKind
    <3> QED  BY <2>1, <3>1, QuietPending DEF openVars, refVars
  <2> QED  BY <2>2, <2>3
<1>3. ASSUME NEW p \in Repos, PrepareRepo(p) PROVE PendingInv'
  <2>1. /\ phase' # "discover" /\ modifiedRefs' = modifiedRefs
        /\ UNCHANGED <<currentRef, pendingDeletions, pendingMerges>>
        /\ \/ UNCHANGED staleSubs
           \/ staleSubs' = [staleSubs EXCEPT ![currentRef[p]] = {}]
    BY <1>3 DEF PrepareRepo, PrepareToCloseCommit, PrepareRef, gitVars, refVars
  <2>2. \A r \in Refs : staleSubs'[r] \subseteq staleSubs[r]
    BY <2>1 DEF SafetyInv, TypeOK, GitTypeOK
  <2> QED  BY <2>1, <2>2, QuietPending
<1>4. ASSUME NEW p \in Repos, CloseCommit(p) PROVE PendingInv'
  <2>1. CASE UNCHANGED gitVars
    BY <1>4, <2>1, CloseCommitKind, QuietPending DEF gitVars, refVars
  <2>2. CASE ~ UNCHANGED gitVars
    BY <1>4, <2>2, CloseCommitKind, ClosesPending
  <2> QED  BY <2>1, <2>2
<1>5. CASE Bookkeeping
  BY <1>5, QuietPending DEF Bookkeeping, BeginPhaseII, BeginPass, GiveUp, NextLoop,
     EndPass, OpenNothing, gitVars, refVars
<1>6. CASE UNCHANGED vars
  BY <1>6, QuietPending DEF vars, gitVars, refVars, PendingInv
<1> QED
  BY <1>1, <1>2, <1>3, <1>4, <1>5, <1>6, BeginRevisionPending, PhaseIPending
     DEF Next, Bookkeeping, Finished, PhaseI

-----------------------------------------------------------------------------
(* MarksInv and HeadInv.                                                   *)

\* Before the first revision nothing is marked.
LEMMA MarksInit == Init => MarksInv /\ HeadInv
BY DEF Init, GitInit, MarksInv, HeadInv

\* open_commit gives its ref the first mark of the revision.
LEMMA OpensEffect ==
  ASSUME SafetyInv, MarksInv, NEW r \in Refs, Opens(r), modifiedRefs' # modifiedRefs => Marking
  PROVE  /\ r.repo \in Repos /\ revnum \in 1..MaxRev /\ lastMark[r.repo] \in Nat
         /\ marks[r][revnum] = 0 /\ currentRef[r.repo] = NoRef
         /\ marks' = [marks EXCEPT ![r][revnum] = lastMark[r.repo] + 1]
         /\ lastMark' = [lastMark EXCEPT ![r.repo] = lastMark[r.repo] + 1]
         /\ currentRef' = [currentRef EXCEPT ![r.repo] = r]
         /\ \A q \in Refs : IsOpen(q)' <=> (q = r \/ IsOpen(q))
         /\ \A q \in Refs : q.repo = r.repo => ~ IsOpen(q)
<1>1. /\ r.repo \in Repos /\ currentRef[r.repo] = NoRef /\ phase # "idle"
      /\ marks' = [marks EXCEPT ![r][revnum] = lastMark[r.repo] + 1]
      /\ lastMark' = [lastMark EXCEPT ![r.repo] = lastMark[r.repo] + 1]
      /\ currentRef' = [currentRef EXCEPT ![r.repo] = r]
      /\ Marking \/ r \in modifiedRefs
  BY DEF Opens, OpenRef, Refs
<1>2. currentRef \in [Repos -> Refs \cup {NoRef}] /\ lastMark \in [Repos -> Nat]
      /\ revnum \in 1..MaxRev
  BY <1>1, TreeAssumption DEF SafetyInv, TypeOK, GitTypeOK, Revs, MarksInv
<1>3. \A q \in Refs : q.repo \in Repos /\ q # NoRef
  BY RepositoryAssumption DEF Refs
<1>4. \A q \in Refs : q.repo = r.repo => ~ IsOpen(q)
  BY <1>1, <1>3 DEF IsOpen
<1>5. marks[r][revnum] = 0
  BY <1>1, <1>2, <1>4 DEF MarksInv
<1>6. \A q \in Refs : IsOpen(q)' <=> (q = r \/ IsOpen(q))
  BY <1>1, <1>2, <1>3 DEF IsOpen
<1> QED  BY <1>1, <1>2, <1>4, <1>5, <1>6

\* A step that finishes no commit.
LEMMA ForwardMarks ==
  ASSUME SafetyInv, SafetyInv', MarksInv, HeadInv, Forward
  PROVE  MarksInv' /\ HeadInv'
<1>1. /\ modifiedRefs \subseteq modifiedRefs' /\ (modifiedRefs' # modifiedRefs => Marking)
      /\ (Marking' => Marking) /\ (phase = "idle" => phase' = "idle")
      /\ revnum' = revnum /\ headTree' = headTree /\ commits' = commits
  BY DEF Forward
<1>2. /\ marks \in [Refs -> [1..MaxRev -> Nat]] /\ MaxRev \in Nat /\ revnum \in 0..MaxRev
      /\ currentRef \in [Repos -> Refs \cup {NoRef}] /\ lastMark \in [Repos -> Nat]
  BY TreeAssumption DEF SafetyInv, TypeOK, GitTypeOK, Revs
<1>3. CASE UNCHANGED <<currentRef, lastMark, marks, history>>
  <2>1. MarksInv'
    BY <1>1, <1>3 DEF MarksInv, IsOpen
  <2>2. HeadInv'
    BY <1>1, <1>3 DEF HeadInv, LastFinished, IsOpen
  <2> QED  BY <2>1, <2>2
<1>4. ASSUME NEW r \in Refs, Opens(r) PROVE MarksInv' /\ HeadInv'
  <2>1. /\ r.repo \in Repos /\ revnum \in 1..MaxRev /\ lastMark[r.repo] \in Nat
        /\ marks[r][revnum] = 0 /\ currentRef[r.repo] = NoRef
        /\ marks' = [marks EXCEPT ![r][revnum] = lastMark[r.repo] + 1]
        /\ lastMark' = [lastMark EXCEPT ![r.repo] = lastMark[r.repo] + 1]
        /\ currentRef' = [currentRef EXCEPT ![r.repo] = r]
        /\ \A q \in Refs : IsOpen(q)' <=> (q = r \/ IsOpen(q))
        /\ \A q \in Refs : q.repo = r.repo => ~ IsOpen(q)
    BY <1>1, <1>4, OpensEffect
  <2>2. /\ \A q \in Refs, v \in 1..MaxRev : ~ (q = r /\ v = revnum) => marks'[q][v] = marks[q][v]
        /\ marks'[r][revnum] = lastMark[r.repo] + 1
    BY <1>2, <2>1
  <2>3. MarksInv'
    <3>1. phase' # "idle" => revnum' > 0
      BY <1>1, <2>1
    <3>2. \A q \in Refs, v \in 1..MaxRev : marks'[q][v] # 0 =>
            v <= revnum /\ (v = revnum /\ (Marking' \/ q \in modifiedRefs') => IsOpen(q)')
      BY <1>1, <2>1, <2>2 DEF MarksInv
    <3>3. \A p \in Repos : currentRef'[p] # NoRef =>
            marks'[currentRef'[p]][revnum] = lastMark'[p] /\ lastMark'[p] > 0
      <4> SUFFICES ASSUME NEW p \in Repos, currentRef'[p] # NoRef
                   PROVE  marks'[currentRef'[p]][revnum] = lastMark'[p] /\ lastMark'[p] > 0
        OBVIOUS
      <4>1. CASE p = r.repo
        BY <1>2, <2>1, <2>2, <4>1
      <4>2. CASE p # r.repo
        <5>1. currentRef'[p] = currentRef[p] /\ lastMark'[p] = lastMark[p]
          BY <1>2, <2>1, <4>2
        <5>2. currentRef[p] \in Refs /\ currentRef[p] # r
          BY <1>2, <4>2, <5>1 DEF SafetyInv, OpenInv, ModifiedIn
        <5> QED  BY <2>1, <2>2, <5>1, <5>2 DEF MarksInv
      <4> QED  BY <4>1, <4>2
    <3> QED  BY <1>1, <3>1, <3>2, <3>3 DEF MarksInv
  <2>4. HeadInv'
    <3> SUFFICES ASSUME NEW q \in Refs, headTree[q] # NoTree
                 PROVE  \E v \in 1..revnum : LastFinished(q, v)'
                          /\ commits[q.repo][marks'[q][v]].tree = headTree[q]
      BY <1>1 DEF HeadInv
    <3>1. PICK v \in 1..revnum : LastFinished(q, v)
            /\ commits[q.repo][marks[q][v]].tree = headTree[q]
      BY DEF HeadInv
    <3>2. ~ (q = r /\ v = revnum)
      BY <2>1, <3>1 DEF LastFinished
    <3>3. marks'[q][v] = marks[q][v]
      BY <1>2, <2>1, <2>2, <3>2
    <3>4. LastFinished(q, v)'
      <4>1. CASE q = r
        BY <1>1, <1>2, <2>1, <2>2, <3>1, <3>2, <3>3, <4>1 DEF LastFinished
      <4>2. CASE q # r
        BY <1>1, <1>2, <2>1, <2>2, <3>1, <3>3, <4>2 DEF LastFinished
      <4> QED  BY <4>1, <4>2
    <3> QED  BY <3>1, <3>3, <3>4
  <2> QED  BY <2>3, <2>4
<1> QED  BY <1>3, <1>4 DEF Forward

\* close_commit throws a mark away only if an earlier one remains: that of
\* head_tree_sha.
LEMMA ClosesMarksKinds ==
  ASSUME SafetyInv, MarksInv, HeadInv, NEW r \in Refs, Closes(r)
  PROVE  /\ revnum \in 1..MaxRev /\ marks[r][revnum] = lastMark[r.repo] /\ lastMark[r.repo] > 0
         /\ \A q \in Refs : IsOpen(q)' <=> (q # r /\ IsOpen(q))
         /\ \/ /\ ClosedTree(r) # headTree[r] /\ UNCHANGED <<marks, history>>
               /\ headTree' = [headTree EXCEPT ![r] = ClosedTree(r)]
            \/ /\ marks' = [marks EXCEPT ![r][revnum] = 0]
               /\ UNCHANGED headTree /\ ClosedTree(r) = headTree[r]
               /\ \E v \in 1..(revnum - 1) :
                    /\ marks[r][v] # 0 /\ MarkUpTo(r, revnum - 1) = marks[r][v]
                    /\ \A u \in (v + 1)..MaxRev : u # revnum => marks[r][u] = 0
                    /\ commits[r.repo][marks[r][v]].tree = headTree[r]
<1>1. /\ ClosedTree(r) \in Trees /\ r.repo \in Repos /\ currentRef[r.repo] = r
      /\ IF ClosedTree(r) = headTree[r] THEN DropCommit(r, revnum)
         ELSE KeepCommit(r, ClosedTree(r), ClosedTree(r))
      /\ currentRef' = [currentRef EXCEPT ![r.repo] = NoRef]
  BY ClosesEffect
<1>2. /\ marks \in [Refs -> [1..MaxRev -> Nat]] /\ MaxRev \in Nat
      /\ currentRef \in [Repos -> Refs \cup {NoRef}] /\ lastMark \in [Repos -> Nat]
      /\ NoTree \notin Trees
  BY TreeAssumption DEF SafetyInv, TypeOK, GitTypeOK
<1>3. revnum \in 1..MaxRev
  BY TreeAssumption DEF Closes, MarksInv, SafetyInv, TypeOK, Revs
<1>4. marks[r][revnum] = lastMark[r.repo] /\ lastMark[r.repo] > 0
  BY <1>1, RepositoryAssumption DEF MarksInv
<1>5. \A q \in Refs : q.repo \in Repos /\ q # NoRef
  BY RepositoryAssumption DEF Refs
<1>6. \A q \in Refs : IsOpen(q)' <=> (q # r /\ IsOpen(q))
  BY <1>1, <1>2, <1>5 DEF IsOpen
<1>7. CASE ClosedTree(r) # headTree[r]
  BY <1>1, <1>3, <1>4, <1>6, <1>7 DEF KeepCommit
<1>8. CASE ClosedTree(r) = headTree[r]
  <2>1. marks' = [marks EXCEPT ![r][revnum] = 0] /\ UNCHANGED headTree
    BY <1>1, <1>8 DEF DropCommit
  <2>2. headTree[r] # NoTree
    BY <1>1, <1>2, <1>8
  <2>3. PICK v \in 1..revnum : LastFinished(r, v)
          /\ commits[r.repo][marks[r][v]].tree = headTree[r]
    BY <2>2 DEF HeadInv
  <2>4. IsOpen(r)
    BY <1>1 DEF IsOpen
  <2>5. v \in 1..(revnum - 1) /\ marks[r][v] # 0
    BY <1>3, <2>3, <2>4 DEF LastFinished
  <2>6. \A u \in (v + 1)..MaxRev : u # revnum => marks[r][u] = 0
    <3> SUFFICES ASSUME NEW u \in (v + 1)..MaxRev, u # revnum, marks[r][u] # 0
                 PROVE  FALSE
      OBVIOUS
    <3>1. u \in 1..MaxRev
      BY <2>5, <1>3
    <3>2. u <= revnum
      BY <3>1 DEF MarksInv
    <3> QED  BY <1>3, <2>3, <2>5, <3>2 DEF LastFinished
  <2>7. MarkUpTo(r, revnum - 1) = marks[r][v]
    <3>1. marks[r] \in [1..MaxRev -> Nat] /\ revnum - 1 \in 0..MaxRev
      BY <1>2, <1>3
    <3>2. \A u \in (v + 1)..(revnum - 1) : marks[r][u] = 0
      BY <1>2, <1>3, <2>6
    <3>3. LastOf(marks[r], revnum - 1) = marks[r][v]
      BY <2>5, <3>1, <3>2, LastOfUnique
    <3> QED  BY <3>3, MarkUpToIsLastOf
  <2> QED  BY <1>3, <1>4, <1>6, <1>8, <2>1, <2>3, <2>5, <2>6, <2>7
<1> QED  BY <1>7, <1>8

\* Closing a commit.
LEMMA ClosesMarks ==
  ASSUME SafetyInv, SafetyInv', MarksInv, HeadInv, HistoryInv, NEW r \in Refs, Closes(r)
  PROVE  MarksInv' /\ HeadInv'
<1>1. /\ revnum \in 1..MaxRev /\ marks[r][revnum] = lastMark[r.repo] /\ lastMark[r.repo] > 0
      /\ \A q \in Refs : IsOpen(q)' <=> (q # r /\ IsOpen(q))
  BY ClosesMarksKinds
<1>2. /\ r.repo \in Repos /\ currentRef[r.repo] = r
      /\ currentRef' = [currentRef EXCEPT ![r.repo] = NoRef]
      /\ modifiedRefs' = modifiedRefs \ {r}
      /\ commits' = [commits EXCEPT ![r.repo] = Append(@,
           [ref |-> r, rev |-> revnum, tree |-> ClosedTree(r), history |-> history[r]])]
      /\ UNCHANGED <<lastMark, revnum, phase>>
  BY ClosesEffect
<1>3. /\ marks \in [Refs -> [1..MaxRev -> Nat]] /\ MaxRev \in Nat
      /\ currentRef \in [Repos -> Refs \cup {NoRef}] /\ lastMark \in [Repos -> Nat]
      /\ commits \in [Repos -> Seq(Commits)]
      /\ headTree \in [Refs -> Trees \cup {NoTree}]
  BY TreeAssumption DEF SafetyInv, TypeOK, GitTypeOK
<1>4. phase = "close" /\ ~ Marking /\ ~ Marking'
  BY DEF Closes, Marking
<1>5. /\ \A q \in Refs, v \in 1..MaxRev : ~ (q = r /\ v = revnum) => marks'[q][v] = marks[q][v]
      /\ \A q \in Refs, v \in 1..MaxRev : marks'[q][v] # 0 => marks[q][v] # 0
  <2>1. marks' = marks \/ marks' = [marks EXCEPT ![r][revnum] = 0]
    BY ClosesMarksKinds
  <2>2. CASE marks' = marks
    BY <2>2
  <2>3. CASE marks' = [marks EXCEPT ![r][revnum] = 0]
    BY <1>1, <1>3, <2>3
  <2> QED  BY <2>1, <2>2, <2>3
<1>6. MarksInv'
  <2>1. \A q \in Refs, v \in 1..MaxRev : marks'[q][v] # 0 =>
          v <= revnum /\ (v = revnum /\ q \in modifiedRefs' => IsOpen(q)')
    BY <1>1, <1>2, <1>5 DEF MarksInv
  <2>2. \A p \in Repos : currentRef'[p] # NoRef =>
          marks'[currentRef'[p]][revnum] = lastMark'[p] /\ lastMark'[p] > 0
    <3> SUFFICES ASSUME NEW p \in Repos, currentRef'[p] # NoRef
                 PROVE  marks'[currentRef'[p]][revnum] = lastMark'[p] /\ lastMark'[p] > 0
      OBVIOUS
    <3>1. p # r.repo /\ currentRef'[p] = currentRef[p]
      BY <1>2, <1>3
    <3>2. currentRef[p] \in Refs /\ currentRef[p] # r
      BY <1>3, <3>1 DEF SafetyInv, OpenInv, ModifiedIn
    <3> QED  BY <1>1, <1>2, <1>5, <3>1, <3>2 DEF MarksInv
  <2> QED  BY <1>1, <1>2, <1>4, <2>1, <2>2 DEF MarksInv
<1>7. Len(commits[r.repo]) = lastMark[r.repo] - 1 /\ r # NoRef
  BY <1>2, RepositoryAssumption DEF HistoryInv
<1>8. /\ \A p \in Repos : \A m \in DOMAIN commits[p] : commits'[p][m] = commits[p][m]
      /\ commits'[r.repo][lastMark[r.repo]].tree = ClosedTree(r)
  <2> DEFINE c == [ref |-> r, rev |-> revnum, tree |-> ClosedTree(r), history |-> history[r]]
  <2>1. c \in Commits
    BY ClosesEffect, <1>3 DEF Commits, SafetyInv, TypeOK, GitTypeOK
  <2>2. c.tree = ClosedTree(r)
    OBVIOUS
  <2>3. commits' = [commits EXCEPT ![r.repo] = Append(commits[r.repo], c)]
    BY <1>2
  <2> HIDE DEF c
  <2>4. \A p \in Repos : p # r.repo => commits'[p] = commits[p]
    BY <1>3, <2>3
  <2>5. /\ Append(commits[r.repo], c)[lastMark[r.repo]] = c
        /\ \A m \in DOMAIN commits[r.repo] : Append(commits[r.repo], c)[m] = commits[r.repo][m]
    <3>1. commits[r.repo] \in Seq(Commits) /\ lastMark[r.repo] = Len(commits[r.repo]) + 1
      BY <1>1, <1>2, <1>3, <1>7
    <3> QED  BY <2>1, <3>1, AppendProperties, LenProperties
  <2>6. commits'[r.repo] = Append(commits[r.repo], c)
    BY <1>2, <1>3, <2>3
  <2> QED  BY <2>2, <2>4, <2>5, <2>6
<1>9. HeadInv'
  <2> SUFFICES ASSUME NEW q \in Refs, headTree'[q] # NoTree
               PROVE  \E v \in 1..revnum : LastFinished(q, v)'
                        /\ commits'[q.repo][marks'[q][v]].tree = headTree'[q]
    BY <1>2 DEF HeadInv
  <2>1. CASE q # r
    <3>1. headTree'[q] = headTree[q]
      BY <1>3, <2>1, ClosesMarksKinds
    <3>2. PICK v \in 1..revnum : LastFinished(q, v)
            /\ commits[q.repo][marks[q][v]].tree = headTree[q]
      BY <3>1 DEF HeadInv
    <3>3. /\ \A u \in 1..MaxRev : marks'[q][u] = marks[q][u]
          /\ (IsOpen(q)' <=> IsOpen(q))
      BY <1>1, <1>5, <2>1
    <3>4. /\ v \in 1..MaxRev /\ marks'[q][v] = marks[q][v]
          /\ \A u \in (v + 1)..revnum : u \in 1..MaxRev /\ marks'[q][u] = marks[q][u]
      BY <1>1, <1>3, <3>2, <3>3
    <3>5. LastFinished(q, v)'
      BY <1>2, <3>2, <3>3, <3>4 DEF LastFinished
    <3>6. marks[q][v] # 0 /\ ~ (v = revnum /\ IsOpen(q))
      BY <3>2 DEF LastFinished
    <3>7. marks[q][v] \in DOMAIN commits[q.repo]
      BY <3>4, <3>6 DEF HistoryInv, Recorded
    <3>8. q.repo \in Repos
      BY DEF Refs
    <3> QED  BY <1>8, <3>1, <3>2, <3>4, <3>5, <3>7, <3>8
  <2>2. CASE q = r /\ ClosedTree(r) # headTree[r]
    <3>1. marks' = marks /\ headTree' = [headTree EXCEPT ![r] = ClosedTree(r)]
      BY <2>2, ClosesMarksKinds
    <3>2. LastFinished(r, revnum)'
      BY <1>1, <1>2, <3>1 DEF LastFinished
    <3>3. commits'[r.repo][marks'[r][revnum]].tree = headTree'[r]
      BY <1>1, <1>3, <1>8, <3>1
    <3>4. revnum \in 1..revnum
      BY <1>1, <1>3
    <3> QED  BY <1>2, <2>2, <3>2, <3>3, <3>4 DEF LastFinished
  <2>3. CASE q = r /\ ClosedTree(r) = headTree[r]
    <3>1. /\ marks' = [marks EXCEPT ![r][revnum] = 0] /\ UNCHANGED headTree
          /\ \E v \in 1..(revnum - 1) :
               /\ marks[r][v] # 0
               /\ \A u \in (v + 1)..MaxRev : u # revnum => marks[r][u] = 0
               /\ commits[r.repo][marks[r][v]].tree = headTree[r]
      BY <2>3, ClosesMarksKinds
    <3>2. PICK v \in 1..(revnum - 1) :
               /\ marks[r][v] # 0
               /\ \A u \in (v + 1)..MaxRev : u # revnum => marks[r][u] = 0
               /\ commits[r.repo][marks[r][v]].tree = headTree[r]
      BY <3>1
    <3>3. marks'[r][v] = marks[r][v] /\ \A u \in (v + 1)..revnum : marks'[r][u] = 0
      <4>1. \A u \in 1..MaxRev : marks'[r][u] = IF u = revnum THEN 0 ELSE marks[r][u]
        BY <1>3, <3>1
      <4>2. v \in 1..MaxRev /\ v # revnum
        BY <1>1, <1>3
      <4>3. \A u \in (v + 1)..revnum : u \in 1..MaxRev /\ u \in (v + 1)..MaxRev
        BY <1>1, <1>3
      <4> QED  BY <3>2, <4>1, <4>2, <4>3
    <3>4. LastFinished(r, v)'
      BY <1>1, <1>2, <3>2, <3>3 DEF LastFinished
    <3>5. v \in 1..MaxRev /\ v # revnum /\ v \in 1..revnum
      BY <1>1, <1>3, <3>2
    <3>6. marks[r][v] \in DOMAIN commits[r.repo]
      BY <3>2, <3>5 DEF HistoryInv, Recorded
    <3>7. commits'[r.repo][marks'[r][v]].tree = headTree'[r]
      BY <1>2, <1>8, <3>1, <3>2, <3>3, <3>6
    <3> QED  BY <2>3, <3>4, <3>5, <3>7
  <2> QED  BY <2>1, <2>2, <2>3
<1> QED  BY <1>6, <1>9

\* A new revision has no marks yet.
LEMMA BeginRevisionMarks ==
  ASSUME SafetyInv, MarksInv, HeadInv, BeginRevision
  PROVE  MarksInv' /\ HeadInv'
<1>1. /\ phase = "idle" /\ revnum' = revnum + 1 /\ UNCHANGED gitVars
      /\ revnum \in 0..MaxRev /\ MaxRev \in Nat
  BY TreeAssumption DEF BeginRevision, SafetyInv, TypeOK, Revs
<1>2. \A q \in Refs : ~ IsOpen(q) /\ ~ IsOpen(q)'
  BY <1>1, IdleClosed, RepositoryAssumption DEF IsOpen, Refs, gitVars
<1>3. MarksInv'
  BY <1>1, IdleClosed DEF MarksInv, gitVars
<1>4. HeadInv'
  <2> SUFFICES ASSUME NEW q \in Refs, headTree[q] # NoTree
               PROVE  \E v \in 1..revnum' : LastFinished(q, v)'
                        /\ commits[q.repo][marks[q][v]].tree = headTree[q]
    BY <1>1 DEF HeadInv, gitVars
  <2>1. PICK v \in 1..revnum : LastFinished(q, v)
          /\ commits[q.repo][marks[q][v]].tree = headTree[q]
    BY DEF HeadInv
  <2>2. \A u \in (v + 1)..revnum' : marks'[q][u] = 0
    <3> SUFFICES ASSUME NEW u \in (v + 1)..revnum', marks[q][u] # 0 PROVE FALSE
      BY <1>1 DEF gitVars
    <3>1. u \in 1..MaxRev
      BY <1>1, <2>1 DEF BeginRevision
    <3>2. u <= revnum
      BY <3>1 DEF MarksInv
    <3> QED  BY <1>1, <1>2, <2>1, <3>2 DEF LastFinished
  <2>3. LastFinished(q, v)'
    BY <1>1, <1>2, <2>1, <2>2 DEF LastFinished, gitVars
  <2> QED  BY <1>1, <2>1, <2>3
<1> QED  BY <1>3, <1>4

-----------------------------------------------------------------------------
(* HistoryInv.                                                             *)

\* Before the first revision there is no history.
LEMMA HistoryInit == Init => HistoryInv
BY DEF Init, GitInit, HistoryInv

\* A finished mark has a commit, which reaches recorded marks only.
LEMMA FinishedReaches ==
  ASSUME SafetyInv, HistoryInv, NEW q \in Refs, NEW n \in 0..MaxRev,
         ~ IsOpen(q) \/ n < revnum
  PROVE  /\ CommitAt(q.repo, MarkUpTo(q, n)).history \subseteq Marked(q.repo)
         /\ CommitAt(q.repo, MarkUpTo(q, n)).history \subseteq 1..Len(commits[q.repo])
         /\ MarkUpTo(q, n) # 0 => MarkUpTo(q, n) \in DOMAIN commits[q.repo]
<1> DEFINE p == q.repo
           m == MarkUpTo(q, n)
<1>1. GitTypeOK /\ p \in Repos /\ commits[p] \in Seq(Commits) /\ MaxRev \in Nat
      /\ revnum \in Nat
  <2>1. GitTypeOK /\ revnum \in 0..MaxRev /\ p \in Repos
    BY DEF SafetyInv, TypeOK, Refs, Revs
  <2>2. commits[p] \in Seq(Commits)
    BY <2>1 DEF GitTypeOK
  <2> QED  BY <2>1, <2>2, TreeAssumption
<1>2. m = 0 \/ \E w \in 1..n : m = marks[q][w] /\ marks[q][w] # 0
  <2>1. marks[q] \in [1..MaxRev -> Nat]
    BY <1>1 DEF GitTypeOK
  <2> QED  BY <2>1, LastOfIsLast, MarkUpToIsLastOf
<1>3. CASE m = 0
  <2>1. m \notin DOMAIN commits[p]
    BY <1>1, <1>3
  <2> QED  BY <1>3, <2>1 DEF CommitAt
<1>4. ASSUME NEW w \in 1..n, m = marks[q][w], marks[q][w] # 0
      PROVE  /\ m \in DOMAIN commits[p] /\ CommitAt(p, m).history \subseteq Marked(p)
             /\ CommitAt(p, m).history \subseteq 1..Len(commits[p])
  <2>1. w \in 1..MaxRev /\ ~ (w = revnum /\ IsOpen(q))
    BY <1>1
  <2>2. Recorded(q, w)
    BY <1>4, <2>1 DEF HistoryInv
  <2>3. m \in DOMAIN commits[p] /\ commits[p][m].history \subseteq Marked(p)
    BY <1>4, <2>2 DEF Recorded
  <2>4. commits[p][m].history \subseteq 1..m /\ m \in 1..Len(commits[p])
    BY <1>1, <2>3 DEF HistoryInv
  <2>5. commits[p][m].history \subseteq 1..Len(commits[p])
    BY <1>1, <2>4
  <2> QED  BY <2>3, <2>5 DEF CommitAt
<1> QED  BY <1>2, <1>3, <1>4

\* Opening a commit adds recorded marks and its own to the history.
LEMMA OpensHistory ==
  ASSUME SafetyInv, PendingInv, MarksInv, HistoryInv, NEW r \in Refs, Opens(r),
         modifiedRefs' # modifiedRefs => Marking,
         UNCHANGED <<revnum, commits>>
  PROVE  HistoryInv'
<1> DEFINE p == r.repo
           m == lastMark[p] + 1
           merged == {CommitAt(p, MarkUpTo(q, pendingMerges[r][q])).history :
                        q \in MergesToWrite(r)}
<1>1. /\ p \in Repos /\ revnum \in 1..MaxRev /\ lastMark[p] \in Nat
      /\ marks[r][revnum] = 0 /\ currentRef[p] = NoRef
      /\ marks' = [marks EXCEPT ![r][revnum] = m]
      /\ lastMark' = [lastMark EXCEPT ![p] = m]
      /\ currentRef' = [currentRef EXCEPT ![p] = r]
      /\ \A q \in Refs : IsOpen(q)' <=> (q = r \/ IsOpen(q))
      /\ \A q \in Refs : q.repo = p => ~ IsOpen(q)
  BY OpensEffect
<1>2. /\ marks \in [Refs -> [1..MaxRev -> Nat]] /\ MaxRev \in Nat
      /\ currentRef \in [Repos -> Refs \cup {NoRef}] /\ lastMark \in [Repos -> Nat]
      /\ history \in [Refs -> SUBSET Nat] /\ commits \in [Repos -> Seq(Commits)]
      /\ pendingMerges \in [Refs -> [Refs -> Revs]] /\ r # NoRef
      /\ mergedRevs \in [Refs -> [Refs -> Revs]]
  BY TreeAssumption, RepositoryAssumption DEF SafetyInv, TypeOK, GitTypeOK
<1>3. history' = [history EXCEPT ![r] = history[r] \cup {m} \cup UNION merged]
  BY DEF Opens, OpenRef
<1>4. UNION merged \subseteq Marked(p) /\ UNION merged \subseteq 1..Len(commits[p])
  <2> SUFFICES ASSUME NEW q \in MergesToWrite(r)
               PROVE  LET h == CommitAt(p, MarkUpTo(q, pendingMerges[r][q])).history
                      IN  h \subseteq Marked(p) /\ h \subseteq 1..Len(commits[p])
    OBVIOUS
  <2>1. q \in Refs /\ pendingMerges[r][q] \in 0..MaxRev /\ pendingMerges[r][q] # 0
    BY <1>2 DEF MergesToWrite, Revs
  <2>2. q.repo = p /\ ~ IsOpen(q)
    BY <1>1, <2>1 DEF PendingInv
  <2> QED  BY <2>1, <2>2, FinishedReaches
<1>5. Len(commits[p]) = lastMark[p]
  BY <1>1 DEF HistoryInv
<1>6. /\ \A q \in Refs, v \in 1..MaxRev : ~ (q = r /\ v = revnum) => marks'[q][v] = marks[q][v]
      /\ marks'[r][revnum] = m
  BY <1>1, <1>2
<1>7. (\A x : Marked(x) \subseteq Marked(x)') /\ m \in Marked(p)'
  <2>1. \A x : \A q \in Refs, v \in 1..MaxRev :
          q.repo = x /\ marks[q][v] # 0 => marks[q][v] \in Marked(x)'
    BY <1>1, <1>6 DEF Marked
  <2>2. \A x : Marked(x) \subseteq Marked(x)'
    BY <2>1 DEF Marked
  <2>3. m \in Marked(p)'
    BY <1>1, <1>6 DEF Marked
  <2> QED  BY <2>2, <2>3
<1> HIDE DEF m, merged
<1>8. \A q \in Refs : history[q] \subseteq history'[q] /\ (q # r => history'[q] = history[q])
  BY <1>2, <1>3
<1>9. m \in Nat /\ m = lastMark[p] + 1
  BY <1>1 DEF m
<1>10. history'[r] \subseteq Marked(p)' /\ history'[r] \subseteq 1..m /\ m \in history'[r]
  <2>1. history[r] \subseteq Marked(p) /\ history[r] \subseteq 1..Len(commits[p])
    BY <1>1 DEF HistoryInv
  <2>2. history'[r] = history[r] \cup {m} \cup UNION merged
    BY <1>2, <1>3
  <2>3. (\A x \in 1..Len(commits[p]) : x \in 1..m) /\ m \in 1..m
    BY <1>1, <1>5, <1>9
  <2>4. history'[r] \subseteq Marked(p)'
    BY <1>4, <1>7, <2>1, <2>2
  <2>5. history'[r] \subseteq 1..m
    <3> HIDE DEF merged
    <3> SUFFICES ASSUME NEW x \in history'[r] PROVE x \in 1..m
      OBVIOUS
    <3>1. x = m \/ x \in 1..Len(commits[p])
      BY <1>4, <2>1, <2>2
    <3> QED  BY <2>3, <3>1
  <2> QED  BY <2>2, <2>4, <2>5
<1>11. ASSUME NEW x \in Repos
       PROVE  /\ Len(commits[x]) = IF currentRef'[x] = NoRef THEN lastMark'[x] ELSE lastMark'[x] - 1
              /\ \A n \in DOMAIN commits[x] : commits[x][n].history \subseteq 1..n
  <2>1. CASE x = p
    <3>1. currentRef'[x] # NoRef /\ lastMark'[x] - 1 = lastMark[p]
      BY <1>1, <1>2, <1>9, <2>1
    <3> QED  BY <1>5, <2>1, <3>1 DEF HistoryInv
  <2>2. CASE x # p
    <3>1. currentRef'[x] = currentRef[x] /\ lastMark'[x] = lastMark[x]
      BY <1>1, <1>2, <2>2
    <3> QED  BY <3>1 DEF HistoryInv
  <2> QED  BY <2>1, <2>2
<1>12. ASSUME NEW q \in Refs, NEW v \in 1..MaxRev, marks'[q][v] # 0
       PROVE  marks'[q][v] \in history'[q] /\ (Recorded(q, v)' \/ (v = revnum /\ IsOpen(q)'))
  <2>1. CASE q = r /\ v = revnum
    BY <1>1, <1>6, <1>10, <2>1
  <2>2. CASE ~ (q = r /\ v = revnum)
    <3>1. marks'[q][v] = marks[q][v] /\ marks[q][v] \in history[q]
      BY <1>6, <1>12, <2>2 DEF HistoryInv
    <3>2. Recorded(q, v) \/ (v = revnum /\ IsOpen(q))
      BY <1>12, <3>1 DEF HistoryInv
    <3>3. CASE v = revnum /\ IsOpen(q)
      BY <1>1, <1>8, <3>1, <3>3
    <3>4. CASE Recorded(q, v)
      <4>1. ~ (q = r /\ v > revnum)
        <5>1. marks[q][v] # 0 => v <= revnum
          BY DEF MarksInv
        <5> QED  BY <1>1, <1>2, <1>12, <3>1, <5>1
      <4>2. \A w \in 1..v : w \in 1..MaxRev /\ marks'[q][w] = marks[q][w]
        BY <1>1, <1>2, <1>6, <2>2, <4>1
      <4>3. Recorded(q, v)'
        BY <1>7, <3>1, <3>4, <4>2 DEF Recorded
      <4> QED  BY <1>8, <3>1, <4>3
    <3> QED  BY <3>2, <3>3, <3>4
  <2> QED  BY <2>1, <2>2
<1>13. ASSUME NEW q \in Refs
       PROVE  /\ history'[q] \subseteq Marked(q.repo)'
              /\ history'[q] \subseteq 1..(IF IsOpen(q)' THEN lastMark'[q.repo]
                                           ELSE Len(commits[q.repo]))
  <2>1. CASE q = r
    BY <1>1, <1>2, <1>10, <2>1
  <2>2. CASE q # r
    <3>1. history'[q] = history[q] /\ (IsOpen(q)' <=> IsOpen(q))
      BY <1>1, <1>8, <2>2
    <3>2. IsOpen(q) => lastMark'[q.repo] = lastMark[q.repo]
      BY <1>1, <1>2 DEF Refs
    <3> QED  BY <1>7, <3>1, <3>2 DEF HistoryInv
  <2> QED  BY <2>1, <2>2
<1> QED  BY <1>11, <1>12, <1>13 DEF HistoryInv

\* A new revision changes no history.
LEMMA BeginRevisionHistory ==
  ASSUME SafetyInv, HistoryInv, BeginRevision
  PROVE  HistoryInv'
<1>1. UNCHANGED gitVars /\ phase = "idle"
  BY DEF BeginRevision
<1>2. \A q \in Refs : ~ IsOpen(q)
  BY <1>1, IdleClosed, RepositoryAssumption DEF IsOpen, Refs
<1>3. UNCHANGED <<currentRef, lastMark, marks, history, commits>>
  BY <1>1 DEF gitVars
<1>4. \A q \in Refs : ~ IsOpen(q)'
  BY <1>2, <1>3 DEF IsOpen
<1>5. \A x : Marked(x)' = Marked(x)
  BY <1>3 DEF Marked
<1>6. \A q, v : Recorded(q, v)' <=> Recorded(q, v)
  BY <1>3, <1>5 DEF Recorded
<1> QED  BY <1>2, <1>3, <1>4, <1>5, <1>6 DEF HistoryInv

\* A step that finishes no commit.
LEMMA ForwardHistory ==
  ASSUME SafetyInv, PendingInv, MarksInv, HistoryInv, Forward
  PROVE  HistoryInv'
<1>1. UNCHANGED <<revnum, commits>> /\ (modifiedRefs' # modifiedRefs => Marking)
  BY DEF Forward
<1>2. CASE UNCHANGED <<currentRef, lastMark, marks, history>>
  <2>1. \A x : Marked(x)' = Marked(x) /\ (IsOpen(x)' <=> IsOpen(x))
    BY <1>2 DEF Marked, IsOpen
  <2>2. \A q, v : Recorded(q, v)' <=> Recorded(q, v)
    BY <1>1, <1>2, <2>1 DEF Recorded
  <2> QED  BY <1>1, <1>2, <2>1, <2>2 DEF HistoryInv
<1>3. ASSUME NEW r \in Refs, Opens(r) PROVE HistoryInv'
  BY <1>1, <1>3, OpensHistory
<1> QED  BY <1>2, <1>3 DEF Forward

\* Closing a commit: the mark that is thrown away is reached by nothing else.
LEMMA ClosesHistory ==
  ASSUME SafetyInv, PendingInv, MarksInv, HeadInv, HistoryInv, NEW r \in Refs, Closes(r)
  PROVE  HistoryInv'
<1> DEFINE p == r.repo
           L == lastMark[p]
<1>1. /\ revnum \in 1..MaxRev /\ marks[r][revnum] = L /\ L > 0
      /\ \A q \in Refs : IsOpen(q)' <=> (q # r /\ IsOpen(q))
  BY ClosesMarksKinds
<1>2. /\ p \in Repos /\ currentRef[p] = r /\ IsOpen(r) /\ r # NoRef
      /\ currentRef' = [currentRef EXCEPT ![p] = NoRef]
      /\ commits' = [commits EXCEPT ![p] = Append(commits[p],
           [ref |-> r, rev |-> revnum, tree |-> ClosedTree(r), history |-> history[r]])]
      /\ UNCHANGED <<lastMark, revnum>>
  BY ClosesEffect, RepositoryAssumption DEF IsOpen
<1>3. /\ marks \in [Refs -> [1..MaxRev -> Nat]] /\ MaxRev \in Nat
      /\ currentRef \in [Repos -> Refs \cup {NoRef}] /\ lastMark \in [Repos -> Nat]
      /\ commits \in [Repos -> Seq(Commits)] /\ history \in [Refs -> SUBSET Nat]
  BY TreeAssumption DEF SafetyInv, TypeOK, GitTypeOK
<1>4. Len(commits[p]) = L - 1 /\ L \in Nat /\ commits[p] \in Seq(Commits)
  BY <1>2, <1>3 DEF HistoryInv
<1>5. /\ \A x \in Repos \ {p} : commits'[x] = commits[x]
      /\ \A m \in DOMAIN commits[p] : m < L /\ commits'[p][m] = commits[p][m]
      /\ DOMAIN commits'[p] = DOMAIN commits[p] \cup {L} /\ Len(commits'[p]) = L
      /\ commits'[p][L].history = history[r]
  <2> DEFINE c == [ref |-> r, rev |-> revnum, tree |-> ClosedTree(r), history |-> history[r]]
  <2>1. c \in Commits /\ c.history = history[r]
    BY ClosesEffect, <1>3 DEF Commits, SafetyInv, TypeOK, GitTypeOK
  <2>2. commits' = [commits EXCEPT ![p] = Append(commits[p], c)]
    BY <1>2
  <2> HIDE DEF c, L
  <2>3. commits'[p] = Append(commits[p], c) /\ \A x \in Repos \ {p} : commits'[x] = commits[x]
    BY <1>2, <1>3, <2>2
  <2>4. /\ Len(Append(commits[p], c)) = L /\ Append(commits[p], c)[L] = c
        /\ \A m \in 1..Len(commits[p]) : Append(commits[p], c)[m] = commits[p][m]
        /\ Append(commits[p], c) \in Seq(Commits)
    BY <1>4, <2>1, AppendProperties
  <2>5. DOMAIN commits[p] = 1..(L - 1) /\ DOMAIN Append(commits[p], c) = 1..L
    BY <1>4, <2>4, LenProperties
  <2> QED  BY <1>1, <1>4, <2>1, <2>3, <2>4, <2>5
<1> HIDE DEF L
<1>6. history[r] \subseteq 1..L /\ history[r] \subseteq Marked(p)
  BY <1>2 DEF HistoryInv, L
<1>7. ASSUME NEW x \in Repos
      PROVE  /\ Len(commits'[x]) = IF currentRef'[x] = NoRef THEN lastMark'[x] ELSE lastMark'[x] - 1
             /\ \A m \in DOMAIN commits'[x] : commits'[x][m].history \subseteq 1..m
  <2>1. CASE x = p
    BY <1>2, <1>3, <1>5, <1>6, <2>1 DEF HistoryInv, L
  <2>2. CASE x # p
    <3>1. commits'[x] = commits[x] /\ currentRef'[x] = currentRef[x]
      BY <1>2, <1>3, <1>5, <2>2
    <3> QED  BY <1>2, <3>1 DEF HistoryInv
  <2> QED  BY <2>1, <2>2
<1>8. ASSUME NEW q \in Refs, NEW v \in 1..MaxRev, Recorded(q, v),
             marks'[q][v] = marks[q][v],
             \A w \in 1..v : marks'[q][w] # 0 => marks'[q][w] = marks[q][w],
             Marked(q.repo) \ Marked(q.repo)' \subseteq IF q.repo = p THEN {L} ELSE {}
      PROVE  Recorded(q, v)'
  <2> DEFINE m == marks[q][v]
  <2>1. m \in DOMAIN commits[q.repo] /\ commits[q.repo][m].history \subseteq Marked(q.repo)
    BY <1>8 DEF Recorded
  <2>2. q.repo \in Repos
    BY DEF Refs
  <2>3. /\ m \in DOMAIN commits'[q.repo] /\ commits'[q.repo][m] = commits[q.repo][m]
        /\ q.repo = p => m < L
    BY <1>5, <2>1, <2>2
  <2>4. commits[q.repo][m].history \subseteq 1..m
    BY <2>1, <2>2 DEF HistoryInv
  <2>5. q.repo = p => L \notin commits[q.repo][m].history
    <3>1. L \notin 1..(L - 1)
      BY <1>4
    <3>2. q.repo = p => 1..m \subseteq 1..(L - 1)
      BY <1>4, <2>1, <2>3, LenProperties
    <3> QED  BY <2>4, <3>1, <3>2
  <2>6. commits'[q.repo][m].history \subseteq Marked(q.repo)'
    BY <1>8, <2>1, <2>3, <2>5
  <2> QED  BY <1>8, <2>3, <2>6 DEF Recorded
<1>9. \A q \in Refs : q # r /\ q.repo = p => ~ IsOpen(q)
  BY <1>2 DEF IsOpen
<1>10. CASE UNCHANGED <<marks, history>>
  <2>1. \A x : Marked(x)' = Marked(x)
    BY <1>10 DEF Marked
  <2>2. ASSUME NEW q \in Refs
        PROVE  /\ history'[q] \subseteq Marked(q.repo)'
               /\ history'[q] \subseteq 1..(IF IsOpen(q)' THEN lastMark'[q.repo]
                                            ELSE Len(commits'[q.repo]))
    <3>1. history[q] \subseteq Marked(q.repo)
          /\ history[q] \subseteq 1..(IF IsOpen(q) THEN lastMark[q.repo]
                                      ELSE Len(commits[q.repo]))
      BY DEF HistoryInv
    <3>2. CASE q = r
      BY <1>1, <1>5, <1>6, <1>10, <2>1, <3>2
    <3>3. CASE q # r /\ q.repo = p
      <4>1. history[q] \subseteq 1..(L - 1)
        BY <1>4, <1>9, <3>1, <3>3
      <4>2. history[q] \subseteq 1..L
        BY <1>4, <4>1
      <4> QED  BY <1>1, <1>5, <1>9, <1>10, <2>1, <3>1, <3>3, <4>2
    <3>4. CASE q.repo # p
      <4>1. commits'[q.repo] = commits[q.repo] /\ (IsOpen(q)' <=> IsOpen(q))
        BY <1>1, <1>5, <3>4 DEF Refs
      <4> QED  BY <1>2, <1>10, <2>1, <3>1, <4>1
    <3> QED  BY <3>2, <3>3, <3>4
  <2>3. ASSUME NEW q \in Refs, NEW v \in 1..MaxRev, marks'[q][v] # 0
        PROVE  marks'[q][v] \in history'[q] /\ (Recorded(q, v)' \/ (v = revnum' /\ IsOpen(q)'))
    <3>1. marks[q][v] \in history[q] /\ (Recorded(q, v) \/ (v = revnum /\ IsOpen(q)))
      BY <1>10, <2>3 DEF HistoryInv
    <3>2. CASE Recorded(q, v)
      <4>1. Recorded(q, v)'
        BY <1>8, <1>10, <2>1, <3>2
      <4> QED  BY <1>10, <3>1, <4>1
    <3>3. CASE v = revnum /\ IsOpen(q) /\ q # r
      BY <1>1, <1>2, <1>10, <3>1, <3>3
    <3>4. CASE v = revnum /\ q = r
      <4>1. \A w \in 1..revnum : marks[r][w] # 0 => marks[r][w] \in history[r]
        <5>1. \A w \in 1..revnum : w \in 1..MaxRev
          BY <1>1, <1>3
        <5> QED  BY <5>1 DEF HistoryInv
      <4>2. /\ marks'[r][revnum] = L /\ L \in DOMAIN commits'[p]
            /\ commits'[p][L].history \subseteq Marked(p)'
            /\ \A w \in 1..revnum : marks'[r][w] # 0 => marks'[r][w] \in commits'[p][L].history
        BY <1>1, <1>5, <1>6, <1>10, <2>1, <4>1
      <4>3. Recorded(r, revnum)'
        BY <1>2, <4>2 DEF Recorded
      <4> QED  BY <1>2, <1>10, <3>1, <3>4, <4>3
    <3> QED  BY <3>1, <3>2, <3>3, <3>4
  <2> QED  BY <1>7, <2>2, <2>3 DEF HistoryInv
<1>11. CASE ~ UNCHANGED <<marks, history>>
  <2>1. /\ marks' = [marks EXCEPT ![r][revnum] = 0] /\ ClosedTree(r) = headTree[r]
        /\ \E v \in 1..(revnum - 1) :
             /\ marks[r][v] # 0 /\ MarkUpTo(r, revnum - 1) = marks[r][v]
             /\ \A u \in (v + 1)..MaxRev : u # revnum => marks[r][u] = 0
    BY <1>11, ClosesMarksKinds
  <2>2. PICK v0 \in 1..(revnum - 1) :
             /\ marks[r][v0] # 0 /\ MarkUpTo(r, revnum - 1) = marks[r][v0]
             /\ \A u \in (v0 + 1)..MaxRev : u # revnum => marks[r][u] = 0
    BY <2>1
  <2>3. v0 \in 1..MaxRev /\ v0 # revnum /\ Recorded(r, v0)
    BY <1>1, <1>3, <2>2 DEF HistoryInv
  <2>4. history' = [history EXCEPT ![r] = commits[p][marks[r][v0]].history]
    <3>1. DropCommit(r, revnum)
      BY <2>1, ClosesEffect
    <3>2. CommitAt(p, MarkUpTo(r, revnum - 1)).history = commits[p][marks[r][v0]].history
      BY <2>2, <2>3 DEF CommitAt, Recorded
    <3> QED  BY <3>1, <3>2 DEF DropCommit
  <2>5. /\ \A q \in Refs, w \in 1..MaxRev : ~ (q = r /\ w = revnum) => marks'[q][w] = marks[q][w]
        /\ marks'[r][revnum] = 0
    BY <1>1, <1>3, <2>1
  <2>6. \A q \in Refs, w \in 1..MaxRev :
          q.repo # p \/ marks[q][w] # L => marks'[q][w] = marks[q][w]
    BY <1>1, <2>5
  <2>7. \A x : Marked(x) \ Marked(x)' \subseteq IF x = p THEN {L} ELSE {}
    <3> SUFFICES ASSUME NEW x, NEW q \in Refs, q.repo = x, NEW w \in 1..MaxRev,
                        marks[q][w] # 0, x # p \/ marks[q][w] # L
                 PROVE  marks[q][w] \in Marked(x)'
      BY DEF Marked
    <3>1. marks'[q][w] = marks[q][w]
      BY <2>6
    <3> QED  BY <3>1 DEF Marked
  <2>8. \A q \in Refs, w \in 1..MaxRev : Recorded(q, w) /\ marks'[q][w] # 0 => Recorded(q, w)'
    <3> SUFFICES ASSUME NEW q \in Refs, NEW w \in 1..MaxRev, Recorded(q, w), marks'[q][w] # 0
                 PROVE  Recorded(q, w)'
      OBVIOUS
    <3>1. \A u \in 1..w : u \in 1..MaxRev
      BY <1>3
    <3>2. \A u \in 1..w : marks'[q][u] # 0 => marks'[q][u] = marks[q][u]
      BY <2>5, <3>1
    <3>3. marks'[q][w] = marks[q][w]
      BY <2>5
    <3> QED  BY <1>8, <2>7, <3>2, <3>3
  <2>9. /\ \A q \in Refs : q # r => history'[q] = history[q]
        /\ history'[r] = commits[p][marks[r][v0]].history
        /\ marks[r][v0] \in DOMAIN commits[p]
        /\ history'[r] \subseteq Marked(p) /\ history'[r] \subseteq 1..marks[r][v0]
    BY <1>2, <1>3, <2>3, <2>4 DEF Recorded, HistoryInv
  <2>10. \A q \in Refs : q.repo = p => history'[q] \subseteq 1..(L - 1)
    <3> TAKE q \in Refs
    <3> HAVE q.repo = p
    <3>1. CASE q = r
      <4>1. marks[r][v0] < L /\ marks[r][v0] \in Nat
        BY <1>3, <1>5, <2>3, <2>9
      <4>2. 1..marks[r][v0] \subseteq 1..(L - 1)
        BY <1>4, <4>1
      <4> QED  BY <2>9, <3>1, <4>2
    <3>2. CASE q # r
      BY <1>4, <1>9, <2>9, <3>2 DEF HistoryInv
    <3> QED  BY <3>1, <3>2
  <2>11. ASSUME NEW q \in Refs
         PROVE  /\ history'[q] \subseteq Marked(q.repo)'
                /\ history'[q] \subseteq 1..(IF IsOpen(q)' THEN lastMark'[q.repo]
                                             ELSE Len(commits'[q.repo]))
    <3>1. history'[q] \subseteq Marked(q.repo)
      BY <2>9 DEF HistoryInv
    <3>2. CASE q.repo = p
      <4>1. history'[q] \subseteq 1..(L - 1)
        BY <2>10, <3>2
      <4>2. L \notin history'[q] /\ history'[q] \subseteq 1..L
        BY <1>4, <4>1
      <4> QED  BY <1>1, <1>5, <1>9, <2>7, <3>1, <3>2, <4>2
    <3>3. CASE q.repo # p
      <4>1. commits'[q.repo] = commits[q.repo] /\ (IsOpen(q)' <=> IsOpen(q)) /\ q # r
        BY <1>1, <1>5, <3>3 DEF Refs
      <4>2. history'[q] = history[q]
        BY <2>9, <4>1
      <4>3. history'[q] \subseteq Marked(q.repo)'
        BY <2>7, <3>1, <3>3
      <4> QED  BY <1>2, <4>1, <4>2, <4>3 DEF HistoryInv
    <3> QED  BY <3>2, <3>3
  <2>12. ASSUME NEW q \in Refs, NEW w \in 1..MaxRev, marks'[q][w] # 0
         PROVE  marks'[q][w] \in history'[q] /\ (Recorded(q, w)' \/ (w = revnum' /\ IsOpen(q)'))
    <3>1. ~ (q = r /\ w = revnum) /\ marks'[q][w] = marks[q][w]
      BY <2>5, <2>12
    <3>2. marks[q][w] \in history[q] /\ (Recorded(q, w) \/ (w = revnum /\ IsOpen(q)))
      BY <2>12, <3>1 DEF HistoryInv
    <3>3. Recorded(q, w)' \/ (w = revnum' /\ IsOpen(q)')
      BY <1>1, <1>2, <2>8, <2>12, <3>1, <3>2
    <3>4. CASE q = r
      <4>1. w <= v0
        BY <1>1, <1>3, <2>2, <2>12, <3>1, <3>4
      <4>2. marks[r][w] \in commits[p][marks[r][v0]].history
        BY <1>3, <2>3, <2>12, <3>1, <3>4, <4>1 DEF Recorded
      <4> QED  BY <2>9, <3>1, <3>3, <3>4, <4>2
    <3>5. CASE q # r
      BY <2>9, <3>1, <3>2, <3>3, <3>5
    <3> QED  BY <3>4, <3>5
  <2> QED  BY <1>7, <2>11, <2>12 DEF HistoryInv
<1> QED  BY <1>10, <1>11

-----------------------------------------------------------------------------
(* The theorems.                                                           *)

LEMMA RevisionInit == Init => RevisionInv
BY SafetyInit, PendingInit, MarksInit, HistoryInit DEF RevisionInv

\* No step breaks the invariant.
LEMMA RevisionStep ==
  ASSUME FlatSubmodules, RevisionInv, [Next]_vars
  PROVE  RevisionInv'
<1>1. SafetyInv /\ PendingInv /\ MarksInv /\ HeadInv /\ HistoryInv
  BY DEF RevisionInv
<1>2. SafetyInv'
  BY <1>1, SafetyStep
<1>3. PendingInv'
  BY <1>1, PendingStep
<1>4. CASE BeginRevision
  BY <1>1, <1>2, <1>3, <1>4, BeginRevisionMarks, BeginRevisionHistory DEF RevisionInv
<1>5. CASE Forward
  BY <1>1, <1>2, <1>3, <1>5, ForwardMarks, ForwardHistory DEF RevisionInv
<1>6. CASE \E r \in Refs : Closes(r)
  BY <1>1, <1>2, <1>3, <1>6, ClosesMarks, ClosesHistory DEF RevisionInv
<1> QED  BY <1>1, <1>4, <1>5, <1>6, StepKinds

\* In every reachable state the pending work, the marks, the finished commits and
\* the histories of importer.cpp and git_repository.cpp agree.
THEOREM RevisionInvariant ==
  ASSUME FlatSubmodules
  PROVE  Spec => []RevisionInv
<1>1. RevisionInv /\ [Next]_vars => RevisionInv'
  BY FlatSubmodules, RevisionStep
<1> QED  BY RevisionInit, <1>1, PTL DEF Spec

\* When import_revision returns, every pending deletion and merge and every awaited
\* or stale submodule ref has been used up by the commit it was meant for.
THEOREM RevisionLeavesNothing ==
  ASSUME FlatSubmodules
  PROVE  Spec => []NothingLeftOver
<1>1. RevisionInv => NothingLeftOver
  <2> SUFFICES ASSUME RevisionInv, phase = "idle"
               PROVE  /\ modifiedRefs = {} /\ changedRepos = {}
                      /\ \A r \in Refs :
                           /\ pendingDeletions[r] = {} /\ pendingMerges[r] = NoRevs
                           /\ changedSubs[r] = {} /\ staleSubs[r] = {} /\ subsWritten[r] = 0
    BY DEF NothingLeftOver
  <2>1. SafetyInv /\ PendingInv /\ modifiedRefs = {} /\ \A p \in Repos : currentRef[p] = NoRef
    BY IdleClosed DEF RevisionInv
  <2>2. changedRepos = {}
    BY <2>1 DEF SafetyInv, LoopInv
  <2>3. \A r \in Refs : changedSubs[r] = {}
    BY <2>1 DEF SafetyInv, MarkedTogether
  <2>4. \A r \in Refs : subsWritten[r] = 0
    BY <2>1, <2>3, FS_EmptySet DEF SafetyInv, SubmodulesCounted
  <2>5. \A r \in Refs : ~ IsOpen(r)
    BY <2>1, RepositoryAssumption DEF IsOpen, Refs
  <2> QED  BY <2>1, <2>2, <2>3, <2>4, <2>5 DEF PendingInv
<1> QED  BY <1>1, RevisionInvariant, PTL

\* A commit that close_commit throws away is never an ancestor of a branch.
THEOREM AncestorsRecorded ==
  ASSUME FlatSubmodules
  PROVE  Spec => []AncestorsSurvive
<1>1. RevisionInv => AncestorsSurvive
  BY DEF RevisionInv, HistoryInv, Marked, AncestorsSurvive
<1> QED  BY <1>1, RevisionInvariant, PTL

\* Only the mark of the revision is ever changed, and only close_commit erases it,
\* when an earlier mark of the same ref remains.
LEMMA MarksChange ==
  ASSUME RevisionInv, [Next]_vars, NEW r \in Refs, NEW v \in 1..MaxRev,
         marks'[r][v] # marks[r][v]
  PROVE  /\ v = revnum
         /\ marks'[r][v] = 0 => \E w \in 1..(v - 1) : marks[r][w] # 0
<1>1. SafetyInv /\ PendingInv /\ MarksInv /\ HeadInv /\ HistoryInv
  BY DEF RevisionInv
<1>2. marks \in [Refs -> [1..MaxRev -> Nat]]
  BY <1>1 DEF SafetyInv, TypeOK, GitTypeOK
<1>3. ~ BeginRevision
  BY DEF BeginRevision, gitVars
<1>4. CASE Forward
  <2>1. PICK q \in Refs : Opens(q)
    BY <1>4 DEF Forward
  <2>2. marks' = [marks EXCEPT ![q][revnum] = lastMark[q.repo] + 1] /\ lastMark[q.repo] \in Nat
        /\ revnum \in 1..MaxRev
    BY <1>1, <1>4, <2>1, OpensEffect DEF Forward
  <2>3. q = r /\ v = revnum /\ marks'[r][v] = lastMark[q.repo] + 1
    BY <1>2, <2>2
  <2> QED  BY <2>2, <2>3
<1>5. ASSUME NEW q \in Refs, Closes(q)
      PROVE  v = revnum /\ \E w \in 1..(v - 1) : marks[r][w] # 0
  <2>1. /\ marks' = [marks EXCEPT ![q][revnum] = 0]
        /\ \E w \in 1..(revnum - 1) : marks[q][w] # 0
    BY <1>1, <1>5, ClosesMarksKinds
  <2>2. q = r /\ v = revnum
    BY <1>2, <2>1
  <2> QED  BY <2>1, <2>2
<1> QED  BY <1>1, <1>3, <1>4, <1>5, StepKinds

\* The assertion of git_repository.cpp:164: only a repeated tree is thrown away, so
\* the ref has an earlier commit to be reset to.
THEOREM OnlyRepeatsDropped ==
  ASSUME FlatSubmodules
  PROVE  Spec => DropsOnlyRepeats
<1>1. RevisionInv /\ [Next]_vars =>
        [\A r \in Refs, v \in 1..MaxRev :
           Drops(r, v) => \E w \in 1..(v - 1) : marks[r][w] # 0]_vars
  BY MarksChange DEF Drops
<1> QED  BY <1>1, RevisionInvariant, PTL DEF Spec, DropsOnlyRepeats

\* The marks of earlier revisions never change, and the branch always descends from
\* the commits they name, whatever close_commit resets.
THEOREM PastKept ==
  ASSUME FlatSubmodules
  PROVE  Spec => PastIsFinal
<1>1. RevisionInv /\ RevisionInv' /\ [Next]_vars =>
        [\A r \in Refs : \A v \in 1..(revnum - 1) :
           /\ marks'[r][v] = marks[r][v]
           /\ marks[r][v] # 0 => marks[r][v] \in history'[r]]_vars
  <2> SUFFICES ASSUME RevisionInv, RevisionInv', [Next]_vars, NEW r \in Refs,
                      NEW v \in 1..(revnum - 1)
               PROVE  /\ marks'[r][v] = marks[r][v]
                      /\ marks[r][v] # 0 => marks[r][v] \in history'[r]
    OBVIOUS
  <2>1. v \in 1..MaxRev /\ v # revnum
    BY TreeAssumption DEF RevisionInv, SafetyInv, TypeOK, Revs
  <2>2. marks'[r][v] = marks[r][v]
    BY <2>1, MarksChange
  <2>3. marks'[r][v] # 0 => marks'[r][v] \in history'[r]
    BY <2>1 DEF RevisionInv, HistoryInv
  <2> QED  BY <2>2, <2>3
<1> QED  BY <1>1, RevisionInvariant, PTL DEF Spec, PastIsFinal
=============================================================================
