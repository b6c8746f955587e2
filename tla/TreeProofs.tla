------------------------------ MODULE TreeProofs ------------------------------
(***************************************************************************)
(* Theorems about the trees that module Importer builds: every place the    *)
(* rules and changes of a revision lead to holds what SVN has, every        *)
(* gitlink is the latest commit of its submodule, every branch has its      *)
(* .gitattributes and every merge finds its source; for any repositories,  *)
(* rules, paths and revisions, and whatever the lookups of subtrees find,  *)
(* when no super-module is itself a submodule.                             *)
(*                                                                         *)
(* TreesInv is inductive.  It extends RevisionInv, whose theorem is in     *)
(* module ImporterProofs.                                                  *)
(***************************************************************************)
EXTENDS ImporterProofs

-----------------------------------------------------------------------------
(* What the steps do to the trees.                                         *)

\* The paths that are to be deleted when the commit of r opens.
Gone(r) == UNION {Under[d] : d \in pendingDeletions[r]}

\* A file once the pending deletions of its ref are written.
FileAfter(r, f) == IF f \in Gone(r) THEN 0 ELSE tree[r].files[f]

LEMMA AfterDeletionsFile ==
  \A r \in Refs, f \in Files : /\ AfterDeletions(r).files[f] = FileAfter(r, f)
                               /\ AfterDeletions(r)'.files[f] = FileAfter(r, f)'
BY DEF AfterDeletions, FileAfter, Gone

\* close_commit leaves the branch with the tree it was closed with: a commit that
\* is thrown away had the tree of the commit the branch is reset to.
LEMMA ClosesTree ==
  ASSUME SafetyInv, MarksInv, HeadInv, HistoryInv, NEW r \in Refs, Closes(r)
  PROVE  tree' = [tree EXCEPT ![r] = ClosedTree(r)]
<1>1. CASE ClosedTree(r) # headTree[r]
  BY <1>1, ClosesEffect DEF KeepCommit
<1>2. CASE ClosedTree(r) = headTree[r]
  <2>1. /\ revnum \in 1..MaxRev
        /\ \E v \in 1..(revnum - 1) :
             /\ marks[r][v] # 0 /\ MarkUpTo(r, revnum - 1) = marks[r][v]
             /\ commits[r.repo][marks[r][v]].tree = headTree[r]
    BY <1>2, ClosesMarksKinds
  <2>2. PICK v \in 1..(revnum - 1) :
             /\ marks[r][v] # 0 /\ MarkUpTo(r, revnum - 1) = marks[r][v]
             /\ commits[r.repo][marks[r][v]].tree = headTree[r]
    BY <2>1
  <2>3. v \in 1..MaxRev /\ v # revnum
    BY <2>1, TreeAssumption
  <2>4. marks[r][v] \in DOMAIN commits[r.repo]
    BY <2>2, <2>3 DEF HistoryInv, Recorded
  <2>5. CommitAt(r.repo, MarkUpTo(r, revnum - 1)).tree = ClosedTree(r)
    BY <1>2, <2>2, <2>4 DEF CommitAt
  <2>6. DropCommit(r, revnum)
    BY <1>2, ClosesEffect
  <2> QED  BY <2>5, <2>6 DEF DropCommit
<1> QED  BY <1>1, <1>2

\* The prepared tree has the files of the branch.
LEMMA PreparedFiles ==
  ASSUME SafetyInv, NEW r \in Refs
  PROVE  PreparedTree(r).files = tree[r].files /\ ClosedTree(r).files = tree[r].files
<1>1. tree[r] \in Trees
  BY DEF SafetyInv, TypeOK, GitTypeOK
<1> QED  BY <1>1 DEF PreparedTree, ClosedTree, Trees

-----------------------------------------------------------------------------
(* FilesInv.                                                               *)

LEMMA FilesInit == Init => FilesInv
<1> SUFFICES ASSUME Init PROVE FilesInv
  OBVIOUS
<1>1. /\ changes = {} /\ invalid = {} /\ toConvert = {} /\ fileWork = {}
      /\ phase = "idle" /\ revnum = 0
      /\ pendingDeletions = [r \in Refs |-> {}] /\ tree = [r \in Refs |-> EmptyTree]
      /\ svn = [v \in Revs |-> [s \in SvnFiles |-> 0]]
  BY DEF Init, GitInit
<1>2. \A r \in Refs, f \in Files : tree[r].files[f] = 0
  BY <1>1 DEF EmptyTree
<1>3. \A r \in Refs, f \in Files : AfterDeletions(r).files[f] = 0
  BY <1>2, AfterDeletionsFile DEF FileAfter
<1>4. \A s \in SvnFiles : svn[0][s] = 0
  BY <1>1, TreeAssumption DEF Revs
<1>5. \A r \in Refs, f \in Files : Stands(r, f, svn[revnum], revnum) = {}
  BY <1>1, <1>4 DEF Stands
<1>6. PlacesInv
  BY <1>3, <1>5 DEF PlacesInv
<1>7. OnePerPlace(svn[revnum], revnum)
  BY <1>5 DEF OnePerPlace
<1>8. ConvertInv
  BY <1>1 DEF ConvertInv
<1> QED  BY <1>1, <1>2, <1>4, <1>6, <1>7, <1>8 DEF FilesInv

\* When nothing is left to be written the places that are not astray are right.
LEMMA SettledPlaces ==
  ASSUME SafetyInv, PendingInv, FilesInv, modifiedRefs = {}, ~ Marking,
         phase \notin {"discover", "failed"}
  PROVE  /\ \A s \in toConvert : Match(s, revnum) # NoRule => Written(s)
         /\ \A s \in SvnFiles : ~ WillConvert(s)
         /\ \A r \in Refs, f \in Files : AfterDeletions(r).files[f] = tree[r].files[f]
         /\ \A r \in Refs, f \in Files : <<r, f>> \notin astray =>
              LET S == Stands(r, f, svn[revnum], revnum)
              IN  /\ \A s \in S : tree[r].files[f] = svn[revnum][s]
                  /\ S = {} => tree[r].files[f] = 0
<1>1. ConvertInv /\ PlacesInv /\ changes = {} /\ invalid = {}
  BY DEF FilesInv
<1>2. \A s \in toConvert : Match(s, revnum) # NoRule => Written(s)
  BY <1>1 DEF ConvertInv
<1>3. /\ \A s \in SvnFiles : ~ WillConvert(s)
      /\ \A r, f : ~ WillDelete(r, f)
  BY <1>1 DEF WillConvert, WillDelete, PendingRules
<1>4. \A r \in Refs, f \in Files : AfterDeletions(r).files[f] = tree[r].files[f]
  BY AfterDeletionsFile DEF PendingInv, FileAfter, Gone
<1>5. ASSUME NEW r \in Refs, NEW f \in Files, <<r, f>> \notin astray
      PROVE  LET S == Stands(r, f, svn[revnum], revnum)
             IN  /\ \A s \in S : tree[r].files[f] = svn[revnum][s]
                 /\ S = {} => tree[r].files[f] = 0
  <2> DEFINE S == Stands(r, f, svn[revnum], revnum)
  <2>1. /\ \A s \in S : s \notin toConvert /\ ~ WillConvert(s) =>
             AfterDeletions(r).files[f] = svn[revnum][s] /\ ~ WillDelete(r, f)
        /\ S = {} => AfterDeletions(r).files[f] = 0 \/ WillDelete(r, f)
    BY <1>1, <1>5 DEF PlacesInv
  <2>2. ASSUME NEW s \in S, s \in toConvert PROVE tree[r].files[f] = svn[revnum][s]
    BY <1>2, <2>2 DEF Written, Stands, Lands
  <2>3. \A s \in S : s \in SvnFiles
    BY DEF Stands
  <2> QED  BY <1>3, <1>4, <1>5, <2>1, <2>2, <2>3
<1> QED  BY <1>2, <1>3, <1>4, <1>5

\* A file that no rule in transition covers is mapped as in the revision before.
LEMMA SameMatch ==
  ASSUME NEW s \in SvnPaths, NEW v \in Revs, v > 1,
         \A m \in Transition(v) : s \notin Within[m.svn]
  PROVE  Match(s, v - 1) = Match(s, v)
<1>1. v \in Nat /\ v - 1 \in Revs
  BY TreeAssumption DEF Revs
<1>2. ASSUME NEW q \in Rules, s \in Within[q.svn]
      PROVE  InForce(q, v - 1) <=> InForce(q, v)
  <2>1. q.min # v /\ q.max + 1 # v /\ q.min \in Nat /\ q.max \in Nat
    BY <1>2, RuleType DEF Transition
  <2> QED  BY <1>1, <2>1 DEF InForce
<1>3. Longest(s, v - 1) = Longest(s, v)
  BY <1>2 DEF Longest
<1>4. \A w \in Revs : Match(s, w) =
        IF Longest(s, w) = {} THEN NoRule ELSE CHOOSE m \in Longest(s, w) : TRUE
  BY DEF Match, Matches
<1> QED  BY <1>1, <1>3, <1>4

\* The place a rule gives a file is in the tree the rule gives a directory around
\* the file.
LEMMA PlaceBelow ==
  ASSUME NEW m \in Rules, NEW p \in Within[m.svn], NEW s \in Within[p], s \in SvnFiles
  PROVE  /\ m # NoRule /\ GitPath[m][s] \in Files /\ GitPath[m][s] \in Under[GitPath[m][p]]
         /\ Deletes(m, p, m.ref, GitPath[m][s])
BY PlaceAssumption, RulesAssumption DEF Deletes

\* A file that SVN has in a new revision and that Phase I will not convert is not
\* below a change, nor below a rule in transition.
LEMMA UntouchedFile ==
  ASSUME TypeOK, FilesInv, NEW C, NEW new, Reported(C, new), NEW s \in SvnFiles, new[s] # 0,
         svn'[revnum'] = new, revnum' = revnum + 1, changes' = C,
         invalid' = Transition(revnum + 1), ~ WillConvert(s)'
  PROVE  /\ \A c \in C : s \notin Within[c.path]
         /\ new[s] = svn[revnum][s] /\ revnum + 1 > 1
         /\ \A m \in InvalidRules(C, revnum + 1) : s \notin Within[m.svn]
<1>1. PendingRules' = InvalidRules(C, revnum + 1)
  BY DEF PendingRules, InvalidRules
<1>2. \A p : FilesAt(p)' = {t \in Within[p] \cap SvnFiles : new[t] # 0}
  BY DEF FilesAt
<1>3. \A m \in InvalidRules(C, revnum + 1) : s \notin Within[m.svn]
  BY <1>1, <1>2 DEF WillConvert, InvalidatedFiles
<1>4. \A c \in C : s \in Within[c.path] => c.kind = "delete"
  BY <1>2 DEF WillConvert, ConvertedFiles
<1>5. \A c \in C : s \notin Within[c.path]
  <2> DEFINE above == {c \in C : s \in Within[c.path]}
  <2> SUFFICES ASSUME above # {} PROVE FALSE
    OBVIOUS
  <2>1. PICK c \in above : Explains(c, s, new[s])
    BY DEF Reported
  <2>2. c.kind = "delete"
    BY <1>4, <2>1
  <2> QED  BY <2>1, <2>2 DEF Explains
<1>6. new[s] = svn[revnum][s]
  BY <1>5 DEF Reported
<1>7. revnum # 0
  BY <1>6 DEF FilesInv
<1>8. revnum \in Nat
  BY TreeAssumption DEF TypeOK, Revs
<1> QED  BY <1>3, <1>5, <1>6, <1>7, <1>8

\* Phase I starts with what SVN reports: whatever is not right, except for what is
\* astray, will be deleted or converted.
LEMMA BeginRevisionFiles ==
  ASSUME SafetyInv, PendingInv, FilesInv, BeginRevision
  PROVE  FilesInv'
<1> DEFINE v == revnum + 1
           old == svn[revnum]
<1>1. /\ phase = "idle" /\ phase' = "discover" /\ revnum < MaxRev /\ revnum' = v
      /\ toConvert' = {} /\ UNCHANGED gitVars /\ UNCHANGED loopVars
      /\ invalid' = Transition(v)
  BY DEF BeginRevision
<1>2. PICK C \in SUBSET Reportable, new \in [SvnFiles -> Contents \cup {0}] :
        /\ Reported(C, new) /\ OnePerPlace(new, v)
        /\ changes' = C /\ svn' = [svn EXCEPT ![v] = new]
        /\ astray' = astray \cup
             {x \in Refs \X Files : Missed(x[1], x[2], C, old, new, v)}
  BY BeginRevisionInputs
<1>3. /\ TypeOK /\ revnum \in Revs /\ v \in Revs /\ revnum \in Nat /\ v # 0
      /\ svn \in [Revs -> [SvnFiles -> Contents \cup {0}]]
      /\ 0 \in Revs /\ v - 1 = revnum
  BY <1>1, TreeAssumption DEF SafetyInv, TypeOK, Revs
<1>4. /\ svn'[revnum'] = new /\ svn'[revnum' - 1] = old /\ svn'[0] = svn[0]
  BY <1>1, <1>2, <1>3
<1>5. ASSUME NEW s \in SvnFiles, new[s] # 0, ~ WillConvert(s)'
      PROVE  /\ \A c \in C : s \notin Within[c.path]
             /\ new[s] = old[s] /\ Match(s, revnum) = Match(s, v)
             /\ \A m \in InvalidRules(C, v) : s \notin Within[m.svn]
  <2>1. /\ \A c \in C : s \notin Within[c.path]
        /\ new[s] = old[s] /\ v > 1
        /\ \A m \in InvalidRules(C, v) : s \notin Within[m.svn]
    BY <1>1, <1>2, <1>3, <1>4, <1>5, UntouchedFile
  <2>2. Match(s, v - 1) = Match(s, v)
    BY <1>3, <2>1, PathAssumption, SameMatch DEF InvalidRules
  <2> QED  BY <1>3, <2>1, <2>2
<1>6. PendingRules' = InvalidRules(C, v)
  BY <1>1, <1>2 DEF PendingRules, InvalidRules
<1>7. \A r \in Refs, f \in Files :
        WillDelete(r, f)' <=> \/ \E m \in InvalidRules(C, v) : Deletes(m, m.svn, r, f)
                              \/ \E c \in C : Deletes(Match(c.path, v), c.path, r, f)
  BY <1>1, <1>2, <1>6 DEF WillDelete
<1>8. /\ \A r \in Refs, f \in Files : <<r, f>> \notin astray =>
           LET S == Stands(r, f, old, revnum)
           IN  /\ \A s \in S : tree[r].files[f] = old[s]
               /\ S = {} => tree[r].files[f] = 0
      /\ \A r \in Refs, f \in Files : AfterDeletions(r)'.files[f] = tree[r].files[f]
  <2>1. modifiedRefs = {} /\ ~ Marking
    BY <1>1, IdleClosed DEF Marking
  <2>2. \A r \in Refs : AfterDeletions(r)' = AfterDeletions(r)
    BY <1>1 DEF AfterDeletions, gitVars, refVars
  <2> QED  BY <1>1, <2>1, <2>2, SettledPlaces
<1>9. KeptInv'
  <2> SUFFICES ASSUME NEW s \in SvnFiles, new[s] # 0, ~ WillConvert(s)'
               PROVE  old[s] = new[s] /\ Match(s, revnum) = Match(s, v)
    BY <1>1, <1>3, <1>4 DEF KeptInv
  <2> QED  BY <1>5
<1>10. PlacesInv'
  <2> SUFFICES ASSUME NEW r \in Refs, NEW f \in Files, <<r, f>> \notin astray'
               PROVE  /\ \A s \in Stands(r, f, new, v) : ~ WillConvert(s)' =>
                           tree[r].files[f] = new[s] /\ ~ WillDelete(r, f)'
                      /\ Stands(r, f, new, v) = {} =>
                           tree[r].files[f] = 0 \/ WillDelete(r, f)'
    BY <1>1, <1>4, <1>8 DEF PlacesInv
  <2>1. /\ <<r, f>> \notin astray
        /\ ~ LeftBehind(r, f, C, old, new, v) /\ ~ Overlaid(r, f, C, new, v)
    BY <1>2 DEF Missed
  <2>2. ASSUME NEW s \in Stands(r, f, new, v), ~ WillConvert(s)'
        PROVE  tree[r].files[f] = new[s] /\ ~ WillDelete(r, f)'
    <3>1. s \in SvnFiles /\ new[s] # 0 /\ Lands(s, v, r, f)
      BY <2>2 DEF Stands
    <3>2. /\ \A c \in C : s \notin Within[c.path]
          /\ new[s] = old[s] /\ Match(s, revnum) = Match(s, v)
          /\ \A m \in InvalidRules(C, v) : s \notin Within[m.svn]
      BY <1>5, <2>2, <3>1
    <3>3. s \in Stands(r, f, old, revnum)
      BY <3>1, <3>2 DEF Stands, Lands
    <3>4. tree[r].files[f] = new[s]
      BY <1>8, <2>1, <3>2, <3>3
    <3>5. ~ WillDelete(r, f)'
      BY <1>7, <2>1, <2>2, <3>2 DEF Overlaid
    <3> QED  BY <3>4, <3>5
  <2>3. ASSUME Stands(r, f, new, v) = {}, tree[r].files[f] # 0
        PROVE  WillDelete(r, f)'
    <3>1. PICK s \in Stands(r, f, old, revnum) : TRUE
      BY <1>8, <2>1, <2>3
    <3> DEFINE m == Match(s, revnum)
    <3>2. s \in SvnFiles /\ s \in SvnPaths /\ m # NoRule /\ m.ref = r /\ GitPath[m][s] = f
      BY <3>1, PathAssumption DEF Stands, Lands
    <3>3. m \in Rules /\ InForce(m, revnum) /\ s \in Within[m.svn]
      BY <1>3, <3>2, MatchMeans
    <3>4. ~ InForce(m, v) \/ \E c \in C : s \in Within[c.path] /\ Match(c.path, v) = m
      BY <1>3, <2>1, <2>3, <3>1 DEF LeftBehind
    <3>5. CASE ~ InForce(m, v)
      <4>1. m.max + 1 = v /\ m.min \in Nat /\ m.max \in Nat
        BY <1>3, <3>3, <3>5, RuleType DEF InForce
      <4>2. m \in InvalidRules(C, v)
        BY <3>3, <4>1 DEF InvalidRules, Transition
      <4>3. Deletes(m, m.svn, r, f)
        <5>1. m.svn \in Within[m.svn]
          BY <3>3, RuleType, PathAssumption
        <5> QED  BY <3>2, <3>3, <5>1, PlaceBelow
      <4> QED  BY <1>7, <4>2, <4>3
    <3>6. ASSUME NEW c \in C, s \in Within[c.path], Match(c.path, v) = m
          PROVE  WillDelete(r, f)'
      <4>1. c.path \in SvnPaths
        BY <1>2, <1>3, ReportableType, ReportType
      <4>2. c.path \in Within[m.svn]
        BY <1>3, <3>2, <3>6, <4>1, MatchMeans
      <4>3. Deletes(m, c.path, r, f)
        BY <3>2, <3>3, <3>6, <4>2, PlaceBelow
      <4> QED  BY <1>7, <3>6, <4>3
    <3> QED  BY <3>4, <3>5, <3>6
  <2> QED  BY <2>2, <2>3
<1>11. ConvertInv'
  BY <1>1 DEF ConvertInv
<1>12. \A r \in Refs : (\A w \in 1..MaxRev : marks'[r][w] = 0) =>
         \A f \in Files : tree'[r].files[f] = 0
  BY <1>1 DEF FilesInv, gitVars
<1>13. OnePerPlace(svn'[revnum'], revnum') /\ \A s \in SvnFiles : svn'[0][s] = 0
  BY <1>1, <1>2, <1>4 DEF FilesInv
<1> QED  BY <1>1, <1>9, <1>10, <1>11, <1>12, <1>13 DEF FilesInv

\* What marking a path for deletion adds to the paths that will be gone.
LEMMA AddTreeToDeleteGone ==
  ASSUME TypeOK, NEW m \in Rules, NEW p, AddTreeToDelete(m, p), NEW r \in Refs, NEW f
  PROVE  f \in Gone(r)' <=> f \in Gone(r) \/ Deletes(m, p, r, f)
<1>1. /\ pendingDeletions \in [Refs -> SUBSET Paths] /\ m # NoRule /\ m.ref \in Refs
      /\ pendingDeletions' = [pendingDeletions EXCEPT ![m.ref] = @ \cup {GitPath[m][p]}]
  BY RuleType, RulesAssumption DEF TypeOK, GitTypeOK, AddTreeToDelete
<1>2. CASE m.ref = r
  <2>1. pendingDeletions'[r] = pendingDeletions[r] \cup {GitPath[m][p]}
    BY <1>1, <1>2
  <2> QED  BY <1>1, <1>2, <2>1 DEF Gone, Deletes
<1>3. CASE m.ref # r
  <2>1. pendingDeletions'[r] = pendingDeletions[r]
    BY <1>1, <1>3
  <2> QED  BY <1>1, <1>3, <2>1 DEF Gone, Deletes
<1> QED  BY <1>2, <1>3

\* A step of Phase I hands on what was to be deleted and converted.
LEMMA HandedOn ==
  ASSUME TypeOK, FilesInv, phase = "discover",
         UNCHANGED <<svn, revnum, astray, phase, tree, marks>>,
         \A s \in toConvert' : svn[revnum][s] # 0,
         \A s \in SvnFiles : s \in toConvert \/ WillConvert(s) =>
                               s \in toConvert' \/ WillConvert(s)',
         \A r \in Refs, f \in Files : WillDelete(r, f) => WillDelete(r, f)' \/ f \in Gone(r)',
         \A r \in Refs, f \in Files : f \in Gone(r) => f \in Gone(r)',
         \A r \in Refs, f \in Files :
           WillDelete(r, f)' \/ f \in Gone(r)' => WillDelete(r, f) \/ f \in Gone(r)
  PROVE  FilesInv'
<1>1. revnum > 0 => KeptInv'
  BY DEF FilesInv, KeptInv
<1>2. PlacesInv'
  <2> SUFFICES ASSUME NEW r \in Refs, NEW f \in Files, <<r, f>> \notin astray
               PROVE  LET S == Stands(r, f, svn[revnum], revnum)
                      IN  /\ \A s \in S : s \notin toConvert' /\ ~ WillConvert(s)' =>
                               FileAfter(r, f)' = svn[revnum][s] /\ ~ WillDelete(r, f)'
                          /\ S = {} => FileAfter(r, f)' = 0 \/ WillDelete(r, f)'
    BY AfterDeletionsFile DEF PlacesInv
  <2> DEFINE S == Stands(r, f, svn[revnum], revnum)
  <2>1. /\ \A s \in S : s \notin toConvert /\ ~ WillConvert(s) =>
             FileAfter(r, f) = svn[revnum][s] /\ ~ WillDelete(r, f)
        /\ S = {} => FileAfter(r, f) = 0 \/ WillDelete(r, f)
    BY AfterDeletionsFile DEF FilesInv, PlacesInv
  <2>2. ASSUME NEW s \in S, s \notin toConvert', ~ WillConvert(s)'
        PROVE  FileAfter(r, f)' = svn[revnum][s] /\ ~ WillDelete(r, f)'
    <3>1. s \in SvnFiles /\ svn[revnum][s] # 0
      BY DEF Stands
    <3>2. FileAfter(r, f) = svn[revnum][s] /\ ~ WillDelete(r, f)
      BY <2>1, <2>2, <3>1
    <3>3. f \notin Gone(r)
      BY <3>1, <3>2 DEF FileAfter
    <3> QED  BY <3>2, <3>3 DEF FileAfter
  <2>3. ASSUME S = {} PROVE FileAfter(r, f)' = 0 \/ WillDelete(r, f)'
    BY <2>1, <2>3 DEF FileAfter
  <2> QED  BY <2>2, <2>3
<1>3. ConvertInv'
  BY DEF ConvertInv
<1> QED  BY <1>1, <1>2, <1>3 DEF FilesInv

\* invalidate_svn_tree.
LEMMA InvalidateRuleFiles ==
  ASSUME SafetyInv, FilesInv, NEW m \in invalid, InvalidateRule(m)
  PROVE  FilesInv'
<1>1. /\ phase = "discover" /\ UNCHANGED <<svn, revnum, astray, phase, tree, marks, changes>>
      /\ invalid' = invalid \ {m} /\ toConvert' = toConvert \cup InvalidatedFiles(m)
      /\ AddTreeToDelete(m, m.svn)
  BY DEF InvalidateRule, inputVars, otherGitVars
<1>2. TypeOK /\ m \in Rules
  BY DEF SafetyInv, TypeOK
<1>3. /\ PendingRules' \subseteq PendingRules /\ PendingRules \subseteq PendingRules' \cup {m}
      /\ m \in PendingRules
  BY <1>1 DEF PendingRules
<1>4. \A q : InvalidatedFiles(q)' = InvalidatedFiles(q)
  BY <1>1 DEF InvalidatedFiles, FilesAt
<1>5. \A c : ConvertedFiles(c)' = ConvertedFiles(c)
  BY <1>1 DEF ConvertedFiles, FilesAt
<1>6. \A s \in toConvert' : svn[revnum][s] # 0
  BY <1>1 DEF FilesInv, ConvertInv, InvalidatedFiles, FilesAt
<1>7. \A s \in SvnFiles : s \in toConvert \/ WillConvert(s) => s \in toConvert' \/ WillConvert(s)'
  BY <1>1, <1>3, <1>4, <1>5 DEF WillConvert
<1>8. \A r \in Refs, f \in Files : f \in Gone(r)' <=> f \in Gone(r) \/ Deletes(m, m.svn, r, f)
  BY <1>1, <1>2, AddTreeToDeleteGone
<1>9. \A r \in Refs, f \in Files :
        /\ WillDelete(r, f) => WillDelete(r, f)' \/ Deletes(m, m.svn, r, f)
        /\ WillDelete(r, f)' \/ Deletes(m, m.svn, r, f) => WillDelete(r, f)
  BY <1>1, <1>3 DEF WillDelete
<1> QED  BY <1>1, <1>2, <1>6, <1>7, <1>8, <1>9, HandedOn

\* One iteration of process_svn_changes.
LEMMA ProcessChangeFiles ==
  ASSUME SafetyInv, FilesInv, NEW c \in changes, ProcessChange(c)
  PROVE  FilesInv'
<1> DEFINE m == Match(c.path, revnum)
<1>1. /\ phase = "discover" /\ UNCHANGED <<svn, revnum, astray, phase, tree, marks>>
      /\ invalid = {} /\ invalid' = RulesBelow(c, revnum) /\ changes' = changes \ {c}
      /\ toConvert' = toConvert \cup ConvertedFiles(c)
      /\ m # NoRule => AddTreeToDelete(m, c.path)
      /\ m = NoRule => UNCHANGED pendingDeletions
  BY DEF ProcessChange, inputVars, otherGitVars
<1>2. TypeOK /\ c.path \in SvnPaths /\ revnum \in Revs
  BY ReportType DEF SafetyInv, TypeOK
<1>3. PendingRules' = PendingRules
  BY <1>1 DEF PendingRules
<1>4. \A q : InvalidatedFiles(q)' = InvalidatedFiles(q)
  BY <1>1 DEF InvalidatedFiles, FilesAt
<1>5. \A d : ConvertedFiles(d)' = ConvertedFiles(d)
  BY <1>1 DEF ConvertedFiles, FilesAt
<1>6. \A s \in toConvert' : svn[revnum][s] # 0
  BY <1>1 DEF FilesInv, ConvertInv, ConvertedFiles, FilesAt
<1>7. \A s \in SvnFiles : s \in toConvert \/ WillConvert(s) => s \in toConvert' \/ WillConvert(s)'
  BY <1>1, <1>3, <1>4, <1>5 DEF WillConvert
<1>8. ASSUME NEW r \in Refs, NEW f \in Files
      PROVE  f \in Gone(r)' <=> f \in Gone(r) \/ Deletes(m, c.path, r, f)
  <2>1. CASE m = NoRule
    BY <1>1, <2>1 DEF Gone, Deletes
  <2>2. CASE m # NoRule
    <3>1. m \in Rules
      BY <1>2, <2>2, MatchMeans
    <3> HIDE DEF m
    <3> QED  BY <1>1, <1>2, <2>2, <3>1, AddTreeToDeleteGone
  <2> QED  BY <2>1, <2>2
<1>9. \A r \in Refs, f \in Files :
        /\ WillDelete(r, f) => WillDelete(r, f)' \/ Deletes(m, c.path, r, f)
        /\ WillDelete(r, f)' \/ Deletes(m, c.path, r, f) => WillDelete(r, f)
  BY <1>1, <1>3 DEF WillDelete
<1> QED  BY <1>1, <1>2, <1>6, <1>7, <1>8, <1>9, HandedOn

\* open_commit writes the deletions that are pending.
LEMMA OpensFiles ==
  ASSUME SafetyInv, NEW r \in Refs, Opens(r), NEW q \in Refs, NEW f \in Files
  PROVE  /\ q = r => /\ AfterDeletions(r).files[f] = FileAfter(r, f)
                     /\ pendingDeletions'[r] = {}
         /\ q # r => pendingDeletions'[q] = pendingDeletions[q]
<1>1. pendingDeletions' = [pendingDeletions EXCEPT ![r] = {}]
  BY DEF Opens, OpenRef
<1>2. pendingDeletions \in [Refs -> SUBSET Paths]
  BY DEF SafetyInv, TypeOK, GitTypeOK
<1> QED  BY <1>1, <1>2, AfterDeletionsFile

\* What convert_svn_file does to the files: it writes its own if the ref is open,
\* and the pending deletions of a commit it opens.
LEMMA ConvertFileEffect ==
  ASSUME SafetyInv, PendingInv, PendingInv', NEW s \in SvnFiles, ConvertFile(s),
         NEW m, NEW r, NEW place, m = Match(s, revnum), r = m.ref, place = GitPath[m][s]
  PROVE  /\ \A q \in Refs : tree'[q] # tree[q] => IsOpen(q)' /\ q \in modifiedRefs'
         /\ \A q \in Refs, f \in Files :
              \/ FileAfter(q, f)' = FileAfter(q, f)
              \/ m # NoRule /\ q = r /\ f = place /\ FileAfter(q, f)' = svn[revnum][s]
         /\ \A q \in Refs, f \in Files :
              q.repo \in passRepos /\ IsOpen(q)' /\ ~ (m # NoRule /\ q = r /\ f = place) =>
                IsOpen(q) /\ tree'[q].files[f] = tree[q].files[f]
         /\ m # NoRule /\ r.repo \in passRepos /\ IsOpen(r)' =>
              tree'[r].files[place] = svn[revnum][s]
<1> DEFINE p == r.repo
<1>1. /\ phase = "convert" /\ UNCHANGED <<svn, revnum>>
      /\ modifiedRefs \subseteq modifiedRefs'
      /\ UNCHANGED gitVars \/ (r \in Refs /\ r \in modifiedRefs')
  BY ConvertFileKind
<1>2. /\ TypeOK /\ GitTypeOK
      /\ currentRef \in [Repos -> Refs \cup {NoRef}] /\ tree \in [Refs -> Trees]
      /\ pendingDeletions \in [Refs -> SUBSET Paths]
      /\ \A q \in Refs : q.repo \in Repos /\ q # NoRef
  <2>1. TypeOK /\ GitTypeOK
    BY DEF SafetyInv, TypeOK
  <2>2. \A q \in Refs : q.repo \in Repos /\ q # NoRef
    BY RepositoryAssumption DEF Refs
  <2> QED  BY <2>1, <2>2 DEF GitTypeOK
<1>3. m # NoRule => r \in Refs /\ p \in Repos /\ place \in Files /\ m \in Rules
  BY <1>2, ConvertFileCases
<1>4. /\ \A x \in passRepos : currentRef[x] # NoRef
      /\ \A q \in Refs : IsOpen(q) => q \in modifiedRefs
  BY <1>1, <1>2 DEF SafetyInv, LoopInv, OpenSoFar, OpenInv, ModifiedIn, IsOpen
<1>5. m # NoRule /\ IsOpen(r) => p \in changedRepos /\ r \in modifiedRefs
  <2>1. changedRepos = {q.repo : q \in modifiedRefs}
    BY <1>1 DEF SafetyInv, ReposMatchRefs
  <2> QED  BY <1>3, <1>4, <2>1
<1>6. CASE Skips(s)
  <2>1. UNCHANGED gitVars
    BY <1>2, <1>6, ConvertFileCases
  <2>2. ~ (m # NoRule /\ IsOpen(r))
    BY <1>5, <1>6 DEF Skips
  <2>3. /\ tree' = tree
        /\ \A q, f : FileAfter(q, f)' = FileAfter(q, f)
        /\ \A q : IsOpen(q)' <=> IsOpen(q)
    BY <2>1 DEF FileAfter, Gone, IsOpen, gitVars, refVars
  <2> QED  BY <2>2, <2>3
<1>7. CASE ~ Skips(s)
  <2>1. /\ m # NoRule /\ DiscoverRef(r)
        /\ currentRef[p] # NoRef =>
             /\ UNCHANGED openVars
             /\ tree' = IF currentRef[p] # r THEN tree
                        ELSE [tree EXCEPT ![r] = Writes(@, place, s)]
        /\ currentRef[p] = NoRef =>
             \E o \in ModifiedIn(p) \cup {r} :
               /\ OpenRef(o, revnum)
               /\ tree' = [tree EXCEPT ![o] =
                    IF o = r THEN Writes(AfterDeletions(o), place, s) ELSE AfterDeletions(o)]
    BY <1>2, <1>7, ConvertFileCases
  <2>2. r \in modifiedRefs' /\ r \in Refs /\ p \in Repos /\ place \in Files /\ m \in Rules
    BY <1>1, <1>3, <2>1 DEF DiscoverRef, ModifyRef, NewlyModified
  <2>3. \A t \in Trees : /\ Writes(t, place, s).files[place] = svn[revnum][s]
                         /\ \A f \in Files \ {place} :
                              Writes(t, place, s).files[f] = t.files[f]
    BY <2>2 DEF Writes, Trees
  <2>4. CASE currentRef[p] # NoRef /\ currentRef[p] # r
    <3>1. /\ tree' = tree /\ currentRef' = currentRef
          /\ \A q, f : FileAfter(q, f)' = FileAfter(q, f)
          /\ \A q : IsOpen(q)' <=> IsOpen(q)
      BY <2>1, <2>4 DEF FileAfter, Gone, IsOpen, openVars, refVars
    <3> QED  BY <2>4, <3>1 DEF IsOpen
  <2>5. CASE currentRef[p] = r
    <3>1. UNCHANGED <<currentRef, pendingDeletions>> /\ IsOpen(r) /\ IsOpen(r)'
          /\ tree' = [tree EXCEPT ![r] = Writes(tree[r], place, s)]
      <4>1. currentRef[p] # NoRef /\ p = r.repo
        BY <1>2, <2>2, <2>5
      <4> QED  BY <2>1, <2>5, <4>1 DEF openVars, refVars, IsOpen
    <3>2. tree'[r] = Writes(tree[r], place, s) /\ \A q \in Refs \ {r} : tree'[q] = tree[q]
      BY <1>2, <2>2, <3>1
    <3>3. tree[r] \in Trees
      BY <1>2, <2>2
    <3>4. tree'[r].files[place] = svn[revnum][s] /\ pendingDeletions'[r] = {}
      BY <2>2, <2>3, <3>1, <3>2, <3>3 DEF PendingInv
    <3>5. ASSUME NEW q \in Refs, NEW f \in Files, ~ (q = r /\ f = place)
          PROVE  tree'[q].files[f] = tree[q].files[f] /\ FileAfter(q, f)' = FileAfter(q, f)
      <4>1. tree'[q].files[f] = tree[q].files[f]
        <5>1. CASE q = r
          BY <2>3, <3>2, <3>3, <3>5, <5>1
        <5>2. CASE q # r
          BY <3>2, <5>2
        <5> QED  BY <5>1, <5>2
      <4> QED  BY <3>1, <4>1 DEF FileAfter, Gone
    <3>6. FileAfter(r, place)' = svn[revnum][s]
      <4>1. Gone(r)' = {}
        BY <3>4 DEF Gone
      <4> QED  BY <3>4, <4>1 DEF FileAfter
    <3>7. \A q \in Refs : IsOpen(q)' <=> IsOpen(q)
      BY <3>1 DEF IsOpen
    <3> QED  BY <2>1, <2>2, <3>1, <3>2, <3>4, <3>5, <3>6, <3>7
  <2>6. CASE currentRef[p] = NoRef
    <3>1. PICK o \in ModifiedIn(p) \cup {r} :
            /\ OpenRef(o, revnum)
            /\ tree' = [tree EXCEPT ![o] =
                 IF o = r THEN Writes(AfterDeletions(o), place, s) ELSE AfterDeletions(o)]
      BY <2>1, <2>6
    <3>2. o \in Refs /\ o.repo = p /\ o \in modifiedRefs' /\ Opens(o)
      BY <1>1, <2>2, <2>6, <3>1 DEF ModifiedIn, Opens, SafetyInv, TypeOK, GitTypeOK
    <3>3. /\ tree'[o] = IF o = r THEN Writes(AfterDeletions(o), place, s) ELSE AfterDeletions(o)
          /\ \A q \in Refs \ {o} : tree'[q] = tree[q]
          /\ currentRef' = [currentRef EXCEPT ![p] = o]
      BY <1>2, <3>1, <3>2 DEF OpenRef
    <3>4. AfterDeletions(o) \in Trees
      BY <1>2, <3>2, AfterDeletionsType DEF TypeOK
    <3>5. \A q \in Refs : q.repo \in passRepos =>
            /\ q.repo # p /\ (IsOpen(q)' <=> IsOpen(q)) /\ tree'[q] = tree[q]
      BY <1>2, <1>4, <2>2, <2>6, <3>2, <3>3 DEF IsOpen
    <3>6. IsOpen(o)'
      BY <1>2, <3>2, <3>3 DEF IsOpen
    <3>7. ASSUME NEW q \in Refs, NEW f \in Files
          PROVE  \/ FileAfter(q, f)' = FileAfter(q, f)
                 \/ q = r /\ f = place /\ FileAfter(q, f)' = svn[revnum][s]
      <4>1. CASE q = o
        <5>1. FileAfter(o, f)' = tree'[o].files[f] /\ AfterDeletions(o).files[f] = FileAfter(o, f)
          BY <3>2, OpensFiles DEF FileAfter, Gone
        <5>2. \/ tree'[o].files[f] = AfterDeletions(o).files[f]
              \/ o = r /\ f = place /\ tree'[o].files[f] = svn[revnum][s]
          BY <2>3, <3>3, <3>4
        <5> QED  BY <4>1, <5>1, <5>2
      <4>2. CASE q # o
        <5>1. tree'[q] = tree[q]
          BY <3>3, <4>2
        <5>2. pendingDeletions'[q] = pendingDeletions[q]
          BY <3>2, <4>2, OpensFiles
        <5> QED  BY <5>1, <5>2 DEF FileAfter, Gone
      <4> QED  BY <4>1, <4>2
    <3>8. p \notin passRepos
      BY <1>4, <2>6
    <3> QED  BY <2>1, <3>2, <3>3, <3>5, <3>6, <3>7, <3>8
  <2> QED  BY <2>2, <2>4, <2>5, <2>6
<1> QED  BY <1>6, <1>7

\* A ref whose tree changes has a mark; no step takes the last mark away.
LEMMA MarkedKept ==
  ASSUME RevisionInv, RevisionInv', [Next]_vars, NEW r \in Refs, FilesInv,
         \/ tree'[r] = tree[r] \/ IsOpen(r)'
         \/ \A f \in Files : tree'[r].files[f] = tree[r].files[f]
  PROVE  (\A v \in 1..MaxRev : marks'[r][v] = 0) => \A f \in Files : tree'[r].files[f] = 0
<1> SUFFICES ASSUME \A v \in 1..MaxRev : marks'[r][v] = 0
             PROVE  \A f \in Files : tree'[r].files[f] = 0
  OBVIOUS
<1>1. ~ IsOpen(r)'
  <2> SUFFICES ASSUME IsOpen(r)' PROVE FALSE
    OBVIOUS
  <2>1. r.repo \in Repos /\ currentRef'[r.repo] = r /\ r # NoRef
    BY RepositoryAssumption DEF IsOpen, Refs
  <2>2. marks'[r][revnum'] # 0
    BY <2>1 DEF RevisionInv, MarksInv, SafetyInv, TypeOK, GitTypeOK
  <2>3. revnum' \in 1..MaxRev
    <3>1. phase' # "idle"
      BY <2>1, IdleClosed DEF RevisionInv, SafetyInv, LoopInv, OpenInv, ReposMatchRefs, ModifiedIn
    <3> QED  BY <3>1, TreeAssumption DEF RevisionInv, MarksInv, SafetyInv, TypeOK, Revs
  <2> QED  BY <2>2, <2>3
<1>2. \A v \in 1..MaxRev : marks[r][v] = 0
  <2> SUFFICES ASSUME NEW v \in 1..MaxRev, marks[r][v] # 0 PROVE FALSE
    OBVIOUS
  <2>1. PICK w \in 1..(v - 1) : marks[r][w] # 0
    BY MarksChange
  <2>2. v = revnum /\ w \in 1..MaxRev /\ w # revnum
    BY MarksChange, TreeAssumption
  <2>3. marks'[r][w] = marks[r][w]
    BY <2>2, MarksChange
  <2> QED  BY <2>1, <2>2, <2>3
<1> QED  BY <1>1, <1>2 DEF FilesInv

\* A step of Phase II that writes at most files that are to be converted.
LEMMA ConversionFiles ==
  ASSUME FilesInv, SafetyInv, UNCHANGED <<svn, revnum, astray, changes, invalid, toConvert>>,
         phase' # "discover" => changes = {} /\ invalid = {},
         \A r \in Refs, f \in Files :
           \/ FileAfter(r, f)' = FileAfter(r, f)
           \/ \E t \in toConvert : t \in Stands(r, f, svn[revnum], revnum),
         \A r \in Refs : (\A v \in 1..MaxRev : marks'[r][v] = 0) =>
                           \A f \in Files : tree'[r].files[f] = 0,
         ConvertInv'
  PROVE  FilesInv'
<1>1. /\ \A s : WillConvert(s)' <=> WillConvert(s)
      /\ \A r, f : WillDelete(r, f)' <=> WillDelete(r, f)
  <2>1. PendingRules' = PendingRules
    BY DEF PendingRules
  <2>2. \A q : InvalidatedFiles(q)' = InvalidatedFiles(q)
    BY DEF InvalidatedFiles, FilesAt
  <2>3. \A d : ConvertedFiles(d)' = ConvertedFiles(d)
    BY DEF ConvertedFiles, FilesAt
  <2> QED  BY <2>1, <2>2, <2>3 DEF WillConvert, WillDelete
<1>2. revnum > 0 => KeptInv'
  BY <1>1 DEF FilesInv, KeptInv
<1>3. PlacesInv'
  <2> SUFFICES ASSUME NEW r \in Refs, NEW f \in Files, <<r, f>> \notin astray
               PROVE  LET S == Stands(r, f, svn[revnum], revnum)
                      IN  /\ \A s \in S : s \notin toConvert /\ ~ WillConvert(s) =>
                               FileAfter(r, f)' = svn[revnum][s] /\ ~ WillDelete(r, f)
                          /\ S = {} => FileAfter(r, f)' = 0 \/ WillDelete(r, f)
    BY <1>1, AfterDeletionsFile DEF PlacesInv
  <2> DEFINE S == Stands(r, f, svn[revnum], revnum)
  <2>1. /\ \A s \in S : s \notin toConvert /\ ~ WillConvert(s) =>
             FileAfter(r, f) = svn[revnum][s] /\ ~ WillDelete(r, f)
        /\ S = {} => FileAfter(r, f) = 0 \/ WillDelete(r, f)
    BY AfterDeletionsFile DEF FilesInv, PlacesInv
  <2>2. CASE FileAfter(r, f)' = FileAfter(r, f)
    BY <2>1, <2>2
  <2>3. ASSUME NEW t \in toConvert, t \in S
        PROVE  S = {t}
    <3>1. \A s \in S : s \in SvnFiles
      BY DEF Stands
    <3>2. \A s \in S : s = t
      BY <2>3, <3>1 DEF FilesInv, OnePerPlace
    <3> QED  BY <2>3, <3>2
  <2> QED  BY <2>2, <2>3
<1> QED  BY <1>2, <1>3 DEF FilesInv

\* A step that leaves the files and what is still to be done for them alone.
LEMMA QuietFiles ==
  ASSUME FilesInv, SafetyInv,
         UNCHANGED <<svn, revnum, astray, changes, invalid, toConvert, pendingDeletions>>,
         \A r \in Refs : tree'[r].files = tree[r].files /\ (IsOpen(r)' => IsOpen(r)),
         \A r \in Refs : (\A v \in 1..MaxRev : marks'[r][v] = 0) =>
                           \A f \in Files : tree'[r].files[f] = 0,
         phase' # "discover" => changes = {} /\ invalid = {},
         phase' = "convert" => fileWork' \subseteq toConvert,
         phase' \notin {"discover", "failed"} => \A s \in toConvert : Match(s, revnum) # NoRule =>
           \/ Written(s) \/ Match(s, revnum).ref \in modifiedRefs'
           \/ Marking' /\ (phase' = "convert" => s \in fileWork'),
         \A s \in toConvert :
           LET m == Match(s, revnum)
           IN  /\ m # NoRule /\ phase' \in {"convert", "prepare", "close"}
               /\ m.ref.repo \in passRepos'
               /\ IsOpen(m.ref) /\ (phase' = "convert" => s \notin fileWork')
               => Written(s)
  PROVE  FilesInv'
<1>1. ASSUME NEW s \in toConvert, NEW m, m = Match(s, revnum), m # NoRule
      PROVE  m.ref \in Refs /\ (Written(s)' <=> Written(s))
  <2>1. s \in SvnPaths /\ revnum \in Revs
    BY PathAssumption DEF SafetyInv, TypeOK
  <2>2. m.ref \in Refs
    BY <1>1, <2>1, MatchType
  <2> QED  BY <1>1, <2>2 DEF Written
<1>2. \A r \in Refs, f \in Files : FileAfter(r, f)' = FileAfter(r, f)
  BY DEF FileAfter, Gone
<1>3. ConvertInv'
  <2>1. \A s \in toConvert : svn[revnum][s] # 0
    BY DEF FilesInv, ConvertInv
  <2>2. ASSUME NEW s \in toConvert, NEW m, m = Match(s, revnum), m # NoRule
        PROVE  /\ phase' \notin {"discover", "failed"} =>
                    \/ Written(s)' \/ m.ref \in modifiedRefs'
                    \/ Marking' /\ (phase' = "convert" => s \in fileWork')
               /\ /\ phase' \in {"convert", "prepare", "close"} /\ m.ref.repo \in passRepos'
                  /\ IsOpen(m.ref)' /\ (phase' = "convert" => s \notin fileWork')
                  => Written(s)'
    BY <1>1, <2>2
  <2> QED  BY <2>1, <2>2 DEF ConvertInv
<1> QED  BY <1>2, <1>3, ConversionFiles

\* The opening loop writes the pending deletions of modified refs.
LEMMA OpenCommitFiles ==
  ASSUME RevisionInv, RevisionInv', FilesInv, NEW p \in Repos, OpenCommit(p)
  PROVE  FilesInv'
<1>0. SafetyInv /\ SafetyInv' /\ [Next]_vars
  BY DEF RevisionInv, Next
<1>1. /\ phase = "open" /\ phase' = "open"
      /\ UNCHANGED <<svn, revnum, astray, changes, invalid, toConvert, pass, fileWork, passRepos>>
  BY DEF OpenCommit, rest, inputVars, phaseIVars
<1>2. CASE UNCHANGED gitVars
  BY <1>0, <1>1, <1>2, QuietFiles DEF gitVars, refVars, IsOpen, Marking, FilesInv, ConvertInv
<1>3. CASE ~ UNCHANGED gitVars
  <2>1. PICK r \in ModifiedIn(p) :
          OpenRef(r, revnum) /\ tree' = [tree EXCEPT ![r] = AfterDeletions(r)]
    BY <1>3 DEF OpenCommit
  <2>2. UNCHANGED modifiedRefs /\ currentRef[p] = NoRef
    BY <1>3 DEF OpenCommit
  <2>3. r \in Refs /\ r \in modifiedRefs /\ r.repo = p /\ Opens(r)
    BY <1>0, <1>1, <2>1, <2>2 DEF ModifiedIn, Opens, SafetyInv, TypeOK, GitTypeOK
  <2>4. /\ \A q \in Refs \ {r} : tree'[q] = tree[q]
        /\ tree'[r] = AfterDeletions(r)
        /\ IsOpen(r)'
    BY <1>0, <2>1, <2>3 DEF SafetyInv, TypeOK, GitTypeOK, OpenRef, IsOpen
  <2>5. ASSUME NEW q \in Refs, NEW f \in Files PROVE FileAfter(q, f)' = FileAfter(q, f)
    <3>1. CASE q = r
      BY <1>0, <2>3, <2>4, <3>1, OpensFiles DEF FileAfter, Gone
    <3>2. CASE q # r
      BY <1>0, <2>3, <2>4, <3>2, OpensFiles DEF FileAfter, Gone
    <3> QED  BY <3>1, <3>2
  <2>6. \A q \in Refs : (\A v \in 1..MaxRev : marks'[q][v] = 0) =>
          \A f \in Files : tree'[q].files[f] = 0
    BY <1>0, <2>4, MarkedKept
  <2>7. ASSUME NEW s \in toConvert, Match(s, revnum) # NoRule
        PROVE  Written(s)' \/ Match(s, revnum).ref \in modifiedRefs' \/ Marking'
    <3>1. s \in SvnPaths /\ revnum \in Revs
      BY <1>0, PathAssumption DEF SafetyInv, TypeOK
    <3>2. Match(s, revnum).ref \in Refs
      BY <2>7, <3>1, MatchType
    <3>3. Written(s) \/ Match(s, revnum).ref \in modifiedRefs \/ Marking
      BY <1>1, <2>7 DEF FilesInv, ConvertInv
    <3> QED  BY <1>1, <2>2, <2>3, <2>4, <3>2, <3>3 DEF Written, Marking
  <2>8. ConvertInv'
    BY <1>1, <2>7 DEF FilesInv, ConvertInv
  <2> QED  BY <1>0, <1>1, <2>5, <2>6, <2>8, ConversionFiles DEF FilesInv
<1> QED  BY <1>2, <1>3

\* convert_svn_file leaves a file right, or its ref to be written.
LEMMA ConvertFileFiles ==
  ASSUME RevisionInv, RevisionInv', FilesInv, NEW s0 \in SvnFiles, ConvertFile(s0)
  PROVE  FilesInv'
<1>0. SafetyInv /\ SafetyInv' /\ PendingInv /\ PendingInv' /\ [Next]_vars
  BY DEF RevisionInv, Next
<1>1. /\ phase = "convert" /\ phase' = "convert" /\ s0 \in fileWork /\ fileWork' = fileWork \ {s0}
      /\ UNCHANGED <<svn, revnum, astray, changes, invalid, toConvert, pass, passRepos>>
  BY DEF ConvertFile, rest, inputVars, phaseIVars
<1>2. PICK m0, r0, f0 : m0 = Match(s0, revnum) /\ r0 = m0.ref /\ f0 = GitPath[m0][s0]
  OBVIOUS
<1>3. modifiedRefs \subseteq modifiedRefs' /\ (UNCHANGED gitVars \/ r0 \in modifiedRefs')
  BY <1>0, <1>2, ConvertFileKind
<1>4. /\ \A q \in Refs : tree'[q] # tree[q] => IsOpen(q)' /\ q \in modifiedRefs'
      /\ \A q \in Refs, f \in Files :
           \/ FileAfter(q, f)' = FileAfter(q, f)
           \/ m0 # NoRule /\ q = r0 /\ f = f0 /\ FileAfter(q, f)' = svn[revnum][s0]
      /\ \A q \in Refs, f \in Files :
           q.repo \in passRepos /\ IsOpen(q)' /\ ~ (m0 # NoRule /\ q = r0 /\ f = f0) =>
             IsOpen(q) /\ tree'[q].files[f] = tree[q].files[f]
      /\ m0 # NoRule /\ r0.repo \in passRepos /\ IsOpen(r0)' =>
           tree'[r0].files[f0] = svn[revnum][s0]
  BY <1>0, <1>2, ConvertFileEffect
<1>5. /\ fileWork \subseteq toConvert /\ \A s \in toConvert : svn[revnum][s] # 0
      /\ toConvert \subseteq SvnFiles /\ SvnFiles \subseteq SvnPaths /\ revnum \in Revs
      /\ TypeOK
  BY <1>0, <1>1, PathAssumption DEF FilesInv, ConvertInv, SafetyInv, TypeOK
<1>6. m0 # NoRule => s0 \in toConvert /\ s0 \in Stands(r0, f0, svn[revnum], revnum)
  BY <1>1, <1>2, <1>5 DEF Stands, Lands
<1>7. ASSUME NEW s \in toConvert, NEW m, m = Match(s, revnum), m # NoRule
      PROVE  \/ Written(s)' \/ m.ref \in modifiedRefs'
             \/ Marking' /\ s \in fileWork'
  <2>1. m.ref \in Refs /\ GitPath[m][s] \in Files
    BY <1>5, <1>7, MatchType
  <2>2. Written(s) \/ m.ref \in modifiedRefs \/ (Marking /\ s \in fileWork)
    BY <1>1, <1>7 DEF FilesInv, ConvertInv
  <2>3. Written(s) => Written(s)' \/ m.ref \in modifiedRefs'
    BY <1>1, <1>4, <1>7, <2>1 DEF Written
  <2>4. Marking /\ s = s0 => m.ref \in modifiedRefs'
    <3>1. Marking => pass = 0
      BY <1>1 DEF Marking
    <3>2. pass = 0 /\ s = s0 => DiscoverRef(m.ref)
      <4> SUFFICES ASSUME pass = 0, s = s0 PROVE DiscoverRef(m.ref)
        OBVIOUS
      <4>1. ~ Skips(s0)
        BY <1>7 DEF Skips
      <4> QED  BY <1>5, <1>7, <4>1, ConvertFileCases
    <3> QED
      BY <1>0, <2>1, <3>1, <3>2, DiscoverRefForward
  <2>5. Marking => Marking'
    BY <1>1 DEF Marking
  <2> QED  BY <1>1, <1>3, <2>2, <2>3, <2>4, <2>5
<1>8. ASSUME NEW s \in toConvert, NEW m, m = Match(s, revnum), m # NoRule,
             m.ref.repo \in passRepos', IsOpen(m.ref)', s \notin fileWork'
      PROVE  Written(s)'
  <2>1. m.ref \in Refs /\ GitPath[m][s] \in Files
    BY <1>5, <1>8, MatchType
  <2>2. CASE s = s0
    BY <1>1, <1>2, <1>4, <1>8, <2>2 DEF Written
  <2>3. CASE s # s0
    <3>1. s \in Stands(m.ref, GitPath[m][s], svn[revnum], revnum)
      BY <1>5, <1>8 DEF Stands, Lands
    <3>2. ~ (m0 # NoRule /\ m.ref = r0 /\ GitPath[m][s] = f0)
      BY <1>1, <1>5, <1>6, <2>1, <2>3, <3>1 DEF FilesInv, OnePerPlace
    <3>3. IsOpen(m.ref) /\ tree'[m.ref].files[GitPath[m][s]] = tree[m.ref].files[GitPath[m][s]]
      BY <1>1, <1>4, <1>8, <2>1, <3>2
    <3>4. Written(s)
      BY <1>1, <1>8, <2>3, <3>3 DEF FilesInv, ConvertInv
    <3> QED  BY <1>1, <1>8, <3>3, <3>4 DEF Written
  <2> QED  BY <2>2, <2>3
<1>9. ConvertInv'
  BY <1>1, <1>5, <1>7, <1>8 DEF ConvertInv
<1>10. \A q \in Refs : (\A v \in 1..MaxRev : marks'[q][v] = 0) =>
         \A f \in Files : tree'[q].files[f] = 0
  BY <1>0, <1>4, MarkedKept
<1>11. \A q \in Refs, f \in Files :
         \/ FileAfter(q, f)' = FileAfter(q, f)
         \/ \E t \in toConvert : t \in Stands(q, f, svn[revnum], revnum)
  BY <1>4, <1>6
<1> QED  BY <1>0, <1>1, <1>9, <1>10, <1>11, ConversionFiles DEF FilesInv

\* The closing loop writes no file.
LEMMA CloseCommitFiles ==
  ASSUME RevisionInv, RevisionInv', FilesInv, NEW p \in Repos, CloseCommit(p)
  PROVE  FilesInv'
<1>0. /\ SafetyInv /\ SafetyInv' /\ MarksInv /\ HeadInv /\ HistoryInv /\ [Next]_vars
      /\ repoWork \subseteq passRepos /\ tree \in [Refs -> Trees]
  BY DEF RevisionInv, Next, SafetyInv, LoopInv, TypeOK, GitTypeOK
<1>1. /\ phase = "close" /\ phase' = "close" /\ ~ Marking
      /\ UNCHANGED <<svn, revnum, astray, changes, invalid, toConvert, passRepos>>
      /\ ConvertInv /\ changes = {} /\ invalid = {}
  BY DEF CloseCommit, rest, inputVars, phaseIVars, Marking, FilesInv
<1>2. CASE UNCHANGED gitVars
  BY <1>0, <1>1, <1>2, QuietFiles DEF gitVars, refVars, IsOpen, FilesInv, ConvertInv
<1>3. ASSUME NEW r \in Refs, Closes(r) PROVE FilesInv'
  <2>1. tree' = [tree EXCEPT ![r] = ClosedTree(r)] /\ ClosedTree(r).files = tree[r].files
    BY <1>0, <1>3, ClosesTree, PreparedFiles
  <2>2. /\ modifiedRefs' = modifiedRefs \ {r} /\ UNCHANGED pendingDeletions
        /\ \A q \in Refs : IsOpen(q)' <=> (q # r /\ IsOpen(q))
        /\ IsOpen(r) /\ r.repo \in passRepos
    BY <1>0, <1>3, ClosesEffect, ClosesMarksKinds DEF Closes
  <2>3. \A q \in Refs : tree'[q].files = tree[q].files
    BY <1>0, <2>1
  <2>4. \A q \in Refs : (\A v \in 1..MaxRev : marks'[q][v] = 0) =>
          \A f \in Files : tree'[q].files[f] = 0
    BY <1>0, <2>3, MarkedKept
  <2>5. ASSUME NEW s \in toConvert, NEW m, m = Match(s, revnum), m # NoRule
        PROVE  /\ Written(s) \/ m.ref \in modifiedRefs'
               /\ m.ref.repo \in passRepos /\ IsOpen(m.ref) => Written(s)
    <3>1. /\ Written(s) \/ m.ref \in modifiedRefs
          /\ m.ref.repo \in passRepos /\ IsOpen(m.ref) => Written(s)
      BY <1>1, <2>5 DEF ConvertInv
    <3> QED  BY <2>2, <3>1
  <2> QED  BY <1>0, <1>1, <2>2, <2>3, <2>4, <2>5, QuietFiles
<1> QED  BY <1>0, <1>2, <1>3, CloseCommitKind

\* Preparing a commit writes no file.
LEMMA PrepareRepoFiles ==
  ASSUME SafetyInv, FilesInv, NEW p \in Repos, PrepareRepo(p)
  PROVE  FilesInv'
<1>1. /\ phase = "prepare" /\ phase' = "prepare"
      /\ UNCHANGED <<svn, revnum, astray, changes, invalid, toConvert, passRepos, pass,
                     modifiedRefs, marks, currentRef, pendingDeletions>>
  BY DEF PrepareRepo, PrepareToCloseCommit, rest, inputVars, phaseIVars, gitVars, refVars
<1>2. tree \in [Refs -> Trees]
  BY DEF SafetyInv, TypeOK, GitTypeOK
<1>3. \/ UNCHANGED tree
      \/ /\ currentRef[p] \in Refs
         /\ tree' = [tree EXCEPT ![currentRef[p]] = PreparedTree(currentRef[p])]
  <2>1. p \in repoWork /\ PrepareToCloseCommit(p)
    BY DEF PrepareRepo
  <2>2. currentRef[p] \in Refs
    BY <1>1, <2>1 DEF SafetyInv, LoopInv, OpenSoFar, TypeOK, GitTypeOK
  <2> QED  BY <2>1, <2>2 DEF PrepareToCloseCommit, gitVars
<1>4. \A r \in Refs : tree'[r].files = tree[r].files
  BY <1>2, <1>3, PreparedFiles
<1> QED  BY <1>1, <1>4, QuietFiles DEF IsOpen, FilesInv, ConvertInv, Marking

\* The loops and passes follow one another.
LEMMA BookkeepingFiles ==
  ASSUME SafetyInv, FilesInv, Bookkeeping
  PROVE  FilesInv'
<1>1. UNCHANGED <<gitVars, inputVars, phaseIVars>>
  BY DEF Bookkeeping, BeginPhaseII, BeginPass, GiveUp, NextLoop, EndPass, OpenNothing, rest
<1>2. /\ phase' # "discover" /\ changes = {} /\ invalid = {}
      /\ phase' = "convert" => fileWork' \subseteq toConvert
  BY DEF Bookkeeping, BeginPhaseII, BeginPass, GiveUp, NextLoop, EndPass, OpenNothing, FilesInv
<1>3. phase' \notin {"discover", "failed"} => \A s \in toConvert : Match(s, revnum) # NoRule =>
        \/ Written(s) \/ Match(s, revnum).ref \in modifiedRefs'
        \/ Marking' /\ (phase' = "convert" => s \in fileWork')
  <2>1. CASE BeginPhaseII
    BY <2>1 DEF BeginPhaseII, Marking
  <2>2. CASE BeginPass
    BY <1>1, <2>2 DEF BeginPass, FilesInv, ConvertInv, Marking, gitVars
  <2>3. CASE GiveUp \/ \E p \in Repos : OpenNothing(p)
    BY <2>3 DEF GiveUp, OpenNothing
  <2>4. CASE NextLoop
    BY <1>1, <2>4 DEF NextLoop, FilesInv, ConvertInv, Marking, gitVars
  <2>5. CASE EndPass
    BY <1>1, <2>5 DEF EndPass, FilesInv, ConvertInv, Marking, gitVars
  <2> QED  BY <2>1, <2>2, <2>3, <2>4, <2>5 DEF Bookkeeping
<1>4. \A s \in toConvert :
        LET m == Match(s, revnum)
        IN  /\ m # NoRule /\ phase' \in {"convert", "prepare", "close"}
            /\ m.ref.repo \in passRepos'
            /\ IsOpen(m.ref) /\ (phase' = "convert" => s \notin fileWork')
            => Written(s)
  <2>1. CASE NextLoop
    BY <2>1 DEF NextLoop, FilesInv, ConvertInv
  <2>2. CASE ~ NextLoop
    BY <2>2 DEF Bookkeeping, BeginPhaseII, BeginPass, GiveUp, EndPass, OpenNothing
  <2> QED  BY <2>1, <2>2
<1>5. \A r \in Refs : tree'[r].files = tree[r].files /\ (IsOpen(r)' => IsOpen(r))
  BY <1>1 DEF gitVars, IsOpen
<1>6. /\ UNCHANGED <<svn, revnum, astray, changes, invalid, toConvert, pendingDeletions>>
      /\ \A r \in Refs : (\A v \in 1..MaxRev : marks'[r][v] = 0) =>
                           \A f \in Files : tree'[r].files[f] = 0
  BY <1>1 DEF gitVars, refVars, inputVars, phaseIVars, FilesInv
<1> QED  BY <1>2, <1>3, <1>4, <1>5, <1>6, QuietFiles

\* No step loses a file.
LEMMA FilesStep ==
  ASSUME RevisionInv, RevisionInv', FilesInv, [Next]_vars
  PROVE  FilesInv'
<1>0. SafetyInv /\ PendingInv
  BY DEF RevisionInv
<1>1. ASSUME NEW s \in toMerge, DiscoverMerge(s) PROVE FilesInv'
  BY <1>0, <1>1, QuietFiles DEF DiscoverMerge, inputVars, otherGitVars, IsOpen, FilesInv
<1>2. CASE UNCHANGED vars
  BY <1>0, <1>2, QuietFiles DEF vars, gitVars, inputVars, phaseIVars, loopVars, refVars, IsOpen,
     FilesInv, ConvertInv, Marking
<1> QED
  BY <1>0, <1>1, <1>2, BeginRevisionFiles, InvalidateRuleFiles, ProcessChangeFiles,
     OpenCommitFiles, ConvertFileFiles, PrepareRepoFiles, CloseCommitFiles, BookkeepingFiles
     DEF Next, Bookkeeping, Finished

-----------------------------------------------------------------------------
(* The steps, as far as links and attributes are concerned.                *)

Others(t) == <<t.links, t.modules, t.attrs>>

\* A step that neither prepares nor finishes a commit, starts no revision, and
\* writes files and deletions only.
Writing ==
  /\ Forward /\ UNCHANGED <<submoduleRefs, prepared>>
  /\ \A s \in Refs : changedSubs'[s] \ modifiedRefs' = changedSubs[s] \ modifiedRefs
  /\ \/ /\ UNCHANGED <<currentRef, marks, staleSubs, attrsOutdated>>
        /\ \A q \in Refs : Others(tree'[q]) = Others(tree[q])
     \/ \E r \in Refs :
          /\ Opens(r) /\ Others(tree'[r]) = Others(AfterDeletions(r))
          /\ \A q \in Refs \ {r} : tree'[q] = tree[q]

\* prepare_to_close_commit of a ref that can be closed.
Prepares(r) ==
  /\ r \in modifiedRefs /\ IsOpen(r) /\ CanClose(r) /\ PrepareRef(r)
  /\ tree' = [tree EXCEPT ![r] = PreparedTree(r)]
  /\ prepared' = [prepared EXCEPT ![r.repo] = TRUE]
  /\ UNCHANGED <<modifiedRefs, currentRef, marks, changedSubs, svn, revnum, phase>>

\* No ref is marked again after its super-module has stopped waiting for it.
LEMMA DiscoverRefWaits ==
  ASSUME SafetyInv, NEW r \in Refs, DiscoverRef(r), Marking \/ r \in modifiedRefs
  PROVE  \A s \in Refs : changedSubs'[s] \ modifiedRefs' = changedSubs[s] \ modifiedRefs
<1>1. /\ modifiedRefs' = modifiedRefs \cup NewlyModified(r)
      /\ changedSubs' = [s \in Refs |->
           changedSubs[s] \cup {q \in NewlyModified(r) : SuperRef(q) = s}]
  BY DEF DiscoverRef, ModifyRef
<1>2. CASE r \in modifiedRefs
  BY <1>1, <1>2 DEF NewlyModified
<1>3. CASE Marking
  BY <1>1, <1>3 DEF SafetyInv, LoopInv
<1> QED  BY <1>2, <1>3

LEMMA OpenCommitWriting ==
  ASSUME SafetyInv, NEW p \in Repos, OpenCommit(p)
  PROVE  Writing
<1>1. Forward /\ phase = "open"
  BY OpenCommitForward DEF OpenCommit
<1>2. CASE UNCHANGED gitVars
  BY <1>1, <1>2 DEF Writing, gitVars
<1>3. CASE ~ UNCHANGED gitVars
  <2>1. PICK r \in ModifiedIn(p) :
          OpenRef(r, revnum) /\ tree' = [tree EXCEPT ![r] = AfterDeletions(r)]
    BY <1>3 DEF OpenCommit
  <2>2. UNCHANGED <<modifiedRefs, prepared, submoduleRefs, changedSubs>> /\ currentRef[p] = NoRef
    BY <1>3 DEF OpenCommit
  <2>3. r \in Refs /\ Opens(r)
    BY <1>1, <2>1, <2>2 DEF ModifiedIn, Opens, SafetyInv, TypeOK, GitTypeOK
  <2>4. tree'[r] = AfterDeletions(r) /\ \A q \in Refs \ {r} : tree'[q] = tree[q]
    BY <2>1, <2>3 DEF SafetyInv, TypeOK, GitTypeOK
  <2> QED  BY <1>1, <2>2, <2>3, <2>4 DEF Writing
<1> QED  BY <1>2, <1>3

LEMMA ConvertFileWriting ==
  ASSUME SafetyInv, NEW s \in SvnFiles, ConvertFile(s)
  PROVE  Writing
<1> DEFINE r == Match(s, revnum).ref
           p == r.repo
           f == GitPath[Match(s, revnum)][s]
<1>1. /\ Forward /\ phase = "convert" /\ phase' = "convert" /\ TypeOK
      /\ UNCHANGED gitVars \/ (r \in Refs /\ r \in modifiedRefs')
  BY ConvertFileForward, ConvertFileKind DEF SafetyInv
<1>2. tree \in [Refs -> Trees] /\ modifiedRefs \subseteq Refs
  BY DEF SafetyInv, TypeOK, GitTypeOK
<1>3. CASE UNCHANGED gitVars
  BY <1>1, <1>3 DEF Writing, gitVars
<1>4. CASE ~ UNCHANGED gitVars
  <2>1. /\ r \in Refs /\ DiscoverRef(r) /\ UNCHANGED <<prepared, submoduleRefs>>
        /\ pass > 0 => r \in modifiedRefs
        /\ currentRef[p] # NoRef =>
             /\ UNCHANGED openVars
             /\ tree' = IF currentRef[p] # r THEN tree
                        ELSE [tree EXCEPT ![r] = Writes(@, f, s)]
        /\ currentRef[p] = NoRef =>
             \E o \in ModifiedIn(p) \cup {r} :
               /\ OpenRef(o, revnum)
               /\ tree' = [tree EXCEPT ![o] =
                    IF o = r THEN Writes(AfterDeletions(o), f, s) ELSE AfterDeletions(o)]
    BY <1>1, <1>4, ConvertFileCases
  <2>2. Marking \/ r \in modifiedRefs
    BY <1>1, <2>1 DEF Marking, SafetyInv, TypeOK
  <2>3. \A x \in Refs : changedSubs'[x] \ modifiedRefs' = changedSubs[x] \ modifiedRefs
    BY <2>1, <2>2, DiscoverRefWaits
  <2>4. \A t \in Trees : Others(Writes(t, f, s)) = Others(t)
    BY DEF Others, Writes, Trees
  <2>5. CASE currentRef[p] # NoRef
    <3>1. \A q \in Refs : Others(tree'[q]) = Others(tree[q])
      <4>1. CASE currentRef[p] # r
        BY <2>1, <2>5, <4>1
      <4>2. CASE currentRef[p] = r
        <5>1. tree' = [tree EXCEPT ![r] = Writes(tree[r], f, s)]
          BY <2>1, <2>5, <4>2
        <5> QED  BY <1>2, <2>1, <2>4, <5>1
      <4> QED  BY <4>1, <4>2
    <3> QED  BY <1>1, <2>1, <2>3, <2>5, <3>1 DEF Writing, openVars
  <2>6. CASE currentRef[p] = NoRef
    <3>1. PICK o \in ModifiedIn(p) \cup {r} :
            /\ OpenRef(o, revnum)
            /\ tree' = [tree EXCEPT ![o] =
                 IF o = r THEN Writes(AfterDeletions(o), f, s) ELSE AfterDeletions(o)]
      BY <2>1, <2>6
    <3>2. o \in Refs /\ Opens(o)
      BY <1>1, <1>2, <1>4, <2>6, <3>1 DEF ModifiedIn, Opens, Forward
    <3>3. AfterDeletions(o) \in Trees
      BY <3>2, AfterDeletionsType DEF SafetyInv, TypeOK
    <3>4. /\ tree'[o] = IF o = r THEN Writes(AfterDeletions(o), f, s) ELSE AfterDeletions(o)
          /\ \A q \in Refs \ {o} : tree'[q] = tree[q]
      BY <1>2, <3>1, <3>2
    <3>5. Others(tree'[o]) = Others(AfterDeletions(o))
      BY <2>4, <3>3, <3>4
    <3> QED  BY <1>1, <2>1, <2>3, <3>2, <3>4, <3>5 DEF Writing
  <2> QED  BY <2>5, <2>6
<1> QED  BY <1>3, <1>4

LEMMA PrepareRepoKind ==
  ASSUME SafetyInv, NEW p \in Repos, PrepareRepo(p)
  PROVE  Writing \/ \E r \in Refs : Prepares(r)
<1>1. /\ phase = "prepare" /\ p \in repoWork /\ PrepareToCloseCommit(p)
      /\ UNCHANGED <<svn, revnum, astray, phase, pass>>
  BY DEF PrepareRepo, rest, inputVars
<1>2. currentRef[p] \in ModifiedIn(p) /\ modifiedRefs \subseteq Refs
  BY <1>1 DEF SafetyInv, LoopInv, OpenSoFar, OpenInv, TypeOK, GitTypeOK
<1>3. CASE CanClose(currentRef[p])
  BY <1>1, <1>2, <1>3 DEF PrepareToCloseCommit, Prepares, ModifiedIn, IsOpen
<1>4. CASE ~ CanClose(currentRef[p])
  BY <1>1, <1>2, <1>4 DEF PrepareToCloseCommit, Writing, Forward, Marking, gitVars
<1> QED  BY <1>3, <1>4

\* Every step is of one of four kinds.
LEMMA TreeStepKinds ==
  ASSUME SafetyInv, [Next]_vars
  PROVE  \/ BeginRevision \/ Writing
         \/ \E r \in Refs : Prepares(r) \/ Closes(r)
<1>1. modifiedRefs \subseteq Refs
  BY DEF SafetyInv, TypeOK, GitTypeOK
<1>2. CASE PhaseI
  <2>1. /\ phase = "discover" /\ UNCHANGED <<phase, inputVars, loopVars, otherGitVars>>
        /\ \/ UNCHANGED <<changedRepos, modifiedRefs, changedSubs>>
           \/ \E r \in Refs : DiscoverRef(r)
    BY <1>2, PhaseIKinds DEF SafetyInv
  <2>2. Marking /\ ~ BeginRevision /\ ~ \E r \in Refs : Closes(r)
    BY <2>1 DEF Marking, BeginRevision, Closes
  <2>3. Forward
    BY <1>2, <2>2, StepKinds DEF Next, PhaseI
  <2>4. UNCHANGED <<submoduleRefs, prepared, currentRef, marks, staleSubs, attrsOutdated, tree>>
    BY <2>1 DEF otherGitVars
  <2> QED  BY <2>1, <2>2, <2>3, <2>4, DiscoverRefWaits DEF Writing
<1>4. ASSUME NEW p \in Repos, CloseCommit(p) PROVE Writing \/ \E r \in Refs : Closes(r)
  BY <1>1, <1>4, CloseCommitKind DEF Writing, Forward, Marking, gitVars
<1>5. CASE Bookkeeping \/ UNCHANGED vars
  <2>1. UNCHANGED gitVars
    BY <1>5 DEF Bookkeeping, BeginPhaseII, BeginPass, GiveUp, NextLoop, EndPass,
       OpenNothing, vars
  <2>2. ~ BeginRevision \/ UNCHANGED vars
    BY <1>5 DEF Bookkeeping, BeginPhaseII, BeginPass, GiveUp, NextLoop, EndPass,
       OpenNothing, BeginRevision
  <2>3. ~ \E r \in Refs : Closes(r)
    <3> SUFFICES ASSUME NEW r \in Refs, Closes(r) PROVE FALSE
      OBVIOUS
    <3>1. modifiedRefs' = modifiedRefs \ {r} /\ r \in modifiedRefs
      BY ClosesEffect DEF Closes
    <3> QED  BY <2>1, <3>1 DEF gitVars
  <2>4. CASE UNCHANGED vars
    BY <1>1, <2>4 DEF vars, gitVars, inputVars, loopVars, Forward, Marking, Writing
  <2> QED  BY <1>5, <2>1, <2>2, <2>3, <2>4, StepKinds DEF Next, Bookkeeping, Writing, gitVars
<1> QED
  BY <1>2, <1>4, <1>5, OpenCommitWriting, ConvertFileWriting, PrepareRepoKind
     DEF Next, Bookkeeping, Finished, PhaseI

-----------------------------------------------------------------------------
(* AttributesInv.                                                          *)

LEMMA AttributesInit == Init => AttributesInv
BY RepositoryAssumption DEF Init, GitInit, AttributesInv

\* A commit is closed with .gitattributes in its tree.
LEMMA ClosedAttributes ==
  ASSUME SafetyInv, AttributesInv, GitAttributes, NEW r \in Refs, IsOpen(r)
  PROVE  ClosedTree(r).attrs /\ PreparedTree(r).attrs
<1>1. tree[r] \in Trees /\ r.repo \in Repos /\ attrsOutdated[r] \in BOOLEAN
  BY DEF SafetyInv, TypeOK, GitTypeOK, Refs
<1>2. PreparedTree(r).attrs = (tree[r].attrs \/ attrsOutdated[r])
  BY <1>1 DEF PreparedTree, Trees
<1>3. tree[r].attrs \/ attrsOutdated[r]
  BY DEF AttributesInv
<1>4. prepared[r.repo] => tree[r].attrs
  BY <1>1 DEF AttributesInv, IsOpen
<1> QED  BY <1>2, <1>3, <1>4 DEF ClosedTree

\* open_commit marks .gitattributes to be written again when it deletes the root.
LEMMA WritingAttributes ==
  ASSUME RevisionInv, RevisionInv', AttributesInv, [Next]_vars, Writing
  PROVE  AttributesInv'
<1> SUFFICES ASSUME GitAttributes
             PROVE  /\ \A r \in Refs : tree'[r].attrs \/ attrsOutdated'[r]
                    /\ \A r \in Refs, v \in 1..MaxRev :
                         marks'[r][v] # 0 /\ ~ IsOpen(r)' => tree'[r].attrs
                    /\ \A p \in Repos : prepared'[p] => tree'[currentRef'[p]].attrs
  BY DEF AttributesInv
<1>1. /\ prepared' = prepared /\ SafetyInv /\ MarksInv
      /\ (modifiedRefs' # modifiedRefs => Marking)
  BY DEF Writing, RevisionInv, Forward
<1>2. \A p \in Repos : prepared[p] => currentRef[p] \in Refs
  BY <1>1 DEF SafetyInv, OpenInv, TypeOK, GitTypeOK
<1>3. CASE /\ UNCHANGED <<currentRef, marks, staleSubs, attrsOutdated>>
           /\ \A q \in Refs : Others(tree'[q]) = Others(tree[q])
  BY <1>1, <1>2, <1>3 DEF AttributesInv, Others, IsOpen
<1>4. ASSUME NEW r \in Refs, Opens(r), Others(tree'[r]) = Others(AfterDeletions(r)),
             \A q \in Refs \ {r} : tree'[q] = tree[q]
      PROVE  /\ \A q \in Refs : tree'[q].attrs \/ attrsOutdated'[q]
             /\ \A q \in Refs, v \in 1..MaxRev :
                  marks'[q][v] # 0 /\ ~ IsOpen(q)' => tree'[q].attrs
             /\ \A p \in Repos : prepared'[p] => tree'[currentRef'[p]].attrs
  <2>1. /\ tree'[r].attrs = (RootPath \notin pendingDeletions[r] /\ tree[r].attrs)
        /\ attrsOutdated' = [attrsOutdated EXCEPT ![r] =
             attrsOutdated[r] \/ (GitAttributes /\ RootPath \in pendingDeletions[r])]
    BY <1>4 DEF Others, AfterDeletions, Opens, OpenRef, OutdatedAfterDeletions
  <2>2. /\ marks' = [marks EXCEPT ![r][revnum] = lastMark[r.repo] + 1]
        /\ \A q \in Refs : IsOpen(q)' <=> (q = r \/ IsOpen(q))
    BY <1>1, <1>4, OpensEffect
  <2>3. /\ attrsOutdated \in [Refs -> BOOLEAN] /\ marks \in [Refs -> [1..MaxRev -> Nat]]
        /\ \A q \in Refs : tree[q].attrs \in BOOLEAN
    BY <1>1 DEF SafetyInv, TypeOK, GitTypeOK, Trees
  <2>4. \A q \in Refs : tree'[q].attrs \/ attrsOutdated'[q]
    <3> TAKE q \in Refs
    <3>1. CASE q = r
      <4>1. attrsOutdated'[r] = (attrsOutdated[r] \/ RootPath \in pendingDeletions[r])
        BY <2>1, <2>3
      <4> QED  BY <2>1, <3>1, <4>1 DEF AttributesInv
    <3>2. CASE q # r
      BY <1>4, <2>1, <2>3, <3>2 DEF AttributesInv
    <3> QED  BY <3>1, <3>2
  <2>5. \A q \in Refs, v \in 1..MaxRev : marks'[q][v] # 0 /\ ~ IsOpen(q)' => tree'[q].attrs
    <3> SUFFICES ASSUME NEW q \in Refs, NEW v \in 1..MaxRev, marks'[q][v] # 0, ~ IsOpen(q)'
                 PROVE  tree'[q].attrs
      OBVIOUS
    <3>1. q # r /\ ~ IsOpen(q)
      BY <2>2
    <3>2. marks'[q] = marks[q] /\ tree'[q] = tree[q]
      BY <1>4, <2>2, <2>3, <3>1
    <3> QED  BY <3>1, <3>2 DEF AttributesInv
  <2>6. \A p \in Repos : ~ prepared[p]
    BY <1>1, <1>4 DEF Opens, SafetyInv, OpenInv
  <2> QED  BY <1>1, <2>4, <2>5, <2>6
<1> QED  BY <1>3, <1>4 DEF Writing

\* No step loses the attributes of a finished commit.
LEMMA AttributesStep ==
  ASSUME RevisionInv, RevisionInv', AttributesInv, [Next]_vars
  PROVE  AttributesInv'
<1>1. SafetyInv /\ MarksInv /\ HeadInv /\ HistoryInv /\ OpenInv
      /\ tree \in [Refs -> Trees] /\ prepared \in [Repos -> BOOLEAN]
      /\ attrsOutdated \in [Refs -> BOOLEAN] /\ currentRef \in [Repos -> Refs \cup {NoRef}]
      /\ marks \in [Refs -> [1..MaxRev -> Nat]]
  BY DEF RevisionInv, SafetyInv, TypeOK, GitTypeOK
<1>2. CASE BeginRevision
  BY <1>2 DEF BeginRevision, AttributesInv, gitVars, IsOpen
<1>3. ASSUME NEW r \in Refs, Prepares(r) PROVE AttributesInv'
  <2>1. GitAttributes => PreparedTree(r).attrs
    BY <1>1, <1>3, ClosedAttributes DEF Prepares
  <2>2. tree' = [tree EXCEPT ![r] = PreparedTree(r)]
        /\ attrsOutdated' = [attrsOutdated EXCEPT ![r] = FALSE]
        /\ UNCHANGED <<marks, currentRef>>
        /\ prepared' = [prepared EXCEPT ![r.repo] = TRUE] /\ currentRef[r.repo] = r
    BY <1>3 DEF Prepares, PrepareRef, IsOpen
  <2>3. GitAttributes => tree'[r].attrs
    BY <1>1, <2>1, <2>2
  <2>4. \A q \in Refs \ {r} : tree'[q] = tree[q] /\ attrsOutdated'[q] = attrsOutdated[q]
    BY <1>1, <2>2
  <2>5. \A p \in Repos : prepared'[p] => prepared[p] \/ currentRef[p] = r
    BY <1>1, <2>2
  <2>6. \A p \in Repos : prepared[p] => currentRef[p] \in Refs
    BY <1>1 DEF OpenInv
  <2> QED  BY <2>2, <2>3, <2>4, <2>5, <2>6 DEF AttributesInv, IsOpen
<1>4. ASSUME NEW r \in Refs, Closes(r) PROVE AttributesInv'
  <2>1. /\ tree' = [tree EXCEPT ![r] = ClosedTree(r)] /\ IsOpen(r)
        /\ GitAttributes => ClosedTree(r).attrs
    BY <1>1, <1>4, ClosesTree, ClosedAttributes DEF Closes
  <2>2. /\ prepared' = [prepared EXCEPT ![r.repo] = FALSE]
        /\ attrsOutdated' = attrsOutdated \/ attrsOutdated' = [attrsOutdated EXCEPT ![r] = FALSE]
    BY <1>4 DEF Closes, CloseRef, PrepareRef
  <2>3. /\ currentRef' = [currentRef EXCEPT ![r.repo] = NoRef] /\ r.repo \in Repos
        /\ \A q \in Refs : IsOpen(q)' <=> (q # r /\ IsOpen(q))
        /\ \A q \in Refs, v \in 1..MaxRev : q # r => marks'[q][v] = marks[q][v]
    <3>1. marks' = marks \/ marks' = [marks EXCEPT ![r][revnum] = 0]
      BY <1>1, <1>4, ClosesMarksKinds
    <3>2. \A q \in Refs, v \in 1..MaxRev : q # r => marks'[q][v] = marks[q][v]
      BY <1>1, <3>1
    <3>3. \A q \in Refs : IsOpen(q)' <=> (q # r /\ IsOpen(q))
      BY <1>1, <1>4, ClosesMarksKinds
    <3> QED  BY <1>1, <1>4, <3>2, <3>3, ClosesEffect
  <2>4. GitAttributes => tree'[r].attrs
    BY <1>1, <2>1
  <2>5. \A q \in Refs \ {r} : tree'[q] = tree[q] /\ attrsOutdated'[q] = attrsOutdated[q]
    BY <1>1, <2>1, <2>2
  <2>6. \A p \in Repos : prepared'[p] =>
          /\ prepared[p] /\ currentRef'[p] = currentRef[p]
          /\ currentRef[p] \in Refs \ {r}
    <3> SUFFICES ASSUME NEW p \in Repos, prepared'[p]
                 PROVE  /\ prepared[p] /\ currentRef'[p] = currentRef[p]
                        /\ currentRef[p] \in Refs \ {r}
      OBVIOUS
    <3>1. p # r.repo /\ prepared[p] /\ currentRef'[p] = currentRef[p]
      BY <1>1, <2>2, <2>3
    <3>2. currentRef[p] \in Refs /\ currentRef[p].repo = p
      BY <1>1, <3>1 DEF OpenInv, ModifiedIn
    <3> QED  BY <3>1, <3>2
  <2> QED  BY <2>3, <2>4, <2>5, <2>6 DEF AttributesInv
<1> QED  BY <1>1, <1>2, <1>3, <1>4, TreeStepKinds, WritingAttributes

-----------------------------------------------------------------------------
(* SourcesInv.                                                             *)

LEMMA SourcesInit == Init => SourcesInv
<1> SUFFICES ASSUME Init PROVE SourcesInv
  OBVIOUS
<1>1. /\ revnum = 0 /\ changes = {} /\ copies = {}
      /\ pendingMerges = [r \in Refs |-> [q \in Refs |-> 0]]
  BY DEF Init, GitInit, NoRevs
<1> QED  BY <1>1 DEF SourcesInv

\* What is to be merged comes from a copy, or was to be merged before.
LEMMA PendingMergesKinds ==
  ASSUME SafetyInv, [Next]_vars, NEW r \in Refs, NEW q \in Refs, pendingMerges'[r][q] # 0
  PROVE  \/ pendingMerges'[r][q] = pendingMerges[r][q]
         \/ \E k \in copies : pendingMerges'[r][q] = k.rev
<1>1. pendingMerges \in [Refs -> [Refs -> Revs]]
  BY DEF SafetyInv, TypeOK, GitTypeOK
<1>2. CASE UNCHANGED pendingMerges
  BY <1>2
<1>3. ASSUME NEW s \in toMerge, DiscoverMerge(s), ~ UNCHANGED pendingMerges
      PROVE  \/ pendingMerges'[r][q] = pendingMerges[r][q]
             \/ \E k \in copies : pendingMerges'[r][q] = k.rev
  <2>1. PICK k \in copies, o \in Refs : /\ Match(s, revnum).ref \in Refs
                                        /\ RecordAncestor(Match(s, revnum).ref, o, k.rev)
    BY <1>3, DiscoverMergeKinds DEF SafetyInv
  <2> QED  BY <1>1, <2>1 DEF RecordAncestor
<1>4. ASSUME NEW o \in Refs, Opens(o) PROVE pendingMerges'[r][q] = pendingMerges[r][q]
  <2>1. pendingMerges' = [pendingMerges EXCEPT ![o] = NoRevs]
    BY <1>4 DEF Opens, OpenRef, WriteMerges
  <2>2. r # o
    BY <1>1, <2>1 DEF NoRevs
  <2> QED  BY <1>1, <2>1, <2>2
<1>5. ASSUME NEW o \in Refs, Closes(o) PROVE UNCHANGED pendingMerges
  BY <1>5, ClosesEffect
<1>6. ASSUME NEW p \in Repos, OpenCommit(p)
      PROVE UNCHANGED pendingMerges \/ \E o \in Refs : Opens(o)
  <2>1. UNCHANGED gitVars \/ (currentRef[p] = NoRef /\ \E o \in ModifiedIn(p) :
                                OpenRef(o, revnum) /\ UNCHANGED modifiedRefs)
    BY <1>6 DEF OpenCommit
  <2>2. phase = "open"
    BY <1>6 DEF OpenCommit
  <2> QED  BY <2>1, <2>2 DEF Opens, ModifiedIn, SafetyInv, TypeOK, GitTypeOK, gitVars, refVars
<1>7. ASSUME NEW s \in SvnFiles, ConvertFile(s)
      PROVE UNCHANGED pendingMerges \/ \E o \in Refs : Opens(o)
  BY <1>7, ConvertFileKind DEF openVars, refVars
<1>8. ASSUME NEW p \in Repos, CloseCommit(p)
      PROVE UNCHANGED pendingMerges \/ \E o \in Refs : Closes(o)
  BY <1>8, CloseCommitKind DEF gitVars, refVars
<1>9. ASSUME NEW p \in Repos, PrepareRepo(p) PROVE UNCHANGED pendingMerges
  BY <1>9 DEF PrepareRepo, PrepareToCloseCommit, gitVars, refVars
<1>10. CASE \/ Bookkeeping \/ BeginRevision \/ UNCHANGED vars
            \/ \E m \in invalid : InvalidateRule(m)
            \/ \E c \in changes : ProcessChange(c)
  BY <1>10 DEF Bookkeeping, BeginPhaseII, BeginPass, GiveUp, NextLoop, EndPass, OpenNothing,
     BeginRevision, InvalidateRule, ProcessChange, vars, gitVars, refVars
<1> QED
  BY <1>2, <1>3, <1>4, <1>5, <1>6, <1>7, <1>8, <1>9, <1>10 DEF Next, Bookkeeping, Finished

\* Phase I collects the copies that SVN has reported.
LEMMA CopiesReported ==
  ASSUME SafetyInv, [Next]_vars, ~ BeginRevision
  PROVE  changes' \cup copies' \subseteq changes \cup copies
<1>1. CASE \/ \E m \in invalid : InvalidateRule(m)
           \/ \E c \in changes : ProcessChange(c)
           \/ \E s \in toMerge : DiscoverMerge(s)
  BY <1>1 DEF InvalidateRule, ProcessChange, DiscoverMerge
<1>2. CASE UNCHANGED <<changes, copies>>
  BY <1>2
<1>3. phase # "discover" => UNCHANGED <<changes, copies>>
  BY RevisionEndsOnce DEF phaseIVars
<1>4. CASE phase = "discover" /\ (Bookkeeping \/ UNCHANGED vars)
  BY <1>4 DEF Bookkeeping, BeginPhaseII, BeginPass, GiveUp, NextLoop, EndPass, OpenNothing,
     vars, rest, phaseIVars
<1> QED
  BY <1>1, <1>2, <1>3, <1>4 DEF Next, Bookkeeping, Finished, OpenCommit, OpenNothing,
     PrepareRepo, CloseCommit, ConvertFile

\* A file that SVN has at the end of a revision, and that a rule maps, has been
\* committed: it was written in this revision, or it was there before.
LEMMA LastPassMarks ==
  ASSUME RevisionInv, FilesInv, SourcesInv, EndPass, phase' = "idle",
         NEW s \in SvnFiles, svn[revnum][s] # 0, NEW m, m = Match(s, revnum), m # NoRule
  PROVE  \E w \in 1..revnum : marks[m.ref][w] # 0
<1>1. /\ phase = "close" /\ ~ Marking /\ modifiedRefs = {} /\ SafetyInv /\ PendingInv /\ MarksInv
      /\ revnum \in Nat /\ revnum > 0 /\ revnum \in Revs /\ s \in SvnPaths
  <2>1. /\ SafetyInv /\ PendingInv /\ MarksInv /\ phase = "close" /\ ~ Marking
        /\ s \in SvnPaths /\ revnum \in Revs /\ changedRepos' = changedRepos \ closed
        /\ changedRepos' = {}
    BY PathAssumption DEF EndPass, Marking, RevisionInv, SafetyInv, TypeOK
  <2>2. revnum \in Nat /\ revnum > 0
    BY <2>1, TreeAssumption DEF Revs, MarksInv
  <2>3. {r.repo : r \in modifiedRefs} = {}
    BY <2>1 DEF SafetyInv, ReposMatchRefs
  <2> QED  BY <2>1, <2>2, <2>3
<1>2. m.ref \in Refs /\ GitPath[m][s] \in Files
  BY <1>1, MatchType
<1>3. CASE s \in toConvert
  <2>1. tree[m.ref].files[GitPath[m][s]] # 0
    BY <1>1, <1>3, SettledPlaces DEF Written
  <2>2. PICK w \in 1..MaxRev : marks[m.ref][w] # 0
    BY <1>2, <2>1 DEF FilesInv
  <2>3. w <= revnum
    BY <1>1, <1>2, <2>2 DEF MarksInv
  <2> QED  BY <1>1, <2>2, <2>3
<1>4. CASE s \notin toConvert
  <2>1. ~ WillConvert(s)
    BY <1>1, SettledPlaces
  <2>2. svn[revnum - 1][s] # 0 /\ Match(s, revnum - 1) = m
    BY <1>1, <1>4, <2>1 DEF FilesInv, KeptInv
  <2>3. revnum - 1 \in 1..revnum /\ revnum - 1 # revnum
    <3>1. revnum - 1 # 0
      BY <2>2 DEF FilesInv
    <3> QED  BY <1>1, <3>1
  <2>4. PICK w \in 1..(revnum - 1) : marks[m.ref][w] # 0
    BY <2>2, <2>3 DEF SourcesInv
  <2> QED  BY <1>1, <2>4
<1> QED  BY <1>3, <1>4

\* A new revision copies from earlier ones.
LEMMA BeginRevisionSources ==
  ASSUME SafetyInv, SourcesInv, BeginRevision
  PROVE  SourcesInv'
<1>1. /\ phase = "idle" /\ phase' # "idle" /\ revnum < MaxRev /\ revnum' = revnum + 1
      /\ UNCHANGED gitVars /\ revnum \in 0..MaxRev /\ MaxRev \in Nat /\ copies' = {}
      /\ revnum \in Revs
  BY TreeAssumption DEF BeginRevision, SafetyInv, TypeOK, Revs
<1>2. \A v \in 1..revnum : svn'[v] = svn[v]
  <2>1. revnum + 1 \in Revs /\ svn \in [Revs -> [SvnFiles -> Contents \cup {0}]]
    BY <1>1 DEF SafetyInv, TypeOK, Revs
  <2>2. \A v \in 1..revnum : v \in Revs /\ v # revnum + 1
    BY <1>1 DEF Revs
  <2> QED  BY <2>1, <2>2 DEF BeginRevision
<1>3. \A c \in changes' \cup copies' : c.rev < revnum'
  <2>1. changes' \subseteq Reportable
    BY BeginRevisionInputs
  <2>2. \A c \in changes' : c.rev <= revnum /\ c.rev \in Revs
    BY <1>1, <2>1, ReportableType, ReportType
  <2> QED  BY <1>1, <2>2 DEF Revs
<1>4. ASSUME NEW v \in 1..revnum', NEW s \in SvnFiles, NEW m, m = Match(s, v),
             svn'[v][s] # 0, m # NoRule, v = revnum' => phase' = "idle"
      PROVE  \E w \in 1..v : marks'[m.ref][w] # 0
  <2>1. v \in 1..revnum
    BY <1>1, <1>4
  <2>2. \E w \in 1..v : marks[m.ref][w] # 0
    BY <1>1, <1>2, <1>4, <2>1 DEF SourcesInv
  <2> QED  BY <1>1, <2>2 DEF gitVars
<1>5. \A r, q \in Refs : pendingMerges'[r][q] # 0 => pendingMerges'[r][q] < revnum'
  <2>1. pendingMerges \in [Refs -> [Refs -> Revs]]
    BY DEF SafetyInv, TypeOK, GitTypeOK
  <2> SUFFICES ASSUME NEW r \in Refs, NEW q \in Refs, pendingMerges[r][q] # 0
               PROVE  pendingMerges[r][q] < revnum'
    BY <1>1 DEF gitVars, refVars
  <2>2. pendingMerges[r][q] \in 0..MaxRev
    BY <2>1 DEF Revs
  <2> QED  BY <1>1, <2>2 DEF SourcesInv
<1> QED  BY <1>3, <1>4, <1>5 DEF SourcesInv

\* No step loses a source.
LEMMA SourcesStep ==
  ASSUME RevisionInv, FilesInv, SourcesInv, [Next]_vars
  PROVE  SourcesInv'
<1>1. SafetyInv /\ PendingInv /\ MarksInv /\ revnum \in 0..MaxRev /\ MaxRev \in Nat
      /\ SvnFiles \subseteq SvnPaths /\ Revs = 0..MaxRev
  BY TreeAssumption, PathAssumption DEF RevisionInv, SafetyInv, TypeOK, Revs
<1>2. CASE BeginRevision
  BY <1>1, <1>2, BeginRevisionSources
<1>3. CASE ~ BeginRevision
  <2>1. /\ UNCHANGED <<svn, revnum>>
        /\ phase = "idle" => UNCHANGED vars
        /\ phase # "idle" /\ phase' = "idle" => EndPass
    BY <1>1, <1>3, RevisionEndsOnce
  <2>2. \A r \in Refs, v \in 1..MaxRev : v < revnum => marks'[r][v] = marks[r][v]
    BY <1>1, MarksChange
  <2>3. ASSUME NEW v \in 1..revnum, NEW s \in SvnFiles, NEW m, m = Match(s, v),
               svn[v][s] # 0, m # NoRule, v = revnum => phase' = "idle"
        PROVE  \E w \in 1..v : marks'[m.ref][w] # 0
    <3>1. m.ref \in Refs
      BY <1>1, <2>3, MatchType
    <3>2. CASE v < revnum
      <4>1. PICK w \in 1..v : marks[m.ref][w] # 0
        BY <1>1, <2>3, <3>2 DEF SourcesInv
      <4>2. w \in 1..MaxRev /\ w < revnum
        BY <1>1, <3>2
      <4> QED  BY <2>2, <3>1, <4>1, <4>2
    <3>3. CASE v = revnum /\ phase = "idle"
      BY <2>1, <2>3, <3>3 DEF SourcesInv, vars, gitVars
    <3>4. CASE v = revnum /\ phase # "idle"
      <4>1. EndPass /\ UNCHANGED marks
        BY <2>1, <2>3, <3>4 DEF EndPass, gitVars
      <4> QED  BY <2>3, <3>4, <4>1, LastPassMarks
    <3> QED  BY <1>1, <3>2, <3>3, <3>4
  <2>4. \A c \in changes' \cup copies' : c.rev < revnum
    BY <1>1, <1>3, CopiesReported DEF SourcesInv
  <2>5. ASSUME NEW r \in Refs, NEW q \in Refs, pendingMerges'[r][q] # 0
        PROVE  pendingMerges'[r][q] < revnum
    <3>1. CASE pendingMerges'[r][q] = pendingMerges[r][q]
      BY <2>5, <3>1 DEF SourcesInv
    <3>2. CASE \E k \in copies : pendingMerges'[r][q] = k.rev
      BY <3>2 DEF SourcesInv
    <3> QED  BY <1>1, <2>5, <3>1, <3>2, PendingMergesKinds
  <2> QED  BY <2>1, <2>3, <2>4, <2>5 DEF SourcesInv
<1> QED  BY <1>2, <1>3

-----------------------------------------------------------------------------
(* LinksInv.                                                               *)

LEMMA LinksInit == Init => LinksInv
<1> SUFFICES ASSUME Init PROVE LinksInv
  OBVIOUS
<1>1. /\ submoduleRefs = [r \in Refs |-> {}] /\ changedSubs = [r \in Refs |-> {}]
      /\ staleSubs = [r \in Refs |-> {}] /\ prepared = [p \in Repos |-> FALSE]
      /\ modifiedRefs = {} /\ marks = [r \in Refs |-> [v \in 1..MaxRev |-> 0]]
      /\ tree = [r \in Refs |-> EmptyTree]
  BY DEF Init, GitInit
<1>2. \A r \in Refs : /\ \A p \in Repos : tree[r].links[p] = 0
                      /\ tree[r].modules = {}
  BY <1>1 DEF EmptyTree
<1>3. MaxRev \in 0..MaxRev
  BY TreeAssumption
<1>4. \A r \in Refs : FinishedMark(r) = 0
  <2> TAKE r \in Refs
  <2>1. marks[r] \in [1..MaxRev -> Nat] /\ \A v \in 1..MaxRev : marks[r][v] = 0
    BY <1>1
  <2>2. LastOf(marks[r], MaxRev) = 0
    BY <1>3, <2>1, LastOfIsLast
  <2> QED  BY <1>1, <2>2, MarkUpToIsLastOf DEF FinishedMark, LatestMark
<1>5. \A s \in Refs : SubRefs(s) \subseteq Refs /\ \A q \in SubRefs(s) : q.repo \in Repos
  BY DEF SubRefs, Refs
<1> QED  BY <1>1, <1>2, <1>4, <1>5 DEF LinksInv, Linked

\* A submodule ref is named like its super-module ref.
LEMMA SubRefName ==
  ASSUME NEW s \in Refs, NEW q \in SubRefs(s)
  PROVE  /\ q \in Refs /\ q.repo \in Repos /\ SuperRef(q) = s /\ q # s
         /\ q = [repo |-> q.repo, name |-> s.name]
<1>1. q \in Refs /\ SuperRef(q) = s /\ s # NoRef
  BY RepositoryAssumption DEF SubRefs
<1>2. s.name = q.name
  BY <1>1 DEF SuperRef, Refs
<1>3. q = [repo |-> q.repo, name |-> q.name] /\ q.repo \in Repos
  BY <1>1 DEF Refs
<1> QED  BY <1>1, <1>2, <1>3, NestingAssumption

\* A ref with a mark has a latest one.
LEMMA LatestExists ==
  ASSUME SafetyInv, NEW q \in Refs, NEW w \in 1..MaxRev, marks[q][w] # 0
  PROVE  LatestMark(q) # 0
<1>1. marks[q] \in [1..MaxRev -> Nat] /\ MaxRev \in 0..MaxRev
  BY TreeAssumption DEF SafetyInv, TypeOK, GitTypeOK
<1>2. LastOf(marks[q], MaxRev) # 0
  BY <1>1, LastOfIsLast
<1> QED  BY <1>2, MarkUpToIsLastOf DEF LatestMark

\* FinishedMark as a lookup.
LEMMA FinishedIsLastOf ==
  \A q : /\ FinishedMark(q) = LastOf(marks[q], IF q \in modifiedRefs THEN revnum - 1 ELSE MaxRev)
         /\ FinishedMark(q)' = LastOf(marks'[q], IF q \in modifiedRefs' THEN revnum' - 1 ELSE MaxRev)
BY MarkUpToIsLastOf DEF FinishedMark, LatestMark

\* Marking a ref, and opening its commit, leave its last finished commit.
LEMMA WritingMarks ==
  ASSUME RevisionInv, Writing, NEW q \in Refs
  PROVE  /\ FinishedMark(q)' = FinishedMark(q)
         /\ \A w \in 1..MaxRev : marks[q][w] # 0 => marks'[q][w] = marks[q][w]
         /\ q \notin modifiedRefs /\ q \in modifiedRefs' => revnum \in 1..MaxRev /\ marks[q][revnum] = 0
         /\ \A w \in 1..MaxRev : w # revnum => marks'[q][w] = marks[q][w]
<1>1. /\ SafetyInv /\ MarksInv /\ marks \in [Refs -> [1..MaxRev -> Nat]]
      /\ MaxRev \in Nat /\ revnum \in 0..MaxRev
      /\ modifiedRefs \subseteq modifiedRefs' /\ (modifiedRefs' # modifiedRefs => Marking)
      /\ UNCHANGED revnum
  BY TreeAssumption DEF RevisionInv, SafetyInv, TypeOK, GitTypeOK, Revs, Writing, Forward
<1>2. IsOpen(q) => q \in modifiedRefs
  BY <1>1, RepositoryAssumption DEF IsOpen, SafetyInv, OpenInv, ModifiedIn, Refs
<1>3. phase # "idle" => revnum \in 1..MaxRev
  BY <1>1 DEF MarksInv
<1>4. q \notin modifiedRefs /\ q \in modifiedRefs' => revnum \in 1..MaxRev /\ marks[q][revnum] = 0
  BY <1>1, <1>2, <1>3 DEF MarksInv, Marking
<1>5. /\ \A w \in 1..MaxRev : marks[q][w] # 0 => marks'[q][w] = marks[q][w]
      /\ \A w \in 1..MaxRev : w # revnum => marks'[q][w] = marks[q][w]
      /\ marks' = marks \/ (q \notin modifiedRefs' => marks'[q] = marks[q])
      /\ marks'[q] \in [1..MaxRev -> Nat]
  <2>1. CASE UNCHANGED marks
    BY <1>1, <2>1
  <2>2. ASSUME NEW r \in Refs, Opens(r)
        PROVE  /\ \A w \in 1..MaxRev : marks[q][w] # 0 => marks'[q][w] = marks[q][w]
               /\ \A w \in 1..MaxRev : w # revnum => marks'[q][w] = marks[q][w]
               /\ marks' = marks \/ (q \notin modifiedRefs' => marks'[q] = marks[q])
               /\ marks'[q] \in [1..MaxRev -> Nat]
    <3>1. /\ marks[r][revnum] = 0 /\ revnum \in 1..MaxRev /\ lastMark[r.repo] \in Nat
          /\ marks' = [marks EXCEPT ![r][revnum] = lastMark[r.repo] + 1]
          /\ r \in modifiedRefs'
      BY <1>1, <2>2, OpensEffect DEF Opens
    <3> QED  BY <1>1, <3>1
  <2> QED  BY <2>1, <2>2 DEF Writing
<1>6. FinishedMark(q)' = FinishedMark(q)
  <2>1. CASE q \notin modifiedRefs'
    <3>1. q \notin modifiedRefs /\ marks'[q] = marks[q]
      BY <1>1, <1>5, <2>1
    <3> QED  BY <2>1, <3>1, FinishedIsLastOf
  <2>2. CASE q \in modifiedRefs'
    <3> DEFINE n == IF q \in modifiedRefs THEN revnum - 1 ELSE MaxRev
    <3>1. phase # "idle" /\ revnum \in 1..MaxRev
      <4>1. q \in modifiedRefs \/ Marking
        BY <1>1, <2>2
      <4>2. phase # "idle"
        BY <1>1, <4>1, IdleClosed DEF Marking
      <4> QED  BY <1>3, <4>2
    <3>2. n \in 0..MaxRev /\ revnum - 1 \in 0..MaxRev
      BY <1>1, <3>1
    <3>3. \A w \in 1..MaxRev : (IF w <= revnum - 1 THEN marks'[q][w] ELSE 0)
                                 = (IF w <= n THEN marks[q][w] ELSE 0)
      <4> TAKE w \in 1..MaxRev
      <4>1. CASE w <= revnum - 1
        BY <1>1, <1>5, <3>1, <4>1
      <4>2. CASE w = revnum
        BY <1>1, <1>4, <2>2, <3>1, <4>2
      <4>3. CASE w > revnum
        BY <1>1, <3>1, <4>3 DEF MarksInv
      <4> QED  BY <1>1, <4>1, <4>2, <4>3
    <3>4. marks[q] \in [1..MaxRev -> Nat] /\ marks'[q] \in [1..MaxRev -> Nat]
      BY <1>1, <1>5
    <3> HIDE DEF n
    <3>5. LastOf(marks'[q], revnum - 1) = LastOf(marks[q], n)
      BY <3>2, <3>3, <3>4, LastOfSame
    <3> QED  BY <1>1, <2>2, <3>5, FinishedIsLastOf DEF n
  <2> QED  BY <2>1, <2>2
<1> QED  BY <1>4, <1>5, <1>6

\* The deletions that open_commit writes take links away only of submodule refs that
\* become stale.
LEMMA OpensLinks ==
  ASSUME SafetyInv, LinksInv, NEW r \in Refs, Opens(r), Others(tree'[r]) = Others(AfterDeletions(r))
  PROVE  /\ staleSubs[r] \subseteq staleSubs'[r] /\ staleSubs'[r] \subseteq submoduleRefs[r]
         /\ \A s \in Refs \ {r} : staleSubs'[s] = staleSubs[s]
         /\ \A p \in Repos : [repo |-> p, name |-> r.name] \notin staleSubs'[r] =>
                               tree'[r].links[p] = tree[r].links[p]
         /\ \A p \in Repos : tree[r].links[p] = 0 => tree'[r].links[p] = 0
         /\ staleSubs'[r] = {} => tree'[r].modules = {p \in Repos : tree'[r].links[p] # 0}
<1> DEFINE in(p) == [repo |-> p, name |-> r.name]
           covered == {q \in submoduleRefs[r] : q.repo \in Gone(r)}
<1>1. staleSubs' = [staleSubs EXCEPT ![r] = staleSubs[r] \cup covered]
  BY DEF Opens, OpenRef, Gone
<1>2. staleSubs \in [Refs -> SUBSET Refs] /\ submoduleRefs[r] \subseteq Refs
      /\ staleSubs[r] \subseteq submoduleRefs[r]
  BY DEF SafetyInv, TypeOK, GitTypeOK, LinksInv
<1>3. /\ staleSubs'[r] = staleSubs[r] \cup covered
      /\ \A s \in Refs \ {r} : staleSubs'[s] = staleSubs[s]
  BY <1>1, <1>2
<1>4. /\ \A p \in Repos : tree'[r].links[p] = IF p \in Gone(r) THEN 0 ELSE tree[r].links[p]
      /\ tree'[r].modules = IF RootPath \in pendingDeletions[r] THEN {} ELSE tree[r].modules
  BY DEF Others, AfterDeletions, Gone
<1>5. \A p \in Repos : in(p) \notin submoduleRefs[r] => tree[r].links[p] = 0
  BY DEF LinksInv
<1>6. \A p \in Repos : in(p) \notin staleSubs'[r] => tree'[r].links[p] = tree[r].links[p]
  BY <1>3, <1>4, <1>5
<1>7. ASSUME staleSubs'[r] = {}
      PROVE  tree'[r].modules = {p \in Repos : tree'[r].links[p] # 0}
  <2>1. \A p \in Repos : tree'[r].links[p] = tree[r].links[p]
    BY <1>6, <1>7
  <2>2. tree[r].modules = {p \in Repos : tree[r].links[p] # 0}
    BY <1>3, <1>7 DEF LinksInv, Linked
  <2>3. CASE RootPath \in pendingDeletions[r]
    <3>1. Repos \subseteq Gone(r)
      BY <2>3, TreeAssumption DEF Gone
    <3> QED  BY <1>4, <2>3, <3>1
  <2> QED  BY <1>4, <2>1, <2>2, <2>3
<1> QED  BY <1>2, <1>3, <1>4, <1>6, <1>7

LEMMA WritingLinks ==
  ASSUME RevisionInv, LinksInv, Writing
  PROVE  LinksInv'
<1>1. /\ SafetyInv /\ UNCHANGED <<revnum, submoduleRefs, prepared>>
      /\ modifiedRefs \subseteq modifiedRefs' /\ revnum \in 0..MaxRev /\ MaxRev \in Nat
      /\ \A s \in Refs : changedSubs'[s] \ modifiedRefs' = changedSubs[s] \ modifiedRefs
  BY TreeAssumption DEF Writing, Forward, RevisionInv, SafetyInv, TypeOK, Revs
<1>2. \A s \in Refs : submoduleRefs[s] \subseteq Refs /\ changedSubs[s] \subseteq Refs
  BY <1>1 DEF SafetyInv, TypeOK, GitTypeOK
<1>3. \A s \in Refs : \A q \in submoduleRefs'[s] :
        \E w \in 1..revnum' : marks'[q][w] # 0 /\ (w = revnum' => q \notin modifiedRefs')
  <2> SUFFICES ASSUME NEW s \in Refs, NEW q \in submoduleRefs[s]
               PROVE  \E w \in 1..revnum : marks'[q][w] # 0 /\ (w = revnum => q \notin modifiedRefs')
    BY <1>1
  <2>1. PICK w \in 1..revnum : marks[q][w] # 0 /\ (w = revnum => q \notin modifiedRefs)
    BY DEF LinksInv
  <2>2. q \in Refs /\ w \in 1..MaxRev
    BY <1>1, <1>2
  <2>3. marks'[q][w] # 0 /\ (q \notin modifiedRefs /\ q \in modifiedRefs' => marks[q][revnum] = 0)
    BY <2>1, <2>2, WritingMarks
  <2> QED  BY <2>1, <2>3
<1>4. \A s \in Refs : \A q \in changedSubs'[s] \ modifiedRefs' : marks'[q][revnum'] # 0
  <2> SUFFICES ASSUME NEW s \in Refs, NEW q \in changedSubs[s] \ modifiedRefs
               PROVE  marks'[q][revnum] # 0
    BY <1>1
  <2>1. marks[q][revnum] # 0 /\ q \in Refs
    BY <1>2 DEF LinksInv
  <2>2. revnum \in 1..MaxRev
    <3>1. s \in modifiedRefs
      BY <1>1 DEF SafetyInv, MarkedTogether
    <3>2. phase # "idle"
      BY <1>1, <3>1, IdleClosed
    <3> QED  BY <1>1, <3>2 DEF RevisionInv, MarksInv
  <2> QED  BY <2>1, <2>2, WritingMarks
<1>5. \A s \in Refs : \A q \in SubRefs(s) : FinishedMark(q)' = FinishedMark(q) /\ q \in Refs
  BY SubRefName, WritingMarks
<1>6. CASE /\ UNCHANGED <<currentRef, marks, staleSubs, attrsOutdated>>
           /\ \A q \in Refs : Others(tree'[q]) = Others(tree[q])
  <2>1. \A q \in Refs : tree'[q].links = tree[q].links /\ tree'[q].modules = tree[q].modules
    BY <1>6 DEF Others
  <2>2. \A s \in Refs : Linked(s)' = Linked(s)
    BY <2>1 DEF Linked
  <2>3. \A q : LatestMark(q)' = LatestMark(q)
    BY <1>6 DEF LatestMark, MarkUpTo
  <2>4. \A p \in Repos : prepared[p] => currentRef[p] \in Refs
    BY <1>1 DEF SafetyInv, OpenInv, TypeOK, GitTypeOK
  <2>5. \A s \in Refs :
          \A q \in SubRefs(s) \ (staleSubs'[s] \cup (changedSubs'[s] \ modifiedRefs')) :
            tree'[s].links[q.repo] = FinishedMark(q)'
    BY <1>1, <1>5, <1>6, <2>1 DEF LinksInv
  <2>6. \A s \in Refs, p \in Repos :
          [repo |-> p, name |-> s.name] \notin submoduleRefs'[s] => tree'[s].links[p] = 0
    BY <1>1, <2>1 DEF LinksInv
  <2>7. \A s \in Refs : staleSubs'[s] = {} => tree'[s].modules = Linked(s)'
    BY <1>6, <2>1, <2>2 DEF LinksInv
  <2>8. \A p \in Repos : prepared'[p] =>
          /\ staleSubs'[currentRef'[p]] = {}
          /\ \A q \in SubRefs(currentRef'[p]) :
               tree'[currentRef'[p]].links[q.repo] = LatestMark(q)'
    BY <1>1, <1>6, <2>1, <2>3, <2>4 DEF LinksInv
  <2>9. \A s \in Refs : staleSubs'[s] \subseteq submoduleRefs'[s]
                        /\ submoduleRefs'[s] \subseteq SubRefs(s)
    BY <1>1, <1>6 DEF LinksInv
  <2> QED  BY <1>3, <1>4, <2>5, <2>6, <2>7, <2>8, <2>9 DEF LinksInv, SubRefs
<1>7. ASSUME NEW r \in Refs, Opens(r), Others(tree'[r]) = Others(AfterDeletions(r)),
             \A q \in Refs \ {r} : tree'[q] = tree[q]
      PROVE  LinksInv'
  <2>1. /\ staleSubs[r] \subseteq staleSubs'[r] /\ staleSubs'[r] \subseteq submoduleRefs[r]
        /\ \A s \in Refs \ {r} : staleSubs'[s] = staleSubs[s]
        /\ \A p \in Repos : [repo |-> p, name |-> r.name] \notin staleSubs'[r] =>
                              tree'[r].links[p] = tree[r].links[p]
        /\ \A p \in Repos : tree[r].links[p] = 0 => tree'[r].links[p] = 0
        /\ staleSubs'[r] = {} => tree'[r].modules = {p \in Repos : tree'[r].links[p] # 0}
    BY <1>1, <1>7, OpensLinks
  <2>2. \A s \in Refs : staleSubs'[s] \subseteq submoduleRefs'[s]
                        /\ submoduleRefs'[s] \subseteq SubRefs(s)
    BY <1>1, <2>1 DEF LinksInv
  <2>3. \A s \in Refs :
          \A q \in SubRefs(s) \ (staleSubs'[s] \cup (changedSubs'[s] \ modifiedRefs')) :
            tree'[s].links[q.repo] = FinishedMark(q)'
    <3> SUFFICES ASSUME NEW s \in Refs, NEW q \in SubRefs(s), q \notin staleSubs'[s],
                        q \notin changedSubs[s] \ modifiedRefs
                 PROVE  tree'[s].links[q.repo] = FinishedMark(q)
      BY <1>1, <1>5
    <3>1. q \notin staleSubs[s]
      BY <2>1
    <3>2. tree[s].links[q.repo] = FinishedMark(q)
      BY <3>1 DEF LinksInv
    <3>3. CASE s = r
      <4>1. q = [repo |-> q.repo, name |-> r.name] /\ q.repo \in Repos
        BY <3>3, SubRefName
      <4> QED  BY <2>1, <3>2, <3>3, <4>1
    <3>4. CASE s # r
      BY <1>7, <3>2, <3>4
    <3> QED  BY <3>3, <3>4
  <2>4. \A s \in Refs, p \in Repos :
          [repo |-> p, name |-> s.name] \notin submoduleRefs'[s] => tree'[s].links[p] = 0
    BY <1>1, <1>7, <2>1 DEF LinksInv
  <2>5. \A s \in Refs : staleSubs'[s] = {} => tree'[s].modules = Linked(s)'
    <3> TAKE s \in Refs
    <3>1. CASE s = r
      BY <2>1, <3>1 DEF Linked
    <3>2. CASE s # r
      BY <1>7, <2>1, <3>2 DEF LinksInv, Linked
    <3> QED  BY <3>1, <3>2
  <2>6. \A p \in Repos : ~ prepared'[p]
    BY <1>1, <1>7 DEF Opens, SafetyInv, OpenInv
  <2>7. \A s : SubRefs(s)' = SubRefs(s)
    BY DEF SubRefs
  <2> QED  BY <1>3, <1>4, <2>2, <2>3, <2>4, <2>5, <2>6 DEF LinksInv, SubRefs
<1> QED  BY <1>6, <1>7 DEF Writing

\* A new revision changes no link, and is not yet the latest of any mark.
LEMMA BeginRevisionLinks ==
  ASSUME SafetyInv, LinksInv, BeginRevision
  PROVE  LinksInv'
<1>1. /\ phase = "idle" /\ revnum' = revnum + 1 /\ UNCHANGED gitVars
      /\ revnum \in Nat
  BY TreeAssumption DEF BeginRevision, SafetyInv, TypeOK, Revs
<1>2. modifiedRefs = {} /\ \A s \in Refs : changedSubs[s] = {}
  BY <1>1, IdleClosed DEF SafetyInv, MarkedTogether
<1>3. \A q : LatestMark(q)' = LatestMark(q) /\ FinishedMark(q)' = FinishedMark(q)
  BY <1>1, <1>2 DEF FinishedMark, LatestMark, MarkUpTo, gitVars
<1>4. \A w \in 1..revnum : w \in 1..revnum'
  BY <1>1
<1> QED  BY <1>1, <1>2, <1>3, <1>4 DEF LinksInv, Linked, gitVars, SubRefs

\* The links that prepare_to_close_commit writes are the latest commits of the
\* submodule refs, none of which will be written again.
LEMMA PreparedLinks ==
  ASSUME RevisionInv, LinksInv, NEW r \in modifiedRefs, CanClose(r)
  PROVE  LET R == submoduleRefs[r] \cup SubRefsToWrite(r)
         IN  /\ R \subseteq SubRefs(r)
             /\ \A q \in SubRefs(r) : /\ q \notin modifiedRefs
                                      /\ PreparedTree(r).links[q.repo] = LatestMark(q)
             /\ \A q \in R : \E w \in 1..revnum : marks[q][w] # 0
             /\ \A p \in Repos : [repo |-> p, name |-> r.name] \notin R =>
                                   PreparedTree(r).links[p] = 0
             /\ PreparedTree(r).modules = {p \in Repos : PreparedTree(r).links[p] # 0}
<1> DEFINE in(p) == [repo |-> p, name |-> r.name]
           subs == SubRefsToWrite(r)
           R == submoduleRefs[r] \cup subs
           t == PreparedTree(r)
<1>1. /\ SafetyInv /\ r \in Refs /\ tree[r] \in Trees /\ revnum \in 0..MaxRev /\ MaxRev \in Nat
      /\ submoduleRefs[r] \subseteq Refs /\ subs \subseteq Refs
  BY TreeAssumption DEF RevisionInv, SafetyInv, TypeOK, GitTypeOK, SubRefsToWrite, Revs
<1>2. \A q \in SubRefs(r) : q \notin modifiedRefs
  BY <1>1, CanCloseMeansDone DEF SubRefs
<1>3. changedSubs[r] \subseteq SubRefs(r)
  BY <1>1 DEF SafetyInv, TypeOK, GitTypeOK, MarkedTogether, SubRefs
<1>4. R \subseteq SubRefs(r)
  BY <1>1, <1>3 DEF LinksInv, SubRefsToWrite
<1>5. revnum \in 1..revnum
  <2>1. phase # "idle"
    BY <1>1, IdleClosed
  <2> QED  BY <1>1, <2>1 DEF RevisionInv, MarksInv
<1>6. \A q \in R : \E w \in 1..revnum : marks[q][w] # 0
  <2> SUFFICES ASSUME NEW q \in R PROVE \E w \in 1..revnum : marks[q][w] # 0
    OBVIOUS
  <2>1. CASE q \in submoduleRefs[r]
    BY <1>1, <2>1 DEF LinksInv
  <2>2. CASE q \in changedSubs[r]
    <3>1. q \in changedSubs[r] \ modifiedRefs
      BY <1>2, <1>3, <2>2
    <3> QED  BY <1>1, <1>5, <3>1 DEF LinksInv
  <2>3. staleSubs[r] \subseteq submoduleRefs[r]
    BY <1>1 DEF LinksInv
  <2> QED  BY <2>1, <2>2, <2>3 DEF SubRefsToWrite
<1>7. /\ \A p \in Repos : t.links[p] = IF in(p) \in subs THEN LatestMark(in(p)) ELSE tree[r].links[p]
      /\ t.modules = IF subs = {} THEN tree[r].modules ELSE {q.repo : q \in R}
  BY <1>1 DEF PreparedTree, Trees
<1>8. \A q \in SubRefs(r) : q.repo \in Repos /\ q = in(q.repo)
  BY <1>1, SubRefName
<1> HIDE DEF t
<1>9. \A q \in SubRefs(r) : t.links[q.repo] = LatestMark(q)
  <2> TAKE q \in SubRefs(r)
  <2>1. CASE q \in subs
    BY <1>7, <1>8, <2>1
  <2>2. CASE q \notin subs
    <3>1. q \notin staleSubs[r] \cup (changedSubs[r] \ modifiedRefs)
      BY <2>2 DEF SubRefsToWrite
    <3>2. tree[r].links[q.repo] = FinishedMark(q)
      BY <1>1, <3>1 DEF LinksInv
    <3> QED  BY <1>2, <1>7, <1>8, <2>2, <3>2 DEF FinishedMark
  <2> QED  BY <2>1, <2>2
<1>10. \A p \in Repos : in(p) \notin R => t.links[p] = 0
  BY <1>1, <1>7 DEF LinksInv
<1>11. \A q \in R : t.links[q.repo] # 0
  <2> TAKE q \in R
  <2>1. PICK w \in 1..revnum : marks[q][w] # 0
    BY <1>6
  <2>2. w \in 1..MaxRev /\ q \in Refs
    BY <1>1
  <2>3. LatestMark(q) # 0
    BY <1>1, <2>1, <2>2, LatestExists
  <2> QED  BY <1>4, <1>9, <2>3
<1>12. t.modules = {p \in Repos : t.links[p] # 0}
  <2>1. CASE subs = {}
    <3>1. staleSubs[r] = {}
      BY <2>1 DEF SubRefsToWrite
    <3>2. tree[r].modules = {p \in Repos : tree[r].links[p] # 0}
      BY <1>1, <3>1 DEF LinksInv, Linked
    <3> QED  BY <1>7, <2>1, <3>2
  <2>2. CASE subs # {}
    <3>1. t.modules = {q.repo : q \in R}
      BY <1>7, <2>2
    <3>2. \A p \in Repos : t.links[p] # 0 => in(p) \in R
      BY <1>10
    <3>3. \A p \in Repos : in(p).repo = p
      OBVIOUS
    <3>4. \A q \in R : q.repo \in Repos
      BY <1>4, <1>8
    <3> HIDE DEF R, in
    <3> QED  BY <1>11, <3>1, <3>2, <3>3, <3>4
  <2> QED  BY <2>1, <2>2
<1> QED  BY <1>2, <1>4, <1>6, <1>9, <1>10, <1>12 DEF t

\* Preparing a commit writes the links it will be closed with.
LEMMA PreparesLinks ==
  ASSUME RevisionInv, LinksInv, NEW r \in Refs, Prepares(r)
  PROVE  LinksInv'
<1> DEFINE R == submoduleRefs[r] \cup SubRefsToWrite(r)
<1>1. /\ R \subseteq SubRefs(r)
      /\ \A q \in SubRefs(r) : /\ q \notin modifiedRefs
                               /\ PreparedTree(r).links[q.repo] = LatestMark(q)
      /\ \A q \in R : \E w \in 1..revnum : marks[q][w] # 0
      /\ \A p \in Repos : [repo |-> p, name |-> r.name] \notin R => PreparedTree(r).links[p] = 0
      /\ PreparedTree(r).modules = {p \in Repos : PreparedTree(r).links[p] # 0}
  BY PreparedLinks DEF Prepares
<1>2. /\ tree \in [Refs -> Trees] /\ prepared \in [Repos -> BOOLEAN]
      /\ submoduleRefs \in [Refs -> SUBSET Refs] /\ staleSubs \in [Refs -> SUBSET Refs]
      /\ OpenInv /\ currentRef \in [Repos -> Refs \cup {NoRef}]
  BY DEF RevisionInv, SafetyInv, TypeOK, GitTypeOK
<1>3. /\ tree' = [tree EXCEPT ![r] = PreparedTree(r)]
      /\ submoduleRefs' = [submoduleRefs EXCEPT ![r] = R]
      /\ staleSubs' = [staleSubs EXCEPT ![r] = {}]
      /\ prepared' = [prepared EXCEPT ![r.repo] = TRUE] /\ currentRef[r.repo] = r
      /\ UNCHANGED <<modifiedRefs, currentRef, marks, changedSubs, revnum>>
  BY DEF Prepares, PrepareRef, IsOpen
<1>4. /\ tree'[r] = PreparedTree(r) /\ submoduleRefs'[r] = R /\ staleSubs'[r] = {}
      /\ \A s \in Refs \ {r} : /\ tree'[s] = tree[s] /\ submoduleRefs'[s] = submoduleRefs[s]
                               /\ staleSubs'[s] = staleSubs[s]
      /\ \A p \in Repos : prepared'[p] =>
           currentRef[p] = r \/ (prepared[p] /\ currentRef[p] \in Refs)
  <2> HIDE DEF R
  <2>1. \A p \in Repos : prepared[p] => currentRef[p] \in Refs
    BY <1>2 DEF OpenInv
  <2> QED  BY <1>2, <1>3, <2>1
<1> HIDE DEF R
<1>5. \A q : LatestMark(q)' = LatestMark(q) /\ FinishedMark(q)' = FinishedMark(q)
  BY <1>3 DEF FinishedMark, LatestMark, MarkUpTo
<1>6. ASSUME NEW s \in Refs
      PROVE  /\ staleSubs'[s] \subseteq submoduleRefs'[s] /\ submoduleRefs'[s] \subseteq SubRefs(s)
             /\ \A q \in submoduleRefs'[s] :
                  \E w \in 1..revnum : marks[q][w] # 0 /\ (w = revnum => q \notin modifiedRefs)
             /\ \A q \in SubRefs(s) \ (staleSubs'[s] \cup (changedSubs[s] \ modifiedRefs)) :
                  tree'[s].links[q.repo] = FinishedMark(q)
             /\ \A p \in Repos :
                  [repo |-> p, name |-> s.name] \notin submoduleRefs'[s] => tree'[s].links[p] = 0
             /\ staleSubs'[s] = {} => tree'[s].modules = {p \in Repos : tree'[s].links[p] # 0}
  <2>1. CASE s = r
    BY <1>1, <1>4, <2>1 DEF FinishedMark
  <2>2. CASE s # r
    BY <1>4, <2>2 DEF LinksInv, Linked
  <2> QED  BY <2>1, <2>2
<1>7. ASSUME NEW p \in Repos, prepared'[p]
      PROVE  /\ staleSubs'[currentRef[p]] = {}
             /\ \A q \in SubRefs(currentRef[p]) :
                  tree'[currentRef[p]].links[q.repo] = LatestMark(q)
  <2>1. CASE currentRef[p] = r
    BY <1>1, <1>4, <2>1
  <2>2. CASE currentRef[p] # r
    <3>1. prepared[p] /\ currentRef[p] \in Refs \ {r}
      BY <1>4, <1>7, <2>2
    <3>2. /\ staleSubs[currentRef[p]] = {}
          /\ \A q \in SubRefs(currentRef[p]) :
               tree[currentRef[p]].links[q.repo] = LatestMark(q)
      BY <3>1 DEF LinksInv
    <3> QED  BY <1>4, <3>1, <3>2
  <2> QED  BY <2>1, <2>2
<1>8. \A s \in Refs : \A q \in changedSubs[s] \ modifiedRefs : marks[q][revnum] # 0
  BY DEF LinksInv
<1>9. /\ modifiedRefs' = modifiedRefs /\ currentRef' = currentRef /\ marks' = marks
      /\ changedSubs' = changedSubs /\ revnum' = revnum /\ \A s : SubRefs(s)' = SubRefs(s)
  BY <1>3 DEF SubRefs
<1>10. (\A s \in Refs : staleSubs[s] \subseteq submoduleRefs[s]
                        /\ submoduleRefs[s] \subseteq SubRefs(s))'
  BY <1>6, <1>9
<1>11. (\A s \in Refs : \A q \in submoduleRefs[s] :
          \E w \in 1..revnum : marks[q][w] # 0 /\ (w = revnum => q \notin modifiedRefs))'
  BY <1>6, <1>9
<1>12. (\A s \in Refs : \A q \in SubRefs(s) \ (staleSubs[s] \cup (changedSubs[s] \ modifiedRefs)) :
          tree[s].links[q.repo] = FinishedMark(q))'
  BY <1>5, <1>6, <1>9
<1>13. (\A s \in Refs, p \in Repos :
          [repo |-> p, name |-> s.name] \notin submoduleRefs[s] => tree[s].links[p] = 0)'
  BY <1>6
<1>14. (\A s \in Refs : staleSubs[s] = {} => tree[s].modules = Linked(s))'
  BY <1>6 DEF Linked
<1>15. (\A p \in Repos : prepared[p] =>
          /\ staleSubs[currentRef[p]] = {}
          /\ \A q \in SubRefs(currentRef[p]) :
               tree[currentRef[p]].links[q.repo] = LatestMark(q))'
  BY <1>5, <1>7, <1>9
<1> QED  BY <1>8, <1>9, <1>10, <1>11, <1>12, <1>13, <1>14, <1>15 DEF LinksInv

\* The links of the tree that a commit is closed with.
LEMMA ClosedLinks ==
  ASSUME RevisionInv, LinksInv, NEW r \in Refs, Closes(r)
  PROVE  /\ staleSubs' = [staleSubs EXCEPT ![r] = {}]
         /\ \A s \in Refs \ {r} : submoduleRefs'[s] = submoduleRefs[s]
         /\ submoduleRefs'[r] \subseteq SubRefs(r)
         /\ \A q \in SubRefs(r) : /\ q \notin modifiedRefs
                                  /\ ClosedTree(r).links[q.repo] = LatestMark(q)
         /\ \A q \in submoduleRefs'[r] : \E w \in 1..revnum : marks[q][w] # 0
         /\ \A p \in Repos : [repo |-> p, name |-> r.name] \notin submoduleRefs'[r] =>
                               ClosedTree(r).links[p] = 0
         /\ ClosedTree(r).modules = {p \in Repos : ClosedTree(r).links[p] # 0}
<1>1. /\ SafetyInv /\ r \in modifiedRefs /\ CanClose(r) /\ CloseRef(r, revnum)
      /\ r.repo \in Repos /\ currentRef[r.repo] = r
      /\ submoduleRefs \in [Refs -> SUBSET Refs]
  BY DEF Closes, RevisionInv, IsOpen, Refs, SafetyInv, TypeOK, GitTypeOK
<1>2. staleSubs' = [staleSubs EXCEPT ![r] = {}]
  BY <1>1, ClosesEffect
<1>3. \A q \in SubRefs(r) : q \notin modifiedRefs
  BY <1>1, CanCloseMeansDone DEF SubRefs
<1>4. CASE prepared[r.repo]
  <2>1. submoduleRefs' = submoduleRefs /\ ClosedTree(r) = tree[r]
    BY <1>1, <1>4 DEF CloseRef, ClosedTree
  <2>2. /\ staleSubs[r] = {}
        /\ \A q \in SubRefs(r) : tree[r].links[q.repo] = LatestMark(q)
    <3>1. \A p \in Repos : prepared[p] =>
            /\ staleSubs[currentRef[p]] = {}
            /\ \A q \in SubRefs(currentRef[p]) :
                 tree[currentRef[p]].links[q.repo] = LatestMark(q)
      BY DEF LinksInv
    <3> QED  BY <1>1, <1>4, <3>1
  <2>3. /\ submoduleRefs[r] \subseteq SubRefs(r)
        /\ \A q \in submoduleRefs[r] : \E w \in 1..revnum : marks[q][w] # 0
        /\ \A p \in Repos : [repo |-> p, name |-> r.name] \notin submoduleRefs[r] =>
                              tree[r].links[p] = 0
    BY DEF LinksInv
  <2>4. tree[r].modules = {p \in Repos : tree[r].links[p] # 0}
    BY <2>2 DEF LinksInv, Linked
  <2> QED  BY <1>2, <1>3, <2>1, <2>2, <2>3, <2>4
<1>5. CASE ~ prepared[r.repo]
  <2> DEFINE R == submoduleRefs[r] \cup SubRefsToWrite(r)
  <2>1. submoduleRefs' = [submoduleRefs EXCEPT ![r] = R] /\ ClosedTree(r) = PreparedTree(r)
    BY <1>1, <1>5 DEF CloseRef, PrepareRef, ClosedTree
  <2>2. /\ R \subseteq SubRefs(r)
        /\ \A q \in SubRefs(r) : PreparedTree(r).links[q.repo] = LatestMark(q)
        /\ \A q \in R : \E w \in 1..revnum : marks[q][w] # 0
        /\ \A p \in Repos : [repo |-> p, name |-> r.name] \notin R => PreparedTree(r).links[p] = 0
        /\ PreparedTree(r).modules = {p \in Repos : PreparedTree(r).links[p] # 0}
    BY <1>1, PreparedLinks
  <2> HIDE DEF R
  <2>3. submoduleRefs'[r] = R /\ \A s \in Refs \ {r} : submoduleRefs'[s] = submoduleRefs[s]
    BY <1>1, <2>1
  <2> QED  BY <1>2, <1>3, <2>1, <2>2, <2>3
<1> QED  BY <1>4, <1>5

\* Throwing a commit away leaves the last finished commit of every ref; keeping one
\* changes that of its own ref only.
LEMMA ClosesFinished ==
  ASSUME RevisionInv, NEW r \in Refs, Closes(r)
  PROVE  /\ \A q \in Refs \ {r} : /\ marks'[q] = marks[q] /\ LatestMark(q)' = LatestMark(q)
                                  /\ FinishedMark(q)' = FinishedMark(q)
         /\ \A w \in 1..MaxRev : w # revnum => marks'[r][w] = marks[r][w]
         /\ changedSubs'[r] = {}
         /\ \/ /\ marks'[r][revnum] # 0
               /\ \A s \in Refs \ {r} : changedSubs'[s] = changedSubs[s]
            \/ /\ FinishedMark(r)' = FinishedMark(r)
               /\ \A s \in Refs \ {r} : changedSubs'[s] = changedSubs[s] \ {r}
<1>1. /\ SafetyInv /\ MarksInv /\ HeadInv /\ MaxRev \in Nat /\ r \in modifiedRefs
      /\ marks \in [Refs -> [1..MaxRev -> Nat]] /\ changedSubs \in [Refs -> SUBSET Refs]
      /\ MarkedTogether
  BY TreeAssumption DEF RevisionInv, SafetyInv, TypeOK, GitTypeOK, Closes
<1>2. /\ revnum \in 1..MaxRev /\ marks[r][revnum] # 0
      /\ \/ ClosedTree(r) # headTree[r] /\ marks' = marks
         \/ ClosedTree(r) = headTree[r] /\ marks' = [marks EXCEPT ![r][revnum] = 0]
  BY <1>1, ClosesMarksKinds
<1>3. modifiedRefs' = modifiedRefs \ {r} /\ UNCHANGED revnum
  BY <1>1, ClosesEffect
<1>4. /\ \A q \in Refs \ {r} : marks'[q] = marks[q]
      /\ \A w \in 1..MaxRev : w # revnum => marks'[r][w] = marks[r][w]
  BY <1>1, <1>2
<1>5. \A q \in Refs \ {r} : LatestMark(q)' = LatestMark(q) /\ FinishedMark(q)' = FinishedMark(q)
  <2> TAKE q \in Refs \ {r}
  <2>1. q \in modifiedRefs' <=> q \in modifiedRefs
    BY <1>3
  <2> QED  BY <1>3, <1>4, <2>1, FinishedIsLastOf, MarkUpToIsLastOf DEF LatestMark
<1>6. CASE ClosedTree(r) # headTree[r]
  <2>1. changedSubs' = [changedSubs EXCEPT ![r] = {}] /\ marks' = marks
    BY <1>1, <1>2, <1>6, ClosesEffect DEF KeepCommit
  <2> QED  BY <1>1, <1>2, <1>4, <1>5, <2>1
<1>7. CASE ClosedTree(r) = headTree[r]
  <2>1. changedSubs' = Retracted(r) /\ marks' = [marks EXCEPT ![r][revnum] = 0]
    BY <1>1, <1>2, <1>7, ClosesEffect DEF DropCommit
  <2>2. \A s \in Refs : r \in changedSubs[s] => s = SuperRef(r)
    BY <1>1 DEF MarkedTogether
  <2>3. changedSubs'[r] = {} /\ \A s \in Refs \ {r} : changedSubs'[s] = changedSubs[s] \ {r}
    BY <2>1, <2>2 DEF Retracted
  <2>4. \A w \in 1..MaxRev : (IF w <= MaxRev THEN marks'[r][w] ELSE 0)
                               = (IF w <= revnum - 1 THEN marks[r][w] ELSE 0)
    <3> TAKE w \in 1..MaxRev
    <3>1. CASE w < revnum
      BY <1>1, <1>2, <1>4, <3>1
    <3>2. CASE w = revnum
      BY <1>1, <1>2, <2>1, <3>2
    <3>3. CASE w > revnum
      BY <1>1, <1>2, <1>4, <3>3 DEF MarksInv
    <3> QED  BY <1>1, <1>2, <3>1, <3>2, <3>3
  <2>5. /\ marks[r] \in [1..MaxRev -> Nat] /\ marks'[r] \in [1..MaxRev -> Nat]
        /\ MaxRev \in 0..MaxRev /\ revnum - 1 \in 0..MaxRev
    BY <1>1, <1>2, <2>1
  <2>6. LastOf(marks'[r], MaxRev) = LastOf(marks[r], revnum - 1)
    <3>1. \A ms \in [1..MaxRev -> Nat], ns \in [1..MaxRev -> Nat], m \in 0..MaxRev, n \in 0..MaxRev :
            (\A w \in 1..MaxRev : (IF w <= m THEN ms[w] ELSE 0) = (IF w <= n THEN ns[w] ELSE 0))
            => LastOf(ms, m) = LastOf(ns, n)
      BY LastOfSame
    <3>2. \A ns \in [1..MaxRev -> Nat], m \in 0..MaxRev, n \in 0..MaxRev :
            (\A w \in 1..MaxRev :
               (IF w <= m THEN marks'[r][w] ELSE 0) = (IF w <= n THEN ns[w] ELSE 0))
            => LastOf(marks'[r], m) = LastOf(ns, n)
      BY <2>5, <3>1
    <3>3. \A m \in 0..MaxRev, n \in 0..MaxRev :
            (\A w \in 1..MaxRev :
               (IF w <= m THEN marks'[r][w] ELSE 0) = (IF w <= n THEN marks[r][w] ELSE 0))
            => LastOf(marks'[r], m) = LastOf(marks[r], n)
      BY <2>5, <3>2
    <3> QED  BY <2>4, <2>5, <3>3
  <2>7. FinishedMark(r)' = FinishedMark(r)
    BY <1>1, <1>3, <2>6, FinishedIsLastOf
  <2> QED  BY <1>4, <1>5, <2>3, <2>7
<1> QED  BY <1>6, <1>7

\* Closing a commit keeps the links of the other trees in order.
LEMMA ClosesLinks ==
  ASSUME RevisionInv, LinksInv, NEW r \in Refs, Closes(r)
  PROVE  LinksInv'
<1>1. /\ SafetyInv /\ MarksInv /\ HeadInv /\ HistoryInv /\ MarkedTogether /\ OpenInv
      /\ r \in modifiedRefs /\ r.repo \in Repos /\ currentRef[r.repo] = r
      /\ tree \in [Refs -> Trees] /\ currentRef \in [Repos -> Refs \cup {NoRef}]
      /\ prepared \in [Repos -> BOOLEAN] /\ staleSubs \in [Refs -> SUBSET Refs]
      /\ MaxRev \in Nat /\ revnum \in 0..MaxRev
  BY TreeAssumption DEF RevisionInv, SafetyInv, TypeOK, GitTypeOK, Closes, IsOpen, Refs, Revs
<1>2. tree' = [tree EXCEPT ![r] = ClosedTree(r)]
  BY <1>1, ClosesTree
<1>3. /\ modifiedRefs' = modifiedRefs \ {r} /\ currentRef' = [currentRef EXCEPT ![r.repo] = NoRef]
      /\ staleSubs' = [staleSubs EXCEPT ![r] = {}] /\ revnum' = revnum
  BY <1>1, ClosesEffect
<1>4. prepared' = [prepared EXCEPT ![r.repo] = FALSE]
  BY DEF Closes, CloseRef
<1>5. /\ \A s \in Refs \ {r} : submoduleRefs'[s] = submoduleRefs[s]
      /\ submoduleRefs'[r] \subseteq SubRefs(r)
      /\ \A q \in SubRefs(r) : /\ q \notin modifiedRefs
                               /\ ClosedTree(r).links[q.repo] = LatestMark(q)
      /\ \A q \in submoduleRefs'[r] : \E w \in 1..revnum : marks[q][w] # 0
      /\ \A p \in Repos : [repo |-> p, name |-> r.name] \notin submoduleRefs'[r] =>
                            ClosedTree(r).links[p] = 0
      /\ ClosedTree(r).modules = {p \in Repos : ClosedTree(r).links[p] # 0}
  BY ClosedLinks
<1>6. /\ \A q \in Refs \ {r} : /\ marks'[q] = marks[q] /\ LatestMark(q)' = LatestMark(q)
                               /\ FinishedMark(q)' = FinishedMark(q)
      /\ \A w \in 1..MaxRev : w # revnum => marks'[r][w] = marks[r][w]
      /\ changedSubs'[r] = {}
      /\ \/ /\ marks'[r][revnum] # 0
            /\ \A s \in Refs \ {r} : changedSubs'[s] = changedSubs[s]
         \/ /\ FinishedMark(r)' = FinishedMark(r)
            /\ \A s \in Refs \ {r} : changedSubs'[s] = changedSubs[s] \ {r}
  BY ClosesFinished
<1>7. /\ tree'[r] = ClosedTree(r) /\ staleSubs'[r] = {}
      /\ \A s \in Refs \ {r} : tree'[s] = tree[s] /\ staleSubs'[s] = staleSubs[s]
  BY <1>1, <1>2, <1>3
<1>8. /\ \A s : SubRefs(s)' = SubRefs(s)
      /\ \A s \in Refs : SubRefs(s) \subseteq Refs
      /\ \A q \in SubRefs(r) : q # r
  BY SubRefName DEF SubRefs
<1>9. (\A s \in Refs : staleSubs[s] \subseteq submoduleRefs[s]
                       /\ submoduleRefs[s] \subseteq SubRefs(s))'
  <2>1. \A s \in Refs \ {r} : staleSubs[s] \subseteq submoduleRefs[s]
                              /\ submoduleRefs[s] \subseteq SubRefs(s)
    BY DEF LinksInv
  <2> QED  BY <1>5, <1>7, <1>8, <2>1
<1>10. (\A s \in Refs : \A q \in submoduleRefs[s] :
          \E w \in 1..revnum : marks[q][w] # 0 /\ (w = revnum => q \notin modifiedRefs))'
  <2> SUFFICES ASSUME NEW s \in Refs, NEW q \in submoduleRefs'[s]
               PROVE  \E w \in 1..revnum : marks'[q][w] # 0 /\ (w = revnum => q \notin modifiedRefs')
    BY <1>3
  <2>1. CASE s = r
    BY <1>1, <1>3, <1>5, <1>6, <1>8, <2>1
  <2>2. CASE s # r
    <3>1. q \in submoduleRefs[s] /\ q \in Refs
      BY <1>5, <1>8, <2>2 DEF LinksInv
    <3>2. PICK w \in 1..revnum : marks[q][w] # 0 /\ (w = revnum => q \notin modifiedRefs)
      BY <3>1 DEF LinksInv
    <3>3. marks'[q][w] = marks[q][w]
      BY <1>1, <1>6, <3>1, <3>2
    <3> QED  BY <1>3, <3>2, <3>3
  <2> QED  BY <2>1, <2>2
<1>11. (\A s \in Refs : \A q \in changedSubs[s] \ modifiedRefs : marks[q][revnum] # 0)'
  <2> SUFFICES ASSUME NEW s \in Refs, NEW q \in changedSubs'[s], q \notin modifiedRefs'
               PROVE  marks'[q][revnum] # 0
    BY <1>3
  <2>1. s # r /\ q \in changedSubs[s] /\ q \in Refs
    BY <1>1, <1>6 DEF SafetyInv, TypeOK, GitTypeOK
  <2>2. CASE q = r
    BY <1>6, <2>1, <2>2
  <2>3. CASE q # r
    BY <1>3, <1>6, <2>1, <2>3 DEF LinksInv
  <2> QED  BY <2>2, <2>3
<1>12. (\A s \in Refs : \A q \in SubRefs(s) \ (staleSubs[s] \cup (changedSubs[s] \ modifiedRefs)) :
          tree[s].links[q.repo] = FinishedMark(q))'
  <2> SUFFICES ASSUME NEW s \in Refs, NEW q \in SubRefs(s), q \notin staleSubs'[s],
                      q \notin changedSubs'[s] \ modifiedRefs'
               PROVE  tree'[s].links[q.repo] = FinishedMark(q)'
    BY <1>8
  <2>1. q \in Refs
    BY <1>8
  <2>2. CASE s = r
    BY <1>5, <1>6, <1>7, <1>8, <2>1, <2>2 DEF FinishedMark
  <2>3. CASE s # r /\ q # r
    <3>1. q \notin staleSubs[s] \cup (changedSubs[s] \ modifiedRefs)
      BY <1>3, <1>6, <1>7, <2>3
    <3>2. tree[s].links[q.repo] = FinishedMark(q)
      BY <3>1 DEF LinksInv
    <3> QED  BY <1>6, <1>7, <2>1, <2>3, <3>2
  <2>4. CASE s # r /\ q = r
    <3>1. tree[s].links[q.repo] = FinishedMark(q)
      BY <1>1, <1>7, <2>4 DEF LinksInv
    <3>2. r \in changedSubs[s]
      BY <1>1, <2>4, RepositoryAssumption DEF MarkedTogether, SubRefs
    <3>3. r \notin changedSubs'[s]
      BY <1>3, <2>4
    <3> QED  BY <1>6, <1>7, <2>4, <3>1, <3>2, <3>3
  <2> QED  BY <2>2, <2>3, <2>4
<1>13. (\A s \in Refs, p \in Repos :
          [repo |-> p, name |-> s.name] \notin submoduleRefs[s] => tree[s].links[p] = 0)'
  <2>1. \A s \in Refs \ {r}, p \in Repos :
          [repo |-> p, name |-> s.name] \notin submoduleRefs[s] => tree[s].links[p] = 0
    BY DEF LinksInv
  <2> QED  BY <1>5, <1>7, <2>1
<1>14. (\A s \in Refs : staleSubs[s] = {} => tree[s].modules = Linked(s))'
  <2>1. \A s \in Refs \ {r} : staleSubs[s] = {} =>
          tree[s].modules = {p \in Repos : tree[s].links[p] # 0}
    BY DEF LinksInv, Linked
  <2> QED  BY <1>5, <1>7, <2>1 DEF Linked
<1>15. (\A p \in Repos : prepared[p] =>
          /\ staleSubs[currentRef[p]] = {}
          /\ \A q \in SubRefs(currentRef[p]) :
               tree[currentRef[p]].links[q.repo] = LatestMark(q))'
  <2> SUFFICES ASSUME NEW p \in Repos, prepared'[p]
               PROVE  /\ staleSubs'[currentRef'[p]] = {}
                      /\ \A q \in SubRefs(currentRef'[p]) :
                           tree'[currentRef'[p]].links[q.repo] = LatestMark(q)'
    BY <1>8
  <2>1. p # r.repo /\ prepared[p] /\ currentRef'[p] = currentRef[p]
    BY <1>1, <1>3, <1>4
  <2>2. /\ currentRef[p] \in Refs /\ CanClose(currentRef[p]) /\ currentRef[p].repo = p
    BY <1>1, <2>1 DEF OpenInv, ModifiedIn
  <2>3. \A q \in SubRefs(currentRef[p]) : q \in Refs \ {r}
    BY <1>1, <2>2, CanCloseMeansDone DEF SubRefs
  <2>4. /\ staleSubs[currentRef[p]] = {}
        /\ \A q \in SubRefs(currentRef[p]) :
             tree[currentRef[p]].links[q.repo] = LatestMark(q)
    BY <2>1 DEF LinksInv
  <2>5. currentRef[p] \in Refs \ {r}
    BY <2>1, <2>2
  <2> QED  BY <1>6, <1>7, <2>1, <2>3, <2>4, <2>5
<1> QED  BY <1>9, <1>10, <1>11, <1>12, <1>13, <1>14, <1>15 DEF LinksInv

\* Every step keeps the links.
LEMMA LinksStep ==
  ASSUME RevisionInv, LinksInv, [Next]_vars
  PROVE  LinksInv'
BY TreeStepKinds, BeginRevisionLinks, WritingLinks, PreparesLinks, ClosesLinks DEF RevisionInv

-----------------------------------------------------------------------------
(* The trees, the links and the sources of merges.                         *)

LEMMA TreesInit == Init => TreesInv
BY RevisionInit, FilesInit, AttributesInit, LinksInit, SourcesInit DEF TreesInv

LEMMA TreesStep ==
  ASSUME FlatSubmodules, TreesInv, [Next]_vars
  PROVE  TreesInv'
<1>1. RevisionInv /\ FilesInv /\ AttributesInv /\ LinksInv /\ SourcesInv
  BY DEF TreesInv
<1>2. RevisionInv'
  BY <1>1, RevisionStep
<1> QED
  BY <1>1, <1>2, FilesStep, AttributesStep, LinksStep, SourcesStep DEF TreesInv

\* In every reachable state the trees of the branches are what SVN has or will
\* still be written, and every copy that waits to be merged has a source.
THEOREM TreesInvariant ==
  ASSUME FlatSubmodules
  PROVE  Spec => []TreesInv
<1>1. TreesInv /\ [Next]_vars => TreesInv'
  BY FlatSubmodules, TreesStep
<1> QED  BY TreesInit, <1>1, PTL DEF Spec

\* A ref without a finished commit has no marks.
LEMMA NoLatestMark ==
  ASSUME SafetyInv, NEW r \in Refs, LatestMark(r) = 0
  PROVE  \A v \in 1..MaxRev : marks[r][v] = 0
BY LatestExists

\* After every revision every branch holds exactly the files SVN has where the rules
\* in force place them, at every place that the changes and the rules lead to:
\* the deletions, conversions, passes and reset branches of import_revision lose and
\* add nothing there.
THEOREM TreesMirrorSvn ==
  ASSUME FlatSubmodules
  PROVE  Spec => []Mirror
<1>1. TreesInv => Mirror
  <2> SUFFICES ASSUME TreesInv, phase = "idle", NEW r \in Refs, NEW f \in Files,
                      <<r, f>> \notin astray
               PROVE  InGit(r, f) = InSvn(r, f)
    BY DEF Mirror
  <2> DEFINE S == Stands(r, f, svn[revnum], revnum)
             t == tree[r].files[f]
  <2>1. SafetyInv /\ PendingInv /\ FilesInv
    BY DEF TreesInv, RevisionInv
  <2>2. modifiedRefs = {} /\ ~ Marking
    BY <2>1, IdleClosed DEF Marking
  <2>3. /\ \A s \in S : t = svn[revnum][s]
        /\ S = {} => t = 0
    BY <2>1, <2>2, SettledPlaces
  <2>4. \A s \in S : svn[revnum][s] # 0
    BY DEF Stands
  <2>5. LatestMark(r) = 0 => t = 0
    BY <2>1, NoLatestMark DEF FilesInv
  <2>6. InGit(r, f) = {t} \ {0}
    BY <2>5 DEF InGit
  <2>7. InSvn(r, f) = {svn[revnum][s] : s \in S}
    BY DEF InSvn
  <2> HIDE DEF S, t
  <2>8. CASE S = {}
    BY <2>3, <2>6, <2>7, <2>8
  <2>9. CASE S # {}
    <3>1. PICK s \in S : TRUE
      BY <2>9
    <3>2. {svn[revnum][x] : x \in S} = {t} /\ t # 0
      BY <2>3, <2>4, <3>1
    <3> QED  BY <2>6, <2>7, <3>2
  <2> QED  BY <2>8, <2>9
<1> QED  BY TreesInvariant, <1>1, FlatSubmodules, PTL

\* After every revision every branch with a commit has its .gitattributes when the
\* option is given.
THEOREM AttributesPresent ==
  ASSUME FlatSubmodules
  PROVE  Spec => []AttributesKept
<1>1. TreesInv => AttributesKept
  <2> SUFFICES ASSUME TreesInv, phase = "idle", GitAttributes, NEW r \in Refs,
                      LatestMark(r) # 0
               PROVE  tree[r].attrs
    BY DEF AttributesKept
  <2>1. SafetyInv /\ AttributesInv
    BY DEF TreesInv, RevisionInv
  <2>2. \A p \in Repos : currentRef[p] = NoRef
    BY <2>1, IdleClosed
  <2>3. ~ IsOpen(r)
    BY <2>2, RepositoryAssumption DEF IsOpen, Refs
  <2>4. PICK v \in 1..MaxRev : marks[r][v] # 0
    <3>1. /\ MaxRev \in 0..MaxRev /\ marks[r] \in [1..MaxRev -> Nat]
      BY <2>1, TreeAssumption DEF SafetyInv, TypeOK, GitTypeOK
    <3>2. LatestMark(r) = LastOf(marks[r], MaxRev)
      BY MarkUpToIsLastOf DEF LatestMark
    <3> QED  BY <3>1, <3>2, LastOfIsLast
  <2> QED  BY <2>1, <2>3, <2>4 DEF AttributesInv
<1> QED  BY TreesInvariant, <1>1, FlatSubmodules, PTL

\* After every revision the gitlinks of a super-module are the latest surviving
\* commits of its submodules, and .gitmodules names exactly the linked ones.
THEOREM SubmodulesLinked ==
  ASSUME FlatSubmodules
  PROVE  Spec => []LinksFresh
<1>1. TreesInv => LinksFresh
  <2> SUFFICES ASSUME TreesInv, phase = "idle", NEW s \in Refs
               PROVE  /\ tree[s].modules = {p \in Repos : tree[s].links[p] # 0}
                      /\ \A r \in Refs : SuperRef(r) = s =>
                           tree[s].links[r.repo] = LatestMark(r)
    BY DEF LinksFresh
  <2>1. SafetyInv /\ PendingInv /\ LinksInv /\ MarkedTogether
    BY DEF TreesInv, RevisionInv, SafetyInv
  <2>2. modifiedRefs = {} /\ \A p \in Repos : currentRef[p] = NoRef
    BY <2>1, IdleClosed
  <2>3. staleSubs[s] = {}
    BY <2>1, <2>2, RepositoryAssumption DEF PendingInv, IsOpen, Refs
  <2>4. changedSubs[s] = {}
    BY <2>1, <2>2 DEF MarkedTogether
  <2>5. \A r \in SubRefs(s) : tree[s].links[r.repo] = LatestMark(r)
    BY <2>1, <2>2, <2>3, <2>4 DEF LinksInv, FinishedMark
  <2>6. tree[s].modules = {p \in Repos : tree[s].links[p] # 0}
    BY <2>1, <2>3 DEF LinksInv, Linked
  <2> QED  BY <2>5, <2>6 DEF SubRefs
<1> QED  BY TreesInvariant, <1>1, FlatSubmodules, PTL

\* A merge that is going to be written from a branch for which SVN had a file by the
\* copied revision finds a finished commit of that branch: what SVN has is never
\* without a commit, whatever was deleted, copied, dropped or reset in between.
THEOREM MergesHaveSources ==
  ASSUME FlatSubmodules
  PROVE  Spec => []MergeSourceFound
<1>1. TreesInv => MergeSourceFound
  <2> SUFFICES ASSUME TreesInv, NEW r \in Refs, NEW q \in Refs,
                      NEW n, n = pendingMerges[r][q], n > 0, HadFile(q, n)
               PROVE  MarkUpTo(q, n) \in DOMAIN commits[q.repo]
    BY DEF MergeSourceFound
  <2>1. /\ SafetyInv /\ HistoryInv /\ SourcesInv
        /\ n \in 0..MaxRev /\ revnum \in 0..MaxRev /\ MaxRev \in Nat
        /\ marks[q] \in [1..MaxRev -> Nat]
    <3>1. SafetyInv /\ HistoryInv /\ SourcesInv
      BY DEF TreesInv, RevisionInv
    <3>2. /\ pendingMerges \in [Refs -> [Refs -> 0..MaxRev]] /\ revnum \in 0..MaxRev
          /\ marks \in [Refs -> [1..MaxRev -> Nat]]
      BY <3>1 DEF SafetyInv, TypeOK, GitTypeOK, Revs
    <3> QED  BY <3>1, <3>2, TreeAssumption
  <2>2. n < revnum
    BY <2>1 DEF SourcesInv
  <2>3. \E w \in 1..n : marks[q][w] # 0
    <3>1. PICK u \in 1..n, s \in SvnFiles :
            /\ svn[u][s] # 0 /\ Match(s, u) # NoRule /\ Match(s, u).ref = q
      BY DEF HadFile
    <3>2. u \in 1..revnum /\ u # revnum
      BY <2>1, <2>2
    <3>3. PICK w \in 1..u : marks[q][w] # 0
      BY <2>1, <3>1, <3>2 DEF SourcesInv
    <3> QED  BY <2>1, <3>3
  <2>4. MarkUpTo(q, n) = LastOf(marks[q], n)
    BY MarkUpToIsLastOf
  <2>5. LastOf(marks[q], n) # 0
    BY <2>1, <2>3, LastOfIsLast
  <2> QED  BY <2>1, <2>2, <2>4, <2>5, FinishedReaches
<1> QED  BY TreesInvariant, <1>1, FlatSubmodules, PTL

=============================================================================
