------------------------------- MODULE Importer -------------------------------
(***************************************************************************)
(* importer::import_revision (src/src/importer.cpp): how one SVN revision  *)
(* becomes commits in the Git repositories of module GitRepository.        *)
(*                                                                         *)
(* Phase I marks refs for modification, Git paths for deletion and SVN     *)
(* files for conversion.  Phase II then makes passes over the files until  *)
(* no repository has a modified ref: every pass opens one commit per       *)
(* changed repository, converts the files that belong to an open commit,   *)
(* prepares the commits for closing and closes those whose submodules are  *)
(* done.  Pass 0 may still discover refs to modify.                        *)
(*                                                                         *)
(* The paths of SVN are abstracted: what is at or below one, and where a    *)
(* rule places it in Git, are constants.  The rules themselves and what     *)
(* the lookups of patrie.hpp return are those of module RuleTrie, which     *)
(* shows what is taken from there.                                          *)
(***************************************************************************)
EXTENDS GitRepository

CONSTANTS
  SvnPaths, SvnFiles,  \* the paths in SVN, and those of files
  Within,       \* per SVN path: the paths at or below it
  Rules,        \* the rules: [svn, ref, min, max]
  NoRule,       \* a null pointer
  GitPath,      \* per rule and SVN path below it: the path in the ref's tree
  Moved(_, _, _),  \* a path below one directory, moved to another
  GitSubtree,   \* per rule: what git_subtree_rules finds for its address
  SvnSubtree,   \* per SVN path: what svn_subtree_rules finds for it
  Changes,      \* the changed paths a revision may report: [path, kind, from]
  MaxChanges,   \* bound: changed paths in one revision
  PassLimit     \* the pass after which the program gives up (5000)

Kinds == {"write", "delete", "copy"}

ASSUME PathAssumption ==
  /\ SvnFiles \subseteq SvnPaths /\ Within \in [SvnPaths -> SUBSET SvnPaths]
  /\ \A p \in SvnPaths : p \in Within[p]
  /\ \A p \in SvnPaths : \A q \in Within[p] :
       Within[q] \subseteq Within[p] /\ (p \in Within[q] => p = q)
  /\ \A p, q, s \in SvnPaths :
       s \in Within[p] \cap Within[q] => p \in Within[q] \/ q \in Within[p]

\* Ruleset accepts no two rules of one SVN path for one revision.
ASSUME RulesAssumption ==
  /\ Rules \subseteq [svn : SvnPaths, ref : Refs, min : Nat, max : Nat]
  /\ NoRule \notin Rules
  /\ \A m, q \in Rules :
       m.svn = q.svn /\ m # q => m.max < q.min \/ q.max < m.min

ASSUME PlaceAssumption ==
  /\ GitPath \in [Rules -> [SvnPaths -> Paths]]
  /\ \A m \in Rules : \A p \in Within[m.svn] : \A s \in Within[p] \cap SvnFiles :
       GitPath[m][s] \in Files \cap Under[GitPath[m][p]]

\* Both lookups search the tree of Git addresses, and may miss rules.
ASSUME LookupAssumption ==
  GitSubtree \in [Rules -> SUBSET Rules] /\ SvnSubtree \in [SvnPaths -> SUBSET Rules]

ASSUME ImporterAssumption ==
  /\ Changes \subseteq [path : SvnPaths, kind : Kinds, from : SvnPaths]
  /\ \A c \in Changes : c.kind = "copy" =>
       /\ c.path \notin SvnFiles
       /\ \A s \in Within[c.path] \cap SvnFiles : Moved(s, c.path, c.from) \in SvnPaths
  /\ MaxChanges \in Nat /\ PassLimit \in Nat

VARIABLES
  svn,           \* the SVN history: revision -> file -> content, 0 for none
  revnum,        \* the revision being, or last, imported
  astray,        \* history: places in Git whose changes no rule leads to
  phase,         \* where import_revision is
  invalid,       \* the rules whose trees are still to be invalidated
  changes,       \* changed SVN paths still to be processed
  copies,        \* svn_directory_copies: the changes that are copies
  toMerge,       \* files below copies that discover_merges has not reached
  toConvert,     \* the files below svn_paths_to_convert
  changedRepos,  \* changed_repositories
  pass,          \* pass
  passRepos,     \* changed_repos, the copy made for this pass
  repoWork,      \* what the current loop over passRepos has not reached
  fileWork,      \* what the conversion loop has not reached
  closed         \* closed_repositories

loopVars == <<pass, passRepos, repoWork, fileWork, closed>>
inputVars == <<svn, revnum, astray>>
phaseIVars == <<invalid, changes, copies, toMerge, toConvert>>
vars == <<gitVars, inputVars, phase, phaseIVars, changedRepos, loopVars>>

Init ==
  /\ GitInit
  /\ svn = [v \in Revs |-> [s \in SvnFiles |-> 0]]
  /\ revnum = 0 /\ astray = {}
  /\ phase = "idle"
  /\ invalid = {} /\ changes = {} /\ copies = {} /\ toMerge = {} /\ toConvert = {}
  /\ changedRepos = {}
  /\ pass = 0
  /\ passRepos = {} /\ repoWork = {} /\ fileWork = {} /\ closed = {}

-----------------------------------------------------------------------------
(* The rules.                                                              *)

InForce(m, v) == m.min <= v /\ v <= m.max

\* The rules in force at or above a path of which none is below another.
Longest(p, v) ==
  {m \in Rules : /\ InForce(m, v) /\ p \in Within[m.svn]
                 /\ \A q \in Rules : InForce(q, v) /\ p \in Within[q.svn] =>
                      m.svn \in Within[q.svn]}

\* match_svn_path: longest_match
Matches == [p \in SvnPaths |-> [v \in Revs |->
  IF Longest(p, v) = {} THEN NoRule ELSE CHOOSE m \in Longest(p, v) : TRUE]]

Match(p, v) == Matches[p][v]

\* rules_in_transition
Transition(v) == {m \in Rules : (m.min = v /\ v > 1) \/ m.max + 1 = v}

\* The rules svn_subtree_rules finds for a change; only a path that is not
\* known to be a file is looked up.
RulesBelow(c, v) ==
  IF c.path \in SvnFiles THEN {} ELSE {m \in SvnSubtree[c.path] : InForce(m, v)}

\* Does the rule that maps file s in revision v place it at file f of ref r?
Lands(s, v, r, f) ==
  LET m == Match(s, v)
  IN  m # NoRule /\ m.ref = r /\ GitPath[m][s] = f

\* The SVN files that belong there, when SVN has new.
Stands(r, f, new, v) == {s \in SvnFiles : new[s] # 0 /\ Lands(s, v, r, f)}

-----------------------------------------------------------------------------
(* What SVN may report.  The changed path nearest to a file says what      *)
(* became of it: it is deleted, it is copied, or it is written.  What is   *)
(* in a directory that is added or replaced, but not copied, is reported   *)
(* by itself.  A change of properties only is ignored and left out.        *)

Report(c, v) == [path |-> c.path, kind |-> c.kind, from |-> c.from, rev |-> v]

\* A copy names an earlier revision of its source.
Reportable ==
  {Report(c, 0) : c \in {d \in Changes : d.kind # "copy"}}
  \cup {Report(c, v) : c \in {d \in Changes : d.kind = "copy"}, v \in 1..revnum}

ContentAt(p, v) == IF p \in SvnFiles THEN svn[v][p] ELSE 0

Explains(c, s, content) ==
  CASE c.kind = "copy" -> content = ContentAt(Moved(s, c.path, c.from), c.rev)
    [] c.kind = "write" /\ c.path = s -> content # 0
    [] OTHER -> content = 0

Reported(C, new) ==
  /\ \A c, d \in C :
       c.path = d.path \/ (d.kind = "delete" /\ c.path \in Within[d.path]) => c = d
  /\ \A s \in SvnFiles :
       LET above == {c \in C : s \in Within[c.path]}
       IN  IF above = {} THEN new[s] = svn[revnum][s]
           ELSE \E c \in above : /\ \A d \in above : c.path \in Within[d.path]
                                  /\ Explains(c, s, new[s])

\* Two SVN files at one place in Git overwrite each other in an order that
\* nothing determines; no revision has that.
OnePerPlace(new, v) ==
  \A s, t \in SvnFiles : \A r \in Refs, f \in Files :
    s \in Stands(r, f, new, v) /\ t \in Stands(r, f, new, v) => s = t

-----------------------------------------------------------------------------
(* The places whose tree import_revision does not bring up to date, said   *)
(* in terms of what SVN reports and of the rules: C is reported for v,     *)
(* where SVN has new, after revision v - 1, where it had old.              *)

\* A file is gone from its place, because it was deleted or because a longer
\* rule came into force, but the rule that placed it there stays in force and is
\* not the rule of any changed path at or above the file: nothing leads to the
\* place.
LeftBehind(r, f, C, old, new, v) ==
  /\ Stands(r, f, new, v) = {}
  /\ \E s \in Stands(r, f, old, v - 1) :
       LET m == Match(s, v - 1)
       IN  InForce(m, v) /\ \A c \in C : s \in Within[c.path] => Match(c.path, v) # m

\* Is the place in the Git tree that is deleted for path p and its rule m?
Deletes(m, p, r, f) == m # NoRule /\ m.ref = r /\ f \in Under[GitPath[m][p]]

InvalidRules(C, v) == Transition(v) \cup UNION {RulesBelow(c, v) : c \in C}

\* A file that did not change is inside a Git tree that is deleted for another
\* path: rules map into that tree from several sides.
Overlaid(r, f, C, new, v) ==
  \E s \in Stands(r, f, new, v) :
    /\ \A c \in C : s \notin Within[c.path]
    /\ \/ \E c \in C : Deletes(Match(c.path, v), c.path, r, f)
       \/ \E m \in InvalidRules(C, v) : Deletes(m, m.svn, r, f) /\ s \notin Within[m.svn]

Missed(r, f, C, old, new, v) ==
  LeftBehind(r, f, C, old, new, v) \/ Overlaid(r, f, C, new, v)

-----------------------------------------------------------------------------
\* The beginning of import_revision, up to the loops of Phase I.
BeginRevision ==
  /\ phase = "idle" /\ revnum < MaxRev
  /\ \E n \in 0..MaxChanges : \E C \in kSubset(n, Reportable) :
     \E new \in [SvnFiles -> Contents \cup {0}] :
       /\ Reported(C, new) /\ OnePerPlace(new, revnum + 1)
       /\ changes' = C
       /\ svn' = [svn EXCEPT ![revnum + 1] = new]
       /\ astray' = astray \cup
            {x \in Refs \X Files :
               Missed(x[1], x[2], C, svn[revnum], new, revnum + 1)}
  /\ revnum' = revnum + 1
  /\ phase' = "discover"
  /\ invalid' = Transition(revnum + 1)
  /\ copies' = {} /\ toMerge' = {} /\ toConvert' = {} /\ changedRepos' = {}
  /\ UNCHANGED <<gitVars, loopVars>>

-----------------------------------------------------------------------------
(* prepare_to_modify with discover_changes.                                *)

InSuperModule(p) == IF SuperModule[p] = NoRepo THEN {} ELSE {SuperModule[p]}

DiscoverRef(r) ==
  /\ changedRepos' = changedRepos \cup {r.repo} \cup InSuperModule(r.repo)
  /\ ModifyRef(r)

\* add_svn_tree_to_delete
AddTreeToDelete(m, p) ==
  /\ DiscoverRef(m.ref)
  /\ pendingDeletions' = [pendingDeletions EXCEPT ![m.ref] = @ \cup {GitPath[m][p]}]

\* What add_svn_tree_to_convert leads to.
FilesAt(p) == {s \in Within[p] \cap SvnFiles : svn[revnum][s] # 0}

otherGitVars == <<currentRef, prepared, lastMark, marks, mergedRevs,
                  submoduleRefs, staleSubs, subsWritten, headTree,
                  attrsOutdated, lsReplies, tree, history, commits>>

\* invalidate_svn_tree, for a rule in transition or one found below a change.
InvalidatedFiles(m) ==
  FilesAt(m.svn) \cup UNION {FilesAt(q.svn) : q \in {q \in GitSubtree[m] : InForce(q, revnum)}}

InvalidateRule(m) ==
  /\ phase = "discover" /\ m \in invalid
  /\ invalid' = invalid \ {m}
  /\ toConvert' = toConvert \cup InvalidatedFiles(m)
  /\ AddTreeToDelete(m, m.svn)
  /\ UNCHANGED <<inputVars, phase, changes, copies, toMerge, loopVars,
                 pendingMerges, otherGitVars>>

\* One iteration of process_svn_changes.
ConvertedFiles(c) == IF c.kind = "delete" THEN {} ELSE FilesAt(c.path)

ProcessChange(c) ==
  LET m == Match(c.path, revnum)
  IN  /\ phase = "discover" /\ invalid = {} /\ c \in changes
      /\ changes' = changes \ {c}
      /\ IF m # NoRule THEN AddTreeToDelete(m, c.path)
         ELSE UNCHANGED <<changedRepos, modifiedRefs, changedSubs, pendingDeletions>>
      /\ toConvert' = toConvert \cup ConvertedFiles(c)
      /\ IF c.kind = "copy"
         THEN copies' = copies \cup {c} /\ toMerge' = toMerge \cup FilesAt(c.path)
         ELSE UNCHANGED <<copies, toMerge>>
      /\ invalid' = RulesBelow(c, revnum)
      /\ UNCHANGED <<inputVars, phase, loopVars, pendingMerges, otherGitVars>>

\* record_merges, with the copy it finds: the innermost around the file, which
\* another copy inside that one may hide.
Around(s) ==
  {k \in copies : /\ s \in Within[k.path]
                  /\ \A j \in copies : s \in Within[j.path] => k.path \in Within[j.path]}

RecordMerge(r, s, k) ==
  LET q == Match(Moved(s, k.path, k.from), k.rev)
  IN  IF q # NoRule /\ q.ref.repo = r.repo THEN RecordAncestor(r, q.ref, k.rev)
      ELSE UNCHANGED pendingMerges

HiddenFrom(s, k) ==
  \E j \in copies : j.path \in Within[k.path] /\ s \notin Within[j.path]

\* One file of discover_merges.
DiscoverMerge(s) ==
  LET m == Match(s, revnum)
  IN  /\ phase = "discover" /\ invalid = {} /\ changes = {} /\ s \in toMerge
      /\ toMerge' = toMerge \ {s}
      /\ IF m = NoRule
         THEN UNCHANGED <<changedRepos, modifiedRefs, changedSubs, pendingMerges>>
         ELSE /\ DiscoverRef(m.ref)
              /\ \E k \in Around(s) :
                   \/ RecordMerge(m.ref, s, k)
                   \/ HiddenFrom(s, k) /\ UNCHANGED pendingMerges
      /\ UNCHANGED <<inputVars, phase, invalid, changes, copies, toConvert,
                     loopVars, pendingDeletions, otherGitVars>>

BeginPhaseII ==
  /\ phase = "discover" /\ invalid = {} /\ changes = {} /\ toMerge = {}
  /\ phase' = "pass" /\ pass' = 0
  /\ UNCHANGED <<gitVars, inputVars, phaseIVars, changedRepos, passRepos,
                 repoWork, fileWork, closed>>

-----------------------------------------------------------------------------
(* The do-while loop of Phase II.                                          *)

rest == <<inputVars, phaseIVars>>

BeginPass ==
  /\ phase = "pass" /\ pass <= PassLimit
  /\ phase' = "open"
  /\ passRepos' = changedRepos /\ repoWork' = changedRepos
  /\ closed' = {}
  /\ UNCHANGED <<gitVars, rest, changedRepos, pass, fileWork>>

\* "terminating to avoid infinite loop": the exception ends the program.
GiveUp ==
  /\ phase = "pass" /\ pass > PassLimit
  /\ phase' = "failed"
  /\ UNCHANGED <<gitVars, rest, changedRepos, loopVars>>

OpenCommit(p) ==
  /\ phase = "open" /\ p \in repoWork
  /\ repoWork' = repoWork \ {p}
  /\ IF currentRef[p] # NoRef THEN UNCHANGED gitVars
     ELSE /\ \E r \in ModifiedIn(p) :
               OpenRef(r, revnum) /\ tree' = [tree EXCEPT ![r] = AfterDeletions(r)]
          /\ UNCHANGED <<modifiedRefs, prepared, submoduleRefs, changedSubs,
                         subsWritten, headTree, lsReplies, commits>>
  /\ UNCHANGED <<rest, phase, changedRepos, pass, passRepos, fileWork, closed>>

\* open_commit on a repository without modified refs: its assertion fails, and
\* without assertions it reads in front of an empty flat_set.
OpenNothing(p) ==
  /\ phase = "open" /\ p \in repoWork
  /\ currentRef[p] = NoRef /\ ModifiedIn(p) = {}
  /\ phase' = "failed"
  /\ UNCHANGED <<gitVars, rest, changedRepos, loopVars>>

\* convert_svn_file; a file without a rule is skipped, as without assertions.
\* From pass 1 on only a repository and a ref that still have to be written are
\* considered.  open_commit may open the repository here, when pass 0 has only
\* now discovered it.
Writes(t, f, s) == [t EXCEPT !.files[f] = svn[revnum][s]]

ConvertMapped(s, m) ==
  LET r == m.ref
      p == r.repo
      f == GitPath[m][s]
  IN  IF pass > 0 /\ (p \notin changedRepos \/ r \notin modifiedRefs)
      THEN /\ changedRepos' = changedRepos \cup
                IF p \in changedRepos THEN InSuperModule(p) ELSE {}
           /\ UNCHANGED gitVars
      ELSE /\ DiscoverRef(r)
           /\ IF currentRef[p] # NoRef
              THEN /\ UNCHANGED openVars
                   /\ tree' = IF currentRef[p] # r THEN tree
                              ELSE [tree EXCEPT ![r] = Writes(@, f, s)]
              ELSE \E o \in ModifiedIn(p) \cup {r} :
                     /\ OpenRef(o, revnum)
                     /\ tree' = [tree EXCEPT ![o] =
                          IF o = r THEN Writes(AfterDeletions(o), f, s)
                          ELSE AfterDeletions(o)]
           /\ UNCHANGED <<prepared, submoduleRefs, subsWritten, headTree,
                          lsReplies, commits>>

ConvertFile(s) ==
  LET m == Match(s, revnum)
  IN  /\ phase = "convert" /\ s \in fileWork
      /\ fileWork' = fileWork \ {s}
      /\ IF m = NoRule THEN UNCHANGED <<gitVars, changedRepos>> ELSE ConvertMapped(s, m)
      /\ UNCHANGED <<rest, phase, pass, passRepos, repoWork, closed>>

PrepareRepo(p) ==
  /\ phase = "prepare" /\ p \in repoWork
  /\ repoWork' = repoWork \ {p}
  /\ PrepareToCloseCommit(p)
  /\ UNCHANGED <<rest, phase, changedRepos, pass, passRepos, fileWork, closed>>

CloseCommit(p) ==
  LET r == currentRef[p]
  IN  /\ phase = "close" /\ p \in repoWork
      /\ repoWork' = repoWork \ {p}
      /\ IF CanClose(r)
         THEN /\ CloseRef(r, revnum)
              /\ closed' = IF ModifiedIn(p) = {r} THEN closed \cup {p} ELSE closed
         ELSE UNCHANGED <<gitVars, closed>>
      /\ UNCHANGED <<rest, phase, changedRepos, pass, passRepos, fileWork>>

\* One loop of the pass ends and the next one starts.
NextLoop ==
  /\ \/ /\ phase = "open" /\ repoWork = {}
        /\ phase' = "convert" /\ fileWork' = toConvert
        /\ UNCHANGED repoWork
     \/ /\ phase = "convert" /\ fileWork = {}
        /\ phase' = "prepare" /\ repoWork' = passRepos
        /\ UNCHANGED fileWork
     \/ /\ phase = "prepare" /\ repoWork = {}
        /\ phase' = "close" /\ repoWork' = passRepos
        /\ UNCHANGED fileWork
  /\ UNCHANGED <<gitVars, rest, changedRepos, pass, passRepos, closed>>

\* Mutant: passes are not counted.
EndPassUncounted ==
  /\ phase = "close" /\ repoWork = {}
  /\ changedRepos' = changedRepos \ closed
  /\ phase' = IF changedRepos \ closed = {} THEN "idle" ELSE "pass"
  /\ UNCHANGED <<gitVars, rest, pass, passRepos, repoWork, fileWork, closed>>

EndPass ==
  /\ phase = "close" /\ repoWork = {}
  /\ changedRepos' = changedRepos \ closed
  /\ pass' = pass + 1
  /\ phase' = IF changedRepos \ closed = {} THEN "idle" ELSE "pass"
  /\ UNCHANGED <<gitVars, rest, passRepos, repoWork, fileWork, closed>>

\* The program has imported its last revision, or has given up.
Finished ==
  /\ phase = "failed" \/ (phase = "idle" /\ revnum = MaxRev)
  /\ UNCHANGED vars

Next ==
  \/ BeginRevision
  \/ \E m \in invalid : InvalidateRule(m)
  \/ \E c \in changes : ProcessChange(c)
  \/ \E s \in toMerge : DiscoverMerge(s)
  \/ BeginPhaseII \/ BeginPass \/ GiveUp
  \/ \E p \in Repos : OpenCommit(p) \/ OpenNothing(p) \/ PrepareRepo(p) \/ CloseCommit(p)
  \/ \E s \in SvnFiles : ConvertFile(s)
  \/ NextLoop \/ EndPass \/ Finished

Spec == Init /\ [][Next]_vars

\* One thread runs import_revision to completion: a step that is possible is
\* eventually taken.
FairSpec == Spec /\ WF_vars(Next)
=============================================================================
