-------------------------- MODULE ImporterProperties --------------------------
(***************************************************************************)
(* What importing a revision must achieve, stated over module Importer.    *)
(***************************************************************************)
EXTENDS Importer

Phases == {"idle", "discover", "pass", "open", "convert", "prepare", "close",
           "failed"}

Reports == {Report(c, v) : c \in Changes, v \in Revs}

\* The type invariant.
TypeOK ==
  /\ GitTypeOK
  /\ svn \in [Revs -> [SvnFiles -> Contents \cup {0}]]
  /\ revnum \in Revs
  /\ astray \subseteq Refs \X Files
  /\ phase \in Phases
  /\ invalid \subseteq Rules
  /\ changes \subseteq Reports /\ copies \subseteq {c \in Reports : c.kind = "copy"}
  /\ toMerge \subseteq SvnFiles
  /\ toConvert \subseteq SvnFiles /\ fileWork \subseteq SvnFiles
  /\ changedRepos \subseteq Repos /\ passRepos \subseteq Repos
  /\ repoWork \subseteq Repos /\ closed \subseteq Repos
  /\ pass \in Nat

-----------------------------------------------------------------------------
(* Safety.                                                                 *)

\* submodule_refs_written counts exactly the changed submodule refs that are
\* no longer waiting to be committed, so can_close (git_repository.hpp:40-45)
\* answers what its comment says.  Three operations in two repositories keep
\* the two sides together: modify_ref, the retraction of an unchanged
\* submodule commit, and the count in close_commit.
SubmodulesCounted ==
  \A s \in Refs : subsWritten[s] = Cardinality(changedSubs[s] \ modifiedRefs)

\* The assertion of git_repository.cpp:180.
SubmoduleCountBounded ==
  \A s \in Refs : subsWritten[s] <= Cardinality(changedSubs[s])

\* changed_repositories, which importer::prepare_to_modify fills and the end of
\* a pass empties, names exactly the repositories with a modified ref, which
\* git_repository::modify_ref adds and close_commit removes.
ReposMatchRefs ==
  (IF phase = "close" THEN changedRepos \ closed ELSE changedRepos)
    = {r.repo : r \in modifiedRefs}

\* The assertions at git_repository.cpp:226, 73 and 134: a repository that a
\* pass opens has a modified ref, although changed_repositories is filled by
\* importer::prepare_to_modify and the refs are used up by close_commit; and
\* every repository that is prepared or closed has an open commit.
PassFindsCommit ==
  \A p \in repoWork :
    /\ phase = "open" => currentRef[p] # NoRef \/ ModifiedIn(p) # {}
    /\ phase \in {"prepare", "close"} => currentRef[p] # NoRef

\* The reply to "ls" that close_commit reads (git_repository.cpp:151) answers
\* the request made for the commit being closed, and lists the tree the commit
\* ends up with: requests and replies never get out of step, whatever order
\* the repositories are prepared and closed in.
LsInStep ==
  \A p \in Repos :
    lsReplies[p] = IF prepared[p] THEN <<tree[currentRef[p]]>> ELSE << >>

\* What SVN has at a place in Git, and what Git has there: a ref without a
\* commit has no files.
InSvn(r, f) == {svn[revnum][s] : s \in Stands(r, f, svn[revnum], revnum)}
InGit(r, f) == IF LatestMark(r) = 0 THEN {} ELSE {tree[r].files[f]} \ {0}

\* After a revision every branch holds exactly the files SVN has where the rules
\* in force place them, with their contents: whatever was written, deleted or
\* copied at, above or between the rules, and whatever rules came into force or
\* expired (importer.cpp:70-189, 219-224).  Not so at the places Missed.
Mirror ==
  phase = "idle" =>
    \A r \in Refs, f \in Files : <<r, f>> \notin astray => InGit(r, f) = InSvn(r, f)

\* After a revision a super-module's gitlinks are the latest surviving commits
\* of its submodules, and .gitmodules names exactly the linked submodules:
\* also when the link's path was deleted (git_repository.cpp:253-258), when
\* the submodule commit was retracted (:167-169), and when the super-module
\* was opened before its submodules.
LinksFresh ==
  phase = "idle" =>
    \A s \in Refs :
      LET linked == {p \in Repos : tree[s].links[p] # 0}
      IN  /\ tree[s].modules = linked
          /\ \A r \in Refs : SuperRef(r) = s =>
               tree[s].links[r.repo] = LatestMark(r)

\* After a revision every branch has its .gitattributes when the option is
\* given, even if the revision deleted the root of the branch
\* (git_repository.cpp:114-119, 260-261).
AttributesKept ==
  (phase = "idle" /\ GitAttributes) =>
    \A r \in Refs : LatestMark(r) # 0 => tree[r].attrs

\* Nothing marked in Phase I outlives the revision: every pending deletion,
\* merge and modified ref was consumed by the commit it was meant for.
NothingLeftOver ==
  phase = "idle" =>
    /\ modifiedRefs = {} /\ changedRepos = {}
    /\ \A r \in Refs :
         /\ pendingDeletions[r] = {} /\ pendingMerges[r] = NoRevs
         /\ changedSubs[r] = {} /\ staleSubs[r] = {} /\ subsWritten[r] = 0

\* Every commit reachable from a branch is one that some ref's marks record:
\* the commits that close_commit throws away (git_repository.cpp:160-166) are
\* never an ancestor of what is kept, although write_merges may look the mark
\* of another ref up while that ref's commit is still open.
AncestorsSurvive ==
  \A r \in Refs : \A m \in history[r] :
    \E q \in Refs, v \in 1..MaxRev : q.repo = r.repo /\ marks[q][v] = m

\* Had SVN a file that its rule maps to ref q by revision v?
HadFile(q, v) ==
  \E u \in 1..v, s \in SvnFiles :
    LET m == Match(s, u) IN svn[u][s] # 0 /\ m # NoRule /\ m.ref = q

\* A merge that is going to be written names a ref that has a finished commit for
\* it, if SVN had any file for that ref by then: record_merges asks only where a
\* path would have been mapped, so the warning of write_merges
\* (git_repository.cpp:207-213) is left for refs that never had a file.
MergeSourceFound ==
  \A r, q \in Refs :
    LET v == pendingMerges[r][q]
    IN  v > 0 /\ HadFile(q, v) => MarkUpTo(q, v) \in DOMAIN commits[q.repo]

-----------------------------------------------------------------------------
(* An inductive invariant from which the first properties above follow     *)
(* when no super-module is itself a submodule.                             *)

FlatSubmodules == \A r \in Refs : SuperRef(SuperRef(r)) = NoRef

\* A modified submodule ref is awaited by its super-module ref, and a ref
\* awaits only submodule refs of its own, and only while it is modified.
MarkedTogether ==
  /\ \A r \in modifiedRefs : SuperRef(r) # NoRef =>
       SuperRef(r) \in modifiedRefs /\ r \in changedSubs[SuperRef(r)]
  /\ \A s \in Refs : \A r \in changedSubs[s] : SuperRef(r) = s
  /\ \A s \in Refs : changedSubs[s] # {} => s \in modifiedRefs

\* Refs are marked only before the first commit of the revision is closed.
Marking ==
  \/ phase = "discover"
  \/ pass = 0 /\ phase \in {"pass", "open", "convert"}

\* Where the loops of a pass are.
OpenSoFar ==
  CASE phase = "open" -> passRepos \ repoWork
    [] phase \in {"convert", "prepare"} -> passRepos
    [] phase = "close" -> repoWork
    [] OTHER -> {}

LoopInv ==
  /\ repoWork \subseteq passRepos
  /\ \A p \in OpenSoFar : currentRef[p] # NoRef
  /\ phase = "open" => passRepos \subseteq changedRepos
  /\ phase \in {"open", "convert", "prepare"} => closed = {}
  /\ phase = "idle" => changedRepos = {}
  /\ Marking => \A s \in Refs : changedSubs[s] \subseteq modifiedRefs

\* An open commit belongs to a modified ref; a prepared one can be closed and
\* is closed in the same pass.
OpenInv ==
  \A p \in Repos :
    /\ currentRef[p] # NoRef => currentRef[p] \in ModifiedIn(p)
    /\ prepared[p] =>
         /\ currentRef[p] # NoRef /\ CanClose(currentRef[p])
         /\ \/ phase = "prepare" /\ p \in passRepos \ repoWork
            \/ phase = "close" /\ p \in repoWork

SafetyInv ==
  /\ TypeOK /\ MarkedTogether /\ SubmodulesCounted /\ ReposMatchRefs
  /\ LoopInv /\ OpenInv /\ LsInStep

-----------------------------------------------------------------------------
(* What more is needed for the marks, the histories and the ancestors.     *)

IsOpen(r) == currentRef[r.repo] = r

\* Nothing waits for a ref that will not be written in this revision, and what
\* waited for a ref is written when its commit opens.
PendingInv ==
  /\ \A r \in Refs : r \notin modifiedRefs \/ IsOpen(r) =>
       pendingDeletions[r] = {} /\ pendingMerges[r] = NoRevs
  /\ \A r \in Refs : staleSubs[r] # {} => IsOpen(r)
  /\ \A r, q \in Refs : pendingMerges[r][q] # 0 => q.repo = r.repo
  /\ phase = "discover" => \A p \in Repos : currentRef[p] = NoRef

\* A ref has a mark of the revision only while its commit is open, as long as it
\* may still be written.
MarksInv ==
  /\ phase # "idle" => revnum > 0
  /\ \A r \in Refs, v \in 1..MaxRev : marks[r][v] # 0 =>
       v <= revnum /\ (v = revnum /\ (Marking \/ r \in modifiedRefs) => IsOpen(r))
  /\ \A p \in Repos : currentRef[p] # NoRef =>
       marks[currentRef[p]][revnum] = lastMark[p] /\ lastMark[p] > 0

\* Revision v gave r its last finished commit.
LastFinished(r, v) ==
  /\ marks[r][v] # 0 /\ (v = revnum => ~IsOpen(r))
  /\ \A u \in (v + 1)..revnum : marks[r][u] # 0 => u = revnum /\ IsOpen(r)

\* head_tree_sha is the tree of the last finished commit.
HeadInv ==
  \A r \in Refs : headTree[r] # NoTree =>
    \E v \in 1..revnum :
      LastFinished(r, v) /\ commits[r.repo][marks[r][v]].tree = headTree[r]

Marked(p) == {marks[q][v] : q \in {r \in Refs : r.repo = p}, v \in 1..MaxRev} \ {0}

\* A finished commit reaches the earlier ones of its ref, and nothing but marks
\* that are recorded.
Recorded(r, v) ==
  LET m == marks[r][v]
  IN  /\ m \in DOMAIN commits[r.repo]
      /\ commits[r.repo][m].history \subseteq Marked(r.repo)
      /\ \A w \in 1..v : marks[r][w] # 0 => marks[r][w] \in commits[r.repo][m].history

HistoryInv ==
  /\ \A p \in Repos :
       /\ Len(commits[p]) = IF currentRef[p] = NoRef THEN lastMark[p] ELSE lastMark[p] - 1
       /\ \A m \in DOMAIN commits[p] : commits[p][m].history \subseteq 1..m
  /\ \A r \in Refs :
       /\ history[r] \subseteq Marked(r.repo)
       /\ history[r] \subseteq 1..(IF IsOpen(r) THEN lastMark[r.repo]
                                   ELSE Len(commits[r.repo]))
       /\ \A v \in 1..MaxRev : marks[r][v] # 0 =>
            marks[r][v] \in history[r] /\ (Recorded(r, v) \/ (v = revnum /\ IsOpen(r)))

RevisionInv == SafetyInv /\ PendingInv /\ MarksInv /\ HeadInv /\ HistoryInv

-----------------------------------------------------------------------------
(* What more is needed for the trees.                                      *)

Written(s) ==
  LET m == Match(s, revnum) IN tree[m.ref].files[GitPath[m][s]] = svn[revnum][s]

\* What the changes and rules still to be processed will delete and convert.
PendingRules == invalid \cup UNION {RulesBelow(c, revnum) : c \in changes}

WillDelete(r, f) ==
  \/ \E m \in PendingRules : Deletes(m, m.svn, r, f)
  \/ \E c \in changes : Deletes(Match(c.path, revnum), c.path, r, f)

WillConvert(s) ==
  \/ \E m \in PendingRules : s \in InvalidatedFiles(m)
  \/ \E c \in changes : s \in ConvertedFiles(c)

\* A file that will not be converted is as it was, where it was.
KeptInv ==
  \A s \in SvnFiles : svn[revnum][s] # 0 /\ s \notin toConvert /\ ~WillConvert(s) =>
    LET m == Match(s, revnum)
    IN  /\ svn[revnum - 1][s] = svn[revnum][s]
        /\ m # NoRule => Match(s, revnum - 1) = m

\* A place that is not astray is right, once the deletions are written: or the
\* file there will be converted, or the file that was there deleted.
PlacesInv ==
  \A r \in Refs, f \in Files : <<r, f>> \notin astray =>
    LET S == Stands(r, f, svn[revnum], revnum)
    IN  /\ \A s \in S : s \notin toConvert /\ ~WillConvert(s) =>
             AfterDeletions(r).files[f] = svn[revnum][s] /\ ~WillDelete(r, f)
        /\ S = {} => AfterDeletions(r).files[f] = 0 \/ WillDelete(r, f)

\* A file to convert is written, unless its ref has not been found to be
\* modified yet, or has not been written yet.
ConvertInv ==
  /\ \A s \in toConvert : svn[revnum][s] # 0
  /\ phase = "convert" => fileWork \subseteq toConvert
  /\ phase \notin {"discover", "failed"} => \A s \in toConvert : Match(s, revnum) # NoRule =>
       \/ Written(s) \/ Match(s, revnum).ref \in modifiedRefs
       \/ Marking /\ (phase = "convert" => s \in fileWork)
  /\ \A s \in toConvert :
       LET m == Match(s, revnum)
       IN  /\ m # NoRule /\ phase \in {"convert", "prepare", "close"}
           /\ m.ref.repo \in passRepos /\ IsOpen(m.ref)
           /\ (phase = "convert" => s \notin fileWork)
           => Written(s)

FilesInv ==
  /\ phase # "discover" => changes = {} /\ invalid = {}
  /\ \A s \in SvnFiles : svn[0][s] = 0
  /\ OnePerPlace(svn[revnum], revnum)
  /\ revnum > 0 => KeptInv
  /\ PlacesInv /\ ConvertInv
  /\ \A r \in Refs : (\A v \in 1..MaxRev : marks[r][v] = 0) =>
       \A f \in Files : tree[r].files[f] = 0

\* .gitattributes is missing only where it will be written.
AttributesInv ==
  GitAttributes =>
    /\ \A r \in Refs : tree[r].attrs \/ attrsOutdated[r]
    /\ \A r \in Refs, v \in 1..MaxRev : marks[r][v] # 0 /\ ~IsOpen(r) => tree[r].attrs
    /\ \A p \in Repos : prepared[p] => tree[currentRef[p]].attrs

SubRefs(s) == {r \in Refs : SuperRef(r) = s}

\* The mark of the last finished commit of a ref.
FinishedMark(r) ==
  IF r \in modifiedRefs THEN MarkUpTo(r, revnum - 1) ELSE LatestMark(r)

Linked(s) == {p \in Repos : tree[s].links[p] # 0}

\* A gitlink is the last finished commit of the submodule ref, unless it will be
\* written again: because it was deleted, or because the submodule ref has a new
\* commit.
LinksInv ==
  /\ \A s \in Refs : staleSubs[s] \subseteq submoduleRefs[s]
                     /\ submoduleRefs[s] \subseteq SubRefs(s)
  /\ \A s \in Refs : \A q \in submoduleRefs[s] :
       \E w \in 1..revnum : marks[q][w] # 0 /\ (w = revnum => q \notin modifiedRefs)
  /\ \A s \in Refs : \A q \in changedSubs[s] \ modifiedRefs : marks[q][revnum] # 0
  /\ \A s \in Refs : \A r \in SubRefs(s) \ (staleSubs[s] \cup (changedSubs[s] \ modifiedRefs)) :
       tree[s].links[r.repo] = FinishedMark(r)
  /\ \A s \in Refs, p \in Repos :
       [repo |-> p, name |-> s.name] \notin submoduleRefs[s] => tree[s].links[p] = 0
  /\ \A s \in Refs : staleSubs[s] = {} => tree[s].modules = Linked(s)
  /\ \A p \in Repos : prepared[p] =>
       /\ staleSubs[currentRef[p]] = {}
       /\ \A r \in SubRefs(currentRef[p]) :
            tree[currentRef[p]].links[r.repo] = LatestMark(r)

\* What SVN had in an imported revision, and a rule maps, has been committed by
\* then; so a merge from a ref that had a file finds its mark.
SourcesInv ==
  /\ \A v \in 1..revnum, s \in SvnFiles :
       LET m == Match(s, v)
       IN  svn[v][s] # 0 /\ m # NoRule /\ (v = revnum => phase = "idle") =>
             \E w \in 1..v : marks[m.ref][w] # 0
  /\ \A c \in changes \cup copies : c.rev < revnum
  /\ \A r, q \in Refs : pendingMerges[r][q] # 0 => pendingMerges[r][q] < revnum

TreesInv == RevisionInv /\ FilesInv /\ AttributesInv /\ LinksInv /\ SourcesInv

-----------------------------------------------------------------------------
(* What comments say and the code does not do.                             *)

\* "It's too early to error-out on unmapped SVN paths here: any that are
\* problematic will be picked up later" (importer.cpp:145-147): the deletion of
\* a directory that no rule maps reaches the files below it that rules map, which
\* "Handle rules that map SVN subtrees of the deleted path" (179) is about.
UnmappedPickedUp ==
  phase = "idle" => \A s \in SvnFiles :
    LET m == Match(s, revnum)
    IN  svn[revnum][s] = 0 /\ m # NoRule /\ InSvn(m.ref, GitPath[m][s]) = {}
        => InGit(m.ref, GitPath[m][s]) = {}

-----------------------------------------------------------------------------
(* What a step may never do.                                               *)

Drops(r, v) == marks[r][v] # 0 /\ marks'[r][v] = 0

\* The assertion of git_repository.cpp:164: only a ref with an earlier commit
\* has its newest one thrown away.
DropsOnlyRepeats ==
  [][\A r \in Refs, v \in 1..MaxRev :
       Drops(r, v) => \E w \in 1..(v - 1) : marks[r][w] # 0]_vars

\* What earlier revisions committed is final: their marks never change, and the
\* branch always descends from them, whatever is reset.
PastIsFinal ==
  [][\A r \in Refs : \A v \in 1..(revnum - 1) :
       /\ marks'[r][v] = marks[r][v]
       /\ marks[r][v] # 0 => marks[r][v] \in history'[r]]_vars

-----------------------------------------------------------------------------
(* Liveness: import_revision returns.                                      *)

RevisionCompletes == phase # "idle" ~> phase = "idle"

\* With nested super-modules it may also give up.
RevisionEnds == phase # "idle" ~> phase \in {"idle", "failed"}

-----------------------------------------------------------------------------
(* Phases I and II implement RevisionCommits.                              *)

Stage == IF phase = "idle" THEN "idle" ELSE IF Marking THEN "marking" ELSE "committing"

Promise == INSTANCE RevisionCommits WITH
  SuperOf <- [r \in Refs |-> SuperRef(r)],
  stage <- Stage, revision <- revnum, pending <- modifiedRefs

\* Every step of the importer is a step of the promise or none.
KeepsPromise == Promise!Spec
=============================================================================
