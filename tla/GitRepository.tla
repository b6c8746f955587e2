---------------------------- MODULE GitRepository ----------------------------
(***************************************************************************)
(* The Git repositories being written: src/src/git_repository.{hpp,cpp}    *)
(* together with the part of "git fast-import" those files rely on.        *)
(*                                                                         *)
(* One git_repository object keeps a set of refs to be written in the      *)
(* current SVN revision (modified_refs), at most one open commit           *)
(* (current_ref), and per ref the marks it has committed.  A repository    *)
(* may be a submodule of another one: then every ref has a super-module    *)
(* ref of the same name, whose commit must wait until all the submodule    *)
(* refs modified in this revision have been committed, because it records  *)
(* their marks as gitlinks.                                                *)
(*                                                                         *)
(* The operations below are written as the conjuncts of the actions of     *)
(* module Importer; the program is single threaded and the operations are  *)
(* called from importer::import_revision only.                             *)
(***************************************************************************)
EXTENDS Integers, FiniteSets, Sequences, FiniteSetsExt

CONSTANTS
  Repos,          \* the Git repositories
  Names,          \* the names of branches and tags
  NoRepo, NoRef,  \* null pointers
  SuperModule,    \* Repos -> Repos \cup {NoRepo}
  Files,          \* the blobs, each at one path of one ref's tree
  Contents,       \* what a file may contain; 0 stands for "no file"
  Paths,          \* the paths inside a Git tree that may be deleted
  RootPath,       \* the empty path
  Under,          \* what a path contains: files, and gitlinks of submodules
  GitAttributes,  \* is --gitattributes given?
  NoTree,         \* the empty std::string, held before any sha is known
  MaxRev          \* bound: the last SVN revision of the history

Refs == [repo : Repos, name : Names]

\* ref::super_module_ref, filled in by the constructor of ref.
SuperRef(r) ==
  IF r = NoRef \/ SuperModule[r.repo] = NoRepo THEN NoRef
  ELSE [repo |-> SuperModule[r.repo], name |-> r.name]

Trees == [files : [Files -> Contents \cup {0}], links : [Repos -> Nat],
          modules : SUBSET Repos, attrs : BOOLEAN]

EmptyTree == [files |-> [f \in Files |-> 0], links |-> [p \in Repos |-> 0],
              modules |-> {}, attrs |-> FALSE]

ASSUME RepositoryAssumption ==
  /\ IsFiniteSet(Repos) /\ IsFiniteSet(Names)
  /\ NoRepo \notin Repos /\ NoRef \notin Refs
  /\ SuperModule \in [Repos -> Repos \cup {NoRepo}]

\* A submodule chain has no cycle (the ref constructor would not return) and
\* at most three repositories; ModifyRef below is unrolled that far.
ASSUME NestingAssumption ==
  \A r \in Refs : SuperRef(r) # r /\ SuperRef(SuperRef(SuperRef(r))) = NoRef

ASSUME TreeAssumption ==
  /\ IsFiniteSet(Files) /\ Contents \subseteq Nat \ {0}
  /\ RootPath \in Paths /\ Under \in [Paths -> SUBSET (Files \cup Repos)]
  /\ Under[RootPath] = Files \cup Repos
  /\ GitAttributes \in BOOLEAN
  /\ NoTree \notin Trees
  /\ MaxRev \in Nat

VARIABLES
  modifiedRefs,      \* refs to be written in the current revision, all repos
  currentRef,        \* per repo: the ref whose commit is open
  prepared,          \* per repo: prepared_to_close_commit
  lastMark,          \* per repo: last_mark
  marks,             \* per ref: revision -> mark, 0 where there is none
  mergedRevs,        \* per ref: merged_revisions, 0 where there is none
  pendingMerges,     \* per ref: pending_merges, 0 where there is none
  pendingDeletions,  \* per ref: paths to delete when its commit opens
  submoduleRefs,     \* per ref: submodule_refs
  changedSubs,       \* per ref: changed_submodule_refs
  staleSubs,         \* per ref: stale_submodule_refs
  subsWritten,       \* per ref: submodule_refs_written
  headTree,          \* per ref: head_tree_sha, a tree standing for its sha
  attrsOutdated      \* per ref: gitattributes_outdated

\* What git fast-import keeps, per repository or per branch.
VARIABLES
  lsReplies,         \* per repo: replies to "ls" waiting to be read
  tree,              \* per branch: its current tree
  history,           \* per branch: the marks reachable from its tip
  commits            \* per repo: finished commits, indexed by mark

refVars == <<mergedRevs, pendingMerges, pendingDeletions>>
gitVars == <<modifiedRefs, currentRef, prepared, lastMark, marks, refVars,
             submoduleRefs, changedSubs, staleSubs, subsWritten, headTree,
             attrsOutdated, lsReplies, tree, history, commits>>

NoRevs == [q \in Refs |-> 0]

GitInit ==
  /\ modifiedRefs = {}
  /\ currentRef = [p \in Repos |-> NoRef]
  /\ prepared = [p \in Repos |-> FALSE]
  /\ lastMark = [p \in Repos |-> 0]
  /\ marks = [r \in Refs |-> [v \in 1..MaxRev |-> 0]]
  /\ mergedRevs = [r \in Refs |-> NoRevs]
  /\ pendingMerges = [r \in Refs |-> NoRevs]
  /\ pendingDeletions = [r \in Refs |-> {}]
  /\ submoduleRefs = [r \in Refs |-> {}]
  /\ changedSubs = [r \in Refs |-> {}]
  /\ staleSubs = [r \in Refs |-> {}]
  /\ subsWritten = [r \in Refs |-> 0]
  /\ headTree = [r \in Refs |-> NoTree]
  /\ attrsOutdated = [r \in Refs |-> GitAttributes]
  /\ lsReplies = [p \in Repos |-> << >>]
  /\ tree = [r \in Refs |-> EmptyTree]
  /\ history = [r \in Refs |-> {}]
  /\ commits = [p \in Repos |-> << >>]

-----------------------------------------------------------------------------
(* marks: upper_bound(rev) and the entry before it, or prev(end).          *)

\* Mutant: lower_bound in place of upper_bound.
MarkBefore(r, rev) ==
  LET v == Max({0} \cup {w \in 1..(rev - 1) : marks[r][w] # 0})
  IN  IF v = 0 THEN 0 ELSE marks[r][v]

MarkUpTo(r, rev) ==
  LET v == Max({0} \cup {w \in 1..rev : marks[r][w] # 0})
  IN  IF v = 0 THEN 0 ELSE marks[r][v]

LatestMark(r) == MarkUpTo(r, MaxRev)

CommitAt(p, m) ==
  IF m \in DOMAIN commits[p] THEN commits[p][m]
  ELSE [tree |-> EmptyTree, history |-> {}]

-----------------------------------------------------------------------------
(* modify_ref with allow_discovery: the refs it newly marks, going up the  *)
(* chain of super-modules until one is already marked.                     *)

\* Mutant: the super-module is not told.
NewlyModifiedAlone(r) == {r} \ modifiedRefs

NewlyModified(r) ==
  LET s == SuperRef(r)
      t == SuperRef(s)
  IN  IF r \in modifiedRefs THEN {}
      ELSE {r} \cup IF s \in modifiedRefs \cup {NoRef} THEN {}
                    ELSE {s} \cup ({t} \ (modifiedRefs \cup {NoRef}))

ModifyRef(r) ==
  /\ modifiedRefs' = modifiedRefs \cup NewlyModified(r)
  /\ changedSubs' = [s \in Refs |->
       changedSubs[s] \cup {q \in NewlyModified(r) : SuperRef(q) = s}]

\* record_ancestor: a branch is not an ancestor of itself, and only the
\* latest revision copied from a source is kept.
RecordAncestor(r, src, rev) ==
  pendingMerges' =
    IF src.name = r.name THEN pendingMerges
    ELSE [pendingMerges EXCEPT ![r][src] = IF @ < rev THEN rev ELSE @]

-----------------------------------------------------------------------------
(* open_commit and write_merges                                            *)

MergesToWrite(r) ==
  {q \in Refs : /\ pendingMerges[r][q] > mergedRevs[r][q]
                /\ MarkUpTo(q, pendingMerges[r][q]) # 0}

WriteMerges(r) ==
  /\ mergedRevs' = [mergedRevs EXCEPT ![r] = [q \in Refs |->
       IF q \in MergesToWrite(r) THEN pendingMerges[r][q] ELSE @[q]]]
  /\ pendingMerges' = [pendingMerges EXCEPT ![r] = NoRevs]

\* Mutant: the "D" commands are not written.
AfterNoDeletions(r) == tree[r]

\* The tree of r after the "D" commands of pending_deletions.
AfterDeletions(r) ==
  LET gone == UNION {Under[d] : d \in pendingDeletions[r]}
      all == RootPath \in pendingDeletions[r]
  IN  [files   |-> [f \in Files |-> IF f \in gone THEN 0 ELSE tree[r].files[f]],
       links   |-> [p \in Repos |-> IF p \in gone THEN 0 ELSE tree[r].links[p]],
       modules |-> IF all THEN {} ELSE tree[r].modules,
       attrs   |-> ~all /\ tree[r].attrs]

\* Mutant: deleting the root does not set gitattributes_outdated.
OutdatedAsBefore(r) == attrsOutdated[r]

\* gitattributes_outdated when the deletions have been written.
OutdatedAfterDeletions(r) ==
  attrsOutdated[r] \/ (GitAttributes /\ RootPath \in pendingDeletions[r])

\* Everything open_commit changes except the branch's tree, which the caller
\* may go on to write in the same step.  The flat_set of modified refs is
\* ordered by address, so any of them may be the one that is opened.
OpenRef(r, rev) ==
  LET m == lastMark[r.repo] + 1
      covered == {q \in submoduleRefs[r] :
                    \E d \in pendingDeletions[r] : q.repo \in Under[d]}
      merged == {CommitAt(r.repo, MarkUpTo(q, pendingMerges[r][q])).history :
                   q \in MergesToWrite(r)}
  IN  /\ currentRef' = [currentRef EXCEPT ![r.repo] = r]
      /\ lastMark' = [lastMark EXCEPT ![r.repo] = m]
      /\ marks' = [marks EXCEPT ![r][rev] = m]
      /\ WriteMerges(r)
      /\ history' = [history EXCEPT ![r] = @ \cup {m} \cup UNION merged]
      /\ staleSubs' = [staleSubs EXCEPT ![r] = @ \cup covered]
      /\ attrsOutdated' = [attrsOutdated EXCEPT ![r] = OutdatedAfterDeletions(r)]
      /\ pendingDeletions' = [pendingDeletions EXCEPT ![r] = {}]

openVars == <<currentRef, lastMark, marks, refVars, history, staleSubs,
              attrsOutdated>>

ModifiedIn(p) == {r \in modifiedRefs : r.repo = p}

-----------------------------------------------------------------------------
(* prepare_to_close_commit                                                 *)

\* Mutant: a super-module ref never waits.
CanCloseAlways(r) == TRUE

CanClose(r) == subsWritten[r] = Cardinality(changedSubs[r])

SubRefsToWrite(r) == staleSubs[r] \cup changedSubs[r]

PreparedTree(r) ==
  LET subs == SubRefsToWrite(r)
      in(p) == [repo |-> p, name |-> r.name]
  IN  [tree[r] EXCEPT
         !.links = [p \in Repos |->
            IF in(p) \in subs THEN LatestMark(in(p)) ELSE @[p]],
         !.modules = IF subs = {} THEN @
                     ELSE {q.repo : q \in submoduleRefs[r] \cup subs},
         !.attrs = @ \/ attrsOutdated[r]]

\* Mutants: stale_submodule_refs is not cleared; the gitlinks written are not
\* remembered in submodule_refs.
PrepareKeepingStale(r) ==
  /\ submoduleRefs' = [submoduleRefs EXCEPT ![r] = @ \cup SubRefsToWrite(r)]
  /\ attrsOutdated' = [attrsOutdated EXCEPT ![r] = FALSE]
  /\ UNCHANGED staleSubs

PrepareForgetting(r) ==
  /\ staleSubs' = [staleSubs EXCEPT ![r] = {}]
  /\ attrsOutdated' = [attrsOutdated EXCEPT ![r] = FALSE]
  /\ UNCHANGED submoduleRefs

\* The part of prepare_to_close_commit that close_commit performs on demand.
PrepareRef(r) ==
  /\ submoduleRefs' = [submoduleRefs EXCEPT ![r] = @ \cup SubRefsToWrite(r)]
  /\ staleSubs' = [staleSubs EXCEPT ![r] = {}]
  /\ attrsOutdated' = [attrsOutdated EXCEPT ![r] = FALSE]

\* Mutant: "ls" is sent for a commit that cannot be closed yet.
PrepareUnguarded(p) ==
  LET r == currentRef[p]
  IN  /\ PrepareRef(r)
      /\ tree' = [tree EXCEPT ![r] = PreparedTree(r)]
      /\ lsReplies' = [lsReplies EXCEPT ![p] = Append(@, PreparedTree(r))]
      /\ prepared' = [prepared EXCEPT ![p] = TRUE]
      /\ UNCHANGED <<modifiedRefs, currentRef, lastMark, marks, refVars,
                     changedSubs, subsWritten, headTree, history, commits>>

PrepareToCloseCommit(p) ==
  LET r == currentRef[p]
  IN  IF CanClose(r)
      THEN /\ PrepareRef(r)
           /\ tree' = [tree EXCEPT ![r] = PreparedTree(r)]
           /\ lsReplies' = [lsReplies EXCEPT ![p] = Append(@, PreparedTree(r))]
           /\ prepared' = [prepared EXCEPT ![p] = TRUE]
           /\ UNCHANGED <<modifiedRefs, currentRef, lastMark, marks, refVars,
                          changedSubs, subsWritten, headTree, history, commits>>
      ELSE UNCHANGED gitVars

-----------------------------------------------------------------------------
(* close_commit, for a ref that can be closed.  The reply to "ls" is taken  *)
(* to be what was asked for: one shorter than a sha is only logged.        *)

\* The submodule refs a ref waits for once the commit of r is dropped.
Retracted(r) ==
  [q \in Refs |-> IF q = r THEN {}
                  ELSE IF q = SuperRef(r) THEN changedSubs[q] \ {r}
                  ELSE changedSubs[q]]

\* Mutants: the super-module keeps waiting for a commit that was dropped; the
\* first mark is erased in place of the last; the branch is not reset, or is
\* reset without its "from".
DropWithoutRetracting(r, rev) ==
  LET previous == CommitAt(r.repo, MarkUpTo(r, rev - 1))
  IN  /\ marks' = [marks EXCEPT ![r][rev] = 0]
      /\ tree' = [tree EXCEPT ![r] = previous.tree]
      /\ history' = [history EXCEPT ![r] = previous.history]
      /\ changedSubs' = [changedSubs EXCEPT ![r] = {}]
      /\ subsWritten' = [subsWritten EXCEPT ![r] = 0]
      /\ UNCHANGED headTree

DropFirstMark(r, rev) ==
  LET previous == CommitAt(r.repo, MarkUpTo(r, rev - 1))
      first == Min({v \in 1..rev : marks[r][v] # 0})
  IN  /\ marks' = [marks EXCEPT ![r][first] = 0]
      /\ tree' = [tree EXCEPT ![r] = previous.tree]
      /\ history' = [history EXCEPT ![r] = previous.history]
      /\ changedSubs' = Retracted(r)
      /\ subsWritten' = [subsWritten EXCEPT ![r] = 0]
      /\ UNCHANGED headTree

DropWithoutReset(r, rev) ==
  /\ marks' = [marks EXCEPT ![r][rev] = 0]
  /\ changedSubs' = Retracted(r)
  /\ subsWritten' = [subsWritten EXCEPT ![r] = 0]
  /\ tree' = [tree EXCEPT ![r] = PreparedTree(r)]
  /\ UNCHANGED <<headTree, history>>

DropWithoutFrom(r, rev) ==
  /\ marks' = [marks EXCEPT ![r][rev] = 0]
  /\ tree' = [tree EXCEPT ![r] = EmptyTree]
  /\ history' = [history EXCEPT ![r] = {}]
  /\ changedSubs' = Retracted(r)
  /\ subsWritten' = [subsWritten EXCEPT ![r] = 0]
  /\ UNCHANGED headTree

\* "Tree unchanged; resetting ref"
DropCommit(r, rev) ==
  LET previous == CommitAt(r.repo, MarkUpTo(r, rev - 1))
  IN  /\ marks' = [marks EXCEPT ![r][rev] = 0]
      /\ tree' = [tree EXCEPT ![r] = previous.tree]
      /\ history' = [history EXCEPT ![r] = previous.history]
      /\ changedSubs' = Retracted(r)
      /\ subsWritten' = [subsWritten EXCEPT ![r] = 0]
      /\ UNCHANGED headTree

KeepCommit(r, written, sha) ==
  LET s == SuperRef(r)
  IN  /\ headTree' = [headTree EXCEPT ![r] = sha]
      /\ tree' = [tree EXCEPT ![r] = written]
      /\ changedSubs' = [changedSubs EXCEPT ![r] = {}]
      /\ subsWritten' = [q \in Refs |->
           IF q = r THEN 0
           ELSE IF q = s THEN subsWritten[q] + 1 ELSE subsWritten[q]]
      /\ UNCHANGED <<marks, history>>

CloseRef(r, rev) ==
  LET p == r.repo
      written == IF prepared[p] THEN tree[r] ELSE PreparedTree(r)
      replies == IF prepared[p] THEN lsReplies[p] ELSE Append(lsReplies[p], written)
      sha == Head(replies)
  IN  /\ IF sha = headTree[r] THEN DropCommit(r, rev)
         ELSE KeepCommit(r, written, sha)
      /\ IF prepared[p]
         THEN /\ staleSubs' = [staleSubs EXCEPT ![r] = {}]
              /\ UNCHANGED <<submoduleRefs, attrsOutdated>>
         ELSE PrepareRef(r)
      /\ lsReplies' = [lsReplies EXCEPT ![p] = Tail(replies)]
      /\ commits' = [commits EXCEPT ![p] = Append(@,
           [ref |-> r, rev |-> rev, tree |-> written, history |-> history[r]])]
      /\ modifiedRefs' = modifiedRefs \ {r}
      /\ currentRef' = [currentRef EXCEPT ![p] = NoRef]
      /\ prepared' = [prepared EXCEPT ![p] = FALSE]
      /\ UNCHANGED <<lastMark, refVars>>

-----------------------------------------------------------------------------
Revs == 0..MaxRev

Commits == [ref : Refs, rev : Revs, tree : Trees, history : SUBSET Nat]

GitTypeOK ==
  /\ modifiedRefs \subseteq Refs
  /\ currentRef \in [Repos -> Refs \cup {NoRef}]
  /\ prepared \in [Repos -> BOOLEAN]
  /\ lastMark \in [Repos -> Nat]
  /\ marks \in [Refs -> [1..MaxRev -> Nat]]
  /\ mergedRevs \in [Refs -> [Refs -> Revs]]
  /\ pendingMerges \in [Refs -> [Refs -> Revs]]
  /\ pendingDeletions \in [Refs -> SUBSET Paths]
  /\ submoduleRefs \in [Refs -> SUBSET Refs]
  /\ changedSubs \in [Refs -> SUBSET Refs]
  /\ staleSubs \in [Refs -> SUBSET Refs]
  /\ subsWritten \in [Refs -> Nat]
  /\ headTree \in [Refs -> Trees \cup {NoTree}]
  /\ attrsOutdated \in [Refs -> BOOLEAN]
  /\ lsReplies \in [Repos -> Seq(Trees)]
  /\ tree \in [Refs -> Trees]
  /\ history \in [Refs -> SUBSET Nat]
  /\ commits \in [Repos -> Seq(Commits)]
=============================================================================
