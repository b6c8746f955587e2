------------------------------- MODULE Svn2git -------------------------------
(***************************************************************************)
(* One run of svn2git after the other in one working directory: main() of   *)
(* main.cpp, with what the run leaves behind in the directory.  A run reads *)
(* the rules, prepares a repository and a fast-import process for each,     *)
(* imports the revisions in order, closes the processes and exits.  What a  *)
(* revision does to a repository is the subject of Importer, how a process  *)
(* is fed and closed that of FastImport; here it matters how far a          *)
(* repository has been brought, with which rules, and how the run ended.    *)
(***************************************************************************)
EXTENDS Integers

CONSTANTS
  Repos,          \* names of Git repositories
  NoRepo,         \* not one of them
  MaxRev,         \* the latest SVN revision
  Editions,       \* editions of the rules and authors files, in their order
  RepositoriesIn, \* the repositories of each edition
  ThrowsAt,       \* <<edition, step or revision>>: where main's try block is left
  ReportsAt,      \* <<edition, revision>>: where Log::error is called
  Writes          \* <<revision, repository>>: which revision has a commit where

Revisions == 1 .. MaxRev

ASSUME InputsAssumption ==
  /\ NoRepo \notin Repos
  /\ MaxRev \in Nat \ {0}
  /\ Editions \subseteq Nat
  /\ RepositoriesIn \in [Editions -> SUBSET Repos]
  /\ ThrowsAt \subseteq Editions \X ({-1, 0} \cup Revisions)
  /\ ReportsAt \subseteq Editions \X Revisions
  /\ Writes \subseteq Revisions \X Repos

VARIABLES
  rules,       \* the edition of the files in the source directory
  dir,         \* what is in the working directory under a repository's name
  branches,    \* the imports a repository's branches come from
  pc,          \* where main is
  dryRun,      \* --dry-run
  loaded,      \* the edition that Ruleset and svn were constructed from
  unprepared,  \* repositories that the constructor of importer has to demand
  preparing,   \* the one between create_directories and git init
  process,     \* the fast-import processes
  diedAt,      \* the revision after which a process died
  revision,    \* the last revision imported
  errors,      \* Log::num_errors is not zero
  status       \* the exit status of the last run

mainVars == <<loaded, unprepared, preparing, process, diedAt, revision, errors>>
mainState == <<rules, dir, branches, pc, dryRun, status, mainVars>>

\* Branches written by an import with these rules, up to that revision.
Import == [rules : Editions, upto : 0 .. MaxRev]

MainInit ==
  /\ rules \in Editions
  /\ dir = [r \in Repos |-> "none"]
  /\ branches = [r \in Repos |-> {}]
  /\ pc = "exited" /\ dryRun = FALSE
  /\ loaded = rules
  /\ unprepared = {} /\ preparing = NoRepo
  /\ process = [r \in Repos |-> "none"]
  /\ diedAt = [r \in Repos |-> MaxRev + 1]
  /\ revision = 0 /\ errors = FALSE
  /\ status = "success"

----------------------------------------------------------------------------
(* The start of main.  A step named -1 is the ruleset, 0 is svn, the        *)
(* authors and .gitattributes.                                              *)

StartMain(dry) ==
  /\ pc' = "ruleset" /\ dryRun' = dry
  /\ errors' = FALSE
  /\ revision' = 0
  /\ diedAt' = [r \in Repos |-> MaxRev + 1]
  /\ UNCHANGED <<loaded, unprepared, preparing, process, branches>>

Alive == {r \in Repos : process[r] = "running"}

\* fast-import overwrites the branches it was told to (--force) and leaves the
\* others: those of other rules, and of revisions it was not given.
Imported(r) ==
  {b \in branches[r] : revision < MaxRev \/ b.rules # loaded}
    \cup {[rules |-> loaded, upto |-> revision]}

\* What the fast-import processes that reach the end of their input, "ended",
\* leave behind; all are gone then.
ProcessesEnd(ended) ==
  /\ branches' = [r \in Repos |-> IF r \in ended THEN Imported(r) ELSE branches[r]]
  /\ process' = [r \in Repos |-> "none"]

\* The catch block, or a signal: the streams are closed, and each process saves
\* what it has unless it was given a part of a commit.
LeaveEarly ==
  /\ \E ended \in SUBSET Alive : ProcessesEnd(ended)
  /\ pc' = "exited" /\ status' = "failure"
  /\ unprepared' = {} /\ preparing' = NoRepo
  /\ UNCHANGED <<rules, dir, dryRun, diedAt, revision, errors>>

LoadRuleset ==
  /\ pc = "ruleset"
  /\ loaded' = rules
  /\ IF <<rules, -1>> \in ThrowsAt
       THEN LeaveEarly
       ELSE /\ pc' = "svn"
            /\ UNCHANGED <<rules, dir, branches, dryRun, unprepared, preparing,
                           process, diedAt, revision, errors, status>>

\* The authors file has a line that is no mapping, or .gitattributes is missing.
InputsRejected == <<loaded, 0>> \in ThrowsAt

OpenSvn ==
  /\ pc = "svn"
  /\ IF InputsRejected
       THEN LeaveEarly /\ UNCHANGED loaded
       ELSE /\ pc' = "prepare"
            /\ unprepared' = RepositoriesIn[loaded]
            /\ UNCHANGED <<rules, dir, branches, dryRun, loaded, preparing,
                           process, diedAt, revision, errors, status>>

----------------------------------------------------------------------------
(* demand_repo for each repository of the rules.                            *)

\* The constructor of git_fast_import.  In a directory that is no repository
\* fast-import ends at once.
Launch(r, what) ==
  /\ process' = [process EXCEPT ![r] = IF dryRun THEN "none"
                                       ELSE IF what = "repository" THEN "running"
                                       ELSE "dead"]
  /\ diedAt' = [diedAt EXCEPT ![r] = IF process'[r] = "dead" THEN 0 ELSE @]
  /\ unprepared' = unprepared \ {r}
  /\ preparing' = NoRepo

DemandExisting(r) ==
  /\ pc = "prepare" /\ preparing = NoRepo
  /\ r \in unprepared
  /\ dir[r] # "none"
  /\ Launch(r, dir[r])
  /\ UNCHANGED <<rules, dir, branches, pc, dryRun, loaded, revision, errors, status>>

CreateDirectory(r) ==
  /\ pc = "prepare" /\ preparing = NoRepo
  /\ r \in unprepared
  /\ dir[r] = "none"
  /\ dir' = [dir EXCEPT ![r] = "directory"]
  /\ preparing' = r
  /\ UNCHANGED <<rules, branches, pc, dryRun, loaded, unprepared, process, diedAt,
                 revision, errors, status>>

\* git init, whose exit status nobody looks at, and the process after it.
InitRepository(result) ==
  /\ pc = "prepare" /\ preparing # NoRepo
  /\ dir' = [dir EXCEPT ![preparing] = result]
  /\ Launch(preparing, result)
  /\ UNCHANGED <<rules, branches, pc, dryRun, loaded, revision, errors, status>>

\* git init is to be executed, or git fast-import; and a dry run still looks for
\* git when all repositories are there.
UsesGit ==
  \/ preparing # NoRepo
  \/ dryRun /\ unprepared = {}
  \/ ~dryRun /\ \E r \in unprepared : dir[r] # "none"

\* git is not on the PATH, or no process can be started for it: an exception.
GitNotFound ==
  /\ pc = "prepare" /\ UsesGit
  /\ LeaveEarly
  /\ UNCHANGED loaded

StartImport ==
  /\ pc = "prepare" /\ unprepared = {}
  /\ pc' = "import"
  /\ UNCHANGED <<rules, dir, branches, dryRun, status, mainVars>>

----------------------------------------------------------------------------
(* The loop over the revisions, and the end of main.                        *)

\* Repositories that the next revision writes to and nobody reads from.
Broken == {r \in Repos : process[r] = "dead" /\ <<revision + 1, r>> \in Writes}

\* The revision has an author whom the authors file does not map, for one.
RevisionThrows(i) == <<loaded, i>> \in ThrowsAt

\* It has a path no rule matches, for one.
RevisionReports(i) == <<loaded, i>> \in ReportsAt

\* Log::error counts the errors, Log::result looks whether there are any.
LogError == errors' = TRUE
Result == IF errors THEN "failure" ELSE "success"

\* Mutant: ++i < max_rev.
OneTooFew == MaxRev - 1

LastRevision == MaxRev

ImportRevision ==
  /\ pc = "import" /\ revision < LastRevision
  /\ ~RevisionThrows(revision + 1)
  /\ Broken = {}
  /\ revision' = revision + 1
  /\ IF RevisionReports(revision + 1) THEN LogError ELSE UNCHANGED errors
  /\ UNCHANGED <<rules, dir, branches, pc, dryRun, loaded, unprepared, preparing,
                 process, diedAt, status>>

\* The write raises SIGPIPE, or an exception leaves import_revision.
FailInRevision ==
  /\ pc = "import" /\ revision < LastRevision
  /\ RevisionThrows(revision + 1) \/ Broken # {}
  /\ LeaveEarly
  /\ UNCHANGED loaded

\* The commands were piped before the process died, and its reply is missing:
\* an error is logged and the import goes on.
MissReply ==
  /\ pc = "import" /\ revision < LastRevision
  /\ ~RevisionThrows(revision + 1)
  /\ \E r \in Broken : diedAt[r] = revision
  /\ revision' = revision + 1
  /\ LogError
  /\ UNCHANGED <<rules, dir, branches, pc, dryRun, loaded, unprepared, preparing,
                 process, diedAt, status>>

\* ~importer closes the streams and waits, whatever the status it gets; then
\* the number of errors decides the exit status.
Finish ==
  /\ pc = "import" /\ revision >= LastRevision
  /\ ProcessesEnd(Alive)
  /\ pc' = "exited"
  /\ status' = Result
  /\ UNCHANGED <<rules, dir, dryRun, loaded, unprepared, preparing, diedAt, revision,
                 errors>>

\* The last flush meets a process that has died, and raises SIGPIPE.
FailInClose ==
  /\ pc = "import" /\ revision >= LastRevision
  /\ \E r \in Repos : process[r] = "dead"
  /\ LeaveEarly
  /\ UNCHANGED loaded

----------------------------------------------------------------------------
(* What may happen to a run.                                                *)

\* fast-import gives up, as when the disk is full; the branches stay as they were.
ProcessDies(r) ==
  /\ process[r] = "running"
  /\ process' = [process EXCEPT ![r] = "dead"]
  /\ diedAt' = [diedAt EXCEPT ![r] = revision]
  /\ UNCHANGED <<rules, dir, branches, pc, dryRun, loaded, unprepared, preparing,
                 revision, errors, status>>

\* An interrupt from the terminal reaches svn2git and its children.
MainInterrupted ==
  /\ pc # "exited"
  /\ pc' = "exited" /\ status' = "failure"
  /\ process' = [r \in Repos |-> "none"]
  /\ unprepared' = {} /\ preparing' = NoRepo
  /\ UNCHANGED <<rules, dir, branches, dryRun, loaded, diedAt, revision, errors>>

MainStep ==
  \/ LoadRuleset
  \/ OpenSvn
  \/ \E r \in Repos : DemandExisting(r)
  \/ \E r \in Repos : CreateDirectory(r)
  \/ InitRepository("repository")
  \/ StartImport
  \/ ImportRevision
  \/ FailInRevision
  \/ MissReply
  \/ Finish
  \/ FailInClose
=============================================================================
