------------------------------ MODULE Conversion ------------------------------
(***************************************************************************)
(* The build that converts and publishes: the targets of CMakeLists.txt    *)
(* around svn2git, fix_submodules.cmake, post-conversion-cleanup and       *)
(* git_push.cmake. A build cleans the working directory when its stamp is  *)
(* older than the rules, converts, rewrites the super-project's submodule  *)
(* references, and cleans up and pushes every repository. Builds are       *)
(* interrupted and started again, the rules are edited at any time,        *)
(* processes die and pushes are refused.                                   *)
(***************************************************************************)
EXTENDS Svn2git, Sequences

CONSTANTS
  Boost,       \* the super-project's repository, pushed from boost-fixup
  HostsOf,     \* where each repository is pushed, in order
  Uncleanable, \* <<edition, repository>>: where the clean-up script fails
  MaxBuilds, MaxEdits, MaxFaults  \* bounds on the steps of the environment

Hosts == {"bitbucket", "github"}

ASSUME TargetsAssumption ==
  /\ Boost \in Repos
  /\ HostsOf \in [Repos -> Seq(Hosts)]
  /\ Uncleanable \subseteq Editions \X Repos
  /\ {MaxBuilds, MaxEdits, MaxFaults} \subseteq Nat

VARIABLES
  target,      \* the target being built
  stamp,       \* the edition _setup is newer than
  configured,  \* the edition that cmake made the push targets from
  fixup,       \* what boost-fixup was made from
  host,        \* per push target: the position in HostsOf, 0 before the clean-up
  tried,       \* and how often that host has refused
  remote,      \* what each host holds
  began,       \* the edition when the build began
  trouble,     \* faults of this build, a first refused push of a host counting one
  builds, edits, faults \* how many there have been

targetVars == <<target, stamp, configured, fixup, host, tried, remote>>
history == <<began, trouble, builds, edits, faults>>
vars == <<mainState, targetVars, history>>

NoStamp == -1
NoFixup == [made |-> [r \in Repos |-> {}], rules |-> NoStamp]
Resting == {"idle", "succeeded", "failed"}

Init ==
  /\ MainInit
  /\ target = "idle"
  /\ stamp = NoStamp
  /\ configured = rules
  /\ fixup = NoFixup
  /\ host = [r \in Repos |-> 0] /\ tried = [r \in Repos |-> 0]
  /\ remote = [h \in Hosts |-> [r \in Repos |-> NoFixup]]
  /\ began = rules /\ trouble = 0
  /\ builds = 0 /\ edits = 0 /\ faults = 0

----------------------------------------------------------------------------
(* The people who run the build.                                            *)

StartBuild(first) ==
  /\ target \in Resting
  /\ builds < MaxBuilds
  /\ builds' = builds + 1
  /\ target' = first
  /\ began' = rules
  /\ trouble' = 0
  /\ host' = [r \in Repos |-> 0] /\ tried' = [r \in Repos |-> 0]

Build ==
  /\ StartBuild("setup")
  /\ UNCHANGED <<mainState, stamp, configured, fixup, remote, edits, faults>>

\* The target analysis runs svn2git --dry-run in the working directory.
Analyse ==
  /\ stamp # NoStamp
  /\ StartBuild("analysis")
  /\ StartMain(TRUE)
  /\ UNCHANGED <<rules, dir, status, stamp, configured, fixup, remote, edits, faults>>

Edit ==
  /\ edits < MaxEdits
  /\ \E e \in Editions : e > rules /\ rules' = e
  /\ edits' = edits + 1
  /\ UNCHANGED <<dir, branches, pc, dryRun, status, mainVars, targetVars,
                 began, trouble, builds, faults>>

Configure ==
  /\ target \in Resting
  /\ configured # rules
  /\ configured' = rules
  /\ UNCHANGED <<mainState, target, stamp, fixup, host, tried, remote, history>>

----------------------------------------------------------------------------
(* _setup: removed with the working directory when it is older than what it *)
(* depends on, made again at the end.                                       *)

\* Mutant: _setup does not depend on the rules.
OutdatedIfMissing == stamp = NoStamp
Outdated == stamp # rules

RemoveRepository(r) ==
  /\ target = "setup" /\ Outdated
  /\ dir[r] # "none"
  /\ dir' = [dir EXCEPT ![r] = "none"]
  /\ branches' = [branches EXCEPT ![r] = {}]
  /\ UNCHANGED <<rules, pc, dryRun, status, mainVars, targetVars, history>>

TouchStamp ==
  /\ target = "setup" /\ Outdated
  /\ \A r \in Repos : dir[r] = "none"
  /\ stamp' = rules
  /\ fixup' = NoFixup
  /\ UNCHANGED <<mainState, target, configured, host, tried, remote, history>>

StartConversion ==
  /\ target = "setup" /\ ~Outdated
  /\ target' = "conversion"
  /\ StartMain(FALSE)
  /\ UNCHANGED <<rules, dir, status, stamp, configured, fixup, host, tried, remote,
                 history>>

\* svn2git, in the target conversion or analysis.
RunMain ==
  /\ target \in {"conversion", "analysis"}
  /\ MainStep
  /\ UNCHANGED <<targetVars, history>>

EndConversion ==
  /\ target \in {"conversion", "analysis"} /\ pc = "exited"
  /\ target' = IF status = "failure" THEN "failed"
               ELSE IF target = "conversion" THEN "submodules"
               ELSE "succeeded"
  /\ UNCHANGED <<mainState, stamp, configured, fixup, host, tried, remote, history>>

----------------------------------------------------------------------------
(* fix_submodules.cmake: boost-fixup is made anew, from the repository of   *)
(* the super-project, the marks of the others, and the rules as they are    *)
(* now.  The pipeline fails when one of its parts does (pipefail).          *)

FixedUp == [made |-> branches, rules |-> rules]

FixSubmodules ==
  /\ target = "submodules"
  /\ IF dir[Boost] = "repository"
       THEN fixup' = FixedUp /\ target' = "push"
       ELSE fixup' = NoFixup /\ target' = "failed"
  /\ UNCHANGED <<mainState, stamp, configured, host, tried, remote, history>>

----------------------------------------------------------------------------
(* push_*: the targets cmake made, independent of each other.               *)

Targets == RepositoriesIn[configured]
\* Mutant: no second try.
RefusedOnce(r) == tried[r] = 1
Refused(r) == tried[r] = 2  \* or its clean-up has failed
Pushed(r) == host[r] > Len(HostsOf[r])
Started(r) == host[r] > 0 \/ tried[r] > 0

\* make starts no target after one has failed; those it has started go on.
CanPush(r) ==
  /\ target = "push"
  /\ r \in Targets
  /\ ~Pushed(r) /\ ~Refused(r)
  /\ Started(r) \/ \A q \in Targets : ~Refused(q)

Pushable(r) == r = Boost \/ dir[r] = "repository"

\* What git push --mirror sends: the branches, for the super-project as
\* rewritten with the marks of its submodules.
Local(r) == IF r = Boost THEN fixup
            ELSE [NoFixup EXCEPT !.made[r] = branches[r], !.rules = loaded]

\* post-conversion-cleanup deletes branches that are merged, empty or of one
\* commit; where the others come from stays the same.  It stops at the first
\* command that fails, as git does in a directory that is no repository, and
\* when there is no merged branch for xargs to pass on.
CleanUp(r) ==
  /\ CanPush(r) /\ host[r] = 0
  /\ IF Pushable(r) /\ <<loaded, r>> \notin Uncleanable
       THEN host' = [host EXCEPT ![r] = 1] /\ UNCHANGED tried
       ELSE tried' = [tried EXCEPT ![r] = 2] /\ UNCHANGED host
  /\ UNCHANGED <<mainState, target, stamp, configured, fixup, remote, history>>

Accept(r) ==
  /\ CanPush(r) /\ host[r] > 0
  /\ remote' = [remote EXCEPT ![HostsOf[r][host[r]]][r] = Local(r)]
  /\ host' = [host EXCEPT ![r] = @ + 1]
  /\ tried' = [tried EXCEPT ![r] = 0]
  /\ UNCHANGED <<mainState, target, stamp, configured, fixup, history>>

Refuse(r) ==
  /\ CanPush(r) /\ host[r] > 0
  /\ tried' = [tried EXCEPT ![r] = @ + 1]
  /\ UNCHANGED <<mainState, target, stamp, configured, fixup, host, remote>>

\* Mutant: the result of git push is not tested.
EndPushesUntested ==
  /\ target = "push"
  /\ \A r \in Targets : ~CanPush(r)
  /\ target' = "succeeded"
  /\ UNCHANGED <<mainState, stamp, configured, fixup, host, tried, remote, history>>

EndPushes ==
  /\ target = "push"
  /\ \A r \in Targets : ~CanPush(r)
  /\ target' = IF \E r \in Targets : Refused(r) THEN "failed" ELSE "succeeded"
  /\ UNCHANGED <<mainState, stamp, configured, fixup, host, tried, remote, history>>

----------------------------------------------------------------------------
(* Faults.  All but a refused push count as trouble that a build need not   *)
(* survive.                                                                 *)

Fault(weight) ==
  /\ faults < MaxFaults
  /\ faults' = faults + 1
  /\ trouble' = trouble + weight
  /\ UNCHANGED <<began, builds, edits>>

InitFails == Fault(2) /\ InitRepository("directory") /\ UNCHANGED targetVars
NoGit == Fault(2) /\ GitNotFound /\ UNCHANGED targetVars
ADeath == Fault(2) /\ (\E r \in Repos : ProcessDies(r)) /\ UNCHANGED targetVars
ARefusal == Fault(1) /\ \E r \in Repos : Refuse(r)

FixingFails ==
  /\ Fault(2)
  /\ target = "submodules"
  /\ fixup' = NoFixup /\ target' = "failed"
  /\ UNCHANGED <<mainState, stamp, configured, host, tried, remote>>

Interrupt ==
  /\ Fault(2)
  /\ target \notin Resting
  /\ target' = "failed"
  /\ \/ MainInterrupted
     \/ pc = "exited" /\ UNCHANGED mainState
  /\ UNCHANGED <<stamp, configured, fixup, host, tried, remote>>

----------------------------------------------------------------------------

BuildStep ==
  \/ \E r \in Repos : RemoveRepository(r)
  \/ TouchStamp
  \/ StartConversion
  \/ RunMain
  \/ EndConversion
  \/ FixSubmodules
  \/ \E r \in Repos : CleanUp(r)
  \/ \E r \in Repos : Accept(r)
  \/ EndPushes

Next ==
  \/ Build
  \/ Analyse
  \/ Edit
  \/ Configure
  \/ BuildStep
  \/ InitFails
  \/ NoGit
  \/ ADeath
  \/ ARefusal
  \/ FixingFails
  \/ Interrupt

\* The build goes on while it can; nobody has to start or interrupt one.
FairSpec == Init /\ [][Next]_vars /\ WF_vars(BuildStep)
=============================================================================
