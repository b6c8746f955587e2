------------------------- MODULE ConversionProperties -------------------------
(***************************************************************************)
(* What one must be able to rely on when a build says that it succeeded,    *)
(* and what a build after interrupted ones achieves.                        *)
(***************************************************************************)
EXTENDS Conversion

\* Type invariant of the working directory, the build and the hosts.
Published == [made : [Repos -> SUBSET Import], rules : Editions \cup {NoStamp}]
TypeOK ==
  /\ {rules, configured, loaded, began} \subseteq Editions
  /\ stamp \in Editions \cup {NoStamp}
  /\ dir \in [Repos -> {"none", "directory", "repository"}]
  /\ branches \in [Repos -> SUBSET Import]
  /\ pc \in {"ruleset", "svn", "prepare", "import", "exited"}
  /\ unprepared \subseteq Repos
  /\ preparing \in unprepared \cup {NoRepo}
  /\ process \in [Repos -> {"none", "running", "dead"}]
  /\ \A r \in Repos : process[r] = "running" => dir[r] = "repository"
  /\ diedAt \in [Repos -> 0 .. MaxRev + 1]
  /\ revision \in 0 .. MaxRev
  /\ pc \in {"ruleset", "svn", "prepare"} => revision = 0
  /\ {errors, dryRun} \subseteq BOOLEAN /\ status \in {"success", "failure"}
  /\ target \in Resting \cup {"setup", "conversion", "analysis", "submodules", "push"}
  /\ target \notin {"conversion", "analysis"} => pc = "exited"
  /\ fixup \in Published
  /\ \A r \in Repos : host[r] \in 0 .. Len(HostsOf[r]) + 1 /\ tried[r] \in 0 .. 2
  /\ remote \in [Hosts -> [Repos -> Published]]

\* A process that died when it had been given everything: no later revision
\* writes to it, so that only its exit status tells, and nobody asks for it.
DiedUnnoticed(r) ==
  diedAt[r] <= MaxRev /\ \A i \in (diedAt[r] + 1) .. MaxRev : <<i, r>> \notin Writes

Complete(e) == {[rules |-> e, upto |-> MaxRev]}

\* The processes of a run belong to the repositories it has prepared, one to each
\* unless the run is dry, and a directory that is missing has no branches.
RunInv ==
  /\ unprepared # {} => pc = "prepare"
  /\ \A r \in Repos : process[r] # "none" =>
       pc \in {"prepare", "import"} /\ r \notin unprepared
  /\ pc \in {"prepare", "import"} /\ ~dryRun =>
       \A r \in RepositoriesIn[loaded] : r \in unprepared \/ process[r] # "none"
  /\ target = "conversion" => ~dryRun
  /\ \A r \in Repos : dir[r] = "none" => branches[r] = {}

\* While no error is counted, no revision reported one, and none wrote to a
\* process that had died.
ErrorsInv ==
  /\ ~errors => \A i \in 1 .. revision : <<loaded, i>> \notin ReportsAt
  /\ \A r \in Repos : process[r] = "dead" =>
       /\ diedAt[r] <= revision
       /\ ~errors => \A i \in (diedAt[r] + 1) .. revision : <<i, r>> \notin Writes

\* Branches are not older than the last cleaning, and what is converted and
\* pushed was cleaned for the rules of this build or for later ones.
EditionsInv ==
  /\ began <= rules /\ stamp <= rules
  /\ pc \notin {"ruleset", "exited"} => stamp <= loaded /\ loaded <= rules
  /\ \A r \in Repos : \A b \in branches[r] : stamp <= b.rules /\ b.rules <= rules
  /\ target \in {"conversion", "submodules", "push"} => began <= stamp

\* What a run leaves that exits with 0.
Converted ==
  /\ stamp <= loaded /\ loaded <= rules
  /\ \A i \in Revisions : <<loaded, i>> \notin ReportsAt
  /\ \A r \in RepositoriesIn[loaded] :
       \/ DiedUnnoticed(r)
       \/ /\ Complete(loaded) \subseteq branches[r]
          /\ \A b \in branches[r] : b.rules = loaded => b.upto = MaxRev
ConvertedInv ==
  \/ target \in {"submodules", "push"}
  \/ target = "conversion" /\ pc = "exited" /\ status = "success"
  => Converted

\* The hosts that were tried successfully hold what is in the working directory.
PushInv ==
  /\ host \in [Repos -> Nat] /\ tried \in [Repos -> Nat]
  /\ target \in {"setup", "conversion", "submodules"} => \A r \in Repos : host[r] = 0
  /\ target = "push" =>
       /\ fixup.made = branches /\ stamp <= fixup.rules /\ fixup.rules <= rules
       /\ \A r \in Repos : \A i \in DOMAIN HostsOf[r] :
            i < host[r] => remote[HostsOf[r][i]][r] = Local(r)

ConversionInv ==
  TypeOK /\ RunInv /\ ErrorsInv /\ EditionsInv /\ ConvertedInv /\ PushInv

\* The state is well typed.  When svn2git has exited with 0 and was not run dry, every revision has been
\* imported into every repository of the rules it read, and none of them
\* reported an error, unless a process died unnoticed (main.cpp:161-172,
\* log.cpp:107-115, git_fast_import.cpp:46).
ExitStatusHonest ==
  /\ TypeOK
  /\ target = "submodules" =>
       /\ \A i \in Revisions : <<loaded, i>> \notin ReportsAt
       /\ \A r \in RepositoriesIn[loaded] :
            DiedUnnoticed(r) \/ Complete(loaded) \subseteq branches[r]

\* What a push sends comes from one import of all revisions with the rules the
\* build began with, and nothing of earlier rules or of an interrupted import
\* is left in it; the super-project was rewritten with the same rules and from
\* submodules of the same import.  Excepted are builds during which the rules
\* are edited, and processes that died unnoticed (CMakeLists.txt:54-61,
\* 139-153, fix_submodules.cmake, main.cpp).
Whole(r) ==
  /\ Local(r).rules = began
  /\ \A q \in RepositoriesIn[began] :
       q = r \/ r = Boost => Local(r).made[q] = Complete(began) \/ DiedUnnoticed(q)
PushesWhole ==
  [][\A r \in RepositoriesIn[began] :
       \A h \in Hosts : remote'[h][r] # remote[h][r] => rules # began \/ Whole(r)]_vars

\* When a build succeeds every host of a pushed repository holds what the
\* working directory holds: a host that refused was not given up and the other
\* one not forgotten (git_push.cmake).
HostsAgree ==
  [][target = "push" /\ target' = "succeeded" =>
       \A r \in Targets : \A i \in DOMAIN HostsOf[r] :
         remote[HostsOf[r][i]][r] = Local(r)]_vars

\* A directory that an interrupt or a failing git init left without a
\* repository is never repaired, since the directory exists
\* (git_repository.cpp:33-36): only the next cleaning removes it.
HalfMade == \E r \in Repos : dir[r] = "directory"

Sound(e) ==
  /\ \A step \in {-1, 0} \cup Revisions : <<e, step>> \notin ThrowsAt
  /\ \A i \in Revisions : <<e, i>> \notin ReportsAt
  /\ Boost \in RepositoriesIn[e]
  /\ \A r \in Repos : <<e, r>> \notin Uncleanable

\* Whatever happened before, a build that begins with sound rules, configured
\* for them, succeeds, unless a half-made directory was left since the last
\* cleaning, or the build meets a fault other than one refused push, or its
\* rules are edited.
AGoodBuild ==
  /\ target = "setup" /\ trouble = 0
  /\ rules = began /\ configured = rules
  /\ Sound(rules)
  /\ ~HalfMade \/ Outdated
Recovers == AGoodBuild ~> (target = "succeeded" \/ trouble > 1 \/ rules # began)
=============================================================================
