--------------------------- MODULE ConversionProofs ---------------------------
(***************************************************************************)
(* Proofs about Conversion: what a build has when it goes on to rewrite and *)
(* to push is whole, whatever interrupts, edits and deaths came before.     *)
(***************************************************************************)
EXTENDS ConversionProperties, TLAPS

-----------------------------------------------------------------------------
(* The kinds of steps svn2git takes.                                       *)

\* A step of svn2git, or what happens to it short of an interrupt.
MainAction ==
  \/ MainStep
  \/ InitRepository("directory")
  \/ GitNotFound
  \/ \E r \in Repos : ProcessDies(r)

LoadsRuleset ==
  /\ pc = "ruleset" /\ pc' = "svn" /\ loaded' = rules
  /\ UNCHANGED <<rules, dir, branches, dryRun, unprepared, preparing, process,
                 diedAt, revision, errors, status>>

OpensSvn ==
  /\ pc = "svn" /\ pc' = "prepare" /\ unprepared' = RepositoriesIn[loaded]
  /\ UNCHANGED <<rules, dir, branches, dryRun, loaded, preparing, process,
                 diedAt, revision, errors, status>>

\* A repository gets its process, after git init or without.
Prepares(r) ==
  /\ pc = "prepare" /\ r \in unprepared
  /\ \E what \in {"directory", "repository"} :
       dir' = [dir EXCEPT ![r] = what] /\ Launch(r, what)
  /\ UNCHANGED <<rules, branches, pc, dryRun, loaded, revision, errors, status>>

\* A revision is imported; a repository without reader misses it and that is an
\* error.
Advances ==
  /\ pc = "import" /\ revision < MaxRev
  /\ revision' = revision + 1
  /\ \/ errors' = TRUE
     \/ /\ <<loaded, revision + 1>> \notin ReportsAt /\ Broken = {}
        /\ UNCHANGED errors
  /\ UNCHANGED <<rules, dir, branches, pc, dryRun, loaded, unprepared, preparing,
                 process, diedAt, status>>

Leaves ==
  /\ pc # "exited" /\ LeaveEarly
  /\ UNCHANGED loaded \/ (pc = "ruleset" /\ loaded' = rules)

LEMMA MainActionKinds ==
  ASSUME TypeOK, MainAction
  PROVE  \/ LoadsRuleset \/ OpensSvn \/ StartImport \/ Advances \/ Finish \/ Leaves
         \/ \E r \in Repos : Prepares(r) \/ CreateDirectory(r) \/ ProcessDies(r)
<1>1. CASE LoadRuleset
  BY <1>1 DEF LoadRuleset, LoadsRuleset, Leaves
<1>2. CASE OpenSvn
  BY <1>2 DEF OpenSvn, OpensSvn, Leaves
<1>3. ASSUME NEW r \in Repos, DemandExisting(r) PROVE Prepares(r)
  <2>1. dir[r] \in {"directory", "repository"} /\ dir' = [dir EXCEPT ![r] = dir[r]]
    BY <1>3 DEF DemandExisting, TypeOK
  <2> QED  BY <1>3, <2>1 DEF DemandExisting, Prepares
<1>4. ASSUME NEW what \in {"directory", "repository"}, InitRepository(what)
      PROVE  preparing \in Repos /\ Prepares(preparing)
  <2>1. preparing \in unprepared /\ unprepared \subseteq Repos
    BY <1>4 DEF InitRepository, TypeOK
  <2> QED  BY <1>4, <2>1 DEF InitRepository, Prepares
<1>5. CASE ImportRevision \/ MissReply
  BY <1>5 DEF ImportRevision, MissReply, Advances, LogError, LastRevision, RevisionReports
<1>6. CASE FailInRevision \/ FailInClose \/ GitNotFound
  BY <1>6 DEF FailInRevision, FailInClose, GitNotFound, Leaves
<1> QED  BY <1>1, <1>2, <1>3, <1>4, <1>5, <1>6 DEF MainAction, MainStep

\* Every step is one of svn2git, of the build, or of its environment.
LEMMA NextKinds ==
  ASSUME TypeOK, Next
  PROVE  \/ MainAction /\ UNCHANGED <<targetVars, began>>
         \/ Build \/ Analyse \/ Edit \/ Configure \/ TouchStamp \/ StartConversion
         \/ EndConversion \/ FixSubmodules \/ EndPushes \/ ARefusal \/ FixingFails \/ Interrupt
         \/ \E r \in Repos : RemoveRepository(r) \/ CleanUp(r) \/ Accept(r)
<1>1. CASE BuildStep
  BY <1>1 DEF BuildStep, RunMain, MainAction, history
<1>2. CASE InitFails \/ NoGit \/ ADeath
  BY <1>2 DEF InitFails, NoGit, ADeath, Fault, MainAction
<1> QED  BY <1>1, <1>2 DEF Next

\* svn2git is running when it takes a step.
LEMMA MainActionRuns ==
  ASSUME TypeOK, RunInv, MainAction
  PROVE  pc # "exited" /\ target \in {"conversion", "analysis"} /\ UNCHANGED <<rules, dryRun>>
<1>1. pc # "exited" /\ UNCHANGED <<rules, dryRun>>
  <2>1. ASSUME NEW r \in Repos, ProcessDies(r) PROVE pc # "exited" /\ UNCHANGED <<rules, dryRun>>
    BY <2>1 DEF ProcessDies, RunInv
  <2> QED  BY <2>1, MainActionKinds DEF LoadsRuleset, OpensSvn, Prepares, CreateDirectory,
             StartImport, Advances, Finish, Leaves, LeaveEarly, mainVars
<1> QED  BY <1>1 DEF TypeOK

-----------------------------------------------------------------------------
(* Types.                                                                  *)

\* What processes that end leave behind are imports.
LEMMA ImportedType ==
  ASSUME TypeOK, NEW ended \in SUBSET Repos, ProcessesEnd(ended)
  PROVE  branches' \in [Repos -> SUBSET Import] /\ process' = [r \in Repos |-> "none"]
<1>1. loaded \in Editions /\ revision \in 0 .. MaxRev /\ branches \in [Repos -> SUBSET Import]
  BY DEF TypeOK
<1>2. \A r \in Repos : Imported(r) \subseteq Import
  BY <1>1 DEF Imported, Import
<1> QED  BY <1>1, <1>2 DEF ProcessesEnd

\* A step of svn2git keeps the types.
LEMMA TypeMain ==
  ASSUME TypeOK, RunInv, MainAction, UNCHANGED <<targetVars, began>>
  PROVE  TypeOK'
<1>1. /\ target \in {"conversion", "analysis"} /\ UNCHANGED <<rules, dryRun>>
      /\ UNCHANGED <<target, stamp, configured, fixup, host, tried, remote, began>>
  BY MainActionRuns DEF targetVars
<1>2. MaxRev \in Nat \ {0} /\ RepositoriesIn \in [Editions -> SUBSET Repos]
  BY InputsAssumption
<1> DEFINE Typed ==
        /\ loaded' \in Editions
        /\ dir' \in [Repos -> {"none", "directory", "repository"}]
        /\ branches' \in [Repos -> SUBSET Import]
        /\ pc' \in {"ruleset", "svn", "prepare", "import", "exited"}
        /\ unprepared' \subseteq Repos /\ preparing' \in unprepared' \cup {NoRepo}
        /\ process' \in [Repos -> {"none", "running", "dead"}]
        /\ \A r \in Repos : process'[r] = "running" => dir'[r] = "repository"
        /\ diedAt' \in [Repos -> 0 .. MaxRev + 1]
        /\ revision' \in 0 .. MaxRev
        /\ pc' \in {"ruleset", "svn", "prepare"} => revision' = 0
        /\ errors' \in BOOLEAN /\ status' \in {"success", "failure"}
<1>3. SUFFICES Typed
  BY <1>1 DEF TypeOK, Published, Import
<1>4. CASE LoadsRuleset
  BY <1>4 DEF LoadsRuleset, TypeOK
<1>5. CASE OpensSvn
  <2>1. unprepared = {} /\ preparing = NoRepo
    BY <1>5 DEF OpensSvn, TypeOK, RunInv
  <2> QED  BY <1>2, <1>5, <2>1 DEF OpensSvn, TypeOK
<1>6. CASE StartImport
  BY <1>6 DEF StartImport, mainVars, TypeOK
<1>7. CASE Advances
  <2>1. revision' \in 0 .. MaxRev
    BY <1>2, <1>7 DEF Advances, TypeOK
  <2>2. errors' \in BOOLEAN
    BY <1>7 DEF Advances, TypeOK
  <2> QED  BY <1>7, <2>1, <2>2 DEF Advances, TypeOK
<1>8. ASSUME NEW ended \in SUBSET Repos, ProcessesEnd(ended), pc' = "exited",
             (unprepared' = {} /\ preparing' = NoRepo) \/ UNCHANGED <<unprepared, preparing>>,
             UNCHANGED <<dir, diedAt, revision, errors>>,
             loaded' \in {loaded, rules}, status' \in {"success", "failure"}
      PROVE  Typed
  BY <1>8, ImportedType DEF TypeOK
<1>9. CASE Finish \/ Leaves
  <2>1. Alive \in SUBSET Repos
    BY DEF Alive
  <2>2. CASE Finish
    BY <1>8, <2>1, <2>2 DEF Finish, Result
  <2>3. CASE Leaves
    BY <1>8, <2>1, <2>3 DEF Leaves, LeaveEarly
  <2> QED  BY <1>9, <2>2, <2>3
<1>10. ASSUME NEW r \in Repos, Prepares(r) PROVE Typed
  <2>1. PICK what \in {"directory", "repository"} :
          dir' = [dir EXCEPT ![r] = what] /\ Launch(r, what)
    BY <1>10 DEF Prepares
  <2>2. /\ process' \in [Repos -> {"none", "running", "dead"}]
        /\ \A q \in Repos : q # r => process'[q] = process[q] /\ dir'[q] = dir[q]
        /\ process'[r] = "running" => dir'[r] = "repository"
    BY <2>1 DEF Launch, TypeOK
  <2>3. diedAt' \in [Repos -> 0 .. MaxRev + 1]
    BY <1>2, <2>1 DEF Launch, TypeOK
  <2>4. unprepared' \subseteq Repos /\ preparing' = NoRepo
    BY <2>1 DEF Launch, TypeOK
  <2> QED  BY <1>10, <2>1, <2>2, <2>3, <2>4 DEF Prepares, TypeOK
<1>11. ASSUME NEW r \in Repos, CreateDirectory(r) PROVE Typed
  <2>1. \A q \in Repos : process[q] = "running" => dir'[q] = dir[q]
    BY <1>11 DEF CreateDirectory, TypeOK
  <2> QED  BY <1>11, <2>1 DEF CreateDirectory, TypeOK
<1>12. ASSUME NEW r \in Repos, ProcessDies(r) PROVE Typed
  BY <1>2, <1>12 DEF ProcessDies, TypeOK
<1> QED  BY <1>4, <1>5, <1>6, <1>7, <1>9, <1>10, <1>11, <1>12, MainActionKinds

\* What a push sends is well typed.
LEMMA LocalType ==
  ASSUME TypeOK, NEW r \in Repos
  PROVE  Local(r) \in Published
<1>1. NoFixup \in Published
  BY DEF NoFixup, Published
<1>2. branches[r] \in SUBSET Import /\ loaded \in Editions /\ fixup \in Published
  BY DEF TypeOK
<1>3. [NoFixup EXCEPT !.made[r] = branches[r], !.rules = loaded] \in Published
  BY <1>1, <1>2 DEF Published
<1> QED  BY <1>2, <1>3 DEF Local

\* So does a step of the build or of those who run it.
LEMMA TypeBuild ==
  ASSUME TypeOK, RunInv, PushInv,
         \/ Build \/ Analyse \/ Edit \/ Configure \/ TouchStamp \/ StartConversion
         \/ EndConversion \/ FixSubmodules \/ EndPushes \/ ARefusal \/ FixingFails \/ Interrupt
         \/ \E r \in Repos : RemoveRepository(r) \/ CleanUp(r) \/ Accept(r)
  PROVE  TypeOK'
<1>1. MaxRev \in Nat \ {0} /\ RepositoriesIn \in [Editions -> SUBSET Repos]
  BY InputsAssumption
<1>2. NoFixup \in Published
  BY DEF NoFixup, Published
<1>3. \A r \in Repos : Len(HostsOf[r]) \in Nat
  <2> TAKE r \in Repos
  <2>1. HostsOf[r] \in Seq(Hosts)
    BY TargetsAssumption
  <2> QED  BY <2>1
<1> DEFINE Counted == \A r \in Repos : host'[r] \in 0 .. Len(HostsOf[r]) + 1 /\ tried'[r] \in 0 .. 2
<1>4. host \in [Repos -> Nat] /\ tried \in [Repos -> Nat]
  BY DEF PushInv
<1>5. CASE Build
  <2>1. Counted
    BY <1>3, <1>5 DEF Build, StartBuild
  <2>2. pc = "exited"
    BY <1>5 DEF Build, StartBuild, Resting, TypeOK
  <2> QED  BY <1>5, <2>1, <2>2 DEF Build, StartBuild, mainState, mainVars, TypeOK, Published, Import
<1>6. CASE Analyse
  <2>1. Counted
    BY <1>3, <1>6 DEF Analyse, StartBuild
  <2>2. diedAt' \in [Repos -> 0 .. MaxRev + 1] /\ revision' \in 0 .. MaxRev
    BY <1>1, <1>6 DEF Analyse, StartMain
  <2>3. /\ UNCHANGED <<rules, dir, status, stamp, configured, fixup, remote, loaded, unprepared,
                       preparing, process, branches>>
        /\ pc' = "ruleset" /\ dryRun' = TRUE /\ errors' = FALSE /\ revision' = 0
        /\ target' = "analysis" /\ began' = rules
    BY <1>6 DEF Analyse, StartBuild, StartMain
  <2> QED  BY <2>1, <2>2, <2>3 DEF TypeOK, Published, Import
<1>7. CASE Edit
  BY <1>7 DEF Edit, mainVars, targetVars, TypeOK, Published, Import
<1>8. CASE Configure
  BY <1>8 DEF Configure, mainState, mainVars, history, TypeOK, Published, Import
<1>9. CASE TouchStamp
  BY <1>2, <1>9 DEF TouchStamp, mainState, mainVars, history, TypeOK, Published, Import
<1>10. CASE StartConversion
  <2>1. diedAt' \in [Repos -> 0 .. MaxRev + 1] /\ revision' \in 0 .. MaxRev
    BY <1>1, <1>10 DEF StartConversion, StartMain
  <2> QED  BY <1>10, <2>1 DEF StartConversion, StartMain, history, TypeOK, Published, Import
<1>11. CASE EndConversion
  BY <1>11 DEF EndConversion, mainState, mainVars, history, TypeOK, Published, Import, Resting
<1>12. CASE FixSubmodules
  BY <1>2, <1>12 DEF FixSubmodules, FixedUp, mainState, mainVars, history, TypeOK, Published, Import, Resting
<1>13. CASE EndPushes
  BY <1>13 DEF EndPushes, mainState, mainVars, history, TypeOK, Published, Import, Resting
<1>14. CASE FixingFails
  BY <1>2, <1>14 DEF FixingFails, Fault, mainState, mainVars, TypeOK, Published, Import, Resting
<1>15. CASE Interrupt
  BY <1>15 DEF Interrupt, Fault, MainInterrupted, mainState, mainVars, TypeOK, Published, Import, Resting
<1>16. ASSUME NEW r \in Repos, RemoveRepository(r) PROVE TypeOK'
  BY <1>16 DEF RemoveRepository, RunInv, mainVars, targetVars, history, TypeOK, Published, Import
<1>17. ASSUME NEW r \in Repos, CleanUp(r) PROVE TypeOK'
  <2>1. Counted
    BY <1>3, <1>4, <1>17 DEF CleanUp, TypeOK
  <2> QED  BY <1>17, <2>1 DEF CleanUp, mainState, mainVars, history, TypeOK, Published, Import
<1>18. ASSUME NEW r \in Repos, Accept(r) PROVE TypeOK'
  <2>1. remote' \in [Hosts -> [Repos -> Published]]
    BY <1>18, LocalType DEF Accept, TypeOK
  <2>2. host[r] \in 0 .. Len(HostsOf[r]) + 1 /\ ~ (host[r] > Len(HostsOf[r]))
    BY <1>18 DEF Accept, CanPush, Pushed, TypeOK
  <2>3. host[r] + 1 \in 0 .. Len(HostsOf[r]) + 1
    BY <1>3, <2>2
  <2>4. Counted
    BY <1>4, <1>18, <2>3 DEF Accept, TypeOK
  <2>5. UNCHANGED <<mainState, target, stamp, configured, fixup, history>>
    BY <1>18 DEF Accept
  <2> QED  BY <2>1, <2>4, <2>5 DEF mainState, mainVars, history, TypeOK, Published, Import
<1>19. CASE ARefusal
  <2>1. PICK r \in Repos : Refuse(r)
    BY <1>19 DEF ARefusal
  <2>2. tried[r] \in 0 .. 2 /\ tried[r] # 2
    BY <2>1 DEF Refuse, CanPush, Refused, TypeOK
  <2>3. tried[r] + 1 \in 0 .. 2
    BY <2>2
  <2>4. Counted
    BY <1>4, <2>1, <2>3 DEF Refuse, TypeOK
  <2> QED  BY <1>19, <2>1, <2>4 DEF ARefusal, Fault, Refuse, mainState, mainVars, TypeOK, Published, Import
<1> QED  BY <1>5, <1>6, <1>7, <1>8, <1>9, <1>10, <1>11, <1>12, <1>13, <1>14, <1>15, <1>16,
           <1>17, <1>18, <1>19

-----------------------------------------------------------------------------
(* Processes.                                                              *)

\* The steps of the build and its environment that leave svn2git and what it has
\* written alone.
Besides ==
  /\ UNCHANGED <<dir, branches, pc, dryRun, status, mainVars>>
  /\ UNCHANGED <<stamp, began>> \/ (target' = "setup" /\ UNCHANGED stamp /\ began' = rules)
  /\ UNCHANGED rules \/ (target' = target /\ rules' \in Editions /\ rules' > rules /\ UNCHANGED began)
  /\ \/ target' = target
     \/ target' \in {"setup", "succeeded", "failed"}
     \/ target = "conversion" /\ pc = "exited" /\ status = "success" /\ target' = "submodules"
     \/ target = "submodules" /\ target' = "push"

LEMMA BuildKinds ==
  ASSUME TypeOK,
         \/ Build \/ Analyse \/ Edit \/ Configure \/ TouchStamp \/ StartConversion
         \/ EndConversion \/ FixSubmodules \/ EndPushes \/ ARefusal \/ FixingFails \/ Interrupt
         \/ \E r \in Repos : RemoveRepository(r) \/ CleanUp(r) \/ Accept(r)
  PROVE  \/ Besides \/ Analyse \/ TouchStamp \/ StartConversion
         \/ \E r \in Repos : RemoveRepository(r)
         \/ Interrupt /\ MainInterrupted
<1>1. CASE Build
  BY <1>1 DEF Build, StartBuild, Besides, mainState, mainVars
<1>2. CASE Edit
  <2>1. rules' > rules
    BY <1>2, InputsAssumption DEF Edit, TypeOK
  <2> QED  BY <1>2, <2>1 DEF Edit, Besides, mainState, mainVars, targetVars
<1>3. CASE Configure
  BY <1>3 DEF Configure, Besides, mainState, mainVars, history
<1>4. CASE EndConversion
  <2>1. status \in {"success", "failure"}
    BY DEF TypeOK
  <2>2. \/ target' \in {"succeeded", "failed"}
        \/ target = "conversion" /\ status = "success" /\ target' = "submodules"
    <3>1. CASE status = "failure"
      BY <1>4, <3>1 DEF EndConversion
    <3>2. CASE status = "success" /\ target = "conversion"
      BY <1>4, <3>2 DEF EndConversion
    <3>3. CASE status = "success" /\ target = "analysis"
      BY <1>4, <3>3 DEF EndConversion
    <3> QED  BY <1>4, <2>1, <3>1, <3>2, <3>3 DEF EndConversion
  <2> QED  BY <1>4, <2>2 DEF EndConversion, Besides, mainState, mainVars, history
<1>5. CASE FixSubmodules
  BY <1>5 DEF FixSubmodules, Besides, mainState, mainVars, history
<1>6. CASE EndPushes
  BY <1>6 DEF EndPushes, Besides, mainState, mainVars, history
<1>7. CASE ARefusal
  BY <1>7 DEF ARefusal, Fault, Refuse, Besides, mainState, mainVars
<1>8. CASE FixingFails
  BY <1>8 DEF FixingFails, Fault, Besides, mainState, mainVars
<1>9. ASSUME Interrupt, ~ MainInterrupted PROVE Besides
  BY <1>9 DEF Interrupt, Fault, Besides, mainState, mainVars
<1>10. ASSUME NEW r \in Repos, CleanUp(r) \/ Accept(r) PROVE Besides
  BY <1>10 DEF CleanUp, Accept, Besides, mainState, mainVars, history
<1> QED  BY <1>1, <1>2, <1>3, <1>4, <1>5, <1>6, <1>7, <1>8, <1>9, <1>10

\* The processes that end are all there are, and those of repositories.
LEMMA EndedBranches ==
  ASSUME TypeOK, RunInv, NEW ended \in SUBSET Alive, ProcessesEnd(ended)
  PROVE  /\ \A r \in Repos : process'[r] = "none"
         /\ \A r \in Repos : dir[r] = "none" => branches'[r] = {}
<1>1. \A r \in Repos : dir[r] = "none" => r \notin ended
  BY DEF Alive, TypeOK
<1> QED  BY <1>1 DEF ProcessesEnd, RunInv

\* A step of svn2git keeps its processes in order.
LEMMA RunMainStep ==
  ASSUME TypeOK, RunInv, MainAction, UNCHANGED <<targetVars, began>>
  PROVE  RunInv'
<1>1. UNCHANGED dryRun /\ UNCHANGED target
  BY MainActionRuns DEF targetVars
<1>2. RepositoriesIn \in [Editions -> SUBSET Repos] /\ loaded \in Editions
  BY InputsAssumption DEF TypeOK
<1>3. CASE LoadsRuleset
  BY <1>1, <1>3 DEF LoadsRuleset, RunInv
<1>4. CASE OpensSvn
  BY <1>1, <1>2, <1>4 DEF OpensSvn, RunInv
<1>5. CASE StartImport
  BY <1>1, <1>5 DEF StartImport, mainVars, RunInv
<1>6. CASE Advances
  BY <1>1, <1>6 DEF Advances, RunInv
<1>7. CASE Finish
  <2>1. unprepared' = {} /\ ~ (pc' \in {"prepare", "import"}) /\ dir' = dir
    BY <1>7 DEF Finish, RunInv
  <2> QED  BY <1>1, <1>7, <2>1, EndedBranches DEF Finish, RunInv
<1>8. CASE Leaves
  <2>1. PICK ended \in SUBSET Alive : ProcessesEnd(ended)
    BY <1>8 DEF Leaves, LeaveEarly
  <2>2. unprepared' = {} /\ ~ (pc' \in {"prepare", "import"}) /\ dir' = dir
    BY <1>8 DEF Leaves, LeaveEarly
  <2> QED  BY <1>1, <2>1, <2>2, EndedBranches DEF RunInv
<1>9. ASSUME NEW r \in Repos, Prepares(r) PROVE RunInv'
  <2>1. PICK what \in {"directory", "repository"} :
          dir' = [dir EXCEPT ![r] = what] /\ Launch(r, what)
    BY <1>9 DEF Prepares
  <2>2. /\ \A q \in Repos : q # r => process'[q] = process[q]
        /\ ~ dryRun => process'[r] # "none"
        /\ unprepared' = unprepared \ {r}
    BY <2>1 DEF Launch, TypeOK
  <2>3. \A q \in Repos : dir'[q] = "none" => dir[q] = "none"
    BY <2>1 DEF TypeOK
  <2>4. UNCHANGED <<branches, pc, loaded>> /\ pc = "prepare"
    BY <1>9 DEF Prepares
  <2> QED  BY <1>1, <1>2, <2>2, <2>3, <2>4 DEF RunInv
<1>10. ASSUME NEW r \in Repos, CreateDirectory(r) PROVE RunInv'
  <2>1. \A q \in Repos : dir'[q] = "none" => dir[q] = "none"
    BY <1>10 DEF CreateDirectory, TypeOK
  <2> QED  BY <1>1, <1>10, <2>1 DEF CreateDirectory, RunInv
<1>11. ASSUME NEW r \in Repos, ProcessDies(r) PROVE RunInv'
  <2>1. \A q \in Repos : process'[q] = "none" <=> process[q] = "none"
    BY <1>11 DEF ProcessDies, TypeOK
  <2>2. UNCHANGED <<dir, branches, pc, loaded, unprepared>>
    BY <1>11 DEF ProcessDies
  <2> QED  BY <1>1, <1>2, <2>1, <2>2 DEF RunInv
<1> QED  BY <1>3, <1>4, <1>5, <1>6, <1>7, <1>8, <1>9, <1>10, <1>11, MainActionKinds

LEMMA RunNext ==
  ASSUME TypeOK, RunInv, Next
  PROVE  RunInv'
<1>1. CASE MainAction /\ UNCHANGED <<targetVars, began>>
  BY <1>1, RunMainStep
<1>2. CASE Besides
  BY <1>2 DEF Besides, mainVars, RunInv
<1>3. CASE Analyse
  BY <1>3 DEF Analyse, StartBuild, StartMain, Resting, TypeOK, RunInv
<1>4. CASE TouchStamp
  BY <1>4 DEF TouchStamp, mainState, mainVars, RunInv
<1>5. CASE StartConversion
  BY <1>5 DEF StartConversion, StartMain, TypeOK, RunInv
<1>6. ASSUME NEW r \in Repos, RemoveRepository(r) PROVE RunInv'
  <2>1. \A q \in Repos : dir'[q] = "none" => branches'[q] = {}
    BY <1>6 DEF RemoveRepository, TypeOK, RunInv
  <2> QED  BY <1>6, <2>1 DEF RemoveRepository, mainVars, targetVars, RunInv
<1>7. CASE Interrupt /\ MainInterrupted
  BY <1>7 DEF Interrupt, MainInterrupted, RunInv
<1> QED  BY <1>1, <1>2, <1>3, <1>4, <1>5, <1>6, <1>7, NextKinds, BuildKinds

-----------------------------------------------------------------------------
(* What was reported, and what the dead have missed.                       *)

LEMMA ErrorsNext ==
  ASSUME TypeOK, RunInv, ErrorsInv, Next
  PROVE  ErrorsInv'
<1>1. revision \in Nat /\ MaxRev \in Nat /\ \A r \in Repos : diedAt[r] \in Nat
  BY InputsAssumption DEF TypeOK
<1>2. ASSUME UNCHANGED <<loaded, process, diedAt, revision, errors>> PROVE ErrorsInv'
  BY <1>2 DEF ErrorsInv
<1>3. ASSUME \A r \in Repos : process'[r] = "none",
             (UNCHANGED <<loaded, revision, errors>>) \/ revision' = 0
      PROVE  ErrorsInv'
  BY <1>3 DEF ErrorsInv
<1>4. CASE LoadsRuleset
  <2>1. revision' = 0 /\ \A r \in Repos : process'[r] = "none"
    BY <1>4 DEF LoadsRuleset, TypeOK, RunInv
  <2> QED  BY <1>3, <2>1
<1>5. CASE OpensSvn
  BY <1>2, <1>5 DEF OpensSvn
<1>6. CASE StartImport
  BY <1>2, <1>6 DEF StartImport, mainVars
<1>7. CASE Advances
  <2>1. /\ revision' = revision + 1 /\ UNCHANGED <<loaded, process, diedAt>>
        /\ errors' = TRUE \/ (<<loaded, revision + 1>> \notin ReportsAt /\ Broken = {} /\ errors' = errors)
    BY <1>7 DEF Advances
  <2>2. \A i, k : k \in Nat /\ i \in k .. (revision + 1) => i \in k .. revision \/ i = revision + 1
    BY <1>1
  <2>3. ~errors' => \A i \in 1 .. revision' : <<loaded', i>> \notin ReportsAt'
    BY <2>1, <2>2 DEF ErrorsInv
  <2>4. ASSUME NEW r \in Repos, process'[r] = "dead"
        PROVE  /\ diedAt'[r] <= revision'
               /\ ~errors' => \A i \in (diedAt'[r] + 1) .. revision' : <<i, r>> \notin Writes
    <3>1. diedAt[r] <= revision
      BY <2>1, <2>4 DEF ErrorsInv
    <3>2. diedAt'[r] <= revision'
      BY <1>1, <2>1, <3>1
    <3>3. ASSUME ~errors', NEW i \in (diedAt'[r] + 1) .. revision'
          PROVE  <<i, r>> \notin Writes
      <4>1. i \in (diedAt[r] + 1) .. revision \/ i = revision + 1
        BY <1>1, <2>1, <2>2
      <4>2. <<revision + 1, r>> \notin Writes
        BY <2>1, <2>4, <3>3 DEF Broken
      <4> QED  BY <2>1, <2>4, <3>3, <4>1, <4>2 DEF ErrorsInv
    <3> QED  BY <3>2, <3>3
  <2> QED  BY <2>3, <2>4 DEF ErrorsInv
<1>8. CASE Finish \/ Leaves
  <2>1. Alive \in SUBSET Alive
    OBVIOUS
  <2>2. PICK ended \in SUBSET Alive : ProcessesEnd(ended)
    BY <1>8, <2>1 DEF Finish, Leaves, LeaveEarly
  <2>3. \A r \in Repos : process'[r] = "none"
    BY <2>2 DEF ProcessesEnd
  <2>4. (UNCHANGED <<loaded, revision, errors>>) \/ revision' = 0
    BY <1>8 DEF Finish, Leaves, LeaveEarly, TypeOK
  <2> QED  BY <1>3, <2>3, <2>4
<1>9. ASSUME NEW r \in Repos, Prepares(r) PROVE ErrorsInv'
  <2>1. PICK what \in {"directory", "repository"} : Launch(r, what)
    BY <1>9 DEF Prepares
  <2>2. UNCHANGED <<loaded, revision, errors>> /\ revision = 0
    BY <1>9 DEF Prepares, TypeOK
  <2>3. \A q \in Repos : q # r => process'[q] = process[q] /\ diedAt'[q] = diedAt[q]
    BY <2>1 DEF Launch, TypeOK
  <2>4. process'[r] = "dead" => diedAt'[r] = 0
    BY <2>1 DEF Launch, TypeOK
  <2>5. \A i : i \in 1 .. 0 => FALSE
    OBVIOUS
  <2> QED  BY <2>2, <2>3, <2>4, <2>5 DEF ErrorsInv
<1>10. ASSUME NEW r \in Repos, CreateDirectory(r) PROVE ErrorsInv'
  BY <1>2, <1>10 DEF CreateDirectory
<1>11. ASSUME NEW r \in Repos, ProcessDies(r) PROVE ErrorsInv'
  <2>1. /\ \A q \in Repos : q # r => process'[q] = process[q] /\ diedAt'[q] = diedAt[q]
        /\ diedAt'[r] = revision /\ UNCHANGED <<loaded, revision, errors>>
    BY <1>11 DEF ProcessDies, TypeOK
  <2>2. \A i : i \in (revision + 1) .. revision => FALSE
    BY <1>1
  <2> QED  BY <1>1, <2>1, <2>2 DEF ErrorsInv
<1>12. CASE MainAction
  BY <1>4, <1>5, <1>6, <1>7, <1>8, <1>9, <1>10, <1>11, <1>12, MainActionKinds
<1>13. CASE Besides \/ TouchStamp \/ \E r \in Repos : RemoveRepository(r)
  BY <1>2, <1>13 DEF Besides, TouchStamp, RemoveRepository, mainState, mainVars
<1>14. CASE Analyse \/ StartConversion
  <2>1. revision' = 0 /\ UNCHANGED process /\ pc = "exited"
    BY <1>14 DEF Analyse, StartBuild, Resting, StartConversion, StartMain, TypeOK
  <2> QED  BY <1>3, <2>1 DEF RunInv, TypeOK
<1>15. CASE MainInterrupted
  BY <1>3, <1>15 DEF MainInterrupted
<1> QED  BY <1>12, <1>13, <1>14, <1>15, NextKinds, BuildKinds

-----------------------------------------------------------------------------
(* Editions.                                                               *)

\* What a process adds has the edition that was loaded.
LEMMA EndedEditions ==
  ASSUME TypeOK, RunInv, EditionsInv, NEW ended \in SUBSET Alive, ProcessesEnd(ended)
  PROVE  \A r \in Repos : \A b \in branches'[r] : stamp <= b.rules /\ b.rules <= rules
<1>1. ASSUME NEW r \in ended, NEW b \in Imported(r)
      PROVE  stamp <= b.rules /\ b.rules <= rules
  <2>1. r \in Repos /\ pc \notin {"ruleset", "exited"}
    BY <1>1 DEF Alive, RunInv
  <2> QED  BY <1>1, <2>1 DEF Imported, EditionsInv
<1> QED  BY <1>1 DEF ProcessesEnd, EditionsInv

LEMMA EditionsNext ==
  ASSUME TypeOK, RunInv, EditionsInv, Next
  PROVE  EditionsInv'
<1>1. /\ {rules, loaded, began, stamp} \subseteq Int
      /\ \A r \in Repos : \A b \in branches[r] : b.rules \in Int
  <2>1. Editions \subseteq Int /\ NoStamp \in Int
    BY InputsAssumption DEF NoStamp
  <2>2. {rules, loaded, began, stamp} \subseteq Editions \cup {NoStamp}
    BY DEF TypeOK
  <2>3. ASSUME NEW r \in Repos, NEW b \in branches[r] PROVE b.rules \in Editions
    <3>1. b \in Import
      BY <2>3 DEF TypeOK
    <3> QED  BY <3>1 DEF Import
  <2> QED  BY <2>1, <2>2, <2>3
<1>2. CASE MainAction /\ UNCHANGED <<targetVars, began>>
  <2>1. UNCHANGED <<rules, stamp, began, target>>
    BY <1>2, MainActionRuns DEF targetVars
  <2>2. CASE LoadsRuleset
    BY <1>1, <2>1, <2>2 DEF LoadsRuleset, EditionsInv
  <2>3. CASE OpensSvn \/ StartImport \/ Advances
    BY <2>1, <2>3 DEF OpensSvn, StartImport, Advances, mainVars, EditionsInv
  <2>4. CASE Finish \/ Leaves
    <3>1. Alive \in SUBSET Alive
      OBVIOUS
    <3>2. PICK ended \in SUBSET Alive : ProcessesEnd(ended)
      BY <2>4, <3>1 DEF Finish, Leaves, LeaveEarly
    <3>3. pc' = "exited"
      BY <2>4 DEF Finish, Leaves, LeaveEarly
    <3> QED  BY <2>1, <3>2, <3>3, EndedEditions DEF EditionsInv
  <2>5. CASE \E r \in Repos : Prepares(r) \/ CreateDirectory(r) \/ ProcessDies(r)
    BY <2>1, <2>5 DEF Prepares, CreateDirectory, ProcessDies, EditionsInv
  <2> QED  BY <1>2, <2>2, <2>3, <2>4, <2>5, MainActionKinds
<1>3. CASE Besides
  <2>1. UNCHANGED <<branches, pc, loaded, stamp>>
    BY <1>3 DEF Besides, mainVars
  <2>2. rules' \in Int /\ rules <= rules' /\ began' <= rules'
    <3>1. CASE UNCHANGED rules
      BY <1>1, <1>3, <3>1 DEF Besides, EditionsInv
    <3>2. CASE rules' > rules /\ UNCHANGED began
      <4>1. rules' \in Int
        <5>1. rules' = rules \/ rules' \in Editions
          BY <1>3 DEF Besides
        <5>2. Editions \subseteq Int
          BY InputsAssumption
        <5> QED  BY <1>1, <5>1, <5>2
      <4> QED  BY <1>1, <3>2, <4>1 DEF EditionsInv
    <3> QED  BY <1>3, <3>1, <3>2 DEF Besides
  <2>3. target' \in {"conversion", "submodules", "push"} =>
          target \in {"conversion", "submodules", "push"} /\ UNCHANGED began
    BY <1>3 DEF Besides
  <2>4. \A n \in Int : n <= rules => n <= rules'
    BY <1>1, <2>2
  <2> QED  BY <1>1, <2>1, <2>2, <2>3, <2>4 DEF EditionsInv
<1>4. CASE Analyse
  BY <1>1, <1>4 DEF Analyse, StartBuild, StartMain, EditionsInv
<1>5. CASE TouchStamp
  <2>1. \A r \in Repos : branches[r] = {}
    BY <1>5 DEF TouchStamp, RunInv
  <2>2. pc = "exited"
    BY <1>5 DEF TouchStamp, TypeOK
  <2> QED  BY <1>1, <1>5, <2>1, <2>2 DEF TouchStamp, mainState, mainVars, history, EditionsInv
<1>6. CASE StartConversion
  BY <1>6 DEF StartConversion, Outdated, StartMain, history, EditionsInv
<1>7. ASSUME NEW r \in Repos, RemoveRepository(r) PROVE EditionsInv'
  <2>1. \A q \in Repos : branches'[q] \subseteq branches[q]
    BY <1>7 DEF RemoveRepository, TypeOK
  <2> QED  BY <1>7, <2>1 DEF RemoveRepository, mainVars, targetVars, history, EditionsInv
<1>8. CASE Interrupt /\ MainInterrupted
  BY <1>8 DEF Interrupt, Fault, MainInterrupted, EditionsInv
<1> QED  BY <1>2, <1>3, <1>4, <1>5, <1>6, <1>7, <1>8, NextKinds, BuildKinds

-----------------------------------------------------------------------------
(* What a conversion leaves.                                               *)

\* A run that exits with 0 has imported everything.
LEMMA FinishConverts ==
  ASSUME TypeOK, RunInv, ErrorsInv, EditionsInv, Finish, ~dryRun, status' = "success",
         UNCHANGED stamp
  PROVE  Converted'
<1>1. /\ revision = MaxRev /\ ~errors /\ pc = "import" /\ ProcessesEnd(Alive)
      /\ UNCHANGED <<rules, loaded, diedAt>>
  BY InputsAssumption DEF Finish, LastRevision, Result, TypeOK
<1>2. \A i \in Revisions : <<loaded, i>> \notin ReportsAt
  BY <1>1 DEF ErrorsInv, Revisions
<1>3. ASSUME NEW r \in RepositoriesIn[loaded], process[r] = "dead" PROVE DiedUnnoticed(r)
  <2>1. r \in Repos
    BY InputsAssumption DEF TypeOK
  <2> QED  BY <1>1, <1>3, <2>1 DEF ErrorsInv, DiedUnnoticed
<1>4. ASSUME NEW r \in RepositoriesIn[loaded], process[r] = "running"
      PROVE  /\ Complete(loaded) \subseteq branches'[r]
             /\ \A b \in branches'[r] : b.rules = loaded => b.upto = MaxRev
  <2>1. r \in Repos
    BY InputsAssumption DEF TypeOK
  <2>2. branches'[r] = Imported(r)
    BY <1>1, <1>4, <2>1 DEF ProcessesEnd, Alive
  <2>3. ~ (revision < MaxRev)
    BY <1>1, InputsAssumption
  <2> QED  BY <1>1, <2>2, <2>3 DEF Imported, Complete
<1>5. \A r \in RepositoriesIn[loaded] : process[r] \in {"running", "dead"}
  <2> TAKE r \in RepositoriesIn[loaded]
  <2>1. r \in Repos /\ r \notin unprepared
    BY <1>1, InputsAssumption DEF TypeOK, RunInv
  <2> QED  BY <1>1, <2>1 DEF TypeOK, RunInv
<1>6. stamp' <= loaded' /\ loaded' <= rules'
  BY <1>1 DEF EditionsInv
<1>7. \A r : DiedUnnoticed(r) => DiedUnnoticed(r)'
  BY <1>1 DEF DiedUnnoticed
<1> QED  BY <1>1, <1>2, <1>3, <1>4, <1>5, <1>6, <1>7 DEF Converted

LEMMA ConvertedNext ==
  ASSUME TypeOK, RunInv, ErrorsInv, EditionsInv, ConvertedInv, Next
  PROVE  ConvertedInv'
<1>1. ASSUME UNCHANGED <<branches, loaded, diedAt, stamp>>,
             rules' = rules \/ (rules' \in Editions /\ rules' > rules),
             Converted
      PROVE  Converted'
  <2>1. loaded \in Nat /\ rules \in Nat /\ rules' \in Nat
    BY <1>1, InputsAssumption DEF TypeOK
  <2>2. loaded <= rules
    BY <1>1 DEF Converted
  <2>3. loaded <= rules'
    BY <1>1, <2>1, <2>2
  <2>4. \A r : DiedUnnoticed(r) => DiedUnnoticed(r)'
    BY <1>1 DEF DiedUnnoticed
  <2> QED  BY <1>1, <2>3, <2>4 DEF Converted
<1>2. CASE MainAction /\ UNCHANGED <<targetVars, began>>
  <2>1. UNCHANGED <<rules, dryRun, stamp, target>> /\ target \in {"conversion", "analysis"}
    BY <1>2, MainActionRuns DEF targetVars
  <2>2. CASE Finish
    <3>1. target' = "conversion" /\ status' = "success" => Converted'
      BY <2>1, <2>2, FinishConverts DEF RunInv
    <3> QED  BY <2>1, <3>1 DEF ConvertedInv
  <2>3. CASE Leaves
    BY <2>1, <2>3 DEF Leaves, LeaveEarly, ConvertedInv
  <2>4. ASSUME pc' # "exited" PROVE ConvertedInv'
    BY <2>1, <2>4 DEF ConvertedInv
  <2>5. CASE LoadsRuleset \/ OpensSvn \/ StartImport \/ Advances
    BY <2>4, <2>5 DEF LoadsRuleset, OpensSvn, StartImport, Advances
  <2>6. ASSUME NEW r \in Repos, Prepares(r) \/ CreateDirectory(r) \/ ProcessDies(r)
        PROVE  pc' # "exited"
    BY <1>2, <2>6, MainActionRuns DEF Prepares, CreateDirectory, ProcessDies
  <2> QED  BY <1>2, <2>2, <2>3, <2>4, <2>5, <2>6, MainActionKinds
<1>3. CASE Besides
  <2>1. /\ UNCHANGED <<branches, loaded, diedAt, stamp, pc, status>>
        /\ rules' = rules \/ (rules' \in Editions /\ rules' > rules)
    BY <1>3 DEF Besides, mainVars
  <2>2. ConvertedInv' \/ Converted
    BY <1>3, <2>1 DEF Besides, ConvertedInv
  <2> QED  BY <1>1, <2>1, <2>2 DEF ConvertedInv
<1>4. CASE Analyse \/ StartConversion
  BY <1>4 DEF Analyse, StartBuild, StartConversion, StartMain, ConvertedInv
<1>5. CASE TouchStamp
  BY <1>5 DEF TouchStamp, ConvertedInv
<1>6. CASE Interrupt
  BY <1>6 DEF Interrupt, ConvertedInv
<1>7. CASE \E r \in Repos : RemoveRepository(r)
  BY <1>7 DEF RemoveRepository, targetVars, ConvertedInv
<1> QED  BY <1>2, <1>3, <1>4, <1>5, <1>6, <1>7, NextKinds, BuildKinds

-----------------------------------------------------------------------------
(* Pushes.                                                                 *)

\* While it is pushed nothing in the working directory changes.
LEMMA PushNext ==
  ASSUME TypeOK, RunInv, EditionsInv, PushInv, Next
  PROVE  PushInv'
<1> DEFINE Typed == host' \in [Repos -> Nat] /\ tried' \in [Repos -> Nat]
           Accepted == \A r \in Repos : \A i \in DOMAIN HostsOf[r] :
                         i < host[r] => remote[HostsOf[r][i]][r] = Local(r)
<1>1. /\ host \in [Repos -> Nat] /\ tried \in [Repos -> Nat]
      /\ target = "push" => Accepted
  BY DEF PushInv
<1>2. /\ \A r \in Repos : HostsOf[r] \in Seq(Hosts)
      /\ \A r \in Repos : Len(HostsOf[r]) \in Nat /\ DOMAIN HostsOf[r] = 1 .. Len(HostsOf[r])
  <2>1. \A r \in Repos : HostsOf[r] \in Seq(Hosts)
    BY TargetsAssumption
  <2>2. ASSUME NEW s \in Seq(Hosts) PROVE Len(s) \in Nat /\ DOMAIN s = 1 .. Len(s)
    OBVIOUS
  <2> QED  BY <2>1, <2>2
<1>3. ASSUME UNCHANGED <<branches, loaded, fixup>>
      PROVE  \A r : Local(r)' = Local(r)
  BY <1>3 DEF Local
\* Nothing of it changes, but the rules perhaps.
<1>4. ASSUME UNCHANGED <<host, tried, target, stamp, fixup, remote, branches, loaded>>,
             rules' = rules \/ (rules' \in Nat /\ rules' > rules)
      PROVE  PushInv'
  <2>1. target = "push" => fixup.rules <= rules'
    <3>1. fixup.rules \in Int /\ rules \in Int
      <4>1. fixup.rules \in Editions \cup {NoStamp} /\ rules \in Editions
        BY DEF TypeOK, Published
      <4>2. Editions \subseteq Int /\ NoStamp \in Int
        BY InputsAssumption DEF NoStamp
      <4> QED  BY <4>1, <4>2
    <3> QED  BY <1>4, <3>1 DEF PushInv
  <2> QED  BY <1>3, <1>4, <2>1 DEF PushInv
<1>5. ASSUME Typed, target' \notin {"push", "setup", "conversion", "submodules"} PROVE PushInv'
  BY <1>5 DEF PushInv
<1>6. ASSUME Typed, target' # "push", \A r \in Repos : host'[r] = 0 PROVE PushInv'
  BY <1>6 DEF PushInv
<1>7. CASE MainAction /\ UNCHANGED <<targetVars, began>>
  <2>1. target \in {"conversion", "analysis"} /\ UNCHANGED <<target, host, tried>>
    BY <1>7, MainActionRuns DEF targetVars
  <2> QED  BY <1>1, <2>1 DEF PushInv
<1>8. CASE Build \/ Analyse
  <2>1. target' \in {"setup", "analysis"}
        /\ host' = [r \in Repos |-> 0] /\ tried' = [r \in Repos |-> 0]
    BY <1>8 DEF Build, Analyse, StartBuild
  <2>2. Typed /\ \A r \in Repos : host'[r] = 0
    BY <2>1
  <2> QED  BY <1>6, <2>1, <2>2
<1>9. CASE Edit
  <2>1. rules' \in Nat /\ rules' > rules
    BY <1>9, InputsAssumption DEF Edit, TypeOK
  <2> QED  BY <1>4, <1>9, <2>1 DEF Edit, mainVars, targetVars
<1>10. CASE Configure
  BY <1>4, <1>10 DEF Configure, mainState, mainVars, history
<1>11. CASE TouchStamp
  BY <1>1, <1>11 DEF TouchStamp, PushInv
<1>12. CASE StartConversion
  BY <1>1, <1>12 DEF StartConversion, PushInv
<1>13. CASE EndConversion
  BY <1>1, <1>13 DEF EndConversion, PushInv
<1>14. CASE FixSubmodules
  <2>1. Typed /\ target' \in {"push", "failed"} /\ \A r \in Repos : host'[r] = 0
    BY <1>1, <1>14 DEF FixSubmodules, PushInv
  <2>2. CASE target' = "push"
    <3>1. fixup'.made = branches' /\ fixup'.rules = rules'
      BY <1>14, <2>2 DEF FixSubmodules, FixedUp, mainState
    <3>2. stamp' <= rules' /\ rules' <= rules'
      <4>1. rules \in Editions /\ Editions \subseteq Nat /\ stamp <= rules
        BY InputsAssumption DEF EditionsInv, TypeOK
      <4>2. stamp' = stamp /\ rules' = rules /\ rules \in Nat
        BY <1>14, <4>1 DEF FixSubmodules, mainState
      <4> QED  BY <4>1, <4>2
    <3>3. \A r \in Repos : \A i \in DOMAIN HostsOf[r] : ~ (i < host'[r])
      BY <1>2, <2>1
    <3> QED  BY <2>1, <2>2, <3>1, <3>2, <3>3 DEF PushInv
  <2> QED  BY <1>6, <2>1, <2>2
<1>15. CASE EndPushes
  BY <1>1, <1>5, <1>15 DEF EndPushes
<1>16. CASE FixingFails
  BY <1>1, <1>5, <1>16 DEF FixingFails
<1>17. CASE Interrupt
  BY <1>1, <1>5, <1>17 DEF Interrupt
<1>18. ASSUME NEW r \in Repos, RemoveRepository(r) PROVE PushInv'
  BY <1>1, <1>18 DEF RemoveRepository, targetVars, PushInv
<1>19. ASSUME target = "push",
              UNCHANGED <<rules, target, stamp, fixup, branches, loaded>>, Typed,
              \A q \in Repos : \A i \in DOMAIN HostsOf[q] :
                i < host'[q] => remote'[HostsOf[q][i]][q] = Local(q)
       PROVE  PushInv'
  BY <1>3, <1>19 DEF PushInv
<1>20. ASSUME NEW r \in Repos, CleanUp(r) PROVE PushInv'
  <2>1. /\ target = "push" /\ Typed /\ UNCHANGED <<rules, target, stamp, fixup, branches, loaded, remote>>
        /\ \A q \in Repos : host'[q] = host[q] \/ host'[q] = 1
    BY <1>1, <1>20 DEF CleanUp, CanPush, mainState, mainVars
  <2>2. \A q \in Repos : \A i \in DOMAIN HostsOf[q] : i < host'[q] => i < host[q]
    BY <1>2, <2>1
  <2> QED  BY <1>1, <1>19, <2>1, <2>2
<1>21. ASSUME NEW r \in Repos, Accept(r) PROVE PushInv'
  <2>1. /\ target = "push" /\ UNCHANGED <<rules, target, stamp, fixup, branches, loaded>>
        /\ remote' = [remote EXCEPT ![HostsOf[r][host[r]]][r] = Local(r)]
        /\ host' = [host EXCEPT ![r] = @ + 1] /\ tried' = [tried EXCEPT ![r] = 0]
    BY <1>21 DEF Accept, CanPush, mainState, mainVars
  <2>2. Typed
    BY <1>1, <2>1
  <2>3. remote \in [Hosts -> [Repos -> Published]]
    BY DEF TypeOK
  <2>4. ASSUME NEW q \in Repos, NEW i \in DOMAIN HostsOf[q], i < host'[q]
        PROVE  remote'[HostsOf[q][i]][q] = Local(q)
    <3>1. HostsOf[q][i] \in Hosts /\ i \in Nat
      BY <1>2
    <3>2. CASE q # r
      <4>1. host'[q] = host[q] /\ remote'[HostsOf[q][i]][q] = remote[HostsOf[q][i]][q]
        BY <1>1, <2>1, <2>3, <3>1, <3>2
      <4> QED  BY <1>1, <2>1, <2>4, <4>1
    <3>3. CASE q = r /\ i = host[r]
      BY <2>1, <2>3, <3>1, <3>3
    <3>4. CASE q = r /\ i # host[r]
      <4>1. i < host[r]
        BY <1>1, <2>1, <2>4, <3>1, <3>4
      <4>2. remote[HostsOf[r][i]][r] = Local(r)
        BY <1>1, <2>1, <3>4, <4>1
      <4> QED  BY <2>1, <2>3, <3>1, <3>4, <4>2
    <3> QED  BY <3>2, <3>3, <3>4
  <2> QED  BY <1>19, <2>1, <2>2, <2>4
<1>22. CASE ARefusal
  <2>1. /\ target = "push" /\ Typed
        /\ UNCHANGED <<rules, target, stamp, fixup, branches, loaded, host, remote>>
    BY <1>1, <1>22 DEF ARefusal, Fault, Refuse, CanPush, mainState, mainVars
  <2> QED  BY <1>1, <1>19, <2>1
<1> QED  BY <1>7, <1>8, <1>9, <1>10, <1>11, <1>12, <1>13, <1>14, <1>15, <1>16, <1>17,
           <1>18, <1>20, <1>21, <1>22, NextKinds

-----------------------------------------------------------------------------
(* The theorems.                                                           *)

LEMMA InitInv == Init => ConversionInv
<1> SUFFICES ASSUME Init PROVE ConversionInv
  OBVIOUS
<1>1. MaxRev \in Nat \ {0} /\ Editions \subseteq Nat
  BY InputsAssumption
<1>2. \A r \in Repos : Len(HostsOf[r]) \in Nat
  <2> TAKE r \in Repos
  <2>1. HostsOf[r] \in Seq(Hosts)
    BY TargetsAssumption
  <2> QED  BY <2>1
<1>3. TypeOK
  <2>1. NoFixup \in Published
    BY DEF NoFixup, Published
  <2>2. remote \in [Hosts -> [Repos -> Published]] /\ fixup \in Published
    BY <2>1 DEF Init
  <2>3. \A r \in Repos : host[r] \in 0 .. Len(HostsOf[r]) + 1 /\ tried[r] \in 0 .. 2
    <3>1. \A r \in Repos : host[r] = 0 /\ tried[r] = 0
      BY DEF Init
    <3>2. \A n \in Nat : 0 \in 0 .. n + 1
      OBVIOUS
    <3>3. \A r \in Repos : 0 \in 0 .. Len(HostsOf[r]) + 1
      BY <1>2, <3>2
    <3>4. 0 \in 0 .. 2
      OBVIOUS
    <3> QED  BY <3>1, <3>3, <3>4
  <2>4. {rules, configured, loaded, began} \subseteq Editions /\ stamp \in Editions \cup {NoStamp}
    BY DEF Init, MainInit
  <2>5. /\ diedAt \in [Repos -> 0 .. MaxRev + 1] /\ revision \in 0 .. MaxRev /\ revision = 0
        /\ branches \in [Repos -> SUBSET Import]
    BY <1>1 DEF Init, MainInit
  <2>6. /\ dir \in [Repos -> {"none", "directory", "repository"}]
        /\ process \in [Repos -> {"none", "running", "dead"}]
        /\ \A r \in Repos : process[r] # "running"
        /\ pc = "exited" /\ unprepared = {} /\ preparing = NoRepo
        /\ dryRun = FALSE /\ errors = FALSE /\ status = "success" /\ target = "idle"
    BY DEF Init, MainInit
  <2> QED  BY <2>2, <2>3, <2>4, <2>5, <2>6 DEF TypeOK, Resting
<1>4. RunInv
  BY DEF Init, MainInit, RunInv
<1>5. ErrorsInv
  BY DEF Init, MainInit, ErrorsInv
<1>6. EditionsInv
  BY <1>1 DEF Init, MainInit, EditionsInv, NoStamp
<1>7. ConvertedInv /\ PushInv
  BY DEF Init, ConvertedInv, PushInv
<1> QED  BY <1>3, <1>4, <1>5, <1>6, <1>7 DEF ConversionInv

LEMMA StutterInv ==
  ASSUME ConversionInv, UNCHANGED vars
  PROVE  ConversionInv'
<1>1. TypeOK'
  BY DEF ConversionInv, vars, mainState, mainVars, targetVars, history, TypeOK, Published, Import
<1>2. RunInv' /\ ErrorsInv' /\ EditionsInv'
  BY DEF ConversionInv, vars, mainState, mainVars, targetVars, history, RunInv, ErrorsInv, EditionsInv
<1>3. ConvertedInv' /\ PushInv'
  BY DEF ConversionInv, vars, mainState, mainVars, targetVars, history, ConvertedInv, Converted,
         DiedUnnoticed, PushInv, Local
<1> QED  BY <1>1, <1>2, <1>3 DEF ConversionInv

\* The inductive invariant: whatever is interrupted, dies, is refused or edited,
\* branches are of one clean directory, and what goes on to be rewritten and
\* pushed is what a run left that exited with 0 (main.cpp, CMakeLists.txt).
THEOREM ConversionInvariant == FairSpec => []ConversionInv
<1>1. ConversionInv /\ [Next]_vars => ConversionInv'
  <2> SUFFICES ASSUME ConversionInv, [Next]_vars PROVE ConversionInv'
    OBVIOUS
  <2>1. CASE Next
    <3>1. TypeOK /\ RunInv /\ ErrorsInv /\ EditionsInv /\ ConvertedInv /\ PushInv
      BY DEF ConversionInv
    <3>2. TypeOK'
      BY <2>1, <3>1, NextKinds, TypeMain, TypeBuild
    <3> QED  BY <2>1, <3>1, <3>2, RunNext, ErrorsNext, EditionsNext, ConvertedNext, PushNext
               DEF ConversionInv
  <2> QED  BY <2>1, StutterInv
<1> QED  BY <1>1, InitInv, PTL DEF FairSpec

\* svn2git exits with 0 only when every revision is in every repository, unless
\* a process died unnoticed, and never after it has reported an error
\* (main.cpp:161-172, log.cpp:107-115).
THEOREM ExitsHonestly == FairSpec => []ExitStatusHonest
<1>1. ConversionInv => ExitStatusHonest
  BY DEF ConversionInv, ConvertedInv, Converted, ExitStatusHonest
<1> QED  BY <1>1, ConversionInvariant, PTL

\* What Local sends, by repository.
LEMMA LocalMeans ==
  ASSUME NEW r \in Repos
  PROVE  /\ r = Boost => Local(r) = fixup
         /\ r # Boost => Local(r).rules = loaded /\ Local(r).made[r] = branches[r]
  BY DEF Local, NoFixup

\* No push sends a mixture of editions or half an import, unless the rules are
\* edited meanwhile (CMakeLists.txt, fix_submodules.cmake, git_push.cmake).
THEOREM WholePushes == FairSpec => PushesWhole
<1>1. ASSUME ConversionInv, Next,
             NEW r \in RepositoriesIn[began], NEW h \in Hosts, remote'[h][r] # remote[h][r],
             rules = began
      PROVE  Whole(r)
  <2>1. /\ TypeOK /\ RunInv /\ EditionsInv /\ ConvertedInv /\ PushInv
        /\ r \in Repos
    BY <1>1, InputsAssumption DEF ConversionInv, TypeOK
  <2>2. target = "push"
    <3>1. ASSUME NEW q \in Repos, Accept(q) PROVE target = "push"
      BY <3>1 DEF Accept, CanPush
    <3>2. CASE \E q \in Repos : Accept(q)
      BY <3>1, <3>2
    <3>3. ASSUME \A q \in Repos : ~ Accept(q) PROVE remote' = remote
      <4>1. CASE MainAction /\ UNCHANGED <<targetVars, began>>
        BY <4>1 DEF targetVars
      <4>2. CASE Build \/ Analyse \/ Edit \/ Configure \/ TouchStamp \/ StartConversion
        BY <4>2 DEF Build, Analyse, Edit, Configure, TouchStamp, StartConversion, targetVars
      <4>3. CASE EndConversion \/ FixSubmodules \/ EndPushes \/ FixingFails \/ Interrupt
        BY <4>3 DEF EndConversion, FixSubmodules, EndPushes, FixingFails, Interrupt
      <4>4. CASE ARefusal
        BY <4>4 DEF ARefusal, Refuse
      <4>5. ASSUME NEW q \in Repos, RemoveRepository(q) \/ CleanUp(q) PROVE remote' = remote
        BY <4>5 DEF RemoveRepository, CleanUp, targetVars
      <4> QED  BY <1>1, <2>1, <3>3, <4>1, <4>2, <4>3, <4>4, <4>5, NextKinds
    <3> QED  BY <1>1, <3>2, <3>3
  <2>3. /\ stamp \in Int /\ rules \in Int /\ loaded \in Int /\ fixup.rules \in Int
        /\ \A q \in Repos : \A b \in branches[q] : b.rules \in Int
    <3>1. Editions \subseteq Int /\ NoStamp \in Int
      BY InputsAssumption DEF NoStamp
    <3>2. {rules, loaded, stamp, fixup.rules} \subseteq Editions \cup {NoStamp}
      BY <2>1 DEF TypeOK, Published
    <3>3. ASSUME NEW q \in Repos, NEW b \in branches[q] PROVE b.rules \in Editions
      <4>1. b \in Import
        BY <2>1, <3>3 DEF TypeOK
      <4> QED  BY <4>1 DEF Import
    <3> QED  BY <3>1, <3>2, <3>3
  <2>4. Converted /\ stamp = rules
    <3>1. began <= stamp /\ stamp <= rules
      BY <2>1, <2>2 DEF EditionsInv
    <3>2. stamp = rules
      BY <1>1, <2>3, <3>1
    <3> QED  BY <2>1, <2>2, <3>2 DEF ConvertedInv
  <2>5. loaded = began /\ fixup.rules = began /\ fixup.made = branches
    <3>1. stamp <= loaded /\ loaded <= rules /\ stamp <= fixup.rules /\ fixup.rules <= rules
      BY <2>1, <2>2, <2>4 DEF Converted, PushInv
    <3>2. loaded = rules /\ fixup.rules = rules
      BY <2>3, <2>4, <3>1
    <3> QED  BY <1>1, <2>1, <2>2, <3>2 DEF PushInv
  <2>6. ASSUME NEW q \in RepositoriesIn[began], ~ DiedUnnoticed(q)
        PROVE  branches[q] = Complete(began)
    <3>1. /\ q \in Repos /\ Complete(began) \subseteq branches[q]
          /\ \A b \in branches[q] : b.rules = began => b.upto = MaxRev
      BY <2>1, <2>4, <2>5, <2>6, InputsAssumption DEF Converted, TypeOK
    <3>2. ASSUME NEW b \in branches[q] PROVE b \in Complete(began)
      <4>1. stamp <= b.rules /\ b.rules <= rules /\ b.rules \in Int
        BY <2>1, <2>3, <3>1, <3>2 DEF EditionsInv
      <4>2. b.rules = began
        BY <1>1, <2>3, <2>4, <4>1
      <4>3. b \in Import /\ b.upto = MaxRev
        BY <2>1, <3>1, <3>2, <4>2 DEF TypeOK
      <4> QED  BY <4>2, <4>3 DEF Import, Complete
    <3> QED  BY <3>1, <3>2
  <2>7. Local(r).rules = began
    BY <2>1, <2>5, LocalMeans
  <2>8. ASSUME NEW q \in RepositoriesIn[began], q = r \/ r = Boost
        PROVE  Local(r).made[q] = branches[q]
    BY <2>1, <2>5, <2>8, LocalMeans
  <2> QED  BY <2>6, <2>7, <2>8 DEF Whole
<1>2. ConversionInv /\ [Next]_vars =>
        [\A r \in RepositoriesIn[began] :
           \A h \in Hosts : remote'[h][r] # remote[h][r] => rules # began \/ Whole(r)]_vars
  BY <1>1
<1> QED  BY <1>2, ConversionInvariant, PTL DEF FairSpec, PushesWhole

\* A build that succeeds has left what the working directory holds on every host
\* of every repository it pushes (git_push.cmake).
THEOREM AllHostsAgree == FairSpec => HostsAgree
<1>1. ASSUME ConversionInv, Next, target = "push", target' = "succeeded",
             NEW r \in Targets, NEW i \in DOMAIN HostsOf[r]
      PROVE  remote[HostsOf[r][i]][r] = Local(r)
  <2>1. TypeOK /\ PushInv /\ r \in Repos
    BY <1>1, InputsAssumption DEF ConversionInv, TypeOK, Targets
  <2>2. EndPushes
    <3>1. ~ (MainAction /\ UNCHANGED <<targetVars, began>>)
      BY <1>1 DEF targetVars
    <3>2. ~ (Build \/ Analyse \/ Edit \/ Configure \/ TouchStamp \/ StartConversion)
      BY <1>1 DEF Build, Analyse, StartBuild, Edit, Configure, TouchStamp, StartConversion, targetVars
    <3>3. ~ (EndConversion \/ FixSubmodules \/ FixingFails \/ Interrupt)
      BY <1>1 DEF EndConversion, FixSubmodules, FixingFails, Interrupt
    <3>4. ~ ARefusal
      BY <1>1 DEF ARefusal, Refuse
    <3>5. \A q \in Repos : ~ (RemoveRepository(q) \/ CleanUp(q) \/ Accept(q))
      BY <1>1 DEF RemoveRepository, CleanUp, Accept, targetVars
    <3> QED  BY <1>1, <2>1, <3>1, <3>2, <3>3, <3>4, <3>5, NextKinds
  <2>3. Pushed(r)
    BY <1>1, <2>1, <2>2 DEF EndPushes, CanPush
  <2>4. i < host[r]
    <3>1. host[r] \in Nat /\ HostsOf[r] \in Seq(Hosts)
      BY <2>1, TargetsAssumption DEF PushInv
    <3>2. Len(HostsOf[r]) \in Nat /\ i \in 1 .. Len(HostsOf[r])
      BY <3>1
    <3> QED  BY <2>3, <3>1, <3>2 DEF Pushed
  <2> QED  BY <1>1, <2>1, <2>4 DEF PushInv
<1>2. ConversionInv /\ [Next]_vars =>
        [target = "push" /\ target' = "succeeded" =>
           \A r \in Targets : \A i \in DOMAIN HostsOf[r] :
             remote[HostsOf[r][i]][r] = Local(r)]_vars
  BY <1>1
<1> QED  BY <1>2, ConversionInvariant, PTL DEF FairSpec, HostsAgree
=============================================================================
