--------------------------- MODULE FastImportProofs ---------------------------
(***************************************************************************)
(* Theorems about the connections to any number of fast-import processes,  *)
(* on either system, with any capacity of the pipes, whatever is written   *)
(* and however many processes die.                                         *)
(***************************************************************************)
EXTENDS FastImportProperties, SequenceTheorems, TLAPS

\* The repositories constructed so far, as a sequence without repetitions.
LEMMA StartedType ==
  ASSUME ImportTypeOK
  PROVE  /\ ToSet(started) = {started[i] : i \in 1..Len(started)}
         /\ ToSet(started) \subseteq Repos
         /\ DOMAIN started = 1..Len(started) /\ Len(started) \in Nat
         /\ \A i, j \in 1..Len(started) : started[i] = started[j] => i = j
<1>1. started \in Seq(Repos) /\ IsInjective(started)
  BY DEF ImportTypeOK
<1> QED  BY <1>1 DEF ToSet, IsInjective

\* Demanding a repository appends it.
LEMMA DemandedStarted ==
  ASSUME TypeOK, Constructing, Demanded
  PROVE  /\ started' \in Seq(Repos) /\ IsInjective(started')
         /\ DOMAIN started' = 1..(Len(started) + 1)
         /\ \A i \in DOMAIN started : i < Len(started) + 1 /\ started'[i] = started[i]
         /\ started'[Len(started) + 1] = current
         /\ ToSet(started') = ToSet(started) \cup {current}
<1>1. started \in Seq(Repos) /\ current \in Repos /\ current \notin ToSet(started)
  BY DEF TypeOK, ProcessesTypeOK, ImportTypeOK, Constructing, Demanded
<1>2. started' = Append(started, current)
  BY DEF Demanded
<1>3. /\ started' \in Seq(Repos) /\ Len(started') = Len(started) + 1
      /\ DOMAIN started' = 1..(Len(started) + 1)
      /\ \A i \in DOMAIN started : i < Len(started) + 1 /\ started'[i] = started[i]
      /\ started'[Len(started) + 1] = current
  BY <1>1, <1>2
<1>4. \A i \in DOMAIN started : started[i] # current
  BY <1>1 DEF ToSet
<1>5. IsInjective(started)
  BY DEF TypeOK, ImportTypeOK
<1>6. DOMAIN started = 1..Len(started) /\ Len(started) \in Nat
  BY <1>1
<1>7. IsInjective(started')
  BY <1>3, <1>4, <1>5, <1>6 DEF IsInjective
<1>8. ToSet(started') = ToSet(started) \cup {current}
  BY <1>3, <1>6 DEF ToSet
<1> QED  BY <1>3, <1>7, <1>8

-----------------------------------------------------------------------------
(* Types.                                                                  *)

\* The initial state is well typed.
LEMMA TypeInit == Init => TypeOK
<1> SUFFICES ASSUME Init PROVE TypeOK
  OBVIOUS
<1>1. ProcessesTypeOK
  BY DEF Init, ProcessesInit, ProcessesTypeOK, Statuses, Stages, Procs
<1>2. << >> \in Seq(Repos) /\ << >> \in Seq(Commands) /\ Len(<< >>) = 0 /\ IsInjective(<< >>)
  BY DEF IsInjective
<1>3. ImportTypeOK
  BY <1>2 DEF Init, ImportTypeOK, Places
<1>4. PipesTypeOK
  BY <1>2, FastImportAssumption DEF Init, PipesTypeOK
<1> QED  BY <1>1, <1>3, <1>4 DEF TypeOK

\* Closing descriptors keeps the types.
LEMMA TypeClose ==
  ASSUME ProcessesTypeOK, NEW p \in Procs, NEW ends, Close(p, ends)
  PROVE  held' \in [Procs -> SUBSET PipeEnd]
BY DEF ProcessesTypeOK, Close

\* Starting a process keeps the types.
LEMMA TypeExecute ==
  ASSUME ProcessesTypeOK, Execute
  PROVE  ProcessesTypeOK'
<1> USE DEF ProcessesTypeOK, Procs, Stages, Statuses, Threw, Close
<1>1. CASE CreateProcess
  <2>1. InheritedEnds(current) \subseteq PipeEnd
    BY DEF InheritedEnds, Stdin, Stdout, PipeEnd, Source, Sink, Pipes
  <2> QED  BY <1>1, <2>1 DEF CreateProcess, CreateProcessFails
<1>2. CASE ForkSetup
  <2>1. BothEnds(current, "fds") \subseteq PipeEnd
    BY DEF BothEnds, PipeEnd, Source, Sink, Pipes
  <2> QED  BY <1>2, <2>1 DEF ForkSetup
<1>3. CASE Fork
  BY <1>3 DEF Fork
<1>4. CASE ForkSuccess
  BY <1>4 DEF ForkSuccess
<1>5. CASE ReadErrorCode
  BY <1>5 DEF ReadErrorCode
<1> QED  BY <1>1, <1>2, <1>3, <1>4, <1>5 DEF Execute

\* So do the steps of the constructor of importer.
LEMMA TypeConstruct ==
  ASSUME TypeOK, Constructing,
         (\E r \in Repos : Construct(r)) \/ RunExecutor \/ Demanded \/ ConstructionFails \/ Constructed
  PROVE  TypeOK'
<1> USE DEF TypeOK
<1>1. CASE \E r \in Repos : Construct(r)
  <2>1. PICK r \in Repos : CreatePipes(r) /\ UNCHANGED <<importVars, pipeVars>>
    BY <1>1 DEF Construct
  <2>2. BothEnds(r, "inp") \subseteq PipeEnd /\ BothEnds(r, "outp") \subseteq PipeEnd
    BY DEF BothEnds, PipeEnd, Source, Sink, Pipes
  <2>3. ProcessesTypeOK'
    BY <2>1, <2>2 DEF CreatePipes, CreatePipeFails, ProcessesTypeOK, Procs, Stages
  <2> QED  BY <2>1, <2>3 DEF ImportTypeOK, PipesTypeOK, importVars, pipeVars
<1>2. CASE RunExecutor
  BY <1>2, TypeExecute DEF RunExecutor, ImportTypeOK, PipesTypeOK, importVars, pipeVars
<1>3. CASE Demanded
  BY <1>3, DemandedStarted DEF Demanded, ProcessesTypeOK, ImportTypeOK, PipesTypeOK, Stages, pipeVars
<1>4. CASE ConstructionFails
  BY <1>4 DEF ConstructionFails, ProcessesTypeOK, ImportTypeOK, PipesTypeOK, Stages, Places, pipeVars
<1>5. CASE Constructed
  BY <1>5 DEF Constructed, ProcessesTypeOK, ImportTypeOK, PipesTypeOK, Places, procVars, pipeVars
<1> QED  BY <1>1, <1>2, <1>3, <1>4, <1>5

\* Writing and reading keep the types.
LEMMA TypeImport ==
  ASSUME TypeOK,
         \/ \E r \in Repos : Write(r) \/ BufferFull(r) \/ SendLs(r) \/ BeginReadline(r)
         \/ Flush \/ Flushed \/ Readline \/ Finish
  PROVE  TypeOK'
<1> USE DEF TypeOK
<1>1. CASE \E r \in Repos : Write(r) \/ SendLs(r)
  <2>1. PICK r \in Repos : Write(r) \/ SendLs(r)
    BY <1>1
  <2>2. \A c \in Commands : Append(buffer[r], c) \in Seq(Commands)
    BY DEF ImportTypeOK
  <2>3. buffer' \in [Repos -> Seq(Commands)]
    BY <2>1, <2>2 DEF Write, SendLs, ImportTypeOK, Commands
  <2>4. ImportTypeOK'
    <3>1. /\ pc' \in {pc, "flush"} /\ after' \in {after, "import"}
          /\ UNCHANGED <<unwinding, started>> /\ asked' \in {asked, asked \cup {r}}
          /\ written' = [written EXCEPT ![r] = @ + 1]
      BY <2>1 DEF Write, SendLs, FlushThen
    <3>2. written' \in [Repos -> Nat]
      BY <3>1 DEF ImportTypeOK
    <3> QED  BY <2>3, <3>1, <3>2 DEF ImportTypeOK, Places
  <2> QED  BY <2>1, <2>4 DEF Write, SendLs, FlushThen, ProcessesTypeOK, PipesTypeOK, procVars, pipeVars
<1>2. CASE \E r \in Repos : BufferFull(r) \/ BeginReadline(r)
  BY <1>2 DEF BufferFull, BeginReadline, FlushThen, ProcessesTypeOK, ImportTypeOK, PipesTypeOK,
              Places, pipeVars
<1>3. CASE Flush
  <2>1. /\ held' \in [Procs -> SUBSET PipeEnd] /\ pc' \in Places
        /\ UNCHANGED <<windows, status, code, stage, current, after, unwinding, started, asked,
                       written, inp, received, faults>>
    BY <1>3 DEF Flush, ImporterEnds, Close, ProcessesTypeOK, ImportTypeOK, Places, Ended, Procs, procVars
  <2>2. /\ buffer[current] \in Seq(Commands) /\ buffer[current] # << >>
        /\ outp[current] \in Seq(Commands)
    BY <1>3 DEF Flush, ProcessesTypeOK, ImportTypeOK, PipesTypeOK
  <2>3. Head(buffer[current]) \in Commands /\ Tail(buffer[current]) \in Seq(Commands)
    BY <2>2
  <2>4. buffer' \in [Repos -> Seq(Commands)]
    <3>1. \E s \in {<< >>, Tail(buffer[current])} :
            buffer' = [buffer EXCEPT ![current] = s] \/ UNCHANGED buffer
      BY <1>3 DEF Flush
    <3>2. << >> \in Seq(Commands)
      OBVIOUS
    <3> QED  BY <2>3, <3>1, <3>2 DEF ImportTypeOK
  <2>5. outp' \in [Repos -> {s \in Seq(Commands) : Len(s) <= Capacity}]
    <3>1. CASE UNCHANGED outp
      BY <3>1 DEF PipesTypeOK
    <3> DEFINE new == Append(outp[current], Head(buffer[current]))
    <3>2. CASE Len(outp[current]) < Capacity /\ outp' = [outp EXCEPT ![current] = new]
      <4>1. new \in Seq(Commands) /\ Len(new) = Len(outp[current]) + 1
        BY <2>2, <2>3
      <4>2. Len(new) <= Capacity
        BY <2>2, <3>2, <4>1, FastImportAssumption
      <4> QED  BY <3>2, <4>1, <4>2 DEF PipesTypeOK
    <3> QED  BY <1>3, <3>1, <3>2 DEF Flush
  <2> QED  BY <2>1, <2>4, <2>5 DEF ProcessesTypeOK, ImportTypeOK, PipesTypeOK
<1>4. CASE Flushed \/ Finish
  BY <1>4 DEF Flushed, Finish, ProcessesTypeOK, ImportTypeOK, PipesTypeOK, Places, procVars, pipeVars
<1>5. CASE Readline
  <2>1. inp' \in [Repos -> 0..Capacity]
    <3>1. current \in Repos /\ inp \in [Repos -> 0..Capacity] /\ Capacity \in Nat
      BY FastImportAssumption DEF ProcessesTypeOK, PipesTypeOK
    <3>2. UNCHANGED inp \/ (inp[current] > 0 /\ inp' = [inp EXCEPT ![current] = @ - 1])
      BY <1>5 DEF Readline
    <3>3. inp[current] \in 0..Capacity /\ (inp[current] > 0 => inp[current] - 1 \in 0..Capacity)
      BY <3>1
    <3> QED  BY <3>1, <3>2, <3>3
  <2> QED  BY <1>5, <2>1 DEF Readline, ProcessesTypeOK, ImportTypeOK, PipesTypeOK, Places, procVars
<1> QED  BY <1>1, <1>2, <1>3, <1>4, <1>5

\* So do the destructors.
LEMMA TypeDestroy ==
  ASSUME TypeOK,
         \/ \E r \in Repos : Destroy(r)
         \/ BeginClose \/ CloseStream \/ WaitForExit \/ Return
  PROVE  TypeOK'
<1> USE DEF TypeOK, ProcessesTypeOK, ImportTypeOK, PipesTypeOK, procVars, pipeVars, Procs, Places,
            Ended, FlushThen, Close
<1>1. CASE \E r \in Repos : Destroy(r)
  BY <1>1 DEF Destroy
<1>2. CASE BeginClose
  BY <1>2 DEF BeginClose, StillOpen
<1>3. CASE CloseStream
  BY <1>3 DEF CloseStream
<1>4. CASE WaitForExit
  BY <1>4 DEF WaitForExit, ImporterEnds
<1>5. CASE Return
  BY <1>5 DEF Return, ImporterEnds
<1> QED  BY <1>1, <1>2, <1>3, <1>4, <1>5

\* The end of a process keeps the types.
LEMMA TypeEnd ==
  ASSUME ProcessesTypeOK, NEW r \in Repos, NEW how \in Statuses, End(r, how)
  PROVE  ProcessesTypeOK'
BY DEF ProcessesTypeOK, End, Close, Procs

\* And so does what a process does.
LEMMA TypeProcess ==
  ASSUME TypeOK, NEW r \in Repos, ProcessStep(r) \/ Die(r)
  PROVE  TypeOK'
<1> USE DEF TypeOK
<1>1. ImportTypeOK'
  BY DEF ProcessStep, StartChild, ReadCommand, ReachEnd, Die, ImportTypeOK, importVars
<1>2. CASE StartChild(r)
  <2>1. PipesTypeOK'
    BY <1>2 DEF StartChild, pipeVars, PipesTypeOK
  <2>2. /\ held' \in [Procs -> SUBSET PipeEnd]
        /\ UNCHANGED <<windows, stage, current>>
    BY <1>2 DEF StartChild, Child, ExecSetup, Execve, ExecError, Close, ProcessesTypeOK, Procs
  <2>3. status' \in [Repos -> Statuses]
    BY <1>2 DEF StartChild, Child, ExecSetup, Execve, ExecError, ProcessesTypeOK, Statuses
  <2>4. code' \in [Repos -> BOOLEAN]
    BY <1>2 DEF StartChild, Child, ExecSetup, Execve, ExecError, ProcessesTypeOK
  <2> QED  BY <1>1, <2>1, <2>2, <2>3, <2>4 DEF ProcessesTypeOK
<1>3. CASE ReadCommand(r)
  <2>1. CASE (\E how \in Statuses : End(r, how)) /\ UNCHANGED <<outp, inp, received>>
    BY <1>1, <1>3, <2>1, TypeEnd DEF ReadCommand, PipesTypeOK
  <2>2. CASE /\ UNCHANGED procVars /\ outp' = [outp EXCEPT ![r] = Tail(@)]
             /\ Head(outp[r]) = "ls" => inp[r] < Capacity
             /\ inp' = IF Head(outp[r]) = "ls" THEN [inp EXCEPT ![r] = @ + 1] ELSE inp
             /\ received' = [received EXCEPT ![r] = @ + 1]
    <3>1. inp' \in [Repos -> 0..Capacity]
      BY <2>2, FastImportAssumption DEF PipesTypeOK
    <3>2. outp[r] \in Seq(Commands) /\ outp[r] # << >> /\ Len(outp[r]) <= Capacity
      BY <1>3 DEF ReadCommand, PipesTypeOK
    <3>3. Tail(outp[r]) \in Seq(Commands) /\ Len(Tail(outp[r])) <= Capacity
      BY <3>2, FastImportAssumption
    <3>4. outp' \in [Repos -> {s \in Seq(Commands) : Len(s) <= Capacity}]
      BY <2>2, <3>3 DEF PipesTypeOK
    <3>5. received' \in [Repos -> Nat] /\ UNCHANGED faults
      BY <1>3, <2>2 DEF ReadCommand, PipesTypeOK
    <3> QED  BY <1>1, <2>2, <3>1, <3>4, <3>5 DEF ProcessesTypeOK, PipesTypeOK, procVars
  <2> QED  BY <1>3, <2>1, <2>2 DEF ReadCommand, Statuses
<1>4. CASE ReachEnd(r)
  BY <1>1, <1>4, TypeEnd DEF ReachEnd, PipesTypeOK, pipeVars, Statuses
<1>5. CASE Die(r)
  <2>1. \E how \in Statuses : End(r, how)
    BY <1>5 DEF Die, Statuses
  <2>2. PipesTypeOK'
    BY <1>5, FastImportAssumption DEF Die, PipesTypeOK
  <2> QED  BY <1>1, <2>1, <2>2, TypeEnd
<1> QED  BY <1>2, <1>3, <1>4, <1>5 DEF ProcessStep

-----------------------------------------------------------------------------
(* Who holds what.                                                         *)

\* ConnectionInv without what follows from the rest.
HoldingInv == TypeOK /\ Inherited /\ Constructing /\ DeathIsSeen /\ StartedRuns

\* The steps of the importer that neither start a process nor give it anything.
LEMMA QuietHolds ==
  ASSUME HoldingInv, TypeOK',
         UNCHANGED <<status, code, stage, started>>,
         \A q \in Repos : held'[q] = held[q],
         held'[Importer] \subseteq held[Importer],
         stage = "idle" \/ held'[Importer] = held[Importer],
         pc' # "construct" => stage = "idle",
         pc' = "construct" => pc = "construct",
         stage # "idle" => current' = current
  PROVE  HoldingInv'
<1> USE DEF HoldingInv
<1>1. \A p \in Procs : held'[p] \subseteq held[p]
  BY DEF Procs
<1>2. Inherited'
  BY <1>1 DEF Inherited, ConstructedBefore
<1>3. Constructing'
  BY DEF Constructing
<1>4. DeathIsSeen'
  BY <1>1 DEF DeathIsSeen, Holders
<1>5. StartedRuns'
  BY DEF StartedRuns
<1> QED  BY <1>2, <1>3, <1>4, <1>5

\* A step of a process: it holds less, and comes further.
LEMMA ProcessHolds ==
  ASSUME HoldingInv, TypeOK', NEW r \in Repos, ProcessStep(r) \/ Die(r)
  PROVE  HoldingInv'
<1> USE DEF HoldingInv
<1>1. UNCHANGED <<started, pc>>
  BY DEF ProcessStep, StartChild, ReadCommand, ReachEnd, Die, importVars
<1>2. CASE UNCHANGED procVars
  BY <1>1, <1>2, QuietHolds DEF procVars, Constructing
<1>3. CASE /\ ~ UNCHANGED procVars
           /\ UNCHANGED <<stage, current>>
           /\ \E how \in Statuses \ {"none", "forked"} : status' = [status EXCEPT ![r] = how]
           /\ status[r] = "running" => status'[r] \notin {"setup", "failed"}
           /\ status[r] \in {"forked", "setup", "running"}
           /\ \E ends : Close(r, ends)
           /\ Sink(r, "outp") \notin held'[r]
           /\ status'[r] = "setup" => Sink(r, "fds") \in held'[r]
           /\ \A q \in Repos \ {r} : code'[q] = code[q]
           /\ status'[r] = "failed" => code'[r]
  <2>1. /\ \A q \in Repos \ {r} : held'[q] = held[q] /\ status'[q] = status[q]
        /\ status'[r] \notin {"none", "forked"}
        /\ held'[Importer] = held[Importer]
        /\ \A p \in Procs : held'[p] \subseteq held[p]
    BY <1>3, ProcessAssumption DEF TypeOK, ProcessesTypeOK, Close, Procs
  <2>2. Inherited'
    BY <1>1, <1>3, <2>1 DEF Inherited, ConstructedBefore, Procs
  <2>3. Constructing'
    <3>1. stage = "started" => BoundEnds(current) \cap held'[Importer] = {}
      BY <1>3, <2>1 DEF Constructing, Procs
    <3>2. stage = "started" => status'[current] \notin {"none", "forked", "setup", "failed"}
      BY <1>3, <2>1 DEF Constructing, TypeOK, ProcessesTypeOK
    <3>3. stage \in {"fork_success", "read"} => status'[current] # "none"
      BY <1>3, <2>1 DEF Constructing, TypeOK, ProcessesTypeOK
    <3>4. \A q \in Repos :
            /\ status'[q] \in {"forked", "setup"} => Sink(q, "fds") \in held'[q]
            /\ status'[q] = "failed" => code'[q]
            /\ status'[q] \notin {"none", "forked"} => Sink(q, "outp") \notin held'[q]
      BY <1>3, <2>1 DEF Constructing
    <3>5. stage = "fork" => Sink(current, "fds") \in held'[Importer]
      BY <2>1 DEF Constructing
    <3>6. stage = "started" => BoundEnds(current)' \cap held'[Importer] = {}
      BY <1>3, <3>1 DEF BoundEnds, Stdin, Stdout, Source, Sink
    <3> QED  BY <1>1, <1>3, <3>2, <3>3, <3>4, <3>5, <3>6 DEF Constructing
  <2>4. DeathIsSeen'
    BY <1>1, <2>1 DEF DeathIsSeen, Holders
  <2>5. StartedRuns'
    BY <1>1, <1>3, <2>1, StartedType DEF StartedRuns, TypeOK
  <2> QED  BY <2>2, <2>3, <2>4, <2>5
<1>4. CASE \E how \in {"exited", "fatal", "signaled"} : status[r] = "running" /\ End(r, how)
  <2>1. /\ UNCHANGED <<code, stage, current>> /\ Close(r, held[r])
        /\ status' = [status EXCEPT ![r] = "exited"] \/ status' = [status EXCEPT ![r] = "fatal"]
           \/ status' = [status EXCEPT ![r] = "signaled"]
    BY <1>4 DEF End
  <2>2. status'[r] \in {"exited", "fatal", "signaled"} /\ held'[r] = {}
    BY <2>1 DEF TypeOK, ProcessesTypeOK, Close, Procs
  <2> QED  BY <1>2, <1>3, <1>4, <2>1, <2>2 DEF Statuses
<1>5. CASE ExecSetup(r)
  <2>1. /\ status'[r] = "setup" /\ held'[r] = held[r] \ ClosedInChild(r) /\ code' = code
        /\ status[r] = "forked"
    BY <1>5 DEF ExecSetup, Close, TypeOK, ProcessesTypeOK, Procs
  <2>2. Sink(r, "fds") \in held'[r] /\ Sink(r, "outp") \notin held'[r]
    BY <2>1 DEF Constructing, ClosedInChild, Sink, Source
  <2> QED  BY <1>2, <1>3, <1>5, <2>1, <2>2 DEF ExecSetup, Statuses
<1>6. CASE Execve(r)
  <2>1. /\ status'[r] = "running" /\ held'[r] \subseteq held[r] /\ code' = code
        /\ status[r] = "setup"
    BY <1>6 DEF Execve, Close, TypeOK, ProcessesTypeOK, Procs
  <2>2. Sink(r, "outp") \notin held'[r]
    BY <2>1 DEF Constructing
  <2> QED  BY <1>2, <1>3, <1>6, <2>1, <2>2 DEF Execve, Statuses
<1>7. CASE ExecError(r)
  <2>1. status'[r] = "failed" /\ held'[r] = {} /\ status[r] = "setup"
    BY <1>7 DEF ExecError, Close, TypeOK, ProcessesTypeOK, Procs
  <2>2. code'[r] /\ \A q \in Repos \ {r} : code'[q] = code[q]
    BY <1>7 DEF ExecError, TypeOK, ProcessesTypeOK
  <2> QED  BY <1>2, <1>3, <1>7, <2>1, <2>2 DEF ExecError, Statuses
<1>8. \/ UNCHANGED procVars
      \/ \E how \in {"exited", "fatal", "signaled"} : status[r] = "running" /\ End(r, how)
      \/ ExecSetup(r) \/ Execve(r) \/ ExecError(r)
  BY DEF ProcessStep, StartChild, Child, ReadCommand, ReachEnd, Die
<1> QED  BY <1>2, <1>4, <1>5, <1>6, <1>7, <1>8

\* A pipe end belongs to one repository and one pipe.
LEMMA EndsDiffer ==
  ASSUME NEW r, NEW q
  PROVE  /\ \A e \in BothEnds(r, "inp") \cup BothEnds(r, "outp") \cup BothEnds(r, "fds") : e.repo = r
         /\ BoundEnds(r) \subseteq BothEnds(r, "inp") \cup BothEnds(r, "outp")
         /\ InheritedEnds(r) = BoundEnds(r)
         /\ \A e \in BoundEnds(r) : e.repo = r
         /\ Sink(r, "fds").repo = r /\ Sink(r, "fds") \notin BoundEnds(r)
         /\ Sink(r, "outp").repo = r /\ Sink(r, "outp") \notin BoundEnds(r)
         /\ BothEnds(r, "fds") \cap BoundEnds(r) = {}
         /\ Sink(r, "fds") \in BothEnds(r, "fds")
BY DEF BothEnds, BoundEnds, InheritedEnds, Stdin, Stdout, Source, Sink

\* While it constructs a repository the importer takes ends of that one only,
\* and no process changes.
LEMMA TakesHolds ==
  ASSUME HoldingInv, TypeOK', pc = "construct", stage # "threw",
         UNCHANGED <<pc, started, status, code>>,
         stage' \in {"fork_setup", "fork", "threw"},
         stage' # "threw" => current' \notin ToSet(started),
         \A q \in Repos : held'[q] = held[q],
         \A e \in held'[Importer] : e \in held[Importer] \/ (e.repo = current' /\ current' \notin ToSet(started)),
         stage' = "fork" => Sink(current', "fds") \in held'[Importer],
         stage = "idle" \/ current' = current
  PROVE  HoldingInv'
<1> USE DEF HoldingInv
<1>1. Inherited'
  <2>1. \A q \in Repos : \A e \in held'[q] : e.repo = q \/ ConstructedBefore(e.repo, q)
    BY DEF Inherited
  <2>2. \A e \in held'[Importer] : stage' # "threw" =>
          e.repo \in ToSet(started) \/ (stage' # "idle" /\ e.repo = current')
    <3>1. \A e \in held[Importer] : e.repo \in ToSet(started) \/ (stage # "idle" /\ e.repo = current)
      BY DEF Inherited
    <3> QED  BY <3>1
  <2> QED  BY <2>1, <2>2 DEF Inherited, ConstructedBefore
<1>2. Constructing'
  BY DEF Constructing
<1>3. DeathIsSeen'
  <2>1. \A r \in ToSet(started), p \in Procs : p # r =>
          Source(r, "outp") \notin held[p] /\ Sink(r, "inp") \notin held[p]
    BY DEF DeathIsSeen, Holders
  <2>2. \A r \in ToSet(started), p \in Procs : p # r =>
          Source(r, "outp") \notin held'[p] /\ Sink(r, "inp") \notin held'[p]
    BY <2>1 DEF Procs, Source, Sink
  <2> QED  BY <2>2 DEF DeathIsSeen, Holders
<1>4. StartedRuns'
  BY DEF StartedRuns
<1> QED  BY <1>1, <1>2, <1>3, <1>4

\* While a process is started, the importer only drops ends.
LEMMA DropsHolds ==
  ASSUME HoldingInv, TypeOK', pc = "construct", stage \notin {"idle", "threw"},
         UNCHANGED <<pc, started, status, code, current>>,
         stage' \in {"read", "started", "threw"}, stage' = "read" => stage = "fork_success",
         stage' = "started" => /\ status[current] \notin {"none", "forked", "setup", "failed"}
                               /\ BoundEnds(current) \cap held'[Importer] = {},
         \A q \in Repos : held'[q] = held[q],
         held'[Importer] \subseteq held[Importer]
  PROVE  HoldingInv'
<1> USE DEF HoldingInv
<1>1. \A p \in Procs : held'[p] \subseteq held[p]
  BY DEF Procs
<1>2. Inherited'
  BY <1>1 DEF Inherited, ConstructedBefore
<1>3. Constructing'
  BY DEF Constructing
<1>4. DeathIsSeen'
  BY <1>1 DEF DeathIsSeen, Holders
<1>5. StartedRuns'
  BY DEF StartedRuns
<1> QED  BY <1>2, <1>3, <1>4, <1>5

\* The steps of the constructor of importer.
LEMMA ConstructHolds ==
  ASSUME HoldingInv, TypeOK',
         (\E r \in Repos : Construct(r)) \/ RunExecutor \/ Demanded \/ ConstructionFails \/ Constructed
  PROVE  HoldingInv'
<1> USE DEF HoldingInv
<1>1. CASE \E r \in Repos : Construct(r)
  <2>1. PICK r \in Repos : Construct(r)
    BY <1>1
  <2>2. \A e \in held'[Importer] : e \in held[Importer] \/ e.repo = r
    BY <2>1, EndsDiffer DEF Construct, CreatePipes, CreatePipeFails, TypeOK, ProcessesTypeOK, Procs
  <2>3. \A q \in Repos : held'[q] = held[q]
    BY <2>1, ProcessAssumption DEF Construct, CreatePipes, CreatePipeFails, TypeOK, ProcessesTypeOK, Procs
  <2> QED  BY <2>1, <2>2, <2>3, TakesHolds DEF Construct, CreatePipes, CreatePipeFails, importVars
<1>2. CASE ForkSetup /\ RunExecutor
  <2>1. \A q \in Repos : held'[q] = held[q]
    BY <1>2, ProcessAssumption DEF ForkSetup, Threw, Close, TypeOK, ProcessesTypeOK, Procs
  <2>2. \A e \in held'[Importer] : e \in held[Importer] \/ e.repo = current
    BY <1>2, EndsDiffer DEF ForkSetup, Threw, Close, TypeOK, ProcessesTypeOK, Procs
  <2>3. current \notin ToSet(started)
    BY <1>2 DEF ForkSetup, Constructing
  <2>4. stage' = "fork" => Sink(current, "fds") \in held'[Importer]
    BY <1>2, EndsDiffer DEF ForkSetup, Threw, TypeOK, ProcessesTypeOK, Procs
  <2> QED  BY <1>2, <2>1, <2>2, <2>3, <2>4, TakesHolds DEF ForkSetup, Threw, RunExecutor, importVars
<1>3. CASE Fork /\ RunExecutor
  <2>1. pc = "construct" /\ stage = "fork" /\ UNCHANGED <<pc, started, code, current>>
    BY <1>3 DEF Fork, RunExecutor, importVars
  <2>2. current \notin ToSet(started)
    BY <2>1 DEF Constructing
  <2>3. CASE Threw /\ UNCHANGED status
    <3>1. \A q \in Repos : held'[q] = held[q]
      BY <2>3, ProcessAssumption DEF Threw, Close, TypeOK, ProcessesTypeOK, Procs
    <3>2. held'[Importer] \subseteq held[Importer]
      BY <2>3 DEF Threw, Close, TypeOK, ProcessesTypeOK, Procs
    <3> QED  BY <2>1, <2>2, <2>3, <3>1, <3>2, TakesHolds DEF Threw
  <2>4. CASE /\ held' = [held EXCEPT ![current] = held[Importer]]
             /\ status' = [status EXCEPT ![current] = "forked"]
             /\ stage' = "fork_success"
    <3>1. /\ held'[current] = held[Importer] /\ status'[current] = "forked"
          /\ \A p \in Procs \ {current} : held'[p] = held[p]
          /\ \A q \in Repos \ {current} : status'[q] = status[q]
          /\ held'[Importer] = held[Importer]
      BY <2>4, ProcessAssumption DEF TypeOK, ProcessesTypeOK, Procs
    <3>2. \A e \in held[Importer] : e.repo \in ToSet(started) \/ e.repo = current
      BY <2>1 DEF Inherited
    <3>3. \A r \in ToSet(started) : ConstructedBefore(r, current)
      BY <2>2, StartedType DEF ConstructedBefore, TypeOK, ToSet
    <3>4. Inherited'
      BY <2>1, <2>4, <3>1, <3>2, <3>3 DEF Inherited, ConstructedBefore, Procs
    <3>5. Constructing'
      <4>1. Sink(current, "fds") \in held'[current]
        BY <2>1, <3>1 DEF Constructing
      <4> QED  BY <2>1, <2>2, <2>4, <3>1, <4>1 DEF Constructing
    <3>6. DeathIsSeen'
      <4>1. \A r \in ToSet(started), p \in Procs : p # r =>
              Source(r, "outp") \notin held[p] /\ Sink(r, "inp") \notin held[p]
        BY DEF DeathIsSeen, Holders
      <4>2. \A r \in ToSet(started) : r # Importer /\ r # current
        BY <2>2, StartedType, ProcessAssumption DEF TypeOK
      <4>3. \A r \in ToSet(started), p \in Procs : p # r =>
              Source(r, "outp") \notin held'[p] /\ Sink(r, "inp") \notin held'[p]
        BY <3>1, <4>1, <4>2 DEF Procs
      <4> QED  BY <2>1, <4>3 DEF DeathIsSeen, Holders
    <3>7. StartedRuns'
      BY <2>1, <2>2, <3>1, StartedType DEF StartedRuns, TypeOK
    <3> QED  BY <3>4, <3>5, <3>6, <3>7
  <2> QED  BY <1>3, <2>3, <2>4 DEF Fork
<1>4. CASE ForkSuccess /\ RunExecutor
  <2>1. /\ pc = "construct" /\ stage = "fork_success" /\ stage' = "read"
        /\ UNCHANGED <<pc, started, status, code, current>>
    BY <1>4 DEF ForkSuccess, RunExecutor, importVars
  <2>2. \A q \in Repos : held'[q] = held[q]
    BY <1>4, ProcessAssumption DEF ForkSuccess, Close, TypeOK, ProcessesTypeOK, Procs
  <2>3. held'[Importer] \subseteq held[Importer]
    BY <1>4 DEF ForkSuccess, Close, TypeOK, ProcessesTypeOK, Procs
  <2> QED  BY <2>1, <2>2, <2>3, DropsHolds
<1>5. CASE ReadErrorCode /\ RunExecutor
  <2>1. /\ pc = "construct" /\ stage = "read" /\ stage' \in {"started", "threw"}
        /\ UNCHANGED <<pc, started, status, code, current>>
    BY <1>5 DEF ReadErrorCode, Threw, RunExecutor, importVars
  <2>2. \A q \in Repos : held'[q] = held[q]
    BY <1>5, ProcessAssumption DEF ReadErrorCode, Threw, Close, TypeOK, ProcessesTypeOK, Procs
  <2>3. held'[Importer] \subseteq held[Importer]
    BY <1>5 DEF ReadErrorCode, Threw, Close, TypeOK, ProcessesTypeOK, Procs
  <2>4. ASSUME stage' = "started"
        PROVE  /\ status[current] \notin {"none", "forked", "setup", "failed"}
               /\ BoundEnds(current) \cap held'[Importer] = {}
    <3>1. ~code[current] /\ Holders(Sink(current, "fds")) = {}
      BY <1>5, <2>4 DEF ReadErrorCode, Threw
    <3>2. current \in Repos /\ Sink(current, "fds") \notin held[current]
      BY <3>1 DEF Holders, Procs, TypeOK, ProcessesTypeOK
    <3>3. status[current] \notin {"none", "forked", "setup", "failed"}
      BY <2>1, <3>1, <3>2 DEF Constructing
    <3>4. BoundEnds(current) \cap held'[Importer] = {}
      BY <1>5, <2>4 DEF ReadErrorCode, Threw, Close, TypeOK, ProcessesTypeOK, Procs
    <3> QED  BY <3>3, <3>4
  <2> QED  BY <2>1, <2>2, <2>3, <2>4, DropsHolds
<1>6. CASE CreateProcess /\ RunExecutor
  <2>1. /\ pc = "construct" /\ stage = "fork_setup" /\ UNCHANGED <<pc, started, code, current>>
        /\ stage' \in {"started", "threw"}
    BY <1>6 DEF CreateProcess, CreateProcessFails, Threw, RunExecutor, importVars
  <2>2. current \notin ToSet(started) /\ current \in Repos
    BY <2>1 DEF Constructing, TypeOK, ProcessesTypeOK
  <2>3. CASE Threw /\ UNCHANGED status
    <3>1. \A q \in Repos : held'[q] = held[q]
      BY <2>3, ProcessAssumption DEF Threw, Close, TypeOK, ProcessesTypeOK, Procs
    <3>2. held'[Importer] \subseteq held[Importer]
      BY <2>3 DEF Threw, Close, TypeOK, ProcessesTypeOK, Procs
    <3> QED  BY <2>1, <2>2, <2>3, <3>1, <3>2, TakesHolds DEF Threw
  <2>4. CASE /\ held' = [held EXCEPT ![current] = InheritedEnds(current),
                                    ![Importer] = @ \ BoundEnds(current)]
             /\ status' = [status EXCEPT ![current] = "running"]
             /\ stage' = "started"
    <3>1. /\ held'[current] = InheritedEnds(current) /\ status'[current] = "running"
          /\ held'[Importer] = held[Importer] \ BoundEnds(current)
          /\ \A q \in Repos \ {current} : held'[q] = held[q] /\ status'[q] = status[q]
      BY <2>2, <2>4, ProcessAssumption DEF TypeOK, ProcessesTypeOK, Procs
    <3>2. Inherited'
      <4>1. \A e \in held'[current] : e.repo = current
        BY <3>1, EndsDiffer
      <4>2. \A q \in Repos : \A e \in held'[q] : e.repo = q \/ ConstructedBefore(e.repo, q)
        BY <3>1, <4>1 DEF Inherited
      <4>3. \A e \in held'[Importer] : e.repo \in ToSet(started) \/ e.repo = current
        BY <2>1, <3>1 DEF Inherited
      <4> QED  BY <2>1, <2>4, <4>2, <4>3 DEF Inherited, ConstructedBefore
    <3>3. Constructing'
      <4>1. BoundEnds(current) \cap held'[Importer] = {}
        BY <3>1
      <4>2. Sink(current, "outp") \notin held'[current]
        BY <3>1, EndsDiffer
      <4>3. \A r \in Repos :
              /\ status'[r] \in {"forked", "setup"} => Sink(r, "fds") \in held'[r]
              /\ status'[r] = "failed" => code'[r]
              /\ status'[r] \notin {"none", "forked"} => Sink(r, "outp") \notin held'[r]
        BY <2>1, <3>1, <4>2 DEF Constructing
      <4> QED  BY <2>1, <2>2, <2>4, <3>1, <4>1, <4>3 DEF Constructing, BoundEnds, Stdin, Stdout, Source, Sink
    <3>4. DeathIsSeen'
      <4>1. \A r \in ToSet(started), p \in Procs : p # r =>
              Source(r, "outp") \notin held[p] /\ Sink(r, "inp") \notin held[p]
        BY DEF DeathIsSeen, Holders
      <4>2. \A r \in ToSet(started) : r # current /\ r # Importer
        BY <2>2, StartedType, ProcessAssumption DEF TypeOK
      <4>3. \A r \in ToSet(started), p \in Procs : p # r =>
              Source(r, "outp") \notin held'[p] /\ Sink(r, "inp") \notin held'[p]
        BY <3>1, <4>1, <4>2 DEF Procs, BoundEnds, InheritedEnds, Stdin, Stdout, Source, Sink
      <4> QED  BY <2>1, <4>3 DEF DeathIsSeen, Holders
    <3>5. StartedRuns'
      BY <2>1, <2>2, <3>1, StartedType DEF StartedRuns, TypeOK
    <3> QED  BY <3>2, <3>3, <3>4, <3>5
  <2> QED  BY <1>6, <2>3, <2>4 DEF CreateProcess, CreateProcessFails
<1>7. CASE Demanded
  <2>1. /\ pc = "construct" /\ stage = "started" /\ stage' = "idle" /\ current \in Repos
        /\ UNCHANGED <<pc, held, status, code, current>> /\ current \notin ToSet(started)
    BY <1>7 DEF Demanded, Constructing, TypeOK, ProcessesTypeOK
  <2>2. /\ DOMAIN started' = 1..(Len(started) + 1) /\ DOMAIN started = 1..Len(started)
        /\ Len(started) \in Nat
        /\ \A i \in DOMAIN started : i < Len(started) + 1 /\ started'[i] = started[i]
        /\ started'[Len(started) + 1] = current
        /\ ToSet(started') = ToSet(started) \cup {current}
    BY <1>7, DemandedStarted, StartedType DEF TypeOK
  <2>3. \A r, q : ConstructedBefore(r, q) => ConstructedBefore(r, q)'
    BY <2>2 DEF ConstructedBefore
  <2>4. Inherited'
    <3>1. \A q \in Repos : \A e \in held[q] : e.repo = q \/ ConstructedBefore(e.repo, q)'
      BY <2>3 DEF Inherited
    <3>2. \A e \in held[Importer] : e.repo \in ToSet(started')
      BY <2>1, <2>2 DEF Inherited
    <3> QED  BY <2>1, <3>1, <3>2 DEF Inherited
  <2>5. Constructing'
    BY <2>1 DEF Constructing
  <2>6. DeathIsSeen'
    <3>1. \A q \in Repos : q # current => \A e \in held[q] : e.repo # current
      BY <2>1 DEF Inherited, ConstructedBefore, ToSet
    <3>2. BoundEnds(current) \cap held[Importer] = {}
      BY <2>1 DEF Constructing
    <3>3. Holders(Source(current, "outp")) \cup Holders(Sink(current, "inp")) \subseteq {current}
      BY <3>1, <3>2 DEF Holders, Procs, BoundEnds, Stdin, Stdout, Source, Sink
    <3> QED  BY <2>1, <2>2, <3>3 DEF DeathIsSeen, Holders
  <2>7. StartedRuns'
    BY <2>1, <2>2 DEF StartedRuns, Constructing
  <2> QED  BY <2>4, <2>5, <2>6, <2>7
<1>8. CASE ConstructionFails
  <2>1. Inherited'
    BY <1>8 DEF ConstructionFails, Inherited, ConstructedBefore
  <2>2. Constructing'
    BY <1>8 DEF ConstructionFails, Constructing
  <2> QED  BY <1>8, <2>1, <2>2 DEF ConstructionFails, DeathIsSeen, Holders, StartedRuns
<1>9. CASE Constructed
  BY <1>9, QuietHolds DEF Constructed, procVars, Constructing
<1> QED  BY <1>1, <1>2, <1>3, <1>4, <1>5, <1>6, <1>7, <1>8, <1>9 DEF RunExecutor, Execute

\* Writing, reading and the destructors.
LEMMA ImporterHolds ==
  ASSUME HoldingInv, TypeOK',
         \/ \E r \in Repos : \/ Write(r) \/ BufferFull(r) \/ SendLs(r) \/ BeginReadline(r)
                             \/ Destroy(r)
         \/ Flush \/ Flushed \/ Readline \/ Finish
         \/ BeginClose \/ CloseStream \/ WaitForExit \/ Return
  PROVE  HoldingInv'
<1>1. /\ pc # "construct" /\ UNCHANGED <<status, code, stage, started>>
      /\ UNCHANGED held \/ \E ends : Close(Importer, ends)
  BY DEF Write, BufferFull, SendLs, BeginReadline, Destroy, Flush, Flushed, Readline, Finish,
         BeginClose, CloseStream, WaitForExit, Return, FlushThen, ImporterEnds, procVars
<1>2. pc' # "construct"
  BY DEF Write, BufferFull, SendLs, BeginReadline, Destroy, Flush, Flushed, Readline, Finish,
         BeginClose, CloseStream, WaitForExit, Return, FlushThen, ImporterEnds, HoldingInv, TypeOK,
         ImportTypeOK
<1>3. (\A q \in Repos : held'[q] = held[q]) /\ held'[Importer] \subseteq held[Importer]
  BY <1>1, ProcessAssumption DEF Close, HoldingInv, TypeOK, ProcessesTypeOK, Procs
<1>4. stage = "idle"
  BY <1>1 DEF HoldingInv, Constructing
<1> QED  BY <1>1, <1>2, <1>3, <1>4, QuietHolds

-----------------------------------------------------------------------------
(* The theorems.                                                           *)

\* No process has been started in the initial state.
LEMMA InitHolds == Init => HoldingInv
<1> SUFFICES ASSUME Init PROVE HoldingInv
  OBVIOUS
<1>1. TypeOK
  BY TypeInit
<1>2. ToSet(started) = {}
  BY DEF Init, ToSet
<1>3. Inherited
  BY DEF Init, ProcessesInit, Inherited, Procs
<1>4. Constructing
  BY DEF Init, ProcessesInit, Constructing
<1> QED  BY <1>1, <1>2, <1>3, <1>4 DEF HoldingInv, DeathIsSeen, StartedRuns

\* HoldingInv is inductive.
LEMMA NextHolds == HoldingInv /\ [Next]_vars => HoldingInv'
<1> SUFFICES ASSUME HoldingInv, [Next]_vars PROVE HoldingInv'
  OBVIOUS
<1>1. CASE (\E r \in Repos : Construct(r)) \/ RunExecutor \/ Demanded \/ ConstructionFails \/ Constructed
  BY <1>1, TypeConstruct, ConstructHolds DEF HoldingInv
<1>2. CASE \/ \E r \in Repos : Write(r) \/ BufferFull(r) \/ SendLs(r) \/ BeginReadline(r)
           \/ Flush \/ Flushed \/ Readline \/ Finish
  BY <1>2, TypeImport, ImporterHolds DEF HoldingInv
<1>3. CASE (\E r \in Repos : Destroy(r)) \/ BeginClose \/ CloseStream \/ WaitForExit \/ Return
  BY <1>3, TypeDestroy, ImporterHolds DEF HoldingInv
<1>4. CASE \E r \in Repos : ProcessStep(r) \/ Die(r)
  BY <1>4, TypeProcess, ProcessHolds DEF HoldingInv
<1>5. CASE UNCHANGED vars
  <2>1. UNCHANGED <<windows, held, status, code, stage, current, pc, after, unwinding, started, buffer,
                   asked, written, outp, inp, received, faults>>
    BY <1>5 DEF vars, procVars, importVars, pipeVars
  <2>2. TypeOK'
    BY <2>1 DEF HoldingInv, TypeOK, ProcessesTypeOK, ImportTypeOK, PipesTypeOK
  <2> QED  BY <2>1, <2>2, QuietHolds DEF HoldingInv, Constructing
<1> QED  BY <1>1, <1>2, <1>3, <1>4, <1>5 DEF Next, ImporterStep

\* The other end of a process's input is inherited by later processes only.
LEMMA LaterFollows == HoldingInv => HeldByLater
<1> SUFFICES ASSUME HoldingInv, NEW i \in 1..Len(started), NEW j \in 1..Len(started),
                    started[j] \in Holders(Sink(started[i], "outp"))
             PROVE  i < j
  BY DEF HeldByLater
<1>1. /\ started[i] \in ToSet(started) /\ started[j] \in ToSet(started) /\ started[j] \in Repos
      /\ DOMAIN started = 1..Len(started)
      /\ \A k, l \in 1..Len(started) : started[k] = started[l] => k = l
  BY StartedType DEF HoldingInv, TypeOK
<1> DEFINE e == Sink(started[i], "outp")
<1>2. e \in held[started[j]] /\ e.repo = started[i]
  BY EndsDiffer DEF Holders
<1>3. CASE started[i] = started[j]
  <2>1. status[started[j]] \notin {"none", "forked"}
    BY <1>1 DEF HoldingInv, StartedRuns
  <2> QED  BY <1>1, <1>2, <1>3, <2>1 DEF HoldingInv, Constructing
<1>4. CASE ConstructedBefore(started[i], started[j])
  BY <1>1, <1>4 DEF ConstructedBefore
<1> QED  BY <1>1, <1>2, <1>3, <1>4 DEF HoldingInv, Inherited

\* In every reachable state, on either system, ConnectionInv holds.
THEOREM ConnectionInvariant == Spec => []ConnectionInv
<1>1. HoldingInv /\ HeldByLater => ConnectionInv
  BY DEF HoldingInv, ConnectionInv
<1> QED  BY <1>1, InitHolds, NextHolds, LaterFollows, PTL DEF Spec

\* The importer never waits for a dead process in vain: nobody else holds the
\* ends of the pipes that were made for it.
THEOREM DeathSeen == Spec => []DeathIsSeen
<1>1. ConnectionInv => DeathIsSeen
  BY DEF ConnectionInv
<1> QED  BY <1>1, ConnectionInvariant, PTL

\* No repository is constructed on a process whose git could not be executed.
THEOREM ExecutionSeen == Spec => []StartedRuns
<1>1. ConnectionInv => StartedRuns
  BY DEF ConnectionInv
<1> QED  BY <1>1, ConnectionInvariant, PTL

-----------------------------------------------------------------------------
(* What is written and read.                                               *)

LEMMA InitStreams == Init => InputHeld /\ NothingLost
<1> SUFFICES ASSUME Init PROVE InputHeld /\ NothingLost
  OBVIOUS
<1>1. ToSet(started) = {} /\ Len(<< >>) = 0
  BY DEF Init, ToSet
<1>2. InputHeld
  BY <1>1 DEF Init, ProcessesInit, InputHeld, Alive
<1>3. NothingLost
  BY <1>1 DEF Init, ProcessesInit, NothingLost
<1> QED  BY <1>2, <1>3

\* What a process does: it reads, or it ends.
LEMMA ProcessStreams ==
  ASSUME TypeOK, InputHeld, NothingLost, NEW r \in Repos, ProcessStep(r) \/ Die(r)
  PROVE  InputHeld' /\ NothingLost'
<1>1. /\ UNCHANGED <<pc, after, unwinding, started, buffer, asked, written, stage, current>>
      /\ held'[Importer] = held[Importer] /\ StillOpen' = StillOpen
      /\ \A q \in Repos \ {r} : held'[q] = held[q] /\ status'[q] = status[q]
                                /\ outp'[q] = outp[q] /\ received'[q] = received[q]
      /\ status'[r] = "none" <=> status[r] = "none"
      /\ status'[r] \in Alive => status[r] \in Alive /\ (Stdin(r) \in held[r] => Stdin(r) \in held'[r])
  <2> USE ProcessAssumption DEF TypeOK, ProcessesTypeOK, PipesTypeOK, Procs, importVars, procVars,
                                pipeVars, StillOpen, Alive, Close, End
  <2>1. CASE StartChild(r)
    <3>1. Stdin(r) \notin ClosedInChild(r) \cup Executed(r)
      BY DEF ClosedInChild, Executed, Stdin, Source, Sink
    <3>2. /\ UNCHANGED <<importVars, pipeVars, stage, current>>
          /\ \/ /\ status[r] = "forked" /\ status' = [status EXCEPT ![r] = "setup"]
                /\ held' = [held EXCEPT ![r] = @ \ ClosedInChild(r)]
             \/ /\ status[r] = "setup" /\ status' = [status EXCEPT ![r] = "running"]
                /\ held' = [held EXCEPT ![r] = @ \ Executed(r)]
             \/ /\ status[r] = "setup" /\ status' = [status EXCEPT ![r] = "failed"]
                /\ held' = [held EXCEPT ![r] = @ \ held[r]]
      BY <2>1 DEF StartChild, Child, ExecSetup, Execve, ExecError
    <3> HIDE DEF Close, End
    <3> QED  BY <3>1, <3>2
  <2>2. CASE ReadCommand(r)
    BY <2>2 DEF ReadCommand
  <2>3. CASE ReachEnd(r)
    BY <2>3 DEF ReachEnd
  <2>4. CASE Die(r)
    BY <2>4 DEF Die
  <2> QED  BY <2>1, <2>2, <2>3, <2>4 DEF ProcessStep
<1>2. InputHeld'
  BY <1>1 DEF InputHeld
<1>3. /\ \/ outp'[r] = outp[r] /\ received'[r] = received[r]
         \/ /\ outp[r] # << >> /\ outp'[r] = Tail(outp[r]) /\ received'[r] = received[r] + 1
            /\ status'[r] = status[r] /\ status[r] = "running"
      /\ status'[r] \notin {"fatal", "signaled"} => status[r] \notin {"fatal", "signaled"}
      /\ status'[r] = "exited" =>
           status[r] = "exited" \/ (r \notin StillOpen /\ outp'[r] = << >>)
  <2> USE DEF TypeOK, ProcessesTypeOK, PipesTypeOK, procVars, pipeVars, End
  <2>1. CASE StartChild(r)
    BY <2>1 DEF StartChild, Child, ExecSetup, Execve, ExecError
  <2>2. CASE ReadCommand(r)
    BY <2>2 DEF ReadCommand
  <2>3. CASE ReachEnd(r)
    BY <2>3 DEF ReachEnd, Holders, Procs, StillOpen
  <2>4. CASE Die(r)
    BY <2>4 DEF Die
  <2> QED  BY <2>1, <2>2, <2>3, <2>4 DEF ProcessStep
<1>4. /\ received[r] \in Nat /\ written[r] \in Nat /\ Len(outp[r]) \in Nat /\ Len(buffer[r]) \in Nat
      /\ outp[r] # << >> => Len(Tail(outp[r])) = Len(outp[r]) - 1
  BY DEF TypeOK, PipesTypeOK, ImportTypeOK
<1>5. status'[r] \notin {"fatal", "signaled"} =>
        written'[r] = received'[r] + Len(outp'[r]) + Len(buffer'[r])
  <2> SUFFICES ASSUME status'[r] \notin {"fatal", "signaled"}
               PROVE  written[r] = received'[r] + Len(outp'[r]) + Len(buffer[r])
    BY <1>1
  <2>1. written[r] = received[r] + Len(outp[r]) + Len(buffer[r])
    BY <1>3 DEF NothingLost
  <2>2. CASE outp'[r] = outp[r] /\ received'[r] = received[r]
    BY <2>1, <2>2
  <2>3. CASE outp[r] # << >> /\ outp'[r] = Tail(outp[r]) /\ received'[r] = received[r] + 1
    <3>1. Len(outp'[r]) = Len(outp[r]) - 1
      BY <1>4, <2>3
    <3> QED  BY <1>4, <2>1, <2>3, <3>1
  <2> QED  BY <1>3, <2>2, <2>3
<1>6. status'[r] = "exited" => r \notin StillOpen' /\ outp'[r] = << >>
  BY <1>1, <1>3 DEF NothingLost
<1> QED  BY <1>1, <1>2, <1>5, <1>6 DEF NothingLost

\* What execute does with the pipes and the process of the current repository.
LEMMA ExecuteStreams ==
  ASSUME TypeOK, InputHeld, stage \notin {"idle", "threw"}, pc = "construct", Execute
  PROVE  /\ current' = current /\ StillOpen' = StillOpen /\ stage' # "idle"
         /\ \A q \in Repos \ {current} : held'[q] = held[q] /\ status'[q] = status[q]
         /\ \/ held'[current] = held[current] /\ status'[current] = status[current]
            \/ /\ stage \in {"fork_setup", "fork"} /\ status'[current] \in {"forked", "running"}
               /\ Stdin(current) \in held'[current]
         /\ stage' \in {"fork_setup", "fork"} =>
              /\ stage \in {"fork_setup", "fork"} /\ status' = status
              /\ Stdin(current) \in held'[Importer]
<1> DEFINE
      Drops(E) == /\ held' = [held EXCEPT ![Importer] = @ \ E] /\ UNCHANGED status
                  /\ stage' \notin {"idle", "fork_setup", "fork"}
                  /\ \A q : Sink(q, "outp") \notin E
      Takes(E) == /\ stage = "fork_setup" /\ stage' = "fork" /\ UNCHANGED status
                  /\ held' = [held EXCEPT ![Importer] = @ \cup E]
                  /\ \A q : Sink(q, "outp") \notin E
      Forks == /\ stage = "fork" /\ stage' = "fork_success"
               /\ held' = [held EXCEPT ![current] = held[Importer]]
               /\ status' = [status EXCEPT ![current] = "forked"]
      Creates(E) == /\ stage = "fork_setup" /\ stage' = "started"
                    /\ held' = [held EXCEPT ![current] = E, ![Importer] = @ \ E]
                    /\ status' = [status EXCEPT ![current] = "running"]
                    /\ Stdin(current) \in E /\ \A q : Sink(q, "outp") \notin E
<1>1. /\ held \in [Procs -> SUBSET PipeEnd] /\ status \in [Repos -> Statuses] /\ current \in Repos
      /\ current # Importer /\ Importer \in Procs /\ Repos \subseteq Procs /\ Importer \notin Repos
      /\ stage \in {"fork_setup", "fork"} => Stdin(current) \in held[Importer]
  BY ProcessAssumption DEF TypeOK, ProcessesTypeOK, Procs, InputHeld
<1>2. /\ \A q : Sink(q, "outp") \notin BothEnds(current, "fds") \cup BoundEnds(current)
      /\ \A q : Sink(q, "outp") \notin {Source(current, "fds")} \cup BoundEnds(current)
      /\ \A q : Sink(q, "outp") \notin {Sink(current, "fds")}
      /\ Stdin(current) \in InheritedEnds(current) /\ InheritedEnds(current) = BoundEnds(current)
  BY DEF BothEnds, BoundEnds, Stdin, Stdout, Source, Sink, InheritedEnds
<1>3. /\ current' = current
      /\ (\E E : Drops(E)) \/ (\E E : Takes(E)) \/ Forks \/ \E E : Creates(E)
  <2>1. Threw /\ UNCHANGED status => Drops(BothEnds(current, "fds") \cup BoundEnds(current))
    BY <1>2 DEF Threw, Close
  <2>2. CASE ForkSetup
    <3>1. \/ Threw /\ UNCHANGED status
          \/ Takes(BothEnds(current, "fds"))
      BY <1>2, <2>2 DEF ForkSetup
    <3> HIDE DEF Drops, Takes
    <3> QED  BY <2>1, <2>2, <3>1 DEF ForkSetup
  <2>3. CASE Fork
    <3>1. (Threw /\ UNCHANGED status) \/ Forks
      BY <2>3 DEF Fork
    <3> HIDE DEF Drops, Forks
    <3> QED  BY <2>1, <2>3, <3>1 DEF Fork
  <2>4. CASE ForkSuccess
    <3>1. Drops({Sink(current, "fds")})
      BY <1>2, <2>4 DEF ForkSuccess, Close
    <3> HIDE DEF Drops
    <3> QED  BY <2>4, <3>1 DEF ForkSuccess
  <2>5. CASE ReadErrorCode
    <3>1. (Threw /\ UNCHANGED status) \/ Drops({Source(current, "fds")} \cup BoundEnds(current))
      BY <1>2, <2>5 DEF ReadErrorCode, Close
    <3> HIDE DEF Drops
    <3> QED  BY <2>1, <2>5, <3>1 DEF ReadErrorCode
  <2>6. CASE CreateProcess
    <3>1. (Threw /\ UNCHANGED status) \/ Creates(BoundEnds(current))
      BY <1>2, <2>6 DEF CreateProcess, CreateProcessFails
    <3> HIDE DEF Drops, Creates
    <3> QED  BY <2>1, <2>6, <3>1 DEF CreateProcess
  <2> HIDE DEF Drops, Takes, Forks, Creates
  <2> QED  BY <2>2, <2>3, <2>4, <2>5, <2>6 DEF Execute
<1>4. ASSUME NEW E, Drops(E)
      PROVE  /\ StillOpen' = StillOpen /\ status' = status /\ \A q \in Repos : held'[q] = held[q]
             /\ stage' \notin {"idle", "fork_setup", "fork"}
  BY <1>1, <1>4 DEF StillOpen
<1>5. ASSUME NEW E, Takes(E)
      PROVE  /\ StillOpen' = StillOpen /\ status' = status /\ \A q \in Repos : held'[q] = held[q]
             /\ stage = "fork_setup" /\ stage' = "fork" /\ Stdin(current) \in held'[Importer]
  BY <1>1, <1>5 DEF StillOpen
<1>6. CASE Forks
  BY <1>1, <1>3, <1>6 DEF StillOpen
<1>7. ASSUME NEW E, Creates(E)
      PROVE  /\ StillOpen' = StillOpen /\ stage = "fork_setup" /\ stage' = "started"
             /\ \A q \in Repos \ {current} : held'[q] = held[q] /\ status'[q] = status[q]
             /\ status'[current] = "running" /\ Stdin(current) \in held'[current]
  BY <1>1, <1>7 DEF StillOpen
<1> HIDE DEF Drops, Takes, Creates
<1> QED  BY <1>1, <1>3, <1>4, <1>5, <1>6, <1>7


\* What the constructor of importer does.
LEMMA ConstructStreams ==
  ASSUME HoldingInv, InputHeld, NothingLost,
         (\E r \in Repos : Construct(r)) \/ RunExecutor \/ Demanded \/ ConstructionFails \/ Constructed
  PROVE  InputHeld' /\ NothingLost'
<1>1. /\ pc = "construct" /\ UNCHANGED <<after, buffer, written, outp, received>>
      /\ ~ unwinding /\ ToSet(started) \subseteq StillOpen /\ StillOpen \subseteq Repos
      /\ \A r \in Repos : status[r] = "exited" => r \notin StillOpen
      /\ TypeOK /\ Constructing
  <2>1. pc = "construct" /\ UNCHANGED <<after, buffer, written, outp, received>>
    BY DEF Construct, RunExecutor, Demanded, ConstructionFails, Constructed, importVars, pipeVars
  <2> QED  BY <2>1 DEF InputHeld, NothingLost, StillOpen, HoldingInv
<1>2. CASE RunExecutor
  <2>1. stage \notin {"idle", "threw"} /\ Execute /\ UNCHANGED <<pc, unwinding, started>>
    BY <1>2 DEF RunExecutor, Execute, CreateProcess, ForkSetup, Fork, ForkSuccess, ReadErrorCode,
            importVars
  <2>2. /\ current' = current /\ StillOpen' = StillOpen /\ stage' # "idle"
        /\ \A q \in Repos \ {current} : held'[q] = held[q] /\ status'[q] = status[q]
        /\ \/ held'[current] = held[current] /\ status'[current] = status[current]
           \/ /\ stage \in {"fork_setup", "fork"} /\ status'[current] \in {"forked", "running"}
              /\ Stdin(current) \in held'[current]
        /\ stage' \in {"fork_setup", "fork"} =>
             /\ stage \in {"fork_setup", "fork"} /\ status' = status
             /\ Stdin(current) \in held'[Importer]
    BY <1>1, <2>1, ExecuteStreams
  <2>3. current \notin ToSet(started) /\ current \in Repos /\ current \in StillOpen
    BY <1>1, <2>1 DEF Constructing, TypeOK, ProcessesTypeOK, InputHeld
  <2>4. stage \in {"fork_setup", "fork"} => status[current] = "none"
    BY <1>1, <2>3 DEF InputHeld
  <2>5. NothingLost'
    BY <1>1, <2>1, <2>2, <2>4 DEF NothingLost
  <2>6. /\ \A r \in Repos : status'[r] \in Alive => Stdin(r) \in held'[r]
        /\ \A r \in Repos \ ToSet(started) :
             r # current \/ stage' \in {"idle", "fork_setup", "fork"} => status'[r] = "none"
    BY <1>1, <2>2, <2>4 DEF InputHeld
  <2> QED  BY <1>1, <2>1, <2>2, <2>3, <2>5, <2>6 DEF InputHeld
<1>3. CASE \E r \in Repos : Construct(r)
  <2>1. PICK r \in Repos : Construct(r)
    BY <1>3
  <2>2. /\ r \notin ToSet(started) /\ stage = "idle" /\ current' = r
        /\ UNCHANGED <<pc, unwinding, started, status>>
        /\ \/ /\ held' = [held EXCEPT ![Importer] = @ \cup BothEnds(r, "inp") \cup BothEnds(r, "outp")]
              /\ stage' = "fork_setup"
           \/ /\ \E leaked \in {{}, BothEnds(r, "inp")} :
                   held' = [held EXCEPT ![Importer] = @ \cup leaked]
              /\ stage' = "threw"
    BY <2>1 DEF Construct, CreatePipes, CreatePipeFails, importVars
  <2>3. status[r] = "none"
    BY <1>1, <2>2 DEF InputHeld
  <2>4. /\ \A q \in Repos : held'[q] = held[q]
        /\ StillOpen \subseteq StillOpen' /\ StillOpen' \subseteq StillOpen \cup {r}
        /\ stage' = "fork_setup" => r \in StillOpen' /\ Stdin(r) \in held'[Importer]
    <3>1. /\ held \in [Procs -> SUBSET PipeEnd] /\ Importer \in Procs /\ Importer \notin Repos
          /\ Repos \subseteq Procs
      BY <1>1, ProcessAssumption DEF TypeOK, ProcessesTypeOK, Procs
    <3>2. \A e \in BothEnds(r, "inp") \cup BothEnds(r, "outp") : e.repo = r
      BY EndsDiffer
    <3>3. \A q : Sink(q, "outp").repo = q
      BY DEF Sink
    <3>4. Sink(r, "outp") \in BothEnds(r, "outp") /\ Stdin(r) \in BothEnds(r, "outp")
      BY DEF BothEnds, Stdin
    <3> QED  BY <2>2, <3>1, <3>2, <3>3, <3>4 DEF StillOpen
  <2>5. NothingLost'
    BY <1>1, <2>2, <2>3, <2>4 DEF NothingLost
  <2>6. InputHeld'
    BY <1>1, <2>2, <2>3, <2>4 DEF InputHeld
  <2> QED  BY <2>5, <2>6
<1>4. CASE Demanded
  <2>1. /\ stage = "started" /\ stage' = "idle" /\ started' = Append(started, current)
        /\ UNCHANGED <<pc, unwinding, status, held, current>>
    BY <1>4 DEF Demanded
  <2>2. StillOpen' = StillOpen
    BY <2>1 DEF StillOpen
  <2>3. ToSet(started') = ToSet(started) \cup {current}
    BY <1>1, <1>4, DemandedStarted
  <2>4. current \in StillOpen
    BY <1>1, <2>1 DEF InputHeld
  <2>5. NothingLost'
    BY <1>1, <2>1, <2>2 DEF NothingLost
  <2>6. InputHeld'
    BY <1>1, <2>1, <2>2, <2>3, <2>4 DEF InputHeld
  <2> QED  BY <2>5, <2>6
<1>5. CASE ConstructionFails
  <2>1. /\ stage' = "idle" /\ pc' = "destroy" /\ unwinding' = TRUE
        /\ UNCHANGED <<started, status, held, current>> /\ StillOpen' = StillOpen
    BY <1>5 DEF ConstructionFails, StillOpen
  <2> QED  BY <1>1, <2>1 DEF InputHeld, NothingLost
<1>6. CASE Constructed
  <2>1. /\ stage = "idle" /\ pc' = "import" /\ ToSet(started) = Repos
        /\ UNCHANGED <<stage, unwinding, started, status, held, current>> /\ StillOpen' = StillOpen
    BY <1>6 DEF Constructed, procVars, StillOpen
  <2>2. StillOpen = Repos
    BY <1>1, <2>1
  <2> QED  BY <1>1, <2>1, <2>2 DEF InputHeld, NothingLost
<1> QED  BY <1>2, <1>3, <1>4, <1>5, <1>6

\* Writing and reading, up to the end of the last revision.
LEMMA ImportStreams ==
  ASSUME HoldingInv, InputHeld, NothingLost,
         \/ \E r \in Repos : Write(r) \/ BufferFull(r) \/ SendLs(r) \/ BeginReadline(r)
         \/ Flushed \/ Readline \/ Finish
  PROVE  InputHeld' /\ NothingLost'
<1>1. /\ pc # "construct" /\ pc' # "construct" /\ stage = "idle" /\ current \in Repos
      /\ UNCHANGED <<held, status, stage, started, unwinding, outp, received>>
      /\ StillOpen' = StillOpen
      /\ written \in [Repos -> Nat] /\ buffer \in [Repos -> Seq(Commands)]
      /\ \A r \in Repos : Len(buffer[r]) \in Nat /\ Len(outp[r]) \in Nat /\ received[r] \in Nat
  <2>1. pc # "construct" /\ UNCHANGED <<held, status, stage, started, unwinding, outp, received>>
    BY DEF Write, BufferFull, SendLs, BeginReadline, Flushed, Readline, Finish, FlushThen,
           procVars, pipeVars
  <2>2. pc' # "construct"
    BY DEF Write, BufferFull, SendLs, BeginReadline, Flushed, Readline, Finish, FlushThen,
           HoldingInv, TypeOK, ImportTypeOK
  <2>3. /\ written \in [Repos -> Nat] /\ buffer \in [Repos -> Seq(Commands)] /\ current \in Repos
        /\ received \in [Repos -> Nat]
        /\ outp \in [Repos -> {s \in Seq(Commands) : Len(s) <= Capacity}]
    BY DEF HoldingInv, TypeOK, ProcessesTypeOK, ImportTypeOK, PipesTypeOK
  <2>4. \A r \in Repos : buffer[r] \in Seq(Commands) /\ outp[r] \in Seq(Commands) /\ received[r] \in Nat
    BY <2>3
  <2>5. \A r \in Repos : Len(buffer[r]) \in Nat /\ Len(outp[r]) \in Nat /\ received[r] \in Nat
    BY <2>4
  <2> QED  BY <2>1, <2>2, <2>3, <2>5 DEF StillOpen, HoldingInv, Constructing
<1>2. CASE \E r \in Repos : Write(r) \/ SendLs(r)
  <2>1. PICK r \in Repos : Write(r) \/ SendLs(r)
    BY <1>2
  <2>2. /\ pc = "import"
        /\ pc' = "import" \/ (pc' = "flush" /\ after' = "import")
        /\ written' = [written EXCEPT ![r] = @ + 1]
        /\ \E c \in Commands : buffer' = [buffer EXCEPT ![r] = Append(@, c)]
    BY <2>1 DEF Write, SendLs, FlushThen, procVars, Commands
  <2>3. StillOpen = Repos /\ ~ unwinding
    BY <2>2 DEF InputHeld
  <2>4. \A q \in Repos : written'[q] - Len(buffer'[q]) = written[q] - Len(buffer[q])
    <3>1. PICK c \in Commands : buffer' = [buffer EXCEPT ![r] = Append(@, c)]
      BY <2>2
    <3>2. Len(buffer'[r]) = Len(buffer[r]) + 1
      BY <1>1, <3>1
    <3>3. \A q \in Repos \ {r} : buffer'[q] = buffer[q]
      BY <1>1, <3>1
    <3> QED  BY <1>1, <2>2, <3>2, <3>3
  <2>5. \A q \in Repos : Len(buffer'[q]) \in Nat /\ written'[q] \in Nat
    <3>1. buffer' \in [Repos -> Seq(Commands)]
      BY <1>1, <2>2
    <3> QED  BY <1>1, <2>2, <3>1
  <2>6. \A q \in Repos : status[q] \notin {"fatal", "signaled"} =>
          written'[q] = received[q] + Len(outp[q]) + Len(buffer'[q])
    <3> TAKE q \in Repos
    <3>1. HAVE status[q] \notin {"fatal", "signaled"}
    <3>2. written[q] = received[q] + Len(outp[q]) + Len(buffer[q])
      BY <3>1 DEF NothingLost
    <3>3. /\ written[q] \in Nat /\ Len(buffer[q]) \in Nat /\ Len(outp[q]) \in Nat
          /\ received[q] \in Nat
      BY <1>1
    <3>4. written'[q] \in Nat /\ Len(buffer'[q]) \in Nat
      BY <2>5
    <3>5. written'[q] - Len(buffer'[q]) = written[q] - Len(buffer[q])
      BY <2>4
    <3> DEFINE w == written[q]
               b == Len(buffer[q])
               v == written'[q]
               c == Len(buffer'[q])
    <3>6. w = received[q] + Len(outp[q]) + b
      BY <3>2
    <3>7. v - c = w - b
      BY <3>5
    <3>8. w \in Nat /\ b \in Nat /\ v \in Nat /\ c \in Nat
      BY <3>3, <3>4
    <3>9. v = received[q] + Len(outp[q]) + c
      <4> HIDE DEF w, b, v, c
      <4>1. received[q] \in Nat /\ Len(outp[q]) \in Nat
        BY <3>3
      <4> QED  BY <3>6, <3>7, <3>8, <4>1
    <3> QED  BY <3>9
  <2>7. InputHeld'
    BY <1>1, <2>2, <2>3 DEF InputHeld
  <2> QED  BY <1>1, <2>2, <2>3, <2>6, <2>7 DEF NothingLost
<1>3. CASE \/ \E r \in Repos : BufferFull(r) \/ BeginReadline(r)
           \/ Flushed \/ Readline \/ Finish
  <2>1. /\ UNCHANGED <<buffer, written>>
        /\ \/ pc \in {"import", "readline"} /\ pc' \in {"import", "readline", "closing"}
           \/ pc = "import" /\ pc' = "flush"
           \/ pc = "flush" /\ pc' = after /\ buffer[current] = << >> /\ current' = current
    BY <1>3 DEF BufferFull, BeginReadline, Flushed, Readline, Finish, FlushThen, procVars
  <2>2. after \in {"import", "close"}
    BY DEF HoldingInv, TypeOK, ImportTypeOK
  <2>3. InputHeld'
    BY <1>1, <2>1, <2>2 DEF InputHeld
  <2>4. NothingLost'
    BY <1>1, <2>1, <2>2 DEF NothingLost, InputHeld
  <2> QED  BY <2>3, <2>4
<1> QED  BY <1>2, <1>3

\* Flushing moves what is in the buffer to the pipe, kills the importer, or on Windows
\* gives up what a dead process will not read.
LEMMA FlushStreams ==
  ASSUME HoldingInv, InputHeld, NothingLost, Flush
  PROVE  InputHeld' /\ NothingLost'
<1>1. /\ pc = "flush" /\ stage = "idle" /\ current \in Repos /\ buffer[current] # << >>
      /\ held \in [Procs -> SUBSET PipeEnd] /\ Repos \subseteq Procs /\ Importer \in Procs
      /\ Importer \notin Repos
      /\ buffer \in [Repos -> Seq(Commands)] /\ outp \in [Repos -> Seq(Commands)]
      /\ \A r \in Repos : /\ Len(buffer[r]) \in Nat /\ Len(outp[r]) \in Nat /\ received[r] \in Nat
                          /\ written[r] \in Nat
      /\ UNCHANGED <<status, stage, current, after, unwinding, started, written, received>>
      /\ \A r \in ToSet(started) : status[r] \notin {"none", "forked", "setup", "failed"}
      /\ status \in [Repos -> Statuses]
  <2>1. /\ pc = "flush" /\ buffer[current] # << >>
        /\ UNCHANGED <<status, stage, current, after, unwinding, started, written, received>>
    BY DEF Flush, ImporterEnds, procVars
  <2> QED
    BY <2>1, ProcessAssumption DEF HoldingInv, TypeOK, ProcessesTypeOK, ImportTypeOK, PipesTypeOK, Procs,
       Constructing, StartedRuns
<1>2. current \in StillOpen /\ ~ unwinding /\ status[current] # "exited"
  BY <1>1 DEF NothingLost
<1>3. status[current] \in {"running", "fatal", "signaled"}
  BY <1>1, <1>2 DEF InputHeld, Statuses
<1>4. CASE Holders(Source(current, "outp")) = {} /\ windows
  <2>1. UNCHANGED <<pc, held, outp>> /\ buffer' = [buffer EXCEPT ![current] = << >>]
    BY <1>1, <1>4 DEF Flush, procVars
  <2>2. status[current] \notin Alive
    BY <1>1, <1>4 DEF InputHeld, Holders, Stdin
  <2>3. status[current] \in {"fatal", "signaled"}
    BY <1>3, <2>2 DEF Alive
  <2>4. StillOpen' = StillOpen /\ \A r \in Repos \ {current} : buffer'[r] = buffer[r]
    BY <1>1, <2>1 DEF StillOpen
  <2>5. InputHeld'
    BY <1>1, <2>1, <2>4 DEF InputHeld
  <2>6. NothingLost'
    BY <1>1, <1>2, <2>1, <2>3, <2>4 DEF NothingLost
  <2> QED  BY <2>5, <2>6
<1>5. CASE Holders(Source(current, "outp")) = {} /\ ~ windows
  <2>1. pc' = "killed" /\ Close(Importer, held[Importer]) /\ UNCHANGED <<buffer, outp>>
    BY <1>1, <1>5 DEF Flush, ImporterEnds
  <2>2. StillOpen' = {} /\ \A r \in Repos : held'[r] = held[r]
    BY <1>1, <2>1 DEF StillOpen, Close
  <2>3. InputHeld'
    BY <1>1, <2>1, <2>2 DEF InputHeld
  <2>4. NothingLost'
    BY <1>1, <1>2, <2>1, <2>2 DEF NothingLost
  <2> QED  BY <2>3, <2>4
<1>6. CASE Holders(Source(current, "outp")) # {}
  <2>1. /\ UNCHANGED <<pc, held>>
        /\ outp' = [outp EXCEPT ![current] = Append(@, Head(buffer[current]))]
        /\ buffer' = [buffer EXCEPT ![current] = Tail(@)]
    BY <1>1, <1>6 DEF Flush, procVars
  <2>2. /\ StillOpen' = StillOpen
        /\ \A r \in Repos \ {current} : buffer'[r] = buffer[r] /\ outp'[r] = outp[r]
        /\ buffer'[current] = Tail(buffer[current])
        /\ outp'[current] = Append(outp[current], Head(buffer[current]))
    BY <1>1, <2>1 DEF StillOpen
  <2>3. Len(outp'[current]) = Len(outp[current]) + 1 /\ Len(buffer'[current]) = Len(buffer[current]) - 1
    BY <1>1, <2>2
  <2>4. InputHeld'
    BY <1>1, <2>1, <2>2 DEF InputHeld
  <2>5. \A r \in Repos : status[r] \notin {"fatal", "signaled"} =>
          written[r] = received[r] + Len(outp'[r]) + Len(buffer'[r])
    <3> TAKE r \in Repos
    <3>1. HAVE status[r] \notin {"fatal", "signaled"}
    <3>2. written[r] = received[r] + Len(outp[r]) + Len(buffer[r])
      BY <3>1 DEF NothingLost
    <3>3. /\ written[r] \in Nat /\ Len(buffer[r]) \in Nat /\ Len(outp[r]) \in Nat
          /\ received[r] \in Nat
      BY <1>1
    <3>4. CASE r = current
      BY <2>3, <3>2, <3>3, <3>4
    <3>5. CASE r # current
      BY <2>2, <3>2, <3>5
    <3> QED  BY <3>4, <3>5
  <2> QED  BY <1>1, <1>2, <2>1, <2>2, <2>4, <2>5 DEF NothingLost
<1> QED  BY <1>4, <1>5, <1>6

\* Closing the streams and waiting.
LEMMA DestroyStreams ==
  ASSUME HoldingInv, InputHeld, NothingLost,
         (\E r \in Repos : Destroy(r)) \/ BeginClose \/ CloseStream \/ WaitForExit \/ Return
  PROVE  InputHeld' /\ NothingLost'
<1>1. /\ pc \in {"closing", "close", "destroy", "wait"} /\ stage = "idle" /\ current \in Repos
      /\ UNCHANGED <<status, stage, unwinding, started, written, received, buffer, outp>>
      /\ held \in [Procs -> SUBSET PipeEnd] /\ Importer \in Procs /\ Importer \notin Repos
      /\ Repos \subseteq Procs /\ after \in {"import", "close"}
  <2>1. /\ pc \in {"closing", "close", "destroy", "wait"}
        /\ UNCHANGED <<status, stage, unwinding, started, written, received, buffer, outp>>
    BY DEF Destroy, BeginClose, CloseStream, WaitForExit, Return, FlushThen, ImporterEnds,
           procVars, pipeVars
  <2> QED
    BY <2>1, ProcessAssumption DEF HoldingInv, TypeOK, ProcessesTypeOK, ImportTypeOK, Procs, Constructing
<1>2. \A r \in StillOpen : r \in Repos
  BY DEF StillOpen
<1>3. CASE (\E r \in Repos : Destroy(r)) \/ BeginClose
  <2>1. /\ held' = held /\ StillOpen' = StillOpen
        /\ \/ pc' = "flush" /\ after' = "close" /\ StillOpen # {}
           \/ pc = "closing" /\ pc' = "destroy" /\ StillOpen = {}
           \/ pc = "destroy" /\ pc' = "wait"
    BY <1>3 DEF Destroy, BeginClose, FlushThen, procVars, StillOpen
  <2>2. InputHeld'
    BY <1>1, <2>1 DEF InputHeld
  <2>3. NothingLost'
    BY <1>1, <2>1 DEF NothingLost
  <2> QED  BY <2>2, <2>3
<1>4. CASE CloseStream
  <2>1. /\ pc = "close" /\ pc' = (IF unwinding THEN "wait" ELSE "closing")
        /\ held' = [held EXCEPT ![Importer] = @ \ {Sink(current, "outp")}]
    BY <1>4 DEF CloseStream, Close
  <2>2. StillOpen' = StillOpen \ {current} /\ \A r \in Repos : held'[r] = held[r]
    BY <1>1, <2>1 DEF StillOpen, Sink
  <2>3. buffer[current] = << >>
    BY <2>1 DEF NothingLost
  <2>4. InputHeld'
    BY <1>1, <2>1, <2>2 DEF InputHeld
  <2>5. NothingLost'
    BY <1>1, <2>1, <2>2, <2>3 DEF NothingLost
  <2> QED  BY <2>4, <2>5
<1>5. CASE WaitForExit \/ Return
  <2>1. /\ pc \in {"destroy", "wait"} /\ pc' \in {"destroy", "aborted", "returned"}
        /\ \E E : held' = [held EXCEPT ![Importer] = @ \ E]
    BY <1>5 DEF WaitForExit, Return, ImporterEnds, Close
  <2>2. StillOpen' \subseteq StillOpen /\ \A r \in Repos : held'[r] = held[r]
    BY <1>1, <2>1 DEF StillOpen
  <2>3. \A r \in Repos : buffer[r] = << >>
    BY <2>1 DEF InputHeld, NothingLost
  <2>4. InputHeld'
    BY <1>1, <2>1, <2>2 DEF InputHeld
  <2>5. NothingLost'
    BY <1>1, <2>1, <2>2, <2>3 DEF NothingLost
  <2> QED  BY <2>4, <2>5
<1> QED  BY <1>3, <1>4, <1>5

\* StreamsInv is inductive.
LEMMA NextStreams == ConnectionInv /\ InputHeld /\ NothingLost /\ [Next]_vars => InputHeld' /\ NothingLost'
<1> SUFFICES ASSUME ConnectionInv, InputHeld, NothingLost, [Next]_vars
             PROVE  InputHeld' /\ NothingLost'
  OBVIOUS
<1>1. HoldingInv /\ TypeOK
  BY DEF ConnectionInv, HoldingInv
<1>2. CASE UNCHANGED vars
  <2>1. UNCHANGED <<held, status, stage, current, pc, after, unwinding, started, buffer, written,
                    outp, received>> /\ StillOpen' = StillOpen
    BY <1>2 DEF vars, procVars, importVars, pipeVars, StillOpen
  <2> QED  BY <2>1 DEF InputHeld, NothingLost
<1>3. CASE \E r \in Repos : ProcessStep(r) \/ Die(r)
  BY <1>1, <1>3, ProcessStreams
<1>4. CASE ImporterStep
  BY <1>1, <1>4, ConstructStreams, ImportStreams, FlushStreams, DestroyStreams DEF ImporterStep
<1> QED  BY <1>2, <1>3, <1>4 DEF Next

\* In every reachable state what was written to a living process is in the buffer of
\* its stream, in its pipe or read.
THEOREM StreamsInvariant == Spec => []StreamsInv
<1>1. ConnectionInv /\ InputHeld /\ NothingLost => StreamsInv
  BY DEF StreamsInv
<1> QED  BY <1>1, ConnectionInvariant, InitStreams, NextStreams, PTL DEF Spec

\* A process that comes to the end of its input, where git fast-import writes its marks,
\* has read everything that was written to it, unless SIGPIPE ended the importer.
THEOREM AllCommandsRead == Spec => []EverythingRead
<1>1. StreamsInv => EverythingRead
  <2> SUFFICES ASSUME StreamsInv, pc # "killed", NEW r \in Repos, status[r] = "exited"
               PROVE  received[r] = written[r]
    BY DEF EverythingRead
  <2>1. NothingLost /\ TypeOK
    BY DEF StreamsInv, ConnectionInv
  <2>2. /\ outp[r] = << >> /\ buffer[r] = << >> /\ received[r] \in Nat
        /\ written[r] = received[r] + Len(outp[r]) + Len(buffer[r])
    BY <2>1 DEF NothingLost, TypeOK, PipesTypeOK
  <2>3. Len(<< >>) = 0
    OBVIOUS
  <2> QED  BY <2>2, <2>3
<1> QED  BY <1>1, StreamsInvariant, PTL
=============================================================================
