------------------------------- MODULE Processes -------------------------------
(***************************************************************************)
(* Starting a fast-import process: boost::process::execute with the        *)
(* initializers git_fast_import passes to it (posix and windows in         *)
(* src/src/boost_process/boost/process), and the system's pipes and        *)
(* processes as far as they are used.  On POSIX a child starts with a copy *)
(* of every descriptor of the importer, on Windows with the handles bound  *)
(* for it; which processes hold which end of a pipe decides who sees the   *)
(* end of a stream, and when.                                              *)
(***************************************************************************)
EXTENDS Integers, FiniteSets

CONSTANTS
  Repos,     \* the repositories, each with its fast-import process
  Importer   \* the process svn2git

ASSUME ProcessAssumption == IsFiniteSet(Repos) /\ Importer \notin Repos

Procs == Repos \cup {Importer}

\* inp carries what the process writes, outp what it reads, and fds the code
\* of a failed execve.
Pipes == {"inp", "outp", "fds"}

PipeEnd == [repo : Repos, pipe : Pipes, end : {"source", "sink"}]

Source(r, p) == [repo |-> r, pipe |-> p, end |-> "source"]
Sink(r, p) == [repo |-> r, pipe |-> p, end |-> "sink"]
BothEnds(r, p) == {Source(r, p), Sink(r, p)}

VARIABLES
  windows, \* which of the two systems is it?
  held,    \* held[p]: the pipe ends process p has descriptors of
  status,  \* status[p]: how far process p has come
  code,    \* code[p]: has p written the error code of execve?
  stage,   \* the place of the importer in executor::operator()
  current  \* the repository whose process is started or waited for

procVars == <<windows, held, status, code, stage, current>>

Statuses == {"none", "forked", "setup", "running", "exited", "fatal", "signaled", "failed"}
Alive == {"forked", "setup", "running"}
Stages == {"idle", "fork_setup", "fork", "fork_success", "read", "started", "threw"}

Holders(e) == {p \in Procs : e \in held[p]}

ProcessesInit ==
  /\ windows \in BOOLEAN
  /\ held = [p \in Procs |-> {}]
  /\ status = [r \in Repos |-> "none"]
  /\ code = [r \in Repos |-> FALSE]
  /\ stage = "idle" /\ current \in Repos

Close(p, ends) == held' = [held EXCEPT ![p] = @ \ ends]

\* What the process has as its standard input and output.
Stdin(r) == Source(r, "outp")
Stdout(r) == Sink(r, "inp")

\* Mutant: the importer keeps its copies of the ends bound in the child.
BoundEndsKept(r) == {}

\* The ends that bind_stdin and bind_stdout own: the importer's copies are
\* closed with the initializers, at the end of execute.
BoundEnds(r) == {Stdin(r), Stdout(r)}

\* create_pipe throws, the first time or the second; nothing is closed then.
CreatePipeFails(r) ==
  /\ \E leaked \in {{}, BothEnds(r, "inp")} : held' = [held EXCEPT ![Importer] = @ \cup leaked]
  /\ stage' = "threw"

\* create_pipe, twice; then execute is called for the repository.
CreatePipes(r) ==
  /\ stage = "idle"
  /\ current' = r
  /\ \/ /\ held' = [held EXCEPT ![Importer] = @ \cup BothEnds(r, "inp") \cup BothEnds(r, "outp")]
        /\ stage' = "fork_setup"
     \/ CreatePipeFails(r)
  /\ UNCHANGED <<windows, status, code>>

\* An exception leaves execute; its initializers are destroyed.
Threw == stage' = "threw" /\ Close(Importer, BothEnds(current, "fds") \cup BoundEnds(current))

\* throw_on_error::on_fork_setup
ForkSetup ==
  /\ ~windows /\ stage = "fork_setup"
  /\ \/ /\ held' = [held EXCEPT ![Importer] = @ \cup BothEnds(current, "fds")]
        /\ stage' = "fork"
     \/ Threw  \* pipe(2) or fcntl(2) failed
  /\ UNCHANGED <<windows, status, code, current>>

\* fork, or throw_on_error::on_fork_error
Fork ==
  /\ stage = "fork"
  /\ \/ /\ held' = [held EXCEPT ![current] = held[Importer]]
        /\ status' = [status EXCEPT ![current] = "forked"]
        /\ stage' = "fork_success"
     \/ Threw /\ UNCHANGED status
  /\ UNCHANGED <<windows, code, current>>

\* Mutant: without close_fd(outp.sink).
ClosedInChildButSink(r) == {Source(r, "inp"), Source(r, "fds")}

\* What close_fd and throw_on_error close in the child.
ClosedInChild(r) == {Sink(r, "outp"), Source(r, "inp"), Source(r, "fds")}

\* The initializers' on_exec_setup in the child.
ExecSetup(r) ==
  /\ status[r] = "forked"
  /\ status' = [status EXCEPT ![r] = "setup"]
  /\ Close(r, ClosedInChild(r))
  /\ UNCHANGED <<windows, code, stage, current>>

\* The descriptors that execve closes: those with FD_CLOEXEC.
Executed(r) == {Sink(r, "fds")}

Execve(r) ==
  /\ status[r] = "setup"
  /\ status' = [status EXCEPT ![r] = "running"]
  /\ Close(r, Executed(r))
  /\ UNCHANGED <<windows, code, stage, current>>

\* throw_on_error::on_exec_error, then _exit.
ExecError(r) ==
  /\ status[r] = "setup"
  /\ status' = [status EXCEPT ![r] = "failed"]
  /\ code' = [code EXCEPT ![r] = TRUE]
  /\ Close(r, held[r])
  /\ UNCHANGED <<windows, stage, current>>

\* throw_on_error::on_fork_success closes its copy of the sink ...
ForkSuccess ==
  /\ stage = "fork_success"
  /\ stage' = "read"
  /\ Close(Importer, {Sink(current, "fds")})
  /\ UNCHANGED <<windows, status, code, current>>

\* ... and reads until there is an error code or nobody is left to write one.
ReadErrorCode ==
  /\ stage = "read"
  /\ \/ code[current] /\ Threw
     \/ /\ ~code[current] /\ Holders(Sink(current, "fds")) = {}
        /\ stage' = "started"
        /\ Close(Importer, {Source(current, "fds")} \cup BoundEnds(current))
  /\ UNCHANGED <<windows, status, code, current>>

\* SetHandleInformation lets the bound ends be inherited, and no others.
InheritedEnds(r) == {Stdin(r), Stdout(r)}

\* throw_on_error::on_CreateProcess_error
CreateProcessFails == Threw /\ UNCHANGED status

\* CreateProcess: an error is known at once.
CreateProcess ==
  /\ windows /\ stage = "fork_setup"
  /\ \/ /\ held' = [held EXCEPT ![current] = InheritedEnds(current),
                               ![Importer] = @ \ BoundEnds(current)]
        /\ status' = [status EXCEPT ![current] = "running"]
        /\ stage' = "started"
     \/ CreateProcessFails
  /\ UNCHANGED <<windows, code, current>>

\* A process ends: the system closes its descriptors.
End(r, how) ==
  /\ status' = [status EXCEPT ![r] = how]
  /\ Close(r, held[r])
  /\ UNCHANGED <<windows, code, stage, current>>

Execute == CreateProcess \/ ForkSetup \/ Fork \/ ForkSuccess \/ ReadErrorCode

Child(r) == ExecSetup(r) \/ Execve(r) \/ ExecError(r)
=============================================================================
