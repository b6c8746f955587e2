------------------------------ MODULE FastImport ------------------------------
(***************************************************************************)
(* The connections to the fast-import processes: git_fast_import and the   *)
(* constructor and destructor of importer (src/src/git_fast_import.cpp,    *)
(* src/src/importer.cpp).  The importer is one thread that blocks when a   *)
(* pipe is full, when it reads a reply and when it waits for a process to  *)
(* exit.  Each process reads its commands, answers ls, and exits at the    *)
(* end of its input.  It may also die; that is the fault considered here.  *)
(*                                                                         *)
(* What the commands mean is the subject of GitRepository.                 *)
(***************************************************************************)
EXTENDS Processes, Sequences, SequencesExt

CONSTANTS
  Capacity,    \* what a pipe holds
  MaxWritten,  \* bound: the commands written to each process
  MaxFaults    \* bound: the processes that die

ASSUME FastImportAssumption ==
  Capacity \in Nat \ {0} /\ MaxWritten \in [Repos -> Nat] /\ MaxFaults \in Nat

VARIABLES
  pc,         \* the place of the importer
  after,      \* where it goes on when a stream is flushed
  unwinding,  \* has the constructor of importer thrown?
  started,    \* the repositories in the order they were constructed
  buffer,     \* git_fast_import::cin: the commands not yet in the pipe
  outp, inp,  \* the commands and the number of replies in the pipes
  written,    \* history: the commands written to each process
  received,   \* history: the commands each process has read
  asked,      \* the repositories prepared to close their commit
  faults      \* history: the processes that have died

importVars == <<pc, after, unwinding, started, buffer, asked, written>>
pipeVars == <<outp, inp, received, faults>>
vars == <<procVars, importVars, pipeVars>>

Ended == {"returned", "killed", "aborted"}
Places == {"construct", "import", "flush", "readline", "closing", "close",
           "destroy", "wait"} \cup Ended

Init ==
  /\ ProcessesInit
  /\ pc = "construct" /\ after = "import" /\ unwinding = FALSE /\ started = << >>
  /\ buffer = [r \in Repos |-> << >>]
  /\ outp = [r \in Repos |-> << >>] /\ inp = [r \in Repos |-> 0]
  /\ written = [r \in Repos |-> 0] /\ received = [r \in Repos |-> 0]
  /\ asked = {} /\ faults = 0

-----------------------------------------------------------------------------
(* importer::importer                                                      *)

\* The importer is done with r when cout is closed.
Remaining == {r \in ToSet(started) : Source(r, "inp") \in held[Importer]}

\* Mutant: whether there is a connection to the repository is not looked up.
ConstructAgain(r) ==
  /\ pc = "construct" /\ CreatePipes(r)
  /\ UNCHANGED <<importVars, pipeVars>>

Construct(r) ==
  /\ pc = "construct" /\ r \notin ToSet(started) /\ CreatePipes(r)
  /\ UNCHANGED <<importVars, pipeVars>>

RunExecutor ==
  /\ pc = "construct" /\ Execute
  /\ UNCHANGED <<importVars, pipeVars>>

\* demand_repo has a new repository.
Demanded ==
  /\ pc = "construct" /\ stage = "started"
  /\ started' = Append(started, current)
  /\ stage' = "idle"
  /\ UNCHANGED <<windows, held, status, code, current, pc, after, unwinding, buffer, asked,
                 written, pipeVars>>

\* execute, git init or set_super_module throws: the repositories constructed
\* so far are destroyed, without the destructor of importer.
ConstructionFails ==
  /\ pc = "construct" /\ stage \in {"idle", "threw"}
  /\ pc' = "destroy" /\ unwinding' = TRUE /\ stage' = "idle"
  /\ UNCHANGED <<windows, held, status, code, current, after, started, buffer, asked, written, pipeVars>>

Constructed ==
  /\ pc = "construct" /\ stage = "idle" /\ ToSet(started) = Repos
  /\ pc' = "import"
  /\ UNCHANGED <<procVars, after, unwinding, started, buffer, asked, written, pipeVars>>

-----------------------------------------------------------------------------
(* Writing and reading                                                     *)

\* operator<<, write_raw: into the buffer of cin.
Write(r) ==
  /\ pc = "import" /\ r \notin asked /\ written[r] < MaxWritten[r]
  /\ buffer' = [buffer EXCEPT ![r] = Append(@, "command")]
  /\ written' = [written EXCEPT ![r] = @ + 1]
  /\ UNCHANGED <<procVars, pc, after, unwinding, started, asked, pipeVars>>

FlushThen(r, place) ==
  /\ current' = r /\ pc' = "flush" /\ after' = place
  /\ UNCHANGED <<windows, held, status, code, stage>>

\* The buffer is full whenever something is in it, for all this model says.
BufferFull(r) ==
  /\ pc = "import" /\ buffer[r] # << >>
  /\ FlushThen(r, "import")
  /\ UNCHANGED <<unwinding, started, buffer, asked, written, pipeVars>>

SendLs(r) ==
  /\ pc = "import" /\ r \notin asked /\ written[r] < MaxWritten[r]
  /\ buffer' = [buffer EXCEPT ![r] = Append(@, "ls")]
  /\ written' = [written EXCEPT ![r] = @ + 1]
  /\ asked' = asked \cup {r}
  /\ FlushThen(r, "import")
  /\ UNCHANGED <<unwinding, started, pipeVars>>

\* The kernel ends the importer, which does not handle SIGPIPE, or terminate()
\* does; or main returns.
ImporterEnds(how) ==
  /\ pc' = how
  /\ Close(Importer, held[Importer])
  /\ UNCHANGED <<windows, status, code, stage, current>>

\* Writing blocks while the pipe is full.  When nobody can read it, the importer
\* is killed by SIGPIPE, or on Windows the stream goes bad and writes nothing.
Flush ==
  /\ pc = "flush" /\ buffer[current] # << >>
  /\ \/ /\ Holders(Source(current, "outp")) = {}
        /\ IF windows THEN /\ buffer' = [buffer EXCEPT ![current] = << >>]
                           /\ UNCHANGED <<procVars, pc>>
           ELSE ImporterEnds("killed") /\ UNCHANGED buffer
        /\ UNCHANGED outp
     \/ /\ Holders(Source(current, "outp")) # {} /\ Len(outp[current]) < Capacity
        /\ outp' = [outp EXCEPT ![current] = Append(@, Head(buffer[current]))]
        /\ buffer' = [buffer EXCEPT ![current] = Tail(@)]
        /\ UNCHANGED <<procVars, pc>>
  /\ UNCHANGED <<after, unwinding, started, asked, written, inp, received, faults>>

Flushed ==
  /\ pc = "flush" /\ buffer[current] = << >>
  /\ pc' = after
  /\ UNCHANGED <<procVars, after, unwinding, started, buffer, asked, written, pipeVars>>

BeginReadline(r) ==
  /\ pc = "import" /\ r \in asked
  /\ pc' = "readline" /\ current' = r
  /\ UNCHANGED <<windows, held, status, code, stage, after, unwinding, started, buffer, asked,
                 written, pipeVars>>

\* readline returns a reply, or an empty string at the end of the stream, with
\* which close_commit goes on.
Readline ==
  /\ pc = "readline"
  /\ \/ inp[current] > 0 /\ inp' = [inp EXCEPT ![current] = @ - 1]
     \/ inp[current] = 0 /\ Holders(Sink(current, "inp")) = {} /\ UNCHANGED inp
  /\ asked' = asked \ {current}
  /\ pc' = "import"
  /\ UNCHANGED <<procVars, after, unwinding, started, buffer, written, outp, received, faults>>

-----------------------------------------------------------------------------
(* importer::~importer and git_fast_import::~git_fast_import               *)

\* The last revision is imported, or an exception leaves import_revision.
Finish ==
  /\ pc = "import"
  /\ pc' = "closing"
  /\ UNCHANGED <<procVars, after, unwinding, started, buffer, asked, written, pipeVars>>

StillOpen == {r \in Repos : Sink(r, "outp") \in held[Importer]}

\* Mutant: ~importer does not close the streams.
BeginCloseNone ==
  /\ pc = "closing"
  /\ pc' = "destroy" /\ UNCHANGED <<procVars, after>>
  /\ UNCHANGED <<unwinding, started, buffer, asked, written, pipeVars>>

\* Mutant: what is in the buffer is dropped.
BeginCloseUnflushed ==
  /\ pc = "closing"
  /\ \/ \E r \in StillOpen : /\ pc' = "close" /\ current' = r
                              /\ UNCHANGED <<windows, held, status, code, stage, after>>
     \/ StillOpen = {} /\ pc' = "destroy" /\ UNCHANGED <<procVars, after>>
  /\ UNCHANGED <<unwinding, started, buffer, asked, written, pipeVars>>

\* ~importer closes every stream before any process is waited for.
BeginClose ==
  /\ pc = "closing"
  /\ \/ \E r \in StillOpen : FlushThen(r, "close")
     \/ StillOpen = {} /\ pc' = "destroy" /\ UNCHANGED <<procVars, after>>
  /\ UNCHANGED <<unwinding, started, buffer, asked, written, pipeVars>>

\* close(): the stream has been flushed.
CloseStream ==
  /\ pc = "close"
  /\ Close(Importer, {Sink(current, "outp")})
  /\ pc' = IF unwinding THEN "wait" ELSE "closing"
  /\ UNCHANGED <<windows, status, code, stage, current, after, unwinding, started, buffer, asked,
                 written, pipeVars>>

\* The map destroys its repositories, in an order of its own.
Destroy(r) ==
  /\ pc = "destroy" /\ r \in Remaining
  /\ IF r \in StillOpen THEN FlushThen(r, "close")
     ELSE /\ pc' = "wait" /\ current' = r
          /\ UNCHANGED <<windows, held, status, code, stage, after>>
  /\ UNCHANGED <<unwinding, started, buffer, asked, written, pipeVars>>

\* WIFEXITED
Exited(r) == status[r] \in {"exited", "fatal"}

\* What wait_for_exit takes for an exit: on Windows, any end of the process.
HasExited(r) == Exited(r) \/ (windows /\ status[r] = "signaled")

\* wait_for_exit.  On POSIX the status of a process killed by a signal is not
\* taken for an exit and the second waitpid finds no child: the exception
\* leaves a destructor.
WaitForExit ==
  /\ pc = "wait"
  /\ \/ /\ HasExited(current)
        /\ pc' = "destroy"
        /\ Close(Importer, {Source(current, "inp")})
        /\ UNCHANGED <<windows, status, code, stage, current>>
     \/ ~windows /\ status[current] = "signaled" /\ ImporterEnds("aborted")
  /\ UNCHANGED <<after, unwinding, started, buffer, asked, written, pipeVars>>

Return ==
  /\ pc = "destroy" /\ Remaining = {}
  /\ ImporterEnds("returned")
  /\ UNCHANGED <<after, unwinding, started, buffer, asked, written, pipeVars>>

-----------------------------------------------------------------------------
(* git fast-import                                                         *)

\* A reply written to a pipe nobody reads kills the process.
ReadCommand(r) ==
  /\ status[r] = "running" /\ outp[r] # << >>
  /\ \/ /\ Head(outp[r]) = "ls" /\ Holders(Source(r, "inp")) = {}
        /\ End(r, IF windows THEN "fatal" ELSE "signaled")
        /\ UNCHANGED <<outp, inp, received>>
     \/ /\ Head(outp[r]) = "ls" => Holders(Source(r, "inp")) # {} /\ inp[r] < Capacity
        /\ outp' = [outp EXCEPT ![r] = Tail(@)]
        /\ inp' = IF Head(outp[r]) = "ls" THEN [inp EXCEPT ![r] = @ + 1] ELSE inp
        /\ received' = [received EXCEPT ![r] = @ + 1]
        /\ UNCHANGED procVars
  /\ UNCHANGED <<importVars, faults>>

\* The end of the input: fast-import writes the marks file and exits.
ReachEnd(r) ==
  /\ status[r] = "running" /\ outp[r] = << >> /\ Holders(Sink(r, "outp")) = {}
  /\ End(r, "exited")
  /\ UNCHANGED <<importVars, pipeVars>>

\* fast-import gives up, or a signal ends it.
Die(r) ==
  /\ status[r] = "running" /\ faults < MaxFaults
  /\ \E how \in {"fatal", "signaled"} : End(r, how)
  /\ faults' = faults + 1
  /\ UNCHANGED <<importVars, outp, inp, received>>

StartChild(r) == Child(r) /\ UNCHANGED <<importVars, pipeVars>>

ProcessStep(r) == StartChild(r) \/ ReadCommand(r) \/ ReachEnd(r)

ImporterStep ==
  \/ \E r \in Repos : Construct(r) \/ Write(r) \/ BufferFull(r) \/ SendLs(r)
                       \/ BeginReadline(r) \/ Destroy(r)
  \/ RunExecutor \/ Demanded \/ ConstructionFails \/ Constructed
  \/ Flush \/ Flushed \/ Readline \/ Finish
  \/ BeginClose \/ CloseStream \/ WaitForExit \/ Return

Next == ImporterStep \/ \E r \in Repos : ProcessStep(r) \/ Die(r)

Spec == Init /\ [][Next]_vars

FairSpec == Spec /\ WF_vars(ImporterStep) /\ \A r \in Repos : WF_vars(ProcessStep(r))
=============================================================================
