-------------------------- MODULE FastImportProperties --------------------------
(***************************************************************************)
(* What the connections to the fast-import processes promise.              *)
(***************************************************************************)
EXTENDS FastImport

Commands == {"command", "ls"}

ProcessesTypeOK ==
  /\ windows \in BOOLEAN
  /\ held \in [Procs -> SUBSET PipeEnd]
  /\ status \in [Repos -> Statuses]
  /\ code \in [Repos -> BOOLEAN]
  /\ stage \in Stages /\ current \in Repos

ImportTypeOK ==
  /\ pc \in Places /\ after \in {"import", "close"} /\ unwinding \in BOOLEAN
  /\ started \in Seq(Repos) /\ IsInjective(started)
  /\ buffer \in [Repos -> Seq(Commands)]
  /\ written \in [Repos -> Nat] /\ asked \subseteq Repos

PipesTypeOK ==
  /\ outp \in [Repos -> {s \in Seq(Commands) : Len(s) <= Capacity}]
  /\ inp \in [Repos -> 0..Capacity]
  /\ received \in [Repos -> Nat] /\ faults \in 0..MaxFaults

TypeOK == ProcessesTypeOK /\ ImportTypeOK /\ PipesTypeOK

-----------------------------------------------------------------------------
\* Only a process itself holds the ends it was given for standard input and
\* output, whatever the processes started later inherit.  This is why its death
\* is seen: writing to it ends the importer instead of blocking it for ever,
\* and reading from it returns.
DeathIsSeen ==
  \A r \in ToSet(started) :
    Holders(Source(r, "outp")) \cup Holders(Sink(r, "inp")) \subseteq {r}

\* The other end of a process's input is held, besides the importer, only by
\* processes that were started later, never by itself: close_fd(outp.sink) and
\* the copies inherited by fork.  So nobody waits for the end of its own input,
\* and the processes come to their end in the opposite order of their start.
HeldByLater ==
  \A i, j \in 1..Len(started) :
    started[j] \in Holders(Sink(started[i], "outp")) => i < j

\* A repository is constructed only when git runs for it: the error pipe tells
\* the importer of a failed execve although the child holds the pipe as well.
StartedRuns ==
  \A r \in ToSet(started) : status[r] \notin {"none", "forked", "setup", "failed"}

\* A process that comes to the end of its input, where it writes its marks, has
\* read everything the importer wrote to it, whatever was in buffers when the
\* streams were closed, unless SIGPIPE ended the importer before.
EverythingRead ==
  pc # "killed" => \A r \in Repos : status[r] = "exited" => received[r] = written[r]

-----------------------------------------------------------------------------
(* An inductive invariant from which the first three properties follow.    *)

\* Was r constructed before q, if q is constructed?
ConstructedBefore(r, q) ==
  \E i \in DOMAIN started : /\ started[i] = r
                            /\ \A j \in DOMAIN started : started[j] = q => i < j

\* A process holds ends of its own pipes and of repositories constructed before,
\* the importer of the constructed ones and the one it is constructing.
Inherited ==
  /\ \A q \in Repos : \A e \in held[q] : e.repo = q \/ ConstructedBefore(e.repo, q)
  /\ pc = "construct" /\ stage # "threw" =>
       \A e \in held[Importer] :
         e.repo \in ToSet(started) \/ (stage # "idle" /\ e.repo = current)

\* How far the process under construction has come, and what it holds then.
Constructing ==
  /\ pc # "construct" => stage = "idle"
  /\ stage \notin {"idle", "threw"} => current \notin ToSet(started)
  /\ stage = "fork" => Sink(current, "fds") \in held[Importer]
  /\ stage \in {"fork_success", "read"} => status[current] # "none"
  /\ stage = "started" =>
       /\ status[current] \notin {"none", "forked", "setup", "failed"}
       /\ BoundEnds(current) \cap held[Importer] = {}
  /\ \A r \in Repos :
       /\ status[r] \in {"forked", "setup"} => Sink(r, "fds") \in held[r]
       /\ status[r] = "failed" => code[r]
       /\ status[r] \notin {"none", "forked"} => Sink(r, "outp") \notin held[r]

ConnectionInv == TypeOK /\ Inherited /\ Constructing /\ DeathIsSeen /\ HeldByLater /\ StartedRuns

-----------------------------------------------------------------------------
(* What more is needed for EverythingRead.                                 *)

\* A process keeps its standard input while it lives, and the importer the other
\* end from the moment it makes the pipes until it closes the stream.
InputHeld ==
  /\ \A r \in Repos : status[r] \in Alive => Stdin(r) \in held[r]
  /\ stage \in {"fork_setup", "fork"} => Stdin(current) \in held[Importer]
  /\ pc = "construct" =>
       /\ ~unwinding /\ ToSet(started) \subseteq StillOpen
       /\ stage \notin {"idle", "threw"} => current \in StillOpen
       /\ \A r \in Repos \ ToSet(started) :
            r # current \/ stage \in {"idle", "fork_setup", "fork"} => status[r] = "none"
  /\ pc # "construct" /\ ~unwinding => ToSet(started) = Repos
  /\ pc \in {"import", "readline"} \/ (pc = "flush" /\ after = "import") =>
       StillOpen = Repos /\ ~unwinding
  /\ pc = "closing" => ~unwinding
  /\ pc \in {"destroy", "wait"} /\ ~unwinding => StillOpen = {}

\* What is written is in the buffer of an open stream, in the pipe or read, unless
\* the process has died; at its regular exit it has seen the end of the stream.
NothingLost ==
  /\ \A r \in Repos : status[r] \notin {"fatal", "signaled"} =>
       written[r] = received[r] + Len(outp[r]) + Len(buffer[r])
  /\ \A r \in Repos : buffer[r] # << >> => r \in StillOpen \/ pc = "killed"
  /\ \A r \in Repos : status[r] = "exited" => r \notin StillOpen /\ outp[r] = << >>
  /\ pc = "close" => buffer[current] = << >>
  /\ pc = "construct" \/ unwinding => \A r \in Repos : buffer[r] = << >>

StreamsInv == ConnectionInv /\ InputHeld /\ NothingLost

-----------------------------------------------------------------------------
\* On POSIX, repositories constructed in part are destroyed in the opposite order
\* of their construction.
InReverse ==
  pc = "wait" /\ unwinding /\ ~windows => current = Last(SelectSeq(started, LAMBDA r : r \in Remaining))

\* svn2git never hangs, whatever dies and whatever a pipe holds, except that an
\* exception in the constructor of importer must meet repositories destroyed in
\* the opposite order of their construction (the note in git_fast_import.cpp:41
\* and the comment of ~importer say so).  On Windows not even that is needed.
Terminates == []InReverse => <>(pc \in Ended)

\* However svn2git ends, killed or aborted as well, no process it started is
\* left waiting for input.
NoneLeftBehind == (pc \in Ended) ~> (\A r \in Repos : status[r] \notin Alive)
=============================================================================
