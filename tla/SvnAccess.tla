------------------------------- MODULE SvnAccess -------------------------------
(***************************************************************************)
(* How an import reads the SVN repository: src/src/svn.cpp, apr_pool.hpp   *)
(* and for_each_svn_file of src/src/importer.cpp.  What Subversion returns *)
(* lives in APR pools, which are destroyed with their parents; each is     *)
(* owned by an AprPool of a function that is running, and functions are    *)
(* left by exceptions at any call.  The revision walks the directories     *)
(* copied in it and then, once for every pass, the trees to convert.       *)
(*                                                                         *)
(* Symbolic links and nodes of unknown kind do not occur.                  *)
(***************************************************************************)
EXTENDS ChangedPaths

CONSTANT CvsRoot  \* the name CVSROOT

\* What exists below a directory is in it, and nothing is below a file.
ASSUME SvnTreeAssumption ==
  /\ CvsRoot \in Nat
  /\ \A p \in AllPaths : \A n \in 0..Len(p) : SubSeq(p, 1, n) \in AllPaths
  /\ \A f \in Files, p \in AllPaths : StartsWith(p, f) => p = f

VARIABLES
  stack,     \* the functions that are running, from import_revision on
  live,      \* the pools that exist
  phase,     \* of the process
  exception, \* what is thrown: an std::exception or another one
  visited    \* history: how often each file was reached in this pass

svnVars == <<stack, live, phase, exception, visited>>
vars == <<changeVars, svnVars>>

\* A pool is known by the variables that own it and the pools around it.
Global == << >>
Subpool(pool, owner) == Append(pool, owner)
Revision == Subpool(Global, "rev.pool")
NoPool == <<"none">>

\* A function uses a pool, may own one, and has names left to go through.
Frame(fn, path, pool, own, todo) ==
  [fn |-> fn, path |-> path, pool |-> pool, own |-> own, todo |-> todo]

Top == Last(stack)
Running(fn) == phase = "running" /\ stack # << >> /\ Top.fn = fn

\* svn_pool_destroy destroys what is below the pool, too.
Destroyed(pool) == {q \in live : pool # NoPool /\ IsPrefix(pool, q)}

Push(frame) == stack' = Append(stack, frame)
Become(frame) == stack' = Append(Front(stack), frame)

\* A function is left, by return or by an exception.
Leave == stack' = Front(stack) /\ live' = live \ Destroyed(Top.own)

\* check_svn: the call has failed.
CheckSvn == phase' = "throwing" /\ exception' = "std"

\* A call of SVN succeeds or fails; svn::call throws when it has failed.
Succeeds == UNCHANGED <<phase, exception>>
Call == Succeeds \/ CheckSvn

Unreached == [f \in Files |-> 0]

Init ==
  /\ ChangesInit
  /\ stack = << >> /\ live = {} /\ phase = "out" /\ exception = "std"
  /\ visited = Unreached

-----------------------------------------------------------------------------
(* The repository and its revisions.                                       *)

\* apr_initialize and global_pool before main; svn::svn opens the repository.
OpenRepository ==
  /\ phase = "out"
  /\ live' = {Global}
  /\ \/ phase' = "running" /\ UNCHANGED exception
     \/ CheckSvn
  /\ UNCHANGED <<changeVars, stack, visited>>

\* The importer, with what it has collected, and the static objects are
\* destroyed in the opposite order.
Terminate ==
  /\ \/ phase = "running" /\ stack = << >>
     \/ phase = "caught"
  /\ phase' = "out" /\ live' = {}
  /\ NextRevision /\ visited' = Unreached
  /\ UNCHANGED <<stack, exception>>

\* svn::revision::revision has its pool before it calls anything.
OpenRevision ==
  /\ phase = "running" /\ stack = << >>
  /\ Push(Frame("opening", << >>, Revision, Revision, {}))
  /\ live' = live \cup {Revision}
  /\ UNCHANGED <<changeVars, phase, exception, visited>>

\* Its root and properties, and the author: one that is not mapped is thrown.
ReadProperties ==
  /\ Running("opening")
  /\ \/ /\ Become([Top EXCEPT !.fn = "changes"])
        /\ NextRevision
        /\ Succeeds
     \/ CheckSvn /\ UNCHANGED <<changeVars, stack>>
  /\ UNCHANGED <<live, visited>>

\* process_svn_changes and the rules in transition.
Change ==
  /\ Running("changes")
  /\ \/ ChangedPath /\ Succeeds
     \/ CheckSvn /\ UNCHANGED changeVars
  /\ UNCHANGED <<stack, live, visited>>

BeginMerges ==
  /\ Running("changes")
  /\ Become([Top EXCEPT !.fn = "merges", !.todo = DOMAIN copies])
  /\ visited' = Unreached
  /\ UNCHANGED <<changeVars, live, phase, exception>>

\* The first pass, or another one.
BeginPass ==
  /\ Running("merges") \/ Running("convert")
  /\ Top.todo = {}
  /\ Become([Top EXCEPT !.fn = "convert", !.todo = ToSet(paths)])
  /\ visited' = Unreached
  /\ UNCHANGED <<changeVars, live, phase, exception>>

EndRevision ==
  /\ Running("convert") /\ Top.todo = {}
  /\ Leave
  /\ UNCHANGED <<changeVars, phase, exception, visited>>

-----------------------------------------------------------------------------
(* for_each_svn_file                                                       *)

Walk(path, pool) ==
  stack' = Append(Append(Front(stack), [Top EXCEPT !.todo = @ \ {path}]),
                  Frame("walk", path, pool, NoPool, {}))

\* The targets of the copies, or the trees to convert, in their order.
WalkTree ==
  /\ Running("merges") \/ Running("convert")
  /\ \E root \in Top.todo :
       /\ \A other \in Top.todo : ~Less(other, root)
       /\ Walk(root, Revision)
  /\ UNCHANGED <<changeVars, live, phase, exception, visited>>

\* Mutant: the slash after CVSROOT is not required.
AtOrBelowCvsRoot(path) == \E i \in 2 .. Len(path) : path[i] = CvsRoot

\* The path contains "/CVSROOT/"; it does not begin or end with a slash.
BelowCvsRoot(path) == \E i \in 2 .. Len(path) - 1 : path[i] = CvsRoot

Entries(path) == {p \in AllPaths : p # << >> /\ Front(p) = path}

CheckPath ==
  /\ Running("walk")
  /\ IF BelowCvsRoot(Top.path)
       THEN Leave /\ Succeeds
       ELSE /\ Become([Top EXCEPT !.fn = IF Top.path \in Files THEN "file" ELSE "dir"])
            /\ Call
            /\ UNCHANGED live
  /\ UNCHANGED <<changeVars, visited>>

\* dir_pool, and the entries in it.
ReadDirectory ==
  /\ Running("dir")
  /\ LET pool == Subpool(Top.pool, "dir_pool")
         frame == [Top EXCEPT !.fn = "entries", !.own = pool, !.todo = Entries(Top.path)]
     IN  /\ live' = live \cup {pool}
         /\ Become(frame)
         /\ Call
  /\ UNCHANGED <<changeVars, visited>>

\* The entries come from a hash table.
NextEntry ==
  /\ Running("entries")
  /\ \E path \in Top.todo : Walk(path, Top.own)
  /\ UNCHANGED <<changeVars, live, phase, exception, visited>>

EndDirectory ==
  /\ Running("entries") /\ Top.todo = {}
  /\ Leave
  /\ UNCHANGED <<changeVars, phase, exception, visited>>

-----------------------------------------------------------------------------
(* The function called for each file: record_merges or convert_svn_file.   *)

\* record_merges, or a file that is not of the ref being written.
SkipFile ==
  /\ Running("file")
  /\ visited' = [visited EXCEPT ![Top.path] = @ + 1]
  /\ Leave
  /\ UNCHANGED <<changeVars, phase, exception>>

\* The properties and the length of the file, then scope and its contents.
OpenFile ==
  /\ Running("file") /\ Head(stack).fn = "convert"
  /\ visited' = [visited EXCEPT ![Top.path] = @ + 1]
  /\ LET scope == Subpool(Revision, "scope") IN
       \/ CheckSvn /\ UNCHANGED <<stack, live>>
       \/ /\ live' = live \cup {scope}
          /\ Become([Top EXCEPT !.fn = "copying", !.own = scope])
          /\ Call
  /\ UNCHANGED changeVars

\* svn_stream_copy3, a C function, which calls fast_import_raw_bytes.
CopyStream ==
  /\ Running("copying")
  /\ stack' = Append(Append(Front(stack), [Top EXCEPT !.fn = "copied"]),
                     Frame("svn_stream_copy3", Top.path, Top.own, NoPool, {}))
  /\ UNCHANGED <<changeVars, live, phase, exception, visited>>

ReadBytes ==
  /\ Running("svn_stream_copy3")
  /\ Push(Frame("fast_import_raw_bytes", Top.path, Top.pool, NoPool, {}))
  /\ UNCHANGED <<changeVars, live, phase, exception, visited>>

\* write_raw returns, or throws something.
WriteBytes ==
  /\ Running("fast_import_raw_bytes")
  /\ \/ Leave /\ Succeeds
     \/ /\ phase' = "throwing" /\ exception' \in {"std", "other"}
        /\ UNCHANGED <<stack, live>>
  /\ UNCHANGED <<changeVars, visited>>

\* Mutant: no catch (...).
CaughtAsErrorStd == {"std"}
CaughtAsError == {"std", "other"}

\* fast_import_raw_bytes makes an SVN error of an exception; svn_stream_copy3
\* returns it and check_svn throws it.
CatchInCallback ==
  /\ phase = "throwing" /\ stack # << >> /\ Top.fn = "fast_import_raw_bytes"
  /\ exception \in CaughtAsError
  /\ stack' = Front(Front(stack))
  /\ CheckSvn
  /\ UNCHANGED <<changeVars, live, visited>>

\* The stream has ended, or cannot be read.
EndCopy ==
  /\ Running("svn_stream_copy3")
  /\ Leave
  /\ Call
  /\ UNCHANGED <<changeVars, visited>>

EndFile ==
  /\ Running("copied")
  /\ Leave
  /\ UNCHANGED <<changeVars, phase, exception, visited>>

\* An exception leaves a function, and is caught in main.
Unwind ==
  /\ phase = "throwing"
  /\ IF stack = << >>
       THEN /\ phase' = IF exception = "std" THEN "caught" ELSE "aborted"
            /\ UNCHANGED <<stack, live>>
       ELSE /\ Top.fn = "fast_import_raw_bytes" => exception \notin CaughtAsError
            /\ Leave
            /\ UNCHANGED phase
  /\ UNCHANGED <<changeVars, exception, visited>>

Next ==
  \/ OpenRepository \/ Terminate
  \/ OpenRevision \/ ReadProperties \/ Change \/ BeginMerges \/ BeginPass \/ EndRevision
  \/ WalkTree \/ CheckPath \/ ReadDirectory \/ NextEntry \/ EndDirectory
  \/ SkipFile \/ OpenFile \/ CopyStream \/ ReadBytes \/ WriteBytes \/ CatchInCallback
  \/ EndCopy \/ EndFile \/ Unwind

Spec == Init /\ [][Next]_vars

=============================================================================
