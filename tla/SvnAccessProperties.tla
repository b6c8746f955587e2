------------------------- MODULE SvnAccessProperties -------------------------
(***************************************************************************)
(* What the functions that read the SVN repository must not get wrong: the *)
(* lifetime of pools, and which files a pass over the trees reaches.       *)
(***************************************************************************)
EXTENDS SvnAccess

Roots == {"opening", "changes", "merges", "convert"}
Walking == {"walk", "dir", "file"}
InCopy == {"svn_stream_copy3", "fast_import_raw_bytes"}
Functions == Roots \cup Walking \cup {"entries", "copying", "copied"} \cup InCopy

\* The variables that own pools.
Owners == {"rev.pool", "dir_pool", "scope", "none"}

\* The type invariant.
TypeOK ==
  /\ paths \in Seq(AllPaths) /\ covered \subseteq AllPaths
  /\ DOMAIN copies \subseteq Directories
  /\ stack \in Seq([fn : Functions, path : AllPaths \cup {<< >>}, pool : Seq(Owners),
                     own : Seq(Owners), todo : SUBSET AllPaths])
  /\ live \subseteq Seq(Owners)
  /\ phase \in {"out", "running", "throwing", "caught", "aborted"}
  /\ exception \in {"std", "other"}
  /\ visited \in [Files -> Nat]

-----------------------------------------------------------------------------
\* Every pool that a running function uses exists, those that exist are owned
\* by a running function, whichever way others were left, and no exception
\* passes through a function of Subversion (apr_pool.hpp:24-73, importer.cpp:
\* 327-373, 402-473).
PoolsInScope ==
  /\ \A i \in DOMAIN stack : stack[i].pool \in live
  /\ live = IF phase = "out" THEN {}
            ELSE {Global} \cup ({stack[i].own : i \in DOMAIN stack} \ {NoPool})
  /\ phase = "throwing" /\ stack # << >> => Top.fn # "svn_stream_copy3"

InCvsRoot(f) == \E i \in 2 .. Len(f) - 1 : f[i] = CvsRoot

\* At the end of a pass each file at or below a path that was inserted has been
\* reached exactly once, however the paths overlapped, and no other file was;
\* what CVS kept to itself is left out (importer.cpp:268-270, 327-373).
EachFileOnce ==
  Running("convert") /\ Top.todo = {} =>
    visited = [f \in Files |-> IF f \in covered /\ ~InCvsRoot(f) THEN 1 ELSE 0]

-----------------------------------------------------------------------------
(* An inductive invariant from which the properties of this module follow. *)

\* The pools of the directories on the way to a frame, and that of a file.
Dirs(k) == [j \in 1..k |-> IF j = 1 THEN "rev.pool" ELSE "dir_pool"]
Scope == Subpool(Revision, "scope")

\* A revision at the bottom, then the directories being read, then a file and the
\* functions called while it is copied, and nothing else: so that the pools of every
\* frame are known from its place.
Placed(s, i) ==
  LET fn == s[i].fn
  IN  /\ fn \in Roots <=> i = 1
      /\ i < Len(s) => fn \in {"merges", "convert", "entries", "copied", "svn_stream_copy3"}
      /\ fn \notin InCopy => \A j \in 2..(i - 1) : s[j].fn = "entries"
      /\ fn = "svn_stream_copy3" => s[i - 1].fn = "copied"
      /\ fn = "fast_import_raw_bytes" => s[i - 1].fn = "svn_stream_copy3"
      /\ s[i].pool = IF i = 1 THEN Revision ELSE IF fn \in InCopy THEN Scope ELSE Dirs(i - 1)
      /\ s[i].own = IF i = 1 \/ fn = "entries" THEN Dirs(i)
                    ELSE IF fn \in {"copying", "copied"} THEN Scope ELSE NoPool

WellNested(s) == \A i \in 1..Len(s) : Placed(s, i)

StackInv == WellNested(stack) /\ (stack # << >> => phase \in {"running", "throwing"})

\* What a frame has still to reach, and what all do.
Pending(frame) ==
  CASE frame.fn \in {"convert", "entries"} -> frame.todo
    [] frame.fn \in Walking -> {frame.path}
    [] OTHER -> {}

Open(s) == UNION {Pending(s[i]) : i \in 1..Len(s)}

\* No path is still to be reached from two frames.
Disjoint(s) ==
  \A i, j \in 1..Len(s) : i # j => Pending(s[i]) \cap Pending(s[j]) = {}

\* While some paths are still to be reached, none of them below another one, the
\* files that are below none of them have been reached, once.
Reached(open, reached) ==
  /\ open \subseteq covered
  /\ \A p, q \in open : StartsWith(p, q) => p = q
  /\ reached = [f \in Files |->
       IF f \in covered /\ ~InCvsRoot(f) /\ ~ \E p \in open : StartsWith(f, p) THEN 1 ELSE 0]

\* The paths that CheckPath has told apart.
TopChecked(top) ==
  /\ top.fn = "file" => top.path \in Files /\ ~InCvsRoot(top.path)
  /\ top.fn = "dir" => top.path \notin Files

Converting == phase = "running" /\ stack # << >> /\ Head(stack).fn = "convert"

WalkInv == Converting => Disjoint(stack) /\ Reached(Open(stack), visited) /\ TopChecked(Top)

AccessInv == TypeOK /\ MinimalCover /\ StackInv /\ PoolsInScope /\ WalkInv
=============================================================================
