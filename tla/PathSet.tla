-------------------------------- MODULE PathSet --------------------------------
(***************************************************************************)
(* A set of paths that stand for everything below them:                    *)
(* src/src/path_set.hpp.  The importer keeps the SVN trees to convert and  *)
(* the Git paths to delete in such sets.                                   *)
(***************************************************************************)
EXTENDS SvnPath, FiniteSets

CONSTANTS
  Components,  \* the names of files and directories
  AllPaths     \* the paths that may be inserted

ASSUME PathAssumption ==
  /\ Components \subseteq Nat
  /\ IsFiniteSet(AllPaths) /\ AllPaths \subseteq Seq(Components)

VARIABLES
  paths,   \* the vector of paths
  covered  \* history: the paths at or below one inserted since clear()

pathSet == <<paths, covered>>

Empty == paths = << >> /\ covered = {}

LowerBound(p) == Min({i \in 1..Len(paths) : ~Less(paths[i], p)} \cup {Len(paths) + 1})

\* Mutant: the entry at the lower bound is tested in place of the one before.
HasParentNext(p) ==
  LowerBound(p) <= Len(paths) /\ StartsWith(p, paths[LowerBound(p)])

\* "See if a parent path is already in the set"
HasParent(p) ==
  LowerBound(p) > 1 /\ StartsWith(p, paths[LowerBound(p) - 1])

\* The end of "the range of paths in the set that p subsumes".
Finish(p) ==
  Min({i \in LowerBound(p)..Len(paths) : ~StartsWith(paths[i], p)} \cup {Len(paths) + 1})

\* insert: the paths from start to finish give way to p.
Insert(p) ==
  /\ paths' = IF HasParent(p) THEN paths
              ELSE SubSeq(paths, 1, LowerBound(p) - 1) \o <<p>>
                     \o SubSeq(paths, Finish(p), Len(paths))
  /\ covered' = covered \cup {q \in AllPaths : StartsWith(q, p)}

Clear == paths' = << >> /\ covered' = {}

-----------------------------------------------------------------------------
\* The vector is sorted and no path in it is below another one, so that every
\* path is deleted once and every SVN tree is converted once.
Antichain ==
  \A i, j \in 1..Len(paths) : i < j =>
    /\ Less(paths[i], paths[j])
    /\ ~StartsWith(paths[j], paths[i]) /\ ~StartsWith(paths[i], paths[j])

\* The set is minimal and covers exactly what was inserted: nothing is lost and
\* nothing added, although insert drops and replaces paths.  insert compares with
\* neighbours only, which is enough because nothing sorts between a path and
\* what is below it (the test's "a", "a/b" and "a.txt/bb").
MinimalCover ==
  /\ Antichain
  /\ covered = {q \in AllPaths : \E i \in 1..Len(paths) : StartsWith(q, paths[i])}
=============================================================================
