-------------------------------- MODULE SvnPath --------------------------------
(***************************************************************************)
(* Paths: src/src/path.hpp.  A path is the sequence of its components and  *)
(* a component is a number; what matters of names is that they are         *)
(* ordered.  Leading and trailing slashes are gone when a path is made.    *)
(***************************************************************************)
EXTENDS Integers, Sequences, SequencesExt

\* operator<, which compares component by component.
Less(p, q) ==
  \/ IsStrictPrefix(p, q)
  \/ \E i \in 1..Len(p) : /\ i <= Len(q) /\ p[i] < q[i]
                          /\ \A j \in 1..(i - 1) : p[j] = q[j]

\* starts_with
StartsWith(p, prefix) == IsPrefix(prefix, p)

\* sans_prefix
SansPrefix(p, prefix) == SubSeq(p, Len(prefix) + 1, Len(p))
=============================================================================
