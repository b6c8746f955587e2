--------------------------- MODULE RevisionCommits ---------------------------
(***************************************************************************)
(* What Phase II of import_revision promises, without passes, repositories *)
(* or open commits: in every SVN revision a set of refs is marked for      *)
(* modification, a marked submodule ref always together with its           *)
(* super-module ref; then every marked ref is committed exactly once, a    *)
(* super-module ref only when no submodule ref of it is left; and the      *)
(* revision ends when nothing is pending.  Once the first commit may be    *)
(* made nothing is marked any more, so no ref is committed twice.          *)
(***************************************************************************)
EXTENDS Naturals

CONSTANTS
  Refs, NoRef,
  SuperOf,    \* Refs -> Refs \cup {NoRef}
  MaxRev

VARIABLES
  stage,      \* "idle", "marking" or "committing"
  revision,   \* the revision being, or last, imported
  pending     \* the refs marked and not yet committed

vars == <<stage, revision, pending>>

Init == stage = "idle" /\ revision = 0 /\ pending = {}

Start ==
  /\ stage = "idle" /\ revision < MaxRev
  /\ stage' = "marking" /\ revision' = revision + 1
  /\ UNCHANGED pending

Mark ==
  /\ stage = "marking"
  /\ \E R \in SUBSET Refs : pending' = pending \cup R
  /\ \A r \in pending' : SuperOf[r] \in pending' \cup {NoRef}
  /\ UNCHANGED <<stage, revision>>

AllMarked ==
  /\ stage = "marking" /\ stage' = "committing"
  /\ UNCHANGED <<revision, pending>>

Commit(r) ==
  /\ stage = "committing" /\ r \in pending
  /\ \A q \in pending : SuperOf[q] # r
  /\ pending' = pending \ {r}
  /\ UNCHANGED <<stage, revision>>

Finish ==
  /\ stage = "committing" /\ pending = {}
  /\ stage' = "idle"
  /\ UNCHANGED <<revision, pending>>

Next == Start \/ Mark \/ AllMarked \/ (\E r \in Refs : Commit(r)) \/ Finish

Spec == Init /\ [][Next]_vars
=============================================================================
