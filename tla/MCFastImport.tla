----------------------------- MODULE MCFastImport -----------------------------
(***************************************************************************)
(* Three processes started and stopped in every order; more than a pipe    *)
(* holds is written to one of them, and nothing to the others.             *)
(***************************************************************************)
EXTENDS FastImportProperties

CONSTANTS r1, r2, r3

MCRepos == {r1, r2, r3}
MCMaxWritten == (r1 :> 2) @@ (r2 :> 0) @@ (r3 :> 0)
=============================================================================
