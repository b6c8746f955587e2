------------------------------- MODULE MCNested -------------------------------
(***************************************************************************)
(* A submodule whose super-module is itself a submodule.                   *)
(***************************************************************************)
EXTENDS MCPaths

CONSTANTS top, middle, lib, master

MCSuperModule == (lib :> middle) @@ (middle :> top) @@ (top :> NoRepo)
MCSvnFiles == {<<"top", "a">>, <<"middle", "a">>, <<"lib", "a">>}
MCSvnPaths == WithParents(MCSvnFiles)
MCWithin == Beneath(SvnPaths)
MCRules == {Always(<<"top">>, Ref(top, master)), Always(<<"middle">>, Ref(middle, master)),
            Always(<<"lib">>, Ref(lib, master))}
MCGitPath == PlacedAt([m \in Rules |-> Root])
MCFiles == {<<"a">>}
MCGitPaths == WithParents(MCFiles)
MCUnder == Containing([p \in Repos |-> Root])
MCChanges == {Write(s) : s \in SvnFiles} \cup {Delete(m.svn) : m \in Rules}
=============================================================================
