------------------------------ MODULE MCSiblings ------------------------------
(***************************************************************************)
(* Two libraries that are submodules of one super-project, on one branch.  *)
(* The super-project keeps a file next to the first submodule, from an SVN *)
(* directory of its own.                                                   *)
(***************************************************************************)
EXTENDS MCPaths

CONSTANTS boost, lib1, lib2, master

MCSuperModule == (lib1 :> boost) @@ (lib2 :> boost) @@ (boost :> NoRepo)
MCSvnFiles == {<<"lib1", "a">>, <<"lib2", "a">>, <<"boost", "libs", "b">>}
MCSvnPaths == WithParents(MCSvnFiles)
MCWithin == Beneath(SvnPaths)
MCRules == {Always(<<"lib1">>, Ref(lib1, master)), Always(<<"lib2">>, Ref(lib2, master)),
            Always(<<"boost">>, Ref(boost, master))}
MCGitPath == PlacedAt([m \in Rules |-> Root])
MCFiles == {<<"a">>, <<"libs", "b">>}
MCGitPaths == WithParents(MCFiles)
MCUnder == Containing((lib1 :> <<"libs", "lib1">>) @@ (lib2 :> <<"lib2">>) @@ (boost :> Root))
MCChanges == {Write(s) : s \in SvnFiles}
             \cup {Delete(p) : p \in {<<"lib1">>, <<"lib2">>, <<"boost">>, <<"boost", "libs">>}}
=============================================================================
