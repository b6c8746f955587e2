-------------------------------- MODULE MCFlat --------------------------------
(***************************************************************************)
(* A library that is a submodule of a super-project, with two branches     *)
(* below one SVN directory that no rule maps.  The super-project keeps a   *)
(* file of its own next to the submodule.                                  *)
(***************************************************************************)
EXTENDS MCPaths

CONSTANTS boost, lib, master, develop

MCTrunk == <<"lib", "trunk">>
MCDevelop == <<"lib", "develop">>
MCBoost == <<"boost">>
MCLibs == <<"boost", "libs">>

MCSuperModule == (lib :> boost) @@ (boost :> NoRepo)
MCSvnFiles == {Append(MCTrunk, "a"), Append(MCDevelop, "a"), Append(MCLibs, "b")}
MCSvnPaths == WithParents(MCSvnFiles)
MCRules == {Always(MCTrunk, Ref(lib, master)), Always(MCDevelop, Ref(lib, develop)),
            Always(MCBoost, Ref(boost, master))}
MCGitPath == PlacedAt([m \in Rules |-> Root])
MCFiles == {<<"a">>, <<"libs", "b">>}
MCGitPaths == WithParents(MCFiles)
MCUnder == Containing((lib :> <<"libs", "lib">>) @@ (boost :> Root))
MCChanges == {Write(s) : s \in SvnFiles}
             \cup {Delete(p) : p \in {MCTrunk, MCBoost, MCLibs, <<"lib">>}}
MCWithin == Beneath(SvnPaths)
=============================================================================
