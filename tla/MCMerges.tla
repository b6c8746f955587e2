------------------------------- MODULE MCMerges -------------------------------
(***************************************************************************)
(* Two branches of one repository that are copied to each other, with a    *)
(* directory that exists in one of them only: it may be written within the *)
(* copy, or copied itself from what another repository has.  In revision 2  *)
(* a rule of its own moves that directory to the other branch, into the    *)
(* tree of that branch's rule; after it the other repository's rule expires. *)
(***************************************************************************)
EXTENDS MCPaths

CONSTANTS lib, other, master, develop

Trunk == <<"trunk">>
Develop == <<"develop">>
Inner == <<"develop", "in">>
Other == <<"other">>

MCSuperModule == (lib :> NoRepo) @@ (other :> NoRepo)
MCSvnFiles == {Append(Trunk, "a"), Append(Develop, "a"), Append(Inner, "b"), Append(Other, "b")}
MCSvnPaths == WithParents(MCSvnFiles \cup {<<"trunk", "in", "b">>})
MCWithin == Beneath(SvnPaths)
InnerRule == [svn |-> Inner, ref |-> Ref(lib, master), min |-> 2, max |-> MaxRev]
OtherRule == [svn |-> Other, ref |-> Ref(other, master), min |-> 1, max |-> 2]
MCRules == {Always(Trunk, Ref(lib, master)), Always(Develop, Ref(lib, develop)),
            InnerRule, OtherRule}
MCGitPath == PlacedAt([m \in Rules |-> IF m = InnerRule THEN <<"in">> ELSE Root])
MCFiles == {<<"a">>, <<"in", "b">>, <<"b">>}
MCGitPaths == WithParents(MCFiles)
MCUnder == Containing((lib :> Root) @@ (other :> Root))
MCChanges == {Write(s) : s \in SvnFiles \ {Append(Trunk, "a")}}
             \cup {Copy(Develop, Trunk), Copy(Trunk, Develop), Copy(Inner, Other)}
             \cup {Delete(p) : p \in {Develop, Inner, Other}} \cup {Write(Inner)}
=============================================================================
