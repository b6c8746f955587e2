----------------------------- MODULE MCSvnAccess -----------------------------
(***************************************************************************)
(* Directories that may be copied, one inside and one beside another, with *)
(* files that sort before and after them, a directory CVSROOT and a file   *)
(* of that name.                                                           *)
(***************************************************************************)
EXTENDS SvnAccessProperties

MCDirectories == {<<1>>, <<1, 2>>, <<2>>}
MCFiles == {<<1, 0>>, <<1, 3>>, <<1, 2, 0>>, <<1, 9, 0>>, <<2, 9>>}
MCPaths == MCFiles \cup MCDirectories \cup {<< >>, <<1, 9>>}
MCOrigins == {<<4>>, <<1>>}
=============================================================================
