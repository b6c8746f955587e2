----------------------------- MODULE ChangedPaths -----------------------------
(***************************************************************************)
(* What process_svn_changes (src/src/importer.cpp) collects from the       *)
(* changed paths of a revision: the SVN trees to convert, a PathSet, and   *)
(* the directory copies, an ordered map from the target of a copy to its   *)
(* source, in which record_merges looks up where a file comes from.  The   *)
(* changed paths come from a hash table, in any order.                     *)
(***************************************************************************)
EXTENDS PathSet

CONSTANTS
  Directories,  \* the directories that may be copied to
  Origins,      \* the directories they may be copied from
  Files,        \* the files of the revision; AllPaths are all that exist in it
  SvnRevs,      \* the revisions copied from
  NoCopy        \* returned when no copy is found

Source == [directory : Origins, revision : SvnRevs]

ASSUME CopyAssumption ==
  /\ Directories \subseteq AllPaths /\ Origins \subseteq Seq(Nat)
  /\ Files \subseteq AllPaths /\ Files \cap Directories = {}
  /\ NoCopy \notin Source

VARIABLE copies  \* svn_directory_copies: target -> source

changeVars == <<pathSet, copies>>

ChangesInit == Empty /\ copies = [d \in {} |-> NoCopy]

\* import_revision clears both for the next revision.
NextRevision == Clear /\ copies' = [d \in {} |-> NoCopy]

\* A changed path that exists in the revision, found by itself or because a
\* rule maps it.
ConvertPath(p) == Insert(p) /\ UNCHANGED copies

\* A directory copied in the revision: it is converted, and the last source of
\* a target is retained.
CopyDirectory(target, source) ==
  /\ Insert(target)
  /\ copies' = [d \in DOMAIN copies \cup {target} |->
                  IF d = target THEN source ELSE copies[d]]

ChangedPath ==
  \/ \E p \in AllPaths : ConvertPath(p)
  \/ \E target \in Directories, source \in Source : CopyDirectory(target, source)

-----------------------------------------------------------------------------
\* Mutant: the greatest target before the file is taken unseen.
FindCopyUnseen(file) ==
  LET before == {d \in DOMAIN copies : Less(d, file)}
  IN  IF before = {} THEN NoCopy
      ELSE CHOOSE d \in before : \A e \in before : ~Less(d, e)

\* The entry before lower_bound, if the file is below its target.
FindCopy(file) ==
  LET before == {d \in DOMAIN copies : Less(d, file)}
      last == CHOOSE d \in before : \A e \in before : ~Less(d, e)
  IN  IF before = {} \/ ~StartsWith(file, last) THEN NoCopy ELSE last

\* src_svn_path and src_revnum
SourceOf(file) ==
  LET target == FindCopy(file)
  IN  [path |-> copies[target].directory \o SansPrefix(file, target),
       revision |-> copies[target].revision]

-----------------------------------------------------------------------------
\* The source a file is attributed to is where it is in the origin of the
\* innermost copied directory around it: with nested copies in one revision,
\* and with siblings that sort next to it, it never comes from another copy.
InnermostCopy ==
  \A f \in Files : FindCopy(f) # NoCopy =>
    \E d \in DOMAIN copies :
      /\ StartsWith(f, d)
      /\ \A e \in DOMAIN copies : StartsWith(f, e) => StartsWith(d, e)
      /\ SourceOf(f) = [path |-> copies[d].directory \o SansPrefix(f, d),
                        revision |-> copies[d].revision]
=============================================================================
