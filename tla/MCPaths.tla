------------------------------- MODULE MCPaths --------------------------------
(***************************************************************************)
(* Paths as sequences of components, for the instances of Importer.        *)
(***************************************************************************)
EXTENDS ImporterProperties, TLC
LOCAL INSTANCE SequencesExt

Root == << >>

\* The given paths and the directories above them.
WithParents(P) == UNION {{SubSeq(p, 1, n) : n \in 0..Len(p)} : p \in P}

Beneath(P) == [p \in P |-> {q \in P : IsPrefix(p, q)}]

Suffix(p, dir) == SubSeq(p, Len(dir) + 1, Len(p))

PathMoved(p, from, to) == to \o Suffix(p, from)

\* Where each rule places what is below its SVN path, the Git path of the rule
\* itself being given.
PlacedAt(git) ==
  [m \in Rules |-> [p \in SvnPaths |->
     IF IsPrefix(m.svn, p) THEN git[m] \o Suffix(p, m.svn) ELSE Root]]

\* What a path in a Git tree contains, with submodules at the given paths.
Containing(link) ==
  [p \in Paths |-> {f \in Files : IsPrefix(p, f)} \cup {q \in Repos : IsPrefix(p, link[q])}]

\* What git_subtree_rules finds for a rule: if its Git path is empty the rules of
\* the same address, and else, unless two rules part right after a slash, nothing.
SameAddress ==
  [m \in Rules |-> {q \in Rules : q.ref = m.ref /\ Root = GitPath[m][m.svn]
                                                /\ Root = GitPath[q][q.svn]}]

NothingFound == [p \in SvnPaths |-> {}]

Ref(p, n) == [repo |-> p, name |-> n]
Always(svnPath, r) == [svn |-> svnPath, ref |-> r, min |-> 1, max |-> MaxRev]
Write(p) == [path |-> p, kind |-> "write", from |-> p]
Delete(p) == [path |-> p, kind |-> "delete", from |-> p]
Copy(p, from) == [path |-> p, kind |-> "copy", from |-> from]
=============================================================================
