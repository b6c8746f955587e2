----------------------- MODULE FixSubmodulesProperties -----------------------
(***************************************************************************)
(* What fix-submodule-refs promises about the stream it writes.            *)
(***************************************************************************)
EXTENDS FixSubmodules

StreamUnit == Gitlink \cup DataHeader \cup Line
Unit == StreamUnit \cup Fixed \cup [kind : {"garbage"}]

TypeOK ==
  /\ pc \in {"rules", "marks", "stream", "done", "failed", "aborted", "crashed"}
  /\ rules \in Rulesets /\ files \in MarksFiles /\ stream \in Streams
  /\ toRead \subseteq Repos /\ line \in Seq(MarksLine) /\ newline \in BOOLEAN
  /\ mark2sha \in [Repos -> Seq([mark : Marks, sha : Shas])]
  /\ DOMAIN submodules \subseteq Paths /\ \A p \in DOMAIN submodules : submodules[p] \in Repos
  /\ in \in Seq(StreamUnit) /\ out \in Seq(Unit)
  /\ length \in Nat /\ pastEnd \in BOOLEAN

-----------------------------------------------------------------------------
\* The lines of r's file that are read when it is read to its end.
MarksOf(r) ==
  LET stop == {i \in DOMAIN files[r] : files[r][i].mark = NotANumber}
  IN  {files[r][i] : i \in {j \in DOMAIN files[r] : \A k \in stop : j < k}}

\* The state is well typed; the marks of a submodule are in ascending order, each
\* once, and before the stream is touched they are those of its file, in whatever
\* order the file has them: lower_bound is right to rely on it, while inserting as
\* well as later.
MarksComplete ==
  /\ TypeOK
  /\ \A r \in Repos : \A i, j \in DOMAIN mark2sha[r] :
       i < j => mark2sha[r][i].mark < mark2sha[r][j].mark
  /\ pc = "stream" => \A p \in DOMAIN submodules :
       LET r == submodules[p]
       IN  {<<e.mark, e.sha>> : e \in ToSet(mark2sha[r])} = {<<l.mark, l.sha>> : l \in MarksOf(r)}

\* The bytes of data that are still to come after unit i of the stream.
BytesAfter[i \in 0..Len(stream)] ==
  IF i = 0 THEN 0
  ELSE IF BytesAfter[i - 1] > 0 THEN BytesAfter[i - 1] - 1
  ELSE IF stream[i].kind = "data" THEN stream[i].length ELSE 0

IsData(i) == BytesAfter[i - 1] > 0

\* u is what is written for unit i of the stream.
IsCopy(u, i) ==
  IF stream[i].kind = "gitlink" /\ ~IsData(i)
  THEN u.kind = "fixed" /\ u.path = stream[i].path
  ELSE u = stream[i]

\* Every unit is copied to its place, bytes that look like a submodule as well,
\* except that a line with a submodule gets the path it had and a hash; nothing
\* is lost before the program ends well, and only a stream that is cut off inside
\* of data is followed by anything else.
CopiedInPlace ==
  /\ \A i \in 1..Smaller(Len(out), Len(stream)) : IsCopy(out[i], i)
  /\ pc = "done" => Len(out) >= Len(stream)
  /\ Len(out) > Len(stream) => out[Len(stream) + 1].kind = "garbage" /\ in = << >>

-----------------------------------------------------------------------------
(* The super-modules svn2git has set (importer::importer and               *)
(* git_repository::set_super_module) for the same ruleset.                 *)

ImportedRules == {rule \in ToSet(rules) : ~rule.abstract}

\* "Conflicting super-module specifications", "Conflicting submodule path
\* declarations"
Conflict ==
  \E a, b \in ImportedRules :
    /\ a.name = b.name /\ NoRepo \notin {a.inRepo, b.inRepo}
    /\ a.inRepo # b.inRepo \/ a.path # b.path

\* svn2git skips abstract repositories and the filter does not.
Accepted == ~Conflict /\ \A i \in DOMAIN rules : rules[i].abstract => rules[i].inRepo = NoRepo

\* <<r, x>>: svn2git writes the commits of r at path x of the target.
SubmodulesOfTarget ==
  {<<rule.name, rule.path>> : rule \in {s \in ImportedRules : s.inRepo = Target}}

\* A ruleset svn2git accepts means the same for the filter, which tests nothing
\* and takes the last of several rules of a repository: it reads the marks of
\* repositories svn2git has made submodules, for every path where there is one.
SameSubmodules ==
  pc \in {"stream", "done"} /\ Accepted =>
    /\ \A x \in DOMAIN submodules : <<submodules[x], x>> \in SubmodulesOfTarget
    /\ \A s \in SubmodulesOfTarget : s[2] \in DOMAIN submodules

\* The hash written for a submodule is the one that the marks file of a repository
\* svn2git has made a submodule at that path has for the mark, whichever other
\* repositories have a commit of the same number; nothing can be said when an end
\* is dereferenced.
HashOfOwner ==
  Accepted /\ ~pastEnd =>
    \A i \in 1..Smaller(Len(out), Len(stream)) : out[i].kind = "fixed" =>
      \E s \in SubmodulesOfTarget : \E l \in MarksOf(s[1]) :
        s[2] = stream[i].path /\ l.mark = stream[i].mark /\ l.sha = out[i].sha

-----------------------------------------------------------------------------
(* The inductive invariant.                                                *)

\* The marks of r are those of the first k lines of its file.
Read(r, k) ==
  /\ {<<e.mark, e.sha>> : e \in ToSet(mark2sha[r])} =
       {<<files[r][i].mark, files[r][i].sha>> : i \in 1..k}
  /\ \A i \in 1..k : files[r][i].mark # NotANumber

ReadPartly(r) ==
  \E k \in 0..Len(files[r]) : Read(r, k) /\ line = SubSeq(files[r], k + 1, Len(files[r]))

ReadWhole(r) ==
  \E k \in 0..Len(files[r]) :
    Read(r, k) /\ (k < Len(files[r]) => files[r][k + 1].mark = NotANumber)

Ascending(list) == \A i, j \in DOMAIN list : i < j => list[i].mark < list[j].mark

\* Marks files are read one after the other, each line by line.
ReadInv ==
  /\ \A r \in Repos : Ascending(mark2sha[r])
  /\ pc = "rules" => toRead = {} /\ DOMAIN submodules = {} /\ \A r \in Repos : mark2sha[r] = << >>
  /\ pc = "marks" =>
       /\ \A r \in toRead : r # Reading => mark2sha[r] = << >>
       /\ \A x \in DOMAIN submodules : submodules[x] \notin toRead
       /\ toRead # {} => ReadPartly(Reading)
  /\ \A x \in DOMAIN submodules : ReadWhole(submodules[x])

\* They are those of the submodules of the target.
SelectInv ==
  /\ \A r \in toRead : SubmoduleOf(r) = Target
  /\ \A x \in DOMAIN submodules :
       SubmoduleOf(submodules[x]) = Target /\ PathOf(submodules[x]) = x
  /\ pc \in {"stream", "done"} => toRead = {}
  /\ pc \in {"marks", "stream", "done"} =>
       \A r \in Repos : SubmoduleOf(r) = Target => r \in toRead \/ PathOf(r) \in DOMAIN submodules

\* How much of the stream has been read.
Position == Len(stream) - Len(in)

\* While there is something left, as much has been written as read.
CopyInv ==
  /\ Len(in) <= Len(stream)
  /\ \A i \in 1..Len(in) : in[i] = stream[Position + i]
  /\ in # << >> => Len(out) = Position /\ length = BytesAfter[Position]
  /\ Len(out) >= Position
  /\ pc \in {"rules", "marks"} => out = << >>
  /\ CopiedInPlace

\* A hash that was written comes from the marks of the submodule at that path.
HashInv ==
  ~pastEnd => \A i \in 1..Smaller(Len(out), Len(stream)) : out[i].kind = "fixed" =>
    /\ stream[i].path \in DOMAIN submodules
    /\ \E e \in ToSet(mark2sha[submodules[stream[i].path]]) :
         e.mark = stream[i].mark /\ e.sha = out[i].sha

FixInv == TypeOK /\ ReadInv /\ SelectInv /\ CopyInv /\ HashInv
=============================================================================
