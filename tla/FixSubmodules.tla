----------------------------- MODULE FixSubmodules -----------------------------
(***************************************************************************)
(* fix-submodule-refs (src/src/fix-submodule-refs.cpp), the filter that    *)
(* fix_submodules.cmake puts between git fast-export and git fast-import.  *)
(* svn2git cannot know the hash of a submodule's commit, so it writes its  *)
(* mark; the filter replaces the marks by what the submodule's marks file  *)
(* says, and copies everything else.                                       *)
(*                                                                         *)
(* The stream is a sequence of units.  Outside of data a unit is a line;   *)
(* the k units after "data k" are bytes, whatever they look like.          *)
(***************************************************************************)
EXTENDS Integers, Sequences, FiniteSets, SequencesExt

CONSTANTS
  Repos,         \* the names of repositories; numbers, since they are ordered
  NoRepo,        \* no name
  Paths,         \* where submodules may be in their super-module
  Marks,         \* the marks of commits
  NotANumber,    \* what lexical_cast refuses in place of a mark
  Shas,          \* the hashes of commits
  Garbage,       \* what an uninitialized variable contains
  Buffer,        \* the size of buf
  Target,        \* --repo-name: the repository whose stream is rewritten
  Rulesets,      \* the rulesets: sequences of repository rules
  MarksFiles,    \* what a marks file may contain, a sequence of lines
  Streams        \* what fast-export may write, whole or cut off

RepoRule == [abstract : BOOLEAN, name : Repos, inRepo : Repos \cup {NoRepo}, path : Paths]

MarksLine == [colon : BOOLEAN, mark : Marks \cup {NotANumber}, sha : Shas, newline : BOOLEAN]

Gitlink == [kind : {"gitlink"}, mark : Marks \cup {NotANumber}, path : Paths]
Fixed == [kind : {"fixed"}, sha : Shas \cup {Garbage}, path : Paths]
DataHeader == [kind : {"data"}, length : Nat]
Line == [kind : {"line"}]

ASSUME FixAssumption ==
  /\ IsFiniteSet(Repos) /\ Repos \subseteq Nat /\ NoRepo \notin Repos /\ Target \in Repos
  /\ Marks \subseteq Nat /\ NotANumber \notin Marks /\ Garbage \notin Shas
  /\ Buffer \in Nat \ {0}
  /\ Rulesets \subseteq Seq(RepoRule)
  /\ MarksFiles \subseteq [Repos -> Seq(MarksLine)]
  /\ Streams \subseteq Seq(Gitlink \cup DataHeader \cup Line)

VARIABLES
  pc,          \* "rules", "marks", "stream", or how the program has ended
  rules,       \* the AST, in the order of parsing
  files,       \* the marks files
  stream,      \* what fast-export writes
  toRead,      \* the repositories whose marks files are not read to the end
  line,        \* the lines of the first one that are not read yet
  newline,     \* is there a newline in the variable of that name?
  mark2sha,    \* the mark_sha_map of each repository
  submodules,  \* SubmoduleMap: path -> repository
  in, out,     \* std::cin and std::cout
  length,      \* the bytes of data still to be copied
  pastEnd      \* history: has the end of a mark_sha_map been dereferenced?

inputs == <<rules, files, stream>>
marksVars == <<toRead, line, newline, mark2sha, submodules>>
streamVars == <<in, out, length, pastEnd>>
vars == <<pc, inputs, marksVars, streamVars>>

Init ==
  /\ pc = "rules"
  /\ rules \in Rulesets /\ files \in MarksFiles /\ stream \in Streams
  /\ toRead = {} /\ line = << >> /\ newline = FALSE
  /\ mark2sha = [r \in Repos |-> << >>]
  /\ submodules = [p \in {} |-> NoRepo]
  /\ in = stream /\ out = << >> /\ length = 0 /\ pastEnd = FALSE

-----------------------------------------------------------------------------
(* run: the repositories of the ruleset                                    *)

\* Mutant: a rule that says nothing about a super-module resets it.
RulesOfAny(r) == {i \in DOMAIN rules : rules[i].name = r}

\* Rules of one name are equal in the multiset: they keep the order of parsing.
RulesOf(r) == {i \in DOMAIN rules : rules[i].name = r /\ rules[i].inRepo # NoRepo}

\* The map is indexed by the name of every rule and of every super-module.
RepoStore == {rules[i].name : i \in DOMAIN rules} \cup ({rules[i].inRepo : i \in DOMAIN rules} \ {NoRepo})

\* submodule_in_repo, from the last rule that says something about it.
SubmoduleOf(r) == IF RulesOf(r) = {} THEN NoRepo ELSE rules[Max(RulesOf(r))].inRepo

PathOf(r) == rules[Max(RulesOf(r))].path

\* The submodules are visited in the order of their names.
Reading == Min(toRead)

OpenMarksFile(repos) ==
  /\ toRead' = repos
  /\ line' = IF repos = {} THEN << >> ELSE files[Min(repos)]
  /\ newline' \in BOOLEAN

\* The repository must be in the ruleset.
SelectSubmodules ==
  /\ pc = "rules"
  /\ IF Target \in RepoStore
     THEN /\ pc' = "marks"
          /\ OpenMarksFile({r \in RepoStore : SubmoduleOf(r) = Target})
     ELSE pc' = "failed" /\ UNCHANGED <<toRead, line, newline>>
  /\ UNCHANGED <<inputs, mark2sha, submodules, streamVars>>

-----------------------------------------------------------------------------
(* read_marks_file                                                         *)

\* Mutant: upper_bound in place of lower_bound.
FindShaAfter(list, mark) == Cardinality({i \in DOMAIN list : list[i].mark <= mark}) + 1

\* find_sha_pos: lower_bound in the sorted vector.
FindShaPos(list, mark) == Cardinality({i \in DOMAIN list : list[i].mark < mark}) + 1

IsMapped(list, mark) ==
  FindShaPos(list, mark) <= Len(list) /\ list[FindShaPos(list, mark)].mark = mark

\* The file ends here, or at a mark that is no number.
MarksFileEnds == IF line = << >> THEN TRUE ELSE Head(line).mark = NotANumber

NextMarksFile ==
  /\ pc = "marks" /\ toRead # {} /\ MarksFileEnds
  /\ submodules' = [p \in DOMAIN submodules \cup {PathOf(Reading)} |->
                      IF p = PathOf(Reading) THEN Reading ELSE submodules[p]]
  /\ OpenMarksFile(toRead \ {Reading})
  /\ UNCHANGED <<pc, inputs, mark2sha, streamVars>>

\* A mapping is inserted.  When the last line has no newline, the variable keeps
\* the one of the line before, or is not initialized.
ReadMark ==
  /\ pc = "marks" /\ toRead # {} /\ line # << >> /\ ~MarksFileEnds
  /\ LET l == Head(line)
         list == mark2sha[Reading]
         lf == l.newline \/ (Len(line) = 1 /\ newline)
     IN  IF l.colon /\ lf /\ ~IsMapped(list, l.mark)
         THEN /\ mark2sha' = [mark2sha EXCEPT ![Reading] =
                   InsertAt(@, FindShaPos(@, l.mark), [mark |-> l.mark, sha |-> l.sha])]
              /\ line' = Tail(line) /\ newline' = TRUE
              /\ UNCHANGED pc
         ELSE pc' = "failed" /\ UNCHANGED <<mark2sha, line, newline>>
  /\ UNCHANGED <<inputs, toRead, submodules, streamVars>>

\* The marks file of the next submodule cannot be opened.
MarksFileMissing ==
  /\ pc = "marks" /\ toRead # {} /\ line = files[Reading]
  /\ pc' = "failed"
  /\ UNCHANGED <<inputs, marksVars, streamVars>>

MarksRead ==
  /\ pc = "marks" /\ toRead = {}
  /\ pc' = "stream"
  /\ UNCHANGED <<inputs, marksVars, streamVars>>

-----------------------------------------------------------------------------
(* transform_import_stream                                                 *)

AtLine == pc = "stream" /\ length = 0 /\ in # << >>

WriteFixed(sha) ==
  /\ out' = Append(out, [kind |-> "fixed", sha |-> sha, path |-> Head(in).path])
  /\ in' = Tail(in)
  /\ UNCHANGED <<pc, length>>

\* An assertion or an exception, or an access outside of a vector.
StreamEnds(how) == pc' = how /\ UNCHANGED <<in, out, length>>

\* Mutant: the mark that is found is not compared.
SameMarkAny(entry, mark) == TRUE

SameMark(entry, mark) == entry.mark = mark

\* The end of the vector is dereferenced if the mark is behind the last one: what
\* is found there may be another mark, or this one, or nothing at all.
FixGitlink ==
  /\ AtLine /\ Head(in).kind = "gitlink"
  /\ LET l == Head(in)
         list == mark2sha[submodules[l.path]]
         pos == FindShaPos(list, l.mark)
     IN  \/ l.mark = NotANumber /\ StreamEnds("failed") /\ UNCHANGED pastEnd
         \/ /\ l.mark # NotANumber /\ l.path \notin DOMAIN submodules
            /\ StreamEnds("aborted") /\ UNCHANGED pastEnd
         \/ /\ l.mark # NotANumber /\ l.path \in DOMAIN submodules /\ pos <= Len(list)
            /\ IF SameMark(list[pos], l.mark) THEN WriteFixed(list[pos].sha) ELSE StreamEnds("failed")
            /\ UNCHANGED pastEnd
         \/ /\ l.mark # NotANumber /\ l.path \in DOMAIN submodules /\ pos > Len(list)
            /\ pastEnd' = TRUE
            /\ WriteFixed(Garbage) \/ StreamEnds("failed") \/ StreamEnds("crashed")
  /\ UNCHANGED <<inputs, marksVars>>

\* Mutant: data is read like lines.
CopyLineOnly ==
  /\ AtLine /\ Head(in).kind # "gitlink"
  /\ out' = Append(out, Head(in)) /\ in' = Tail(in)
  /\ UNCHANGED <<pc, inputs, marksVars, length, pastEnd>>

CopyLine ==
  /\ AtLine /\ Head(in).kind # "gitlink"
  /\ out' = Append(out, Head(in)) /\ in' = Tail(in)
  /\ length' = IF Head(in).kind = "data" THEN Head(in).length ELSE 0
  /\ UNCHANGED <<pc, inputs, marksVars, pastEnd>>

Smaller(m, n) == IF m < n THEN m ELSE n

\* num_to_read
Wanted == Smaller(length, Buffer)

\* What is read: as much as is wanted, or what is left of the stream.
BytesRead(wanted) == SubSeq(in, 1, Smaller(wanted, Len(in)))

\* A read that comes to the end leaves the rest of buf as it was; all of it is
\* written.
CopyData ==
  /\ pc = "stream" /\ length > 0
  /\ LET bytes == BytesRead(Wanted)
     IN  /\ out' = out \o bytes \o [i \in 1..(Wanted - Len(bytes)) |-> [kind |-> "garbage"]]
         /\ in' = SubSeq(in, Len(bytes) + 1, Len(in))
         /\ length' = length - Wanted
  /\ UNCHANGED <<pc, inputs, marksVars, pastEnd>>

\* getline fails; main returns 0.
Finish ==
  /\ pc = "stream" /\ length = 0 /\ in = << >>
  /\ pc' = "done"
  /\ UNCHANGED <<inputs, marksVars, streamVars>>

Ended == pc \in {"done", "failed", "aborted", "crashed"}

Next ==
  \/ SelectSubmodules \/ NextMarksFile \/ ReadMark \/ MarksFileMissing \/ MarksRead
  \/ FixGitlink \/ CopyLine \/ CopyData \/ Finish
  \/ Ended /\ UNCHANGED vars

Spec == Init /\ [][Next]_vars
=============================================================================
