# Formal models of Boost2Git

Boost2Git converts one Subversion repository into many Git repositories, some
of which are submodules of others. `svn2git` reads a file of rules, starts one
`git fast-import` process per Git repository, and imports one SVN revision
after the other, in one thread. A build around it rewrites the submodule
references of the super-project, cleans the repositories up and pushes them.
This directory holds TLA+ models of that program and of that build, the TLC
configurations that check them on small instances, and proofs that TLAPS checks
for every instance.

## 1. The system

Sources are in `src/src/` unless they are named in full.

| Part | Source | State | Operations | Modelled |
|---|---|---|---|---|
| Git repositories and refs | `git_repository.*` | per repository: modified refs, open commit, last mark; per ref: marks, merges, pending deletions, submodule refs and counts, head tree | `modify_ref`, `record_ancestor`, `open_commit`, `write_merges`, `prepare_to_close_commit`, `close_commit`, `set_super_module` | yes |
| Revision importer | `importer.*` | SVN trees to convert, changed repositories, directory copies, the pass | `import_revision` and what it calls | partly: no changes of properties only |
| Rule trie | `patrie.hpp`, `rule.hpp` | two radix trees of rules, the transition map | `insert`, `longest_match`, `git_subtree_rules`, `svn_subtree_rules`, `rules_in_transition` | yes |
| Paths and path sets | `path.hpp`, `path_set.hpp` | a sorted vector of paths | order, prefixes, `insert`, `clear` | yes |
| Directory copies | `importer.*` | a map from target to source | recording, lookup by `record_merges` | partly: no warning about copies between repositories |
| fast-import connection | `git_fast_import.*`, `importer.*` | two pipes and a process per repository | construction, commands, `ls` and its reply, closing, waiting | yes |
| SVN access | `svn.*`, `apr_*`, `svn_error.hpp`, `importer.*` | pools; the revision being read | opening, properties, changed paths, the walk over a tree, contents | yes |
| Rules file parser | `parse_rules.*`, `AST.hpp` | the AST | blocks and their clauses | partly: from clauses on |
| Ruleset construction | `ruleset.*`, `AST.hpp` | rules per repository | inheritance, clipping, insertion, errors | yes |
| Coverage of rules | `coverage.*` | declared and matched pairs | `declare`, `match`, the report's selection | yes |
| Log, authors | `log.*`, `authors.*` | a count of errors; a map | errors and exit status; exceptions | partly |
| Main loop | `main.cpp`, `options.hpp` | the revision, the exit status | from the ruleset to the exit status | partly: no `--resume-from` |
| Submodule fixer | `fix-submodule-refs.cpp`, `mark_sha_map.hpp` | the marks of each submodule, the stream | reading of marks files, rewriting of the stream | yes |
| Build and scripts | `src/CMakeLists.txt`, `src/*.cmake`, `src/post-conversion-cleanup` | working directory, stamp, push targets, hosts | clean, convert, fix, clean up, push | partly |
| Boost.Process | `boost_process/` | descriptors, processes | what `git_fast_import` uses of it, on both systems | partly |
| Branch validation, header overrides | `validate_branch.cpp`, `override_headers/` | | | no |

**How they interact.** `main` builds a `Ruleset`, whose trie is read-only from
then on, and an `importer`, which builds every `git_repository` and its
fast-import process. `import_revision` asks SVN what changed and the trie where
it maps to; it marks refs (`modify_ref`, which also marks the super-module's
ref), paths to delete and SVN trees to convert. Then it makes passes over those
trees. In every pass each changed repository has one open commit; the files of
other refs are skipped and left for a later pass. A repository's replies come
through a pipe: the request (`ls`) is sent by `prepare_to_close_commit`, the
reply is read by `close_commit` in a later loop. What a run leaves in the
working directory - repositories, marks files, an exit status - is all that the
fixer, the scripts and the next run know of it.

**What is hard.** `svn2git` has one thread; what is concurrent are the processes
it starts. Most of the difficulty is in long sequences of legal calls on several
objects:

- three operations in two repositories keep the count of a super-module's
  submodule refs; it must neither close early (old gitlinks) nor wait forever;
- a commit is written before it is known whether it changes anything, and has
  to be taken back together with everything that was made to depend on it;
- requests and replies of each process have to stay in step;
- the order of refs is the order of addresses, of SVN changes that of a hash;
- a pass works on a copy of a set that the pass itself enlarges;
- the trie, the path set and the marks rely on an order in which neighbours are
  compared instead of all entries;
- every child process inherits the pipes of those started before it, so that a
  stream ends only when several processes have closed it;
- calls fail in the middle of other functions, some of which are C;
- processes die, builds are interrupted and pushes refused, and the next build
  starts from what is there.

`PROJECT.json` lists these hazards at the lines where they bite, with the
properties that would show them, and those no property covers, with the reason.

## 2. Modules

| Module | What it is | Source |
|---|---|---|
| `GitRepository` | the state of all repositories and refs, the operations on them, and the part of fast-import they rely on | `git_repository.*` |
| `Importer` | EXTENDS it: `import_revision`, one action per iteration of each of its loops | `importer.cpp` |
| `RevisionCommits` | the abstract specification: a set of refs is marked, then each is committed exactly once, super-modules last | |
| `ImporterProperties` | properties, the inductive invariants and the refinement mapping | |
| `ImporterProofs`, `TreeProofs` | theorems: the loops of a revision, the refinement, what a revision leaves behind, marks and histories; and, EXTENDing it, trees, links and merges | |
| `RuleTrie`, `RuleTrieProperties`, `RuleTrieProofs` | the rule trie, what looking up must achieve, theorems | `patrie.hpp`, `rule.hpp`, `importer.cpp` |
| `RulesFile`, `Ruleset`, `RulesetProperties`, `RulesetProofs` | from the blocks of a rules file to the rules in the trie, the super-modules and the coverage report; EXTENDS `RuleTrie`; properties; theorems | `parse_rules.cpp`, `AST.hpp`, `ruleset.cpp`, `coverage.cpp` |
| `SvnPath`, `PathSet` | order and prefixes of paths; the path set with its property | `path.hpp`, `path_set.hpp` |
| `ChangedPaths` | EXTENDS it: the trees to convert and the directory copies a revision collects, and the lookup of copies | `importer.cpp` |
| `SvnAccess`, `SvnAccessProperties`, `SvnProofs` | EXTENDS it: a revision read from SVN, pools, errors, the walk over the collected trees; properties; theorems, also those on `PathSet` and `ChangedPaths` | `svn.cpp`, `apr_pool.hpp`, `importer.cpp` |
| `Processes` | starting a process, and who holds which end of which pipe | `boost_process/` |
| `FastImport`, `FastImportProperties`, `FastImportProofs` | EXTENDS it: the connections with their pipes, buffers, replies, deaths and their end; properties; theorems | `git_fast_import.*`, `importer.cpp` |
| `FixSubmodules`, `FixSubmodulesProperties`, `FixSubmodulesProofs` | the filter that puts hashes in place of marks; properties; theorems | `fix-submodule-refs.cpp`, `mark_sha_map.hpp` |
| `Svn2git` | one run of `main` after the other in one working directory | `main.cpp`, `log.cpp`, `authors.cpp`, `git_repository.cpp` |
| `Conversion`, `ConversionProperties`, `ConversionProofs` | EXTENDS it: the build, its faults, the hosts; properties; theorems | `CMakeLists.txt`, `*.cmake`, `post-conversion-cleanup` |
| `MC*` | constants for TLC | |

**GitRepository.** A ref is a record `[repo, name]`; its super-module ref has
the same name in `SuperModule[repo]`. Fields of `git_repository` and of `ref`
are functions over repositories and refs with the names of the code. Pointers
compare by address, so "the last element of a `flat_set` of refs" is any of
them. A mark is a number; `marks[r][v] = 0` says that there is none. What
fast-import keeps is in separate variables: the tree of each branch, the marks
reachable from it, the finished commits and the replies not yet read. A tree
says which content each file has, which commit each gitlink names, what
`.gitmodules` lists and whether `.gitattributes` is there. A tree stands for its
own sha (shas are taken to be free of collisions), and `NoTree` for the empty
string a ref holds before its first commit.

**Importer.** `phase` is the place in `import_revision`; the sets `repoWork` and
`fileWork` are what the current loop has not reached. Phase I is on SVN paths:
`Within[p]` are the paths at or below `p`, a rule has an SVN path, a ref and the
revisions it is in force, and `GitPath[m][p]` is where it places a path below its own.
`Match` is `match_svn_path`, `Transition` the rules in transition.
`ProcessChange` is one turn of the loop over the changed paths: it deletes the Git path
of the matched rule, if there is one, and converts the changed SVN path and no other;
the rules that `svn_subtree_rules` finds go to `invalid` and are taken before the next
change. `InvalidateRule` deletes the tree of such a rule, or of one in transition,
and converts its SVN path and those of the rules found in its Git tree. What the two
lookups in the trie of Git addresses find is given by `SvnSubtree` and `GitSubtree`; the
proofs leave them arbitrary. In the instances `svn_subtree_rules` finds nothing, as
`SvnSubtreesFindNothing` proves, and `git_subtree_rules` finds the rules at the same address or none
(`SubtreeOfRule`). `DiscoverMerge` is one file of `discover_merges`, with the rule that
maps the path it was copied from; a copy inside another one may hide that from it
(`HiddenFrom`, as in `ChangedPaths`).

`BeginRevision` chooses what SVN contains next and what it reports: any set of writes,
deletions and copies, of files and directories, at, above and between the mapped trees,
that explains the new contents (`Reported`: external, from the documentation of
`svn_fs_paths_changed2` as the code uses it). A copy brings files under paths that
its source may not have had in a mapped ref. No revision has two files at one place of
a branch (`OnePerPlace`), since nothing decides which of them is written last. `astray`
is a history variable: the places that a revision has not brought up to date because
nothing in the code leads to them (`Missed`); it is computed from the report and the
rules, before any action of the importer. The loops of the code run in a fixed
order; the model takes the elements of each in any order, which covers the hash and
address orders. `--gitattributes` is given or not (`GitAttributes`). A file without a
rule is skipped, as in a build without assertions (`importer.cpp:524-529`).

**RuleTrie.** A node is known by the text on the way from the root, so a radix
tree is a function from texts to lists of rules. Splitting a node adds the text
at which the paths part. Texts are sequences of characters, because where a
match ends inside a component is what the properties are about.

**RulesFile and Ruleset.** A file is a sequence of blocks with their clauses in
the order of the text; a clause is well formed inside, except that its list may
be empty. `ParseRepository` is one turn of the grammar's loop, and the end of
parsing leaves the rest of the file unread, as `phrase_parse` does. `Collect`
visits the next rule of the multiset with all its bases: the recursion of
`collect_rule_components` is a function over its depth, and `equal_range` is its two
bounds. `InsertMatch` is one turn of the insertion loop and uses the trie's own
`Insert`; `SkipMatch` is a turn for a branch that is never in force in its repository.
`SetSuperModule` is what the constructor of `importer` does with the result, and
`Lookup` a `longest_match` with the coverage it counts. Names of repositories are
numbers (only their order matters), names of refs and super-modules are constants.

**ChangedPaths and SvnAccess.** A path is the sequence of its components, and a
component a number, since only the order of names matters. The vector of a path
set is a sequence with the positions `insert` computes. `covered` is a history
variable: what was inserted since the set was cleared. `SvnAccess` has a stack
of the functions that are running; a frame says which pool the function uses and
which it owns. A pool is the sequence of its owners, so destroying one destroys
what it is a prefix of. Every call of SVN succeeds or throws; an exception
leaves one function in each step (`Unwind`).

**Processes and FastImport.** `held[p]` are the pipe ends process `p` has
descriptors of; `fork` copies the importer's, `execve` closes those marked for
it, and Windows gives a child only the bound ones. The actions of the executor
are the calls of the initializers in their order, the child running beside the
importer. A pipe holds `Capacity` commands, the stream buffer any number and is
flushed at any time. An importer that writes to a pipe without readers is killed
by SIGPIPE on POSIX; on Windows its stream goes bad.

**FixSubmodules.** Outside of data, a unit of the stream is a line; inside it is
a byte, which may look like anything. The variables of `read_marks_file` that
outlive a line (`newline`) are kept, with any value before the first line. What
is found past the end of a vector is any entry at all.

**Svn2git and Conversion.** An edition is a version of the rules and authors
files; what it makes the run throw or report is given by constants. `branches`
says which imports a repository's branches come from: `--force` overwrites the
branches a run has written and leaves others. `stamp`, `configured` and `fixup`
are what the build keeps on disk. `MainStep` is `svn2git` as a target of the
build. Two models meet here only by what they say: that a process saves what it
got (`ProcessesEnd`) is what `FastImport` shows, that a revision is whole what
`Importer` shows.

## 3. What each part has to achieve, and the runs

| Run | Instance | Properties |
|---|---|---|
| `flat` | 1 super-module, 1 submodule with 2 branches below a directory no rule maps, 3 files, 2 revisions | passes find their commits (`PassFindsCommit`); replies answer the commit being closed (`LsInStep`); each revision leaves gitlinks fresh (`LinksFresh`) and nothing pending (`NothingLeftOver`); `RevisionCommits` is implemented (`KeepsPromise`) |
| `siblings` | 1 super-module, 2 submodules, 1 branch, 2 revisions, with fairness | the inductive invariant of trees and links, which contains those of marks and of counts (`TreesInv`); `.gitattributes` survives deletions (`AttributesKept`); only repeated trees are dropped (`DropsOnlyRepeats`); every revision completes (`RevisionCompletes`) |
| `merges` | 2 repositories, one with 2 branches, 4 rules: one comes into force below another and into the tree of a third, one expires; 3 revisions, copies both ways and from the other repository, one inside the other | a merge has a finished source where SVN had a file for it (`MergeSourceFound`), and no commit thrown away is an ancestor (`AncestorsSurvive`); what earlier revisions committed is final (`PastIsFinal`); each revision leaves Git equal to SVN, but for the places in `astray` (`Mirror`) |
| `nested` | a submodule in a submodule, 2 revisions, with fairness | every revision ends, some by the guard on passes (`RevisionEnds`) |
| `rules` | up to 4 of 15 rules in any order | the shape of both tries and what is at their nodes (`TrieInv`, with `RadixTree`), longest match (`MatchIsLongest`), subtrees (`SubtreeSound`, `SubtreeOfRule`), rules in transition (`TransitionsComplete`) |
| `ruleset` | every file of up to 3 of 12 blocks | a ruleset is exactly what the file says (`RulesComplete`), a legal file is accepted in any order (`LegalAccepted`), repeated super-modules agree (`SuperModulesAgree`), the coverage report names the right rules (`CoverageSound`) |
| `paths` | 10 paths, 3 directories that may be copied from 2 places, 5 files, a directory and a file named CVSROOT | the trees to convert are sorted, minimal and cover what was inserted (`MinimalCover`); the innermost copy is found (`InnermostCopy`); pools live as long as the functions that use them (`PoolsInScope`); each pass reaches each file once (`EachFileOnce`) |
| `processes` | 3 processes, POSIX and Windows, one death anywhere, with fairness | who holds which end of which pipe and where written commands are (`StreamsInv`); a death is seen (`DeathIsSeen`); a process that exits has read everything (`EverythingRead`); `svn2git` ends (`Terminates`) and so do its children (`NoneLeftBehind`) |
| `fixrefs` | 12 rulesets, 39 pairs of marks files, 84 streams | the marks are those of the file (`MarksComplete`); units stay in place (`CopiedInPlace`); each hash is that of the owner's mark (`HashOfOwner`); the filter and `svn2git` agree on submodules (`SameSubmodules`) |
| `conversion` | 2 repositories, 2 revisions, 7 editions, 3 builds, 2 faults, 1 edit, with fairness | exit status 0 means a whole import (`ExitStatusHonest`); only whole imports are pushed (`PushesWhole`); after a build all hosts agree (`HostsAgree`); a good build succeeds after whatever happened before (`Recovers`) |

Two runs show where the code does something other than what its own comments or
assertions say. Each is a finding in `PROJECT.json`.

| Run | Statement refuted | What the code does |
|---|---|---|
| `nested_assert` | the assertion at `git_repository.cpp:180` | only the direct super-module is scheduled (`importer.cpp:66`); the next one up is left over and disturbs a later revision |
| `unmapped` | `importer.cpp:145-147` | the deletion of a directory above mapped trees leaves their files in Git; the rules below it are looked up among Git addresses (`patrie.hpp:121`), where there is nothing to find |

**Bounds, and why they are enough.**

- Importer. `MaxRev` (2 or 3): one revision creates, the next changes, deletes, or
  repeats; merges need a third, after a copy has been merged. `Contents = {1}`: a
  file is there or not; changes of content act like creation after deletion.
  `MaxChanges` bounds the changed paths of one revision; three reach every ref of
  an instance at once. `PassLimit` stands for 5000 and is above what the flat
  instances need, so that giving up is not what ends a revision there:
  `RevisionCompletes` would fail otherwise. In `merges` three revisions are one
  before a rule comes into force, one in which it does and one in which another has
  expired; two changes let one delete or copy what the other writes.
- Rules. The ranges in `rules` follow each other, overlap and contain each other,
  and their paths part inside components and at their ends; `Forever = 4` leaves
  room for a revision before, between and after. The blocks of `ruleset` have
  bases near, far, twice, missing and in a circle, repositories in several blocks
  with and without conflicts, empty lists, ranges that do not meet, and text after
  the last repository; `MaxRules = 16` is never reached, or the run would report a
  deadlock.
- Paths. The files sort before and after the directories in whose neighbourhood
  they are; one directory is inside another and one beside it, and a
  target may be copied to twice.
- Processes. Three, because an end is inherited by later processes only, and the
  order of destruction matters from two on; a pipe of one command blocks after
  one, the largest number written is two. `MaxFaults = 1` is for deaths while
  running; every failing call of the system is possible in addition.
- Fixer. The buffer holds 2 bytes, data have 2 or 3; marks below, between and
  above those in the files.
- Conversion. `MaxBuilds = 3`: one leaves something behind, one meets it, one is
  good. The editions are rejected as ruleset, rejected as authors file, throw in
  a revision, report an error, are sound with and without a second repository, or
  cannot be cleaned up.

`CHECK_DEADLOCK FALSE` stands in the run `rules`, where a ruleset
is complete some day, in `processes`, where `svn2git` has ended at last, and in
`conversion`, where nobody has to start another build. Elsewhere deadlock is
checked, and where a model may end an explicit step says so.

**Fairness.** `FairSpec` of `Importer` adds weak fairness of `Next` as a whole. The
program is one thread that waits for nothing there but fast-import's reply, which
`FastImport` is about; so a step that is possible is taken, and no order among the
steps is assumed. `FairSpec` of `FastImport` has weak fairness of the importer's
thread and of each process, because the operating system runs all of them; none
has to die. `FairSpec` of `Conversion` has weak fairness of `BuildStep` only: a
build that runs goes on; nobody has to start, edit, configure or interrupt one.

**What the properties excuse.** `Mirror` leaves out two kinds of places (`astray`). At
one a file is gone in SVN, or has moved to a longer rule, but the rule that placed it
there stays in force and is not the rule of any changed path at or above it
(`LeftBehind`); `unmapped` shows one. At the other a file has not changed but is inside
of a Git tree that is deleted for another path, because another rule maps into it
(`Overlaid`). Both are defined by the
report of SVN and the rules, and not by what the importer has done. `MergeSourceFound` is about source
refs for which SVN had a file by then (`HadFile`); for others the warning of
`write_merges` (`git_repository.cpp:207-213`) is right. `Terminates` is about executions in which
repositories constructed in part are destroyed in the opposite order of their
construction (`InReverse`); the code leaves that order to a hash map, and in
another order an exception in the constructor of `importer` makes `svn2git` wait
for a process whose input a later one still holds. `ExitStatusHonest` and
`PushesWhole` except a process that died after its last command was piped, since
nobody looks at its exit status (`git_fast_import.cpp:46`); `PushesWhole` and
`Recovers` except builds during which the rules are edited, as the scripts read the
rules again; `Recovers` excepts a directory that was made when `git init` did not
succeed (`git_repository.cpp:35`). `MatchIsLongest` and `SubtreeOfRule` are about
rules of one place that are in force at different times. `HashOfOwner` excepts a
mark past the end of the marks (`pastEnd`), and where two submodules are at one path
it says only that the hash is from one of them.

**Mutants.** Every property of every passing run has a mutant: an operator next
to the definition it replaces, that changes it as a plausible bug would, and
with which TLC finds the property violated.

**Seen while modelling.** These are in the models as the code has them, and no
property says that they are right or wrong, because the repository does not:

- a merge in a commit that is dropped stays in `merged_revisions`, and is not
  tried again (`git_repository.cpp:160-166, 215`);
- a file that a longer rule takes over stays where the shorter rule had placed it too
  (`importer.cpp:219-221`, `LeftBehind`), and a file that another rule maps into a Git tree
  that is deleted is lost until it changes (`importer.cpp:150-157`, `Overlaid`);
- `invalidate_svn_tree` looks the address of a rule up with a slash, or the colon of the
  ref, at its end (`importer.cpp:98-102`); where no node ends there, the rules mapped into
  the deleted tree are not found and not converted again, which lines 95-96 say they are
  (`SubtreeOfRule` says when);
- rules of one path whose ranges overlap are refused or accepted by the order of
  their ends (`patrie.hpp:239-245`);
- with nested copies a file of the outer one that sorts behind the inner one finds
  none (`importer.cpp:482`);
- `report_overlap` reads content rules that may be null (`ruleset.cpp:138`);
- what follows the last repository of a rules file is not looked at
  (`parse_rules.cpp:131`);
- a mark greater than all others is compared with the entry past the end
  (`fix-submodule-refs.cpp:101`);
- `--dry-run` creates the bare repositories; the results of `git init` and of
  changing to its directory are not looked at; `--exit-success` does not cover
  exceptions; `--resume-from N` begins with `N + 1` (`main.cpp:161`);
- `post-conversion-cleanup` stops when no branch is merged, as `xargs` calls `git
  branch -d` without a name and the shell runs with `-e`;
- changes that only edit properties are skipped (`importer.cpp:140`), so a change
  of `svn:executable` alone is not converted;
- a path `CVSROOT` at the top is not left out, because SVN paths are compared
  without a leading slash.

## 4. Proofs

`ImporterProofs` and `TreeProofs` prove, for every finite set of
repositories and names, every set of files, paths and changes, and every number of
revisions:

| Theorem | Says |
|---|---|
| `TypeCorrect` | `Spec => []TypeOK`, also with nested super-modules |
| `SafetyInvariant` | `FlatSubmodules => (Spec => []SafetyInv)` |
| `CountsCorrect` | the counts of submodule refs are right, so that the assertion of `close_commit` holds |
| `PassesCorrect` | every pass finds a ref to open and a commit to close |
| `RepliesCorrect` | each reply read answers the commit being closed |
| `PromiseKept` | the importer implements `RevisionCommits` |
| `RevisionInvariant` | `SafetyInv` with pending work, marks, head trees and histories (`RevisionInv`) |
| `RevisionLeavesNothing` | after a revision nothing is pending (`NothingLeftOver`) |
| `AncestorsRecorded` | no commit thrown away is an ancestor (`AncestorsSurvive`) |
| `OnlyRepeatsDropped` | the assertion at `git_repository.cpp:164` (`DropsOnlyRepeats`) |
| `PastKept` | no step changes what earlier revisions committed (`PastIsFinal`) |
| `TreesInvariant` | `RevisionInv` with trees, attributes, links and sources of copies (`TreesInv`), for any rules, changes and answers of the subtree lookups |
| `TreesMirrorSvn` | after a revision Git is equal to SVN at every place that is not astray (`Mirror`) |
| `AttributesPresent` | and every branch has its `.gitattributes` (`AttributesKept`) |
| `SubmodulesLinked` | and gitlinks and `.gitmodules` are fresh (`LinksFresh`) |
| `MergesHaveSources` | every pending merge from a ref that had a file has a finished source (`MergeSourceFound`) |

`FastImportProofs` proves, for every finite set of repositories, every capacity of
a pipe, every number of commands and of deaths, on both systems:

| Theorem | Says |
|---|---|
| `ConnectionInvariant` | `Spec => []ConnectionInv`: types, who holds which end, how far the process under construction has come |
| `DeathSeen` | nobody but a process itself holds the ends it reads from and writes to |
| `ExecutionSeen` | a repository is constructed only when its process has been executed |
| `StreamsInvariant` | `Spec => []StreamsInv`: what is written to a living process is in the buffer, in the pipe or read |
| `AllCommandsRead` | a process that comes to the end of its input has read everything (`EverythingRead`) |

`SvnProofs` proves, for every finite tree of paths, every choice of directories,
copies and files, and any number of revisions:

| Theorem | Says |
|---|---|
| `AccessInvariant` | `Spec => []AccessInv`: types, the stack with its pools, the set of paths, what a pass has reached |
| `PathSetMinimal` | the set of paths is sorted, minimal and covers what was inserted (`MinimalCover`) |
| `CopiesInnermost` | a copy that is found is the innermost one (`InnermostCopy`) |
| `PoolsSafe` | pools live as long as the functions that use them (`PoolsInScope`) |
| `FilesOnce` | each pass reaches each file once (`EachFileOnce`) |

`ConversionProofs` proves, for every finite number of builds, edits and faults, every
set of repositories, rules, hosts and revisions:

| Theorem | Says |
|---|---|
| `ConversionInvariant` | `FairSpec => []ConversionInv`: types, the processes of a run, errors, editions, what was converted, what was pushed |
| `ExitsHonestly` | an exit with 0 means that everything was imported and nothing reported (`ExitStatusHonest`) |
| `WholePushes` | what is pushed is one whole import with one edition of the rules (`PushesWhole`) |
| `AllHostsAgree` | after a build that succeeds every host has what the working directory has (`HostsAgree`) |

`FixSubmodulesProofs` proves, for all rulesets, marks files and streams, whole or cut
off, and every size of the buffer:

| Theorem | Says |
|---|---|
| `FixInvariant` | `Spec => []FixInv`: types, how far marks files are read, which submodules are selected, how far the stream is copied, where hashes come from |
| `MarksAreComplete` | the marks of a submodule are in ascending order and those of its file (`MarksComplete`) |
| `CopiesInPlace` | every unit is copied to its place (`CopiedInPlace`) |
| `SubmodulesAgree` | the filter has the submodules svn2git has (`SameSubmodules`) |
| `HashesOfOwners` | a hash is the one its owner's marks file has for the mark (`HashOfOwner`) |

`RuleTrieProofs` proves, for every set of rules and paths, every number of rules
inserted in any order, and every last revision:

| Theorem | Says |
|---|---|
| `TrieInvariant` | `Spec => []TrieInv`: types, the shape of both tries, every rule at the node of its text, the transitions |
| `TreesAreRadixTrees` | the part of it on the shape (`RadixTree`) |
| `TransitionsAreComplete` | rules in transition are those that come into force or expire (`TransitionsComplete`) |
| `LongestMatchIsRight` | `longest_match` finds the rule in force for the longest path (`MatchIsLongest`) |
| `SubtreesAreSound` | nothing outside a subtree is found or marked for conversion (`SubtreeSound`) |
| `SvnSubtreesFindNothing` | `svn_subtree_rules` finds nothing for a path that is not the beginning of a Git address |
| `SubtreeOfRuleIsFound` | what the address that `invalidate_svn_tree` looks up finds, and when it finds nothing (`SubtreeOfRule`) |

`RulesetProofs` proves, for all rules files:

| Theorem | Says |
|---|---|
| `RulesetInvariant` | `RulesetSpec => []RulesetInv`: types, `TrieInv` for the rules inserted so far, which match each rule is of, which are still to do, what is declared |
| `RulesAreComplete` | a ruleset that is built has the rules of the file, with all they inherit, each once (`RulesComplete`) |
| `LegalIsAccepted` | what is refused is wrong (`LegalAccepted`) |
| `CoverageIsSound` | what is used is declared, and the report is right about branches that nobody or everybody used (`CoverageSound`) |
| `SuperModulesInvariant` | `RulesetSpec => []SuperModulesInv`: what has been read, which repositories are listed, which super-modules are set |
| `SuperModulesAreRight` | a repository has the super-module its rules say (`SuperModulesAgree`) |

**Assumptions.** The named ASSUMEs of the modules: finite sets of repositories and
names, null pointers outside them, no cycle among super-modules and chains of at
most three (`NestingAssumption`; `ModifyRef` unrolls the recursion of `modify_ref`
that far); SVN paths form a tree (`PathAssumption` of `Importer`), no two rules of one
SVN path are in force at the same time, which `Ruleset` refuses but for the overlaps
that escape it (`RulesAssumption`), and a rule places what is below a path below where it
places the path (`PlaceAssumption`); a pipe holds at least one command; the paths that
exist are finitely many and form a tree, with nothing below a file
(`PathAssumption` of `PathSet`, `CopyAssumption`, `SvnTreeAssumption`); repositories are ordered by
their names, marks are numbers and the buffer has at least one byte (`FixAssumption`);
a rule that is inserted does not end before it begins, which is what the code tests
before it (`ruleset.cpp:105`), and the text of a ref does not begin with a slash
(`RuleAssumption`); a file is a sequence of blocks with clauses that the grammar lets
pass or stops at, names are ordered, and a ref of a repository is not a slash
(`FilesAssumption`).
`FlatSubmodules` says that no super-module is itself a submodule. It is a
hypothesis of the theorems on the importer, `TypeCorrect` apart, because without it
they are false: see `nested_assert`.

**Argument for the loops of the importer.** None of the properties is inductive
alone. That the
count of written submodule refs equals the changed ones no longer modified
(`SubmodulesCounted`) needs to know, when a ref is committed, that its
super-module ref is modified and awaits it (`MarkedTogether`), and that a ref
being committed again cannot be marked in between (`LoopInv`: once the first
commit can be closed, in pass 0's close loop or later, nothing new is marked).
That every changed repository has something to open needs `changed_repositories`
to equal the repositories of the modified refs (`ReposMatchRefs`), which in
turn needs `MarkedTogether`, since the importer schedules the super-module while
`modify_ref` marks its ref. Replies stay in step because a prepared repository is
one whose open commit can be closed and is closed in the same pass (`OpenInv`).
`SafetyInv` is their conjunction. The proof has one
lemma per action; those that mark refs share `DiscoverRefSafe`, and both ways
of closing a commit share `CloseRefSafe`. `TypeInv` is the same for the types,
with `CommitsOpen`, which nested super-modules keep too. The refinement uses
`SafetyInv` in both states of a step: what is closed had been marked, and its
submodule refs are done.

**Argument for what a revision leaves behind.** That nothing is pending at the end
needs that nothing is pending for a ref that is not modified or whose commit is
open (`PendingInv`), since opening is what writes pending work. That a dropped
commit is only a repetition needs to know where `head_tree_sha` comes from: from the
last finished commit of the ref, found by its mark (`HeadInv`); and a dropped
commit has the mark of this revision, so there is an earlier one. For this a ref
must have a mark of the revision only while its commit is open (`MarksInv`), until
it is no longer modified. That no dropped commit is an ancestor needs the
history of every finished commit to consist of recorded marks (`HistoryInv`), because
`reset` gives a branch the history of an earlier commit and a merge that of a copied
one; that marks name distinct commits of one repository in the order of the stream
is part of it.

**Argument for the trees.** `Mirror` speaks of the end of a revision only. In
between, `FilesInv` has three parts. A file that is not going to be converted is as it
was and belongs where it did (`KeptInv`): what would be different about it is a change at
or above it, or a rule in transition, and both convert it. A place that is not astray has
what it should once the pending deletions are written, or something still to come will
delete it or convert the file there (`PlacesInv`); this is where `LeftBehind` and `Overlaid`
are needed, and nothing else is. A file to convert is written once its ref is open and the
loop has passed it (`ConvertInv`), which takes it from Phase I through the passes. A
commit that is taken back leaves its tree to the branch as it was, because a commit is
dropped when its tree repeats the head tree; that its files stay right follows. `LinksInv` says the same of the gitlinks: each is the last
finished commit of its submodule ref, or is listed as stale, or its submodule is
among those whose commit the super-module still waits for; what makes it inductive
is that links are written last, by `prepare_to_close_commit`, after all awaited
submodules are closed (`SubmodulesCounted` again). `AttributesInv` follows
`.gitattributes` through deletions. `SourcesInv` says that whatever SVN had in an
imported revision, and a rule maps, has been committed by then: it follows from
`FilesInv` for files that were converted and from the revision before for the others, and
is what copies of later revisions rely on.
`TreesInv` is the conjunction of all; TLC checks it in `siblings`, and it was
checked in the instances of `flat` and `merges`. Each of its parts has one
lemma per group of actions that change it.

**Argument for the connections.** That nobody else holds the ends a process was
given is not inductive: a process forked later copies what the importer holds at
that time. So the importer must have closed its copies before (`BoundEnds`, part
of `Constructing`), and a process holds nothing but ends of its own pipes and of
repositories constructed before it (`Inherited`). `HeldByLater` follows in the same
way and is the reason why closing all streams first lets every process come to its
end. That a constructed repository has a running process rests on the error pipe:
as long as a child has not executed git it holds the sink (`Constructing`), so the
end of that stream is not seen before. The proof treats types, held ends and the
state of the construction in lemmas of their own, one case for each action.
`EverythingRead` adds where each written command is (`NothingLost`) and that an
end of stream is seen only after the importer has closed the stream, since until
then it holds the other end itself (`InputHeld`). TLC checks the invariant in
`processes`.

**Argument for the reading of SVN.** The order of paths is total, and nothing sorts
between a path and what is below it (`NothingBetween`), so that a look at
the neighbour is enough: for the parent in `insert` (`NoParent`), for the range it
subsumes (`FinishMeans`), and for the innermost copy (`InnermostFound`). For the
pools, the whole stack has to be known, not only its top: a revision, directories, a
file and the functions that copy it, in this order (`WellNested`); the pools of every
frame then follow from its place, and leaving a function destroys its own pool and no
other (`LeavePools`). For the files, a pass is described in the middle: the paths it
has still to reach are spread over the frames of the stack, none twice and none below
another, and the files reached are those below none of them (`WalkInv`). A
directory gives way to its entries (`ReachedEntries`), a file is counted
(`ReachedFile`), what is in CVSROOT drops out (`ReachedSkip`), and a pass begins with
the minimal set (`ReachedStart`). TLC has checked `AccessInv` in the instance of
`paths`, whose run checks its parts `MinimalCover` and `PoolsInScope` and its
consequences.

**Argument for the build.** The exit status counts errors, so one has to know while
the run goes on that an error is counted as soon as a revision reports one, and as
soon as a revision is written to a process that is dead (`ErrorsInv`); a process that
died before and got nothing since is the exception in `DiedUnnoticed`. That each
repository of the rules has a process is `RunInv`, which also says that a directory
without repository has no branches: a cleaning that has come to its end has removed
them all. For the editions, rules only become newer, and everything in the directory
is at least as new as the last cleaning and at most as new as the rules
(`EditionsInv`). A build that begins to convert has found its stamp up to date, so if the
rules have not been edited when it pushes, the bounds meet and everything is of the
edition it began with. What the conversion has left (`Converted`) is changed by
nothing until the build ends, because no process is left. `PushInv` says which hosts
have been served. Writing the proof showed that `EndConversion` had been modelled by a
CASE with overlapping guards, which TLC reads in order and the logic does not; it is an
IF now. `ConversionInv` was checked by TLC in the instance of `conversion`, in all of
its states.

**Argument for the filter.** `lower_bound` finds the right place only in a sorted
vector, and the vector is sorted only if it was the right place, so `FixInv` has both
at once: the smaller marks are a first part of the vector (`FindShaPosSplits`), and an
insertion there keeps the order (`InsertionAscends`). What is in it are the marks of the
first lines of the file, in any order of the lines (`Read`). While there is something
left to read, as much is written as read (`CopyInv`), and `length` is a function of the
position in the stream (`BytesAfter`); `CopyNext` says for any read of the buffer
what comes out, garbage included. `HashInv` looks a hash up in the vectors, which do
not change any more; together with `ReadWhole` and the last rule of each repository
(`LastRuleImported`) it gives `HashOfOwner`. Where something is claimed of all numbers
below a bound, as in `BytesAfterExists`, the least one for which it fails is led to a
contradiction (`MinIsMember`). TLC checked `FixInv` in the instance of `fixrefs`, in all
of its 469,472 states.

**Argument for the rule trie.** That two nodes part at a node is what makes a child
determined by its first character. It survives an insertion because the match ends
where the text leaves all nodes: behind it the text differs from every node
(`MatchedMeans`), so the node split there is the parting of the text from all below it,
and for the others the old parting serves (`PartAtNodesAfter`). A new node without a
rule has the text and the old node as children (`HasChildrenAfter`). For the lookups
the shape is not enough: every rule has to be at the node of its text and at no other
(`AtNodes`), and each list has to be ordered, or `lower_bound` finds nothing
(`FindRevisionSplits`, `NodeInsertion`). Then a rule that is found is in force
(`FoundInForce`), and the one in force is found if the others of its node are not
(`InForceFound`). What remains are facts about texts: a boundary of components and a
subtree are prefixes with a slash (`BoundaryMeans`, `BeneathMeans`), and the address
that is looked up for a deletion is that of what is deleted, or ends in a slash
(`InvalidatedMeans`). Both tries share one lemma (`TreeInsertion`), as they share their
code. TLC checks `TrieInv` in `rules`.

**Argument for the ruleset.** `Components`, `HasChain` and the library's `FlattenSeq`
are defined from one number to the next. That such a function exists and has the values
its definition gives it needs no induction with an operator as parameter: a least number
for which there is none leads to a contradiction (`UpTo`, `Recursion`). From there, what
is collected for a rule is what the rules of its closure have (`ComponentsElements`):
a function of depth and a least fixed point say the same, because without an endless
chain of bases the depth of the file is deep enough. `RulesetInv` has the invariant of the
trie, which `InsertMatch` keeps since it calls the trie's own `Insert` with a rule that is
well formed. It says of every rule which match it is of (`MatchesInv`) and that
the matches of all repositories reached so far, as far as they ever are in force, are
inserted or still to do; when the last repository is done nothing is left to do, which is
`RulesComplete`. Rules are different from each other because a rule with the path and the
revisions of another overlaps it and is refused. For `LegalAccepted` a refusal must lead
back to the file: the rule that is overlapped is that of an earlier match (`MatchesInv`),
which is not the same match as long as nothing is collected twice (`FreshInv`), so two
different matches overlap and the file is not legal; a super-module that differs from
the one that is set belongs to an earlier repository (`RepositoriesInv`). For the coverage
every match that is inserted is declared (`DeclaredInv`), and the rounded percentage of
none of them is 0, of all of them 100. The proof showed that matches never in force had
been dropped by a `SelectSeq` before the loop; the loop passes over them now, as the code
does. TLC checked `RulesetInv` in the instance of `ruleset`, in all of its 7,543 states.

**Argument for super-modules.** The rules of a repository may come in several blocks,
anywhere in the multiset, and some of them may not name a super-module. While rules are
collected, every imported rule that has been passed is in `repositories` (`Listed`);
while super-modules are set, every repository that has been passed has the one it names
(`IsSet`), and keeps it, because a later one with another super-module or path is
rejected (`Conflicts`) before anything is written. TLC checked `SuperModulesInv` in the
instance of `ruleset`, in all of its 7,543 states.

**Only model-checked.** Liveness (`RevisionCompletes`, `RevisionEnds`, `Terminates`,
`NoneLeftBehind`, `Recovers`) and anything with ENABLED are out of the
prover's reach. Every invariant and every action property that a run checks is stated by a
theorem. The induction theorems of the library take an operator as a parameter,
which the installed provers cannot instantiate; where a proof needs induction, the least
number for which a claim fails is led to a contradiction instead.

## 5. Not modelled

- the text of paths, messages and marks files, quoting, file modes, symbolic
  links, dates and author names: nothing that is decided depends on them;
- changes that only edit properties (`importer.cpp:140`), and the warning about copies
  between repositories (`importer.cpp:295-314`), which decides nothing;
- in the fixer, a length of data that is not a number (`fix-submodule-refs.cpp:116`) and the
  newline that is appended to an unterminated last line (`:111`);
- which submodule's marks file is missing when the build runs the fixer: that it fails is a
  fault of `Conversion` (`FixingFails`), where it may fail for a missing file in `FixSubmodules`
  (`MarksFileMissing`);
- several rules that map to one Git address at the same time: the repository does
  not say what is right for them (`patrie.hpp:314`);
- `--resume-from`: refs would start without marks while the repositories have
  commits; the build never uses it;
- the characters and comments of the rules file, the options of the command line,
  levels and colours of the log, the layout of the coverage report;
- `validate_branch.cpp`, which rewrites lines of rules and was used once,
  `ensure_git_pushable.cmake`, which asks a person for a key,
  `fail_incomplete_ruleset.cmake`, which nothing uses, and the Python scripts that
  edited rules files;
- of Boost.Process what `svn2git` does not use, and the patched header of
  Boost.Spirit.

## 6. Plan

Done: all modules of section 2, their runs, the theorems of section 4. Left:

1. that `Match`, `Transition` and the lookups of `Importer` are refined by `RuleTrie`, as a
   theorem; today each side states what it gives or takes.
2. whether each of the two kinds of places in `astray` always differs from SVN, or only may.

## 7. Running it

    tlc -config flat.cfg MCFlat
    tlc -config rules.cfg MCRuleTrie
    tlc -config processes.cfg MCFastImport
    tlapm ImporterProofs.tla
    tlapm TreeProofs.tla
    tlapm FastImportProofs.tla
    tlapm SvnProofs.tla
    tlapm ConversionProofs.tla
    tlapm FixSubmodulesProofs.tla
    tlapm RuleTrieProofs.tla
    tlapm RulesetProofs.tla

Each `.cfg` belongs to the MC module that `PROJECT.json` names for its run. The
largest run, `conversion`, has about 850,000 states.
