----------------------------- MODULE RulesetProofs -----------------------------
(***************************************************************************)
(* Theorems about module Ruleset, for any rules files.                     *)
(*                                                                         *)
(* 1. Functions that are defined from one number to the next exist, which  *)
(*    is what FlattenSeq, HasChain and Components need.                    *)
(* 2. What the parser makes of a file; what a rule builds on, and what is  *)
(*    collected for it; its matches and their rules.                       *)
(* 3. RulesetInv is inductive, one lemma for each action.                  *)
(* 4. That legal files are accepted, that rules are complete and that      *)
(*    coverage is sound follow from it.                                    *)
(* 5. Super-modules, by an invariant of their own.                         *)
(***************************************************************************)
EXTENDS RulesetProperties, RuleTrieProofs

-----------------------------------------------------------------------------
(* Sequences of anything.                                                  *)

\* A sequence of elements of some set is a sequence of its own elements.
LEMMA SequenceOfItsElements ==
  ASSUME NEW S, NEW s \in Seq(S)
  PROVE  IsSequence(s)
<1>1. Range(s) = ToSet(s)
  BY DEF Range, ToSet
<1>2. s \in Seq(Range(s))
  BY SeqOfRange
<1> QED
  BY <1>1, <1>2 DEF IsSequence

\* A sequence of anything with one element more.
LEMMA SequenceAppended ==
  ASSUME NEW s, IsSequence(s), NEW e
  PROVE  /\ IsSequence(Append(s, e)) /\ Len(s) \in Nat
         /\ DOMAIN s = 1..Len(s) /\ DOMAIN Append(s, e) = 1..Len(s) + 1
         /\ Append(s, e)[Len(s) + 1] = e /\ \A i \in 1..Len(s) : Append(s, e)[i] = s[i]
<1> DEFINE S == ToSet(s) \cup {e}
<1>1. s \in Seq(ToSet(s)) /\ ToSet(s) \subseteq S /\ e \in S
  BY DEF IsSequence
<1> HIDE DEF S
<1>2. s \in Seq(S)
  BY <1>1, SeqMonotonic
<1>3. /\ Append(s, e) \in Seq(S) /\ Len(Append(s, e)) = Len(s) + 1
      /\ Append(s, e)[Len(s) + 1] = e /\ \A i \in 1..Len(s) : Append(s, e)[i] = s[i]
  BY <1>1, <1>2, AppendProperties
<1>4. IsSequence(Append(s, e))
  BY <1>3, SequenceOfItsElements
<1>5. Len(s) \in Nat /\ DOMAIN s = 1..Len(s) /\ DOMAIN Append(s, e) = 1..Len(Append(s, e))
  BY <1>2, <1>3
<1> QED
  BY <1>3, <1>4, <1>5

\* The AST with one rule more.
LEMMA InsertedIsSequence ==
  ASSUME IsSequence(ast), NEW rule
  PROVE  IsSequence(Inserted(rule))
<1> DEFINE S == ToSet(ast) \cup {rule}
           P == {i \in DOMAIN ast : ast[i].name > rule.name} \cup {Len(ast) + 1}
<1>1. ast \in Seq(ToSet(ast)) /\ ToSet(ast) \subseteq S /\ rule \in S
  BY DEF IsSequence
<1> HIDE DEF S
<1>2. ast \in Seq(S)
  BY <1>1, SeqMonotonic
<1>3. Len(ast) \in Nat /\ DOMAIN ast = 1..Len(ast)
  BY <1>2
<1>4. P \subseteq 1..Len(ast) + 1 /\ P # {}
  BY <1>3
<1>5. Inserted(rule) = InsertAt(ast, Min(P), rule)
  BY DEF Inserted
<1> HIDE DEF P
<1>6. P \in SUBSET Nat
  BY <1>3, <1>4
<1>7. Min(P) \in 1..Len(ast) + 1
  BY <1>4, <1>6, LeastMember
<1>8. InsertAt(ast, Min(P), rule) \in Seq(S)
  BY <1>1, <1>2, <1>7, InsertAtProperties
<1> QED
  BY <1>5, <1>8, SequenceOfItsElements

-----------------------------------------------------------------------------
(* Induction and recursion over naturals, for sets and functions.          *)

\* What holds of 0 and of the successor of every number up to n that it holds of,
\* holds of all numbers up to n: else it fails of a least one.
LEMMA UpTo ==
  ASSUME NEW n \in Nat, NEW T, 0 \in T, \A k \in 0..n : k \in T /\ k < n => k + 1 \in T
  PROVE  \A k \in 0..n : k \in T
<1> SUFFICES ASSUME NEW x \in 0..n, x \notin T
             PROVE  FALSE
  OBVIOUS
<1> DEFINE S == {k \in 0..n : k \notin T}
<1>1. S \in SUBSET Nat /\ S # {}
  OBVIOUS
<1>2. Min(S) \in S /\ \A k \in S : Min(S) <= k
  <2> HIDE DEF S
  <2> QED  BY <1>1, LeastMember
<1>3. PICK m \in S : \A k \in S : m <= k
  BY <1>2
<1>4. m \in 0..n /\ m \notin T /\ m # 0
  OBVIOUS
<1>5. m - 1 \in 0..n /\ m - 1 < n /\ ~ (m <= m - 1) /\ (m - 1) + 1 = m
  BY <1>4
<1>6. m - 1 \in T
  BY <1>3, <1>5
<1> QED
  BY <1>4, <1>5, <1>6

Steps(n, S) == [1..n -> [S -> S]]

\* The functions that take, from a on, one step after the other.
Computations(n, S, a, step) ==
  {g \in [0..n -> S] : g[0] = a /\ \A k \in 1..n : g[k] = step[k][g[k - 1]]}

\* A function on the numbers up to n may be defined by its first value and, step by
\* step, by the one before.
LEMMA Recursion ==
  ASSUME NEW n \in Nat, NEW S, NEW a \in S, NEW step \in Steps(n, S)
  PROVE  Computations(n, S, a, step) # {}
<1>0. step \in [1..n -> [S -> S]]
  BY DEF Steps
<1> DEFINE IsUpTo(g, k) == g \in [0..k -> S] /\ g[0] = a /\ \A i \in 1..k : g[i] = step[i][g[i - 1]]
           T == {k \in 0..n : \E g : IsUpTo(g, k)}
<1>1. 0 \in T
  <2>1. IsUpTo([i \in 0..0 |-> a], 0)
    OBVIOUS
  <2> HIDE DEF IsUpTo
  <2> QED  BY <2>1
<1>2. ASSUME NEW k \in 0..n, k \in T, k < n
      PROVE  k + 1 \in T
  <2>1. PICK g : IsUpTo(g, k)
    BY <1>2
  <2>2. k + 1 \in 1..n /\ k + 1 \in 0..n /\ k \in Nat
    BY <1>2
  <2> DEFINE h == [i \in 0..k + 1 |-> IF i = k + 1 THEN step[k + 1][g[k]] ELSE g[i]]
  <2>3. g[k] \in S /\ step[k + 1] \in [S -> S]
    BY <1>0, <2>1, <2>2
  <2>4. step[k + 1][g[k]] \in S
    BY <2>3
  <2>5. h \in [0..k + 1 -> S]
    <3>1. \A i \in 0..k + 1 : i = k + 1 \/ i \in 0..k
      BY <2>2
    <3>2. \A i \in 0..k + 1 : h[i] \in S
      BY <2>1, <2>4, <3>1
    <3> QED  BY <3>2
  <2>6. h[0] = a
    BY <2>1, <2>2
  <2>7. ASSUME NEW i \in 1..k + 1
        PROVE  h[i] = step[i][h[i - 1]]
    <3>1. i - 1 \in 0..k + 1 /\ i \in 0..k + 1 /\ i - 1 # k + 1 /\ h[i - 1] = g[i - 1]
      BY <2>2
    <3>2. CASE i = k + 1
      BY <2>2, <3>1, <3>2
    <3>3. CASE i # k + 1
      <4>1. i \in 1..k
        BY <2>2, <3>3
      <4> QED  BY <2>1, <3>1, <3>3, <4>1
    <3> QED  BY <3>2, <3>3
  <2>8. IsUpTo(h, k + 1)
    BY <2>5, <2>6, <2>7
  <2> HIDE DEF IsUpTo
  <2> QED  BY <2>2, <2>8
<1>3. n \in T
  <2> HIDE DEF T
  <2>1. \A k \in 0..n : k \in T
    BY <1>1, <1>2, UpTo
  <2> QED  BY <2>1
<1> QED
  BY <1>3 DEF Computations

-----------------------------------------------------------------------------
(* Elements of sequences.                                                  *)

\* An element of a sequence is at some place of it.
LEMMA ElementMeans ==
  ASSUME NEW s, NEW e
  PROVE  e \in ToSet(s) <=> \E i \in DOMAIN s : s[i] = e
BY DEF ToSet

\* The elements of two sequences in a row.
LEMMA ConcatElements ==
  ASSUME NEW X, NEW s \in Seq(X), NEW t \in Seq(X)
  PROVE  /\ s \o t \in Seq(X) /\ ToSet(s \o t) = ToSet(s) \cup ToSet(t)
         /\ IsInjective(s) /\ IsInjective(t) /\ ToSet(s) \cap ToSet(t) = {} => IsInjective(s \o t)
<1> DEFINE c == s \o t
<1>1. /\ c \in Seq(X) /\ Len(c) = Len(s) + Len(t)
      /\ \A i \in 1..Len(s) + Len(t) : c[i] = IF i <= Len(s) THEN s[i] ELSE t[i - Len(s)]
  BY ConcatProperties
<1>2. /\ Len(s) \in Nat /\ DOMAIN s = 1..Len(s) /\ Len(t) \in Nat /\ DOMAIN t = 1..Len(t)
      /\ DOMAIN c = 1..Len(s) + Len(t)
  BY <1>1
<1> HIDE DEF c
<1>3. ASSUME NEW i \in DOMAIN c
      PROVE  \/ i \in DOMAIN s /\ c[i] = s[i]
             \/ i - Len(s) \in DOMAIN t /\ ~ (i <= Len(s)) /\ c[i] = t[i - Len(s)]
  BY <1>1, <1>2
<1>4. \A i \in DOMAIN s : i \in DOMAIN c /\ c[i] = s[i]
  BY <1>1, <1>2
<1>5. \A i \in DOMAIN t : i + Len(s) \in DOMAIN c /\ c[i + Len(s)] = t[i]
  <2> TAKE i \in DOMAIN t
  <2>1. i + Len(s) \in 1..Len(s) + Len(t) /\ ~ (i + Len(s) <= Len(s)) /\ (i + Len(s)) - Len(s) = i
    BY <1>2
  <2> QED  BY <1>1, <1>2, <2>1
<1>6. ToSet(c) = ToSet(s) \cup ToSet(t)
  <2>1. \A e \in ToSet(c) : e \in ToSet(s) \cup ToSet(t)
    BY <1>3, ElementMeans
  <2>2. \A e \in ToSet(s) : e \in ToSet(c)
    BY <1>4, ElementMeans
  <2>3. \A e \in ToSet(t) : e \in ToSet(c)
    BY <1>5, ElementMeans
  <2> QED  BY <2>1, <2>2, <2>3
<1>7. ASSUME IsInjective(s), IsInjective(t), ToSet(s) \cap ToSet(t) = {}
      PROVE  IsInjective(c)
  <2> SUFFICES ASSUME NEW i \in DOMAIN c, NEW j \in DOMAIN c, c[i] = c[j]
               PROVE  i = j
    BY DEF IsInjective
  <2>1. \A k \in DOMAIN s, l \in DOMAIN t : s[k] # t[l]
    BY <1>7, ElementMeans
  <2>2. i \in Nat /\ j \in Nat /\ (i - Len(s) = j - Len(s) => i = j)
    BY <1>2
  <2> QED  BY <1>3, <1>7, <2>1, <2>2 DEF IsInjective
<1> QED
  BY <1>1, <1>6, <1>7 DEF c

\* Flattening a sequence of sequences keeps their elements, and repeats none that
\* is not in two of them or twice in one.
LEMMA FlattenElements ==
  ASSUME NEW X, NEW seqs \in Seq(Seq(X))
  PROVE  /\ FlattenSeq(seqs) \in Seq(X)
         /\ ToSet(FlattenSeq(seqs)) = UNION {ToSet(seqs[i]) : i \in DOMAIN seqs}
         /\ (/\ \A i \in DOMAIN seqs : IsInjective(seqs[i])
             /\ \A i, j \in DOMAIN seqs : i # j => ToSet(seqs[i]) \cap ToSet(seqs[j]) = {})
              => IsInjective(FlattenSeq(seqs))
<1>1. Len(seqs) \in Nat /\ DOMAIN seqs = 1..Len(seqs) /\ \A i \in DOMAIN seqs : seqs[i] \in Seq(X)
  OBVIOUS
<1>2. CASE Len(seqs) = 0
  <2>1. seqs = << >> /\ FlattenSeq(seqs) = << >>
    BY <1>2, EmptySeq DEF FlattenSeq
  <2>2. << >> \in Seq(X) /\ DOMAIN << >> = {} /\ ToSet(<< >>) = {} /\ IsInjective(<< >>)
    BY DEF ToSet, IsInjective
  <2> HIDE DEF FlattenSeq
  <2>3. UNION {ToSet(seqs[i]) : i \in DOMAIN seqs} = {}
    BY <2>1
  <2> QED  BY <2>1, <2>2, <2>3
<1>3. CASE Len(seqs) # 0
  <2> DEFINE N == Len(seqs)
             Flat(f) == f = [i \in 1..N |-> IF i = 1 THEN seqs[i] ELSE f[i - 1] \o seqs[i]]
             flat == CHOOSE f : Flat(f)
  <2>1. FlattenSeq(seqs) = flat[N]
    BY <1>3 DEF FlattenSeq
  <2>2. \E f : Flat(f)
    <3> DEFINE step == [k \in 1..N - 1 |-> [v \in Seq(X) |-> v \o seqs[k + 1]]]
    <3>1. N - 1 \in Nat /\ seqs[1] \in Seq(X)
      BY <1>1, <1>3
    <3>2. step \in [1..N - 1 -> [Seq(X) -> Seq(X)]]
      <4>1. \A k \in 1..N - 1 : seqs[k + 1] \in Seq(X)
        BY <1>1
      <4>2. \A k \in 1..N - 1, v \in Seq(X) : v \o seqs[k + 1] \in Seq(X)
        BY <4>1, ConcatElements
      <4> QED  BY <4>2
    <3>3. PICK g : /\ g \in [0..N - 1 -> Seq(X)] /\ g[0] = seqs[1]
                   /\ \A k \in 1..N - 1 : g[k] = step[k][g[k - 1]]
      <4>1. step \in Steps(N - 1, Seq(X))
        BY <3>2 DEF Steps
      <4> HIDE DEF step, N
      <4>2. Computations(N - 1, Seq(X), seqs[1], step) # {}
        BY <3>1, <4>1, Recursion
      <4> QED  BY <4>2 DEF Computations
    <3> DEFINE h == [i \in 1..N |-> g[i - 1]]
    <3>4. ASSUME NEW i \in 1..N
          PROVE  h[i] = IF i = 1 THEN seqs[i] ELSE h[i - 1] \o seqs[i]
      <4>1. CASE i = 1
        BY <3>3, <4>1
      <4>2. CASE i # 1
        <5>1. i - 1 \in 1..N - 1 /\ i - 1 \in 1..N /\ (i - 1) + 1 = i /\ (i - 1) - 1 \in 0..N - 1
          BY <1>1, <4>2
        <5>2. g[i - 1] = g[(i - 1) - 1] \o seqs[(i - 1) + 1]
          BY <3>3, <5>1
        <5> QED  BY <4>2, <5>1, <5>2
      <4> QED  BY <4>1, <4>2
    <3>5. Flat(h)
      BY <3>4
    <3> QED  BY <3>5
  <2>3. Flat(flat)
    <3> HIDE DEF Flat
    <3> QED  BY <2>2
  <2> HIDE DEF flat
  <2>4. \A i \in 1..N : flat[i] = IF i = 1 THEN seqs[i] ELSE flat[i - 1] \o seqs[i]
    BY <2>3
  <2> DEFINE Distinct == /\ \A i \in DOMAIN seqs : IsInjective(seqs[i])
                         /\ \A i, j \in DOMAIN seqs : i # j => ToSet(seqs[i]) \cap ToSet(seqs[j]) = {}
             Done(k) == /\ flat[k] \in Seq(X)
                        /\ \A e : e \in ToSet(flat[k]) <=> \E i \in 1..k : e \in ToSet(seqs[i])
                        /\ Distinct => IsInjective(flat[k])
             T == {k \in Nat : k + 1 \in 1..N => Done(k + 1)}
  <2>5. 0 \in T
    <3>1. flat[1] = seqs[1] /\ 1 \in DOMAIN seqs /\ 1..1 = {1}
      BY <1>1, <1>3, <2>4
    <3>2. Done(1)
      BY <1>1, <3>1
    <3> HIDE DEF Done
    <3> QED  BY <3>2
  <2>6. ASSUME NEW k \in 0..N - 1, k \in T, k < N - 1
        PROVE  k + 1 \in T
    <3> DEFINE n == k + 1
    <3>1. n \in 1..N /\ n + 1 \in 1..N /\ n + 1 # 1 /\ (n + 1) - 1 = n /\ n + 1 \in DOMAIN seqs
          /\ \A i \in 1..n + 1 : i = n + 1 \/ i \in 1..n
      BY <1>1, <2>6
    <3> HIDE DEF n
    <3>2. Done(n)
      BY <2>6, <3>1 DEF n
    <3>3. flat[n + 1] = flat[n] \o seqs[n + 1] /\ seqs[n + 1] \in Seq(X) /\ flat[n] \in Seq(X)
      BY <1>1, <2>4, <3>1, <3>2
    <3>4. /\ flat[n + 1] \in Seq(X) /\ ToSet(flat[n + 1]) = ToSet(flat[n]) \cup ToSet(seqs[n + 1])
          /\ (IsInjective(flat[n]) /\ IsInjective(seqs[n + 1]) /\ ToSet(flat[n]) \cap ToSet(seqs[n + 1]) = {}
                => IsInjective(flat[n + 1]))
      BY <3>3, ConcatElements
    <3>5. \A e : e \in ToSet(flat[n + 1]) <=> \E i \in 1..n + 1 : e \in ToSet(seqs[i])
      <4>1. n + 1 \in 1..n + 1 /\ \A i \in 1..n : i \in 1..n + 1
        BY <3>1
      <4> QED  BY <3>1, <3>2, <3>4, <4>1
    <3>6. ASSUME Distinct
          PROVE  IsInjective(flat[n + 1])
      <4>1. \A i \in 1..n : i \in DOMAIN seqs /\ i # n + 1
        BY <1>1, <3>1
      <4>2. ToSet(flat[n]) \cap ToSet(seqs[n + 1]) = {}
        BY <3>1, <3>2, <3>6, <4>1
      <4> QED  BY <3>1, <3>2, <3>4, <3>6, <4>2
    <3>7. Done(n + 1)
      BY <3>4, <3>5, <3>6
    <3> HIDE DEF Done
    <3> QED  BY <2>6, <3>7 DEF n
  <2>7. Done(N)
    <3>1. N - 1 \in Nat /\ (N - 1) + 1 = N /\ N \in 1..N /\ N - 1 \in 0..N - 1
      BY <1>1, <1>3
    <3>2. N - 1 \in T
      <4> HIDE DEF T, N
      <4> QED  BY <2>5, <2>6, <3>1, UpTo
    <3> HIDE DEF Done
    <3> QED  BY <3>1, <3>2
  <2>8. ToSet(flat[N]) = UNION {ToSet(seqs[i]) : i \in DOMAIN seqs}
    BY <1>1, <2>7
  <2> QED  BY <2>1, <2>7, <2>8
<1> QED
  BY <1>2, <1>3

-----------------------------------------------------------------------------
(* What the parser makes of a file.                                        *)

\* Revisions are numbers up to the last one.
LEMMA RevisionsAre == UintMax \in Nat /\ Revisions = 0..Forever /\ Revisions \subseteq Nat
BY ForeverAssumption, RuleAssumption DEF Revisions

\* The clauses of a block have the values that their kinds demand.
LEMMA ClauseValue ==
  ASSUME NEW b \in Blocks, NEW kind, NEW default
  PROVE  \/ ValueOf(b, kind, default) = default
         \/ \E c \in BlockClauses : c.kind = kind /\ ValueOf(b, kind, default) = c.value
<1> DEFINE found == {i \in DOMAIN b.clauses : b.clauses[i].kind = kind}
<1>1. b.clauses \in Seq(BlockClauses)
  BY DEF Blocks
<1>2. CASE found = {}
  BY <1>2 DEF ValueOf
<1>3. CASE found # {}
  <2>1. PICK i : i = CHOOSE j \in found : TRUE
    OBVIOUS
  <2>2. i \in found /\ ValueOf(b, kind, default) = b.clauses[i].value
    BY <1>3, <2>1 DEF ValueOf
  <2>3. b.clauses[i] \in BlockClauses /\ b.clauses[i].kind = kind
    BY <1>1, <2>2
  <2> QED  BY <2>2, <2>3
<1> QED
  BY <1>2, <1>3

\* The value of a clause is of its kind.
LEMMA ClauseTypes ==
  ASSUME NEW c \in BlockClauses
  PROVE  /\ c.kind = "submodule" => c.value \in Submodules
         /\ c.kind \in {"minrev", "maxrev"} => c.value \in Revisions
         /\ c.kind = "content" => c.value \in Seq(ContentRules)
         /\ c.kind \in {"branches", "tags"} => c.value \in Seq(BranchClauses)
BY DEF BlockClauses

\* Revisions that are not written are filled in.
LEMMA BranchRulesTyped ==
  ASSUME NEW b \in Blocks, NEW kind \in {"branches", "tags"}
  PROVE  BranchRules(b, kind) \in Seq(ParsedBranches)
<1> DEFINE list == ValueOf(b, kind, << >>)
           Parsed(c) == [c EXCEPT !.min = Default(@, 0), !.max = Default(@, UintMax)]
<1>1. list \in Seq(BranchClauses)
  <2>1. list = << >> \/ \E c \in BlockClauses : c.kind = kind /\ list = c.value
    BY ClauseValue
  <2>2. << >> \in Seq(BranchClauses)
    OBVIOUS
  <2> HIDE DEF list
  <2> QED  BY <2>1, <2>2, ClauseTypes
<1> HIDE DEF list
<1>2. ASSUME NEW c \in BranchClauses
      PROVE  Parsed(c) \in ParsedBranches
  <2>1. 0 \in Revisions /\ UintMax \in Revisions
    BY RevisionsAre DEF Revisions
  <2>2. Default(c.min, 0) \in Revisions /\ Default(c.max, UintMax) \in Revisions
    BY <2>1 DEF Default, BranchClauses
  <2> QED  BY <2>2 DEF BranchClauses, ParsedBranches
<1>3. DOMAIN list = 1..Len(list) /\ Len(list) \in Nat /\ \A i \in 1..Len(list) : list[i] \in BranchClauses
  BY <1>1
<1>4. BranchRules(b, kind) = [i \in 1..Len(list) |-> Parsed(list[i])]
  BY <1>3 DEF BranchRules, list
<1> HIDE DEF Parsed
<1>5. \A i \in 1..Len(list) : Parsed(list[i]) \in ParsedBranches
  BY <1>2, <1>3
<1> QED
  BY <1>3, <1>4, <1>5

\* What is parsed of a block is a repository rule.
LEMMA RepoRuleTyped ==
  ASSUME NEW b \in Blocks
  PROVE  RepoRuleOf(b) \in RepoRules
<1>1. b.abstract \in BOOLEAN /\ b.name \in Names /\ b.bases \in Seq(Names)
  BY DEF Blocks
<1>2. ValueOf(b, "submodule", NoSubmodule) \in Submodules \cup {NoSubmodule}
  BY ClauseValue, ClauseTypes
<1>3. 0 \in Revisions /\ UintMax \in Revisions
  BY RevisionsAre DEF Revisions
<1>4. ValueOf(b, "minrev", 0) \in Revisions
  BY <1>3, ClauseValue, ClauseTypes
<1>5. ValueOf(b, "maxrev", UintMax) \in Revisions
  BY <1>3, ClauseValue, ClauseTypes
<1>6. ValueOf(b, "content", << >>) \in Seq(ContentRules)
  <2>1. << >> \in Seq(ContentRules)
    OBVIOUS
  <2>2. \/ ValueOf(b, "content", << >>) = << >>
        \/ \E c \in BlockClauses : c.kind = "content" /\ ValueOf(b, "content", << >>) = c.value
    BY ClauseValue
  <2> QED  BY <2>1, <2>2, ClauseTypes
<1>7. BranchRules(b, "branches") \in Seq(ParsedBranches) /\ BranchRules(b, "tags") \in Seq(ParsedBranches)
  BY BranchRulesTyped
<1> QED
  BY <1>1, <1>2, <1>4, <1>5, <1>6, <1>7 DEF RepoRuleOf, RepoRules

\* What the multiset holds is typed and ordered by name.
LEMMA RepoRuleAt ==
  ASSUME ast \in Seq(RepoRules)
  PROVE  /\ Len(ast) \in Nat /\ DOMAIN ast = 1..Len(ast)
         /\ \A i \in DOMAIN ast :
              /\ ast[i] \in RepoRules /\ ast[i].abstract \in BOOLEAN /\ ast[i].name \in Names
              /\ ast[i].name \in Nat /\ ast[i].bases \in Seq(Names)
              /\ ast[i].minrev \in Revisions /\ ast[i].maxrev \in Revisions
              /\ ast[i].content \in Seq(ContentRules)
              /\ ast[i].branches \in Seq(ParsedBranches) /\ ast[i].tags \in Seq(ParsedBranches)
<1>1. Len(ast) \in Nat /\ DOMAIN ast = 1..Len(ast) /\ \A i \in DOMAIN ast : ast[i] \in RepoRules
  OBVIOUS
<1>2. \A r \in RepoRules :
        /\ r.abstract \in BOOLEAN /\ r.name \in Names /\ r.bases \in Seq(Names)
        /\ r.minrev \in Revisions /\ r.maxrev \in Revisions
        /\ r.content \in Seq(ContentRules)
        /\ r.branches \in Seq(ParsedBranches) /\ r.tags \in Seq(ParsedBranches)
  BY DEF RepoRules
<1>3. \A n \in Names : n \in Nat
  BY FilesAssumption
<1> QED
  BY <1>1, <1>2, <1>3

\* The places of the rules with a name follow each other.
LEMMA NamedElements ==
  ASSUME ast \in Seq(RepoRules), ByName, NEW name \in Names
  PROVE  Named(name) \in Seq(DOMAIN ast) /\ IsInjective(Named(name))
         /\ ToSet(Named(name)) = {i \in DOMAIN ast : ast[i].name = name}
<1> DEFINE F == {i \in DOMAIN ast : ast[i].name >= name} \cup {Len(ast) + 1}
           L == {i \in DOMAIN ast : ast[i].name > name} \cup {Len(ast) + 1}
<1>1. /\ Len(ast) \in Nat /\ DOMAIN ast = 1..Len(ast) /\ name \in Nat
      /\ \A i \in DOMAIN ast : i \in Nat /\ ast[i].name \in Nat
  <2>1. Len(ast) \in Nat /\ DOMAIN ast = 1..Len(ast)
    BY RepoRuleAt
  <2> QED  BY <2>1, RepoRuleAt, FilesAssumption
<1>2. F \in SUBSET Nat /\ F # {} /\ L \in SUBSET Nat /\ L # {}
  BY <1>1
<1>3. PICK first, last : first = Min(F) /\ last = Min(L)
  OBVIOUS
<1>4. Named(name) = [k \in 1..(last - first) |-> first + k - 1]
  BY <1>3 DEF Named
<1> HIDE DEF F, L
<1>5. first \in F /\ (\A x \in F : first <= x) /\ last \in L /\ (\A x \in L : last <= x)
  BY <1>2, <1>3, LeastMember
<1> USE DEF F, L
<1>6. /\ first \in 1..Len(ast) + 1 /\ last \in 1..Len(ast) + 1
      /\ first <= Len(ast) => ast[first].name >= name
      /\ last <= Len(ast) => ast[last].name > name
  BY <1>1, <1>5
<1>7. \A i \in DOMAIN ast : ast[i].name >= name <=> first <= i
  <2> TAKE i \in DOMAIN ast
  <2>1. ast[i].name >= name => first <= i
    BY <1>5
  <2>2. ASSUME first <= i
        PROVE  ast[i].name >= name
    <3>1. first \in DOMAIN ast /\ (first < i \/ first = i)
      BY <1>1, <1>6, <2>2
    <3>2. ast[first].name <= ast[i].name
      BY <1>1, <3>1 DEF ByName
    <3> QED  BY <1>1, <1>6, <3>1, <3>2
  <2> QED  BY <2>1, <2>2
<1>8. \A i \in DOMAIN ast : ast[i].name > name <=> last <= i
  <2> TAKE i \in DOMAIN ast
  <2>1. ast[i].name > name => last <= i
    BY <1>5
  <2>2. ASSUME last <= i
        PROVE  ast[i].name > name
    <3>1. last \in DOMAIN ast /\ (last < i \/ last = i)
      BY <1>1, <1>6, <2>2
    <3>2. ast[last].name <= ast[i].name
      BY <1>1, <3>1 DEF ByName
    <3> QED  BY <1>1, <1>6, <3>1, <3>2
  <2> QED  BY <2>1, <2>2
<1>9. \A i \in DOMAIN ast : ast[i].name = name <=> first <= i /\ i < last
  <2> TAKE i \in DOMAIN ast
  <2>1. i \in Nat /\ last \in Nat /\ (i < last <=> ~ (last <= i))
    BY <1>1, <1>6
  <2>2. ast[i].name = name <=> ast[i].name >= name /\ ~ (ast[i].name > name)
    BY <1>1
  <2> QED  BY <1>7, <1>8, <2>1, <2>2
<1> HIDE DEF F, L
<1>10. first <= last
  <2>1. CASE last = Len(ast) + 1
    BY <1>1, <1>6, <2>1
  <2>2. CASE last # Len(ast) + 1
    <3>1. last \in DOMAIN ast
      BY <1>1, <1>6, <2>2
    <3>2. ast[last].name >= name
      BY <1>1, <1>8, <3>1
    <3> QED  BY <1>7, <3>1, <3>2
  <2> QED  BY <2>1, <2>2
<1>11. last - first \in Nat
  BY <1>6, <1>10
<1>12. \A k \in 1..(last - first) : first + k - 1 \in DOMAIN ast
  BY <1>1, <1>6, <1>11
<1>13. Named(name) \in Seq(DOMAIN ast) /\ DOMAIN Named(name) = 1..(last - first)
  BY <1>4, <1>11, <1>12
<1>14. \A k \in 1..(last - first) : Named(name)[k] = first + k - 1
  BY <1>4
<1>15. IsInjective(Named(name))
  BY <1>6, <1>11, <1>13, <1>14 DEF IsInjective
<1>16. ASSUME NEW i
       PROVE  i \in ToSet(Named(name)) <=> i \in DOMAIN ast /\ ast[i].name = name
  <2>1. ASSUME NEW k \in 1..(last - first)
        PROVE  first + k - 1 \in DOMAIN ast /\ ast[first + k - 1].name = name
    <3>1. first <= first + k - 1 /\ first + k - 1 < last
      BY <1>6, <1>11
    <3> QED  BY <1>9, <1>12, <3>1
  <2>2. ASSUME i \in DOMAIN ast, ast[i].name = name
        PROVE  \E k \in 1..(last - first) : first + k - 1 = i
    <3>1. first <= i /\ i < last /\ i \in Nat
      BY <1>1, <1>9, <2>2
    <3>2. i - first + 1 \in 1..(last - first) /\ first + (i - first + 1) - 1 = i
      BY <1>6, <3>1
    <3> QED  BY <3>2
  <2>3. i \in ToSet(Named(name)) <=> \E k \in 1..(last - first) : first + k - 1 = i
    <3>1. i \in ToSet(Named(name)) <=> \E k \in DOMAIN Named(name) : Named(name)[k] = i
      BY ElementMeans
    <3> QED  BY <1>13, <1>14, <3>1
  <2> QED  BY <2>1, <2>2, <2>3
<1> QED
  BY <1>13, <1>15, <1>16

\* A rule visits the rules that its bases name, and no others.
LEMMA BasesElements ==
  ASSUME ast \in Seq(RepoRules), ByName, NEW i \in DOMAIN ast
  PROVE  Bases(i) \in Seq(DOMAIN ast)
         /\ ToSet(Bases(i)) = {k \in DOMAIN ast : ast[k].name \in ToSet(ast[i].bases)}
<1> DEFINE seqs == [b \in DOMAIN ast[i].bases |-> Named(ast[i].bases[b])]
<1>1. /\ ast[i].bases \in Seq(Names) /\ Len(ast[i].bases) \in Nat
      /\ DOMAIN ast[i].bases = 1..Len(ast[i].bases)
      /\ \A b \in DOMAIN ast[i].bases : ast[i].bases[b] \in Names
  <2>1. ast[i].bases \in Seq(Names)
    BY RepoRuleAt
  <2> QED  BY <2>1
<1>2. \A b \in DOMAIN ast[i].bases : Named(ast[i].bases[b]) \in Seq(DOMAIN ast)
        /\ ToSet(Named(ast[i].bases[b])) = {k \in DOMAIN ast : ast[k].name = ast[i].bases[b]}
  BY <1>1, NamedElements
<1>3. seqs \in Seq(Seq(DOMAIN ast)) /\ DOMAIN seqs = DOMAIN ast[i].bases
  <2>1. seqs = [b \in 1..Len(ast[i].bases) |-> Named(ast[i].bases[b])]
    BY <1>1
  <2> QED  BY <1>1, <1>2, <2>1
<1>4. Bases(i) = FlattenSeq(seqs)
  BY DEF Bases
<1>5. \A b \in DOMAIN seqs : seqs[b] = Named(ast[i].bases[b])
  OBVIOUS
<1> HIDE DEF seqs
<1>6. FlattenSeq(seqs) \in Seq(DOMAIN ast)
      /\ ToSet(FlattenSeq(seqs)) = UNION {ToSet(seqs[b]) : b \in DOMAIN seqs}
  BY <1>3, FlattenElements
<1>7. ASSUME NEW k
      PROVE  k \in ToSet(Bases(i)) <=> k \in DOMAIN ast /\ ast[k].name \in ToSet(ast[i].bases)
  <2>1. k \in ToSet(Bases(i)) <=> \E b \in DOMAIN ast[i].bases : k \in ToSet(Named(ast[i].bases[b]))
    BY <1>3, <1>4, <1>5, <1>6
  <2>2. k \in ToSet(Bases(i)) <=> \E b \in DOMAIN ast[i].bases : k \in DOMAIN ast /\ ast[k].name = ast[i].bases[b]
    BY <1>2, <2>1
  <2> QED  BY <2>2, ElementMeans
<1> QED
  BY <1>4, <1>6, <1>7

-----------------------------------------------------------------------------
(* What a rule builds on, and the components that are collected for it.    *)

\* The closure of a rule is the least set with the rule that is closed under the
\* bases of its members.
LEMMA ClosureMeans ==
  ASSUME ast \in Seq(RepoRules), ByName, NEW i \in DOMAIN ast
  PROVE  /\ Closure(i) \subseteq DOMAIN ast /\ i \in Closure(i)
         /\ \A j \in Closure(i) : ToSet(Bases(j)) \subseteq Closure(i)
         /\ \A S \in SUBSET DOMAIN ast :
              i \in S /\ (\A j \in S : ToSet(Bases(j)) \subseteq S) => Closure(i) \subseteq S
<1> DEFINE closed == {S \in SUBSET DOMAIN ast : i \in S /\
                        \A j \in S : \A k \in DOMAIN ast : ast[k].name \in ToSet(ast[j].bases) => k \in S}
<1>1. Closure(i) = {j \in DOMAIN ast : \A S \in closed : j \in S}
  BY DEF Closure
<1>2. \A S \in SUBSET DOMAIN ast :
        S \in closed <=> i \in S /\ \A j \in S : ToSet(Bases(j)) \subseteq S
  <2> TAKE S \in SUBSET DOMAIN ast
  <2>1. \A j \in S : ToSet(Bases(j)) = {k \in DOMAIN ast : ast[k].name \in ToSet(ast[j].bases)}
    BY BasesElements
  <2> QED  BY <2>1
<1>3. \A S \in closed : S \in SUBSET DOMAIN ast
  OBVIOUS
<1> HIDE DEF closed
<1>4. \A j \in Closure(i) : ToSet(Bases(j)) \subseteq Closure(i)
  <2> SUFFICES ASSUME NEW j \in Closure(i), NEW k \in ToSet(Bases(j))
               PROVE  k \in Closure(i)
    OBVIOUS
  <2>1. j \in DOMAIN ast /\ k \in DOMAIN ast
    BY <1>1, BasesElements
  <2>2. \A S \in closed : k \in S
    BY <1>1, <1>2, <1>3
  <2> QED  BY <1>1, <2>1, <2>2
<1>5. i \in Closure(i)
  BY <1>1, <1>2, <1>3
<1> QED
  BY <1>1, <1>2, <1>4, <1>5

\* It has the rule itself and what its bases build on.
LEMMA ClosureOfBases ==
  ASSUME ast \in Seq(RepoRules), ByName, NEW i \in DOMAIN ast, NEW j
  PROVE  j \in Closure(i) <=> j = i \/ \E b \in ToSet(Bases(i)) : j \in Closure(b)
<1> DEFINE S == {k \in DOMAIN ast : k = i \/ \E b \in ToSet(Bases(i)) : k \in Closure(b)}
<1>1. \A b \in ToSet(Bases(i)) : b \in DOMAIN ast
  BY BasesElements
<1>2. \A k \in S : ToSet(Bases(k)) \subseteq S
  <2> SUFFICES ASSUME NEW k \in S, NEW l \in ToSet(Bases(k))
               PROVE  l \in S
    OBVIOUS
  <2>1. k \in DOMAIN ast /\ l \in DOMAIN ast
    BY BasesElements
  <2>2. CASE k = i
    <3>1. l \in Closure(l)
      BY <2>1, ClosureMeans
    <3> QED  BY <2>1, <2>2, <3>1
  <2>3. CASE k # i
    <3>1. PICK b \in ToSet(Bases(i)) : k \in Closure(b)
      BY <2>3
    <3>2. l \in Closure(b)
      BY <1>1, <3>1, ClosureMeans
    <3> QED  BY <2>1, <3>1, <3>2
  <2> QED  BY <2>2, <2>3
<1>3. i \in S /\ S \in SUBSET DOMAIN ast
  OBVIOUS
<1>4. Closure(i) \subseteq S
  <2> HIDE DEF S
  <2> QED  BY <1>2, <1>3, ClosureMeans
<1>5. ASSUME NEW b \in ToSet(Bases(i))
      PROVE  Closure(b) \subseteq Closure(i)
  <2>1. b \in Closure(i) /\ Closure(i) \in SUBSET DOMAIN ast
        /\ \A k \in Closure(i) : ToSet(Bases(k)) \subseteq Closure(i)
    BY ClosureMeans
  <2> QED  BY <1>1, <2>1, ClosureMeans
<1>6. i \in Closure(i)
  BY ClosureMeans
<1> QED
  BY <1>4, <1>5, <1>6

\* The rules at which chains of bases of each length begin.
LEMMA ChainsExist ==
  ASSUME ast \in Seq(RepoRules)
  PROVE  \E h : /\ \A i : HasChain(i) <=> i \in h[Len(ast)]
                /\ h[0] = DOMAIN ast
                /\ \A n \in 1..Len(ast) : \A i :
                     i \in h[n] <=> i \in DOMAIN ast /\ ToSet(Bases(i)) \cap h[n - 1] # {}
<1> DEFINE N == Len(ast)
           Chain(h) == h = [n \in 0..N |->
             IF n = 0 THEN DOMAIN ast ELSE {j \in DOMAIN ast : ToSet(Bases(j)) \cap h[n - 1] # {}}]
           chain == CHOOSE h : Chain(h)
           S == SUBSET DOMAIN ast
           step == [n \in 1..N |-> [v \in S |-> {j \in DOMAIN ast : ToSet(Bases(j)) \cap v # {}}]]
<1>1. \A i : HasChain(i) <=> i \in chain[N]
  BY DEF HasChain
<1>2. N \in Nat
  BY RepoRuleAt
<1>3. \E h : Chain(h)
  <2>1. step \in Steps(N, S) /\ DOMAIN ast \in S
    BY DEF Steps
  <2>2. Computations(N, S, DOMAIN ast, step) # {}
    <3> HIDE DEF step, N, S
    <3> QED  BY <1>2, <2>1, Recursion
  <2>3. PICK g : /\ g \in [0..N -> S] /\ g[0] = DOMAIN ast
                 /\ \A n \in 1..N : g[n] = step[n][g[n - 1]]
    BY <2>2 DEF Computations
  <2>4. ASSUME NEW n \in 0..N
        PROVE  g[n] = IF n = 0 THEN DOMAIN ast ELSE {j \in DOMAIN ast : ToSet(Bases(j)) \cap g[n - 1] # {}}
    <3>1. CASE n = 0
      BY <2>3, <3>1
    <3>2. CASE n # 0
      <4>1. n \in 1..N /\ n - 1 \in 0..N
        BY <1>2, <3>2
      <4>2. g[n - 1] \in S
        BY <2>3, <4>1
      <4> QED  BY <2>3, <3>2, <4>1, <4>2
    <3> QED  BY <3>1, <3>2
  <2>5. Chain(g)
    <3> HIDE DEF S, step
    <3> QED  BY <2>3, <2>4
  <2> QED  BY <2>5
<1>4. Chain(chain)
  <2> HIDE DEF Chain
  <2> QED  BY <1>3
<1> HIDE DEF chain
<1>5. chain[0] = DOMAIN ast
  BY <1>2, <1>4
<1>6. \A n \in 1..N : chain[n] = {j \in DOMAIN ast : ToSet(Bases(j)) \cap chain[n - 1] # {}}
  <2> TAKE n \in 1..N
  <2>1. n \in 0..N /\ n # 0
    BY <1>2
  <2> QED  BY <1>4, <2>1
<1> HIDE DEF Chain, N
<1>7. /\ \A i : HasChain(i) <=> i \in chain[N]
      /\ chain[0] = DOMAIN ast
      /\ \A n \in 1..N : \A i :
           i \in chain[n] <=> i \in DOMAIN ast /\ ToSet(Bases(i)) \cap chain[n - 1] # {}
  BY <1>1, <1>5, <1>6
<1> QED
  BY <1>7 DEF N

OwnList(i, kind) == CASE kind = "branches" -> ast[i].branches
                      [] kind = "tags"     -> ast[i].tags
                      [] kind = "content"  -> ast[i].content

\* The own components of a rule, one for each place in its list.
LEMMA OwnElements ==
  ASSUME ast \in Seq(RepoRules), NEW i \in DOMAIN ast, NEW kind \in Kinds
  PROVE  /\ Own(i, kind) \in Seq(Ids(kind)) /\ IsInjective(Own(i, kind))
         /\ \A e : e \in ToSet(Own(i, kind)) <=> \E k \in DOMAIN OwnList(i, kind) : e = <<i, kind, k>>
<1>1. \E X : OwnList(i, kind) \in Seq(X)
  <2>1. CASE kind = "branches"
    BY <2>1, RepoRuleAt DEF OwnList
  <2>2. CASE kind = "tags"
    BY <2>2, RepoRuleAt DEF OwnList
  <2>3. CASE kind = "content"
    BY <2>3, RepoRuleAt DEF OwnList
  <2> QED  BY <2>1, <2>2, <2>3 DEF Kinds
<1>2. Own(i, kind) = [k \in DOMAIN OwnList(i, kind) |-> <<i, kind, k>>]
  BY DEF Own, OwnList
<1>3. Len(OwnList(i, kind)) \in Nat /\ DOMAIN OwnList(i, kind) = 1..Len(OwnList(i, kind))
  BY <1>1
<1> HIDE DEF OwnList
<1>4. \A e : e \in ToSet(Own(i, kind)) <=> \E k \in DOMAIN OwnList(i, kind) : e = <<i, kind, k>>
  BY <1>2, ElementMeans
<1>5. IsInjective(Own(i, kind))
  BY <1>2 DEF IsInjective
<1>6. \A k \in DOMAIN OwnList(i, kind) : <<i, kind, k>> \in Ids(kind)
  BY <1>4 DEF Ids
<1>7. Own(i, kind) \in Seq(Ids(kind))
  BY <1>2, <1>3, <1>6
<1> QED
  BY <1>4, <1>5, <1>7

\* What is collected from the bases and added by the rule itself.
LEMMA CollectedTyped ==
  ASSUME ast \in Seq(RepoRules), ByName, NEW kind \in Kinds, NEW i \in DOMAIN ast,
         NEW v \in [DOMAIN ast -> Seq(Ids(kind))]
  PROVE  LET c == FlattenSeq([b \in DOMAIN Bases(i) |-> v[Bases(i)[b]]]) \o Own(i, kind)
         IN  /\ c \in Seq(Ids(kind))
             /\ \A e : e \in ToSet(c) <=>
                  e \in ToSet(Own(i, kind)) \/ \E b \in ToSet(Bases(i)) : e \in ToSet(v[b])
<1> DEFINE seqs == [b \in DOMAIN Bases(i) |-> v[Bases(i)[b]]]
           c == FlattenSeq(seqs) \o Own(i, kind)
<1>1. Bases(i) \in Seq(DOMAIN ast)
  BY BasesElements
<1>2. /\ Len(Bases(i)) \in Nat /\ DOMAIN Bases(i) = 1..Len(Bases(i))
      /\ \A b \in DOMAIN Bases(i) : Bases(i)[b] \in DOMAIN ast
  BY <1>1
<1>3. \A b \in DOMAIN Bases(i) : v[Bases(i)[b]] \in Seq(Ids(kind))
  BY <1>2
<1>4. seqs \in Seq(Seq(Ids(kind))) /\ DOMAIN seqs = DOMAIN Bases(i)
      /\ \A b \in DOMAIN Bases(i) : seqs[b] = v[Bases(i)[b]]
  BY <1>2, <1>3
<1> HIDE DEF seqs
<1>5. FlattenSeq(seqs) \in Seq(Ids(kind))
      /\ ToSet(FlattenSeq(seqs)) = UNION {ToSet(seqs[b]) : b \in DOMAIN seqs}
  BY <1>4, FlattenElements
<1>6. Own(i, kind) \in Seq(Ids(kind))
  BY OwnElements
<1>7. c \in Seq(Ids(kind)) /\ ToSet(c) = ToSet(FlattenSeq(seqs)) \cup ToSet(Own(i, kind))
  BY <1>5, <1>6, ConcatElements
<1>8. \A e : e \in ToSet(FlattenSeq(seqs)) <=> \E b \in DOMAIN Bases(i) : e \in ToSet(v[Bases(i)[b]])
  BY <1>4, <1>5
<1>9. \A e : e \in ToSet(FlattenSeq(seqs)) <=> \E b \in ToSet(Bases(i)) : e \in ToSet(v[b])
  BY <1>8, ElementMeans
<1> QED
  BY <1>7, <1>9 DEF seqs

\* What the function that Components is defined by returns for each depth.
LEMMA ComponentsExist ==
  ASSUME ast \in Seq(RepoRules), ByName, NEW kind \in Kinds
  PROVE  \E f : /\ \A i \in DOMAIN ast : Components(i, kind) = f[Len(ast)][i]
                /\ f \in [0..Len(ast) -> [DOMAIN ast -> Seq(Ids(kind))]]
                /\ \A i \in DOMAIN ast : f[0][i] = << >>
                /\ \A n \in 1..Len(ast) : \A i \in DOMAIN ast : \A e :
                     e \in ToSet(f[n][i]) <=>
                       e \in ToSet(Own(i, kind)) \/ \E b \in ToSet(Bases(i)) : e \in ToSet(f[n - 1][b])
<1> DEFINE N == Len(ast)
           S == [DOMAIN ast -> Seq(Ids(kind))]
           After(v) == [i \in DOMAIN ast |->
                          FlattenSeq([b \in DOMAIN Bases(i) |-> v[Bases(i)[b]]]) \o Own(i, kind)]
           Comp(f) == f = [n \in 0..N |-> [j \in DOMAIN ast |->
             IF n = 0 THEN << >>
             ELSE FlattenSeq([b \in DOMAIN Bases(j) |-> f[n - 1][Bases(j)[b]]]) \o Own(j, kind)]]
           comp == CHOOSE f : Comp(f)
           none == [i \in DOMAIN ast |-> << >>]
           step == [n \in 1..N |-> [v \in S |-> After(v)]]
<1>1. \A i : Components(i, kind) = comp[N][i]
  BY DEF Components
<1>2. N \in Nat
  BY RepoRuleAt
<1>3. \A v \in S : After(v) \in S
  BY CollectedTyped
<1>4. \E f : Comp(f)
  <2>1. step \in Steps(N, S) /\ none \in S
    <3> HIDE DEF After
    <3> QED  BY <1>3 DEF Steps
  <2>2. Computations(N, S, none, step) # {}
    <3> HIDE DEF step, N, S, none
    <3> QED  BY <1>2, <2>1, Recursion
  <2>3. PICK g : g \in [0..N -> S] /\ g[0] = none /\ \A n \in 1..N : g[n] = step[n][g[n - 1]]
    <3> HIDE DEF step, N, S, none
    <3> QED  BY <2>2 DEF Computations
  <2>4. ASSUME NEW n \in 0..N
        PROVE  g[n] = [j \in DOMAIN ast |->
                 IF n = 0 THEN << >>
                 ELSE FlattenSeq([b \in DOMAIN Bases(j) |-> g[n - 1][Bases(j)[b]]]) \o Own(j, kind)]
    <3>1. CASE n = 0
      BY <2>3, <3>1
    <3>2. CASE n # 0
      <4>1. n \in 1..N /\ n - 1 \in 0..N
        BY <1>2, <3>2
      <4>2. g[n - 1] \in S
        <5> HIDE DEF S
        <5> QED  BY <2>3, <4>1
      <4>3. g[n] = After(g[n - 1])
        <5> HIDE DEF S, After
        <5> QED  BY <2>3, <4>1, <4>2
      <4> QED  BY <3>2, <4>3
    <3> QED  BY <3>1, <3>2
  <2>5. g = [n \in 0..N |-> g[n]]
    <3> HIDE DEF S
    <3> QED  BY <2>3
  <2>6. Comp(g)
    BY <2>4, <2>5
  <2> HIDE DEF Comp
  <2> QED  BY <2>6
<1>5. Comp(comp)
  <2> HIDE DEF Comp
  <2> QED  BY <1>4
<1> HIDE DEF comp
<1>6. \A n \in 0..N : comp[n] = [j \in DOMAIN ast |->
        IF n = 0 THEN << >>
        ELSE FlattenSeq([b \in DOMAIN Bases(j) |-> comp[n - 1][Bases(j)[b]]]) \o Own(j, kind)]
  BY <1>5
<1>7. comp[0] = none
  <2>1. 0 \in 0..N
    BY <1>2
  <2>2. comp[0] = [j \in DOMAIN ast |->
          IF 0 = 0 THEN << >>
          ELSE FlattenSeq([b \in DOMAIN Bases(j) |-> comp[0 - 1][Bases(j)[b]]]) \o Own(j, kind)]
    BY <1>6, <2>1, Zenon
  <2> QED  BY <2>2
<1>8. \A n \in 1..N : comp[n] = After(comp[n - 1])
  <2> TAKE n \in 1..N
  <2>1. n \in 0..N /\ n # 0
    BY <1>2
  <2> QED  BY <1>6, <2>1
<1>9. \A n \in 0..N : comp[n] \in S
  <2> DEFINE T == {n \in 0..N : comp[n] \in S}
  <2>1. 0 \in T
    <3>1. none \in S /\ 0 \in 0..N
      BY <1>2
    <3> HIDE DEF S, none
    <3> QED  BY <1>7, <3>1
  <2>2. ASSUME NEW n \in 0..N, n \in T, n < N
        PROVE  n + 1 \in T
    <3>1. n + 1 \in 1..N /\ n + 1 \in 0..N /\ (n + 1) - 1 = n
      BY <1>2, <2>2
    <3> HIDE DEF After, S
    <3>2. comp[n + 1] = After(comp[n])
      BY <1>8, <3>1
    <3> QED  BY <1>3, <2>2, <3>1, <3>2
  <2> HIDE DEF T, N
  <2>3. \A n \in 0..N : n \in T
    BY <1>2, <2>1, <2>2, UpTo
  <2> QED  BY <2>3 DEF T
<1>10. comp \in [0..N -> S]
  <2>1. comp = [n \in 0..N |-> comp[n]]
    BY <1>5
  <2> HIDE DEF S, Comp
  <2> QED  BY <1>9, <2>1
<1>11. ASSUME NEW n \in 1..N, NEW i \in DOMAIN ast, NEW e
       PROVE  e \in ToSet(comp[n][i]) <=>
                e \in ToSet(Own(i, kind)) \/ \E b \in ToSet(Bases(i)) : e \in ToSet(comp[n - 1][b])
  <2>1. n - 1 \in 0..N
    BY <1>2
  <2>2. comp[n - 1] \in S
    <3> HIDE DEF S
    <3> QED  BY <1>9, <2>1
  <2>3. PICK v : v = comp[n - 1]
    OBVIOUS
  <2>4. comp[n][i] = FlattenSeq([b \in DOMAIN Bases(i) |-> v[Bases(i)[b]]]) \o Own(i, kind)
    <3>1. comp[n] = After(v)
      <4> HIDE DEF After
      <4> QED  BY <1>8, <2>3
    <3> QED  BY <3>1
  <2> QED  BY <2>2, <2>3, <2>4, CollectedTyped
<1>12. \A i \in DOMAIN ast : comp[0][i] = << >>
  BY <1>7
<1> HIDE DEF Comp, S
<1>13. PICK g : g = comp
  OBVIOUS
<1>14. /\ \A i \in DOMAIN ast : Components(i, kind) = g[N][i]
       /\ g \in [0..N -> S]
       /\ \A i \in DOMAIN ast : g[0][i] = << >>
       /\ \A n \in 1..N : \A i \in DOMAIN ast : \A e :
            e \in ToSet(g[n][i]) <=>
              e \in ToSet(Own(i, kind)) \/ \E b \in ToSet(Bases(i)) : e \in ToSet(g[n - 1][b])
  BY <1>1, <1>10, <1>11, <1>12, <1>13
<1>15. S = [DOMAIN ast -> Seq(Ids(kind))]
  BY DEF S
<1> HIDE DEF N
<1>16. /\ \A i \in DOMAIN ast : Components(i, kind) = g[N][i]
       /\ g \in [0..N -> [DOMAIN ast -> Seq(Ids(kind))]]
       /\ \A i \in DOMAIN ast : g[0][i] = << >>
       /\ \A n \in 1..N : \A i \in DOMAIN ast : \A e :
            e \in ToSet(g[n][i]) <=>
              e \in ToSet(Own(i, kind)) \/ \E b \in ToSet(Bases(i)) : e \in ToSet(g[n - 1][b])
  BY <1>14, <1>15, Zenon
<1> QED
  BY <1>16, ZenonT(40) DEF N

\* Components are own rules of what a rule builds on; all of them, if no chain of
\* bases is endless.
LEMMA ComponentsElements ==
  ASSUME ast \in Seq(RepoRules), ByName, NEW kind \in Kinds, NEW i \in DOMAIN ast
  PROVE  /\ Components(i, kind) \in Seq(Ids(kind))
         /\ \A e \in ToSet(Components(i, kind)) : \E j \in Closure(i) : e \in ToSet(Own(j, kind))
         /\ ~HasChain(i) =>
              \A j \in Closure(i) : ToSet(Own(j, kind)) \subseteq ToSet(Components(i, kind))
<1> DEFINE N == Len(ast)
<1>1. N \in Nat
  BY RepoRuleAt
<1>2. PICK f : /\ \A j \in DOMAIN ast : Components(j, kind) = f[N][j]
               /\ f \in [0..N -> [DOMAIN ast -> Seq(Ids(kind))]]
               /\ \A j \in DOMAIN ast : f[0][j] = << >>
               /\ \A n \in 1..N : \A j \in DOMAIN ast : \A e :
                    e \in ToSet(f[n][j]) <=>
                      e \in ToSet(Own(j, kind)) \/ \E b \in ToSet(Bases(j)) : e \in ToSet(f[n - 1][b])
  BY ComponentsExist
<1>3. PICK h : /\ \A j : HasChain(j) <=> j \in h[N]
               /\ h[0] = DOMAIN ast
               /\ \A n \in 1..N : \A j :
                    j \in h[n] <=> j \in DOMAIN ast /\ ToSet(Bases(j)) \cap h[n - 1] # {}
  BY ChainsExist
<1> HIDE DEF N
<1>4. \A j \in DOMAIN ast : \A b \in ToSet(Bases(j)) : b \in DOMAIN ast
  BY BasesElements
<1> DEFINE Sound(n) == \A j \in DOMAIN ast : \A e \in ToSet(f[n][j]) :
                         \E k \in Closure(j) : e \in ToSet(Own(k, kind))
           Complete(n) == \A j \in DOMAIN ast : j \notin h[n] =>
                            \A k \in Closure(j) : ToSet(Own(k, kind)) \subseteq ToSet(f[n][j])
           T == {n \in 0..N : Sound(n) /\ Complete(n)}
<1>5. 0 \in T
  <2>1. Sound(0)
    <3>1. ToSet(<< >>) = {}
      BY DEF ToSet
    <3> QED  BY <1>2, <3>1
  <2>2. Complete(0)
    BY <1>3
  <2> QED  BY <1>1, <2>1, <2>2
<1>6. ASSUME NEW n \in 0..N, n \in T, n < N
      PROVE  n + 1 \in T
  <2>1. n + 1 \in 1..N /\ n + 1 \in 0..N /\ (n + 1) - 1 = n
    BY <1>1, <1>6
  <2>2. \A j \in DOMAIN ast : \A e :
          e \in ToSet(f[n + 1][j]) <=>
            e \in ToSet(Own(j, kind)) \/ \E b \in ToSet(Bases(j)) : e \in ToSet(f[n][b])
    <3>1. \A m \in 1..N : \A j \in DOMAIN ast : \A e :
            e \in ToSet(f[m][j]) <=>
              e \in ToSet(Own(j, kind)) \/ \E b \in ToSet(Bases(j)) : e \in ToSet(f[m - 1][b])
      BY <1>2, Zenon
    <3>2. PICK m : m = n + 1
      OBVIOUS
    <3>3. m \in 1..N /\ m - 1 = n
      BY <2>1, <3>2
    <3>4. \A j \in DOMAIN ast : \A e :
            e \in ToSet(f[m][j]) <=>
              e \in ToSet(Own(j, kind)) \/ \E b \in ToSet(Bases(j)) : e \in ToSet(f[m - 1][b])
      BY <3>1, <3>3, Zenon
    <3> QED  BY ONLY <3>2, <3>3, <3>4
  <2>3. Sound(n) /\ Complete(n)
    BY <1>6
  <2>4. Sound(n + 1)
    <3> SUFFICES ASSUME NEW j \in DOMAIN ast, NEW e \in ToSet(f[n + 1][j])
                 PROVE  \E k \in Closure(j) : e \in ToSet(Own(k, kind))
      OBVIOUS
    <3>1. CASE e \in ToSet(Own(j, kind))
      BY <3>1, ClosureOfBases
    <3>2. CASE \E b \in ToSet(Bases(j)) : e \in ToSet(f[n][b])
      <4>1. PICK b \in ToSet(Bases(j)) : e \in ToSet(f[n][b])
        BY <3>2
      <4>2. PICK k \in Closure(b) : e \in ToSet(Own(k, kind))
        BY <1>4, <2>3, <4>1
      <4>3. k \in Closure(j)
        BY <4>1, <4>2, ClosureOfBases
      <4> QED  BY <4>2, <4>3
    <3> QED  BY <2>2, <3>1, <3>2
  <2>5. Complete(n + 1)
    <3> SUFFICES ASSUME NEW j \in DOMAIN ast, j \notin h[n + 1], NEW k \in Closure(j),
                        NEW e \in ToSet(Own(k, kind))
                 PROVE  e \in ToSet(f[n + 1][j])
      OBVIOUS
    <3>1. \A b \in ToSet(Bases(j)) : b \notin h[n]
      BY <1>3, <2>1
    <3>2. CASE k = j
      BY <2>2, <3>2
    <3>3. CASE k # j
      <4>1. PICK b \in ToSet(Bases(j)) : k \in Closure(b)
        BY <3>3, ClosureOfBases
      <4>2. e \in ToSet(f[n][b])
        BY <1>4, <2>3, <3>1, <4>1
      <4> QED  BY <2>2, <4>1, <4>2
    <3> QED  BY <3>2, <3>3
  <2> HIDE DEF Sound, Complete
  <2> QED  BY <2>1, <2>4, <2>5
<1>7. N \in T
  <2> HIDE DEF T
  <2>1. \A n \in 0..N : n \in T
    BY <1>1, <1>5, <1>6, UpTo
  <2>2. N \in 0..N
    BY <1>1
  <2> QED  BY <2>1, <2>2
<1>8. Sound(N) /\ Complete(N)
  BY <1>7
<1>9. Components(i, kind) = f[N][i] /\ f[N] \in [DOMAIN ast -> Seq(Ids(kind))]
  <2>1. N \in 0..N
    BY <1>1
  <2> QED  BY <1>2, <2>1
<1>10. Components(i, kind) \in Seq(Ids(kind))
  BY <1>9
<1> QED
  BY <1>3, <1>8, <1>9, <1>10

-----------------------------------------------------------------------------
(* The matches of a repository rule.                                       *)

ContentsOf(i) == IF ast[i].content = << >> THEN {NoContent} ELSE ToSet(Components(i, "content"))

\* What an identifier is.
LEMMA IdMeans ==
  ASSUME ast \in Seq(RepoRules), NEW kind \in Kinds, NEW id \in Ids(kind)
  PROVE  /\ id = <<id[1], kind, id[3]>> /\ id[1] \in DOMAIN ast /\ id[2] = kind
         /\ id[3] \in DOMAIN OwnList(id[1], kind)
<1>1. PICK i \in DOMAIN ast : id \in ToSet(Own(i, kind))
  BY DEF Ids
<1>2. PICK k \in DOMAIN OwnList(i, kind) : id = <<i, kind, k>>
  BY <1>1, OwnElements
<1> HIDE DEF OwnList
<1>3. id[1] = i /\ id[2] = kind /\ id[3] = k
  BY <1>2
<1> QED
  BY <1>1, <1>2, <1>3

\* Branches and tags are never the same.
LEMMA RefsElements ==
  ASSUME ast \in Seq(RepoRules), ByName, NEW i \in DOMAIN ast
  PROVE  LET refs == Components(i, "branches") \o Components(i, "tags")
         IN  /\ refs \in Seq(RefIds)
             /\ ToSet(refs) = ToSet(Components(i, "branches")) \cup ToSet(Components(i, "tags"))
             /\ IsInjective(Components(i, "branches")) /\ IsInjective(Components(i, "tags"))
                  => IsInjective(refs)
<1> DEFINE b == Components(i, "branches")
           t == Components(i, "tags")
<1>1. b \in Seq(Ids("branches")) /\ t \in Seq(Ids("tags"))
  BY ComponentsElements DEF Kinds
<1>2. b \in Seq(RefIds) /\ t \in Seq(RefIds)
  <2>1. Ids("branches") \subseteq RefIds /\ Ids("tags") \subseteq RefIds
    BY DEF RefIds
  <2> HIDE DEF b, t
  <2> QED  BY <1>1, <2>1, SeqMonotonic
<1>3. ToSet(b) \cap ToSet(t) = {}
  <2> SUFFICES ASSUME NEW e \in ToSet(b), e \in ToSet(t)
               PROVE  FALSE
    OBVIOUS
  <2> HIDE DEF b, t
  <2>1. e \in Ids("branches") /\ e \in Ids("tags")
    BY <1>1, ElementMeans
  <2>2. e[2] = "branches" /\ e[2] = "tags"
    BY <2>1, IdMeans DEF Kinds
  <2> QED  BY <2>2
<1> HIDE DEF b, t
<1>4. /\ b \o t \in Seq(RefIds) /\ ToSet(b \o t) = ToSet(b) \cup ToSet(t)
      /\ IsInjective(b) /\ IsInjective(t) => IsInjective(b \o t)
  BY <1>2, <1>3, ConcatElements
<1> QED
  BY <1>4 DEF b, t

\* A match for every branch and tag with every content; each once, if no component
\* is collected twice.
LEMMA MatchesElements ==
  ASSUME ast \in Seq(RepoRules), ByName, NEW i \in DOMAIN ast
  PROVE  /\ IsSequence(Matches(i))
         /\ \A m : m \in ToSet(Matches(i)) <=>
              \E b \in ToSet(Components(i, "branches")) \cup ToSet(Components(i, "tags")) :
              \E c \in ContentsOf(i) : m = [repo |-> i, branch |-> b, content |-> c]
         /\ (\A kind \in Kinds : IsInjective(Components(i, kind))) => IsInjective(Matches(i))
<1> DEFINE content == IF ast[i].content = << >> THEN <<NoContent>> ELSE Components(i, "content")
           refs == Components(i, "branches") \o Components(i, "tags")
           seqs == [b \in DOMAIN refs |->
                      [c \in DOMAIN content |-> [repo |-> i, branch |-> refs[b], content |-> content[c]]]]
           C == Ids("content") \cup {NoContent}
           M == [repo : {i}, branch : RefIds, content : C]
<1>1. /\ refs \in Seq(RefIds)
      /\ ToSet(refs) = ToSet(Components(i, "branches")) \cup ToSet(Components(i, "tags"))
      /\ (\A kind \in Kinds : IsInjective(Components(i, kind))) => IsInjective(refs)
  BY RefsElements DEF Kinds
<1>2. /\ content \in Seq(C) /\ ToSet(content) = ContentsOf(i)
      /\ (\A kind \in Kinds : IsInjective(Components(i, kind))) => IsInjective(content)
  <2>1. CASE ast[i].content = << >>
    <3>1. content = <<NoContent>> /\ ContentsOf(i) = {NoContent}
      BY <2>1 DEF ContentsOf
    <3>2. <<NoContent>> \in Seq(C) /\ DOMAIN <<NoContent>> = {1} /\ <<NoContent>>[1] = NoContent
      OBVIOUS
    <3>3. ToSet(<<NoContent>>) = {NoContent} /\ IsInjective(<<NoContent>>)
      BY <3>2 DEF ToSet, IsInjective
    <3> QED  BY <3>1, <3>2, <3>3
  <2>2. CASE ast[i].content # << >>
    <3>1. content = Components(i, "content") /\ ContentsOf(i) = ToSet(Components(i, "content"))
      BY <2>2 DEF ContentsOf
    <3>2. Components(i, "content") \in Seq(Ids("content")) /\ Ids("content") \subseteq C
      BY ComponentsElements DEF Kinds
    <3> HIDE DEF C
    <3>3. Components(i, "content") \in Seq(C)
      BY <3>2, SeqMonotonic
    <3> QED  BY <3>1, <3>3 DEF Kinds
  <2> QED  BY <2>1, <2>2
<1>3. Matches(i) = FlattenSeq(seqs)
  BY DEF Matches
<1> HIDE DEF content, refs
<1>4. /\ Len(refs) \in Nat /\ DOMAIN refs = 1..Len(refs) /\ \A b \in DOMAIN refs : refs[b] \in RefIds
      /\ Len(content) \in Nat /\ DOMAIN content = 1..Len(content)
      /\ \A c \in DOMAIN content : content[c] \in C
  BY <1>1, <1>2
<1>5. ASSUME NEW b \in DOMAIN refs
      PROVE  /\ seqs[b] \in Seq(M) /\ DOMAIN seqs[b] = DOMAIN content
             /\ \A c \in DOMAIN content : seqs[b][c] = [repo |-> i, branch |-> refs[b], content |-> content[c]]
  <2>1. seqs[b] = [c \in DOMAIN content |-> [repo |-> i, branch |-> refs[b], content |-> content[c]]]
    OBVIOUS
  <2>2. \A c \in DOMAIN content : [repo |-> i, branch |-> refs[b], content |-> content[c]] \in M
    BY <1>4
  <2> HIDE DEF seqs, M
  <2>3. seqs[b] \in Seq(M)
    BY <1>4, <2>1, <2>2
  <2> QED  BY <2>1, <2>3
<1>6. DOMAIN seqs = 1..Len(refs)
  BY <1>4
<1>7. seqs \in Seq(Seq(M))
  <2>1. seqs = [b \in 1..Len(refs) |-> seqs[b]]
    BY <1>4
  <2> HIDE DEF seqs, M
  <2> QED  BY <1>4, <1>5, <2>1
<1> HIDE DEF seqs, M
<1>8. /\ FlattenSeq(seqs) \in Seq(M)
      /\ ToSet(FlattenSeq(seqs)) = UNION {ToSet(seqs[b]) : b \in DOMAIN seqs}
      /\ (/\ \A b \in DOMAIN seqs : IsInjective(seqs[b])
          /\ \A b, d \in DOMAIN seqs : b # d => ToSet(seqs[b]) \cap ToSet(seqs[d]) = {})
           => IsInjective(FlattenSeq(seqs))
  BY <1>7, FlattenElements
<1>9. \A m : m \in ToSet(Matches(i)) <=>
        \E b \in DOMAIN refs, c \in DOMAIN content :
          m = [repo |-> i, branch |-> refs[b], content |-> content[c]]
  <2>1. ASSUME NEW b \in DOMAIN refs, NEW m
        PROVE  m \in ToSet(seqs[b]) <=>
                 \E c \in DOMAIN content : m = [repo |-> i, branch |-> refs[b], content |-> content[c]]
    <3>1. m \in ToSet(seqs[b]) <=> \E c \in DOMAIN seqs[b] : seqs[b][c] = m
      BY ElementMeans
    <3>2. DOMAIN seqs[b] = DOMAIN content
      BY <1>5
    <3>3. \A c \in DOMAIN content :
            seqs[b][c] = [repo |-> i, branch |-> refs[b], content |-> content[c]]
      BY <1>5
    <3> QED  BY <3>1, <3>2, <3>3
  <2>2. \A m : m \in ToSet(Matches(i)) <=> \E b \in DOMAIN refs : m \in ToSet(seqs[b])
    BY <1>3, <1>4, <1>6, <1>8
  <2> QED  BY <2>1, <2>2
<1>10. \A m : m \in ToSet(Matches(i)) <=>
         \E b \in ToSet(refs), c \in ToSet(content) : m = [repo |-> i, branch |-> b, content |-> c]
  BY <1>9, ElementMeans
<1>11. ASSUME \A kind \in Kinds : IsInjective(Components(i, kind))
       PROVE  IsInjective(Matches(i))
  <2>1. IsInjective(refs) /\ IsInjective(content)
    BY <1>1, <1>2, <1>11
  <2>2. \A b \in DOMAIN seqs : IsInjective(seqs[b])
    <3> TAKE b \in DOMAIN seqs
    <3>1. b \in DOMAIN refs
      BY <1>4, <1>6
    <3> SUFFICES ASSUME NEW c \in DOMAIN content, NEW d \in DOMAIN content, seqs[b][c] = seqs[b][d]
                 PROVE  c = d
      BY <1>5, <3>1 DEF IsInjective
    <3>2. content[c] = content[d]
      <4>1. /\ seqs[b][c] = [repo |-> i, branch |-> refs[b], content |-> content[c]]
            /\ seqs[b][d] = [repo |-> i, branch |-> refs[b], content |-> content[d]]
        BY <1>5, <3>1
      <4>2. [repo |-> i, branch |-> refs[b], content |-> content[c]].content = content[c]
            /\ [repo |-> i, branch |-> refs[b], content |-> content[d]].content = content[d]
        OBVIOUS
      <4> QED  BY <4>1, <4>2
    <3> QED  BY <2>1, <3>2 DEF IsInjective
  <2>3. ASSUME NEW b \in DOMAIN seqs, NEW d \in DOMAIN seqs, b # d
        PROVE  ToSet(seqs[b]) \cap ToSet(seqs[d]) = {}
    <3> SUFFICES ASSUME NEW m \in ToSet(seqs[b]), m \in ToSet(seqs[d])
                 PROVE  FALSE
      OBVIOUS
    <3>1. b \in DOMAIN refs /\ d \in DOMAIN refs
      BY <1>4, <1>6
    <3>2. \A x \in DOMAIN refs : m \in ToSet(seqs[x]) => m.branch = refs[x]
      <4> SUFFICES ASSUME NEW x \in DOMAIN refs, m \in ToSet(seqs[x])
                   PROVE  m.branch = refs[x]
        OBVIOUS
      <4>1. PICK c \in DOMAIN content : m = [repo |-> i, branch |-> refs[x], content |-> content[c]]
        <5>1. \E c \in DOMAIN seqs[x] : seqs[x][c] = m
          BY ElementMeans
        <5> QED  BY <1>5, <5>1
      <4> QED  BY <4>1
    <3>3. m.branch = refs[b] /\ m.branch = refs[d]
      BY <3>1, <3>2
    <3> QED  BY <2>1, <2>3, <3>1, <3>3 DEF IsInjective
  <2> QED  BY <1>3, <1>8, <2>2, <2>3
<1>12. IsSequence(Matches(i))
  BY <1>3, <1>8, SequenceOfItsElements
<1> QED
  BY <1>1, <1>2, <1>10, <1>11, <1>12

-----------------------------------------------------------------------------
(* The rule of a match.                                                    *)

\* Texts without slashes at their ends.
Stripped == {text \in Seq(Chars) : text # << >> => text[1] # Slash /\ text[Len(text)] # Slash}

\* What path::path makes of a text has no slashes at its ends.
LEMMA TrimmedStripped ==
  ASSUME NEW text \in Seq(Chars)
  PROVE  Trimmed(text) \in Stripped
<1> DEFINE kept == {i \in DOMAIN text : text[i] # Slash}
<1>1. Len(text) \in Nat /\ DOMAIN text = 1..Len(text) /\ \A i \in 1..Len(text) : text[i] \in Chars
  OBVIOUS
<1>2. CASE kept = {}
  BY <1>2 DEF Trimmed, Stripped
<1>3. CASE kept # {}
  <2>1. kept \in SUBSET Nat /\ kept \in SUBSET (0..Len(text))
    BY <1>1
  <2>2. PICK min, max : min = Min(kept) /\ max = Max(kept)
    OBVIOUS
  <2>3. Trimmed(text) = SubSeq(text, min, max)
    BY <1>3, <2>2 DEF Trimmed
  <2>4. min \in kept /\ max \in kept /\ min <= max
    <3> HIDE DEF kept
    <3>1. min \in kept /\ \A i \in kept : min <= i
      BY <1>3, <2>1, <2>2, LeastMember
    <3>2. max \in kept
      BY <1>1, <1>3, <2>1, <2>2, GreatestMember
    <3> QED  BY <3>1, <3>2
  <2>5. min \in 1..Len(text) /\ max \in 1..Len(text) /\ text[min] # Slash /\ text[max] # Slash
    BY <1>1, <2>4
  <2> HIDE DEF kept
  <2>6. /\ SubSeq(text, min, max) \in Seq(Chars) /\ Len(SubSeq(text, min, max)) = max - min + 1
        /\ \A i \in 1..(max - min + 1) : SubSeq(text, min, max)[i] = text[min + i - 1]
    <3>1. SubSeq(text, min, max) \in Seq(Chars)
      BY <1>1, <2>5
    <3>2. Len(SubSeq(text, min, max)) = max - min + 1
      BY <1>1, <2>4, <2>5
    <3>3. \A i \in 1..(max - min + 1) : SubSeq(text, min, max)[i] = text[min + i - 1]
      BY <1>1, <2>4, <2>5
    <3> QED  BY <3>1, <3>2, <3>3
  <2>7. /\ 1 \in 1..(max - min + 1) /\ max - min + 1 \in 1..(max - min + 1)
        /\ min + 1 - 1 = min /\ min + (max - min + 1) - 1 = max
    BY <2>4, <2>5
  <2> DEFINE t == SubSeq(text, min, max)
  <2>8. t \in Seq(Chars) /\ t[1] # Slash /\ t[Len(t)] # Slash
    BY <2>5, <2>6, <2>7
  <2> HIDE DEF t
  <2>9. t \in Stripped
    BY <2>8 DEF Stripped
  <2> QED  BY <2>3, <2>9 DEF t
<1> QED
  BY <1>2, <1>3

\* Nor does one path below another.
LEMMA BelowStripped ==
  ASSUME NEW p \in Stripped, NEW q \in Stripped
  PROVE  Below(p, q) \in Stripped
<1>1. /\ p \in Seq(Chars) /\ Len(p) \in Nat /\ (p # << >> => Len(p) > 0 /\ p[1] # Slash /\ p[Len(p)] # Slash)
      /\ q \in Seq(Chars) /\ Len(q) \in Nat /\ (q # << >> => Len(q) > 0 /\ q[1] # Slash /\ q[Len(q)] # Slash)
  <2>1. \A s \in Seq(Chars) : Len(s) \in Nat /\ (s # << >> => Len(s) > 0)
    BY EmptySeq
  <2> QED  BY <2>1 DEF Stripped
<1>2. CASE p = << >>
  BY <1>1, <1>2 DEF Below
<1>3. CASE q = << >>
  BY <1>1, <1>3 DEF Below
<1>4. CASE p # << >> /\ q # << >>
  <2> DEFINE ps == p \o <<Slash>>
             t == ps \o q
  <2>1. ps \in Seq(Chars) /\ Len(ps) = Len(p) + 1 /\ ps[1] = p[1]
    BY <1>1, <1>4, RuleAssumption
  <2> HIDE DEF ps
  <2>2. t \in Seq(Chars) /\ Len(t) = Len(ps) + Len(q) /\ t[1] = ps[1] /\ t[Len(ps) + Len(q)] = q[Len(q)]
    BY <1>1, <1>4, <2>1
  <2>3. t \in Stripped
    <3> HIDE DEF t
    <3> QED  BY <1>1, <1>4, <2>1, <2>2 DEF Stripped
  <2>4. Below(p, q) = t
    BY <1>4 DEF Below, t, ps
  <2> QED  BY <2>3, <2>4
<1> QED
  BY <1>2, <1>3, <1>4

\* The branch, tag or content rule with an identifier.
LEMMA BranchRuleTyped ==
  ASSUME ast \in Seq(RepoRules), NEW id \in RefIds
  PROVE  /\ id[1] \in DOMAIN ast /\ id[2] \in {"branches", "tags"}
         /\ id[3] \in DOMAIN ast[id[1]][id[2]] /\ BranchRule(id) = ast[id[1]][id[2]][id[3]]
         /\ BranchRule(id) \in ParsedBranches
<1>1. CASE id \in Ids("branches")
  <2>1. id[1] \in DOMAIN ast /\ id[2] = "branches" /\ id[3] \in DOMAIN ast[id[1]].branches
    BY <1>1, IdMeans DEF Kinds, OwnList
  <2>2. ast[id[1]].branches \in Seq(ParsedBranches)
    BY <2>1, RepoRuleAt
  <2>3. ast[id[1]].branches[id[3]] \in ParsedBranches
    BY <2>1, <2>2
  <2> QED  BY <2>1, <2>3 DEF BranchRule
<1>2. CASE id \in Ids("tags")
  <2>1. id[1] \in DOMAIN ast /\ id[2] = "tags" /\ id[3] \in DOMAIN ast[id[1]].tags
    BY <1>2, IdMeans DEF Kinds, OwnList
  <2>2. ast[id[1]].tags \in Seq(ParsedBranches)
    BY <2>1, RepoRuleAt
  <2>3. ast[id[1]].tags[id[3]] \in ParsedBranches
    BY <2>1, <2>2
  <2> QED  BY <2>1, <2>3 DEF BranchRule
<1> QED
  BY <1>1, <1>2 DEF RefIds

\* Likewise for content.
LEMMA ContentRuleTyped ==
  ASSUME ast \in Seq(RepoRules), NEW id \in Ids("content")
  PROVE  /\ id[1] \in DOMAIN ast /\ id[3] \in DOMAIN ast[id[1]].content /\ id # NoContent
         /\ ContentRule(id) \in ContentRules
<1>1. id[1] \in DOMAIN ast /\ id[3] \in DOMAIN ast[id[1]].content /\ id = <<id[1], "content", id[3]>>
  BY IdMeans DEF Kinds, OwnList
<1>2. ast[id[1]].content \in Seq(ContentRules)
  BY <1>1, RepoRuleAt
<1>3. ast[id[1]].content[id[3]] \in ContentRules
  BY <1>1, <1>2
<1>4. id # NoContent
  <2>1. \A x, y, z : <<x, y, z>> # << >>
    OBVIOUS
  <2> QED  BY <1>1, <2>1 DEF NoContent
<1> QED
  BY <1>1, <1>3, <1>4 DEF ContentRule

\* A match has the repository it is made for, a branch or tag, and content or none.
LEMMA MatchTyped ==
  ASSUME ast \in Seq(RepoRules), ByName, NEW i \in DOMAIN ast, NEW m \in ToSet(Matches(i))
  PROVE  m.repo = i /\ m.branch \in RefIds /\ m.content \in Ids("content") \cup {NoContent}
<1>1. PICK b \in ToSet(Components(i, "branches")) \cup ToSet(Components(i, "tags")) :
      \E c \in ContentsOf(i) : m = [repo |-> i, branch |-> b, content |-> c]
  BY MatchesElements
<1>2. PICK c \in ContentsOf(i) : m = [repo |-> i, branch |-> b, content |-> c]
  BY <1>1
<1>3. \A kind \in Kinds : \A e \in ToSet(Components(i, kind)) : e \in Ids(kind)
  BY ComponentsElements, ElementMeans
<1>4. b \in RefIds
  BY <1>3 DEF RefIds, Kinds
<1>5. c \in Ids("content") \cup {NoContent}
  BY <1>3 DEF ContentsOf, Kinds
<1> QED
  BY <1>2, <1>4, <1>5

\* Its rule is a rule, which may be inserted if it ever is in force.
LEMMA RuleOfTyped ==
  ASSUME ast \in Seq(RepoRules), ByName, NEW i \in DOMAIN ast, NEW m \in ToSet(Matches(i))
  PROVE  /\ RuleOf(m) \in Rule /\ RuleOf(m).svn \in Stripped
         /\ EverInForce(m) <=> RuleOf(m).min <= RuleOf(m).max
         /\ EverInForce(m) => RuleOf(m) \in Insertable
<1>1. m.repo = i /\ m.branch \in RefIds /\ m.content \in Ids("content") \cup {NoContent}
  BY MatchTyped
<1>2. /\ BranchRule(m.branch).svn \in Seq(Chars) /\ BranchRule(m.branch).name \in RefNames
      /\ BranchRule(m.branch).min \in Revisions /\ BranchRule(m.branch).max \in Revisions
      /\ m.branch[2] \in {"branches", "tags"}
  BY <1>1, BranchRuleTyped DEF ParsedBranches
<1>3. ast[i].name \in Names /\ ast[i].minrev \in Revisions /\ ast[i].maxrev \in Revisions
  BY RepoRuleAt
<1>4. MinRev(m) \in 0..Forever /\ MaxRev(m) \in 0..Forever
  BY <1>1, <1>2, <1>3, RevisionsAre DEF MinRev, MaxRev, Larger, Smaller
<1>5. <<ast[m.repo].name, Qualified(m.branch)>> \in Chars \ {Slash}
  BY <1>1, <1>2, <1>3, FilesAssumption DEF Qualified
<1> DEFINE svn == IF m.content = NoContent THEN << >> ELSE Trimmed(ContentRule(m.content).svn)
           git == IF m.content = NoContent THEN << >> ELSE Trimmed(ContentRule(m.content).git)
<1>6. svn \in Stripped /\ git \in Stripped
  <2>1. CASE m.content = NoContent
    BY <2>1 DEF Stripped
  <2>2. CASE m.content # NoContent
    <3>1. ContentRule(m.content).svn \in Seq(Chars) /\ ContentRule(m.content).git \in Seq(Chars)
      BY <1>1, <2>2, ContentRuleTyped DEF ContentRules
    <3> QED  BY <2>2, <3>1, TrimmedStripped
  <2> QED  BY <2>1, <2>2
<1>7. RuleOf(m) = [svn |-> Below(Trimmed(BranchRule(m.branch).svn), svn),
                   ref |-> <<ast[m.repo].name, Qualified(m.branch)>>, git |-> git,
                   min |-> MinRev(m), max |-> MaxRev(m)]
  BY DEF RuleOf
<1> HIDE DEF svn, git
<1>8. Below(Trimmed(BranchRule(m.branch).svn), svn) \in Stripped
  BY <1>2, <1>6, TrimmedStripped, BelowStripped
<1>9. Stripped \subseteq Seq(Chars)
  BY DEF Stripped
<1>10. RuleOf(m) \in Rule
  BY <1>4, <1>5, <1>6, <1>7, <1>8, <1>9 DEF Rule
<1>11. RuleOf(m).svn \in Stripped /\ RuleOf(m).ref # Slash /\ RuleOf(m).min = MinRev(m) /\ RuleOf(m).max = MaxRev(m)
  BY <1>5, <1>7, <1>8
<1>12. ~IsPrefix(<<Slash>>, RuleOf(m).git)
  <2>1. RuleOf(m).git = git /\ git \in Seq(Chars) /\ Len(git) \in Nat
        /\ (Len(git) > 0 => git[1] # Slash)
    BY <1>6, <1>7, <1>9 DEF Stripped
  <2>2. Slash \in Chars
    BY RuleAssumption
  <2>3. PICK l : l = <<Slash>>
    OBVIOUS
  <2>4. l \in Seq(Chars) /\ Len(l) = 1 /\ l[1] = Slash
    BY <2>2, <2>3
  <2>5. PICK g : g = git
    OBVIOUS
  <2>6. IsPrefix(l, g) => Len(l) <= Len(g) /\ \A k \in 1..Len(l) : l[k] = g[k]
    <3>1. g \in Seq(Chars)
      BY <2>1, <2>5
    <3>2. l \in Seq(Chars)
      BY <2>4
    <3> QED  BY ONLY <3>1, <3>2, PrefixMeans
  <2>7. 1 \in 1..Len(l)
    BY <2>4
  <2> QED  BY <2>1, <2>3, <2>4, <2>5, <2>6, <2>7
<1> QED
  BY <1>10, <1>11, <1>12 DEF EverInForce, Insertable

-----------------------------------------------------------------------------
(* What the parts of the invariant depend on.                              *)

\* What is defined by the AST stays as it is.
LEMMA AstKept ==
  ASSUME UNCHANGED ast
  PROVE  /\ Imported' = Imported /\ RefIds' = RefIds
         /\ \A i : Matches(i)' = Matches(i) /\ HasChain(i)' = HasChain(i) /\ MissesBase(i)' = MissesBase(i)
         /\ \A i, kind : Components(i, kind)' = Components(i, kind)
         /\ \A m : EverInForce(m)' = EverInForce(m) /\ RuleOf(m)' = RuleOf(m)
         /\ \A I : Wanted(I)' = Wanted(I)
<1>1. Imported' = Imported
  BY DEF Imported
<1>2. \A i, kind : Own(i, kind)' = Own(i, kind)
  BY DEF Own
<1>3. RefIds' = RefIds
  BY DEF RefIds, Ids, Own
<1>4. \A i, kind : Components(i, kind)' = Components(i, kind)
  BY DEF Components, Bases, Named, Own
<1>5. \A i : Matches(i)' = Matches(i)
  BY DEF Matches, Components, Bases, Named, Own
<1>6. \A i : HasChain(i)' = HasChain(i)
  BY DEF HasChain, Bases, Named
<1>7. \A i : MissesBase(i)' = MissesBase(i)
  BY DEF MissesBase, Bases, Named
<1>8. \A m : EverInForce(m)' = EverInForce(m)
  BY DEF EverInForce, MinRev, MaxRev, BranchRule
<1>9. \A m : RuleOf(m)' = RuleOf(m)
  BY DEF RuleOf, MinRev, MaxRev, BranchRule, ContentRule, Qualified
<1>10. \A I : Wanted(I)' = Wanted(I)
  BY <1>5, <1>8 DEF Wanted
<1> QED
  BY <1>1, <1>3, <1>4, <1>5, <1>6, <1>7, <1>8, <1>9, <1>10

\* Whether a file is legal depends on what is parsed of it.
LEMMA LegalKept ==
  ASSUME UNCHANGED <<ast, parsing>>
  PROVE  Legal' = Legal
<1>1. /\ Imported' = Imported /\ UNCHANGED <<ast, parsing>>
      /\ \A i : Matches(i)' = Matches(i) /\ HasChain(i)' = HasChain(i) /\ MissesBase(i)' = MissesBase(i)
      /\ \A i, kind : Components(i, kind)' = Components(i, kind)
      /\ \A m : EverInForce(m)' = EverInForce(m) /\ RuleOf(m)' = RuleOf(m)
  BY AstKept
<1> QED
  BY <1>1 DEF Legal

\* The parsed file stays after parsing.
LEMMA FileStable ==
  ASSUME FileInv, UNCHANGED fileVars,
         \/ pc # "parse" /\ pc # "failed" /\ pc' # "parse"
         \/ UNCHANGED <<pc, rules, declared>>
  PROVE  FileInv'
<1>1. UNCHANGED <<parsing, file, ast>>
  BY DEF fileVars
<1> QED
  BY <1>1 DEF FileInv, ByName

\* What is said of the repositories does not depend on how an insertion ends.
LEMMA RepositoriesStable ==
  ASSUME RepositoriesInv, UNCHANGED <<ast, next, repositories, superModule>>,
         \/ pc' = pc
         \/ pc' \in {"failed", "crashed", "ready"}
         \/ pc = "collect" /\ pc' = "insert"
  PROVE  RepositoriesInv'
<1>1. Imported' = Imported
  BY DEF Imported
<1> QED
  BY <1>1 DEF RepositoriesInv

\* The trie invariant depends on the trie.
LEMMA TrieStable ==
  ASSUME TrieInv, UNCHANGED trieVars
  PROVE  TrieInv'
<1>1. rejected \in BOOLEAN
  BY DEF TrieInv, RadixTree, TypeOK
<1> QED
  BY <1>1, InvStable DEF trieVars

\* What is said of the matches depends on which repository rules are reached.
LEMMA MatchesStable ==
  ASSUME MatchesInv, UNCHANGED <<ast, rules, origin, todo>>,
         \/ UNCHANGED <<pc, next>>
         \/ pc' \in {"failed", "crashed"}
         \/ /\ pc \notin {"failed", "crashed"} /\ (pc = "insert" => todo = << >>)
            /\ pc' \in {"collect", "submodules", "ready"} /\ Reached' = Reached
  PROVE  MatchesInv'
<1>1. /\ Imported' = Imported
      /\ \A i : Matches(i)' = Matches(i) /\ HasChain(i)' = HasChain(i)
      /\ \A m : EverInForce(m)' = EverInForce(m) /\ RuleOf(m)' = RuleOf(m)
      /\ \A I : Wanted(I)' = Wanted(I)
  BY AstKept
<1>2. pc' \notin {"failed", "crashed"} => Reached' = Reached
  BY <1>1 DEF Reached
<1> QED
  BY <1>1, <1>2 DEF MatchesInv, IsSequence

\* What is said of the coverage depends on the pairs and the origin of rules.
LEMMA DeclaredStable ==
  ASSUME DeclaredInv, UNCHANGED <<ast, declared, matched, origin>>
  PROVE  DeclaredInv'
<1>1. RefIds' = RefIds
  BY AstKept
<1>2. \A k : MatchedPair(k)' = MatchedPair(k)
  BY DEF MatchedPair
<1> QED
  BY <1>1, <1>2 DEF DeclaredInv

\* Whether a match is new depends on those inserted and those to do.
LEMMA FreshStable ==
  ASSUME FreshInv, UNCHANGED <<ast, pc, todo, origin>>
  PROVE  FreshInv'
<1>1. Imported' = Imported /\ \A i, kind : Components(i, kind)' = Components(i, kind)
  BY AstKept
<1> QED
  BY <1>1 DEF FreshInv

\* Nothing is refused by a step that does not fail.
LEMMA LegalStable ==
  ASSUME LegalAccepted, UNCHANGED <<ast, parsing>>, pc' = pc \/ pc' \notin {"failed", "crashed"}
  PROVE  LegalAccepted'
BY LegalKept DEF LegalAccepted

\* A step that changes nothing keeps everything.
LEMMA RulesetStutters ==
  ASSUME RulesetInv, UNCHANGED rulesetVars
  PROVE  RulesetInv'
<1>1. UNCHANGED fileVars /\ UNCHANGED trieVars /\ UNCHANGED buildVars /\ UNCHANGED coverageVars
  BY DEF rulesetVars
<1>2. UNCHANGED <<parsing, ast, rules, pc, next, todo, repositories, superModule, origin, declared, matched>>
  BY <1>1 DEF fileVars, trieVars, buildVars, coverageVars
<1> QED
  BY <1>1, <1>2, FileStable, RepositoriesStable, TrieStable, MatchesStable, DeclaredStable,
     FreshStable, LegalStable DEF RulesetInv

-----------------------------------------------------------------------------
(* The initial states, and parsing.                                        *)

\* The empty sequence has no elements.
LEMMA NoElements == ToSet(<< >>) = {} /\ IsSequence(<< >>) /\ IsInjective(<< >>)
<1>1. DOMAIN << >> = {}
  OBVIOUS
<1>2. << >> \in Seq({})
  OBVIOUS
<1> QED
  BY <1>1, <1>2, SequenceOfItsElements DEF ToSet, IsInjective

\* Nothing is parsed, inserted or declared at first.
LEMMA RulesetInitInv == RulesetInit => RulesetInv
<1> SUFFICES ASSUME RulesetInit
             PROVE  RulesetInv
  OBVIOUS
<1>1. /\ parsing = "parsing" /\ file \in Files /\ ast = << >> /\ Init
      /\ pc = "parse" /\ next = 1 /\ todo = << >> /\ repositories = << >>
      /\ DOMAIN superModule = {} /\ origin = << >> /\ declared = {} /\ matched = {}
  BY DEF RulesetInit, FileInit
<1>2. rules = << >> /\ TrieInv
  <2>1. rules = << >>
    BY <1>1 DEF Init
  <2> QED  BY <1>1, <2>1, InitInv
<1>3. Imported = {} /\ Len(ast) = 0
  BY <1>1 DEF Imported
<1>4. FileInv
  BY <1>1, <1>2, FilesAssumption DEF FileInv, ByName
<1>5. RepositoriesInv
  BY <1>1, <1>3 DEF RepositoriesInv
<1>6. MatchesInv
  <2>1. Reached = {} /\ Wanted({}) = {}
    BY <1>1 DEF Reached, Wanted
  <2> QED  BY <1>1, <1>2, <1>3, <2>1, NoElements DEF MatchesInv
<1>7. DeclaredInv
  BY <1>1, FS_EmptySet DEF DeclaredInv
<1>8. FreshInv /\ LegalAccepted
  BY <1>1 DEF FreshInv, LegalAccepted
<1> QED
  BY <1>2, <1>4, <1>5, <1>6, <1>7, <1>8 DEF RulesetInv

\* A rule goes behind those with its name.
LEMMA InsertedInOrder ==
  ASSUME ast \in Seq(RepoRules), ByName, NEW rule \in RepoRules, ast' = Inserted(rule)
  PROVE  ast' \in Seq(RepoRules) /\ ByName' /\ Len(ast') = Len(ast) + 1
<1> DEFINE P == {i \in DOMAIN ast : ast[i].name > rule.name} \cup {Len(ast) + 1}
<1>1. Len(ast) \in Nat /\ DOMAIN ast = 1..Len(ast) /\ \A i \in 1..Len(ast) : ast[i].name \in Nat
  BY RepoRuleAt
<1>2. rule.name \in Nat
  BY FilesAssumption DEF RepoRules
<1>3. P \in SUBSET Nat /\ P # {}
  BY <1>1
<1>4. PICK p : p = Min(P)
  OBVIOUS
<1>5. p \in P /\ \A i \in P : p <= i
  <2> HIDE DEF P
  <2> QED  BY <1>3, <1>4, LeastMember
<1>6. p \in 1..Len(ast) + 1 /\ (p <= Len(ast) => ast[p].name > rule.name)
  BY <1>1, <1>5
<1>7. \A i \in 1..Len(ast) : i < p => ast[i].name <= rule.name
  <2> SUFFICES ASSUME NEW i \in 1..Len(ast), i < p
               PROVE  ast[i].name <= rule.name
    OBVIOUS
  <2>1. i \notin P
    BY <1>1, <1>5
  <2> QED  BY <1>1, <1>2, <2>1
<1>8. ast' = InsertAt(ast, p, rule)
  BY <1>4 DEF Inserted
<1> HIDE DEF P
<1>9. /\ ast' \in Seq(RepoRules) /\ Len(ast') = Len(ast) + 1
      /\ \A i \in 1..Len(ast) + 1 : ast'[i] = IF i < p THEN ast[i] ELSE IF i = p THEN rule ELSE ast[i - 1]
  <2> DEFINE new == InsertAt(ast, p, rule)
             R == RepoRules
  <2>1. rule \in R /\ ast \in Seq(R)
    OBVIOUS
  <2> HIDE DEF R
  <2>2. /\ new \in Seq(R) /\ Len(new) = Len(ast) + 1
        /\ \A i \in 1..Len(ast) + 1 : new[i] = IF i < p THEN ast[i] ELSE IF i = p THEN rule ELSE ast[i - 1]
    BY <1>6, <2>1, InsertAtProperties
  <2>3. ast' = new
    BY <1>8
  <2> HIDE DEF new
  <2>4. /\ ast' \in Seq(R) /\ Len(ast') = Len(ast) + 1
        /\ \A i \in 1..Len(ast) + 1 : ast'[i] = IF i < p THEN ast[i] ELSE IF i = p THEN rule ELSE ast[i - 1]
    BY <2>2, <2>3
  <2> QED  BY <2>4 DEF R
<1>10. \A i, j \in 1..Len(ast) : i < j => ast[i].name <= ast[j].name
  BY <1>1 DEF ByName
<1>11. \A i, j \in 1..Len(ast) + 1 : i < j => ast'[i].name <= ast'[j].name
  <2> SUFFICES ASSUME NEW i \in 1..Len(ast) + 1, NEW j \in 1..Len(ast) + 1, i < j
               PROVE  ast'[i].name <= ast'[j].name
    OBVIOUS
  <2>1. CASE j < p
    <3>1. i \in 1..Len(ast) /\ j \in 1..Len(ast) /\ i < p
      BY <1>1, <1>6, <2>1
    <3> QED  BY <1>9, <1>10, <2>1, <3>1
  <2>2. CASE j = p
    <3>1. i \in 1..Len(ast) /\ i < p
      BY <1>1, <1>6, <2>2
    <3> QED  BY <1>7, <1>9, <2>2, <3>1
  <2>3. CASE p < j
    <3>1. j - 1 \in 1..Len(ast) /\ ast'[j] = ast[j - 1] /\ p <= j - 1
      BY <1>1, <1>6, <1>9, <2>3
    <3>2. p \in 1..Len(ast)
      BY <1>1, <1>6, <3>1
    <3>3. ast[p].name <= ast[j - 1].name
      <4>1. CASE p = j - 1
        BY <1>1, <3>2, <4>1
      <4>2. CASE p < j - 1
        BY <1>10, <3>1, <3>2, <4>2
      <4> QED  BY <1>6, <3>1, <4>1, <4>2
    <3>4. CASE i < p
      <4>1. i \in 1..Len(ast)
        BY <1>1, <1>6, <3>2, <3>4
      <4>2. ast'[i] = ast[i]
        BY <1>9, <3>4
      <4>3. i < j - 1
        BY <1>6, <3>1, <3>4
      <4> QED  BY <1>10, <3>1, <4>1, <4>2, <4>3
    <3>5. CASE i = p
      <4>1. ast'[i] = rule
        BY <1>9, <3>5
      <4> QED  BY <1>1, <1>2, <1>6, <3>1, <3>2, <3>3, <4>1
    <3>6. CASE p < i
      <4>1. i - 1 \in 1..Len(ast) /\ ast'[i] = ast[i - 1] /\ i - 1 < j - 1
        BY <1>1, <1>6, <1>9, <3>6
      <4> QED  BY <1>10, <3>1, <4>1
    <3> QED  BY <1>6, <3>4, <3>5, <3>6
  <2> QED  BY <1>6, <2>1, <2>2, <2>3
<1>12. DOMAIN ast' = 1..Len(ast) + 1
  BY <1>9
<1> QED
  BY <1>9, <1>11, <1>12 DEF ByName

\* One more repository rule is parsed, or parsing ends.
LEMMA ParseKeeps ==
  ASSUME RulesetInv, ParseFile
  PROVE  RulesetInv'
<1>1. /\ pc = "parse" /\ Parse
      /\ UNCHANGED <<trieVars, next, todo, repositories, superModule, origin, coverageVars>>
      /\ pc' = CASE parsing' = "parsing" -> "parse"
                 [] parsing' = "parsed"  -> "collect"
                 [] parsing' = "failed"  -> "failed"
  BY DEF ParseFile
<1>2. UNCHANGED <<rules, next, todo, repositories, superModule, origin, declared, matched>>
  BY <1>1 DEF trieVars, coverageVars
<1>3. /\ FileInv /\ RepositoriesInv /\ TrieInv /\ MatchesInv /\ DeclaredInv
  BY DEF RulesetInv
<1>4. /\ file \in Seq(Blocks) /\ ast \in Seq(RepoRules) /\ ByName /\ parsing = "parsing"
      /\ rules = << >> /\ declared = {}
      /\ next = 1 /\ repositories = << >> /\ DOMAIN superModule = {} /\ todo = << >>
  BY <1>1, <1>3 DEF FileInv, RepositoriesInv, MatchesInv
<1>5. origin = << >>
  <2>1. IsSequence(origin) /\ Len(origin) = Len(rules)
    BY <1>3 DEF MatchesInv
  <2> QED  BY <1>4, <2>1, EmptySeq DEF IsSequence
<1>6. /\ file' \in Seq(Blocks) /\ ast' \in Seq(RepoRules) /\ ByName' /\ Len(ast') \in Nat
      /\ parsing' \in {"parsing", "parsed", "failed"}
  <2>1. CASE ParseEnds
    <3>1. UNCHANGED <<file, ast>> /\ parsing' \in {"parsed", "failed"}
      BY <2>1 DEF ParseEnds
    <3> QED  BY <1>4, <3>1 DEF ByName
  <2>2. CASE ParseRepository
    <3>1. CASE parsing' = "failed" /\ UNCHANGED <<file, ast>>
      BY <1>4, <3>1 DEF ByName
    <3>2. CASE ast' = Inserted(RepoRuleOf(Head(file))) /\ file' = Tail(file) /\ UNCHANGED parsing
      <4>1. file # << >>
        BY <2>2 DEF ParseRepository
      <4>2. Head(file) \in Blocks /\ Tail(file) \in Seq(Blocks)
        <5> DEFINE B == Blocks
        <5>1. file \in Seq(B)
          BY <1>4
        <5> HIDE DEF B
        <5>2. Head(file) \in B /\ Tail(file) \in Seq(B)
          BY <4>1, <5>1
        <5> QED  BY <5>2 DEF B
      <4>3. RepoRuleOf(Head(file)) \in RepoRules
        BY <4>2, RepoRuleTyped
      <4>4. ast' \in Seq(RepoRules) /\ ByName' /\ Len(ast') = Len(ast) + 1
        BY <1>4, <3>2, <4>3, InsertedInOrder
      <4>5. Len(ast) \in Nat
        BY <1>4
      <4> QED  BY <1>4, <3>2, <4>2, <4>4, <4>5
    <3> QED  BY <2>2, <3>1, <3>2 DEF ParseRepository
  <2> QED  BY <1>1, <2>1, <2>2 DEF Parse
<1>7. /\ pc' \in {"parse", "collect", "failed"}
      /\ pc' = "parse" => parsing' = "parsing"
      /\ pc' = "collect" => parsing' = "parsed"
      /\ pc' = "failed" => parsing' = "failed"
  BY <1>1, <1>6
<1>8. FileInv'
  BY <1>2, <1>4, <1>6, <1>7 DEF FileInv
<1>9. RepositoriesInv'
  BY <1>2, <1>4, <1>6, <1>7 DEF RepositoriesInv
<1>10. TrieInv'
  BY <1>1, <1>3, TrieStable
<1>11. MatchesInv'
  <2>1. pc' # "failed" => Reached' = {}
    <3>1. \A i \in Imported' : i \in Nat /\ ~ (i < 1)
      <4>1. DOMAIN ast' = 1..Len(ast')
        BY <1>6
      <4> QED  BY <1>6, <4>1 DEF Imported
    <3> QED  BY <1>2, <1>4, <1>7, <3>1 DEF Reached
  <2>2. Wanted({})' = {}
    BY DEF Wanted
  <2>3. {m \in ToSet(<< >>) : EverInForce(m)'} = {}
    BY NoElements
  <2>4. todo' = << >> /\ origin' = << >> /\ rules' = << >>
    BY <1>2, <1>4, <1>5
  <2>5. pc' # "failed" => (ToSet(origin) \cup {m \in ToSet(todo) : EverInForce(m)} = Wanted(Reached))'
                          /\ (\A i \in Reached : ~HasChain(i))'
    BY <2>1, <2>2, <2>3, <2>4, NoElements
  <2> QED  BY <1>7, <2>4, <2>5, NoElements DEF MatchesInv
<1>12. DeclaredInv'
  <2>1. matched' = {} /\ declared' = {} /\ origin' = << >>
    BY <1>2, <1>3, <1>4, <1>5 DEF DeclaredInv
  <2> QED  BY <2>1, FS_EmptySet DEF DeclaredInv
<1>13. FreshInv' /\ LegalAccepted'
  BY <1>7 DEF FreshInv, LegalAccepted, Legal
<1> QED
  BY <1>8, <1>9, <1>10, <1>11, <1>12, <1>13 DEF RulesetInv

-----------------------------------------------------------------------------
(* The steps that expand a repository rule.                                *)

\* A sequence that is not empty is its head and its tail.
LEMMA HeadAndTail ==
  ASSUME NEW s, IsSequence(s), s # << >>
  PROVE  /\ IsSequence(Tail(s)) /\ ToSet(s) = ToSet(Tail(s)) \cup {Head(s)}
         /\ IsInjective(s) => IsInjective(Tail(s)) /\ Head(s) \notin ToSet(Tail(s))
<1> DEFINE S == ToSet(s)
           t == Tail(s)
<1>1. s \in Seq(S)
  BY DEF IsSequence
<1> HIDE DEF S
<1>2. /\ Len(s) \in Nat /\ Len(s) > 0 /\ DOMAIN s = 1..Len(s) /\ Head(s) = s[1]
      /\ t \in Seq(S) /\ DOMAIN t = 1..Len(s) - 1 /\ \A i \in 1..Len(s) - 1 : t[i] = s[i + 1]
  BY <1>1, EmptySeq
<1> HIDE DEF t
<1>3. IsSequence(t)
  BY <1>2, SequenceOfItsElements
<1>4. ASSUME NEW e
      PROVE  (\E i \in DOMAIN s : s[i] = e) <=> (\E i \in DOMAIN t : t[i] = e) \/ e = Head(s)
  <2>1. ASSUME NEW i \in DOMAIN s, s[i] = e
        PROVE  (\E j \in DOMAIN t : t[j] = e) \/ e = Head(s)
    <3>1. CASE i = 1
      BY <1>2, <2>1, <3>1
    <3>2. CASE i # 1
      <4>1. i - 1 \in DOMAIN t /\ (i - 1) + 1 = i
        BY <1>2, <3>2
      <4> QED  BY <1>2, <2>1, <4>1
    <3> QED  BY <3>1, <3>2
  <2>2. ASSUME NEW i \in DOMAIN t, t[i] = e
        PROVE  \E j \in DOMAIN s : s[j] = e
    <3>1. i + 1 \in DOMAIN s /\ s[i + 1] = e
      BY <1>2, <2>2
    <3> QED  BY <3>1
  <2>3. 1 \in DOMAIN s
    BY <1>2
  <2> QED  BY <1>2, <2>1, <2>2, <2>3
<1>5. ToSet(s) = ToSet(t) \cup {Head(s)}
  <2>1. \A e : e \in ToSet(s) <=> e \in ToSet(t) \/ e = Head(s)
    BY <1>4, ElementMeans
  <2> QED  BY <2>1
<1>6. ASSUME IsInjective(s)
      PROVE  IsInjective(t) /\ Head(s) \notin ToSet(t)
  <2>1. \A i, j \in 1..Len(s) : s[i] = s[j] => i = j
    BY <1>2, <1>6 DEF IsInjective
  <2>2. \A i \in 1..Len(s) - 1 : i + 1 \in 1..Len(s) /\ i + 1 # 1 /\ t[i] = s[i + 1]
    BY <1>2
  <2>3. IsInjective(t)
    <3> SUFFICES ASSUME NEW i \in 1..Len(s) - 1, NEW j \in 1..Len(s) - 1, t[i] = t[j]
                 PROVE  i = j
      BY <1>2 DEF IsInjective
    <3>1. i + 1 = j + 1
      BY <2>1, <2>2
    <3> QED  BY <1>2, <3>1
  <2>4. Head(s) \notin ToSet(t)
    <3>1. \A i \in DOMAIN t : t[i] # Head(s)
      <4>1. 1 \in 1..Len(s)
        BY <1>2
      <4> QED  BY <1>2, <2>1, <2>2, <4>1
    <3> QED  BY <3>1, ElementMeans
  <2> QED  BY <2>3, <2>4
<1> QED
  BY <1>3, <1>5, <1>6 DEF t

\* Imported rules are numbers up to the length of the AST.
LEMMA ImportedAre ==
  ASSUME ast \in Seq(RepoRules)
  PROVE  Len(ast) \in Nat /\ Imported \subseteq DOMAIN ast /\ \A i \in Imported : i \in 1..Len(ast)
BY RepoRuleAt DEF Imported

\* The wanted matches of a rule are its own.
LEMMA WantedMeans ==
  ASSUME ast \in Seq(RepoRules), ByName, NEW I \in SUBSET Imported
  PROVE  /\ \A m \in Wanted(I) : m.repo \in I /\ m \in ToSet(Matches(m.repo)) /\ EverInForce(m)
         /\ \A i \in I : \A m \in ToSet(Matches(i)) : EverInForce(m) => m \in Wanted(I)
<1>1. \A i \in Imported : \A m \in ToSet(Matches(i)) : m.repo = i
  BY MatchTyped, ImportedAre
<1> QED
  BY <1>1 DEF Wanted

\* The matches of a repository rule are collected, unless it is abstract or its bases
\* are wrong.
LEMMA CollectKeeps ==
  ASSUME RulesetInv, Collect
  PROVE  RulesetInv'
<1>1. /\ pc = "collect" /\ next <= Len(ast)
      /\ UNCHANGED fileVars /\ UNCHANGED trieVars /\ UNCHANGED coverageVars
      /\ UNCHANGED <<repositories, superModule, origin>>
  BY DEF Collect
<1>2. UNCHANGED <<ast, parsing, rules, declared, matched>>
  BY <1>1 DEF fileVars, trieVars, coverageVars
<1>3. /\ FileInv /\ RepositoriesInv /\ TrieInv /\ MatchesInv /\ DeclaredInv /\ FreshInv /\ LegalAccepted
  BY DEF RulesetInv
<1>4. /\ ast \in Seq(RepoRules) /\ ByName /\ Len(ast) \in Nat /\ next \in 1..Len(ast)
      /\ next \in DOMAIN ast
  <2>1. ast \in Seq(RepoRules) /\ ByName
    BY <1>3 DEF FileInv
  <2>2. Len(ast) \in Nat /\ DOMAIN ast = 1..Len(ast)
    BY <2>1, RepoRuleAt
  <2>3. next \in 1..Len(ast) + 1
    BY <1>3 DEF RepositoriesInv
  <2> QED  BY <1>1, <2>1, <2>2, <2>3
<1>5. TrieInv' /\ DeclaredInv'
  BY <1>1, <1>2, <1>3, TrieStable, DeclaredStable
<1>6. CASE ast[next].abstract /\ next' = next + 1 /\ UNCHANGED <<pc, todo>>
  <2>1. FileInv' /\ LegalAccepted' /\ FreshInv'
    <3>1. LegalAccepted'
      BY <1>2, <1>3, <1>6, LegalStable
    <3>2. FreshInv'
      BY <1>1, <1>6 DEF FreshInv
    <3> QED  BY <1>1, <1>3, <1>6, <3>1, <3>2, FileStable
  <2>2. Imported' = Imported
    BY <1>2 DEF Imported
  <2>3. RepositoriesInv'
    <3>1. Len(repositories) < next + 1 /\ next + 1 \in 1..Len(ast) + 1
      <4>1. Len(repositories) < next
            /\ repositories \in Seq({[name |-> ast[i].name, submodule |-> ast[i].submodule] : i \in Imported})
        BY <1>1, <1>3 DEF RepositoriesInv
      <4>2. Len(repositories) \in Nat
        BY <4>1
      <4> QED  BY <1>4, <4>1, <4>2
    <3> QED  BY <1>1, <1>2, <1>3, <1>6, <2>2, <3>1 DEF RepositoriesInv
  <2>4. Reached' = Reached
    <3>1. next \notin Imported
      BY <1>6 DEF Imported
    <3>2. \A i \in Imported : i \in Nat /\ (i < next + 1 <=> i < next)
      BY <1>4, <3>1, ImportedAre
    <3> QED  BY <1>1, <1>6, <2>2, <3>2 DEF Reached
  <2>5. MatchesInv'
    BY <1>1, <1>2, <1>3, <1>6, <2>4, MatchesStable
  <2> QED  BY <1>5, <2>1, <2>3, <2>5 DEF RulesetInv
<1>7. CASE /\ ~ast[next].abstract /\ (MissesBase(next) \/ HasChain(next))
           /\ pc' \in {"failed", "crashed"} /\ UNCHANGED <<next, todo>>
  <2>1. FileInv' /\ RepositoriesInv' /\ MatchesInv'
    BY <1>1, <1>2, <1>3, <1>7, FileStable, RepositoriesStable, MatchesStable
  <2>2. FreshInv'
    BY <1>7 DEF FreshInv
  <2>3. LegalAccepted'
    <3>1. next \in Imported
      BY <1>4, <1>7 DEF Imported
    <3>2. ~Legal
      BY <1>7, <3>1 DEF Legal
    <3> QED  BY <1>2, <3>2, LegalKept DEF LegalAccepted
  <2> QED  BY <1>5, <2>1, <2>2, <2>3 DEF RulesetInv
<1>8. CASE /\ ~ast[next].abstract /\ ~HasChain(next)
           /\ pc' = "insert" /\ todo' = Matches(next) /\ UNCHANGED next
  <2>1. next \in Imported
    BY <1>4, <1>8 DEF Imported
  <2>2. /\ Imported' = Imported
        /\ \A i : Matches(i)' = Matches(i) /\ HasChain(i)' = HasChain(i)
        /\ \A m : EverInForce(m)' = EverInForce(m) /\ RuleOf(m)' = RuleOf(m)
        /\ \A I : Wanted(I)' = Wanted(I)
        /\ \A i, kind : Components(i, kind)' = Components(i, kind)
    BY <1>2, AstKept
  <2>3. FileInv' /\ RepositoriesInv' /\ LegalAccepted'
    BY <1>1, <1>2, <1>3, <1>8, FileStable, RepositoriesStable, LegalStable
  <2>4. Reached' = Reached \cup {next} /\ Reached = {i \in Imported : i < next} /\ Reached \in SUBSET Imported
    <3>1. Reached = {i \in Imported : i < next}
      BY <1>1 DEF Reached
    <3>2. Reached' = {i \in Imported : i <= next}
      BY <1>8, <2>2 DEF Reached
    <3>3. \A i \in Imported : i \in Nat /\ (i <= next <=> i < next \/ i = next)
      BY <1>4, ImportedAre
    <3> QED  BY <2>1, <3>1, <3>2, <3>3
  <2>5. ToSet(origin) = Wanted(Reached) /\ (\A i \in Reached : ~HasChain(i))
    <3>1. todo = << >> /\ ToSet(origin) \cup {m \in ToSet(todo) : EverInForce(m)} = Wanted(Reached)
          /\ (\A i \in Reached : ~HasChain(i))
      BY <1>1, <1>3 DEF MatchesInv
    <3> QED  BY <3>1, NoElements
  <2>6. Wanted(Reached \cup {next}) = Wanted(Reached) \cup {m \in ToSet(Matches(next)) : EverInForce(m)}
    BY DEF Wanted
  <2>7. IsSequence(Matches(next))
    BY <1>4, MatchesElements
  <2>8. MatchesInv'
    <3>1. (ToSet(origin) \cup {m \in ToSet(todo) : EverInForce(m)} = Wanted(Reached))'
      BY <1>1, <1>8, <2>2, <2>4, <2>5, <2>6
    <3>2. (\A i \in Reached : ~HasChain(i))'
      BY <1>8, <2>2, <2>4, <2>5
    <3> QED  BY <1>1, <1>2, <1>3, <1>8, <2>1, <2>2, <2>7, <3>1, <3>2 DEF MatchesInv, IsSequence
  <2>9. FreshInv'
    <3> SUFFICES ASSUME \A i \in Imported, kind \in Kinds : IsInjective(Components(i, kind))
                 PROVE  IsInjective(Matches(next)) /\ ToSet(Matches(next)) \cap ToSet(origin) = {}
      BY <1>1, <1>8, <2>2 DEF FreshInv
    <3>1. IsInjective(Matches(next))
      BY <1>4, <2>1, MatchesElements
    <3>2. \A m \in ToSet(Matches(next)) : m.repo = next
      BY <1>4, MatchTyped
    <3>3. \A m \in ToSet(origin) : m.repo \in Reached
      BY <1>4, <2>4, <2>5, WantedMeans
    <3>4. next \notin Reached
      BY <1>4, <2>4
    <3> QED  BY <3>1, <3>2, <3>3, <3>4
  <2> QED  BY <1>5, <2>3, <2>8, <2>9 DEF RulesetInv
<1> QED
  BY <1>6, <1>7, <1>8 DEF Collect

\* A match that is never in force is not among those wanted.
LEMMA SkipKeeps ==
  ASSUME RulesetInv, SkipMatch
  PROVE  RulesetInv'
<1>1. /\ pc = "insert" /\ todo # << >> /\ ~EverInForce(Head(todo)) /\ todo' = Tail(todo)
      /\ UNCHANGED fileVars /\ UNCHANGED trieVars /\ UNCHANGED coverageVars
      /\ UNCHANGED <<pc, next, repositories, superModule, origin>>
  BY DEF SkipMatch
<1>2. UNCHANGED <<ast, parsing, rules, declared, matched>>
  BY <1>1 DEF fileVars, trieVars, coverageVars
<1>3. /\ FileInv /\ RepositoriesInv /\ TrieInv /\ MatchesInv /\ DeclaredInv /\ FreshInv /\ LegalAccepted
  BY DEF RulesetInv
<1>4. FileInv' /\ RepositoriesInv' /\ TrieInv' /\ DeclaredInv' /\ LegalAccepted'
  BY <1>1, <1>2, <1>3, FileStable, RepositoriesStable, TrieStable, DeclaredStable, LegalStable
<1>5. /\ Imported' = Imported
      /\ \A i : Matches(i)' = Matches(i) /\ HasChain(i)' = HasChain(i)
      /\ \A m : EverInForce(m)' = EverInForce(m) /\ RuleOf(m)' = RuleOf(m)
      /\ \A I : Wanted(I)' = Wanted(I)
      /\ \A i, kind : Components(i, kind)' = Components(i, kind)
  BY <1>2, AstKept
<1>6. /\ IsSequence(Tail(todo)) /\ ToSet(todo) = ToSet(Tail(todo)) \cup {Head(todo)}
      /\ IsInjective(todo) => IsInjective(Tail(todo))
  <2>1. IsSequence(todo)
    BY <1>3 DEF MatchesInv
  <2> QED  BY <1>1, <2>1, HeadAndTail
<1>7. MatchesInv'
  <2>1. Reached' = Reached
    BY <1>1, <1>5 DEF Reached
  <2>2. {m \in ToSet(Tail(todo)) : EverInForce(m)} = {m \in ToSet(todo) : EverInForce(m)}
    BY <1>1, <1>6
  <2> QED  BY <1>1, <1>2, <1>3, <1>5, <1>6, <2>1, <2>2 DEF MatchesInv, IsSequence
<1>8. FreshInv'
  BY <1>1, <1>3, <1>5, <1>6 DEF FreshInv
<1> QED
  BY <1>4, <1>7, <1>8 DEF RulesetInv

-----------------------------------------------------------------------------
(* The steps between and after the insertions.                             *)

\* What a repository rule adds to repositories.
RepositoryOf(i) == [name |-> ast[i].name, submodule |-> ast[i].submodule]

\* All matches of a repository rule are inserted.
LEMMA RepositoryDoneKeeps ==
  ASSUME RulesetInv, RepositoryDone
  PROVE  RulesetInv'
<1>1. /\ pc = "insert" /\ todo = << >> /\ next' = next + 1 /\ pc' = "collect"
      /\ repositories' = Append(repositories, RepositoryOf(next))
      /\ UNCHANGED fileVars /\ UNCHANGED trieVars /\ UNCHANGED coverageVars
      /\ UNCHANGED <<todo, superModule, origin>>
  BY DEF RepositoryDone, RepositoryOf
<1>2. UNCHANGED <<ast, parsing, rules, declared, matched>>
  BY <1>1 DEF fileVars, trieVars, coverageVars
<1>3. /\ FileInv /\ RepositoriesInv /\ TrieInv /\ MatchesInv /\ DeclaredInv /\ FreshInv /\ LegalAccepted
  BY DEF RulesetInv
<1>4. FileInv' /\ TrieInv' /\ DeclaredInv' /\ LegalAccepted'
  BY <1>1, <1>2, <1>3, FileStable, TrieStable, DeclaredStable, LegalStable
<1>5. /\ Imported' = Imported /\ next \in Imported /\ next \in 1..Len(ast) /\ Len(ast) \in Nat
      /\ \A i \in Imported : i \in Nat
  <2>1. ast \in Seq(RepoRules) /\ next \in Imported
    BY <1>1, <1>3 DEF FileInv, MatchesInv
  <2> QED  BY <1>2, <2>1, ImportedAre DEF Imported
<1>6. RepositoriesInv'
  <2> DEFINE R == {RepositoryOf(i) : i \in Imported}
  <2>1. repositories \in Seq(R) /\ Len(repositories) < next /\ DOMAIN superModule = {}
    BY <1>1, <1>3 DEF RepositoriesInv, RepositoryOf
  <2>2. RepositoryOf(next) \in R /\ R' = R
    BY <1>2, <1>5 DEF RepositoryOf
  <2> HIDE DEF R
  <2>3. repositories' \in Seq(R) /\ Len(repositories') = Len(repositories) + 1 /\ Len(repositories) \in Nat
    BY <1>1, <2>1, <2>2
  <2>4. repositories' \in Seq(R')
    BY <2>2, <2>3
  <2>5. (repositories \in Seq({[name |-> ast[i].name, submodule |-> ast[i].submodule] : i \in Imported}))'
    BY <2>4 DEF R, RepositoryOf
  <2> QED  BY <1>1, <1>2, <1>5, <2>1, <2>3, <2>5 DEF RepositoriesInv
<1>7. Reached' = Reached
  BY <1>1, <1>5 DEF Reached
<1>8. MatchesInv'
  BY <1>1, <1>2, <1>3, <1>7, MatchesStable
<1>9. FreshInv'
  BY <1>1 DEF FreshInv
<1> QED
  BY <1>4, <1>6, <1>8, <1>9 DEF RulesetInv

\* All repository rules have been expanded.
LEMMA BuiltKeeps ==
  ASSUME RulesetInv, Built
  PROVE  RulesetInv'
<1>1. /\ pc = "collect" /\ next > Len(ast) /\ pc' = "submodules" /\ next' = 1
      /\ UNCHANGED fileVars /\ UNCHANGED trieVars /\ UNCHANGED coverageVars
      /\ UNCHANGED <<todo, repositories, superModule, origin>>
  BY DEF Built
<1>2. UNCHANGED <<ast, parsing, rules, declared, matched>>
  BY <1>1 DEF fileVars, trieVars, coverageVars
<1>3. /\ FileInv /\ RepositoriesInv /\ TrieInv /\ MatchesInv /\ DeclaredInv /\ FreshInv /\ LegalAccepted
  BY DEF RulesetInv
<1>4. FileInv' /\ TrieInv' /\ DeclaredInv' /\ LegalAccepted'
  BY <1>1, <1>2, <1>3, FileStable, TrieStable, DeclaredStable, LegalStable
<1>5. Imported' = Imported /\ Len(ast) \in Nat /\ next \in 1..Len(ast) + 1 /\ \A i \in Imported : i \in 1..Len(ast)
  <2>1. ast \in Seq(RepoRules) /\ next \in 1..Len(ast) + 1
    BY <1>3 DEF FileInv, RepositoriesInv
  <2> QED  BY <1>2, <2>1, ImportedAre DEF Imported
<1>6. RepositoriesInv'
  BY <1>1, <1>2, <1>3, <1>5 DEF RepositoriesInv
<1>7. Reached' = Reached
  <2>1. \A i \in Imported : i < next
    BY <1>1, <1>5
  <2> QED  BY <1>1, <1>5, <2>1 DEF Reached
<1>8. MatchesInv' /\ FreshInv'
  BY <1>1, <1>2, <1>3, <1>7, MatchesStable DEF FreshInv
<1> QED
  BY <1>4, <1>6, <1>8 DEF RulesetInv

\* A repository of the list is that of an imported rule.
LEMMA RepositoryAt ==
  ASSUME RepositoriesInv, NEW k \in DOMAIN repositories
  PROVE  /\ k \in 1..Len(repositories) /\ Len(repositories) \in Nat
         /\ \E i \in Imported : repositories[k].name = ast[i].name /\ repositories[k].submodule = ast[i].submodule
<1> DEFINE R == {RepositoryOf(i) : i \in Imported}
<1>1. repositories \in Seq(R)
  BY DEF RepositoriesInv, RepositoryOf
<1>2. \A r \in R : \E i \in Imported : r.name = ast[i].name /\ r.submodule = ast[i].submodule
  BY DEF RepositoryOf
<1> HIDE DEF R
<1>3. k \in 1..Len(repositories) /\ Len(repositories) \in Nat /\ repositories[k] \in R
  BY <1>1
<1> QED
  BY <1>2, <1>3

\* A super-module that is set is one that an imported rule says; two that differ are
\* not legal.
LEMMA SetSuperModuleKeeps ==
  ASSUME RulesetInv, SetSuperModule
  PROVE  RulesetInv'
<1> DEFINE r == repositories[next]
<1>1. /\ pc = "submodules" /\ next <= Len(repositories)
      /\ UNCHANGED fileVars /\ UNCHANGED trieVars /\ UNCHANGED coverageVars
      /\ UNCHANGED <<todo, repositories, origin>>
      /\ \/ /\ r.submodule # NoSubmodule /\ Conflicts(r.name, r.submodule)
            /\ pc' = "failed" /\ UNCHANGED <<next, superModule>>
         \/ /\ superModule' = IF r.submodule = NoSubmodule THEN superModule
                              ELSE [n \in DOMAIN superModule \cup {r.name} |->
                                      IF n = r.name THEN r.submodule ELSE superModule[n]]
            /\ next' = next + 1 /\ UNCHANGED pc
  BY DEF SetSuperModule
<1>2. UNCHANGED <<ast, parsing, rules, declared, matched>>
  BY <1>1 DEF fileVars, trieVars, coverageVars
<1>3. /\ FileInv /\ RepositoriesInv /\ TrieInv /\ MatchesInv /\ DeclaredInv /\ FreshInv /\ LegalAccepted
  BY DEF RulesetInv
<1>4. FileInv' /\ TrieInv' /\ DeclaredInv' /\ FreshInv'
  BY <1>1, <1>2, <1>3, FileStable, TrieStable, DeclaredStable DEF FreshInv
<1>5. Imported' = Imported /\ Len(ast) \in Nat
  <2>1. ast \in Seq(RepoRules)
    BY <1>3 DEF FileInv
  <2> QED  BY <1>2, <2>1 DEF Imported
<1>6. /\ next \in DOMAIN repositories /\ Len(repositories) \in Nat /\ Len(repositories) <= Len(ast)
      /\ next \in 1..Len(repositories)
  <2>1. /\ next \in 1..Len(ast) + 1 /\ Len(repositories) <= Len(ast)
        /\ repositories \in Seq({[name |-> ast[i].name, submodule |-> ast[i].submodule] : i \in Imported})
    BY <1>3 DEF RepositoriesInv
  <2>2. Len(repositories) \in Nat /\ DOMAIN repositories = 1..Len(repositories)
    BY <2>1
  <2> QED  BY <1>1, <1>5, <2>1, <2>2
<1>7. PICK i \in Imported : r.name = ast[i].name /\ r.submodule = ast[i].submodule
  BY <1>3, <1>6, RepositoryAt
<1> HIDE DEF r
<1>8. CASE /\ r.submodule # NoSubmodule /\ Conflicts(r.name, r.submodule)
           /\ pc' = "failed" /\ UNCHANGED <<next, superModule>>
  <2>1. RepositoriesInv' /\ MatchesInv'
    BY <1>1, <1>2, <1>3, <1>8, RepositoriesStable, MatchesStable
  <2>2. r.name \in DOMAIN superModule /\ superModule[r.name] # r.submodule
    BY <1>8 DEF Conflicts
  <2>3. PICK j \in Imported : /\ ast[j].name = r.name /\ ast[j].submodule = superModule[r.name]
                              /\ ast[j].submodule # NoSubmodule
    BY <1>3, <2>2 DEF RepositoriesInv
  <2>4. ~Legal
    BY <1>7, <1>8, <2>2, <2>3 DEF Legal
  <2>5. LegalAccepted'
    BY <1>2, <2>4, LegalKept DEF LegalAccepted
  <2> QED  BY <1>4, <2>1, <2>5 DEF RulesetInv
<1>9. CASE /\ superModule' = IF r.submodule = NoSubmodule THEN superModule
                             ELSE [n \in DOMAIN superModule \cup {r.name} |->
                                     IF n = r.name THEN r.submodule ELSE superModule[n]]
           /\ next' = next + 1 /\ UNCHANGED pc
  <2>1. LegalAccepted'
    BY <1>2, <1>3, <1>9, LegalStable
  <2>2. Reached' = Reached
    BY <1>1, <1>5, <1>9 DEF Reached
  <2>3. MatchesInv'
    BY <1>1, <1>2, <1>3, <1>9, <2>2, MatchesStable
  <2>4. ASSUME NEW n \in DOMAIN superModule'
        PROVE  \E j \in Imported :
                 ast[j].name = n /\ ast[j].submodule = superModule'[n] /\ ast[j].submodule # NoSubmodule
    <3>1. CASE n \in DOMAIN superModule /\ superModule'[n] = superModule[n]
      BY <1>3, <3>1 DEF RepositoriesInv
    <3>2. CASE n = r.name /\ superModule'[n] = r.submodule /\ r.submodule # NoSubmodule
      BY <1>7, <3>2
    <3> QED  BY <1>9, <3>1, <3>2
  <2>5. RepositoriesInv'
    <3>1. next' \in 1..Len(ast) + 1
      BY <1>5, <1>6, <1>9
    <3>2. /\ pc' = "submodules" /\ ast' = ast /\ repositories' = repositories /\ Imported' = Imported
      BY <1>1, <1>2, <1>5, <1>9
    <3>3. \A n \in DOMAIN superModule' : \E j \in Imported :
            ast[j].name = n /\ ast[j].submodule = superModule'[n] /\ ast[j].submodule # NoSubmodule
      BY <2>4
    <3>4. repositories \in Seq({[name |-> ast[k].name, submodule |-> ast[k].submodule] : k \in Imported})
      BY <1>3 DEF RepositoriesInv
    <3> QED  BY <1>6, <3>1, <3>2, <3>3, <3>4 DEF RepositoriesInv
  <2> QED  BY <1>4, <2>1, <2>3, <2>5 DEF RulesetInv
<1> QED
  BY <1>1, <1>8, <1>9

\* Nothing is left to do.
LEMMA ReadyKeeps ==
  ASSUME RulesetInv, Ready
  PROVE  RulesetInv'
<1>1. /\ pc = "submodules" /\ pc' = "ready"
      /\ UNCHANGED fileVars /\ UNCHANGED trieVars /\ UNCHANGED coverageVars
      /\ UNCHANGED <<next, todo, repositories, superModule, origin>>
  BY DEF Ready
<1>2. UNCHANGED <<ast, parsing, rules, declared, matched>>
  BY <1>1 DEF fileVars, trieVars, coverageVars
<1>3. /\ FileInv /\ RepositoriesInv /\ TrieInv /\ MatchesInv /\ DeclaredInv /\ FreshInv /\ LegalAccepted
  BY DEF RulesetInv
<1>4. FileInv' /\ RepositoriesInv' /\ TrieInv' /\ DeclaredInv' /\ LegalAccepted'
  BY <1>1, <1>2, <1>3, FileStable, RepositoriesStable, TrieStable, DeclaredStable, LegalStable
<1>5. Reached' = Reached
  BY <1>1, <1>2 DEF Reached, Imported
<1>6. MatchesInv' /\ FreshInv'
  BY <1>1, <1>2, <1>3, <1>5, MatchesStable DEF FreshInv
<1> QED
  BY <1>4, <1>6 DEF RulesetInv

\* What longest_match finds is a rule.
LEMMA LongestMatchIsRule ==
  ASSUME TrieInv, NEW p \in Paths, NEW v \in 0..Forever, LongestMatch(p, v) # NoRule
  PROVE  LongestMatch(p, v) \in Positions
<1> DEFINE found == {k \in DOMAIN trie : OnBoundary(k, p) /\ FindRule(trie[k], v) # NoRule}
           longest == CHOOSE k \in found : \A j \in found : Len(j) <= Len(k)
           lengths == {Len(k) : k \in found}
<1>1. rules \in Seq(Insertable) /\ TreeInv(trie, SvnText) /\ p \in Seq(Chars) /\ DOMAIN trie \subseteq Seq(Chars)
  BY TreesOfInvariant, RuleAssumption DEF TreeInv, AtNodes
<1>2. \A k \in found : k \in Seq(Chars) /\ IsPrefix(k, p)
  BY <1>1 DEF OnBoundary
<1>3. \A k \in found : FindRule(trie[k], v) \in Positions
  BY <1>1, FoundAtNode
<1>4. found # {} /\ LongestMatch(p, v) = FindRule(trie[longest], v)
  BY DEF LongestMatch
<1> HIDE DEF found
<1>5. lengths \in SUBSET (0..Len(p)) /\ lengths # {} /\ Len(p) \in Nat
  <2>1. \A k \in found : Len(k) \in Nat /\ Len(k) <= Len(p)
    BY <1>1, <1>2, PrefixMeans
  <2>2. Len(p) \in Nat
    BY <1>1
  <2>3. \A k \in found : Len(k) \in 0..Len(p)
    BY ONLY <2>1, <2>2
  <2> QED  BY ONLY <1>4, <2>2, <2>3
<1>6. PICK n \in lengths : \A l \in lengths : l <= n
  <2> HIDE DEF lengths
  <2> QED  BY <1>5, GreatestMember
<1>7. \E k \in found : \A j \in found : Len(j) <= Len(k)
  BY <1>6
<1>8. longest \in found
  BY <1>7
<1> HIDE DEF longest
<1> QED
  BY <1>3, <1>4, <1>8

\* A rule that is looked up was declared when it was inserted.
LEMMA LookupKeeps ==
  ASSUME RulesetInv, Lookup
  PROVE  RulesetInv'
<1>1. UNCHANGED fileVars /\ UNCHANGED trieVars /\ UNCHANGED buildVars /\ UNCHANGED declared
  BY DEF Lookup
<1>2. UNCHANGED <<ast, parsing, rules, pc, next, todo, repositories, superModule, origin, declared>>
  BY <1>1 DEF fileVars, trieVars, buildVars
<1>3. /\ FileInv /\ RepositoriesInv /\ TrieInv /\ MatchesInv /\ DeclaredInv /\ FreshInv /\ LegalAccepted
  BY DEF RulesetInv
<1>4. FileInv' /\ RepositoriesInv' /\ TrieInv' /\ MatchesInv' /\ FreshInv' /\ LegalAccepted'
  BY <1>1, <1>2, <1>3, FileStable, RepositoriesStable, TrieStable, MatchesStable, FreshStable, LegalStable
<1>5. DeclaredInv'
  <2>1. PICK p \in Paths, v \in 0..Forever :
          LongestMatch(p, v) # NoRule /\ matched' = matched \cup {MatchedPair(LongestMatch(p, v))}
    BY DEF Lookup
  <2>2. LongestMatch(p, v) \in Positions
    BY <1>3, <2>1, LongestMatchIsRule
  <2>3. LongestMatch(p, v) \in DOMAIN origin
    <3>1. IsSequence(origin) /\ Len(origin) = Len(rules) /\ rules \in Seq(Insertable)
      BY <1>3, TreesOfInvariant DEF MatchesInv
    <3>2. DOMAIN origin = 1..Len(origin) /\ DOMAIN rules = 1..Len(rules)
      BY <3>1 DEF IsSequence
    <3> QED  BY <2>2, <3>1, <3>2 DEF Positions
  <2>4. MatchedPair(LongestMatch(p, v)) \in declared
    BY <1>3, <2>3 DEF DeclaredInv
  <2>5. RefIds' = RefIds /\ \A k : MatchedPair(k)' = MatchedPair(k)
    BY <1>2, AstKept DEF MatchedPair
  <2> QED  BY <1>2, <1>3, <2>1, <2>4, <2>5 DEF DeclaredInv
<1> QED
  BY <1>4, <1>5 DEF RulesetInv

-----------------------------------------------------------------------------
(* Inserting a match.                                                      *)

\* A rule that is refused overlaps one that is there.
LEMMA RefusedOverlaps ==
  ASSUME TrieInv, NEW r \in Insertable, r.svn \in DOMAIN trie, Overlaps(trie[r.svn], r)
  PROVE  \E k \in Positions : Overlapping(r, rules[k])
<1> DEFINE list == trie[r.svn]
           i == FindRevision(list, r.max)
<1>1. rules \in Seq(Insertable) /\ TreeInv(trie, SvnText)
  BY TreesOfInvariant
<1>2. list \in Seq(Positions) /\ r.max \in Nat /\ r.min \in Nat /\ r.min <= r.max
  BY <1>1, RuleAssumption DEF TreeInv, Insertable, Rule
<1>3. \A k \in ToSet(list) : k \in Positions /\ rules[k].svn = r.svn
  <2>1. \A k \in ToSet(list) : k \in Positions
    BY <1>2 DEF ToSet
  <2> QED  BY <1>1, <2>1 DEF TreeInv, AtNodes, SvnText
<1>4. i <= Len(list) /\ rules[list[i]].min <= r.max
  BY DEF Overlaps
<1>5. Len(list) \in Nat
  BY <1>1, <1>2, NodeElement
<1> HIDE DEF list
<1>6. i \in 1..Len(list) + 1 /\ (i <= Len(list) => rules[list[i]].max >= r.max)
  BY <1>1, <1>2, FindRevisionSplits
<1> HIDE DEF i
<1>7. i \in 1..Len(list) /\ rules[list[i]].max >= r.max
  BY <1>4, <1>5, <1>6
<1>8. list[i] \in ToSet(list) /\ rules[list[i]].max \in Nat /\ rules[list[i]].min \in Nat
  BY <1>1, <1>2, <1>7, NodeElement
<1>9. r.svn = rules[list[i]].svn /\ r.min <= rules[list[i]].max /\ rules[list[i]].min <= r.max
  BY <1>2, <1>3, <1>4, <1>7, <1>8
<1> QED
  BY <1>3, <1>8, <1>9 DEF Overlapping

\* A rule that is there already is refused.
LEMMA AcceptedIsNew ==
  ASSUME TrieInv, NEW r \in Insertable, ~ (r.svn \in DOMAIN trie /\ Overlaps(trie[r.svn], r))
  PROVE  \A k \in Positions : rules[k] # r
<1> SUFFICES ASSUME NEW k \in Positions, rules[k] = r
             PROVE  FALSE
  OBVIOUS
<1> DEFINE list == trie[r.svn]
           i == FindRevision(list, r.max)
<1>1. rules \in Seq(Insertable) /\ TreeInv(trie, SvnText)
  BY TreesOfInvariant
<1>2. r.svn \in DOMAIN trie /\ k \in ToSet(trie[r.svn])
  <2>1. SvnText[k] = r.svn
    BY DEF SvnText
  <2> QED  BY <1>1, <2>1 DEF TreeInv, AtNodes
<1>3. list \in Seq(Positions) /\ ByLastRevision(list) /\ r.max \in Nat /\ r.min \in Nat /\ r.min <= r.max
  BY <1>1, <1>2, RuleAssumption DEF TreeInv, Insertable, Rule
<1>4. ~ (i <= Len(list) /\ rules[list[i]].min <= r.max)
  BY <1>2 DEF Overlaps
<1>5. Len(list) \in Nat /\ DOMAIN list = 1..Len(list)
  BY <1>1, <1>3, NodeElement
<1>6. PICK p \in 1..Len(list) : list[p] = k
  BY <1>2, <1>5, ElementMeans
<1> HIDE DEF list
<1>7. /\ i \in 1..Len(list) + 1 /\ (\A j \in 1..i - 1 : rules[list[j]].max < r.max)
      /\ i <= Len(list) => rules[list[i]].max >= r.max
  BY <1>1, <1>3, FindRevisionSplits
<1> HIDE DEF i
<1>8. i <= p
  <2> SUFFICES ASSUME p < i
               PROVE  FALSE
    BY <1>5, <1>7
  <2>1. p \in 1..i - 1
    BY <1>5, <1>7
  <2> QED  BY <1>3, <1>6, <1>7, <2>1
<1>9. i \in 1..Len(list) /\ rules[list[i]].min \in Nat /\ rules[list[i]].max \in Nat
  <2>1. i \in 1..Len(list)
    BY <1>5, <1>7, <1>8
  <2> QED  BY <1>1, <1>3, <2>1, NodeElement
<1>10. rules[list[i]].max <= r.max
  <2>1. i < p => rules[list[i]].max <= rules[list[p]].max
    BY <1>3, <1>5, <1>6, <1>9 DEF ByLastRevision
  <2> QED  BY <1>3, <1>6, <1>8, <1>9, <2>1
<1>11. rules[list[i]].min <= rules[list[i]].max
  <2>1. list[i] \in Positions
    BY <1>1, <1>3, <1>9, NodeElement
  <2> QED  BY <1>1, <2>1, RuleAt
<1>12. rules[list[i]].min <= r.max /\ i <= Len(list)
  BY <1>3, <1>9, <1>10, <1>11
<1> QED
  BY <1>4, <1>12

\* Every rule is that of a match of an imported rule of the file.
LEMMA OriginOfRule ==
  ASSUME MatchesInv, FileInv, rules \in Seq(Insertable), NEW k \in Positions
  PROVE  /\ k \in DOMAIN origin /\ rules[k] = RuleOf(origin[k]) /\ EverInForce(origin[k])
         /\ origin[k].repo \in Imported /\ origin[k] \in ToSet(Matches(origin[k].repo))
<1>1. k \in DOMAIN origin /\ rules[k] = RuleOf(origin[k])
  <2>1. IsSequence(origin) /\ Len(origin) = Len(rules)
    BY DEF MatchesInv
  <2>2. DOMAIN origin = 1..Len(origin) /\ DOMAIN rules = 1..Len(rules)
    BY <2>1 DEF IsSequence
  <2> QED  BY <2>1, <2>2 DEF MatchesInv, Positions
<1>2. origin[k] \in Wanted(Imported)
  <2>1. origin[k] \in ToSet(origin)
    BY <1>1, ElementMeans
  <2> QED  BY <2>1 DEF MatchesInv
<1> QED
  BY <1>1, <1>2, WantedMeans DEF FileInv

\* A match is inserted and declared, or refused because its rule overlaps one that is
\* there.
LEMMA InsertKeeps ==
  ASSUME RulesetInv, InsertMatch
  PROVE  RulesetInv'
<1> DEFINE m == Head(todo)
           r == RuleOf(m)
<1>1. /\ pc = "insert" /\ todo # << >> /\ EverInForce(m)
      /\ Insert(r) /\ declared' = declared \cup {<<m.branch, m.repo>>}
      /\ UNCHANGED fileVars /\ UNCHANGED <<next, repositories, superModule, matched>>
  BY DEF InsertMatch, Declare
<1>2. IF rejected'
      THEN pc' \in {"crashed", "failed"} /\ UNCHANGED <<todo, origin>>
      ELSE todo' = Tail(todo) /\ origin' = Append(origin, m) /\ UNCHANGED pc
  BY DEF InsertMatch
<1>3. UNCHANGED <<ast, parsing>>
  BY <1>1 DEF fileVars
<1>4. /\ FileInv /\ RepositoriesInv /\ TrieInv /\ MatchesInv /\ DeclaredInv /\ FreshInv /\ LegalAccepted
  BY DEF RulesetInv
<1>5. ast \in Seq(RepoRules) /\ ByName /\ next \in Imported /\ next \in DOMAIN ast /\ m \in ToSet(Matches(next))
      /\ rules \in Seq(Insertable)
  <2>1. ast \in Seq(RepoRules) /\ ByName /\ next \in Imported
    BY <1>1, <1>4 DEF FileInv, MatchesInv
  <2>2. IsSequence(todo) /\ ToSet(todo) \subseteq ToSet(Matches(next))
    BY <1>1, <1>4 DEF MatchesInv
  <2>3. m \in ToSet(Matches(next))
    BY <1>1, <2>2, HeadAndTail
  <2> QED  BY <1>4, <2>1, <2>3, ImportedAre, TreesOfInvariant
<1>6. m.repo = next /\ m.branch \in RefIds /\ r \in Insertable
  BY <1>1, <1>5, MatchTyped, RuleOfTyped
<1>7. /\ IsSequence(Tail(todo)) /\ ToSet(todo) = ToSet(Tail(todo)) \cup {m}
      /\ IsInjective(todo) => IsInjective(Tail(todo)) /\ m \notin ToSet(Tail(todo))
  BY <1>1, <1>4, HeadAndTail DEF MatchesInv
<1> HIDE DEF m
<1>8. /\ Imported' = Imported /\ RefIds' = RefIds
      /\ \A i : Matches(i)' = Matches(i) /\ HasChain(i)' = HasChain(i)
      /\ \A n : EverInForce(n)' = EverInForce(n) /\ RuleOf(n)' = RuleOf(n)
      /\ \A I : Wanted(I)' = Wanted(I)
      /\ \A i, kind : Components(i, kind)' = Components(i, kind)
  BY <1>3, AstKept
<1>9. TrieInv'
  <2> HIDE DEF r
  <2> QED  BY <1>1, <1>4, <1>6, InsertInv
<1>10. FileInv' /\ RepositoriesInv'
  <2>1. pc' \in {"insert", "failed", "crashed"}
    BY <1>1, <1>2
  <2> QED  BY <1>1, <1>3, <1>4, <2>1, FileStable, RepositoriesStable
<1>11. IsFiniteSet(declared') /\ matched' \subseteq declared'
       /\ \A pair \in declared' : pair[1] \in RefIds /\ pair[2] \in DOMAIN ast
  <2>1. IsFiniteSet(declared) /\ matched \subseteq declared
        /\ \A pair \in declared : pair[1] \in RefIds /\ pair[2] \in DOMAIN ast
    BY <1>4 DEF DeclaredInv
  <2>2. IsFiniteSet(declared')
    BY <1>1, <2>1, FS_AddElement
  <2>3. <<m.branch, m.repo>>[1] \in RefIds /\ <<m.branch, m.repo>>[2] \in DOMAIN ast
    BY <1>5, <1>6
  <2> QED  BY <1>1, <2>1, <2>2, <2>3
<1>12. CASE rejected'
  <2>1. r.svn \in DOMAIN trie /\ Overlaps(trie[r.svn], r) /\ UNCHANGED <<rules, trie>>
    <3> HIDE DEF r
    <3> QED  BY <1>1, <1>12 DEF Insert
  <2>2. pc' \in {"crashed", "failed"} /\ UNCHANGED <<todo, origin>>
    BY <1>2, <1>12
  <2>3. MatchesInv' /\ FreshInv'
    BY <1>3, <1>4, <2>1, <2>2, MatchesStable DEF FreshInv
  <2>4. DeclaredInv'
    <3>1. \A k \in DOMAIN origin : MatchedPair(k)' \in declared'
      BY <1>1, <1>4, <2>2 DEF DeclaredInv, MatchedPair
    <3> QED  BY <1>3, <1>8, <1>11, <2>2, <3>1 DEF DeclaredInv
  <2>5. ~Legal
    <3> SUFFICES ASSUME Legal
                 PROVE  FALSE
      OBVIOUS
    <3>1. PICK k \in Positions : Overlapping(r, rules[k])
      <4> HIDE DEF r
      <4> QED  BY <1>4, <1>6, <2>1, RefusedOverlaps
    <3>2. PICK n : n = origin[k]
      OBVIOUS
    <3>3. /\ k \in DOMAIN origin /\ rules[k] = RuleOf(n) /\ EverInForce(n)
          /\ n.repo \in Imported /\ n \in ToSet(Matches(n.repo))
      BY <1>4, <1>5, <3>2, OriginOfRule
    <3>4. n # m
      <4>1. IsInjective(todo) /\ ToSet(todo) \cap ToSet(origin) = {}
        BY <1>1, <1>4 DEF FreshInv, Legal, Kinds
      <4>2. n \in ToSet(origin)
        BY <3>2, <3>3, ElementMeans
      <4> QED  BY <1>7, <4>1, <4>2
    <3>5. ~Overlapping(RuleOf(m), RuleOf(n))
      BY <1>1, <1>5, <3>3, <3>4 DEF Legal
    <3> QED  BY <3>1, <3>3, <3>5
  <2>6. LegalAccepted'
    BY <1>3, <2>5, LegalKept DEF LegalAccepted
  <2> QED  BY <1>9, <1>10, <2>3, <2>4, <2>6 DEF RulesetInv
<1>13. CASE ~rejected'
  <2>1. ~ (r.svn \in DOMAIN trie /\ Overlaps(trie[r.svn], r)) /\ rules' = Append(rules, r)
    <3> HIDE DEF r
    <3> QED  BY <1>1, <1>13 DEF Insert
  <2>2. todo' = Tail(todo) /\ origin' = Append(origin, m) /\ UNCHANGED pc
    BY <1>2, <1>13
  <2>3. /\ \A k \in Positions : rules[k] # r
        /\ Len(rules) \in Nat /\ Positions = 1..Len(rules) /\ Positions' = 1..Len(rules) + 1
        /\ rules'[Len(rules) + 1] = r /\ \A k \in Positions : rules'[k] = rules[k]
    <3> HIDE DEF r
    <3> QED  BY <1>4, <1>5, <1>6, <2>1, AcceptedIsNew, RuleAppended
  <2>4. /\ IsSequence(origin') /\ DOMAIN origin = 1..Len(rules) /\ DOMAIN origin' = 1..Len(rules) + 1
        /\ origin'[Len(rules) + 1] = m /\ \A k \in 1..Len(rules) : origin'[k] = origin[k]
    <3>1. IsSequence(origin) /\ Len(origin) = Len(rules)
      BY <1>4 DEF MatchesInv
    <3> QED  BY <2>2, <3>1, SequenceAppended
  <2>5. ToSet(origin') = ToSet(origin) \cup {m}
    <3>1. \A e : (\E k \in 1..Len(rules) + 1 : origin'[k] = e) <=> (\E k \in 1..Len(rules) : origin[k] = e) \/ e = m
      <4>1. \A k : k \in 1..Len(rules) + 1 <=> k \in 1..Len(rules) \/ k = Len(rules) + 1
        BY <2>3
      <4> QED  BY <2>4, <4>1
    <3>2. \A e : e \in ToSet(origin') <=> e \in ToSet(origin) \/ e = m
      BY <2>4, <3>1, ElementMeans
    <3> QED  BY <3>2
  <2>6. IsInjective(rules')
    <3>1. \A j, k \in 1..Len(rules) : rules[j] = rules[k] => j = k
      BY <1>4, <2>3 DEF MatchesInv, IsInjective, Positions
    <3>2. \A k : k \in 1..Len(rules) + 1 => k \in 1..Len(rules) \/ k = Len(rules) + 1
      BY <2>3
    <3>3. DOMAIN rules' = 1..Len(rules) + 1
      BY <2>3 DEF Positions
    <3> HIDE DEF r
    <3> QED  BY <2>3, <3>1, <3>2, <3>3 DEF IsInjective
  <2>7. (\A k \in DOMAIN rules : rules[k] = RuleOf(origin[k]))'
    <3>1. DOMAIN rules' = 1..Len(rules) + 1 /\ \A k \in 1..Len(rules) : rules[k] = RuleOf(origin[k])
      BY <1>4, <2>3 DEF Positions, MatchesInv
    <3>2. \A k \in 1..Len(rules) + 1 : k \in 1..Len(rules) \/ k = Len(rules) + 1
      BY <2>3
    <3>4. \A k \in 1..Len(rules) : rules'[k] = RuleOf(origin'[k])
      BY <2>3, <2>4, <3>1
    <3>5. rules'[Len(rules) + 1] = RuleOf(origin'[Len(rules) + 1])
      BY <2>3, <2>4
    <3>6. \A k \in DOMAIN rules' : rules'[k] = RuleOf(origin'[k])
      BY <3>1, <3>2, <3>4, <3>5
    <3>7. \A k : RuleOf(origin[k])' = RuleOf(origin'[k])
      BY <1>3 DEF RuleOf, MinRev, MaxRev, BranchRule, ContentRule, Qualified
    <3> QED  BY <3>6, <3>7
  <2>8. MatchesInv'
    <3>1. Reached' = Reached
      BY <1>1, <1>8, <2>2 DEF Reached
    <3>2. {n \in ToSet(todo) : EverInForce(n)} = {n \in ToSet(Tail(todo)) : EverInForce(n)} \cup {m}
      BY <1>1, <1>7
    <3>3. (ToSet(origin) \cup {n \in ToSet(todo) : EverInForce(n)} = Wanted(Reached))'
          /\ (\A i \in Reached : ~HasChain(i))'
      <4>1. ToSet(origin) \cup {n \in ToSet(todo) : EverInForce(n)} = Wanted(Reached)
            /\ \A i \in Reached : ~HasChain(i)
        BY <1>1, <1>4 DEF MatchesInv
      <4> QED  BY <1>8, <2>2, <2>5, <3>1, <3>2, <4>1
    <3>4. (ToSet(origin) \subseteq Wanted(Imported))'
      <4>1. m \in Wanted(Imported)
        BY <1>1, <1>5, WantedMeans
      <4>2. ToSet(origin) \subseteq Wanted(Imported)
        BY <1>4 DEF MatchesInv
      <4> QED  BY <1>8, <2>5, <4>1, <4>2
    <3>5. next' \in Imported' /\ (ToSet(todo) \subseteq ToSet(Matches(next)))'
      <4>1. ToSet(todo) \subseteq ToSet(Matches(next))
        BY <1>1, <1>4 DEF MatchesInv
      <4> QED  BY <1>1, <1>5, <1>7, <1>8, <2>2, <4>1
    <3>6. Len(origin') = Len(rules')
      <4>1. Len(origin') \in Nat /\ DOMAIN origin' = 1..Len(origin')
        BY <2>4 DEF IsSequence
      <4>2. Len(rules') = Len(rules) + 1
        <5> HIDE DEF r
        <5> QED  BY <1>5, <1>6, <2>1, AppendProperties
      <4>3. \A a, b \in Nat : 1..a = 1..b + 1 => a = b + 1
        <5> SUFFICES ASSUME NEW a \in Nat, NEW b \in Nat, 1..a = 1..b + 1
                     PROVE  a = b + 1
          OBVIOUS
        <5>1. b + 1 \in 1..a /\ (a > b + 1 => a \in 1..b + 1)
          OBVIOUS
        <5> QED  BY <5>1
      <4> QED  BY <2>3, <2>4, <4>1, <4>2, <4>3
    <3>7. IsSequence(todo)' /\ IsSequence(origin)'
      BY <1>7, <2>2, <2>4 DEF IsSequence
    <3> QED  BY <1>1, <2>2, <2>6, <2>7, <3>3, <3>4, <3>5, <3>6, <3>7 DEF MatchesInv
  <2>9. DeclaredInv'
    <3>1. \A k \in DOMAIN origin' : MatchedPair(k)' \in declared'
      <4>1. \A k \in 1..Len(rules) + 1 : k \in 1..Len(rules) \/ k = Len(rules) + 1
        BY <2>3
      <4>2. \A k \in 1..Len(rules) : <<origin[k].branch, origin[k].repo>> \in declared
        BY <1>4, <2>4 DEF DeclaredInv, MatchedPair
      <4>3. \A k \in DOMAIN origin' : <<origin'[k].branch, origin'[k].repo>> \in declared'
        BY <1>1, <2>4, <4>1, <4>2
      <4> QED  BY <4>3 DEF MatchedPair
    <3> QED  BY <1>3, <1>8, <1>11, <3>1 DEF DeclaredInv
  <2>10. FreshInv'
    <3> SUFFICES ASSUME \A i \in Imported, kind \in Kinds : IsInjective(Components(i, kind))
                 PROVE  IsInjective(todo') /\ ToSet(todo') \cap ToSet(origin') = {}
      BY <1>8 DEF FreshInv
    <3>1. IsInjective(todo) /\ ToSet(todo) \cap ToSet(origin) = {}
      BY <1>1, <1>4 DEF FreshInv
    <3> QED  BY <1>7, <2>2, <2>5, <3>1
  <2>11. LegalAccepted'
    BY <1>1, <2>2 DEF LegalAccepted
  <2> QED  BY <1>9, <1>10, <2>8, <2>9, <2>10, <2>11 DEF RulesetInv
<1> QED
  BY <1>12, <1>13

\* The invariant holds of every ruleset, built or being built.
THEOREM RulesetInvariant == RulesetSpec => []RulesetInv
<1>1. RulesetInit => RulesetInv
  BY RulesetInitInv
<1>2. RulesetInv /\ [RulesetNext]_rulesetVars => RulesetInv'
  <2> SUFFICES ASSUME RulesetInv, [RulesetNext]_rulesetVars
               PROVE  RulesetInv'
    OBVIOUS
  <2>1. CASE ParseFile
    BY <2>1, ParseKeeps
  <2>2. CASE Collect
    BY <2>2, CollectKeeps
  <2>3. CASE InsertMatch
    BY <2>3, InsertKeeps
  <2>4. CASE SkipMatch
    BY <2>4, SkipKeeps
  <2>5. CASE RepositoryDone
    BY <2>5, RepositoryDoneKeeps
  <2>6. CASE Built
    BY <2>6, BuiltKeeps
  <2>7. CASE SetSuperModule
    BY <2>7, SetSuperModuleKeeps
  <2>8. CASE Ready
    BY <2>8, ReadyKeeps
  <2>9. CASE Lookup
    BY <2>9, LookupKeeps
  <2>10. CASE UNCHANGED rulesetVars
    BY <2>10, RulesetStutters
  <2> QED  BY <2>1, <2>2, <2>3, <2>4, <2>5, <2>6, <2>7, <2>8, <2>9, <2>10 DEF RulesetNext, Ended
<1> QED
  BY <1>1, <1>2, PTL DEF RulesetSpec

\* A file in which nothing is wrong is never refused.
THEOREM LegalIsAccepted == RulesetSpec => []LegalAccepted
<1>1. RulesetInv => LegalAccepted
  BY DEF RulesetInv
<1> QED
  BY <1>1, RulesetInvariant, PTL

-----------------------------------------------------------------------------
(* Coverage.                                                               *)

\* The rounded percentage of nothing is zero, and that of everything is a hundred.
LEMMA Percentages ==
  ASSUME NEW n \in Nat, n > 0
  PROVE  (200 * 0 + n) \div (2 * n) < 70 /\ ~ ((200 * n + n) \div (2 * n) < 70)
<1>1. n \div (2 * n) < 70
  OBVIOUS
<1>2. ~ ((201 * n) \div (2 * n) < 70)
  OBVIOUS
<1>3. 200 * 0 + n = n /\ 200 * n + n = 201 * n
  OBVIOUS
<1> QED
  BY <1>1, <1>2, <1>3

\* Unused branches are reported, fully used ones are not, and only what is declared
\* is used.
THEOREM CoverageIsSound == RulesetSpec => []CoverageSound
<1>1. ASSUME RulesetInv, NEW branch \in DeclaredBranches
      PROVE  /\ RepositoriesIn(matched, branch) = {} => branch \in Reported
             /\ RepositoriesIn(matched, branch) = RepositoriesIn(declared, branch) => branch \notin Reported
  <2> DEFINE D == RepositoriesIn(declared, branch)
             M == RepositoriesIn(matched, branch)
  <2>1. IsFiniteSet(declared)
    BY <1>1 DEF RulesetInv, DeclaredInv
  <2>2. D \subseteq declared /\ D # {}
    BY DEF RepositoriesIn, DeclaredBranches
  <2>3. Cardinality(D) \in Nat /\ Cardinality(D) # 0
    <3> HIDE DEF D
    <3>1. IsFiniteSet(D)
      BY <2>1, <2>2, FS_Subset
    <3> QED  BY <2>2, <3>1, FS_CardinalityType, FS_EmptySet
  <2>4. PICK n \in Nat : n = Cardinality(D) /\ n > 0
    BY <2>3
  <2>5. Utilization(branch) = (200 * Cardinality(M) + n) \div (2 * n)
    BY <2>4 DEF Utilization
  <2>6. branch \in Reported <=> Utilization(branch) < 70
    BY DEF Reported
  <2> HIDE DEF D, M
  <2>7. ASSUME M = {}
        PROVE  branch \in Reported
    <3>1. Cardinality(M) = 0
      BY <2>7, FS_EmptySet
    <3> QED  BY <2>4, <2>5, <2>6, <3>1, Percentages
  <2>8. ASSUME M = D
        PROVE  branch \notin Reported
    <3>1. Cardinality(M) = n
      BY <2>4, <2>8
    <3> QED  BY <2>4, <2>5, <2>6, <3>1, Percentages
  <2> QED  BY <2>7, <2>8 DEF D, M
<1>2. RulesetInv => matched \subseteq declared
  BY DEF RulesetInv, DeclaredInv
<1>3. RulesetInv => CoverageSound
  BY <1>1, <1>2 DEF CoverageSound
<1> QED
  BY <1>3, RulesetInvariant, PTL

-----------------------------------------------------------------------------
(* What the rules of a ruleset are.                                        *)

\* The invariant implies the type invariant.
LEMMA InvariantTyped == RulesetInv => RulesetTypeOK
<1> SUFFICES ASSUME RulesetInv
             PROVE  RulesetTypeOK
  OBVIOUS
<1>1. /\ FileInv /\ RepositoriesInv /\ TrieInv /\ MatchesInv /\ DeclaredInv
      /\ ast \in Seq(RepoRules) /\ ByName /\ rules \in Seq(Insertable)
  BY TreesOfInvariant DEF RulesetInv, FileInv
<1>2. ASSUME NEW k \in Positions
      PROVE  /\ rules[k] = RuleOf(origin[k]) /\ rules[k].min <= rules[k].max
             /\ rules[k].svn # << >> => Slash \notin {Head(rules[k].svn), Last(rules[k].svn)}
  <2>1. PICK m : m = origin[k]
    OBVIOUS
  <2>2. /\ rules[k] = RuleOf(m) /\ EverInForce(m)
        /\ m.repo \in Imported /\ m \in ToSet(Matches(m.repo))
    BY <1>1, <2>1, OriginOfRule
  <2>3. m.repo \in DOMAIN ast
    BY <1>1, <2>2, ImportedAre
  <2>4. rules[k].min <= rules[k].max /\ rules[k].svn \in Stripped
    BY <1>1, <2>2, <2>3, RuleOfTyped
  <2>5. \A text \in Stripped : text # << >> => Slash \notin {Head(text), Last(text)}
    BY DEF Stripped, Last
  <2> QED  BY <2>1, <2>2, <2>4, <2>5
<1>3. ASSUME NEW pair \in declared \cup matched
      PROVE  pair[2] \in DOMAIN ast /\ pair[1][3] \in DOMAIN ast[pair[1][1]][pair[1][2]]
  <2>1. pair[1] \in RefIds /\ pair[2] \in DOMAIN ast
    BY <1>1 DEF DeclaredInv
  <2> QED  BY <1>1, <2>1, BranchRuleTyped
<1>4. pc \in {"parse", "collect", "insert", "submodules", "ready", "failed", "crashed"}
      /\ Len(origin) = Len(rules)
  BY <1>1 DEF MatchesInv
<1>5. parsing \in {"parsing", "parsed", "failed"} /\ next \in 1..Len(ast) + 1
  BY <1>1 DEF FileInv, RepositoriesInv
<1> QED
  BY <1>1, <1>2, <1>3, <1>4, <1>5 DEF RulesetTypeOK, ByName, Positions

\* The branch or tag rules that a repository rule has, or inherits.
BranchesOf(i, kind) == UNION {ToSet(ast[j][kind]) : j \in Closure(i)}

\* The components collected for a rule are these.
LEMMA BranchesCollected ==
  ASSUME ast \in Seq(RepoRules), ByName, NEW i \in DOMAIN ast, ~HasChain(i),
         NEW kind \in {"branches", "tags"}
  PROVE  /\ \A id \in ToSet(Components(i, kind)) : id[2] = kind /\ BranchRule(id) \in BranchesOf(i, kind)
         /\ \A b \in BranchesOf(i, kind) :
              \E id \in ToSet(Components(i, kind)) : id[2] = kind /\ BranchRule(id) = b
<1>1. /\ kind \in Kinds /\ Closure(i) \subseteq DOMAIN ast
      /\ Components(i, kind) \in Seq(Ids(kind)) /\ Ids(kind) \subseteq RefIds
      /\ \A id \in ToSet(Components(i, kind)) : \E j \in Closure(i) : id \in ToSet(Own(j, kind))
      /\ \A j \in Closure(i) : ToSet(Own(j, kind)) \subseteq ToSet(Components(i, kind))
  <2>1. kind \in Kinds
    BY DEF Kinds
  <2> QED  BY <2>1, ClosureMeans, ComponentsElements DEF RefIds
<1>2. \A j \in DOMAIN ast : OwnList(j, kind) = ast[j][kind]
  BY DEF OwnList
<1>3. \A id \in Ids(kind) : id[2] = kind /\ BranchRule(id) = ast[id[1]][kind][id[3]]
                            /\ id[3] \in DOMAIN ast[id[1]][kind]
  BY <1>1, IdMeans, BranchRuleTyped
<1>4. ASSUME NEW j \in Closure(i), NEW id
      PROVE  id \in ToSet(Own(j, kind)) <=> \E k \in DOMAIN ast[j][kind] : id = <<j, kind, k>>
  BY <1>1, <1>2, OwnElements
<1>5. ASSUME NEW id \in ToSet(Components(i, kind))
      PROVE  id[2] = kind /\ BranchRule(id) \in BranchesOf(i, kind)
  <2>1. PICK j \in Closure(i) : id \in ToSet(Own(j, kind))
    BY <1>1
  <2>2. PICK k \in DOMAIN ast[j][kind] : id = <<j, kind, k>>
    BY <1>4, <2>1
  <2>3. id \in Ids(kind)
    BY <1>1, <2>1 DEF Ids
  <2>4. BranchRule(id) = ast[j][kind][k]
    BY <1>3, <2>2, <2>3
  <2>5. ast[j][kind][k] \in ToSet(ast[j][kind])
    BY <2>2, ElementMeans
  <2> QED  BY <1>3, <2>1, <2>3, <2>4, <2>5 DEF BranchesOf
<1>6. ASSUME NEW b \in BranchesOf(i, kind)
      PROVE  \E id \in ToSet(Components(i, kind)) : id[2] = kind /\ BranchRule(id) = b
  <2>1. PICK j \in Closure(i) : b \in ToSet(ast[j][kind])
    BY DEF BranchesOf
  <2>2. PICK k \in DOMAIN ast[j][kind] : ast[j][kind][k] = b
    BY <2>1, ElementMeans
  <2>3. PICK id : id = <<j, kind, k>>
    OBVIOUS
  <2>4. id \in ToSet(Own(j, kind)) /\ id[1] = j /\ id[3] = k
    BY <1>4, <2>3
  <2>5. id \in ToSet(Components(i, kind)) /\ id \in Ids(kind)
    BY <1>1, <2>4 DEF Ids
  <2> QED  BY <1>3, <2>2, <2>4, <2>5
<1> QED
  BY <1>5, <1>6

\* What is used of a content rule, or of none.
ContentValue(c) == IF c = NoContent THEN [svn |-> << >>, git |-> << >>] ELSE ContentRule(c)

\* The content of a repository rule is its own and what it inherits, if it has any.
LEMMA ContentsCollected ==
  ASSUME ast \in Seq(RepoRules), ByName, NEW i \in DOMAIN ast, ~HasChain(i)
  PROVE  /\ \A c \in ContentsOf(i) : ContentValue(c) \in Contents(i)
         /\ \A value \in Contents(i) : \E c \in ContentsOf(i) : ContentValue(c) = value
<1>1. CASE ast[i].content = << >>
  BY <1>1 DEF ContentsOf, Contents, ContentValue
<1>2. CASE ast[i].content # << >>
  <2>1. /\ Closure(i) \subseteq DOMAIN ast
        /\ \A id \in ToSet(Components(i, "content")) : \E j \in Closure(i) : id \in ToSet(Own(j, "content"))
        /\ \A j \in Closure(i) : ToSet(Own(j, "content")) \subseteq ToSet(Components(i, "content"))
    <3>1. "content" \in Kinds
      BY DEF Kinds
    <3> QED  BY <3>1, ClosureMeans, ComponentsElements
  <2>2. ASSUME NEW j \in Closure(i), NEW id
        PROVE  id \in ToSet(Own(j, "content")) <=> \E k \in DOMAIN ast[j].content : id = <<j, "content", k>>
    BY <2>1, OwnElements DEF Kinds, OwnList
  <2>3. /\ ContentsOf(i) = ToSet(Components(i, "content"))
        /\ Contents(i) = UNION {ToSet(ast[j].content) : j \in Closure(i)}
    BY <1>2 DEF ContentsOf, Contents
  <2>4. ASSUME NEW j \in Closure(i), NEW k \in DOMAIN ast[j].content
        PROVE  ContentValue(<<j, "content", k>>) = ast[j].content[k]
    <3>1. <<j, "content", k>> \in Ids("content")
      BY <2>1, <2>2 DEF Ids
    <3>2. <<j, "content", k>> # NoContent
      BY <3>1, ContentRuleTyped
    <3> QED  BY <3>2 DEF ContentValue, ContentRule
  <2>5. ASSUME NEW c \in ContentsOf(i)
        PROVE  ContentValue(c) \in Contents(i)
    <3>1. PICK j \in Closure(i) : c \in ToSet(Own(j, "content"))
      BY <2>1, <2>3
    <3>2. PICK k \in DOMAIN ast[j].content : c = <<j, "content", k>>
      BY <2>2, <3>1
    <3>3. ast[j].content[k] \in ToSet(ast[j].content)
      BY <3>2, ElementMeans
    <3> QED  BY <2>3, <2>4, <3>1, <3>2, <3>3
  <2>6. ASSUME NEW value \in Contents(i)
        PROVE  \E c \in ContentsOf(i) : ContentValue(c) = value
    <3>1. PICK j \in Closure(i) : value \in ToSet(ast[j].content)
      BY <2>3
    <3>2. PICK k \in DOMAIN ast[j].content : ast[j].content[k] = value
      BY <3>1, ElementMeans
    <3>3. <<j, "content", k>> \in ContentsOf(i)
      BY <2>1, <2>2, <2>3
    <3> QED  BY <2>4, <3>2, <3>3
  <2> QED  BY <2>5, <2>6
<1> QED
  BY <1>1, <1>2

\* The rule of a match is the one its repository must have.
LEMMA MatchExpanded ==
  ASSUME NEW i, NEW id, NEW c, NEW m, m = [repo |-> i, branch |-> id, content |-> c]
  PROVE  RuleOf(m) = Expanded(i, id[2], BranchRule(id), ContentValue(c))
<1>1. m.repo = i /\ m.branch = id /\ m.content = c
  OBVIOUS
<1>2. Trimmed(<< >>) = << >>
  BY DEF Trimmed
<1>3. /\ (IF c = NoContent THEN << >> ELSE Trimmed(ContentRule(c).svn)) = Trimmed(ContentValue(c).svn)
      /\ (IF c = NoContent THEN << >> ELSE Trimmed(ContentRule(c).git)) = Trimmed(ContentValue(c).git)
  <2>1. CASE c = NoContent
    <3>1. ContentValue(c).svn = << >> /\ ContentValue(c).git = << >>
      BY <2>1 DEF ContentValue
    <3> QED  BY <1>2, <2>1, <3>1
  <2>2. CASE c # NoContent
    BY <2>2 DEF ContentValue
  <2> QED  BY <2>1, <2>2
<1>4. MinRev(m) = Larger(BranchRule(id).min, ast[i].minrev) /\ MaxRev(m) = Smaller(BranchRule(id).max, ast[i].maxrev)
  BY <1>1 DEF MinRev, MaxRev
<1> QED
  BY <1>1, <1>3, <1>4 DEF RuleOf, Expanded, Qualified

\* The rules of a repository's matches are all that it must have.
LEMMA RulesOfMatches ==
  ASSUME ast \in Seq(RepoRules), ByName, NEW i \in DOMAIN ast, ~HasChain(i), NEW r
  PROVE  (\E m \in ToSet(Matches(i)) : r = RuleOf(m))
           <=> \E kind \in {"branches", "tags"} : \E b \in BranchesOf(i, kind), c \in Contents(i) :
                 r = Expanded(i, kind, b, c)
<1>1. ASSUME NEW m \in ToSet(Matches(i)), r = RuleOf(m)
      PROVE  \E kind \in {"branches", "tags"} : \E b \in BranchesOf(i, kind), c \in Contents(i) :
               r = Expanded(i, kind, b, c)
  <2>1. PICK id \in ToSet(Components(i, "branches")) \cup ToSet(Components(i, "tags")), c \in ContentsOf(i) :
          m = [repo |-> i, branch |-> id, content |-> c]
    BY MatchesElements
  <2>2. r = Expanded(i, id[2], BranchRule(id), ContentValue(c))
    BY <1>1, <2>1, MatchExpanded
  <2>3. ContentValue(c) \in Contents(i)
    BY ContentsCollected
  <2>4. PICK kind \in {"branches", "tags"} : id \in ToSet(Components(i, kind))
    OBVIOUS
  <2>5. id[2] = kind /\ BranchRule(id) \in BranchesOf(i, kind)
    BY <2>4, BranchesCollected
  <2> QED  BY <2>2, <2>3, <2>5
<1>2. ASSUME NEW kind \in {"branches", "tags"}, NEW b \in BranchesOf(i, kind), NEW value \in Contents(i),
             r = Expanded(i, kind, b, value)
      PROVE  \E m \in ToSet(Matches(i)) : r = RuleOf(m)
  <2>1. PICK id \in ToSet(Components(i, kind)) : id[2] = kind /\ BranchRule(id) = b
    BY BranchesCollected
  <2>2. PICK c \in ContentsOf(i) : ContentValue(c) = value
    BY ContentsCollected
  <2>3. PICK m : m = [repo |-> i, branch |-> id, content |-> c]
    OBVIOUS
  <2>4. m \in ToSet(Matches(i))
    <3>1. id \in ToSet(Components(i, "branches")) \cup ToSet(Components(i, "tags"))
      BY <2>1
    <3> QED  BY <2>3, <3>1, MatchesElements
  <2>5. RuleOf(m) = Expanded(i, id[2], BranchRule(id), ContentValue(c))
    BY <2>3, MatchExpanded
  <2> QED  BY <1>2, <2>1, <2>2, <2>4, <2>5
<1> QED
  BY <1>1, <1>2

\* A ruleset that is built has every rule it must have, once, and no other.
THEOREM RulesAreComplete == RulesetSpec => []RulesComplete
<1>1. ASSUME RulesetInv, pc \in {"submodules", "ready"}
      PROVE  ToSet(rules) = {r \in ExpectedRules : r.min <= r.max} /\ IsInjective(rules)
  <2>1. /\ FileInv /\ TrieInv /\ MatchesInv /\ ast \in Seq(RepoRules) /\ ByName
        /\ rules \in Seq(Insertable) /\ IsInjective(rules)
    BY <1>1, TreesOfInvariant DEF RulesetInv, FileInv, MatchesInv
  <2>2. Reached = Imported
    BY <1>1 DEF Reached
  <2>3. /\ ToSet(origin) = Wanted(Imported) /\ \A i \in Imported : ~HasChain(i)
    <3>1. todo = << >> /\ ToSet(origin) \cup {m \in ToSet(todo) : EverInForce(m)} = Wanted(Imported)
          /\ \A i \in Imported : ~HasChain(i)
      BY <1>1, <2>1, <2>2 DEF MatchesInv
    <3> QED  BY <3>1, NoElements
  <2>4. ASSUME NEW r
        PROVE  r \in ToSet(rules) <=> \E m \in Wanted(Imported) : r = RuleOf(m)
    <3>1. \A k \in Positions : k \in DOMAIN origin /\ rules[k] = RuleOf(origin[k])
      BY <2>1, OriginOfRule
    <3>2. DOMAIN origin = Positions /\ DOMAIN rules = Positions
      <4>1. IsSequence(origin) /\ Len(origin) = Len(rules)
        BY <2>1 DEF MatchesInv
      <4>2. DOMAIN origin = 1..Len(origin) /\ DOMAIN rules = 1..Len(rules)
        BY <2>1, <4>1 DEF IsSequence
      <4> QED  BY <4>1, <4>2 DEF Positions
    <3>3. r \in ToSet(rules) <=> \E k \in Positions : RuleOf(origin[k]) = r
      BY <3>1, <3>2, ElementMeans
    <3>4. \A m : m \in Wanted(Imported) <=> \E k \in Positions : origin[k] = m
      BY <2>3, <3>2, ElementMeans
    <3> QED  BY <3>3, <3>4
  <2>5. ASSUME NEW r
        PROVE  (\E m \in Wanted(Imported) : r = RuleOf(m))
                 <=> r.min <= r.max /\ \E i \in Imported : \E m \in ToSet(Matches(i)) : r = RuleOf(m)
    <3>1. \A i \in Imported : \A m \in ToSet(Matches(i)) : EverInForce(m) <=> RuleOf(m).min <= RuleOf(m).max
      BY <2>1, ImportedAre, RuleOfTyped
    <3>2. \A m : m \in Wanted(Imported) <=> EverInForce(m) /\ \E i \in Imported : m \in ToSet(Matches(i))
      BY DEF Wanted
    <3> QED  BY <3>1, <3>2
  <2>6. ASSUME NEW r
        PROVE  r \in ExpectedRules <=> \E i \in Imported : \E m \in ToSet(Matches(i)) : r = RuleOf(m)
    <3>1. r \in ExpectedRules <=>
            \E i \in Imported : \E kind \in {"branches", "tags"} :
              \E b \in BranchesOf(i, kind), c \in Contents(i) : r = Expanded(i, kind, b, c)
      <4> DEFINE Of(i, kind) == {Expanded(i, kind, b, c) : b \in BranchesOf(i, kind), c \in Contents(i)}
      <4>1. ExpectedRules = UNION {Of(i, kind) : i \in Imported, kind \in {"branches", "tags"}}
        BY DEF ExpectedRules, BranchesOf
      <4>2. \A i, kind : r \in Of(i, kind) <=>
              \E b \in BranchesOf(i, kind), c \in Contents(i) : r = Expanded(i, kind, b, c)
        OBVIOUS
      <4> HIDE DEF Of
      <4>3. r \in ExpectedRules <=> \E i \in Imported, kind \in {"branches", "tags"} : r \in Of(i, kind)
        BY <4>1
      <4> QED  BY <4>2, <4>3
    <3>2. \A i \in Imported :
            (\E m \in ToSet(Matches(i)) : r = RuleOf(m))
              <=> \E kind \in {"branches", "tags"} : \E b \in BranchesOf(i, kind), c \in Contents(i) :
                    r = Expanded(i, kind, b, c)
      <4> DEFINE Has(i) == \E m \in ToSet(Matches(i)) : r = RuleOf(m)
                 Must(i) == \E kind \in {"branches", "tags"} : \E b \in BranchesOf(i, kind), c \in Contents(i) :
                              r = Expanded(i, kind, b, c)
      <4>1. \A i \in DOMAIN ast : ~HasChain(i) => (Has(i) <=> Must(i))
        BY <2>1, RulesOfMatches
      <4> HIDE DEF Has, Must
      <4>2. \A i \in Imported : Has(i) <=> Must(i)
        BY <2>1, <2>3, <4>1, ImportedAre
      <4> QED  BY <4>2 DEF Has, Must
    <3> QED  BY <3>1, <3>2
  <2>7. \A r : r \in ToSet(rules) <=> r \in ExpectedRules /\ r.min <= r.max
    BY <2>4, <2>5, <2>6
  <2> QED  BY <2>1, <2>7
<1>2. RulesetInv => RulesComplete
  BY <1>1, InvariantTyped DEF RulesComplete
<1> QED
  BY <1>2, RulesetInvariant, PTL

-----------------------------------------------------------------------------
(* Super-modules.                                                          *)

\* Each action keeps what is said of super-modules.
LEMMA SuperModulesInit == RulesetInit => SuperModulesInv
<1> SUFFICES ASSUME RulesetInit
             PROVE  SuperModulesInv
  OBVIOUS
<1>1. ast = << >> /\ repositories = << >> /\ next = 1 /\ pc = "parse"
  BY DEF RulesetInit, FileInit
<1>2. IsSequence(<< >>)
  <2>1. << >> \in Seq({})
    OBVIOUS
  <2> QED  BY <2>1, SequenceOfItsElements
<1> QED
  BY <1>1, <1>2 DEF SuperModulesInv

\* What the invariant says depends on these variables only.
LEMMA SuperModulesStable ==
  ASSUME SuperModulesInv, UNCHANGED <<ast, repositories, next, superModule>>,
         pc' = pc \/ pc' \in {"failed", "crashed"}
  PROVE  SuperModulesInv'
<1>1. Imported' = Imported /\ (\A i : Listed(i)' = Listed(i)) /\ (\A k : IsSet(k)' = IsSet(k))
  BY DEF Imported, Listed, IsSet
<1> QED
  BY <1>1 DEF SuperModulesInv

LEMMA ParseFileSets ==
  ASSUME SuperModulesInv, ParseFile
  PROVE  SuperModulesInv'
<1>1. pc = "parse" /\ next' = next /\ repositories' = repositories /\ next = 1
  BY DEF SuperModulesInv, ParseFile
<1>2. pc' \in {"parse", "collect", "failed"}
  BY Zenon DEF ParseFile, Parse, ParseRepository, ParseEnds
<1>3. IsSequence(ast')
  <2>1. IsSequence(ast)
    BY DEF SuperModulesInv
  <2>2. ast' = ast \/ ast' = Inserted(RepoRuleOf(Head(file)))
    BY DEF ParseFile, Parse, ParseRepository, ParseEnds
  <2> QED  BY <2>1, <2>2, InsertedIsSequence
<1>4. IsSequence(repositories)' /\ next' \in Nat \ {0}
  BY <1>1 DEF SuperModulesInv, IsSequence
<1>5. \A i \in Imported' : ~ (i < 1)
  <2>1. DOMAIN ast' = 1..Len(ast') /\ Len(ast') \in Nat
    BY <1>3 DEF IsSequence
  <2> QED  BY <2>1 DEF Imported
<1> QED
  BY <1>1, <1>2, <1>3, <1>4, <1>5 DEF SuperModulesInv, IsSequence

LEMMA CollectSets ==
  ASSUME SuperModulesInv, Collect
  PROVE  SuperModulesInv'
<1>1. pc = "collect" /\ next <= Len(ast) /\ UNCHANGED <<ast, repositories, superModule>>
  BY DEF Collect, fileVars
<1>2. IsSequence(ast) /\ IsSequence(repositories) /\ next \in Nat \ {0}
      /\ \A i \in Imported : i < next => Listed(i)
  BY <1>1 DEF SuperModulesInv
<1>3. Imported' = Imported /\ \A i : Listed(i)' = Listed(i)
  BY <1>1 DEF Imported, Listed
<1>4. Len(ast) \in Nat /\ DOMAIN ast = 1..Len(ast)
  BY <1>2 DEF IsSequence
<1>5. CASE ast[next].abstract /\ next' = next + 1 /\ UNCHANGED pc
  <2>1. \A i \in Imported : i \in Nat /\ i # next
    BY <1>4, <1>5 DEF Imported
  <2>2. \A i \in Imported : i < next' => i < next
    BY <1>2, <1>5, <2>1
  <2>3. \A i \in Imported' : i < next' => Listed(i)'
    BY <1>2, <1>3, <2>2
  <2> QED  BY <1>1, <1>2, <1>5, <2>3 DEF SuperModulesInv, IsSequence
<1>6. CASE UNCHANGED next /\ pc' \in {"failed", "crashed"}
  BY <1>1, <1>6, SuperModulesStable
<1>7. CASE ~ast[next].abstract /\ UNCHANGED next /\ pc' = "insert"
  <2>1. next \in Imported'
    <3>1. next \in DOMAIN ast
      BY <1>1, <1>2, <1>4
    <3> QED  BY <1>3, <1>7, <3>1 DEF Imported
  <2>2. \A i \in Imported' : i < next' => Listed(i)'
    BY <1>2, <1>3, <1>7
  <2> QED  BY <1>1, <1>2, <1>7, <2>1, <2>2 DEF SuperModulesInv, IsSequence
<1> QED
  BY <1>5, <1>6, <1>7 DEF Collect

LEMMA RepositoryDoneSets ==
  ASSUME SuperModulesInv, RepositoryDone
  PROVE  SuperModulesInv'
<1> DEFINE r == [name |-> ast[next].name, submodule |-> ast[next].submodule]
<1>1. pc = "insert" /\ pc' = "collect" /\ repositories' = Append(repositories, r)
      /\ next' = next + 1 /\ UNCHANGED <<ast, superModule>>
  BY DEF RepositoryDone, fileVars
<1>2. IsSequence(ast) /\ IsSequence(repositories) /\ next \in Nat \ {0}
      /\ next \in Imported /\ \A i \in Imported : i < next => Listed(i)
  BY <1>1 DEF SuperModulesInv
<1> HIDE DEF r
<1>3. /\ IsSequence(repositories') /\ Len(repositories) \in Nat
      /\ DOMAIN repositories = 1..Len(repositories) /\ DOMAIN repositories' = 1..Len(repositories) + 1
      /\ repositories'[Len(repositories) + 1] = r
      /\ \A k \in 1..Len(repositories) : repositories'[k] = repositories[k]
  BY <1>1, <1>2, SequenceAppended
<1>4. \A k \in DOMAIN repositories : k \in DOMAIN repositories' /\ repositories'[k] = repositories[k]
  BY <1>3
<1>5. Imported' = Imported
  BY <1>1 DEF Imported
<1>6. ASSUME NEW i \in Imported, i < next + 1
      PROVE  Listed(i)'
  <2>1. i \in Nat
    <3>1. DOMAIN ast \subseteq Nat
      BY <1>2 DEF IsSequence
    <3> QED  BY <3>1 DEF Imported
  <2>2. CASE i = next
    <3>1. Len(repositories) + 1 \in DOMAIN repositories'
      BY <1>3
    <3>2. repositories'[Len(repositories) + 1] = [name |-> ast[i].name, submodule |-> ast[i].submodule]
      BY <1>3, <2>2 DEF r
    <3> QED  BY <1>1, <3>1, <3>2 DEF Listed
  <2>3. CASE i < next
    <3>1. Listed(i)
      BY <1>2, <2>3
    <3>2. PICK k \in DOMAIN repositories :
            repositories[k] = [name |-> ast[i].name, submodule |-> ast[i].submodule]
      BY <3>1 DEF Listed
    <3>3. k \in DOMAIN repositories'
          /\ repositories'[k] = [name |-> ast'[i].name, submodule |-> ast'[i].submodule]
      BY <1>1, <1>4, <3>2
    <3> QED  BY <3>3 DEF Listed
  <2> QED  BY <1>2, <1>6, <2>1, <2>2, <2>3
<1>7. \A i \in Imported' : i < next' => Listed(i)'
  BY <1>1, <1>5, <1>6
<1>8. next' \in Nat \ {0} /\ IsSequence(ast')
  BY <1>1, <1>2
<1>9. IsSequence(ast)' /\ IsSequence(repositories)'
  BY <1>3, <1>8 DEF IsSequence
<1> QED
  BY <1>1, <1>7, <1>8, <1>9 DEF SuperModulesInv

LEMMA BuiltSets ==
  ASSUME SuperModulesInv, Built
  PROVE  SuperModulesInv'
<1>1. pc = "collect" /\ pc' = "submodules" /\ next > Len(ast) /\ next' = 1
      /\ UNCHANGED <<ast, repositories, superModule>>
  BY DEF Built, fileVars
<1>2. IsSequence(ast) /\ IsSequence(repositories) /\ next \in Nat \ {0}
      /\ \A i \in Imported : i < next => Listed(i)
  BY <1>1 DEF SuperModulesInv
<1>3. Imported' = Imported /\ \A i : Listed(i)' = Listed(i)
  BY <1>1 DEF Imported, Listed
<1>4. \A i \in Imported : i < next
  <2>1. Len(ast) \in Nat /\ DOMAIN ast = 1..Len(ast)
    BY <1>2 DEF IsSequence
  <2> QED  BY <1>1, <1>2, <2>1 DEF Imported
<1>5. \A i \in Imported' : Listed(i)'
  BY <1>2, <1>3, <1>4
<1>6. \A k \in DOMAIN repositories' : ~ (k < 1)
  <2>1. Len(repositories) \in Nat /\ DOMAIN repositories = 1..Len(repositories)
    BY <1>2 DEF IsSequence
  <2> QED  BY <1>1, <2>1
<1>7. IsSequence(ast)' /\ IsSequence(repositories)'
  BY <1>1, <1>2 DEF IsSequence
<1> QED
  BY <1>1, <1>5, <1>6, <1>7 DEF SuperModulesInv

\* A super-module that is set stays: it is set again only if it is the same.
LEMMA SetSuperModuleSets ==
  ASSUME SuperModulesInv, SetSuperModule
  PROVE  SuperModulesInv'
<1> DEFINE r == repositories[next]
<1>1. pc = "submodules" /\ next <= Len(repositories) /\ UNCHANGED <<ast, repositories>>
  BY DEF SetSuperModule, fileVars
<1>2. IsSequence(ast) /\ IsSequence(repositories) /\ next \in Nat \ {0}
      /\ (\A i \in Imported : Listed(i)) /\ (\A k \in DOMAIN repositories : k < next => IsSet(k))
  BY <1>1 DEF SuperModulesInv
<1>3. CASE pc' = "failed" /\ UNCHANGED <<next, superModule>>
  BY <1>1, <1>3, SuperModulesStable
<1>4. CASE /\ ~ (r.submodule # NoSubmodule /\ Conflicts(r.name, r.submodule))
           /\ superModule' = IF r.submodule = NoSubmodule THEN superModule
                             ELSE [n \in DOMAIN superModule \cup {r.name} |->
                                     IF n = r.name THEN r.submodule ELSE superModule[n]]
           /\ next' = next + 1 /\ UNCHANGED pc
  <2>1. Imported' = Imported /\ \A i : Listed(i)' = Listed(i)
    BY <1>1 DEF Imported, Listed
  <2>2. r.submodule # NoSubmodule =>
          /\ r.name \in DOMAIN superModule' /\ superModule'[r.name] = r.submodule
          /\ \A n \in DOMAIN superModule : n \in DOMAIN superModule' /\ superModule'[n] = superModule[n]
    <3> SUFFICES ASSUME r.submodule # NoSubmodule
                 PROVE  /\ r.name \in DOMAIN superModule' /\ superModule'[r.name] = r.submodule
                        /\ \A n \in DOMAIN superModule :
                             n \in DOMAIN superModule' /\ superModule'[n] = superModule[n]
      OBVIOUS
    <3>1. superModule' = [n \in DOMAIN superModule \cup {r.name} |->
                            IF n = r.name THEN r.submodule ELSE superModule[n]]
      BY <1>4
    <3>2. r.name \in DOMAIN superModule => superModule[r.name] = r.submodule
      BY <1>4 DEF Conflicts
    <3> HIDE DEF r
    <3>3. DOMAIN superModule' = {r.name} \cup DOMAIN superModule
          /\ superModule'[r.name] = r.submodule
          /\ \A n \in DOMAIN superModule : n # r.name => superModule'[n] = superModule[n]
      BY <3>1
    <3> QED  BY <3>2, <3>3
  <2>3. r.submodule = NoSubmodule => superModule' = superModule
    BY <1>4
  <2>4. \A n \in DOMAIN superModule : n \in DOMAIN superModule' /\ superModule'[n] = superModule[n]
    BY <2>2, <2>3
  <2>5. ASSUME NEW k \in DOMAIN repositories, k = next
        PROVE  IsSet(k)'
    BY <1>1, <2>2, <2>5 DEF IsSet
  <2>6. \A k \in DOMAIN repositories : k < next => IsSet(k)'
    BY <1>1, <1>2, <2>4 DEF IsSet
  <2>7. \A k \in DOMAIN repositories' : k < next' => IsSet(k)'
    <3>1. Len(repositories) \in Nat /\ DOMAIN repositories = 1..Len(repositories)
      BY <1>2 DEF IsSequence
    <3>2. \A k \in DOMAIN repositories : k < next + 1 => k < next \/ k = next
      BY <1>2, <3>1
    <3>3. \A k \in DOMAIN repositories : k < next + 1 => IsSet(k)'
      BY <2>5, <2>6, <3>2
    <3> QED  BY <1>1, <1>4, <3>3
  <2>8. \A i \in Imported' : Listed(i)'
    BY <1>2, <2>1
  <2>9. IsSequence(ast)' /\ IsSequence(repositories)' /\ next' \in Nat \ {0}
    BY <1>1, <1>2, <1>4 DEF IsSequence
  <2>10. pc' = "submodules"
    BY <1>1, <1>4
  <2> QED  BY <2>7, <2>8, <2>9, <2>10 DEF SuperModulesInv
<1> QED
  BY <1>3, <1>4 DEF SetSuperModule

LEMMA ReadySets ==
  ASSUME SuperModulesInv, Ready
  PROVE  SuperModulesInv'
<1>1. pc = "submodules" /\ pc' = "ready" /\ next > Len(repositories)
      /\ UNCHANGED <<ast, repositories, next, superModule>>
  BY DEF Ready, fileVars
<1>2. IsSequence(ast) /\ IsSequence(repositories) /\ next \in Nat \ {0}
      /\ (\A i \in Imported : Listed(i)) /\ (\A k \in DOMAIN repositories : k < next => IsSet(k))
  BY <1>1 DEF SuperModulesInv
<1>3. Imported' = Imported /\ (\A i : Listed(i)' = Listed(i)) /\ (\A k : IsSet(k)' = IsSet(k))
  BY <1>1 DEF Imported, Listed, IsSet
<1>4. \A k \in DOMAIN repositories : k < next
  <2>1. Len(repositories) \in Nat /\ DOMAIN repositories = 1..Len(repositories)
    BY <1>2 DEF IsSequence
  <2> QED  BY <1>1, <1>2, <2>1
<1>5. (\A i \in Imported' : Listed(i)') /\ (\A k \in DOMAIN repositories' : IsSet(k)')
  BY <1>1, <1>2, <1>3, <1>4
<1>6. IsSequence(ast)' /\ IsSequence(repositories)' /\ next' \in Nat \ {0}
  BY <1>1, <1>2 DEF IsSequence
<1> QED
  BY <1>1, <1>5, <1>6 DEF SuperModulesInv

\* What is said of super-modules holds while a ruleset is built and after.
THEOREM SuperModulesInvariant == RulesetSpec => []SuperModulesInv
<1>1. RulesetInit => SuperModulesInv
  BY SuperModulesInit
<1>2. SuperModulesInv /\ [RulesetNext]_rulesetVars => SuperModulesInv'
  <2> SUFFICES ASSUME SuperModulesInv, [RulesetNext]_rulesetVars
               PROVE  SuperModulesInv'
    OBVIOUS
  <2>1. CASE ParseFile
    BY <2>1, ParseFileSets
  <2>2. CASE Collect
    BY <2>2, CollectSets
  <2>3. CASE InsertMatch
    <3>1. UNCHANGED <<ast, repositories, next, superModule>>
      BY <2>3 DEF InsertMatch, fileVars
    <3>2. pc' = pc \/ pc' \in {"failed", "crashed"}
      BY <2>3 DEF InsertMatch
    <3> QED  BY <3>1, <3>2, SuperModulesStable
  <2>4. CASE RepositoryDone
    BY <2>4, RepositoryDoneSets
  <2>5. CASE Built
    BY <2>5, BuiltSets
  <2>6. CASE SetSuperModule
    BY <2>6, SetSuperModuleSets
  <2>7. CASE Ready
    BY <2>7, ReadySets
  <2>8. CASE Lookup
    <3>1. UNCHANGED <<ast, repositories, next, superModule, pc>>
      BY <2>8 DEF Lookup, fileVars, buildVars
    <3> QED  BY <3>1, SuperModulesStable
  <2>9. CASE SkipMatch
    <3>1. UNCHANGED <<ast, repositories, next, superModule, pc>>
      BY <2>9 DEF SkipMatch, fileVars
    <3> QED  BY <3>1, SuperModulesStable
  <2>10. CASE UNCHANGED rulesetVars
    <3>1. UNCHANGED <<ast, repositories, next, superModule, pc>>
      BY <2>10 DEF rulesetVars, fileVars, buildVars
    <3> QED  BY <3>1, SuperModulesStable
  <2> QED  BY <2>1, <2>2, <2>3, <2>4, <2>5, <2>6, <2>7, <2>8, <2>9, <2>10 DEF RulesetNext, Ended
<1> QED
  BY <1>1, <1>2, PTL DEF RulesetSpec

\* Every repository has the super-module that its rules say, in whatever order and
\* however often they say it.
THEOREM SuperModulesAreRight == RulesetSpec => []SuperModulesAgree
<1>1. ASSUME SuperModulesInv
      PROVE  SuperModulesAgree
  <2> SUFFICES ASSUME pc = "ready", NEW i \in Imported, ast[i].submodule # NoSubmodule
               PROVE  superModule[ast[i].name] = ast[i].submodule
    BY DEF SuperModulesAgree
  <2>1. PICK k \in DOMAIN repositories :
          repositories[k] = [name |-> ast[i].name, submodule |-> ast[i].submodule]
    BY <1>1 DEF SuperModulesInv, Listed
  <2>2. IsSet(k)
    BY <1>1 DEF SuperModulesInv
  <2>3. repositories[k].name = ast[i].name /\ repositories[k].submodule = ast[i].submodule
    BY <2>1
  <2> QED  BY <2>2, <2>3 DEF IsSet
<1> QED
  BY <1>1, SuperModulesInvariant, PTL

=============================================================================
