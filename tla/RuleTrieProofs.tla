---------------------------- MODULE RuleTrieProofs ----------------------------
(***************************************************************************)
(* Theorems about module RuleTrie, for any rules, texts and revisions.     *)
(*                                                                         *)
(* 1. Least and greatest elements, prefixes, the rules of one node.        *)
(* 2. TrieInv is inductive: what insert does to each of the two trees, and *)
(*    to the transitions.                                                  *)
(* 3. What the lookups return follows from it.                             *)
(***************************************************************************)
EXTENDS RuleTrieProperties, FiniteSetTheorems, SequenceTheorems,
        WellFoundedInduction, TLAPS

-----------------------------------------------------------------------------
(* Least and greatest elements.                                            *)

\* A set of naturals that is not empty has a least element, and Min returns it.
LEMMA LeastMember ==
  ASSUME NEW S \in SUBSET Nat, S # {}
  PROVE  Min(S) \in S /\ \A x \in S : Min(S) <= x
<1> DEFINE R == OpToRel(<, Nat)
<1>1. \E x \in S : \A y \in S : ~ (<<y, x>> \in R)
  <2> HIDE DEF R
  <2>1. IsWellFoundedOn(R, Nat)
    BY NatLessThanWellFounded DEF R
  <2> QED  BY <2>1, WFMin
<1>2. PICK x \in S : \A y \in S : ~ (<<y, x>> \in R)
  BY <1>1
<1>3. \A y \in S : ~ (y < x)
  BY <1>2 DEF OpToRel
<1>4. \A y \in S : x <= y
  <2> x \in Nat /\ \A y \in S : y \in Nat
    OBVIOUS
  <2> QED  BY <1>3
<1> QED
  BY <1>4 DEF Min

\* A set of naturals below a bound that is not empty has a greatest element, and
\* Max returns it.
LEMMA GreatestMember ==
  ASSUME NEW n \in Nat, NEW S \in SUBSET (0..n), S # {}
  PROVE  Max(S) \in S /\ \A x \in S : x <= Max(S)
<1> DEFINE D == {d \in Nat : n - d \in S}
<1>1. PICK x \in S : TRUE
  OBVIOUS
<1>2. n - x \in D
  OBVIOUS
<1>3. Min(D) \in D /\ \A d \in D : Min(D) <= d
  <2> HIDE DEF D
  <2> D \in SUBSET Nat
    BY DEF D
  <2> QED  BY <1>2, LeastMember
<1>4. PICK d \in D : \A e \in D : d <= e
  BY <1>3
<1>5. \A y \in S : y <= n - d
  <2> TAKE y \in S
  <2>1. n - y \in D
    OBVIOUS
  <2>2. d <= n - y /\ d \in Nat /\ y \in Nat
    BY <1>4, <2>1
  <2> QED  BY <2>2
<1> QED
  BY <1>5 DEF Max

-----------------------------------------------------------------------------
(* Prefixes.                                                               *)

\* A prefix has the elements at its places.
LEMMA PrefixMeans ==
  ASSUME NEW S, NEW s \in Seq(S), NEW t \in Seq(S)
  PROVE  IsPrefix(s, t) <=> Len(s) <= Len(t) /\ \A i \in 1..Len(s) : s[i] = t[i]
<1>1. Len(s) \in Nat /\ Len(t) \in Nat
      /\ (\A i \in 1..Len(s) : s[i] \in S) /\ (\A i \in 1..Len(t) : t[i] \in S)
  OBVIOUS
<1>2. SubSeq(s, 1, Len(s)) = s
  BY SubSeqFull
<1>3. ASSUME Len(s) <= Len(t)
      PROVE  /\ SubSeq(t, 1, Len(s)) \in Seq(S) /\ Len(SubSeq(t, 1, Len(s))) = Len(s)
             /\ \A i \in 1..Len(s) : SubSeq(t, 1, Len(s))[i] = t[i]
  <2>1. 1 \in Int /\ Len(s) \in Int /\ \A i \in 1..Len(s) : t[i] \in S
    BY <1>1, <1>3
  <2>2. /\ SubSeq(t, 1, Len(s)) \in Seq(S)
        /\ Len(SubSeq(t, 1, Len(s))) = IF 1 <= Len(s) THEN Len(s) - 1 + 1 ELSE 0
        /\ \A i \in 1..Len(s) - 1 + 1 : SubSeq(t, 1, Len(s))[i] = t[1 + i - 1]
    BY <2>1, SubSeqProperties
  <2>3. Len(s) - 1 + 1 = Len(s) /\ \A i \in 1..Len(s) : 1 + i - 1 = i
    BY <1>1
  <2> QED  BY <1>1, <2>2, <2>3
<1>4. ASSUME Len(s) <= Len(t), \A i \in 1..Len(s) : s[i] = t[i]
      PROVE  s = SubSeq(t, 1, Len(s))
  <2> DEFINE u == SubSeq(t, 1, Len(s))
  <2>1. u \in Seq(S) /\ Len(u) = Len(s) /\ \A i \in 1..Len(s) : s[i] = u[i]
    BY <1>3, <1>4
  <2> HIDE DEF u
  <2>2. s = u
    BY <2>1, SeqEqual
  <2> QED  BY <2>2 DEF u
<1> QED
  BY <1>1, <1>2, <1>3, <1>4 DEF IsPrefix

\* Two prefixes of one text: the shorter is a prefix of the longer.
LEMMA PrefixesNested ==
  ASSUME NEW S, NEW s \in Seq(S), NEW t \in Seq(S), NEW u \in Seq(S),
         IsPrefix(s, u), IsPrefix(t, u), Len(s) <= Len(t)
  PROVE  IsPrefix(s, t)
<1>1. Len(s) \in Nat /\ Len(t) \in Nat
  OBVIOUS
<1>2. (\A i \in 1..Len(s) : s[i] = u[i]) /\ (\A i \in 1..Len(t) : t[i] = u[i])
  BY PrefixMeans
<1>3. \A i \in 1..Len(s) : i \in 1..Len(t)
  BY <1>1
<1> QED
  BY <1>2, <1>3, PrefixMeans

LEMMA PrefixTransitive ==
  ASSUME NEW S, NEW s \in Seq(S), NEW t \in Seq(S), NEW u \in Seq(S),
         IsPrefix(s, t), IsPrefix(t, u)
  PROVE  IsPrefix(s, u)
<1>1. Len(s) \in Nat /\ Len(t) \in Nat /\ Len(u) \in Nat
  OBVIOUS
<1>2. /\ Len(s) <= Len(t) /\ \A i \in 1..Len(s) : s[i] = t[i]
      /\ Len(t) <= Len(u) /\ \A i \in 1..Len(t) : t[i] = u[i]
  BY PrefixMeans
<1>3. \A i \in 1..Len(s) : i \in 1..Len(t)
  BY <1>1, <1>2
<1>4. Len(s) <= Len(u) /\ \A i \in 1..Len(s) : s[i] = u[i]
  BY <1>1, <1>2, <1>3
<1> QED
  BY <1>4, PrefixMeans

\* A prefix that is no shorter is the text itself.
LEMMA PrefixEqual ==
  ASSUME NEW S, NEW s \in Seq(S), NEW t \in Seq(S), IsPrefix(s, t)
  PROVE  s = t \/ Len(s) < Len(t)
<1>1. Len(s) \in Nat /\ Len(t) \in Nat /\ Len(s) <= Len(t) /\ \A i \in 1..Len(s) : s[i] = t[i]
  BY PrefixMeans
<1>2. CASE Len(s) = Len(t)
  BY <1>1, <1>2, SeqEqual
<1> QED
  BY <1>1, <1>2

\* With one element more.
LEMMA PrefixAppend ==
  ASSUME NEW S, NEW s \in Seq(S), NEW c \in S, NEW t \in Seq(S)
  PROVE  IsPrefix(Append(s, c), t) <=> IsPrefix(s, t) /\ Len(s) < Len(t) /\ t[Len(s) + 1] = c
<1> DEFINE a == Append(s, c)
<1>1. Len(s) \in Nat /\ Len(t) \in Nat
  OBVIOUS
<1>2. a \in Seq(S) /\ Len(a) = Len(s) + 1 /\ a[Len(s) + 1] = c /\ \A i \in 1..Len(s) : a[i] = s[i]
  BY AppendProperties
<1> HIDE DEF a
<1>3. \A i \in 1..Len(s) + 1 : i \in 1..Len(s) \/ i = Len(s) + 1
  BY <1>1
<1>4. Len(s) + 1 \in 1..Len(s) + 1 /\ \A i \in 1..Len(s) : i \in 1..Len(s) + 1
  BY <1>1
<1>5. (\A i \in 1..Len(s) + 1 : a[i] = t[i]) <=> (\A i \in 1..Len(s) : s[i] = t[i]) /\ t[Len(s) + 1] = c
  BY <1>2, <1>3, <1>4
<1>6. Len(s) + 1 <= Len(t) <=> Len(s) <= Len(t) /\ Len(s) < Len(t)
  BY <1>1
<1>7. IsPrefix(a, t) <=> Len(a) <= Len(t) /\ \A i \in 1..Len(a) : a[i] = t[i]
  BY <1>2, PrefixMeans
<1>8. IsPrefix(s, t) <=> Len(s) <= Len(t) /\ \A i \in 1..Len(s) : s[i] = t[i]
  BY PrefixMeans
<1>9. IsPrefix(a, t) <=> IsPrefix(s, t) /\ Len(s) < Len(t) /\ t[Len(s) + 1] = c
  BY <1>2, <1>5, <1>6, <1>7, <1>8
<1> QED
  BY <1>9 DEF a

\* The empty text is a prefix of every one, and every text of itself.
LEMMA PrefixTrivial ==
  ASSUME NEW S, NEW t \in Seq(S)
  PROVE  IsPrefix(<< >>, t) /\ IsPrefix(t, t)
<1>1. IsPrefix(t, t)
  BY PrefixMeans
<1>2. PICK s \in Seq(S) : s = << >> /\ Len(s) = 0
  BY EmptySeq
<1>3. Len(s) <= Len(t) /\ \A i \in 1..Len(s) : s[i] = t[i]
  BY <1>2
<1>4. IsPrefix(s, t)
  BY <1>3, PrefixMeans
<1> QED
  BY <1>1, <1>2, <1>4

-----------------------------------------------------------------------------
(* The rules of one node.                                                  *)

\* The revisions of a rule are numbers.
LEMMA RuleAt ==
  ASSUME rules \in Seq(Insertable)
  PROVE  /\ Len(rules) \in Nat /\ Positions = 1..Len(rules)
         /\ \A i \in Positions :
              /\ rules[i] \in Insertable /\ rules[i] \in Rule
              /\ rules[i].min \in Nat /\ rules[i].max \in Nat /\ rules[i].min <= rules[i].max
              /\ rules[i].min \in 0..Forever /\ rules[i].max \in 0..Forever
              /\ rules[i].svn \in Seq(Chars) /\ rules[i].git \in Seq(Chars) /\ rules[i].ref \in Chars
              /\ rules[i].ref # Slash
<1>1. Len(rules) \in Nat /\ Positions = 1..Len(rules) /\ \A i \in Positions : rules[i] \in Insertable
  BY DEF Positions
<1>2. \A r \in Insertable :
        /\ r \in Rule /\ r.min \in 0..Forever /\ r.max \in 0..Forever /\ r.min <= r.max
        /\ r.svn \in Seq(Chars) /\ r.git \in Seq(Chars) /\ r.ref \in Chars /\ r.ref # Slash
  BY DEF Insertable, Rule
<1>3. \A n \in 0..Forever : n \in Nat
  BY RuleAssumption
<1> QED
  BY <1>1, <1>2, <1>3

\* The elements of a node are positions.
LEMMA NodeElement ==
  ASSUME rules \in Seq(Insertable), NEW list \in Seq(Positions)
  PROVE  /\ Len(list) \in Nat /\ DOMAIN list = 1..Len(list)
         /\ ToSet(list) = {list[i] : i \in 1..Len(list)}
         /\ \A i \in 1..Len(list) : list[i] \in Positions /\ list[i] \in ToSet(list)
              /\ rules[list[i]].max \in Nat /\ rules[list[i]].min \in Nat
<1>1. Len(list) \in Nat /\ DOMAIN list = 1..Len(list) /\ \A i \in 1..Len(list) : list[i] \in Positions
  OBVIOUS
<1> QED
  BY <1>1, RuleAt DEF ToSet

\* lower_bound finds the first rule whose last revision is not smaller.
LEMMA FindRevisionSplits ==
  ASSUME rules \in Seq(Insertable), NEW list \in Seq(Positions), NEW rev \in Nat
  PROVE  /\ FindRevision(list, rev) \in 1..Len(list) + 1
         /\ \A i \in 1..FindRevision(list, rev) - 1 : rules[list[i]].max < rev
         /\ FindRevision(list, rev) <= Len(list) => rules[list[FindRevision(list, rev)]].max >= rev
<1> DEFINE S == {i \in 1..Len(list) : rules[list[i]].max >= rev} \cup {Len(list) + 1}
<1>1. Len(list) \in Nat /\ \A i \in 1..Len(list) : rules[list[i]].max \in Nat
  BY NodeElement
<1>2. S \in SUBSET Nat /\ S # {}
  BY <1>1
<1>3. PICK m : m = FindRevision(list, rev)
  OBVIOUS
<1>4. m \in S /\ \A x \in S : m <= x
  <2> HIDE DEF S
  <2>1. m = Min(S)
    BY <1>3 DEF FindRevision, S
  <2> QED  BY <1>2, <2>1, LeastMember
<1>5. m \in 1..Len(list) + 1 /\ (m <= Len(list) => rules[list[m]].max >= rev)
  BY <1>1, <1>4
<1>6. \A i \in 1..m - 1 : rules[list[i]].max < rev
  <2> TAKE i \in 1..m - 1
  <2>1. i \in 1..Len(list) /\ ~ (m <= i)
    BY <1>1, <1>5
  <2>2. i \notin S
    BY <1>4, <2>1
  <2> QED  BY <1>1, <2>1, <2>2
<1> QED
  BY <1>3, <1>5, <1>6

\* A rule that is found is one of the node that is in force.
LEMMA FoundInForce ==
  ASSUME rules \in Seq(Insertable), NEW list \in Seq(Positions), NEW rev \in Nat,
         FindRule(list, rev) # NoRule
  PROVE  FindRule(list, rev) \in ToSet(list) /\ InForce(FindRule(list, rev), rev)
<1>1. PICK m \in 1..Len(list) + 1 : /\ m = FindRevision(list, rev)
                                    /\ m <= Len(list) => rules[list[m]].max >= rev
  BY FindRevisionSplits
<1>2. m <= Len(list) /\ rules[list[m]].min <= rev /\ FindRule(list, rev) = list[m]
  BY <1>1 DEF FindRule
<1>3. m \in 1..Len(list) /\ rules[list[m]].max \in Nat
  <2>1. Len(list) \in Nat
    BY NodeElement
  <2>2. m \in 1..Len(list)
    BY <1>2, <2>1
  <2> QED  BY <2>2, NodeElement
<1>4. list[m] \in ToSet(list)
  BY <1>3, NodeElement
<1> QED
  BY <1>1, <1>2, <1>3, <1>4 DEF InForce

\* Where the rules of a node are in force at different times, the one in force is
\* found.
LEMMA InForceFound ==
  ASSUME rules \in Seq(Insertable), NEW list \in Seq(Positions), NEW rev \in Nat,
         ByLastRevision(list),
         \A i, j \in ToSet(list) : i # j => Disjoint(i, j),
         NEW r \in ToSet(list), InForce(r, rev)
  PROVE  FindRule(list, rev) = r /\ r # NoRule
<1>1. Len(list) \in Nat /\ DOMAIN list = 1..Len(list)
  BY NodeElement
<1>2. PICK p \in 1..Len(list) : r = list[p]
  BY NodeElement
<1>3. PICK m \in 1..Len(list) + 1 :
        /\ m = FindRevision(list, rev)
        /\ \A i \in 1..m - 1 : rules[list[i]].max < rev
        /\ m <= Len(list) => rules[list[m]].max >= rev
  BY FindRevisionSplits
<1>4. list[p] \in Positions /\ rules[list[p]].min <= rev /\ rev <= rules[list[p]].max
      /\ rules[list[p]].max \in Nat /\ rules[list[p]].min \in Nat
  BY <1>2, NodeElement DEF InForce
<1>5. m <= p
  <2> SUFFICES ASSUME p < m
               PROVE  FALSE
    BY <1>1
  <2>1. p \in 1..m - 1
    BY <1>1
  <2> QED  BY <1>3, <1>4, <2>1
<1>6. m \in 1..Len(list) /\ rules[list[m]].max >= rev
  <2>1. m \in 1..Len(list)
    BY <1>1, <1>5
  <2> QED  BY <1>1, <1>3, <2>1
<1>7. list[m] \in Positions /\ list[m] \in ToSet(list) /\ list[p] \in ToSet(list)
      /\ rules[list[m]].max \in Nat /\ rules[list[m]].min \in Nat
      /\ rules[list[m]].min <= rules[list[m]].max
  BY <1>6, NodeElement, RuleAt
<1>8. list[m] = list[p]
  <2> SUFFICES ASSUME list[m] # list[p]
               PROVE  FALSE
    OBVIOUS
  <2>1. Disjoint(list[m], list[p])
    BY <1>7
  <2>2. m < p
    BY <1>5
  <2>3. rules[list[m]].max <= rules[list[p]].max
    BY <1>1, <1>6, <2>2 DEF ByLastRevision
  <2>4. rules[list[m]].max < rules[list[p]].min \/ rules[list[p]].max < rules[list[m]].min
    BY <2>1 DEF Disjoint
  <2> QED  BY ONLY <1>4, <1>6, <1>7, <2>3, <2>4
<1>9. list[p] # NoRule
  BY <1>4, RuleAt DEF NoRule
<1>10. m <= Len(list) /\ rules[list[m]].min <= rev
  BY <1>1, <1>4, <1>6, <1>8
<1> QED
  BY <1>2, <1>3, <1>8, <1>9, <1>10 DEF FindRule

-----------------------------------------------------------------------------
(* Insertion into one tree.                                                *)

\* The first part of a text.
LEMMA FirstPart ==
  ASSUME NEW S, NEW text \in Seq(S), NEW n \in 0..Len(text)
  PROVE  /\ SubSeq(text, 1, n) \in Seq(S) /\ Len(SubSeq(text, 1, n)) = n
         /\ IsPrefix(SubSeq(text, 1, n), text)
         /\ \A i \in 1..n : SubSeq(text, 1, n)[i] = text[i]
<1>1. Len(text) \in Nat /\ \A i \in 1..Len(text) : text[i] \in S
  OBVIOUS
<1>2. 1 \in Int /\ n \in Int /\ \A i \in 1..n : text[i] \in S
  BY <1>1
<1> DEFINE u == SubSeq(text, 1, n)
<1>3. /\ u \in Seq(S) /\ Len(u) = IF 1 <= n THEN n - 1 + 1 ELSE 0
      /\ \A i \in 1..n - 1 + 1 : u[i] = text[1 + i - 1]
  BY <1>2, SubSeqProperties
<1> HIDE DEF u
<1>4. n - 1 + 1 = n /\ (\A i \in 1..n : 1 + i - 1 = i) /\ (1 <= n \/ n = 0)
  BY <1>1
<1>5. u \in Seq(S) /\ Len(u) = n /\ \A i \in 1..n : u[i] = text[i]
  BY <1>3, <1>4
<1>6. IsPrefix(u, text)
  BY <1>1, <1>5, PrefixMeans
<1> QED
  BY <1>5, <1>6 DEF u

\* traverse follows the text as far as any node does, and no farther.
LEMMA MatchedMeans ==
  ASSUME NEW T, DOMAIN T \subseteq Seq(Chars), << >> \in DOMAIN T, NEW text \in Seq(Chars)
  PROVE  /\ Matched(T, text) \in Seq(Chars) /\ IsPrefix(Matched(T, text), text)
         /\ \E k \in DOMAIN T : IsPrefix(Matched(T, text), k)
         /\ \A k \in DOMAIN T :
              IsPrefix(Matched(T, text), k) /\ k # Matched(T, text) /\ text # Matched(T, text) =>
                text[Len(Matched(T, text)) + 1] # k[Len(Matched(T, text)) + 1]
<1> DEFINE N == {n \in 0..Len(text) : \E k \in DOMAIN T : IsPrefix(SubSeq(text, 1, n), k)}
<1>1. Len(text) \in Nat
  OBVIOUS
<1>2. 0 \in N
  <2>1. SubSeq(text, 1, 0) = << >>
    BY SubSeqEmpty
  <2>2. << >> \in Seq(Chars)
    OBVIOUS
  <2>3. IsPrefix(<< >>, << >>)
    BY <2>2, PrefixTrivial
  <2>4. \E k \in DOMAIN T : IsPrefix(SubSeq(text, 1, 0), k)
    BY <2>1, <2>3
  <2> QED  BY <1>1, <2>4
<1>3. PICK n : n = Max(N)
  OBVIOUS
<1>4. n \in N /\ \A x \in N : x <= n
  <2> HIDE DEF N
  <2>1. N \in SUBSET (0..Len(text)) /\ N # {}
    BY <1>2 DEF N
  <2> QED  BY <1>1, <1>3, <2>1, GreatestMember
<1>5. n \in 0..Len(text) /\ \E k \in DOMAIN T : IsPrefix(SubSeq(text, 1, n), k)
  BY <1>4
<1>6. Matched(T, text) = SubSeq(text, 1, n)
  BY <1>3 DEF Matched
<1>7. PICK m : m = Matched(T, text)
  OBVIOUS
<1>8. m \in Seq(Chars) /\ Len(m) = n /\ IsPrefix(m, text) /\ \A i \in 1..n : m[i] = text[i]
  BY <1>5, <1>6, <1>7, FirstPart
<1>9. ASSUME NEW k \in DOMAIN T, IsPrefix(m, k), k # m, text # m
      PROVE  text[n + 1] # k[n + 1]
  <2> SUFFICES ASSUME text[n + 1] = k[n + 1]
               PROVE  FALSE
    OBVIOUS
  <2>1. k \in Seq(Chars) /\ Len(k) \in Nat
    BY <1>9
  <2>2. n < Len(text) /\ n < Len(k)
    BY <1>8, <1>9, <2>1, PrefixEqual
  <2>3. n + 1 \in 0..Len(text)
    BY <1>1, <1>5, <2>2
  <2> DEFINE u == SubSeq(text, 1, n + 1)
  <2>4. u \in Seq(Chars) /\ Len(u) = n + 1 /\ \A i \in 1..n + 1 : u[i] = text[i]
    BY <2>3, FirstPart
  <2> HIDE DEF u
  <2>5. \A i \in 1..n : m[i] = k[i]
    BY <1>8, <1>9, <2>1, PrefixMeans
  <2>6. \A i \in 1..n + 1 : i \in 1..n \/ i = n + 1
    <3>1. n \in Nat
      BY <1>1, <1>5
    <3> QED  BY ONLY <3>1
  <2>7. \A i \in 1..Len(u) : u[i] = k[i]
    BY <1>8, <2>4, <2>5, <2>6
  <2>8. Len(u) <= Len(k)
    BY <1>5, <2>1, <2>2, <2>4
  <2>9. IsPrefix(u, k)
    BY <2>1, <2>4, <2>7, <2>8, PrefixMeans
  <2>10. n + 1 \in N
    BY <1>9, <2>3, <2>9 DEF u
  <2>11. n + 1 <= n
    BY <1>4, <2>10
  <2> QED  BY <1>5, <2>11
<1> QED
  BY <1>5, <1>6, <1>7, <1>8, <1>9

\* Adding the node of a text, with the node where it leaves the tree: nodes still
\* part at nodes.
LEMMA PartAtNodesAfter ==
  ASSUME NEW T, DOMAIN T \subseteq Seq(Chars), << >> \in DOMAIN T, PartAtNodes(T),
         NEW text \in Seq(Chars), NEW T2, DOMAIN T2 = DOMAIN T \cup {Matched(T, text), text}
  PROVE  PartAtNodes(T2)
<1> DEFINE Parts(j, k) == \E b \in DOMAIN T2 : /\ IsPrefix(b, j) /\ IsPrefix(b, k)
                                               /\ j = b \/ k = b \/ j[Len(b) + 1] # k[Len(b) + 1]
<1>1. PICK m : m = Matched(T, text)
  OBVIOUS
<1>2. /\ m \in Seq(Chars) /\ IsPrefix(m, text) /\ \E k \in DOMAIN T : IsPrefix(m, k)
      /\ \A k \in DOMAIN T : IsPrefix(m, k) /\ k # m /\ text # m => text[Len(m) + 1] # k[Len(m) + 1]
  BY <1>1, MatchedMeans
<1>3. PICK k0 \in DOMAIN T : IsPrefix(m, k0)
  BY <1>2
<1>4. DOMAIN T2 \subseteq Seq(Chars) /\ m \in DOMAIN T2 /\ text \in DOMAIN T2 /\ DOMAIN T \subseteq DOMAIN T2
      /\ \A j \in DOMAIN T2 : j \in DOMAIN T \/ j = m \/ j = text
  BY <1>1, <1>2
<1>5. \A j, k \in DOMAIN T2 : Parts(j, k) => Parts(k, j)
  OBVIOUS
<1>6. \A j \in DOMAIN T2 : Parts(j, j)
  <2> TAKE j \in DOMAIN T2
  <2>1. IsPrefix(j, j)
    BY <1>4, PrefixTrivial
  <2> QED  BY <2>1
<1>7. \A j, k \in DOMAIN T : Parts(j, k)
  BY <1>4 DEF PartAtNodes
<1>8. Parts(m, text)
  <2>1. IsPrefix(m, m) /\ IsPrefix(m, text)
    BY <1>2, PrefixTrivial
  <2> QED  BY <1>4, <2>1
<1>9. ASSUME NEW k \in DOMAIN T
      PROVE  Parts(m, k) /\ Parts(text, k)
  <2>1. PICK b \in DOMAIN T : /\ IsPrefix(b, k0) /\ IsPrefix(b, k)
                              /\ k0 = b \/ k = b \/ k0[Len(b) + 1] # k[Len(b) + 1]
    BY <1>3 DEF PartAtNodes
  <2>2. b \in Seq(Chars) /\ k0 \in Seq(Chars) /\ k \in Seq(Chars) /\ Len(b) \in Nat /\ Len(m) \in Nat
    BY <1>2
  <2>3. CASE Len(m) <= Len(b)
    <3>1. IsPrefix(m, b)
      BY <1>2, <1>3, <2>1, <2>2, <2>3, PrefixesNested
    <3>2. IsPrefix(m, k)
      BY <1>2, <2>1, <2>2, <3>1, PrefixTransitive
    <3>3. IsPrefix(m, m)
      BY <1>2, PrefixTrivial
    <3>4. k = m \/ text = m \/ text[Len(m) + 1] # k[Len(m) + 1]
      BY <1>2, <3>2
    <3> QED  BY <1>2, <1>4, <3>2, <3>3, <3>4
  <2>4. CASE Len(b) < Len(m)
    <3>1. IsPrefix(b, m)
      BY <1>2, <1>3, <2>1, <2>2, <2>4, PrefixesNested
    <3>2. IsPrefix(b, text)
      BY <1>2, <2>2, <3>1, PrefixTransitive
    <3>3. /\ \A i \in 1..Len(m) : m[i] = k0[i]
          /\ \A i \in 1..Len(m) : m[i] = text[i]
          /\ Len(m) <= Len(k0)
      BY <1>2, <1>3, <2>2, PrefixMeans
    <3>4. Len(b) + 1 \in 1..Len(m) /\ k0 # b
      BY <2>2, <2>4, <3>3
    <3>5. m[Len(b) + 1] = k0[Len(b) + 1] /\ text[Len(b) + 1] = k0[Len(b) + 1]
      BY <3>3, <3>4
    <3> QED  BY <1>4, <2>1, <3>1, <3>2, <3>4, <3>5
  <2> QED  BY <2>2, <2>3, <2>4
<1> HIDE DEF Parts
<1>10. \A j, k \in DOMAIN T2 : Parts(j, k)
  BY <1>4, <1>5, <1>6, <1>7, <1>8, <1>9
<1> QED
  BY <1>10 DEF PartAtNodes, Parts

\* A node without a rule still has several children: that of the text has a
\* rule, and the one that was split has the text and the old node below it.
LEMMA HasChildrenAfter ==
  ASSUME NEW T, DOMAIN T \subseteq Seq(Chars), << >> \in DOMAIN T, HasChildren(T),
         NEW text \in Seq(Chars), NEW T2, DOMAIN T2 = DOMAIN T \cup {Matched(T, text), text},
         \A k \in DOMAIN T : k # text => T2[k] = T[k],
         T2[text] # << >>
  PROVE  HasChildren(T2)
<1> DEFINE Several(b) == \E j, k \in DOMAIN T2 : /\ IsStrictPrefix(b, j) /\ IsStrictPrefix(b, k)
                                                 /\ j[Len(b) + 1] # k[Len(b) + 1]
<1>1. PICK m : m = Matched(T, text)
  OBVIOUS
<1>2. /\ IsPrefix(m, text) /\ \E k \in DOMAIN T : IsPrefix(m, k)
      /\ \A k \in DOMAIN T : IsPrefix(m, k) /\ k # m /\ text # m => text[Len(m) + 1] # k[Len(m) + 1]
  BY <1>1, MatchedMeans
<1>3. ASSUME NEW b \in DOMAIN T2 \ {<< >>}, T2[b] = << >>
      PROVE  Several(b)
  <2>1. b # text /\ (b \in DOMAIN T \/ b = m)
    BY <1>1, <1>3
  <2>2. CASE b \in DOMAIN T
    <3>1. T[b] = << >>
      BY <1>3, <2>1, <2>2
    <3>2. \E j, k \in DOMAIN T : /\ IsStrictPrefix(b, j) /\ IsStrictPrefix(b, k)
                                 /\ j[Len(b) + 1] # k[Len(b) + 1]
      BY <1>3, <2>2, <3>1 DEF HasChildren
    <3> QED  BY <3>2
  <2>3. CASE b \notin DOMAIN T
    <3>1. b = m /\ m # text
      BY <2>1, <2>3
    <3>2. PICK k \in DOMAIN T : IsPrefix(m, k)
      BY <1>2
    <3>3. k # m
      BY <2>3, <3>1
    <3>4. text[Len(m) + 1] # k[Len(m) + 1]
      BY <1>2, <3>1, <3>2, <3>3
    <3>5. IsStrictPrefix(m, text) /\ IsStrictPrefix(m, k) /\ text \in DOMAIN T2 /\ k \in DOMAIN T2
      BY <1>2, <3>1, <3>2, <3>3 DEF IsStrictPrefix
    <3> QED  BY <3>1, <3>4, <3>5
  <2> QED  BY <2>2, <2>3
<1> HIDE DEF Several
<1>4. \A b \in DOMAIN T2 \ {<< >>} : T2[b] = << >> => Several(b)
  BY <1>3
<1> QED
  BY <1>4 DEF HasChildren, Several

\* Insertion at a position moves what follows one place up.
LEMMA InsertAtProperties ==
  ASSUME NEW S, NEW list \in Seq(S), NEW e \in S, NEW pos \in 1..Len(list) + 1
  PROVE  /\ InsertAt(list, pos, e) \in Seq(S)
         /\ Len(InsertAt(list, pos, e)) = Len(list) + 1
         /\ \A i \in 1..Len(list) + 1 :
              InsertAt(list, pos, e)[i] = IF i < pos THEN list[i] ELSE IF i = pos THEN e ELSE list[i - 1]
<1> DEFINE a == SubSeq(list, 1, pos - 1)
           b == SubSeq(list, pos, Len(list))
           c == a \o <<e>>
<1>1. Len(list) \in Nat /\ pos \in Nat /\ \A i \in 1..Len(list) : list[i] \in S
  OBVIOUS
<1>2. a \in Seq(S) /\ Len(a) = pos - 1 /\ \A i \in 1..pos - 1 : a[i] = list[i]
  <2>1. 1 \in Int /\ pos - 1 \in Int /\ \A i \in 1..pos - 1 : list[i] \in S
    BY <1>1
  <2>2. /\ a \in Seq(S)
        /\ Len(a) = IF 1 <= pos - 1 THEN (pos - 1) - 1 + 1 ELSE 0
        /\ \A i \in 1..(pos - 1) - 1 + 1 : a[i] = list[1 + i - 1]
    BY <2>1, SubSeqProperties
  <2> HIDE DEF a
  <2> QED  BY <1>1, <2>2
<1>3. b \in Seq(S) /\ Len(b) = Len(list) - pos + 1
      /\ \A i \in 1..Len(list) - pos + 1 : b[i] = list[pos + i - 1]
  <2>1. pos \in Int /\ Len(list) \in Int /\ \A i \in pos..Len(list) : list[i] \in S
    BY <1>1
  <2>2. /\ b \in Seq(S)
        /\ Len(b) = IF pos <= Len(list) THEN Len(list) - pos + 1 ELSE 0
        /\ \A i \in 1..Len(list) - pos + 1 : b[i] = list[pos + i - 1]
    BY <2>1, SubSeqProperties
  <2> HIDE DEF b
  <2> QED  BY <1>1, <2>2
<1> HIDE DEF a, b
<1>4. c \in Seq(S) /\ Len(c) = pos /\ \A i \in 1..pos : c[i] = IF i < pos THEN list[i] ELSE e
  <2>1. <<e>> \in Seq(S) /\ Len(<<e>>) = 1 /\ <<e>>[1] = e
    OBVIOUS
  <2>2. /\ c \in Seq(S) /\ Len(c) = Len(a) + Len(<<e>>)
        /\ \A i \in 1..Len(a) + Len(<<e>>) : c[i] = IF i <= Len(a) THEN a[i] ELSE <<e>>[i - Len(a)]
    BY <1>2, <2>1, ConcatProperties
  <2> HIDE DEF c
  <2> QED  BY <1>1, <1>2, <2>1, <2>2
<1> HIDE DEF c
<1>5. /\ c \o b \in Seq(S) /\ Len(c \o b) = Len(c) + Len(b)
      /\ \A i \in 1..Len(c) + Len(b) : (c \o b)[i] = IF i <= Len(c) THEN c[i] ELSE b[i - Len(c)]
  BY <1>3, <1>4, ConcatProperties
<1>6. InsertAt(list, pos, e) = c \o b
  BY DEF InsertAt, a, b, c
<1> DEFINE d == c \o b
<1>7. /\ d \in Seq(S) /\ Len(d) = Len(list) + 1
      /\ \A i \in 1..Len(list) + 1 : d[i] = IF i < pos THEN list[i] ELSE IF i = pos THEN e ELSE list[i - 1]
  <2> d \in Seq(S) /\ Len(d) = Len(c) + Len(b)
      /\ \A i \in 1..Len(c) + Len(b) : d[i] = IF i <= Len(c) THEN c[i] ELSE b[i - Len(c)]
    BY <1>5
  <2> HIDE DEF d
  <2> QED  BY <1>1, <1>3, <1>4
<1> QED
  BY <1>6, <1>7

\* The new rule goes into the list of its node: the list stays ordered by the last
\* revision, in the deque that has the new rule too.
LEMMA NodeInsertion ==
  ASSUME rules \in Seq(Insertable), NEW list \in Seq(Positions), ByLastRevision(list),
         NEW r \in Insertable, NEW rules2, rules2 = Append(rules, r),
         NEW new, new = InsertAt(list, FindRevision(list, r.max), Len(rules) + 1)
  PROVE  /\ new \in Seq(1..Len(rules) + 1) /\ new # << >>
         /\ ToSet(new) = ToSet(list) \cup {Len(rules) + 1}
         /\ \A i, j \in DOMAIN new : i < j => rules2[new[i]].max <= rules2[new[j]].max
<1> DEFINE P == Len(rules) + 1
           M(i) == rules[list[i]].max
           W(i) == rules2[new[i]].max
<1>1. /\ Len(rules) \in Nat /\ Positions = 1..Len(rules) /\ r.max \in Nat
      /\ P \in 1..P /\ \A i \in Positions : i \in 1..P /\ rules2[i] = rules[i]
      /\ rules2[P] = r
  <2>1. Len(rules) \in Nat /\ Positions = 1..Len(rules)
    BY RuleAt
  <2>2. r.max \in Nat
    BY RuleAssumption DEF Insertable, Rule
  <2>3. rules2[Len(rules) + 1] = r /\ \A i \in 1..Len(rules) : rules2[i] = rules[i]
    BY AppendProperties
  <2>4. P \in 1..P /\ \A i \in 1..Len(rules) : i \in 1..P
    BY <2>1
  <2> QED  BY <2>1, <2>2, <2>3, <2>4
<1>2. Len(list) \in Nat /\ DOMAIN list = 1..Len(list)
      /\ \A i \in 1..Len(list) : list[i] \in Positions /\ M(i) \in Nat
  BY NodeElement
<1>3. PICK pos \in 1..Len(list) + 1 :
        /\ pos = FindRevision(list, r.max)
        /\ \A i \in 1..pos - 1 : M(i) < r.max
        /\ pos <= Len(list) => M(pos) >= r.max
  BY <1>1, FindRevisionSplits
<1>4. list \in Seq(1..P)
  <2>1. Positions \subseteq 1..P
    BY <1>1
  <2> HIDE DEF P
  <2> QED  BY <2>1, SeqMonotonic
<1>5. /\ new \in Seq(1..P) /\ Len(new) = Len(list) + 1
      /\ \A i \in 1..Len(list) + 1 : new[i] = IF i < pos THEN list[i] ELSE IF i = pos THEN P ELSE list[i - 1]
  <2>1. new = InsertAt(list, pos, P) /\ P \in 1..P
    BY <1>1, <1>3
  <2> HIDE DEF P
  <2> DEFINE Q == 1..P
  <2>2. list \in Seq(Q) /\ P \in Q
    BY <1>4, <2>1
  <2> HIDE DEF Q
  <2>3. /\ InsertAt(list, pos, P) \in Seq(Q) /\ Len(InsertAt(list, pos, P)) = Len(list) + 1
        /\ \A i \in 1..Len(list) + 1 :
             InsertAt(list, pos, P)[i] = IF i < pos THEN list[i] ELSE IF i = pos THEN P ELSE list[i - 1]
    BY <2>2, InsertAtProperties
  <2> QED  BY <2>1, <2>3 DEF Q
<1> HIDE DEF P
<1>6. DOMAIN new = 1..Len(list) + 1
  BY <1>5
<1>7. pos \in Nat
  BY <1>2
<1>8. \A i \in 1..Len(list) + 1 :
        \/ i < pos /\ i \in 1..Len(list) /\ new[i] = list[i] /\ W(i) = M(i)
        \/ i = pos /\ new[i] = P /\ W(i) = r.max
        \/ pos < i /\ i - 1 \in 1..Len(list) /\ i - 1 >= pos /\ new[i] = list[i - 1] /\ W(i) = M(i - 1)
  <2> TAKE i \in 1..Len(list) + 1
  <2>1. CASE i < pos
    <3>1. i \in 1..Len(list)
      BY <1>2, <1>7, <2>1
    <3>2. new[i] = list[i]
      BY <1>5, <2>1
    <3> QED  BY <1>1, <1>2, <2>1, <3>1, <3>2
  <2>2. CASE i = pos
    <3>1. new[i] = P
      BY <1>5, <1>7, <2>2
    <3> QED  BY <1>1, <2>2, <3>1
  <2>3. CASE pos < i
    <3>1. i - 1 \in 1..Len(list) /\ i - 1 >= pos /\ ~ (i < pos) /\ i # pos
      BY <1>2, <1>7, <2>3
    <3>2. new[i] = list[i - 1]
      BY <1>5, <3>1
    <3> QED  BY <1>1, <1>2, <2>3, <3>1, <3>2
  <2>4. i < pos \/ i = pos \/ pos < i
    BY <1>2, <1>7
  <2> HIDE DEF M, W
  <2> QED  BY <2>1, <2>2, <2>3, <2>4
<1>9. \A i \in 1..Len(list) : pos <= i => M(i) >= r.max
  <2> SUFFICES ASSUME NEW i \in 1..Len(list), pos <= i
               PROVE  M(i) >= r.max
    OBVIOUS
  <2>1. pos \in 1..Len(list) /\ M(pos) >= r.max
    BY <1>2, <1>3, <1>7
  <2>2. pos = i \/ M(pos) <= M(i)
    <3>1. pos \in DOMAIN list /\ i \in DOMAIN list /\ (pos = i \/ pos < i)
      BY <1>2, <1>7, <2>1
    <3> QED  BY <3>1 DEF ByLastRevision
  <2>3. M(pos) \in Nat /\ M(i) \in Nat
    BY <1>2, <2>1
  <2> HIDE DEF M
  <2> QED  BY <1>1, <2>1, <2>2, <2>3
<1>10. \A i, j \in 1..Len(list) : i < j => M(i) <= M(j)
  BY <1>2 DEF ByLastRevision
<1>11. \A i \in 1..Len(list) : i < pos => M(i) < r.max
  <2> TAKE i \in 1..Len(list)
  <2>1. i < pos => i \in 1..pos - 1
    BY <1>2, <1>7
  <2> QED  BY <1>3, <2>1
<1> HIDE DEF M, W
<1>12. \A i, j \in 1..Len(list) + 1 : i < j => W(i) <= W(j)
  <2> SUFFICES ASSUME NEW i \in 1..Len(list) + 1, NEW j \in 1..Len(list) + 1, i < j
               PROVE  W(i) <= W(j)
    OBVIOUS
  <2>1. CASE i < pos
    <3>1. W(i) = M(i) /\ i \in 1..Len(list)
      BY <1>7, <1>8, <2>1
    <3>2. M(i) < r.max /\ M(i) \in Nat
      BY <1>2, <1>11, <2>1, <3>1
    <3>3. CASE j < pos
      BY <1>7, <1>8, <1>10, <3>1, <3>3
    <3>4. CASE j = pos
      BY <1>1, <1>7, <1>8, <3>1, <3>2, <3>4
    <3>5. CASE pos < j
      <4>1. W(j) = M(j - 1) /\ j - 1 \in 1..Len(list) /\ j - 1 >= pos
        BY <1>7, <1>8, <3>5
      <4>2. M(j - 1) >= r.max /\ M(j - 1) \in Nat
        BY <1>2, <1>7, <1>9, <4>1
      <4>3. r.max \in Nat
        BY <1>1
      <4> QED  BY ONLY <3>1, <3>2, <4>1, <4>2, <4>3
    <3> QED  BY <1>7, <3>3, <3>4, <3>5
  <2>2. CASE pos <= i
    <3>1. pos < j /\ W(j) = M(j - 1) /\ j - 1 \in 1..Len(list) /\ j - 1 >= pos
      <4>1. pos < j
        BY <1>7, <2>2
      <4> QED  BY <1>7, <1>8, <4>1
    <3>2. CASE i = pos
      <4>1. W(i) = r.max
        BY <1>7, <1>8, <3>2
      <4> QED  BY <1>7, <1>9, <3>1, <4>1
    <3>3. CASE pos < i
      <4>1. W(i) = M(i - 1) /\ i - 1 \in 1..Len(list)
        BY <1>7, <1>8, <3>3
      <4>2. i - 1 < j - 1
        OBVIOUS
      <4> QED  BY <1>10, <3>1, <4>1, <4>2
    <3> QED  BY <1>7, <2>2, <3>2, <3>3
  <2> QED  BY <1>7, <2>1, <2>2
<1>13. ToSet(new) = ToSet(list) \cup {P}
  <2>1. \A i \in DOMAIN new : new[i] \in ToSet(list) \cup {P}
    BY <1>2, <1>6, <1>8 DEF ToSet
  <2>2. pos \in DOMAIN new /\ new[pos] = P
    BY <1>2, <1>6, <1>7, <1>8
  <2>3. \A i \in DOMAIN list : list[i] \in ToSet(new)
    <3> TAKE i \in DOMAIN list
    <3>1. CASE i < pos
      <4>1. i \in DOMAIN new
        BY <1>2, <1>6
      <4>2. new[i] = list[i]
        BY <1>5, <1>6, <3>1, <4>1
      <4> QED  BY <4>1, <4>2 DEF ToSet
    <3>2. CASE pos <= i
      <4>1. i + 1 \in 1..Len(list) + 1 /\ ~ (i + 1 < pos) /\ i + 1 # pos /\ (i + 1) - 1 = i
        BY <1>2, <1>7, <3>2
      <4>2. i + 1 \in DOMAIN new /\ new[i + 1] = list[i]
        BY <1>5, <1>6, <4>1
      <4> QED  BY <4>2 DEF ToSet
    <3> QED  BY <1>2, <1>7, <3>1, <3>2
  <2> QED  BY <2>1, <2>2, <2>3 DEF ToSet
<1>14. new # << >>
  <2>1. Len(new) # 0
    BY <1>2, <1>5
  <2> QED  BY <2>1
<1> QED
  BY <1>5, <1>6, <1>12, <1>13, <1>14 DEF P, W

\* What the invariant says of one tree.
TreeInv(T, text) ==
  /\ \A k \in DOMAIN T : T[k] \in Seq(Positions) /\ ByLastRevision(T[k])
  /\ PartAtNodes(T) /\ HasChildren(T) /\ AtNodes(T, text)

\* And what it says after an insertion, when there are P rules2.
TreeWith(rules2, T2, text2, P) ==
  /\ \A k \in DOMAIN T2 :
       /\ T2[k] \in Seq(1..P)
       /\ \A i, j \in DOMAIN T2[k] : i < j => rules2[T2[k][i]].max <= rules2[T2[k][j]].max
  /\ PartAtNodes(T2) /\ HasChildren(T2)
  /\ DOMAIN T2 \subseteq Seq(Chars) /\ << >> \in DOMAIN T2
  /\ \A i \in 1..P : text2[i] \in DOMAIN T2 /\ i \in ToSet(T2[text2[i]])
  /\ \A k \in DOMAIN T2 : \A i \in ToSet(T2[k]) : text2[i] = k

\* A node's list as it was is in order with the new rule in the deque.
LEMMA OtherNodesKept ==
  ASSUME rules \in Seq(Insertable), NEW list \in Seq(Positions), ByLastRevision(list),
         NEW r \in Insertable, NEW rules2, rules2 = Append(rules, r)
  PROVE  /\ list \in Seq(1..Len(rules) + 1)
         /\ \A i, j \in DOMAIN list : i < j => rules2[list[i]].max <= rules2[list[j]].max
<1>1. Len(rules) \in Nat /\ Positions = 1..Len(rules)
  BY RuleAt
<1>2. list \in Seq(1..Len(rules) + 1)
  <2>1. Positions \subseteq 1..Len(rules) + 1
    BY <1>1
  <2> QED  BY <2>1, SeqMonotonic
<1>3. \A i \in Positions : rules2[i] = rules[i]
  BY <1>1, AppendProperties
<1>4. \A i \in DOMAIN list : rules2[list[i]] = rules[list[i]]
  <2>1. \A i \in DOMAIN list : list[i] \in Positions
    BY NodeElement
  <2> QED  BY <1>3, <2>1
<1> QED
  BY <1>2, <1>4 DEF ByLastRevision

\* The insertion of a rule leaves a tree of which the invariant holds with the new
\* rule, whatever text it is inserted at.
LEMMA TreeInsertion ==
  ASSUME rules \in Seq(Insertable), NEW r \in Insertable, NEW rules2, rules2 = Append(rules, r),
         NEW T, NEW text, TreeInv(T, text),
         NEW text2, \A i \in Positions : text2[i] = text[i],
         text2[Len(rules) + 1] \in Seq(Chars),
         NEW T2, T2 = WithRule(T, text2[Len(rules) + 1], r)
  PROVE  TreeWith(rules2, T2, text2, Len(rules) + 1)
<1> DEFINE P == Len(rules) + 1
           t == text2[P]
           W == WithNode(T, t)
<1>1. Len(rules) \in Nat /\ Positions = 1..Len(rules) /\ P \in Nat /\ P \notin Positions
      /\ \A i \in 1..P : i \in Positions \/ i = P
  <2>1. Len(rules) \in Nat /\ Positions = 1..Len(rules)
    BY RuleAt
  <2> QED  BY <2>1
<1>2. DOMAIN T \subseteq Seq(Chars) /\ << >> \in DOMAIN T /\ t \in Seq(Chars)
      /\ (\A i \in Positions : text[i] \in DOMAIN T /\ i \in ToSet(T[text[i]]))
      /\ (\A k \in DOMAIN T : \A i \in ToSet(T[k]) : text[i] = k)
  BY DEF TreeInv, AtNodes
<1>3. /\ DOMAIN W = DOMAIN T \cup {Matched(T, t), t}
      /\ \A k \in DOMAIN W : W[k] = IF k \in DOMAIN T THEN T[k] ELSE << >>
  BY DEF WithNode, NewNode
<1> DEFINE new == InsertAt(W[t], FindRevision(W[t], r.max), P)
<1>4. DOMAIN T2 = DOMAIN W /\ T2[t] = new /\ \A k \in DOMAIN T2 : k # t => T2[k] = W[k]
  <2>1. T2 = [W EXCEPT ![t] = new]
    BY DEF WithRule
  <2>2. t \in DOMAIN W
    BY <1>3
  <2>3. \A k \in DOMAIN W : W[k] = W[k]
    OBVIOUS
  <2>4. W = [k \in DOMAIN W |-> W[k]]
    BY DEF WithNode
  <2> HIDE DEF W, new, t
  <2> QED  BY <2>1, <2>2, <2>4
<1>5. ASSUME NEW k \in DOMAIN W
      PROVE  /\ W[k] \in Seq(Positions) /\ ByLastRevision(W[k])
             /\ \A i \in ToSet(W[k]) : i \in Positions /\ text[i] = k
  <2>1. CASE k \in DOMAIN T
    <3>1. W[k] = T[k]
      BY <1>3, <1>5, <2>1
    <3>2. T[k] \in Seq(Positions) /\ ByLastRevision(T[k])
      BY <2>1 DEF TreeInv
    <3>3. \A i \in ToSet(T[k]) : i \in Positions
      BY <3>2 DEF ToSet
    <3> HIDE DEF W
    <3> QED  BY <1>2, <2>1, <3>1, <3>2, <3>3
  <2>2. CASE k \notin DOMAIN T
    <3>1. W[k] = << >>
      BY <1>3, <1>5, <2>2
    <3>2. << >> \in Seq(Positions) /\ ByLastRevision(<< >>) /\ ToSet(<< >>) = {}
      BY DEF ByLastRevision, ToSet
    <3> HIDE DEF W
    <3> QED  BY <3>1, <3>2
  <2> QED  BY <2>1, <2>2
<1> HIDE DEF W
<1>6. t \in DOMAIN W
  <2> HIDE DEF t
  <2> QED  BY <1>3
<1>7. /\ new \in Seq(1..P) /\ new # << >> /\ ToSet(new) = ToSet(W[t]) \cup {P}
      /\ \A i, j \in DOMAIN new : i < j => rules2[new[i]].max <= rules2[new[j]].max
  <2>1. W[t] \in Seq(Positions) /\ ByLastRevision(W[t])
    BY <1>5, <1>6
  <2> HIDE DEF t
  <2> QED  BY <2>1, NodeInsertion
<1> HIDE DEF new
<1>8. ASSUME NEW k \in DOMAIN W
      PROVE  /\ W[k] \in Seq(1..P)
             /\ \A i, j \in DOMAIN W[k] : i < j => rules2[W[k][i]].max <= rules2[W[k][j]].max
  <2>1. W[k] \in Seq(Positions) /\ ByLastRevision(W[k])
    BY <1>5
  <2> QED  BY <2>1, OtherNodesKept
<1>9. \A k \in DOMAIN T2 :
        /\ T2[k] \in Seq(1..P)
        /\ \A i, j \in DOMAIN T2[k] : i < j => rules2[T2[k][i]].max <= rules2[T2[k][j]].max
  <2> TAKE k \in DOMAIN T2
  <2>1. CASE k = t
    <3>1. T2[k] = new
      BY <1>4, <2>1
    <3> QED  BY <1>7, <3>1
  <2>2. CASE k # t
    <3>1. T2[k] = W[k] /\ k \in DOMAIN W
      BY <1>4, <2>2
    <3> QED  BY <1>8, <3>1
  <2> QED  BY <2>1, <2>2
<1> HIDE DEF t
<1>10. DOMAIN T2 = DOMAIN T \cup {Matched(T, t), t} /\ T2[t] # << >>
       /\ \A k \in DOMAIN T : k # t => T2[k] = T[k]
  BY <1>3, <1>4, <1>7
<1>11. PartAtNodes(T2)
  <2>1. PartAtNodes(T)
    BY DEF TreeInv
  <2>2. DOMAIN T \subseteq Seq(Chars) /\ << >> \in DOMAIN T /\ t \in Seq(Chars)
        /\ DOMAIN T2 = DOMAIN T \cup {Matched(T, t), t}
    BY <1>2, <1>10
  <2> QED  BY ONLY <2>1, <2>2, PartAtNodesAfter
<1>12. HasChildren(T2)
  <2>1. HasChildren(T)
    BY DEF TreeInv
  <2>2. DOMAIN T \subseteq Seq(Chars) /\ << >> \in DOMAIN T /\ t \in Seq(Chars)
        /\ DOMAIN T2 = DOMAIN T \cup {Matched(T, t), t}
        /\ (\A k \in DOMAIN T : k # t => T2[k] = T[k]) /\ T2[t] # << >>
    BY <1>2, <1>10
  <2> QED  BY ONLY <2>1, <2>2, HasChildrenAfter
<1>13. DOMAIN T2 \subseteq Seq(Chars) /\ << >> \in DOMAIN T2
  <2>1. Matched(T, t) \in Seq(Chars)
    BY <1>2, MatchedMeans
  <2> QED  BY <1>2, <1>10, <2>1
<1>14. t = text2[P]
  BY DEF t
<1>15. \A i \in 1..P : text2[i] \in DOMAIN T2 /\ i \in ToSet(T2[text2[i]])
  <2> TAKE i \in 1..P
  <2>1. CASE i = P
    <3>1. P \in ToSet(T2[t]) /\ t \in DOMAIN T2
      BY <1>4, <1>6, <1>7
    <3> QED  BY <1>14, <2>1, <3>1
  <2>2. CASE i \in Positions
    <3>1. text2[i] = text[i] /\ text[i] \in DOMAIN T /\ i \in ToSet(T[text[i]])
      BY <1>2, <2>2
    <3>2. W[text[i]] = T[text[i]] /\ text[i] \in DOMAIN T2
      BY <1>3, <1>4, <3>1
    <3>3. CASE text[i] = t
      BY <1>4, <1>7, <3>1, <3>2, <3>3
    <3>4. CASE text[i] # t
      BY <1>4, <3>1, <3>2, <3>4
    <3> QED  BY <3>3, <3>4
  <2> HIDE DEF P
  <2> QED  BY <1>1, <2>1, <2>2
<1>16. \A k \in DOMAIN T2 : \A i \in ToSet(T2[k]) : text2[i] = k
  <2> TAKE k \in DOMAIN T2
  <2> TAKE i \in ToSet(T2[k])
  <2>1. k \in DOMAIN W
    BY <1>4
  <2>2. CASE i \in ToSet(W[k])
    <3>1. i \in Positions /\ text[i] = k
      BY <1>5, <2>1, <2>2
    <3> QED  BY <3>1
  <2>3. CASE i \notin ToSet(W[k])
    <3>1. k = t
      BY <1>4, <2>3
    <3>2. i = P
      BY <1>4, <1>7, <2>3, <3>1
    <3> QED  BY <1>14, <3>1, <3>2
  <2> QED  BY <2>2, <2>3
<1> QED
  BY <1>9, <1>11, <1>12, <1>13, <1>15, <1>16 DEF TreeWith

-----------------------------------------------------------------------------
(* The invariant is inductive.                                             *)

SvnText == [i \in Positions |-> rules[i].svn]
GitText == [i \in Positions |-> GitAddress(rules[i])]

\* A text with a character before it.
LEMMA CharBefore ==
  ASSUME NEW c \in Chars, NEW g \in Seq(Chars)
  PROVE  /\ <<c>> \in Seq(Chars) /\ <<c>> \o g \in Seq(Chars) /\ Len(<<c>> \o g) = Len(g) + 1
         /\ (<<c>> \o g)[1] = c /\ \A i \in 1..Len(g) : (<<c>> \o g)[i + 1] = g[i]
<1>1. <<c>> \in Seq(Chars) /\ Len(<<c>>) = 1 /\ <<c>>[1] = c
  OBVIOUS
<1>2. PICK h : h = <<c>>
  OBVIOUS
<1>3. /\ h \o g \in Seq(Chars) /\ Len(h \o g) = 1 + Len(g)
      /\ \A i \in 1..1 + Len(g) : (h \o g)[i] = IF i <= 1 THEN h[i] ELSE g[i - 1]
  <2>1. g \in Seq(Chars) /\ h \in Seq(Chars) /\ Len(h) = 1
    BY <1>1, <1>2
  <2>2. /\ h \o g \in Seq(Chars) /\ Len(h \o g) = Len(h) + Len(g)
        /\ \A i \in 1..Len(h) + Len(g) : (h \o g)[i] = IF i <= Len(h) THEN h[i] ELSE g[i - Len(h)]
    BY <2>1, ConcatProperties
  <2> QED  BY <2>1, <2>2
<1>4. Len(g) \in Nat
  OBVIOUS
<1>5. \A i \in 1..Len(g) : i + 1 \in 1..1 + Len(g) /\ ~ (i + 1 <= 1) /\ (i + 1) - 1 = i
  BY <1>4
<1>6. 1 \in 1..1 + Len(g) /\ Len(g) + 1 = 1 + Len(g)
  BY <1>4
<1>7. (h \o g)[1] = h[1] /\ \A i \in 1..Len(g) : (h \o g)[i + 1] = g[i]
  BY <1>3, <1>5, <1>6
<1> QED
  BY <1>1, <1>2, <1>3, <1>6, <1>7

\* A Git address is a text.
LEMMA AddressIsText ==
  ASSUME NEW r \in Insertable
  PROVE  r.svn \in Seq(Chars) /\ GitAddress(r) \in Seq(Chars)
<1>1. r.svn \in Seq(Chars) /\ r.git \in Seq(Chars) /\ r.ref \in Chars
  BY DEF Insertable, Rule
<1> QED
  BY <1>1, CharBefore DEF GitAddress

\* A deque with one rule more.
LEMMA RuleAppended ==
  ASSUME rules \in Seq(Insertable), NEW r \in Insertable, rules' = Append(rules, r)
  PROVE  /\ rules' \in Seq(Insertable) /\ Len(rules) \in Nat
         /\ Positions = 1..Len(rules) /\ Positions' = 1..Len(rules) + 1
         /\ rules'[Len(rules) + 1] = r /\ \A i \in Positions : rules'[i] = rules[i]
<1>1. /\ rules' \in Seq(Insertable) /\ Len(rules') = Len(rules) + 1 /\ Len(rules) \in Nat
      /\ rules'[Len(rules) + 1] = r /\ \A i \in 1..Len(rules) : rules'[i] = rules[i]
  BY AppendProperties
<1>2. Positions = 1..Len(rules) /\ Positions' = 1..Len(rules')
  BY <1>1 DEF Positions
<1> QED
  BY <1>1, <1>2

\* What the invariant says of the two trees.
LEMMA TreesOfInvariant ==
  ASSUME TrieInv
  PROVE  rules \in Seq(Insertable) /\ TreeInv(trie, SvnText) /\ TreeInv(rtrie, GitText)
<1>1. rules \in Seq(Insertable)
  BY DEF TrieInv, RadixTree, TypeOK
<1>2. \A T \in {trie, rtrie} :
        /\ \A k \in DOMAIN T : T[k] \in Seq(Positions) /\ ByLastRevision(T[k])
        /\ PartAtNodes(T) /\ HasChildren(T)
  BY DEF TrieInv, RadixTree, TypeOK
<1>3. AtNodes(trie, SvnText) /\ AtNodes(rtrie, GitText)
  BY DEF TrieInv, SvnText, GitText
<1> QED
  BY <1>1, <1>2, <1>3 DEF TreeInv

\* The invariant does not depend on whether a rule was rejected.
LEMMA InvStable ==
  ASSUME TrieInv, UNCHANGED <<rules, trie, rtrie, transitionMap>>, rejected' \in BOOLEAN
  PROVE  TrieInv'
<1>1. rules' = rules /\ trie' = trie /\ rtrie' = rtrie /\ transitionMap' = transitionMap
  OBVIOUS
<1>2. Positions' = Positions
  BY <1>1 DEF Positions
<1>3. \A list : ByLastRevision(list)' = ByLastRevision(list)
  BY <1>1 DEF ByLastRevision
<1>4. TypeOK'
  BY <1>1, <1>2 DEF TrieInv, RadixTree, TypeOK, ByLastRevision
<1>5. RadixTree'
  BY <1>1, <1>4 DEF TrieInv, RadixTree
<1>6. AtNodes(trie, [i \in Positions |-> rules[i].svn])'
      /\ AtNodes(rtrie, [i \in Positions |-> GitAddress(rules[i])])'
  <2>1. (SvnText = [i \in Positions |-> rules[i].svn])' /\ SvnText = [i \in Positions |-> rules[i].svn]
        /\ (GitText = [i \in Positions |-> GitAddress(rules[i])])'
        /\ GitText = [i \in Positions |-> GitAddress(rules[i])]
    BY DEF SvnText, GitText
  <2>2. SvnText' = SvnText /\ GitText' = GitText
    BY <1>1, <1>2, <2>1 DEF GitAddress
  <2>3. AtNodes(trie, SvnText) /\ AtNodes(rtrie, GitText)
    BY <2>1 DEF TrieInv
  <2>4. AtNodes(trie, SvnText)' /\ AtNodes(rtrie, GitText)'
    BY <1>1, <1>2, <2>2, <2>3 DEF AtNodes
  <2> QED  BY <2>4 DEF SvnText, GitText
<1>7. (\A v \in 0..Forever : transitionMap[v] = {i \in Positions : v \in Transitions(rules[i])})'
  BY <1>1, <1>2 DEF TrieInv, Transitions
<1> QED
  BY <1>5, <1>6, <1>7 DEF TrieInv

\* insert keeps the invariant.
LEMMA InsertInv ==
  ASSUME TrieInv, NEW r \in Insertable, Insert(r)
  PROVE  TrieInv'
<1>1. /\ rules \in Seq(Insertable)
      /\ TreeInv(trie, SvnText) /\ TreeInv(rtrie, GitText)
  BY TreesOfInvariant
<1>2. transitionMap \in [0..Forever -> SUBSET Positions] /\ rejected \in BOOLEAN
      /\ \A v \in 0..Forever : transitionMap[v] = {i \in Positions : v \in Transitions(rules[i])}
  BY DEF TrieInv, RadixTree, TypeOK
<1>3. CASE UNCHANGED <<rules, trie, rtrie, transitionMap>> /\ rejected' = TRUE
  BY <1>3, InvStable
<1>4. CASE /\ rules' = Append(rules, r)
           /\ trie' = WithRule(trie, r.svn, r)
           /\ rtrie' = WithRule(rtrie, GitAddress(r), r)
           /\ transitionMap' = [v \in 0..Forever |->
                transitionMap[v] \cup IF v \in Transitions(r) THEN {Len(rules) + 1} ELSE {}]
           /\ UNCHANGED rejected
  <2> DEFINE P == Len(rules) + 1
  <2>1. /\ rules' \in Seq(Insertable) /\ Len(rules) \in Nat
        /\ Positions = 1..Len(rules) /\ Positions' = 1..P
        /\ rules'[P] = r /\ \A i \in Positions : rules'[i] = rules[i]
    BY <1>1, <1>4, RuleAppended
  <2>2. /\ P \in Nat /\ P \in 1..P /\ P \notin Positions
        /\ \A i \in 1..P : i \in Positions \/ i = P
        /\ \A i \in Positions : i \in 1..P
    BY <2>1
  <2>3. TreeWith(rules', trie', SvnText', P)
    <3>1. SvnText' = [i \in 1..P |-> rules'[i].svn]
      BY <2>1 DEF SvnText
    <3>2. SvnText'[P] = r.svn /\ \A i \in Positions : SvnText'[i] = SvnText[i]
      BY <2>1, <2>2, <3>1 DEF SvnText
    <3>3. SvnText'[P] \in Seq(Chars)
      BY <1>1, <3>2, AddressIsText
    <3>4. trie' = WithRule(trie, SvnText'[P], r)
      BY <1>4, <3>2
    <3> QED  BY <1>1, <1>4, <3>2, <3>3, <3>4, TreeInsertion
  <2>4. TreeWith(rules', rtrie', GitText', P)
    <3>1. GitText' = [i \in 1..P |-> GitAddress(rules'[i])]
      BY <2>1 DEF GitText
    <3>2. GitText'[P] = GitAddress(r) /\ \A i \in Positions : GitText'[i] = GitText[i]
      BY <2>1, <2>2, <3>1 DEF GitText
    <3>3. GitText'[P] \in Seq(Chars)
      BY <1>1, <3>2, AddressIsText
    <3>4. rtrie' = WithRule(rtrie, GitText'[P], r)
      BY <1>4, <3>2
    <3> QED  BY <1>1, <1>4, <3>2, <3>3, <3>4, TreeInsertion
  <2>5. TypeOK'
    <3>1. transitionMap' \in [0..Forever -> SUBSET Positions']
      BY <1>2, <1>4, <2>1, <2>2
    <3>2. rejected' \in BOOLEAN
      BY <1>2, <1>4
    <3>3. ASSUME NEW T, T = trie' \/ T = rtrie'
          PROVE  \A k \in DOMAIN T : T[k] \in Seq(Positions') /\ ByLastRevision(T[k])'
      BY <2>1, <2>3, <2>4, <3>3 DEF ByLastRevision, TreeWith
    <3> QED  BY <2>1, <3>1, <3>2, <3>3 DEF TypeOK
  <2>6. RadixTree'
    BY <2>3, <2>4, <2>5 DEF RadixTree, TreeWith
  <2>7. AtNodes(trie, SvnText)' /\ AtNodes(rtrie, GitText)'
    BY <2>1, <2>3, <2>4 DEF AtNodes, TreeWith
  <2>8. ASSUME NEW v \in 0..Forever
        PROVE  transitionMap'[v] = {i \in Positions' : v \in Transitions(rules'[i])}
    <3>1. transitionMap'[v] = transitionMap[v] \cup IF v \in Transitions(r) THEN {P} ELSE {}
      BY <1>4
    <3>2. transitionMap[v] = {i \in Positions : v \in Transitions(rules[i])}
      BY <1>2
    <3> HIDE DEF P
    <3>3. \A i \in Positions' : i \in transitionMap'[v] <=> v \in Transitions(rules'[i])
      BY <2>1, <2>2, <3>1, <3>2
    <3>4. \A i \in transitionMap'[v] : i \in Positions'
      BY <2>1, <2>2, <3>1, <3>2
    <3> QED  BY <3>3, <3>4
  <2>9. \A v \in 0..Forever : transitionMap'[v] = {i \in Positions' : v \in Transitions(rules'[i])}
    BY <2>8
  <2> QED  BY <2>6, <2>7, <2>9 DEF TrieInv, SvnText, GitText, Transitions
<1> QED
  BY <1>3, <1>4 DEF Insert

LEMMA InitInv == Init => TrieInv
<1> SUFFICES ASSUME Init
             PROVE  TrieInv
  OBVIOUS
<1> DEFINE root == [k \in {<< >>} |-> << >>]
<1>1. rules = << >> /\ trie = root /\ rtrie = root /\ rejected = FALSE
      /\ transitionMap = [v \in 0..Forever |-> {}]
  BY DEF Init, NewNode
<1>2. Positions = {}
  BY <1>1 DEF Positions
<1>3. DOMAIN root = {<< >>} /\ root[<< >>] = << >>
  OBVIOUS
<1> HIDE DEF root
<1>4. << >> \in Seq(Positions) /\ ByLastRevision(<< >>) /\ ToSet(<< >>) = {}
  BY DEF ByLastRevision, ToSet
<1>5. TypeOK
  <2>1. \A T \in {trie, rtrie} : \A k \in DOMAIN T : T[k] = << >>
    BY <1>1, <1>3
  <2>2. \A T \in {trie, rtrie} : \A k \in DOMAIN T : T[k] \in Seq(Positions) /\ ByLastRevision(T[k])
    BY <1>4, <2>1
  <2>3. rules \in Seq(Insertable) /\ rejected \in BOOLEAN
        /\ transitionMap \in [0..Forever -> SUBSET Positions]
    <3>1. rules \in Seq(Insertable)
      BY <1>1
    <3>2. transitionMap = [v \in 0..Forever |-> {}]
      BY <1>1
    <3> QED  BY <1>1, <3>1, <3>2
  <2> QED  BY <2>2, <2>3 DEF TypeOK
<1>6. PartAtNodes(root) /\ HasChildren(root)
  <2>1. << >> \in Seq(Chars)
    OBVIOUS
  <2>2. IsPrefix(<< >>, << >>)
    BY <2>1, PrefixTrivial
  <2> QED  BY <1>3, <2>2 DEF PartAtNodes, HasChildren
<1>7. \A text : AtNodes(root, text)
  BY <1>2, <1>3, <1>4 DEF AtNodes
<1>8. \A v \in 0..Forever : transitionMap[v] = {i \in Positions : v \in Transitions(rules[i])}
  BY <1>1, <1>2
<1> QED
  BY <1>1, <1>5, <1>6, <1>7, <1>8 DEF TrieInv, RadixTree

\* Whatever rules are inserted, in whatever order: both trees are radix trees in
\* which every rule is at the node of its text, and the transitions are those of
\* the rules.
THEOREM TrieInvariant == Spec => []TrieInv
<1>1. Init => TrieInv
  BY InitInv
<1>2. TrieInv /\ [Next]_vars => TrieInv'
  <2> SUFFICES ASSUME TrieInv, [Next]_vars
               PROVE  TrieInv'
    OBVIOUS
  <2>1. CASE Next
    BY <2>1, InsertInv, RuleAssumption DEF Next
  <2>2. CASE UNCHANGED vars
    <3>1. rejected \in BOOLEAN
      BY DEF TrieInv, RadixTree, TypeOK
    <3>2. UNCHANGED <<rules, trie, rtrie, transitionMap>> /\ rejected' \in BOOLEAN
      BY <2>2, <3>1 DEF vars
    <3> QED  BY <3>2, InvStable
  <2> QED  BY <2>1, <2>2
<1> QED
  BY <1>1, <1>2, PTL DEF Spec

\* Nodes part at nodes and nodes without rules have several children (the children
\* of a node are found by their first character, patrie.hpp:364-369).
THEOREM TreesAreRadixTrees == Spec => []RadixTree
<1>1. TrieInv => RadixTree
  BY DEF TrieInv
<1> QED
  BY <1>1, TrieInvariant, PTL

-----------------------------------------------------------------------------
(* Looking rules up.                                                       *)

\* The transitions are the revisions in which being in force changes.
THEOREM TransitionsAreComplete == Spec => []TransitionsComplete
<1>1. ASSUME TrieInv
      PROVE  TransitionsComplete
  <2>1. rules \in Seq(Insertable)
    BY <1>1, TreesOfInvariant
  <2>2. ASSUME NEW v \in 2..Forever, NEW i \in Positions
        PROVE  v \in Transitions(rules[i]) <=> InForce(i, v) # InForce(i, v - 1)
    <3>1. PICK a \in Nat, b \in Nat :
            a = rules[i].min /\ b = rules[i].max /\ a <= b /\ b <= Forever
      BY <2>1, RuleAt
    <3>2. v \in Nat /\ v >= 2 /\ v <= Forever /\ Forever \in Nat
      BY RuleAssumption
    <3>3. v \in Transitions(rules[i]) <=> (a > 1 /\ v = a) \/ (b < Forever /\ v = b + 1)
      BY <3>1 DEF Transitions
    <3>4. (InForce(i, v) <=> a <= v /\ v <= b) /\ (InForce(i, v - 1) <=> a <= v - 1 /\ v - 1 <= b)
      BY <3>1 DEF InForce
    <3>5. ((a > 1 /\ v = a) \/ (b < Forever /\ v = b + 1))
            <=> ~ ((a <= v /\ v <= b) <=> (a <= v - 1 /\ v - 1 <= b))
      BY <3>1, <3>2
    <3>6. InForce(i, v) \in BOOLEAN /\ InForce(i, v - 1) \in BOOLEAN
      BY DEF InForce
    <3>7. v \in Transitions(rules[i]) <=> ~ (InForce(i, v) <=> InForce(i, v - 1))
      BY <3>3, <3>4, <3>5
    <3> QED  BY <3>6, <3>7
  <2>3. ASSUME NEW v \in 2..Forever
        PROVE  transitionMap[v] = {i \in Positions : InForce(i, v) # InForce(i, v - 1)}
    <3>1. v \in 0..Forever
      BY RuleAssumption
    <3>2. transitionMap[v] = {i \in Positions : v \in Transitions(rules[i])}
      BY <1>1, <3>1 DEF TrieInv
    <3> QED  BY <2>2, <3>2
  <2> QED  BY <2>3 DEF TransitionsComplete
<1> QED
  BY <1>1, TrieInvariant, PTL

\* The end of a component.
LEMMA BoundaryMeans ==
  ASSUME NEW k \in Seq(Chars), NEW text \in Seq(Chars)
  PROVE  OnBoundary(k, text) <=> AtOrAbove(k, text)
<1>1. Slash \in Chars
  BY RuleAssumption
<1>2. IsPrefix(Append(k, Slash), text)
        <=> IsPrefix(k, text) /\ Len(k) < Len(text) /\ text[Len(k) + 1] = Slash
  BY <1>1, PrefixAppend
<1>3. IsPrefix(k, text) => k = text \/ Len(k) < Len(text)
  BY PrefixEqual
<1>4. k \in {<< >>, text} => IsPrefix(k, text)
  BY PrefixTrivial
<1> QED
  BY <1>2, <1>3, <1>4 DEF OnBoundary, AtOrAbove

\* The rule that is found at a node of a tree.
LEMMA FoundAtNode ==
  ASSUME rules \in Seq(Insertable), NEW T, NEW text, TreeInv(T, text),
         NEW k \in DOMAIN T, NEW v \in 0..Forever, FindRule(T[k], v) # NoRule
  PROVE  /\ FindRule(T[k], v) \in Positions /\ text[FindRule(T[k], v)] = k
         /\ InForce(FindRule(T[k], v), v)
<1>1. T[k] \in Seq(Positions) /\ v \in Nat
  BY RuleAssumption DEF TreeInv
<1>2. FindRule(T[k], v) \in ToSet(T[k]) /\ InForce(FindRule(T[k], v), v)
  BY <1>1, FoundInForce
<1>3. \A i \in ToSet(T[k]) : i \in Positions
  BY <1>1 DEF ToSet
<1> QED
  BY <1>2, <1>3 DEF TreeInv, AtNodes

\* A rule in force is found at its node, where the rules of one text are in force at
\* different times.
LEMMA InForceAtNode ==
  ASSUME rules \in Seq(Insertable), NEW T, NEW text, TreeInv(T, text),
         \A i, j \in Positions : i # j /\ text[i] = text[j] => Disjoint(i, j),
         NEW r \in Positions, NEW v \in 0..Forever, InForce(r, v)
  PROVE  text[r] \in DOMAIN T /\ FindRule(T[text[r]], v) = r /\ r # NoRule
<1> DEFINE k == text[r]
<1>1. k \in DOMAIN T /\ r \in ToSet(T[k])
  BY DEF TreeInv, AtNodes
<1>2. T[k] \in Seq(Positions) /\ ByLastRevision(T[k]) /\ v \in Nat
  BY <1>1, RuleAssumption DEF TreeInv
<1>3. \A i \in ToSet(T[k]) : i \in Positions /\ text[i] = k
  <2>1. \A i \in ToSet(T[k]) : i \in Positions
    BY <1>2 DEF ToSet
  <2> QED  BY <1>1, <2>1 DEF TreeInv, AtNodes
<1> HIDE DEF k
<1>4. \A i, j \in ToSet(T[k]) : i # j => Disjoint(i, j)
  BY <1>3
<1>5. FindRule(T[k], v) = r /\ r # NoRule
  BY <1>1, <1>2, <1>4, InForceFound
<1> QED
  BY <1>1, <1>5 DEF k

\* longest_match finds the rule in force with the longest path at or above the one
\* that is looked up.
THEOREM LongestMatchIsRight == Spec => []MatchIsLongest
<1>1. ASSUME TrieInv, NoOverlap(SvnPath), NEW p \in Paths, NEW v \in 0..Forever
      PROVE  LET m == LongestMatch(p, v)
                 C == {i \in Positions : InForce(i, v) /\ AtOrAbove(rules[i].svn, p)}
             IN  IF C = {} THEN m = NoRule
                 ELSE m \in C /\ \A i \in C : Len(rules[i].svn) <= Len(rules[m].svn)
  <2> DEFINE found == {k \in DOMAIN trie : OnBoundary(k, p) /\ FindRule(trie[k], v) # NoRule}
             C == {i \in Positions : InForce(i, v) /\ AtOrAbove(rules[i].svn, p)}
             longest == CHOOSE k \in found : \A j \in found : Len(j) <= Len(k)
  <2>1. rules \in Seq(Insertable) /\ TreeInv(trie, SvnText) /\ p \in Seq(Chars)
        /\ DOMAIN trie \subseteq Seq(Chars)
    BY <1>1, TreesOfInvariant, RuleAssumption DEF TreeInv, AtNodes
  <2>2. \A i, j \in Positions : i # j /\ SvnText[i] = SvnText[j] => Disjoint(i, j)
    BY <1>1 DEF NoOverlap, SvnPath, SvnText
  <2>3. \A i \in Positions : SvnText[i] = rules[i].svn
    BY DEF SvnText
  <2>4. ASSUME NEW k \in found
        PROVE  FindRule(trie[k], v) \in C /\ rules[FindRule(trie[k], v)].svn = k
    <3>1. k \in DOMAIN trie /\ FindRule(trie[k], v) # NoRule /\ OnBoundary(k, p)
      OBVIOUS
    <3>2. PICK i : i = FindRule(trie[k], v)
      OBVIOUS
    <3>3. i \in Positions /\ SvnText[i] = k /\ InForce(i, v)
      BY <1>1, <2>1, <3>1, <3>2, FoundAtNode
    <3>4. AtOrAbove(k, p)
      BY <2>1, <3>1, BoundaryMeans
    <3> QED  BY <2>3, <3>2, <3>3, <3>4
  <2>5. ASSUME NEW i \in C
        PROVE  rules[i].svn \in found
    <3>1. i \in Positions /\ InForce(i, v) /\ AtOrAbove(rules[i].svn, p)
      OBVIOUS
    <3>2. rules[i].svn \in DOMAIN trie /\ FindRule(trie[rules[i].svn], v) # NoRule
      <4>1. SvnText[i] \in DOMAIN trie /\ FindRule(trie[SvnText[i]], v) = i /\ i # NoRule
        BY <1>1, <2>1, <2>2, <3>1, InForceAtNode
      <4> QED  BY <2>3, <3>1, <4>1
    <3>3. OnBoundary(rules[i].svn, p)
      BY <2>1, <3>1, <3>2, BoundaryMeans
    <3> QED  BY <3>2, <3>3
  <2>6. \A k \in found : k \in Seq(Chars) /\ IsPrefix(k, p)
    BY <2>1 DEF OnBoundary
  <2>7. LongestMatch(p, v) = IF found = {} THEN NoRule ELSE FindRule(trie[longest], v)
    BY DEF LongestMatch
  <2> HIDE DEF found, C
  <2>8. CASE found = {}
    <3>1. C = {}
      BY <2>5, <2>8
    <3> QED  BY <2>7, <2>8, <3>1 DEF C
  <2>9. CASE found # {}
    <3> DEFINE lengths == {Len(k) : k \in found}
    <3>1. lengths \in SUBSET (0..Len(p)) /\ lengths # {} /\ Len(p) \in Nat
      <4>1. \A k \in found : Len(k) \in Nat /\ Len(k) <= Len(p)
        BY <2>1, <2>6, PrefixMeans
      <4>2. Len(p) \in Nat
        BY <2>1
      <4>3. \A k \in found : Len(k) \in 0..Len(p)
        BY ONLY <4>1, <4>2
      <4> QED  BY ONLY <2>9, <4>2, <4>3
    <3>2. PICK n \in lengths : \A l \in lengths : l <= n
      <4> HIDE DEF lengths
      <4> QED  BY <3>1, GreatestMember
    <3>3. \E k \in found : \A j \in found : Len(j) <= Len(k)
      BY <3>2
    <3>4. longest \in found /\ \A j \in found : Len(j) <= Len(longest)
      BY <3>3
    <3> HIDE DEF longest
    <3>5. PICK m : m = FindRule(trie[longest], v)
      OBVIOUS
    <3>6. m \in C /\ rules[m].svn = longest
      BY <2>4, <3>4, <3>5
    <3>7. \A i \in C : Len(rules[i].svn) <= Len(rules[m].svn)
      BY <2>5, <3>4, <3>6
    <3>8. LongestMatch(p, v) = m
      BY <2>7, <2>9, <3>5
    <3> QED  BY <3>6, <3>7, <3>8 DEF C
  <2> QED  BY <2>8, <2>9
<1>2. TrieInv => MatchIsLongest
  BY <1>1 DEF MatchIsLongest
<1> QED
  BY <1>2, TrieInvariant, PTL

\* Concatenation of texts is associative.
LEMMA TextsAssociate ==
  \A x, y, z \in Seq(Chars) : (x \o y) \o z = x \o (y \o z)
<1> TAKE x, y, z \in Seq(Chars)
<1> DEFINE S == Chars
<1>1. x \in Seq(S) /\ y \in Seq(S) /\ z \in Seq(S)
  OBVIOUS
<1> HIDE DEF S
<1> QED
  BY ONLY <1>1, ConcatAssociative

\* Two texts with a character before them.
LEMMA CharBeforePrefix ==
  ASSUME NEW c \in Chars, NEW p \in Seq(Chars), NEW d \in Chars, NEW q \in Seq(Chars),
         IsPrefix(<<c>> \o p, <<d>> \o q)
  PROVE  c = d /\ IsPrefix(p, q)
<1>1. PICK s : s = <<c>> \o p
  OBVIOUS
<1>2. PICK t : t = <<d>> \o q
  OBVIOUS
<1>3. s \in Seq(Chars) /\ Len(s) = Len(p) + 1 /\ s[1] = c /\ \A i \in 1..Len(p) : s[i + 1] = p[i]
  BY <1>1, CharBefore
<1>4. t \in Seq(Chars) /\ Len(t) = Len(q) + 1 /\ t[1] = d /\ \A i \in 1..Len(q) : t[i + 1] = q[i]
  BY <1>2, CharBefore
<1>5. Len(p) \in Nat /\ Len(q) \in Nat
  OBVIOUS
<1>6. Len(s) <= Len(t) /\ \A i \in 1..Len(s) : s[i] = t[i]
  <2>1. IsPrefix(s, t)
    BY <1>1, <1>2
  <2> QED  BY <1>3, <1>4, <2>1, PrefixMeans
<1>7. Len(p) <= Len(q)
  BY <1>3, <1>4, <1>5, <1>6
<1>8. \A i \in 1..Len(p) : i + 1 \in 1..Len(s) /\ i \in 1..Len(q)
  BY <1>3, <1>5, <1>7
<1>9. \A i \in 1..Len(p) : p[i] = q[i]
  BY <1>3, <1>4, <1>6, <1>8
<1>10. 1 \in 1..Len(s)
  BY <1>3, <1>5
<1>11. c = d
  BY <1>3, <1>4, <1>6, <1>10
<1> QED
  BY <1>7, <1>9, <1>11, PrefixMeans

LEMMA CharBeforeEqual ==
  ASSUME NEW c \in Chars, NEW p \in Seq(Chars), NEW d \in Chars, NEW q \in Seq(Chars),
         <<c>> \o p = <<d>> \o q
  PROVE  c = d /\ p = q
<1>1. <<c>> \o p \in Seq(Chars) /\ <<d>> \o q \in Seq(Chars)
      /\ Len(<<c>> \o p) = Len(p) + 1 /\ Len(<<d>> \o q) = Len(q) + 1
  BY CharBefore
<1>2. IsPrefix(<<c>> \o p, <<d>> \o q)
  BY <1>1, PrefixTrivial
<1>3. c = d /\ IsPrefix(p, q)
  BY <1>2, CharBeforePrefix
<1>4. Len(p) = Len(q)
  <2>1. Len(p) \in Nat /\ Len(q) \in Nat /\ Len(p) + 1 = Len(q) + 1
    BY <1>1
  <2> QED  BY <2>1
<1>5. p = q \/ Len(p) < Len(q)
  BY <1>3, PrefixEqual
<1> QED
  BY <1>3, <1>4, <1>5

\* What lies beneath a text is what is in its subtree.
LEMMA BeneathMeans ==
  ASSUME NEW k \in Seq(Chars), NEW t \in Seq(Chars)
  PROVE  Beneath(k, t) <=> t = k \/ IsPrefix(IF Last(t) = Slash THEN t ELSE Append(t, Slash), k)
<1>1. IsPrefix(Append(t, Slash), k) <=> IsPrefix(t, k) /\ Len(t) < Len(k) /\ k[Len(t) + 1] = Slash
  BY RuleAssumption, PrefixAppend
<1>2. IsPrefix(t, k) => t = k \/ Len(t) < Len(k)
  BY PrefixEqual
<1>3. t = k => IsPrefix(t, k)
  BY PrefixTrivial
<1> QED
  BY <1>1, <1>2, <1>3 DEF Beneath

\* What git_subtree_rules returns is in force and in the subtree.
LEMMA SubtreeRulesSound ==
  ASSUME TrieInv, NEW t \in Seq(Chars), NEW v \in 0..Forever, NEW i \in SubtreeRules(t, v)
  PROVE  i \in Positions /\ InForce(i, v) /\ MapsInto(i, t)
<1>1. PICK k \in DOMAIN rtrie : Beneath(k, t) /\ i = FindRule(rtrie[k], v) /\ i # NoRule
  BY DEF SubtreeRules
<1>2. rules \in Seq(Insertable) /\ TreeInv(rtrie, GitText)
  BY TreesOfInvariant
<1>3. i \in Positions /\ GitText[i] = k /\ InForce(i, v)
  BY <1>1, <1>2, FoundAtNode
<1>4. GitAddress(rules[i]) = k
  BY <1>3 DEF GitText
<1>5. k \in Seq(Chars)
  BY <1>2 DEF TreeInv, AtNodes
<1>6. t = k \/ IsPrefix(IF Last(t) = Slash THEN t ELSE Append(t, Slash), k)
  BY <1>1, <1>5, BeneathMeans
<1> QED
  BY <1>3, <1>4, <1>6 DEF MapsInto

\* A lookup that ends at a node finds all that is in force in the subtree.
LEMMA LookupFromNode ==
  ASSUME TrieInv, NoOverlap(GitAddress), NEW t \in Seq(Chars), EndsAtNode(t), NEW v \in 0..Forever
  PROVE  SubtreeRules(t, v) = {j \in Positions : InForce(j, v) /\ MapsInto(j, t)}
<1>1. rules \in Seq(Insertable) /\ TreeInv(rtrie, GitText)
  BY TreesOfInvariant
<1>2. \A j \in Positions : GitText[j] = GitAddress(rules[j]) /\ GitAddress(rules[j]) \in Seq(Chars)
  BY <1>1, RuleAt, AddressIsText DEF GitText
<1>3. \A j, k \in Positions : j # k /\ GitText[j] = GitText[k] => Disjoint(j, k)
  BY <1>2 DEF NoOverlap
<1>4. ASSUME NEW j \in Positions, InForce(j, v), MapsInto(j, t)
      PROVE  j \in SubtreeRules(t, v)
  <2>1. GitText[j] \in DOMAIN rtrie /\ FindRule(rtrie[GitText[j]], v) = j /\ j # NoRule
    BY <1>1, <1>3, <1>4, InForceAtNode
  <2>2. Beneath(GitText[j], t)
    <3>1. t = GitText[j] \/ IsPrefix(IF Last(t) = Slash THEN t ELSE Append(t, Slash), GitText[j])
      BY <1>2, <1>4 DEF MapsInto
    <3> QED  BY <1>2, <3>1, BeneathMeans
  <2> QED  BY <2>1, <2>2 DEF SubtreeRules
<1>5. \A j \in SubtreeRules(t, v) : j \in Positions /\ InForce(j, v) /\ MapsInto(j, t)
  BY SubtreeRulesSound
<1> QED
  BY <1>4, <1>5

\* Where two addresses part there is a node.
LEMMA NodeWherePart ==
  ASSUME TrieInv, NEW t \in Seq(Chars), PartAfter(t)
  PROVE  EndsAtNode(t)
<1>1. rules \in Seq(Insertable) /\ TreeInv(rtrie, GitText)
  BY TreesOfInvariant
<1>2. \A j \in Positions : GitText[j] = GitAddress(rules[j]) /\ GitAddress(rules[j]) \in Seq(Chars)
  BY <1>1, RuleAt, AddressIsText DEF GitText
<1>3. PICK i \in Positions, j \in Positions :
        /\ IsStrictPrefix(t, GitAddress(rules[i])) /\ IsStrictPrefix(t, GitAddress(rules[j]))
        /\ GitAddress(rules[i])[Len(t) + 1] # GitAddress(rules[j])[Len(t) + 1]
  BY DEF PartAfter
<1>4. PICK p, q : p = GitText[i] /\ q = GitText[j]
  OBVIOUS
<1>5. /\ p \in DOMAIN rtrie /\ q \in DOMAIN rtrie /\ p \in Seq(Chars) /\ q \in Seq(Chars)
      /\ IsPrefix(t, p) /\ IsPrefix(t, q) /\ t # p /\ t # q /\ p[Len(t) + 1] # q[Len(t) + 1]
  BY <1>1, <1>2, <1>3, <1>4 DEF TreeInv, AtNodes, IsStrictPrefix
<1>6. PICK b \in DOMAIN rtrie : /\ IsPrefix(b, p) /\ IsPrefix(b, q)
                                /\ p = b \/ q = b \/ p[Len(b) + 1] # q[Len(b) + 1]
  <2>1. PartAtNodes(rtrie)
    BY DEF TrieInv, RadixTree
  <2> QED  BY <1>5, <2>1 DEF PartAtNodes
<1>7. b \in Seq(Chars)
  BY <1>1 DEF TreeInv, AtNodes
<1>8. Len(t) \in Nat /\ Len(b) \in Nat /\ Len(p) \in Nat /\ Len(q) \in Nat
  BY <1>5, <1>7
<1>9. Len(t) < Len(p) /\ Len(t) < Len(q)
      /\ (\A n \in 1..Len(t) : t[n] = p[n] /\ t[n] = q[n])
  <2>1. Len(t) < Len(p)
    BY <1>5, PrefixEqual
  <2>2. Len(t) < Len(q)
    BY <1>5, PrefixEqual
  <2> QED  BY <1>5, <2>1, <2>2, PrefixMeans
<1>10. Len(b) <= Len(p) /\ Len(b) <= Len(q)
       /\ (\A n \in 1..Len(b) : b[n] = p[n] /\ b[n] = q[n])
  BY <1>5, <1>6, <1>7, PrefixMeans
<1>11. ~ (Len(b) < Len(t))
  <2>1. SUFFICES ASSUME Len(b) < Len(t) PROVE FALSE
    OBVIOUS
  <2>2. Len(b) + 1 \in 1..Len(t)
    BY <1>8, <2>1
  <2>3. p[Len(b) + 1] = q[Len(b) + 1]
    BY <1>9, <2>2
  <2>4. p # b /\ q # b
    BY <1>8, <1>9, <2>1
  <2> QED  BY <1>6, <2>3, <2>4
<1>12. ~ (Len(t) < Len(b))
  <2>1. SUFFICES ASSUME Len(t) < Len(b) PROVE FALSE
    OBVIOUS
  <2>2. Len(t) + 1 \in 1..Len(b)
    BY <1>8, <2>1
  <2> QED  BY <1>5, <1>10, <2>2
<1>13. Len(t) = Len(b)
  BY <1>8, <1>11, <1>12
<1>14. IsPrefix(b, t)
  <2>1. \A n \in 1..Len(b) : b[n] = t[n]
    BY <1>9, <1>10, <1>13
  <2> QED  BY <1>7, <1>8, <1>13, <2>1, PrefixMeans
<1>15. b = t
  BY <1>7, <1>8, <1>13, <1>14, PrefixEqual
<1> QED
  BY <1>6, <1>15 DEF EndsAtNode

\* The address whose subtree invalidate_svn_tree looks up is the text of what is
\* deleted, with a slash at its end where a rule has all of it.
LEMMA InvalidatedMeans ==
  ASSUME NEW r \in Insertable, NEW suffix \in Seq(Chars), Slash \notin ToSet(suffix)
  PROVE  LET t == InvalidatedAddress(r, suffix)
             b == Below(r.git, suffix)
         IN  /\ t \in Seq(Chars) /\ b \in Seq(Chars)
             /\ \/ t = <<r.ref>> \o b /\ Last(t) # Slash
                \/ suffix = << >> /\ t = <<r.ref>> \o Append(b, Slash) /\ Last(t) = Slash
<1>1. Slash \in Chars /\ r.ref \in Chars /\ r.git \in Seq(Chars) /\ r.ref # Slash
      /\ <<r.ref>> \in Seq(Chars) /\ <<Slash>> \in Seq(Chars)
  BY RuleAssumption DEF Insertable, Rule
<1>2. PICK h : h = <<r.ref>>
  OBVIOUS
<1>3. PICK g : g = r.git
  OBVIOUS
<1>4. PICK l : l = <<Slash>>
  OBVIOUS
<1>5. h \in Seq(Chars) /\ g \in Seq(Chars) /\ l \in Seq(Chars)
  BY <1>1, <1>2, <1>3, <1>4
<1> DEFINE t == InvalidatedAddress(r, suffix)
           b == Below(r.git, suffix)
<1>6. t = ((h \o g) \o (IF g = << >> THEN << >> ELSE l)) \o suffix
  BY <1>2, <1>3, <1>4 DEF InvalidatedAddress, GitAddress
<1>7. b = IF << >> \in {g, suffix} THEN g \o suffix ELSE (g \o l) \o suffix
  BY <1>3, <1>4 DEF Below
<1> HIDE DEF t, b
<1>8. h \o g \in Seq(Chars) /\ g \o l \in Seq(Chars) /\ (g \o l) \o suffix \in Seq(Chars)
      /\ g \o suffix \in Seq(Chars)
  BY <1>5, ConcatProperties
<1>9. b \in Seq(Chars) /\ h \o b \in Seq(Chars) /\ Len(h \o b) = Len(b) + 1
      /\ (h \o b)[1] = r.ref /\ \A i \in 1..Len(b) : (h \o b)[i + 1] = b[i]
  <2>1. b \in Seq(Chars)
    BY <1>7, <1>8
  <2> QED  BY <1>1, <1>2, <2>1, CharBefore
<1>10. CASE suffix # << >>
  <2>1. t = h \o b
    <3>1. CASE g = << >>
      <4>1. h \o g = h /\ h \o << >> = h /\ g \o suffix = suffix
        BY <1>5, <3>1, ConcatEmptySeq
      <4>2. t = h \o suffix /\ b = suffix
        BY <1>6, <1>7, <3>1, <4>1
      <4> QED  BY <4>2
    <3>2. CASE g # << >>
      <4>1. t = ((h \o g) \o l) \o suffix /\ b = (g \o l) \o suffix
        BY <1>6, <1>7, <1>10, <3>2
      <4>2. (h \o g) \o l = h \o (g \o l)
        BY <1>5, ConcatAssociative
      <4>3. (h \o (g \o l)) \o suffix = h \o ((g \o l) \o suffix)
        <5>1. PICK u \in Seq(Chars) : u = g \o l
          BY <1>8
        <5>2. (h \o u) \o suffix = h \o (u \o suffix)
          <6>1. h \in Seq(Chars) /\ u \in Seq(Chars) /\ suffix \in Seq(Chars)
            BY <1>5
          <6> QED  BY ONLY <6>1, TextsAssociate, Zenon
        <5> QED  BY <5>1, <5>2
      <4> QED  BY <4>1, <4>2, <4>3
    <3> QED  BY <3>1, <3>2
  <2>2. Last(b) # Slash /\ Len(b) \in Nat /\ Len(b) > 0
    <3>1. Len(suffix) \in Nat /\ Len(suffix) > 0 /\ suffix[Len(suffix)] # Slash
      <4>1. Len(suffix) \in Nat /\ Len(suffix) # 0 /\ Len(suffix) \in DOMAIN suffix
        BY <1>10
      <4> QED  BY <4>1 DEF ToSet
    <3>2. CASE g = << >>
      <4>1. b = suffix
        BY <1>5, <1>7, <3>2, ConcatEmptySeq
      <4> QED  BY <3>1, <4>1 DEF Last
    <3>3. CASE g # << >>
      <4>1. b = (g \o l) \o suffix
        BY <1>7, <1>10, <3>3
      <4>2. PICK u \in Seq(Chars) : u = g \o l
        BY <1>8
      <4>3. b = u \o suffix /\ Len(u) \in Nat
        BY <4>1, <4>2
      <4>4. Len(b) = Len(u) + Len(suffix)
            /\ \A i \in 1..Len(u) + Len(suffix) : b[i] = IF i <= Len(u) THEN u[i] ELSE suffix[i - Len(u)]
        BY <4>3, ConcatProperties
      <4>5. Len(u) + Len(suffix) \in 1..Len(u) + Len(suffix) /\ ~ (Len(u) + Len(suffix) <= Len(u))
            /\ (Len(u) + Len(suffix)) - Len(u) = Len(suffix)
        BY <3>1, <4>3
      <4>6. b[Len(b)] = suffix[Len(suffix)]
        BY <4>4, <4>5
      <4> QED  BY <3>1, <4>3, <4>4, <4>6 DEF Last
    <3> QED  BY <3>2, <3>3
  <2>3. Last(h \o b) = Last(b)
    BY <1>9, <2>2 DEF Last
  <2> QED  BY <1>2, <1>9, <2>1, <2>2, <2>3 DEF t, b
<1>11. CASE suffix = << >>
  <2>1. b = g
    BY <1>5, <1>7, <1>11, ConcatEmptySeq
  <2>2. CASE g = << >>
    <3>1. h \o g = h /\ h \o << >> = h
      BY <1>5, <2>2, ConcatEmptySeq
    <3>2. t = h /\ t = h \o b
      BY <1>6, <1>11, <2>1, <2>2, <3>1
    <3>3. Last(t) = r.ref
      BY <1>2, <3>2 DEF Last
    <3> QED  BY <1>1, <1>2, <1>9, <3>2, <3>3 DEF t, b
  <2>3. CASE g # << >>
    <3>1. t = ((h \o g) \o l) \o << >>
      BY <1>6, <1>11, <2>3
    <3>2. (h \o g) \o l = h \o (g \o l)
      BY <1>5, ConcatAssociative
    <3>3. g \o l = Append(b, Slash)
      BY <1>1, <1>4, <1>5, <2>1, AppendIsConcat
    <3>4. PICK a : a = Append(b, Slash)
      OBVIOUS
    <3>5. a \in Seq(Chars) /\ Len(a) = Len(b) + 1 /\ a[Len(b) + 1] = Slash
      BY <1>1, <1>9, <3>4, AppendProperties
    <3>6. /\ h \o a \in Seq(Chars) /\ Len(h \o a) = Len(a) + 1
          /\ \A i \in 1..Len(a) : (h \o a)[i + 1] = a[i]
      BY <1>1, <1>2, <3>5, CharBefore
    <3>7. t = h \o a
      BY <3>1, <3>2, <3>3, <3>4, <3>6, ConcatEmptySeq
    <3>8. Last(h \o a) = Slash
      <4>1. Len(b) \in Nat
        BY <1>9
      <4>2. Len(a) \in 1..Len(a) /\ (h \o a)[Len(a) + 1] = a[Len(a)] /\ a[Len(a)] = Slash
        BY <3>5, <3>6, <4>1
      <4> QED  BY <3>6, <4>2 DEF Last
    <3> QED  BY <1>2, <1>9, <1>11, <3>4, <3>6, <3>7, <3>8 DEF t, b
  <2> QED  BY <2>2, <2>3
<1> QED
  BY <1>10, <1>11

\* The address invalidate_svn_tree looks up for the whole tree of a rule.
LEMMA RuleAddressLookedUp ==
  ASSUME NEW r \in Insertable
  PROVE  LET t == InvalidatedAddress(r, << >>)
         IN  /\ t \in Seq(Chars)
             /\ r.git = << >> => t = GitAddress(r) /\ t = <<r.ref>> /\ Last(t) # Slash
             /\ r.git # << >> => t = <<r.ref>> \o Append(r.git, Slash) /\ Last(t) = Slash
<1>1. Slash \in Chars /\ r.ref \in Chars /\ r.git \in Seq(Chars) /\ r.ref # Slash
      /\ <<r.ref>> \in Seq(Chars) /\ <<Slash>> \in Seq(Chars)
  BY RuleAssumption DEF Insertable, Rule
<1>2. PICK h : h = <<r.ref>>
  OBVIOUS
<1>3. PICK g : g = r.git
  OBVIOUS
<1>4. PICK l : l = <<Slash>>
  OBVIOUS
<1>5. h \in Seq(Chars) /\ g \in Seq(Chars) /\ l \in Seq(Chars)
  BY <1>1, <1>2, <1>3, <1>4
<1> DEFINE t == InvalidatedAddress(r, << >>)
<1>6. t = ((h \o g) \o (IF g = << >> THEN << >> ELSE l)) \o << >> /\ GitAddress(r) = h \o g
  BY <1>2, <1>3, <1>4 DEF InvalidatedAddress, GitAddress
<1> HIDE DEF t
<1>7. CASE g = << >>
  <2>1. h \o g = h /\ h \o << >> = h
    BY <1>5, <1>7, ConcatEmptySeq
  <2>2. t = h /\ GitAddress(r) = h
    BY <1>6, <1>7, <2>1
  <2>3. Last(h) = r.ref
    BY <1>2 DEF Last
  <2> QED  BY <1>1, <1>2, <1>3, <1>5, <1>7, <2>2, <2>3 DEF t
<1>8. CASE g # << >>
  <2>1. t = ((h \o g) \o l) \o << >>
    BY <1>6, <1>8
  <2>2. (h \o g) \o l = h \o (g \o l)
    BY <1>5, ConcatAssociative
  <2>3. PICK a : a = Append(g, Slash)
    OBVIOUS
  <2>4. g \o l = a
    BY <1>1, <1>4, <1>5, <2>3, AppendIsConcat
  <2>5. a \in Seq(Chars) /\ Len(a) = Len(g) + 1 /\ a[Len(g) + 1] = Slash
    BY <1>1, <1>5, <2>3, AppendProperties
  <2>6. /\ h \o a \in Seq(Chars) /\ Len(h \o a) = Len(a) + 1
        /\ \A i \in 1..Len(a) : (h \o a)[i + 1] = a[i]
    BY <1>1, <1>2, <2>5, CharBefore
  <2>7. t = h \o a
    BY <2>1, <2>2, <2>4, <2>6, ConcatEmptySeq
  <2>8. Last(h \o a) = Slash
    <3>1. Len(g) \in Nat
      BY <1>5
    <3>2. Len(a) \in 1..Len(a) /\ (h \o a)[Len(a) + 1] = a[Len(a)] /\ a[Len(a)] = Slash
      BY <2>5, <2>6, <3>1
    <3> QED  BY <2>6, <3>2 DEF Last
  <2> QED  BY <1>2, <1>3, <1>8, <2>3, <2>6, <2>7, <2>8 DEF t
<1> QED
  BY <1>7, <1>8

\* The converse of CharBeforePrefix.
LEMMA PrefixCharBefore ==
  ASSUME NEW c \in Chars, NEW p \in Seq(Chars), NEW q \in Seq(Chars), IsPrefix(p, q)
  PROVE  IsPrefix(<<c>> \o p, <<c>> \o q)
<1>1. PICK s : s = <<c>> \o p
  OBVIOUS
<1>2. PICK t : t = <<c>> \o q
  OBVIOUS
<1>3. s \in Seq(Chars) /\ Len(s) = Len(p) + 1 /\ s[1] = c /\ \A i \in 1..Len(p) : s[i + 1] = p[i]
  BY <1>1, CharBefore
<1>4. t \in Seq(Chars) /\ Len(t) = Len(q) + 1 /\ t[1] = c /\ \A i \in 1..Len(q) : t[i + 1] = q[i]
  BY <1>2, CharBefore
<1>5. Len(p) \in Nat /\ Len(q) \in Nat /\ Len(p) <= Len(q) /\ \A i \in 1..Len(p) : p[i] = q[i]
  BY PrefixMeans
<1>6. ASSUME NEW i \in 1..Len(s) PROVE s[i] = t[i]
  <2>1. CASE i = 1
    BY <1>3, <1>4, <2>1
  <2>2. CASE i # 1
    <3>1. i - 1 \in 1..Len(p) /\ i - 1 \in 1..Len(q) /\ (i - 1) + 1 = i
      BY <1>3, <1>5, <2>2
    <3> QED  BY <1>3, <1>4, <1>5, <3>1
  <2> QED  BY <2>1, <2>2
<1>7. Len(s) <= Len(t)
  BY <1>3, <1>4, <1>5
<1> QED
  BY <1>1, <1>2, <1>3, <1>4, <1>6, <1>7, PrefixMeans

\* What invalidate_svn_tree finds in the Git tree of a rule.
THEOREM SubtreeOfRuleIsFound == Spec => []SubtreeOfRule
<1>1. ASSUME TrieInv, NoOverlap(GitAddress), NEW i \in Positions, NEW v \in 0..Forever,
             NEW ofRef, ofRef = {j \in Positions : InForce(j, v) /\ rules[j].ref = rules[i].ref}
      PROVE  IF rules[i].git = << >> THEN FoundBelow(i, v) = {j \in ofRef : rules[j].git = << >>}
             ELSE \/ FoundBelow(i, v)
                       = {j \in ofRef : IsPrefix(Append(rules[i].git, Slash), rules[j].git)}
                  \/ FoundBelow(i, v) = {} /\ ~PartAfter(InvalidatedAddress(rules[i], << >>))
  <2> DEFINE t == InvalidatedAddress(rules[i], << >>)
             c == rules[i].ref
             a == Append(rules[i].git, Slash)
  <2>1. rules \in Seq(Insertable) /\ TreeInv(rtrie, GitText)
    BY <1>1, TreesOfInvariant
  <2>2. ASSUME NEW j \in Positions
        PROVE  /\ rules[j] \in Insertable /\ rules[j].ref \in Chars /\ rules[j].git \in Seq(Chars)
               /\ ~IsPrefix(<<Slash>>, rules[j].git)
               /\ GitAddress(rules[j]) = <<rules[j].ref>> \o rules[j].git
               /\ GitAddress(rules[j]) \in Seq(Chars) /\ GitText[j] = GitAddress(rules[j])
    BY <2>1, RuleAt, AddressIsText DEF GitText, GitAddress, Insertable, Rule
  <2>3. /\ t \in Seq(Chars)
        /\ rules[i].git = << >> => t = GitAddress(rules[i]) /\ t = <<c>> /\ Last(t) # Slash
        /\ rules[i].git # << >> => t = <<c>> \o a /\ Last(t) = Slash
    BY <2>2, RuleAddressLookedUp
  <2>4. Slash \in Chars /\ c \in Chars /\ a \in Seq(Chars)
    <3>1. Slash \in Chars
      BY RuleAssumption
    <3> QED  BY <2>2, <3>1, AppendProperties
  <2> HIDE DEF t, c, a
  <2>5. FoundBelow(i, v) = SubtreeRules(t, v)
    BY DEF FoundBelow, t
  <2>6. CASE rules[i].git = << >>
    <3>1. EndsAtNode(t)
      <4>1. GitText[i] \in DOMAIN rtrie
        BY <1>1, <2>1 DEF TreeInv, AtNodes
      <4> QED  BY <1>1, <2>2, <2>3, <2>6, <4>1 DEF EndsAtNode
    <3>2. SubtreeRules(t, v) = {j \in Positions : InForce(j, v) /\ MapsInto(j, t)}
      BY <1>1, <2>3, <3>1, LookupFromNode
    <3>3. ASSUME NEW j \in Positions
          PROVE  MapsInto(j, t) <=> rules[j].ref = c /\ rules[j].git = << >>
      <4>1. PICK d, q : d = rules[j].ref /\ q = rules[j].git
        OBVIOUS
      <4>2. d \in Chars /\ q \in Seq(Chars) /\ ~IsPrefix(<<Slash>>, q)
            /\ GitAddress(rules[j]) = <<d>> \o q
        BY <2>2, <4>1
      <4>3. MapsInto(j, t) <=> t = <<d>> \o q \/ IsPrefix(Append(t, Slash), <<d>> \o q)
        BY <2>3, <2>6, <4>2 DEF MapsInto
      <4>4. t = <<c>> \o << >> /\ Append(t, Slash) = <<c>> \o <<Slash>>
            /\ << >> \in Seq(Chars) /\ <<Slash>> \in Seq(Chars)
        <5>1. <<c>> \in Seq(Chars) /\ <<Slash>> \in Seq(Chars) /\ << >> \in Seq(Chars)
          BY <2>4
        <5>2. <<c>> \o << >> = <<c>>
          BY <5>1, ConcatEmptySeq
        <5>3. Append(<<c>>, Slash) = <<c>> \o <<Slash>>
          BY <2>4, <5>1, AppendIsConcat
        <5> QED  BY <2>3, <2>6, <5>1, <5>2, <5>3
      <4>5. t = <<d>> \o q => c = d /\ q = << >>
        <5>1. SUFFICES ASSUME <<c>> \o << >> = <<d>> \o q PROVE c = d /\ << >> = q
          BY <4>4
        <5> QED  BY <2>4, <4>2, <4>4, <5>1, CharBeforeEqual
      <4>6. ~IsPrefix(Append(t, Slash), <<d>> \o q)
        <5>1. SUFFICES ASSUME IsPrefix(<<c>> \o <<Slash>>, <<d>> \o q) PROVE FALSE
          BY <4>4
        <5>2. IsPrefix(<<Slash>>, q)
          BY <2>4, <4>2, <4>4, <5>1, CharBeforePrefix
        <5> QED  BY <4>2, <5>2
      <4>7. c = d /\ q = << >> => t = <<d>> \o q
        BY <4>4
      <4> QED  BY <4>1, <4>3, <4>5, <4>6, <4>7
    <3> QED  BY <1>1, <2>5, <2>6, <3>2, <3>3 DEF c
  <2>7. CASE rules[i].git # << >> /\ EndsAtNode(t)
    <3>1. SubtreeRules(t, v) = {j \in Positions : InForce(j, v) /\ MapsInto(j, t)}
      BY <1>1, <2>3, <2>7, LookupFromNode
    <3>2. ASSUME NEW j \in Positions
          PROVE  MapsInto(j, t) <=> rules[j].ref = c /\ IsPrefix(a, rules[j].git)
      <4>1. PICK d, q : d = rules[j].ref /\ q = rules[j].git
        OBVIOUS
      <4>2. d \in Chars /\ q \in Seq(Chars) /\ GitAddress(rules[j]) = <<d>> \o q
            /\ <<d>> \o q \in Seq(Chars)
        BY <2>2, <4>1
      <4>3. MapsInto(j, t) <=> t = <<d>> \o q \/ IsPrefix(t, <<d>> \o q)
        BY <2>3, <2>7, <4>2 DEF MapsInto
      <4>4. MapsInto(j, t) <=> IsPrefix(t, <<d>> \o q)
        BY <4>2, <4>3, PrefixTrivial
      <4>5. IsPrefix(<<c>> \o a, <<d>> \o q) => c = d /\ IsPrefix(a, q)
        BY <2>4, <4>2, CharBeforePrefix
      <4>6. c = d /\ IsPrefix(a, q) => IsPrefix(<<c>> \o a, <<d>> \o q)
        BY <2>4, <4>2, PrefixCharBefore
      <4> QED  BY <2>3, <2>7, <4>1, <4>4, <4>5, <4>6
    <3> QED  BY <1>1, <2>5, <2>7, <3>1, <3>2 DEF c, a
  <2>8. CASE rules[i].git # << >> /\ ~EndsAtNode(t)
    <3>1. FoundBelow(i, v) = {}
      BY <2>5, <2>8 DEF SubtreeRules
    <3>2. ~PartAfter(t)
      BY <1>1, <2>3, <2>8, NodeWherePart
    <3> QED  BY <2>8, <3>1, <3>2 DEF t
  <2> QED  BY <2>6, <2>7, <2>8
<1>2. TrieInv => SubtreeOfRule
  BY <1>1 DEF SubtreeOfRule
<1> QED
  BY <1>2, TrieInvariant, PTL

\* Nothing outside the subtree is ever found, nor marked for conversion.
THEOREM SubtreesAreSound == Spec => []SubtreeSound
<1>1. ASSUME TrieInv, NEW t \in Addresses, NEW v \in 0..Forever, NEW i \in SubtreeRules(t, v)
      PROVE  InForce(i, v) /\ MapsInto(i, t)
  <2>1. t \in Seq(Chars)
    BY RuleAssumption
  <2> QED  BY <1>1, <2>1, SubtreeRulesSound
<1>2. ASSUME TrieInv, NEW r \in Positions, NEW suffix \in Subpaths, NEW v \in 0..Forever,
             NEW tree \in TreesToConvert(rules[r], suffix, v) \ {Below(rules[r].svn, suffix)}
      PROVE  \E i \in Positions :
               /\ InForce(i, v) /\ rules[i].svn = tree /\ rules[i].ref = rules[r].ref
               /\ AtOrAbove(Below(rules[r].git, suffix), rules[i].git)
  <2> DEFINE t == InvalidatedAddress(rules[r], suffix)
             b == Below(rules[r].git, suffix)
  <2>1. rules \in Seq(Insertable) /\ suffix \in Seq(Chars) /\ Slash \notin ToSet(suffix)
    BY <1>2, TreesOfInvariant, RuleAssumption DEF Subpaths
  <2>2. rules[r] \in Insertable /\ rules[r].ref \in Chars /\ rules[r].ref # Slash
    BY <2>1, RuleAt
  <2>3. /\ t \in Seq(Chars) /\ b \in Seq(Chars)
        /\ \/ t = <<rules[r].ref>> \o b /\ Last(t) # Slash
           \/ t = <<rules[r].ref>> \o Append(b, Slash) /\ Last(t) = Slash
    BY <2>1, <2>2, InvalidatedMeans
  <2>4. PICK i \in SubtreeRules(t, v) : rules[i].svn = tree
    BY <1>2 DEF TreesToConvert
  <2> HIDE DEF t, b
  <2>5. i \in Positions /\ InForce(i, v) /\ MapsInto(i, t)
    BY <1>2, <2>3, <2>4, SubtreeRulesSound
  <2>6. rules[i].ref \in Chars /\ rules[i].git \in Seq(Chars)
    BY <2>1, <2>5, RuleAt
  <2> DEFINE c == rules[r].ref
             d == rules[i].ref
             q == rules[i].git
             a == Append(b, Slash)
  <2>7. a \in Seq(Chars) /\ Slash \in Chars /\ IsPrefix(a, a) /\ IsPrefix(b, b)
    <3>1. Slash \in Chars
      BY RuleAssumption
    <3>2. a \in Seq(Chars)
      BY <2>3, <3>1, AppendProperties
    <3> QED  BY <2>3, <3>1, <3>2, PrefixTrivial
  <2>8. t = <<d>> \o q \/ IsPrefix(IF Last(t) = Slash THEN t ELSE Append(t, Slash), <<d>> \o q)
    BY <2>5 DEF MapsInto, GitAddress
  <2>9. Append(<<c>> \o b, Slash) = <<c>> \o a
    <3>1. <<c>> \in Seq(Chars) /\ <<Slash>> \in Seq(Chars) /\ <<c>> \o b \in Seq(Chars)
      BY <2>2, <2>3, <2>7, CharBefore
    <3>2. Append(<<c>> \o b, Slash) = (<<c>> \o b) \o <<Slash>>
      BY <2>7, <3>1, AppendIsConcat
    <3>3. (<<c>> \o b) \o <<Slash>> = <<c>> \o (b \o <<Slash>>)
      BY <2>3, <3>1, ConcatAssociative
    <3>4. a = b \o <<Slash>>
      BY <2>3, <2>7, AppendIsConcat
    <3> QED  BY <3>2, <3>3, <3>4
  <2> HIDE DEF a, c, d, q
  <2>10. c \in Chars /\ d \in Chars /\ q \in Seq(Chars)
    BY <2>2, <2>6 DEF c, d, q
  <2>11. c = d /\ (b = q \/ IsPrefix(a, q))
    <3>1. CASE t = <<c>> \o b /\ Last(t) # Slash
      <4>1. <<c>> \o b = <<d>> \o q \/ IsPrefix(<<c>> \o a, <<d>> \o q)
        BY <2>8, <2>9, <3>1
      <4> QED  BY <2>3, <2>7, <2>10, <4>1, CharBeforeEqual, CharBeforePrefix
    <3>2. CASE t = <<c>> \o a /\ Last(t) = Slash
      <4>1. <<c>> \o a = <<d>> \o q \/ IsPrefix(<<c>> \o a, <<d>> \o q)
        BY <2>8, <3>2
      <4>2. CASE <<c>> \o a = <<d>> \o q
        <5>1. c = d /\ a = q
          BY <2>7, <2>10, <4>2, CharBeforeEqual
        <5> QED  BY <2>7, <5>1
      <4>3. CASE IsPrefix(<<c>> \o a, <<d>> \o q)
        BY <2>7, <2>10, <4>3, CharBeforePrefix
      <4> QED  BY <4>1, <4>2, <4>3
    <3> QED  BY <2>3, <3>1, <3>2 DEF a, c
  <2>12. AtOrAbove(b, q)
    BY <2>11 DEF AtOrAbove, a
  <2> QED  BY <2>4, <2>5, <2>11, <2>12 DEF b, c, d, q
<1>3. TrieInv => SubtreeSound
  BY <1>1, <1>2 DEF SubtreeSound
<1> QED
  BY <1>3, TrieInvariant, PTL

\* svn_subtree_rules is asked for the rules below an SVN path, but searches the
\* tree of Git addresses (patrie.hpp:117-122): it finds nothing for a path that is
\* not itself the beginning of a Git address.
THEOREM SvnSubtreesFindNothing ==
  Spec => [](\A p \in Seq(Chars), v \in 0..Forever :
               (\A i \in Positions : ~MapsInto(i, p)) => SvnSubtreeRules(p, v) = {})
<1> DEFINE Nothing ==
      \A p \in Seq(Chars), v \in 0..Forever :
        (\A i \in Positions : ~MapsInto(i, p)) => SvnSubtreeRules(p, v) = {}
<1>1. ASSUME TrieInv, NEW p \in Seq(Chars), NEW v \in 0..Forever,
             NEW i \in SvnSubtreeRules(p, v)
      PROVE  i \in Positions /\ MapsInto(i, p)
  <2>1. i \in SubtreeRules(p, v)
    BY <1>1 DEF SvnSubtreeRules
  <2> QED  BY <1>1, <2>1, SubtreeRulesSound
<1>2. TrieInv => Nothing
  BY <1>1
<1> QED
  BY <1>2, TrieInvariant, PTL

=============================================================================
