------------------------------- MODULE SvnProofs -------------------------------
(***************************************************************************)
(* Theorems about how the SVN repository is read: modules SvnPath, PathSet,*)
(* ChangedPaths and SvnAccess, for any tree of paths and any copies.       *)
(*                                                                         *)
(* 1. The order of paths and what stands between a path and one below it.  *)
(* 2. PathSet: insert keeps the set minimal and covers what was inserted.  *)
(* 3. ChangedPaths: a file is attributed to the innermost copy.            *)
(* 4. SvnAccess: AccessInv is inductive; pools, and files reached.         *)
(***************************************************************************)
EXTENDS SvnAccessProperties, FiniteSetTheorems, SequenceTheorems,
        WellFoundedInduction, TLAPS

-----------------------------------------------------------------------------
(* Paths.                                                                  *)

\* What starts_with compares.
LEMMA StartsWithMeans ==
  ASSUME NEW S, NEW p \in Seq(S), NEW q \in Seq(S)
  PROVE  StartsWith(q, p) <=> Len(p) <= Len(q) /\ \A i \in 1..Len(p) : q[i] = p[i]
<1>1. SubSeq(p, 1, Len(p)) = p /\ Len(p) \in Nat /\ Len(q) \in Nat
  BY SubSeqFull, LenProperties
<1>2. ASSUME Len(p) <= Len(q)
      PROVE  SubSeq(q, 1, Len(p)) = p <=> \A i \in 1..Len(p) : q[i] = p[i]
  <2>1. \A i \in 1..Len(p) : q[i] \in S
    BY <1>1, <1>2, ElementOfSeq
  <2>2. /\ SubSeq(q, 1, Len(p)) \in Seq(S) /\ Len(SubSeq(q, 1, Len(p))) = Len(p)
        /\ \A i \in 1..Len(p) : SubSeq(q, 1, Len(p))[i] = q[i]
    BY <1>1, <2>1, SubSeqProperties
  <2> QED  BY <2>2, SeqEqual
<1> QED  BY <1>1, <1>2 DEF StartsWith, IsPrefix

\* A set of naturals has a least element.
LEMMA LeastIsMember ==
  ASSUME NEW S \in SUBSET Nat, S # {}
  PROVE  \E m \in S : \A x \in S : m <= x
<1> DEFINE R == OpToRel(<, Nat)
<1>1. IsWellFoundedOn(R, Nat)
  BY NatLessThanWellFounded
<1>2. \E m \in S : \A x \in S : ~ (<<x, m>> \in R)
  <2> HIDE DEF R
  <2> QED  BY <1>1, WFMin
<1>3. PICK m \in S : \A x \in S : ~ (<<x, m>> \in R)
  BY <1>2
<1>4. \A x \in S : ~ (x < m)
  BY <1>3 DEF OpToRel
<1>5. \A x \in S : m <= x
  <2> TAKE x \in S
  <2>1. x \in Nat /\ m \in Nat /\ ~ (x < m)
    BY <1>4
  <2> QED  BY <2>1
<1> QED  BY <1>5

\* What Min returns.
LEMMA MinIsMember ==
  ASSUME NEW S \in SUBSET Nat, S # {}
  PROVE  Min(S) \in S /\ \A x \in S : Min(S) <= x
BY LeastIsMember DEF Min

\* starts_with is a partial order, in which the prefixes of a path form a chain.
LEMMA StartsWithOrder ==
  ASSUME NEW S, NEW p \in Seq(S), NEW q \in Seq(S), NEW r \in Seq(S)
  PROVE  /\ StartsWith(p, p)
         /\ StartsWith(p, q) /\ StartsWith(q, p) => p = q
         /\ StartsWith(p, q) /\ StartsWith(q, r) => StartsWith(p, r)
         /\ StartsWith(p, q) /\ StartsWith(p, r) => StartsWith(q, r) \/ StartsWith(r, q)
<1>1. Len(p) \in Nat /\ Len(q) \in Nat /\ Len(r) \in Nat
  BY LenProperties
<1>2. StartsWith(p, p)
  BY <1>1, StartsWithMeans
<1>3. ASSUME StartsWith(p, q), StartsWith(q, p) PROVE p = q
  BY <1>1, <1>3, StartsWithMeans, SeqEqual
<1>4. ASSUME StartsWith(p, q), StartsWith(q, r) PROVE StartsWith(p, r)
  BY <1>1, <1>4, StartsWithMeans
<1>5. ASSUME StartsWith(p, q), StartsWith(p, r)
      PROVE  StartsWith(q, r) \/ StartsWith(r, q)
  <2>1. CASE Len(q) <= Len(r)
    BY <1>1, <1>5, <2>1, StartsWithMeans
  <2>2. CASE Len(r) <= Len(q)
    BY <1>1, <1>5, <2>2, StartsWithMeans
  <2> QED  BY <1>1, <2>1, <2>2
<1> QED  BY <1>2, <1>3, <1>4, <1>5

\* Where two paths differ first.
DiffersAt(p, q, i) ==
  /\ i \in 1..Len(p) /\ i <= Len(q) /\ p[i] # q[i]
  /\ \A j \in 1..(i - 1) : p[j] = q[j]

\* Two paths are one below the other, or they differ somewhere first.
LEMMA PathsCompare ==
  ASSUME NEW p \in Seq(Nat), NEW q \in Seq(Nat)
  PROVE  StartsWith(p, q) \/ StartsWith(q, p) \/ \E i \in 1..Len(p) : DiffersAt(p, q, i)
<1> DEFINE D == {i \in 1..Len(p) : i <= Len(q) /\ p[i] # q[i]}
<1>1. Len(p) \in Nat /\ Len(q) \in Nat
  BY LenProperties
<1>2. CASE D = {}
  <2>1. \A i \in 1..Len(p) : i <= Len(q) => p[i] = q[i]
    BY <1>2
  <2>2. CASE Len(q) <= Len(p)
    BY <1>1, <2>1, <2>2, StartsWithMeans
  <2>3. CASE Len(p) <= Len(q)
    BY <1>1, <2>1, <2>3, StartsWithMeans
  <2> QED  BY <1>1, <2>2, <2>3
<1>3. CASE D # {}
  <2>1. PICK m \in D : \A x \in D : m <= x
    <3>1. D \in SUBSET Nat
      BY <1>1
    <3> HIDE DEF D
    <3> QED  BY <1>3, <3>1, LeastIsMember
  <2>2. m \in 1..Len(p) /\ m <= Len(q) /\ p[m] # q[m]
    OBVIOUS
  <2>3. \A j \in 1..(m - 1) : p[j] = q[j]
    <3> TAKE j \in 1..(m - 1)
    <3>1. j \in 1..Len(p) /\ j <= Len(q) /\ ~ (m <= j)
      BY <1>1, <2>2
    <3> QED  BY <2>1, <3>1
  <2> QED  BY <2>2, <2>3 DEF DiffersAt
<1> QED  BY <1>2, <1>3

\* operator<: what is below a path comes after it, and two paths of which none is
\* below the other are ordered by the components where they differ first.
LEMMA LessMeans ==
  ASSUME NEW p \in Seq(Nat), NEW q \in Seq(Nat)
  PROVE  Less(p, q) <=> \/ StartsWith(q, p) /\ p # q
                        \/ \E i \in 1..Len(p) : DiffersAt(p, q, i) /\ p[i] < q[i]
<1>1. \A i \in 1..Len(p) : i <= Len(q) => p[i] \in Nat /\ q[i] \in Nat
  <2> TAKE i \in 1..Len(p)
  <2> HAVE i <= Len(q)
  <2>1. i \in 1..Len(q)
    BY LenProperties
  <2> QED  BY <2>1, ElementOfSeq
<1>2. \A i \in 1..Len(p) :
        (i <= Len(q) /\ p[i] < q[i] /\ \A j \in 1..(i - 1) : p[j] = q[j])
          <=> (DiffersAt(p, q, i) /\ p[i] < q[i])
  <2> TAKE i \in 1..Len(p)
  <2>1. CASE i <= Len(q)
    <3>1. p[i] < q[i] => p[i] # q[i]
      BY <1>1, <2>1
    <3> QED  BY <2>1, <3>1 DEF DiffersAt
  <2>2. CASE ~ (i <= Len(q))
    BY <2>2 DEF DiffersAt
  <2> QED  BY <2>1, <2>2
<1> QED  BY <1>2 DEF Less, StartsWith, IsStrictPrefix

\* The order is total.
LEMMA LessTotal ==
  ASSUME NEW p \in Seq(Nat), NEW q \in Seq(Nat)
  PROVE  /\ p # q => Less(p, q) \/ Less(q, p)
         /\ Less(p, q) => p # q /\ ~ Less(q, p)
<1>1. Len(p) \in Nat /\ Len(q) \in Nat
  BY LenProperties
<1>2. \A i \in 1..Len(p) : i <= Len(q) => p[i] \in Nat /\ q[i] \in Nat /\ i \in 1..Len(q)
  <2> TAKE i \in 1..Len(p)
  <2> HAVE i <= Len(q)
  <2>1. i \in 1..Len(q)
    BY <1>1
  <2> QED  BY <2>1, ElementOfSeq
<1>3. ASSUME NEW i \in 1..Len(p), DiffersAt(p, q, i)
      PROVE  Less(p, q) \/ Less(q, p)
  <2>1. p[i] \in Nat /\ q[i] \in Nat /\ i \in 1..Len(q) /\ p[i] # q[i]
    BY <1>2, <1>3 DEF DiffersAt
  <2>2. CASE p[i] < q[i]
    BY <1>3, <2>2, LessMeans
  <2>3. CASE q[i] < p[i]
    <3>1. DiffersAt(q, p, i)
      BY <1>1, <1>3, <2>1 DEF DiffersAt
    <3> QED  BY <2>1, <2>3, <3>1, LessMeans
  <2> QED  BY <2>1, <2>2, <2>3
<1>4. p # q => Less(p, q) \/ Less(q, p)
  BY <1>3, PathsCompare, LessMeans
<1>5. ~ Less(p, p)
  <2>1. \A i \in 1..Len(p) : p[i] \in Nat
    BY ElementOfSeq
  <2> QED  BY <2>1, LessMeans DEF DiffersAt
<1>6. ASSUME Less(p, q), Less(q, p) PROVE FALSE
  <2>1. CASE StartsWith(q, p) /\ p # q
    <3>1. \A j \in 1..Len(p) : q[j] = p[j] /\ p[j] \in Nat
      BY <2>1, StartsWithMeans, ElementOfSeq
    <3>2. ~ (StartsWith(p, q) /\ p # q)
      BY <2>1, StartsWithOrder
    <3>3. PICK i \in 1..Len(q) : DiffersAt(q, p, i)
      BY <1>6, <3>2, LessMeans
    <3> QED  BY <1>1, <3>1, <3>3 DEF DiffersAt
  <2>2. CASE StartsWith(p, q) /\ p # q
    <3>1. \A j \in 1..Len(q) : q[j] = p[j] /\ q[j] \in Nat
      BY <2>2, StartsWithMeans, ElementOfSeq
    <3>2. ~ (StartsWith(q, p) /\ p # q)
      BY <2>2, StartsWithOrder
    <3>3. PICK i \in 1..Len(p) : DiffersAt(p, q, i)
      BY <1>6, <3>2, LessMeans
    <3> QED  BY <1>1, <3>1, <3>3 DEF DiffersAt
  <2>3. CASE /\ \E i \in 1..Len(p) : DiffersAt(p, q, i) /\ p[i] < q[i]
             /\ \E i \in 1..Len(q) : DiffersAt(q, p, i) /\ q[i] < p[i]
    <3>1. PICK i \in 1..Len(p) : DiffersAt(p, q, i) /\ p[i] < q[i]
      BY <2>3
    <3>2. PICK k \in 1..Len(q) : DiffersAt(q, p, k) /\ q[k] < p[k]
      BY <2>3
    <3>3. i = k
      BY <1>1, <3>1, <3>2 DEF DiffersAt
    <3>4. p[i] \in Nat /\ q[i] \in Nat
      BY <1>2, <3>1 DEF DiffersAt
    <3> QED  BY <3>1, <3>2, <3>3, <3>4
  <2> QED  BY <1>6, <2>1, <2>2, <2>3, LessMeans
<1> QED  BY <1>4, <1>5, <1>6

\* What is below a path differs from others where the path does.
LEMMA BelowDiffers ==
  ASSUME NEW p \in Seq(Nat), NEW q \in Seq(Nat), NEW r \in Seq(Nat), StartsWith(r, p),
         NEW i \in 1..Len(p), DiffersAt(p, q, i)
  PROVE  i \in 1..Len(r) /\ DiffersAt(r, q, i) /\ r[i] = p[i]
<1>1. Len(p) \in Nat /\ Len(q) \in Nat /\ Len(r) \in Nat
  BY LenProperties
<1>2. Len(p) <= Len(r) /\ \A j \in 1..Len(p) : r[j] = p[j]
  BY StartsWithMeans
<1>3. i \in 1..Len(r) /\ r[i] = p[i] /\ \A j \in 1..(i - 1) : j \in 1..Len(p)
  BY <1>1, <1>2
<1>4. i <= Len(q) /\ p[i] # q[i] /\ \A j \in 1..(i - 1) : p[j] = q[j]
  BY DEF DiffersAt
<1>5. \A j \in 1..(i - 1) : r[j] = q[j]
  BY <1>2, <1>3, <1>4
<1> QED  BY <1>3, <1>4, <1>5 DEF DiffersAt

\* Nothing sorts between a path and what is below it but what is below it as well.
LEMMA NothingBetween ==
  ASSUME NEW p \in Seq(Nat), NEW q \in Seq(Nat), NEW r \in Seq(Nat),
         StartsWith(r, p), p = q \/ Less(p, q), Less(q, r) \/ q = r
  PROVE  StartsWith(q, p)
<1>1. CASE p = q \/ q = r
  BY <1>1, StartsWithOrder
<1>2. CASE Less(p, q) /\ Less(q, r)
  <2> SUFFICES ASSUME ~ StartsWith(q, p) PROVE FALSE
    OBVIOUS
  <2>1. PICK i \in 1..Len(p) : DiffersAt(p, q, i) /\ p[i] < q[i]
    BY <1>2, LessMeans
  <2>2. i \in 1..Len(r) /\ DiffersAt(r, q, i) /\ r[i] = p[i]
    BY <2>1, BelowDiffers
  <2>3. Less(r, q)
    BY <2>1, <2>2, LessMeans
  <2> QED  BY <1>2, <2>3, LessTotal
<1> QED  BY <1>1, <1>2

\* The order is transitive.
LEMMA LessTransitive ==
  ASSUME NEW p \in Seq(Nat), NEW q \in Seq(Nat), NEW r \in Seq(Nat), Less(p, q), Less(q, r)
  PROVE  Less(p, r)
<1> SUFFICES ASSUME ~ Less(p, r) PROVE FALSE
  OBVIOUS
<1>1. p # r /\ Less(r, p)
  BY LessTotal
<1>2. Len(p) \in Nat /\ Len(q) \in Nat /\ Len(r) \in Nat
  BY LenProperties
<1>3. CASE StartsWith(q, p)
  <2>1. StartsWith(r, p) => FALSE
    BY <1>1, LessMeans
  <2>2. ~ StartsWith(r, q)
    BY <1>3, <2>1, StartsWithOrder
  <2>3. PICK i \in 1..Len(q) : DiffersAt(q, r, i) /\ q[i] < r[i]
    BY <2>2, LessMeans
  <2>4. CASE i <= Len(p)
    <3>1. Len(p) <= Len(q) /\ \A j \in 1..Len(p) : q[j] = p[j]
      BY <1>3, StartsWithMeans
    <3>2. i \in 1..Len(p) /\ DiffersAt(p, r, i) /\ p[i] < r[i]
      <4>1. /\ i \in 1..Len(p) /\ i <= Len(r) /\ q[i] # r[i] /\ q[i] = p[i]
            /\ \A j \in 1..(i - 1) : q[j] = r[j]
        BY <1>2, <2>3, <2>4, <3>1 DEF DiffersAt
      <4>2. \A j \in 1..(i - 1) : j \in 1..Len(p)
        BY <1>2, <4>1
      <4>3. \A j \in 1..(i - 1) : p[j] = r[j]
        BY <3>1, <4>1, <4>2
      <4>4. p[i] < r[i] /\ p[i] # r[i]
        BY <2>3, <4>1
      <4> QED  BY <4>1, <4>3, <4>4 DEF DiffersAt
    <3> QED  BY <3>2, LessMeans
  <2>5. CASE i > Len(p)
    <3>1. Len(p) <= Len(q) /\ \A j \in 1..Len(p) : q[j] = p[j]
      BY <1>3, StartsWithMeans
    <3>2. Len(p) <= Len(r) /\ \A j \in 1..Len(p) : r[j] = p[j]
      BY <1>2, <2>3, <2>5, <3>1 DEF DiffersAt
    <3> QED  BY <2>1, <3>2, StartsWithMeans
  <2> QED  BY <1>2, <2>4, <2>5
<1>4. CASE ~ StartsWith(q, p)
  <2>1. PICK i \in 1..Len(p) : DiffersAt(p, q, i) /\ p[i] < q[i]
    BY <1>4, LessMeans
  <2>2. CASE StartsWith(r, q)
    <3>1. Len(q) <= Len(r) /\ \A j \in 1..Len(q) : r[j] = q[j]
      BY <2>2, StartsWithMeans
    <3>2. DiffersAt(p, r, i) /\ p[i] < r[i]
      <4>1. /\ i \in 1..Len(p) /\ i \in 1..Len(q) /\ p[i] # q[i]
            /\ \A j \in 1..(i - 1) : p[j] = q[j]
        BY <1>2, <2>1 DEF DiffersAt
      <4>2. i <= Len(r) /\ \A j \in 1..(i - 1) : j \in 1..Len(q)
        <5>1. i <= Len(q) /\ Len(q) <= Len(r) /\ i \in Nat
          BY <3>1, <4>1
        <5>2. i <= Len(r)
          BY <1>2, <5>1
        <5>3. \A j \in 1..(i - 1) : j \in 1..Len(q)
          BY <1>2, <5>1
        <5> QED  BY <5>2, <5>3
      <4>3. r[i] = q[i] /\ \A j \in 1..(i - 1) : p[j] = r[j]
        BY <3>1, <4>1, <4>2
      <4>4. p[i] < r[i] /\ p[i] # r[i]
        BY <2>1, <4>1, <4>3
      <4> QED  BY <4>1, <4>2, <4>3, <4>4 DEF DiffersAt
    <3> QED  BY <3>2, LessMeans
  <2>3. CASE ~ StartsWith(r, q)
    <3>1. PICK k \in 1..Len(q) : DiffersAt(q, r, k) /\ q[k] < r[k]
      BY <2>3, LessMeans
    <3>2. /\ p[i] \in Nat /\ q[i] \in Nat /\ q[k] \in Nat /\ r[k] \in Nat
          /\ i \in 1..Len(q) /\ k \in 1..Len(r)
      <4>1. i \in 1..Len(q) /\ k \in 1..Len(r)
        BY <1>2, <2>1, <3>1 DEF DiffersAt
      <4> QED  BY <4>1, ElementOfSeq
    <3>3. CASE i < k
      <4>1. q[i] = r[i] /\ \A j \in 1..(i - 1) : p[j] = q[j] /\ q[j] = r[j]
        <5>1. \A j \in 1..(i - 1) : p[j] = q[j]
          BY <2>1 DEF DiffersAt
        <5>2. \A j \in 1..(k - 1) : q[j] = r[j]
          BY <3>1 DEF DiffersAt
        <5>3. i \in 1..(k - 1) /\ \A j \in 1..(i - 1) : j \in 1..(k - 1)
          BY <1>2, <3>2, <3>3
        <5> QED  BY <5>1, <5>2, <5>3
      <4>2. i <= Len(r) /\ p[i] # r[i] /\ p[i] < r[i]
        <5>1. i <= Len(r)
          BY <1>2, <3>2, <3>3
        <5>2. p[i] < q[i] /\ p[i] \in Nat /\ q[i] \in Nat
          BY <2>1, <3>2
        <5>3. p[i] < r[i]
          BY <4>1, <5>2
        <5>4. p[i] # q[i]
          BY <2>1 DEF DiffersAt
        <5> QED  BY <4>1, <5>1, <5>3, <5>4
      <4>3. DiffersAt(p, r, i)
        BY <4>1, <4>2 DEF DiffersAt
      <4> QED  BY <4>2, <4>3, LessMeans
    <3>4. CASE k < i
      <4>1. p[k] = q[k] /\ \A j \in 1..(k - 1) : p[j] = q[j] /\ q[j] = r[j]
        <5>1. \A j \in 1..(i - 1) : p[j] = q[j]
          BY <2>1 DEF DiffersAt
        <5>2. \A j \in 1..(k - 1) : q[j] = r[j]
          BY <3>1 DEF DiffersAt
        <5>3. k \in 1..(i - 1) /\ \A j \in 1..(k - 1) : j \in 1..(i - 1)
          BY <1>2, <3>2, <3>4
        <5> QED  BY <5>1, <5>2, <5>3
      <4>2. k \in 1..Len(p) /\ k <= Len(r) /\ p[k] # r[k] /\ p[k] < r[k]
        <5>1. k \in 1..Len(p) /\ k <= Len(r)
          BY <1>2, <3>2, <3>4
        <5>2. q[k] < r[k] /\ q[k] # r[k]
          BY <3>1 DEF DiffersAt
        <5> QED  BY <4>1, <5>1, <5>2
      <4>3. DiffersAt(p, r, k)
        BY <4>1, <4>2 DEF DiffersAt
      <4> QED  BY <4>2, <4>3, LessMeans
    <3>5. CASE i = k
      <4>1. DiffersAt(p, r, i) /\ p[i] < r[i]
        <5>1. p[i] < q[i] /\ q[i] < r[i] /\ r[i] \in Nat
          BY <2>1, <3>1, <3>2, <3>5
        <5>2. p[i] < r[i]
          <6> DEFINE x == p[i]  y == q[i]  z == r[i]
          <6>1. x \in Nat /\ y \in Nat /\ z \in Nat /\ x < y /\ y < z
            BY <3>2, <5>1
          <6>2. x < z
            <7> HIDE DEF x, y, z
            <7> QED  BY <6>1
          <6> QED  BY <6>2
        <5>3. i <= Len(r) /\ p[i] # r[i]
          <6>1. i <= Len(r)
            BY <1>2, <3>2, <3>5
          <6>2. p[i] \in Nat /\ r[i] \in Nat
            BY <3>2, <5>1
          <6> QED  BY <5>2, <6>1, <6>2
        <5>4. \A j \in 1..(i - 1) : p[j] = r[j]
          BY <2>1, <3>1, <3>5 DEF DiffersAt
        <5> QED  BY <5>2, <5>3, <5>4 DEF DiffersAt
      <4> QED  BY <4>1, LessMeans
    <3> QED  BY <1>2, <3>2, <3>3, <3>4, <3>5
  <2> QED  BY <2>2, <2>3
<1> QED  BY <1>3, <1>4

-----------------------------------------------------------------------------
(* PathSet.                                                                *)

LEMMA PathsAreSequences ==
  ASSUME NEW p \in AllPaths
  PROVE  p \in Seq(Nat)
<1>1. p \in Seq(Components) /\ Components \subseteq Nat
  BY PathAssumption
<1> QED  BY <1>1, SeqMonotonic

\* A set of places in the vector, or the end of it, has a first one.
LEMMA FirstPlace ==
  ASSUME NEW n \in Nat, NEW a \in 1..(n + 1), NEW S \in SUBSET (a..n)
  PROVE  LET m == Min(S \cup {n + 1})
         IN  /\ m \in a..(n + 1)
             /\ m <= n => m \in S
             /\ \A i \in a..(m - 1) : i \notin S
<1> DEFINE T == S \cup {n + 1}
<1>1. T \in SUBSET Nat /\ T # {}
  OBVIOUS
<1>2. Min(T) \in T /\ \A x \in T : Min(T) <= x
  <2> HIDE DEF T
  <2> QED  BY <1>1, MinIsMember
<1>3. Min(T) \in a..(n + 1) /\ (Min(T) <= n => Min(T) \in S)
  <2>1. Min(T) \in S \/ Min(T) = n + 1
    BY <1>2
  <2>2. CASE Min(T) \in S
    <3>1. Min(T) \in a..n
      BY <2>2
    <3> QED  BY <2>2, <3>1
  <2>3. CASE Min(T) = n + 1
    <3>1. n + 1 \in a..(n + 1) /\ ~ (n + 1 <= n)
      OBVIOUS
    <3> QED  BY <2>3, <3>1
  <2> QED  BY <2>1, <2>2, <2>3
<1>4. \A i \in a..(Min(T) - 1) : i \notin S
  <2> TAKE i \in a..(Min(T) - 1)
  <2>1. ~ (Min(T) <= i)
    BY <1>3
  <2> QED  BY <1>2, <2>1
<1> QED  BY <1>3, <1>4

SetType == paths \in Seq(AllPaths) /\ covered \subseteq AllPaths

\* The entries of the vector, which are sorted.
LEMMA Entry ==
  ASSUME SetType
  PROVE  Len(paths) \in Nat /\ \A i \in 1..Len(paths) : paths[i] \in AllPaths /\ paths[i] \in Seq(Nat)
BY LenProperties, ElementOfSeq, PathsAreSequences DEF SetType

\* What is before the lower bound is smaller than p, and nothing after it is.
LEMMA LowerBoundMeans ==
  ASSUME SetType, Antichain, NEW p \in AllPaths
  PROVE  /\ LowerBound(p) \in 1..(Len(paths) + 1)
         /\ \A i \in 1..(LowerBound(p) - 1) : Less(paths[i], p)
         /\ \A i \in LowerBound(p)..Len(paths) : p = paths[i] \/ Less(p, paths[i])
<1> DEFINE S == {i \in 1..Len(paths) : ~Less(paths[i], p)}
           L == LowerBound(p)
<1>1. Len(paths) \in Nat /\ \A i \in 1..Len(paths) : paths[i] \in Seq(Nat)
  BY Entry
<1>2. p \in Seq(Nat)
  BY PathsAreSequences
<1>3. /\ L \in 1..(Len(paths) + 1) /\ (L <= Len(paths) => L \in S)
      /\ \A i \in 1..(L - 1) : i \notin S
  <2>1. S \in SUBSET (1..Len(paths)) /\ 1 \in 1..(Len(paths) + 1) /\ L = Min(S \cup {Len(paths) + 1})
    BY <1>1 DEF LowerBound
  <2> HIDE DEF S, L
  <2> QED  BY <1>1, <2>1, FirstPlace
<1>4. \A i \in 1..(L - 1) : Less(paths[i], p)
  BY <1>1, <1>3
<1>5. ASSUME NEW i \in L..Len(paths)
      PROVE  p = paths[i] \/ Less(p, paths[i])
  <2>1. i \in 1..Len(paths) /\ L \in 1..Len(paths) /\ ~ Less(paths[L], p)
    BY <1>1, <1>3
  <2>2. p = paths[L] \/ Less(p, paths[L])
    BY <1>1, <1>2, <2>1, LessTotal
  <2>3. CASE i = L
    BY <2>2, <2>3
  <2>4. CASE i # L
    <3>1. Less(paths[L], paths[i])
      BY <1>1, <1>3, <2>1, <2>4 DEF Antichain
    <3> QED  BY <1>1, <1>2, <2>1, <2>2, <3>1, LessTransitive
  <2> QED  BY <2>3, <2>4
<1> QED  BY <1>3, <1>4, <1>5

\* From the lower bound to the finish is what p subsumes.
LEMMA FinishMeans ==
  ASSUME SetType, Antichain, NEW p \in AllPaths
  PROVE  /\ Finish(p) \in LowerBound(p)..(Len(paths) + 1)
         /\ \A i \in LowerBound(p)..(Finish(p) - 1) : StartsWith(paths[i], p)
         /\ \A i \in Finish(p)..Len(paths) : ~ StartsWith(paths[i], p)
<1> DEFINE L == LowerBound(p)
           S == {i \in L..Len(paths) : ~StartsWith(paths[i], p)}
           F == Finish(p)
<1>1. Len(paths) \in Nat /\ \A i \in 1..Len(paths) : paths[i] \in Seq(Nat)
  BY Entry
<1>2. p \in Seq(Nat)
  BY PathsAreSequences
<1>3. /\ L \in 1..(Len(paths) + 1)
      /\ \A i \in L..Len(paths) : p = paths[i] \/ Less(p, paths[i])
  BY LowerBoundMeans
<1>4. /\ F \in L..(Len(paths) + 1) /\ (F <= Len(paths) => F \in S)
      /\ \A i \in L..(F - 1) : i \notin S
  <2>1. S \in SUBSET (L..Len(paths)) /\ F = Min(S \cup {Len(paths) + 1})
    BY DEF Finish
  <2> HIDE DEF S, F, L
  <2> QED  BY <1>1, <1>3, <2>1, FirstPlace
<1>5. \A i \in L..(F - 1) : StartsWith(paths[i], p)
  <2> TAKE i \in L..(F - 1)
  <2>1. i \in L..Len(paths) /\ i \notin S
    BY <1>1, <1>3, <1>4
  <2> QED  BY <2>1
<1>6. ASSUME NEW i \in F..Len(paths), StartsWith(paths[i], p)
      PROVE  FALSE
  <2>1. i \in 1..Len(paths) /\ F \in 1..Len(paths) /\ F \in L..Len(paths)
    BY <1>1, <1>3, <1>4
  <2>2. ~ StartsWith(paths[F], p) /\ (p = paths[F] \/ Less(p, paths[F]))
    BY <1>3, <1>4, <2>1
  <2>3. i # F => Less(paths[F], paths[i])
    BY <1>1, <1>4, <2>1 DEF Antichain
  <2> QED  BY <1>1, <1>2, <1>6, <2>1, <2>2, <2>3, NothingBetween
<1> QED  BY <1>4, <1>5, <1>6

\* Only the entry before the lower bound can be a parent of p.
LEMMA NoParent ==
  ASSUME SetType, Antichain, NEW p \in AllPaths, ~ HasParent(p),
         NEW i \in 1..(LowerBound(p) - 1)
  PROVE  ~ StartsWith(p, paths[i]) /\ ~ StartsWith(paths[i], p)
<1> DEFINE L == LowerBound(p)
<1>1. Len(paths) \in Nat /\ \A k \in 1..Len(paths) : paths[k] \in Seq(Nat)
  BY Entry
<1>2. p \in Seq(Nat)
  BY PathsAreSequences
<1>3. L \in 1..(Len(paths) + 1) /\ \A k \in 1..(L - 1) : Less(paths[k], p)
  BY LowerBoundMeans
<1>4. i \in 1..Len(paths) /\ L - 1 \in 1..Len(paths) /\ i <= L - 1 /\ L > 1
  BY <1>1, <1>3
<1>5. ~ StartsWith(paths[i], p)
  <2>1. Less(paths[i], p)
    BY <1>3
  <2>2. StartsWith(paths[i], p) => p = paths[i] \/ Less(p, paths[i])
    BY <1>1, <1>2, <1>4, LessMeans
  <2> QED  BY <1>1, <1>2, <1>4, <2>1, <2>2, LessTotal
<1>6. ~ StartsWith(p, paths[i])
  <2>1. CASE i = L - 1
    BY <1>4, <2>1 DEF HasParent
  <2>2. CASE i # L - 1
    <3>1. Less(paths[i], paths[L - 1]) /\ ~ StartsWith(paths[L - 1], paths[i])
      BY <1>1, <1>4, <2>2 DEF Antichain
    <3>2. Less(paths[L - 1], p)
      BY <1>3, <1>4
    <3> QED  BY <1>1, <1>2, <1>4, <3>1, <3>2, NothingBetween
  <2> QED  BY <2>1, <2>2
<1> QED  BY <1>5, <1>6

\* What insert makes of the vector when p has no parent in it: what was before
\* the lower bound, p, and what was from the finish on.
LEMMA Inserted ==
  ASSUME SetType, Antichain, NEW p \in AllPaths, ~ HasParent(p), Insert(p)
  PROVE  LET L == LowerBound(p)  F == Finish(p)
         IN  /\ paths' \in Seq(AllPaths) /\ Len(paths') = L + (Len(paths) - F + 1)
             /\ \A i \in 1..(L - 1) : paths'[i] = paths[i]
             /\ paths'[L] = p
             /\ \A i \in (L + 1)..Len(paths') : paths'[i] = paths[i - L + F - 1]
<1> DEFINE L == LowerBound(p)
           F == Finish(p)
           n == Len(paths)
           front == SubSeq(paths, 1, L - 1)
           back == SubSeq(paths, F, n)
<1>1. n \in Nat /\ \A i \in 1..n : paths[i] \in AllPaths
  BY Entry
<1>2. L \in 1..(n + 1) /\ F \in L..(n + 1)
  BY LowerBoundMeans, FinishMeans
<1>3. paths' = front \o <<p>> \o back
  BY DEF Insert
<1>4. /\ front \in Seq(AllPaths) /\ Len(front) = L - 1
      /\ \A i \in 1..(L - 1) : front[i] = paths[i]
  <2>1. \A i \in 1..(L - 1) : paths[i] \in AllPaths
    BY <1>1, <1>2
  <2> HIDE DEF L
  <2> QED  BY <1>2, <2>1, SubSeqProperties
<1>5. /\ back \in Seq(AllPaths) /\ Len(back) = n - F + 1
      /\ \A i \in 1..(n - F + 1) : back[i] = paths[F + i - 1]
  <2>1. \A i \in F..n : paths[i] \in AllPaths
    BY <1>1, <1>2
  <2>2. F \in Int /\ n \in Int
    BY <1>1, <1>2
  <2> HIDE DEF F, n
  <2>3. /\ back \in Seq(AllPaths) /\ Len(back) = IF F <= n THEN n - F + 1 ELSE 0
        /\ \A i \in 1..(n - F + 1) : back[i] = paths[F + i - 1]
    BY <2>1, <2>2, SubSeqProperties
  <2> QED  BY <1>1, <1>2, <2>3
<1>6. /\ front \o <<p>> \in Seq(AllPaths) /\ Len(front \o <<p>>) = L
      /\ \A i \in 1..(L - 1) : (front \o <<p>>)[i] = paths[i]
      /\ (front \o <<p>>)[L] = p
  <2>1. <<p>> \in Seq(AllPaths) /\ Len(<<p>>) = 1 /\ <<p>>[1] = p
    OBVIOUS
  <2> DEFINE fp == front \o <<p>>
  <2>2. /\ fp \in Seq(AllPaths) /\ Len(fp) = Len(front) + Len(<<p>>)
        /\ \A i \in 1..(Len(front) + Len(<<p>>)) :
             fp[i] = IF i <= Len(front) THEN front[i] ELSE <<p>>[i - Len(front)]
    <3> HIDE DEF front, L
    <3> QED  BY <1>4, <2>1, ConcatProperties
  <2> HIDE DEF front, L, fp
  <2>3. Len(front) + Len(<<p>>) = L /\ L \in 1..L /\ ~ (L <= Len(front)) /\ L - Len(front) = 1
    BY <1>2, <1>4, <2>1
  <2>4. \A i \in 1..(L - 1) : i \in 1..L /\ i <= Len(front)
    BY <1>2, <1>4
  <2>5. fp[L] = p
    BY <2>1, <2>2, <2>3
  <2>6. \A i \in 1..(L - 1) : fp[i] = paths[i]
    BY <1>4, <2>2, <2>3, <2>4
  <2>7. fp \in Seq(AllPaths) /\ Len(fp) = L
    BY <2>2, <2>3
  <2> QED  BY <2>5, <2>6, <2>7 DEF fp
<1>7. /\ paths' \in Seq(AllPaths) /\ Len(paths') = L + (n - F + 1)
      /\ \A i \in 1..(L + (n - F + 1)) :
           paths'[i] = IF i <= L THEN (front \o <<p>>)[i] ELSE back[i - L]
  <2> DEFINE fp == front \o <<p>>
  <2>1. fp \in Seq(AllPaths) /\ Len(fp) = L
    BY <1>6
  <2>2. paths' = fp \o back
    BY <1>3
  <2> HIDE DEF front, back, L, F, n, fp
  <2>3. /\ paths' \in Seq(AllPaths) /\ Len(paths') = L + (n - F + 1)
        /\ \A i \in 1..(L + (n - F + 1)) : paths'[i] = IF i <= L THEN fp[i] ELSE back[i - L]
    BY <1>5, <2>1, <2>2, ConcatProperties
  <2> QED  BY <2>3 DEF fp
<1>8. \A i \in (L + 1)..Len(paths') : paths'[i] = paths[i - L + F - 1]
  <2> TAKE i \in (L + 1)..Len(paths')
  <2> HIDE DEF front, back, L, F, n
  <2>1. i \in 1..(L + (n - F + 1)) /\ ~ (i <= L) /\ i - L \in 1..(n - F + 1)
    BY <1>1, <1>2, <1>7
  <2>2. paths'[i] = paths[F + (i - L) - 1]
    BY <1>5, <1>7, <2>1
  <2>3. F + (i - L) - 1 = i - L + F - 1
    BY <1>1, <1>2, <2>1
  <2> QED  BY <2>2, <2>3
<1>9. paths'[L] = p /\ \A i \in 1..(L - 1) : paths'[i] = paths[i]
  <2> DEFINE fp == front \o <<p>>
  <2>1. fp[L] = p /\ \A i \in 1..(L - 1) : fp[i] = paths[i]
    BY <1>6
  <2>2. \A i \in 1..(L + (n - F + 1)) : paths'[i] = IF i <= L THEN fp[i] ELSE back[i - L]
    BY <1>7
  <2> HIDE DEF front, back, L, F, n, fp
  <2>3. \A i \in 1..L : i \in 1..(L + (n - F + 1)) /\ i <= L
    BY <1>1, <1>2
  <2>4. L \in 1..L /\ \A i \in 1..(L - 1) : i \in 1..L
    BY <1>2
  <2> QED  BY <2>1, <2>2, <2>3, <2>4
<1> QED  BY <1>7, <1>8, <1>9

\* The places of the new vector.
LEMMA InsertedPlaces ==
  ASSUME SetType, Antichain, NEW p \in AllPaths, ~ HasParent(p), Insert(p)
  PROVE  LET L == LowerBound(p)
             F == Finish(p)
         IN  /\ L \in 1..Len(paths')
             /\ \A k \in 1..Len(paths') :
                  \/ k < L /\ k \in 1..Len(paths) /\ paths'[k] = paths[k]
                  \/ k = L /\ paths'[k] = p
                  \/ /\ k > L /\ k - L + F - 1 \in F..Len(paths)
                     /\ paths'[k] = paths[k - L + F - 1]
             /\ \A i \in 1..(L - 1) : i \in 1..Len(paths') /\ paths'[i] = paths[i]
             /\ paths'[L] = p
             /\ \A i \in F..Len(paths) :
                  i - F + 1 + L \in 1..Len(paths') /\ paths'[i - F + 1 + L] = paths[i]
<1> DEFINE L == LowerBound(p)
           F == Finish(p)
           n == Len(paths)
           m == Len(paths')
<1>1. n \in Nat
  BY Entry
<1>2. L \in 1..(n + 1) /\ F \in L..(n + 1)
  BY LowerBoundMeans, FinishMeans
<1>3. /\ m = L + (n - F + 1)
      /\ \A i \in 1..(L - 1) : paths'[i] = paths[i]
      /\ paths'[L] = p
      /\ \A i \in (L + 1)..m : paths'[i] = paths[i - L + F - 1]
  BY Inserted
<1> HIDE DEF L, F, n, m
<1>4. L \in 1..m /\ m \in Nat
  BY <1>1, <1>2, <1>3
<1>5. ASSUME NEW k \in 1..m
      PROVE  \/ k < L /\ k \in 1..n /\ paths'[k] = paths[k]
             \/ k = L /\ paths'[k] = p
             \/ k > L /\ k - L + F - 1 \in F..n /\ paths'[k] = paths[k - L + F - 1]
  <2>1. CASE k < L
    <3>1. k \in 1..(L - 1) /\ k \in 1..n
      BY <1>1, <1>2, <1>4, <2>1
    <3> QED  BY <1>3, <2>1, <3>1
  <2>2. CASE k = L
    BY <1>3, <2>2
  <2>3. CASE k > L
    <3>1. k \in (L + 1)..m /\ k - L + F - 1 \in F..n
      BY <1>1, <1>2, <1>3, <1>4, <2>3
    <3> QED  BY <1>3, <2>3, <3>1
  <2> QED  BY <1>2, <2>1, <2>2, <2>3
<1>6. \A i \in 1..(L - 1) : i \in 1..m
  BY <1>1, <1>2, <1>3
<1>7. ASSUME NEW i \in F..n
      PROVE  i - F + 1 + L \in 1..m /\ paths'[i - F + 1 + L] = paths[i]
  <2>1. i - F + 1 + L \in (L + 1)..m /\ i - F + 1 + L \in 1..m /\ (i - F + 1 + L) - L + F - 1 = i
    BY <1>1, <1>2, <1>3
  <2> QED  BY <1>3, <2>1
<1> QED  BY <1>3, <1>4, <1>5, <1>6, <1>7 DEF L, F, n, m

\* insert keeps the vector sorted and minimal.
LEMMA InsertAntichain ==
  ASSUME SetType, Antichain, NEW p \in AllPaths, ~ HasParent(p), Insert(p)
  PROVE  Antichain'
<1> DEFINE L == LowerBound(p)
           F == Finish(p)
           n == Len(paths)
           m == Len(paths')
<1>1. n \in Nat /\ \A k \in 1..n : paths[k] \in Seq(Nat)
  BY Entry
<1>2. p \in Seq(Nat)
  BY PathsAreSequences
<1>3. /\ L \in 1..(n + 1) /\ F \in L..(n + 1)
      /\ \A i \in 1..(L - 1) : Less(paths[i], p)
      /\ \A i \in L..n : p = paths[i] \/ Less(p, paths[i])
      /\ \A i \in F..n : ~ StartsWith(paths[i], p)
      /\ \A i \in 1..(L - 1) : ~ StartsWith(p, paths[i]) /\ ~ StartsWith(paths[i], p)
  BY LowerBoundMeans, FinishMeans, NoParent
<1>4. /\ L \in 1..m
      /\ \A k \in 1..m :
           \/ k < L /\ k \in 1..n /\ paths'[k] = paths[k]
           \/ k = L /\ paths'[k] = p
           \/ k > L /\ k - L + F - 1 \in F..n /\ paths'[k] = paths[k - L + F - 1]
  BY InsertedPlaces
<1>5. \A i, j \in 1..n : i < j =>
        Less(paths[i], paths[j]) /\ ~ StartsWith(paths[j], paths[i]) /\ ~ StartsWith(paths[i], paths[j])
  BY DEF Antichain
<1>6. m \in Nat
  BY LenProperties, Inserted
<1> HIDE DEF L, F, n, m
<1>7. ASSUME NEW i \in 1..m, NEW j \in 1..m, i < j
      PROVE  /\ Less(paths'[i], paths'[j])
             /\ ~ StartsWith(paths'[j], paths'[i]) /\ ~ StartsWith(paths'[i], paths'[j])
  <2> i \in Nat /\ j \in Nat /\ L \in Nat /\ F \in Nat
    BY <1>1, <1>3, <1>6
  <2>1. CASE j < L
    <3>1. i < L /\ i \in 1..n /\ j \in 1..n /\ paths'[i] = paths[i] /\ paths'[j] = paths[j]
      BY <1>4, <1>7, <2>1
    <3> QED  BY <1>5, <1>7, <3>1
  <2>2. CASE i < L /\ j = L
    <3>1. i \in 1..(L - 1) /\ paths'[i] = paths[i] /\ paths'[j] = p
      BY <1>4, <2>2
    <3> QED  BY <1>3, <3>1
  <2>3. CASE i < L /\ j > L
    <3>1. i \in 1..n /\ j - L + F - 1 \in F..n /\ paths'[i] = paths[i] /\ paths'[j] = paths[j - L + F - 1]
      BY <1>4, <2>3
    <3>2. j - L + F - 1 \in 1..n /\ i < j - L + F - 1
      BY <1>1, <1>3, <2>3, <3>1
    <3> QED  BY <1>5, <3>1, <3>2
  <2>4. CASE i = L /\ j > L
    <3>1. j - L + F - 1 \in F..n /\ paths'[i] = p /\ paths'[j] = paths[j - L + F - 1]
      BY <1>4, <2>4
    <3> DEFINE k == j - L + F - 1
    <3> HIDE DEF k
    <3>2. k \in F..n /\ k \in L..n /\ k \in 1..n /\ paths'[i] = p /\ paths'[j] = paths[k]
      BY <1>1, <1>3, <3>1 DEF k
    <3>3. ~ StartsWith(paths[k], p) /\ paths[k] \in Seq(Nat)
      BY <1>1, <1>3, <3>2
    <3>4. p # paths[k]
      BY <1>2, <3>3, StartsWithOrder
    <3>5. Less(p, paths[k])
      BY <1>3, <3>2, <3>4
    <3>6. ~ StartsWith(p, paths[k])
      BY <1>2, <3>3, <3>4, <3>5, LessMeans, LessTotal
    <3> QED  BY <3>2, <3>3, <3>5, <3>6
  <2>5. CASE i > L /\ j > L
    <3>1. /\ i - L + F - 1 \in F..n /\ paths'[i] = paths[i - L + F - 1]
          /\ j - L + F - 1 \in F..n /\ paths'[j] = paths[j - L + F - 1]
      BY <1>4, <2>5
    <3>2. i - L + F - 1 \in 1..n /\ j - L + F - 1 \in 1..n /\ i - L + F - 1 < j - L + F - 1
      BY <1>1, <1>3, <1>7, <3>1
    <3> QED  BY <1>5, <3>1, <3>2
  <2> QED  BY <1>7, <2>1, <2>2, <2>3, <2>4, <2>5
<1> QED  BY <1>7 DEF Antichain, m

\* insert keeps the set covering what was inserted.
LEMMA InsertCovers ==
  ASSUME SetType, MinimalCover, NEW p \in AllPaths, ~ HasParent(p), Insert(p)
  PROVE  covered' = {q \in AllPaths : \E i \in 1..Len(paths') : StartsWith(q, paths'[i])}
<1> DEFINE L == LowerBound(p)
           F == Finish(p)
           n == Len(paths)
           m == Len(paths')
<1>1. Antichain /\ covered = {q \in AllPaths : \E i \in 1..n : StartsWith(q, paths[i])}
      /\ covered' = covered \cup {q \in AllPaths : StartsWith(q, p)}
  BY DEF MinimalCover, Insert
<1>2. n \in Nat /\ (\A k \in 1..n : paths[k] \in Seq(Nat)) /\ p \in Seq(Nat)
  BY Entry, PathsAreSequences
<1>3. /\ L \in 1..(n + 1) /\ F \in L..(n + 1)
      /\ \A i \in L..(F - 1) : StartsWith(paths[i], p)
  BY <1>1, LowerBoundMeans, FinishMeans
<1>4. /\ L \in 1..m
      /\ \A k \in 1..m :
           \/ k < L /\ k \in 1..n /\ paths'[k] = paths[k]
           \/ k = L /\ paths'[k] = p
           \/ k > L /\ k - L + F - 1 \in F..n /\ paths'[k] = paths[k - L + F - 1]
      /\ \A i \in 1..(L - 1) : i \in 1..m /\ paths'[i] = paths[i]
      /\ paths'[L] = p
      /\ \A i \in F..n : i - F + 1 + L \in 1..m /\ paths'[i - F + 1 + L] = paths[i]
  BY <1>1, InsertedPlaces
<1> HIDE DEF L, F, n, m
<1>5. ASSUME NEW q \in covered'
      PROVE  \E k \in 1..m : StartsWith(q, paths'[k])
  <2>1. CASE StartsWith(q, p)
    BY <1>4, <2>1
  <2>2. CASE ~ StartsWith(q, p)
    <3>1. PICK i \in 1..n : StartsWith(q, paths[i])
      BY <1>1, <1>5, <2>2
    <3>2. q \in Seq(Nat)
      BY <1>1, <1>5, PathsAreSequences
    <3>3. ~ (i \in L..(F - 1))
      BY <1>2, <1>3, <2>2, <3>1, <3>2, StartsWithOrder
    <3>4. i \in 1..(L - 1) \/ i \in F..n
      BY <1>2, <1>3, <3>3
    <3> QED  BY <1>4, <3>1, <3>4
  <2> QED  BY <2>1, <2>2
<1>6. ASSUME NEW q \in AllPaths, NEW k \in 1..m, StartsWith(q, paths'[k])
      PROVE  q \in covered'
  <2>1. F \in 1..(n + 1)
    BY <1>2, <1>3
  <2>2. \A i \in F..n : i \in 1..n
    BY <1>2, <2>1
  <2>3. paths'[k] = p \/ \E i \in 1..n : paths'[k] = paths[i]
    BY <1>4, <2>2
  <2> QED  BY <1>1, <1>6, <2>3
<1>7. covered' \subseteq AllPaths
  BY <1>1
<1> QED  BY <1>5, <1>6, <1>7 DEF m

\* insert keeps the set minimal and covering.
LEMMA InsertKeeps ==
  ASSUME SetType, MinimalCover, NEW p \in AllPaths, Insert(p)
  PROVE  SetType' /\ MinimalCover'
<1>1. Antichain /\ covered = {q \in AllPaths : \E i \in 1..Len(paths) : StartsWith(q, paths[i])}
      /\ covered' = covered \cup {q \in AllPaths : StartsWith(q, p)}
  BY DEF MinimalCover, Insert
<1>2. CASE HasParent(p)
  <2>1. paths' = paths
    BY <1>2 DEF Insert
  <2>2. LowerBound(p) - 1 \in 1..Len(paths) /\ StartsWith(p, paths[LowerBound(p) - 1])
    BY <1>1, <1>2, LowerBoundMeans, Entry DEF HasParent
  <2>3. ASSUME NEW q \in AllPaths, StartsWith(q, p)
        PROVE  q \in covered
    <3>1. StartsWith(q, paths[LowerBound(p) - 1])
      BY <2>2, <2>3, Entry, PathsAreSequences, StartsWithOrder
    <3> QED  BY <1>1, <2>2, <3>1
  <2>4. covered' = covered
    BY <1>1, <2>3
  <2> QED  BY <2>1, <2>4 DEF SetType, MinimalCover, Antichain
<1>3. CASE ~ HasParent(p)
  <2>1. Antichain' /\ covered' = {q \in AllPaths : \E i \in 1..Len(paths') : StartsWith(q, paths'[i])}
    BY <1>1, <1>3, InsertAntichain, InsertCovers
  <2>2. paths' \in Seq(AllPaths) /\ covered' \subseteq AllPaths
    BY <1>1, <1>3, Inserted DEF SetType
  <2> QED  BY <2>1, <2>2 DEF SetType, MinimalCover
<1> QED  BY <1>2, <1>3

\* The empty set.
LEMMA EmptyKeeps ==
  ASSUME paths = << >>, covered = {}
  PROVE  SetType /\ MinimalCover
<1>1. Len(paths) = 0 /\ paths \in Seq(AllPaths)
  OBVIOUS
<1> QED  BY <1>1 DEF SetType, MinimalCover, Antichain

-----------------------------------------------------------------------------
(* ChangedPaths.                                                           *)

\* Of some paths one is the last in the order.
LEMMA GreatestPath ==
  ASSUME NEW S \in SUBSET AllPaths, S # {}
  PROVE  \E d \in S : \A e \in S : ~ Less(d, e)
<1> DEFINE After(x) == {e \in S : Less(x, e)}
           T == {After(x) : x \in S}
           R == StrictSubsetOrdering(S)
<1>1. IsFiniteSet(S) /\ \A x \in S : x \in Seq(Nat)
  BY PathAssumption, FS_Subset, PathsAreSequences
<1>2. T \subseteq FiniteSubsetsOf(S) /\ T # {}
  <2>1. \A x \in S : After(x) \in SUBSET S /\ IsFiniteSet(After(x))
    BY <1>1, FS_Subset
  <2> QED  BY <2>1 DEF FiniteSubsetsOf
<1>3. PICK t \in T : \A u \in T : ~ (<<u, t>> \in R)
  <2>1. IsWellFoundedOn(R, FiniteSubsetsOf(S))
    BY FS_StrictSubsetOrderingWellFounded
  <2> HIDE DEF T, R
  <2> QED  BY <1>2, <2>1, WFMin
<1>4. PICK x \in S : t = After(x)
  OBVIOUS
<1>5. ASSUME NEW e \in S, Less(x, e)
      PROVE  FALSE
  <2>1. After(e) \subseteq After(x)
    BY <1>1, <1>5, LessTransitive
  <2>2. e \in After(x) /\ e \notin After(e)
    BY <1>1, <1>5, LessTotal
  <2>3. After(e) \in T /\ After(e) # After(x)
    BY <2>2
  <2>4. <<After(e), After(x)>> \in R
    BY <2>1, <2>3 DEF StrictSubsetOrdering
  <2> QED  BY <1>3, <1>4, <2>3, <2>4
<1> QED  BY <1>5

\* The copy before a file is the innermost one around it, if there is one.
LEMMA InnermostFound ==
  ASSUME DOMAIN copies \subseteq Directories
  PROVE  InnermostCopy
<1> SUFFICES ASSUME NEW f \in Files, FindCopy(f) # NoCopy
             PROVE  \E d \in DOMAIN copies :
                      /\ StartsWith(f, d)
                      /\ \A e \in DOMAIN copies : StartsWith(f, e) => StartsWith(d, e)
                      /\ SourceOf(f) = [path |-> copies[d].directory \o SansPrefix(f, d),
                                        revision |-> copies[d].revision]
  BY DEF InnermostCopy
<1> DEFINE before == {d \in DOMAIN copies : Less(d, f)}
           last == CHOOSE d \in before : \A e \in before : ~Less(d, e)
<1>1. f \in AllPaths /\ f \notin Directories /\ DOMAIN copies \subseteq AllPaths
  BY CopyAssumption
<1>2. f \in Seq(Nat) /\ \A d \in DOMAIN copies : d \in Seq(Nat)
  BY <1>1, PathsAreSequences
<1>3. before # {} /\ StartsWith(f, last) /\ FindCopy(f) = last
  BY DEF FindCopy
<1>4. last \in before /\ \A e \in before : ~ Less(last, e)
  <2>1. \E d \in before : \A e \in before : ~ Less(d, e)
    <3>1. before \in SUBSET AllPaths
      BY <1>1
    <3> HIDE DEF before
    <3> QED  BY <1>3, <3>1, GreatestPath
  <2> QED  BY <2>1
<1>5. ASSUME NEW e \in DOMAIN copies, StartsWith(f, e)
      PROVE  StartsWith(last, e)
  <2>1. Less(e, f)
    BY <1>1, <1>2, <1>5, LessMeans
  <2>2. ~ Less(last, e) /\ last \in DOMAIN copies /\ Less(last, f)
    BY <1>4, <2>1
  <2>3. e = last \/ Less(e, last)
    BY <1>2, <2>2, LessTotal
  <2> HIDE DEF last
  <2> QED  BY <1>2, <1>5, <2>2, <2>3, NothingBetween
<1>6. SourceOf(f) = [path |-> copies[last].directory \o SansPrefix(f, last),
                     revision |-> copies[last].revision]
  BY <1>3 DEF SourceOf
<1> HIDE DEF last
<1>7. last \in DOMAIN copies
  BY <1>4
<1> QED  BY <1>3, <1>5, <1>6, <1>7

\* The invariant of ChangedPaths and its steps.
ChangesInv == SetType /\ MinimalCover /\ DOMAIN copies \subseteq Directories

LEMMA ChangesStart ==
  ASSUME ChangesInit
  PROVE  ChangesInv
BY EmptyKeeps DEF ChangesInit, Empty, ChangesInv

LEMMA NextRevisionKeeps ==
  ASSUME NextRevision
  PROVE  ChangesInv'
<1>1. paths' = << >> /\ covered' = {} /\ DOMAIN copies' = {}
  BY DEF NextRevision, Clear
<1>2. Len(<< >>) = 0 /\ << >> \in Seq(AllPaths)
  OBVIOUS
<1> QED  BY <1>1, <1>2 DEF ChangesInv, SetType, MinimalCover, Antichain

LEMMA ChangedPathKeeps ==
  ASSUME ChangesInv, ChangedPath
  PROVE  ChangesInv'
<1>1. CASE \E p \in AllPaths : ConvertPath(p)
  BY <1>1, InsertKeeps DEF ConvertPath, ChangesInv
<1>2. ASSUME NEW target \in Directories, NEW source \in Source, CopyDirectory(target, source)
      PROVE  ChangesInv'
  <2>1. target \in AllPaths
    BY CopyAssumption
  <2>2. DOMAIN copies' \subseteq Directories
    BY <1>2 DEF CopyDirectory, ChangesInv
  <2> QED  BY <1>2, <2>1, <2>2, InsertKeeps DEF CopyDirectory, ChangesInv
<1> QED  BY <1>1, <1>2 DEF ChangedPath

LEMMA ChangesUnchanged ==
  ASSUME ChangesInv, UNCHANGED changeVars
  PROVE  ChangesInv'
BY DEF ChangesInv, SetType, MinimalCover, Antichain, changeVars, pathSet

-----------------------------------------------------------------------------
(* SvnAccess: the stack and the pools.                                     *)

FrameType ==
  [fn : Functions, path : AllPaths \cup {<< >>}, pool : Seq(Owners), own : Seq(Owners),
   todo : SUBSET AllPaths]

\* What is below the top of a stack, and the top.
LEMMA FrontMeans ==
  ASSUME NEW S, NEW s \in Seq(S), s # << >>
  PROVE  /\ Len(s) \in Nat \ {0} /\ Last(s) = s[Len(s)] /\ s[Len(s)] \in S
         /\ Front(s) \in Seq(S) /\ Len(Front(s)) = Len(s) - 1
         /\ \A i \in 1..(Len(s) - 1) : Front(s)[i] = s[i]
<1>1. Len(s) \in Nat \ {0} /\ \A i \in 1..Len(s) : s[i] \in S
  BY EmptySeq, ElementOfSeq
<1>2. \A i \in 1..(Len(s) - 1) : s[i] \in S
  BY <1>1
<1>3. /\ Front(s) \in Seq(S)
      /\ Len(Front(s)) = IF 1 <= Len(s) - 1 THEN (Len(s) - 1) - 1 + 1 ELSE 0
      /\ \A i \in 1..((Len(s) - 1) - 1 + 1) : Front(s)[i] = s[1 + i - 1]
  BY <1>1, <1>2, SubSeqProperties DEF Front
<1>4. \A i \in 1..(Len(s) - 1) : Front(s)[i] = s[i]
  <2> TAKE i \in 1..(Len(s) - 1)
  <2>1. i \in 1..((Len(s) - 1) - 1 + 1) /\ 1 + i - 1 = i
    BY <1>1
  <2> QED  BY <1>3, <2>1
<1>5. Len(Front(s)) = Len(s) - 1 /\ Front(s) \in Seq(S)
  <2>1. CASE 1 <= Len(s) - 1
    <3>1. Len(Front(s)) = (Len(s) - 1) - 1 + 1
      BY <1>3, <2>1
    <3> QED  BY <1>1, <1>3, <3>1
  <2>2. CASE ~ (1 <= Len(s) - 1)
    <3>1. Len(Front(s)) = 0
      BY <1>3, <2>2
    <3>2. Len(s) = 1
      <4> DEFINE n == Len(s)
      <4>1. n \in Nat \ {0} /\ ~ (1 <= n - 1)
        BY <1>1, <2>2
      <4>2. n = 1
        <5> HIDE DEF n
        <5> QED  BY <4>1
      <4> QED  BY <4>2
    <3> QED  BY <1>3, <3>1, <3>2
  <2> QED  BY <2>1, <2>2
<1>6. Last(s) = s[Len(s)] /\ s[Len(s)] \in S
  BY <1>1 DEF Last
<1> QED  BY <1>1, <1>4, <1>5, <1>6

\* The pools of nested directories.
LEMMA DirsMeans ==
  ASSUME NEW k \in Nat \ {0}
  PROVE  /\ Dirs(k) \in Seq(Owners) /\ Len(Dirs(k)) = k
         /\ Dirs(k)[1] = "rev.pool" /\ (k > 1 => Dirs(k)[2] = "dir_pool")
         /\ Subpool(Dirs(k), "dir_pool") = Dirs(k + 1)
         /\ Dirs(k) # NoPool
<1>1. ASSUME NEW n \in Nat
      PROVE  /\ Dirs(n) \in Seq(Owners) /\ Len(Dirs(n)) = n
             /\ \A j \in 1..n : Dirs(n)[j] = IF j = 1 THEN "rev.pool" ELSE "dir_pool"
  <2>1. \A j \in 1..n : (IF j = 1 THEN "rev.pool" ELSE "dir_pool") \in Owners
    BY DEF Owners
  <2>2. Dirs(n) \in [1..n -> Owners]
    BY <2>1 DEF Dirs
  <2>3. Dirs(n) \in Seq(Owners)
    BY <2>2, SeqDef
  <2>4. Len(Dirs(n)) = n
    BY <2>2, <2>3, LenProperties
  <2> QED  BY <2>3, <2>4 DEF Dirs
<1>2. Subpool(Dirs(k), "dir_pool") = Dirs(k + 1)
  <2>1. "dir_pool" \in Owners
    BY DEF Owners
  <2>2. /\ Subpool(Dirs(k), "dir_pool") \in Seq(Owners) /\ Len(Subpool(Dirs(k), "dir_pool")) = k + 1
        /\ \A j \in 1..k : Subpool(Dirs(k), "dir_pool")[j] = Dirs(k)[j]
        /\ Subpool(Dirs(k), "dir_pool")[k + 1] = "dir_pool"
    BY <1>1, <2>1, AppendProperties DEF Subpool
  <2>3. \A j \in 1..(k + 1) : Subpool(Dirs(k), "dir_pool")[j] = Dirs(k + 1)[j]
    <3> TAKE j \in 1..(k + 1)
    <3>1. CASE j \in 1..k
      BY <1>1, <2>2, <3>1
    <3>2. CASE j = k + 1
      BY <1>1, <2>2, <3>2
    <3> QED  BY <3>1, <3>2
  <2>4. Dirs(k + 1) \in Seq(Owners) /\ Len(Dirs(k + 1)) = k + 1
    BY <1>1
  <2> QED  BY <2>2, <2>3, <2>4, SeqEqual
<1>3. Dirs(k)[1] = "rev.pool" /\ (k > 1 => Dirs(k)[2] = "dir_pool")
  BY <1>1
<1>4. NoPool[1] = "none"
  BY DEF NoPool
<1> QED  BY <1>1, <1>2, <1>3, <1>4

\* A sequence of one element.
LEMMA Single ==
  ASSUME NEW S, NEW x \in S
  PROVE  <<x>> \in Seq(S) /\ Len(<<x>>) = 1 /\ <<x>>[1] = x /\ Append(<< >>, x) = <<x>>
OBVIOUS

LEMMA RevisionScope ==
  /\ Revision = Dirs(1) /\ Scope \in Seq(Owners) /\ Len(Scope) = 2 /\ Scope[2] = "scope"
  /\ Scope # NoPool /\ Global = << >> /\ NoPool \in Seq(Owners) /\ Len(NoPool) = 1
<1>1. "rev.pool" \in Owners /\ "scope" \in Owners /\ "none" \in Owners
  BY DEF Owners
<1>2. /\ Revision \in Seq(Owners) /\ Len(Revision) = 1 /\ Revision[1] = "rev.pool"
  BY <1>1, Single DEF Revision, Subpool, Global
<1>3. Dirs(1) \in Seq(Owners) /\ Len(Dirs(1)) = 1 /\ Dirs(1)[1] = "rev.pool"
  <2>1. 1 \in Nat \ {0}
    OBVIOUS
  <2> QED  BY ONLY <2>1, DirsMeans
<1>4. Revision = Dirs(1)
  BY <1>2, <1>3, SeqEqual
<1>5. /\ Scope \in Seq(Owners) /\ Len(Scope) = 2 /\ Scope[2] = "scope"
      /\ Scope[1] = "rev.pool"
  <2>1. Scope = Append(Revision, "scope")
    BY DEF Scope, Subpool
  <2>2. /\ Append(Revision, "scope") \in Seq(Owners)
        /\ Len(Append(Revision, "scope")) = Len(Revision) + 1
        /\ \A i \in 1..Len(Revision) : Append(Revision, "scope")[i] = Revision[i]
        /\ Append(Revision, "scope")[Len(Revision) + 1] = "scope"
    BY <1>1, <1>2, AppendProperties
  <2>3. 1 \in 1..Len(Revision) /\ Len(Revision) + 1 = 2
    BY <1>2
  <2> QED  BY <1>2, <2>1, <2>2, <2>3
<1>6. NoPool \in Seq(Owners) /\ NoPool[1] = "none" /\ Len(NoPool) = 1
  BY <1>1, Single DEF NoPool
<1> QED  BY <1>4, <1>5, <1>6 DEF Global

Owns(s) == {s[i].own : i \in 1..Len(s)} \ {NoPool}

\* Every pool that is used is owned by an earlier frame.
LEMMA PoolOwned ==
  ASSUME NEW s \in Seq(FrameType), WellNested(s), NEW i \in 1..Len(s)
  PROVE  s[i].pool \in Owns(s)
<1>1. Len(s) \in Nat
  BY LenProperties
<1>2. \A k \in Nat \ {0} : Dirs(k) # NoPool
  BY DirsMeans
<1>3. CASE i = 1
  <2>1. s[1].pool = Dirs(1) /\ s[1].own = Dirs(1)
    BY <1>3, RevisionScope DEF WellNested, Placed
  <2> QED  BY <1>2, <1>3, <2>1 DEF Owns
<1>4. CASE i # 1 /\ s[i].fn \notin InCopy
  <2>1. i - 1 \in 1..Len(s) /\ i - 1 < Len(s) /\ i - 1 \in Nat \ {0}
    BY <1>1, <1>4
  <2>2. s[i].pool = Dirs(i - 1)
    BY <1>4 DEF WellNested, Placed
  <2>3. i - 1 = 1 \/ i - 1 \in 2..(i - 1)
    BY <1>1, <1>4
  <2>4. i - 1 = 1 \/ s[i - 1].fn = "entries"
    BY <1>4, <2>3 DEF WellNested, Placed
  <2>5. s[i - 1].own = Dirs(i - 1)
    BY <2>1, <2>4 DEF WellNested, Placed
  <2> QED  BY <1>2, <2>1, <2>2, <2>5 DEF Owns
<1>5. ASSUME NEW k \in 1..Len(s), s[k].fn = "svn_stream_copy3"
      PROVE  s[k].pool = Scope /\ Scope \in Owns(s)
  <2>1. k # 1 /\ s[k].pool = Scope /\ s[k - 1].fn = "copied"
    BY <1>5 DEF WellNested, Placed, Roots, InCopy
  <2>2. k - 1 \in 1..Len(s)
    BY <1>1, <2>1
  <2>3. k - 1 # 1
    BY <2>1, <2>2 DEF WellNested, Placed, Roots
  <2>4. s[k - 1].own = Scope
    BY <2>1, <2>2, <2>3 DEF WellNested, Placed
  <2> QED  BY <2>1, <2>2, <2>4, RevisionScope DEF Owns
<1>6. CASE s[i].fn = "fast_import_raw_bytes"
  <2>1. i # 1 /\ s[i].pool = Scope /\ s[i - 1].fn = "svn_stream_copy3"
    BY <1>6 DEF WellNested, Placed, Roots, InCopy
  <2>2. i - 1 \in 1..Len(s)
    BY <1>1, <2>1
  <2> QED  BY <1>5, <2>1, <2>2
<1> QED  BY <1>3, <1>4, <1>5, <1>6 DEF InCopy

\* A frame that may be called by the top of a stack.
Fits(s, frame) ==
  LET n == Len(s)
      fn == frame.fn
  IN  /\ fn \in Roots <=> n = 0
      /\ n > 0 => s[n].fn \in {"merges", "convert", "entries", "copied", "svn_stream_copy3"}
      /\ fn \notin InCopy => \A j \in 2..n : s[j].fn = "entries"
      /\ fn = "svn_stream_copy3" => s[n].fn = "copied"
      /\ fn = "fast_import_raw_bytes" => s[n].fn = "svn_stream_copy3"
      /\ frame.pool = IF n = 0 THEN Revision ELSE IF fn \in InCopy THEN Scope ELSE Dirs(n)
      /\ frame.own = IF n = 0 \/ fn = "entries" THEN Dirs(n + 1)
                     ELSE IF fn \in {"copying", "copied"} THEN Scope ELSE NoPool

LEMMA PushNested ==
  ASSUME NEW s \in Seq(FrameType), WellNested(s), NEW frame \in FrameType, Fits(s, frame)
  PROVE  WellNested(Append(s, frame))
<1> DEFINE t == Append(s, frame)
           n == Len(s)
<1>1. n \in Nat /\ Len(t) = n + 1 /\ (\A i \in 1..n : t[i] = s[i]) /\ t[n + 1] = frame
  BY AppendProperties, LenProperties
<1> HIDE DEF t, n
<1> SUFFICES ASSUME NEW i \in 1..(n + 1)
             PROVE  Placed(t, i)
  BY <1>1 DEF WellNested, t
<1>2. CASE i \in 1..n
  <2>1. t[i] = s[i] /\ \A j \in 2..(i - 1) : t[j] = s[j]
    BY <1>1, <1>2
  <2>2. i # 1 => t[i - 1] = s[i - 1]
    BY <1>1, <1>2
  <2>3. i < n \/ i = n
    BY <1>1, <1>2
  <2>4. i = n => s[i].fn \in {"merges", "convert", "entries", "copied", "svn_stream_copy3"}
    BY <1>1, <1>2 DEF Fits, n
  <2>5. s[i].fn \in InCopy => i # 1
    BY <1>2 DEF WellNested, Placed, n, Roots, InCopy
  <2> QED  BY <1>2, <2>1, <2>2, <2>3, <2>4, <2>5 DEF WellNested, Placed, n, InCopy
<1>3. CASE i = n + 1
  <2>1. t[i] = frame /\ \A j \in 2..(i - 1) : t[j] = s[j] /\ j \in 2..n
    BY <1>1, <1>3
  <2>2. frame.fn \in InCopy => n # 0
    BY DEF Fits, n, Roots, InCopy
  <2>3. n # 0 => t[i - 1] = s[n]
    BY <1>1, <1>3
  <2>4. i - 1 = n /\ (i = 1 <=> n = 0) /\ ~ (i < n + 1)
    BY <1>1, <1>3
  <2>5. /\ frame.fn \in Roots <=> i = 1
        /\ frame.fn \notin InCopy => \A j \in 2..(i - 1) : t[j].fn = "entries"
    BY <2>1, <2>4 DEF Fits, n
  <2>6. /\ frame.fn = "svn_stream_copy3" => t[i - 1].fn = "copied"
        /\ frame.fn = "fast_import_raw_bytes" => t[i - 1].fn = "svn_stream_copy3"
    BY <2>2, <2>3 DEF Fits, n, InCopy
  <2>7. frame.pool = IF i = 1 THEN Revision ELSE IF frame.fn \in InCopy THEN Scope ELSE Dirs(i - 1)
    BY <2>4 DEF Fits, n
  <2>8. frame.own = IF i = 1 \/ frame.fn = "entries" THEN Dirs(i)
                    ELSE IF frame.fn \in {"copying", "copied"} THEN Scope ELSE NoPool
    BY <1>3, <2>4 DEF Fits, n
  <2>9. Len(t) = n + 1
    BY <1>1
  <2> QED  BY <2>1, <2>4, <2>5, <2>6, <2>7, <2>8, <2>9 DEF Placed
<1> QED  BY <1>1, <1>2, <1>3

LEMMA FrontNested ==
  ASSUME NEW s \in Seq(FrameType), WellNested(s), s # << >>
  PROVE  WellNested(Front(s))
<1> DEFINE t == Front(s)
           n == Len(s)
<1>1. n \in Nat \ {0} /\ Len(t) = n - 1 /\ \A i \in 1..(n - 1) : t[i] = s[i]
  BY FrontMeans
<1> HIDE DEF t, n
<1> SUFFICES ASSUME NEW i \in 1..(n - 1)
             PROVE  Placed(t, i)
  BY <1>1 DEF WellNested, t
<1>2. i \in 1..n /\ i < n /\ t[i] = s[i] /\ \A j \in 2..(i - 1) : t[j] = s[j]
  BY <1>1
<1>3. i # 1 => t[i - 1] = s[i - 1]
  BY <1>1
<1>4. s[i].fn \in InCopy => i # 1
  BY <1>2 DEF WellNested, Placed, n, Roots, InCopy
<1> QED  BY <1>2, <1>3, <1>4 DEF WellNested, Placed, n, InCopy

\* The top of a well nested stack, and what is known of it.
LEMMA TopMeans ==
  ASSUME NEW s \in Seq(FrameType), WellNested(s), s # << >>
  PROVE  /\ Last(s) = s[Len(s)] /\ Len(s) \in Nat \ {0} /\ Last(s) \in FrameType
         /\ Placed(s, Len(s)) /\ Front(s) \in Seq(FrameType) /\ Len(Front(s)) = Len(s) - 1
         /\ \A i \in 1..(Len(s) - 1) : Front(s)[i] = s[i] /\ Placed(s, i)
<1>1. /\ Len(s) \in Nat \ {0} /\ Last(s) = s[Len(s)] /\ s[Len(s)] \in FrameType
      /\ Front(s) \in Seq(FrameType) /\ Len(Front(s)) = Len(s) - 1
      /\ \A i \in 1..(Len(s) - 1) : Front(s)[i] = s[i]
  BY FrontMeans
<1>2. Placed(s, Len(s)) /\ \A i \in 1..(Len(s) - 1) : Placed(s, i)
  BY <1>1 DEF WellNested
<1> QED  BY <1>1, <1>2

Pools(s) == {Global} \cup Owns(s)

\* Leaving a function destroys its pool and no other.
LEMMA LeavePools ==
  ASSUME NEW s \in Seq(FrameType), WellNested(s), s # << >>
  PROVE  Pools(s) \ {q \in Pools(s) : Last(s).own # NoPool /\ IsPrefix(Last(s).own, q)}
           = Pools(Front(s))
<1> DEFINE n == Len(s)
           o == s[n].own
           t == Front(s)
<1>1. /\ n \in Nat \ {0} /\ Last(s).own = o /\ Placed(s, n) /\ Len(t) = n - 1
      /\ \A i \in 1..(n - 1) : t[i] = s[i] /\ Placed(s, i)
  BY TopMeans
<1> HIDE DEF n, o, t
<1>2. Owns(s) = Owns(t) \cup ({o} \ {NoPool})
  <2>1. \A i \in 1..n : i \in 1..(n - 1) \/ i = n
    BY <1>1
  <2>2. n \in 1..n /\ \A i \in 1..(n - 1) : i \in 1..n
    BY <1>1
  <2>3. Owns(s) = {s[i].own : i \in 1..n} \ {NoPool} /\ Owns(t) = {t[i].own : i \in 1..(n - 1)} \ {NoPool}
    BY <1>1 DEF Owns, n
  <2>4. {s[i].own : i \in 1..n} = {t[i].own : i \in 1..(n - 1)} \cup {o}
    BY <1>1, <2>1, <2>2 DEF o
  <2> QED  BY <2>3, <2>4
<1>3. CASE o = NoPool
  BY <1>1, <1>2, <1>3 DEF Pools, t
<1>4. CASE o # NoPool
  <2>1. o \in Seq(Owners) /\ Len(o) > 0
    <3>1. o = Dirs(n) \/ o = Scope
      BY <1>1, <1>4 DEF Placed, o
    <3>2. Dirs(n) \in Seq(Owners) /\ Len(Dirs(n)) = n /\ n > 0
      BY <1>1, DirsMeans
    <3>3. Scope \in Seq(Owners) /\ Len(Scope) = 2
      BY RevisionScope
    <3>4. CASE o = Dirs(n)
      BY ONLY <1>1, <3>2, <3>4
    <3>5. CASE o = Scope
      <4>1. Len(o) = 2 /\ o \in Seq(Owners)
        BY ONLY <3>3, <3>5, Zenon
      <4> QED  BY ONLY <4>1
    <3> QED  BY ONLY <3>1, <3>4, <3>5
  <2>2. IsPrefix(o, o)
    BY <2>1, StartsWithMeans DEF StartsWith
  <2>3. ~ IsPrefix(o, Global)
    <3>1. Global \in Seq(Owners) /\ Len(Global) = 0
      BY EmptySeq DEF Global
    <3>2. IsPrefix(o, Global) => Len(o) <= Len(Global)
      BY <2>1, <3>1, StartsWithMeans DEF StartsWith
    <3> QED  BY <2>1, <3>1, <3>2
  <2>4. ASSUME NEW i \in 1..(n - 1), s[i].own # NoPool
        PROVE  ~ IsPrefix(o, s[i].own)
    <3>1. i \in Nat \ {0} /\ n # 1 /\ i < n /\ Placed(s, i)
      BY <1>1
    <3>2. s[n].fn \notin InCopy /\ (o = Dirs(n) \/ o = Scope)
      BY <1>1, <1>4, <3>1 DEF Placed, o, InCopy
    <3>3. i = 1 \/ s[i].fn = "entries"
      BY <1>1, <3>1, <3>2 DEF Placed
    <3>4. s[i].own = Dirs(i)
      BY <3>1, <3>3 DEF Placed
    <3>5. Dirs(i) \in Seq(Owners) /\ Len(Dirs(i)) = i /\ (i > 1 => Dirs(i)[2] = "dir_pool")
      BY <3>1, DirsMeans
    <3>6. CASE o = Dirs(n)
      <4>1. Len(o) = n
        BY <1>1, <3>6, DirsMeans
      <4> QED  BY <2>1, <3>1, <3>4, <3>5, <4>1, StartsWithMeans DEF StartsWith
    <3>7. CASE o = Scope
      <4>1. Len(o) = 2 /\ o[2] = "scope" /\ 2 \in 1..Len(o)
        BY <3>7, RevisionScope
      <4>2. SUFFICES ASSUME IsPrefix(o, Dirs(i)) PROVE FALSE
        BY <3>4
      <4>3. Len(o) <= i /\ o[2] = Dirs(i)[2]
        <5>1. Len(o) <= Len(Dirs(i)) /\ \A j \in 1..Len(o) : Dirs(i)[j] = o[j]
          BY <2>1, <3>5, <4>2, StartsWithMeans DEF StartsWith
        <5> QED  BY <3>5, <4>1, <5>1
      <4> QED  BY <3>1, <3>5, <4>1, <4>3
    <3> QED  BY <3>2, <3>6, <3>7
  <2>5. \A q \in Owns(t) : ~ IsPrefix(o, q)
    BY <1>1, <2>4 DEF Owns
  <2> QED  BY <1>1, <1>2, <1>4, <2>2, <2>3, <2>5 DEF Pools, t
<1> QED  BY <1>3, <1>4

\* A stack, and the pools of its frames.
Nested(s, pools) == s \in Seq(FrameType) /\ WellNested(s) /\ pools = Pools(s)

LEMMA PushKeeps ==
  ASSUME NEW s, NEW pools, Nested(s, pools), NEW frame \in FrameType, Fits(s, frame)
  PROVE  Nested(Append(s, frame), pools \cup ({frame.own} \ {NoPool}))
<1> DEFINE t == Append(s, frame)
           n == Len(s)
<1>1. /\ n \in Nat /\ Len(t) = n + 1 /\ t \in Seq(FrameType)
      /\ (\A i \in 1..n : t[i] = s[i]) /\ t[n + 1] = frame
  BY AppendProperties, LenProperties DEF Nested
<1>2. WellNested(t)
  BY PushNested DEF Nested
<1> HIDE DEF t, n
<1>3. {t[i].own : i \in 1..(n + 1)} = {s[i].own : i \in 1..n} \cup {frame.own}
  <2>1. \A i \in 1..(n + 1) : i \in 1..n \/ i = n + 1
    BY <1>1
  <2>2. n + 1 \in 1..(n + 1) /\ \A i \in 1..n : i \in 1..(n + 1)
    BY <1>1
  <2> QED  BY <1>1, <2>1, <2>2
<1>4. Owns(t) = {t[i].own : i \in 1..(n + 1)} \ {NoPool}
  BY <1>1 DEF Owns
<1>5. Owns(s) = {s[i].own : i \in 1..n} \ {NoPool}
  BY DEF Owns, n
<1>6. Owns(t) = Owns(s) \cup ({frame.own} \ {NoPool})
  BY <1>3, <1>4, <1>5
<1> QED  BY <1>1, <1>2, <1>6 DEF Nested, Pools, t

LEMMA LeaveKeeps ==
  ASSUME NEW s, NEW pools, Nested(s, pools), s # << >>
  PROVE  /\ Nested(Front(s), pools \ {q \in pools : Last(s).own # NoPool /\ IsPrefix(Last(s).own, q)})
         /\ Last(s).own = NoPool => Nested(Front(s), pools)
<1>1. s \in Seq(FrameType) /\ WellNested(s) /\ pools = Pools(s)
  BY DEF Nested
<1>2. Front(s) \in Seq(FrameType) /\ WellNested(Front(s))
  BY <1>1, TopMeans, FrontNested
<1>3. pools \ {q \in pools : Last(s).own # NoPool /\ IsPrefix(Last(s).own, q)} = Pools(Front(s))
  BY <1>1, LeavePools
<1>4. Last(s).own = NoPool => pools = Pools(Front(s))
  BY <1>3
<1> QED  BY <1>2, <1>3, <1>4 DEF Nested

\* What may take the place of the top of a stack.
Replaces(frame, top) ==
  /\ frame.pool = top.pool
  /\ \/ {frame.fn, top.fn} \subseteq Roots /\ frame.own = top.own
     \/ {frame.fn, top.fn} \subseteq Walking /\ frame.own = NoPool
     \/ frame.fn = "entries" /\ top.fn = "entries" /\ frame.own = top.own
     \/ frame.fn = "entries" /\ top.fn = "dir" /\ frame.own = Subpool(top.pool, "dir_pool")
     \/ frame.fn = "copying" /\ top.fn = "file" /\ frame.own = Scope
     \/ frame.fn = "copied" /\ top.fn = "copying" /\ frame.own = top.own

LEMMA BecomeKeeps ==
  ASSUME NEW s, NEW pools, Nested(s, pools), s # << >>,
         NEW frame \in FrameType, Replaces(frame, Last(s))
  PROVE  Nested(Append(Front(s), frame), pools \cup ({frame.own} \ {NoPool}))
<1> DEFINE n == Len(s)
           t == Front(s)
           top == s[n]
<1>1. s \in Seq(FrameType) /\ WellNested(s) /\ pools = Pools(s)
  BY DEF Nested
<1>2. /\ n \in Nat \ {0} /\ Last(s) = top /\ Placed(s, n) /\ Len(t) = n - 1
      /\ \A i \in 1..(n - 1) : t[i] = s[i] /\ Placed(s, i)
  BY <1>1, TopMeans
<1> HIDE DEF n, t, top
<1>3. /\ frame.fn \in Roots <=> n = 1
      /\ {frame.fn, top.fn} \cap InCopy = {}
      /\ frame.pool = IF n = 1 THEN Revision ELSE Dirs(n - 1)
  BY <1>2 DEF Replaces, Placed, Roots, Walking, InCopy, top
<1>4. /\ n - 1 > 0 => t[n - 1].fn \in {"merges", "convert", "entries", "copied", "svn_stream_copy3"}
      /\ \A j \in 2..(n - 1) : t[j].fn = "entries"
  <2>1. n - 1 > 0 => n - 1 \in 1..(n - 1) /\ n - 1 < n
    BY <1>2
  <2>2. \A j \in 2..(n - 1) : t[j] = s[j] /\ s[j].fn = "entries"
    BY <1>2, <1>3 DEF Placed, top
  <2>3. n - 1 > 0 => t[n - 1] = s[n - 1] /\ Placed(s, n - 1)
    BY <1>2, <2>1
  <2> QED  BY <2>1, <2>2, <2>3 DEF Placed, n
<1>5. /\ frame.own = IF n = 1 \/ frame.fn = "entries" THEN Dirs(n)
                     ELSE IF frame.fn \in {"copying", "copied"} THEN Scope ELSE NoPool
      /\ top.own \in {NoPool, frame.own}
  <2>1. CASE {frame.fn, top.fn} \subseteq Roots /\ frame.own = top.own
    BY <1>2, <1>3, <2>1 DEF Placed, top
  <2>2. CASE {frame.fn, top.fn} \subseteq Walking /\ frame.own = NoPool
    BY <1>2, <1>3, <2>2 DEF Placed, Walking, Roots, top
  <2>3. CASE frame.fn = "entries" /\ top.fn = "entries" /\ frame.own = top.own
    BY <1>2, <2>3 DEF Placed, top
  <2>4. CASE frame.fn = "entries" /\ top.fn = "dir" /\ frame.own = Subpool(top.pool, "dir_pool")
    <3>1. n # 1 /\ top.own = NoPool /\ top.pool = Dirs(n - 1)
      BY <1>2, <2>4 DEF Placed, Roots, InCopy, top
    <3>2. n - 1 \in Nat \ {0} /\ (n - 1) + 1 = n
      BY <1>2, <3>1
    <3>3. Subpool(Dirs(n - 1), "dir_pool") = Dirs(n)
      BY <3>2, DirsMeans
    <3> QED  BY <2>4, <3>1, <3>3
  <2>5. CASE frame.fn = "copying" /\ top.fn = "file" /\ frame.own = Scope
    BY <1>2, <1>3, <2>5 DEF Placed, Roots, top
  <2>6. CASE frame.fn = "copied" /\ top.fn = "copying" /\ frame.own = top.own
    BY <1>2, <1>3, <2>6 DEF Placed, Roots, top
  <2> QED  BY <1>2, <2>1, <2>2, <2>3, <2>4, <2>5, <2>6 DEF Replaces
<1>6. Fits(t, frame)
  <2>1. frame.fn \notin InCopy /\ "svn_stream_copy3" \in InCopy /\ "fast_import_raw_bytes" \in InCopy
    BY <1>3 DEF InCopy
  <2>2. (n - 1 = 0 <=> n = 1) /\ (n - 1) + 1 = n
    BY <1>2
  <2> QED  BY <1>2, <1>3, <1>4, <1>5, <2>1, <2>2 DEF Fits
<1>7. CASE top.own = NoPool
  BY <1>2, <1>6, <1>7, LeaveKeeps, PushKeeps DEF t
<1>8. CASE top.own # NoPool
  <2> DEFINE less == pools \ {q \in pools : top.own # NoPool /\ IsPrefix(top.own, q)}
  <2>1. Nested(t, less) /\ frame.own = top.own
    BY <1>2, <1>5, <1>8, LeaveKeeps DEF t
  <2>2. Nested(Append(t, frame), less \cup ({frame.own} \ {NoPool}))
    BY <1>6, <2>1, PushKeeps
  <2>3. less \cup ({frame.own} \ {NoPool}) = pools \cup ({frame.own} \ {NoPool})
    <3>1. Pools(s) = Pools(t) \cup ({top.own} \ {NoPool})
      <4>1. \A i \in 1..n : i \in 1..(n - 1) \/ i = n
        BY <1>2
      <4>2. n \in 1..n /\ \A i \in 1..(n - 1) : i \in 1..n
        BY <1>2
      <4>3. {s[i].own : i \in 1..n} = {t[i].own : i \in 1..(n - 1)} \cup {top.own}
        BY <1>2, <4>1, <4>2 DEF top
      <4> QED  BY <1>2, <4>3 DEF Pools, Owns, n
    <3>2. less = Pools(t)
      BY <2>1 DEF Nested
    <3> QED  BY <1>1, <2>1, <3>1, <3>2
  <2> QED  BY <2>2, <2>3 DEF t
<1> QED  BY <1>7, <1>8

\* What was put on a stack is its top.
LEMMA LastOfAppend ==
  ASSUME NEW S, NEW s \in Seq(S), NEW x \in S
  PROVE  /\ Append(s, x) \in Seq(S) /\ Append(s, x) # << >> /\ Last(Append(s, x)) = x
         /\ Front(Append(s, x)) = s /\ Len(Append(s, x)) = Len(s) + 1
<1> DEFINE t == Append(s, x)
<1>1. /\ Len(s) \in Nat /\ t \in Seq(S) /\ Len(t) = Len(s) + 1 /\ t[Len(s) + 1] = x
      /\ \A i \in 1..Len(s) : t[i] = s[i]
  BY AppendProperties, LenProperties
<1> HIDE DEF t
<1>2. t # << >>
  BY <1>1, EmptySeq
<1>3. /\ Last(t) = t[Len(t)] /\ Front(t) \in Seq(S) /\ Len(Front(t)) = Len(t) - 1
      /\ \A i \in 1..(Len(t) - 1) : Front(t)[i] = t[i]
  BY <1>1, <1>2, FrontMeans
<1>4. Front(t) = s
  <2>1. Len(Front(t)) = Len(s) /\ \A i \in 1..Len(s) : Front(t)[i] = s[i]
    BY <1>1, <1>3
  <2> QED  BY <1>3, <2>1, SeqEqual
<1> QED  BY <1>1, <1>2, <1>3, <1>4 DEF t

\* What holds of the stack and of the pools between two steps.
PoolInv ==
  /\ stack \in Seq(FrameType) /\ WellNested(stack)
  /\ stack # << >> => phase \in {"running", "throwing"}
  /\ live = IF phase = "out" THEN {} ELSE Pools(stack)
  /\ phase \in {"out", "running", "throwing", "caught", "aborted"}
  /\ exception \in {"std", "other"}
  /\ phase = "throwing" /\ stack # << >> => Top.fn # "svn_stream_copy3"

\* Steps of the same shape.
LEMMA PoolsKept ==
  ASSUME PoolInv, stack # << >>, Top.fn # "svn_stream_copy3", UNCHANGED <<stack, live>>,
         phase' \in {"running", "throwing"}, exception' \in {"std", "other"}
  PROVE  PoolInv'
<1>1. phase # "out" /\ phase' # "out"
  BY DEF PoolInv
<1>2. Top' = Top /\ Pools(stack)' = Pools(stack) /\ WellNested(stack)' = WellNested(stack)
  BY DEF Top
<1> QED  BY <1>1, <1>2 DEF PoolInv

LEMMA PoolsLeft ==
  ASSUME PoolInv, stack # << >>, Leave,
         phase' \in {"running", "throwing"}, exception' \in {"std", "other"},
         phase' = "throwing" => Top.fn # "fast_import_raw_bytes"
  PROVE  PoolInv'
<1>1. Nested(stack, live) /\ phase # "out" /\ phase' # "out"
  BY DEF PoolInv, Nested
<1>2. Nested(stack', live')
  <2>1. stack' = Front(stack)
        /\ live' = live \ {q \in live : Last(stack).own # NoPool /\ IsPrefix(Last(stack).own, q)}
    BY DEF Leave, Destroyed, Top
  <2> QED  BY <1>1, <2>1, LeaveKeeps
<1>3. ASSUME phase' = "throwing", stack' # << >>, Last(stack').fn = "svn_stream_copy3"
      PROVE  FALSE
  <2> DEFINE n == Len(stack)
  <2>1. /\ n \in Nat \ {0} /\ Placed(stack, n) /\ Last(stack) = stack[n]
        /\ Len(stack') = n - 1 /\ stack' \in Seq(FrameType)
        /\ \A i \in 1..(n - 1) : stack'[i] = stack[i] /\ Placed(stack, i)
    BY <1>1, TopMeans DEF Nested, Leave
  <2>2. Last(stack') = stack'[n - 1] /\ n - 1 \in Nat \ {0}
    BY <1>3, <2>1, FrontMeans
  <2> HIDE DEF n
  <2>3. stack[n - 1].fn = "svn_stream_copy3" /\ Placed(stack, n - 1)
    BY <1>3, <2>1, <2>2
  <2>4. n - 1 # 1
    BY <2>3 DEF Placed, Roots
  <2>5. n - 1 \in 2..(n - 1)
    BY <2>1, <2>2, <2>4
  <2>6. stack[n].fn \in InCopy
    BY <2>1, <2>3, <2>5 DEF Placed
  <2>7. stack[n].fn # "fast_import_raw_bytes"
    BY <1>3, <2>1 DEF Top
  <2>8. stack[n].fn = "svn_stream_copy3"
    BY <2>6, <2>7 DEF InCopy
  <2> QED  BY <2>1, <2>3, <2>8 DEF Placed
<1>4. /\ stack' \in Seq(FrameType) /\ WellNested(stack)' /\ live' = Pools(stack)'
  BY <1>2 DEF Nested
<1>5. phase' = "throwing" /\ stack' # << >> => Top.fn' # "svn_stream_copy3"
  BY <1>3 DEF Top
<1> QED  BY <1>1, <1>4, <1>5 DEF PoolInv

LEMMA PoolsPushed ==
  ASSUME NEW s, NEW pools, Nested(s, pools), NEW frame \in FrameType, Fits(s, frame),
         stack' = Append(s, frame), live' = pools \cup ({frame.own} \ {NoPool}),
         phase' \in {"running", "throwing"}, exception' \in {"std", "other"},
         phase' = "throwing" => frame.fn # "svn_stream_copy3"
  PROVE  PoolInv'
<1>1. Nested(stack', live')
  BY PushKeeps
<1>2. Last(stack') = frame
  BY LastOfAppend DEF Nested
<1>3. /\ stack' \in Seq(FrameType) /\ WellNested(stack)' /\ live' = Pools(stack)'
  BY <1>1 DEF Nested
<1>4. phase' = "throwing" /\ stack' # << >> => Top.fn' # "svn_stream_copy3"
  BY <1>2 DEF Top
<1> QED  BY <1>3, <1>4 DEF PoolInv

\* The pool that a frame owns exists.
LEMMA OwnExists ==
  ASSUME NEW s, NEW pools, Nested(s, pools), s # << >>
  PROVE  pools \cup ({Last(s).own} \ {NoPool}) = pools
<1>1. Len(s) \in 1..Len(s) /\ Last(s) = s[Len(s)]
  BY TopMeans DEF Nested
<1> QED  BY <1>1 DEF Nested, Pools, Owns

LEMMA PoolsReplaced ==
  ASSUME PoolInv, stack # << >>, NEW frame \in FrameType, Replaces(frame, Top), Become(frame),
         \/ live' = live \cup {frame.own} /\ frame.own # NoPool
         \/ live' = live /\ frame.own \in {NoPool, Top.own},
         phase' \in {"running", "throwing"}, exception' \in {"std", "other"}
  PROVE  PoolInv'
<1>1. Nested(stack, live) /\ phase # "out" /\ phase' # "out"
  BY DEF PoolInv, Nested
<1>2. Nested(Append(Front(stack), frame), live \cup ({frame.own} \ {NoPool}))
  BY <1>1, BecomeKeeps DEF Top
<1>3. live' = live \cup ({frame.own} \ {NoPool})
  BY <1>1, OwnExists DEF Top
<1>4. stack' = Append(Front(stack), frame)
  BY DEF Become
<1>5. Last(stack') = frame
  <2>1. Front(stack) \in Seq(FrameType)
    BY <1>1, TopMeans DEF Nested
  <2> QED  BY <1>4, <2>1, LastOfAppend
<1>6. frame.fn # "svn_stream_copy3"
  BY DEF Replaces, Roots, Walking
<1>7. /\ stack' \in Seq(FrameType) /\ WellNested(stack)' /\ live' = Pools(stack)'
  BY <1>2, <1>3, <1>4 DEF Nested
<1>8. Top.fn' # "svn_stream_copy3"
  BY <1>5, <1>6 DEF Top
<1> QED  BY <1>1, <1>7, <1>8 DEF PoolInv

LEMMA TopType ==
  ASSUME PoolInv, stack # << >>
  PROVE  /\ Nested(stack, live) /\ Top \in FrameType
         /\ Top.fn \in Functions /\ Top.path \in AllPaths \cup {<< >>}
         /\ Top.pool \in Seq(Owners) /\ Top.own \in Seq(Owners) /\ Top.todo \in SUBSET AllPaths
<1>1. Nested(stack, live)
  BY DEF PoolInv, Nested
<1>2. Top \in FrameType
  BY <1>1, TopMeans DEF Nested, Top
<1> QED  BY <1>1, <1>2 DEF FrameType

\* A frame made of the top one.
Made(top, fn, own, todo) == [top EXCEPT !.fn = fn, !.own = own, !.todo = todo]

LEMMA FrameIs ==
  ASSUME NEW top \in FrameType, NEW fn \in Functions, NEW own \in Seq(Owners),
         NEW todo \in SUBSET AllPaths
  PROVE  LET frame == Made(top, fn, own, todo)
         IN  /\ frame \in FrameType /\ frame.fn = fn /\ frame.own = own
             /\ frame.todo = todo /\ frame.pool = top.pool /\ frame.path = top.path
<1> DEFINE frame == [top EXCEPT !.fn = fn, !.own = own, !.todo = todo]
<1>1. /\ DOMAIN top = {"fn", "path", "pool", "own", "todo"}
      /\ top.path \in AllPaths \cup {<< >>} /\ top.pool \in Seq(Owners)
  BY DEF FrameType
<1>2. /\ frame.fn = fn /\ frame.own = own /\ frame.todo = todo
      /\ frame.pool = top.pool /\ frame.path = top.path
  BY <1>1
<1>3. frame \in FrameType
  BY DEF FrameType
<1>4. frame = Made(top, fn, own, todo)
  BY DEF Made
<1> HIDE DEF frame
<1> QED  BY <1>2, <1>3, <1>4

LEMMA FrameMade ==
  ASSUME NEW top \in FrameType, NEW fn \in Functions, NEW own \in Seq(Owners),
         NEW todo \in SUBSET AllPaths
  PROVE  /\ [top EXCEPT !.fn = fn] = [top EXCEPT !.fn = fn, !.own = top.own, !.todo = top.todo]
         /\ [top EXCEPT !.fn = fn, !.todo = todo] = [top EXCEPT !.fn = fn, !.own = top.own, !.todo = todo]
         /\ [top EXCEPT !.fn = fn, !.own = own] = [top EXCEPT !.fn = fn, !.own = own, !.todo = top.todo]
         /\ [top EXCEPT !.todo = todo] = [top EXCEPT !.fn = top.fn, !.own = top.own, !.todo = todo]
<1>1. /\ DOMAIN top = {"fn", "path", "pool", "own", "todo"}
      /\ top.path \in AllPaths \cup {<< >>} /\ top.pool \in Seq(Owners)
  BY DEF FrameType
<1>4. [top EXCEPT !.fn = fn] = [top EXCEPT !.fn = fn, !.own = top.own, !.todo = top.todo]
  BY <1>1
<1>5. [top EXCEPT !.fn = fn, !.todo = todo] = [top EXCEPT !.fn = fn, !.own = top.own, !.todo = todo]
  BY <1>1
<1>6. [top EXCEPT !.fn = fn, !.own = own] = [top EXCEPT !.fn = fn, !.own = own, !.todo = top.todo]
  BY <1>1
<1>7. [top EXCEPT !.todo = todo] = [top EXCEPT !.fn = top.fn, !.own = top.own, !.todo = todo]
  BY <1>1
<1> QED  BY <1>4, <1>5, <1>6, <1>7

LEMMA PathsToSet ==
  ASSUME ChangesInv
  PROVE  ToSet(paths) = {paths[i] : i \in 1..Len(paths)} /\ ToSet(paths) \in SUBSET AllPaths
<1>1. paths \in Seq(AllPaths)
  BY DEF ChangesInv, SetType
<1>2. DOMAIN paths = 1..Len(paths) /\ \A i \in 1..Len(paths) : paths[i] \in AllPaths
  BY <1>1, LenProperties, ElementOfSeq
<1> QED  BY <1>2 DEF ToSet

LEMMA PoolInit ==
  ASSUME Init
  PROVE  PoolInv
<1>1. stack = << >> /\ << >> \in Seq(FrameType) /\ Len(<< >>) = 0
  BY DEF Init
<1> QED  BY <1>1 DEF Init, PoolInv, WellNested

\* The steps of the process.
LEMMA PoolsOfProcess ==
  ASSUME PoolInv, OpenRepository \/ Terminate \/ OpenRevision
  PROVE  PoolInv'
<1>1. ASSUME NEW s, s = << >>
      PROVE  s \in Seq(FrameType) /\ Len(s) = 0 /\ WellNested(s) /\ Pools(s) = {Global}
  <2>1. s \in Seq(FrameType) /\ Len(s) = 0
    BY <1>1
  <2> QED  BY <2>1 DEF WellNested, Pools, Owns
<1>2. CASE OpenRepository
  <2>1. phase = "out" /\ stack = << >> /\ stack' = stack /\ live' = {Global}
        /\ phase' \in {"running", "throwing"} /\ exception' \in {"std", "other"}
    BY <1>2 DEF OpenRepository, CheckSvn, PoolInv
  <2> QED  BY <1>1, <2>1 DEF PoolInv
<1>3. CASE Terminate
  <2>1. stack = << >> /\ stack' = stack /\ live' = {} /\ phase' = "out" /\ exception' = exception
    BY <1>3 DEF Terminate, PoolInv
  <2> QED  BY <1>1, <2>1 DEF PoolInv
<1>4. CASE OpenRevision
  <2> DEFINE frame == Frame("opening", << >>, Revision, Revision, {})
  <2>1. /\ stack = << >> /\ phase = "running" /\ phase' = phase /\ exception' = exception
        /\ stack' = Append(stack, frame) /\ live' = live \cup {Revision}
    BY <1>4 DEF OpenRevision, Push
  <2>2. Nested(stack, live)
    BY <2>1 DEF PoolInv, Nested
  <2>3. Revision \in Seq(Owners) /\ Revision = Dirs(1) /\ Revision # NoPool
    <3>1. 1 \in Nat \ {0}
      OBVIOUS
    <3>2. Revision = Dirs(1)
      BY RevisionScope
    <3> QED  BY <3>1, <3>2, DirsMeans
  <2>4. frame \in FrameType
    BY <2>3 DEF Frame, FrameType, Functions, Roots
  <2>5. Fits(stack, frame)
    <3>1. Len(stack) = 0 /\ Len(stack) + 1 = 1
      BY <2>1, <1>1
    <3> QED  BY <2>3, <3>1 DEF Fits, Frame, Roots, InCopy
  <2>6. live' = live \cup ({frame.own} \ {NoPool}) /\ exception' \in {"std", "other"}
    BY <2>1, <2>3 DEF Frame, PoolInv
  <2> HIDE DEF frame
  <2> QED  BY <2>1, <2>2, <2>4, <2>5, <2>6, PoolsPushed
<1> QED  BY <1>2, <1>3, <1>4

\* The steps that leave the stack as it is, or leave a function.
LEMMA PoolsOfLeaving ==
  ASSUME PoolInv, Change \/ EndRevision \/ EndDirectory \/ SkipFile \/ WriteBytes
                    \/ EndCopy \/ EndFile
  PROVE  PoolInv'
<1>1. exception \in {"std", "other"}
  BY DEF PoolInv
<1>2. CASE Change
  BY <1>1, <1>2, PoolsKept DEF Change, Running, CheckSvn, Succeeds
<1>3. CASE EndRevision \/ EndDirectory \/ EndFile
  BY <1>1, <1>3, PoolsLeft DEF EndRevision, EndDirectory, EndFile, Running
<1>4. CASE SkipFile
  BY <1>1, <1>4, PoolsLeft DEF SkipFile, Running
<1>5. CASE WriteBytes
  BY <1>1, <1>5, PoolsKept, PoolsLeft DEF WriteBytes, Running, Succeeds
<1>6. CASE EndCopy
  BY <1>1, <1>6, PoolsLeft DEF EndCopy, Running, Call, Succeeds, CheckSvn
<1> QED  BY <1>2, <1>3, <1>4, <1>5, <1>6

\* The steps that go on in the same function.
LEMMA PoolsOfGoingOn ==
  ASSUME PoolInv, ChangesInv,
         ReadProperties \/ BeginMerges \/ BeginPass \/ CheckPath \/ ReadDirectory \/ OpenFile
  PROVE  PoolInv'
<1>1. exception \in {"std", "other"}
  BY DEF PoolInv
<1>2. stack # << >> /\ phase = "running"
  BY DEF ReadProperties, BeginMerges, BeginPass, CheckPath, ReadDirectory, OpenFile, Running
<1>3. /\ Top \in FrameType /\ Top.path \in AllPaths \cup {<< >>} /\ Top.pool \in Seq(Owners)
      /\ Top.own \in Seq(Owners) /\ Top.todo \in SUBSET AllPaths
  BY <1>2, TopType
<1>4. ASSUME NEW fn \in Roots, NEW todo \in SUBSET AllPaths, Top.fn \in Roots,
             Become([Top EXCEPT !.fn = fn, !.own = Top.own, !.todo = todo]),
             live' = live, phase' = "running", exception' = exception
      PROVE  PoolInv'
  <2> DEFINE frame == [Top EXCEPT !.fn = fn, !.own = Top.own, !.todo = todo]
  <2>1. fn \in Functions
    BY DEF Functions
  <2>0. frame = Made(Top, fn, Top.own, todo)
    BY DEF Made
  <2> HIDE DEF frame
  <2>2. frame \in FrameType /\ frame.fn = fn /\ frame.own = Top.own /\ frame.pool = Top.pool
    BY <1>3, <2>0, <2>1, FrameIs
  <2>3. Replaces(frame, Top) /\ Become(frame)
    BY <1>4, <2>2 DEF Replaces, frame
  <2> QED  BY <1>1, <1>2, <1>4, <2>2, <2>3, PoolsReplaced
<1>5. CASE ReadProperties
  <2>1. CASE Become([Top EXCEPT !.fn = "changes"]) /\ Succeeds
    <3>1. "changes" \in Roots /\ "changes" \in Functions /\ Top.fn \in Roots
      BY <1>5 DEF ReadProperties, Running, Roots, Functions
    <3>2. Become([Top EXCEPT !.fn = "changes", !.own = Top.own, !.todo = Top.todo])
      BY <1>3, <2>1, <3>1, FrameMade
    <3> QED  BY <1>2, <1>3, <1>4, <1>5, <2>1, <3>1, <3>2 DEF ReadProperties, Succeeds
  <2>2. CASE CheckSvn /\ stack' = stack
    BY <1>2, <1>5, <2>2, PoolsKept DEF ReadProperties, Running, CheckSvn
  <2> QED  BY <1>5, <2>1, <2>2 DEF ReadProperties
<1>6. CASE BeginMerges
  <2>1. /\ "merges" \in Roots /\ "merges" \in Functions /\ Top.fn \in Roots
        /\ DOMAIN copies \in SUBSET AllPaths
    BY <1>6, CopyAssumption DEF BeginMerges, Running, Roots, Functions, ChangesInv
  <2>2. Become([Top EXCEPT !.fn = "merges", !.own = Top.own, !.todo = DOMAIN copies])
    BY <1>3, <1>6, <2>1, FrameMade DEF BeginMerges
  <2> QED  BY <1>2, <1>4, <1>6, <2>1, <2>2 DEF BeginMerges
<1>7. CASE BeginPass
  <2>1. /\ "convert" \in Roots /\ "convert" \in Functions /\ Top.fn \in Roots
        /\ ToSet(paths) \in SUBSET AllPaths
    BY <1>7, PathsToSet DEF BeginPass, Running, Roots, Functions
  <2>2. Become([Top EXCEPT !.fn = "convert", !.own = Top.own, !.todo = ToSet(paths)])
    BY <1>3, <1>7, <2>1, FrameMade DEF BeginPass
  <2> QED  BY <1>2, <1>4, <1>7, <2>1, <2>2 DEF BeginPass
<1>8. CASE CheckPath
  <2>1. Top.fn = "walk"
    BY <1>8 DEF CheckPath, Running
  <2>2. CASE Leave /\ Succeeds
    BY <1>1, <1>2, <2>1, <2>2, PoolsLeft DEF Succeeds
  <2>3. ASSUME NEW fn \in {"file", "dir"}, Become([Top EXCEPT !.fn = fn]), Call, live' = live
        PROVE  PoolInv'
    <3> DEFINE frame == [Top EXCEPT !.fn = fn, !.own = Top.own, !.todo = Top.todo]
    <3>1. fn \in Functions /\ fn \in Walking /\ Top.fn \in Walking
      BY <2>1 DEF Functions, Walking
    <3>0. frame = Made(Top, fn, Top.own, Top.todo)
      BY DEF Made
    <3>3. Become(frame)
      BY <1>3, <2>3, <3>1, FrameMade
    <3> HIDE DEF frame
    <3>2. frame \in FrameType /\ frame.fn = fn /\ frame.own = Top.own /\ frame.pool = Top.pool
      BY <1>3, <3>0, <3>1, FrameIs
    <3>4. Top.own = NoPool
      <4>1. Placed(stack, Len(stack)) /\ Top = stack[Len(stack)]
        BY <1>2, TopType, TopMeans DEF Nested, Top
      <4> QED  BY <2>1, <4>1 DEF Placed, Roots
    <3>5. Replaces(frame, Top)
      BY <3>1, <3>2, <3>4 DEF Replaces
    <3>6. phase' \in {"running", "throwing"} /\ exception' \in {"std", "other"}
      BY <1>1, <1>2, <2>3 DEF Call, Succeeds, CheckSvn
    <3> QED  BY <1>2, <2>3, <3>2, <3>3, <3>5, <3>6, PoolsReplaced
  <2> QED  BY <1>8, <2>2, <2>3 DEF CheckPath
<1>9. CASE ReadDirectory
  <2> DEFINE pool == Subpool(Top.pool, "dir_pool")
             frame == [Top EXCEPT !.fn = "entries", !.own = pool, !.todo = Entries(Top.path)]
  <2>1. /\ Top.fn = "dir" /\ live' = live \cup {pool} /\ Become(frame) /\ Call
    BY <1>9 DEF ReadDirectory, Running
  <2>2. "entries" \in Functions /\ pool \in Seq(Owners) /\ Entries(Top.path) \in SUBSET AllPaths
    <3>1. "dir_pool" \in Owners
      BY DEF Owners
    <3>2. pool \in Seq(Owners)
      BY <1>3, <3>1, AppendProperties DEF Subpool
    <3> QED  BY <3>2 DEF Entries, Functions
  <2>0. frame = Made(Top, "entries", pool, Entries(Top.path))
    BY DEF Made
  <2> HIDE DEF frame
  <2>3. frame \in FrameType /\ frame.fn = "entries" /\ frame.own = pool /\ frame.pool = Top.pool
    BY <1>3, <2>0, <2>2, FrameIs
  <2>4. pool # NoPool
    <3>1. Len(pool) = Len(Top.pool) + 1 /\ pool[Len(Top.pool) + 1] = "dir_pool"
          /\ Len(Top.pool) \in Nat
      BY <1>3, <2>2, AppendProperties, LenProperties DEF Subpool, Owners
    <3>2. SUFFICES ASSUME pool = NoPool PROVE FALSE
      OBVIOUS
    <3>3. Len(pool) = 1 /\ pool[1] = "none"
      BY <3>2, RevisionScope DEF NoPool
    <3>4. Len(Top.pool) + 1 = 1
      BY <3>1, <3>3
    <3> QED  BY <3>1, <3>3, <3>4
  <2> HIDE DEF pool
  <2>5. Replaces(frame, Top)
    BY <2>1, <2>3 DEF Replaces, pool
  <2>6. phase' \in {"running", "throwing"} /\ exception' \in {"std", "other"}
    BY <1>1, <1>2, <2>1 DEF Call, Succeeds, CheckSvn
  <2> QED  BY <1>2, <2>1, <2>3, <2>4, <2>5, <2>6, PoolsReplaced
<1>10. CASE OpenFile
  <2>1. CASE CheckSvn /\ UNCHANGED <<stack, live>>
    BY <1>2, <1>10, <2>1, PoolsKept DEF OpenFile, Running, CheckSvn
  <2>2. CASE ~ (CheckSvn /\ UNCHANGED <<stack, live>>)
    <3> DEFINE frame == [Top EXCEPT !.fn = "copying", !.own = Scope, !.todo = Top.todo]
    <3>1. "copying" \in Functions /\ Scope \in Seq(Owners) /\ Scope # NoPool
      BY RevisionScope DEF Functions
    <3>0. [Top EXCEPT !.fn = "copying", !.own = Scope] = frame
      BY <1>3, <3>1, FrameMade
    <3>9. frame = Made(Top, "copying", Scope, Top.todo)
      BY DEF Made
    <3> HIDE DEF frame
    <3>2. frame \in FrameType /\ frame.fn = "copying" /\ frame.own = Scope /\ frame.pool = Top.pool
      BY <1>3, <3>1, <3>9, FrameIs
    <3>3. Top.fn = "file" /\ live' = live \cup {Scope} /\ Become(frame) /\ Call
      BY <1>10, <2>2, <3>0 DEF OpenFile, Running, Scope
    <3>4. Replaces(frame, Top)
      BY <3>2, <3>3 DEF Replaces
    <3>5. phase' \in {"running", "throwing"} /\ exception' \in {"std", "other"}
      BY <1>1, <1>2, <3>3 DEF Call, Succeeds, CheckSvn
    <3> QED  BY <1>2, <3>1, <3>2, <3>3, <3>4, <3>5, PoolsReplaced
  <2> QED  BY <2>1, <2>2
<1> QED  BY <1>5, <1>6, <1>7, <1>8, <1>9, <1>10

\* A function called by the top of a stack.
LEMMA CalleeFits ==
  ASSUME NEW s, NEW pools, Nested(s, pools), s # << >>, NEW path, NEW top, top = Last(s)
  PROVE  /\ top.fn \in {"merges", "convert"} => Fits(s, Frame("walk", path, Revision, NoPool, {}))
         /\ top.fn = "entries" => Fits(s, Frame("walk", path, top.own, NoPool, {}))
         /\ top.fn = "copied" => Fits(s, Frame("svn_stream_copy3", path, top.own, NoPool, {}))
         /\ top.fn = "svn_stream_copy3" =>
              Fits(s, Frame("fast_import_raw_bytes", path, top.pool, NoPool, {}))
<1> DEFINE n == Len(s)
<1>1. n \in Nat \ {0} /\ top = s[n] /\ Placed(s, n)
  BY TopMeans DEF Nested
<1> HIDE DEF n
<1>2. n \in 2..n <=> n # 1
  BY <1>1
<1>3. top.fn \notin InCopy => \A j \in 2..n : j = n \/ s[j].fn = "entries"
  <2>1. \A j \in 2..n : j = n \/ j \in 2..(n - 1)
    BY <1>1
  <2> QED  BY <1>1, <2>1 DEF Placed
<1>4. CASE top.fn \in {"merges", "convert"}
  <2>1. n = 1
    BY <1>1, <1>4 DEF Placed, Roots
  <2>2. \A j \in 2..n : s[j].fn = "entries"
    BY <2>1
  <2>3. Revision = Dirs(n)
    BY <2>1, RevisionScope
  <2> QED  BY <1>1, <1>4, <2>1, <2>2, <2>3 DEF Fits, Frame, Roots, InCopy, n
<1>5. CASE top.fn = "entries"
  <2>1. top.own = Dirs(n)
    BY <1>1, <1>5 DEF Placed
  <2>2. \A j \in 2..n : s[j].fn = "entries"
    BY <1>1, <1>3, <1>5 DEF InCopy
  <2> QED  BY <1>1, <1>5, <2>1, <2>2 DEF Fits, Frame, Roots, InCopy, n
<1>6. CASE top.fn = "copied"
  <2>1. n # 1 /\ top.own = Scope
    BY <1>1, <1>6 DEF Placed, Roots
  <2> QED  BY <1>1, <1>6, <2>1 DEF Fits, Frame, Roots, InCopy, n
<1>7. CASE top.fn = "svn_stream_copy3"
  <2>1. n # 1 /\ top.pool = Scope
    BY <1>1, <1>7 DEF Placed, Roots, InCopy
  <2> QED  BY <1>1, <1>7, <2>1 DEF Fits, Frame, Roots, InCopy, n
<1> QED  BY <1>4, <1>5, <1>6, <1>7

LEMMA FrameIsFrame ==
  ASSUME NEW fn \in Functions, NEW path \in AllPaths \cup {<< >>}, NEW pool \in Seq(Owners)
  PROVE  LET frame == Frame(fn, path, pool, NoPool, {})
         IN  /\ frame \in FrameType /\ frame.fn = fn /\ frame.own = NoPool
             /\ frame.path = path /\ frame.pool = pool /\ frame.todo = {}
<1>1. NoPool \in Seq(Owners)
  BY RevisionScope
<1> QED  BY <1>1 DEF Frame, FrameType

\* The top goes on as another one and calls a function.
LEMMA PoolsCalled ==
  ASSUME PoolInv, stack # << >>, phase = "running", NEW frame \in FrameType,
         Replaces(frame, Top), frame.own = Top.own,
         NEW callee \in FrameType, callee.own = NoPool,
         \A s : Nested(s, live) /\ s # << >> /\ Last(s) = frame => Fits(s, callee),
         stack' = Append(Append(Front(stack), frame), callee),
         UNCHANGED <<live, phase, exception>>
  PROVE  PoolInv'
<1> DEFINE s == Append(Front(stack), frame)
<1>1. Nested(stack, live) /\ Front(stack) \in Seq(FrameType)
  BY TopType, TopMeans DEF Nested
<1>2. Nested(s, live)
  <2>1. Nested(s, live \cup ({frame.own} \ {NoPool}))
    BY <1>1, BecomeKeeps DEF Top
  <2>2. live \cup ({frame.own} \ {NoPool}) = live
    BY <1>1, OwnExists DEF Top
  <2> QED  BY <2>1, <2>2
<1>3. s # << >> /\ Last(s) = frame
  BY <1>1, LastOfAppend
<1> HIDE DEF s
<1>4. Fits(s, callee) /\ stack' = Append(s, callee)
  BY <1>2, <1>3 DEF s
<1>5. live' = live \cup ({callee.own} \ {NoPool})
  BY <1>1
<1>6. phase' = "running" /\ exception' \in {"std", "other"}
  BY DEF PoolInv
<1> QED  BY <1>2, <1>4, <1>5, <1>6, PoolsPushed

LEMMA PoolsOfCalls ==
  ASSUME PoolInv, ChangesInv, WalkTree \/ NextEntry \/ CopyStream \/ ReadBytes
  PROVE  PoolInv'
<1>1. stack # << >> /\ phase = "running" /\ UNCHANGED <<live, phase, exception>>
  BY DEF WalkTree, NextEntry, CopyStream, ReadBytes, Running
<1>2. /\ Top \in FrameType /\ Top.path \in AllPaths \cup {<< >>} /\ Top.pool \in Seq(Owners)
      /\ Top.own \in Seq(Owners) /\ Top.todo \in SUBSET AllPaths /\ Nested(stack, live)
      /\ Top.fn \in Functions
  BY <1>1, TopType
<1>3. ASSUME NEW path \in AllPaths, NEW pool \in Seq(Owners), Walk(path, pool),
             \/ Top.fn \in {"merges", "convert"} /\ pool = Revision
             \/ Top.fn = "entries" /\ pool = Top.own
      PROVE  PoolInv'
  <2> DEFINE frame == [Top EXCEPT !.fn = Top.fn, !.own = Top.own, !.todo = Top.todo \ {path}]
             callee == Frame("walk", path, pool, NoPool, {})
  <2>1. [Top EXCEPT !.todo = @ \ {path}] = frame
    BY <1>2, FrameMade
  <2>2. frame = Made(Top, Top.fn, Top.own, Top.todo \ {path})
    BY DEF Made
  <2>3. stack' = Append(Append(Front(stack), frame), callee)
    BY <1>3, <2>1 DEF Walk
  <2> HIDE DEF frame
  <2>4. /\ frame \in FrameType /\ frame.fn = Top.fn /\ frame.own = Top.own
        /\ frame.pool = Top.pool
    BY <1>2, <2>2, FrameIs
  <2>5. "walk" \in Functions
    BY DEF Functions, Walking
  <2>6. callee \in FrameType /\ callee.own = NoPool
    BY <2>5, FrameIsFrame
  <2>7. \A s : Nested(s, live) /\ s # << >> /\ Last(s) = frame => Fits(s, callee)
    BY <1>3, <2>4, CalleeFits
  <2> HIDE DEF callee
  <2>8. Replaces(frame, Top)
    BY <1>3, <2>4 DEF Replaces, Roots
  <2> QED  BY <1>1, <2>3, <2>4, <2>6, <2>7, <2>8, PoolsCalled
<1>4. CASE WalkTree
  <2>1. PICK root \in Top.todo : Walk(root, Revision)
    BY <1>4 DEF WalkTree
  <2>2. Top.fn \in {"merges", "convert"} /\ root \in AllPaths
    BY <1>2, <1>4 DEF WalkTree, Running
  <2>3. Revision \in Seq(Owners)
    <3>1. 1 \in Nat \ {0}
      OBVIOUS
    <3> QED  BY <3>1, RevisionScope, DirsMeans
  <2> QED  BY <1>3, <2>1, <2>2, <2>3
<1>5. CASE NextEntry
  <2>1. PICK path \in Top.todo : Walk(path, Top.own)
    BY <1>5 DEF NextEntry
  <2>2. Top.fn = "entries" /\ path \in AllPaths
    BY <1>2, <1>5 DEF NextEntry, Running
  <2> QED  BY <1>2, <1>3, <2>1, <2>2
<1>6. CASE CopyStream
  <2> DEFINE frame == [Top EXCEPT !.fn = "copied", !.own = Top.own, !.todo = Top.todo]
             callee == Frame("svn_stream_copy3", Top.path, Top.own, NoPool, {})
  <2>1. "copied" \in Functions /\ "svn_stream_copy3" \in Functions
    BY DEF Functions, InCopy
  <2>2. frame = Made(Top, "copied", Top.own, Top.todo)
    BY DEF Made
  <2>3. stack' = Append(Append(Front(stack), frame), callee) /\ Top.fn = "copying"
    <3>1. [Top EXCEPT !.fn = "copied"] = frame
      BY <1>2, <2>1, FrameMade
    <3> QED  BY <1>6, <3>1 DEF CopyStream, Running
  <2> HIDE DEF frame
  <2>4. /\ frame \in FrameType /\ frame.fn = "copied" /\ frame.own = Top.own
        /\ frame.pool = Top.pool
    BY <1>2, <2>1, <2>2, FrameIs
  <2>5. callee \in FrameType /\ callee.own = NoPool
    BY <1>2, <2>1, FrameIsFrame
  <2>6. \A s : Nested(s, live) /\ s # << >> /\ Last(s) = frame => Fits(s, callee)
    BY <2>4, CalleeFits
  <2> HIDE DEF callee
  <2>7. Replaces(frame, Top)
    BY <2>3, <2>4 DEF Replaces
  <2> QED  BY <1>1, <2>3, <2>4, <2>5, <2>6, <2>7, PoolsCalled
<1>7. CASE ReadBytes
  <2> DEFINE callee == Frame("fast_import_raw_bytes", Top.path, Top.pool, NoPool, {})
  <2>0. "fast_import_raw_bytes" \in Functions
    BY DEF Functions, InCopy
  <2>1. Top.path \in AllPaths \cup {<< >>} /\ Top.pool \in Seq(Owners)
    BY <1>2
  <2>2. callee \in FrameType /\ callee.own = NoPool
    BY ONLY <2>0, <2>1, FrameIsFrame
  <2>3. Top.fn = "svn_stream_copy3" /\ stack' = Append(stack, callee)
    BY <1>7 DEF ReadBytes, Running, Push
  <2>4. Fits(stack, callee)
    BY <1>1, <1>2, <2>3, CalleeFits DEF Top
  <2> HIDE DEF callee
  <2>5. live' = live \cup ({callee.own} \ {NoPool}) /\ phase' = "running"
        /\ exception' \in {"std", "other"}
    BY <1>1, <2>2 DEF PoolInv
  <2> QED  BY <1>2, <2>2, <2>3, <2>4, <2>5, PoolsPushed
<1> QED  BY <1>4, <1>5, <1>6, <1>7

\* The steps of an exception.
LEMMA PoolsOfThrowing ==
  ASSUME PoolInv, CatchInCallback \/ Unwind
  PROVE  PoolInv'
<1>1. phase = "throwing" /\ exception \in {"std", "other"}
  BY DEF PoolInv, CatchInCallback, Unwind
<1>2. CASE CatchInCallback
  <2> DEFINE n == Len(stack)
             s == Front(stack)
  <2>1. /\ stack # << >> /\ Top.fn = "fast_import_raw_bytes" /\ stack' = Front(s)
        /\ phase' = "throwing" /\ exception' = "std" /\ live' = live
    BY <1>2 DEF CatchInCallback, CheckSvn
  <2>2. /\ Nested(stack, live) /\ n \in Nat \ {0} /\ Top = stack[n] /\ Placed(stack, n)
        /\ s \in Seq(FrameType) /\ Len(s) = n - 1
        /\ \A i \in 1..(n - 1) : s[i] = stack[i] /\ Placed(stack, i)
    BY <2>1, TopType, TopMeans DEF Nested, Top
  <2> HIDE DEF n, s
  <2>3. n # 1 /\ Top.own = NoPool /\ stack[n - 1].fn = "svn_stream_copy3"
    BY <2>1, <2>2 DEF Placed, Roots
  <2>4. n - 1 \in 1..(n - 1) /\ n - 1 \in Nat \ {0}
    BY <2>2, <2>3
  <2>5. s # << >> /\ Last(s) = stack[n - 1]
    BY <2>2, <2>4, FrontMeans, EmptySeq DEF Last
  <2>6. Placed(stack, n - 1)
    BY <2>2, <2>4
  <2>7. /\ n - 1 # 1 /\ Last(s).own = NoPool /\ stack[(n - 1) - 1].fn = "copied"
    BY <2>3, <2>5, <2>6 DEF Placed, Roots
  <2>8. Nested(s, live)
    BY <2>1, <2>2, <2>3, LeaveKeeps DEF s, Top
  <2>9. Nested(stack', live')
    BY <2>1, <2>5, <2>7, <2>8, LeaveKeeps
  <2>10. Last(stack').fn = "copied"
    <3>0. n \in Nat /\ n - 1 # 0 /\ n - 1 # 1 /\ n # 0
      BY <2>2, <2>4, <2>7
    <3>1. (n - 1) - 1 \in 1..((n - 1) - 1) /\ (n - 1) - 1 \in Nat \ {0}
      BY <3>0
    <3>2. /\ Len(stack') = (n - 1) - 1 /\ stack'[(n - 1) - 1] = s[(n - 1) - 1]
      BY <2>1, <2>2, <2>5, <3>1, FrontMeans
    <3>3. s[(n - 1) - 1] = stack[(n - 1) - 1]
      BY <2>2, <2>4, <3>1
    <3> QED  BY <2>7, <3>2, <3>3 DEF Last
  <2>11. /\ stack' \in Seq(FrameType) /\ WellNested(stack)' /\ live' = Pools(stack)'
    BY <2>9 DEF Nested
  <2>12. Top.fn' # "svn_stream_copy3"
    BY <2>10 DEF Top
  <2> QED  BY <2>1, <2>11, <2>12 DEF PoolInv
<1>3. CASE Unwind
  <2>1. CASE stack = << >>
    <3>1. stack' = stack /\ live' = live /\ phase' \in {"caught", "aborted"} /\ exception' = exception
      BY <1>3, <2>1 DEF Unwind
    <3>2. WellNested(stack)' = WellNested(stack) /\ Pools(stack)' = Pools(stack)
      BY <3>1
    <3> QED  BY <1>1, <2>1, <3>1, <3>2 DEF PoolInv
  <2>2. CASE stack # << >>
    <3>1. Top.fn # "fast_import_raw_bytes" /\ Leave /\ phase' = phase /\ exception' = exception
      BY <1>1, <1>3, <2>2 DEF Unwind, CaughtAsError
    <3> QED  BY <1>1, <2>2, <3>1, PoolsLeft
  <2> QED  BY <2>1, <2>2
<1> QED  BY <1>2, <1>3

LEMMA PoolStep ==
  ASSUME PoolInv, ChangesInv, [Next]_vars
  PROVE  PoolInv'
<1>1. CASE Next
  BY <1>1, PoolsOfProcess, PoolsOfLeaving, PoolsOfGoingOn, PoolsOfCalls, PoolsOfThrowing DEF Next
<1>2. CASE UNCHANGED vars
  <2>1. UNCHANGED <<stack, live, phase, exception>>
    BY <1>2 DEF vars, svnVars
  <2>2. WellNested(stack)' = WellNested(stack) /\ Pools(stack)' = Pools(stack) /\ Top' = Top
    BY <2>1 DEF Top
  <2> QED  BY <2>1, <2>2 DEF PoolInv
<1> QED  BY <1>1, <1>2

\* The steps of what was collected from the changed paths.
LEMMA ChangesStep ==
  ASSUME ChangesInv, [Next]_vars
  PROVE  ChangesInv'
<1>1. NextRevision \/ ChangedPath \/ UNCHANGED changeVars
  BY DEF Next, vars, OpenRepository, Terminate, OpenRevision, ReadProperties, Change, BeginMerges,
         BeginPass, EndRevision, WalkTree, CheckPath, ReadDirectory, NextEntry, EndDirectory,
         SkipFile, OpenFile, CopyStream, ReadBytes, WriteBytes, CatchInCallback, EndCopy,
         EndFile, Unwind
<1> QED  BY <1>1, NextRevisionKeeps, ChangedPathKeeps, ChangesUnchanged

-----------------------------------------------------------------------------
(* SvnAccess: the files that a pass reaches.                               *)

\* What a frame has still to reach.
LEMMA PendingMeans ==
  ASSUME NEW frame
  PROVE  /\ frame.fn \in {"convert", "entries"} => Pending(frame) = frame.todo
         /\ frame.fn \in Walking => Pending(frame) = {frame.path}
         /\ frame.fn \notin {"convert", "entries"} \cup Walking => Pending(frame) = {}
<1>1. CASE frame.fn \in {"convert", "entries"}
  BY <1>1 DEF Pending, Walking
<1>2. CASE frame.fn \in Walking
  BY <1>2 DEF Pending, Walking
<1>3. CASE frame.fn \notin {"convert", "entries"} \cup Walking
  BY <1>3 DEF Pending, Walking
<1> QED  BY <1>1, <1>2, <1>3 DEF Walking

\* What is still to be reached after a call.
LEMMA OpenOfAppend ==
  ASSUME NEW s \in Seq(FrameType), NEW frame \in FrameType
  PROVE  /\ Open(Append(s, frame)) = Open(s) \cup Pending(frame)
         /\ Disjoint(Append(s, frame)) <=> Disjoint(s) /\ Open(s) \cap Pending(frame) = {}
<1> DEFINE t == Append(s, frame)
           n == Len(s)
<1>1. n \in Nat /\ Len(t) = n + 1 /\ (\A i \in 1..n : t[i] = s[i]) /\ t[n + 1] = frame
  BY AppendProperties, LenProperties
<1> HIDE DEF t, n
<1>2. /\ \A i \in 1..(n + 1) : i \in 1..n \/ i = n + 1
      /\ n + 1 \in 1..(n + 1) /\ \A i \in 1..n : i \in 1..(n + 1) /\ i # n + 1
  BY <1>1
<1>3. \A p : (\E i \in 1..(n + 1) : p \in Pending(t[i]))
               <=> (\E i \in 1..n : p \in Pending(s[i])) \/ p \in Pending(frame)
  BY <1>1, <1>2
<1>4. \A p : p \in Open(s) <=> \E i \in 1..n : p \in Pending(s[i])
  BY DEF Open, n
<1>5. \A p : p \in Open(t) <=> \E i \in 1..(n + 1) : p \in Pending(t[i])
  BY <1>1 DEF Open
<1>6. Open(t) = Open(s) \cup Pending(frame)
  BY <1>3, <1>4, <1>5
<1>7. Disjoint(s) <=> \A i, j \in 1..n : i # j => Pending(s[i]) \cap Pending(s[j]) = {}
  BY DEF Disjoint, n
<1>8. Disjoint(t) <=> \A i, j \in 1..(n + 1) : i # j => Pending(t[i]) \cap Pending(t[j]) = {}
  BY <1>1 DEF Disjoint
<1>9. ASSUME Disjoint(t)
      PROVE  Disjoint(s) /\ Open(s) \cap Pending(frame) = {}
  <2>1. Disjoint(s)
    BY <1>1, <1>2, <1>7, <1>8, <1>9
  <2>2. \A i \in 1..n : Pending(s[i]) \cap Pending(frame) = {}
    BY <1>1, <1>2, <1>8, <1>9
  <2> QED  BY <1>4, <2>1, <2>2
<1>10. ASSUME Disjoint(s), Open(s) \cap Pending(frame) = {}
       PROVE  Disjoint(t)
  <2>1. \A i \in 1..n : Pending(s[i]) \cap Pending(frame) = {}
    BY <1>4, <1>10
  <2>2. ASSUME NEW i \in 1..(n + 1), NEW j \in 1..(n + 1), i # j
        PROVE  Pending(t[i]) \cap Pending(t[j]) = {}
    <3>1. CASE i \in 1..n /\ j \in 1..n
      BY <1>1, <1>7, <1>10, <2>2, <3>1
    <3>2. CASE i = n + 1
      BY <1>1, <1>2, <2>1, <2>2, <3>2
    <3>3. CASE j = n + 1
      BY <1>1, <1>2, <2>1, <2>2, <3>3
    <3> QED  BY <1>2, <3>1, <3>2, <3>3
  <2> QED  BY <1>8, <2>2
<1> QED  BY <1>6, <1>9, <1>10 DEF t

\* A stack is its top on what is below.
LEMMA FrontAndLast ==
  ASSUME NEW s \in Seq(FrameType), s # << >>
  PROVE  /\ Front(s) \in Seq(FrameType) /\ Last(s) \in FrameType
         /\ s = Append(Front(s), Last(s))
         /\ Open(s) = Open(Front(s)) \cup Pending(Last(s))
         /\ Disjoint(s) <=> Disjoint(Front(s)) /\ Open(Front(s)) \cap Pending(Last(s)) = {}
<1> DEFINE n == Len(s)
           t == Append(Front(s), Last(s))
<1>1. /\ n \in Nat \ {0} /\ Last(s) = s[n] /\ s[n] \in FrameType /\ Front(s) \in Seq(FrameType)
      /\ Len(Front(s)) = n - 1 /\ \A i \in 1..(n - 1) : Front(s)[i] = s[i]
  BY FrontMeans
<1>2. /\ t \in Seq(FrameType) /\ Len(t) = Len(Front(s)) + 1
      /\ \A i \in 1..Len(Front(s)) : t[i] = Front(s)[i]
      /\ t[Len(Front(s)) + 1] = Last(s)
  BY <1>1, AppendProperties
<1> HIDE DEF t
<1>3. Len(t) = n /\ \A i \in 1..n : t[i] = s[i]
  <2>1. (n - 1) + 1 = n /\ \A i \in 1..n : i \in 1..(n - 1) \/ i = n
    BY <1>1
  <2> QED  BY <1>1, <1>2, <2>1
<1>4. s = t
  BY <1>2, <1>3, SeqEqual
<1>5. /\ Open(t) = Open(Front(s)) \cup Pending(Last(s))
      /\ Disjoint(t) <=> Disjoint(Front(s)) /\ Open(Front(s)) \cap Pending(Last(s)) = {}
  BY ONLY <1>1, OpenOfAppend DEF t
<1>6. t = Append(Front(s), Last(s))
  BY DEF t
<1> QED  BY ONLY <1>1, <1>4, <1>5, <1>6

\* The function at the bottom.
LEMMA BottomMeans ==
  ASSUME NEW s \in Seq(FrameType), s # << >>
  PROVE  /\ Head(s) = s[1]
         /\ \A frame \in FrameType : Head(Append(s, frame)) = Head(s)
         /\ Front(s) # << >> => Head(Front(s)) = Head(s)
         /\ Front(s) = << >> => Head(s) = Last(s) /\ Len(s) = 1
<1>1. Len(s) \in Nat \ {0}
  BY EmptySeq
<1>2. Head(s) = s[1]
  OBVIOUS
<1>3. ASSUME NEW frame \in FrameType
      PROVE  Head(Append(s, frame)) = Head(s)
  <2>1. Append(s, frame) \in Seq(FrameType) /\ Append(s, frame) # << >>
    BY LastOfAppend
  <2>2. 1 \in 1..Len(s)
    BY <1>1
  <2>3. Append(s, frame)[1] = s[1]
    BY <2>2, AppendProperties
  <2>4. Head(Append(s, frame)) = Append(s, frame)[1]
    BY ONLY <2>1
  <2> QED  BY <1>2, <2>3, <2>4
<1>4. Front(s) \in Seq(FrameType) /\ Last(s) \in FrameType /\ s = Append(Front(s), Last(s))
  BY FrontAndLast
<1>5. ASSUME Front(s) # << >>
      PROVE  Head(Front(s)) = Head(s)
  <2>1. Len(s) - 1 \in Nat \ {0} /\ Front(s)[1] = s[1]
    <3>1. Len(Front(s)) = Len(s) - 1 /\ Len(Front(s)) \in Nat \ {0}
      BY <1>4, <1>5, FrontMeans, EmptySeq
    <3>2. 1 \in 1..(Len(s) - 1)
      BY <3>1
    <3> QED  BY <3>1, <3>2, FrontMeans
  <2>2. Head(Front(s)) = Front(s)[1]
    BY ONLY <1>4, <1>5
  <2> QED  BY <1>2, <2>1, <2>2
<1>6. ASSUME Front(s) = << >>
      PROVE  Head(s) = Last(s) /\ Len(s) = 1
  <2>1. Len(Front(s)) = Len(s) - 1 /\ Len(Front(s)) = 0 /\ Last(s) = s[Len(s)]
    BY <1>6, FrontMeans
  <2>2. Len(s) = 1
    BY <1>1, <2>1
  <2> QED  BY <1>2, <2>1, <2>2
<1> QED  BY <1>2, <1>3, <1>5, <1>6

\* The root is the only frame of its kind.
LEMMA RootMeans ==
  ASSUME PoolInv, stack # << >>
  PROVE  /\ Top.fn \in Roots <=> Front(stack) = << >>
         /\ Head(stack).fn \in Roots
<1>1. /\ stack \in Seq(FrameType) /\ WellNested(stack)
  BY DEF PoolInv
<1>2. /\ Len(stack) \in Nat \ {0} /\ Top = stack[Len(stack)] /\ Placed(stack, Len(stack))
      /\ Front(stack) \in Seq(FrameType) /\ Len(Front(stack)) = Len(stack) - 1
  BY <1>1, TopMeans DEF Top
<1>3. Front(stack) = << >> <=> Len(stack) = 1
  BY <1>2, EmptySeq
<1>4. Top.fn \in Roots <=> Len(stack) = 1
  BY <1>2 DEF Placed
<1>5. 1 \in 1..Len(stack) /\ Head(stack) = stack[1]
  BY <1>1, <1>2, BottomMeans
<1>6. Head(stack).fn \in Roots
  BY <1>1, <1>5 DEF WellNested, Placed
<1> QED  BY <1>3, <1>4, <1>6

\* The entries of a directory are what is right below it.
LEMMA EntriesMean ==
  ASSUME NEW path \in AllPaths
  PROVE  /\ \A e \in Entries(path) : e \in AllPaths /\ StartsWith(e, path)
         /\ \A e \in Entries(path), q \in AllPaths :
              StartsWith(e, q) => q = e \/ StartsWith(path, q)
         /\ \A e, d \in Entries(path) : StartsWith(e, d) => e = d
         /\ \A q \in AllPaths : StartsWith(q, path) /\ q # path =>
              \E e \in Entries(path) : StartsWith(q, e)
<1>1. path \in Seq(Nat) /\ Len(path) \in Nat
  BY PathsAreSequences, LenProperties
<1>2. ASSUME NEW e \in Entries(path)
      PROVE  /\ e \in AllPaths /\ e \in Seq(Nat) /\ Len(e) = Len(path) + 1
             /\ \A i \in 1..Len(path) : e[i] = path[i]
  <2>1. e \in AllPaths /\ e # << >> /\ Front(e) = path /\ e \in Seq(Nat)
    BY PathsAreSequences DEF Entries
  <2>2. /\ Len(e) \in Nat \ {0} /\ Len(Front(e)) = Len(e) - 1
        /\ \A i \in 1..(Len(e) - 1) : Front(e)[i] = e[i]
    BY <2>1, FrontMeans
  <2>3. Len(path) = Len(e) - 1 /\ \A i \in 1..(Len(e) - 1) : path[i] = e[i]
    BY <2>1, <2>2
  <2>4. Len(e) = Len(path) + 1 /\ \A i \in 1..Len(path) : e[i] = path[i]
    BY <2>2, <2>3
  <2> QED  BY <2>1, <2>4
<1>3. ASSUME NEW e \in Entries(path)
      PROVE  e \in AllPaths /\ StartsWith(e, path)
  BY <1>1, <1>2, StartsWithMeans
<1>4. ASSUME NEW e \in Entries(path), NEW q \in AllPaths, StartsWith(e, q)
      PROVE  q = e \/ StartsWith(path, q)
  <2>1. q \in Seq(Nat) /\ Len(q) \in Nat
    BY PathsAreSequences, LenProperties
  <2>2. Len(q) <= Len(e) /\ \A i \in 1..Len(q) : e[i] = q[i]
    BY <1>2, <1>4, <2>1, StartsWithMeans
  <2>3. CASE Len(q) = Len(e)
    BY <1>2, <2>1, <2>2, <2>3, SeqEqual
  <2>4. CASE Len(q) # Len(e)
    <3>1. Len(q) <= Len(path)
      BY <1>1, <1>2, <2>1, <2>2, <2>4
    <3>2. \A i \in 1..Len(q) : path[i] = q[i]
      <4> TAKE i \in 1..Len(q)
      <4>1. i \in 1..Len(path)
        BY <1>1, <2>1, <3>1
      <4> QED  BY <1>2, <2>2, <4>1
    <3> QED  BY <1>1, <2>1, <3>1, <3>2, StartsWithMeans
  <2> QED  BY <2>3, <2>4
<1>5. ASSUME NEW e \in Entries(path), NEW d \in Entries(path), StartsWith(e, d)
      PROVE  e = d
  <2>1. \A i \in 1..Len(d) : e[i] = d[i]
    BY <1>2, <1>5, StartsWithMeans
  <2>2. Len(e) = Len(d) /\ e \in Seq(Nat) /\ d \in Seq(Nat)
    BY <1>2
  <2> QED  BY <2>1, <2>2, SeqEqual
<1>6. ASSUME NEW q \in AllPaths, StartsWith(q, path), q # path
      PROVE  \E e \in Entries(path) : StartsWith(q, e)
  <2> DEFINE n == Len(path) + 1
             e == SubSeq(q, 1, n)
  <2>1. q \in Seq(Nat) /\ Len(q) \in Nat
    BY PathsAreSequences, LenProperties
  <2>2. Len(path) <= Len(q) /\ \A i \in 1..Len(path) : q[i] = path[i]
    BY <1>1, <1>6, <2>1, StartsWithMeans
  <2>3. Len(path) # Len(q)
    BY <1>1, <1>6, <2>1, <2>2, SeqEqual
  <2>4. n \in 1..Len(q) /\ n \in 0..Len(q)
    BY <1>1, <2>1, <2>2, <2>3
  <2>5. e \in AllPaths
    BY <2>4, SvnTreeAssumption
  <2>6. \A i \in 1..n : q[i] \in Nat
    BY <2>1, <2>4, ElementOfSeq
  <2>7. /\ e \in Seq(Nat) /\ Len(e) = n
        /\ \A i \in 1..n : e[i] = q[i]
    <3>1. /\ e \in Seq(Nat)
          /\ Len(e) = IF 1 <= n THEN n - 1 + 1 ELSE 0
          /\ \A i \in 1..(n - 1 + 1) : e[i] = q[1 + i - 1]
      BY <2>1, <2>4, <2>6, SubSeqProperties
    <3>2. Len(e) = n
      BY <1>1, <3>1
    <3>3. \A i \in 1..n : i \in 1..(n - 1 + 1) /\ 1 + i - 1 = i
      BY <1>1
    <3> QED  BY <3>1, <3>2, <3>3
  <2> HIDE DEF e
  <2>8. e # << >>
    BY <1>1, <2>7, EmptySeq
  <2>9. Front(e) = path
    <3>1. /\ Front(e) \in Seq(Nat) /\ Len(Front(e)) = Len(e) - 1
          /\ \A i \in 1..(Len(e) - 1) : Front(e)[i] = e[i]
      BY <2>7, <2>8, FrontMeans
    <3>2. Len(e) - 1 = Len(path) /\ \A i \in 1..Len(path) : i \in 1..n
      BY <1>1, <2>7
    <3>3. Len(Front(e)) = Len(path) /\ \A i \in 1..Len(Front(e)) : Front(e)[i] = path[i]
      BY <2>2, <2>7, <3>1, <3>2
    <3> QED  BY <1>1, <3>1, <3>3, SeqEqual
  <2>10. StartsWith(q, e)
    <3>1. Len(e) <= Len(q) /\ \A i \in 1..Len(e) : q[i] = e[i]
      BY <2>4, <2>7
    <3> QED  BY <2>1, <2>7, <3>1, StartsWithMeans
  <2>11. e \in Entries(path)
    BY <2>5, <2>8, <2>9 DEF Entries
  <2> QED  BY <2>10, <2>11
<1> QED  BY <1>3, <1>4, <1>5, <1>6

\* What is below a path in CVSROOT is in CVSROOT.
LEMMA InCvsRootBelow ==
  ASSUME NEW p \in AllPaths, NEW q \in AllPaths, StartsWith(q, p), InCvsRoot(p)
  PROVE  InCvsRoot(q)
<1>1. p \in Seq(Nat) /\ q \in Seq(Nat) /\ Len(p) \in Nat /\ Len(q) \in Nat
  BY PathsAreSequences, LenProperties
<1>2. Len(p) <= Len(q) /\ \A i \in 1..Len(p) : q[i] = p[i]
  BY <1>1, StartsWithMeans
<1>3. PICK i \in 2..(Len(p) - 1) : p[i] = CvsRoot
  BY DEF InCvsRoot
<1>4. i \in 1..Len(p) /\ i \in 2..(Len(q) - 1)
  BY <1>1, <1>2
<1> QED  BY <1>2, <1>3, <1>4 DEF InCvsRoot

\* What is covered stays covered further down.
LEMMA CoveredBelow ==
  ASSUME ChangesInv, NEW p \in covered, NEW q \in AllPaths, StartsWith(q, p)
  PROVE  q \in covered
<1>1. /\ SetType /\ covered \subseteq AllPaths
      /\ covered = {r \in AllPaths : \E i \in 1..Len(paths) : StartsWith(r, paths[i])}
  BY DEF ChangesInv, SetType, MinimalCover
<1>2. PICK i \in 1..Len(paths) : StartsWith(p, paths[i])
  BY <1>1
<1>3. p \in Seq(Nat) /\ q \in Seq(Nat) /\ paths[i] \in Seq(Nat)
  BY <1>1, Entry, PathsAreSequences
<1>4. StartsWith(q, paths[i])
  BY <1>2, <1>3, StartsWithOrder
<1> QED  BY <1>1, <1>4

\* A pass begins with the minimal set.
LEMMA ReachedStart ==
  ASSUME ChangesInv
  PROVE  Reached(ToSet(paths), Unreached)
<1>1. /\ SetType /\ Antichain /\ covered \subseteq AllPaths
      /\ covered = {q \in AllPaths : \E i \in 1..Len(paths) : StartsWith(q, paths[i])}
  BY DEF ChangesInv, SetType, MinimalCover
<1>2. ToSet(paths) = {paths[i] : i \in 1..Len(paths)}
  BY PathsToSet
<1>3. Len(paths) \in Nat /\ \A i \in 1..Len(paths) : paths[i] \in AllPaths /\ paths[i] \in Seq(Nat)
  BY <1>1, Entry
<1>4. ToSet(paths) \subseteq covered
  BY <1>1, <1>2, <1>3, StartsWithOrder
<1>5. ASSUME NEW i \in 1..Len(paths), NEW j \in 1..Len(paths), StartsWith(paths[i], paths[j])
      PROVE  paths[i] = paths[j]
  <2>1. i = j \/ i < j \/ j < i
    BY <1>3
  <2> QED  BY <1>1, <1>5, <2>1 DEF Antichain
<1>6. \A p, q \in ToSet(paths) : StartsWith(p, q) => p = q
  BY <1>2, <1>5
<1>7. \A f \in covered : \E p \in ToSet(paths) : StartsWith(f, p)
  BY <1>1, <1>2
<1>8. Unreached = [f \in Files |->
        IF f \in covered /\ ~InCvsRoot(f) /\ ~ \E p \in ToSet(paths) : StartsWith(f, p)
          THEN 1 ELSE 0]
  BY <1>7 DEF Unreached
<1> QED  BY <1>4, <1>6, <1>8 DEF Reached

\* A path that is skipped, with all that is below it, was not to be reached.
LEMMA ReachedSkip ==
  ASSUME ChangesInv, NEW open, NEW reached, Reached(open, reached),
         NEW path \in open, InCvsRoot(path)
  PROVE  Reached(open \ {path}, reached)
<1>1. Files \subseteq AllPaths /\ open \subseteq covered /\ covered \subseteq AllPaths
  BY CopyAssumption DEF Reached, ChangesInv, SetType
<1>2. \A f \in Files : StartsWith(f, path) => InCvsRoot(f)
  BY <1>1, InCvsRootBelow
<1>3. ASSUME NEW f \in Files, ~ InCvsRoot(f)
      PROVE  (\E p \in open : StartsWith(f, p)) <=> \E p \in open \ {path} : StartsWith(f, p)
  BY <1>2, <1>3
<1>4. [f \in Files |->
         IF f \in covered /\ ~InCvsRoot(f) /\ ~ \E p \in open : StartsWith(f, p) THEN 1 ELSE 0]
      = [f \in Files |->
           IF f \in covered /\ ~InCvsRoot(f) /\ ~ \E p \in open \ {path} : StartsWith(f, p)
             THEN 1 ELSE 0]
  BY <1>3
<1> QED  BY <1>4 DEF Reached

\* A file is reached.
LEMMA ReachedFile ==
  ASSUME ChangesInv, NEW open, NEW reached, Reached(open, reached),
         NEW path \in open, path \in Files, ~ InCvsRoot(path)
  PROVE  Reached(open \ {path}, [reached EXCEPT ![path] = @ + 1])
<1>1. Files \subseteq AllPaths /\ open \subseteq covered /\ covered \subseteq AllPaths
  BY CopyAssumption DEF Reached, ChangesInv, SetType
<1>2. \A f \in Files : StartsWith(f, path) => f = path
  BY <1>1, SvnTreeAssumption
<1>3. StartsWith(path, path)
  BY <1>1, PathsAreSequences, StartsWithOrder
<1>4. \A p \in open \ {path} : ~ StartsWith(path, p)
  BY DEF Reached
<1> DEFINE value(f, o) ==
             IF f \in covered /\ ~InCvsRoot(f) /\ ~ \E p \in o : StartsWith(f, p) THEN 1 ELSE 0
<1>5. reached = [f \in Files |-> value(f, open)]
  BY DEF Reached
<1>6. value(path, open) = 0 /\ value(path, open \ {path}) = 1
  BY <1>1, <1>3, <1>4
<1>7. \A f \in Files \ {path} : value(f, open \ {path}) = value(f, open)
  <2> TAKE f \in Files \ {path}
  <2>1. (\E p \in open : StartsWith(f, p)) <=> \E p \in open \ {path} : StartsWith(f, p)
    BY <1>2
  <2> QED  BY <2>1
<1> HIDE DEF value
<1>8. [reached EXCEPT ![path] = @ + 1] = [f \in Files |-> value(f, open \ {path})]
  BY <1>5, <1>6, <1>7
<1> QED  BY <1>8 DEF Reached, value

\* A directory gives way to its entries, so that nothing in it is lost.
LEMMA ReachedEntries ==
  ASSUME ChangesInv, NEW open, NEW reached, Reached(open, reached),
         NEW path \in open, path \notin Files
  PROVE  /\ Reached((open \ {path}) \cup Entries(path), reached)
         /\ (open \ {path}) \cap Entries(path) = {}
<1> DEFINE new == (open \ {path}) \cup Entries(path)
<1>1. Files \subseteq AllPaths /\ open \subseteq covered /\ covered \subseteq AllPaths
      /\ path \in AllPaths /\ path \in covered
  BY CopyAssumption DEF Reached, ChangesInv, SetType
<1>2. /\ \A e \in Entries(path) : e \in AllPaths /\ StartsWith(e, path)
      /\ \A e \in Entries(path), q \in AllPaths :
           StartsWith(e, q) => q = e \/ StartsWith(path, q)
      /\ \A e, d \in Entries(path) : StartsWith(e, d) => e = d
      /\ \A q \in AllPaths : StartsWith(q, path) /\ q # path =>
           \E e \in Entries(path) : StartsWith(q, e)
  BY <1>1, EntriesMean
<1>3. \A p, q \in open : StartsWith(p, q) => p = q
  BY DEF Reached
<1>4. \A q \in open \ {path}, e \in Entries(path) : q # e /\ ~ StartsWith(e, q) /\ ~ StartsWith(q, e)
  <2> TAKE q \in open \ {path}, e \in Entries(path)
  <2>1. ~ StartsWith(path, q) /\ ~ StartsWith(q, path)
    BY <1>3
  <2>2. q # e
    BY <1>2, <2>1
  <2>3. ~ StartsWith(e, q)
    BY <1>1, <1>2, <2>1, <2>2
  <2>4. ~ StartsWith(q, e)
    <3>1. q \in Seq(Nat) /\ e \in Seq(Nat) /\ path \in Seq(Nat)
      BY <1>1, <1>2, PathsAreSequences
    <3> QED  BY <1>2, <2>1, <3>1, StartsWithOrder
  <2> QED  BY <2>2, <2>3, <2>4
<1>5. new \subseteq covered
  BY <1>1, <1>2, CoveredBelow
<1>6. \A p, q \in new : StartsWith(p, q) => p = q
  BY <1>2, <1>3, <1>4
<1>7. ASSUME NEW f \in Files
      PROVE  (\E p \in open : StartsWith(f, p)) <=> \E p \in new : StartsWith(f, p)
  <2>1. f \in AllPaths /\ f # path
    BY <1>1
  <2>2. StartsWith(f, path) <=> \E e \in Entries(path) : StartsWith(f, e)
    <3>1. ASSUME NEW e \in Entries(path), StartsWith(f, e)
          PROVE  StartsWith(f, path)
      <4>1. f \in Seq(Nat) /\ e \in Seq(Nat) /\ path \in Seq(Nat)
        BY <1>1, <1>2, <2>1, PathsAreSequences
      <4> QED  BY <1>2, <3>1, <4>1, StartsWithOrder
    <3> QED  BY <1>2, <2>1, <3>1
  <2> QED  BY <2>2
<1>8. [f \in Files |->
         IF f \in covered /\ ~InCvsRoot(f) /\ ~ \E p \in open : StartsWith(f, p) THEN 1 ELSE 0]
      = [f \in Files |->
           IF f \in covered /\ ~InCvsRoot(f) /\ ~ \E p \in new : StartsWith(f, p) THEN 1 ELSE 0]
  BY <1>7
<1>9. Reached(new, reached)
  <2> HIDE DEF new
  <2> QED  BY <1>5, <1>6, <1>8 DEF Reached
<1>10. (open \ {path}) \cap Entries(path) = {}
  BY <1>4
<1> QED  BY <1>9, <1>10

\* The bottom of a stack whose top is left or replaced.
LEMMA BottomKept ==
  ASSUME PoolInv, stack # << >>
  PROVE  /\ Front(stack) \in Seq(FrameType)
         /\ Top.fn \notin Roots => /\ Front(stack) # << >>
                                   /\ Head(Front(stack)) = Head(stack)
                                   /\ Last(Front(stack)).fn \notin Walking
         /\ Top.fn \in Roots => Front(stack) = << >> /\ Head(stack) = Top
         /\ \A frame \in FrameType :
              /\ Top.fn \notin Roots => Head(Append(Front(stack), frame)) = Head(stack)
              /\ Top.fn \in Roots => Head(Append(Front(stack), frame)) = frame
<1>1. stack \in Seq(FrameType) /\ WellNested(stack)
  BY DEF PoolInv
<1>2. Front(stack) \in Seq(FrameType)
  BY <1>1, FrontAndLast
<1>3. Top.fn \in Roots <=> Front(stack) = << >>
  BY RootMeans
<1>4. CASE Top.fn \notin Roots
  <2>1. Front(stack) # << >> /\ Head(Front(stack)) = Head(stack)
    BY <1>1, <1>3, <1>4, BottomMeans
  <2>2. Last(Front(stack)).fn \notin Walking
    <3> DEFINE n == Len(stack)
    <3>1. /\ n \in Nat \ {0} /\ Len(Front(stack)) = n - 1
          /\ \A i \in 1..(n - 1) : Front(stack)[i] = stack[i] /\ Placed(stack, i)
      BY <1>1, TopMeans
    <3>2. Len(Front(stack)) \in Nat \ {0} /\ Last(Front(stack)) = Front(stack)[Len(Front(stack))]
      BY <1>2, <2>1, FrontMeans
    <3>3. n - 1 \in 1..(n - 1) /\ n - 1 < n
      BY <3>1, <3>2
    <3>4. Last(Front(stack)) = stack[n - 1] /\ Placed(stack, n - 1)
      BY <3>1, <3>2, <3>3
    <3> QED  BY <3>3, <3>4 DEF Placed, Walking
  <2>3. \A frame \in FrameType : Head(Append(Front(stack), frame)) = Head(stack)
    BY <1>2, <2>1, BottomMeans
  <2> QED  BY <1>2, <1>4, <2>1, <2>2, <2>3
<1>5. CASE Top.fn \in Roots
  <2>1. Front(stack) = << >>
    BY <1>3, <1>5
  <2>2. Head(stack) = Top
    BY <1>1, <2>1, BottomMeans DEF Top
  <2>3. ASSUME NEW frame \in FrameType
        PROVE  Head(Append(Front(stack), frame)) = frame
    <3> DEFINE t == Append(Front(stack), frame)
    <3>1. t \in Seq(FrameType) /\ t # << >> /\ Last(t) = frame /\ Front(t) = Front(stack)
      BY <1>2, LastOfAppend
    <3> HIDE DEF t
    <3>2. Head(t) = frame
      BY <2>1, <3>1, BottomMeans
    <3> QED  BY <3>2 DEF t
  <2> QED  BY <1>2, <1>5, <2>1, <2>2, <2>3
<1> QED  BY <1>4, <1>5

\* What is to be reached, from below the top and from the top.
LEMMA OpenParts ==
  ASSUME PoolInv, stack # << >>
  PROVE  /\ Open(stack) = Open(Front(stack)) \cup Pending(Top)
         /\ Disjoint(stack) <=> Disjoint(Front(stack)) /\ Open(Front(stack)) \cap Pending(Top) = {}
BY FrontAndLast DEF PoolInv, Top

LEMMA WalkMeans ==
  ASSUME UNCHANGED covered, Disjoint(stack'), Reached(Open(stack'), visited'),
         TopChecked(Last(stack'))
  PROVE  WalkInv'
<1>1. Reached(Open(stack'), visited') = Reached(Open(stack), visited)'
  BY DEF Reached, InCvsRoot
<1> QED  BY <1>1 DEF WalkInv, Disjoint, Open, TopChecked, Top, InCvsRoot

\* Nothing is being converted, or the process or the revision ends.
LEMMA NotConverting ==
  ASSUME PoolInv, OpenRepository \/ Terminate \/ OpenRevision \/ ReadProperties \/ Change
                    \/ BeginMerges \/ EndRevision \/ CatchInCallback \/ Unwind
  PROVE  WalkInv'
<1> SUFFICES ~ Converting'
  BY DEF WalkInv
<1>1. CASE OpenRepository
  BY <1>1 DEF OpenRepository, Converting, PoolInv
<1>2. CASE Terminate
  BY <1>2 DEF Terminate, Converting
<1>3. CASE OpenRevision
  <2> DEFINE frame == Frame("opening", << >>, Revision, Revision, {})
  <2>1. stack = << >> /\ stack' = Append(<< >>, frame)
    BY <1>3 DEF OpenRevision, Push
  <2>2. Head(stack') = frame
    BY <2>1
  <2>3. frame.fn = "opening"
    BY DEF Frame
  <2> QED  BY <2>2, <2>3 DEF Converting
<1>4. ASSUME NEW fn \in {"changes", "merges"}, NEW todo, stack # << >>, Top.fn \in Roots,
             stack' = Append(Front(stack), [Top EXCEPT !.fn = fn, !.todo = todo])
      PROVE  ~ Converting'
  <2>1. Top \in FrameType
    BY <1>4, TopType
  <2>2. [Top EXCEPT !.fn = fn, !.todo = todo].fn = fn
    BY <2>1 DEF FrameType
  <2>3. Front(stack) = << >>
    BY <1>4, BottomKept
  <2> DEFINE frame == [Top EXCEPT !.fn = fn, !.todo = todo]
  <2> HIDE DEF frame
  <2>4. stack' = Append(<< >>, frame)
    BY <1>4, <2>3 DEF frame
  <2>5. Head(stack') = frame
    BY <2>4
  <2>6. Head(stack').fn = fn
    BY <2>2, <2>5 DEF frame
  <2> QED  BY <2>6 DEF Converting
<1>5. CASE ReadProperties
  <2>1. CASE CheckSvn
    BY <2>1 DEF CheckSvn, Converting
  <2>2. CASE ~ CheckSvn
    <3>1. stack # << >> /\ Top.fn \in Roots
      BY <1>5 DEF ReadProperties, Running, Roots
    <3>2. Top \in FrameType /\ Top.todo \in SUBSET AllPaths
      BY <3>1, TopType
    <3>3. stack' = Append(Front(stack), [Top EXCEPT !.fn = "changes"])
      BY <1>5, <2>2 DEF ReadProperties, Become
    <3>4. [Top EXCEPT !.fn = "changes"] = [Top EXCEPT !.fn = "changes", !.todo = Top.todo]
      BY <3>2 DEF FrameType
    <3> QED  BY <1>4, <3>1, <3>3, <3>4
  <2> QED  BY <2>1, <2>2
<1>6. CASE Change
  <2>1. stack' = stack /\ stack # << >> /\ Top.fn = "changes"
    BY <1>6 DEF Change, Running
  <2>2. Head(stack) = Top
    BY <2>1, BottomKept DEF Roots
  <2> QED  BY <2>1, <2>2 DEF Converting
<1>7. CASE BeginMerges
  <2>1. stack # << >> /\ Top.fn \in Roots
        /\ stack' = Append(Front(stack), [Top EXCEPT !.fn = "merges", !.todo = DOMAIN copies])
    BY <1>7 DEF BeginMerges, Running, Roots, Become
  <2> QED  BY <1>4, <2>1
<1>8. CASE EndRevision
  <2>1. stack # << >> /\ Top.fn \in Roots /\ stack' = Front(stack)
    BY <1>8 DEF EndRevision, Running, Leave, Roots
  <2> QED  BY <2>1, BottomKept DEF Converting
<1>9. CASE CatchInCallback
  BY <1>9 DEF CatchInCallback, CheckSvn, Converting
<1>10. CASE Unwind
  BY <1>10 DEF Unwind, Converting
<1> QED  BY <1>1, <1>2, <1>3, <1>5, <1>6, <1>7, <1>8, <1>9, <1>10

\* A pass begins.
LEMMA WalkOfPass ==
  ASSUME PoolInv, ChangesInv, BeginPass
  PROVE  WalkInv'
<1> DEFINE frame == [Top EXCEPT !.fn = "convert", !.own = Top.own, !.todo = ToSet(paths)]
<1>1. /\ stack # << >> /\ Top.fn \in Roots /\ visited' = Unreached /\ covered' = covered
      /\ stack' = Append(Front(stack), [Top EXCEPT !.fn = "convert", !.todo = ToSet(paths)])
  BY DEF BeginPass, Running, Roots, Become, changeVars, pathSet
<1>2. Top \in FrameType /\ Top.own \in Seq(Owners)
  BY <1>1, TopType
<1>3. "convert" \in Functions /\ ToSet(paths) \in SUBSET AllPaths
  BY PathsToSet DEF Functions, Roots
<1>4. stack' = Append(Front(stack), frame)
  BY <1>1, <1>2, <1>3, FrameMade
<1>5. frame = Made(Top, "convert", Top.own, ToSet(paths))
  BY DEF Made
<1> HIDE DEF frame
<1>6. frame \in FrameType /\ frame.fn = "convert" /\ frame.todo = ToSet(paths)
  BY <1>2, <1>3, <1>5, FrameIs
<1>7. Pending(frame) = ToSet(paths)
  BY <1>6, PendingMeans
<1>8. Front(stack) = << >> /\ Front(stack) \in Seq(FrameType)
  BY <1>1, BottomKept
<1>9. Open(Front(stack)) = {} /\ Disjoint(Front(stack))
  <2>1. Len(Front(stack)) = 0
    BY <1>8
  <2> QED  BY <2>1 DEF Open, Disjoint
<1>10. Open(stack') = ToSet(paths) /\ Disjoint(stack')
  <2>1. /\ Open(stack') = Open(Front(stack)) \cup Pending(frame)
        /\ Disjoint(stack') <=> Disjoint(Front(stack)) /\ Open(Front(stack)) \cap Pending(frame) = {}
    BY ONLY <1>4, <1>6, <1>8, OpenOfAppend
  <2> QED  BY ONLY <1>7, <1>9, <2>1
<1>11. Last(stack') = frame
  BY <1>4, <1>6, <1>8, LastOfAppend
<1>12. TopChecked(Last(stack'))
  BY <1>6, <1>11 DEF TopChecked
<1> QED  BY <1>1, <1>10, <1>12, ReachedStart, WalkMeans

\* Steps of the same shape.
LEMMA WalkLeft ==
  ASSUME PoolInv, stack # << >>, Top.fn \notin Roots, stack' = Front(stack), UNCHANGED covered,
         Disjoint(stack), Reached(Open(Front(stack)), visited')
  PROVE  WalkInv'
<1>1. Disjoint(stack')
  BY OpenParts
<1>2. TopChecked(Last(stack'))
  BY BottomKept DEF TopChecked, Walking
<1> QED  BY <1>1, <1>2, WalkMeans

LEMMA WalkReplaced ==
  ASSUME PoolInv, stack # << >>, NEW frame \in FrameType,
         stack' = Append(Front(stack), frame), UNCHANGED covered,
         Disjoint(Front(stack)), Open(Front(stack)) \cap Pending(frame) = {},
         Reached(Open(Front(stack)) \cup Pending(frame), visited'), TopChecked(frame)
  PROVE  WalkInv'
<1>1. Front(stack) \in Seq(FrameType)
  BY BottomKept
<1>2. Disjoint(stack') /\ Open(stack') = Open(Front(stack)) \cup Pending(frame)
  BY <1>1, OpenOfAppend
<1>3. Last(stack') = frame
  BY <1>1, LastOfAppend
<1> QED  BY <1>2, <1>3, WalkMeans

LEMMA WalkCalled ==
  ASSUME PoolInv, stack # << >>, NEW frame \in FrameType, NEW callee \in FrameType,
         stack' = Append(Append(Front(stack), frame), callee), UNCHANGED covered,
         Disjoint(Front(stack)), Open(Front(stack)) \cap Pending(frame) = {},
         (Open(Front(stack)) \cup Pending(frame)) \cap Pending(callee) = {},
         Reached((Open(Front(stack)) \cup Pending(frame)) \cup Pending(callee), visited'),
         TopChecked(callee)
  PROVE  WalkInv'
<1> DEFINE s == Append(Front(stack), frame)
<1>1. Front(stack) \in Seq(FrameType)
  BY BottomKept
<1>2. s \in Seq(FrameType) /\ Disjoint(s) /\ Open(s) = Open(Front(stack)) \cup Pending(frame)
  BY <1>1, OpenOfAppend, LastOfAppend
<1>3. stack' = Append(s, callee)
  OBVIOUS
<1> HIDE DEF s
<1>4. Disjoint(stack') /\ Open(stack') = Open(s) \cup Pending(callee)
  BY <1>2, <1>3, OpenOfAppend
<1>5. Last(stack') = callee
  BY <1>2, <1>3, LastOfAppend
<1> QED  BY <1>2, <1>4, <1>5, WalkMeans

\* What is known of a step of a pass, and of the path that its top has to reach.
LEMMA InPass ==
  ASSUME PoolInv, WalkInv, phase = "running", stack # << >>, Head(stack).fn = "convert"
  PROVE  /\ Disjoint(stack) /\ Reached(Open(stack), visited) /\ TopChecked(Top)
         /\ Disjoint(Front(stack)) /\ Open(Front(stack)) \cap Pending(Top) = {}
         /\ Open(Front(stack)) = Open(stack) \ Pending(Top)
         /\ Open(stack) = Open(Front(stack)) \cup Pending(Top)
         /\ Pending(Top) \subseteq Open(stack)
BY OpenParts DEF WalkInv, Converting

\* The steps that leave a function of a pass.
LEMMA WalkOfLeaving ==
  ASSUME PoolInv, ChangesInv, WalkInv,
         EndDirectory \/ EndFile \/ EndCopy \/ WriteBytes \/ SkipFile
  PROVE  WalkInv'
<1> SUFFICES ASSUME Converting'
             PROVE  WalkInv'
  BY DEF WalkInv
<1>1. phase = "running" /\ stack # << >> /\ UNCHANGED changeVars /\ Top.fn \notin Roots
      /\ stack' = Front(stack)
  BY DEF EndDirectory, EndFile, EndCopy, WriteBytes, SkipFile, Running, Roots, Leave, Converting
<1>2. covered' = covered
  BY <1>1 DEF changeVars, pathSet
<1>3. Head(stack).fn = "convert"
  BY <1>1, BottomKept DEF Converting
<1>4. /\ Disjoint(stack) /\ Reached(Open(stack), visited) /\ TopChecked(Top)
      /\ Open(Front(stack)) = Open(stack) \ Pending(Top) /\ Pending(Top) \subseteq Open(stack)
  BY <1>1, <1>3, InPass
<1>5. CASE EndDirectory \/ EndFile \/ EndCopy \/ WriteBytes
  <2>1. Pending(Top) = {}
    BY <1>5, PendingMeans DEF EndDirectory, EndFile, EndCopy, WriteBytes, Running, Walking
  <2>2. visited' = visited
    BY <1>5 DEF EndDirectory, EndFile, EndCopy, WriteBytes
  <2>3. Open(Front(stack)) = Open(stack)
    BY <1>4, <2>1
  <2> QED  BY <1>1, <1>2, <1>4, <2>2, <2>3, WalkLeft
<1>6. CASE SkipFile
  <2>1. Top.fn = "file" /\ visited' = [visited EXCEPT ![Top.path] = @ + 1]
    BY <1>6 DEF SkipFile, Running
  <2>2. Pending(Top) = {Top.path}
    BY <2>1, PendingMeans DEF Walking
  <2>3. Top.path \in Open(stack) /\ Top.path \in Files /\ ~InCvsRoot(Top.path)
    BY <1>4, <2>1, <2>2 DEF TopChecked
  <2>4. Reached(Open(stack) \ {Top.path}, visited')
    BY <1>4, <2>1, <2>3, ReachedFile
  <2>5. Reached(Open(Front(stack)), visited')
    BY <1>4, <2>2, <2>4
  <2> QED  BY <1>1, <1>2, <1>4, <2>5, WalkLeft
<1> QED  BY <1>5, <1>6

\* The steps of a pass that go on in the same function.
LEMMA WalkOfGoingOn ==
  ASSUME PoolInv, ChangesInv, WalkInv, CheckPath \/ ReadDirectory \/ OpenFile
  PROVE  WalkInv'
<1> SUFFICES ASSUME Converting'
             PROVE  WalkInv'
  BY DEF WalkInv
<1>1. /\ phase = "running" /\ stack # << >> /\ UNCHANGED changeVars /\ Top.fn \in Walking
      /\ Top.fn \notin Roots
  BY DEF CheckPath, ReadDirectory, OpenFile, Running, Roots, Walking
<1>2. covered' = covered
  BY <1>1 DEF changeVars, pathSet
<1>3. /\ Top \in FrameType /\ Top.path \in AllPaths \cup {<< >>} /\ Top.pool \in Seq(Owners)
      /\ Top.own \in Seq(Owners) /\ Top.todo \in SUBSET AllPaths
  BY <1>1, TopType
<1>4. ASSUME Head(stack).fn = "convert"
      PROVE  /\ Disjoint(stack) /\ Reached(Open(stack), visited) /\ TopChecked(Top)
             /\ Disjoint(Front(stack)) /\ Open(Front(stack)) \cap Pending(Top) = {}
             /\ Open(Front(stack)) = Open(stack) \ {Top.path}
             /\ Open(stack) = Open(Front(stack)) \cup {Top.path}
             /\ Pending(Top) = {Top.path} /\ Top.path \in Open(stack)
  <2>1. Pending(Top) = {Top.path}
    BY <1>1, PendingMeans
  <2> QED  BY <1>1, <1>4, <2>1, InPass
<1>5. ASSUME NEW frame \in FrameType, stack' = Append(Front(stack), frame)
      PROVE  Head(stack).fn = "convert"
  BY <1>1, <1>5, BottomKept DEF Converting
<1>6. CASE CheckPath
  <2>1. Top.fn = "walk" /\ visited' = visited
    BY <1>6 DEF CheckPath, Running
  <2>2. CASE BelowCvsRoot(Top.path)
    <3>1. stack' = Front(stack)
      BY <1>6, <2>2 DEF CheckPath, Leave
    <3>2. Head(stack).fn = "convert"
      BY <1>1, <3>1, BottomKept DEF Converting
    <3>3. InCvsRoot(Top.path)
      BY <2>2 DEF BelowCvsRoot, InCvsRoot
    <3>4. Reached(Open(Front(stack)), visited')
      BY <1>4, <2>1, <3>2, <3>3, ReachedSkip
    <3> QED  BY <1>1, <1>2, <1>4, <3>1, <3>2, <3>4, WalkLeft
  <2>3. CASE ~ BelowCvsRoot(Top.path)
    <3>1. PICK fn \in {"file", "dir"} :
            /\ Become([Top EXCEPT !.fn = fn])
            /\ fn = "file" <=> Top.path \in Files
      BY <1>6, <2>3 DEF CheckPath
    <3> DEFINE frame == [Top EXCEPT !.fn = fn, !.own = Top.own, !.todo = Top.todo]
    <3>2. fn \in Functions /\ fn \in Walking
      BY DEF Functions, Walking
    <3>3. stack' = Append(Front(stack), frame)
      BY <1>3, <3>1, <3>2, FrameMade DEF Become
    <3>4. frame = Made(Top, fn, Top.own, Top.todo)
      BY DEF Made
    <3> HIDE DEF frame
    <3>5. frame \in FrameType /\ frame.fn = fn /\ frame.path = Top.path
      BY <1>3, <3>2, <3>4, FrameIs
    <3>6. Pending(frame) = {Top.path}
      BY <3>2, <3>5, PendingMeans
    <3>7. TopChecked(frame)
      BY <2>3, <3>1, <3>5 DEF TopChecked, BelowCvsRoot, InCvsRoot
    <3>8. Head(stack).fn = "convert"
      BY <1>5, <3>3, <3>5
    <3>9. /\ Disjoint(Front(stack)) /\ Open(Front(stack)) \cap Pending(frame) = {}
          /\ Reached(Open(Front(stack)) \cup Pending(frame), visited')
      BY <1>4, <2>1, <3>6, <3>8
    <3> QED  BY <1>1, <1>2, <3>3, <3>5, <3>7, <3>9, WalkReplaced
  <2> QED  BY <2>2, <2>3
<1>7. CASE ReadDirectory
  <2> DEFINE pool == Subpool(Top.pool, "dir_pool")
             frame == [Top EXCEPT !.fn = "entries", !.own = pool, !.todo = Entries(Top.path)]
  <2>1. Top.fn = "dir" /\ stack' = Append(Front(stack), frame) /\ visited' = visited
    BY <1>7 DEF ReadDirectory, Running, Become
  <2>2. "entries" \in Functions /\ pool \in Seq(Owners) /\ Entries(Top.path) \in SUBSET AllPaths
    <3>1. "dir_pool" \in Owners
      BY DEF Owners
    <3>2. pool \in Seq(Owners)
      BY <1>3, <3>1, AppendProperties DEF Subpool
    <3> QED  BY <3>2 DEF Entries, Functions
  <2>3. frame = Made(Top, "entries", pool, Entries(Top.path))
    BY DEF Made
  <2> HIDE DEF frame, pool
  <2>4. frame \in FrameType /\ frame.fn = "entries" /\ frame.todo = Entries(Top.path)
    BY <1>3, <2>2, <2>3, FrameIs
  <2>5. Pending(frame) = Entries(Top.path)
    BY <2>4, PendingMeans
  <2>6. Head(stack).fn = "convert"
    BY <1>5, <2>1, <2>4
  <2>7. Top.path \notin Files
    BY <1>4, <2>1, <2>6 DEF TopChecked
  <2>8. /\ Reached((Open(stack) \ {Top.path}) \cup Entries(Top.path), visited')
        /\ (Open(stack) \ {Top.path}) \cap Entries(Top.path) = {}
    BY <1>4, <2>1, <2>6, <2>7, ReachedEntries
  <2>9. /\ Disjoint(Front(stack)) /\ Open(Front(stack)) \cap Pending(frame) = {}
        /\ Reached(Open(Front(stack)) \cup Pending(frame), visited')
    BY <1>4, <2>5, <2>6, <2>8
  <2>10. TopChecked(frame)
    BY <2>4 DEF TopChecked
  <2> QED  BY <1>1, <1>2, <2>1, <2>4, <2>9, <2>10, WalkReplaced
<1>8. CASE OpenFile
  <2> DEFINE frame == [Top EXCEPT !.fn = "copying", !.own = Scope, !.todo = Top.todo]
  <2>1. "copying" \in Functions /\ Scope \in Seq(Owners)
    BY RevisionScope DEF Functions
  <2>2. /\ Top.fn = "file" /\ visited' = [visited EXCEPT ![Top.path] = @ + 1]
        /\ Become([Top EXCEPT !.fn = "copying", !.own = Scope])
    BY <1>8 DEF OpenFile, Running, Converting, CheckSvn, Scope
  <2>3. stack' = Append(Front(stack), frame)
    BY <1>3, <2>1, <2>2, FrameMade DEF Become
  <2>4. frame = Made(Top, "copying", Scope, Top.todo)
    BY DEF Made
  <2> HIDE DEF frame
  <2>5. frame \in FrameType /\ frame.fn = "copying"
    BY <1>3, <2>1, <2>4, FrameIs
  <2>6. Pending(frame) = {} /\ TopChecked(frame)
    BY <2>5, PendingMeans DEF Walking, TopChecked
  <2>7. Head(stack).fn = "convert"
    BY <1>5, <2>3, <2>5
  <2>8. Top.path \in Open(stack) /\ Top.path \in Files /\ ~InCvsRoot(Top.path)
    BY <1>4, <2>2, <2>7 DEF TopChecked
  <2>9. Reached(Open(stack) \ {Top.path}, visited')
    BY <1>4, <2>2, <2>7, <2>8, ReachedFile
  <2>10. /\ Disjoint(Front(stack)) /\ Open(Front(stack)) \cap Pending(frame) = {}
         /\ Reached(Open(Front(stack)) \cup Pending(frame), visited')
    BY <1>4, <2>6, <2>7, <2>9
  <2> QED  BY <1>1, <1>2, <2>3, <2>5, <2>6, <2>10, WalkReplaced
<1> QED  BY <1>6, <1>7, <1>8

\* The steps of a pass that call a function.
LEMMA WalkOfCalls ==
  ASSUME PoolInv, ChangesInv, WalkInv, WalkTree \/ NextEntry \/ CopyStream \/ ReadBytes
  PROVE  WalkInv'
<1> SUFFICES ASSUME Converting'
             PROVE  WalkInv'
  BY DEF WalkInv
<1>1. /\ phase = "running" /\ stack # << >> /\ UNCHANGED changeVars /\ visited' = visited
  BY DEF WalkTree, NextEntry, CopyStream, ReadBytes, Running
<1>2. covered' = covered
  BY <1>1 DEF changeVars, pathSet
<1>3. /\ Top \in FrameType /\ Top.path \in AllPaths \cup {<< >>} /\ Top.pool \in Seq(Owners)
      /\ Top.own \in Seq(Owners) /\ Top.todo \in SUBSET AllPaths /\ Top.fn \in Functions
      /\ stack \in Seq(FrameType) /\ Front(stack) \in Seq(FrameType)
  BY <1>1, TopType, BottomKept DEF Nested
<1>4. ASSUME Head(stack).fn = "convert"
      PROVE  /\ Disjoint(stack) /\ Reached(Open(stack), visited')
             /\ Disjoint(Front(stack)) /\ Open(Front(stack)) \cap Pending(Top) = {}
             /\ Open(stack) = Open(Front(stack)) \cup Pending(Top)
  BY <1>1, <1>4, InPass
<1>5. ASSUME NEW frame \in FrameType, NEW callee \in FrameType, frame.fn = Top.fn \/ Top.fn \notin Roots,
             stack' = Append(Append(Front(stack), frame), callee)
      PROVE  Head(stack).fn = "convert"
  <2> DEFINE s == Append(Front(stack), frame)
  <2>1. \/ Head(s) = Head(stack)
        \/ frame.fn = Top.fn /\ Head(s) = frame /\ Head(stack) = Top
    <3>1. CASE Top.fn \in Roots
      <4>1. frame.fn = Top.fn
        BY <1>5, <3>1
      <4>2. Head(stack) = Top /\ Head(s) = frame
        BY <1>1, <3>1, BottomKept
      <4> QED  BY <4>1, <4>2
    <3>2. CASE Top.fn \notin Roots
      <4>1. Head(s) = Head(stack)
        BY <1>1, <3>2, BottomKept
      <4> QED  BY <4>1
    <3> QED  BY <3>1, <3>2
  <2>2. s \in Seq(FrameType) /\ s # << >> /\ stack' = Append(s, callee)
    BY <1>3, <1>5, LastOfAppend
  <2> HIDE DEF s
  <2>3. Head(stack') = Head(s)
    BY <2>2, BottomMeans
  <2> QED  BY <2>1, <2>3 DEF Converting
<1>6. ASSUME NEW path \in Top.todo, NEW pool \in Seq(Owners), Walk(path, pool),
             Top.fn \in {"merges", "convert", "entries"}
      PROVE  WalkInv'
  <2> DEFINE frame == [Top EXCEPT !.fn = Top.fn, !.own = Top.own, !.todo = Top.todo \ {path}]
             callee == Frame("walk", path, pool, NoPool, {})
  <2>1. [Top EXCEPT !.todo = @ \ {path}] = frame
    BY <1>3, FrameMade
  <2>2. frame = Made(Top, Top.fn, Top.own, Top.todo \ {path})
    BY DEF Made
  <2>3. stack' = Append(Append(Front(stack), frame), callee)
    BY <1>6, <2>1 DEF Walk
  <2> HIDE DEF frame
  <2>4. frame \in FrameType /\ frame.fn = Top.fn /\ frame.todo = Top.todo \ {path}
    BY <1>3, <2>2, FrameIs
  <2>5. "walk" \in Functions /\ path \in AllPaths
    BY <1>3 DEF Functions, Walking
  <2>6. callee \in FrameType /\ callee.fn = "walk" /\ callee.path = path
    BY <2>5, FrameIsFrame
  <2> HIDE DEF callee
  <2>7. Head(stack).fn = "convert"
    BY <1>5, <2>3, <2>4, <2>6
  <2>8. Top.fn \in {"convert", "entries"}
    <3>1. Top.fn \in Roots => Head(stack) = Top
      BY <1>1, BottomKept
    <3> QED  BY <1>6, <2>7, <3>1 DEF Roots
  <2>9. Pending(Top) = Top.todo /\ Pending(frame) = Top.todo \ {path} /\ Pending(callee) = {path}
    BY <2>4, <2>6, <2>8, PendingMeans DEF Walking
  <2>10. TopChecked(callee)
    BY <2>6 DEF TopChecked
  <2>11. /\ Open(Front(stack)) \cap Pending(frame) = {}
         /\ (Open(Front(stack)) \cup Pending(frame)) \cap Pending(callee) = {}
         /\ (Open(Front(stack)) \cup Pending(frame)) \cup Pending(callee) = Open(stack)
    BY <1>4, <2>7, <2>9
  <2> QED  BY <1>1, <1>2, <1>4, <2>3, <2>4, <2>6, <2>7, <2>10, <2>11, WalkCalled
<1>7. CASE WalkTree
  <2>1. PICK root \in Top.todo : Walk(root, Revision)
    BY <1>7 DEF WalkTree
  <2>2. Top.fn \in {"merges", "convert", "entries"}
    BY <1>7 DEF WalkTree, Running
  <2>3. Revision \in Seq(Owners)
    <3>1. 1 \in Nat \ {0}
      OBVIOUS
    <3> QED  BY <3>1, RevisionScope, DirsMeans
  <2> QED  BY <1>6, <2>1, <2>2, <2>3
<1>8. CASE NextEntry
  <2>1. PICK path \in Top.todo : Walk(path, Top.own)
    BY <1>8 DEF NextEntry
  <2>2. Top.fn \in {"merges", "convert", "entries"}
    BY <1>8 DEF NextEntry, Running
  <2> QED  BY <1>3, <1>6, <2>1, <2>2
<1>9. CASE CopyStream
  <2> DEFINE frame == [Top EXCEPT !.fn = "copied", !.own = Top.own, !.todo = Top.todo]
             callee == Frame("svn_stream_copy3", Top.path, Top.own, NoPool, {})
  <2>1. "copied" \in Functions /\ "svn_stream_copy3" \in Functions
    BY DEF Functions, InCopy
  <2>2. frame = Made(Top, "copied", Top.own, Top.todo)
    BY DEF Made
  <2>3. stack' = Append(Append(Front(stack), frame), callee) /\ Top.fn = "copying"
    <3>1. [Top EXCEPT !.fn = "copied"] = frame
      BY <1>3, <2>1, FrameMade
    <3> QED  BY <1>9, <3>1 DEF CopyStream, Running
  <2> HIDE DEF frame
  <2>4. frame \in FrameType /\ frame.fn = "copied"
    BY <1>3, <2>1, <2>2, FrameIs
  <2>5. callee \in FrameType /\ callee.fn = "svn_stream_copy3"
    <3>1. callee \in FrameType
      BY <1>3, <2>1, FrameIsFrame
    <3> QED  BY <3>1 DEF Frame
  <2> HIDE DEF callee
  <2>6. Head(stack).fn = "convert"
    <3>1. Top.fn \notin Roots
      BY <2>3 DEF Roots
    <3> QED  BY <1>5, <2>3, <2>4, <2>5, <3>1
  <2>7. Pending(Top) = {} /\ Pending(frame) = {} /\ Pending(callee) = {} /\ TopChecked(callee)
    BY <2>3, <2>4, <2>5, PendingMeans DEF Walking, TopChecked
  <2>8. /\ Open(Front(stack)) \cap Pending(frame) = {}
        /\ (Open(Front(stack)) \cup Pending(frame)) \cap Pending(callee) = {}
        /\ (Open(Front(stack)) \cup Pending(frame)) \cup Pending(callee) = Open(stack)
    BY <1>4, <2>6, <2>7
  <2> QED  BY <1>1, <1>2, <1>4, <2>3, <2>4, <2>5, <2>6, <2>7, <2>8, WalkCalled
<1>10. CASE ReadBytes
  <2> DEFINE callee == Frame("fast_import_raw_bytes", Top.path, Top.pool, NoPool, {})
  <2>0. "fast_import_raw_bytes" \in Functions
    BY DEF Functions, InCopy
  <2>1. Top.path \in AllPaths \cup {<< >>} /\ Top.pool \in Seq(Owners)
    BY <1>3
  <2>2. callee \in FrameType /\ callee.fn = "fast_import_raw_bytes"
    <3>1. callee \in FrameType
      BY ONLY <2>0, <2>1, FrameIsFrame
    <3> QED  BY <3>1 DEF Frame
  <2>3. stack' = Append(stack, callee)
    BY <1>10 DEF ReadBytes, Push
  <2> HIDE DEF callee
  <2>4. Head(stack).fn = "convert"
    <3>1. Head(stack') = Head(stack)
      BY <1>1, <1>3, <2>2, <2>3, BottomMeans
    <3> QED  BY <3>1 DEF Converting
  <2>5. Pending(callee) = {} /\ TopChecked(callee)
    BY <2>2, PendingMeans DEF Walking, TopChecked
  <2>6. Open(stack') = Open(stack) /\ Disjoint(stack')
    <3>1. /\ Open(stack') = Open(stack) \cup Pending(callee)
          /\ Disjoint(stack') <=> Disjoint(stack) /\ Open(stack) \cap Pending(callee) = {}
      BY <1>3, <2>2, <2>3, OpenOfAppend
    <3> QED  BY <1>4, <2>4, <2>5, <3>1
  <2>7. Last(stack') = callee
    BY <1>3, <2>2, <2>3, LastOfAppend
  <2> QED  BY <1>2, <1>4, <2>4, <2>5, <2>6, <2>7, WalkMeans
<1> QED  BY <1>7, <1>8, <1>9, <1>10

LEMMA WalkStep ==
  ASSUME PoolInv, ChangesInv, WalkInv, [Next]_vars
  PROVE  WalkInv'
<1>1. CASE Next
  BY <1>1, NotConverting, WalkOfPass, WalkOfLeaving, WalkOfGoingOn, WalkOfCalls DEF Next
<1>2. CASE UNCHANGED vars
  <2>1. /\ UNCHANGED <<stack, phase, visited, covered>>
    BY <1>2 DEF vars, svnVars, changeVars, pathSet
  <2>2. Top' = Top /\ Converting' = Converting
    BY <2>1 DEF Top, Converting
  <2>3. Disjoint(stack)' = Disjoint(stack) /\ TopChecked(Top)' = TopChecked(Top)
    BY <2>1, <2>2 DEF Disjoint, TopChecked, InCvsRoot
  <2>4. Reached(Open(stack), visited)' = Reached(Open(stack), visited)
    BY <2>1 DEF Reached, Open, InCvsRoot
  <2> QED  BY <2>2, <2>3, <2>4 DEF WalkInv
<1> QED  BY <1>1, <1>2

LEMMA VisitedStep ==
  ASSUME visited \in [Files -> Nat], [Next]_vars
  PROVE  visited' \in [Files -> Nat]
<1>1. \/ visited' = visited \/ visited' = Unreached
      \/ \E f : visited' = [visited EXCEPT ![f] = @ + 1]
  BY DEF Next, vars, svnVars, OpenRepository, Terminate, OpenRevision, ReadProperties, Change,
         BeginMerges, BeginPass, EndRevision, WalkTree, CheckPath, ReadDirectory, NextEntry,
         EndDirectory, SkipFile, OpenFile, CopyStream, ReadBytes, WriteBytes, CatchInCallback,
         EndCopy, EndFile, Unwind
<1>2. Unreached \in [Files -> Nat]
  BY DEF Unreached
<1>3. ASSUME NEW f
      PROVE  [visited EXCEPT ![f] = @ + 1] \in [Files -> Nat]
  <2>1. CASE f \in Files
    BY <2>1
  <2>2. CASE f \notin Files
    <3>1. [visited EXCEPT ![f] = @ + 1] = visited
      BY <2>2
    <3> QED  BY <3>1
  <2> QED  BY <2>1, <2>2
<1> QED  BY <1>1, <1>2, <1>3

-----------------------------------------------------------------------------
(* Theorems.                                                               *)

\* The inductive invariant, from which AccessInv follows.
FullInv == PoolInv /\ ChangesInv /\ WalkInv /\ visited \in [Files -> Nat]

LEMMA FullInvariant == Spec => []FullInv
<1>1. Init => FullInv
  <2> SUFFICES ASSUME Init PROVE FullInv
    OBVIOUS
  <2>1. WalkInv /\ visited \in [Files -> Nat]
    BY DEF Init, WalkInv, Converting, Unreached
  <2>2. ChangesInv
    BY ChangesStart DEF Init
  <2> QED  BY <2>1, <2>2, PoolInit DEF FullInv
<1>2. FullInv /\ [Next]_vars => FullInv'
  BY PoolStep, ChangesStep, WalkStep, VisitedStep DEF FullInv
<1> QED  BY <1>1, <1>2, PTL DEF Spec

\* Every pool that is used exists, and only those that a running function owns.
LEMMA PoolsFollow ==
  ASSUME FullInv
  PROVE  PoolsInScope /\ live \subseteq Seq(Owners)
<1>1. stack \in Seq(FrameType) /\ WellNested(stack)
  BY DEF FullInv, PoolInv
<1>2. DOMAIN stack = 1..Len(stack) /\ \A i \in 1..Len(stack) : stack[i] \in FrameType
  BY <1>1, LenProperties, ElementOfSeq
<1>3. live = IF phase = "out" THEN {}
             ELSE {Global} \cup ({stack[i].own : i \in DOMAIN stack} \ {NoPool})
  BY <1>2 DEF FullInv, PoolInv, Pools, Owns
<1>4. ASSUME NEW i \in DOMAIN stack
      PROVE  stack[i].pool \in live
  <2>1. stack[i].pool \in Owns(stack)
    BY <1>1, <1>2, PoolOwned
  <2>2. stack # << >>
    BY <1>1, <1>2, EmptySeq
  <2>3. phase # "out"
    BY <2>2 DEF FullInv, PoolInv
  <2> QED  BY <2>1, <2>3 DEF FullInv, PoolInv, Pools
<1>5. live \subseteq Seq(Owners)
  <2>1. Global \in Seq(Owners)
    BY EmptySeq DEF Global
  <2>2. \A i \in 1..Len(stack) : stack[i].own \in Seq(Owners)
    BY <1>2 DEF FrameType
  <2> QED  BY <1>2, <1>3, <2>1, <2>2
<1>6. phase = "throwing" /\ stack # << >> => Top.fn # "svn_stream_copy3"
  BY DEF FullInv, PoolInv
<1> QED  BY <1>3, <1>4, <1>5, <1>6 DEF PoolsInScope

\* AccessInv holds: the types of all variables, the stack of functions and their
\* pools, the set of paths, and what a pass over the trees has reached and has still
\* to reach (svn.cpp, apr_pool.hpp and for_each_svn_file of importer.cpp).
THEOREM AccessInvariant == Spec => []AccessInv
<1>1. FullInv => AccessInv
  <2> SUFFICES ASSUME FullInv PROVE AccessInv
    OBVIOUS
  <2>1. TypeOK
    BY PoolsFollow DEF FullInv, PoolInv, ChangesInv, SetType, TypeOK, FrameType
  <2>2. MinimalCover /\ StackInv /\ WalkInv
    BY DEF FullInv, PoolInv, ChangesInv, StackInv
  <2> QED  BY <2>1, <2>2, PoolsFollow DEF AccessInv
<1> QED  BY <1>1, FullInvariant, PTL

\* The set of paths stays minimal and covers what was inserted, although insert
\* compares a path with its neighbours only (path_set.hpp:24-55).
THEOREM PathSetMinimal == Spec => []MinimalCover
<1>1. AccessInv => MinimalCover
  BY DEF AccessInv
<1> QED  BY <1>1, AccessInvariant, PTL

\* A file is attributed to the innermost copied directory around it, which is the one
\* that sorts last before the file (importer.cpp:386-400).
THEOREM CopiesInnermost == Spec => []InnermostCopy
<1>1. AccessInv => InnermostCopy
  BY InnermostFound DEF AccessInv, TypeOK
<1> QED  BY <1>1, AccessInvariant, PTL

\* No function uses a pool that is gone, none is leaked, and no exception passes
\* through svn_stream_copy3 (apr_pool.hpp, importer.cpp:402-473).
THEOREM PoolsSafe == Spec => []PoolsInScope
<1>1. AccessInv => PoolsInScope
  BY DEF AccessInv
<1> QED  BY <1>1, AccessInvariant, PTL

\* Each pass over the trees reaches every file that is covered once, those in CVSROOT
\* apart, and no other file (importer.cpp:268-270, 327-373).
THEOREM FilesOnce == Spec => []EachFileOnce
<1>1. FullInv => EachFileOnce
  <2> SUFFICES ASSUME FullInv, Running("convert"), Top.todo = {}
               PROVE  visited = [f \in Files |-> IF f \in covered /\ ~InCvsRoot(f) THEN 1 ELSE 0]
    BY DEF EachFileOnce
  <2>1. PoolInv /\ WalkInv /\ phase = "running" /\ stack # << >> /\ Top.fn = "convert"
    BY DEF FullInv, Running
  <2>2. Front(stack) = << >> /\ Head(stack) = Top
    BY <2>1, BottomKept DEF Roots
  <2>3. Reached(Open(stack), visited) /\ Open(stack) = Open(Front(stack)) \cup Pending(Top)
    BY <2>1, <2>2, InPass
  <2>4. Pending(Top) = {}
    BY <2>1, PendingMeans
  <2>5. Len(Front(stack)) = 0
    BY <2>2
  <2>6. Open(stack) = {}
    BY <2>3, <2>4, <2>5 DEF Open
  <2> QED  BY <2>3, <2>6 DEF Reached
<1> QED  BY <1>1, FullInvariant, PTL
=============================================================================
