-------------------------- MODULE FixSubmodulesProofs --------------------------
(***************************************************************************)
(* Theorems about module FixSubmodules, for any rulesets, marks files and  *)
(* streams.                                                                *)
(*                                                                         *)
(* 1. What the operators return: least and greatest elements, the position *)
(*    lower_bound finds, the list after an insertion, the bytes of data    *)
(*    that are still to come.                                              *)
(* 2. FixInv is inductive, one lemma per part.                             *)
(* 3. What the filter promises about its output follows from it.           *)
(***************************************************************************)
EXTENDS FixSubmodulesProperties, FiniteSetTheorems, SequenceTheorems,
        WellFoundedInduction, TLAPS

-----------------------------------------------------------------------------
(* Least and greatest elements.                                            *)

\* A set of naturals that is not empty has a least element, and Min returns it.
LEMMA MinIsMember ==
  ASSUME NEW S \in SUBSET Nat, S # {}
  PROVE  Min(S) \in S /\ \A x \in S : Min(S) <= x
<1> DEFINE R == OpToRel(<, Nat)
<1>1. \E x \in S : \A y \in S : ~ (<<y, x>> \in R)
  <2> HIDE DEF R
  <2>1. IsWellFoundedOn(R, Nat)
    BY NatLessThanWellFounded DEF R
  <2> QED  BY <2>1, WFMin
<1>2. PICK x \in S : \A y \in S : ~ (<<y, x>> \in R)
  BY <1>1
<1>3. \A y \in S : ~ (y < x)
  BY <1>2 DEF OpToRel
<1>4. \A y \in S : x <= y
  <2> x \in Nat /\ \A y \in S : y \in Nat
    OBVIOUS
  <2> QED  BY <1>3
<1> QED
  BY <1>4 DEF Min

\* A set of naturals below a bound that is not empty has a greatest element, and
\* Max returns it.
LEMMA MaxIsMember ==
  ASSUME NEW n \in Nat, NEW S \in SUBSET (0..n), S # {}
  PROVE  Max(S) \in S /\ \A x \in S : x <= Max(S)
<1> DEFINE D == {d \in Nat : n - d \in S}
<1>1. PICK x \in S : TRUE
  OBVIOUS
<1>2. n - x \in D
  OBVIOUS
<1>3. Min(D) \in D /\ \A d \in D : Min(D) <= d
  <2> HIDE DEF D
  <2> D \in SUBSET Nat
    BY DEF D
  <2> QED  BY <1>2, MinIsMember
<1>4. PICK d \in D : \A e \in D : d <= e
  BY <1>3
<1>5. \A y \in S : y <= n - d
  <2> TAKE y \in S
  <2>1. n - y \in D
    OBVIOUS
  <2>2. d <= n - y /\ d \in Nat /\ y \in Nat
    BY <1>4, <2>1
  <2> QED  BY <2>2
<1> QED
  BY <1>5 DEF Max

-----------------------------------------------------------------------------
(* find_sha_pos and the vector of marks.                                   *)

Entry == [mark : Marks, sha : Shas]

\* The entries of a list have marks, and so does what is found there.
LEMMA EntryAt ==
  ASSUME NEW list \in Seq(Entry)
  PROVE  /\ Len(list) \in Nat /\ DOMAIN list = 1..Len(list)
         /\ \A i \in 1..Len(list) :
              list[i] \in Entry /\ list[i].mark \in Marks /\ list[i].mark \in Nat /\ list[i].sha \in Shas
<1>1. Len(list) \in Nat /\ DOMAIN list = 1..Len(list) /\ \A i \in 1..Len(list) : list[i] \in Entry
  OBVIOUS
<1>2. \A e \in Entry : e.mark \in Marks /\ e.mark \in Nat /\ e.sha \in Shas
  BY FixAssumption DEF Entry
<1> QED
  BY <1>1, <1>2

\* In an ascending list lower_bound separates the smaller marks from the others.
LEMMA FindShaPosSplits ==
  ASSUME NEW list \in Seq(Entry), NEW mark \in Marks
  PROVE  /\ FindShaPos(list, mark) \in 1..Len(list) + 1
         /\ Ascending(list) =>
              /\ \A i \in 1..FindShaPos(list, mark) - 1 : list[i].mark < mark
              /\ \A i \in FindShaPos(list, mark)..Len(list) : list[i].mark >= mark
<1> DEFINE D == {i \in DOMAIN list : list[i].mark < mark}
<1>1. Len(list) \in Nat /\ DOMAIN list = 1..Len(list) /\ \A i \in 1..Len(list) : list[i].mark \in Nat
  BY EntryAt
<1>2. IsFiniteSet(1..Len(list)) /\ Cardinality(1..Len(list)) = Len(list)
  <2>1. 1 \in Int /\ Len(list) \in Int
    BY <1>1
  <2>2. /\ IsFiniteSet(1..Len(list))
        /\ Cardinality(1..Len(list)) = IF 1 > Len(list) THEN 0 ELSE Len(list) - 1 + 1
    BY <2>1, FS_Interval
  <2> QED  BY <1>1, <2>2
<1>3. Cardinality(D) \in 0..Len(list)
  <2> HIDE DEF D
  <2>1. D \in SUBSET (1..Len(list))
    BY <1>1 DEF D
  <2>2. IsFiniteSet(D) /\ Cardinality(D) <= Len(list)
    BY <1>2, <2>1, FS_Subset
  <2>3. Cardinality(D) \in Nat
    BY <2>2, FS_CardinalityType
  <2> QED  BY <1>1, <2>2, <2>3
<1>4. ASSUME Ascending(list)
      PROVE  \A i \in 1..Len(list) : list[i].mark < mark <=> i <= Cardinality(D)
  <2>1. CASE D = {}
    <3>1. Cardinality(D) = 0
      <4> HIDE DEF D
      <4> QED  BY <2>1, FS_EmptySet
    <3> QED  BY <1>1, <2>1, <3>1
  <2>2. CASE D # {}
    <3>1. Max(D) \in D /\ \A x \in D : x <= Max(D)
      <4> HIDE DEF D
      <4>1. D \in SUBSET (0..Len(list))
        BY <1>1 DEF D
      <4> QED  BY <1>1, <2>2, <4>1, MaxIsMember
    <3>2. PICK k \in D : \A x \in D : x <= k
      BY <3>1
    <3>3. \A i \in 1..k : i \in D
      BY <1>1, <1>4, <3>2, FixAssumption DEF Ascending
    <3>4. D = 1..k /\ k \in 1..Len(list)
      BY <1>1, <3>2, <3>3
    <3>5. Cardinality(D) = k
      <4> HIDE DEF D
      <4> QED  BY <3>4, FS_Interval
    <3> QED  BY <3>4, <3>5
  <2> QED  BY <2>1, <2>2
<1> HIDE DEF D
<1>5. FindShaPos(list, mark) = Cardinality(D) + 1
  BY DEF FindShaPos, D
<1> QED
  BY <1>1, <1>3, <1>4, <1>5, FixAssumption

\* A list with one entry more.
LEMMA InsertAtProperties ==
  ASSUME NEW S, NEW list \in Seq(S), NEW e \in S, NEW pos \in 1..Len(list) + 1
  PROVE  /\ InsertAt(list, pos, e) \in Seq(S)
         /\ Len(InsertAt(list, pos, e)) = Len(list) + 1
         /\ \A i \in 1..Len(list) + 1 :
              InsertAt(list, pos, e)[i] = IF i < pos THEN list[i] ELSE IF i = pos THEN e ELSE list[i - 1]
<1> DEFINE a == SubSeq(list, 1, pos - 1)
           b == SubSeq(list, pos, Len(list))
           c == a \o <<e>>
<1>1. Len(list) \in Nat /\ pos \in Nat /\ \A i \in 1..Len(list) : list[i] \in S
  OBVIOUS
<1>2. a \in Seq(S) /\ Len(a) = pos - 1 /\ \A i \in 1..pos - 1 : a[i] = list[i]
  <2>1. 1 \in Int /\ pos - 1 \in Int /\ \A i \in 1..pos - 1 : list[i] \in S
    BY <1>1
  <2>2. /\ a \in Seq(S)
        /\ Len(a) = IF 1 <= pos - 1 THEN (pos - 1) - 1 + 1 ELSE 0
        /\ \A i \in 1..(pos - 1) - 1 + 1 : a[i] = list[1 + i - 1]
    BY <2>1, SubSeqProperties
  <2> HIDE DEF a
  <2> QED  BY <1>1, <2>2
<1>3. b \in Seq(S) /\ Len(b) = Len(list) - pos + 1
      /\ \A i \in 1..Len(list) - pos + 1 : b[i] = list[pos + i - 1]
  <2>1. pos \in Int /\ Len(list) \in Int /\ \A i \in pos..Len(list) : list[i] \in S
    BY <1>1
  <2>2. /\ b \in Seq(S)
        /\ Len(b) = IF pos <= Len(list) THEN Len(list) - pos + 1 ELSE 0
        /\ \A i \in 1..Len(list) - pos + 1 : b[i] = list[pos + i - 1]
    BY <2>1, SubSeqProperties
  <2> HIDE DEF b
  <2> QED  BY <1>1, <2>2
<1> HIDE DEF a, b
<1>4. c \in Seq(S) /\ Len(c) = pos /\ \A i \in 1..pos : c[i] = IF i < pos THEN list[i] ELSE e
  <2>1. <<e>> \in Seq(S) /\ Len(<<e>>) = 1 /\ <<e>>[1] = e
    OBVIOUS
  <2>2. /\ c \in Seq(S) /\ Len(c) = Len(a) + Len(<<e>>)
        /\ \A i \in 1..Len(a) + Len(<<e>>) : c[i] = IF i <= Len(a) THEN a[i] ELSE <<e>>[i - Len(a)]
    BY <1>2, <2>1, ConcatProperties
  <2> HIDE DEF c
  <2> QED  BY <1>1, <1>2, <2>1, <2>2
<1> HIDE DEF c
<1>5. /\ c \o b \in Seq(S) /\ Len(c \o b) = Len(c) + Len(b)
      /\ \A i \in 1..Len(c) + Len(b) : (c \o b)[i] = IF i <= Len(c) THEN c[i] ELSE b[i - Len(c)]
  BY <1>3, <1>4, ConcatProperties
<1>6. InsertAt(list, pos, e) = c \o b
  BY DEF InsertAt, a, b, c
<1> DEFINE d == c \o b
<1>7. /\ d \in Seq(S) /\ Len(d) = Len(list) + 1
      /\ \A i \in 1..Len(list) + 1 : d[i] = IF i < pos THEN list[i] ELSE IF i = pos THEN e ELSE list[i - 1]
  <2> d \in Seq(S) /\ Len(d) = Len(c) + Len(b)
      /\ \A i \in 1..Len(c) + Len(b) : d[i] = IF i <= Len(c) THEN c[i] ELSE b[i - Len(c)]
    BY <1>5
  <2> HIDE DEF d
  <2> QED  BY <1>1, <1>3, <1>4
<1> QED
  BY <1>6, <1>7

\* Where the mark is not in the list yet, the list with it is ascending, and has
\* what it had and the new entry.
LEMMA InsertionAscends ==
  ASSUME NEW list \in Seq(Entry), Ascending(list), NEW e \in Entry, ~IsMapped(list, e.mark)
  PROVE  LET new == InsertAt(list, FindShaPos(list, e.mark), e)
         IN  Ascending(new) /\ ToSet(new) = ToSet(list) \cup {e}
<1>1. e.mark \in Marks /\ e.mark \in Nat
  BY FixAssumption DEF Entry
<1>2. PICK pos \in 1..Len(list) + 1 :
        /\ pos = FindShaPos(list, e.mark)
        /\ \A i \in 1..pos - 1 : list[i].mark < e.mark
        /\ \A i \in pos..Len(list) : list[i].mark >= e.mark
  BY <1>1, FindShaPosSplits
<1>3. pos <= Len(list) => list[pos].mark # e.mark
  BY <1>2 DEF IsMapped
<1> DEFINE new == InsertAt(list, pos, e)
<1>4. /\ new \in Seq(Entry) /\ Len(new) = Len(list) + 1
      /\ \A i \in 1..Len(list) + 1 : new[i] = IF i < pos THEN list[i] ELSE IF i = pos THEN e ELSE list[i - 1]
  BY InsertAtProperties
<1> HIDE DEF new
<1>5. Len(list) \in Nat /\ DOMAIN list = 1..Len(list) /\ DOMAIN new = 1..Len(list) + 1
      /\ \A i \in 1..Len(list) : list[i].mark \in Nat
  BY <1>4, EntryAt
<1>6. \A i \in pos..Len(list) : list[i].mark > e.mark
  <2> TAKE i \in pos..Len(list)
  <2>1. i = pos \/ list[pos].mark < list[i].mark
    <3>1. pos \in DOMAIN list /\ i \in DOMAIN list /\ (i = pos \/ pos < i)
      BY <1>5
    <3> QED  BY <3>1 DEF Ascending
  <2>2. list[pos].mark >= e.mark /\ list[i].mark >= e.mark /\ pos <= Len(list) /\ pos \in 1..Len(list)
    BY <1>2, <1>5
  <2>3. list[pos].mark \in Nat /\ list[i].mark \in Nat /\ e.mark \in Nat
    <3> pos \in 1..Len(list)
      BY <1>5
    <3> QED  BY <1>1, <1>2, <1>5
  <2> QED  BY <1>3, <2>1, <2>2, <2>3
<1>7. Ascending(new)
  <2> SUFFICES ASSUME NEW i \in 1..Len(list) + 1, NEW j \in 1..Len(list) + 1, i < j
               PROVE  new[i].mark < new[j].mark
    BY <1>5 DEF Ascending
  <2>1. CASE j < pos
    <3>1. i \in 1..pos - 1 /\ j \in 1..pos - 1 /\ i \in 1..Len(list) /\ j \in 1..Len(list)
      BY <1>2, <1>5, <2>1
    <3>2. new[i] = list[i] /\ new[j] = list[j]
      BY <1>2, <1>4, <3>1
    <3> QED  BY <1>5, <3>1, <3>2 DEF Ascending
  <2>2. CASE j = pos
    BY <1>2, <1>4, <1>5, <2>2
  <2>3. CASE j > pos /\ i < pos
    <3>1. new[i] = list[i] /\ new[j] = list[j - 1] /\ i \in 1..pos - 1 /\ j - 1 \in pos..Len(list)
      <4>1. j - 1 \in pos..Len(list) /\ i \in 1..pos - 1 /\ ~ (j < pos) /\ j # pos
        BY <1>5, <2>3
      <4> QED  BY <1>4, <2>3, <4>1
    <3>2. list[i].mark < e.mark /\ list[j - 1].mark > e.mark
      BY <1>2, <1>6, <3>1
    <3>3. list[i].mark \in Nat /\ list[j - 1].mark \in Nat /\ e.mark \in Nat
      BY <1>1, <1>2, <1>5, <3>1
    <3> QED  BY <3>1, <3>2, <3>3
  <2>4. CASE i = pos
    <3>1. new[i] = e /\ new[j] = list[j - 1] /\ j - 1 \in pos..Len(list)
      BY <1>2, <1>4, <1>5, <2>4
    <3>2. list[j - 1].mark > e.mark /\ j - 1 \in 1..Len(list)
      BY <1>2, <1>5, <1>6, <3>1
    <3>3. list[j - 1].mark \in Nat
      BY <1>5, <3>2
    <3> QED  BY <1>1, <3>1, <3>2, <3>3
  <2>5. CASE i > pos
    <3>1. new[i] = list[i - 1] /\ new[j] = list[j - 1] /\ i - 1 \in 1..Len(list) /\ j - 1 \in 1..Len(list)
          /\ i - 1 < j - 1
      BY <1>2, <1>4, <1>5, <2>5
    <3> QED  BY <1>5, <3>1 DEF Ascending
  <2> QED  BY <1>2, <1>5, <2>1, <2>2, <2>3, <2>4, <2>5
<1>8. ToSet(new) = ToSet(list) \cup {e}
  <2>1. ASSUME NEW i \in 1..Len(list)
        PROVE  list[i] \in ToSet(new)
    <3>1. CASE i < pos
      BY <1>4, <1>5, <3>1 DEF ToSet
    <3>2. CASE i >= pos
      <4>1. new[i + 1] = list[i] /\ i + 1 \in 1..Len(list) + 1
        BY <1>2, <1>4, <1>5, <3>2
      <4> QED  BY <1>5, <4>1 DEF ToSet
    <3> QED  BY <1>2, <1>5, <3>1, <3>2
  <2>2. new[pos] = e /\ pos \in 1..Len(list) + 1
    BY <1>2, <1>4
  <2>3. \A i \in 1..Len(list) + 1 : new[i] = e \/ \E j \in 1..Len(list) : new[i] = list[j]
    <3> TAKE i \in 1..Len(list) + 1
    <3>1. CASE i < pos
      <4>1. i \in 1..Len(list) /\ new[i] = list[i]
        BY <1>2, <1>4, <1>5, <3>1
      <4> QED  BY <4>1
    <3>2. CASE i = pos
      BY <1>4, <3>2
    <3>3. CASE i > pos
      <4>1. i - 1 \in 1..Len(list) /\ new[i] = list[i - 1]
        BY <1>2, <1>4, <1>5, <3>3
      <4> QED  BY <4>1
    <3> QED  BY <1>5, <3>1, <3>2, <3>3
  <2> QED  BY <1>5, <2>1, <2>2, <2>3 DEF ToSet
<1> QED
  BY <1>2, <1>7, <1>8 DEF new

-----------------------------------------------------------------------------
(* The bytes of data that are still to come.                               *)

\* The units of the stream; the length of data is a number.
LEMMA StreamType ==
  ASSUME stream \in Streams
  PROVE  /\ stream \in Seq(StreamUnit) /\ Len(stream) \in Nat /\ DOMAIN stream = 1..Len(stream)
         /\ \A i \in 1..Len(stream) : stream[i].kind = "data" => stream[i].length \in Nat
<1>1. stream \in Seq(StreamUnit)
  BY FixAssumption DEF StreamUnit
<1>2. \A u \in StreamUnit : u.kind = "data" => u.length \in Nat
  BY DEF StreamUnit, Gitlink, DataHeader, Line
<1>3. /\ Len(stream) \in Nat /\ DOMAIN stream = 1..Len(stream)
      /\ \A i \in 1..Len(stream) : stream[i] \in StreamUnit
  BY <1>1
<1> QED
  BY <1>1, <1>2, <1>3

\* What is left after one more unit, when b bytes were left before.
LeftAfter(b, i) ==
  IF b > 0 THEN b - 1 ELSE IF stream[i].kind = "data" THEN stream[i].length ELSE 0

\* There is a function with the equations of BytesAfter: else there would be a
\* shortest part of the stream for which there is none.
LEMMA BytesAfterExists ==
  ASSUME stream \in Streams
  PROVE  \E f \in [0..Len(stream) -> Nat] :
           f[0] = 0 /\ \A i \in 1..Len(stream) : f[i] = LeftAfter(f[i - 1], i)
<1> DEFINE Good(n) == \E f \in [0..n -> Nat] : f[0] = 0 /\ \A i \in 1..n : f[i] = LeftAfter(f[i - 1], i)
           Bad == {n \in 0..Len(stream) : ~Good(n)}
<1>1. Len(stream) \in Nat /\ \A i \in 1..Len(stream), b \in Nat : LeftAfter(b, i) \in Nat
  BY StreamType DEF LeftAfter
<1>2. Bad = {}
  <2> SUFFICES ASSUME Bad # {}
               PROVE  FALSE
    OBVIOUS
  <2>1. PICK n \in Bad : \A m \in Bad : n <= m
    <3> HIDE DEF Bad
    <3>1. Bad \in SUBSET Nat
      BY <1>1 DEF Bad
    <3> QED  BY <3>1, MinIsMember
  <2>2. n \in 0..Len(stream) /\ ~Good(n)
    BY <2>1
  <2>3. n # 0
    <3>1. [i \in 0..0 |-> 0] \in [0..0 -> Nat] /\ [i \in 0..0 |-> 0][0] = 0
      OBVIOUS
    <3>2. \A i \in 1..0 : FALSE
      OBVIOUS
    <3>3. Good(0)
      BY <3>1, <3>2, Zenon
    <3> QED  BY <2>2, <3>3
  <2>4. Good(n - 1)
    <3>1. n - 1 \in 0..Len(stream) /\ ~ (n <= n - 1)
      BY <1>1, <2>2, <2>3
    <3> HIDE DEF Good
    <3> QED  BY <2>1, <3>1
  <2>5. PICK f \in [0..n - 1 -> Nat] : f[0] = 0 /\ \A i \in 1..n - 1 : f[i] = LeftAfter(f[i - 1], i)
    BY <2>4
  <2> DEFINE g == [i \in 0..n |-> IF i = n THEN LeftAfter(f[n - 1], n) ELSE f[i]]
  <2>6. n \in Nat /\ n - 1 \in 0..n - 1 /\ n \in 1..Len(stream)
    BY <1>1, <2>2, <2>3
  <2>7. LeftAfter(f[n - 1], n) \in Nat
    BY <1>1, <2>6
  <2>8. g \in [0..n -> Nat]
    BY <2>6, <2>7
  <2>9. g[0] = 0
    BY <2>3, <2>5, <2>6
  <2>10. ASSUME NEW i \in 1..n
         PROVE  g[i] = LeftAfter(g[i - 1], i)
    <3>1. CASE i = n
      BY <2>6, <3>1
    <3>2. CASE i # n
      <4>1. i \in 1..n - 1 /\ i - 1 \in 0..n - 1 /\ i \in 0..n /\ i - 1 \in 0..n /\ i - 1 # n
        BY <2>6, <3>2
      <4>2. g[i] = f[i] /\ g[i - 1] = f[i - 1]
        BY <3>2, <4>1
      <4> HIDE DEF g
      <4> QED  BY <2>5, <4>1, <4>2
    <3> QED  BY <3>1, <3>2
  <2> HIDE DEF g
  <2>11. Good(n)
    BY <2>8, <2>9, <2>10
  <2> QED  BY <2>2, <2>11
<1>3. Good(Len(stream))
  <2> HIDE DEF Good
  <2> QED  BY <1>1, <1>2
<1> QED
  BY <1>3

\* So BytesAfter has its equations, and its values are numbers.
LEMMA BytesAfterDefined ==
  ASSUME stream \in Streams
  PROVE  /\ BytesAfter \in [0..Len(stream) -> Nat] /\ BytesAfter[0] = 0
         /\ \A i \in 1..Len(stream) : BytesAfter[i] = LeftAfter(BytesAfter[i - 1], i)
<1> DEFINE F(f) == [i \in 0..Len(stream) |->
                      IF i = 0 THEN 0
                      ELSE IF f[i - 1] > 0 THEN f[i - 1] - 1
                      ELSE IF stream[i].kind = "data" THEN stream[i].length ELSE 0]
<1>1. Len(stream) \in Nat /\ \A i \in 1..Len(stream), b \in Nat : LeftAfter(b, i) \in Nat
  BY StreamType DEF LeftAfter
<1>2. PICK f \in [0..Len(stream) -> Nat] :
        f[0] = 0 /\ \A i \in 1..Len(stream) : f[i] = LeftAfter(f[i - 1], i)
  BY BytesAfterExists
<1>3. f = F(f)
  <2>1. \A i \in 0..Len(stream) : i = 0 \/ i \in 1..Len(stream)
    BY <1>1
  <2>2. \A i \in 0..Len(stream) : f[i] = F(f)[i]
    BY <1>2, <2>1 DEF LeftAfter
  <2> QED  BY <2>2
<1>4. BytesAfter = CHOOSE b : b = F(b)
  BY DEF BytesAfter
<1> HIDE DEF F
<1>5. BytesAfter = F(BytesAfter)
  BY <1>3, <1>4, Zenon
<1> USE DEF F
<1>6. /\ DOMAIN BytesAfter = 0..Len(stream) /\ BytesAfter[0] = 0
      /\ \A i \in 1..Len(stream) : BytesAfter[i] = LeftAfter(BytesAfter[i - 1], i)
  <2>1. \A i \in 0..Len(stream) : BytesAfter[i] = F(BytesAfter)[i]
    BY <1>5
  <2>2. 0 \in 0..Len(stream) /\ \A i \in 1..Len(stream) : i \in 0..Len(stream) /\ i # 0
    BY <1>1
  <2>3. \A i \in 0..Len(stream) :
          F(BytesAfter)[i] = IF i = 0 THEN 0
                             ELSE IF BytesAfter[i - 1] > 0 THEN BytesAfter[i - 1] - 1
                             ELSE IF stream[i].kind = "data" THEN stream[i].length ELSE 0
    OBVIOUS
  <2>4. DOMAIN BytesAfter = DOMAIN F(BytesAfter)
    BY <1>5
  <2>5. DOMAIN F(BytesAfter) = 0..Len(stream)
    OBVIOUS
  <2> HIDE DEF F
  <2> QED  BY <2>1, <2>2, <2>3, <2>4, <2>5 DEF LeftAfter
<1>7. \A i \in 0..Len(stream) : BytesAfter[i] \in Nat
  <2> DEFINE Bad == {i \in 0..Len(stream) : BytesAfter[i] \notin Nat}
  <2> SUFFICES ASSUME Bad # {}
               PROVE  FALSE
    OBVIOUS
  <2>1. PICK n \in Bad : \A m \in Bad : n <= m
    <3> HIDE DEF Bad
    <3>1. Bad \in SUBSET Nat
      BY <1>1 DEF Bad
    <3> QED  BY <3>1, MinIsMember
  <2>2. n \in 1..Len(stream) /\ n - 1 \in 0..Len(stream) /\ ~ (n <= n - 1)
    BY <1>1, <1>6, <2>1
  <2>3. BytesAfter[n - 1] \in Nat
    BY <2>1, <2>2
  <2> QED  BY <1>1, <1>6, <2>1, <2>2, <2>3
<1>8. \E b : BytesAfter = [i \in 0..Len(stream) |-> b[i]]
  BY <1>5
<1> QED
  BY <1>6, <1>7, <1>8

\* Inside of data, every unit takes one byte.
LEMMA BytesAfterDown ==
  ASSUME stream \in Streams, NEW k \in 0..Len(stream),
         NEW j \in 0..BytesAfter[k], k + j <= Len(stream)
  PROVE  BytesAfter[k + j] = BytesAfter[k] - j
<1> DEFINE Bad == {i \in 0..j : BytesAfter[k + i] # BytesAfter[k] - i}
<1>1. Len(stream) \in Nat /\ BytesAfter[k] \in Nat /\ j \in Nat /\ k \in Nat
  <2>1. Len(stream) \in Nat /\ BytesAfter \in [0..Len(stream) -> Nat]
    BY StreamType, BytesAfterDefined
  <2>2. BytesAfter[k] \in Nat
    BY <2>1
  <2> QED  BY <2>1, <2>2
<1> SUFFICES ASSUME Bad # {}
             PROVE  FALSE
  BY <1>1
<1>2. PICK n \in Bad : \A m \in Bad : n <= m
  <2> HIDE DEF Bad
  <2>1. Bad \in SUBSET Nat
    BY <1>1 DEF Bad
  <2> QED  BY <2>1, MinIsMember
<1>3. n # 0 /\ n \in 1..j
  BY <1>1, <1>2
<1>4. n - 1 \in 0..j /\ ~ (n <= n - 1)
  BY <1>1, <1>3
<1>5. BytesAfter[k + (n - 1)] = BytesAfter[k] - (n - 1)
  BY <1>2, <1>4
<1>6. k + n \in 1..Len(stream) /\ (k + n) - 1 = k + (n - 1)
  BY <1>1, <1>3
<1>7. BytesAfter[k + n] = LeftAfter(BytesAfter[k + (n - 1)], k + n)
  BY <1>6, BytesAfterDefined
<1>8. BytesAfter[k] - (n - 1) > 0
  BY <1>1, <1>3
<1>9. BytesAfter[k + n] = (BytesAfter[k] - (n - 1)) - 1
  BY <1>5, <1>7, <1>8 DEF LeftAfter
<1> QED
  BY <1>1, <1>2, <1>3, <1>9

-----------------------------------------------------------------------------
(* The rules that say something about a super-module.                      *)

\* A repository with a super-module has a rule that names it, and a path.
LEMMA SubmoduleHasRule ==
  ASSUME TypeOK, NEW r \in Repos, SubmoduleOf(r) # NoRepo
  PROVE  /\ RulesOf(r) # {} /\ Max(RulesOf(r)) \in RulesOf(r)
         /\ \A i \in RulesOf(r) : i <= Max(RulesOf(r))
         /\ PathOf(r) \in Paths /\ SubmoduleOf(r) = rules[Max(RulesOf(r))].inRepo
<1>1. rules \in Seq(RepoRule)
  BY FixAssumption DEF TypeOK
<1>2. Len(rules) \in Nat /\ DOMAIN rules = 1..Len(rules) /\ \A i \in 1..Len(rules) : rules[i] \in RepoRule
  BY <1>1
<1>3. RulesOf(r) # {} /\ SubmoduleOf(r) = rules[Max(RulesOf(r))].inRepo
  BY DEF SubmoduleOf
<1>4. RulesOf(r) \in SUBSET (0..Len(rules))
  BY <1>2 DEF RulesOf
<1>5. Max(RulesOf(r)) \in RulesOf(r) /\ \A i \in RulesOf(r) : i <= Max(RulesOf(r))
  BY <1>2, <1>3, <1>4, MaxIsMember
<1>6. rules[Max(RulesOf(r))] \in RepoRule
  BY <1>2, <1>5 DEF RulesOf
<1> QED
  BY <1>3, <1>5, <1>6 DEF PathOf, RepoRule

\* The repository whose marks file is being read.
LEMMA ReadingIsMember ==
  ASSUME TypeOK, toRead # {}
  PROVE  Reading \in toRead /\ Reading \in Repos /\ \A r \in toRead : Reading <= r
<1>1. toRead \in SUBSET Nat /\ toRead \subseteq Repos
  BY FixAssumption DEF TypeOK
<1> QED
  BY <1>1, MinIsMember DEF Reading

\* What is in a marks file.
LEMMA MarksFileType ==
  ASSUME TypeOK, NEW r \in Repos
  PROVE  /\ files[r] \in Seq(MarksLine) /\ Len(files[r]) \in Nat /\ DOMAIN files[r] = 1..Len(files[r])
         /\ \A i \in 1..Len(files[r]) : files[r][i] \in MarksLine
<1>1. files \in [Repos -> Seq(MarksLine)]
  BY FixAssumption DEF TypeOK
<1> QED
  BY <1>1

\* Opening the first of some marks files.
LEMMA OpenMarksFileType ==
  ASSUME TypeOK, NEW repos, repos \subseteq Repos, OpenMarksFile(repos)
  PROVE  /\ toRead' = repos /\ line' \in Seq(MarksLine) /\ newline' \in BOOLEAN
         /\ repos # {} => line' = files[Min(repos)] /\ Min(repos) \in repos
<1>1. ASSUME repos # {}
      PROVE  Min(repos) \in repos
  <2>1. repos \in SUBSET Nat
    BY FixAssumption
  <2> QED  BY <1>1, <2>1, MinIsMember
<1>2. repos # {} => files[Min(repos)] \in Seq(MarksLine)
  BY <1>1, MarksFileType
<1> QED
  BY <1>1, <1>2 DEF OpenMarksFile

-----------------------------------------------------------------------------
(* Type correctness.                                                       *)

\* Initially nothing is read.
LEMMA InitType ==
  ASSUME Init
  PROVE  TypeOK
<1>1. stream \in Seq(StreamUnit) /\ in = stream
  BY StreamType DEF Init
<1>2. << >> \in Seq(MarksLine) /\ << >> \in Seq(Unit) /\ << >> \in Seq([mark : Marks, sha : Shas])
  OBVIOUS
<1> QED
  BY <1>1, <1>2 DEF Init, TypeOK

\* The marks files that are selected are those of repositories.
LEMMA SelectSubmodulesType ==
  ASSUME TypeOK, SelectSubmodules
  PROVE  TypeOK'
<1> DEFINE repos == {r \in RepoStore : SubmoduleOf(r) = Target}
<1>1. RepoStore \subseteq Repos
  <2>1. rules \in Seq(RepoRule)
    BY FixAssumption DEF TypeOK
  <2>2. \A i \in DOMAIN rules : rules[i] \in RepoRule
    BY <2>1
  <2> QED  BY <2>2 DEF RepoStore, RepoRule
<1>2. repos \subseteq Repos
  BY <1>1
<1>3. toRead' \subseteq Repos /\ line' \in Seq(MarksLine) /\ newline' \in BOOLEAN
  <2>1. CASE OpenMarksFile(repos)
    <3> HIDE DEF repos
    <3> QED  BY <1>2, <2>1, OpenMarksFileType
  <2>2. CASE UNCHANGED <<toRead, line, newline>>
    BY <2>2 DEF TypeOK
  <2> QED  BY <2>1, <2>2 DEF SelectSubmodules
<1>4. pc' \in {"marks", "failed"}
  BY DEF SelectSubmodules
<1> QED
  BY <1>3, <1>4 DEF SelectSubmodules, TypeOK, inputs, streamVars

\* The path of a repository that is a submodule is a path.
LEMMA NextMarksFileType ==
  ASSUME TypeOK, SelectInv, NextMarksFile
  PROVE  TypeOK'
<1>1. toRead # {} /\ Reading \in toRead /\ Reading \in Repos
  BY ReadingIsMember DEF NextMarksFile
<1>2. SubmoduleOf(Reading) = Target /\ Target # NoRepo
  BY <1>1, FixAssumption DEF SelectInv
<1>3. PathOf(Reading) \in Paths
  BY <1>1, <1>2, SubmoduleHasRule
<1>4. toRead' \subseteq Repos /\ line' \in Seq(MarksLine) /\ newline' \in BOOLEAN
  <2>1. toRead \ {Reading} \subseteq Repos
    BY DEF TypeOK
  <2>2. OpenMarksFile(toRead \ {Reading})
    BY DEF NextMarksFile
  <2> QED  BY <2>1, <2>2, OpenMarksFileType
<1>5. DOMAIN submodules' \subseteq Paths /\ \A x \in DOMAIN submodules' : submodules'[x] \in Repos
  BY <1>1, <1>3 DEF NextMarksFile, TypeOK
<1> QED
  BY <1>4, <1>5 DEF NextMarksFile, TypeOK, inputs, streamVars

\* What is inserted: an entry, with a mark that is a number.
LEMMA ReadMarkInserts ==
  ASSUME TypeOK, ReadMark, pc' # "failed"
  PROVE  LET l == Head(line)
             e == [mark |-> l.mark, sha |-> l.sha]
             list == mark2sha[Reading]
         IN  /\ Reading \in toRead /\ Reading \in Repos
             /\ line # << >> /\ l \in MarksLine /\ l.mark # NotANumber
             /\ e \in Entry /\ list \in Seq(Entry) /\ ~IsMapped(list, e.mark)
             /\ FindShaPos(list, e.mark) \in 1..Len(list) + 1
             /\ mark2sha' = [mark2sha EXCEPT ![Reading] = InsertAt(list, FindShaPos(list, e.mark), e)]
             /\ InsertAt(list, FindShaPos(list, e.mark), e) \in Seq(Entry)
             /\ line' = Tail(line) /\ line' \in Seq(MarksLine)
             /\ pc = "marks" /\ pc' = "marks" /\ newline' = TRUE
<1> DEFINE l == Head(line)
           e == [mark |-> l.mark, sha |-> l.sha]
           list == mark2sha[Reading]
<1>1. Reading \in toRead /\ Reading \in Repos
  BY ReadingIsMember DEF ReadMark
<1>2. line # << >> /\ line \in Seq(MarksLine) /\ l \in MarksLine /\ Tail(line) \in Seq(MarksLine)
  BY HeadTailProperties DEF ReadMark, TypeOK
<1>3. l.mark # NotANumber
  BY <1>2 DEF ReadMark, MarksFileEnds
<1>4. e \in Entry
  BY <1>2, <1>3 DEF MarksLine, Entry
<1>5. mark2sha \in [Repos -> Seq(Entry)]
  BY DEF TypeOK, Entry
<1>6. list \in Seq(Entry)
  BY <1>1, <1>5
<1>7. /\ ~IsMapped(list, l.mark) /\ line' = Tail(line) /\ newline' = TRUE /\ UNCHANGED pc
      /\ mark2sha' = [mark2sha EXCEPT ![Reading] = InsertAt(@, FindShaPos(@, l.mark), e)]
  BY DEF ReadMark
<1>8. mark2sha' = [mark2sha EXCEPT ![Reading] = InsertAt(list, FindShaPos(list, l.mark), e)]
  BY <1>1, <1>5, <1>7
<1>9. FindShaPos(list, l.mark) \in 1..Len(list) + 1
  <2>1. l.mark \in Marks
    BY <1>2, <1>3 DEF MarksLine
  <2> HIDE DEF list, l
  <2> QED  BY <1>6, <2>1, FindShaPosSplits
<1>10. InsertAt(list, FindShaPos(list, l.mark), e) \in Seq(Entry)
  <2> HIDE DEF list, l, e
  <2> QED  BY <1>4, <1>6, <1>9, InsertAtProperties
<1>11. pc = "marks" /\ e.mark = l.mark
  BY DEF ReadMark
<1> HIDE DEF list, e
<1>12. pc' = "marks"
  BY <1>7, <1>11
<1> QED
  BY <1>1, <1>2, <1>3, <1>4, <1>6, <1>7, <1>8, <1>9, <1>10, <1>11, <1>12 DEF list, e

LEMMA ReadMarkType ==
  ASSUME TypeOK, ReadMark
  PROVE  TypeOK'
<1>1. CASE pc' = "failed"
  <2>1. UNCHANGED <<mark2sha, line, newline>>
    BY <1>1 DEF ReadMark
  <2> QED  BY <1>1, <2>1 DEF ReadMark, TypeOK, inputs, streamVars
<1>2. CASE pc' # "failed"
  <2>1. mark2sha \in [Repos -> Seq(Entry)]
    BY DEF TypeOK, Entry
  <2>2. mark2sha' \in [Repos -> Seq(Entry)] /\ line' \in Seq(MarksLine) /\ newline' = TRUE /\ pc' = "marks"
    BY <1>2, <2>1, ReadMarkInserts
  <2> QED  BY <2>2 DEF ReadMark, TypeOK, Entry, inputs, streamVars
<1> QED
  BY <1>1, <1>2

\* The next unit of the stream.
LEMMA HeadOfIn ==
  ASSUME TypeOK, in # << >>
  PROVE  /\ Head(in) \in StreamUnit /\ Head(in) = in[1] /\ Tail(in) \in Seq(StreamUnit)
         /\ Len(in) \in Nat \ {0} /\ Len(Tail(in)) = Len(in) - 1
         /\ \A i \in 1..Len(in) - 1 : Tail(in)[i] = in[i + 1]
         /\ Head(in).kind = "gitlink" => Head(in) \in Gitlink
         /\ Head(in).kind = "data" => Head(in).length \in Nat
<1>1. in \in Seq(StreamUnit)
  BY DEF TypeOK
<1>2. /\ Head(in) \in StreamUnit /\ Head(in) = in[1] /\ Tail(in) \in Seq(StreamUnit)
      /\ Len(in) \in Nat \ {0} /\ Len(Tail(in)) = Len(in) - 1
      /\ \A i \in 1..Len(Tail(in)) : Tail(in)[i] = in[i + 1]
  BY <1>1, HeadTailProperties, EmptySeq
<1>3. \A u \in StreamUnit : (u.kind = "gitlink" => u \in Gitlink) /\ (u.kind = "data" => u.length \in Nat)
  BY DEF StreamUnit, Gitlink, DataHeader, Line
<1> QED
  BY <1>2, <1>3

\* A line with a submodule ends the program, or a hash is written: one that was
\* found for its mark, unless the end of the vector has been dereferenced.
LEMMA FixGitlinkWrites ==
  ASSUME TypeOK, FixGitlink
  PROVE  /\ pc = "stream" /\ length = 0 /\ in # << >> /\ Head(in) \in Gitlink
         /\ pastEnd' \in BOOLEAN /\ (pastEnd => pastEnd')
         /\ \/ pc' \in {"failed", "aborted", "crashed"} /\ UNCHANGED <<in, out, length>>
            \/ \E sha \in Shas \cup {Garbage} :
                 /\ out' = Append(out, [kind |-> "fixed", sha |-> sha, path |-> Head(in).path])
                 /\ in' = Tail(in) /\ UNCHANGED <<pc, length>>
                 /\ ~pastEnd' =>
                      /\ Head(in).path \in DOMAIN submodules
                      /\ \E e \in ToSet(mark2sha[submodules[Head(in).path]]) :
                           e.mark = Head(in).mark /\ e.sha = sha
<1> DEFINE l == Head(in)
           list == mark2sha[submodules[l.path]]
           pos == FindShaPos(list, l.mark)
<1>1. pc = "stream" /\ length = 0 /\ in # << >> /\ l \in Gitlink
  BY HeadOfIn DEF FixGitlink, AtLine
<1>2. CASE /\ l.mark = NotANumber /\ StreamEnds("failed") /\ UNCHANGED pastEnd
  BY <1>1, <1>2 DEF StreamEnds, TypeOK
<1>3. CASE /\ l.mark # NotANumber /\ l.path \notin DOMAIN submodules
           /\ StreamEnds("aborted") /\ UNCHANGED pastEnd
  BY <1>1, <1>3 DEF StreamEnds, TypeOK
<1>4. CASE /\ l.mark # NotANumber /\ l.path \in DOMAIN submodules /\ pos <= Len(list)
           /\ IF SameMark(list[pos], l.mark) THEN WriteFixed(list[pos].sha) ELSE StreamEnds("failed")
           /\ UNCHANGED pastEnd
  <2>1. CASE SameMark(list[pos], l.mark)
    <3>1. l.mark \in Marks
      BY <1>1, <1>4 DEF Gitlink
    <3>2. list \in Seq(Entry)
      BY <1>4 DEF TypeOK, Entry
    <3>3. pos \in 1..Len(list) + 1
      <4> HIDE DEF list, l
      <4> QED  BY <3>1, <3>2, FindShaPosSplits
    <3>4. pos \in DOMAIN list /\ list[pos].sha \in Shas
      <4>1. Len(list) \in Nat /\ pos <= Len(list)
        BY <1>4, <3>2
      <4> HIDE DEF list, pos
      <4>2. pos \in 1..Len(list)
        BY <3>3, <4>1
      <4> QED  BY <3>2, <4>2, EntryAt
    <3>5. list[pos] \in ToSet(list) /\ list[pos].mark = l.mark
      BY <2>1, <3>4 DEF ToSet, SameMark
    <3>6. WriteFixed(list[pos].sha) /\ UNCHANGED pastEnd /\ l.path \in DOMAIN submodules
      BY <1>4, <2>1
    <3> HIDE DEF pos
    <3> QED  BY <1>1, <3>4, <3>5, <3>6 DEF WriteFixed, TypeOK
  <2>2. CASE ~SameMark(list[pos], l.mark)
    <3>1. StreamEnds("failed") /\ UNCHANGED pastEnd
      BY <1>4, <2>2
    <3> QED  BY <1>1, <3>1 DEF StreamEnds, TypeOK
  <2> QED  BY <2>1, <2>2
<1>5. CASE /\ l.mark # NotANumber /\ l.path \in DOMAIN submodules /\ pos > Len(list)
           /\ pastEnd' = TRUE
           /\ WriteFixed(Garbage) \/ StreamEnds("failed") \/ StreamEnds("crashed")
  BY <1>1, <1>5 DEF StreamEnds, WriteFixed
<1> QED
  BY <1>2, <1>3, <1>4, <1>5 DEF FixGitlink

LEMMA FixGitlinkType ==
  ASSUME TypeOK, FixGitlink
  PROVE  TypeOK'
<1>1. in # << >> /\ Head(in) \in Gitlink /\ pastEnd' \in BOOLEAN
  BY FixGitlinkWrites
<1>2. UNCHANGED <<inputs, marksVars>>
  BY DEF FixGitlink
<1>3. CASE pc' \in {"failed", "aborted", "crashed"} /\ UNCHANGED <<in, out, length>>
  BY <1>1, <1>2, <1>3 DEF TypeOK, inputs, marksVars
<1>4. ASSUME NEW sha \in Shas \cup {Garbage},
             out' = Append(out, [kind |-> "fixed", sha |-> sha, path |-> Head(in).path]),
             in' = Tail(in), UNCHANGED <<pc, length>>
      PROVE  TypeOK'
  <2>1. [kind |-> "fixed", sha |-> sha, path |-> Head(in).path] \in Unit
    BY <1>1 DEF Unit, Fixed, Gitlink
  <2>2. out' \in Seq(Unit)
    <3>1. out \in Seq(Unit)
      BY DEF TypeOK
    <3> QED  BY <1>4, <2>1, <3>1, AppendProperties
  <2>3. in' \in Seq(StreamUnit)
    BY <1>1, <1>4, HeadOfIn
  <2> QED  BY <1>1, <1>2, <1>4, <2>2, <2>3 DEF TypeOK, inputs, marksVars
<1> QED
  BY <1>3, <1>4, FixGitlinkWrites

LEMMA CopyLineType ==
  ASSUME TypeOK, CopyLine
  PROVE  TypeOK'
<1>1. in # << >>
  BY DEF CopyLine, AtLine
<1>2. Head(in) \in Unit /\ in' \in Seq(StreamUnit) /\ length' \in Nat
  BY <1>1, HeadOfIn DEF CopyLine, Unit
<1>3. out' \in Seq(Unit)
  <2>1. out \in Seq(Unit) /\ out' = Append(out, Head(in))
    BY DEF TypeOK, CopyLine
  <2> QED  BY <1>2, <2>1, AppendProperties
<1> QED
  BY <1>2, <1>3 DEF CopyLine, TypeOK, inputs, marksVars

\* What a read of data does: a byte of the stream is copied wherever there is
\* one, and the rest of the buffer is written behind them.
LEMMA CopyDataWrites ==
  ASSUME TypeOK, CopyData
  PROVE  \E w \in 1..length : \E b \in 0..w :
           /\ b = Smaller(w, Len(in)) /\ pc = "stream"
           /\ length' = length - w
           /\ in' = SubSeq(in, b + 1, Len(in)) /\ in' \in Seq(StreamUnit) /\ Len(in') = Len(in) - b
           /\ \A i \in 1..Len(in) - b : in'[i] = in[b + i]
           /\ out' \in Seq(Unit) /\ Len(out') = Len(out) + w
           /\ \A i \in 1..Len(out) : out'[i] = out[i]
           /\ \A i \in 1..b : out'[Len(out) + i] = in[i]
           /\ \A i \in b + 1..w : out'[Len(out) + i] = [kind |-> "garbage"]
<1> DEFINE w == Wanted
           b == Smaller(w, Len(in))
           bytes == BytesRead(w)
           rest == [i \in 1..(w - Len(bytes)) |-> [kind |-> "garbage"]]
<1>1. length \in Nat /\ length > 0 /\ pc = "stream"
  BY DEF CopyData, TypeOK
<1>2. in \in Seq(StreamUnit) /\ Len(in) \in Nat /\ out \in Seq(Unit) /\ Len(out) \in Nat
      /\ \A i \in 1..Len(in) : in[i] \in StreamUnit
  BY DEF TypeOK
<1>3. w \in 1..length
  BY <1>1, FixAssumption DEF Wanted, Smaller
<1>4. out' = out \o bytes \o rest /\ in' = SubSeq(in, Len(bytes) + 1, Len(in)) /\ length' = length - w
  BY DEF CopyData
<1> HIDE DEF w
<1>5. b \in 0..w /\ b <= Len(in)
  BY <1>2, <1>3 DEF Smaller
<1>6. bytes \in Seq(StreamUnit) /\ Len(bytes) = b /\ \A i \in 1..b : bytes[i] = in[i]
  <2>1. bytes = SubSeq(in, 1, b)
    BY DEF BytesRead
  <2> HIDE DEF b, bytes
  <2>2. 1 \in Int /\ b \in Int /\ \A i \in 1..b : in[i] \in StreamUnit
    BY <1>2, <1>3, <1>5
  <2>3. /\ SubSeq(in, 1, b) \in Seq(StreamUnit)
        /\ Len(SubSeq(in, 1, b)) = IF 1 <= b THEN b - 1 + 1 ELSE 0
        /\ \A i \in 1..b - 1 + 1 : SubSeq(in, 1, b)[i] = in[1 + i - 1]
    BY <2>2, SubSeqProperties
  <2> QED  BY <1>5, <2>1, <2>2, <2>3
<1> HIDE DEF b, bytes
<1>7. in' \in Seq(StreamUnit) /\ Len(in') = Len(in) - b /\ \A i \in 1..Len(in) - b : in'[i] = in[b + i]
  <2>1. b + 1 \in Int /\ Len(in) \in Int /\ \A i \in b + 1..Len(in) : in[i] \in StreamUnit
    BY <1>2, <1>3, <1>5
  <2>2. /\ SubSeq(in, b + 1, Len(in)) \in Seq(StreamUnit)
        /\ Len(SubSeq(in, b + 1, Len(in))) = IF b + 1 <= Len(in) THEN Len(in) - (b + 1) + 1 ELSE 0
        /\ \A i \in 1..Len(in) - (b + 1) + 1 : SubSeq(in, b + 1, Len(in))[i] = in[(b + 1) + i - 1]
    BY <2>1, SubSeqProperties
  <2>3. in' = SubSeq(in, b + 1, Len(in))
    BY <1>4, <1>6
  <2>4. Len(in) - (b + 1) + 1 = Len(in) - b /\ \A i \in 1..Len(in) - b : (b + 1) + i - 1 = b + i
    BY <1>2, <1>3, <1>5
  <2>5. Len(in') = Len(in) - b
    <3>1. b \in Int /\ Len(in) \in Int
      BY <1>2, <1>3, <1>5
    <3> QED  BY <1>5, <2>2, <2>3, <3>1
  <2>6. \A i \in 1..Len(in) - b : in'[i] = in[b + i]
    BY <2>2, <2>3, <2>4
  <2> QED  BY <2>2, <2>3, <2>5, <2>6
<1>8. rest \in Seq(Unit) /\ Len(rest) = w - b /\ \A i \in 1..w - b : rest[i] = [kind |-> "garbage"]
  <2>1. w - b \in Nat
    BY <1>3, <1>5
  <2>2. [kind |-> "garbage"] \in Unit
    BY DEF Unit
  <2>3. rest = [i \in 1..w - b |-> [kind |-> "garbage"]]
    BY <1>6
  <2>4. rest \in [1..w - b -> Unit]
    BY <2>2, <2>3
  <2>5. rest \in Seq(Unit) /\ Len(rest) = w - b
    <3> HIDE DEF rest
    <3> QED  BY <2>1, <2>4
  <2> QED  BY <2>3, <2>5
<1> HIDE DEF rest
<1>9. /\ out \o bytes \in Seq(Unit) /\ Len(out \o bytes) = Len(out) + b
      /\ \A i \in 1..Len(out) + b : (out \o bytes)[i] = IF i <= Len(out) THEN out[i] ELSE bytes[i - Len(out)]
  <2>1. bytes \in Seq(Unit)
    <3> StreamUnit \subseteq Unit
      BY DEF Unit
    <3> QED  BY <1>6, SeqMonotonic
  <2> QED  BY <1>2, <1>6, <2>1, ConcatProperties
<1> DEFINE head == out \o bytes
<1>10. /\ head \in Seq(Unit) /\ Len(head) = Len(out) + b
       /\ \A i \in 1..Len(out) : head[i] = out[i]
       /\ \A i \in 1..b : head[Len(out) + i] = in[i]
  <2>1. \A i \in 1..Len(out) : i \in 1..Len(out) + b /\ i <= Len(out)
    BY <1>2, <1>3, <1>5
  <2>2. \A i \in 1..b : Len(out) + i \in 1..Len(out) + b /\ ~ (Len(out) + i <= Len(out))
                        /\ Len(out) + i - Len(out) = i
    BY <1>2, <1>3, <1>5
  <2> QED  BY <1>6, <1>9, <2>1, <2>2
<1>11. out' = head \o rest
  BY <1>4
<1> HIDE DEF head
<1>12. /\ head \o rest \in Seq(Unit) /\ Len(head \o rest) = Len(head) + Len(rest)
       /\ \A i \in 1..Len(head) + Len(rest) :
            (head \o rest)[i] = IF i <= Len(head) THEN head[i] ELSE rest[i - Len(head)]
  BY <1>8, <1>10, ConcatProperties
<1>13. out' \in Seq(Unit) /\ Len(out') = Len(out) + w
  BY <1>2, <1>3, <1>5, <1>8, <1>10, <1>11, <1>12
<1>14. /\ \A i \in 1..Len(out) : out'[i] = out[i]
       /\ \A i \in 1..b : out'[Len(out) + i] = in[i]
       /\ \A i \in b + 1..w : out'[Len(out) + i] = [kind |-> "garbage"]
  <2>1. \A i \in 1..Len(out) : i \in 1..Len(head) + Len(rest) /\ i <= Len(head)
    BY <1>2, <1>3, <1>5, <1>8, <1>10
  <2>2. \A i \in 1..b : Len(out) + i \in 1..Len(head) + Len(rest) /\ Len(out) + i <= Len(head)
    BY <1>2, <1>3, <1>5, <1>8, <1>10
  <2>3. \A i \in b + 1..w : /\ Len(out) + i \in 1..Len(head) + Len(rest) /\ ~ (Len(out) + i <= Len(head))
                            /\ Len(out) + i - Len(head) \in 1..w - b
    BY <1>2, <1>3, <1>5, <1>8, <1>10
  <2>4. \A i \in 1..Len(out) : out'[i] = out[i]
    BY <1>10, <1>11, <1>12, <2>1
  <2>5. \A i \in 1..b : out'[Len(out) + i] = in[i]
    BY <1>10, <1>11, <1>12, <2>2
  <2>6. \A i \in b + 1..w : out'[Len(out) + i] = [kind |-> "garbage"]
    BY <1>8, <1>11, <1>12, <2>3
  <2> QED  BY <2>4, <2>5, <2>6
<1>15. in' = SubSeq(in, b + 1, Len(in))
  BY <1>4, <1>6
<1> QED
  BY <1>1, <1>3, <1>4, <1>5, <1>7, <1>13, <1>14, <1>15 DEF b

LEMMA CopyDataType ==
  ASSUME TypeOK, CopyData
  PROVE  TypeOK'
<1>1. in' \in Seq(StreamUnit) /\ out' \in Seq(Unit) /\ length' \in Nat
  <2>1. PICK w \in 1..length : in' \in Seq(StreamUnit) /\ out' \in Seq(Unit) /\ length' = length - w
    BY CopyDataWrites
  <2>2. length \in Nat
    BY DEF TypeOK
  <2> QED  BY <2>1, <2>2
<1> QED
  BY <1>1 DEF CopyData, TypeOK, inputs, marksVars

\* Every step keeps the types.
LEMMA NextType ==
  ASSUME TypeOK, SelectInv, [Next]_vars
  PROVE  TypeOK'
<1>1. CASE MarksRead \/ MarksFileMissing \/ Finish
  BY <1>1 DEF MarksRead, MarksFileMissing, Finish, TypeOK, inputs, marksVars, streamVars
<1>2. CASE UNCHANGED vars
  BY <1>2 DEF vars, TypeOK, inputs, marksVars, streamVars
<1> QED
  BY <1>1, <1>2, SelectSubmodulesType, NextMarksFileType, ReadMarkType, FixGitlinkType, CopyLineType,
     CopyDataType DEF Next

-----------------------------------------------------------------------------
(* The repositories that are selected.                                     *)

\* The ruleset does not change, so that the invariant may be shown with the rules
\* as they were.
LEMMA SelectInvNext ==
  ASSUME UNCHANGED rules,
         \A r \in toRead' : SubmoduleOf(r) = Target,
         \A x \in DOMAIN submodules' : SubmoduleOf(submodules'[x]) = Target /\ PathOf(submodules'[x]) = x,
         pc' \in {"stream", "done"} => toRead' = {},
         pc' \in {"marks", "stream", "done"} =>
           \A r \in Repos : SubmoduleOf(r) = Target => r \in toRead' \/ PathOf(r) \in DOMAIN submodules'
  PROVE  SelectInv'
BY DEF SelectInv, SubmoduleOf, PathOf, RulesOf

\* Every repository with the target as its super-module is selected, and visited
\* with the path of its last rule.
LEMMA NextSelect ==
  ASSUME TypeOK, ReadInv, SelectInv, [Next]_vars
  PROVE  SelectInv'
<1>1. CASE SelectSubmodules
  <2>1. pc = "rules" /\ toRead = {} /\ DOMAIN submodules = {} /\ submodules' = submodules /\ rules' = rules
    BY <1>1 DEF SelectSubmodules, ReadInv, inputs
  <2>2. CASE Target \notin RepoStore
    <3>1. pc' = "failed" /\ toRead' = toRead
      BY <1>1, <2>2 DEF SelectSubmodules
    <3> QED  BY <2>1, <3>1, SelectInvNext
  <2>3. CASE Target \in RepoStore
    <3>1. pc' = "marks" /\ toRead' = {r \in RepoStore : SubmoduleOf(r) = Target}
      BY <1>1, <2>3 DEF SelectSubmodules, OpenMarksFile
    <3>2. ASSUME NEW r \in Repos, SubmoduleOf(r) = Target
          PROVE  r \in toRead'
      <4>1. RulesOf(r) # {}
        BY <3>2, SubmoduleHasRule, FixAssumption
      <4>2. r \in RepoStore
        BY <4>1 DEF RulesOf, RepoStore
      <4> QED  BY <3>1, <3>2, <4>2
    <3> QED  BY <2>1, <3>1, <3>2, SelectInvNext
  <2> QED  BY <2>2, <2>3
<1>2. CASE NextMarksFile
  <2>1. /\ pc = "marks" /\ pc' = "marks" /\ rules' = rules /\ toRead' = toRead \ {Reading}
        /\ submodules' = [p \in DOMAIN submodules \cup {PathOf(Reading)} |->
                            IF p = PathOf(Reading) THEN Reading ELSE submodules[p]]
    BY <1>2 DEF NextMarksFile, OpenMarksFile, inputs
  <2>2. Reading \in toRead /\ SubmoduleOf(Reading) = Target
    BY <1>2, ReadingIsMember DEF NextMarksFile, SelectInv
  <2>3. \A x \in DOMAIN submodules' : SubmoduleOf(submodules'[x]) = Target /\ PathOf(submodules'[x]) = x
    <3> TAKE x \in DOMAIN submodules'
    <3>1. CASE x = PathOf(Reading)
      <4>1. submodules'[x] = Reading
        BY <2>1, <3>1
      <4> QED  BY <2>2, <3>1, <4>1
    <3>2. CASE x # PathOf(Reading)
      <4>1. x \in DOMAIN submodules /\ submodules'[x] = submodules[x]
        BY <2>1, <3>2
      <4> QED  BY <4>1 DEF SelectInv
    <3> QED  BY <3>1, <3>2
  <2>4. ASSUME NEW r \in Repos, SubmoduleOf(r) = Target
        PROVE  r \in toRead' \/ PathOf(r) \in DOMAIN submodules'
    <3>1. r \in toRead \/ PathOf(r) \in DOMAIN submodules
      BY <2>1, <2>4 DEF SelectInv
    <3>2. r # Reading => r \in toRead' \/ PathOf(r) \in DOMAIN submodules'
      BY <2>1, <3>1
    <3>3. r = Reading => PathOf(r) \in DOMAIN submodules'
      BY <2>1
    <3> QED  BY <3>2, <3>3
  <2>5. \A r \in toRead' : SubmoduleOf(r) = Target
    BY <2>1 DEF SelectInv
  <2> QED  BY <2>1, <2>3, <2>4, <2>5, SelectInvNext
<1>3. CASE /\ UNCHANGED <<rules, toRead, submodules>>
           /\ pc' \in {pc, "failed", "aborted", "crashed"} \/ (pc = "stream" /\ pc' = "done")
              \/ (pc = "marks" /\ pc' = "stream" /\ toRead = {})
  BY <1>3, SelectInvNext DEF SelectInv
<1>4. CASE ReadMark
  <2>1. pc' = "failed" \/ pc' = pc
    BY <1>4, ReadMarkInserts
  <2> QED  BY <1>3, <1>4, <2>1 DEF ReadMark, inputs
<1>5. CASE FixGitlink
  <2>1. pc' \in {pc, "failed", "aborted", "crashed"}
    BY <1>5, FixGitlinkWrites
  <2> QED  BY <1>3, <1>5, <2>1 DEF FixGitlink, inputs, marksVars
<1>6. CASE MarksRead \/ MarksFileMissing \/ CopyLine \/ CopyData \/ Finish
  BY <1>3, <1>6 DEF MarksRead, MarksFileMissing, CopyLine, CopyData, Finish, AtLine, inputs, marksVars
<1>7. CASE UNCHANGED vars
  BY <1>3, <1>7 DEF vars, inputs, marksVars
<1> QED
  BY <1>1, <1>2, <1>4, <1>5, <1>6, <1>7 DEF Next

-----------------------------------------------------------------------------
(* The marks that are read.                                                *)

\* At the beginning of a file nothing of it has been read.
LEMMA OpenMarksFileRead ==
  ASSUME TypeOK, UNCHANGED <<files, mark2sha>>, NEW repos, repos \subseteq Repos, repos # {},
         OpenMarksFile(repos), \A r \in repos : mark2sha[r] = << >>
  PROVE  ReadPartly(Reading)'
<1> DEFINE r == Min(repos)
<1>1. Reading' = r /\ r \in Repos /\ line' = files[r] /\ mark2sha[r] = << >>
  BY OpenMarksFileType DEF Reading
<1> HIDE DEF r
<1>2. files[r] \in Seq(MarksLine) /\ Len(files[r]) \in Nat
  BY <1>1, MarksFileType
<1>3. files[r] = SubSeq(files[r], 0 + 1, Len(files[r]))
  BY <1>2, SubSeqFull
<1>4. /\ {<<e.mark, e.sha>> : e \in ToSet(mark2sha[r])} = {<<files[r][i].mark, files[r][i].sha>> : i \in 1..0}
      /\ \A i \in 1..0 : FALSE
  BY <1>1 DEF ToSet
<1>5. ReadPartly(r)' <=> \E k \in 0..Len(files[r]) :
        /\ {<<e.mark, e.sha>> : e \in ToSet(mark2sha[r])} =
             {<<files[r][i].mark, files[r][i].sha>> : i \in 1..k}
        /\ \A i \in 1..k : files[r][i].mark # NotANumber
        /\ files[r] = SubSeq(files[r], k + 1, Len(files[r]))
  BY <1>1 DEF ReadPartly, Read
<1>6. 0 \in 0..Len(files[r])
  BY <1>2
<1> QED
  BY <1>1, <1>3, <1>4, <1>5, <1>6 DEF ReadPartly, Read

\* A file that is read to its end is read as a whole.
LEMMA MarksFileRead ==
  ASSUME TypeOK, NEW r \in Repos, ReadPartly(r), MarksFileEnds
  PROVE  ReadWhole(r)
<1>1. PICK k \in 0..Len(files[r]) : Read(r, k) /\ line = SubSeq(files[r], k + 1, Len(files[r]))
  BY DEF ReadPartly
<1>2. files[r] \in Seq(MarksLine) /\ Len(files[r]) \in Nat
  BY MarksFileType
<1>3. CASE k < Len(files[r])
  <2>1. k + 1 \in 1..Len(files[r]) /\ Len(files[r]) \in k + 1..Len(files[r])
    BY <1>2, <1>3
  <2>2. Head(line) = files[r][k + 1]
    BY <1>1, <1>2, <2>1, HeadTailOfSubSeq
  <2>3. line # << >>
    <3>1. line = <<files[r][k + 1]>> \o SubSeq(files[r], k + 2, Len(files[r]))
      <4>1. line = <<files[r][k + 1]>> \o SubSeq(files[r], (k + 1) + 1, Len(files[r]))
        BY <1>1, <1>2, <2>1, SubSeqRecursiveFirst
      <4>2. (k + 1) + 1 = k + 2
        BY <1>2
      <4> QED  BY <4>1, <4>2
    <3>2. Len(line) = Len(files[r]) - (k + 1) + 1
      <4>1. k + 1 \in Int /\ Len(files[r]) \in Int /\ \A i \in k + 1..Len(files[r]) : files[r][i] \in MarksLine
        BY <1>2
      <4>2. Len(line) = IF k + 1 <= Len(files[r]) THEN Len(files[r]) - (k + 1) + 1 ELSE 0
        BY <1>1, <4>1, SubSeqProperties
      <4> QED  BY <1>2, <1>3, <4>2
    <3>3. Len(line) > 0
      BY <1>2, <1>3, <3>2
    <3> QED  BY <3>3
  <2>4. files[r][k + 1].mark = NotANumber
    BY <2>2, <2>3 DEF MarksFileEnds
  <2> QED  BY <1>1, <2>4 DEF ReadWhole
<1>4. CASE ~ (k < Len(files[r]))
  BY <1>1, <1>4 DEF ReadWhole
<1> QED
  BY <1>3, <1>4

\* A line that is read adds its mark.
LEMMA ReadMarkReads ==
  ASSUME TypeOK, \A r \in Repos : Ascending(mark2sha[r]), ReadPartly(Reading), ReadMark, pc' # "failed"
  PROVE  ReadPartly(Reading)' /\ Ascending(mark2sha'[Reading])
<1>1. PICK r \in Repos : r = Reading
  BY ReadMarkInserts
<1> DEFINE l == Head(line)
           e == [mark |-> l.mark, sha |-> l.sha]
           list == mark2sha[r]
           new == InsertAt(list, FindShaPos(list, e.mark), e)
<1>2. /\ line # << >> /\ l \in MarksLine /\ l.mark # NotANumber
      /\ e \in Entry /\ list \in Seq(Entry) /\ ~IsMapped(list, e.mark)
      /\ mark2sha' = [mark2sha EXCEPT ![r] = new] /\ line' = Tail(line)
  BY <1>1, ReadMarkInserts
<1>3. files' = files /\ toRead' = toRead /\ Reading' = r /\ mark2sha'[r] = new
  BY <1>1, <1>2 DEF ReadMark, Reading, inputs, TypeOK
<1>4. Ascending(new) /\ ToSet(new) = ToSet(list) \cup {e}
  <2> HIDE DEF l, list
  <2>1. Ascending(list)
    BY <1>1 DEF list
  <2> HIDE DEF e
  <2> QED  BY <1>2, <2>1, InsertionAscends
<1>5. PICK k \in 0..Len(files[r]) : Read(r, k) /\ line = SubSeq(files[r], k + 1, Len(files[r]))
  BY <1>1 DEF ReadPartly
<1>6. files[r] \in Seq(MarksLine) /\ Len(files[r]) \in Nat
  BY MarksFileType
<1>7. k < Len(files[r])
  <2>1. CASE Len(files[r]) < k + 1
    <3>1. k + 1 \in Int /\ Len(files[r]) \in Int
      BY <1>6
    <3>2. line = << >>
      BY <1>5, <2>1, <3>1, SubSeqEmpty
    <3> QED  BY <1>2, <3>2
  <2> QED  BY <1>6, <2>1
<1>8. l = files[r][k + 1] /\ line' = SubSeq(files[r], (k + 1) + 1, Len(files[r]))
  <2>1. k + 1 \in 1..Len(files[r]) /\ Len(files[r]) \in k + 1..Len(files[r])
    BY <1>6, <1>7
  <2> QED  BY <1>2, <1>5, <1>6, <2>1, HeadTailOfSubSeq
<1> HIDE DEF list, new
<1>9. /\ {<<x.mark, x.sha>> : x \in ToSet(new)} = {<<files[r][i].mark, files[r][i].sha>> : i \in 1..k + 1}
      /\ \A i \in 1..k + 1 : files[r][i].mark # NotANumber
      /\ k + 1 \in 0..Len(files[r])
  <2>1. \A i : i \in 1..k + 1 <=> i \in 1..k \/ i = k + 1
    BY <1>6
  <2>2. {<<x.mark, x.sha>> : x \in ToSet(list)} = {<<files[r][i].mark, files[r][i].sha>> : i \in 1..k}
    BY <1>5 DEF Read, list
  <2>3. e.mark = files[r][k + 1].mark /\ e.sha = files[r][k + 1].sha
    BY <1>8
  <2>4. \A i \in 1..k : files[r][i].mark # NotANumber
    BY <1>5 DEF Read
  <2>5. k + 1 \in 0..Len(files[r])
    BY <1>6, <1>7
  <2> HIDE DEF e
  <2>6. {<<x.mark, x.sha>> : x \in ToSet(new)} = {<<x.mark, x.sha>> : x \in ToSet(list)} \cup {<<e.mark, e.sha>>}
    BY <1>4
  <2>7. {<<files[r][i].mark, files[r][i].sha>> : i \in 1..k + 1}
          = {<<files[r][i].mark, files[r][i].sha>> : i \in 1..k}
            \cup {<<files[r][k + 1].mark, files[r][k + 1].sha>>}
    BY <2>1
  <2>8. files[r][k + 1].mark # NotANumber
    BY <1>2, <1>8
  <2> QED  BY <2>1, <2>2, <2>3, <2>4, <2>5, <2>6, <2>7, <2>8
<1>10. ReadPartly(Reading)'
  <2> HIDE DEF l, e
  <2>1. {<<x.mark, x.sha>> : x \in ToSet(mark2sha'[Reading'])} =
          {<<files'[Reading'][i].mark, files'[Reading'][i].sha>> : i \in 1..k + 1}
    BY <1>3, <1>9
  <2>2. \A i \in 1..k + 1 : files'[Reading'][i].mark # NotANumber
    BY <1>3, <1>9
  <2>3. k + 1 \in 0..Len(files'[Reading'])
        /\ line' = SubSeq(files'[Reading'], (k + 1) + 1, Len(files'[Reading']))
    BY <1>3, <1>8, <1>9
  <2> QED  BY <2>1, <2>2, <2>3 DEF ReadPartly, Read
<1> QED
  BY <1>1, <1>3, <1>4, <1>10

\* What has been read of a file stays read while its marks do not change.
LEMMA ReadWholeNext ==
  ASSUME NEW x, NEW r, r = submodules'[x], ReadWhole(r), files' = files, mark2sha'[r] = mark2sha[r]
  PROVE  ReadWhole(submodules[x])'
<1>1. PICK k \in 0..Len(files[r]) : Read(r, k) /\ (k < Len(files[r]) => files[r][k + 1].mark = NotANumber)
  BY DEF ReadWhole
<1>2. /\ {<<e.mark, e.sha>> : e \in ToSet(mark2sha'[submodules'[x]])} =
           {<<files'[submodules'[x]][i].mark, files'[submodules'[x]][i].sha>> : i \in 1..k}
      /\ \A i \in 1..k : files'[submodules'[x]][i].mark # NotANumber
  BY <1>1 DEF Read
<1>3. /\ k \in 0..Len(files'[submodules'[x]])
      /\ k < Len(files'[submodules'[x]]) => files'[submodules'[x]][k + 1].mark = NotANumber
  BY <1>1
<1> QED
  BY <1>2, <1>3 DEF ReadWhole, Read

\* The marks are ascending and are those of the lines that have been read.
LEMMA NextRead ==
  ASSUME TypeOK, ReadInv, SelectInv, [Next]_vars
  PROVE  ReadInv'
<1> DEFINE Sorted == \A r \in Repos : Ascending(mark2sha[r])
           Reads == /\ \A r \in toRead : r # Reading => mark2sha[r] = << >>
                    /\ \A x \in DOMAIN submodules : submodules[x] \notin toRead
                    /\ toRead # {} => ReadPartly(Reading)
           Whole == \A x \in DOMAIN submodules : ReadWhole(submodules[x])
<1>1. Sorted /\ Whole
  BY DEF ReadInv
<1>2. \A x \in DOMAIN submodules : submodules[x] \in Repos
  BY DEF TypeOK
<1>3. ASSUME UNCHANGED <<files, mark2sha, submodules>>
      PROVE  Sorted' /\ Whole'
  <2>1. Sorted'
    BY <1>1, <1>3
  <2>2. ASSUME NEW x \in DOMAIN submodules
        PROVE  ReadWhole(submodules[x])'
    <3>1. submodules[x] = submodules'[x] /\ ReadWhole(submodules[x])
      BY <1>1, <1>3, <2>2
    <3>2. PICK r : r = submodules[x]
      OBVIOUS
    <3> QED  BY <1>3, <3>1, <3>2, ReadWholeNext
  <2> QED  BY <1>3, <2>1, <2>2
<1>4. CASE UNCHANGED <<files, mark2sha, submodules>> /\ pc' \notin {"rules", "marks"}
  BY <1>3, <1>4 DEF ReadInv
<1>5. CASE SelectSubmodules
  <2>1. CASE pc' # "marks"
    <3>1. pc' \notin {"rules", "marks"}
      BY <1>5, <2>1 DEF SelectSubmodules
    <3> QED  BY <1>4, <1>5, <3>1 DEF SelectSubmodules, inputs
  <2>2. CASE pc' = "marks"
    <3> DEFINE repos == {r \in RepoStore : SubmoduleOf(r) = Target}
    <3>1. OpenMarksFile(repos) /\ UNCHANGED <<files, mark2sha, submodules>> /\ pc = "rules"
      BY <1>5, <2>2 DEF SelectSubmodules, inputs
    <3>2. DOMAIN submodules = {} /\ \A r \in Repos : mark2sha[r] = << >>
      BY <3>1 DEF ReadInv
    <3>3. toRead' = repos /\ repos \subseteq Repos
      <4>1. toRead' \subseteq Repos
        BY <1>5, SelectSubmodulesType DEF TypeOK
      <4> QED  BY <3>1, <4>1 DEF OpenMarksFile
    <3> HIDE DEF repos
    <3>4. repos # {} => ReadPartly(Reading)'
      <4>1. \A r \in repos : mark2sha[r] = << >>
        BY <3>2, <3>3
      <4> QED  BY <3>1, <3>3, <4>1, OpenMarksFileRead
    <3>5. Reads'
      BY <3>1, <3>2, <3>3, <3>4
    <3> HIDE DEF Sorted, Reads, Whole
    <3>6. Sorted' /\ Whole'
      BY <1>3, <3>1
    <3> QED  BY <2>2, <3>5, <3>6 DEF ReadInv, Sorted, Reads, Whole
  <2> QED  BY <2>1, <2>2
<1>6. CASE NextMarksFile
  <2> DEFINE rest == toRead \ {Reading}
  <2>1. /\ pc = "marks" /\ pc' = "marks" /\ UNCHANGED <<files, mark2sha>> /\ OpenMarksFile(rest)
        /\ MarksFileEnds /\ Reading \in toRead /\ Reading \in Repos
        /\ submodules' = [p \in DOMAIN submodules \cup {PathOf(Reading)} |->
                            IF p = PathOf(Reading) THEN Reading ELSE submodules[p]]
    BY <1>6, ReadingIsMember DEF NextMarksFile, inputs
  <2>2. Reads
    BY <2>1 DEF ReadInv
  <2>3. ReadWhole(Reading)
    BY <2>1, <2>2, MarksFileRead
  <2>4. rest \subseteq Repos /\ toRead' = rest /\ \A r \in rest : mark2sha[r] = << >>
    BY <2>1, <2>2 DEF TypeOK, OpenMarksFile
  <2>5. rest # {} => ReadPartly(Reading)'
    <3> HIDE DEF rest
    <3> QED  BY <2>1, <2>4, OpenMarksFileRead
  <2>6. \A x \in DOMAIN submodules' :
          submodules'[x] = Reading \/ (x \in DOMAIN submodules /\ submodules'[x] = submodules[x])
    BY <2>1
  <2>7. Reads'
    <3>1. \A r \in toRead' : mark2sha'[r] = << >>
      BY <2>1, <2>4
    <3>2. \A x \in DOMAIN submodules' : submodules'[x] \notin toRead'
      BY <2>2, <2>4, <2>6
    <3> QED  BY <2>4, <2>5, <3>1, <3>2
  <2>8. Whole'
    <3> SUFFICES ASSUME NEW x \in DOMAIN submodules'
                 PROVE  ReadWhole(submodules[x])'
      OBVIOUS
    <3>1. PICK r : r = submodules'[x]
      OBVIOUS
    <3>2. ReadWhole(r)
      BY <1>1, <2>3, <2>6, <3>1
    <3> QED  BY <2>1, <3>1, <3>2, ReadWholeNext
  <2>9. Sorted'
    BY <1>1, <2>1
  <2> HIDE DEF Sorted, Reads, Whole
  <2> QED  BY <2>1, <2>7, <2>8, <2>9 DEF ReadInv, Sorted, Reads, Whole
<1>7. CASE ReadMark /\ pc' # "failed"
  <2>1. /\ pc = "marks" /\ pc' = "marks" /\ UNCHANGED <<files, toRead, submodules>>
        /\ Reading \in toRead /\ Reading \in Repos
        /\ \A r \in Repos : r # Reading => mark2sha'[r] = mark2sha[r]
    <3>1. DOMAIN mark2sha = Repos
      BY DEF TypeOK
    <3> QED  BY <1>7, <3>1, ReadMarkInserts DEF ReadMark, inputs
  <2>2. Reads
    BY <2>1 DEF ReadInv
  <2>3. ReadPartly(Reading)' /\ Ascending(mark2sha'[Reading])
    BY <1>1, <1>7, <2>1, <2>2, ReadMarkReads
  <2>4. Sorted'
    <3>1. \A r \in Repos : Ascending(mark2sha'[r])
      BY <1>1, <2>1, <2>3
    <3> QED  BY <3>1
  <2>5. Reads'
    <3>1. Reading' = Reading
      BY <2>1 DEF Reading
    <3>2. \A r \in toRead' : r # Reading' => mark2sha'[r] = << >>
      BY <2>1, <2>2, <3>1 DEF TypeOK
    <3> QED  BY <2>1, <2>2, <2>3, <3>2
  <2>6. Whole'
    <3> SUFFICES ASSUME NEW x \in DOMAIN submodules'
                 PROVE  ReadWhole(submodules[x])'
      OBVIOUS
    <3>1. PICK r : r = submodules'[x]
      OBVIOUS
    <3>2. ReadWhole(r) /\ r # Reading /\ r \in Repos
      BY <1>1, <1>2, <2>1, <2>2, <3>1
    <3> QED  BY <2>1, <3>1, <3>2, ReadWholeNext
  <2> HIDE DEF Sorted, Reads, Whole
  <2> QED  BY <2>1, <2>4, <2>5, <2>6 DEF ReadInv, Sorted, Reads, Whole
<1>8. CASE ReadMark /\ pc' = "failed"
  BY <1>4, <1>8 DEF ReadMark, inputs
<1>9. CASE FixGitlink
  <2>1. pc' \notin {"rules", "marks"}
    BY <1>9, FixGitlinkWrites
  <2> QED  BY <1>4, <1>9, <2>1 DEF FixGitlink, inputs, marksVars
<1>10. CASE MarksRead \/ MarksFileMissing \/ CopyLine \/ CopyData \/ Finish
  BY <1>4, <1>10 DEF MarksRead, MarksFileMissing, CopyLine, CopyData, Finish, AtLine, inputs, marksVars
<1>11. CASE UNCHANGED vars
  <2>1. UNCHANGED <<pc, files, mark2sha, submodules, toRead, line>>
    BY <1>11 DEF vars, inputs, marksVars
  <2>2. Reading' = Reading
    BY <2>1 DEF Reading
  <2>3. pc = "marks" => Reads'
    <3>1. pc = "marks" => Reads
      BY DEF ReadInv
    <3>2. ReadPartly(Reading) => ReadPartly(Reading)'
      BY <2>1, <2>2 DEF ReadPartly, Read
    <3> QED  BY <2>1, <2>2, <3>1, <3>2
  <2>4. pc = "rules" => toRead' = {} /\ DOMAIN submodules' = {} /\ \A r \in Repos : mark2sha'[r] = << >>
    BY <2>1 DEF ReadInv
  <2> HIDE DEF Sorted, Reads, Whole
  <2>5. Sorted' /\ Whole'
    BY <1>3, <2>1
  <2> QED  BY <2>1, <2>3, <2>4, <2>5 DEF ReadInv, Sorted, Reads, Whole
<1> QED
  BY <1>5, <1>6, <1>7, <1>8, <1>9, <1>10, <1>11 DEF Next

-----------------------------------------------------------------------------
(* The stream that is written.                                             *)

LEMMA BytesAfterNext ==
  ASSUME UNCHANGED stream
  PROVE  BytesAfter' = BytesAfter
BY DEF BytesAfter

\* When w units are written, a copy of the next ones as far as there are any, and
\* garbage behind them.
LEMMA CopyNext ==
  ASSUME TypeOK, CopyInv, UNCHANGED stream, pc' = "stream",
         NEW w \in Nat \ {0}, NEW b \in 0..w, b = Smaller(w, Len(in)),
         in' \in Seq(StreamUnit), Len(in') = Len(in) - b,
         \A i \in 1..Len(in) - b : in'[i] = in[b + i],
         Len(out') = Len(out) + w,
         \A i \in 1..Len(out) : out'[i] = out[i],
         \A i \in 1..b : IsCopy(out'[Len(out) + i], Position + i),
         \A i \in b + 1..w : out'[Len(out) + i] = [kind |-> "garbage"],
         Len(in) > w => length' = BytesAfter[Position + w]
  PROVE  CopyInv'
<1>1. /\ Len(stream) \in Nat /\ Len(in) \in Nat /\ Len(out) \in Nat /\ Len(in) <= Len(stream)
      /\ Position \in 0..Len(stream) /\ Position = Len(stream) - Len(in) /\ Len(out) >= Position
      /\ Len(in') \in Nat /\ b <= Len(in) /\ (Len(in) <= w => b = Len(in)) /\ (Len(in) > w => b = w)
  <2>1. Len(stream) \in Nat
    BY StreamType DEF TypeOK
  <2>2. Len(in) \in Nat /\ Len(out) \in Nat
    BY DEF TypeOK
  <2> QED  BY <2>1, <2>2 DEF CopyInv, Position, Smaller
<1>2. (in = << >> <=> Len(in) = 0) /\ (in' = << >> <=> Len(in') = 0)
  BY EmptySeq DEF TypeOK
<1>3. Position' = Position + b
  BY <1>1 DEF Position
<1>4. \A i \in 1..Len(in') : in'[i] = stream'[Position' + i]
  <2> SUFFICES ASSUME NEW i \in 1..Len(in')
               PROVE  in'[i] = stream'[Position' + i]
    OBVIOUS
  <2>1. i \in 1..Len(in) - b /\ b + i \in 1..Len(in) /\ Position + (b + i) = (Position + b) + i
    <3>1. Position \in Int /\ b \in Int /\ Len(in) \in Int /\ Len(in') = Len(in) - b /\ b >= 0
      BY <1>1
    <3> QED  BY <3>1
  <2>2. in'[i] = in[b + i] /\ in[b + i] = stream[Position + (b + i)]
    BY <2>1 DEF CopyInv
  <2> QED  BY <1>3, <2>1, <2>2
<1>5. in # << >> => Len(out) = Position
  BY DEF CopyInv
<1>6. in' # << >> => Len(out') = Position' /\ length' = BytesAfter'[Position']
  <2>1. in' # << >> => Len(in) > w /\ b = w /\ in # << >>
    BY <1>1, <1>2
  <2>2. BytesAfter' = BytesAfter
    BY BytesAfterNext
  <2> QED  BY <1>3, <1>5, <2>1, <2>2
<1>7. Len(out') >= Position'
  <2> b <= w /\ b \in Int /\ w \in Int
    OBVIOUS
  <2> QED  BY <1>1, <1>3
<1>8. \A i \in 1..Smaller(Len(out'), Len(stream)) : IsCopy(out'[i], i)
  <2> SUFFICES ASSUME NEW i \in 1..Smaller(Len(out'), Len(stream))
               PROVE  IsCopy(out'[i], i)
    OBVIOUS
  <2>1. i \in 1..Len(stream) /\ i \in 1..Len(out) + w
    BY <1>1 DEF Smaller
  <2>2. CASE i <= Len(out)
    <3>1. i \in 1..Smaller(Len(out), Len(stream)) /\ i \in 1..Len(out)
      BY <1>1, <2>1, <2>2 DEF Smaller
    <3>2. IsCopy(out[i], i) /\ out'[i] = out[i]
      BY <3>1 DEF CopyInv, CopiedInPlace
    <3> QED  BY <3>2
  <2>3. CASE i > Len(out)
    <3>1. in # << >> /\ Len(out) = Position
      BY <1>1, <1>2, <1>5, <2>1, <2>3
    <3>2. i - Position \in 1..b /\ Position + (i - Position) = i
      <4>1. i \in Int /\ Position \in Int /\ w \in Int /\ b \in Int /\ Len(in) \in Int
        BY <1>1, <2>1
      <4>2. i > Position /\ i <= Position + w /\ i <= Position + Len(in)
        BY <1>1, <2>1, <2>3, <3>1
      <4>3. b = w \/ b = Len(in)
        BY <1>1
      <4> QED  BY <4>1, <4>2, <4>3
    <3>3. IsCopy(out'[Len(out) + (i - Position)], Position + (i - Position))
      BY <3>2
    <3> QED  BY <3>1, <3>2, <3>3
  <2> QED  BY <1>1, <2>1, <2>2, <2>3
<1>9. \A i \in 1..Smaller(Len(out'), Len(stream')) : IsCopy(out[i], i)'
  BY <1>8, BytesAfterNext DEF IsCopy, IsData
<1>10. Len(out') > Len(stream) => out'[Len(stream) + 1].kind = "garbage" /\ in' = << >>
  <2> SUFFICES ASSUME Len(out') > Len(stream)
               PROVE  out'[Len(stream) + 1].kind = "garbage" /\ in' = << >>
    OBVIOUS
  <2>1. CASE Len(out) > Len(stream)
    <3>1. out[Len(stream) + 1].kind = "garbage" /\ in = << >> /\ Len(stream) + 1 \in 1..Len(out)
      BY <1>1, <2>1 DEF CopyInv, CopiedInPlace
    <3>2. Len(in') = 0
      BY <1>1, <1>2, <3>1
    <3> QED  BY <1>2, <3>1, <3>2
  <2>2. CASE ~ (Len(out) > Len(stream))
    <3>1. Len(out) = Position
      BY <1>1, <1>2, <1>5, <2>2
    <3>2. Len(in) < w
      BY <1>1, <3>1
    <3>3. b = Len(in) /\ b + 1 \in b + 1..w /\ Len(out) + (b + 1) = Len(stream) + 1
      <4>1. b = Len(in)
        BY <1>1, <3>2
      <4>2. Len(in) \in Int /\ w \in Int /\ Len(stream) \in Int /\ Len(out) = Len(stream) - Len(in)
        BY <1>1, <3>1
      <4> QED  BY <3>2, <4>1, <4>2
    <3>4. Len(in') = 0
      BY <1>1, <3>3
    <3>5. out'[Len(out) + (b + 1)] = [kind |-> "garbage"]
      BY <3>3
    <3> QED  BY <1>2, <3>3, <3>4, <3>5
  <2> QED  BY <2>1, <2>2
<1>11. CopiedInPlace'
  BY <1>9, <1>10 DEF CopiedInPlace
<1>12. Len(in') <= Len(stream') /\ pc' \notin {"rules", "marks"}
  BY <1>1
<1> QED
  BY <1>4, <1>6, <1>7, <1>11, <1>12 DEF CopyInv

\* One unit is written for the next one of the stream.
LEMMA CopyOne ==
  ASSUME TypeOK, CopyInv, UNCHANGED stream, pc' = "stream", in # << >>,
         in' = Tail(in), NEW u \in Unit, out' = Append(out, u),
         IsCopy(u, Position + 1), length' = BytesAfter[Position + 1]
  PROVE  CopyInv'
<1>1. /\ Tail(in) \in Seq(StreamUnit) /\ Len(in) \in Nat \ {0} /\ Len(Tail(in)) = Len(in) - 1
      /\ \A i \in 1..Len(in) - 1 : Tail(in)[i] = in[i + 1]
  BY HeadOfIn
<1>2. Len(out) \in Nat /\ Len(out') = Len(out) + 1 /\ out'[Len(out) + 1] = u
      /\ \A i \in 1..Len(out) : out'[i] = out[i]
  <2>1. out \in Seq(Unit)
    BY DEF TypeOK
  <2> QED  BY <2>1, AppendProperties
<1>3. 1 \in Nat \ {0} /\ 1 \in 0..1 /\ 1 = Smaller(1, Len(in))
  BY <1>1 DEF Smaller
<1>4. \A i \in 1..Len(in) - 1 : in'[i] = in[1 + i]
  <2> \A i \in 1..Len(in) - 1 : i + 1 = 1 + i
    BY <1>1
  <2> QED  BY <1>1
<1>5. \A i \in 1..1 : IsCopy(out'[Len(out) + i], Position + i)
  <2> \A i \in 1..1 : i = 1
    OBVIOUS
  <2> QED  BY <1>2
<1>6. \A i \in 1 + 1..1 : FALSE
  OBVIOUS
<1> QED
  BY <1>1, <1>2, <1>3, <1>4, <1>5, <1>6, CopyNext

\* Where the next unit is in the stream, and what is left of data behind it.
LEMMA NextUnit ==
  ASSUME TypeOK, CopyInv, in # << >>
  PROVE  /\ Position + 1 \in 1..Len(stream) /\ stream[Position + 1] = Head(in)
         /\ Len(out) = Position /\ length = BytesAfter[Position]
         /\ IsData(Position + 1) <=> length > 0
         /\ BytesAfter[Position + 1] = LeftAfter(length, Position + 1)
<1>1. Len(stream) \in Nat /\ stream \in Streams
  BY StreamType DEF TypeOK
<1>2. Len(in) \in Nat \ {0} /\ Head(in) = in[1] /\ Len(in) <= Len(stream)
  BY HeadOfIn DEF CopyInv
<1>3. Position + 1 \in 1..Len(stream) /\ (Position + 1) - 1 = Position
  BY <1>1, <1>2 DEF Position
<1>4. stream[Position + 1] = Head(in) /\ Len(out) = Position /\ length = BytesAfter[Position]
  BY <1>2 DEF CopyInv
<1>5. BytesAfter[Position + 1] = LeftAfter(BytesAfter[Position], Position + 1)
  BY <1>1, <1>3, BytesAfterDefined
<1> QED
  BY <1>3, <1>4, <1>5 DEF IsData

\* Every unit is written where it belongs.
LEMMA NextCopy ==
  ASSUME TypeOK, CopyInv, [Next]_vars
  PROVE  CopyInv'
<1>1. CASE UNCHANGED <<stream, in, out, length>>
           /\ (pc' = "done" => pc = "done" \/ in = << >>)
           /\ (pc' \in {"rules", "marks"} => pc \in {"rules", "marks"})
  <2>1. BytesAfter' = BytesAfter /\ Position' = Position
    BY <1>1, BytesAfterNext DEF Position
  <2>2. \A i \in 1..Smaller(Len(out), Len(stream)) : IsCopy(out[i], i) => IsCopy(out[i], i)'
    BY <1>1, <2>1 DEF IsCopy, IsData
  <2>3. pc' = "done" => Len(out) >= Len(stream)
    <3>1. CASE in = << >>
      <4>1. Len(stream) \in Nat /\ Len(in) = 0
        BY <3>1, StreamType DEF TypeOK
      <4> QED  BY <4>1 DEF CopyInv, Position
    <3> QED  BY <1>1, <3>1 DEF CopyInv, CopiedInPlace
  <2>4. CopiedInPlace'
    BY <1>1, <2>2, <2>3 DEF CopyInv, CopiedInPlace
  <2> QED  BY <1>1, <2>1, <2>4 DEF CopyInv
<1>2. CASE FixGitlink
  <2>1. pc = "stream" /\ length = 0 /\ in # << >> /\ Head(in) \in Gitlink /\ stream' = stream
    BY <1>2, FixGitlinkWrites DEF FixGitlink, inputs
  <2>2. CASE pc' \in {"failed", "aborted", "crashed"} /\ UNCHANGED <<in, out, length>>
    BY <1>1, <2>1, <2>2
  <2>3. ASSUME NEW sha \in Shas \cup {Garbage},
               out' = Append(out, [kind |-> "fixed", sha |-> sha, path |-> Head(in).path]),
               in' = Tail(in), UNCHANGED <<pc, length>>
        PROVE  CopyInv'
    <3> DEFINE u == [kind |-> "fixed", sha |-> sha, path |-> Head(in).path]
    <3>1. u \in Unit
      BY <2>1 DEF Unit, Fixed, Gitlink
    <3>2. stream[Position + 1] = Head(in) /\ ~IsData(Position + 1)
      BY <2>1, NextUnit
    <3>3. Head(in).kind = "gitlink"
      BY <2>1 DEF Gitlink
    <3>4. IsCopy(u, Position + 1)
      BY <3>2, <3>3 DEF IsCopy
    <3>5. BytesAfter[Position + 1] = 0
      BY <2>1, <3>2, <3>3, NextUnit DEF LeftAfter
    <3>6. out' = Append(out, u) /\ pc' = "stream" /\ length' = BytesAfter[Position + 1]
      BY <2>1, <2>3, <3>5
    <3> HIDE DEF u
    <3> QED  BY <2>1, <2>3, <3>1, <3>4, <3>6, CopyOne
  <2> QED  BY <1>2, <2>2, <2>3, FixGitlinkWrites
<1>3. CASE CopyLine
  <2>1. /\ pc = "stream" /\ pc' = "stream" /\ length = 0 /\ in # << >> /\ stream' = stream
        /\ Head(in).kind # "gitlink" /\ out' = Append(out, Head(in)) /\ in' = Tail(in)
        /\ length' = IF Head(in).kind = "data" THEN Head(in).length ELSE 0
    BY <1>3 DEF CopyLine, AtLine, inputs
  <2>2. stream[Position + 1] = Head(in) /\ BytesAfter[Position + 1] = LeftAfter(0, Position + 1)
    BY <2>1, NextUnit
  <2>3. Head(in) \in Unit
    BY <2>1, HeadOfIn DEF Unit
  <2>4. IsCopy(Head(in), Position + 1)
    BY <2>1, <2>2 DEF IsCopy
  <2>5. length' = BytesAfter[Position + 1]
    BY <2>1, <2>2 DEF LeftAfter
  <2> QED  BY <2>1, <2>3, <2>4, <2>5, CopyOne
<1>4. CASE CopyData
  <2>1. PICK w \in 1..length : \E b \in 0..w :
           /\ b = Smaller(w, Len(in)) /\ pc = "stream"
           /\ length' = length - w
           /\ in' = SubSeq(in, b + 1, Len(in)) /\ in' \in Seq(StreamUnit) /\ Len(in') = Len(in) - b
           /\ \A i \in 1..Len(in) - b : in'[i] = in[b + i]
           /\ out' \in Seq(Unit) /\ Len(out') = Len(out) + w
           /\ \A i \in 1..Len(out) : out'[i] = out[i]
           /\ \A i \in 1..b : out'[Len(out) + i] = in[i]
           /\ \A i \in b + 1..w : out'[Len(out) + i] = [kind |-> "garbage"]
    BY <1>4, CopyDataWrites
  <2>2. PICK b \in 0..w :
           /\ b = Smaller(w, Len(in)) /\ pc = "stream"
           /\ length' = length - w
           /\ in' = SubSeq(in, b + 1, Len(in)) /\ in' \in Seq(StreamUnit) /\ Len(in') = Len(in) - b
           /\ \A i \in 1..Len(in) - b : in'[i] = in[b + i]
           /\ out' \in Seq(Unit) /\ Len(out') = Len(out) + w
           /\ \A i \in 1..Len(out) : out'[i] = out[i]
           /\ \A i \in 1..b : out'[Len(out) + i] = in[i]
           /\ \A i \in b + 1..w : out'[Len(out) + i] = [kind |-> "garbage"]
    BY <2>1
  <2>3. stream' = stream /\ pc' = "stream" /\ length \in Nat
    BY <1>4, <2>2 DEF CopyData, inputs, TypeOK
  <2>4. /\ Len(stream) \in Nat /\ stream \in Streams /\ Len(in) \in Nat /\ Len(in) <= Len(stream)
        /\ Position = Len(stream) - Len(in) /\ Position \in 0..Len(stream)
        /\ b <= Len(in) /\ w \in Nat \ {0}
    <3>1. Len(stream) \in Nat /\ stream \in Streams /\ Len(in) \in Nat
      BY StreamType DEF TypeOK
    <3> QED  BY <2>2, <2>3, <3>1 DEF CopyInv, Position, Smaller
  <2>5. in # << >> => \A j \in 0..w : Position + j <= Len(stream) =>
                        BytesAfter[Position + j] = length - j
    <3> SUFFICES ASSUME in # << >>, NEW j \in 0..w, Position + j <= Len(stream)
                 PROVE  BytesAfter[Position + j] = length - j
      OBVIOUS
    <3>1. length = BytesAfter[Position]
      BY DEF CopyInv
    <3>2. j \in 0..BytesAfter[Position]
      BY <2>3, <3>1
    <3> QED  BY <2>4, <3>1, <3>2, BytesAfterDown
  <2>6. \A i \in 1..b : IsCopy(out'[Len(out) + i], Position + i)
    <3> SUFFICES ASSUME NEW i \in 1..b
                 PROVE  IsCopy(out'[Len(out) + i], Position + i)
      OBVIOUS
    <3>1. i \in 1..Len(in) /\ i - 1 \in 0..w /\ Position + (i - 1) <= Len(stream)
          /\ (Position + i) - 1 = Position + (i - 1)
      <4>1. i \in Int /\ b \in Int /\ w \in Int /\ Position \in Int /\ Len(in) \in Int /\ Len(stream) \in Int
            /\ 1 <= i /\ i <= b /\ b <= w /\ b <= Len(in) /\ Position = Len(stream) - Len(in)
        BY <2>2, <2>3, <2>4
      <4> QED  BY <4>1
    <3>2. in # << >>
      BY <3>1
    <3>3. BytesAfter[Position + (i - 1)] = length - (i - 1)
      BY <2>5, <3>1, <3>2
    <3>4. length - (i - 1) > 0
      BY <2>1, <2>2, <2>3
    <3>5. IsData(Position + i)
      BY <3>1, <3>3, <3>4 DEF IsData
    <3>6. out'[Len(out) + i] = stream[Position + i]
      BY <2>2, <3>1 DEF CopyInv
    <3> QED  BY <3>5, <3>6 DEF IsCopy
  <2>7. Len(in) > w => length' = BytesAfter[Position + w]
    <3> SUFFICES ASSUME Len(in) > w
                 PROVE  length' = BytesAfter[Position + w]
      OBVIOUS
    <3>1. w \in 0..w /\ Position + w <= Len(stream) /\ Len(in) # 0
      BY <2>3, <2>4
    <3>2. in # << >>
      BY <3>1
    <3> QED  BY <2>2, <2>5, <3>1, <3>2
  <2> QED  BY <2>2, <2>3, <2>4, <2>6, <2>7, CopyNext
<1>5. CASE Finish
  BY <1>1, <1>5 DEF Finish, inputs, streamVars
<1>6. CASE SelectSubmodules \/ NextMarksFile \/ MarksRead \/ MarksFileMissing
  BY <1>1, <1>6 DEF SelectSubmodules, NextMarksFile, MarksRead, MarksFileMissing, inputs, streamVars
<1>7. CASE ReadMark
  <2>1. pc' \in {pc, "failed"} /\ pc = "marks"
    BY <1>7, ReadMarkInserts DEF ReadMark
  <2> QED  BY <1>1, <1>7, <2>1 DEF ReadMark, inputs, streamVars
<1>8. CASE UNCHANGED vars
  BY <1>1, <1>8 DEF vars, inputs, streamVars
<1> QED
  BY <1>2, <1>3, <1>4, <1>5, <1>6, <1>7, <1>8 DEF Next

-----------------------------------------------------------------------------
(* The hashes that are written.                                            *)

\* A hash that is written was found for the mark, in the marks of the submodule at
\* the path, and these are all read by then.
LEMMA NextHash ==
  ASSUME TypeOK, CopyInv, HashInv, [Next]_vars
  PROVE  HashInv'
<1> DEFINE Owned(i, u) == /\ stream[i].path \in DOMAIN submodules
                          /\ \E e \in ToSet(mark2sha[submodules[stream[i].path]]) :
                               e.mark = stream[i].mark /\ e.sha = u.sha
<1>1. Len(stream) \in Nat /\ Len(in) \in Nat /\ Len(out) \in Nat /\ out \in Seq(Unit)
  BY StreamType DEF TypeOK
<1>2. ~pastEnd => \A i \in 1..Smaller(Len(out), Len(stream)) : out[i].kind = "fixed" => Owned(i, out[i])
  BY DEF HashInv
<1>3. CASE out = << >> /\ out' = << >>
  <2>1. Smaller(Len(out'), Len(stream')) = 0 \/ ~ (Smaller(Len(out'), Len(stream')) >= 1)
    BY <1>3 DEF Smaller
  <2>2. \A i \in 1..Smaller(Len(out'), Len(stream')) : FALSE
    BY <1>3 DEF Smaller
  <2> QED  BY <2>2 DEF HashInv
<1>4. CASE UNCHANGED <<stream, out, mark2sha, submodules>> /\ (pastEnd => pastEnd')
  BY <1>4 DEF HashInv
<1>5. ASSUME UNCHANGED <<stream, mark2sha, submodules>>, pastEnd => pastEnd', Len(out') \in Nat,
             Len(out') >= Len(out), \A i \in 1..Len(out) : out'[i] = out[i],
             \A i \in Len(out) + 1..Len(out') :
               i <= Len(stream) /\ out'[i].kind = "fixed" /\ ~pastEnd' => Owned(i, out'[i])
      PROVE  HashInv'
  <2> SUFFICES ASSUME ~pastEnd', NEW i \in 1..Smaller(Len(out'), Len(stream)), out'[i].kind = "fixed"
               PROVE  Owned(i, out'[i])
    BY <1>5 DEF HashInv
  <2>1. i \in 1..Len(out') /\ i <= Len(stream)
    BY <1>1, <1>5 DEF Smaller
  <2>2. CASE i <= Len(out)
    <3>1. i \in 1..Len(out) /\ i \in 1..Smaller(Len(out), Len(stream))
      BY <1>1, <2>1, <2>2 DEF Smaller
    <3>2. out'[i] = out[i] /\ ~pastEnd
      BY <1>5, <3>1
    <3> HIDE DEF Owned
    <3> QED  BY <1>2, <3>1, <3>2
  <2>3. CASE i > Len(out)
    <3>1. i \in Len(out) + 1..Len(out')
      BY <1>1, <1>5, <2>1, <2>3
    <3> HIDE DEF Owned
    <3> QED  BY <1>5, <2>1, <3>1
  <2> QED  BY <1>1, <2>1, <2>2, <2>3
<1>6. ASSUME NEW u, out' = Append(out, u), u \in Unit
      PROVE  /\ Len(out') = Len(out) + 1 /\ out'[Len(out) + 1] = u
             /\ \A i \in 1..Len(out) : out'[i] = out[i]
             /\ \A i \in Len(out) + 1..Len(out') : i = Len(out) + 1
  <2>1. /\ Len(out') = Len(out) + 1 /\ out'[Len(out) + 1] = u
        /\ \A i \in 1..Len(out) : out'[i] = out[i]
    BY <1>1, <1>6, AppendProperties
  <2> QED  BY <1>1, <2>1
<1>7. \A u \in StreamUnit : u.kind # "fixed"
  BY DEF StreamUnit, Gitlink, DataHeader, Line
<1>8. CASE FixGitlink
  <2>1. UNCHANGED <<stream, mark2sha, submodules>> /\ in # << >> /\ Head(in) \in Gitlink /\ (pastEnd => pastEnd')
    BY <1>8, FixGitlinkWrites DEF FixGitlink, inputs, marksVars
  <2>2. CASE UNCHANGED out
    BY <1>4, <2>1, <2>2
  <2>3. ASSUME NEW sha \in Shas \cup {Garbage},
               out' = Append(out, [kind |-> "fixed", sha |-> sha, path |-> Head(in).path]),
               ~pastEnd' =>
                 /\ Head(in).path \in DOMAIN submodules
                 /\ \E e \in ToSet(mark2sha[submodules[Head(in).path]]) : e.mark = Head(in).mark /\ e.sha = sha
        PROVE  HashInv'
    <3> DEFINE u == [kind |-> "fixed", sha |-> sha, path |-> Head(in).path]
    <3>1. u \in Unit
      BY <2>1 DEF Unit, Fixed, Gitlink
    <3>2. stream[Len(out) + 1] = Head(in)
      BY <2>1, NextUnit
    <3>3. ~pastEnd' => Owned(Len(out) + 1, u)
      BY <2>3, <3>2
    <3>4. out' = Append(out, u)
      BY <2>3
    <3> HIDE DEF u, Owned
    <3>5. /\ Len(out') = Len(out) + 1 /\ out'[Len(out) + 1] = u
          /\ \A i \in 1..Len(out) : out'[i] = out[i]
          /\ \A i \in Len(out) + 1..Len(out') : i = Len(out) + 1
      BY <1>6, <3>1, <3>4
    <3>6. Len(out') \in Nat /\ Len(out') >= Len(out)
      BY <1>1, <3>5
    <3>7. \A i \in Len(out) + 1..Len(out') : ~pastEnd' => Owned(i, out'[i])
      BY <3>3, <3>5
    <3> QED  BY <1>5, <2>1, <3>5, <3>6, <3>7
  <2> QED  BY <1>8, <2>2, <2>3, FixGitlinkWrites
<1>9. CASE CopyLine
  <2>1. UNCHANGED <<stream, mark2sha, submodules, pastEnd>> /\ in # << >> /\ out' = Append(out, Head(in))
    BY <1>9 DEF CopyLine, AtLine, inputs, marksVars
  <2>2. Head(in) \in Unit /\ Head(in).kind # "fixed"
    BY <1>7, <2>1, HeadOfIn DEF Unit
  <2>3. /\ Len(out') = Len(out) + 1 /\ out'[Len(out) + 1] = Head(in)
        /\ \A i \in 1..Len(out) : out'[i] = out[i]
        /\ \A i \in Len(out) + 1..Len(out') : i = Len(out) + 1
    BY <1>6, <2>1, <2>2
  <2>4. Len(out') \in Nat /\ Len(out') >= Len(out)
    BY <1>1, <2>3
  <2>5. \A i \in Len(out) + 1..Len(out') : out'[i].kind # "fixed"
    BY <2>2, <2>3
  <2> HIDE DEF Owned
  <2> QED  BY <1>5, <2>1, <2>3, <2>4, <2>5
<1>10. CASE CopyData
  <2>1. UNCHANGED <<stream, mark2sha, submodules, pastEnd>> /\ length \in Nat
    BY <1>10 DEF CopyData, inputs, marksVars, TypeOK
  <2>2. PICK w \in 1..length : \E b \in 0..w :
           /\ b = Smaller(w, Len(in)) /\ Len(out') = Len(out) + w
           /\ \A i \in 1..Len(out) : out'[i] = out[i]
           /\ \A i \in 1..b : out'[Len(out) + i] = in[i]
           /\ \A i \in b + 1..w : out'[Len(out) + i] = [kind |-> "garbage"]
    BY <1>10, CopyDataWrites
  <2>3. PICK b \in 0..w :
           /\ b = Smaller(w, Len(in)) /\ Len(out') = Len(out) + w
           /\ \A i \in 1..Len(out) : out'[i] = out[i]
           /\ \A i \in 1..b : out'[Len(out) + i] = in[i]
           /\ \A i \in b + 1..w : out'[Len(out) + i] = [kind |-> "garbage"]
    BY <2>2
  <2>4. Len(out') \in Nat /\ Len(out') >= Len(out) /\ b <= Len(in)
    BY <1>1, <2>1, <2>3 DEF Smaller
  <2>5. \A i \in Len(out) + 1..Len(out') : out'[i].kind # "fixed"
    <3> TAKE i \in Len(out) + 1..Len(out')
    <3>1. i - Len(out) \in 1..w /\ Len(out) + (i - Len(out)) = i
      BY <1>1, <2>1, <2>3
    <3>2. CASE i - Len(out) \in 1..b
      <4>1. out'[i] = in[i - Len(out)] /\ i - Len(out) \in 1..Len(in)
        BY <1>1, <2>1, <2>3, <2>4, <3>1, <3>2
      <4>2. in[i - Len(out)] \in StreamUnit
        BY <4>1 DEF TypeOK
      <4> QED  BY <1>7, <4>1, <4>2
    <3>3. CASE i - Len(out) \in b + 1..w
      <4>1. out'[i] = [kind |-> "garbage"]
        BY <2>3, <3>1, <3>3
      <4> QED  BY <4>1
    <3> QED  BY <2>1, <3>1, <3>2, <3>3
  <2> HIDE DEF Owned
  <2> QED  BY <1>5, <2>1, <2>3, <2>4, <2>5
<1>11. CASE SelectSubmodules \/ MarksRead \/ MarksFileMissing \/ Finish
  BY <1>4, <1>11 DEF SelectSubmodules, MarksRead, MarksFileMissing, Finish, inputs, streamVars, marksVars
<1>12. CASE NextMarksFile \/ ReadMark
  <2>1. out = << >> /\ out' = << >>
    BY <1>12 DEF NextMarksFile, ReadMark, CopyInv, streamVars
  <2> QED  BY <1>3, <2>1
<1>13. CASE UNCHANGED vars
  BY <1>4, <1>13 DEF vars, inputs, marksVars, streamVars
<1> QED
  BY <1>8, <1>9, <1>10, <1>11, <1>12, <1>13 DEF Next

-----------------------------------------------------------------------------
(* The theorems.                                                           *)

\* The invariant holds before anything is read.
LEMMA InitFix ==
  ASSUME Init
  PROVE  FixInv
<1>1. TypeOK
  BY InitType
<1>2. /\ stream \in Seq(StreamUnit) /\ Len(stream) \in Nat /\ in = stream /\ out = << >> /\ length = 0
      /\ pc = "rules" /\ toRead = {} /\ DOMAIN submodules = {} /\ stream \in Streams
      /\ mark2sha = [r \in Repos |-> << >>] /\ ~pastEnd
  BY StreamType DEF Init
<1>3. Len(out) = 0 /\ Smaller(Len(out), Len(stream)) = 0 /\ \A i \in 1..0 : FALSE
  BY <1>2 DEF Smaller
<1>4. ReadInv
  BY <1>2 DEF ReadInv, Ascending
<1>5. SelectInv
  BY <1>2 DEF SelectInv
<1>6. Position = 0
  BY <1>2 DEF Position
<1>7. length = BytesAfter[Position]
  BY <1>2, <1>6, BytesAfterDefined
<1>8. CopiedInPlace
  BY <1>2, <1>3 DEF CopiedInPlace
<1>9. CopyInv
  <2>1. \A i \in 1..Len(in) : in[i] = stream[Position + i]
    BY <1>2, <1>6
  <2> QED  BY <1>2, <1>3, <1>6, <1>7, <1>8, <2>1 DEF CopyInv
<1>10. HashInv
  BY <1>2, <1>3 DEF HashInv
<1> QED
  BY <1>1, <1>4, <1>5, <1>9, <1>10 DEF FixInv

\* FixInv is an inductive invariant: of run, read_marks_file and
\* transform_import_stream, for any input.
THEOREM FixInvariant == Spec => []FixInv
<1>1. Init => FixInv
  BY InitFix
<1>2. FixInv /\ [Next]_vars => FixInv'
  BY NextType, NextRead, NextSelect, NextCopy, NextHash DEF FixInv
<1> QED
  BY <1>1, <1>2, PTL DEF Spec

\* Every unit of the stream comes out at its place, and nothing is lost before the
\* filter ends well: for any stream, and any size of the buffer.
THEOREM CopiesInPlace == Spec => []CopiedInPlace
<1>1. FixInv => CopiedInPlace
  BY DEF FixInv, CopyInv
<1> QED
  BY <1>1, FixInvariant, PTL

\* A marks file that is read to its end is read up to the first mark that is no
\* number.
LEMMA MarksOfWhole ==
  ASSUME TypeOK, NEW r \in Repos, ReadWhole(r)
  PROVE  {<<e.mark, e.sha>> : e \in ToSet(mark2sha[r])} = {<<l.mark, l.sha>> : l \in MarksOf(r)}
<1>1. PICK k \in 0..Len(files[r]) : Read(r, k) /\ (k < Len(files[r]) => files[r][k + 1].mark = NotANumber)
  BY DEF ReadWhole
<1>2. Len(files[r]) \in Nat /\ DOMAIN files[r] = 1..Len(files[r])
  BY MarksFileType
<1> DEFINE stop == {i \in DOMAIN files[r] : files[r][i].mark = NotANumber}
           before == {j \in DOMAIN files[r] : \A i \in stop : j < i}
<1>3. \A i \in 1..k : i \in before
  <2> SUFFICES ASSUME NEW i \in 1..k, NEW j \in stop
               PROVE  i \in DOMAIN files[r] /\ i < j
    OBVIOUS
  <2>1. j \notin 1..k /\ j \in 1..Len(files[r])
    BY <1>1, <1>2 DEF Read
  <2> QED  BY <1>2, <2>1
<1>4. \A i \in before : i \in 1..k
  <2> SUFFICES ASSUME NEW i \in before, i > k
               PROVE  FALSE
    BY <1>2
  <2>1. k + 1 \in DOMAIN files[r] /\ k < Len(files[r]) /\ ~ (i < k + 1)
    BY <1>2
  <2>2. k + 1 \in stop
    BY <1>1, <2>1
  <2> QED  BY <2>1, <2>2
<1>5. before = 1..k
  BY <1>3, <1>4
<1>6. MarksOf(r) = {files[r][i] : i \in 1..k}
  BY <1>5 DEF MarksOf
<1> QED
  BY <1>1, <1>6 DEF Read

\* For any marks files, the marks of a submodule are in ascending order and are those
\* of its file by the time the stream is read.
THEOREM MarksAreComplete == Spec => []MarksComplete
<1>1. FixInv => MarksComplete
  <2> SUFFICES ASSUME FixInv
               PROVE  MarksComplete
    OBVIOUS
  <2>1. TypeOK /\ ReadInv
    BY DEF FixInv
  <2>2. \A r \in Repos : \A i, j \in DOMAIN mark2sha[r] : i < j => mark2sha[r][i].mark < mark2sha[r][j].mark
    BY <2>1 DEF ReadInv, Ascending
  <2>3. ASSUME NEW p \in DOMAIN submodules
        PROVE  {<<e.mark, e.sha>> : e \in ToSet(mark2sha[submodules[p]])}
                 = {<<l.mark, l.sha>> : l \in MarksOf(submodules[p])}
    <3>1. submodules[p] \in Repos /\ ReadWhole(submodules[p])
      BY <2>1, <2>3 DEF TypeOK, ReadInv
    <3> QED  BY <2>1, <3>1, MarksOfWhole
  <2> QED  BY <2>1, <2>2, <2>3 DEF MarksComplete
<1> QED
  BY <1>1, FixInvariant, PTL

\* In a ruleset svn2git accepts, the last rule of a submodule is the one svn2git
\* follows.
LEMMA LastRuleImported ==
  ASSUME TypeOK, Accepted, NEW r \in Repos, SubmoduleOf(r) = Target
  PROVE  /\ rules[Max(RulesOf(r))] \in ImportedRules /\ <<r, PathOf(r)>> \in SubmodulesOfTarget
         /\ rules[Max(RulesOf(r))].name = r
<1> DEFINE m == Max(RulesOf(r))
<1>1. m \in RulesOf(r) /\ rules[m].inRepo = Target /\ Target # NoRepo
  BY SubmoduleHasRule, FixAssumption
<1> HIDE DEF m
<1>2. m \in DOMAIN rules /\ rules[m].name = r
  BY <1>1 DEF RulesOf
<1>3. rules \in Seq(RepoRule) /\ rules[m] \in RepoRule
  <2>1. rules \in Seq(RepoRule)
    BY FixAssumption DEF TypeOK
  <2> QED  BY <1>2, <2>1
<1>4. ~rules[m].abstract
  BY <1>1, <1>2 DEF Accepted
<1>5. rules[m] \in ImportedRules
  BY <1>2, <1>4 DEF ImportedRules, ToSet
<1>6. PathOf(r) = rules[m].path
  BY DEF PathOf, m
<1> QED
  BY <1>1, <1>2, <1>5, <1>6 DEF SubmodulesOfTarget, m

\* A ruleset svn2git accepts means the same for the filter: for any number of rules,
\* repositories and paths.
THEOREM SubmodulesAgree == Spec => []SameSubmodules
<1>1. FixInv => SameSubmodules
  <2> SUFFICES ASSUME FixInv, pc \in {"stream", "done"}, Accepted
               PROVE  /\ \A x \in DOMAIN submodules : <<submodules[x], x>> \in SubmodulesOfTarget
                      /\ \A s \in SubmodulesOfTarget : s[2] \in DOMAIN submodules
    BY DEF SameSubmodules
  <2>1. TypeOK /\ SelectInv
    BY DEF FixInv
  <2>2. ASSUME NEW x \in DOMAIN submodules
        PROVE  <<submodules[x], x>> \in SubmodulesOfTarget
    <3>1. submodules[x] \in Repos /\ SubmoduleOf(submodules[x]) = Target /\ PathOf(submodules[x]) = x
      BY <2>1, <2>2 DEF TypeOK, SelectInv
    <3> QED  BY <2>1, <3>1, LastRuleImported
  <2>3. ASSUME NEW s \in SubmodulesOfTarget
        PROVE  s[2] \in DOMAIN submodules
    <3>1. PICK rule \in ImportedRules : rule.inRepo = Target /\ s = <<rule.name, rule.path>>
      BY <2>3 DEF SubmodulesOfTarget
    <3>2. PICK i \in DOMAIN rules : rule = rules[i]
      BY <3>1 DEF ImportedRules, ToSet
    <3> DEFINE r == rule.name
               m == Max(RulesOf(r))
    <3>3. r \in Repos
      <4>1. rules \in Seq(RepoRule)
        BY <2>1, FixAssumption DEF TypeOK
      <4>2. rules[i] \in RepoRule
        BY <4>1
      <4> QED  BY <3>2, <4>2 DEF RepoRule
    <3>4. i \in RulesOf(r) /\ Target # NoRepo
      BY <3>1, <3>2, FixAssumption DEF RulesOf
    <3>5. m \in RulesOf(r)
      <4>1. rules \in Seq(RepoRule)
        BY <2>1, FixAssumption DEF TypeOK
      <4>2. Len(rules) \in Nat /\ RulesOf(r) \in SUBSET (0..Len(rules))
        BY <4>1 DEF RulesOf
      <4> HIDE DEF r
      <4> QED  BY <3>4, <4>2, MaxIsMember
    <3>6. SubmoduleOf(r) = rules[m].inRepo /\ PathOf(r) = rules[m].path
      BY <3>4 DEF SubmoduleOf, PathOf
    <3> HIDE DEF m
    <3>7. rules[m].name = r /\ rules[m].inRepo # NoRepo /\ m \in DOMAIN rules
      BY <3>5 DEF RulesOf
    <3>8. rules[m] \in ImportedRules
      BY <3>7 DEF Accepted, ImportedRules, ToSet
    <3>9. rules[m].inRepo = Target /\ rules[m].path = rule.path
      BY <3>1, <3>4, <3>7, <3>8 DEF Accepted, Conflict
    <3>10. SubmoduleOf(r) = Target /\ PathOf(r) = s[2]
      BY <3>1, <3>6, <3>9
    <3> QED  BY <2>1, <3>3, <3>10 DEF SelectInv
  <2> QED  BY <2>2, <2>3
<1> QED
  BY <1>1, FixInvariant, PTL

\* A hash comes from the marks file of a repository that is a submodule at the path
\* where it is written, and is that of the mark svn2git has written there: for any
\* ruleset, marks files and stream.
THEOREM HashesOfOwners == Spec => []HashOfOwner
<1>1. FixInv => HashOfOwner
  <2> SUFFICES ASSUME FixInv, Accepted, ~pastEnd,
                      NEW i \in 1..Smaller(Len(out), Len(stream)), out[i].kind = "fixed"
               PROVE  \E s \in SubmodulesOfTarget : \E l \in MarksOf(s[1]) :
                        s[2] = stream[i].path /\ l.mark = stream[i].mark /\ l.sha = out[i].sha
    BY DEF HashOfOwner
  <2>1. TypeOK /\ SelectInv /\ ReadInv /\ HashInv
    BY DEF FixInv
  <2> DEFINE x == stream[i].path
             r == submodules[x]
  <2>2. x \in DOMAIN submodules /\ \E e \in ToSet(mark2sha[r]) : e.mark = stream[i].mark /\ e.sha = out[i].sha
    BY <2>1 DEF HashInv
  <2>3. r \in Repos /\ SubmoduleOf(r) = Target /\ PathOf(r) = x /\ ReadWhole(r)
    BY <2>1, <2>2 DEF TypeOK, SelectInv, ReadInv
  <2> HIDE DEF x, r
  <2>4. <<r, x>> \in SubmodulesOfTarget
    BY <2>1, <2>3, LastRuleImported
  <2>5. PICK e \in ToSet(mark2sha[r]) : e.mark = stream[i].mark /\ e.sha = out[i].sha
    BY <2>2
  <2>6. {<<a.mark, a.sha>> : a \in ToSet(mark2sha[r])} = {<<l.mark, l.sha>> : l \in MarksOf(r)}
    BY <2>1, <2>3, MarksOfWhole
  <2>7. <<e.mark, e.sha>> \in {<<l.mark, l.sha>> : l \in MarksOf(r)}
    BY <2>6
  <2>8. PICK l \in MarksOf(r) : l.mark = e.mark /\ l.sha = e.sha
    BY <2>7
  <2>9. <<r, x>>[1] = r /\ <<r, x>>[2] = x
    OBVIOUS
  <2> QED  BY <2>4, <2>5, <2>8, <2>9 DEF x
<1> QED
  BY <1>1, FixInvariant, PTL

=============================================================================
