------------------------- MODULE ArchiveWriterProofs -------------------------
(***************************************************************************)
(* What a writer keeps and what its archives say.  Python's dictionaries   *)
(* of directories and files agree with the native writer's entries; every  *)
(* archive that is written reads back as the entries it was written from;  *)
(* and the writers together are archives that change only as a whole.  For *)
(* any writers, names, contents and limits.                                *)
(***************************************************************************)
EXTENDS ArchiveWriter, SequenceTheorems, FiniteSetTheorems, TLAPS

------------------------------------------------------------------------------
(***************************************************************************)
(* Numbers and sequences.                                                  *)
(***************************************************************************)

LEMMA LeastNat ==
  ASSUME NEW S \in SUBSET Nat, S # {}
  PROVE  \E x \in S : \A y \in S : x <= y
<1> DEFINE R == OpToRel(<, Nat)
<1>1. IsWellFoundedOn(R, Nat)
  BY NatLessThanWellFounded
<1>2. \A x, y \in Nat : x < y => <<x, y>> \in R
  BY DEF OpToRel
<1> HIDE DEF R
<1>3. PICK x \in S : \A y \in S : ~(<<y, x>> \in R)
  BY <1>1, WFMin, Zenon
<1>4. ASSUME NEW y \in S PROVE x <= y
  <2>1. x \in Nat /\ y \in Nat /\ ~(y < x)
    BY <1>2, <1>3
  <2> QED BY <2>1
<1> QED BY <1>4

LEMMA GreatestNat ==
  ASSUME NEW n \in Nat, NEW S \in SUBSET (0..n), S # {}
  PROVE  \E x \in S : \A y \in S : y <= x
<1> DEFINE T == {k \in 0..n : n - k \in S}
<1>1. ASSUME NEW y \in S PROVE n - y \in T
  <2>1. n - y \in 0..n /\ n - (n - y) = y
    OBVIOUS
  <2> QED BY <2>1
<1>2. PICK y \in S : TRUE
  OBVIOUS
<1>3. T \in SUBSET Nat
  OBVIOUS
<1>7. n - y \in T
  BY <1>1, <1>2
<1> HIDE DEF T
<1>4. PICK x \in T : \A z \in T : x <= z
  BY <1>3, <1>7, LeastNat
<1>5. x \in 0..n /\ n - x \in S
  BY DEF T
<1>6. ASSUME NEW z \in S PROVE z <= n - x
  <2>1. x <= n - z /\ z \in 0..n
    BY <1>1, <1>4
  <2> QED BY <2>1, <1>5
<1> QED BY <1>5, <1>6

LEMMA PrefixFacts ==
  ASSUME NEW S, NEW s \in Seq(S), NEW k \in 0..Len(s)
  PROVE  /\ SubSeq(s, 1, k) \in Seq(S)
         /\ Len(SubSeq(s, 1, k)) = k
         /\ \A i \in 1..k : SubSeq(s, 1, k)[i] = s[i]
  OBVIOUS

LEMMA FrontFacts ==
  ASSUME NEW S, NEW s \in Seq(S), s # Root
  PROVE  /\ Front(s) \in Seq(S)
         /\ Len(s) \in Nat \ {0}
         /\ Len(Front(s)) = Len(s) - 1
         /\ Last(s) \in S
         /\ \A i \in 1..Len(s) - 1 : Front(s)[i] = s[i]
<1>1. Len(s) \in Nat \ {0}
  BY EmptySeq DEF Root
<1>2. PICK n \in 0..Len(s) : n = Len(s) - 1
  BY <1>1
<1>3. Front(s) = SubSeq(s, 1, n)
  BY <1>2, Zenon DEF Front
<1>4. /\ Front(s) \in Seq(S)
      /\ Len(Front(s)) = n
      /\ \A i \in 1..n : Front(s)[i] = s[i]
  BY <1>3, PrefixFacts
<1>5. Last(s) \in S
  BY <1>1 DEF Last
<1> QED BY <1>1, <1>2, <1>4, <1>5

LEMMA FrontLastEqual ==
  ASSUME NEW S, NEW s \in Seq(S), s # Root, NEW t \in Seq(S), t # Root,
         Front(s) = Front(t), Last(s) = Last(t)
  PROVE  s = t
<1>1. Len(s) \in Nat \ {0} /\ Len(t) = Len(s)
  BY FrontFacts
<1>2. \A i \in 1..Len(s) : s[i] = t[i]
  BY <1>1, FrontFacts DEF Last
<1> QED BY <1>1, <1>2, SeqEqual

LEMMA PrefixFront ==
  ASSUME NEW S, NEW s \in Seq(S), NEW k \in 1..Len(s)
  PROVE  /\ SubSeq(s, 1, k) # Root
         /\ Front(SubSeq(s, 1, k)) = SubSeq(s, 1, k - 1)
         /\ Last(SubSeq(s, 1, k)) = s[k]
<1> DEFINE t == SubSeq(s, 1, k)
<1>1. t \in Seq(S) /\ Len(t) = k /\ t[k] = s[k] /\ \A i \in 1..k : t[i] = s[i]
  BY PrefixFacts
<1> HIDE DEF t
<1>2. t # Root
  BY <1>1 DEF Root
<1>3. Last(t) = s[k]
  BY <1>1 DEF Last
<1>4. PICK n \in 0..Len(s) : n = k - 1
  OBVIOUS
<1>5. /\ SubSeq(s, 1, n) \in Seq(S) /\ Len(SubSeq(s, 1, n)) = n
      /\ \A i \in 1..n : SubSeq(s, 1, n)[i] = s[i]
  BY PrefixFacts
<1>6. Front(t) \in Seq(S) /\ Len(Front(t)) = n /\ \A i \in 1..n : Front(t)[i] = t[i]
  BY <1>1, <1>2, <1>4, FrontFacts
<1>7. \A i \in 1..n : Front(t)[i] = SubSeq(s, 1, n)[i]
  BY <1>1, <1>4, <1>5, <1>6
<1>8. Front(t) = SubSeq(s, 1, n)
  BY <1>5, <1>6, <1>7, SeqEqual
<1> QED BY <1>2, <1>3, <1>4, <1>8 DEF t

LEMMA WholePrefix ==
  ASSUME NEW S, NEW s \in Seq(S)
  PROVE  SubSeq(s, 1, Len(s)) = s /\ SubSeq(s, 1, 0) = Root
  BY SubSeqFull, SubSeqEmpty DEF Root

LEMMA Concat ==
  ASSUME NEW S, NEW s \in Seq(S), NEW t \in Seq(S)
  PROVE  /\ s \o t \in Seq(S)
         /\ Len(s \o t) = Len(s) + Len(t)
         /\ \A i \in 1..Len(s) : (s \o t)[i] = s[i]
         /\ \A i \in 1..Len(t) : (s \o t)[Len(s) + i] = t[i]
         /\ \A j \in 1..Len(s) + Len(t) :
                j \in 1..Len(s) \/ \E i \in 1..Len(t) : j = Len(s) + i
<1>1. \A j \in 1..Len(s) + Len(t) :
                j \in 1..Len(s) \/ \E i \in 1..Len(t) : j = Len(s) + i
  <2>1. ASSUME NEW j \in 1..Len(s) + Len(t), j \notin 1..Len(s)
        PROVE  j - Len(s) \in 1..Len(t) /\ j = Len(s) + (j - Len(s))
    BY <2>1
  <2> QED BY <2>1
<1> QED BY <1>1

\* Adding the directories and then the file is adding both.
LEMMA AppendConcat ==
  ASSUME NEW S, NEW s \in Seq(S), NEW t \in Seq(S), NEW e \in S
  PROVE  s \o Append(t, e) = Append(s \o t, e)
  OBVIOUS


------------------------------------------------------------------------------
(***************************************************************************)
(* Sets of numbers in order.                                               *)
(***************************************************************************)

Lower(S, x) == {y \in S : y < x}
Higher(S, x) == {y \in S : y > x}
Below(S, x) == Cardinality(Lower(S, x))
Over(S, x) == Cardinality(Higher(S, x))

LEMMA BelowType ==
  ASSUME NEW S \in SUBSET Nat, IsFiniteSet(S), NEW x \in S
  PROVE  /\ IsFiniteSet(Lower(S, x))
         /\ Below(S, x) \in Nat /\ Cardinality(S) \in Nat
         /\ Below(S, x) < Cardinality(S)
<1>1. Lower(S, x) \in SUBSET S /\ x \notin Lower(S, x)
  BY DEF Lower
<1>2. /\ IsFiniteSet(Lower(S, x)) /\ Cardinality(Lower(S, x)) <= Cardinality(S)
      /\ (Cardinality(S) = Cardinality(Lower(S, x)) => S = Lower(S, x))
  BY <1>1, FS_Subset
<1>3. Cardinality(Lower(S, x)) \in Nat /\ Cardinality(S) \in Nat
  BY <1>2, FS_CardinalityType
<1>4. Cardinality(Lower(S, x)) # Cardinality(S)
  BY <1>1, <1>2
<1>5. Cardinality(Lower(S, x)) < Cardinality(S)
  BY <1>2, <1>3, <1>4
<1> QED BY <1>2, <1>3, <1>5 DEF Below

\* A member has its lower ones, itself and its higher ones.
LEMMA Balance ==
  ASSUME NEW S \in SUBSET Nat, IsFiniteSet(S), NEW x \in S
  PROVE  /\ Over(S, x) \in Nat
         /\ Below(S, x) + Over(S, x) + 1 = Cardinality(S)
<1> DEFINE L == Lower(S, x)
           U == Higher(S, x)
<1>1. U \in SUBSET S /\ x \notin U
  BY DEF Higher
<1>2. IsFiniteSet(L) /\ IsFiniteSet(U)
  BY <1>1, BelowType, FS_Subset
<1>3. \A y \in S : y \in L \/ y \in U \/ y = x
  <2>1. ASSUME NEW y \in S PROVE y < x \/ y > x \/ y = x
    <3>1. y \in Nat /\ x \in Nat
      OBVIOUS
    <3> QED BY <3>1
  <2> QED BY <2>1 DEF Lower, Higher
<1>4. L \cap U = {}
  <2>1. ASSUME NEW y \in S PROVE ~(y < x /\ y > x)
    <3>1. y \in Nat /\ x \in Nat
      OBVIOUS
    <3> QED BY <3>1
  <2> QED BY <2>1 DEF Lower, Higher
<1>5. L \in SUBSET S /\ x \notin L
  BY DEF Lower
<1>6. S = (L \cup U) \cup {x} /\ x \notin L \cup U
  <2> HIDE DEF L, U
  <2> QED BY <1>1, <1>3, <1>5
<1>7. Cardinality(L) \in Nat /\ Cardinality(U) \in Nat
  BY <1>2, FS_CardinalityType
<1> HIDE DEF L, U
<1>8. IsFiniteSet(L \cup U) /\ Cardinality(L \cup U) = Cardinality(L) + Cardinality(U)
  <2>1. /\ IsFiniteSet(L \cup U)
        /\ Cardinality(L \cup U) = Cardinality(L) + Cardinality(U) - Cardinality(L \cap U)
    BY <1>2, FS_Union
  <2>2. Cardinality(L \cap U) = 0
    BY <1>4, FS_EmptySet
  <2> QED BY <1>7, <2>1, <2>2
<1>9. Cardinality((L \cup U) \cup {x}) = Cardinality(L \cup U) + 1
  BY <1>6, <1>8, FS_AddElement
<1>10. Cardinality(L) + Cardinality(U) + 1 = Cardinality(S)
  BY <1>6, <1>8, <1>9, Zenon
<1> QED BY <1>7, <1>10 DEF L, U, Below, Over

LEMMA BelowIncreases ==
  ASSUME NEW S \in SUBSET Nat, IsFiniteSet(S), NEW x \in S, NEW z \in S, x < z
  PROVE  Below(S, x) < Below(S, z)
<1>1. Lower(S, x) \in SUBSET Lower(S, z)
  <2>1. ASSUME NEW y \in S, y < x PROVE y < z
    <3>1. y \in Nat /\ x \in Nat /\ z \in Nat
      OBVIOUS
    <3> QED BY <2>1, <3>1
  <2> QED BY <2>1 DEF Lower
<1>2. x \in Lower(S, z) /\ x \notin Lower(S, x)
  BY DEF Lower
<1>3. IsFiniteSet(Lower(S, z)) /\ Below(S, x) \in Nat /\ Below(S, z) \in Nat
  BY BelowType
<1>4. Cardinality(Lower(S, x)) <= Cardinality(Lower(S, z))
      /\ (Cardinality(Lower(S, z)) = Cardinality(Lower(S, x)) => Lower(S, z) = Lower(S, x))
  BY <1>1, <1>3, FS_Subset
<1>5. Below(S, x) <= Below(S, z) /\ Below(S, x) # Below(S, z)
  BY <1>2, <1>4 DEF Below
<1> QED BY <1>3, <1>5

LEMMA BelowInjective ==
  ASSUME NEW S \in SUBSET Nat, IsFiniteSet(S), NEW x \in S, NEW z \in S
  PROVE  /\ Below(S, x) = Below(S, z) => x = z
         /\ Below(S, x) < Below(S, z) => x < z
         /\ Over(S, x) = Over(S, z) => x = z
<1>1. x \in Nat /\ z \in Nat /\ Below(S, x) \in Nat /\ Below(S, z) \in Nat
  BY BelowType
<1>2. x < z => Below(S, x) < Below(S, z)
  BY BelowIncreases
<1>3. z < x => Below(S, z) < Below(S, x)
  BY BelowIncreases
<1>4. /\ Over(S, x) \in Nat /\ Over(S, z) \in Nat
      /\ Below(S, x) + Over(S, x) + 1 = Cardinality(S)
      /\ Below(S, z) + Over(S, z) + 1 = Cardinality(S)
  BY Balance
<1>5. Over(S, x) = Over(S, z) => Below(S, x) = Below(S, z)
  BY <1>1, <1>4
<1> QED BY <1>1, <1>2, <1>3, <1>5

LEMMA BelowOnto ==
  ASSUME NEW S \in SUBSET Nat, IsFiniteSet(S), NEW n \in 1..Cardinality(S)
  PROVE  \E x \in S : Below(S, x) = n - 1
<1> DEFINE N == Cardinality(S)
           T == 1..N
           f == [x \in S |-> Below(S, x) + 1]
<1>1. N \in Nat
  BY FS_CardinalityType
<1>2. ASSUME NEW x \in S PROVE Below(S, x) + 1 \in T
  <2>1. Below(S, x) \in Nat /\ Below(S, x) < N
    BY BelowType
  <2> QED BY <1>1, <2>1
<1>3. f \in [S -> T]
  BY <1>2
<1>4. ASSUME NEW x \in S, NEW z \in S, f[x] = f[z] PROVE x = z
  <2>1. Below(S, x) + 1 = Below(S, z) + 1 /\ Below(S, x) \in Nat /\ Below(S, z) \in Nat
    BY <1>4, BelowType
  <2>2. Below(S, x) = Below(S, z)
    BY <2>1
  <2> QED BY <2>2, BelowInjective
<1>5. IsFiniteSet(T) /\ Cardinality(T) = N
  BY <1>1, FS_Interval
<1>6. f \in Injection(S, T)
  <2> HIDE DEF f, T
  <2> QED BY <1>3, <1>4 DEF Injection, IsInjective
<1>7. f \in Surjection(S, T)
  <2> HIDE DEF f, T
  <2> QED BY <1>5, <1>6, FS_Injection
<1>8. n \in T
  BY <1>1
<1>9. \E x \in S : f[x] = n
  <2> HIDE DEF f, T
  <2> QED BY <1>7, <1>8 DEF Surjection
<1>10. PICK x \in S : Below(S, x) + 1 = n
  BY <1>9
<1>11. Below(S, x) = n - 1
  BY <1>1, <1>10, BelowType
<1> QED BY <1>11

\* Ascending(S) enumerates S once, in order.
LEMMA AscendingFacts ==
  ASSUME NEW S \in SUBSET Nat, IsFiniteSet(S)
  PROVE  /\ Ascending(S) \in Seq(S)
         /\ Len(Ascending(S)) = Cardinality(S)
         /\ DOMAIN Ascending(S) = 1..Cardinality(S)
         /\ Cardinality(S) \in Nat
         /\ \A m, n \in 1..Cardinality(S) : m < n => Ascending(S)[m] < Ascending(S)[n]
         /\ \A m, n \in 1..Cardinality(S) : Ascending(S)[m] = Ascending(S)[n] => m = n
         /\ \A x \in S : \E n \in 1..Cardinality(S) : Ascending(S)[n] = x
<1> DEFINE N == Cardinality(S)
           s == Ascending(S)
           at(n) == CHOOSE x \in S : Below(S, x) = n - 1
<1>1. N \in Nat
  BY FS_CardinalityType
<1>2. s = [n \in 1..N |-> at(n)]
  BY Zenon DEF Ascending, Below, Lower
<1>3. ASSUME NEW n \in 1..N PROVE at(n) \in S /\ Below(S, at(n)) = n - 1
  <2>1. \E x \in S : Below(S, x) = n - 1
    BY BelowOnto
  <2> QED BY <2>1
<1> HIDE DEF at, s, N
<1>4. s \in Seq(S) /\ Len(s) = N /\ DOMAIN s = 1..N /\ \A n \in 1..N : s[n] = at(n)
  <2>1. \A n \in 1..N : at(n) \in S
    BY <1>3
  <2> QED BY <1>1, <1>2, <2>1
<1>5. \A n \in 1..N : s[n] \in S /\ Below(S, s[n]) = n - 1
  BY <1>3, <1>4
<1>6. ASSUME NEW m \in 1..N, NEW n \in 1..N
      PROVE  (m < n => s[m] < s[n]) /\ (s[m] = s[n] => m = n)
  <2>1. s[m] \in S /\ s[n] \in S /\ Below(S, s[m]) = m - 1 /\ Below(S, s[n]) = n - 1
    BY <1>5
  <2>2. Below(S, s[m]) < Below(S, s[n]) => s[m] < s[n]
    BY <2>1, BelowInjective
  <2>3. m \in Nat /\ n \in Nat
    BY <1>1
  <2>4. m < n => s[m] < s[n]
    BY <2>1, <2>2, <2>3
  <2>5. s[m] = s[n] => m - 1 = n - 1
    BY <2>1
  <2> QED BY <2>3, <2>4, <2>5
<1>7. ASSUME NEW x \in S PROVE \E n \in 1..N : s[n] = x
  <2>1. Below(S, x) \in Nat /\ Below(S, x) < N
    BY BelowType DEF N
  <2>2. PICK n \in 1..N : n - 1 = Below(S, x)
    <3>1. Below(S, x) + 1 \in 1..N /\ (Below(S, x) + 1) - 1 = Below(S, x)
      BY <1>1, <2>1
    <3> QED BY <3>1
  <2>3. s[n] \in S /\ Below(S, s[n]) = Below(S, x)
    BY <1>5, <2>2
  <2>4. s[n] = x
    BY <2>3, BelowInjective
  <2> QED BY <2>4
<1> QED BY <1>1, <1>4, <1>6, <1>7 DEF s, N

\* A set of numbers from 0 that goes on from each to the next holds them all.
LEMMA CountUp ==
  ASSUME NEW L \in Nat, NEW S, 0 \in S, \A n \in 1..L : n - 1 \in S => n \in S
  PROVE  \A n \in 0..L : n \in S
<1> DEFINE B == {n \in 0..L : n \notin S}
<1>1. ASSUME B # {} PROVE FALSE
  <2>1. B \in SUBSET Nat
    OBVIOUS
  <2>2. PICK x \in B : \A y \in B : x <= y
    BY <1>1, <2>1, LeastNat
  <2>3. x \in 1..L /\ x \notin S
    <3>1. x \in 0..L /\ x \notin S
      OBVIOUS
    <3>2. x # 0
      BY <3>1
    <3> QED BY <3>1, <3>2
  <2>4. x - 1 \in 0..L /\ ~(x <= x - 1)
    BY <2>3
  <2>5. x - 1 \in S
    BY <2>2, <2>4
  <2> QED BY <2>3, <2>5
<1> QED BY <1>1

\* What a recursion along the numbers defines exists.
Defines(L, V, v0, F) == \E f \in [0..L -> V] : f[0] = v0 /\ \A n \in 1..L : f[n] = F[f[n - 1], n]

LEMMA Recursion ==
  ASSUME NEW L \in Nat, NEW V, NEW v0 \in V, NEW F \in [V \X (1..L) -> V]
  PROVE  Defines(L, V, v0, F)
<1> DEFINE Is(f, m) == f[0] = v0 /\ \A n \in 1..m : f[n] = F[f[n - 1], n]
           S == {m \in 0..L : \E f \in [0..m -> V] : Is(f, m)}
<1>1. 0 \in S
  <2> DEFINE g == [i \in 0..0 |-> v0]
  <2>1. g \in [0..0 -> V] /\ g[0] = v0
    OBVIOUS
  <2>2. Is(g, 0) /\ 0 \in 0..L
    BY <2>1
  <2> HIDE DEF g, Is
  <2> QED BY <2>1, <2>2
<1>2. ASSUME NEW m \in 1..L, m - 1 \in S PROVE m \in S
  <2>1. PICK f \in [0..m - 1 -> V] : Is(f, m - 1)
    BY <1>2
  <2> DEFINE g == [i \in 0..m |-> IF i = m THEN F[f[m - 1], m] ELSE f[i]]
  <2>2. f[m - 1] \in V
    <3>1. m - 1 \in 0..m - 1
      OBVIOUS
    <3> QED BY <3>1
  <2>3. F[f[m - 1], m] \in V
    BY <2>2
  <2>4. g \in [0..m -> V]
    <3>1. ASSUME NEW i \in 0..m, i # m PROVE f[i] \in V
      <4>1. i \in 0..m - 1
        BY <3>1
      <4> QED BY <4>1
    <3> QED BY <2>3, <3>1
  <2>5. Is(g, m)
    <3>1. g[0] = v0
      <4>1. 0 # m /\ 0 \in 0..m
        OBVIOUS
      <4> QED BY <2>1, <4>1
    <3>2. ASSUME NEW n \in 1..m PROVE g[n] = F[g[n - 1], n]
      <4>1. n \in 0..m /\ n - 1 \in 0..m /\ n - 1 # m
        OBVIOUS
      <4>2. g[n - 1] = f[n - 1]
        BY <4>1
      <4>3. CASE n = m
        BY <4>1, <4>2, <4>3
      <4>4. CASE n # m
        <5>1. n \in 1..m - 1
          BY <4>4
        <5>2. f[n] = F[f[n - 1], n]
          BY <2>1, <5>1
        <5> QED BY <4>1, <4>2, <4>4, <5>2
      <4> QED BY <4>3, <4>4
    <3> QED BY <3>1, <3>2
  <2>6. m \in 0..L
    OBVIOUS
  <2> HIDE DEF g, Is
  <2> QED BY <2>4, <2>5, <2>6
<1> HIDE DEF S
<1>3. \A n \in 0..L : n \in S
  BY <1>1, <1>2, CountUp
<1>4. L \in S
  BY <1>3
<1> QED BY <1>4 DEF S, Defines

\* Descending(S) has n - 1 members above its n-th.
LEMMA DescendingFacts ==
  ASSUME NEW S \in SUBSET Nat, IsFiniteSet(S)
  PROVE  /\ Descending(S) \in Seq(S)
         /\ Len(Descending(S)) = Cardinality(S)
         /\ Cardinality(S) \in Nat
         /\ \A n \in 1..Cardinality(S) :
                Descending(S)[n] \in S /\ Over(S, Descending(S)[n]) = n - 1
<1> DEFINE N == Cardinality(S)
           s == Descending(S)
           at(n) == CHOOSE x \in S : Over(S, x) = n - 1
<1>1. N \in Nat
  BY FS_CardinalityType
<1>2. s = [n \in 1..N |-> at(n)]
  BY Zenon DEF Descending, Over, Higher
<1>3. ASSUME NEW n \in 1..N PROVE at(n) \in S /\ Over(S, at(n)) = n - 1
  <2>1. PICK m \in 1..Cardinality(S) : m = N + 1 - n
    BY <1>1
  <2>2. PICK x \in S : Below(S, x) = m - 1
    BY BelowOnto
  <2>3. Over(S, x) \in Nat /\ Below(S, x) + Over(S, x) + 1 = N
    BY Balance
  <2>4. Over(S, x) = n - 1
    BY <1>1, <2>1, <2>2, <2>3
  <2> QED BY <2>4
<1> HIDE DEF at, s, N
<1>4. s \in Seq(S) /\ Len(s) = N /\ \A n \in 1..N : s[n] = at(n)
  <2>1. \A n \in 1..N : at(n) \in S
    BY <1>3
  <2> QED BY <1>1, <1>2, <2>1
<1> QED BY <1>1, <1>3, <1>4 DEF s, N

\* Sets that correspond in order are enumerated alike.
LEMMA Isomorphic ==
  ASSUME NEW A \in SUBSET Nat, IsFiniteSet(A), NEW B \in SUBSET Nat, IsFiniteSet(B),
         NEW g \in [A -> B], \A y \in B : \E x \in A : g[x] = y,
         \A x, y \in A : x < y => g[x] < g[y]
  PROVE  /\ Cardinality(A) = Cardinality(B)
         /\ \A n \in 1..Cardinality(A) : Descending(B)[n] = g[Descending(A)[n]]
<1>1. \A x \in A : x \in Nat /\ g[x] \in B /\ g[x] \in Nat
  OBVIOUS
<1>2. ASSUME NEW x \in A, NEW y \in A, g[x] = g[y] PROVE x = y
  <2>1. ~(x < y) /\ ~(y < x)
    BY <1>1, <1>2
  <2> QED BY <1>1, <2>1
<1>3. ASSUME NEW x \in A, NEW y \in A, g[x] > g[y] PROVE x > y
  <2>1. ~(x < y) /\ x # y
    BY <1>1, <1>3
  <2> QED BY <1>1, <2>1
<1>4. g \in Bijection(A, B)
  BY <1>2 DEF Bijection, Injection, IsInjective, Surjection
<1>5. Cardinality(A) = Cardinality(B)
  BY <1>4, FS_Bijection, Zenon DEF ExistsBijection
<1>6. ASSUME NEW x \in A PROVE Over(B, g[x]) = Over(A, x)
  <2> DEFINE X == Higher(A, x)
             Y == Higher(B, g[x])
             h == [z \in X |-> g[z]]
  <2>1. X \in SUBSET A /\ Y \in SUBSET B
    BY DEF Higher
  <2>2. IsFiniteSet(X) /\ IsFiniteSet(Y)
    BY <2>1, FS_Subset
  <2>3. h \in [X -> Y]
    <3>1. ASSUME NEW z \in A, z > x PROVE g[z] > g[x]
      BY <1>1, <3>1
    <3> QED BY <3>1 DEF Higher
  <2>4. ASSUME NEW y \in Y PROVE \E z \in X : h[z] = y
    <3>1. y \in B /\ y > g[x]
      BY DEF Higher
    <3>2. PICK z \in A : g[z] = y
      BY <3>1
    <3>3. z \in X
      BY <1>3, <3>1, <3>2 DEF Higher
    <3> QED BY <3>2, <3>3
  <2>5. ASSUME NEW y \in X, NEW z \in X, h[y] = h[z] PROVE y = z
    BY <1>2, <2>1, <2>5
  <2> HIDE DEF X, Y, h
  <2>6. h \in Bijection(X, Y)
    BY <2>3, <2>4, <2>5 DEF Bijection, Injection, IsInjective, Surjection
  <2>7. Cardinality(X) = Cardinality(Y)
    BY <2>2, <2>6, FS_Bijection, Zenon DEF ExistsBijection
  <2> QED BY <2>7 DEF X, Y, Over
<1>7. ASSUME NEW n \in 1..Cardinality(A) PROVE Descending(B)[n] = g[Descending(A)[n]]
  <2>1. PICK x \in A : x = Descending(A)[n] /\ Over(A, x) = n - 1
    BY DescendingFacts
  <2>2. PICK y \in B : y = Descending(B)[n] /\ Over(B, y) = n - 1
    BY <1>5, DescendingFacts
  <2>3. Over(B, g[x]) = Over(B, y) /\ g[x] \in B
    BY <1>6, <2>1, <2>2
  <2>4. g[x] = y
    BY <2>3, BelowInjective
  <2> QED BY <2>1, <2>2, <2>4
<1> QED BY <1>5, <1>7
------------------------------------------------------------------------------
(***************************************************************************)
(* The names of one writer.                                                *)
(***************************************************************************)

Entry == [dir : BOOLEAN, parent : Nat, name : Name, depth : Nat, spool : Nat,
          size : Nat, digest : {Digest[c] : c \in Content} \cup {0}]

\* Entry i is at path q.
At(es, D, i, q) == es[i].name = Last(q) /\ es[i].parent = D[Front(q)]

NamesTyped(es, D, F) ==
    /\ es \in Seq(Entry)
    /\ DOMAIN D \subseteq Seq(Name)
    /\ D \in [DOMAIN D -> 0..Len(es)]
    /\ Root \in DOMAIN D /\ D[Root] = 0
    /\ F \subseteq Seq(Name) \ {Root}
    /\ F \cap DOMAIN D = {}

\* Directories by path and by entry; two paths never share one.
FoldersAgree(es, D) ==
    /\ \A q \in DOMAIN D \ {Root} :
        D[q] \in DOMAIN es /\ es[D[q]].dir /\ Front(q) \in DOMAIN D /\ At(es, D, D[q], q)
    /\ \A q, r \in DOMAIN D : D[q] = D[r] => q = r
    /\ \A i \in DOMAIN es : es[i].dir => \E q \in DOMAIN D \ {Root} : D[q] = i

FilesAgree(es, D, F) ==
    /\ \A q \in F : /\ Front(q) \in DOMAIN D
                    /\ \E i \in DOMAIN es : ~es[i].dir /\ At(es, D, i, q)
    /\ \A i \in DOMAIN es : ~es[i].dir =>
        \E q \in F : Front(q) \in DOMAIN D /\ At(es, D, i, q)

Filed(es, D, F) == NamesTyped(es, D, F) /\ FoldersAgree(es, D) /\ FilesAgree(es, D, F)

LEMMA FiledEmpty == Filed(<<>>, OnlyRoot, {})
<1>1. DOMAIN OnlyRoot = {Root} /\ OnlyRoot[Root] = 0 /\ OnlyRoot \in [{Root} -> 0..0]
  BY DEF OnlyRoot
<1>2. <<>> \in Seq(Entry) /\ DOMAIN <<>> = {} /\ Root \in Seq(Name) /\ Len(<<>>) = 0
  BY DEF Root
<1> QED BY <1>1, <1>2 DEF Filed, NamesTyped, FoldersAgree, FilesAgree


------------------------------------------------------------------------------
(***************************************************************************)
(* The layout of an archive: what is stored, and in which groups.          *)
(***************************************************************************)

\* The bytes of every entry are in the spool.
Spooled(es, s) ==
    /\ es \in Seq(Entry)
    /\ s \in Seq(DOMAIN Hash)
    /\ \A i \in DOMAIN es : es[i].spool + es[i].size <= Len(s)

LEMMA Slice ==
  ASSUME NEW S, NEW s \in Seq(S), NEW a \in Nat, NEW n \in Nat, a + n <= Len(s)
  PROVE  /\ SubSeq(s, a + 1, a + n) \in Seq(S)
         /\ Len(SubSeq(s, a + 1, a + n)) = n
         /\ \A i \in 1..n : SubSeq(s, a + 1, a + n)[i] = s[a + i]
<1> DEFINE t == SubSeq(s, a + 1, a + n)
<1>1. t = [i \in 1..n |-> s[a + i]]
  OBVIOUS
<1>2. \A i \in 1..n : s[a + i] \in S
  OBVIOUS
<1> HIDE DEF t
<1>3. t \in Seq(S) /\ Len(t) = n /\ \A i \in 1..n : t[i] = s[a + i]
  BY <1>1, <1>2
<1> QED BY <1>3 DEF t

LEMMA EntryTypes ==
  ASSUME NEW es, NEW s, Spooled(es, s), NEW i \in DOMAIN es
  PROVE  /\ es[i] \in Entry /\ es[i].dir \in BOOLEAN /\ es[i].parent \in Nat /\ es[i].name \in Name
         /\ es[i].spool \in Nat /\ es[i].size \in Nat
         /\ DOMAIN es = 1..Len(es) /\ Len(es) \in Nat /\ i \in Nat \ {0}
         /\ Bytes(es[i], s) \in Seq(DOMAIN Hash) /\ Len(Bytes(es[i], s)) = es[i].size
<1>1. es \in Seq(Entry) /\ DOMAIN es = 1..Len(es) /\ Len(es) \in Nat
  BY DEF Spooled
<1>2. es[i] \in Entry /\ i \in Nat \ {0}
  BY <1>1
<1>3. es[i].dir \in BOOLEAN /\ es[i].parent \in Nat /\ es[i].name \in Name
      /\ es[i].spool \in Nat /\ es[i].size \in Nat
  BY <1>2 DEF Entry
<1>4. PICK a \in Nat : a = es[i].spool
  BY <1>3
<1>5. PICK n \in Nat : n = es[i].size
  BY <1>3
<1>6. PICK t \in Seq(DOMAIN Hash) : t = s
  BY DEF Spooled
<1>7. a + n <= Len(t)
  BY <1>4, <1>5, <1>6 DEF Spooled
<1>8. SubSeq(t, a + 1, a + n) \in Seq(DOMAIN Hash) /\ Len(SubSeq(t, a + 1, a + n)) = n
  BY <1>7, Slice
<1>9. Bytes(es[i], s) = SubSeq(t, a + 1, a + n)
  BY <1>4, <1>5, <1>6, Zenon DEF Bytes
<1> QED BY <1>1, <1>2, <1>3, <1>5, <1>8, <1>9

LEMMA FilesFinite ==
  ASSUME NEW es, NEW s, Spooled(es, s)
  PROVE  /\ DOMAIN es \in SUBSET Nat /\ IsFiniteSet(DOMAIN es)
         /\ Files(es) \in SUBSET DOMAIN es /\ IsFiniteSet(Files(es))
         /\ Stored(es, s) \in SUBSET Files(es) /\ IsFiniteSet(Stored(es, s))
<1>1. Len(es) \in Nat /\ DOMAIN es = 1..Len(es)
  BY DEF Spooled
<1>2. IsFiniteSet(DOMAIN es)
  BY <1>1, FS_Interval
<1>3. Files(es) \in SUBSET DOMAIN es /\ Stored(es, s) \in SUBSET Files(es)
  BY DEF Files, Stored
<1> QED BY <1>1, <1>2, <1>3, FS_Subset

LEMMA LeastFacts ==
  ASSUME NEW S \in SUBSET Nat, S # {}
  PROVE  Least(S) \in S /\ \A y \in S : Least(S) <= y
<1>1. \E x \in S : \A y \in S : x <= y
  BY LeastNat
<1> QED BY <1>1, Zenon DEF Least

\* The first file with a file's bytes is stored, and has those bytes.
LEMMA OriginFacts ==
  ASSUME NEW es, NEW s, Spooled(es, s), NEW i \in Files(es)
  PROVE  /\ Origin(es, s, i) \in Stored(es, s)
         /\ es[Origin(es, s, i)].size = es[i].size
         /\ Bytes(es[Origin(es, s, i)], s) = Bytes(es[i], s)
<1>1. CASE Duplicate(es, s, i) = 0
  BY <1>1 DEF Origin, Stored
<1>2. CASE Duplicate(es, s, i) # 0
  <2> DEFINE f == Least(Twins(es, i))
  <2>1. Duplicate(es, s, i) = f /\ Bytes(es[i], s) = Bytes(es[f], s)
    BY <1>2 DEF Duplicate
  <2>2. Twins(es, i) \in SUBSET Nat /\ i \in Twins(es, i)
    BY FilesFinite DEF Twins
  <2>3. f \in Twins(es, i)
    BY <2>2, LeastFacts
  <2>4. f \in Files(es) /\ es[f].size = es[i].size /\ es[f].digest = es[i].digest
    BY <2>3 DEF Twins
  <2>5. Twins(es, f) = Twins(es, i)
    BY <2>4 DEF Twins
  <2> HIDE DEF f
  <2>6. Duplicate(es, s, f) = 0
    BY <2>5 DEF Duplicate, f
  <2>7. f \in Stored(es, s)
    BY <2>4, <2>6 DEF Stored
  <2>8. Origin(es, s, i) = f
    BY <1>2, <2>1 DEF Origin
  <2> QED BY <2>1, <2>4, <2>7, <2>8
<1> QED BY <1>1, <1>2

LEMMA StoredOrigin ==
  ASSUME NEW es, NEW s, NEW i \in Stored(es, s)
  PROVE  Origin(es, s, i) = i
  BY DEF Stored, Origin

(* Pieces of a run.                                                        *)

LEMMA Multiples ==
  ASSUME NEW G \in Nat \ {0}, NEW a \in Nat, NEW b \in Nat, a < b
  PROVE  a * G + G <= b * G /\ a * G \in Nat
  OBVIOUS

LEMMA Division ==
  ASSUME NEW G \in Nat \ {0}, NEW n \in Nat
  PROVE  /\ n \div G \in Nat /\ n % G \in Nat /\ n % G < G
         /\ n = (n \div G) * G + (n % G)
  OBVIOUS

Distinct(g) == \A m, n \in DOMAIN g : g[m] = g[n] => m = n

\* Groups of members of S, none empty, that share no member.
Packed(groups, S) ==
    /\ groups \in Seq(Seq(S))
    /\ \A k \in DOMAIN groups : groups[k] # <<>> /\ Distinct(groups[k])
    /\ \A j, k \in DOMAIN groups : j # k => ToSet(groups[j]) \cap ToSet(groups[k]) = {}

LEMMA PackedConcat ==
  ASSUME NEW S, NEW g, NEW h, Packed(g, S), Packed(h, S),
         \A j \in DOMAIN g, k \in DOMAIN h : ToSet(g[j]) \cap ToSet(h[k]) = {}
  PROVE  Packed(g \o h, S)
<1>1. PICK a \in Seq(Seq(S)) : a = g
  BY DEF Packed
<1>2. PICK b \in Seq(Seq(S)) : b = h
  BY DEF Packed
<1>3. /\ a \o b \in Seq(Seq(S)) /\ Len(a \o b) = Len(a) + Len(b)
      /\ \A i \in 1..Len(a) : (a \o b)[i] = a[i]
      /\ \A i \in 1..Len(b) : (a \o b)[Len(a) + i] = b[i]
      /\ \A i \in 1..Len(a) + Len(b) : i \in 1..Len(a) \/ \E n \in 1..Len(b) : i = Len(a) + n
  BY Concat
<1>4. /\ DOMAIN a = 1..Len(a) /\ DOMAIN b = 1..Len(b) /\ Len(a) \in Nat /\ Len(b) \in Nat
      /\ DOMAIN (a \o b) = 1..Len(a) + Len(b)
  BY <1>3
<1> DEFINE c == a \o b
           p == Len(a)
           q == Len(b)
           Good(x) == x # <<>> /\ Distinct(x)
<1> HIDE DEF c, p, q
<1>5. /\ DOMAIN a = 1..p /\ DOMAIN b = 1..q /\ DOMAIN c = 1..p + q /\ p \in Nat /\ q \in Nat
      /\ \A i \in 1..p : c[i] = a[i]
      /\ \A i \in 1..q : c[p + i] = b[i]
      /\ \A i \in 1..p + q : i \in 1..p \/ \E n \in 1..q : i = p + n
      /\ c \in Seq(Seq(S))
  BY <1>3, <1>4 DEF c, p, q
<1>6. /\ \A k \in 1..p : Good(a[k])
      /\ \A k \in 1..q : Good(b[k])
  BY <1>1, <1>2, <1>5 DEF Packed
<1>7. ASSUME NEW k \in DOMAIN c PROVE Good(c[k])
  <2>1. CASE k \in 1..p
    BY <1>5, <1>6, <2>1
  <2>2. ASSUME NEW n \in 1..q, k = p + n PROVE Good(c[k])
    BY <1>5, <1>6, <2>2
  <2> QED BY <1>5, <2>1, <2>2
<1>8. ASSUME NEW j \in DOMAIN c, NEW k \in DOMAIN c, j < k
      PROVE  ToSet(c[j]) \cap ToSet(c[k]) = {}
  <2>1. CASE k \in 1..p
    <3>1. j \in 1..p /\ j # k /\ c[j] = a[j] /\ c[k] = a[k]
      BY <1>5, <1>8, <2>1
    <3> QED BY <1>1, <1>5, <2>1, <3>1 DEF Packed
  <2>2. ASSUME NEW n \in 1..q, k = p + n PROVE ToSet(c[j]) \cap ToSet(c[k]) = {}
    <3>1. CASE j \in 1..p
      <4>1. c[j] = a[j] /\ c[k] = b[n]
        BY <1>5, <2>2, <3>1
      <4> QED BY <1>1, <1>2, <1>5, <3>1, <4>1
    <3>2. ASSUME NEW m \in 1..q, j = p + m PROVE ToSet(c[j]) \cap ToSet(c[k]) = {}
      <4>1. m # n /\ c[j] = b[m] /\ c[k] = b[n]
        BY <1>5, <1>8, <2>2, <3>2
      <4> QED BY <1>2, <1>5, <4>1 DEF Packed
    <3> QED BY <1>5, <3>1, <3>2
  <2> QED BY <1>5, <2>1, <2>2
<1>9. ASSUME NEW j \in DOMAIN c, NEW k \in DOMAIN c, j # k
      PROVE  ToSet(c[j]) \cap ToSet(c[k]) = {}
  <2>1. j < k \/ k < j
    BY <1>5, <1>9
  <2> QED BY <1>8, <2>1
<1>10. Packed(c, S)
  BY <1>5, <1>7, <1>9 DEF Packed
<1> QED BY <1>1, <1>2, <1>10 DEF c

\* Each piece of a run takes files the others do not.
LEMMA PiecesPacked ==
  ASSUME NEW S, NEW run \in Seq(S), Distinct(run)
  PROVE  /\ Packed(Pieces(run), S)
         /\ \A k \in DOMAIN Pieces(run) : ToSet(Pieces(run)[k]) \subseteq ToSet(run)
<1> DEFINE G == GroupSize
           L == Len(run)
           whole == L \div G
           count == whole + (IF L % G >= 2 THEN 1 ELSE 0)
           last(k) == IF k <= whole THEN k * G ELSE L
           P == Pieces(run)
           from(k) == (k - 1) * G
           size(k) == IF k <= whole THEN G ELSE L % G
<1>1. G \in Nat \ {0, 1} /\ L \in Nat
  BY GroupsShare
<1>2. whole \in Nat /\ L % G \in Nat /\ L % G < G /\ L = whole * G + (L % G)
  <2>1. G \in Nat \ {0}
    BY <1>1
  <2> HIDE DEF G, L
  <2> QED BY <1>1, <2>1, Division
<1>3. P = [k \in 1..count |-> SubSeq(run, from(k) + 1, last(k))]
  BY Zenon DEF Pieces
<1> HIDE DEF P, G, L
<1>4. count \in Nat /\ count <= whole + 1 /\ (count = whole + 1 => L % G >= 2)
  BY <1>2
<1> HIDE DEF count, whole
<1>5. ASSUME NEW k \in 1..count
      PROVE  /\ from(k) \in Nat /\ size(k) \in Nat \ {0}
             /\ last(k) = from(k) + size(k) /\ from(k) + size(k) <= L
             /\ k \in Nat /\ (k <= whole => size(k) = G)
  <2>1. CASE k <= whole
    <3>1. k - 1 \in Nat /\ k - 1 < k /\ k \in Nat
      BY <1>4
    <3>2. (k - 1) * G \in Nat /\ k * G = (k - 1) * G + G
      BY <1>1, <3>1
    <3>3. k * G <= whole * G
      BY <1>1, <1>2, <2>1, <3>1
    <3> QED BY <1>1, <1>2, <2>1, <3>1, <3>2, <3>3
  <2>2. CASE ~(k <= whole)
    <3>1. k = whole + 1 /\ k - 1 = whole /\ L % G >= 2
      BY <1>2, <1>4, <2>2
    <3>2. from(k) = whole * G /\ whole * G \in Nat
      BY <1>1, <1>2, <3>1
    <3> QED BY <1>1, <1>2, <2>2, <3>1, <3>2
  <2> QED BY <2>1, <2>2
<1>6. ASSUME NEW j \in 1..count, NEW k \in 1..count, j < k
      PROVE  from(j) + size(j) <= from(k)
  <2>1. j \in Nat /\ k \in Nat /\ j <= whole /\ size(j) = G
    BY <1>2, <1>4, <1>5, <1>6
  <2>2. j - 1 \in Nat /\ k - 1 \in Nat /\ j - 1 < k - 1
    BY <1>4, <1>6
  <2>3. (j - 1) * G + G <= (k - 1) * G
    BY <1>1, <2>2, Multiples
  <2> QED BY <2>1, <2>3
<1> HIDE DEF from, size, last
<1>7. ASSUME NEW k \in 1..count
      PROVE  /\ P[k] \in Seq(S) /\ Len(P[k]) = size(k) /\ DOMAIN P[k] = 1..size(k)
             /\ \A i \in 1..size(k) : P[k][i] = run[from(k) + i] /\ from(k) + i \in DOMAIN run
  <2>1. PICK a \in Nat : a = from(k)
    BY <1>5
  <2>2. PICK n \in Nat : n = size(k)
    BY <1>5
  <2>3. a + n <= Len(run)
    BY <1>5, <2>1, <2>2 DEF L
  <2>4. /\ SubSeq(run, a + 1, a + n) \in Seq(S) /\ Len(SubSeq(run, a + 1, a + n)) = n
        /\ \A i \in 1..n : SubSeq(run, a + 1, a + n)[i] = run[a + i]
    BY <2>3, Slice
  <2>5. P[k] = SubSeq(run, a + 1, a + n)
    BY <1>3, <1>5, <2>1, <2>2
  <2>6. \A i \in 1..n : a + i \in DOMAIN run
    BY <2>3
  <2>7. DOMAIN P[k] = 1..n
    BY <2>4, <2>5
  <2> QED BY <2>1, <2>2, <2>4, <2>5, <2>6, <2>7
<1>8. DOMAIN P = 1..count /\ P \in Seq(Seq(S))
  BY <1>3, <1>4, <1>7
<1>9. ASSUME NEW k \in 1..count PROVE P[k] # <<>> /\ Distinct(P[k])
  <2>1. P[k] # <<>>
    <3>1. 1 \in DOMAIN P[k]
      BY <1>5, <1>7
    <3> QED BY <3>1
  <2>2. ASSUME NEW m \in DOMAIN P[k], NEW n \in DOMAIN P[k], P[k][m] = P[k][n] PROVE m = n
    <3>1. from(k) + m = from(k) + n
      BY <1>7, <2>2 DEF Distinct
    <3> QED BY <1>5, <1>7, <3>1
  <2> QED BY <2>1, <2>2 DEF Distinct
<1>10. ASSUME NEW j \in 1..count, NEW k \in 1..count, j < k
       PROVE  ToSet(P[j]) \cap ToSet(P[k]) = {}
  <2>1. ASSUME NEW m \in DOMAIN P[j], NEW n \in DOMAIN P[k], P[j][m] = P[k][n] PROVE FALSE
    <3>3. m \in 1..size(j) /\ n \in 1..size(k)
      BY <1>7
    <3>4. P[j][m] = run[from(j) + m] /\ from(j) + m \in DOMAIN run
      BY <1>7, <3>3
    <3>5. P[k][n] = run[from(k) + n] /\ from(k) + n \in DOMAIN run
      BY <1>7, <3>3
    <3>1. from(j) + m = from(k) + n
      BY <2>1, <3>4, <3>5, Zenon DEF Distinct
    <3>2. m \in 1..size(j) /\ n \in 1..size(k) /\ from(j) + size(j) <= from(k)
      BY <1>6, <1>7, <1>10
    <3> QED BY <1>5, <3>1, <3>2
  <2> QED BY <2>1 DEF ToSet
<1>11. ASSUME NEW j \in 1..count, NEW k \in 1..count, j # k
       PROVE  ToSet(P[j]) \cap ToSet(P[k]) = {}
  <2>1. j < k \/ k < j
    BY <1>4, <1>11
  <2> QED BY <1>10, <2>1
<1>12. ASSUME NEW k \in 1..count PROVE ToSet(P[k]) \subseteq ToSet(run)
  BY <1>7 DEF ToSet
<1>13. Packed(P, S)
  BY <1>8, <1>9, <1>11 DEF Packed
<1> QED BY <1>8, <1>12, <1>13 DEF P

LEMMA AscendingSet ==
  ASSUME NEW S \in SUBSET Nat, IsFiniteSet(S)
  PROVE  /\ Ascending(S) \in Seq(S)
         /\ Distinct(Ascending(S))
         /\ ToSet(Ascending(S)) = S
         /\ S # {} => Ascending(S) # <<>>
<1>1. /\ Ascending(S) \in Seq(S) /\ DOMAIN Ascending(S) = 1..Cardinality(S)
      /\ \A m, n \in 1..Cardinality(S) : Ascending(S)[m] = Ascending(S)[n] => m = n
      /\ \A x \in S : \E n \in 1..Cardinality(S) : Ascending(S)[n] = x
  BY AscendingFacts
<1>2. ToSet(Ascending(S)) = S
  <2>1. PICK t \in Seq(S) : t = Ascending(S)
    BY <1>1
  <2>2. \A n \in DOMAIN t : t[n] \in S
    OBVIOUS
  <2>3. ASSUME NEW x \in S PROVE x \in {t[n] : n \in DOMAIN t}
    BY <1>1, <2>1
  <2>4. {t[n] : n \in DOMAIN t} = S
    BY <2>2, <2>3
  <2>5. ToSet(t) = S
    BY <2>4, Zenon DEF ToSet
  <2> QED BY <2>1, <2>5
<1>3. ASSUME S # {} PROVE Ascending(S) # <<>>
  <2>1. PICK n \in DOMAIN Ascending(S) : TRUE
    BY <1>1, <1>3
  <2> QED BY <2>1
<1> QED BY <1>1, <1>2, <1>3 DEF Distinct

LEMMA HashesFinite ==
  ASSUME NEW es, NEW s, Spooled(es, s)
  PROVE  LET all == UNION {Hashes(es, s, i) : i \in Chunked(es, s)}
         IN  all \in SUBSET Nat /\ IsFiniteSet(all)
<1> DEFINE all == UNION {Hashes(es, s, i) : i \in Chunked(es, s)}
           f == [i \in DOMAIN s |-> Hash[s[i]]]
<1>1. s \in Seq(DOMAIN Hash) /\ Len(s) \in Nat /\ DOMAIN s = 1..Len(s)
  BY DEF Spooled
<1>2. IsFiniteSet(DOMAIN s)
  BY <1>1, FS_Interval
<1>3. IsFiniteSet({f[i] : i \in DOMAIN s})
  <2>1. f \in Surjection(DOMAIN s, {f[i] : i \in DOMAIN s})
    BY DEF Surjection
  <2> HIDE DEF f
  <2> QED BY <1>2, <2>1, FS_Surjection
<1>4. ASSUME NEW i \in Chunked(es, s), NEW h \in Hashes(es, s, i) PROVE \E n \in DOMAIN s : h = Hash[s[n]]
  <2>1. PICK b \in ToSet(Bytes(es[i], s)) : h = Hash[b]
    BY DEF Hashes
  <2>2. i \in DOMAIN es
    BY FilesFinite DEF Chunked
  <2>3. es[i].spool \in Nat /\ es[i].size \in Nat /\ es[i].spool + es[i].size <= Len(s)
    BY <2>2, EntryTypes DEF Spooled
  <2>4. PICK a \in Nat : a = es[i].spool
    BY <2>3
  <2>5. PICK n \in Nat : n = es[i].size
    BY <2>3
  <2>6. /\ Len(SubSeq(s, a + 1, a + n)) = n
        /\ \A j \in 1..n : SubSeq(s, a + 1, a + n)[j] = s[a + j]
    <3>1. PICK t \in Seq(DOMAIN Hash) : t = s
      BY <1>1
    <3>2. a + n <= Len(t)
      BY <2>3, <2>4, <2>5, <3>1
    <3>3. /\ Len(SubSeq(t, a + 1, a + n)) = n
          /\ \A j \in 1..n : SubSeq(t, a + 1, a + n)[j] = t[a + j]
      BY <3>2, Slice
    <3> QED BY <3>1, <3>3
  <2>7. Bytes(es[i], s) = SubSeq(s, a + 1, a + n) /\ Bytes(es[i], s) \in Seq(DOMAIN Hash)
    BY <2>2, <2>4, <2>5, EntryTypes DEF Bytes
  <2>8. PICK j \in DOMAIN Bytes(es[i], s) : b = Bytes(es[i], s)[j]
    BY <2>1 DEF ToSet
  <2>9. j \in 1..n
    BY <2>6, <2>7, <2>8
  <2>10. a + j \in DOMAIN s
    BY <1>1, <2>3, <2>4, <2>5, <2>9
  <2> QED BY <2>1, <2>6, <2>7, <2>8, <2>9, <2>10
<1>5. \A n \in DOMAIN s : Hash[s[n]] \in Nat
  BY <1>1, ContentType
<1>6. all \in SUBSET {f[i] : i \in DOMAIN s}
  BY <1>4
<1>7. IsFiniteSet(all)
  BY <1>3, <1>6, FS_Subset
<1>8. all \in SUBSET Nat
  BY <1>4, <1>5
<1> QED BY <1>7, <1>8

\* The pieces of a run are of files no group before has.
LEMMA RunPacked ==
  ASSUME NEW es, NEW s, Spooled(es, s), NEW g, Packed(g, Stored(es, s)), NEW h
  PROVE  Packed(g \o Pieces(Run(es, s, g, h)), Stored(es, s))
<1> DEFINE R == {i \in Chunked(es, s) \ Grouped(g) : h \in Hashes(es, s, i)}
           S == Stored(es, s)
           run == Run(es, s, g, h)
<1>1. R \in SUBSET S
  BY DEF Chunked
<1>2. R \in SUBSET Nat /\ IsFiniteSet(R)
  BY <1>1, FilesFinite, FS_Subset
<1>3. \A k \in DOMAIN g : ToSet(g[k]) \cap R = {}
  BY DEF Grouped
<1>4. run = Ascending(R)
  BY Zenon DEF Run
<1> HIDE DEF R, run
<1>5. run \in Seq(R) /\ Distinct(run) /\ ToSet(run) = R
  BY <1>2, <1>4, AscendingSet
<1>6. run \in Seq(S)
  BY <1>1, <1>5
<1>7. /\ Packed(Pieces(run), S)
      /\ \A k \in DOMAIN Pieces(run) : ToSet(Pieces(run)[k]) \subseteq R
  BY <1>5, <1>6, PiecesPacked
<1>8. \A j \in DOMAIN g, k \in DOMAIN Pieces(run) : ToSet(g[j]) \cap ToSet(Pieces(run)[k]) = {}
  BY <1>3, <1>7
<1>9. Packed(g \o Pieces(run), S)
  BY <1>7, <1>8, PackedConcat
<1> QED BY <1>9 DEF run

LEMMA PackedEmpty == \A S : Packed(<<>>, S)
  BY DEF Packed

\* Every stored file is in one group, once.
LEMMA GroupsFacts ==
  ASSUME NEW es, NEW s, Spooled(es, s)
  PROVE  /\ Packed(Groups(es, s), Stored(es, s))
         /\ \A i \in Stored(es, s) : \E k \in DOMAIN Groups(es, s) : i \in ToSet(Groups(es, s)[k])
<1> DEFINE S == Stored(es, s)
           all == UNION {Hashes(es, s, i) : i \in Chunked(es, s)}
           runs == Ascending(all)
           L == Len(runs)
           Is(f) == f = [n \in 0..L |-> IF n = 0 THEN <<>>
                                        ELSE f[n - 1] \o Pieces(Run(es, s, f[n - 1], runs[n]))]
           after == CHOOSE f : Is(f)
           shared == after[L]
           rest == S \ Grouped(shared)
           V == {g \in Seq(Seq(S)) : Packed(g, S)}
           F == [x \in V \X (1..L) |-> x[1] \o Pieces(Run(es, s, x[1], runs[x[2]]))]
<1>1. Groups(es, s) = IF rest = {} THEN shared ELSE Append(shared, Ascending(rest))
  BY DEF Groups
<1>2. L \in Nat
  <2>1. all \in SUBSET Nat /\ IsFiniteSet(all)
    BY HashesFinite
  <2> HIDE DEF all
  <2> QED BY <2>1, AscendingFacts
<1> HIDE DEF runs, L, S
<1>3. \A g \in V : \A h : g \o Pieces(Run(es, s, g, h)) \in V
  <2>1. ASSUME NEW g \in V, NEW h PROVE g \o Pieces(Run(es, s, g, h)) \in V
    <3>1. Packed(g \o Pieces(Run(es, s, g, h)), S)
      BY RunPacked DEF S
    <3> QED BY <3>1 DEF Packed
  <2> QED BY <2>1
<1>4. F \in [V \X (1..L) -> V]
  BY <1>3
<1>5. <<>> \in V
  BY PackedEmpty
<1> HIDE DEF V
<1>6. \E f \in [0..L -> V] : f[0] = <<>> /\ \A n \in 1..L : f[n] = F[<<f[n - 1], n>>]
  <2> HIDE DEF F
  <2>1. Defines(L, V, <<>>, F)
    BY <1>2, <1>4, <1>5, Recursion
  <2> QED BY <2>1 DEF Defines
<1>7. PICK f \in [0..L -> V] : f[0] = <<>> /\ \A n \in 1..L : f[n] = F[<<f[n - 1], n>>]
  BY <1>6
<1>8. Is(f)
  <2>1. ASSUME NEW n \in 1..L PROVE f[n] = f[n - 1] \o Pieces(Run(es, s, f[n - 1], runs[n]))
    <3>1. n - 1 \in 0..L
      BY <1>2
    <3>2. <<f[n - 1], n>> \in V \X (1..L)
      BY <3>1
    <3> QED BY <1>7, <3>2
  <2>2. f[0] = <<>> /\ DOMAIN f = 0..L
    BY <1>7
  <2>3. \A n \in 0..L : n = 0 \/ n \in 1..L
    BY <1>2
  <2>4. ASSUME NEW n \in 0..L
        PROVE  f[n] = IF n = 0 THEN <<>> ELSE f[n - 1] \o Pieces(Run(es, s, f[n - 1], runs[n]))
    BY <2>1, <2>2, <2>3, Zenon
  <2> QED BY <2>2, <2>4
<1> HIDE DEF Is
<1>9. Is(after)
  BY <1>8
<1> HIDE DEF after
<1>10. /\ after[0] = <<>>
       /\ \A n \in 1..L : after[n] = after[n - 1] \o Pieces(Run(es, s, after[n - 1], runs[n]))
  <2>1. \A n \in 0..L : after[n] = IF n = 0 THEN <<>>
                                   ELSE after[n - 1] \o Pieces(Run(es, s, after[n - 1], runs[n]))
    BY <1>9 DEF Is
  <2>2. 0 \in 0..L /\ \A n \in 1..L : n \in 0..L /\ n # 0
    BY <1>2
  <2> QED BY <2>1, <2>2
<1>11. shared \in V
  <2> DEFINE N == {n \in 0..L : after[n] \in V}
  <2>1. 0 \in N
    BY <1>2, <1>5, <1>10
  <2>2. ASSUME NEW n \in 1..L, n - 1 \in N PROVE n \in N
    <3>1. after[n] \in V
      BY <1>3, <1>10, <2>2
    <3> QED BY <3>1
  <2> HIDE DEF N
  <2>3. \A n \in 0..L : n \in N
    BY <1>2, <2>1, <2>2, CountUp
  <2>4. L \in N
    BY <1>2, <2>3
  <2> QED BY <2>4 DEF N
<1>12. shared \in Seq(Seq(S)) /\ Packed(shared, S)
  BY <1>11 DEF V
<1> HIDE DEF shared
<1>13. CASE rest = {}
  <2>1. \A i \in S : \E k \in DOMAIN shared : i \in ToSet(shared[k])
    BY <1>13 DEF Grouped
  <2> QED BY <1>1, <1>12, <1>13, <2>1 DEF S
<1>14. CASE rest # {}
  <2> DEFINE last == Ascending(rest)
             one == <<last>>
  <2>1. rest \in SUBSET Nat /\ IsFiniteSet(rest) /\ rest \in SUBSET S
    BY FilesFinite, FS_Subset DEF S
  <2> HIDE DEF rest
  <2>2. last \in Seq(rest) /\ Distinct(last) /\ ToSet(last) = rest /\ last # <<>>
    BY <1>14, <2>1, AscendingSet
  <2> HIDE DEF last
  <2>3. last \in Seq(S)
    <3>1. PICK t \in Seq(rest) : t = last
      BY <2>2
    <3>4. \A n \in DOMAIN t : t[n] \in rest
      OBVIOUS
    <3>2. \A n \in DOMAIN t : t[n] \in S
      BY <2>1, <3>4
    <3>3. t \in Seq(S)
      BY <3>2
    <3> QED BY <3>1, <3>3
  <2>4. one \in Seq(Seq(S)) /\ DOMAIN one = {1} /\ one[1] = last
    BY <2>3
  <2>5. Packed(one, S)
    <3> HIDE DEF one
    <3> QED BY <2>2, <2>4 DEF Packed
  <2>6. Append(shared, last) = shared \o one
    BY <1>12, <2>3
  <2>7. \A j \in DOMAIN shared : ToSet(shared[j]) \cap rest = {}
    BY DEF Grouped, rest
  <2>8. \A j \in DOMAIN shared, k \in DOMAIN one : ToSet(shared[j]) \cap ToSet(one[k]) = {}
    <3> HIDE DEF one
    <3> QED BY <2>2, <2>4, <2>7
  <2>9. Packed(shared \o one, S)
    <3> HIDE DEF one
    <3> QED BY <1>12, <2>5, <2>8, PackedConcat
  <2>10. Groups(es, s) = shared \o one
    BY <1>1, <1>14, <2>6 DEF last
  <2>11. PICK t \in Seq(Seq(S)) : t = shared
    BY <1>12
  <2>12. /\ \A i \in DOMAIN t : i \in DOMAIN Append(t, last) /\ Append(t, last)[i] = t[i]
         /\ Len(t) + 1 \in DOMAIN Append(t, last) /\ Append(t, last)[Len(t) + 1] = last
    BY <2>3, AppendProperties
  <2>13. ASSUME NEW i \in S
         PROVE  \E k \in DOMAIN Append(t, last) : i \in ToSet(Append(t, last)[k])
    <3>1. CASE i \in rest
      BY <2>2, <2>12, <3>1
    <3>2. CASE i \notin rest
      <4>1. PICK k \in DOMAIN shared : i \in ToSet(shared[k])
        BY <3>2 DEF rest, Grouped
      <4> QED BY <2>11, <2>12, <4>1
    <3> QED BY <3>1, <3>2
  <2> QED BY <2>6, <2>9, <2>10, <2>11, <2>13 DEF S
<1> QED BY <1>13, <1>14

------------------------------------------------------------------------------
(***************************************************************************)
(* What assemble() lays out, and what a reader finds at each row.          *)
(***************************************************************************)

\* Two finite lists, one behind the other.
LEMMA Joined ==
  ASSUME NEW p \in Nat, NEW q \in Nat, NEW f, NEW g,
         f = [k \in 1..p |-> f[k]], g = [k \in 1..q |-> g[k]]
  PROVE  /\ DOMAIN (f \o g) = 1..p + q
         /\ \A k \in 1..p : (f \o g)[k] = f[k] /\ k \in DOMAIN (f \o g)
         /\ \A k \in 1..q : (f \o g)[p + k] = g[k] /\ p + k \in DOMAIN (f \o g)
<1> DEFINE S == {f[k] : k \in 1..p} \cup {g[k] : k \in 1..q}
<1>1. f \in [1..p -> S] /\ g \in [1..q -> S]
  OBVIOUS
<1> HIDE DEF S
<1>2. PICK s \in Seq(S) : s = f /\ Len(s) = p
  BY <1>1
<1>3. PICK t \in Seq(S) : t = g /\ Len(t) = q
  BY <1>1
<1>4. /\ s \o t \in Seq(S) /\ Len(s \o t) = Len(s) + Len(t)
      /\ \A i \in 1..Len(s) : (s \o t)[i] = s[i]
      /\ \A i \in 1..Len(t) : (s \o t)[Len(s) + i] = t[i]
  BY Concat
<1>5. DOMAIN (s \o t) = 1..p + q
  BY <1>2, <1>3, <1>4
<1>6. \A k \in 1..p : k \in 1..p + q
  OBVIOUS
<1>7. \A k \in 1..q : p + k \in 1..p + q
  OBVIOUS
<1> QED BY <1>2, <1>3, <1>4, <1>5, <1>6, <1>7

\* Every entry has one row, and files have theirs in the order of the entries.
Lists(l, es) ==
    /\ \E n \in Nat : DOMAIN l = 1..n
    /\ \A n \in DOMAIN l : l[n] \in DOMAIN es
    /\ \A i \in DOMAIN es : \E n \in DOMAIN l : l[n] = i
    /\ Distinct(l)
    /\ \A m, n \in DOMAIN l : m < n /\ ~es[l[m]].dir /\ ~es[l[n]].dir => l[m] < l[n]

LEMMA ListedFacts ==
  ASSUME NEW es, NEW s, Spooled(es, s)
  PROVE  Lists(Listed(es), es) /\ DOMAIN Listed(es) = 1..Len(Listed(es))
<1> DEFINE A == DOMAIN es \ Files(es)
           B == Files(es)
           p == Cardinality(A)
           q == Cardinality(B)
           f == Ascending(A)
           g == Ascending(B)
           l == f \o g
<1>1. A \in SUBSET Nat /\ B \in SUBSET Nat /\ IsFiniteSet(A) /\ IsFiniteSet(B)
      /\ A \in SUBSET DOMAIN es /\ A \cap B = {} /\ DOMAIN es = A \cup B
  <2>1. A \in SUBSET DOMAIN es
    OBVIOUS
  <2>2. IsFiniteSet(A)
    BY <2>1, FilesFinite, FS_Subset
  <2> QED BY <2>1, <2>2, FilesFinite
<1>2. \A i \in A : es[i].dir
  BY DEF Files
<1>3. \A i \in B : ~es[i].dir
  BY DEF Files
<1>4. l = Listed(es)
  BY DEF Listed
<1> HIDE DEF A, B
<1>5. /\ p \in Nat /\ DOMAIN f = 1..p /\ f \in Seq(A)
      /\ \A m, n \in 1..p : f[m] = f[n] => m = n
      /\ \A i \in A : \E n \in 1..p : f[n] = i
  BY <1>1, AscendingFacts
<1>6. /\ q \in Nat /\ DOMAIN g = 1..q /\ g \in Seq(B)
      /\ \A m, n \in 1..q : (g[m] = g[n] => m = n) /\ (m < n => g[m] < g[n])
      /\ \A i \in B : \E n \in 1..q : g[n] = i
  BY <1>1, AscendingFacts
<1> HIDE DEF p, q, f, g
<1>7. (\A n \in 1..p : f[n] \in A) /\ (\A n \in 1..q : g[n] \in B)
  <2>1. PICK t \in Seq(A) : t = f
    BY <1>5
  <2>2. PICK u \in Seq(B) : u = g
    BY <1>6
  <2>3. (\A n \in DOMAIN t : t[n] \in A) /\ (\A n \in DOMAIN u : u[n] \in B)
    OBVIOUS
  <2> QED BY <1>5, <1>6, <2>1, <2>2, <2>3
<1>8. f = [k \in 1..p |-> f[k]] /\ g = [k \in 1..q |-> g[k]]
  BY <1>5, <1>6
<1>9. /\ DOMAIN l = 1..p + q
      /\ \A k \in 1..p : l[k] = f[k] /\ k \in DOMAIN l
      /\ \A k \in 1..q : l[p + k] = g[k] /\ p + k \in DOMAIN l
  BY <1>5, <1>6, <1>8, Joined
<1> HIDE DEF l
<1>10. \A n \in DOMAIN l : n \in 1..p \/ \E k \in 1..q : n = p + k
  <2>1. ASSUME NEW n \in 1..p + q, n \notin 1..p PROVE n - p \in 1..q /\ n = p + (n - p)
    BY <1>5, <1>6, <2>1
  <2> QED BY <1>9, <2>1
<1>11. \A n \in DOMAIN l : l[n] \in DOMAIN es
  BY <1>1, <1>7, <1>9, <1>10
<1>12. ASSUME NEW i \in DOMAIN es PROVE \E n \in DOMAIN l : l[n] = i
  <2>1. CASE i \in A
    <3>1. PICK n \in 1..p : f[n] = i
      BY <1>5, <2>1
    <3> QED BY <1>9, <3>1
  <2>2. CASE i \in B
    <3>1. PICK n \in 1..q : g[n] = i
      BY <1>6, <2>2
    <3> QED BY <1>9, <3>1
  <2> QED BY <1>1, <2>1, <2>2
<1>13. ASSUME NEW m \in DOMAIN l, NEW n \in DOMAIN l, l[m] = l[n] PROVE m = n
  <2>1. CASE m \in 1..p /\ n \in 1..p
    BY <1>5, <1>9, <1>13, <2>1
  <2>2. ASSUME NEW j \in 1..q, NEW k \in 1..q, m = p + j, n = p + k PROVE m = n
    BY <1>6, <1>9, <1>13, <2>2
  <2>3. ASSUME NEW j \in 1..p, NEW k \in 1..q PROVE l[j] # l[p + k]
    BY <1>1, <1>7, <1>9
  <2> QED BY <1>10, <1>13, <2>1, <2>2, <2>3
<1>14. ASSUME NEW m \in DOMAIN l, NEW n \in DOMAIN l, m < n, ~es[l[m]].dir, ~es[l[n]].dir
       PROVE  l[m] < l[n]
  <2>1. ASSUME NEW k \in 1..p PROVE es[l[k]].dir
    BY <1>2, <1>7, <1>9
  <2>2. PICK j \in 1..q : m = p + j
    BY <1>10, <1>14, <2>1
  <2>3. PICK k \in 1..q : n = p + k
    BY <1>10, <1>14, <2>1
  <2>4. j < k
    BY <1>5, <1>6, <1>14, <2>2, <2>3
  <2> QED BY <1>6, <1>9, <2>2, <2>3, <2>4
<1>15. p + q \in Nat
  BY <1>5, <1>6
<1>16. Lists(l, es)
  BY <1>9, <1>11, <1>12, <1>13, <1>14, <1>15 DEF Lists, Distinct
<1>17. DOMAIN l = 1..Len(l)
  BY <1>9, <1>15
<1> QED BY <1>4, <1>16, <1>17

LEMMA GroupOfFacts ==
  ASSUME NEW es, NEW s, Spooled(es, s), NEW i \in Files(es)
  PROVE  LET gs == Groups(es, s)
             k == GroupOf(es, s, gs, i)
         IN  /\ k \in DOMAIN gs
             /\ Origin(es, s, i) \in ToSet(gs[k])
             /\ \A j \in DOMAIN gs : Origin(es, s, i) \in ToSet(gs[j]) => j = k
             /\ GroupOf(es, s, gs, Origin(es, s, i)) = k
<1> DEFINE gs == Groups(es, s)
           o == Origin(es, s, i)
           H == {j \in DOMAIN gs : o \in ToSet(gs[j])}
<1>1. o \in Stored(es, s)
  BY OriginFacts
<1>2. Packed(gs, Stored(es, s)) /\ \A x \in Stored(es, s) : \E k \in DOMAIN gs : x \in ToSet(gs[k])
  BY GroupsFacts
<1>3. Origin(es, s, o) = o
  BY <1>1, StoredOrigin
<1>4. GroupOf(es, s, gs, i) = Greatest(H) /\ GroupOf(es, s, gs, o) = Greatest(H)
  BY <1>3, Zenon DEF GroupOf
<1> HIDE DEF gs, o
<1>5. PICK k \in DOMAIN gs : o \in ToSet(gs[k])
  BY <1>1, <1>2
<1>6. \A j \in DOMAIN gs : o \in ToSet(gs[j]) => j = k
  BY <1>2, <1>5 DEF Packed
<1>7. H = {k}
  BY <1>5, <1>6
<1>8. k \in Nat
  BY <1>2 DEF Packed
<1> HIDE DEF H
<1>9. Greatest(H) = k
  <2>1. \E x \in H : \A y \in H : x >= y
    BY <1>7, <1>8
  <2> QED BY <1>7, <2>1 DEF Greatest
<1> QED BY <1>4, <1>5, <1>6, <1>9 DEF gs, o

\* The dictionaries of an archive.
Dictionaries(es, s) == [k \in 1..Len(Groups(es, s)) |-> Dictionary(es, s, Groups(es, s)[k])]

\* The parts of archive a: groups gs, stored files st and dictionaries dict.
Consists(a, es, s, gs, st, dict) ==
    /\ Len(gs) \in Nat /\ DOMAIN gs = 1..Len(gs)
    /\ DOMAIN a.masters = 1..Len(gs)
    /\ \A k \in 1..Len(gs) : a.masters[k] = Master(es, s, gs, dict, k)
    /\ DOMAIN a.rows = DOMAIN Listed(es)
    /\ \A n \in DOMAIN Listed(es) : a.rows[n] = Row(es, s, gs, st, Listed(es)[n])
    /\ \A k \in 1..Len(gs) :
        k \in DOMAIN a.body /\ a.body[k] = [with |-> Super, data |-> dict[k]]
    /\ \A n \in DOMAIN st :
        /\ Len(gs) + n \in DOMAIN a.body
        /\ a.body[Len(gs) + n] = [with |-> dict[GroupOf(es, s, gs, st[n])],
                                  data |-> Bytes(es[st[n]], s)]

LEMMA Parts ==
  ASSUME NEW es, NEW s, Spooled(es, s)
  PROVE  Consists(Assemble(es, s), es, s, Groups(es, s), Ascending(Stored(es, s)),
                  Dictionaries(es, s))
<1> DEFINE a == Assemble(es, s)
           gs == Groups(es, s)
           st == Ascending(Stored(es, s))
           dict == Dictionaries(es, s)
           l == Listed(es)
           one == [k \in 1..Len(gs) |-> [with |-> Super, data |-> dict[k]]]
           two == [n \in 1..Len(st) |-> [with |-> dict[GroupOf(es, s, gs, st[n])],
                                         data |-> Bytes(es[st[n]], s)]]
<1>1. a = [body |-> one \o two,
           masters |-> [k \in 1..Len(gs) |-> Master(es, s, gs, dict, k)],
           rows |-> [n \in 1..Len(l) |-> Row(es, s, gs, st, l[n])]]
  BY Zenon DEF Assemble, Dictionaries
<1>2. a.body = one \o two
  BY <1>1
<1>3. a.masters = [k \in 1..Len(gs) |-> Master(es, s, gs, dict, k)]
  BY <1>1
<1>4. a.rows = [n \in 1..Len(l) |-> Row(es, s, gs, st, l[n])]
  BY <1>1
<1>5. Len(gs) \in Nat /\ DOMAIN gs = 1..Len(gs)
  BY GroupsFacts DEF Packed
<1>6. Len(st) \in Nat /\ DOMAIN st = 1..Len(st)
  <2>1. Stored(es, s) \in SUBSET Nat /\ IsFiniteSet(Stored(es, s))
    BY FilesFinite
  <2> QED BY <2>1, AscendingFacts
<1>7. DOMAIN l = 1..Len(l)
  BY ListedFacts
<1> HIDE DEF a, gs, st, dict, l
<1>8. one = [k \in 1..Len(gs) |-> one[k]] /\ two = [n \in 1..Len(st) |-> two[n]]
  OBVIOUS
<1>9. \A k \in 1..Len(gs) : one[k] = [with |-> Super, data |-> dict[k]]
  OBVIOUS
<1>10. \A n \in 1..Len(st) : two[n] = [with |-> dict[GroupOf(es, s, gs, st[n])],
                                       data |-> Bytes(es[st[n]], s)]
  OBVIOUS
<1> HIDE DEF one, two
<1>11. /\ \A k \in 1..Len(gs) : (one \o two)[k] = one[k] /\ k \in DOMAIN (one \o two)
       /\ \A k \in 1..Len(st) : /\ (one \o two)[Len(gs) + k] = two[k]
                                /\ Len(gs) + k \in DOMAIN (one \o two)
  BY <1>5, <1>6, <1>8, Joined
<1>12. DOMAIN a.masters = 1..Len(gs) /\ \A k \in 1..Len(gs) : a.masters[k] = Master(es, s, gs, dict, k)
  BY <1>3
<1>13. DOMAIN a.rows = DOMAIN l /\ \A n \in DOMAIN l : a.rows[n] = Row(es, s, gs, st, l[n])
  BY <1>4, <1>7
<1>14. \A k \in 1..Len(gs) : k \in DOMAIN a.body /\ a.body[k] = [with |-> Super, data |-> dict[k]]
  BY <1>2, <1>9, <1>11
<1>15. \A n \in DOMAIN st : /\ Len(gs) + n \in DOMAIN a.body
                            /\ a.body[Len(gs) + n] = [with |-> dict[GroupOf(es, s, gs, st[n])],
                                                      data |-> Bytes(es[st[n]], s)]
  BY <1>2, <1>6, <1>10, <1>11
<1>16. Consists(a, es, s, gs, st, dict)
  BY <1>5, <1>12, <1>13, <1>14, <1>15, Zenon DEF Consists, l
<1> QED BY <1>16, Zenon DEF a, gs, st, dict

\* Every file's row is extracted as the bytes that were written to it.
LEMMA Extracted ==
  ASSUME NEW es, NEW s, Spooled(es, s), NEW n \in DOMAIN Listed(es), Listed(es)[n] \in Files(es)
  PROVE  Extract(Assemble(es, s), Assemble(es, s).rows[n]) = <<Bytes(es[Listed(es)[n]], s)>>
<1> DEFINE a == Assemble(es, s)
           gs == Groups(es, s)
           st == Ascending(Stored(es, s))
           dict == Dictionaries(es, s)
           i == Listed(es)[n]
           o == Origin(es, s, i)
           k == GroupOf(es, s, gs, i)
           c == CHOOSE x \in DOMAIN st : st[x] = o
           row == a.rows[n]
<1>1. /\ Len(gs) \in Nat /\ DOMAIN gs = 1..Len(gs)
      /\ DOMAIN a.masters = 1..Len(gs)
      /\ \A j \in 1..Len(gs) : a.masters[j] = Master(es, s, gs, dict, j)
      /\ DOMAIN a.rows = DOMAIN Listed(es)
      /\ \A m \in DOMAIN Listed(es) : a.rows[m] = Row(es, s, gs, st, Listed(es)[m])
      /\ \A j \in 1..Len(gs) : j \in DOMAIN a.body /\ a.body[j] = [with |-> Super, data |-> dict[j]]
      /\ \A x \in DOMAIN st : /\ Len(gs) + x \in DOMAIN a.body
                              /\ a.body[Len(gs) + x] = [with |-> dict[GroupOf(es, s, gs, st[x])],
                                                        data |-> Bytes(es[st[x]], s)]
  <2>1. Consists(a, es, s, gs, st, dict)
    BY Parts, Zenon
  <2> HIDE DEF a, gs, st, dict
  <2> QED BY <2>1, Zenon DEF Consists
<1>2. k \in DOMAIN gs /\ GroupOf(es, s, gs, o) = k
  BY GroupOfFacts
<1>3. o \in Stored(es, s) /\ Bytes(es[o], s) = Bytes(es[i], s)
  BY OriginFacts
<1>4. i \in DOMAIN es /\ ~es[i].dir
  BY DEF Files
<1>5. Len(Bytes(es[i], s)) = es[i].size
  BY <1>4, EntryTypes
<1>6. c \in DOMAIN st /\ st[c] = o
  <2>1. Stored(es, s) \in SUBSET Nat /\ IsFiniteSet(Stored(es, s))
    BY FilesFinite
  <2>2. \E x \in DOMAIN st : st[x] = o
    BY <1>3, <2>1, AscendingFacts
  <2> HIDE DEF st, o
  <2> QED BY <2>2
<1>7. row.master = k + 1 /\ row.size = es[i].size /\ row.offset = Len(gs) + c
  <2>1. row = Row(es, s, gs, st, i)
    BY <1>1
  <2> HIDE DEF row, gs, st
  <2> QED BY <1>4, <2>1 DEF Row
<1>8. ASSUME NEW j \in 1..Len(gs)
      PROVE  /\ a.masters[j].id = j + 1 /\ a.masters[j].offset = j
             /\ a.masters[j].size = Len(dict[j])
             /\ j \in DOMAIN a.body /\ a.body[j].with = Super /\ a.body[j].data = dict[j]
  <2>1. a.masters[j] = Master(es, s, gs, dict, j)
    BY <1>1
  <2>2. j \in DOMAIN a.body /\ a.body[j] = [with |-> Super, data |-> dict[j]]
    BY <1>1
  <2> HIDE DEF a, gs, dict
  <2> QED BY <2>1, <2>2 DEF Master
<1> HIDE DEF a, gs, st, dict, i, o, k, c, row
<1>9. k \in 1..Len(gs) /\ k \in Nat
  BY <1>1, <1>2
<1>10. Resolve(a, k + 1) = <<dict[k]>>
  <2> DEFINE found == {j \in DOMAIN a.masters : a.masters[j].id = k + 1}
  <2>1. \A j \in DOMAIN a.masters : a.masters[j].id = k + 1 <=> j = k
    <3>1. ASSUME NEW j \in 1..Len(gs) PROVE j + 1 = k + 1 <=> j = k
      BY <1>9
    <3> QED BY <1>1, <1>8, <3>1
  <2>2. found = {k}
    BY <1>1, <1>9, <2>1
  <2> HIDE DEF found
  <2>3. Least(found) \in found
    BY <1>9, <2>2, LeastFacts
  <2>4. Least(found) = k /\ found # {}
    BY <2>2, <2>3
  <2>6. Expand(a, a.masters[k].offset, Super, a.masters[k].size) = <<dict[k]>>
    BY <1>8, <1>9 DEF Expand
  <2> QED BY <2>4, <2>6 DEF Resolve, found
<1>11. /\ a.body[Len(gs) + c].with = dict[k] /\ a.body[Len(gs) + c].data = Bytes(es[i], s)
       /\ Len(gs) + c \in DOMAIN a.body
  <2>1. /\ Len(gs) + c \in DOMAIN a.body
        /\ a.body[Len(gs) + c] = [with |-> dict[GroupOf(es, s, gs, st[c])],
                                  data |-> Bytes(es[st[c]], s)]
    BY <1>1, <1>6
  <2>2. GroupOf(es, s, gs, st[c]) = k /\ Bytes(es[st[c]], s) = Bytes(es[i], s)
    BY <1>2, <1>3, <1>6
  <2> QED BY <2>1, <2>2
<1>12. Expand(a, row.offset, dict[k], row.size) = <<Bytes(es[i], s)>>
  BY <1>5, <1>7, <1>11 DEF Expand
<1>13. Resolve(a, row.master) = <<dict[k]>> /\ <<dict[k]>> # <<>> /\ <<dict[k]>>[1] = dict[k]
  BY <1>7, <1>10
<1>14. Extract(a, row) = <<Bytes(es[i], s)>>
  BY <1>12, <1>13 DEF Extract
<1> QED BY <1>14 DEF a, i, row

------------------------------------------------------------------------------
(***************************************************************************)
(* The counts at a dictionary are those of the rows that name it.          *)
(***************************************************************************)

\* The blocks of the first n of some rows, of their sizes.
Area(row, size, n) == UNION {{row[x]} \X (1..size[x]) : x \in 1..n}

LEMMA AreaGrows ==
  ASSUME NEW L \in Nat, NEW row, NEW size \in [1..L -> Nat],
         \A x, y \in 1..L : row[x] = row[y] => x = y,
         NEW n \in 1..L, IsFiniteSet(Area(row, size, n - 1))
  PROVE  /\ IsFiniteSet(Area(row, size, n))
         /\ Cardinality(Area(row, size, n)) = Cardinality(Area(row, size, n - 1)) + size[n]
         /\ Cardinality(Area(row, size, n - 1)) \in Nat
<1> DEFINE own == {row[n]} \X (1..size[n])
           others == Area(row, size, n - 1)
           f == [k \in 1..size[n] |-> <<row[n], k>>]
<1>1. size[n] \in Nat
  OBVIOUS
<1>2. IsFiniteSet(1..size[n]) /\ Cardinality(1..size[n]) = size[n]
  BY <1>1, FS_Interval
<1>3. f \in Bijection(1..size[n], own)
  <2>1. f \in [1..size[n] -> own] /\ \A k \in 1..size[n] : f[k] = <<row[n], k>>
    OBVIOUS
  <2>2. ASSUME NEW j \in 1..size[n], NEW k \in 1..size[n], f[j] = f[k] PROVE j = k
    BY <2>1, <2>2
  <2>3. ASSUME NEW y \in own PROVE \E k \in 1..size[n] : f[k] = y
    <3>1. PICK k \in 1..size[n] : y = <<row[n], k>>
      OBVIOUS
    <3> QED BY <2>1, <3>1
  <2> HIDE DEF f, own
  <2> QED BY <2>1, <2>2, <2>3 DEF Bijection, Injection, Surjection, IsInjective
<1>4. ExistsBijection(1..size[n], own)
  BY <1>3 DEF ExistsBijection
<1>5. IsFiniteSet(own) /\ Cardinality(own) = size[n]
  BY <1>2, <1>4, FS_Bijection
<1>6. \A x \in 1..n : x \in 1..L /\ (x = n \/ x \in 1..n - 1)
  OBVIOUS
<1>7. \A x \in 1..n - 1 : x \in 1..L /\ x \in 1..n /\ x # n
  OBVIOUS
<1>8. Area(row, size, n) = others \cup own
  BY <1>6, <1>7 DEF Area
<1>9. others \cap own = {}
  <2>1. \A x \in 1..n - 1 : row[x] # row[n]
    BY <1>7
  <2> QED BY <2>1 DEF Area
<1>10. IsFiniteSet(others)
  OBVIOUS
<1> HIDE DEF own, others
<1>11. /\ IsFiniteSet(others \cup own)
       /\ Cardinality(others \cup own)
             = Cardinality(others) + Cardinality(own) - Cardinality(others \cap own)
  BY <1>5, <1>10, FS_Union
<1>12. Cardinality(others) \in Nat /\ Cardinality(others \cap own) = 0
  BY <1>9, <1>10, FS_CardinalityType, FS_EmptySet
<1>13. Cardinality(others \cup own) = Cardinality(others) + size[n]
  BY <1>1, <1>5, <1>11, <1>12
<1> QED BY <1>8, <1>11, <1>12, <1>13 DEF others

\* The sizes of a list of entries are the blocks of the rows they have.
LEMMA SizesFacts ==
  ASSUME NEW es, NEW list, Len(list) \in Nat,
         \A n \in 1..Len(list) : es[list[n]].size \in Nat,
         NEW row, \A x, y \in 1..Len(list) : row[x] = row[y] => x = y
  PROVE  Sizes(es, list)
            = Cardinality(Area(row, [n \in 1..Len(list) |-> es[list[n]].size], Len(list)))
<1> DEFINE L == Len(list)
           size == [n \in 1..L |-> es[list[n]].size]
           Is(f) == f = [n \in 0..L |-> IF n = 0 THEN 0 ELSE f[n - 1] + es[list[n]].size]
           sum == CHOOSE f : Is(f)
           F == [x \in Nat \X (1..L) |-> x[1] + size[x[2]]]
           Right == {n \in 0..L : /\ IsFiniteSet(Area(row, size, n))
                                  /\ sum[n] = Cardinality(Area(row, size, n))}
<1>1. Sizes(es, list) = sum[L]
  BY DEF Sizes
<1>2. size \in [1..L -> Nat] /\ \A n \in 1..L : size[n] = es[list[n]].size
  OBVIOUS
<1>3. L \in Nat
  OBVIOUS
<1> HIDE DEF L, size
<1>4. F \in [Nat \X (1..L) -> Nat]
  <2>1. \A n \in 1..L : size[n] \in Nat
    BY <1>2
  <2> QED BY <2>1
<1>5. PICK f \in [0..L -> Nat] : f[0] = 0 /\ \A n \in 1..L : f[n] = F[<<f[n - 1], n>>]
  <2> HIDE DEF F
  <2>1. Defines(L, Nat, 0, F)
    BY <1>3, <1>4, Recursion
  <2> QED BY <2>1 DEF Defines
<1>6. Is(f)
  <2>1. ASSUME NEW n \in 1..L PROVE f[n] = f[n - 1] + es[list[n]].size
    <3>1. n - 1 \in 0..L
      BY <1>3
    <3>2. <<f[n - 1], n>> \in Nat \X (1..L)
      BY <3>1
    <3> QED BY <1>2, <1>5, <3>2
  <2>2. f[0] = 0 /\ DOMAIN f = 0..L
    BY <1>5
  <2>3. \A n \in 0..L : n = 0 \/ n \in 1..L
    BY <1>3
  <2>4. ASSUME NEW n \in 0..L
        PROVE  f[n] = IF n = 0 THEN 0 ELSE f[n - 1] + es[list[n]].size
    BY <2>1, <2>2, <2>3, Zenon
  <2> QED BY <2>2, <2>4
<1>7. Is(sum)
  <2> HIDE DEF Is
  <2> QED BY <1>6
<1> HIDE DEF sum
<1>8. \A n \in 0..L : sum[n] = IF n = 0 THEN 0 ELSE sum[n - 1] + es[list[n]].size
  BY <1>7, Zenon
<1> HIDE DEF Is
<1>9. 0 \in Right
  <2>1. Area(row, size, 0) = {}
    BY DEF Area
  <2>2. sum[0] = 0 /\ 0 \in 0..L
    BY <1>3, <1>8
  <2> QED BY <2>1, <2>2, FS_EmptySet
<1>10. ASSUME NEW n \in 1..L, n - 1 \in Right PROVE n \in Right
  <2>1. n \in 0..L /\ n # 0
    BY <1>3
  <2>2. sum[n] = sum[n - 1] + size[n]
    BY <1>2, <1>8, <2>1
  <2>3. \A x, y \in 1..L : row[x] = row[y] => x = y
    BY DEF L
  <2>4. IsFiniteSet(Area(row, size, n - 1)) /\ sum[n - 1] = Cardinality(Area(row, size, n - 1))
    BY <1>10
  <2>5. /\ IsFiniteSet(Area(row, size, n))
        /\ Cardinality(Area(row, size, n)) = Cardinality(Area(row, size, n - 1)) + size[n]
    <3>1. size \in [1..L -> Nat]
      BY <1>2
    <3>2. IsFiniteSet(Area(row, size, n - 1))
      BY <2>4
    <3> QED BY <1>3, <2>3, <3>1, <3>2, AreaGrows
  <2> QED BY <2>1, <2>2, <2>4, <2>5
<1> HIDE DEF Right
<1>11. \A n \in 0..L : n \in Right
  BY <1>3, <1>9, <1>10, CountUp
<1>12. sum[L] = Cardinality(Area(row, size, L))
  BY <1>3, <1>11 DEF Right
<1> QED BY <1>1, <1>12 DEF L, size

LEMMA Wider ==
  ASSUME NEW T, NEW S \in SUBSET T, NEW u \in Seq(S) PROVE u \in Seq(T)
<1>1. Len(u) \in Nat /\ u = [n \in 1..Len(u) |-> u[n]] /\ \A n \in 1..Len(u) : u[n] \in T
  OBVIOUS
<1> QED BY <1>1

\* The files counted at a dictionary are those with that dictionary, once each.
LEMMA CountedFacts ==
  ASSUME NEW es, NEW s, Spooled(es, s), NEW k \in DOMAIN Groups(es, s)
  PROVE  LET c == Counted(es, s, Groups(es, s), k)
         IN  /\ c \in Seq(Files(es))
             /\ Distinct(c)
             /\ \A n \in DOMAIN c : GroupOf(es, s, Groups(es, s), c[n]) = k
             /\ \A i \in Files(es) :
                    GroupOf(es, s, Groups(es, s), i) = k => \E n \in DOMAIN c : c[n] = i
<1> DEFINE gs == Groups(es, s)
           of(i) == GroupOf(es, s, gs, i)
           copies == {i \in Files(es) : Duplicate(es, s, i) # 0 /\ of(i) = k}
           c == Counted(es, s, gs, k)
<1>1. c = gs[k] \o Ascending(copies)
  BY DEF Counted
<1>2. /\ Files(es) \in SUBSET Nat /\ IsFiniteSet(Files(es)) /\ Stored(es, s) \in SUBSET Files(es)
  BY FilesFinite
<1>3. /\ gs[k] \in Seq(Stored(es, s)) /\ Distinct(gs[k]) /\ k \in DOMAIN gs
      /\ \A i \in Stored(es, s) : \E j \in DOMAIN gs : i \in ToSet(gs[j])
  BY GroupsFacts DEF Packed
<1>4. copies \in SUBSET Nat /\ IsFiniteSet(copies) /\ copies \in SUBSET Files(es)
  BY <1>2, FS_Subset
<1>5. /\ Ascending(copies) \in Seq(copies) /\ Distinct(Ascending(copies))
      /\ ToSet(Ascending(copies)) = copies
  BY <1>4, AscendingSet
<1>6. \A i \in Stored(es, s) : Duplicate(es, s, i) = 0 /\ Origin(es, s, i) = i
  BY StoredOrigin DEF Stored
<1>7. ASSUME NEW i \in Files(es)
      PROVE  /\ \A j \in DOMAIN gs : Origin(es, s, i) \in ToSet(gs[j]) => of(i) = j
             /\ Origin(es, s, i) \in ToSet(gs[of(i)])
  <2>1. /\ Origin(es, s, i) \in ToSet(gs[of(i)])
        /\ \A j \in DOMAIN gs : Origin(es, s, i) \in ToSet(gs[j]) => j = of(i)
    BY GroupOfFacts
  <2> QED BY <2>1
<1> HIDE DEF gs, of, c
<1>8. PICK t \in Seq(Files(es)) : t = gs[k]
  BY <1>2, <1>3, Wider
<1>9. PICK u \in Seq(Files(es)) : u = Ascending(copies)
  <2> HIDE DEF copies
  <2> QED BY <1>4, <1>5, Wider
<1>10. \A n \in DOMAIN u : u[n] \in copies
  BY <1>5, <1>9 DEF ToSet
<1>11. \A n \in DOMAIN t : t[n] \in Stored(es, s)
  <2>1. PICK v \in Seq(Stored(es, s)) : v = gs[k]
    BY <1>3
  <2>2. \A n \in DOMAIN v : v[n] \in Stored(es, s)
    OBVIOUS
  <2> QED BY <1>8, <2>1, <2>2
<1>12. /\ t \o u \in Seq(Files(es)) /\ Len(t \o u) = Len(t) + Len(u)
       /\ \A i \in 1..Len(t) : (t \o u)[i] = t[i]
       /\ \A i \in 1..Len(u) : (t \o u)[Len(t) + i] = u[i]
       /\ \A j \in 1..Len(t) + Len(u) : j \in 1..Len(t) \/ \E i \in 1..Len(u) : j = Len(t) + i
  BY Concat
<1>13. c = t \o u
  BY <1>1, <1>8, <1>9
<1>14. /\ DOMAIN c = 1..Len(t) + Len(u) /\ DOMAIN t = 1..Len(t) /\ DOMAIN u = 1..Len(u)
       /\ Len(t) \in Nat /\ Len(u) \in Nat
  BY <1>12, <1>13
<1>15. /\ \A n \in DOMAIN t : n \in DOMAIN c /\ c[n] = t[n]
       /\ \A n \in DOMAIN u : Len(t) + n \in DOMAIN c /\ c[Len(t) + n] = u[n]
       /\ \A j \in DOMAIN c : j \in DOMAIN t \/ \E i \in DOMAIN u : j = Len(t) + i
  <2>1. \A n \in 1..Len(t) : n \in 1..Len(t) + Len(u)
    BY <1>14
  <2>2. \A n \in 1..Len(u) : Len(t) + n \in 1..Len(t) + Len(u)
    BY <1>14
  <2> QED BY <1>12, <1>13, <1>14, <2>1, <2>2
<1>16. \A m \in DOMAIN t, n \in DOMAIN u : t[m] # u[n]
  BY <1>6, <1>10, <1>11
<1>17. ASSUME NEW m \in DOMAIN c, NEW n \in DOMAIN c, c[m] = c[n] PROVE m = n
  <2>1. CASE m \in DOMAIN t /\ n \in DOMAIN t
    BY <1>3, <1>8, <1>15, <1>17, <2>1 DEF Distinct
  <2>2. ASSUME NEW j \in DOMAIN u, NEW l \in DOMAIN u, m = Len(t) + j, n = Len(t) + l PROVE m = n
    BY <1>5, <1>9, <1>15, <1>17, <2>2 DEF Distinct
  <2>3. ASSUME NEW j \in DOMAIN t, NEW l \in DOMAIN u PROVE c[j] # c[Len(t) + l]
    BY <1>15, <1>16
  <2> QED BY <1>15, <1>17, <2>1, <2>2, <2>3
<1>18. ASSUME NEW n \in DOMAIN c PROVE of(c[n]) = k
  <2>1. CASE n \in DOMAIN t
    <3>1. c[n] \in Stored(es, s) /\ c[n] \in ToSet(gs[k])
      BY <1>8, <1>11, <1>15, <2>1 DEF ToSet
    <3> QED BY <1>2, <1>3, <1>6, <1>7, <3>1
  <2>2. ASSUME NEW j \in DOMAIN u, n = Len(t) + j PROVE of(c[n]) = k
    <3>1. c[n] \in copies
      BY <1>10, <1>15, <2>2
    <3> QED BY <3>1
  <2> QED BY <1>15, <2>1, <2>2
<1>19. ASSUME NEW i \in Files(es), of(i) = k PROVE \E n \in DOMAIN c : c[n] = i
  <2>1. CASE Duplicate(es, s, i) = 0
    <3>1. i \in Stored(es, s)
      BY <2>1 DEF Stored
    <3>2. i \in ToSet(gs[k])
      BY <1>6, <1>7, <1>19, <3>1
    <3>3. PICK n \in DOMAIN t : t[n] = i
      BY <1>8, <3>2 DEF ToSet
    <3> QED BY <1>15, <3>3
  <2>2. CASE Duplicate(es, s, i) # 0
    <3>1. i \in copies
      BY <1>19, <2>2
    <3>2. PICK n \in DOMAIN u : u[n] = i
      BY <1>5, <1>9, <3>1 DEF ToSet
    <3> QED BY <1>15, <3>2
  <2> QED BY <2>1, <2>2
<1>20. Distinct(c) /\ c \in Seq(Files(es))
  BY <1>12, <1>13, <1>17 DEF Distinct
<1> QED BY <1>18, <1>19, <1>20, Zenon DEF gs, of, c

\* The row of an entry, and the master it names.
LEMMA RowFacts ==
  ASSUME NEW es, NEW s, Spooled(es, s), NEW n \in DOMAIN Listed(es)
  PROVE  LET a == Assemble(es, s)
             i == Listed(es)[n]
         IN  /\ DOMAIN a.rows = DOMAIN Listed(es) /\ i \in DOMAIN es
             /\ a.rows[n].dir = es[i].dir /\ a.rows[n].size = es[i].size
             /\ a.rows[n].parent = es[i].parent /\ a.rows[n].name = es[i].name
             /\ es[i].dir => a.rows[n].master = 0 /\ a.rows[n].id = i
             /\ i \in Files(es) =>
                    a.rows[n].master = GroupOf(es, s, Groups(es, s), i) + 1
<1> DEFINE a == Assemble(es, s)
           gs == Groups(es, s)
           st == Ascending(Stored(es, s))
           dict == Dictionaries(es, s)
           i == Listed(es)[n]
<1>1. Consists(a, es, s, gs, st, dict)
  BY Parts, Zenon
<1>2. i \in DOMAIN es
  BY ListedFacts DEF Lists
<1>3. i \in Files(es) => ~es[i].dir
  BY DEF Files
<1> HIDE DEF a, gs, st, dict
<1>4. DOMAIN a.rows = DOMAIN Listed(es) /\ a.rows[n] = Row(es, s, gs, st, i)
  BY <1>1 DEF Consists
<1> HIDE DEF i
<1>5. /\ a.rows[n].dir = es[i].dir /\ a.rows[n].size = es[i].size
      /\ a.rows[n].parent = es[i].parent /\ a.rows[n].name = es[i].name
      /\ es[i].dir => a.rows[n].master = 0 /\ a.rows[n].id = i
      /\ i \in Files(es) => a.rows[n].master = GroupOf(es, s, gs, i) + 1
  BY <1>3, <1>4 DEF Row
<1> QED BY <1>2, <1>4, <1>5 DEF a, gs, i

LEMMA MasterFacts ==
  ASSUME NEW es, NEW s, Spooled(es, s)
  PROVE  LET a == Assemble(es, s)
             gs == Groups(es, s)
         IN  /\ DOMAIN a.masters = DOMAIN gs /\ DOMAIN gs \in SUBSET Nat
             /\ \A k \in DOMAIN gs :
                    /\ a.masters[k].id = k + 1
                    /\ a.masters[k].refLen = Sizes(es, Counted(es, s, gs, k))
                    /\ a.masters[k].refCount = Len(Counted(es, s, gs, k))
<1> DEFINE a == Assemble(es, s)
           gs == Groups(es, s)
           st == Ascending(Stored(es, s))
           dict == Dictionaries(es, s)
<1>1. Consists(a, es, s, gs, st, dict)
  BY Parts, Zenon
<1> HIDE DEF a, gs, st, dict
<1>2. DOMAIN a.masters = DOMAIN gs /\ DOMAIN gs = 1..Len(gs) /\ Len(gs) \in Nat
  BY <1>1 DEF Consists
<1>3. ASSUME NEW k \in DOMAIN gs
      PROVE  /\ a.masters[k].id = k + 1
             /\ a.masters[k].refLen = Sizes(es, Counted(es, s, gs, k))
             /\ a.masters[k].refCount = Len(Counted(es, s, gs, k))
  <2>1. a.masters[k] = Master(es, s, gs, dict, k)
    BY <1>1, <1>2 DEF Consists
  <2> QED BY <2>1 DEF Master
<1> QED BY <1>2, <1>3 DEF a, gs

LEMMA Agree ==
  ASSUME NEW es, NEW s, Spooled(es, s)
  PROVE  CountsAgree(Assemble(es, s))
<1> DEFINE a == Assemble(es, s)
           gs == Groups(es, s)
           l == Listed(es)
           of(i) == GroupOf(es, s, gs, i)
<1>1. /\ DOMAIN a.masters = DOMAIN gs /\ DOMAIN gs \in SUBSET Nat
      /\ \A k \in DOMAIN gs : /\ a.masters[k].id = k + 1
                              /\ a.masters[k].refLen = Sizes(es, Counted(es, s, gs, k))
                              /\ a.masters[k].refCount = Len(Counted(es, s, gs, k))
  BY MasterFacts
<1>2. /\ DOMAIN l = DOMAIN a.rows
      /\ \A n \in DOMAIN l : l[n] \in DOMAIN es
      /\ \A i \in DOMAIN es : \E n \in DOMAIN l : l[n] = i
      /\ \A m, n \in DOMAIN l : l[m] = l[n] => m = n
  <2>1. DOMAIN a.rows = DOMAIN l
    BY Parts DEF Consists
  <2>2. Lists(l, es)
    BY ListedFacts
  <2> HIDE DEF l, a
  <2> QED BY <2>1, <2>2 DEF Lists, Distinct
<1>3. \A i \in DOMAIN es : i \in Files(es) <=> ~es[i].dir
  BY DEF Files
<1>4. \A i \in Files(es) : of(i) \in DOMAIN gs /\ i \in DOMAIN es /\ es[i].size \in Nat
  <2>1. ASSUME NEW i \in Files(es) PROVE of(i) \in DOMAIN gs
    BY GroupOfFacts
  <2>2. ASSUME NEW i \in Files(es) PROVE i \in DOMAIN es /\ es[i].size \in Nat
    <3>1. i \in DOMAIN es
      BY DEF Files
    <3> QED BY <3>1, EntryTypes
  <2> HIDE DEF of, gs
  <2> QED BY <2>1, <2>2
<1>5. \A n \in DOMAIN l :
        /\ a.rows[n].dir = es[l[n]].dir /\ a.rows[n].size = es[l[n]].size
        /\ es[l[n]].dir => a.rows[n].master = 0
        /\ l[n] \in Files(es) => a.rows[n].master = of(l[n]) + 1
  BY RowFacts
<1>6. \A k \in DOMAIN gs :
        LET c == Counted(es, s, gs, k)
        IN  /\ c \in Seq(Files(es)) /\ Distinct(c)
            /\ \A n \in DOMAIN c : of(c[n]) = k
            /\ \A i \in Files(es) : of(i) = k => \E n \in DOMAIN c : c[n] = i
  BY CountedFacts
<1> HIDE DEF a, gs, l, of
<1>7. ASSUME NEW k \in DOMAIN a.masters
      PROVE  LET users == {r \in DOMAIN a.rows : a.rows[r].master = a.masters[k].id}
                 blocks == UNION {{r} \X (1..a.rows[r].size) : r \in users}
             IN  /\ a.masters[k].refCount = Cardinality(users)
                 /\ a.masters[k].refLen = Cardinality(blocks)
  <2> DEFINE users == {r \in DOMAIN a.rows : a.rows[r].master = a.masters[k].id}
             blocks == UNION {{r} \X (1..a.rows[r].size) : r \in users}
             c == Counted(es, s, gs, k)
             L == Len(c)
             row == [x \in 1..L |-> CHOOSE n \in DOMAIN l : l[n] = c[x]]
             size == [x \in 1..L |-> es[c[x]].size]
  <2>1. k \in DOMAIN gs /\ k \in Nat /\ a.masters[k].id = k + 1
        /\ a.masters[k].refLen = Sizes(es, c) /\ a.masters[k].refCount = L
    BY <1>1
  <2>2. /\ c \in Seq(Files(es)) /\ Distinct(c)
        /\ \A n \in DOMAIN c : of(c[n]) = k
        /\ \A i \in Files(es) : of(i) = k => \E n \in DOMAIN c : c[n] = i
    BY <1>6, <2>1
  <2>3. \A r \in DOMAIN a.rows : r \in users <=> l[r] \in Files(es) /\ of(l[r]) = k
    <3>1. ASSUME NEW r \in DOMAIN a.rows PROVE r \in users <=> l[r] \in Files(es) /\ of(l[r]) = k
      <4>1. l[r] \in DOMAIN es /\ (l[r] \in Files(es) <=> ~es[l[r]].dir)
        BY <1>2, <1>3
      <4>2. CASE l[r] \in Files(es)
        <5>1. a.rows[r].master = of(l[r]) + 1 /\ of(l[r]) \in Nat
          BY <1>1, <1>2, <1>4, <1>5, <4>2
        <5>2. of(l[r]) + 1 = k + 1 <=> of(l[r]) = k
          BY <2>1, <5>1
        <5> QED BY <2>1, <4>2, <5>1, <5>2
      <4>3. CASE l[r] \notin Files(es)
        <5>1. a.rows[r].master = 0 /\ k + 1 # 0
          BY <1>2, <1>5, <2>1, <4>1, <4>3
        <5> QED BY <2>1, <4>3, <5>1
      <4> QED BY <4>2, <4>3
    <3> QED BY <3>1
  <2> HIDE DEF users, c
  <2>4. L \in Nat /\ DOMAIN c = 1..L /\ \A x \in 1..L : c[x] \in Files(es)
    <3>1. PICK t \in Seq(Files(es)) : t = c
      BY <2>2
    <3>2. \A x \in DOMAIN t : t[x] \in Files(es)
      OBVIOUS
    <3> QED BY <3>1, <3>2
  <2>5. ASSUME NEW x \in 1..L PROVE row[x] \in DOMAIN l /\ l[row[x]] = c[x]
    <3>1. \E n \in DOMAIN l : l[n] = c[x]
      BY <1>2, <1>4, <2>4
    <3> HIDE DEF c
    <3> QED BY <3>1
  <2> HIDE DEF row, L
  <2>6. \A x, y \in 1..L : row[x] = row[y] => x = y
    BY <2>2, <2>4, <2>5 DEF Distinct
  <2>7. ASSUME NEW x \in 1..L PROVE row[x] \in users /\ a.rows[row[x]].size = size[x]
    <3>1. row[x] \in DOMAIN a.rows /\ l[row[x]] = c[x]
      BY <1>2, <2>5
    <3> QED BY <1>2, <1>5, <2>2, <2>3, <2>4, <3>1
  <2>8. ASSUME NEW r \in users PROVE \E x \in 1..L : row[x] = r
    <3>1. r \in DOMAIN a.rows
      BY DEF users
    <3>2. l[r] \in Files(es) /\ of(l[r]) = k
      BY <2>3, <3>1
    <3>3. PICK x \in 1..L : c[x] = l[r]
      BY <2>2, <2>4, <3>2
    <3> QED BY <1>2, <2>5, <3>1, <3>3
  <2>9. L = Cardinality(users)
    <3>1. row \in [1..L -> users]
      <4>1. DOMAIN row = 1..L /\ row = [x \in 1..L |-> row[x]]
        BY DEF row
      <4> QED BY <2>7, <4>1
    <3>2. row \in Bijection(1..L, users)
      BY <2>6, <2>8, <3>1 DEF Bijection, Injection, Surjection, IsInjective
    <3>3. ExistsBijection(1..L, users)
      BY <3>2 DEF ExistsBijection
    <3> QED BY <2>4, <3>3, FS_CountingElements
  <2>10. Area(row, size, L) = blocks
    <3>1. Area(row, size, L) = UNION {{row[x]} \X (1..a.rows[row[x]].size) : x \in 1..L}
      BY <2>7 DEF Area
    <3>2. {{row[x]} \X (1..a.rows[row[x]].size) : x \in 1..L}
            = {{r} \X (1..a.rows[r].size) : r \in users}
      <4> HIDE DEF size
      <4> QED BY <2>7, <2>8
    <3> QED BY <3>1, <3>2
  <2>11. Sizes(es, c) = Cardinality(Area(row, size, L))
    <3>1. \A x \in 1..L : es[c[x]].size \in Nat
      BY <1>4, <2>4
    <3> HIDE DEF c
    <3> QED BY <2>4, <2>6, <3>1, SizesFacts DEF L
  <2> QED BY <2>1, <2>9, <2>10, <2>11 DEF users
<1>8. ASSUME NEW r \in DOMAIN a.rows, ~a.rows[r].dir
      PROVE  \E k \in DOMAIN a.masters : a.rows[r].master = a.masters[k].id
  <2>1. l[r] \in Files(es) /\ a.rows[r].master = of(l[r]) + 1
    BY <1>2, <1>3, <1>5, <1>8
  <2> QED BY <1>1, <1>4, <2>1
<1>9. CountsAgree(a)
  BY <1>7, <1>8, Zenon DEF CountsAgree
<1> QED BY <1>9 DEF a

------------------------------------------------------------------------------
(***************************************************************************)
(* The path of every row.                                                  *)
(***************************************************************************)

LEMMA FrontAppend ==
  ASSUME NEW S, NEW q \in Seq(S), q # Root
  PROVE  Append(Front(q), Last(q)) = q
<1>1. /\ Front(q) \in Seq(S) /\ Len(q) \in Nat \ {0} /\ Len(Front(q)) = Len(q) - 1 /\ Last(q) \in S
      /\ \A i \in 1..Len(q) - 1 : Front(q)[i] = q[i]
  BY FrontFacts
<1>2. PICK f \in Seq(S) : f = Front(q)
  BY <1>1
<1>3. /\ Append(f, Last(q)) \in Seq(S) /\ Len(Append(f, Last(q))) = Len(q)
      /\ \A i \in 1..Len(q) - 1 : Append(f, Last(q))[i] = q[i]
      /\ Append(f, Last(q))[Len(q)] = Last(q)
  BY <1>1, <1>2, AppendProperties
<1>4. Last(q) = q[Len(q)]
  BY DEF Last
<1>5. \A i \in 1..Len(q) : i \in 1..Len(q) - 1 \/ i = Len(q)
  BY <1>1
<1>6. \A i \in 1..Len(q) : Append(f, Last(q))[i] = q[i]
  BY <1>3, <1>4, <1>5
<1>7. Append(f, Last(q)) = q
  BY <1>3, <1>6, SeqEqual
<1> QED BY <1>2, <1>7

\* Every directory is at most MaxDepth deep.
Shallow(D) == \A q \in DOMAIN D : Len(q) <= MaxDepth

\* The one row of a directory.
HasFolder(a, es, i) ==
    LET folder == {k \in DOMAIN a.rows : a.rows[k].dir /\ a.rows[k].id = i}
    IN  /\ folder # {} /\ Least(folder) \in DOMAIN a.rows
        /\ a.rows[Least(folder)].parent = es[i].parent
        /\ a.rows[Least(folder)].name = es[i].name

LEMMA FolderRow ==
  ASSUME NEW es, NEW s, Spooled(es, s), NEW i \in DOMAIN es, es[i].dir
  PROVE  HasFolder(Assemble(es, s), es, i)
<1> DEFINE a == Assemble(es, s)
           l == Listed(es)
           folder == {k \in DOMAIN a.rows : a.rows[k].dir /\ a.rows[k].id = i}
<1>1. /\ \A j \in DOMAIN es : \E n \in DOMAIN l : l[n] = j
      /\ \A m, n \in DOMAIN l : l[m] = l[n] => m = n
      /\ DOMAIN l \in SUBSET Nat /\ DOMAIN a.rows = DOMAIN l
  <2>1. Lists(l, es)
    BY ListedFacts
  <2>2. DOMAIN a.rows = DOMAIN l
    BY Parts DEF Consists
  <2> HIDE DEF l, a
  <2> QED BY <2>1, <2>2 DEF Lists, Distinct
<1>2. \A n \in DOMAIN l : /\ a.rows[n].dir = es[l[n]].dir
                          /\ a.rows[n].parent = es[l[n]].parent /\ a.rows[n].name = es[l[n]].name
                          /\ es[l[n]].dir => a.rows[n].id = l[n]
  BY RowFacts
<1> HIDE DEF a, l
<1>3. PICK n \in DOMAIN l : l[n] = i
  BY <1>1
<1>4. folder = {n}
  BY <1>1, <1>2, <1>3
<1>5. Least(folder) = n
  <2> HIDE DEF folder
  <2>1. folder \in SUBSET Nat /\ folder # {}
    BY <1>1, <1>4
  <2>2. Least(folder) \in folder
    BY <2>1, LeastFacts
  <2> QED BY <1>4, <2>2
<1> HIDE DEF folder
<1>6. /\ folder # {} /\ Least(folder) \in DOMAIN a.rows
      /\ a.rows[Least(folder)].parent = es[i].parent
      /\ a.rows[Least(folder)].name = es[i].name
  BY <1>1, <1>2, <1>3, <1>4, <1>5
<1> QED BY <1>6, Zenon DEF a, folder, HasFolder

LEMMA PathsFacts ==
  ASSUME NEW es, NEW s, Spooled(es, s), NEW D, NEW F, Filed(es, D, F), Shallow(D)
  PROVE  LET a == Assemble(es, s)
         IN  /\ DOMAIN Paths(a) = DOMAIN a.rows
             /\ \A n \in DOMAIN Listed(es), q \in Seq(Name) \ {Root} :
                    Front(q) \in DOMAIN D /\ At(es, D, Listed(es)[n], q) => Paths(a)[n] = <<q>>
<1> DEFINE a == Assemble(es, s)
           l == Listed(es)
           folder(id) == {k \in DOMAIN a.rows : a.rows[k].dir /\ a.rows[k].id = id}
           Ids == {0} \cup {a.rows[k].parent : k \in DOMAIN a.rows}
           Row1(id) == a.rows[Least(folder(id))]
           Is(f) == f = [left \in 0..MaxDepth |->
                [id \in Ids |->
                    IF id = 0 THEN <<Root>>
                    ELSE IF left = 0 \/ folder(id) = {} THEN <<>>
                    ELSE LET row == Row1(id)
                             above == f[left - 1][row.parent]
                         IN  IF above = <<>> THEN <<>> ELSE <<Append(above[1], row.name)>>]]
           below == CHOOSE f : Is(f)
           V0 == {<<>>} \cup {<<q>> : q \in Seq(Name)}
           V == [Ids -> V0]
           v0 == [id \in Ids |-> IF id = 0 THEN <<Root>> ELSE <<>>]
           Step(g) == [id \in Ids |->
                    IF id = 0 THEN <<Root>>
                    ELSE IF folder(id) = {} THEN <<>>
                    ELSE LET row == Row1(id)
                             above == g[row.parent]
                         IN  IF above = <<>> THEN <<>> ELSE <<Append(above[1], row.name)>>]
           G == [x \in V \X (1..MaxDepth) |-> Step(x[1])]
<1>1. Paths(a) = [k \in DOMAIN a.rows |->
            LET above == below[MaxDepth][a.rows[k].parent]
            IN  IF above = <<>> THEN <<>> ELSE <<Append(above[1], a.rows[k].name)>>]
  BY Zenon DEF Paths
<1>2. /\ \A n \in DOMAIN l : l[n] \in DOMAIN es
      /\ \A j \in DOMAIN es : \E n \in DOMAIN l : l[n] = j
      /\ DOMAIN a.rows = DOMAIN l /\ DOMAIN l \in SUBSET Nat
  <2>1. Lists(l, es)
    BY ListedFacts
  <2>2. DOMAIN a.rows = DOMAIN l
    BY Parts DEF Consists
  <2> HIDE DEF l, a
  <2> QED BY <2>1, <2>2 DEF Lists, Distinct
<1>3. \A n \in DOMAIN l : /\ a.rows[n].dir = es[l[n]].dir
                          /\ a.rows[n].parent = es[l[n]].parent /\ a.rows[n].name = es[l[n]].name
                          /\ es[l[n]].dir => a.rows[n].id = l[n]
  BY RowFacts
<1>4. \A i \in DOMAIN es : es[i].name \in Name /\ i \in Nat \ {0}
  BY EntryTypes
<1>5. ASSUME NEW i \in DOMAIN es, es[i].dir
      PROVE  /\ folder(i) # {} /\ Least(folder(i)) \in DOMAIN a.rows
             /\ Row1(i).parent = es[i].parent /\ Row1(i).name = es[i].name
  <2>1. HasFolder(a, es, i)
    BY <1>5, FolderRow, Zenon
  <2> HIDE DEF a
  <2> QED BY <2>1, Zenon DEF HasFolder
<1>6. MaxDepth \in Nat
  BY SizesArePositive
<1>7. \A id : folder(id) # {} => Least(folder(id)) \in DOMAIN a.rows
  <2>1. ASSUME NEW id, folder(id) # {} PROVE Least(folder(id)) \in DOMAIN a.rows
    <3>1. folder(id) \in SUBSET Nat /\ folder(id) \in SUBSET DOMAIN a.rows
      BY <1>2
    <3> HIDE DEF folder
    <3>2. Least(folder(id)) \in folder(id)
      BY <2>1, <3>1, LeastFacts
    <3> QED BY <3>1, <3>2
  <2> QED BY <2>1
<1> HIDE DEF a, l, folder
<1>8. \A id : folder(id) # {} => Row1(id).parent \in Ids /\ Row1(id).name \in Name
  <2>1. ASSUME NEW k \in DOMAIN a.rows PROVE a.rows[k].parent \in Ids /\ a.rows[k].name \in Name
    BY <1>2, <1>3, <1>4
  <2> QED BY <1>7, <2>1
<1> HIDE DEF Ids, Row1
<1>9. Root \in Seq(Name) /\ <<Root>> \in V0 /\ <<>> \in V0
  <2>1. Root \in Seq(Name)
    BY DEF Root
  <2> QED BY <2>1
<1>10. \A v \in V0, x \in Name : v # <<>> => <<Append(v[1], x)>> \in V0
  <2>1. ASSUME NEW q \in Seq(Name), NEW x \in Name PROVE Append(<<q>>[1], x) \in Seq(Name)
    OBVIOUS
  <2> QED BY <2>1
<1> HIDE DEF V0
<1>11. \A g \in V : Step(g) \in V
  <2>1. ASSUME NEW g \in V, NEW id \in Ids PROVE Step(g)[id] \in V0
    <3>1. folder(id) # {} => g[Row1(id).parent] \in V0
      BY <1>8
    <3> QED BY <1>8, <1>9, <1>10, <3>1
  <2>2. \A g \in V : Step(g) = [id \in Ids |-> Step(g)[id]]
    OBVIOUS
  <2> HIDE DEF Step
  <2> QED BY <2>1, <2>2
<1>12. v0 \in V
  BY <1>9
<1> HIDE DEF V, v0, Step
<1>13. PICK f \in [0..MaxDepth -> V] : f[0] = v0 /\ \A n \in 1..MaxDepth : f[n] = G[<<f[n - 1], n>>]
  <2>1. G \in [V \X (1..MaxDepth) -> V]
    BY <1>11
  <2> HIDE DEF G
  <2>2. Defines(MaxDepth, V, v0, G)
    BY <1>6, <1>12, <2>1, Recursion
  <2> QED BY <2>2 DEF Defines
<1>14. \A n \in 1..MaxDepth : f[n] = Step(f[n - 1])
  <2>1. ASSUME NEW n \in 1..MaxDepth PROVE f[n] = Step(f[n - 1])
    <3>1. n - 1 \in 0..MaxDepth
      BY <1>6
    <3>2. <<f[n - 1], n>> \in V \X (1..MaxDepth)
      BY <3>1
    <3> QED BY <1>13, <3>2
  <2> QED BY <2>1
<1>15. Is(f)
  <2>1. ASSUME NEW n \in 0..MaxDepth
        PROVE  f[n] = [id \in Ids |->
                    IF id = 0 THEN <<Root>>
                    ELSE IF n = 0 \/ folder(id) = {} THEN <<>>
                    ELSE LET row == Row1(id)
                             above == f[n - 1][row.parent]
                         IN  IF above = <<>> THEN <<>> ELSE <<Append(above[1], row.name)>>]
    <3>1. CASE n = 0
      BY <1>13, <3>1, Zenon DEF v0
    <3>2. CASE n # 0
      <4>1. n \in 1..MaxDepth
        BY <1>6, <3>2
      <4>2. f[n] = Step(f[n - 1])
        BY <1>14, <4>1
      <4> QED BY <3>2, <4>2, Zenon DEF Step
    <3> QED BY <3>1, <3>2
  <2>2. f = [n \in 0..MaxDepth |-> f[n]]
    BY <1>13
  <2> QED BY <2>1, <2>2, Zenon
<1>16. Is(below)
  <2> HIDE DEF Is
  <2> QED BY <1>15, Zenon
<1> HIDE DEF below
<1>17. \A n \in 0..MaxDepth : below[n] =
            [id \in Ids |->
                    IF id = 0 THEN <<Root>>
                    ELSE IF n = 0 \/ folder(id) = {} THEN <<>>
                    ELSE LET row == Row1(id)
                             above == below[n - 1][row.parent]
                         IN  IF above = <<>> THEN <<>> ELSE <<Append(above[1], row.name)>>]
  BY <1>16, Zenon DEF Is
<1> HIDE DEF Is
<1> DEFINE Right == {n \in 0..MaxDepth : \A q \in DOMAIN D :
                        Len(q) <= n /\ D[q] \in Ids => below[n][D[q]] = <<q>>}
<1>18. /\ DOMAIN D \subseteq Seq(Name) /\ Root \in DOMAIN D /\ D[Root] = 0
       /\ \A q \in DOMAIN D \ {Root} :
            D[q] \in DOMAIN es /\ es[D[q]].dir /\ Front(q) \in DOMAIN D /\ At(es, D, D[q], q)
  BY DEF Filed, NamesTyped, FoldersAgree
<1>19. \A n \in 0..MaxDepth : below[n][0] = <<Root>>
  <2>1. 0 \in Ids
    BY DEF Ids
  <2> QED BY <1>17, <2>1
<1>20. 0 \in Right
  <2>1. ASSUME NEW q \in DOMAIN D, Len(q) <= 0 PROVE q = Root
    <3>1. q \in Seq(Name) /\ Len(q) \in Nat
      BY <1>18
    <3>2. Len(q) = 0
      BY <2>1, <3>1
    <3> QED BY <3>1, <3>2, EmptySeq DEF Root
  <2>2. 0 \in 0..MaxDepth
    BY <1>6
  <2> QED BY <1>18, <1>19, <2>1, <2>2
<1>21. ASSUME NEW n \in 1..MaxDepth, n - 1 \in Right PROVE n \in Right
  <2>1. n \in 0..MaxDepth /\ n # 0 /\ n \in Nat /\ n - 1 \in 0..MaxDepth
    BY <1>6
  <2>2. ASSUME NEW q \in DOMAIN D, Len(q) <= n, D[q] \in Ids PROVE below[n][D[q]] = <<q>>
    <3>1. CASE q = Root
      BY <1>18, <1>19, <2>1, <3>1
    <3>2. CASE q # Root
      <4>1. /\ D[q] \in DOMAIN es /\ es[D[q]].dir /\ Front(q) \in DOMAIN D
            /\ es[D[q]].name = Last(q) /\ es[D[q]].parent = D[Front(q)]
        BY <1>18, <3>2 DEF At
      <4>2. folder(D[q]) # {} /\ Row1(D[q]).parent = D[Front(q)] /\ Row1(D[q]).name = Last(q)
        BY <1>5, <4>1
      <4>3. D[q] # 0 /\ D[Front(q)] \in Ids
        BY <1>4, <1>8, <4>1, <4>2
      <4>4. Len(Front(q)) <= n - 1 /\ Append(Front(q), Last(q)) = q
        <5>1. q \in Seq(Name)
          BY <1>18
        <5>2. Len(q) \in Nat /\ Len(Front(q)) = Len(q) - 1
          BY <3>2, <5>1, FrontFacts
        <5> QED BY <2>1, <2>2, <3>2, <5>1, <5>2, FrontAppend
      <4>5. below[n - 1][D[Front(q)]] = <<Front(q)>>
        BY <1>21, <4>1, <4>3, <4>4
      <4>6. below[n][D[q]] = LET row == Row1(D[q])
                                 above == below[n - 1][row.parent]
                             IN  IF above = <<>> THEN <<>> ELSE <<Append(above[1], row.name)>>
        <5>1. folder(D[q]) # {} /\ D[q] # 0 /\ n # 0 /\ D[q] \in Ids /\ n \in 0..MaxDepth
          BY <2>1, <2>2, <4>2, <4>3
        <5> QED BY <1>17, <5>1
      <4>7. <<Front(q)>> # <<>> /\ <<Front(q)>>[1] = Front(q)
        OBVIOUS
      <4> QED BY <4>2, <4>4, <4>5, <4>6, <4>7
    <3> QED BY <3>1, <3>2
  <2> QED BY <2>1, <2>2
<1> HIDE DEF Right
<1>22. \A n \in 0..MaxDepth : n \in Right
  BY <1>6, <1>20, <1>21, CountUp
<1>23. MaxDepth \in Right
  BY <1>6, <1>22
<1>24. ASSUME NEW n \in DOMAIN l, NEW q \in Seq(Name) \ {Root}, Front(q) \in DOMAIN D,
              At(es, D, l[n], q)
       PROVE  Paths(a)[n] = <<q>>
  <2>1. n \in DOMAIN a.rows /\ a.rows[n].parent = D[Front(q)] /\ a.rows[n].name = Last(q)
    BY <1>2, <1>3, <1>24 DEF At
  <2>2. D[Front(q)] \in Ids
    BY <2>1 DEF Ids
  <2>3. Len(Front(q)) <= MaxDepth
    BY <1>24 DEF Shallow
  <2>4. below[MaxDepth][D[Front(q)]] = <<Front(q)>>
    BY <1>23, <1>24, <2>2, <2>3 DEF Right
  <2>5. <<Front(q)>> # <<>> /\ <<Front(q)>>[1] = Front(q) /\ Append(Front(q), Last(q)) = q
    BY FrontAppend
  <2>6. Paths(a)[n] = LET above == below[MaxDepth][a.rows[n].parent]
                      IN  IF above = <<>> THEN <<>> ELSE <<Append(above[1], a.rows[n].name)>>
    BY <1>1, <2>1
  <2> HIDE DEF below
  <2>7. below[MaxDepth][a.rows[n].parent] = <<Front(q)>>
    BY <2>1, <2>4
  <2>8. Paths(a)[n] = <<Append(<<Front(q)>>[1], a.rows[n].name)>>
    BY <2>5, <2>6, <2>7, Zenon
  <2>9. Append(<<Front(q)>>[1], a.rows[n].name) = q
    BY <2>1, <2>5, Zenon
  <2> QED BY <2>8, <2>9, Zenon
<1>25. DOMAIN Paths(a) = DOMAIN a.rows
  BY <1>1
<1> QED BY <1>24, <1>25 DEF a, l

------------------------------------------------------------------------------
(***************************************************************************)
(* What was added is what is read.                                         *)
(***************************************************************************)

FileItems(items) == {k \in DOMAIN items : items[k].file}

\* The files of the entries are the file items, in order, at their paths and with
\* their bytes; the directories are those on the way to the items.
Matches(e, es, D, s, items) ==
    /\ e \in [FileItems(items) -> Files(es)]
    /\ \A i \in Files(es) : \E k \in FileItems(items) : e[k] = i
    /\ \A j, k \in FileItems(items) : j < k => e[j] < e[k]
    /\ \A k \in FileItems(items) :
        /\ items[k].path \in Seq(Name) \ {Root} /\ Front(items[k].path) \in DOMAIN D
        /\ At(es, D, e[k], items[k].path) /\ Bytes(es[e[k]], s) = items[k].data

\* An item: what an add was given.
Given == [path : Seq(Name) \ {Root}, file : BOOLEAN, data : Content \cup {<<>>}]

Recorded(es, D, s, items) ==
    /\ items \in Seq(Given)
    /\ DOMAIN D \ {Root} = UNION {Store!Above(items[k]) : k \in DOMAIN items}
    /\ \E e : Matches(e, es, D, s, items)

\* Every entry is at a path.
Located(es, D, F, i, q) ==
    /\ Front(q) \in DOMAIN D /\ At(es, D, i, q)
    /\ es[i].dir => q \in DOMAIN D /\ D[q] = i
    /\ ~es[i].dir => q \in F

LEMMA EntryPath ==
  ASSUME NEW es, NEW D, NEW F, Filed(es, D, F), NEW i \in DOMAIN es, es[i].dir \in BOOLEAN
  PROVE  \E q \in Seq(Name) \ {Root} : Located(es, D, F, i, q)
<1>1. NamesTyped(es, D, F) /\ FoldersAgree(es, D) /\ FilesAgree(es, D, F)
  BY DEF Filed
<1>2. CASE es[i].dir
  <2>1. PICK q \in DOMAIN D \ {Root} : D[q] = i
    BY <1>1, <1>2 DEF FoldersAgree
  <2>2. Front(q) \in DOMAIN D /\ At(es, D, i, q) /\ q \in Seq(Name) \ {Root}
    BY <1>1, <2>1 DEF FoldersAgree, NamesTyped
  <2> QED BY <1>2, <2>1, <2>2 DEF Located
<1>3. CASE ~es[i].dir
  <2>1. PICK q \in F : Front(q) \in DOMAIN D /\ At(es, D, i, q)
    BY <1>1, <1>3 DEF FilesAgree
  <2> QED BY <1>1, <1>3, <2>1 DEF Located, NamesTyped
<1> QED BY <1>2, <1>3

\* The row of an entry is of its kind, at its path.
LEMMA RowPath ==
  ASSUME NEW es, NEW s, Spooled(es, s), NEW D, NEW F, Filed(es, D, F), Shallow(D),
         NEW n \in DOMAIN Listed(es)
  PROVE  /\ n \in DOMAIN Assemble(es, s).rows
         /\ \E q \in Seq(Name) \ {Root} :
                Located(es, D, F, Listed(es)[n], q) /\ Paths(Assemble(es, s))[n] = <<q>>
<1> DEFINE a == Assemble(es, s)
           i == Listed(es)[n]
<1>1. n \in DOMAIN a.rows /\ i \in DOMAIN es
  BY RowFacts
<1>2. es[i].dir \in BOOLEAN
  BY <1>1, EntryTypes
<1>3. \A q \in Seq(Name) \ {Root} : Front(q) \in DOMAIN D /\ At(es, D, i, q) => Paths(a)[n] = <<q>>
  BY PathsFacts
<1> HIDE DEF a, i
<1>4. PICK q \in Seq(Name) \ {Root} : Located(es, D, F, i, q)
  BY <1>1, <1>2, EntryPath
<1>5. Paths(a)[n] = <<q>>
  BY <1>3, <1>4 DEF Located
<1> QED BY <1>1, <1>4, <1>5 DEF a, i

LEMMA Accepted ==
  ASSUME NEW es, NEW s, Spooled(es, s), NEW D, NEW F, Filed(es, D, F), Shallow(D)
  PROVE  Acceptable(Assemble(es, s))
<1> DEFINE a == Assemble(es, s)
           l == Listed(es)
           rows == a.rows
           paths == Paths(a)
<1>1. /\ \A n \in DOMAIN l : l[n] \in DOMAIN es
      /\ \A m, n \in DOMAIN l : l[m] = l[n] => m = n
      /\ DOMAIN rows = DOMAIN l /\ DOMAIN l \in SUBSET Nat
  <2>1. Lists(l, es)
    BY ListedFacts
  <2>2. DOMAIN a.rows = DOMAIN l
    BY Parts DEF Consists
  <2> HIDE DEF l, a
  <2> QED BY <2>1, <2>2 DEF Lists, Distinct
<1>2. \A n \in DOMAIN l : rows[n].dir = es[l[n]].dir /\ (es[l[n]].dir => rows[n].id = l[n])
  BY RowFacts
<1>3. \A n \in DOMAIN l : \E q \in Seq(Name) \ {Root} :
            Located(es, D, F, l[n], q) /\ paths[n] = <<q>>
  BY RowPath
<1>4. \A n \in DOMAIN l : l[n] \in Files(es) => Extract(a, rows[n]) = <<Bytes(es[l[n]], s)>>
  BY Extracted
<1>5. \A i \in DOMAIN es : i # 0 /\ (~es[i].dir => i \in Files(es))
  <2>1. \A i \in DOMAIN es : i \in Nat \ {0}
    BY EntryTypes
  <2> QED BY <2>1 DEF Files
<1>6. F \cap DOMAIN D = {}
  BY DEF Filed, NamesTyped
<1> HIDE DEF a, l, rows, paths
<1>7. ASSUME NEW n \in DOMAIN rows
      PROVE  /\ paths[n] # <<>>
             /\ rows[n].dir => rows[n].id # 0
             /\ ~rows[n].dir => Extract(a, rows[n]) # <<>>
  <2>1. l[n] \in DOMAIN es /\ n \in DOMAIN l
    BY <1>1
  <2>2. paths[n] # <<>>
    BY <1>3, <2>1
  <2>3. rows[n].dir => rows[n].id # 0
    BY <1>2, <1>5, <2>1
  <2>4. ~rows[n].dir => Extract(a, rows[n]) # <<>>
    BY <1>2, <1>4, <1>5, <2>1
  <2> QED BY <2>2, <2>3, <2>4
<1>8. ASSUME NEW j \in DOMAIN rows, NEW k \in DOMAIN rows, j # k
      PROVE  /\ rows[j].dir /\ rows[k].dir => rows[j].id # rows[k].id
             /\ rows[j].dir \/ rows[k].dir => paths[j] # paths[k]
  <2>1. j \in DOMAIN l /\ k \in DOMAIN l /\ l[j] # l[k]
    BY <1>1, <1>8
  <2>2. rows[j].dir /\ rows[k].dir => rows[j].id # rows[k].id
    BY <1>2, <2>1
  <2>3. PICK q \in Seq(Name) \ {Root} : Located(es, D, F, l[j], q) /\ paths[j] = <<q>>
    BY <1>3, <2>1
  <2>4. PICK r \in Seq(Name) \ {Root} : Located(es, D, F, l[k], r) /\ paths[k] = <<r>>
    BY <1>3, <2>1
  <2>5. ASSUME rows[j].dir \/ rows[k].dir, q = r PROVE FALSE
    BY <1>2, <1>6, <2>1, <2>3, <2>4, <2>5 DEF Located
  <2>6. q # r => paths[j] # paths[k]
    BY <2>3, <2>4
  <2> QED BY <2>2, <2>5, <2>6
<1>9. \A j, k \in DOMAIN rows : j < k => j # k
  BY <1>1
<1>10. Acceptable(a)
  BY <1>7, <1>8, <1>9, Zenon DEF Acceptable, rows, paths
<1> QED BY <1>10 DEF a

\* The abstract specification counts as this one does.
LEMMA SameCardinality == \A S : Store!Cardinality(S) = Cardinality(S)
  BY Zenon DEF Cardinality, Store!Cardinality

\* The files read at a path are the items added there, newest first.
ReadsVersions(a, items, p) ==
    LET own == Descending({k \in {r \in DOMAIN a.rows : a.rows[r].dir = FALSE} :
                              Paths(a)[k] = <<p>>})
    IN  [v \in 1..Len(own) |-> Extract(a, a.rows[own[v]])[1]] = Store!Versions(items, p)

LEMMA VersionsRead ==
  ASSUME NEW es, NEW s, Spooled(es, s), NEW D, NEW F, Filed(es, D, F), Shallow(D),
         NEW items, DOMAIN items \in SUBSET Nat, IsFiniteSet(DOMAIN items),
         NEW e, Matches(e, es, D, s, items), NEW p,
         NEW a, a = Assemble(es, s)
  PROVE  ReadsVersions(a, items, p)
<1> DEFINE l == Listed(es)
           R == {k \in {r \in DOMAIN a.rows : a.rows[r].dir = FALSE} : Paths(a)[k] = <<p>>}
           I == {k \in DOMAIN items : items[k].file /\ items[k].path = p}
           at(i) == CHOOSE n \in DOMAIN l : l[n] = i
           g == [k \in I |-> at(e[k])]
<1>1. /\ \A n \in DOMAIN l : l[n] \in DOMAIN es
      /\ \A i \in DOMAIN es : \E n \in DOMAIN l : l[n] = i
      /\ \A m, n \in DOMAIN l : l[m] = l[n] => m = n
      /\ \A m, n \in DOMAIN l : m < n /\ ~es[l[m]].dir /\ ~es[l[n]].dir => l[m] < l[n]
      /\ DOMAIN a.rows = DOMAIN l /\ DOMAIN l \in SUBSET Nat /\ IsFiniteSet(DOMAIN l)
  <2>1. Lists(l, es)
    BY ListedFacts
  <2>2. DOMAIN a.rows = DOMAIN l
    BY Parts DEF Consists
  <2> HIDE DEF l
  <2>3. PICK n \in Nat : DOMAIN l = 1..n
    BY <2>1 DEF Lists
  <2>4. IsFiniteSet(DOMAIN l)
    BY <2>3, FS_Interval
  <2> QED BY <2>1, <2>2, <2>3, <2>4 DEF Lists, Distinct
<1>2. \A n \in DOMAIN l : a.rows[n].dir = es[l[n]].dir
  BY RowFacts
<1>3. \A n \in DOMAIN l, q \in Seq(Name) \ {Root} :
            Front(q) \in DOMAIN D /\ At(es, D, l[n], q) => Paths(a)[n] = <<q>>
  BY PathsFacts
<1>4. \A n \in DOMAIN l : l[n] \in Files(es) => Extract(a, a.rows[n]) = <<Bytes(es[l[n]], s)>>
  BY Extracted
<1>5. \A i \in DOMAIN es : es[i].dir \in BOOLEAN /\ i \in Nat
  BY EntryTypes
<1>6. Files(es) \in SUBSET DOMAIN es /\ \A i \in DOMAIN es : i \in Files(es) <=> ~es[i].dir
  BY DEF Files
<1> HIDE DEF l, at
<1>7. \A i \in DOMAIN es : at(i) \in DOMAIN l /\ l[at(i)] = i
  <2>1. ASSUME NEW i \in DOMAIN es PROVE at(i) \in DOMAIN l /\ l[at(i)] = i
    <3>1. \E n \in DOMAIN l : l[n] = i
      BY <1>1
    <3> QED BY <3>1 DEF at
  <2> QED BY <2>1
<1>8. \A k \in I : /\ e[k] \in Files(es) /\ e[k] \in DOMAIN es /\ ~es[e[k]].dir
                   /\ p \in Seq(Name) \ {Root} /\ Front(p) \in DOMAIN D /\ At(es, D, e[k], p)
                   /\ Bytes(es[e[k]], s) = items[k].data
  BY <1>6 DEF Matches, FileItems
<1>9. \A k \in I : g[k] \in R /\ l[g[k]] = e[k]
  <2>1. ASSUME NEW k \in I PROVE g[k] \in R /\ l[g[k]] = e[k]
    <3>1. g[k] \in DOMAIN l /\ l[g[k]] = e[k]
      BY <1>7, <1>8
    <3>2. a.rows[g[k]].dir = FALSE
      BY <1>2, <1>5, <1>8, <3>1
    <3>3. Paths(a)[g[k]] = <<p>>
      BY <1>3, <1>8, <3>1
    <3> QED BY <1>1, <3>1, <3>2, <3>3
  <2> QED BY <2>1
<1>10. g \in [I -> R]
  BY <1>9
<1>11. ASSUME NEW y \in R PROVE \E x \in I : g[x] = y
  <2>1. y \in DOMAIN l /\ l[y] \in Files(es) /\ Paths(a)[y] = <<p>>
    BY <1>1, <1>2, <1>5, <1>6
  <2>2. PICK k \in FileItems(items) : e[k] = l[y]
    BY <2>1 DEF Matches
  <2>3. Paths(a)[y] = <<items[k].path>>
    BY <1>3, <2>1, <2>2 DEF Matches
  <2>4. k \in I
    BY <2>1, <2>2, <2>3 DEF FileItems
  <2>5. g[k] = y
    BY <1>1, <1>9, <2>1, <2>2, <2>4
  <2> QED BY <2>4, <2>5
<1>12. ASSUME NEW x \in I, NEW y \in I, x < y PROVE g[x] < g[y]
  <2>1. e[x] < e[y]
    BY <1>12 DEF Matches, FileItems
  <2>2. g[x] \in DOMAIN l /\ g[y] \in DOMAIN l /\ l[g[x]] = e[x] /\ l[g[y]] = e[y]
    BY <1>1, <1>9
  <2>3. e[x] \in Nat /\ e[y] \in Nat /\ ~es[e[x]].dir /\ ~es[e[y]].dir
    BY <1>5, <1>8
  <2>4. ~(e[y] < e[x]) /\ e[x] # e[y]
    BY <2>1, <2>3
  <2>5. ~(g[y] < g[x]) /\ g[x] # g[y]
    BY <1>1, <2>2, <2>3, <2>4
  <2>6. g[x] \in Nat /\ g[y] \in Nat
    BY <1>1, <2>2
  <2> QED BY <2>5, <2>6
<1>13. /\ I \in SUBSET Nat /\ IsFiniteSet(I) /\ R \in SUBSET Nat /\ IsFiniteSet(R)
  <2>1. I \in SUBSET DOMAIN items /\ R \in SUBSET DOMAIN l
    BY <1>1
  <2> HIDE DEF I, R
  <2> QED BY <1>1, <2>1, FS_Subset
<1> HIDE DEF I, R, g
<1>14. /\ Cardinality(I) = Cardinality(R)
       /\ \A n \in 1..Cardinality(I) : Descending(R)[n] = g[Descending(I)[n]]
  BY <1>10, <1>11, <1>12, <1>13, Isomorphic
<1>15. /\ Len(Descending(R)) = Cardinality(I)
       /\ \A n \in 1..Cardinality(I) : Descending(I)[n] \in I
  BY <1>13, <1>14, DescendingFacts
<1>16. Store!Versions(items, p) = [v \in 1..Cardinality(I) |-> items[Descending(I)[v]].data]
  <2> DEFINE N == Store!Cardinality(I)
             found(v) == CHOOSE k \in I : Store!Cardinality({j \in I : j > k}) = v - 1
  <2>1. Store!Versions(items, p) = [v \in 1..N |-> items[found(v)].data]
    BY Zenon DEF Store!Versions, I
  <2>2. N = Cardinality(I)
    BY SameCardinality
  <2>3. ASSUME NEW v \in 1..Cardinality(I) PROVE found(v) = Descending(I)[v]
    <3>1. Descending(I)[v] \in I /\ Over(I, Descending(I)[v]) = v - 1
      BY <1>13, DescendingFacts
    <3>2. \A k \in I : Store!Cardinality({j \in I : j > k}) = Over(I, k)
      BY SameCardinality DEF Over, Higher
    <3>3. found(v) \in I /\ Over(I, found(v)) = v - 1
      BY <3>1, <3>2
    <3> HIDE DEF found
    <3> QED BY <1>13, <3>1, <3>3, BelowInjective
  <2> HIDE DEF found, N
  <2> QED BY <2>1, <2>2, <2>3
<1>17. ASSUME NEW v \in 1..Cardinality(I)
       PROVE  Extract(a, a.rows[Descending(R)[v]])[1] = items[Descending(I)[v]].data
  <2> DEFINE k == Descending(I)[v]
  <2>1. k \in I /\ Descending(R)[v] = g[k]
    BY <1>14, <1>15
  <2> HIDE DEF k
  <2>2. g[k] \in DOMAIN l /\ l[g[k]] = e[k]
    BY <1>1, <1>9, <2>1 DEF R
  <2>3. Extract(a, a.rows[g[k]]) = <<items[k].data>>
    BY <1>4, <1>8, <2>1, <2>2
  <2> QED BY <2>1, <2>3 DEF k
<1>18. [v \in 1..Len(Descending(R)) |-> Extract(a, a.rows[Descending(R)[v]])[1]]
         = Store!Versions(items, p)
  BY <1>15, <1>16, <1>17
<1> QED BY <1>18, Zenon DEF R, ReadsVersions

LEMMA ReadBack ==
  ASSUME NEW es, NEW s, Spooled(es, s), NEW D, NEW F, Filed(es, D, F), Shallow(D),
         NEW items, Recorded(es, D, s, items)
  PROVE  Read(Assemble(es, s)) = Store!Tree(items)
<1> DEFINE a == Assemble(es, s)
           l == Listed(es)
           of(dirs) == {k \in DOMAIN a.rows : a.rows[k].dir = dirs}
           own(p) == Descending({k \in of(FALSE) : Paths(a)[k] = <<p>>})
           P == {items[k].path : k \in FileItems(items)}
<1>1. DOMAIN items \in SUBSET Nat /\ IsFiniteSet(DOMAIN items)
      /\ DOMAIN D \ {Root} = UNION {Store!Above(items[k]) : k \in DOMAIN items}
  <2>1. DOMAIN items = 1..Len(items) /\ Len(items) \in Nat
    BY DEF Recorded
  <2>2. IsFiniteSet(1..Len(items))
    BY <2>1, FS_Interval
  <2> QED BY <2>1, <2>2 DEF Recorded
<1>2. PICK e : Matches(e, es, D, s, items)
  BY DEF Recorded
<1>3. /\ \A n \in DOMAIN l : l[n] \in DOMAIN es
      /\ \A i \in DOMAIN es : \E n \in DOMAIN l : l[n] = i
      /\ DOMAIN a.rows = DOMAIN l
  <2>1. Lists(l, es)
    BY ListedFacts
  <2>2. DOMAIN a.rows = DOMAIN l
    BY Parts DEF Consists
  <2> HIDE DEF l, a
  <2> QED BY <2>1, <2>2 DEF Lists
<1>4. \A n \in DOMAIN l : a.rows[n].dir = es[l[n]].dir
  BY RowFacts
<1>5. \A n \in DOMAIN l, q \in Seq(Name) \ {Root} :
            Front(q) \in DOMAIN D /\ At(es, D, l[n], q) => Paths(a)[n] = <<q>>
  BY PathsFacts
<1>6. \A n \in DOMAIN l : \E q \in Seq(Name) \ {Root} :
            Located(es, D, F, l[n], q) /\ Paths(a)[n] = <<q>>
  BY RowPath
<1>7. \A i \in DOMAIN es : es[i].dir \in BOOLEAN
  BY EntryTypes
<1>8. \A i \in DOMAIN es : i \in Files(es) <=> ~es[i].dir
  BY DEF Files
<1>9. DOMAIN D \subseteq Seq(Name)
      /\ \A q \in DOMAIN D \ {Root} :
            D[q] \in DOMAIN es /\ es[D[q]].dir /\ Front(q) \in DOMAIN D /\ At(es, D, D[q], q)
  BY DEF Filed, NamesTyped, FoldersAgree
<1>10. ASSUME NEW p
       PROVE  [v \in 1..Len(own(p)) |-> Extract(a, a.rows[own(p)[v]])[1]] = Store!Versions(items, p)
  <2>1. a = Assemble(es, s)
    OBVIOUS
  <2> HIDE DEF a
  <2>2. ReadsVersions(a, items, p)
    BY <1>1, <1>2, <2>1, VersionsRead
  <2> QED BY <2>2, Zenon DEF own, of, ReadsVersions
<1>11. Read(a) = [directories |-> {Paths(a)[k][1] : k \in of(TRUE)},
                  files |-> [p \in {Paths(a)[k][1] : k \in of(FALSE)} |->
                        [v \in 1..Len(own(p)) |-> Extract(a, a.rows[own(p)[v]])[1]]]]
  BY Zenon DEF Read
<1> HIDE DEF a, l, own
<1>12. {Paths(a)[k][1] : k \in of(TRUE)} = DOMAIN D \ {Root}
  <2>1. ASSUME NEW k \in of(TRUE) PROVE Paths(a)[k][1] \in DOMAIN D \ {Root}
    <3>1. k \in DOMAIN l /\ es[l[k]].dir
      BY <1>3, <1>4
    <3>2. PICK q \in Seq(Name) \ {Root} : Located(es, D, F, l[k], q) /\ Paths(a)[k] = <<q>>
      BY <1>6, <3>1
    <3>3. q \in DOMAIN D /\ <<q>>[1] = q
      BY <3>1, <3>2 DEF Located
    <3> QED BY <3>2, <3>3
  <2>2. ASSUME NEW q \in DOMAIN D \ {Root} PROVE \E k \in of(TRUE) : Paths(a)[k][1] = q
    <3>1. D[q] \in DOMAIN es /\ es[D[q]].dir /\ Front(q) \in DOMAIN D /\ At(es, D, D[q], q)
          /\ q \in Seq(Name) \ {Root}
      BY <1>9
    <3>2. PICK n \in DOMAIN l : l[n] = D[q]
      BY <1>3, <3>1
    <3>3. n \in of(TRUE)
      BY <1>3, <1>4, <1>7, <3>1, <3>2
    <3>4. Paths(a)[n] = <<q>> /\ <<q>>[1] = q
      BY <1>5, <3>1, <3>2
    <3> QED BY <3>3, <3>4
  <2> HIDE DEF of
  <2> QED BY <2>1, <2>2
<1>13. {Paths(a)[k][1] : k \in of(FALSE)} = P
  <2>1. ASSUME NEW r \in of(FALSE) PROVE \E k \in FileItems(items) : Paths(a)[r][1] = items[k].path
    <3>1. r \in DOMAIN l /\ l[r] \in Files(es)
      BY <1>3, <1>4, <1>8
    <3>2. PICK k \in FileItems(items) : e[k] = l[r]
      BY <1>2, <3>1 DEF Matches
    <3>3. Paths(a)[r] = <<items[k].path>>
      BY <1>2, <1>5, <3>1, <3>2 DEF Matches
    <3>4. <<items[k].path>>[1] = items[k].path
      OBVIOUS
    <3> QED BY <3>3, <3>4
  <2>2. ASSUME NEW k \in FileItems(items) PROVE \E r \in of(FALSE) : Paths(a)[r][1] = items[k].path
    <3>1. /\ e[k] \in Files(es) /\ items[k].path \in Seq(Name) \ {Root}
          /\ Front(items[k].path) \in DOMAIN D /\ At(es, D, e[k], items[k].path)
      BY <1>2 DEF Matches
    <3>2. e[k] \in DOMAIN es /\ ~es[e[k]].dir
      BY <3>1 DEF Files
    <3>3. PICK n \in DOMAIN l : l[n] = e[k]
      BY <1>3, <3>2
    <3>4. n \in of(FALSE)
      BY <1>3, <1>4, <1>7, <3>2, <3>3
    <3>5. Paths(a)[n] = <<items[k].path>>
      BY <1>5, <3>1, <3>3
    <3>6. <<items[k].path>>[1] = items[k].path
      OBVIOUS
    <3> QED BY <3>4, <3>5, <3>6
  <2>3. \A x \in {Paths(a)[k][1] : k \in of(FALSE)} : x \in P
    BY <2>1 DEF P
  <2>4. \A x \in P : x \in {Paths(a)[k][1] : k \in of(FALSE)}
    <3> HIDE DEF of
    <3> QED BY <2>2
  <2> HIDE DEF of, P
  <2> QED BY <2>3, <2>4
<1> HIDE DEF of
<1>14. Store!Tree(items) = [directories |-> DOMAIN D \ {Root},
                            files |-> [p \in P |-> Store!Versions(items, p)]]
  BY <1>1, Zenon DEF Store!Tree, P, FileItems
<1>15. [p \in P |-> [v \in 1..Len(own(p)) |-> Extract(a, a.rows[own(p)[v]])[1]]]
        = [p \in P |-> Store!Versions(items, p)]
  BY <1>10
<1> HIDE DEF P
<1> QED BY <1>11, <1>12, <1>13, <1>14, <1>15 DEF a
\* The longest part of a path that is a directory, and what _mkdir() adds to it.
LEMMA KnownFacts ==
  ASSUME NEW w \in Writer, NEW p \in Seq(Name), Root \in DOMAIN directories[w]
  PROVE  \E k \in 0..Len(p) :
            /\ Known(w, p) = SubSeq(p, 1, k)
            /\ SubSeq(p, 1, k) \in DOMAIN directories[w]
            /\ \A j \in k + 1..Len(p) : SubSeq(p, 1, j) \notin DOMAIN directories[w]
<1> DEFINE D == DOMAIN directories[w]
           S == {k \in 0..Len(p) : SubSeq(p, 1, k) \in D}
           Best(k) == SubSeq(p, 1, k) \in D /\ \A j \in k + 1..Len(p) : SubSeq(p, 1, j) \notin D
<1>1. Len(p) \in Nat /\ 0 \in S
  <2>1. SubSeq(p, 1, 0) \in D
    BY WholePrefix
  <2> QED BY <2>1
<1>2. S \in SUBSET (0..Len(p)) /\ S # {}
  BY <1>1
<1>3. PICK k \in S : \A j \in S : j <= k
  BY <1>1, <1>2, GreatestNat
<1>4. k \in 0..Len(p) /\ Best(k)
  <2>1. ASSUME NEW j \in k + 1..Len(p) PROVE SubSeq(p, 1, j) \notin D
    <3>1. j \in 0..Len(p) /\ ~(j <= k)
      BY <1>1, <1>2
    <3> QED BY <3>1, <1>3
  <2> QED BY <1>2, <2>1
<1> DEFINE b == CHOOSE b \in 0..Len(p) : Best(b)
<1>5. b \in 0..Len(p) /\ Best(b)
  BY <1>4, Zenon
<1>6. Known(w, p) = SubSeq(p, 1, b)
  BY Zenon DEF Known
<1> HIDE DEF b
<1> QED BY <1>5, <1>6

MkdirMakes(w, p, k) ==
    LET es == entries[w] D == directories[w] IN
    /\ SubSeq(p, 1, k) \in DOMAIN D
    /\ \A j \in k + 1..Len(p) : SubSeq(p, 1, j) \notin DOMAIN D
    /\ New(w, p) \in Seq(Entry)
    /\ Len(New(w, p)) = Len(p) - k
    /\ \A n \in 1..Len(p) - k :
        New(w, p)[n] = [dir |-> TRUE, name |-> p[k + n], depth |-> k + n,
                        parent |-> IF n = 1 THEN D[SubSeq(p, 1, k)] ELSE Len(es) + n - 1,
                        spool |-> 0, size |-> 0, digest |-> 0]
    /\ DOMAIN MadeDirectories(w, p) = DOMAIN D \cup {SubSeq(p, 1, j) : j \in k + 1..Len(p)}
    /\ \A q \in DOMAIN D : MadeDirectories(w, p)[q] = D[q]
    /\ \A j \in k + 1..Len(p) : MadeDirectories(w, p)[SubSeq(p, 1, j)] = Len(es) + j - k
    /\ MadeDirectories(w, p)
        \in [DOMAIN MadeDirectories(w, p) -> 0..Len(es) + (Len(p) - k)]

LEMMA MkdirFacts ==
  ASSUME NEW w \in Writer, NEW p \in Seq(Name),
         NamesTyped(entries[w], directories[w], files[w])
  PROVE  \E k \in 0..Len(p) : MkdirMakes(w, p, k)
<1> DEFINE D == directories[w]
           es == entries[w]
<1>1. /\ es \in Seq(Entry) /\ Len(es) \in Nat /\ Len(p) \in Nat
      /\ Root \in DOMAIN D
      /\ \A q \in DOMAIN D : D[q] \in Nat /\ D[q] \in 0..Len(es)
  BY DEF NamesTyped
<1>2. PICK k \in 0..Len(p) :
            /\ Known(w, p) = SubSeq(p, 1, k)
            /\ SubSeq(p, 1, k) \in DOMAIN D
            /\ \A j \in k + 1..Len(p) : SubSeq(p, 1, j) \notin DOMAIN D
  BY <1>1, KnownFacts
<1>3. Len(Known(w, p)) = k
  BY <1>2, PrefixFacts
<1> DEFINE e(n) == [dir |-> TRUE, name |-> p[k + n], depth |-> k + n,
                    parent |-> IF n = 1 THEN D[SubSeq(p, 1, k)] ELSE Len(es) + n - 1,
                    spool |-> 0, size |-> 0, digest |-> 0]
           rest == [n \in 1..Len(p) - k |-> e(n)]
           new == {SubSeq(p, 1, j) : j \in k + 1..Len(p)}
<1>4. New(w, p) = rest
  BY <1>2, <1>3, Zenon DEF New
<1>5. ASSUME NEW n \in 1..Len(p) - k PROVE e(n) \in Entry
  <2>1. p[k + n] \in Name /\ k + n \in Nat
    BY <1>1
  <2>2. D[SubSeq(p, 1, k)] \in Nat /\ Len(es) + n - 1 \in Nat
    BY <1>1, <1>2
  <2> QED BY <2>1, <2>2 DEF Entry
<1>6. rest \in Seq(Entry) /\ Len(rest) = Len(p) - k /\ \A n \in 1..Len(p) - k : rest[n] = e(n)
  <2> HIDE DEF e
  <2>1. Len(p) - k \in Nat
    BY <1>1
  <2> DEFINE m == Len(p) - k
  <2>2. m \in Nat /\ \A n \in 1..m : e(n) \in Entry
    BY <1>5, <2>1
  <2> HIDE DEF m
  <2>3. [n \in 1..m |-> e(n)] \in Seq(Entry) /\ Len([n \in 1..m |-> e(n)]) = m
    BY <2>2
  <2> QED BY <2>3 DEF m
<1>7. MadeDirectories(w, p) =
        [q \in DOMAIN D \cup new |-> IF q \in new THEN Len(es) + Len(q) - k ELSE D[q]]
  BY <1>3, Zenon DEF MadeDirectories
<1>8. DOMAIN MadeDirectories(w, p) = DOMAIN D \cup new
  BY <1>7
<1>9. \A q \in DOMAIN D : MadeDirectories(w, p)[q] = D[q]
  <2>1. \A q \in DOMAIN D : q \notin new
    BY <1>2
  <2> QED BY <1>7, <2>1
<1>10. ASSUME NEW j \in k + 1..Len(p)
       PROVE  MadeDirectories(w, p)[SubSeq(p, 1, j)] = Len(es) + j - k
  <2>1. j \in 0..Len(p)
    BY <1>1
  <2>2. Len(SubSeq(p, 1, j)) = j
    BY <2>1, PrefixFacts
  <2> QED BY <1>7, <2>2
<1>11. ASSUME NEW q \in DOMAIN D \cup new
       PROVE  MadeDirectories(w, p)[q] \in 0..Len(es) + (Len(p) - k)
  <2>1. CASE q \in DOMAIN D
    BY <1>1, <1>9, <2>1
  <2>2. CASE q \in new
    <3>1. PICK j \in k + 1..Len(p) : q = SubSeq(p, 1, j)
      BY <2>2
    <3>2. MadeDirectories(w, p)[q] = Len(es) + j - k
      BY <1>10, <3>1
    <3> QED BY <1>1, <3>2
  <2> QED BY <2>1, <2>2
<1>12. MadeDirectories(w, p)
         \in [DOMAIN MadeDirectories(w, p) -> 0..Len(es) + (Len(p) - k)]
  BY <1>7, <1>8, <1>11
<1>13. MkdirMakes(w, p, k)
  BY <1>2, <1>4, <1>6, <1>8, <1>9, <1>10, <1>12 DEF MkdirMakes
<1> QED BY <1>13

\* The directories a call makes keep the names in agreement.
LEMMA MkdirFiled ==
  ASSUME NEW w \in Writer, NEW p \in Seq(Name),
         Filed(entries[w], directories[w], files[w]),
         \A d \in 1..Len(p) : SubSeq(p, 1, d) \notin files[w]
  PROVE  /\ Filed(entries[w] \o New(w, p), MadeDirectories(w, p), files[w])
         /\ p \in DOMAIN MadeDirectories(w, p)
         /\ \A q \in DOMAIN MadeDirectories(w, p) :
                q \in DOMAIN directories[w] \/ Len(q) <= Len(p)
<1> DEFINE es == entries[w]
           D == directories[w]
           F == files[w]
           new == New(w, p)
           es2 == es \o new
           D2 == MadeDirectories(w, p)
           L == Len(es)
<1>1. NamesTyped(es, D, F) /\ FoldersAgree(es, D) /\ FilesAgree(es, D, F)
  BY DEF Filed
<1>2. PICK k \in 0..Len(p) : MkdirMakes(w, p, k)
  BY <1>1, MkdirFacts
<1>3. /\ es \in Seq(Entry) /\ L \in Nat /\ Len(p) \in Nat /\ DOMAIN es = 1..L
      /\ DOMAIN D \subseteq Seq(Name) /\ F \subseteq Seq(Name) \ {Root} /\ F \cap DOMAIN D = {}
      /\ Root \in DOMAIN D /\ D[Root] = 0
      /\ \A q \in DOMAIN D : D[q] \in 0..L
  BY <1>1 DEF NamesTyped
<1>4. /\ new \in Seq(Entry) /\ Len(new) = Len(p) - k
      /\ \A n \in 1..Len(p) - k :
            /\ new[n].dir /\ new[n].name = p[k + n]
            /\ new[n].parent = IF n = 1 THEN D[SubSeq(p, 1, k)] ELSE L + n - 1
  BY <1>2 DEF MkdirMakes
<1>5. /\ DOMAIN D2 = DOMAIN D \cup {SubSeq(p, 1, j) : j \in k + 1..Len(p)}
      /\ \A q \in DOMAIN D : D2[q] = D[q]
      /\ \A j \in k + 1..Len(p) : D2[SubSeq(p, 1, j)] = L + j - k
      /\ D2 \in [DOMAIN D2 -> 0..L + (Len(p) - k)]
      /\ SubSeq(p, 1, k) \in DOMAIN D
  BY <1>2 DEF MkdirMakes
<1>6. /\ es2 \in Seq(Entry) /\ Len(es2) = L + (Len(p) - k) /\ DOMAIN es2 = 1..Len(es2)
      /\ \A i \in DOMAIN es : i \in DOMAIN es2 /\ es2[i] = es[i]
      /\ \A n \in 1..Len(p) - k : L + n \in DOMAIN es2 /\ es2[L + n] = new[n]
      /\ \A i \in DOMAIN es2 : i \in DOMAIN es \/ \E n \in 1..Len(p) - k : i = L + n
  <2> HIDE DEF new
  <2>1. /\ es2 \in Seq(Entry) /\ Len(es2) = L + Len(new)
        /\ \A i \in 1..L : es2[i] = es[i]
        /\ \A i \in 1..Len(new) : es2[L + i] = new[i]
        /\ \A i \in 1..L + Len(new) : i \in 1..L \/ \E n \in 1..Len(new) : i = L + n
    <3>1. es \in Seq(Entry) /\ new \in Seq(Entry)
      BY <1>3, <1>4
    <3>2. PICK s \in Seq(Entry) : s = es
      BY <3>1
    <3>3. PICK t \in Seq(Entry) : t = new
      BY <3>1
    <3>4. /\ s \o t \in Seq(Entry) /\ Len(s \o t) = Len(s) + Len(t)
          /\ \A i \in 1..Len(s) : (s \o t)[i] = s[i]
          /\ \A i \in 1..Len(t) : (s \o t)[Len(s) + i] = t[i]
          /\ \A i \in 1..Len(s) + Len(t) : i \in 1..Len(s) \/ \E n \in 1..Len(t) : i = Len(s) + n
      BY Concat
    <3> QED BY <3>2, <3>3, <3>4, Zenon
  <2>2. Len(p) - k \in Nat /\ Len(new) = Len(p) - k /\ L \in Nat /\ DOMAIN es = 1..L
    BY <1>3, <1>4
  <2> HIDE DEF es2, L, es
  <2>3. Len(es2) = L + (Len(p) - k) /\ DOMAIN es2 = 1..Len(es2)
    BY <2>1, <2>2
  <2>4. \A i \in DOMAIN es : i \in DOMAIN es2 /\ es2[i] = es[i]
    BY <2>1, <2>2, <2>3
  <2>5. \A n \in 1..Len(p) - k : L + n \in DOMAIN es2 /\ es2[L + n] = new[n]
    BY <2>1, <2>2, <2>3
  <2>6. \A i \in DOMAIN es2 : i \in DOMAIN es \/ \E n \in 1..Len(p) - k : i = L + n
    BY <2>1, <2>2, <2>3
  <2> QED BY <2>1, <2>3, <2>4, <2>5, <2>6
<1> HIDE DEF es2, D2, new
<1>7. \A j \in k + 1..Len(p) :
        /\ j \in 1..Len(p) /\ SubSeq(p, 1, j) \in Seq(Name) /\ Len(SubSeq(p, 1, j)) = j
        /\ SubSeq(p, 1, j) # Root
        /\ Front(SubSeq(p, 1, j)) = SubSeq(p, 1, j - 1)
        /\ Last(SubSeq(p, 1, j)) = p[j]
  <2>1. ASSUME NEW j \in k + 1..Len(p) PROVE j \in 1..Len(p) /\ j \in 0..Len(p)
    BY <1>3
  <2> QED BY <2>1, PrefixFacts, PrefixFront
<1>8. \A q \in DOMAIN D2 : \/ q \in DOMAIN D
                            \/ \E j \in k + 1..Len(p) : q = SubSeq(p, 1, j)
  BY <1>5
<1>18. DOMAIN D2 \subseteq Seq(Name)
  BY <1>3, <1>7, <1>8
<1>9. NamesTyped(es2, D2, F)
  <2>1. Root \in DOMAIN D2 /\ D2[Root] = 0
    BY <1>3, <1>5
  <2>2. ASSUME NEW q \in DOMAIN D2 PROVE q \notin F
    <3>1. q \in DOMAIN D => q \notin F
      BY <1>3
    <3>2. ASSUME NEW j \in k + 1..Len(p) PROVE SubSeq(p, 1, j) \notin F
      BY <1>7
    <3> QED BY <1>8, <3>1, <3>2
  <2> QED BY <1>3, <1>5, <1>6, <1>18, <2>1, <2>2 DEF NamesTyped
<1>10. ASSUME NEW q \in DOMAIN D2 \ {Root}
       PROVE  D2[q] \in DOMAIN es2 /\ es2[D2[q]].dir /\ Front(q) \in DOMAIN D2 /\ At(es2, D2, D2[q], q)
  <2>1. CASE q \in DOMAIN D
    <3>1. D[q] \in DOMAIN es /\ es[D[q]].dir /\ Front(q) \in DOMAIN D /\ At(es, D, D[q], q)
      BY <1>1, <2>1 DEF FoldersAgree
    <3>2. D2[q] = D[q] /\ D2[Front(q)] = D[Front(q)] /\ es2[D[q]] = es[D[q]] /\ D[q] \in DOMAIN es2
          /\ Front(q) \in DOMAIN D2
      BY <1>5, <1>6, <2>1, <3>1
    <3> QED BY <3>1, <3>2 DEF At
  <2>2. ASSUME NEW j \in k + 1..Len(p), q = SubSeq(p, 1, j)
        PROVE  D2[q] \in DOMAIN es2 /\ es2[D2[q]].dir /\ Front(q) \in DOMAIN D2 /\ At(es2, D2, D2[q], q)
    <3> DEFINE n == j - k
    <3>1. n \in 1..Len(p) - k /\ k + n = j /\ L + j - k = L + n
      BY <1>3
    <3>2. D2[q] = L + n /\ L + n \in DOMAIN es2 /\ es2[L + n] = new[n] /\ new[n].dir
      BY <1>4, <1>5, <1>6, <2>2, <3>1
    <3>3. new[n].name = Last(q) /\ Front(q) = SubSeq(p, 1, j - 1)
      BY <1>4, <1>7, <2>2, <3>1
    <3>4. Front(q) \in DOMAIN D2 /\ new[n].parent = D2[Front(q)]
      <4>1. CASE n = 1
        <5>1. j - 1 = k /\ new[n].parent = D[SubSeq(p, 1, k)]
          BY <1>4, <3>1, <4>1
        <5> QED BY <1>5, <3>3, <5>1
      <4>2. CASE n # 1
        <5>1. j - 1 \in k + 1..Len(p) /\ L + (j - 1) - k = L + n - 1
          BY <1>3, <3>1, <4>2
        <5>2. new[n].parent = L + n - 1
          BY <1>4, <3>1, <4>2
        <5> QED BY <1>5, <3>3, <5>1, <5>2
      <4> QED BY <4>1, <4>2
    <3> QED BY <3>2, <3>3, <3>4 DEF At
  <2> QED BY <1>5, <2>1, <2>2
<1>11. ASSUME NEW q \in DOMAIN D2, NEW r \in DOMAIN D2, D2[q] = D2[r] PROVE q = r
  <2>1. \A j \in k + 1..Len(p) : L + j - k > L /\ ~(L + j - k <= L)
    BY <1>3
  <2>2. \A x \in DOMAIN D : D2[x] = D[x] /\ D2[x] <= L /\ D2[x] \in Nat
    BY <1>3, <1>5
  <2>3. CASE q \in DOMAIN D /\ r \in DOMAIN D
    BY <1>1, <1>5, <1>11, <2>3 DEF FoldersAgree
  <2>4. CASE q \in DOMAIN D /\ r \notin DOMAIN D
    BY <1>5, <1>11, <2>1, <2>2, <2>4
  <2>5. CASE q \notin DOMAIN D /\ r \in DOMAIN D
    BY <1>5, <1>11, <2>1, <2>2, <2>5
  <2>6. CASE q \notin DOMAIN D /\ r \notin DOMAIN D
    <3>1. PICK i \in k + 1..Len(p) : q = SubSeq(p, 1, i)
      BY <1>5, <2>6
    <3>2. PICK j \in k + 1..Len(p) : r = SubSeq(p, 1, j)
      BY <1>5, <2>6
    <3>3. L + i - k = L + j - k
      BY <1>5, <1>11, <3>1, <3>2
    <3>4. i = j
      BY <1>3, <3>3
    <3> QED BY <3>1, <3>2, <3>4
  <2> QED BY <2>3, <2>4, <2>5, <2>6
<1>12. ASSUME NEW i \in DOMAIN es2, es2[i].dir PROVE \E q \in DOMAIN D2 \ {Root} : D2[q] = i
  <2>1. CASE i \in DOMAIN es
    BY <1>1, <1>5, <1>6, <1>12, <2>1 DEF FoldersAgree
  <2>2. ASSUME NEW n \in 1..Len(p) - k, i = L + n PROVE \E q \in DOMAIN D2 \ {Root} : D2[q] = i
    <3>1. k + n \in k + 1..Len(p) /\ L + (k + n) - k = L + n
      BY <1>3
    <3> QED BY <1>5, <1>7, <2>2, <3>1
  <2> QED BY <1>6, <2>1, <2>2
<1>13. FoldersAgree(es2, D2)
  BY <1>10, <1>11, <1>12 DEF FoldersAgree
<1>14. ASSUME NEW i \in DOMAIN es, NEW q \in F, Front(q) \in DOMAIN D, At(es, D, i, q), ~es[i].dir
       PROVE  i \in DOMAIN es2 /\ Front(q) \in DOMAIN D2 /\ At(es2, D2, i, q) /\ ~es2[i].dir
  BY <1>5, <1>6, <1>14 DEF At
<1>15. FilesAgree(es2, D2, F)
  <2>1. ASSUME NEW q \in F
        PROVE  Front(q) \in DOMAIN D2 /\ \E i \in DOMAIN es2 : ~es2[i].dir /\ At(es2, D2, i, q)
    <3>1. PICK i \in DOMAIN es : Front(q) \in DOMAIN D /\ ~es[i].dir /\ At(es, D, i, q)
      BY <1>1 DEF FilesAgree
    <3> QED BY <1>14, <3>1
  <2>2. ASSUME NEW i \in DOMAIN es2, ~es2[i].dir
        PROVE  \E q \in F : Front(q) \in DOMAIN D2 /\ At(es2, D2, i, q)
    <3>1. i \in DOMAIN es /\ ~es[i].dir
      <4>1. \A n \in 1..Len(p) - k : es2[L + n].dir
        BY <1>4, <1>6
      <4> HIDE DEF L, es
      <4> QED BY <1>6, <2>2, <4>1
    <3>2. PICK q \in F : Front(q) \in DOMAIN D /\ At(es, D, i, q)
      BY <1>1, <3>1 DEF FilesAgree
    <3> QED BY <1>14, <3>1, <3>2
  <2> QED BY <2>1, <2>2 DEF FilesAgree
<1>16. p \in DOMAIN D2
  <2>1. CASE k = Len(p)
    <3>1. SubSeq(p, 1, k) = p
      BY <2>1, WholePrefix
    <3> QED BY <1>5, <3>1
  <2>2. CASE k # Len(p)
    <3>1. Len(p) \in k + 1..Len(p)
      BY <1>3, <2>2
    <3> QED BY <1>5, <3>1, WholePrefix
  <2> QED BY <2>1, <2>2
<1>17. \A q \in DOMAIN D2 : q \in DOMAIN D \/ Len(q) <= Len(p)
  BY <1>5, <1>7
<1> QED BY <1>9, <1>13, <1>15, <1>16, <1>17 DEF Filed, es2, D2, new

\* A file in a directory that is there keeps the names in agreement.
LEMMA FileFiled ==
  ASSUME NEW es, NEW D, NEW F, Filed(es, D, F),
         NEW p \in Seq(Name) \ {Root}, p \notin DOMAIN D, Front(p) \in DOMAIN D,
         NEW e \in Entry, ~e.dir, e.name = Last(p), e.parent = D[Front(p)]
  PROVE  Filed(Append(es, e), D, F \cup {p})
<1> DEFINE es2 == Append(es, e)
           L == Len(es)
<1>1. NamesTyped(es, D, F) /\ FoldersAgree(es, D) /\ FilesAgree(es, D, F)
  BY DEF Filed
<1>2. /\ es \in Seq(Entry) /\ L \in Nat /\ DOMAIN es = 1..L
      /\ DOMAIN D \subseteq Seq(Name) /\ F \subseteq Seq(Name) \ {Root} /\ F \cap DOMAIN D = {}
      /\ Root \in DOMAIN D /\ D[Root] = 0 /\ D \in [DOMAIN D -> 0..L]
  BY <1>1 DEF NamesTyped
<1>3. /\ es2 \in Seq(Entry) /\ Len(es2) = L + 1 /\ DOMAIN es2 = 1..L + 1 /\ es2[L + 1] = e
      /\ \A i \in DOMAIN es : i \in DOMAIN es2 /\ es2[i] = es[i]
      /\ L + 1 \in DOMAIN es2
      /\ \A i \in DOMAIN es2 : i \in DOMAIN es \/ i = L + 1
  BY <1>2, AppendProperties
<1> HIDE DEF es2
<1>4. NamesTyped(es2, D, F \cup {p})
  <2>1. D \in [DOMAIN D -> 0..L + 1]
    BY <1>2
  <2> QED BY <1>2, <1>3, <2>1 DEF NamesTyped
<1>5. \A i \in DOMAIN es, q \in Seq(Name) : At(es2, D, i, q) <=> At(es, D, i, q)
  BY <1>3 DEF At
<1>6. FoldersAgree(es2, D)
  <2>1. ASSUME NEW q \in DOMAIN D \ {Root}
        PROVE  D[q] \in DOMAIN es2 /\ es2[D[q]].dir /\ Front(q) \in DOMAIN D /\ At(es2, D, D[q], q)
    BY <1>1, <1>2, <1>3, <1>5 DEF FoldersAgree
  <2>2. \A i \in DOMAIN es2 : es2[i].dir => i \in DOMAIN es /\ es[i].dir
    BY <1>3
  <2> QED BY <1>1, <2>1, <2>2 DEF FoldersAgree
<1>7. FilesAgree(es2, D, F \cup {p})
  <2>1. At(es2, D, L + 1, p) /\ ~es2[L + 1].dir
    BY <1>3 DEF At
  <2>2. ASSUME NEW q \in F
        PROVE  Front(q) \in DOMAIN D /\ \E i \in DOMAIN es2 : ~es2[i].dir /\ At(es2, D, i, q)
    <3>1. PICK i \in DOMAIN es : Front(q) \in DOMAIN D /\ ~es[i].dir /\ At(es, D, i, q)
      BY <1>1 DEF FilesAgree
    <3> QED BY <1>2, <1>3, <1>5, <3>1
  <2>3. ASSUME NEW i \in DOMAIN es2, ~es2[i].dir
        PROVE  \E q \in F \cup {p} : Front(q) \in DOMAIN D /\ At(es2, D, i, q)
    <3>1. CASE i \in DOMAIN es
      <4>1. PICK q \in F : Front(q) \in DOMAIN D /\ At(es, D, i, q)
        BY <1>1, <1>3, <2>3, <3>1 DEF FilesAgree
      <4> QED BY <1>2, <1>5, <3>1, <4>1
    <3>2. CASE i = L + 1
      BY <2>1, <3>2
    <3> QED BY <1>3, <3>1, <3>2
  <2> QED BY <1>3, <2>1, <2>2, <2>3 DEF FilesAgree
<1> QED BY <1>4, <1>6, <1>7 DEF Filed, es2


------------------------------------------------------------------------------
(***************************************************************************)
(* What an add leaves of the correspondence of items and entries.          *)
(***************************************************************************)

LEMMA RecordedEmpty == Recorded(<<>>, OnlyRoot, <<>>, <<>>) /\ Shallow(OnlyRoot)
<1>1. DOMAIN OnlyRoot = {Root} /\ Len(Root) = 0 /\ 0 <= MaxDepth
  BY SizesArePositive DEF OnlyRoot, Root
<1>2. Files(<<>>) = {} /\ FileItems(<<>>) = {} /\ DOMAIN <<>> = {} /\ <<>> \in Seq(Given)
  BY DEF Files, FileItems
<1>3. Matches(<<>>, <<>>, OnlyRoot, <<>>, <<>>)
  BY <1>2 DEF Matches
<1>4. UNION {Store!Above(<<>>[k]) : k \in DOMAIN <<>>} = {}
  BY <1>2
<1> QED BY <1>1, <1>2, <1>3, <1>4 DEF Recorded, Shallow

\* A directory's own directories are there.
LEMMA PrefixesThere ==
  ASSUME NEW es, NEW D, NEW F, Filed(es, D, F), NEW p \in Seq(Name), NEW k \in 0..Len(p),
         SubSeq(p, 1, k) \in DOMAIN D
  PROVE  \A j \in 0..k : SubSeq(p, 1, j) \in DOMAIN D
<1> DEFINE S == {n \in 0..k : SubSeq(p, 1, k - n) \in DOMAIN D}
<1>1. k \in Nat /\ Len(p) \in Nat /\ k <= Len(p)
  OBVIOUS
<1>2. 0 \in S
  BY <1>1
<1>3. ASSUME NEW n \in 1..k, n - 1 \in S PROVE n \in S
  <2>1. PICK i \in 1..Len(p) : i = k - (n - 1)
    BY <1>1
  <2>2. SubSeq(p, 1, i) \in DOMAIN D /\ SubSeq(p, 1, i) # Root
        /\ Front(SubSeq(p, 1, i)) = SubSeq(p, 1, i - 1)
    BY <1>3, <2>1, PrefixFront
  <2>3. SubSeq(p, 1, i - 1) \in DOMAIN D
    <3>1. \A q \in DOMAIN D \ {Root} : Front(q) \in DOMAIN D
      BY DEF Filed, FoldersAgree
    <3> QED BY <2>2, <3>1
  <2>4. i - 1 = k - n
    BY <1>1, <2>1
  <2> QED BY <1>1, <2>3, <2>4
<1> HIDE DEF S
<1>4. \A n \in 0..k : n \in S
  BY <1>1, <1>2, <1>3, CountUp
<1>5. ASSUME NEW j \in 0..k PROVE SubSeq(p, 1, j) \in DOMAIN D
  <2>1. k - j \in 0..k /\ k - (k - j) = j
    BY <1>1
  <2>2. SubSeq(p, 1, k - (k - j)) \in DOMAIN D
    BY <1>4, <2>1 DEF S
  <2> QED BY <2>1, <2>2
<1> QED BY <1>5

\* _mkdir() adds the directories on the way, and no file.
LEMMA MkdirRecords ==
  ASSUME NEW w \in Writer, NEW p \in Seq(Name),
         Filed(entries[w], directories[w], files[w]), Shallow(directories[w]), Len(p) <= MaxDepth,
         NEW e, NEW s, NEW items, Matches(e, entries[w], directories[w], s, items)
  PROVE  /\ DOMAIN MadeDirectories(w, p) \ {Root}
                = (DOMAIN directories[w] \ {Root}) \cup {SubSeq(p, 1, d) : d \in 1..Len(p)}
         /\ Shallow(MadeDirectories(w, p))
         /\ Matches(e, entries[w] \o New(w, p), MadeDirectories(w, p), s, items)
<1> DEFINE es == entries[w]
           D == directories[w]
           D2 == MadeDirectories(w, p)
           new == New(w, p)
           es2 == es \o new
           L == Len(es)
<1>1. NamesTyped(es, D, files[w])
  BY DEF Filed
<1>2. PICK k \in 0..Len(p) : MkdirMakes(w, p, k)
  BY <1>1, MkdirFacts
<1>3. es \in Seq(Entry) /\ DOMAIN D \subseteq Seq(Name) /\ Len(p) \in Nat /\ L \in Nat
  BY <1>1 DEF NamesTyped
<1>4. /\ new \in Seq(Entry) /\ Len(new) = Len(p) - k /\ SubSeq(p, 1, k) \in DOMAIN D
      /\ \A n \in 1..Len(p) - k : new[n].dir
      /\ DOMAIN D2 = DOMAIN D \cup {SubSeq(p, 1, j) : j \in k + 1..Len(p)}
      /\ \A q \in DOMAIN D : D2[q] = D[q]
  BY <1>2 DEF MkdirMakes
<1>5. /\ DOMAIN es2 = 1..L + (Len(p) - k) /\ DOMAIN es = 1..L
      /\ \A i \in 1..L : es2[i] = es[i] /\ i \in DOMAIN es2
      /\ \A i \in DOMAIN es2 : i \notin 1..L => es2[i].dir
  <2>1. PICK t \in Seq(Entry) : t = es
    BY <1>3
  <2>2. PICK u \in Seq(Entry) : u = new
    BY <1>4
  <2>3. /\ t \o u \in Seq(Entry) /\ Len(t \o u) = Len(t) + Len(u)
        /\ \A i \in 1..Len(t) : (t \o u)[i] = t[i]
        /\ \A i \in 1..Len(u) : (t \o u)[Len(t) + i] = u[i]
        /\ \A i \in 1..Len(t) + Len(u) : i \in 1..Len(t) \/ \E n \in 1..Len(u) : i = Len(t) + n
    <3> HIDE DEF es2, es, new, L
    <3>1. /\ t \o u \in Seq(Entry) /\ Len(t \o u) = Len(t) + Len(u)
          /\ \A i \in 1..Len(t) : (t \o u)[i] = t[i]
          /\ \A i \in 1..Len(u) : (t \o u)[Len(t) + i] = u[i]
      OBVIOUS
    <3>2. \A i \in 1..Len(t) + Len(u) : i \in 1..Len(t) \/ \E n \in 1..Len(u) : i = Len(t) + n
      BY Concat, Zenon
    <3> QED BY <3>1, <3>2
  <2>7. es2 = t \o u /\ DOMAIN es = DOMAIN t /\ L = Len(t) /\ Len(u) = Len(new)
    BY <2>1, <2>2
  <2> HIDE DEF es2, es, new, L
  <2>4. DOMAIN es2 = 1..L + (Len(p) - k) /\ DOMAIN es = 1..L /\ L = Len(t) /\ Len(u) = Len(p) - k
        /\ es2 = t \o u /\ L \in Nat /\ Len(p) - k \in Nat
    <3>1. Len(u) = Len(p) - k /\ Len(u) \in Nat /\ Len(t) \in Nat
      BY <1>4, <2>7
    <3>2. DOMAIN (t \o u) = 1..Len(t) + Len(u) /\ DOMAIN t = 1..Len(t)
      BY <2>3
    <3> QED BY <2>7, <3>1, <3>2
  <2>5. ASSUME NEW i \in 1..L PROVE es2[i] = es[i] /\ i \in DOMAIN es2
    BY <2>1, <2>3, <2>4
  <2>6. ASSUME NEW i \in DOMAIN es2, i \notin 1..L PROVE es2[i].dir
    <3>1. PICK n \in 1..Len(u) : i = Len(t) + n
      BY <2>3, <2>4, <2>6
    <3> QED BY <1>4, <2>2, <2>3, <2>4, <3>1
  <2> QED BY <2>4, <2>5, <2>6
<1> HIDE DEF es2, D2, new, L
<1>6. Files(es2) = Files(es)
  <2>1. \A i : i \in Files(es2) <=> i \in DOMAIN es2 /\ ~es2[i].dir
    BY DEF Files
  <2>2. \A i : i \in Files(es) <=> i \in DOMAIN es /\ ~es[i].dir
    BY DEF Files
  <2> HIDE DEF es
  <2> QED BY <1>5, <2>1, <2>2
<1>7. Files(es) \in SUBSET (1..L)
  BY <1>5 DEF Files
<1>8. Matches(e, es2, D2, s, items)
  <2>1. ASSUME NEW k1 \in FileItems(items)
        PROVE  /\ items[k1].path \in Seq(Name) \ {Root} /\ Front(items[k1].path) \in DOMAIN D2
               /\ At(es2, D2, e[k1], items[k1].path) /\ Bytes(es2[e[k1]], s) = items[k1].data
    <3>1. /\ e[k1] \in Files(es) /\ items[k1].path \in Seq(Name) \ {Root}
          /\ Front(items[k1].path) \in DOMAIN D
          /\ At(es, D, e[k1], items[k1].path) /\ Bytes(es[e[k1]], s) = items[k1].data
      BY DEF Matches
    <3>2. es2[e[k1]] = es[e[k1]] /\ D2[Front(items[k1].path)] = D[Front(items[k1].path)]
          /\ Front(items[k1].path) \in DOMAIN D2
      <4> HIDE DEF es, D
      <4> QED BY <1>4, <1>5, <1>7, <3>1
    <3> HIDE DEF es, D
    <3> QED BY <3>1, <3>2 DEF At
  <2>2. /\ e \in [FileItems(items) -> Files(es2)]
        /\ \A i \in Files(es2) : \E k1 \in FileItems(items) : e[k1] = i
        /\ \A j, k1 \in FileItems(items) : j < k1 => e[j] < e[k1]
    BY <1>6 DEF Matches
  <2> QED BY <2>1, <2>2, Zenon DEF Matches
<1>9. \A j \in 0..k : SubSeq(p, 1, j) \in DOMAIN D
  BY <1>4, PrefixesThere
<1>10. \A j \in 1..Len(p) : /\ SubSeq(p, 1, j) # Root /\ Len(SubSeq(p, 1, j)) = j
                            /\ j \in 0..k \/ j \in k + 1..Len(p)
  <2>1. ASSUME NEW j \in 1..Len(p)
        PROVE  /\ SubSeq(p, 1, j) # Root /\ Len(SubSeq(p, 1, j)) = j
               /\ j \in 0..k \/ j \in k + 1..Len(p)
    <3>1. j \in 0..Len(p) /\ (j \in 0..k \/ j \in k + 1..Len(p))
      BY <1>3
    <3> QED BY <3>1, PrefixFront, PrefixFacts
  <2> QED BY <2>1
<1>11. \A j \in k + 1..Len(p) : j \in 1..Len(p)
  BY <1>3
<1>12. DOMAIN D2 \ {Root} = (DOMAIN D \ {Root}) \cup {SubSeq(p, 1, d) : d \in 1..Len(p)}
  <2>1. ASSUME NEW q \in DOMAIN D2 \ {Root}
        PROVE  q \in (DOMAIN D \ {Root}) \cup {SubSeq(p, 1, d) : d \in 1..Len(p)}
    BY <1>4, <1>11
  <2>2. ASSUME NEW d \in 1..Len(p) PROVE SubSeq(p, 1, d) \in DOMAIN D2 \ {Root}
    BY <1>4, <1>9, <1>10
  <2>3. \A q \in DOMAIN D \ {Root} : q \in DOMAIN D2 \ {Root}
    BY <1>4
  <2> QED BY <2>1, <2>2, <2>3
<1>13. Shallow(D2)
  <2>1. ASSUME NEW j \in k + 1..Len(p) PROVE Len(SubSeq(p, 1, j)) <= MaxDepth
    <3>1. j \in 1..Len(p) /\ j <= Len(p)
      BY <1>11
    <3> QED BY <1>3, <1>10, <3>1, SizesArePositive
  <2> QED BY <1>4, <2>1 DEF Shallow
<1> QED BY <1>8, <1>12, <1>13 DEF D2, new, es2

LEMMA AppendItem ==
  ASSUME NEW items \in Seq(Given), NEW item \in Given
  PROVE  /\ Append(items, item) \in Seq(Given)
         /\ DOMAIN items = 1..Len(items) /\ Len(items) \in Nat
         /\ DOMAIN Append(items, item) = 1..Len(items) + 1
         /\ \A k \in 1..Len(items) : Append(items, item)[k] = items[k]
         /\ Append(items, item)[Len(items) + 1] = item
         /\ UNION {Store!Above(Append(items, item)[k]) : k \in DOMAIN Append(items, item)}
                = (UNION {Store!Above(items[k]) : k \in DOMAIN items}) \cup Store!Above(item)
<1> DEFINE t == Append(items, item)
           L == Len(items)
<1>1. /\ t \in Seq(Given) /\ DOMAIN items = 1..L /\ L \in Nat /\ DOMAIN t = 1..L + 1
      /\ \A k \in 1..L : t[k] = items[k]
      /\ t[L + 1] = item
  BY AppendProperties
<1> HIDE DEF t, L
<1>2. \A k \in 1..L + 1 : k \in 1..L \/ k = L + 1
  BY <1>1
<1>3. \A k \in 1..L : k \in 1..L + 1
  BY <1>1
<1>4. L + 1 \in 1..L + 1
  BY <1>1
<1>5. UNION {Store!Above(t[k]) : k \in DOMAIN t}
        = (UNION {Store!Above(items[k]) : k \in DOMAIN items}) \cup Store!Above(item)
  BY <1>1, <1>2, <1>3, <1>4
<1> QED BY <1>1, <1>5 DEF t, L

\* A directory item adds no file.
LEMMA DirectoryMatches ==
  ASSUME NEW es, NEW D, NEW s, NEW items \in Seq(Given), NEW item \in Given, ~item.file,
         NEW e, Matches(e, es, D, s, items)
  PROVE  Matches(e, es, D, s, Append(items, item))
<1> DEFINE t == Append(items, item)
<1>1. /\ DOMAIN items = 1..Len(items) /\ Len(items) \in Nat /\ DOMAIN t = 1..Len(items) + 1
      /\ \A k \in 1..Len(items) : t[k] = items[k]
      /\ t[Len(items) + 1] = item
  BY AppendItem
<1> HIDE DEF t
<1>2. \A k \in DOMAIN t : k \in DOMAIN items \/ k = Len(items) + 1
  BY <1>1
<1>3. \A k \in DOMAIN items : k \in DOMAIN t
  BY <1>1
<1>4. FileItems(t) = FileItems(items)
  BY <1>1, <1>2, <1>3 DEF FileItems
<1>5. \A k \in FileItems(items) : t[k] = items[k]
  BY <1>1 DEF FileItems
<1>6. Matches(e, es, D, s, t)
  BY <1>4, <1>5 DEF Matches
<1> QED BY <1>6 DEF t

\* The spool only grows at its end.
LEMMA SliceKept ==
  ASSUME NEW S, NEW s \in Seq(S), NEW c \in Seq(S), NEW a \in Nat, NEW n \in Nat, a + n <= Len(s)
  PROVE  SubSeq(s \o c, a + 1, a + n) = SubSeq(s, a + 1, a + n)
<1>1. PICK t \in Seq(S) : t = s \o c
  BY Concat
<1>2. Len(t) = Len(s) + Len(c) /\ (\A i \in 1..Len(s) : t[i] = s[i]) /\ Len(s) \in Nat /\ Len(c) \in Nat
  BY <1>1, Concat
<1>3. a + n <= Len(t)
  BY <1>2
<1>4. /\ SubSeq(t, a + 1, a + n) \in Seq(S) /\ Len(SubSeq(t, a + 1, a + n)) = n
      /\ \A i \in 1..n : SubSeq(t, a + 1, a + n)[i] = t[a + i]
  BY <1>3, Slice
<1>5. /\ SubSeq(s, a + 1, a + n) \in Seq(S) /\ Len(SubSeq(s, a + 1, a + n)) = n
      /\ \A i \in 1..n : SubSeq(s, a + 1, a + n)[i] = s[a + i]
  BY Slice
<1>6. \A i \in 1..n : a + i \in 1..Len(s)
  BY <1>2
<1>7. \A i \in 1..n : SubSeq(t, a + 1, a + n)[i] = SubSeq(s, a + 1, a + n)[i]
  BY <1>2, <1>4, <1>5, <1>6
<1>8. SubSeq(t, a + 1, a + n) = SubSeq(s, a + 1, a + n)
  BY <1>4, <1>5, <1>7, SeqEqual
<1> QED BY <1>1, <1>8

LEMMA SliceAdded ==
  ASSUME NEW S, NEW s \in Seq(S), NEW c \in Seq(S)
  PROVE  SubSeq(s \o c, Len(s) + 1, Len(s) + Len(c)) = c
<1>1. PICK t \in Seq(S) : t = s \o c
  BY Concat
<1>2. /\ Len(t) = Len(s) + Len(c) /\ (\A i \in 1..Len(c) : t[Len(s) + i] = c[i])
      /\ Len(s) \in Nat /\ Len(c) \in Nat
  BY <1>1, Concat
<1>3. PICK a \in Nat : a = Len(s)
  BY <1>2
<1>4. PICK n \in Nat : n = Len(c)
  BY <1>2
<1>5. a + n <= Len(t)
  BY <1>2, <1>3, <1>4
<1>6. /\ SubSeq(t, a + 1, a + n) \in Seq(S) /\ Len(SubSeq(t, a + 1, a + n)) = n
      /\ \A i \in 1..n : SubSeq(t, a + 1, a + n)[i] = t[a + i]
  BY <1>5, Slice
<1>7. \A i \in 1..n : SubSeq(t, a + 1, a + n)[i] = c[i]
  BY <1>2, <1>3, <1>4, <1>6
<1>8. SubSeq(t, a + 1, a + n) = c
  BY <1>4, <1>6, <1>7, SeqEqual
<1> QED BY <1>1, <1>3, <1>4, <1>8

\* A file that is added is the last of the entries and of the items.
LEMMA FileMatches ==
  ASSUME NEW es, NEW s, Spooled(es, s), NEW c \in Seq(DOMAIN Hash), NEW D,
         NEW p \in Seq(Name) \ {Root}, Front(p) \in DOMAIN D,
         NEW x \in Entry, ~x.dir, x.name = Last(p), x.parent = D[Front(p)],
         x.spool = Len(s), x.size = Len(c),
         NEW items \in Seq(Given), NEW item \in Given, item.file, item.path = p, item.data = c,
         NEW e, Matches(e, es, D, s, items)
  PROVE  \E e2 : Matches(e2, Append(es, x), D, s \o c, Append(items, item))
<1> DEFINE es2 == Append(es, x)
           s2 == s \o c
           t == Append(items, item)
           L == Len(es)
           M == Len(items)
           e2 == [k \in FileItems(t) |-> IF k = M + 1 THEN L + 1 ELSE e[k]]
<1>1. /\ DOMAIN items = 1..M /\ M \in Nat /\ DOMAIN t = 1..M + 1
      /\ (\A k \in 1..M : t[k] = items[k]) /\ t[M + 1] = item
  BY AppendItem
<1>2. /\ DOMAIN es = 1..L /\ L \in Nat /\ DOMAIN es2 = 1..L + 1
      /\ (\A i \in 1..L : es2[i] = es[i]) /\ es2[L + 1] = x
  BY AppendProperties DEF Spooled
<1>3. \A i \in DOMAIN es : Bytes(es[i], s2) = Bytes(es[i], s)
  <2>1. ASSUME NEW i \in DOMAIN es PROVE Bytes(es[i], s2) = Bytes(es[i], s)
    <3>1. es[i].spool \in Nat /\ es[i].size \in Nat /\ es[i].spool + es[i].size <= Len(s)
          /\ s \in Seq(DOMAIN Hash)
      BY EntryTypes DEF Spooled
    <3>2. SubSeq(s \o c, es[i].spool + 1, es[i].spool + es[i].size)
            = SubSeq(s, es[i].spool + 1, es[i].spool + es[i].size)
      <4>1. PICK a \in Nat : a = es[i].spool
        BY <3>1
      <4>2. PICK n \in Nat : n = es[i].size
        BY <3>1
      <4>3. a + n <= Len(s)
        BY <3>1, <4>1, <4>2
      <4>4. SubSeq(s \o c, a + 1, a + n) = SubSeq(s, a + 1, a + n)
        BY <3>1, <4>3, SliceKept
      <4> QED BY <4>1, <4>2, <4>4
    <3> QED BY <3>2 DEF Bytes
  <2> QED BY <2>1
<1>4. Bytes(x, s2) = c
  <2>1. s \in Seq(DOMAIN Hash)
    BY DEF Spooled
  <2>2. SubSeq(s \o c, Len(s) + 1, Len(s) + Len(c)) = c
    BY <2>1, SliceAdded
  <2> QED BY <2>2 DEF Bytes
<1> HIDE DEF es2, s2, t, L, M
<1>5. /\ \A k \in 1..M + 1 : k \in 1..M \/ k = M + 1
      /\ \A k \in 1..M : k \in 1..M + 1 /\ k # M + 1 /\ k < M + 1
      /\ M + 1 \in 1..M + 1 /\ M + 1 \notin 1..M /\ \A k \in 1..M : ~(M + 1 < k)
      /\ ~(M + 1 < M + 1)
  BY <1>1
<1>6. /\ \A k \in 1..L + 1 : k \in 1..L \/ k = L + 1
      /\ \A k \in 1..L : k \in 1..L + 1 /\ k < L + 1
      /\ L + 1 \in 1..L + 1
  BY <1>2
<1>7. \A k : k \in FileItems(t) <=> k \in FileItems(items) \/ k = M + 1
  BY <1>1, <1>5 DEF FileItems
<1>8. \A i : i \in Files(es2) <=> i \in Files(es) \/ i = L + 1
  BY <1>2, <1>6 DEF Files
<1>9. \A k \in FileItems(items) : /\ k \in 1..M /\ k # M + 1 /\ t[k] = items[k] /\ e2[k] = e[k]
                                  /\ e[k] \in Files(es) /\ e[k] \in 1..L
  <2>1. \A k \in FileItems(items) : k \in 1..M
    BY <1>1 DEF FileItems
  <2>2. \A k \in FileItems(items) : e[k] \in Files(es)
    BY DEF Matches
  <2>3. \A i \in Files(es) : i \in 1..L
    BY <1>2 DEF Files
  <2> QED BY <1>1, <1>5, <1>7, <2>1, <2>2, <2>3
<1>10. e2[M + 1] = L + 1
  BY <1>7
<1>11. e2 \in [FileItems(t) -> Files(es2)]
  <2>1. ASSUME NEW k \in FileItems(t) PROVE e2[k] \in Files(es2)
    BY <1>7, <1>8, <1>9, <1>10
  <2> QED BY <2>1
<1> HIDE DEF e2
<1>12. ASSUME NEW i \in Files(es2) PROVE \E k \in FileItems(t) : e2[k] = i
  <2>1. CASE i = L + 1
    BY <1>7, <1>10, <2>1
  <2>2. CASE i \in Files(es)
    <3>1. PICK k \in FileItems(items) : e[k] = i
      BY <2>2 DEF Matches
    <3> QED BY <1>7, <1>9, <3>1
  <2> QED BY <1>8, <2>1, <2>2
<1>13. ASSUME NEW j \in FileItems(t), NEW k \in FileItems(t), j < k PROVE e2[j] < e2[k]
  <2>1. j \in FileItems(items)
    BY <1>5, <1>7, <1>9, <1>13
  <2>2. CASE k \in FileItems(items)
    BY <1>9, <1>13, <2>1, <2>2 DEF Matches
  <2>3. CASE k = M + 1
    BY <1>6, <1>9, <1>10, <2>1, <2>3
  <2> QED BY <1>7, <2>2, <2>3
<1>14. ASSUME NEW k \in FileItems(t)
       PROVE  /\ t[k].path \in Seq(Name) \ {Root} /\ Front(t[k].path) \in DOMAIN D
              /\ At(es2, D, e2[k], t[k].path) /\ Bytes(es2[e2[k]], s2) = t[k].data
  <2>1. CASE k \in FileItems(items)
    <3>1. /\ items[k].path \in Seq(Name) \ {Root} /\ Front(items[k].path) \in DOMAIN D
          /\ At(es, D, e[k], items[k].path) /\ Bytes(es[e[k]], s) = items[k].data
      BY <2>1 DEF Matches
    <3>2. e2[k] = e[k] /\ t[k] = items[k] /\ es2[e[k]] = es[e[k]] /\ e[k] \in DOMAIN es
      BY <1>2, <1>9, <2>1
    <3> QED BY <1>3, <3>1, <3>2 DEF At
  <2>2. CASE k = M + 1
    <3>1. e2[k] = L + 1 /\ t[k] = item /\ es2[e2[k]] = x
      BY <1>1, <1>2, <1>10, <2>2
    <3>2. At(es2, D, e2[k], p)
      BY <3>1 DEF At
    <3> QED BY <1>4, <3>1, <3>2
  <2> QED BY <1>7, <2>1, <2>2
<1>15. Matches(e2, es2, D, s2, t)
  BY <1>11, <1>12, <1>13, <1>14, Zenon DEF Matches
<1> QED BY <1>15 DEF es2, s2, t
------------------------------------------------------------------------------
(***************************************************************************)
(* The inductive invariant, and the steps.                                 *)
(***************************************************************************)

\* Parents come first, and an entry's bytes and depth are within the limits.
Within(es, s) ==
    /\ \A i \in DOMAIN es :
        /\ es[i].parent \in 0..i - 1
        /\ es[i].depth \in 0..MaxDepth
        /\ es[i].spool + es[i].size <= Len(s)
    /\ Len(es) <= MaxEntries

SpoolOK(s) == s \in Seq(DOMAIN Hash) /\ Len(s) <= MaxInput

Orderly(w) ==
    /\ Filed(entries[w], directories[w], files[w])
    /\ Within(entries[w], spool[w])
    /\ SpoolOK(spool[w])
    /\ Shallow(directories[w])
    /\ Recorded(entries[w], directories[w], spool[w], added[w])

\* What close() has written is the archive of the writer's entries.
Finished(w) == phase[w] \in {"written", "synced"} => temporary[w] = Assemble(entries[w], spool[w])

Shapes ==
    /\ phase \in [Writer -> {"open", "made", "written", "synced", "closed", "killed"}]
    /\ DOMAIN entries = Writer /\ DOMAIN spool = Writer /\ DOMAIN directories = Writer
    /\ DOMAIN files = Writer /\ DOMAIN added = Writer /\ DOMAIN temporary = Writer
    /\ synced \in [Writer -> BOOLEAN]
    /\ \A w \in Writer : phase[w] = "synced" => synced[w]
    /\ destination \in durable

WriterInv == Shapes /\ \A w \in Writer : Orderly(w) /\ Finished(w)

LEMMA LimitTypes == MaxEntries \in Nat /\ MaxInput \in Nat /\ MaxDepth \in Nat
  BY LimitsArePositive, SizesArePositive

LEMMA WithinEmpty == Within(<<>>, <<>>) /\ SpoolOK(<<>>)
  BY LimitTypes DEF Within, SpoolOK

LEMMA MkdirWithin ==
  ASSUME NEW w \in Writer, NEW p \in Seq(Name), Orderly(w), Len(p) <= MaxDepth,
         Len(entries[w]) + Len(New(w, p)) <= MaxEntries
  PROVE  Within(entries[w] \o New(w, p), spool[w])
<1> DEFINE es == entries[w]
           D == directories[w]
           new == New(w, p)
           L == Len(es)
<1>1. NamesTyped(es, D, files[w]) /\ Within(es, spool[w]) /\ SpoolOK(spool[w])
  BY DEF Orderly, Filed
<1>2. PICK k \in 0..Len(p) : MkdirMakes(w, p, k)
  BY <1>1, MkdirFacts
<1>3. /\ es \in Seq(Entry) /\ L \in Nat /\ Len(p) \in Nat /\ Len(spool[w]) \in Nat
      /\ \A q \in DOMAIN D : D[q] \in 0..L
  BY <1>1 DEF NamesTyped, SpoolOK
<1>4. /\ new \in Seq(Entry) /\ Len(new) = Len(p) - k /\ SubSeq(p, 1, k) \in DOMAIN D
      /\ \A n \in 1..Len(p) - k :
            /\ new[n].depth = k + n /\ new[n].spool = 0 /\ new[n].size = 0
            /\ new[n].parent = IF n = 1 THEN D[SubSeq(p, 1, k)] ELSE L + n - 1
  BY <1>2 DEF MkdirMakes
<1>5. PICK s \in Seq(Entry) : s = es
  BY <1>3
<1>6. PICK t \in Seq(Entry) : t = new
  BY <1>4
<1>7. /\ s \o t \in Seq(Entry) /\ Len(s \o t) = Len(s) + Len(t)
      /\ \A i \in 1..Len(s) : (s \o t)[i] = s[i]
      /\ \A i \in 1..Len(t) : (s \o t)[Len(s) + i] = t[i]
      /\ \A i \in 1..Len(s) + Len(t) : i \in 1..Len(s) \/ \E n \in 1..Len(t) : i = Len(s) + n
  BY Concat
<1>8. ASSUME NEW i \in DOMAIN (s \o t)
      PROVE  /\ (s \o t)[i].parent \in 0..i - 1
             /\ (s \o t)[i].depth \in 0..MaxDepth
             /\ (s \o t)[i].spool + (s \o t)[i].size <= Len(spool[w])
  <2>1. CASE i \in 1..Len(s)
    <3>1. i \in DOMAIN es /\ (s \o t)[i] = es[i]
      BY <1>5, <1>7, <2>1
    <3> QED BY <1>1, <3>1 DEF Within
  <2>2. ASSUME NEW n \in 1..Len(t), i = Len(s) + n
        PROVE  /\ (s \o t)[i].parent \in 0..i - 1
               /\ (s \o t)[i].depth \in 0..MaxDepth
               /\ (s \o t)[i].spool + (s \o t)[i].size <= Len(spool[w])
    <3>1. (s \o t)[i] = new[n] /\ n \in 1..Len(p) - k /\ i = L + n
      BY <1>4, <1>5, <1>6, <1>7, <2>2
    <3>2. new[n].parent \in 0..L + n - 1
      BY <1>3, <1>4, <3>1
    <3>3. new[n].depth \in 0..MaxDepth
      BY <1>3, <1>4, <3>1, LimitTypes
    <3>4. new[n].spool + new[n].size <= Len(spool[w])
      BY <1>3, <1>4, <3>1
    <3>5. (s \o t)[i].parent \in 0..i - 1
      BY <3>1, <3>2
    <3> QED BY <3>1, <3>3, <3>4, <3>5
  <2>3. i \in 1..Len(s) + Len(t)
    BY <1>7
  <2> QED BY <1>7, <2>1, <2>2, <2>3
<1>9. Len(s \o t) <= MaxEntries
  BY <1>5, <1>6, <1>7
<1>10. Within(s \o t, spool[w])
  BY <1>8, <1>9, Zenon DEF Within
<1> QED BY <1>5, <1>6, <1>10

LEMMA FileWithin ==
  ASSUME NEW es \in Seq(Entry), NEW s \in Seq(DOMAIN Hash), Within(es, s), NEW c \in Seq(DOMAIN Hash),
         NEW e \in Entry, e.parent \in 0..Len(es), e.depth \in 0..MaxDepth,
         e.spool = Len(s), e.size = Len(c), Len(es) + 1 <= MaxEntries
  PROVE  Within(Append(es, e), s \o c)
<1>1. /\ Len(Append(es, e)) = Len(es) + 1 /\ DOMAIN Append(es, e) = 1..Len(es) + 1
      /\ \A i \in DOMAIN es : Append(es, e)[i] = es[i]
      /\ Append(es, e)[Len(es) + 1] = e /\ DOMAIN es = 1..Len(es) /\ Len(es) \in Nat
  BY AppendProperties
<1>2. Len(s \o c) = Len(s) + Len(c) /\ Len(s) \in Nat /\ Len(c) \in Nat
  BY Concat
<1>3. ASSUME NEW i \in DOMAIN Append(es, e)
      PROVE  /\ Append(es, e)[i].parent \in 0..i - 1
             /\ Append(es, e)[i].depth \in 0..MaxDepth
             /\ Append(es, e)[i].spool + Append(es, e)[i].size <= Len(s \o c)
  <2>1. CASE i \in DOMAIN es
    <3>0. es[i] \in Entry
      BY <1>1, <2>1
    <3>2. es[i].spool \in Nat /\ es[i].size \in Nat
      BY <3>0 DEF Entry
    <3>1. es[i].spool + es[i].size \in Nat
      BY <3>2
    <3> QED BY <1>1, <1>2, <2>1, <3>1 DEF Within
  <2>2. CASE i = Len(es) + 1
    BY <1>1, <1>2, <2>2
  <2> QED BY <1>1, <2>1, <2>2
<1> QED BY <1>1, <1>3 DEF Within


LEMMA OrderlySpooled == ASSUME NEW w \in Writer, Orderly(w) PROVE Spooled(entries[w], spool[w])
  BY DEF Orderly, Filed, NamesTyped, Within, SpoolOK, Spooled

LEMMA MkdirRecorded ==
  ASSUME NEW w \in Writer, Orderly(w), NEW p \in Seq(Name) \ {Root}, Len(p) <= MaxDepth
  PROVE  /\ Shallow(MadeDirectories(w, p))
         /\ Recorded(entries[w] \o New(w, p), MadeDirectories(w, p), spool[w],
                     Append(added[w], [path |-> p, file |-> FALSE, data |-> <<>>]))
<1> DEFINE item == [path |-> p, file |-> FALSE, data |-> <<>>]
           es2 == entries[w] \o New(w, p)
           D2 == MadeDirectories(w, p)
           items == added[w]
<1>1. /\ Filed(entries[w], directories[w], files[w]) /\ Shallow(directories[w])
      /\ Recorded(entries[w], directories[w], spool[w], items)
  BY DEF Orderly
<1>2. PICK e : Matches(e, entries[w], directories[w], spool[w], items)
  BY <1>1 DEF Recorded
<1>3. /\ DOMAIN D2 \ {Root} = (DOMAIN directories[w] \ {Root}) \cup {SubSeq(p, 1, d) : d \in 1..Len(p)}
      /\ Shallow(D2)
      /\ Matches(e, es2, D2, spool[w], items)
  BY <1>1, <1>2, MkdirRecords
<1>4. item \in Given /\ items \in Seq(Given)
  BY <1>1 DEF Given, Recorded
<1>5. Store!Above(item) = {SubSeq(p, 1, d) : d \in 1..Len(p)} /\ ~item.file
  BY DEF Store!Above
<1> HIDE DEF item, es2, D2, items
<1>6. /\ Append(items, item) \in Seq(Given)
      /\ UNION {Store!Above(Append(items, item)[k]) : k \in DOMAIN Append(items, item)}
                = (UNION {Store!Above(items[k]) : k \in DOMAIN items}) \cup Store!Above(item)
  BY <1>4, AppendItem
<1>7. Matches(e, es2, D2, spool[w], Append(items, item))
  BY <1>3, <1>4, <1>5, DirectoryMatches
<1>8. DOMAIN directories[w] \ {Root} = UNION {Store!Above(items[k]) : k \in DOMAIN items}
  BY <1>1 DEF Recorded
<1>9. Recorded(es2, D2, spool[w], Append(items, item))
  BY <1>3, <1>5, <1>6, <1>7, <1>8 DEF Recorded
<1> QED BY <1>3, <1>9 DEF item, es2, D2, items
LEMMA PathFacts ==
  ASSUME NEW w \in Writer, NEW p \in Path[w]
  PROVE  p \in Seq(Name) /\ p # Root
  BY PathType

LEMMA InitInv == Init => WriterInv
<1> SUFFICES ASSUME Init PROVE WriterInv
  OBVIOUS
<1>1. ASSUME NEW w \in Writer PROVE Orderly(w) /\ Finished(w)
  BY FiledEmpty, WithinEmpty, RecordedEmpty DEF Init, Orderly, Finished
<1> QED BY <1>1 DEF Init, WriterInv, Shapes

LEMMA Same ==
  ASSUME WriterInv, UNCHANGED <<memory, added>>, NEW w \in Writer PROVE Orderly(w)'
  BY DEF WriterInv, Orderly, memory

LEMMA Released ==
  ASSUME WriterInv, NEW w \in Writer, NEW then \in {"closed", "killed"}, Release(w, then)
  PROVE  /\ phase' \in [Writer -> {"open", "made", "written", "synced", "closed", "killed"}]
         /\ DOMAIN entries' = Writer /\ DOMAIN spool' = Writer /\ DOMAIN directories' = Writer
         /\ DOMAIN files' = Writer /\ DOMAIN added' = Writer
         /\ \A v \in Writer \ {w} : entries'[v] = entries[v] /\ spool'[v] = spool[v]
         /\ phase'[w] = then /\ \A v \in Writer \ {w} : phase'[v] = phase[v]
         /\ \A v \in Writer : Orderly(v)'
<1>1. ASSUME NEW v \in Writer PROVE Orderly(v)'
  <2>1. CASE v = w
    <3>1. entries'[v] = <<>> /\ spool'[v] = <<>> /\ directories'[v] = OnlyRoot /\ files'[v] = {}
          /\ added'[v] = <<>>
      BY <2>1 DEF Release, WriterInv, Shapes
    <3> QED BY <3>1, FiledEmpty, WithinEmpty, RecordedEmpty DEF Orderly
  <2>2. CASE v # w
    <3>1. entries'[v] = entries[v] /\ spool'[v] = spool[v] /\ directories'[v] = directories[v]
          /\ files'[v] = files[v] /\ added'[v] = added[v]
      BY <2>2 DEF Release, WriterInv, Shapes
    <3> QED BY <3>1 DEF Orderly, WriterInv
  <2> QED BY <2>1, <2>2
<1> QED BY <1>1 DEF Release, WriterInv, Shapes

\* A writer that is released has nothing finished; the others are as they were.
LEMMA ReleasedFinished ==
  ASSUME WriterInv, NEW w \in Writer, NEW then \in {"closed", "killed"}, Release(w, then),
         \A v \in Writer \ {w} : temporary'[v] = temporary[v]
  PROVE  \A v \in Writer : Finished(v)'
<1>1. /\ phase'[w] = then /\ \A v \in Writer \ {w} : phase'[v] = phase[v]
      /\ \A v \in Writer \ {w} : entries'[v] = entries[v] /\ spool'[v] = spool[v]
  BY Released
<1>2. ASSUME NEW v \in Writer, v # w PROVE Finished(v)'
  <2>1. /\ phase'[v] = phase[v] /\ temporary'[v] = temporary[v]
        /\ entries'[v] = entries[v] /\ spool'[v] = spool[v]
    BY <1>1, <1>2
  <2>2. Finished(v)
    BY DEF WriterInv
  <2> QED BY <2>1, <2>2 DEF Finished
<1>3. Finished(w)'
  BY <1>1 DEF Finished
<1> QED BY <1>2, <1>3

LEMMA AbortStep == ASSUME WriterInv, NEW w \in Writer, Abort(w) PROVE WriterInv'
<1>1. Release(w, "closed") /\ temporary' = [temporary EXCEPT ![w] = NoFile]
  BY DEF Abort
<1>2. DOMAIN temporary = Writer
  BY DEF WriterInv, Shapes
<1>3. \A v \in Writer : Finished(v)'
  BY <1>1, <1>2, ReleasedFinished
<1>4. Shapes'
  BY <1>1, Released DEF Abort, WriterInv, Shapes
<1> QED BY <1>1, <1>3, <1>4, Released DEF WriterInv

LEMMA KillStep == ASSUME WriterInv, NEW w \in Writer, Kill(w) PROVE WriterInv'
<1>1. Release(w, "killed") /\ UNCHANGED temporary
  BY DEF Kill
<1>2. \A v \in Writer : Finished(v)'
  BY <1>1, ReleasedFinished
<1>3. Shapes'
  BY <1>1, Released DEF Kill, WriterInv, Shapes
<1> QED BY <1>1, <1>2, <1>3, Released DEF WriterInv

LEMMA PowerFailureStep == ASSUME WriterInv, PowerFailure PROVE WriterInv'
<1>1. ASSUME NEW w \in Writer PROVE Orderly(w)' /\ Finished(w)'
  BY FiledEmpty, WithinEmpty, RecordedEmpty DEF PowerFailure, Orderly, Finished
<1>2. Shapes'
  BY DEF PowerFailure, WriterInv, Shapes
<1> QED BY <1>1, <1>2 DEF WriterInv

LEMMA CloseStep == ASSUME WriterInv, NEW w \in Writer, Close(w) PROVE WriterInv'
<1>1. CASE MakeTemporary(w)
  <2>1. Shapes'
    BY <1>1 DEF MakeTemporary, memory, WriterInv, Shapes
  <2>2. ASSUME NEW v \in Writer PROVE Finished(v)'
    BY <1>1 DEF MakeTemporary, memory, WriterInv, Shapes, Finished
  <2> QED BY <1>1, <2>1, <2>2, Same DEF MakeTemporary, WriterInv
<1>2. CASE Finish(w)
  <2>1. Shapes'
    BY <1>2 DEF Finish, memory, WriterInv, Shapes
  <2>2. ASSUME NEW v \in Writer PROVE Finished(v)'
    BY <1>2 DEF Finish, memory, WriterInv, Shapes, Finished
  <2> QED BY <1>2, <2>1, <2>2, Same DEF Finish, WriterInv
<1>3. CASE Sync(w)
  <2>1. Shapes'
    BY <1>3 DEF Sync, memory, WriterInv, Shapes
  <2>2. ASSUME NEW v \in Writer PROVE Finished(v)'
    BY <1>3 DEF Sync, memory, WriterInv, Shapes, Finished
  <2> QED BY <1>3, <2>1, <2>2, Same DEF Sync, WriterInv
<1>4. CASE Replace(w)
  <2>1. Release(w, "closed") /\ temporary' = [temporary EXCEPT ![w] = NoFile]
    BY <1>4 DEF Replace
  <2>2. DOMAIN temporary = Writer
    BY DEF WriterInv, Shapes
  <2>3. \A v \in Writer : Finished(v)'
    BY <2>1, <2>2, ReleasedFinished
  <2>4. synced' \in [Writer -> BOOLEAN]
    BY <1>4 DEF Replace, WriterInv, Shapes
  <2>5. destination' \in durable'
    BY <1>4 DEF Replace, WriterInv, Shapes
  <2>6. \A v \in Writer : phase'[v] = "synced" => synced'[v]
    BY <1>4 DEF Replace, Release, WriterInv, Shapes
  <2>7. DOMAIN temporary' = Writer
    BY <2>1, <2>2
  <2>8. Shapes'
    BY <2>1, <2>4, <2>5, <2>6, <2>7, Released DEF Shapes
  <2> QED BY <2>1, <2>3, <2>8, Released DEF WriterInv
<1> QED BY <1>1, <1>2, <1>3, <1>4 DEF Close

\* The success of Mkdir and of WriteStream, of one writer.
LEMMA OneWriter ==
  ASSUME WriterInv, NEW w \in Writer, Orderly(w)', phase[w] = "open",
         UNCHANGED <<phase, temporary, synced, destination, durable>>,
         DOMAIN entries' = Writer, DOMAIN spool' = Writer, DOMAIN directories' = Writer,
         DOMAIN files' = Writer, DOMAIN added' = Writer,
         \A v \in Writer \ {w} : /\ entries'[v] = entries[v] /\ spool'[v] = spool[v]
                                 /\ directories'[v] = directories[v] /\ files'[v] = files[v]
                                 /\ added'[v] = added[v]
  PROVE  WriterInv'
<1>1. ASSUME NEW v \in Writer, v # w PROVE Orderly(v)' /\ Finished(v)'
  <2>1. /\ entries'[v] = entries[v] /\ spool'[v] = spool[v]
        /\ directories'[v] = directories[v] /\ files'[v] = files[v] /\ added'[v] = added[v]
    BY <1>1
  <2>2. Orderly(v) /\ Finished(v)
    BY DEF WriterInv
  <2>3. Orderly(v)'
    BY <2>1, <2>2 DEF Orderly
  <2>4. Finished(v)'
    BY <2>1, <2>2 DEF Finished
  <2> QED BY <2>3, <2>4
<1>2. Finished(w)'
  BY DEF Finished
<1>3. Shapes'
  BY DEF WriterInv, Shapes
<1> QED BY <1>1, <1>2, <1>3 DEF WriterInv

LEMMA MkdirStep == ASSUME WriterInv, NEW w \in Writer, NEW p \in Path[w], Mkdir(w, p) PROVE WriterInv'
<1>1. CASE Enterable(w, p) /\ Accepts(entries[w], New(w, p))
  <2>1. /\ entries' = [entries EXCEPT ![w] = @ \o New(w, p)]
        /\ directories' = [directories EXCEPT ![w] = MadeDirectories(w, p)]
        /\ added' = [added EXCEPT ![w] = Append(@, [path |-> p, file |-> FALSE, data |-> <<>>])]
        /\ UNCHANGED <<phase, spool, files, temporary, synced, destination, durable>>
        /\ phase[w] = "open"
    BY <1>1 DEF Mkdir
  <2>2. Shapes /\ Orderly(w)
    BY DEF WriterInv
  <2>3. /\ entries'[w] = entries[w] \o New(w, p) /\ directories'[w] = MadeDirectories(w, p)
        /\ added'[w] = Append(added[w], [path |-> p, file |-> FALSE, data |-> <<>>])
        /\ spool'[w] = spool[w] /\ files'[w] = files[w]
    BY <2>1, <2>2 DEF Shapes
  <2>4. p \in Seq(Name) \ {Root}
    BY PathFacts
  <2>5. Filed(entries'[w], directories'[w], files[w])
    <3>1. Filed(entries[w], directories[w], files[w])
      BY <2>2 DEF Orderly
    <3>2. \A d \in 1..Len(p) : SubSeq(p, 1, d) \notin files[w]
      BY <1>1 DEF Enterable
    <3> QED BY <2>3, <2>4, <3>1, <3>2, MkdirFiled
  <2>6. Within(entries'[w], spool[w])
    <3>1. Len(p) <= MaxDepth /\ Len(entries[w]) + Len(New(w, p)) <= MaxEntries
      BY <1>1 DEF Enterable, Accepts
    <3> QED BY <2>2, <2>3, <2>4, <3>1, MkdirWithin
  <2>7. Shallow(directories'[w]) /\ Recorded(entries'[w], directories'[w], spool[w], added'[w])
    <3>1. Len(p) <= MaxDepth
      BY <1>1 DEF Enterable
    <3>2. /\ Shallow(MadeDirectories(w, p))
          /\ Recorded(entries[w] \o New(w, p), MadeDirectories(w, p), spool[w],
                     Append(added[w], [path |-> p, file |-> FALSE, data |-> <<>>]))
      BY <2>2, <2>4, <3>1, MkdirRecorded
    <3> QED BY <2>3, <3>2
  <2>8. Orderly(w)'
    BY <2>2, <2>3, <2>5, <2>6, <2>7 DEF Orderly
  <2>9. /\ DOMAIN entries' = Writer /\ DOMAIN spool' = Writer /\ DOMAIN directories' = Writer
        /\ DOMAIN files' = Writer /\ DOMAIN added' = Writer
        /\ \A v \in Writer \ {w} : /\ entries'[v] = entries[v] /\ spool'[v] = spool[v]
                                   /\ directories'[v] = directories[v] /\ files'[v] = files[v]
                                   /\ added'[v] = added[v]
    BY <2>1, <2>2 DEF Shapes
  <2> QED BY <2>1, <2>8, <2>9, OneWriter
<1>2. CASE ~(Enterable(w, p) /\ Accepts(entries[w], New(w, p)))
  BY <1>2, AbortStep DEF Mkdir
<1> QED BY <1>1, <1>2

LEMMA WriteStreamAdds ==
  ASSUME NEW w \in Writer, Orderly(w), NEW p \in Seq(Name) \ {Root}, NEW c \in Content,
         p \notin DOMAIN directories[w], Enterable(w, Front(p)),
         Accepts(entries[w], Addable(w, p, c))
  PROVE  /\ Filed(entries[w] \o Addable(w, p, c), MadeDirectories(w, Front(p)), files[w] \cup {p})
         /\ Within(entries[w] \o Addable(w, p, c), spool[w] \o c)
         /\ Shallow(MadeDirectories(w, Front(p)))
         /\ Recorded(entries[w] \o Addable(w, p, c), MadeDirectories(w, Front(p)), spool[w] \o c,
                     Append(added[w], [path |-> p, file |-> TRUE, data |-> c]))
<1> DEFINE es == entries[w]
           new == New(w, Front(p))
           D2 == MadeDirectories(w, Front(p))
           e == NewFile(w, p, c)
<1>1. Filed(es, directories[w], files[w]) /\ Within(es, spool[w]) /\ SpoolOK(spool[w])
  BY DEF Orderly
<1>2. Front(p) \in Seq(Name) /\ Len(p) \in Nat \ {0} /\ Len(Front(p)) = Len(p) - 1 /\ Last(p) \in Name
  BY FrontFacts
<1>3. Len(Front(p)) <= MaxDepth /\ \A d \in 1..Len(Front(p)) : SubSeq(Front(p), 1, d) \notin files[w]
  BY DEF Enterable
<1>4. /\ Filed(es \o new, D2, files[w]) /\ Front(p) \in DOMAIN D2
      /\ \A q \in DOMAIN D2 : q \in DOMAIN directories[w] \/ Len(q) <= Len(Front(p))
  BY <1>1, <1>2, <1>3, MkdirFiled
<1>5. p \notin DOMAIN D2
  BY <1>2, <1>4
<1>6. PICK made \in 0..Len(Front(p)) : MkdirMakes(w, Front(p), made)
  BY <1>1, <1>2, MkdirFacts DEF Filed
<1>7. new \in Seq(Entry) /\ es \in Seq(Entry) /\ es \o new \in Seq(Entry)
      /\ Len(es \o new) = Len(es) + Len(new)
  <2>1. new \in Seq(Entry) /\ es \in Seq(Entry)
    BY <1>1, <1>6 DEF MkdirMakes, Filed, NamesTyped
  <2> HIDE DEF new, es
  <2> QED BY <2>1, Concat
<1>8. D2[Front(p)] \in 0..Len(es \o new)
  BY <1>4 DEF Filed, NamesTyped
<1>9. Len(spool[w]) \in Nat /\ spool[w] \in Seq(DOMAIN Hash) /\ c \in Seq(DOMAIN Hash) /\ Len(c) \in Nat
  BY <1>1, ContentType DEF SpoolOK
<1>10. e = [dir |-> FALSE, parent |-> D2[Front(p)], name |-> Last(p), depth |-> Len(p) - 1,
            spool |-> Len(spool[w]), size |-> Len(c), digest |-> Digest[c]]
  BY Zenon DEF NewFile
<1>11. e \in Entry
  BY <1>2, <1>7, <1>8, <1>9, <1>10 DEF Entry
<1>12. Addable(w, p, c) = Append(new, e)
  BY Zenon DEF Addable
<1>13. Len(es) + Len(new) + 1 <= MaxEntries /\ Len(new) + Len(es) \in Nat
  <2>1. Len(es) + Len(Append(new, e)) <= MaxEntries
    BY <1>12 DEF Accepts
  <2>2. Len(Append(new, e)) = Len(new) + 1
    BY <1>7, <1>11, AppendProperties
  <2>3. Len(new) \in Nat /\ Len(es) \in Nat
    BY <1>7
  <2> HIDE DEF new, es
  <2> QED BY <2>1, <2>2, <2>3, LimitTypes
<1>14. es \o Addable(w, p, c) = Append(es \o new, e)
  <2> HIDE DEF es, new, e
  <2> QED BY <1>7, <1>11, <1>12, AppendConcat
<1>15. Filed(Append(es \o new, e), D2, files[w] \cup {p})
  <2>1. ~e.dir /\ e.name = Last(p) /\ e.parent = D2[Front(p)]
    BY <1>10
  <2> HIDE DEF es, new, e, D2
  <2> QED BY <1>4, <1>5, <1>11, <2>1, FileFiled
<1>16. Within(Append(es \o new, e), spool[w] \o c)
  <2>1. Within(es \o new, spool[w])
    BY <1>2, <1>3, <1>13, MkdirWithin, LimitTypes, <1>7
  <2>2. /\ e.parent \in 0..Len(es \o new) /\ e.depth \in 0..MaxDepth
        /\ e.spool = Len(spool[w]) /\ e.size = Len(c)
    BY <1>2, <1>3, <1>8, <1>10, LimitTypes
  <2>3. Len(es \o new) + 1 <= MaxEntries
    BY <1>7, <1>13
  <2> HIDE DEF es, new, e, D2
  <2> QED BY <1>7, <1>9, <1>11, <2>1, <2>2, <2>3, FileWithin
<1> DEFINE item == [path |-> p, file |-> TRUE, data |-> c]
           items == added[w]
           s == spool[w]
<1>17. Shallow(directories[w]) /\ Recorded(es, directories[w], s, items)
  BY DEF Orderly
<1>18. PICK f : Matches(f, es, directories[w], s, items)
  BY <1>17 DEF Recorded
<1>19. /\ DOMAIN D2 \ {Root}
            = (DOMAIN directories[w] \ {Root}) \cup {SubSeq(Front(p), 1, d) : d \in 1..Len(Front(p))}
       /\ Shallow(D2) /\ Matches(f, es \o new, D2, s, items)
  BY <1>1, <1>2, <1>3, <1>17, <1>18, MkdirRecords
<1>20. item \in Given /\ items \in Seq(Given)
  BY <1>17 DEF Given, Recorded
<1>21. item.file /\ item.path = p /\ item.data = c
  OBVIOUS
<1>22. Store!Above(item) = {SubSeq(p, 1, d) : d \in 1..Len(p) - 1}
  BY <1>21 DEF Store!Above
<1>23. {SubSeq(Front(p), 1, d) : d \in 1..Len(Front(p))} = {SubSeq(p, 1, d) : d \in 1..Len(p) - 1}
  <2>1. ASSUME NEW d \in 1..Len(p) - 1 PROVE SubSeq(Front(p), 1, d) = SubSeq(p, 1, d)
    <3>1. d \in 0..Len(p) /\ d \in 0..Len(Front(p))
      BY <1>2
    <3>2. /\ SubSeq(p, 1, d) \in Seq(Name) /\ Len(SubSeq(p, 1, d)) = d
          /\ \A i \in 1..d : SubSeq(p, 1, d)[i] = p[i]
      BY <3>1, PrefixFacts
    <3>3. /\ SubSeq(Front(p), 1, d) \in Seq(Name) /\ Len(SubSeq(Front(p), 1, d)) = d
          /\ \A i \in 1..d : SubSeq(Front(p), 1, d)[i] = Front(p)[i]
      BY <1>2, <3>1, PrefixFacts
    <3>4. \A i \in 1..Len(p) - 1 : Front(p)[i] = p[i]
      BY FrontFacts
    <3>5. \A i \in 1..d : i \in 1..Len(p) - 1
      BY <1>2
    <3>6. \A i \in 1..d : SubSeq(Front(p), 1, d)[i] = SubSeq(p, 1, d)[i]
      BY <3>2, <3>3, <3>4, <3>5
    <3> QED BY <3>2, <3>3, <3>6, SeqEqual
  <2>2. 1..Len(Front(p)) = 1..Len(p) - 1
    BY <1>2
  <2> QED BY <2>1, <2>2
<1>24. Spooled(es \o new, s)
  <2>1. Within(es \o new, s)
    BY <1>2, <1>3, <1>7, <1>13, MkdirWithin, LimitTypes
  <2> QED BY <1>7, <1>9, <2>1 DEF Within, Spooled
<1>25. /\ ~e.dir /\ e.name = Last(p) /\ e.parent = D2[Front(p)]
       /\ e.spool = Len(s) /\ e.size = Len(c)
  BY <1>10
<1>26. UNION {Store!Above(items[k]) : k \in DOMAIN items} = DOMAIN directories[w] \ {Root}
  BY <1>17 DEF Recorded
<1> HIDE DEF es, new, e, D2, item, items, s
<1>27. \E g : Matches(g, Append(es \o new, e), D2, s \o c, Append(items, item))
  BY <1>4, <1>9, <1>11, <1>19, <1>20, <1>21, <1>24, <1>25, FileMatches
<1>28. /\ Append(items, item) \in Seq(Given)
       /\ UNION {Store!Above(Append(items, item)[k]) : k \in DOMAIN Append(items, item)}
                = (UNION {Store!Above(items[k]) : k \in DOMAIN items}) \cup Store!Above(item)
  BY <1>20, AppendItem
<1>29. Recorded(Append(es \o new, e), D2, s \o c, Append(items, item))
  BY <1>19, <1>22, <1>23, <1>26, <1>27, <1>28 DEF Recorded
<1> QED BY <1>14, <1>15, <1>16, <1>19, <1>29 DEF es, new, e, D2, item, items, s

LEMMA WriteStreamStep ==
  ASSUME WriterInv, NEW w \in Writer, NEW p \in Path[w], NEW c \in Content, NEW d \in Declared,
         WriteStream(w, p, c, d)
  PROVE  WriterInv'
<1> DEFINE OK == /\ p \notin DOMAIN directories[w]
                 /\ Enterable(w, Front(p))
                 /\ Accepts(entries[w], Addable(w, p, c))
                 /\ Fits(w, c, d)
<1>1. CASE OK
  <2>1. /\ entries' = [entries EXCEPT ![w] = @ \o Addable(w, p, c)]
        /\ spool' = [spool EXCEPT ![w] = @ \o c]
        /\ directories' = [directories EXCEPT ![w] = MadeDirectories(w, Front(p))]
        /\ files' = [files EXCEPT ![w] = @ \cup {p}]
        /\ added' = [added EXCEPT ![w] = Append(@, [path |-> p, file |-> TRUE, data |-> c])]
        /\ UNCHANGED <<phase, temporary, synced, destination, durable>>
        /\ phase[w] = "open"
    BY <1>1 DEF WriteStream
  <2>2. Shapes /\ Orderly(w)
    BY DEF WriterInv
  <2>3. /\ entries'[w] = entries[w] \o Addable(w, p, c) /\ spool'[w] = spool[w] \o c
        /\ directories'[w] = MadeDirectories(w, Front(p)) /\ files'[w] = files[w] \cup {p}
        /\ added'[w] = Append(added[w], [path |-> p, file |-> TRUE, data |-> c])
    BY <2>1, <2>2 DEF Shapes
  <2>4. p \in Seq(Name) \ {Root}
    BY PathFacts
  <2>5. /\ Filed(entries'[w], directories'[w], files'[w])
        /\ Within(entries'[w], spool'[w])
        /\ Shallow(directories'[w])
        /\ Recorded(entries'[w], directories'[w], spool'[w], added'[w])
    BY <1>1, <2>2, <2>3, <2>4, WriteStreamAdds
  <2>6. SpoolOK(spool'[w])
    <3>1. spool[w] \in Seq(DOMAIN Hash) /\ c \in Seq(DOMAIN Hash) /\ Len(spool[w]) + Len(c) <= MaxInput
      BY <1>1, <2>2, ContentType DEF Orderly, SpoolOK, Fits
    <3>2. PICK s \in Seq(DOMAIN Hash) : s = spool[w]
      BY <3>1
    <3> QED BY <2>3, <3>1, <3>2, Concat DEF SpoolOK
  <2>7. Orderly(w)'
    BY <2>5, <2>6 DEF Orderly
  <2>8. /\ DOMAIN entries' = Writer /\ DOMAIN spool' = Writer /\ DOMAIN directories' = Writer
        /\ DOMAIN files' = Writer /\ DOMAIN added' = Writer
        /\ \A v \in Writer \ {w} : /\ entries'[v] = entries[v] /\ spool'[v] = spool[v]
                                   /\ directories'[v] = directories[v] /\ files'[v] = files[v]
                                   /\ added'[v] = added[v]
    BY <2>1, <2>2 DEF Shapes
  <2> QED BY <2>1, <2>7, <2>8, OneWriter
<1>2. CASE ~OK
  BY <1>2, AbortStep DEF WriteStream
<1> QED BY <1>1, <1>2

LEMMA NextInv == ASSUME WriterInv, [Next]_vars PROVE WriterInv'
<1>1. ASSUME NEW w \in Writer, NEW p \in Path[w], Mkdir(w, p) PROVE WriterInv'
  BY <1>1, MkdirStep
<1>2. ASSUME NEW w \in Writer, NEW p \in Path[w], NEW c \in Content, NEW d \in Declared,
             WriteStream(w, p, c, d)
      PROVE  WriterInv'
  BY <1>2, WriteStreamStep
<1>3. ASSUME NEW w \in Writer, Close(w) PROVE WriterInv'
  BY <1>3, CloseStep
<1>4. ASSUME NEW w \in Writer, GiveUp(w) PROVE WriterInv'
  BY <1>4, AbortStep DEF GiveUp
<1>5. ASSUME NEW w \in Writer, Kill(w) PROVE WriterInv'
  BY <1>5, KillStep
<1>6. CASE PowerFailure
  BY <1>6, PowerFailureStep
<1>7. CASE UNCHANGED vars
  <2>1. \A w \in Writer : Orderly(w)'
    BY <1>7, Same DEF vars
  <2>3. \A w \in Writer : Finished(w)'
    BY <1>7 DEF vars, memory, WriterInv, Finished
  <2>2. Shapes'
    BY <1>7 DEF vars, memory, WriterInv, Shapes
  <2> QED BY <2>1, <2>2, <2>3 DEF WriterInv
<1> QED BY <1>1, <1>2, <1>3, <1>4, <1>5, <1>6, <1>7 DEF Next

LEMMA InvTypes == WriterInv => TypeOK
<1> SUFFICES ASSUME WriterInv PROVE TypeOK
  OBVIOUS
<1>1. ASSUME NEW w \in Writer
      PROVE  /\ \A i \in DOMAIN entries[w] :
                /\ entries[w][i].parent \in 0..i - 1
                /\ entries[w][i].depth \in 0..MaxDepth
                /\ entries[w][i].spool + entries[w][i].size <= Len(spool[w])
             /\ Len(entries[w]) <= MaxEntries
             /\ Len(spool[w]) <= MaxInput
             /\ \A p \in DOMAIN directories[w] : directories[w][p] \in 0..Len(entries[w])
  BY DEF WriterInv, Orderly, Within, SpoolOK, Filed, NamesTyped
<1> QED BY <1>1 DEF TypeOK, WriterInv, Shapes

LEMMA InvViews == WriterInv => ViewsAgree
<1> SUFFICES ASSUME WriterInv PROVE ViewsAgree
  OBVIOUS
<1>1. ASSUME NEW w \in Writer, NEW p \in Path[w]
      PROVE  LET held == {i \in DOMAIN entries[w] :
                            /\ entries[w][i].name = Last(p)
                            /\ Front(p) \in DOMAIN directories[w]
                            /\ entries[w][i].parent = directories[w][Front(p)]}
             IN  /\ \A i \in held : entries[w][i].dir =>
                    p \in DOMAIN directories[w] /\ directories[w][p] = i
                 /\ p \in DOMAIN directories[w] => directories[w][p] \in held
                 /\ p \in files[w] <=> \E i \in held : ~entries[w][i].dir
  <2> DEFINE es == entries[w]
             D == directories[w]
             F == files[w]
             held == {i \in DOMAIN es : /\ es[i].name = Last(p)
                                        /\ Front(p) \in DOMAIN D
                                        /\ es[i].parent = D[Front(p)]}
  <2>1. NamesTyped(es, D, F) /\ FoldersAgree(es, D) /\ FilesAgree(es, D, F)
    BY DEF WriterInv, Orderly, Filed
  <2>2. p \in Seq(Name) /\ p # Root
    BY PathFacts
  <2>3. \A i \in DOMAIN es : i \in held <=> Front(p) \in DOMAIN D /\ At(es, D, i, p)
    BY DEF At
  <2> HIDE DEF held, es, D, F
  <2>4. ASSUME NEW i \in DOMAIN es, i \in held, NEW q \in Seq(Name) \ {Root},
               Front(q) \in DOMAIN D, At(es, D, i, q)
        PROVE  q = p
    <3>1. D[Front(q)] = D[Front(p)] /\ Last(q) = Last(p) /\ Front(p) \in DOMAIN D
      BY <2>3, <2>4 DEF At
    <3>2. Front(q) = Front(p)
      BY <2>1, <2>4, <3>1 DEF FoldersAgree
    <3> QED BY <2>2, <3>1, <3>2, FrontLastEqual
  <2>5. held \subseteq DOMAIN es
    BY DEF held
  <2>6. ASSUME NEW i \in held, es[i].dir PROVE p \in DOMAIN D /\ D[p] = i
    <3>1. PICK q \in DOMAIN D \ {Root} : D[q] = i
      BY <2>1, <2>5, <2>6 DEF FoldersAgree
    <3>2. Front(q) \in DOMAIN D /\ At(es, D, i, q) /\ q \in Seq(Name)
      BY <2>1, <3>1 DEF FoldersAgree, NamesTyped
    <3> QED BY <2>4, <2>5, <3>1, <3>2
  <2>7. ASSUME p \in DOMAIN D PROVE D[p] \in held
    BY <2>1, <2>2, <2>3, <2>7 DEF FoldersAgree
  <2>8. ASSUME p \in F PROVE \E i \in held : ~es[i].dir
    BY <2>1, <2>3, <2>8 DEF FilesAgree
  <2>9. ASSUME NEW i \in held, ~es[i].dir PROVE p \in F
    <3>1. PICK q \in F : Front(q) \in DOMAIN D /\ At(es, D, i, q)
      BY <2>1, <2>5, <2>9 DEF FilesAgree
    <3> QED BY <2>1, <2>4, <2>5, <3>1 DEF NamesTyped
  <2>10. /\ \A i \in held : es[i].dir => p \in DOMAIN D /\ D[p] = i
         /\ p \in DOMAIN D => D[p] \in held
         /\ p \in F <=> \E i \in held : ~es[i].dir
    BY <2>6, <2>7, <2>8, <2>9
  <2> QED BY <2>10, Zenon DEF held, es, D, F
<1> QED BY <1>1, InvTypes, Zenon DEF ViewsAgree

\* The native writer and Python's dictionaries agree on every archive name: a
\* directory or a file is at a path of one exactly when it is in the other, under
\* the identifier recorded there, whatever was added before and however often a
\* writer failed, was aborted, killed or closed.
THEOREM NamesAgree == Spec => []ViewsAgree
<1>1. Init => WriterInv
  BY InitInv
<1>2. WriterInv /\ [Next]_vars => WriterInv'
  BY NextInv
<1>3. WriterInv => ViewsAgree
  BY InvViews
<1> QED BY <1>1, <1>2, <1>3, PTL DEF Spec


------------------------------------------------------------------------------
(***************************************************************************)
(* What is written is what was added, and the store the writers implement. *)
(***************************************************************************)

LEMMA FinishedReads ==
  ASSUME NEW w \in Writer, Orderly(w)
  PROVE  LET a == Assemble(entries[w], spool[w])
         IN  Acceptable(a) /\ CountsAgree(a) /\ Read(a) = Store!Tree(added[w])
<1>1. Spooled(entries[w], spool[w])
  BY OrderlySpooled
<1>2. /\ Filed(entries[w], directories[w], files[w]) /\ Shallow(directories[w])
      /\ Recorded(entries[w], directories[w], spool[w], added[w])
  BY DEF Orderly
<1>3. Acceptable(Assemble(entries[w], spool[w]))
  BY <1>1, <1>2, Accepted
<1>4. CountsAgree(Assemble(entries[w], spool[w]))
  BY <1>1, Agree
<1>5. Read(Assemble(entries[w], spool[w])) = Store!Tree(added[w])
  BY <1>1, <1>2, ReadBack
<1> QED BY <1>3, <1>4, <1>5

LEMMA InvRoundTrip == WriterInv => RoundTrip
<1> SUFFICES ASSUME WriterInv, NEW w \in Writer, phase[w] \in {"written", "synced"}
             PROVE  /\ Acceptable(temporary[w]) /\ CountsAgree(temporary[w])
                    /\ Read(temporary[w]) = Store!Tree(added[w])
  BY DEF RoundTrip
<1>1. temporary[w] = Assemble(entries[w], spool[w]) /\ Orderly(w)
  BY DEF WriterInv, Finished
<1> QED BY <1>1, FinishedReads

\* What close() has written reads back as exactly what was added to the writer:
\* every directory and every version of every file, newest first, with counts that
\* agree.  For any names, contents, block sizes and limits, and for digests and
\* chunk hashes that collide as they please.
THEOREM WrittenReadsBack == Spec => []RoundTrip
<1>1. Init => WriterInv
  BY InitInv
<1>2. WriterInv /\ [Next]_vars => WriterInv'
  BY NextInv
<1>3. WriterInv => RoundTrip
  BY InvRoundTrip
<1> QED BY <1>1, <1>2, <1>3, PTL DEF Spec

\* The drafts of the abstract store.
Draft == [w \in Writer |->
            [open |-> phase[w] \notin {"closed", "killed"}, items |-> added[w]]]

LEMMA AssembleIsWhole == \A es, s : Assemble(es, s) # Torn
<1> SUFFICES ASSUME NEW es, NEW s PROVE Assemble(es, s) # Torn
  OBVIOUS
<1>1. "rows" \in DOMAIN Assemble(es, s)
  BY DEF Assemble
<1>2. "rows" \notin DOMAIN Torn
  BY DEF Torn
<1> QED BY <1>1, <1>2

LEMMA InitStore == Init => Store!StoreInit
<1> SUFFICES ASSUME Init PROVE Store!StoreInit
  OBVIOUS
<1>1. Draft = [w \in Writer |-> Store!Fresh]
  BY DEF Init, Draft, Store!Fresh
<1> QED BY <1>1 DEF Init, Store!StoreInit, Draft

\* Giving up, in any way, discards the draft.
LEMMA DiscardStep ==
  ASSUME WriterInv, NEW w \in Writer, NEW then \in {"closed", "killed"}, Release(w, then),
         UNCHANGED <<destination, durable>>
  PROVE  Store!Discard(w)
<1>1. Draft' = [Draft EXCEPT ![w] = Store!Closed]
  BY DEF Release, WriterInv, Shapes, Draft, Store!Closed
<1> QED BY <1>1 DEF Store!Discard, Draft

\* One more item is one more item of the draft.
LEMMA AddStep ==
  ASSUME WriterInv, NEW w \in Writer, phase[w] = "open",
         NEW item \in [path : UNION {Path[v] : v \in Writer}, file : BOOLEAN,
                       data : Content \cup {<<>>}],
         item \in Given, added' = [added EXCEPT ![w] = Append(@, item)],
         UNCHANGED <<phase, destination, durable>>
  PROVE  Store!Add(w)
<1> DEFINE items == Append(added[w], item)
<1>1. added[w] \in Seq(Given) /\ DOMAIN added = Writer
  BY DEF WriterInv, Shapes, Orderly, Recorded
<1>2. items # <<>> /\ items[Len(items)] = item
  BY <1>1, AppendProperties
<1> HIDE DEF items
<1>3. added'[w] = items
  BY <1>1 DEF items
<1>4. Draft'[w].items = items /\ Draft[w].open
  BY <1>3 DEF Draft
<1>5. Draft' = [Draft EXCEPT ![w].items = Append(@, item)]
  <2>1. Draft' = [v \in Writer |-> [open |-> phase[v] \notin {"closed", "killed"},
                                    items |-> added'[v]]]
    BY DEF Draft
  <2>2. \A v \in Writer : added'[v] = IF v = w THEN Append(added[w], item) ELSE added[v]
    BY <1>1
  <2> QED BY <2>1, <2>2 DEF Draft
<1>6. /\ Draft[w].open /\ Draft'[w].items # <<>>
      /\ Draft'[w].items[Len(Draft'[w].items)] = item
  BY <1>2, <1>4
<1> QED BY <1>5, <1>6 DEF Store!Add, Draft

LEMMA CommitStep == ASSUME WriterInv, NEW w \in Writer, Replace(w) PROVE Store!Commit(w)
<1>1. /\ phase[w] = "synced" /\ destination' = temporary[w]
      /\ durable' = durable \cup {IF synced[w] THEN temporary[w] ELSE Torn}
      /\ Release(w, "closed")
  BY DEF Replace
<1>2. synced[w] /\ temporary[w] = Assemble(entries[w], spool[w]) /\ Orderly(w)
  BY <1>1 DEF WriterInv, Shapes, Finished
<1>3. Contents(temporary[w]) = Store!Tree(added[w])
  <2>1. Acceptable(temporary[w]) /\ Read(temporary[w]) = Store!Tree(added[w])
    BY <1>2, FinishedReads
  <2>2. temporary[w] # Torn
    BY <1>2, AssembleIsWhole
  <2> QED BY <2>1, <2>2 DEF Contents
<1>4. Draft' = [Draft EXCEPT ![w] = Store!Closed] /\ Draft[w].open /\ Draft[w].items = added[w]
  BY <1>1 DEF Release, WriterInv, Shapes, Draft, Store!Closed
<1>5. Contents(destination') = Store!Tree(Draft[w].items)
  BY <1>1, <1>3, <1>4
<1>6. durable' = durable \cup {destination'}
  BY <1>1, <1>2
<1> QED BY <1>4, <1>5, <1>6 DEF Store!Commit, Draft

LEMMA PowerFailsStep == ASSUME WriterInv, PowerFailure PROVE Store!PowerFails
<1>1. Draft' = [w \in Writer |-> Store!Closed]
  BY DEF PowerFailure, Draft, Store!Closed
<1> QED BY <1>1 DEF PowerFailure, Store!PowerFails, Draft

LEMMA NextStore == ASSUME WriterInv, [Next]_vars PROVE [Store!StoreNext]_Store!storeVars
<1> DEFINE Same1 == UNCHANGED <<destination, durable, Draft>>
<1>1. ASSUME NEW w \in Writer, Abort(w) PROVE Store!Discard(w)
  BY <1>1, DiscardStep DEF Abort
<1>2. ASSUME NEW w \in Writer, NEW p \in Path[w], Mkdir(w, p) PROVE Store!Add(w) \/ Store!Discard(w)
  <2> DEFINE item == [path |-> p, file |-> FALSE, data |-> <<>>]
  <2>1. p \in UNION {Path[v] : v \in Writer} /\ p \in Seq(Name) \ {Root}
    BY PathFacts
  <2>2. item \in Given
        /\ item \in [path : UNION {Path[v] : v \in Writer}, file : BOOLEAN, data : Content \cup {<<>>}]
    BY <2>1 DEF Given
  <2>3. CASE Enterable(w, p) /\ Accepts(entries[w], New(w, p))
    <3>1. /\ phase[w] = "open" /\ added' = [added EXCEPT ![w] = Append(@, item)]
          /\ UNCHANGED <<phase, destination, durable>>
      BY <1>2, <2>3 DEF Mkdir
    <3> HIDE DEF item
    <3> QED BY <2>2, <3>1, AddStep
  <2>4. CASE ~(Enterable(w, p) /\ Accepts(entries[w], New(w, p)))
    BY <1>1, <1>2, <2>4 DEF Mkdir
  <2> QED BY <2>3, <2>4
<1>3. ASSUME NEW w \in Writer, NEW p \in Path[w], NEW c \in Content, NEW d \in Declared,
             WriteStream(w, p, c, d)
      PROVE  Store!Add(w) \/ Store!Discard(w)
  <2> DEFINE item == [path |-> p, file |-> TRUE, data |-> c]
             OK == /\ p \notin DOMAIN directories[w]
                   /\ Enterable(w, Front(p))
                   /\ Accepts(entries[w], Addable(w, p, c))
                   /\ Fits(w, c, d)
  <2>1. p \in UNION {Path[v] : v \in Writer} /\ p \in Seq(Name) \ {Root}
    BY PathFacts
  <2>2. item \in Given
        /\ item \in [path : UNION {Path[v] : v \in Writer}, file : BOOLEAN, data : Content \cup {<<>>}]
    BY <2>1 DEF Given
  <2>3. CASE OK
    <3>1. /\ phase[w] = "open" /\ added' = [added EXCEPT ![w] = Append(@, item)]
          /\ UNCHANGED <<phase, destination, durable>>
      BY <1>3, <2>3 DEF WriteStream
    <3> HIDE DEF item
    <3> QED BY <2>2, <3>1, AddStep
  <2>4. CASE ~OK
    BY <1>1, <1>3, <2>4 DEF WriteStream
  <2> QED BY <2>3, <2>4
<1>4. ASSUME NEW w \in Writer, Close(w) PROVE Store!Commit(w) \/ Same1
  <2>1. CASE MakeTemporary(w)
    BY <2>1 DEF MakeTemporary, Draft, WriterInv, Shapes
  <2>2. CASE Finish(w)
    BY <2>2 DEF Finish, Draft, WriterInv, Shapes
  <2>3. CASE Sync(w)
    BY <2>3 DEF Sync, Draft, WriterInv, Shapes
  <2>4. CASE Replace(w)
    BY <2>4, CommitStep
  <2> QED BY <1>4, <2>1, <2>2, <2>3, <2>4 DEF Close
<1>5. ASSUME NEW w \in Writer, Kill(w) PROVE Store!Discard(w)
  BY <1>5, DiscardStep DEF Kill
<1>6. ASSUME PowerFailure PROVE Store!PowerFails
  BY <1>6, PowerFailsStep
<1>7. ASSUME UNCHANGED vars PROVE Same1
  BY <1>7 DEF vars, Draft
<1>8. \/ \E w \in Writer : Store!Add(w) \/ Store!Commit(w) \/ Store!Discard(w)
      \/ Store!PowerFails
      \/ Same1
  <2> HIDE DEF Same1
  <2> QED BY <1>1, <1>2, <1>3, <1>4, <1>5, <1>6, <1>7 DEF Next, GiveUp
<1> QED BY <1>8 DEF Store!StoreNext, Store!storeVars, Draft

\* The writers of a destination implement the store its callers are promised: the
\* path changes only when a close() returns, in one step, to exactly what that
\* writer was given, whatever the others do, whoever is killed, and but for a
\* power failure, which leaves one of the earlier whole archives.
THEOREM WriterImplements == Spec => ImplementsStore
<1>1. Init => WriterInv /\ Store!StoreInit
  BY InitInv, InitStore
<1>2. WriterInv /\ [Next]_vars => WriterInv' /\ [Store!StoreNext]_Store!storeVars
  BY NextInv, NextStore
<1> QED BY <1>1, <1>2, PTL DEF Spec, ImplementsStore, Store!StoreSpec
==============================================================================
