------------------------------ MODULE NatFacts ------------------------------
(* Facts about numbers and finite sets that the proofs about several         *)
(* components use.  Those about finite sets are the library's, in the form   *)
(* the proofs cite them in.                                                  *)
EXTENDS Integers, FiniteSets, FiniteSetTheorems, TLAPS

(* The order of the natural numbers is well founded.                         *)
LEMMA LessThan ==
  \E R : IsWellFoundedOn(R, Nat) /\ \A m, n \in Nat : m < n => <<m, n>> \in R
<1> DEFINE R == OpToRel(<, Nat)
<1>1. ASSUME NEW m \in Nat, NEW n \in Nat, m < n PROVE <<m, n>> \in R
  <2>1. <<m, n>> \in Nat \X Nat /\ <<m, n>>[1] < <<m, n>>[2]
    BY <1>1
  <2> QED BY <2>1, Zenon DEF OpToRel
<1>2. IsWellFoundedOn(R, Nat)
  BY NatLessThanWellFounded
<1> WITNESS R
<1> QED BY <1>1, <1>2, Zenon

(* A set of natural numbers has a least element: what the proofs use in the  *)
(* place of induction.                                                       *)
LEMMA LeastElement ==
  ASSUME NEW T \in SUBSET Nat, T # {}
  PROVE  \E n \in T : \A m \in T : n <= m
<1>1. PICK R : IsWellFoundedOn(R, Nat) /\ \A m, n \in Nat : m < n => <<m, n>> \in R
  BY LessThan
<1>2. T \subseteq Nat
  OBVIOUS
<1>3. PICK n \in T : \A m \in T : ~(<<m, n>> \in R)
  <2>1. IsWellFoundedOn(R, Nat)
    BY <1>1
  <2>2. \A S, U : IsWellFoundedOn(R, S) /\ U \subseteq S /\ U # {}
                  => \E x \in U : \A y \in U : ~(<<y, x>> \in R)
    BY WFMin, Zenon
  <2>3. \E x \in T : \A y \in T : ~(<<y, x>> \in R)
    BY <2>1, <2>2, <1>2, Zenon
  <2> QED BY <2>3, Zenon
<1>4. \A m \in T : ~(m < n)
  BY <1>1, <1>2, <1>3, Zenon
<1> QED BY <1>2, <1>4

(* Facts about remainders.                                                   *)
LEMMA ModBasic ==
  ASSUME NEW M \in Nat \ {0}, NEW a \in Int
  PROVE  a % M \in 0 .. M - 1 /\ a \div M \in Int /\ a = M * (a \div M) + (a % M)
OBVIOUS

LEMMA ModUnique ==
  ASSUME NEW M \in Nat \ {0}, NEW z \in Int, NEW r \in 0 .. M - 1
  PROVE  (M * z + r) % M = r
OBVIOUS

LEMMA ModShift ==
  ASSUME NEW M \in Nat \ {0}, NEW a \in Int, NEW z \in Int
  PROVE  (a + M * z) % M = a % M
<1>1. a % M \in 0 .. M - 1 /\ a \div M \in Int /\ a = M * (a \div M) + (a % M)
  BY ModBasic
<1>2. a + M * z = M * ((a \div M) + z) + (a % M)
  BY <1>1
<1> DEFINE y == (a \div M) + z
           r == a % M
<1>3. y \in Int /\ r \in 0 .. M - 1 /\ a + M * z = M * y + r
  BY <1>1, <1>2
<1> HIDE DEF y, r
<1>4. (M * y + r) % M = r
  BY <1>3, ModUnique
<1> QED BY <1>3, <1>4 DEF r

LEMMA ModAdd ==
  ASSUME NEW M \in Nat \ {0}, NEW a \in Int, NEW d \in 0 .. M - 1
  PROVE  (a + d) % M = IF (a % M) + d < M THEN (a % M) + d ELSE (a % M) + d - M
<1> DEFINE b == a % M
           z == a \div M
<1>1. b \in 0 .. M - 1 /\ z \in Int /\ a = M * z + b
  BY ModBasic
<1> HIDE DEF b, z
<1>2. CASE b + d < M
  <2>1. a + d = M * z + (b + d) /\ b + d \in 0 .. M - 1
    BY <1>1, <1>2
  <2>2. (M * z + (b + d)) % M = b + d
    BY <1>1, <2>1, ModUnique
  <2> QED BY <1>2, <2>1, <2>2 DEF b
<1>3. CASE ~(b + d < M)
  <2> DEFINE y == z + 1
             r == b + d - M
  <2>1. a + d = M * y + r /\ r \in 0 .. M - 1 /\ y \in Int
    BY <1>1, <1>3
  <2> HIDE DEF y, r
  <2>2. (M * y + r) % M = r
    BY <2>1, ModUnique
  <2> QED BY <1>3, <2>1, <2>2 DEF b, r
<1> QED BY <1>2, <1>3

LEMMA ModDistinct ==
  ASSUME NEW M \in Nat \ {0}, NEW a \in Int, NEW d \in 1 .. M - 1
  PROVE  (a + d) % M # a % M
<1> DEFINE b == a % M
<1>1. b \in 0 .. M - 1 /\ d \in 0 .. M - 1
  BY ModBasic
<1>2. (a + d) % M = IF b + d < M THEN b + d ELSE b + d - M
  BY <1>1, ModAdd
<1> HIDE DEF b
<1>3. (a + d) % M # b
  BY <1>1, <1>2
<1> QED BY <1>3 DEF b

(* Adding before or after taking a remainder, stepping and subtracting.      *)
LEMMA ModInner ==
  ASSUME NEW M \in Nat \ {0}, NEW a \in Int, NEW d \in Int
  PROVE  ((a % M) + d) % M = (a + d) % M
<1> DEFINE z == a \div M
           b == a % M
<1>1. b \in 0 .. M - 1 /\ z \in Int /\ a = M * z + b
  BY ModBasic
<1> HIDE DEF b, z
<1>2. a + d = (b + d) + M * z /\ b + d \in Int
  BY <1>1
<1>3. ((b + d) + M * z) % M = (b + d) % M
  <2> DEFINE e == b + d
  <2>1. e \in Int
    BY <1>2
  <2> HIDE DEF e
  <2>2. (e + M * z) % M = e % M
    BY <2>1, <1>1, ModShift
  <2> QED BY <2>2 DEF e
<1> QED BY <1>2, <1>3 DEF b

LEMMA ModSmall == ASSUME NEW M \in Nat \ {0}, NEW a \in 0 .. M - 1 PROVE a % M = a
OBVIOUS

LEMMA ModStep ==
  ASSUME NEW M \in Nat \ {0}, NEW a \in 0 .. M - 1
  PROVE  (a + 1) % M = IF a + 1 = M THEN 0 ELSE a + 1
<1>1. CASE a + 1 = M
  BY <1>1
<1>2. CASE a + 1 # M
  BY <1>2
<1> QED BY <1>1, <1>2

LEMMA ModDiff ==
  ASSUME NEW M \in Nat \ {0}, NEW a \in 0 .. M - 1, NEW b \in 0 .. M - 1
  PROVE  (a - b) % M = IF b <= a THEN a - b ELSE a - b + M
<1>1. CASE b <= a
  BY <1>1, ModSmall
<1>2. CASE ~(b <= a)
  <2>1. a - b + M \in 0 .. M - 1 /\ a - b \in Int
    BY <1>2
  <2>2. PICK e \in Int, z \in Int : e = a - b /\ z = 1
    OBVIOUS
  <2>3. (e + M * z) % M = e % M
    BY ModShift
  <2>4. M * z = M
    BY <2>2
  <2>5. (a - b + M) % M = a - b + M
    <3> DEFINE g == a - b + M
    <3>1. g \in 0 .. M - 1
      BY <2>1
    <3> HIDE DEF g
    <3>2. g % M = g
      BY <3>1, ModSmall
    <3> QED BY <3>2 DEF g
  <2> QED BY <1>2, <2>2, <2>3, <2>4, <2>5
<1> QED BY <1>1, <1>2

-----------------------------------------------------------------------------
(* Facts about finite sets.                                                  *)
LEMMA FinType == ASSUME NEW S, IsFiniteSet(S) PROVE Cardinality(S) \in Nat
BY FS_CardinalityType

LEMMA FinEmpty ==
  /\ IsFiniteSet({}) /\ Cardinality({}) = 0
  /\ \A S : IsFiniteSet(S) => (Cardinality(S) = 0 <=> S = {})
BY FS_EmptySet

LEMMA FinSingle == \A x : IsFiniteSet({x}) /\ Cardinality({x}) = 1
BY FS_Singleton

LEMMA FinAdd ==
  ASSUME NEW S, NEW x, IsFiniteSet(S)
  PROVE  /\ IsFiniteSet(S \cup {x})
         /\ Cardinality(S \cup {x}) = IF x \in S THEN Cardinality(S) ELSE Cardinality(S) + 1
BY FS_AddElement

LEMMA FinRemove ==
  ASSUME NEW S, NEW x, IsFiniteSet(S)
  PROVE  /\ IsFiniteSet(S \ {x})
         /\ Cardinality(S \ {x}) = IF x \in S THEN Cardinality(S) - 1 ELSE Cardinality(S)
BY FS_RemoveElement

LEMMA FinSubset ==
  ASSUME NEW S, IsFiniteSet(S), NEW T \in SUBSET S
  PROVE  /\ IsFiniteSet(T) /\ Cardinality(T) <= Cardinality(S)
         /\ Cardinality(S) = Cardinality(T) => S = T
BY FS_Subset

LEMMA FinInterval ==
  ASSUME NEW a \in Int, NEW b \in Int
  PROVE  IsFiniteSet(a .. b) /\ Cardinality(a .. b) = IF a > b THEN 0 ELSE b - a + 1
BY FS_Interval

LEMMA FinUnion ==
  ASSUME NEW S, NEW T, IsFiniteSet(S), IsFiniteSet(T)
  PROVE  /\ IsFiniteSet(S \cup T)
         /\ Cardinality(S \cup T) = Cardinality(S) + Cardinality(T) - Cardinality(S \cap T)
BY FS_Union

(* An injection into a finite set, which is onto when the sizes agree.       *)
LEMMA FinInjection ==
  ASSUME NEW S, NEW T, NEW f \in [S -> T], \A x, y \in S : f[x] = f[y] => x = y, IsFiniteSet(T)
  PROVE  /\ IsFiniteSet(S) /\ Cardinality(S) <= Cardinality(T)
         /\ Cardinality(S) = Cardinality(T) => \A y \in T : \E x \in S : f[x] = y
<1>1. f \in Injection(S, T)
  BY DEF Injection, IsInjective
<1> QED BY <1>1, FS_Injection DEF Surjection
=============================================================================
