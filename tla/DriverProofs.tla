--------------------------- MODULE DriverProofs ---------------------------
(* The virtqueue as the calls of the driver see it: rings, chains of         *)
(* descriptors and who owns them, the invariant DiskInv that keeps the queue *)
(* whole, and that every step of a thread inside the driver preserves it.    *)
EXTENDS Disk, NatFacts, TLAPS

(* The condition: one user of the device, and no system call of the driver   *)
(* that runs with interrupts on.                                             *)
OneUser == \A c \in Confs : /\ c.users # {"ext4", "devfs"}
                            /\ c.arch = "riscv" => "devfs" \notin c.users

-----------------------------------------------------------------------------
(* A ring: k entries of buf from position b on.                              *)
Entries(buf, b, k) == {buf[(b + j) % queue_size] : j \in 0 .. k - 1}
Distinct(buf, b, k) == \A i, j \in 0 .. k - 1 :
                         buf[(b + i) % queue_size] = buf[(b + j) % queue_size] => i = j

LEMMA Sizes ==
  /\ queue_size \in Nat \ {0} /\ IDX \in Nat \ {0} /\ queue_size <= IDX
  /\ \E m \in Nat : IDX = queue_size * m
  /\ D = 0 .. queue_size - 1
<1>1. queue_size \in Nat \ {0} /\ IDX \in Nat \ {0} /\ IDX % queue_size = 0
  BY DiskAssumption
<1>2. PICK m \in Int : IDX = queue_size * m
  <2>1. IDX \div queue_size \in Int /\ IDX = queue_size * (IDX \div queue_size) + (IDX % queue_size)
    BY <1>1, ModBasic
  <2> DEFINE z == IDX \div queue_size
  <2>2. z \in Int /\ IDX = queue_size * z + 0
    BY <2>1, <1>1
  <2> HIDE DEF z
  <2> QED BY <2>2, <1>1
<1>3. m \in Nat /\ m # 0
  BY <1>1, <1>2
<1>4. queue_size <= IDX
  BY <1>1, <1>2, <1>3
<1> QED BY <1>1, <1>2, <1>3, <1>4 DEF D

(* Different positions of a ring are different entries of the array.         *)
LEMMA Positions ==
  ASSUME NEW b \in Int, NEW i \in 0 .. queue_size - 1, NEW j \in 0 .. queue_size - 1
  PROVE  /\ (b + i) % queue_size \in D
         /\ (b + i) % queue_size = (b + j) % queue_size => i = j
<1>0. queue_size \in Nat \ {0} /\ D = 0 .. queue_size - 1
  BY Sizes
<1>1. \A x \in Int : x % queue_size \in D
  BY <1>0
<1>2. ASSUME NEW x \in 0 .. queue_size - 1, NEW y \in 0 .. queue_size - 1, x < y
      PROVE  (b + x) % queue_size # (b + y) % queue_size
  <2>1. PICK a \in Int, d \in 1 .. queue_size - 1 : a = b + x /\ a + d = b + y
    <3>1. b + x \in Int /\ y - x \in 1 .. queue_size - 1 /\ (b + x) + (y - x) = b + y
      BY <1>0, <1>2
    <3> QED BY <3>1
  <2>2. (a + d) % queue_size # a % queue_size
    BY <1>0, ModDistinct, Zenon
  <2> QED BY <2>1, <2>2
<1>3. i < j \/ j < i \/ i = j
  BY <1>0
<1>4. (b + i) % queue_size \in D
  <2>1. PICK e \in Int : e = b + i
    BY <1>0
  <2> QED BY <2>1, <1>1
<1>5. ASSUME i < j PROVE (b + i) % queue_size # (b + j) % queue_size
  BY <1>2, <1>5
<1>6. ASSUME j < i PROVE (b + j) % queue_size # (b + i) % queue_size
  BY <1>2, <1>6
<1> QED BY <1>3, <1>4, <1>5, <1>6

Pushed(buf, b, k, x, bu2) ==
  /\ buf \in [D -> D] /\ b \in Int /\ k \in 0 .. queue_size - 1 /\ x \in D
  /\ Distinct(buf, b, k) /\ x \notin Entries(buf, b, k)
  /\ bu2 = [buf EXCEPT ![(b + k) % queue_size] = x]

LEMMA RingPush ==
  ASSUME NEW buf, NEW b, NEW k, NEW x, NEW bu2, Pushed(buf, b, k, x, bu2)
  PROVE  /\ bu2 \in [D -> D]
         /\ Entries(bu2, b, k + 1) = Entries(buf, b, k) \cup {x}
         /\ Distinct(bu2, b, k + 1)
<1> USE DEF Pushed
<1> DEFINE P(j) == (b + j) % queue_size
<1>0. queue_size \in Nat \ {0} /\ k \in Nat
  BY Sizes
<1>1. \A i, j \in 0 .. k : P(i) \in D /\ (P(i) = P(j) => i = j)
  <2>1. ASSUME NEW i \in 0 .. k, NEW j \in 0 .. k PROVE P(i) \in D /\ (P(i) = P(j) => i = j)
    <3>1. i \in 0 .. queue_size - 1 /\ j \in 0 .. queue_size - 1
      BY <1>0
    <3> QED BY <3>1, Positions, Zenon
  <2> QED BY <2>1, Zenon
<1>2. /\ Entries(buf, b, k) = {buf[P(j)] : j \in 0 .. k - 1}
      /\ Entries(bu2, b, k + 1) = {bu2[P(j)] : j \in 0 .. k}
      /\ Distinct(buf, b, k) <=> \A i, j \in 0 .. k - 1 : buf[P(i)] = buf[P(j)] => i = j
      /\ Distinct(bu2, b, k + 1) <=> \A i, j \in 0 .. k : bu2[P(i)] = bu2[P(j)] => i = j
  <2>1. k + 1 - 1 = k
    BY <1>0
  <2> QED BY <2>1 DEF Entries, Distinct
<1>3. bu2 = [buf EXCEPT ![P(k)] = x] /\ k \in 0 .. k
  BY <1>0
<1> HIDE DEF P
<1>4. bu2[P(k)] = x /\ \A j \in 0 .. k - 1 : bu2[P(j)] = buf[P(j)]
  <2>1. P(k) \in D /\ \A j \in 0 .. k - 1 : P(j) \in D /\ P(j) # P(k)
    BY <1>0, <1>1
  <2> QED BY <2>1, <1>3
<1>5. \A j \in 0 .. k : j \in 0 .. k - 1 \/ j = k
  BY <1>0
<1>6. \A j \in 0 .. k - 1 : buf[P(j)] # x
  BY <1>2
<1>7. Entries(bu2, b, k + 1) = Entries(buf, b, k) \cup {x}
  <2>1. \A y : y \in Entries(bu2, b, k + 1) <=> \E j \in 0 .. k : y = bu2[P(j)]
    BY <1>2, Zenon
  <2>2. \A y : y \in Entries(buf, b, k) <=> \E j \in 0 .. k - 1 : y = buf[P(j)]
    BY <1>2
  <2>3. ASSUME NEW y PROVE y \in Entries(bu2, b, k + 1) <=> y \in Entries(buf, b, k) \/ y = x
    <3>1. 0 .. k - 1 \subseteq 0 .. k
      BY <1>0
    <3>2. ASSUME y \in Entries(bu2, b, k + 1) PROVE y \in Entries(buf, b, k) \/ y = x
      <4>1. PICK j \in 0 .. k : y = bu2[P(j)]
        BY <3>2, <2>1, Zenon
      <4>2. CASE j \in 0 .. k - 1
        BY <4>1, <4>2, <2>2, <1>4
      <4>3. CASE j = k
        BY <4>1, <4>3, <1>4
      <4> QED BY <4>2, <4>3, <1>5
    <3>3. ASSUME y \in Entries(buf, b, k) PROVE y \in Entries(bu2, b, k + 1)
      <4>1. PICK j \in 0 .. k - 1 : y = buf[P(j)]
        BY <3>3, <2>2
      <4>2. j \in 0 .. k /\ y = bu2[P(j)]
        BY <4>1, <3>1, <1>4
      <4> QED BY <4>2, <2>1, Zenon
    <3>4. x \in Entries(bu2, b, k + 1)
      BY <2>1, <1>3, <1>4, Zenon
    <3> QED BY <3>2, <3>3, <3>4
  <2> QED BY <2>3, Zenon
<1>8. Distinct(bu2, b, k + 1)
  BY <1>2, <1>4, <1>5, <1>6
<1>9. bu2 \in [D -> D]
  BY Zenon
<1> QED BY <1>7, <1>8, <1>9, Zenon

Popped(buf, b, k, x, bu2) ==
  /\ buf \in [D -> D] /\ b \in Int /\ k \in 1 .. queue_size /\ Distinct(buf, b, k)
  /\ x = buf[b % queue_size] /\ bu2 = [buf EXCEPT ![b % queue_size] = 0]

LEMMA RingPop ==
  ASSUME NEW buf, NEW b, NEW k, NEW x, NEW bu2, Popped(buf, b, k, x, bu2)
  PROVE  /\ bu2 \in [D -> D] /\ x \in D
         /\ x \in Entries(buf, b, k)
         /\ Entries(bu2, b + 1, k - 1) = Entries(buf, b, k) \ {x}
         /\ Distinct(bu2, b + 1, k - 1)
<1> USE DEF Popped
<1> DEFINE P(j) == (b + j) % queue_size
<1>0. queue_size \in Nat \ {0} /\ k \in Nat /\ D = 0 .. queue_size - 1
  BY Sizes
<1>1. \A i, j \in 0 .. k - 1 : P(i) \in D /\ (P(i) = P(j) => i = j)
  <2>1. ASSUME NEW i \in 0 .. k - 1, NEW j \in 0 .. k - 1
        PROVE  P(i) \in D /\ (P(i) = P(j) => i = j)
    <3>1. i \in 0 .. queue_size - 1 /\ j \in 0 .. queue_size - 1
      BY <1>0
    <3> QED BY <3>1, Positions, Zenon
  <2> QED BY <2>1
<1>2. /\ \A y : y \in Entries(buf, b, k) <=> \E j \in 0 .. k - 1 : y = buf[P(j)]
      /\ \A i, j \in 0 .. k - 1 : buf[P(i)] = buf[P(j)] => i = j
  BY DEF Entries, Distinct
<1>3. \A j \in 0 .. k - 2 : (b + 1 + j) % queue_size = P(j + 1) /\ j + 1 \in 0 .. k - 1
  <2>1. ASSUME NEW j \in 0 .. k - 2 PROVE b + 1 + j = b + (j + 1) /\ j + 1 \in 0 .. k - 1
    BY <1>0
  <2> QED BY <2>1
<1>4. k - 1 - 1 = k - 2
  BY <1>0
<1>5. \A y : y \in Entries(bu2, b + 1, k - 1) <=> \E j \in 0 .. k - 2 : y = bu2[P(j + 1)]
  <2>1. \A y : y \in Entries(bu2, b + 1, k - 1)
               <=> \E j \in 0 .. k - 2 : y = bu2[(b + 1 + j) % queue_size]
    BY <1>4 DEF Entries
  <2> HIDE DEF P
  <2> QED BY <2>1, <1>3, Zenon
<1>6. P(0) = b % queue_size /\ 0 \in 0 .. k - 1 /\ 0 \in D
  BY <1>0
<1>7. Distinct(bu2, b + 1, k - 1) <=> \A i, j \in 0 .. k - 2 : bu2[P(i + 1)] = bu2[P(j + 1)] => i = j
  <2>1. Distinct(bu2, b + 1, k - 1)
          <=> \A i, j \in 0 .. k - 2 :
                bu2[(b + 1 + i) % queue_size] = bu2[(b + 1 + j) % queue_size] => i = j
    BY <1>4 DEF Distinct
  <2> HIDE DEF P
  <2> QED BY <2>1, <1>3, Zenon
<1> HIDE DEF P
<1>8. \A j \in 0 .. k - 2 : bu2[P(j + 1)] = buf[P(j + 1)] /\ j + 1 # 0
  <2>1. \A j \in 0 .. k - 2 : j + 1 # 0 /\ j + 1 \in 0 .. k - 1
    BY <1>0
  <2>2. \A j \in 0 .. k - 2 : P(j + 1) \in D /\ P(j + 1) # P(0)
    BY <2>1, <1>1, <1>6
  <2> QED BY <2>1, <2>2, <1>6
<1>9. x = buf[P(0)] /\ x \in D /\ x \in Entries(buf, b, k)
  BY <1>1, <1>2, <1>6
<1>10. ASSUME NEW y PROVE y \in Entries(bu2, b + 1, k - 1) <=> y \in Entries(buf, b, k) \ {x}
  <2>1. ASSUME y \in Entries(bu2, b + 1, k - 1) PROVE y \in Entries(buf, b, k) /\ y # x
    <3>1. PICK j \in 0 .. k - 2 : y = bu2[P(j + 1)]
      BY <2>1, <1>5, Zenon
    <3>2. PICK i \in 0 .. k - 1 : i = j + 1 /\ y = buf[P(i)] /\ i # 0
      BY <3>1, <1>3, <1>8
    <3> QED BY <3>2, <1>2, <1>6, <1>9
  <2>2. ASSUME y \in Entries(buf, b, k), y # x PROVE y \in Entries(bu2, b + 1, k - 1)
    <3>1. PICK i \in 0 .. k - 1 : y = buf[P(i)]
      BY <2>2, <1>2
    <3>2. i # 0
      BY <3>1, <2>2, <1>9
    <3>3. PICK j \in 0 .. k - 2 : i = j + 1
      <4>1. i - 1 \in 0 .. k - 2 /\ i = (i - 1) + 1
        BY <3>2, <1>0
      <4> QED BY <4>1
    <3> QED BY <3>1, <3>3, <1>5, <1>8, Zenon
  <2> QED BY <2>1, <2>2
<1>11. Distinct(bu2, b + 1, k - 1)
  <2>1. ASSUME NEW i \in 0 .. k - 2, NEW j \in 0 .. k - 2, bu2[P(i + 1)] = bu2[P(j + 1)]
        PROVE  i = j
    <3>1. i + 1 \in 0 .. k - 1 /\ j + 1 \in 0 .. k - 1 /\ buf[P(i + 1)] = buf[P(j + 1)]
      BY <2>1, <1>3, <1>8
    <3>2. i + 1 = j + 1
      BY <3>1, <1>2
    <3> QED BY <3>2, <1>0
  <2> QED BY <2>1, <1>7
<1>12. bu2 \in [D -> D]
  BY <1>6, Zenon
<1> QED BY <1>9, <1>10, <1>11, <1>12, Zenon

(* Where a ring starts counts only modulo its size, and distinct entries in  *)
(* a finite set are no more than it has.                                     *)
LEMMA RingBase ==
  ASSUME NEW buf, NEW b \in Int, NEW c \in Int, NEW k \in Int, b % queue_size = c % queue_size
  PROVE  /\ Entries(buf, b, k) = Entries(buf, c, k)
         /\ Distinct(buf, b, k) <=> Distinct(buf, c, k)
<1>1. \A j \in 0 .. k - 1 : (b + j) % queue_size = (c + j) % queue_size
  <2>1. ASSUME NEW j \in Int PROVE (b + j) % queue_size = (c + j) % queue_size
    <3>1. queue_size \in Nat \ {0}
      BY Sizes
    <3>2. ((b % queue_size) + j) % queue_size = (b + j) % queue_size
      BY <3>1, ModInner, Zenon
    <3>3. ((c % queue_size) + j) % queue_size = (c + j) % queue_size
      BY <3>1, ModInner, Zenon
    <3> QED BY <3>2, <3>3
  <2> QED BY <2>1
<1>2. Entries(buf, b, k) = Entries(buf, c, k)
  BY <1>1, Zenon DEF Entries
<1>3. Distinct(buf, b, k) <=> Distinct(buf, c, k)
  BY <1>1, Zenon DEF Distinct
<1> QED BY <1>2, <1>3

LEMMA RingBound ==
  ASSUME NEW buf, NEW b \in Int, NEW k \in Nat, Distinct(buf, b, k),
         NEW X, IsFiniteSet(X), Entries(buf, b, k) \subseteq X
  PROVE  k <= Cardinality(X)
<1> DEFINE f == [j \in 0 .. k - 1 |-> buf[(b + j) % queue_size]]
<1>1. f \in [0 .. k - 1 -> X] /\ \A i, j \in 0 .. k - 1 : f[i] = f[j] => i = j
  <2>1. f \in [0 .. k - 1 -> X]
    BY Zenon DEF Entries
  <2>2. \A i, j \in 0 .. k - 1 : f[i] = f[j] => i = j
    BY DEF Distinct
  <2> QED BY <2>1, <2>2
<1> HIDE DEF f
<1>2. Cardinality(0 .. k - 1) <= Cardinality(X)
  BY <1>1, FinInjection
<1>3. Cardinality(0 .. k - 1) = k
  <2>1. PICK e \in Int : e = k - 1
    OBVIOUS
  <2>2. Cardinality(0 .. e) = IF 0 > e THEN 0 ELSE e - 0 + 1
    BY FinInterval
  <2> QED BY <2>1, <2>2
<1> QED BY <1>2, <1>3

-----------------------------------------------------------------------------
(* S is the set of the descriptors of the free chain that starts at f: they  *)
(* can be numbered along the links dn, and the last one points past the      *)
(* table.                                                                    *)
Numbers(F, n, dn, f, S) ==
  /\ n \in Nat /\ F \in [1 .. n + 1 -> 0 .. queue_size]
  /\ F[1] = f /\ F[n + 1] = queue_size
  /\ \A i \in 1 .. n : F[i] \in D /\ dn[F[i]] = F[i + 1]
  /\ \A i, j \in 1 .. n : F[i] = F[j] => i = j
  /\ S = {F[i] : i \in 1 .. n}
FreeSet(dn, f, S) == \E n, F : Numbers(F, n, dn, f, S)

(* Such a set is what the walk along dnext finds.                            *)
LEMMA WalkFinds ==
  ASSUME NEW S, FreeSet(dnext, free_desc, S)
  PROVE  FreeChain \ {queue_size} = S
<1> DEFINE Body(c) == [n \in 0 .. queue_size |->
                         IF n = 0 THEN free_desc
                         ELSE IF c[n - 1] \in D THEN dnext[c[n - 1]] ELSE queue_size]
           c == CHOOSE g : g = Body(g)
<1>1. FreeChain = {c[n] : n \in 0 .. queue_size}
  BY DEF FreeChain
<1>2. PICK n, F : Numbers(F, n, dnext, free_desc, S)
  BY DEF FreeSet
<1>3. queue_size \in Nat \ {0} /\ D = 0 .. queue_size - 1 /\ n \in Nat
  BY <1>2, Sizes DEF Numbers
<1>4. n <= queue_size
  <2> DEFINE f == [i \in 1 .. n |-> F[i]]
  <2>1. f \in [1 .. n -> D] /\ \A i, j \in 1 .. n : f[i] = f[j] => i = j
    BY <1>2 DEF Numbers
  <2> HIDE DEF f
  <2>2. PICK e \in Int : e = queue_size - 1
    BY <1>3
  <2>3. IsFiniteSet(0 .. e) /\ Cardinality(0 .. e) = e + 1
    BY <1>3, <2>2, FinInterval
  <2>4. IsFiniteSet(D) /\ Cardinality(D) = queue_size
    BY <1>3, <2>2, <2>3
  <2>5. Cardinality(1 .. n) <= Cardinality(D)
    BY <2>1, <2>4, FinInjection, Zenon
  <2>6. Cardinality(1 .. n) = n
    BY <1>3, FinInterval
  <2> QED BY <2>4, <2>5, <2>6
<1> DEFINE g == [m \in 0 .. queue_size |-> IF m < n THEN F[m + 1] ELSE queue_size]
<1>5. \A m \in 1 .. n : F[m] \in D /\ dnext[F[m]] = F[m + 1]
  BY <1>2 DEF Numbers
<1>6. F[1] = free_desc /\ F[n + 1] = queue_size /\ S = {F[m] : m \in 1 .. n}
  BY <1>2 DEF Numbers
<1>7. g = Body(g)
  <2>1. ASSUME NEW m \in 0 .. queue_size PROVE g[m] = Body(g)[m]
    <3>0. m \in Nat
      BY <1>3
    <3>1. CASE m = 0
      <4>1. CASE n = 0
        BY <4>1, <3>1, <1>3, <1>6
      <4>2. CASE n # 0
        BY <4>2, <3>1, <1>3, <1>6
      <4> QED BY <4>1, <4>2
    <3>2. CASE m # 0 /\ m - 1 < n
      <4>1. PICK j \in 0 .. queue_size : j = m - 1 /\ m = j + 1 /\ j < n /\ m \in 1 .. n
        <5>1. m - 1 \in 0 .. queue_size /\ m = (m - 1) + 1 /\ m \in 1 .. n
          BY <3>0, <3>2, <1>3
        <5> QED BY <5>1, <3>2
      <4>2. g[m - 1] = F[m]
        BY <4>1
      <4>3. Body(g)[m] = F[m + 1]
        BY <4>1, <4>2, <3>2, <1>5
      <4>4. CASE m < n
        BY <4>3, <4>4
      <4>5. CASE ~(m < n)
        <5>1. m = n
          BY <4>1, <4>5, <1>3
        <5> QED BY <5>1, <4>3, <1>3, <1>6
      <4> QED BY <4>4, <4>5
    <3>3. CASE m # 0 /\ ~(m - 1 < n)
      <4>1. m - 1 \in 0 .. queue_size /\ ~(m < n) /\ queue_size \notin D
        BY <3>0, <3>3, <1>3
      <4>2. g[m - 1] = queue_size
        BY <4>1, <3>3
      <4> QED BY <4>1, <4>2, <3>3
    <3> QED BY <3>1, <3>2, <3>3
  <2> HIDE DEF g
  <2>2. Body(g) = [m \in 0 .. queue_size |-> Body(g)[m]]
    OBVIOUS
  <2>3. g = [m \in 0 .. queue_size |-> g[m]]
    BY DEF g
  <2> HIDE DEF Body
  <2> QED BY <2>1, <2>2, <2>3
<1> HIDE DEF g
<1>8. c = Body(c)
  <2> HIDE DEF Body
  <2> QED BY <1>7
<1> HIDE DEF c
<1>9. \A m \in 0 .. queue_size : c[m] = g[m]
  <2> DEFINE T == {m \in 0 .. queue_size : c[m] # g[m]}
  <2> SUFFICES ASSUME T # {} PROVE FALSE
    OBVIOUS
  <2>1. PICK m \in T : \A j \in T : m <= j
    <3>1. T \in SUBSET Nat
      BY <1>3
    <3> HIDE DEF T
    <3> QED BY <3>1, LeastElement
  <2>2. m \in 0 .. queue_size /\ c[m] # g[m]
    OBVIOUS
  <2>3. CASE m = 0
    BY <2>2, <2>3, <1>7, <1>8
  <2>4. CASE m # 0
    <3>1. PICK j \in 0 .. queue_size : j = m - 1 /\ j < m
      BY <2>2, <2>4, <1>3
    <3>2. c[j] = g[j]
      BY <3>1, <2>1, <1>3
    <3>3. c[m] = Body(c)[m] /\ g[m] = Body(g)[m]
      <4> HIDE DEF Body
      <4> QED BY <1>7, <1>8
    <3>4. Body(c)[m] = Body(g)[m]
      BY <3>1, <3>2, <2>2, <2>4
    <3> QED BY <3>3, <3>4, <2>2
  <2> QED BY <2>3, <2>4
<1>10. ASSUME NEW x PROVE x \in FreeChain /\ x # queue_size <=> x \in S
  <2>1. x \in FreeChain <=> \E m \in 0 .. queue_size : x = g[m]
    BY <1>1, <1>9
  <2>2. ASSUME x \in FreeChain, x # queue_size PROVE x \in S
    <3>1. PICK m \in 0 .. queue_size : x = g[m]
      BY <2>1, <2>2
    <3>2. m < n /\ x = F[m + 1]
      BY <3>1, <2>2 DEF g
    <3>3. m + 1 \in 1 .. n
      BY <3>2, <1>3
    <3> QED BY <3>2, <3>3, <1>6
  <2>3. ASSUME x \in S PROVE x \in FreeChain /\ x # queue_size
    <3>1. PICK i \in 1 .. n : x = F[i]
      BY <2>3, <1>6
    <3>2. PICK m \in 0 .. queue_size : i = m + 1 /\ m < n
      <4>1. i - 1 \in 0 .. queue_size /\ i = (i - 1) + 1 /\ i - 1 < n
        BY <1>3, <1>4
      <4> QED BY <4>1
    <3>3. x = g[m]
      BY <3>1, <3>2 DEF g
    <3>4. queue_size \notin D
      BY <1>3
    <3> QED BY <3>1, <3>3, <3>4, <2>1, <1>5, Zenon
  <2> QED BY <2>2, <2>3
<1> QED BY <1>10

(* Taking the first descriptor, putting one in front, and changing links     *)
(* elsewhere.                                                                *)
LEMMA ChainPop ==
  ASSUME NEW dn \in [D -> 0 .. queue_size], NEW f, NEW S, FreeSet(dn, f, S), f # queue_size
  PROVE  f \in S /\ f \in D /\ FreeSet(dn, dn[f], S \ {f})
<1>1. PICK n, F : Numbers(F, n, dn, f, S)
  BY DEF FreeSet
<1>2. n \in Nat /\ F \in [1 .. n + 1 -> 0 .. queue_size] /\ F[1] = f /\ F[n + 1] = queue_size
  BY <1>1 DEF Numbers
<1>3. /\ \A i \in 1 .. n : F[i] \in D /\ dn[F[i]] = F[i + 1]
      /\ \A i, j \in 1 .. n : F[i] = F[j] => i = j
      /\ S = {F[i] : i \in 1 .. n}
  BY <1>1 DEF Numbers
<1>4. n # 0 /\ 1 \in 1 .. n
  BY <1>2
<1>5. PICK m \in Nat : n = m + 1
  <2>1. n - 1 \in Nat /\ n = (n - 1) + 1
    BY <1>2, <1>4
  <2> QED BY <2>1
<1> DEFINE G == [i \in 1 .. m + 1 |-> F[i + 1]]
<1>6. \A i \in 1 .. m + 1 : i + 1 \in 1 .. n + 1
  BY <1>2, <1>5
<1>7. G \in [1 .. m + 1 -> 0 .. queue_size]
  BY <1>2, <1>6
<1>8. G[1] = dn[f] /\ G[m + 1] = queue_size
  <2>1. 1 \in 1 .. m + 1 /\ m + 1 \in 1 .. m + 1
    OBVIOUS
  <2>2. G[1] = F[1 + 1] /\ G[m + 1] = F[n + 1]
    BY <2>1, <1>5
  <2> QED BY <2>2, <1>2, <1>3, <1>4
<1>9. \A i \in 1 .. m : i + 1 \in 1 .. n /\ i \in 1 .. m + 1 /\ i + 1 \in 1 .. m + 1 /\ G[i] = F[i + 1] /\ G[i + 1] = F[i + 1 + 1]
  BY <1>2, <1>5
<1> HIDE DEF G
<1>10. \A i \in 1 .. m : G[i] \in D /\ dn[G[i]] = G[i + 1]
  BY <1>3, <1>9
<1>11. \A i, j \in 1 .. m : G[i] = G[j] => i = j
  <2>1. ASSUME NEW i \in 1 .. m, NEW j \in 1 .. m, G[i] = G[j] PROVE i = j
    <3>1. i + 1 = j + 1
      BY <2>1, <1>3, <1>9
    <3> QED BY <3>1, <1>5
  <2> QED BY <2>1
<1>12. ASSUME NEW x PROVE x \in S /\ x # f <=> \E i \in 1 .. m : x = G[i]
  <2>1. ASSUME x \in S, x # f PROVE \E i \in 1 .. m : x = G[i]
    <3>1. PICK k \in 1 .. n : x = F[k]
      BY <2>1, <1>3
    <3>2. k # 1
      BY <3>1, <2>1, <1>2
    <3>3. PICK i \in 1 .. m : k = i + 1
      <4>1. k - 1 \in 1 .. m /\ k = (k - 1) + 1
        BY <3>2, <1>2, <1>5
      <4> QED BY <4>1
    <3> QED BY <3>1, <3>3, <1>9
  <2>2. ASSUME NEW i \in 1 .. m, x = G[i] PROVE x \in S /\ x # f
    <3>1. PICK k \in 1 .. n : k = i + 1 /\ x = F[k] /\ k # 1
      BY <2>2, <1>9
    <3> QED BY <3>1, <1>2, <1>3, <1>4
  <2> QED BY <2>1, <2>2
<1>13. Numbers(G, m, dn, dn[f], S \ {f})
  <2>1. S \ {f} = {G[i] : i \in 1 .. m}
    BY <1>12
  <2> QED BY <2>1, <1>7, <1>8, <1>10, <1>11 DEF Numbers
<1> QED BY <1>2, <1>3, <1>4, <1>13, Zenon DEF FreeSet

LEMMA ChainPush ==
  ASSUME NEW dn \in [D -> 0 .. queue_size], NEW f, NEW S, FreeSet(dn, f, S), NEW x \in D, x \notin S,
         NEW d2, d2 = [dn EXCEPT ![x] = f]
  PROVE  d2 \in [D -> 0 .. queue_size] /\ FreeSet(d2, x, S \cup {x})
<1>1. PICK n, F : Numbers(F, n, dn, f, S)
  BY DEF FreeSet
<1>2. n \in Nat /\ F \in [1 .. n + 1 -> 0 .. queue_size] /\ F[1] = f /\ F[n + 1] = queue_size
  BY <1>1 DEF Numbers
<1>3. /\ \A i \in 1 .. n : F[i] \in D /\ dn[F[i]] = F[i + 1]
      /\ \A i, j \in 1 .. n : F[i] = F[j] => i = j
      /\ S = {F[i] : i \in 1 .. n}
  BY <1>1 DEF Numbers
<1>0. queue_size \in Nat \ {0} /\ D = 0 .. queue_size - 1 /\ x \in 0 .. queue_size
  BY Sizes
<1>4. d2 \in [D -> 0 .. queue_size]
  <2>1. f \in 0 .. queue_size
    BY <1>2
  <2> QED BY <2>1
<1> DEFINE m == n + 1
           G == [i \in 1 .. m + 1 |-> IF i = 1 THEN x ELSE F[i - 1]]
<1>5. m \in Nat /\ \A i \in 2 .. m + 1 : i - 1 \in 1 .. n + 1
  BY <1>2
<1>6. G \in [1 .. m + 1 -> 0 .. queue_size]
  <2>1. ASSUME NEW i \in 1 .. m + 1 PROVE (IF i = 1 THEN x ELSE F[i - 1]) \in 0 .. queue_size
    <3>1. CASE i = 1
      BY <3>1, <1>0
    <3>2. CASE i # 1
      <4>1. i \in 2 .. m + 1
        BY <3>2, <1>5
      <4> QED BY <4>1, <3>2, <1>2, <1>5
    <3> QED BY <3>1, <3>2
  <2> QED BY <2>1
<1>7. G[1] = x /\ \A j \in 1 .. n + 1 : j + 1 \in 1 .. m + 1 /\ G[j + 1] = F[j]
  <2>1. \A j \in 1 .. n + 1 : j + 1 \in 1 .. m + 1 /\ j + 1 # 1 /\ (j + 1) - 1 = j
    BY <1>2
  <2>2. 1 \in 1 .. m + 1
    BY <1>2
  <2> QED BY <2>1, <2>2
<1> HIDE DEF G
<1>8. \A i \in 1 .. m : i = 1 \/ \E j \in 1 .. n : i = j + 1
  <2>1. ASSUME NEW i \in 1 .. m, i # 1 PROVE i - 1 \in 1 .. n /\ i = (i - 1) + 1
    BY <2>1, <1>2
  <2> QED BY <2>1
<1>9. \A j \in 1 .. n : j \in 1 .. n + 1 /\ j + 1 \in 1 .. n + 1 /\ j + 1 \in 1 .. m /\ F[j] # x
  <2>1. \A j \in 1 .. n : j \in 1 .. n + 1 /\ j + 1 \in 1 .. n + 1 /\ j + 1 \in 1 .. m
    BY <1>2
  <2> QED BY <2>1, <1>3
<1>10. G[m + 1] = queue_size
  BY <1>2, <1>7
<1>11. \A i \in 1 .. m : G[i] \in D /\ d2[G[i]] = G[i + 1]
  <2>1. G[1] \in D /\ d2[G[1]] = G[1 + 1]
    <3>1. d2[x] = f
      OBVIOUS
    <3>2. 1 \in 1 .. n + 1
      BY <1>2
    <3> QED BY <3>1, <3>2, <1>2, <1>7
  <2>2. ASSUME NEW j \in 1 .. n PROVE G[j + 1] \in D /\ d2[G[j + 1]] = G[j + 1 + 1]
    <3>1. G[j + 1] = F[j] /\ G[j + 1 + 1] = F[j + 1]
      BY <1>7, <1>9
    <3>2. d2[F[j]] = dn[F[j]]
      BY <1>3, <1>9
    <3> QED BY <3>1, <3>2, <1>3
  <2> QED BY <2>1, <2>2, <1>8
<1>12. \A i, j \in 1 .. m : G[i] = G[j] => i = j
  <2>1. \A j \in 1 .. n : G[j + 1] # G[1]
    BY <1>7, <1>9
  <2>2. \A i, j \in 1 .. n : G[i + 1] = G[j + 1] => i = j
    BY <1>3, <1>7, <1>9
  <2> QED BY <2>1, <2>2, <1>8
<1>13. ASSUME NEW y PROVE y \in S \cup {x} <=> \E i \in 1 .. m : y = G[i]
  <2>1. ASSUME y \in S PROVE \E i \in 1 .. m : y = G[i]
    <3>1. PICK j \in 1 .. n : y = F[j]
      BY <2>1, <1>3
    <3>2. j + 1 \in 1 .. m /\ y = G[j + 1]
      BY <3>1, <1>7, <1>9
    <3> QED BY <3>2
  <2>2. x = G[1] /\ 1 \in 1 .. m
    BY <1>2, <1>7
  <2>3. ASSUME NEW i \in 1 .. m, y = G[i] PROVE y \in S \cup {x}
    <3>1. CASE i = 1
      BY <3>1, <2>3, <1>7
    <3>2. CASE i # 1
      <4>1. PICK j \in 1 .. n : i = j + 1
        BY <3>2, <1>8
      <4> QED BY <4>1, <2>3, <1>3, <1>7, <1>9
    <3> QED BY <3>1, <3>2
  <2> QED BY <2>1, <2>2, <2>3
<1>14. Numbers(G, m, d2, x, S \cup {x})
  <2>1. S \cup {x} = {G[i] : i \in 1 .. m}
    BY <1>13
  <2> HIDE DEF m
  <2> QED BY <2>1, <1>5, <1>6, <1>7, <1>10, <1>11, <1>12 DEF Numbers
<1> QED BY <1>4, <1>14 DEF FreeSet

LEMMA ChainFrame ==
  ASSUME NEW dn, NEW d2, NEW f, NEW S, FreeSet(dn, f, S), \A x \in S : d2[x] = dn[x]
  PROVE  FreeSet(d2, f, S)
<1>1. PICK n, F : Numbers(F, n, dn, f, S)
  BY DEF FreeSet
<1>2. Numbers(F, n, d2, f, S)
  BY <1>1 DEF Numbers
<1> QED BY <1>2 DEF FreeSet

-----------------------------------------------------------------------------
(* The owners of the descriptors, S free, T taken by a thread and I the heads *)
(* of the chains in flight, linked by dn.                                    *)
Parts(dn, h) == {h, dn[h], dn[dn[h]]}
Whole(dn, h) ==
  /\ h \in D /\ dn[h] \in D /\ dn[dn[h]] \in D
  /\ h # dn[h] /\ h # dn[dn[h]] /\ dn[h] # dn[dn[h]]

Owned(dn, S, T, I) ==
  /\ S \subseteq D /\ T \subseteq D /\ I \subseteq D
  /\ \A h \in I : Whole(dn, h) /\ Parts(dn, h) \cap S = {} /\ Parts(dn, h) \cap T = {}
  /\ \A g, h \in I : g # h => Parts(dn, g) \cap Parts(dn, h) = {}
  /\ S \cap T = {}
  /\ Cardinality(S) + Cardinality(T) + 3 * Cardinality(I) = queue_size

LEMMA FiniteD == \A X \in SUBSET D : IsFiniteSet(X) /\ Cardinality(X) \in Nat
<1>1. PICK e \in Int : D = 0 .. e
  BY Sizes
<1>2. IsFiniteSet(0 .. e)
  BY FinInterval
<1>3. ASSUME NEW X \in SUBSET D PROVE IsFiniteSet(X)
  BY <1>1, <1>2, FinSubset, Zenon
<1> QED BY <1>3, FinType

LEMMA Triple ==
  ASSUME NEW a, NEW b, NEW c, a # b, a # c, b # c
  PROVE  Cardinality({a, b, c}) = 3 /\ IsFiniteSet({a, b, c})
<1>1. IsFiniteSet({a}) /\ Cardinality({a}) = 1
  BY FinSingle, Zenon
<1>2. IsFiniteSet({a} \cup {b}) /\ Cardinality({a} \cup {b}) = 2
  BY <1>1, FinAdd
<1> DEFINE X == {a} \cup {b}
<1>3. IsFiniteSet(X) /\ Cardinality(X) = 2 /\ c \notin X /\ {a, b, c} = X \cup {c}
  BY <1>2
<1> HIDE DEF X
<1>4. IsFiniteSet(X \cup {c}) /\ Cardinality(X \cup {c}) = 2 + 1
  BY <1>3, FinAdd
<1> QED BY <1>3, <1>4

LEMMA OwnTake ==
  ASSUME NEW dn, NEW S, NEW T, NEW I, Owned(dn, S, T, I), NEW f \in S
  PROVE  Owned(dn, S \ {f}, T \cup {f}, I)
<1>1. /\ IsFiniteSet(S) /\ IsFiniteSet(T) /\ IsFiniteSet(I)
      /\ Cardinality(S) \in Nat /\ Cardinality(T) \in Nat /\ Cardinality(I) \in Nat
  BY FiniteD DEF Owned
<1>2. f \notin T
  BY DEF Owned
<1>3. Cardinality(S \ {f}) = Cardinality(S) - 1
  BY <1>1, FinRemove, Zenon
<1>4. Cardinality(T \cup {f}) = Cardinality(T) + 1
  BY <1>1, <1>2, FinAdd, Zenon
<1>5. Cardinality(S) + Cardinality(T) + 3 * Cardinality(I) = queue_size
  BY DEF Owned
<1>6. Cardinality(S \ {f}) + Cardinality(T \cup {f}) + 3 * Cardinality(I) = queue_size
  BY <1>1, <1>3, <1>4, <1>5
<1>7. \A h \in I : Whole(dn, h) /\ Parts(dn, h) \cap (S \ {f}) = {} /\ Parts(dn, h) \cap (T \cup {f}) = {}
  BY DEF Owned
<1>8. /\ S \ {f} \subseteq D /\ T \cup {f} \subseteq D /\ I \subseteq D
      /\ \A g, h \in I : g # h => Parts(dn, g) \cap Parts(dn, h) = {}
      /\ (S \ {f}) \cap (T \cup {f}) = {}
  BY DEF Owned
<1> QED BY <1>6, <1>7, <1>8 DEF Owned

Linked(dn, S, I, a, b, c, d2) ==
  /\ dn \in [D -> 0 .. queue_size] /\ a \in D /\ b \in D /\ c \in D /\ a # b /\ a # c /\ b # c
  /\ Owned(dn, S, {a, b, c}, I)
  /\ d2 = [dn EXCEPT ![a] = b, ![b] = c, ![c] = 0]

LEMMA OwnSend ==
  ASSUME NEW dn, NEW S, NEW I, NEW a, NEW b, NEW c, NEW d2, Linked(dn, S, I, a, b, c, d2)
  PROVE  /\ d2 \in [D -> 0 .. queue_size]
         /\ Owned(d2, S, {}, I \cup {a})
         /\ a \notin I /\ Parts(d2, a) = {a, b, c} /\ d2[a] = b /\ d2[b] = c
         /\ \A h \in I : d2[h] = dn[h] /\ d2[dn[h]] = dn[dn[h]] /\ Parts(d2, h) = Parts(dn, h)
         /\ \A x \in S : d2[x] = dn[x]
<1> DEFINE T == {a, b, c}
<1>0. queue_size \in Nat \ {0} /\ D = 0 .. queue_size - 1 /\ D \subseteq 0 .. queue_size /\ 0 \in 0 .. queue_size
  BY Sizes
<1> USE DEF Linked
<1>1. /\ IsFiniteSet(S) /\ IsFiniteSet(I)
      /\ Cardinality(S) \in Nat /\ Cardinality(I) \in Nat
  BY FiniteD DEF Owned
<1>2. d2 \in [D -> 0 .. queue_size] /\ d2[a] = b /\ d2[b] = c /\ \A x \in D \ T : d2[x] = dn[x]
  BY <1>0
<1>3. \A h \in I : h \in D \ T /\ dn[h] \in D \ T /\ dn[dn[h]] \in D \ T
  BY Zenon DEF Owned, Whole, Parts
<1>4. \A h \in I : d2[h] = dn[h] /\ d2[dn[h]] = dn[dn[h]]
  BY <1>2, <1>3
<1>5. \A h \in I : Parts(d2, h) = Parts(dn, h)
  BY <1>4, Zenon DEF Parts
<1>6. a \notin I
  BY <1>3
<1>7. Parts(d2, a) = T
  BY <1>2 DEF Parts
<1>8. \A h \in I : Whole(d2, h)
  BY <1>4 DEF Owned, Whole
<1>9. Whole(d2, a)
  BY <1>2 DEF Whole
<1>10. \A h \in I : Parts(dn, h) \cap T = {} /\ Parts(dn, h) \cap S = {}
  BY DEF Owned
<1>11. S \cap T = {} /\ S \subseteq D /\ I \subseteq D
  BY DEF Owned
<1>12. \A g, h \in I : g # h => Parts(dn, g) \cap Parts(dn, h) = {}
  BY DEF Owned
<1>13. Cardinality(I \cup {a}) = Cardinality(I) + 1
  BY <1>1, <1>6, FinAdd, Zenon
<1>14. Cardinality(T) = 3
  BY Triple, Zenon
<1>15. Cardinality(S) + Cardinality({}) + 3 * Cardinality(I \cup {a}) = queue_size
  <2>1. Cardinality(S) + Cardinality(T) + 3 * Cardinality(I) = queue_size
    BY DEF Owned
  <2>2. Cardinality({}) = 0
    BY FinEmpty
  <2> HIDE DEF T
  <2> QED BY <2>1, <2>2, <1>1, <1>13, <1>14
<1> HIDE DEF T
<1>16. \A h \in I \cup {a} : Whole(d2, h) /\ Parts(d2, h) \cap S = {} /\ Parts(d2, h) \cap {} = {}
  <2>1. \A h \in I : Whole(d2, h) /\ Parts(d2, h) \cap S = {}
    BY <1>5, <1>8, <1>10, Zenon
  <2>2. Whole(d2, a) /\ Parts(d2, a) \cap S = {}
    BY <1>7, <1>9, <1>11, Zenon
  <2> QED BY <2>1, <2>2, Zenon
<1>17. \A g, h \in I \cup {a} : g # h => Parts(d2, g) \cap Parts(d2, h) = {}
  <2>1. \A g, h \in I : g # h => Parts(d2, g) \cap Parts(d2, h) = {}
    BY <1>5, <1>12, Zenon
  <2>2. \A h \in I : Parts(d2, h) \cap Parts(d2, a) = {}
    BY <1>5, <1>7, <1>10, Zenon
  <2>3. \A h \in I : Parts(d2, a) \cap Parts(d2, h) = {}
    BY <2>2, Zenon
  <2> QED BY <2>1, <2>2, <2>3, Zenon
<1>18. Owned(d2, S, {}, I \cup {a})
  BY <1>11, <1>15, <1>16, <1>17, Zenon DEF Owned
<1>19. \A x \in S : d2[x] = dn[x]
  BY <1>2, <1>11
<1> QED BY <1>2, <1>4, <1>5, <1>6, <1>7, <1>18, <1>19, Zenon DEF T

Unlinked(dn, f, S, T, I, h, x, y, d2) ==
  /\ dn \in [D -> 0 .. queue_size] /\ Owned(dn, S, T, I) /\ FreeSet(dn, f, S)
  /\ h \in I /\ x = dn[h] /\ y = dn[x]
  /\ d2 = [dn EXCEPT ![h] = f, ![x] = h, ![y] = x]

LEMMA OwnFree ==
  ASSUME NEW dn, NEW f, NEW S, NEW T, NEW I, NEW h, NEW x, NEW y, NEW d2,
         Unlinked(dn, f, S, T, I, h, x, y, d2)
  PROVE  /\ d2 \in [D -> 0 .. queue_size] /\ x \in D /\ y \in D
         /\ FreeSet(d2, y, S \cup {h, x, y})
         /\ Owned(d2, S \cup {h, x, y}, T, I \ {h})
         /\ \A g \in I \ {h} : /\ d2[g] = dn[g] /\ d2[dn[g]] = dn[dn[g]]
                               /\ Parts(d2, g) = Parts(dn, g)
                               /\ Parts(dn, g) \cap {h, x, y} = {}
<1> USE DEF Unlinked
<1>1. /\ IsFiniteSet(S) /\ IsFiniteSet(T) /\ IsFiniteSet(I)
      /\ Cardinality(S) \in Nat /\ Cardinality(T) \in Nat /\ Cardinality(I) \in Nat
  BY FiniteD DEF Owned
<1>2. h \in D /\ x \in D /\ y \in D /\ h # x /\ h # y /\ x # y
  BY DEF Owned, Whole
<1>3. h \notin S /\ x \notin S /\ y \notin S /\ h \notin T /\ x \notin T /\ y \notin T
  BY DEF Owned, Parts
<1>4. \A g \in I \ {h} : Parts(dn, g) \cap {h, x, y} = {}
  BY DEF Owned, Parts
<1> DEFINE e1 == [dn EXCEPT ![h] = f]
           e2 == [e1 EXCEPT ![x] = h]
           e3 == [e2 EXCEPT ![y] = x]
           S1 == S \cup {h}
           S2 == S1 \cup {x}
           S3 == S2 \cup {y}
<1>5. x \notin S1 /\ y \notin S2 /\ S3 = S \cup {h, x, y}
  BY <1>2, <1>3
<1>6. d2 = e3
  BY <1>2
<1>7. e1 \in [D -> 0 .. queue_size] /\ FreeSet(e1, h, S1)
  BY <1>2, <1>3, ChainPush, Zenon
<1>8. e2 \in [D -> 0 .. queue_size] /\ FreeSet(e2, x, S2)
  <2> HIDE DEF e1, S1
  <2> QED BY <1>2, <1>5, <1>7, ChainPush, Zenon
<1>9. e3 \in [D -> 0 .. queue_size] /\ FreeSet(e3, y, S3)
  <2> HIDE DEF e2, S2
  <2> QED BY <1>2, <1>5, <1>8, ChainPush, Zenon
<1>10. IsFiniteSet(S1) /\ Cardinality(S1) = Cardinality(S) + 1
  BY <1>1, <1>3, FinAdd
<1>11. IsFiniteSet(S2) /\ Cardinality(S2) = Cardinality(S) + 1 + 1
  <2> HIDE DEF S1
  <2> QED BY <1>1, <1>5, <1>10, FinAdd, Zenon
<1>12. IsFiniteSet(S3) /\ Cardinality(S3) = Cardinality(S) + 1 + 1 + 1
  <2> HIDE DEF S2
  <2> QED BY <1>1, <1>5, <1>11, FinAdd, Zenon
<1>13. Cardinality(I \ {h}) = Cardinality(I) - 1
  BY <1>1, FinRemove, Zenon
<1>14. Cardinality(S3) + Cardinality(T) + 3 * Cardinality(I \ {h}) = queue_size
  <2>1. Cardinality(S) + Cardinality(T) + 3 * Cardinality(I) = queue_size
    BY DEF Owned
  <2> HIDE DEF S3
  <2> QED BY <2>1, <1>1, <1>12, <1>13
<1>15. \A z \in D : z \notin {h, x, y} => d2[z] = dn[z]
  BY <1>2
<1>16. ASSUME NEW g \in I \ {h}
       PROVE  /\ d2[g] = dn[g] /\ d2[dn[g]] = dn[dn[g]]
              /\ Parts(d2, g) = Parts(dn, g) /\ Whole(d2, g)
  <2>1. Whole(dn, g) /\ Parts(dn, g) \cap {h, x, y} = {}
    BY <1>4 DEF Owned
  <2>2. d2[g] = dn[g] /\ d2[dn[g]] = dn[dn[g]]
    BY <2>1, <1>15, Zenon DEF Whole, Parts
  <2> QED BY <2>1, <2>2 DEF Whole, Parts
<1>17. S3 \subseteq D /\ T \subseteq D /\ I \ {h} \subseteq D /\ S3 \cap T = {}
  BY <1>2, <1>3, Zenon DEF Owned
<1>18. \A g \in I \ {h} : Whole(d2, g) /\ Parts(d2, g) \cap S3 = {} /\ Parts(d2, g) \cap T = {}
  <2>1. \A g \in I : Parts(dn, g) \cap S = {} /\ Parts(dn, g) \cap T = {}
    BY DEF Owned
  <2>2. \A g \in I \ {h} : Parts(dn, g) \cap S3 = {}
    BY <2>1, <1>4, <1>5
  <2> HIDE DEF S3
  <2> QED BY <2>1, <2>2, <1>16, Zenon
<1>19. \A g, k \in I \ {h} : g # k => Parts(d2, g) \cap Parts(d2, k) = {}
  <2>1. \A g, k \in I : g # k => Parts(dn, g) \cap Parts(dn, k) = {}
    BY DEF Owned
  <2> QED BY <2>1, <1>16, Zenon
<1>20. Owned(d2, S3, T, I \ {h})
  <2> HIDE DEF S3
  <2> QED BY <1>14, <1>17, <1>18, <1>19, Zenon DEF Owned
<1> HIDE DEF e3, S3
<1> QED BY <1>2, <1>4, <1>5, <1>6, <1>9, <1>16, <1>20, Zenon

-----------------------------------------------------------------------------
(* The indices of the available ring, which count modulo IDX: the number of  *)
(* entries the device has not fetched, after a new entry and a fetch.        *)
LEMMA IdxWrap ==
  ASSUME NEW a \in 0 .. IDX - 1
  PROVE  /\ (a + 1) % IDX \in 0 .. IDX - 1
         /\ ((a + 1) % IDX) % queue_size = (a + 1) % queue_size
         /\ \A b \in Int : (((a + 1) % IDX) - b) % queue_size = (a + 1 - b) % queue_size
<1>0. queue_size \in Nat \ {0} /\ IDX \in Nat \ {0}
  BY Sizes
<1>1. PICK m \in Nat : IDX = queue_size * m
  BY Sizes
<1>2. (a + 1) % IDX = IF a + 1 = IDX THEN 0 ELSE a + 1
  BY <1>0, ModStep
<1>3. (a + 1) % IDX \in 0 .. IDX - 1
  BY <1>0, <1>2
<1>4. ASSUME NEW b \in Int PROVE (((a + 1) % IDX) - b) % queue_size = (a + 1 - b) % queue_size
  <2>1. CASE a + 1 # IDX
    BY <2>1, <1>2
  <2>2. CASE a + 1 = IDX
    <3>1. PICK e \in Int : e = 0 - b
      OBVIOUS
    <3>2. (e + queue_size * m) % queue_size = e % queue_size
      <4>1. queue_size \in Nat \ {0} /\ e \in Int /\ m \in Int
        BY <1>0
      <4> QED BY <4>1, ModShift, Zenon
    <3>3. a + 1 - b = e + queue_size * m
      BY <2>2, <3>1, <1>0, <1>1
    <3> QED BY <3>1, <3>2, <3>3, <2>2, <1>2
  <2> QED BY <2>1, <2>2
<1>5. ((a + 1) % IDX) % queue_size = (a + 1) % queue_size
  <2>1. (((a + 1) % IDX) - 0) % queue_size = (a + 1 - 0) % queue_size
    BY <1>4
  <2>2. ((a + 1) % IDX) - 0 = (a + 1) % IDX /\ a + 1 - 0 = a + 1
    BY <1>3, <1>0
  <2> QED BY <2>1, <2>2
<1> QED BY <1>3, <1>4, <1>5

LEMMA AvailIndex ==
  ASSUME NEW a \in 0 .. IDX - 1, NEW d \in 0 .. IDX - 1, NEW q, q = (a - d) % IDX
  PROVE  /\ q \in 0 .. IDX - 1
         /\ (d + q) % queue_size = a % queue_size
         /\ q + 1 < IDX => (((a + 1) % IDX) - d) % IDX = q + 1
         /\ a # d => q > 0 /\ (a - ((d + 1) % IDX)) % IDX = q - 1
<1>0. queue_size \in Nat \ {0} /\ IDX \in Nat \ {0}
  BY Sizes
<1>1. PICK m \in Nat : IDX = queue_size * m
  BY Sizes
<1>2. q = IF d <= a THEN a - d ELSE a - d + IDX
  BY <1>0, ModDiff
<1>3. q \in 0 .. IDX - 1
  BY <1>0, <1>2
<1>4. (d + q) % queue_size = a % queue_size
  <2>1. CASE d <= a
    BY <2>1, <1>0, <1>2
  <2>2. CASE ~(d <= a)
    <3>1. d + q = a + queue_size * m
      BY <2>2, <1>0, <1>1, <1>2
    <3>2. (a + queue_size * m) % queue_size = a % queue_size
      <4>1. queue_size \in Nat \ {0} /\ a \in Int /\ m \in Int
        BY <1>0
      <4> QED BY <4>1, ModShift, Zenon
    <3> QED BY <3>1, <3>2
  <2> QED BY <2>1, <2>2
<1>5. ASSUME q + 1 < IDX PROVE (((a + 1) % IDX) - d) % IDX = q + 1
  <2>1. PICK b \in 0 .. IDX - 1 : b = (a + 1) % IDX
    BY IdxWrap
  <2>2. b = IF a + 1 = IDX THEN 0 ELSE a + 1
    BY <2>1, <1>0, ModStep
  <2>3. (b - d) % IDX = IF d <= b THEN b - d ELSE b - d + IDX
    BY <1>0, ModDiff
  <2> QED BY <2>1, <2>2, <2>3, <1>0, <1>2, <1>5
<1>6. ASSUME a # d PROVE q > 0 /\ (a - ((d + 1) % IDX)) % IDX = q - 1
  <2>1. PICK b \in 0 .. IDX - 1 : b = (d + 1) % IDX
    BY IdxWrap
  <2>2. b = IF d + 1 = IDX THEN 0 ELSE d + 1
    BY <2>1, <1>0, ModStep
  <2>3. (a - b) % IDX = IF b <= a THEN a - b ELSE a - b + IDX
    BY <1>0, ModDiff, Zenon
  <2> QED BY <2>1, <2>2, <2>3, <1>0, <1>2, <1>6
<1> QED BY <1>3, <1>4, <1>5, <1>6

(* The entries of the used ring from position b on, which the handler knows  *)
(* only modulo the size of the queue.                                        *)
LEMMA UsedIndex ==
  ASSUME NEW u \in 0 .. IDX - 1, NEW b \in D, NEW k, k = (u - b) % queue_size
  PROVE  /\ k \in 0 .. queue_size - 1
         /\ (b + k) % queue_size = u % queue_size
         /\ k + 1 < queue_size => (((u + 1) % IDX) - b) % queue_size = k + 1
         /\ wrap(b + 1) \in D /\ wrap(b + 1) % queue_size = (b + 1) % queue_size
         /\ b # u % queue_size => k > 0 /\ (u - wrap(b + 1)) % queue_size = k - 1
         /\ b = u % queue_size => k = 0
<1>0. queue_size \in Nat \ {0} /\ IDX \in Nat \ {0} /\ D = 0 .. queue_size - 1 /\ u \in Int /\ b \in Int
  BY Sizes
<1>1. PICK v \in 0 .. queue_size - 1 : v = u % queue_size
  BY <1>0, ModBasic, Zenon
<1>2. k = (v - b) % queue_size
  <2>1. PICK e \in Int : e = 0 - b
    BY <1>0
  <2>2. ((u % queue_size) + e) % queue_size = (u + e) % queue_size
    BY <1>0, ModInner, Zenon
  <2>3. u + e = u - b /\ v + e = v - b
    BY <2>1, <1>0
  <2> QED BY <2>2, <2>3, <1>1
<1>3. k = IF b <= v THEN v - b ELSE v - b + queue_size
  BY <1>0, <1>2, ModDiff
<1>4. k \in 0 .. queue_size - 1
  BY <1>0, <1>3
<1>5. (b + k) % queue_size = v
  <2>1. CASE b <= v
    BY <2>1, <1>0, <1>3, ModSmall
  <2>2. CASE ~(b <= v)
    <3>1. PICK z \in Int : z = 1
      OBVIOUS
    <3>2. (v + queue_size * z) % queue_size = v % queue_size
      <4>1. queue_size \in Nat \ {0} /\ v \in Int /\ z \in Int
        BY <1>0
      <4> QED BY <4>1, ModShift, Zenon
    <3>3. b + k = v + queue_size * z
      BY <2>2, <3>1, <1>0, <1>3
    <3>4. v % queue_size = v
      BY <1>0, ModSmall
    <3> QED BY <3>2, <3>3, <3>4
  <2> QED BY <2>1, <2>2
<1>6. ASSUME k + 1 < queue_size PROVE (((u + 1) % IDX) - b) % queue_size = k + 1
  <2>1. (((u + 1) % IDX) - b) % queue_size = (u + 1 - b) % queue_size
    BY <1>0, IdxWrap, Zenon
  <2>2. PICK e \in Int : e = u - b /\ e + 1 = u + 1 - b
    <3>1. u - b \in Int /\ (u - b) + 1 = u + 1 - b
      BY <1>0
    <3> QED BY <3>1
  <2>3. ((e % queue_size) + 1) % queue_size = (e + 1) % queue_size
    <3>1. queue_size \in Nat \ {0} /\ 1 \in Int
      BY <1>0
    <3> QED BY <3>1, ModInner, Zenon
  <2>4. k + 1 \in 0 .. queue_size - 1
    BY <1>0, <1>4, <1>6
  <2>5. PICK j \in 0 .. queue_size - 1 : j = k + 1
    BY <2>4
  <2>6. j % queue_size = j
    BY <1>0, ModSmall
  <2> QED BY <2>1, <2>2, <2>3, <2>5, <2>6
<1>7. wrap(b + 1) = IF b + 1 = queue_size THEN 0 ELSE b + 1
  BY <1>0 DEF wrap
<1>8. PICK c \in D : c = wrap(b + 1)
  BY <1>0, <1>7
<1>9. c % queue_size = (b + 1) % queue_size
  <2>1. (b + 1) % queue_size = IF b + 1 = queue_size THEN 0 ELSE b + 1
    BY <1>0, ModStep
  <2>2. c % queue_size = c
    BY <1>0, ModSmall
  <2> QED BY <2>1, <2>2, <1>7, <1>8
<1>10. (u - c) % queue_size = (v - c) % queue_size
  <2>1. PICK e \in Int : e = 0 - c
    BY <1>0
  <2>2. ((u % queue_size) + e) % queue_size = (u + e) % queue_size
    BY <1>0, ModInner, Zenon
  <2>3. u + e = u - c /\ v + e = v - c
    BY <2>1, <1>0
  <2> QED BY <2>2, <2>3, <1>1
<1>11. (v - c) % queue_size = IF c <= v THEN v - c ELSE v - c + queue_size
  BY <1>0, ModDiff
<1>12. ASSUME b # v PROVE k > 0 /\ (u - c) % queue_size = k - 1
  <2>1. /\ queue_size \in Nat \ {0} /\ b \in 0 .. queue_size - 1 /\ v \in 0 .. queue_size - 1
        /\ c = IF b + 1 = queue_size THEN 0 ELSE b + 1
    BY <1>0, <1>7, <1>8
  <2>2. PICK w : w = (v - c) % queue_size
    OBVIOUS
  <2>3. w = IF c <= v THEN v - c ELSE v - c + queue_size
    BY <2>2, <1>11
  <2>4. w = k - 1 /\ k > 0
    BY <2>1, <2>3, <1>3, <1>12
  <2> QED BY <2>2, <2>4, <1>10
<1>13. ASSUME b = v PROVE k = 0
  BY <1>0, <1>3, <1>13
<1> QED BY <1>1, <1>4, <1>5, <1>6, <1>8, <1>9, <1>12, <1>13

-----------------------------------------------------------------------------
(* The inductive invariant.                                                  *)
Result == {"INIT", "OK", "ERR"}
Calls == {"idle", "alloc", "desc", "take", "send", "wait", "each", "sleep", "woken", "free"}
Thread(C) == [pc : Calls, kind : {"ext4", "devfs"}, left : Int, req : REQ \cup {NULL}, cur : C,
              d : Seq(D), tmp : (0 .. queue_size) \X (0 .. queue_size)]

QueueTypes ==
  /\ dnext \in [D -> 0 .. queue_size] /\ free_desc \in 0 .. queue_size
  /\ dflag \in [D -> BOOLEAN] /\ dlen \in [D -> {"none", "hdr", "data", "foot"}]
  /\ desc_virt \in [D -> REQ \cup {NULL}]
  /\ avail \in [D -> D] /\ used \in [D -> D]
  /\ avail_idx \in 0 .. IDX - 1 /\ used_idx \in 0 .. IDX - 1 /\ devpos \in 0 .. IDX - 1
  /\ seen_used \in D /\ isr \in -1 .. queue_size + 1
  /\ devset \subseteq D /\ undone \subseteq D
CallTypes ==
  /\ conf \in Confs
  /\ live \subseteq REQ /\ status \in [REQ -> Result] /\ dstat \in [REQ -> Result]
  /\ \E C : th \in [THREAD -> Thread(C)]

(* One thread at a time is inside the driver, and none while the handler     *)
(* runs; a call of ext4 holds the lock of the device to its end.             *)
Busy(t) == th[t].pc \notin {"idle", "sleep", "woken"}
Building(t) == th[t].pc \in {"desc", "take", "send"}
TurnInv ==
  /\ \A t \in THREAD : th[t].pc # "idle" => th[t].kind \in conf.users
  /\ \A t, u \in THREAD : Busy(t) /\ Busy(u) => t = u
  /\ isr # -1 => \A t \in THREAD : ~Busy(t)
  /\ \A t \in THREAD : th[t].pc # "idle" /\ th[t].kind = "ext4" => dev_lock = t

(* What a thread has taken for the chain it builds, and the request it is    *)
(* for, which no other chain serves.                                         *)
Built(t) ==
  /\ th[t].pc = "send" => Len(th[t].d) = 3
  /\ th[t].pc # "send" => Len(th[t].d) \in 0 .. 2
  /\ \A i, j \in 1 .. Len(th[t].d) : th[t].d[i] = th[t].d[j] => i = j
  /\ \A i \in 1 .. Len(th[t].d) : desc_virt[th[t].d[i]] = th[t].req
  /\ th[t].pc = "take" => free_desc # queue_size /\ th[t].tmp = <<free_desc, dnext[free_desc]>>
  /\ th[t].req \in live /\ status[th[t].req] = "INIT"
  /\ \A h \in InFlight : desc_virt[h] # th[t].req
BuildInv == \A t \in THREAD : /\ Building(t) => Built(t)
                              /\ ~Building(t) => th[t].d = <<>>

(* The rings hold what is in flight: the entries the device has not fetched, *)
(* and the completed chains from where the handler is, or will start.        *)
Pending == (avail_idx - devpos) % IDX
Base == IF isr \in D THEN isr ELSE seen_used
Done == (used_idx - Base) % queue_size
AvailInv ==
  /\ Pending <= queue_size /\ Distinct(avail, devpos, Pending)
  /\ Queued \cap devset = {} /\ Queued \cap undone = {} /\ devset \cap undone = {}
UsedInv == isr # queue_size => /\ Distinct(used, Base, Done)
                               /\ Entries(used, Base, Done) \subseteq undone

OwnInv == \E S : FreeSet(dnext, free_desc, S) /\ Owned(dnext, S, Taken, InFlight)

(* The chains in flight are well formed and serve requests not completed.    *)
Serves(dn, df, dl, dv, I) ==
  /\ \A h \in I : /\ df[h] /\ df[dn[h]] /\ dl[h] = "hdr" /\ dl[dn[dn[h]]] = "foot"
                  /\ dv[dn[h]] = dv[h] /\ dv[dn[dn[h]]] = dv[h]
  /\ \A g, h \in I : dv[g] = dv[h] => g = h
Open(dv, lv, st, I) == \A h \in I : dv[h] \in lv /\ st[dv[h]] = "INIT"
ServeInv == Serves(dnext, dflag, dlen, desc_virt, InFlight) /\ Open(desc_virt, live, status, InFlight)

(* A request not completed is in flight or about to be; what a thread sleeps *)
(* on is in flight.                                                          *)
RequestInv ==
  /\ \A r \in live : status[r] = "INIT" =>
       \/ \E h \in InFlight : desc_virt[h] = r
       \/ \E t \in THREAD : Building(t) /\ th[t].req = r
  /\ \A h \in undone : dstat[desc_virt[h]] # "INIT"
  /\ \A t \in THREAD : th[t].pc = "sleep" => \E h \in InFlight : desc_virt[h] = th[t].cur
  /\ \A t \in THREAD : th[t].kind = "ext4" /\ th[t].pc = "sleep" => th[t].cur = th[t].req
  /\ \A t \in THREAD : th[t].kind = "ext4" /\ th[t].pc = "woken" =>
                         \A h \in InFlight : desc_virt[h] # th[t].req

DiskInv == /\ QueueTypes /\ CallTypes /\ TurnInv /\ BuildInv
           /\ AvailInv /\ UsedInv /\ OwnInv /\ ServeInv /\ RequestInv

-----------------------------------------------------------------------------
LEMMA RingPart ==
  ASSUME NEW buf, NEW b, NEW q \in Int, q <= queue_size
  PROVE  {buf[(b + k) % queue_size] : k \in {j \in 0 .. queue_size - 1 : j < q}} = Entries(buf, b, q)
<1>1. {j \in 0 .. queue_size - 1 : j < q} = 0 .. q - 1
  BY Sizes
<1> QED BY <1>1 DEF Entries

LEMMA QueuedRing ==
  ASSUME Pending \in Int, Pending <= queue_size
  PROVE  Queued = Entries(avail, devpos, Pending)
<1>1. Queued = {avail[(devpos + k) % queue_size] : k \in {j \in 0 .. queue_size - 1 : j < Pending}}
  BY DEF Queued, Pending
<1> QED BY <1>1, RingPart

(* A thread that runs in the driver is the only one there.                   *)
LEMMA AloneOnCpu ==
  ASSUME OneUser, CallTypes, TurnInv, NEW t \in THREAD, NEW pc, OnCpu(t, pc)
  PROVE  /\ halt = "no" /\ isr = -1 /\ th[t].pc = pc
         /\ \A u \in THREAD \ {t} : ~Busy(u) /\ ~Building(u)
<1>1. ASSUME NEW u \in THREAD, u # t PROVE ~Busy(u)
  <2>1. Yields(u)
    BY <1>1 DEF OnCpu
  <2>2. CASE Preempt /\ th[u].kind = "devfs"
    <3>1. "devfs" \notin conf.users
      BY <2>2 DEF OneUser, CallTypes, Preempt
    <3> QED BY <3>1, <2>2 DEF TurnInv, Busy
  <2> QED BY <2>1, <2>2 DEF Yields, Busy
<1>2. \A u \in THREAD : ~Busy(u) => ~Building(u)
  BY DEF Busy, Building
<1> QED BY <1>1, <1>2 DEF OnCpu

LEMMA TakenSame ==
  ASSUME \A t \in THREAD : th'[t].d = th[t].d
  PROVE  Taken' = Taken
BY DEF Taken

Collected(f) == UNION {{f[t].d[i] : i \in 1 .. Len(f[t].d)} : t \in THREAD}

LEMMA CollectedNone ==
  ASSUME NEW f, \A t \in THREAD : f[t].d = <<>>
  PROVE  Collected(f) = {}
<1>1. ASSUME NEW t \in THREAD PROVE {f[t].d[i] : i \in 1 .. Len(f[t].d)} = {}
  <2>1. Len(f[t].d) = 0
    OBVIOUS
  <2> QED BY <2>1
<1> QED BY <1>1 DEF Collected

LEMMA TakenNone ==
  ASSUME \A t \in THREAD : th[t].d = <<>>
  PROVE  Taken = {}
<1>1. Taken = Collected(th)
  BY DEF Taken, Collected
<1>2. Collected(th) = {}
  BY CollectedNone
<1> QED BY <1>1, <1>2

LEMMA CollectedOne ==
  ASSUME NEW f, NEW t \in THREAD, \A u \in THREAD \ {t} : f[u].d = <<>>
  PROVE  Collected(f) = {f[t].d[i] : i \in 1 .. Len(f[t].d)}
<1> DEFINE K(u) == {f[u].d[i] : i \in 1 .. Len(f[u].d)}
<1>1. ASSUME NEW u \in THREAD \ {t} PROVE K(u) = {}
  <2>1. Len(f[u].d) = 0
    OBVIOUS
  <2> QED BY <2>1
<1>2. Collected(f) = UNION {K(u) : u \in THREAD}
  BY DEF Collected
<1> HIDE DEF K
<1>3. Collected(f) = K(t)
  <2>1. \A x : x \in Collected(f) <=> \E u \in THREAD : x \in K(u)
    <3> DEFINE U == {K(u) : u \in THREAD}
    <3>1. \A y : y \in U <=> \E u \in THREAD : y = K(u)
      OBVIOUS
    <3>2. \A x : x \in UNION U <=> \E y \in U : x \in y
      BY Zenon
    <3> HIDE DEF U
    <3>3. \A x : x \in UNION U <=> \E u \in THREAD : x \in K(u)
      BY <3>1, <3>2, Zenon
    <3> QED BY <3>3, <1>2 DEF U
  <2>2. \A x : x \in Collected(f) <=> x \in K(t)
    <3>1. \A u \in THREAD \ {t} : \A x : x \notin K(u)
      BY <1>1
    <3>2. ASSUME NEW x, x \in Collected(f) PROVE x \in K(t)
      BY <3>1, <3>2, <2>1
    <3>3. ASSUME NEW x, x \in K(t) PROVE x \in Collected(f)
      BY <3>3, <2>1
    <3> QED BY <3>2, <3>3
  <2> QED BY <2>2, Zenon
<1> QED BY <1>3 DEF K

(* What does not depend on the queue, and what does not depend on anything   *)
(* else.                                                                     *)
LEMMA SameFlight ==
  ASSUME UNCHANGED <<avail, avail_idx, devpos, devset, undone>>
  PROVE  Queued' = Queued /\ InFlight' = InFlight /\ Pending' = Pending
BY DEF Queued, InFlight, Pending

LEMMA SameRings ==
  ASSUME AvailInv, UsedInv, UNCHANGED <<rvars, seen_used, isr>>
  PROVE  AvailInv' /\ UsedInv'
<1>1. UNCHANGED <<avail, avail_idx, used, used_idx, devpos, devset, undone>> /\ UNCHANGED <<seen_used, isr>>
  BY DEF rvars
<1>2. Queued' = Queued /\ Pending' = Pending
  BY <1>1, SameFlight
<1>3. Base' = Base /\ Done' = Done
  BY <1>1 DEF Base, Done
<1>4. AvailInv'
  <2> HIDE DEF Pending
  <2> QED BY <1>1, <1>2 DEF AvailInv, Distinct
<1>5. UsedInv'
  BY <1>1, <1>3 DEF UsedInv, Distinct, Entries
<1> QED BY <1>4, <1>5

(* A step of a call that leaves the queue alone and frees no request that is *)
(* in flight.                                                                *)
LEMMA QuietStep ==
  ASSUME DiskInv, UNCHANGED <<qvars, rvars, seen_used, isr>>,
         \A t \in THREAD : th'[t].d = th[t].d,
         \A h \in InFlight : desc_virt[h] \in live' /\ status'[desc_virt[h]] = "INIT"
  PROVE  /\ QueueTypes' /\ AvailInv' /\ UsedInv' /\ OwnInv' /\ ServeInv'
         /\ InFlight' = InFlight
         /\ UNCHANGED <<dnext, dflag, dlen, free_desc, desc_virt, devset, undone, dstat, isr>>
<1>1. /\ UNCHANGED <<dnext, dflag, dlen, free_desc, desc_virt>>
      /\ UNCHANGED <<avail, avail_idx, used, used_idx, devpos, devset, undone, dstat>>
      /\ UNCHANGED <<seen_used, isr>>
  BY DEF qvars, rvars
<1>2. InFlight' = InFlight
  BY <1>1, SameFlight
<1>3. AvailInv' /\ UsedInv'
  BY SameRings DEF DiskInv
<1>4. OwnInv'
  <2>1. PICK S : FreeSet(dnext, free_desc, S) /\ Owned(dnext, S, Taken, InFlight)
    BY DEF DiskInv, OwnInv
  <2>2. Taken' = Taken
    BY TakenSame
  <2>3. FreeSet(dnext', free_desc', S) /\ Owned(dnext', S, Taken', InFlight')
    BY <2>1, <2>2, <1>1, <1>2
  <2> QED BY <2>3 DEF OwnInv
<1>5. ServeInv'
  BY <1>1, <1>2 DEF DiskInv, ServeInv, Serves, Open
<1>6. QueueTypes'
  BY <1>1 DEF DiskInv, QueueTypes
<1> QED BY <1>1, <1>2, <1>3, <1>4, <1>5, <1>6

LEMMA SameStep ==
  ASSUME DiskInv, UNCHANGED <<conf, live, status, qvars, rvars, seen_used, isr, th, dev_lock>>
  PROVE  DiskInv'
<1>0. /\ UNCHANGED <<qvars, rvars, seen_used, isr>>
      /\ UNCHANGED <<conf, live, status, th, dev_lock>>
  BY Zenon
<1>1. \A h \in InFlight : desc_virt[h] \in live' /\ status'[desc_virt[h]] = "INIT"
  BY <1>0 DEF DiskInv, ServeInv, Open
<1>2. /\ QueueTypes' /\ AvailInv' /\ UsedInv' /\ OwnInv' /\ ServeInv' /\ InFlight' = InFlight
      /\ UNCHANGED <<dnext, dflag, dlen, free_desc, desc_virt, devset, undone, dstat, isr>>
  BY <1>0, <1>1, QuietStep, Zenon
<1>3. CallTypes'
  BY <1>0, <1>2 DEF DiskInv, CallTypes
<1>4. TurnInv'
  BY <1>0 DEF DiskInv, TurnInv, Busy
<1>a. BuildInv /\ RequestInv
  BY Zenon DEF DiskInv
<1>5. BuildInv'
  <2>1. \A t \in THREAD : (Building(t)' <=> Building(t)) /\ (Built(t) => Built(t)')
    BY <1>0, <1>2 DEF Built, Building
  <2> QED BY <2>1, <1>0, <1>a, Zenon DEF BuildInv
<1>6. RequestInv'
  <2>1. \A t \in THREAD : Building(t)' <=> Building(t)
    BY <1>0 DEF Building
  <2>2. /\ live' = live /\ status' = status /\ th' = th
        /\ desc_virt' = desc_virt /\ undone' = undone /\ dstat' = dstat
    BY <1>0, <1>2
  <2> QED BY <2>1, <2>2, <1>2, <1>a, ZenonT(40) DEF RequestInv
<1> QED BY <1>2, <1>3, <1>4, <1>5, <1>6 DEF DiskInv

LEMMA StopStep ==
  ASSUME DiskInv, NEW why, Stop(why)
  PROVE  DiskInv'
BY SameStep DEF Stop, lvars

(* A step of the thread t that leaves the queue alone and frees no request   *)
(* in flight, and what the invariant asks of t after it.                     *)
MovedOnly(t) ==
  /\ UNCHANGED <<qvars, rvars, seen_used, isr, conf>>
  /\ \E C : th' \in [THREAD -> Thread(C)]
  /\ \A u \in THREAD \ {t} : th'[u] = th[u]
  /\ th'[t].d = th[t].d
  /\ live' \subseteq REQ /\ status' \in [REQ -> Result]
  /\ \A h \in InFlight : desc_virt[h] \in live' /\ status'[desc_virt[h]] = "INIT"
TurnAfter(t) ==
  /\ th'[t].pc # "idle" => th'[t].kind \in conf.users
  /\ th'[t].pc # "idle" /\ th'[t].kind = "ext4" => dev_lock' = t
  /\ \A u \in THREAD \ {t} : th[u].pc # "idle" /\ th[u].kind = "ext4" => dev_lock' = u
BuildAfter(t) == (Building(t)' => Built(t)') /\ (~Building(t)' => th'[t].d = <<>>)
RequestAfter(t) ==
  /\ \A r \in live' : status'[r] = "INIT" => \/ \E h \in InFlight : desc_virt[h] = r
                                             \/ Building(t)' /\ th'[t].req = r
  /\ th'[t].pc = "sleep" => /\ \E h \in InFlight : desc_virt[h] = th'[t].cur
                            /\ th'[t].kind = "ext4" => th'[t].cur = th'[t].req
  /\ th'[t].pc # "woken"
Moved(t) == MovedOnly(t) /\ TurnAfter(t) /\ BuildAfter(t) /\ RequestAfter(t)

LEMMA MovedTurn ==
  ASSUME TurnInv, NEW t \in THREAD, isr = -1,
         \A u \in THREAD \ {t} : ~Busy(u), MovedOnly(t), TurnAfter(t)
  PROVE  TurnInv'
<1>1. conf' = conf /\ isr' = isr /\ \A u \in THREAD \ {t} : th'[u] = th[u]
  BY DEF MovedOnly
<1>2. \A u \in THREAD \ {t} : ~Busy(u)'
  BY <1>1, Zenon DEF Busy
<1>3. \A u, v \in THREAD : Busy(u)' /\ Busy(v)' => u = v
  BY <1>2, Zenon
<1>4. ASSUME NEW u \in THREAD, th'[u].pc # "idle" PROVE th'[u].kind \in conf'.users
  <2>1. CASE u = t
    BY <2>1, <1>1, <1>4 DEF TurnAfter
  <2>2. CASE u # t
    BY <2>2, <1>1, <1>4 DEF TurnInv
  <2> QED BY <2>1, <2>2
<1>5. ASSUME NEW u \in THREAD, th'[u].pc # "idle", th'[u].kind = "ext4" PROVE dev_lock' = u
  <2>1. CASE u = t
    BY <2>1, <1>5, Zenon DEF TurnAfter
  <2>2. CASE u # t
    <3>1. th[u].pc # "idle" /\ th[u].kind = "ext4"
      BY <2>2, <1>1, <1>5, Zenon
    <3> QED BY <2>2, <3>1, Zenon DEF TurnAfter
  <2> QED BY <2>1, <2>2
<1> QED BY <1>1, <1>3, <1>4, <1>5, Zenon DEF TurnInv

LEMMA MovedRequest ==
  ASSUME RequestInv, NEW t \in THREAD, MovedOnly(t), RequestAfter(t),
         InFlight' = InFlight, UNCHANGED <<desc_virt, undone, dstat>>
  PROVE  RequestInv'
<1>0. desc_virt' = desc_virt /\ undone' = undone /\ dstat' = dstat
  OBVIOUS
<1>1. \A u \in THREAD \ {t} : th'[u] = th[u]
  BY DEF MovedOnly
<1>2. \A r \in live' : status'[r] = "INIT" =>
        \/ \E h \in InFlight' : desc_virt'[h] = r
        \/ \E u \in THREAD : Building(u)' /\ th'[u].req = r
  BY <1>0, Zenon DEF RequestAfter
<1>3. \A h \in undone' : dstat'[desc_virt'[h]] # "INIT"
  BY <1>0, Zenon DEF RequestInv
<1>4. ASSUME NEW u \in THREAD, th'[u].pc = "sleep"
      PROVE  /\ \E h \in InFlight' : desc_virt'[h] = th'[u].cur
             /\ th'[u].kind = "ext4" => th'[u].cur = th'[u].req
  <2>1. CASE u = t
    BY <2>1, <1>0, <1>4, Zenon DEF RequestAfter
  <2>2. CASE u # t
    <3>1. th'[u] = th[u]
      BY <1>1, <2>2
    <3> QED BY <3>1, <1>0, <1>4, ZenonT(40) DEF RequestInv
  <2> QED BY <2>1, <2>2
<1>5. ASSUME NEW u \in THREAD, th'[u].kind = "ext4", th'[u].pc = "woken"
      PROVE  \A h \in InFlight' : desc_virt'[h] # th'[u].req
  <2>1. u # t
    BY <1>5 DEF RequestAfter
  <2>2. th'[u] = th[u]
    BY <1>1, <2>1
  <2> QED BY <2>2, <1>0, <1>5, ZenonT(40) DEF RequestInv
<1> QED BY <1>2, <1>3, <1>4, <1>5, Zenon DEF RequestInv

LEMMA CallStep ==
  ASSUME OneUser, DiskInv, NEW t \in THREAD, NEW pc, OnCpu(t, pc), Moved(t)
  PROVE  DiskInv'
<1>m. MovedOnly(t) /\ TurnAfter(t) /\ BuildAfter(t) /\ RequestAfter(t)
  BY Zenon DEF Moved
<1>0. /\ isr = -1 /\ \A u \in THREAD \ {t} : ~Busy(u) /\ ~Building(u)
  BY AloneOnCpu, Zenon DEF DiskInv
<1>1. \A u \in THREAD : th'[u].d = th[u].d
  BY <1>m, Zenon DEF MovedOnly
<1>2. /\ UNCHANGED <<qvars, rvars, seen_used, isr>>
      /\ \A h \in InFlight : desc_virt[h] \in live' /\ status'[desc_virt[h]] = "INIT"
  BY <1>m DEF MovedOnly
<1>3. /\ QueueTypes' /\ AvailInv' /\ UsedInv' /\ OwnInv' /\ ServeInv' /\ InFlight' = InFlight
      /\ UNCHANGED <<dnext, dflag, dlen, free_desc, desc_virt, devset, undone, dstat, isr>>
  BY <1>1, <1>2, QuietStep, Zenon
<1>4. CallTypes'
  <2>1. conf \in Confs /\ dstat \in [REQ -> Result]
    BY Zenon DEF DiskInv, CallTypes
  <2>2. conf' = conf /\ dstat' = dstat
    BY <1>3, <1>m DEF MovedOnly
  <2> QED BY <2>1, <2>2, <1>m, Zenon DEF CallTypes, MovedOnly
<1>5. TurnInv'
  BY <1>0, <1>m, MovedTurn, Zenon DEF DiskInv
<1>6. BuildInv'
  <2>1. \A u \in THREAD \ {t} : th'[u] = th[u]
    BY <1>m DEF MovedOnly
  <2>2. \A u \in THREAD \ {t} : ~Building(u)' /\ th'[u].d = <<>>
    BY <2>1, <1>0, Zenon DEF DiskInv, BuildInv, Building
  <2>3. (Building(t)' => Built(t)') /\ (~Building(t)' => th'[t].d = <<>>)
    BY <1>m, Zenon DEF BuildAfter
  <2> QED BY <2>2, <2>3, Zenon DEF BuildInv
<1>7. RequestInv'
  <2>1. UNCHANGED <<desc_virt, undone, dstat>>
    BY <1>3
  <2> QED BY <2>1, <1>3, <1>m, MovedRequest, Zenon DEF DiskInv
<1> QED BY <1>3, <1>4, <1>5, <1>6, <1>7, Zenon DEF DiskInv

(* The new record of a thread, and the requests that wait for nobody else.   *)
LEMMA NewThread ==
  ASSUME CallTypes, NEW t \in THREAD, NEW C, NEW x \in Thread(C), th' = [th EXCEPT ![t] = x]
  PROVE  /\ \E C2 : th' \in [THREAD -> Thread(C2)]
         /\ th'[t] = x /\ \A u \in THREAD \ {t} : th'[u] = th[u]
<1>1. PICK B : th \in [THREAD -> Thread(B)]
  BY DEF CallTypes
<1> DEFINE A == B \cup C
<1>2. \A y : y \in Thread(B) \/ y \in Thread(C) => y \in Thread(A)
  BY Zenon DEF Thread
<1>3. th' \in [THREAD -> Thread(A)]
  <2> HIDE DEF A
  <2>1. \A u \in THREAD : th[u] \in Thread(A) /\ x \in Thread(A)
    BY <1>1, <1>2
  <2>2. th' = [u \in THREAD |-> IF u = t THEN x ELSE th[u]]
    BY <1>1, Zenon
  <2> QED BY <2>1, <2>2, Zenon
<1> QED BY <1>1, <1>3, Zenon

LEMMA OwnRecord ==
  ASSUME CallTypes, NEW t \in THREAD
  PROVE  \E C : th \in [THREAD -> Thread(C)] /\ th[t] \in Thread(C)
BY DEF CallTypes

LEMMA IdleRecord == Idle \in Thread({HEAD})
<1>1. <<>> \in Seq(D) /\ queue_size \in Nat
  BY Sizes
<1>2. <<0, 0>> \in (0 .. queue_size) \X (0 .. queue_size)
  BY <1>1
<1> QED BY <1>1, <1>2 DEF Idle, Thread, Calls

LEMMA IdleFields == Idle.pc = "idle" /\ Idle.kind = "ext4" /\ Idle.d = <<>>
BY DEF Idle

LEMMA RecordWith ==
  ASSUME NEW C, NEW i \in Thread(C), NEW p \in Calls
  PROVE  /\ [i EXCEPT !.pc = p] \in Thread(C)
         /\ \A c \in C : [i EXCEPT !.pc = p, !.cur = c] \in Thread(C)
         /\ \A m \in Int : [i EXCEPT !.pc = p, !.left = m] \in Thread(C)
         /\ \A m \in Int, k \in {"ext4", "devfs"} : [i EXCEPT !.pc = p, !.kind = k, !.left = m] \in Thread(C)
BY ZenonT(40) DEF Thread

LEMMA StillAwaited ==
  ASSUME OneUser, DiskInv, NEW t \in THREAD, NEW pc, OnCpu(t, pc), ~Building(t)
  PROVE  /\ th[t].d = <<>>
         /\ \A r \in live : status[r] = "INIT" => \E h \in InFlight : desc_virt[h] = r
<1>1. \A u \in THREAD : ~Building(u)
  BY AloneOnCpu DEF DiskInv
<1> QED BY <1>1 DEF DiskInv, RequestInv, BuildInv

LEMMA StartExt4Step ==
  ASSUME OneUser, DiskInv, NEW t \in THREAD, StartExt4(t)
  PROVE  DiskInv'
<1>1. CASE dev_lock # NULL
  BY <1>1, StopStep DEF StartExt4
<1>2. CASE dev_lock = NULL
  <2> DEFINE x == [Idle EXCEPT !.pc = "alloc", !.left = 1]
  <2>1. /\ OnCpu(t, "idle") /\ "ext4" \in conf.users /\ dev_lock' = t
        /\ th' = [th EXCEPT ![t] = x]
        /\ UNCHANGED <<conf, live, status, qvars, rvars, seen_used, isr>>
    BY <1>2 DEF StartExt4, lvars
  <2>2. x \in Thread({HEAD})
    <3>1. "alloc" \in Calls /\ 1 \in Int
      BY DEF Calls
    <3> QED BY <3>1, IdleRecord, RecordWith, Zenon
  <2>3. x.pc = "alloc" /\ x.kind = "ext4" /\ x.d = <<>>
    BY DEF Idle
  <2> HIDE DEF x
  <2>4. /\ \E C : th' \in [THREAD -> Thread(C)]
        /\ th'[t] = x /\ \A u \in THREAD \ {t} : th'[u] = th[u]
    BY <2>1, <2>2, NewThread, ZenonT(40) DEF DiskInv
  <2>5. th[t].pc = "idle" /\ ~Building(t) /\ ~Building(t)'
    BY <2>1, <2>3, <2>4, Zenon DEF OnCpu, Building
  <2>6. /\ th[t].d = <<>>
        /\ \A r \in live : status[r] = "INIT" => \E h \in InFlight : desc_virt[h] = r
    BY <2>1, <2>5, StillAwaited
  <2>7. \A u \in THREAD \ {t} : ~(th[u].pc # "idle" /\ th[u].kind = "ext4")
    BY <1>2, DiskAssumption DEF DiskInv, TurnInv
  <2>8. live \subseteq REQ /\ status \in [REQ -> Result]
    BY DEF DiskInv, CallTypes
  <2>9. \A h \in InFlight : desc_virt[h] \in live /\ status[desc_virt[h]] = "INIT"
    BY DEF DiskInv, ServeInv, Open
  <2>10. live' = live /\ status' = status /\ UNCHANGED <<qvars, rvars, seen_used, isr, conf>>
    BY <2>1
  <2>11. MovedOnly(t)
    BY <2>3, <2>4, <2>6, <2>8, <2>9, <2>10 DEF MovedOnly
  <2>12. TurnAfter(t)
    BY <2>1, <2>3, <2>4, <2>7 DEF TurnAfter
  <2>13. BuildAfter(t)
    BY <2>3, <2>4, <2>5, Zenon DEF BuildAfter
  <2>14. RequestAfter(t)
    BY <2>3, <2>4, <2>6, <2>10 DEF RequestAfter
  <2> QED BY <2>1, <2>11, <2>12, <2>13, <2>14, CallStep, Zenon DEF Moved
<1> QED BY <1>1, <1>2

LEMMA StartDevfsStep ==
  ASSUME OneUser, DiskInv, NEW t \in THREAD, StartDevfs(t)
  PROVE  DiskInv'
<1>0. PICK m \in 1 .. MaxSectors :
        th' = [th EXCEPT ![t] = [Idle EXCEPT !.pc = "alloc", !.kind = "devfs", !.left = m]]
  BY Zenon DEF StartDevfs
<1> DEFINE x == [Idle EXCEPT !.pc = "alloc", !.kind = "devfs", !.left = m]
<1>1. /\ OnCpu(t, "idle") /\ "devfs" \in conf.users
      /\ UNCHANGED <<conf, live, status, dev_lock, qvars, rvars, seen_used, isr>>
  BY DEF StartDevfs, lvars
<1>2. x \in Thread({HEAD})
  <2>1. "alloc" \in Calls /\ m \in Int /\ "devfs" \in {"ext4", "devfs"}
    BY DEF Calls
  <2> QED BY <2>1, IdleRecord, RecordWith, Zenon
<1>3. x.pc = "alloc" /\ x.kind = "devfs" /\ x.d = <<>>
  BY DEF Idle
<1>4. th' = [th EXCEPT ![t] = x]
  BY <1>0
<1> HIDE DEF x
<1>5. /\ \E C : th' \in [THREAD -> Thread(C)]
      /\ th'[t] = x /\ \A u \in THREAD \ {t} : th'[u] = th[u]
  BY <1>2, <1>4, NewThread, Zenon DEF DiskInv
<1>6. ~Building(t) /\ ~Building(t)'
  BY <1>1, <1>3, <1>5 DEF OnCpu, Building
<1>7. /\ th[t].d = <<>>
      /\ \A r \in live : status[r] = "INIT" => \E h \in InFlight : desc_virt[h] = r
  BY <1>1, <1>6, StillAwaited
<1>8. live \subseteq REQ /\ status \in [REQ -> Result]
  BY DEF DiskInv, CallTypes
<1>9. \A h \in InFlight : desc_virt[h] \in live /\ status[desc_virt[h]] = "INIT"
  BY DEF DiskInv, ServeInv, Open
<1>10. live' = live /\ status' = status /\ dev_lock' = dev_lock /\ UNCHANGED <<qvars, rvars, seen_used, isr, conf>>
  BY <1>1
<1>11. \A u \in THREAD \ {t} : th[u].pc # "idle" /\ th[u].kind = "ext4" => dev_lock' = u
  BY <1>10 DEF DiskInv, TurnInv
<1>12. MovedOnly(t)
  BY <1>3, <1>5, <1>7, <1>8, <1>9, <1>10, Zenon DEF MovedOnly
<1>13. TurnAfter(t)
  BY <1>1, <1>3, <1>5, <1>11 DEF TurnAfter
<1>14. BuildAfter(t)
  BY <1>3, <1>5, <1>6 DEF BuildAfter
<1>15. RequestAfter(t)
  BY <1>3, <1>5, <1>7, <1>10 DEF RequestAfter
<1> QED BY <1>1, <1>12, <1>13, <1>14, <1>15, CallStep, Zenon DEF Moved

LEMMA SubmitStep ==
  ASSUME OneUser, DiskInv, NEW t \in THREAD, Submit(t)
  PROVE  DiskInv'
<1>1. CASE rq_lock # NULL
  BY <1>1, StopStep DEF Submit
<1>2. CASE rq_lock = NULL
  <2>0. PICK r \in REQ \ live :
          /\ live' = live \cup {r}
          /\ status' = [status EXCEPT ![r] = "INIT"]
          /\ th' = [th EXCEPT ![t].pc = "desc", ![t].req = r, ![t].d = <<>>]
          /\ UNCHANGED <<conf, dev_lock, qvars, rvars, seen_used, isr>>
    BY <1>2, ZenonT(40) DEF Submit
  <2>1. OnCpu(t, "alloc") /\ th[t].pc = "alloc"
    BY Zenon DEF Submit, OnCpu
  <2>2. PICK C : th \in [THREAD -> Thread(C)] /\ th[t] \in Thread(C)
    BY OwnRecord DEF DiskInv
  <2> DEFINE x == [th[t] EXCEPT !.pc = "desc", !.req = r, !.d = <<>>]
  <2>3. x \in Thread(C)
    <3>1. <<>> \in Seq(D) /\ "desc" \in Calls
      BY DEF Calls
    <3> QED BY <3>1, <2>2, Zenon DEF Thread
  <2>4. x.pc = "desc" /\ x.req = r /\ x.d = <<>> /\ x.kind = th[t].kind
    BY <2>2 DEF Thread
  <2>5. th' = [th EXCEPT ![t] = x]
    BY <2>0, <2>2, Zenon
  <2> HIDE DEF x
  <2>6. /\ \E B : th' \in [THREAD -> Thread(B)]
        /\ th'[t] = x /\ \A u \in THREAD \ {t} : th'[u] = th[u]
    BY <2>3, <2>5, NewThread, Zenon DEF DiskInv
  <2>7. ~Building(t) /\ Building(t)'
    BY <2>1, <2>4, <2>6 DEF Building
  <2>8. /\ th[t].d = <<>>
        /\ \A s \in live : status[s] = "INIT" => \E h \in InFlight : desc_virt[h] = s
    BY <2>1, <2>7, StillAwaited
  <2>9. /\ UNCHANGED <<qvars, rvars, seen_used, isr, conf>> /\ dev_lock' = dev_lock
        /\ UNCHANGED <<avail, avail_idx, devpos, devset, undone>> /\ desc_virt' = desc_virt
    BY <2>0 DEF rvars, qvars
  <2>10. InFlight' = InFlight
    BY <2>9, SameFlight
  <2>11. live' \subseteq REQ /\ status' \in [REQ -> Result] /\ status'[r] = "INIT" /\ r \in live'
         /\ \A s \in live : status'[s] = status[s]
    BY <2>0 DEF DiskInv, CallTypes, Result
  <2>12. \A h \in InFlight : desc_virt[h] \in live /\ status[desc_virt[h]] = "INIT"
    BY DEF DiskInv, ServeInv, Open
  <2>13. \A h \in InFlight : desc_virt[h] \in live' /\ status'[desc_virt[h]] = "INIT" /\ desc_virt[h] # r
    BY <2>0, <2>11, <2>12
  <2>14. Built(t)'
    <3>1. Len(th'[t].d) = 0
      BY <2>4, <2>6
    <3> QED BY <3>1, <2>4, <2>6, <2>9, <2>10, <2>11, <2>13 DEF Built
  <2>15. \A s \in live' : status'[s] = "INIT" => \/ \E h \in InFlight : desc_virt[h] = s
                                                 \/ Building(t)' /\ th'[t].req = s
    BY <2>0, <2>4, <2>6, <2>7, <2>8, <2>11
  <2>16. /\ th[t].kind \in conf.users
         /\ th[t].kind = "ext4" => dev_lock' = t
         /\ \A u \in THREAD \ {t} : th[u].pc # "idle" /\ th[u].kind = "ext4" => dev_lock' = u
    BY <2>1, <2>9 DEF DiskInv, TurnInv
  <2>17. MovedOnly(t)
    BY <2>4, <2>6, <2>8, <2>9, <2>11, <2>13 DEF MovedOnly
  <2>18. TurnAfter(t)
    BY <2>4, <2>6, <2>16 DEF TurnAfter
  <2>19. BuildAfter(t)
    BY <2>7, <2>14 DEF BuildAfter
  <2>20. RequestAfter(t)
    BY <2>4, <2>6, <2>15 DEF RequestAfter
  <2> QED BY <2>1, <2>17, <2>18, <2>19, <2>20, CallStep, Zenon DEF Moved
<1> QED BY <1>1, <1>2

LEMMA DescReadStep ==
  ASSUME OneUser, DiskInv, NEW t \in THREAD, DescRead(t)
  PROVE  DiskInv'
<1>1. CASE free_desc = queue_size
  BY <1>1, StopStep DEF DescRead
<1>2. CASE free_desc # queue_size
  <2>1. /\ OnCpu(t, "desc") /\ th[t].pc = "desc"
        /\ th' = [th EXCEPT ![t].pc = "take", ![t].tmp = <<free_desc, dnext[free_desc]>>]
        /\ UNCHANGED <<conf, live, status, dev_lock, qvars, rvars, seen_used, isr>>
    BY <1>2 DEF DescRead, OnCpu, lvars
  <2>2. PICK C : th \in [THREAD -> Thread(C)] /\ th[t] \in Thread(C)
    BY OwnRecord DEF DiskInv
  <2> DEFINE p == <<free_desc, dnext[free_desc]>>
             x == [th[t] EXCEPT !.pc = "take", !.tmp = p]
  <2>3. p \in (0 .. queue_size) \X (0 .. queue_size)
    <3>1. free_desc \in D
      BY <1>2, Sizes DEF DiskInv, QueueTypes
    <3> QED BY <3>1 DEF DiskInv, QueueTypes
  <2>4. th' = [th EXCEPT ![t] = x]
    BY <2>1, <2>2, Zenon
  <2> HIDE DEF p
  <2>5. x \in Thread(C) /\ x.pc = "take" /\ x.tmp = p /\ x.d = th[t].d /\ x.req = th[t].req /\ x.kind = th[t].kind
    <3>1. "take" \in Calls
      BY DEF Calls
    <3> QED BY <3>1, <2>2, <2>3, Zenon DEF Thread
  <2> HIDE DEF x
  <2>6. /\ \E B : th' \in [THREAD -> Thread(B)]
        /\ th'[t] = x /\ \A u \in THREAD \ {t} : th'[u] = th[u]
    BY <2>4, <2>5, NewThread, Zenon DEF DiskInv
  <2>7. Building(t) /\ Building(t)' /\ Built(t)
    BY <2>1, <2>5, <2>6 DEF Building, DiskInv, BuildInv
  <2>8. /\ UNCHANGED <<qvars, rvars, seen_used, isr, conf>> /\ dev_lock' = dev_lock
        /\ UNCHANGED <<avail, avail_idx, devpos, devset, undone>>
        /\ desc_virt' = desc_virt /\ dnext' = dnext /\ free_desc' = free_desc
        /\ live' = live /\ status' = status
    BY <2>1 DEF rvars, qvars
  <2>9. InFlight' = InFlight
    BY <2>8, SameFlight
  <2>10. Built(t)'
    <3>1. th'[t].d = th[t].d /\ th'[t].req = th[t].req /\ th'[t].pc = "take" /\ th'[t].tmp = <<free_desc, dnext[free_desc]>>
      BY <2>5, <2>6 DEF p
    <3> QED BY <3>1, <2>1, <2>7, <2>8, <2>9, <1>2 DEF Built
  <2>11. \A s \in live : status[s] = "INIT" => \/ \E h \in InFlight : desc_virt[h] = s
                                               \/ th[t].req = s
    <3>1. \A u \in THREAD \ {t} : ~Building(u)
      BY <2>1, AloneOnCpu DEF DiskInv
    <3> QED BY <3>1 DEF DiskInv, RequestInv
  <2>12. \A h \in InFlight : desc_virt[h] \in live /\ status[desc_virt[h]] = "INIT"
    BY DEF DiskInv, ServeInv, Open
  <2>13. live \subseteq REQ /\ status \in [REQ -> Result]
    BY DEF DiskInv, CallTypes
  <2>14. /\ th[t].kind \in conf.users
         /\ th[t].kind = "ext4" => dev_lock' = t
         /\ \A u \in THREAD \ {t} : th[u].pc # "idle" /\ th[u].kind = "ext4" => dev_lock' = u
    BY <2>1, <2>8 DEF DiskInv, TurnInv
  <2>15. MovedOnly(t)
    BY <2>5, <2>6, <2>8, <2>12, <2>13 DEF MovedOnly
  <2>16. TurnAfter(t)
    BY <2>5, <2>6, <2>14 DEF TurnAfter
  <2>17. BuildAfter(t)
    BY <2>7, <2>10 DEF BuildAfter
  <2>18. RequestAfter(t)
    BY <2>5, <2>6, <2>7, <2>8, <2>11 DEF RequestAfter
  <2> QED BY <2>1, <2>15, <2>16, <2>17, <2>18, CallStep, Zenon DEF Moved
<1> QED BY <1>1, <1>2

LEMMA WaitAllStep ==
  ASSUME OneUser, DiskInv, NEW t \in THREAD, WaitAll(t)
  PROVE  DiskInv'
<1>1. CASE rq_lock # NULL \/ ~Sound
  BY <1>1, StopStep DEF WaitAll
<1>2. CASE ~(rq_lock # NULL \/ ~Sound)
  <2>1. /\ OnCpu(t, "wait") /\ th[t].pc = "wait"
        /\ th' = [th EXCEPT ![t].pc = "each", ![t].cur = nxt[HEAD]]
        /\ UNCHANGED <<conf, live, status, dev_lock, qvars, rvars, seen_used, isr>>
    BY <1>2 DEF WaitAll, OnCpu, lvars
  <2>2. PICK B : th \in [THREAD -> Thread(B)] /\ th[t] \in Thread(B)
    BY OwnRecord DEF DiskInv
  <2>3. PICK c : c = nxt[HEAD]
    OBVIOUS
  <2> DEFINE C == B \cup {c}
             x == [th[t] EXCEPT !.pc = "each", !.cur = c]
  <2>4. x \in Thread(C) /\ x.pc = "each" /\ x.d = th[t].d /\ x.kind = th[t].kind
    <3>1. "each" \in Calls
      BY DEF Calls
    <3> QED BY <3>1, <2>2, Zenon DEF Thread
  <2>5. th' = [th EXCEPT ![t] = x]
    BY <2>1, <2>2, <2>3, Zenon
  <2> HIDE DEF x, C
  <2>6. /\ \E A : th' \in [THREAD -> Thread(A)]
        /\ th'[t] = x /\ \A u \in THREAD \ {t} : th'[u] = th[u]
    BY <2>4, <2>5, NewThread, Zenon DEF DiskInv
  <2>7. ~Building(t) /\ ~Building(t)'
    BY <2>1, <2>4, <2>6 DEF Building
  <2>8. /\ th[t].d = <<>>
        /\ \A r \in live : status[r] = "INIT" => \E h \in InFlight : desc_virt[h] = r
    BY <2>1, <2>7, StillAwaited
  <2>9. /\ UNCHANGED <<qvars, rvars, seen_used, isr, conf>> /\ dev_lock' = dev_lock
        /\ live' = live /\ status' = status
    BY <2>1
  <2>10. live \subseteq REQ /\ status \in [REQ -> Result]
    BY DEF DiskInv, CallTypes
  <2>11. \A h \in InFlight : desc_virt[h] \in live /\ status[desc_virt[h]] = "INIT"
    BY DEF DiskInv, ServeInv, Open
  <2>12. /\ th[t].kind \in conf.users
         /\ th[t].kind = "ext4" => dev_lock' = t
         /\ \A u \in THREAD \ {t} : th[u].pc # "idle" /\ th[u].kind = "ext4" => dev_lock' = u
    BY <2>1, <2>9 DEF DiskInv, TurnInv
  <2>13. MovedOnly(t)
    BY <2>4, <2>6, <2>9, <2>10, <2>11, ZenonT(40) DEF MovedOnly
  <2>14. TurnAfter(t)
    BY <2>4, <2>6, <2>12 DEF TurnAfter
  <2>15. BuildAfter(t)
    BY <2>4, <2>6, <2>7, <2>8 DEF BuildAfter
  <2>16. RequestAfter(t)
    BY <2>4, <2>6, <2>8, <2>9, Zenon DEF RequestAfter
  <2> QED BY <2>1, <2>13, <2>14, <2>15, <2>16, CallStep, Zenon DEF Moved
<1> QED BY <1>1, <1>2

LEMMA WaitEachStep ==
  ASSUME OneUser, DiskInv, NEW t \in THREAD, WaitEach(t)
  PROVE  DiskInv'
<1> DEFINE r == th[t].cur
<1>1. CASE r # HEAD /\ r \notin live
  BY <1>1, StopStep DEF WaitEach
<1>2. CASE ~(r # HEAD /\ r \notin live)
  <2>0. PICK pc \in {"each", "woken"} : OnCpu(t, pc) /\ th[t].pc = pc
    BY DEF WaitEach, OnCpu
  <2>1. /\ th[t].kind = "devfs"
        /\ th' = [th EXCEPT
               ![t] = IF r = HEAD THEN [@ EXCEPT !.pc = "free"]
                      ELSE IF @.pc = "each" /\ Waits(r) THEN [@ EXCEPT !.pc = "sleep"]
                      ELSE [@ EXCEPT !.pc = "each", !.cur = nxt[r]]]
        /\ UNCHANGED <<conf, live, status, dev_lock, qvars, rvars, seen_used, isr>>
    BY <1>2 DEF WaitEach, lvars
  <2>2. PICK B : th \in [THREAD -> Thread(B)] /\ th[t] \in Thread(B)
    BY OwnRecord DEF DiskInv
  <2>3. PICK c : c = nxt[r]
    OBVIOUS
  <2> DEFINE C == B \cup {c}
             x == IF r = HEAD THEN [th[t] EXCEPT !.pc = "free"]
                  ELSE IF th[t].pc = "each" /\ Waits(r) THEN [th[t] EXCEPT !.pc = "sleep"]
                  ELSE [th[t] EXCEPT !.pc = "each", !.cur = c]
  <2>4. /\ x \in Thread(C) /\ x.pc \in {"free", "sleep", "each"}
        /\ x.d = th[t].d /\ x.kind = th[t].kind
        /\ x.pc = "sleep" => r # HEAD /\ Waits(r) /\ x.cur = r
    <3>1. {"each", "free", "sleep"} \subseteq Calls
      BY DEF Calls
    <3>2. CASE r = HEAD
      BY <3>1, <3>2, <2>2, Zenon DEF Thread
    <3>3. CASE r # HEAD /\ th[t].pc = "each" /\ Waits(r)
      BY <3>1, <3>3, <2>2, Zenon DEF Thread
    <3>4. CASE r # HEAD /\ ~(th[t].pc = "each" /\ Waits(r))
      BY <3>1, <3>4, <2>2, Zenon DEF Thread
    <3> QED BY <3>2, <3>3, <3>4
  <2>5. th' = [th EXCEPT ![t] = x]
    BY <2>1, <2>2, <2>3
  <2> HIDE DEF x, C
  <2>6. /\ \E A : th' \in [THREAD -> Thread(A)]
        /\ th'[t] = x /\ \A u \in THREAD \ {t} : th'[u] = th[u]
    BY <2>4, <2>5, NewThread, Zenon DEF DiskInv
  <2>7. ~Building(t) /\ ~Building(t)'
    BY <2>0, <2>4, <2>6 DEF Building
  <2>8. /\ th[t].d = <<>>
        /\ \A s \in live : status[s] = "INIT" => \E h \in InFlight : desc_virt[h] = s
    BY <2>0, <2>7, StillAwaited
  <2>9. /\ UNCHANGED <<qvars, rvars, seen_used, isr, conf>> /\ dev_lock' = dev_lock
        /\ live' = live /\ status' = status
    BY <2>1
  <2>10. live \subseteq REQ /\ status \in [REQ -> Result]
    BY DEF DiskInv, CallTypes
  <2>11. \A h \in InFlight : desc_virt[h] \in live /\ status[desc_virt[h]] = "INIT"
    BY DEF DiskInv, ServeInv, Open
  <2>12. /\ th[t].kind \in conf.users
         /\ \A u \in THREAD \ {t} : th[u].pc # "idle" /\ th[u].kind = "ext4" => dev_lock' = u
    BY <2>0, <2>9 DEF DiskInv, TurnInv
  <2>13. th'[t].pc = "sleep" => \E h \in InFlight : desc_virt[h] = th'[t].cur
    <3>1. ASSUME th'[t].pc = "sleep" PROVE r \in live /\ status[r] = "INIT" /\ th'[t].cur = r
      BY <3>1, <2>4, <2>6, <1>2 DEF Waits
    <3> QED BY <3>1, <2>8
  <2>14. th'[t].pc # "woken" /\ th'[t].kind = "devfs" /\ th[t].kind = "devfs" /\ th'[t].d = th[t].d
    BY <2>1, <2>4, <2>6
  <2> HIDE DEF r
  <2>15. MovedOnly(t)
    BY <2>6, <2>9, <2>10, <2>11, <2>14 DEF MovedOnly
  <2>16. TurnAfter(t)
    BY <2>12, <2>14 DEF TurnAfter
  <2>17. BuildAfter(t)
    BY <2>7, <2>8, <2>14 DEF BuildAfter
  <2>18. RequestAfter(t)
    BY <2>8, <2>9, <2>13, <2>14 DEF RequestAfter
  <2> QED BY <2>0, <2>15, <2>16, <2>17, <2>18, CallStep, Zenon DEF Moved
<1> QED BY <1>1, <1>2

LEMMA FreeAllStep ==
  ASSUME OneUser, DiskInv, NEW t \in THREAD, FreeAll(t)
  PROVE  DiskInv'
<1>1. CASE rq_lock # NULL \/ ~Sound
  BY <1>1, StopStep, ZenonT(40) DEF FreeAll
<1>2. CASE ~(rq_lock # NULL \/ ~Sound)
  <2> DEFINE gone == {r \in Listed : Frees(r)}
  <2>1. /\ OnCpu(t, "free") /\ th[t].pc = "free"
        /\ live' = live \ gone
        /\ status' = [r \in REQ |-> IF r \in gone THEN "INIT" ELSE status[r]]
        /\ th' = [th EXCEPT ![t] = Idle]
        /\ UNCHANGED <<conf, dev_lock, qvars, rvars, seen_used, isr>>
    BY <1>2, Zenon DEF FreeAll, OnCpu
  <2>2. \A r \in gone : status[r] = "OK"
    BY DEF Frees
  <2> HIDE DEF gone
  <2>3. /\ \E A : th' \in [THREAD -> Thread(A)]
        /\ th'[t] = Idle /\ \A u \in THREAD \ {t} : th'[u] = th[u]
    BY <2>1, IdleRecord, NewThread, Zenon DEF DiskInv
  <2>4. th'[t].pc = "idle" /\ th'[t].d = <<>>
    BY <2>3, IdleFields, Zenon
  <2>5. ~Building(t) /\ ~Building(t)'
    BY <2>1, <2>4 DEF Building
  <2>6. /\ th[t].d = <<>>
        /\ \A s \in live : status[s] = "INIT" => \E h \in InFlight : desc_virt[h] = s
    BY <2>1, <2>5, StillAwaited
  <2>7. live \subseteq REQ /\ status \in [REQ -> Result]
    BY DEF DiskInv, CallTypes
  <2>8. live' \subseteq REQ /\ status' \in [REQ -> Result]
    BY <2>1, <2>7 DEF Result
  <2>9. \A s \in REQ : s \notin gone => status'[s] = status[s]
    BY <2>1
  <2>10. \A h \in InFlight : desc_virt[h] \in live' /\ status'[desc_virt[h]] = "INIT"
    <3>1. \A h \in InFlight : desc_virt[h] \in live /\ status[desc_virt[h]] = "INIT"
      BY DEF DiskInv, ServeInv, Open
    <3>2. \A h \in InFlight : desc_virt[h] \notin gone
      BY <3>1, <2>2
    <3> QED BY <3>1, <3>2, <2>1, <2>7, <2>9
  <2>11. \A s \in live' : status'[s] = "INIT" => \E h \in InFlight : desc_virt[h] = s
    BY <2>1, <2>6, <2>7, <2>9
  <2>12. \A u \in THREAD \ {t} : th[u].pc # "idle" /\ th[u].kind = "ext4" => dev_lock' = u
    BY <2>1 DEF DiskInv, TurnInv
  <2>13. UNCHANGED <<qvars, rvars, seen_used, isr, conf>>
    BY <2>1
  <2>14. MovedOnly(t)
    BY <2>3, <2>4, <2>6, <2>8, <2>10, <2>13 DEF MovedOnly
  <2>15. TurnAfter(t)
    BY <2>4, <2>12 DEF TurnAfter
  <2>16. BuildAfter(t)
    BY <2>4, <2>5 DEF BuildAfter
  <2>17. RequestAfter(t)
    BY <2>4, <2>11 DEF RequestAfter
  <2> QED BY <2>1, <2>14, <2>15, <2>16, <2>17, CallStep, Zenon DEF Moved
<1> QED BY <1>1, <1>2

LEMMA Ext4DoneStep ==
  ASSUME OneUser, DiskInv, NEW t \in THREAD, Ext4Done(t)
  PROVE  DiskInv'
<1> DEFINE r == th[t].req
<1>1. CASE r \notin live
  BY <1>1, StopStep, Zenon DEF Ext4Done
<1>2. CASE r \in live
  <2>1. /\ OnCpu(t, "woken") /\ th[t].pc = "woken" /\ th[t].kind = "ext4"
        /\ live' = live \ {r}
        /\ status' = [status EXCEPT ![r] = "INIT"]
        /\ th' = [th EXCEPT ![t] = Idle]
        /\ UNCHANGED <<conf, qvars, rvars, seen_used, isr>>
    BY <1>2, Zenon DEF Ext4Done, OnCpu
  <2>2. /\ \E A : th' \in [THREAD -> Thread(A)]
        /\ th'[t] = Idle /\ \A u \in THREAD \ {t} : th'[u] = th[u]
    BY <2>1, IdleRecord, NewThread, ZenonT(40) DEF DiskInv
  <2>3. \A h \in InFlight : desc_virt[h] # r
    BY <2>1, Zenon DEF DiskInv, RequestInv
  <2> HIDE DEF r
  <2>4. th'[t].pc = "idle" /\ th'[t].d = <<>>
    BY <2>2, IdleFields, Zenon
  <2>5. ~Building(t) /\ ~Building(t)'
    BY <2>1, <2>4 DEF Building
  <2>6. /\ th[t].d = <<>>
        /\ \A s \in live : status[s] = "INIT" => \E h \in InFlight : desc_virt[h] = s
    BY <2>1, <2>5, StillAwaited, Zenon
  <2>7. live \subseteq REQ /\ status \in [REQ -> Result]
    BY DEF DiskInv, CallTypes
  <2>8. live' \subseteq REQ /\ status' \in [REQ -> Result]
    BY <2>1, <2>7, Zenon DEF Result
  <2>9. \A s \in REQ : s # r => status'[s] = status[s]
    BY <2>1, <2>7
  <2>10. \A h \in InFlight : desc_virt[h] \in live' /\ status'[desc_virt[h]] = "INIT"
    <3>1. \A h \in InFlight : desc_virt[h] \in live /\ status[desc_virt[h]] = "INIT"
      BY DEF DiskInv, ServeInv, Open
    <3> QED BY <3>1, <2>1, <2>3, <2>7, <2>9
  <2>11. \A s \in live' : status'[s] = "INIT" => \E h \in InFlight : desc_virt[h] = s
    BY <2>1, <2>6, <2>7, <2>9
  <2>12. \A u \in THREAD \ {t} : th[u].pc # "idle" /\ th[u].kind = "ext4" => dev_lock' = u
    <3>1. dev_lock = t /\ \A u \in THREAD : th[u].pc # "idle" /\ th[u].kind = "ext4" => dev_lock = u
      BY <2>1 DEF DiskInv, TurnInv
    <3> QED BY <3>1, Zenon
  <2>13. UNCHANGED <<qvars, rvars, seen_used, isr, conf>>
    BY <2>1
  <2>14. MovedOnly(t)
    BY <2>2, <2>4, <2>6, <2>8, <2>10, <2>13 DEF MovedOnly
  <2>15. TurnAfter(t)
    BY <2>4, <2>12 DEF TurnAfter
  <2>16. BuildAfter(t)
    BY <2>4, <2>5 DEF BuildAfter
  <2>17. RequestAfter(t)
    BY <2>4, <2>11 DEF RequestAfter
  <2> QED BY <2>1, <2>14, <2>15, <2>16, <2>17, CallStep, ZenonT(40) DEF Moved
<1> QED BY <1>1, <1>2

(* A call of ext4 and a call of devfs are not under way together.            *)
LEMMA SameKind ==
  ASSUME OneUser, DiskInv, NEW t \in THREAD, NEW u \in THREAD, t # u,
         th[t].pc # "idle", th[u].pc # "idle"
  PROVE  th[u].kind # "ext4"
<1> SUFFICES ASSUME th[u].kind = "ext4" PROVE FALSE
  OBVIOUS
<1>1. th[t].kind \in conf.users /\ th[u].kind \in conf.users /\ dev_lock = u
  BY DEF DiskInv, TurnInv
<1>2. th[t].kind \in {"ext4", "devfs"}
  <2>1. PICK C : th \in [THREAD -> Thread(C)]
    BY DEF DiskInv, CallTypes
  <2> QED BY <2>1 DEF Thread
<1>3. th[t].kind # "ext4"
  BY <1>1 DEF DiskInv, TurnInv
<1>4. conf.users \in SUBSET {"ext4", "devfs"} /\ conf.users # {"ext4", "devfs"}
  BY DiskAssumption DEF DiskInv, CallTypes, OneUser
<1> QED BY <1>1, <1>2, <1>3, <1>4

(* The sequence e is d with f at its end.                                    *)
Longer(e, d, f) ==
  /\ e \in Seq(D) /\ Len(e) = Len(d) + 1 /\ e[Len(d) + 1] = f
  /\ \A i \in 1 .. Len(d) : e[i] = d[i]

LEMMA Appended ==
  ASSUME NEW d \in Seq(D), NEW f \in D, NEW e, e = Append(d, f)
  PROVE  Longer(e, d, f)
BY DEF Longer

LEMMA DescTakeStep ==
  ASSUME OneUser, DiskInv, NEW t \in THREAD, DescTake(t)
  PROVE  DiskInv'
<1>1. /\ OnCpu(t, "take") /\ th[t].pc = "take"
      /\ free_desc' = th[t].tmp[2]
      /\ desc_virt' = [desc_virt EXCEPT ![th[t].tmp[1]] = th[t].req]
      /\ th' = [th EXCEPT ![t].pc = IF Len(th[t].d) = 2 THEN "send" ELSE "desc",
                          ![t].d = Append(@, th[t].tmp[1])]
      /\ UNCHANGED <<conf, live, status, dev_lock, dnext, dflag, dlen, rvars, seen_used, isr>>
  BY DEF DescTake, OnCpu, lvars
<1>2. isr = -1 /\ \A u \in THREAD \ {t} : ~Busy(u) /\ ~Building(u)
  BY <1>1, AloneOnCpu DEF DiskInv
<1>3. Building(t) /\ Built(t)
  BY <1>1 DEF Building, DiskInv, BuildInv
<1>4. PICK f : f = free_desc /\ f = th[t].tmp[1] /\ free_desc' = dnext[f] /\ f # queue_size
  <2>1. th[t].tmp = <<free_desc, dnext[free_desc]>> /\ free_desc # queue_size
    BY <1>1, <1>3 DEF Built
  <2> QED BY <2>1, <1>1
<1>5. PICK S : FreeSet(dnext, free_desc, S) /\ Owned(dnext, S, Taken, InFlight)
  BY DEF DiskInv, OwnInv
<1>6. dnext \in [D -> 0 .. queue_size] /\ desc_virt \in [D -> REQ \cup {NULL}]
  BY DEF DiskInv, QueueTypes
<1>7. f \in S /\ f \in D /\ FreeSet(dnext, dnext[f], S \ {f})
  BY <1>4, <1>5, <1>6, ChainPop
<1>8. PICK C : th \in [THREAD -> Thread(C)] /\ th[t] \in Thread(C)
  BY OwnRecord DEF DiskInv
<1> DEFINE d == th[t].d
           e == Append(d, f)
           x == [th[t] EXCEPT !.pc = IF Len(d) = 2 THEN "send" ELSE "desc", !.d = e]
<1>9. th' = [th EXCEPT ![t] = x]
  BY <1>1, <1>4, <1>8, Zenon
<1>10. d \in Seq(D) /\ Len(d) \in 0 .. 2
  <2>1. th[t].pc # "send"
    BY <1>1, Zenon
  <2>2. th[t].d \in Seq(D)
    BY <1>8, Zenon DEF Thread
  <2> QED BY <2>1, <2>2, <1>3, Zenon DEF Built
<1>11. /\ e \in Seq(D) /\ Len(e) = Len(d) + 1 /\ e[Len(d) + 1] = f
       /\ \A i \in 1 .. Len(d) : e[i] = d[i]
  <2> HIDE DEF d
  <2>1. f \in D /\ d \in Seq(D)
    BY <1>7, <1>10, Zenon
  <2>2. PICK g : g = e
    BY Zenon
  <2>3. g = Append(d, f)
    BY <2>2, Zenon
  <2>4. Longer(g, d, f)
    BY <2>1, <2>3, Appended, Zenon
  <2> HIDE DEF e
  <2> QED BY <2>2, <2>4, Zenon DEF Longer
<1> HIDE DEF e
<1>12. /\ x \in Thread(C) /\ x.d = e /\ x.req = th[t].req /\ x.kind = th[t].kind /\ x.cur = th[t].cur
       /\ x.pc = IF Len(d) = 2 THEN "send" ELSE "desc"
  <2>1. {"send", "desc"} \subseteq Calls
    BY DEF Calls
  <2> QED BY <2>1, <1>8, <1>11, Zenon DEF Thread
<1> HIDE DEF x
<1>13. /\ \E A : th' \in [THREAD -> Thread(A)]
       /\ th'[t] = x /\ \A u \in THREAD \ {t} : th'[u] = th[u]
  BY <1>9, <1>12, NewThread, Zenon DEF DiskInv
<1>14. /\ UNCHANGED <<conf, live, status, dev_lock, dnext, dflag, dlen, seen_used, isr>>
       /\ UNCHANGED <<avail, avail_idx, used, used_idx, devpos, devset, dstat, undone>>
  BY <1>1 DEF rvars
<1>15. InFlight' = InFlight /\ AvailInv' /\ UsedInv'
  <2>1. InFlight' = InFlight
    BY <1>14, SameFlight
  <2>2. AvailInv' /\ UsedInv'
    BY <1>1, SameRings DEF DiskInv
  <2> QED BY <2>1, <2>2
<1>16. QueueTypes' /\ CallTypes'
  <2>1. free_desc' \in 0 .. queue_size
    BY <1>4, <1>6, <1>7
  <2>2. th[t].req \in REQ
    BY <1>3, Zenon DEF Built, DiskInv, CallTypes
  <2>3. desc_virt' \in [D -> REQ \cup {NULL}]
    BY <2>2, <1>1, <1>4, <1>6, Zenon
  <2> QED BY <2>1, <2>3, <1>13, <1>14 DEF DiskInv, QueueTypes, CallTypes
<1>17. Building(t)' /\ \A u \in THREAD \ {t} : ~Building(u)' /\ ~Busy(u)'
  BY <1>2, <1>12, <1>13, Zenon DEF Building, Busy
<1>18. TurnInv'
  <2>1. /\ \A u \in THREAD : th[u].pc # "idle" => th[u].kind \in conf.users
        /\ \A u \in THREAD : th[u].pc # "idle" /\ th[u].kind = "ext4" => dev_lock = u
    BY Zenon DEF TurnInv, DiskInv
  <2>2. conf' = conf /\ dev_lock' = dev_lock /\ isr' = -1 /\ th'[t].kind = th[t].kind /\ th[t].pc # "idle"
    BY <1>1, <1>2, <1>12, <1>13, <1>14
  <2>3. \A u \in THREAD : th'[u].kind = th[u].kind /\ (th'[u].pc # "idle" => th[u].pc # "idle")
    BY <2>2, <1>13, Zenon
  <2>4. \A u, v \in THREAD : Busy(u)' /\ Busy(v)' => u = v
    BY <1>17, Zenon
  <2> QED BY <2>1, <2>2, <2>3, <2>4, Zenon DEF TurnInv
<1>19. Taken = {d[i] : i \in 1 .. Len(d)}
  <2>1. \A u \in THREAD \ {t} : th[u].d = <<>>
    BY <1>2 DEF DiskInv, BuildInv
  <2>2. Taken = Collected(th)
    BY DEF Taken, Collected
  <2> QED BY <2>1, <2>2, CollectedOne, Zenon
<1>20. Taken' = Taken \cup {f}
  <2>1. Taken' = {th'[t].d[i] : i \in 1 .. Len(th'[t].d)}
    <3>1. \A u \in THREAD \ {t} : th'[u].d = <<>>
      BY <1>2, <1>13 DEF DiskInv, BuildInv
    <3>2. Taken' = Collected(th')
      BY DEF Taken, Collected
    <3> QED BY <3>1, <3>2, CollectedOne
  <2>2. Taken' = {e[i] : i \in 1 .. Len(d) + 1}
    BY <2>1, <1>11, <1>12, <1>13
  <2>3. \A i \in 1 .. Len(d) + 1 : i \in 1 .. Len(d) \/ i = Len(d) + 1
    BY <1>10
  <2>4. 1 .. Len(d) \subseteq 1 .. Len(d) + 1 /\ Len(d) + 1 \in 1 .. Len(d) + 1
    BY <1>10
  <2> HIDE DEF d
  <2>5. ASSUME NEW y PROVE y \in {e[i] : i \in 1 .. Len(d) + 1} <=> y \in {d[i] : i \in 1 .. Len(d)} \/ y = f
    BY <2>3, <2>4, <1>11
  <2> QED BY <2>2, <2>5, <1>19
<1>21. OwnInv'
  <2>1. Owned(dnext, S \ {f}, Taken \cup {f}, InFlight)
    BY <1>5, <1>7, OwnTake, Zenon
  <2>2. FreeSet(dnext', free_desc', S \ {f}) /\ Owned(dnext', S \ {f}, Taken', InFlight')
    BY <2>1, <1>4, <1>7, <1>14, <1>15, <1>20
  <2> QED BY <2>2 DEF OwnInv
<1>22. \A h \in InFlight : desc_virt'[h] = desc_virt[h] /\ desc_virt'[dnext[h]] = desc_virt[dnext[h]]
                           /\ desc_virt'[dnext[dnext[h]]] = desc_virt[dnext[dnext[h]]]
  <2>1. \A h \in InFlight : h \in D \ {f} /\ dnext[h] \in D \ {f} /\ dnext[dnext[h]] \in D \ {f}
    BY <1>5, <1>7 DEF Owned, Whole, Parts
  <2>2. \A y \in D \ {f} : desc_virt'[y] = desc_virt[y]
    BY <1>1, <1>4, <1>6
  <2> QED BY <2>1, <2>2
<1>23. ServeInv'
  BY <1>14, <1>15, <1>22 DEF DiskInv, ServeInv, Serves, Open
<1>24. BuildInv'
  <2>1. f \notin Taken
    BY <1>5, <1>7 DEF Owned
  <2>2. \A i \in 1 .. Len(d) : d[i] # f /\ d[i] \in D /\ desc_virt[d[i]] = th[t].req
    BY <2>1, <1>3, <1>10, <1>19 DEF Built
  <2>3. \A i, j \in 1 .. Len(d) : d[i] = d[j] => i = j
    BY <1>3, ZenonT(40) DEF Built
  <2>4. \A i \in 1 .. Len(e) : i \in 1 .. Len(d) \/ i = Len(d) + 1
    BY <1>10, <1>11
  <2>5. desc_virt'[f] = th[t].req /\ \A y \in D \ {f} : desc_virt'[y] = desc_virt[y]
    BY <1>1, <1>4, <1>6, <1>7
  <2>6. \A i, j \in 1 .. Len(e) : e[i] = e[j] => i = j
    <3> HIDE DEF d
    <3> QED BY <2>2, <2>3, <2>4, <1>11
  <2>7. \A i \in 1 .. Len(e) : desc_virt'[e[i]] = th[t].req
    <3> HIDE DEF d
    <3> QED BY <2>2, <2>4, <2>5, <1>11, ZenonT(40)
  <2>8. /\ x.pc = "send" => Len(e) = 3
        /\ x.pc # "send" => Len(e) \in 0 .. 2
        /\ x.pc # "take"
    <3> HIDE DEF d
    <3> QED BY <1>10, <1>11, <1>12
  <2>9. /\ th[t].req \in live /\ status[th[t].req] = "INIT"
        /\ \A h \in InFlight : desc_virt[h] # th[t].req
    BY <1>3 DEF Built
  <2>10. Built(t)'
    BY <2>6, <2>7, <2>8, <2>9, <1>12, <1>13, <1>14, <1>15, <1>22, ZenonT(40) DEF Built
  <2>11. \A u \in THREAD \ {t} : th'[u].d = <<>>
    BY <1>2, <1>13 DEF DiskInv, BuildInv
  <2> QED BY <2>10, <2>11, <1>17 DEF BuildInv
<1>25. RequestInv'
  <2>0. RequestInv
    BY Zenon DEF DiskInv
  <2>1. \A r \in live : status[r] = "INIT" => \/ \E h \in InFlight : desc_virt[h] = r
                                              \/ th[t].req = r
    BY <2>0, <1>2, Zenon DEF RequestInv
  <2>2. undone \subseteq InFlight
    BY DEF InFlight
  <2>3. live' = live /\ status' = status /\ undone' = undone /\ dstat' = dstat
    BY <1>14
  <2>a. /\ \A h \in InFlight : h \in InFlight' /\ desc_virt'[h] = desc_virt[h]
        /\ \A h \in InFlight' : h \in InFlight /\ desc_virt'[h] = desc_virt[h]
    <3>1. InFlight' = InFlight
      BY <1>15
    <3>2. \A h \in InFlight : desc_virt'[h] = desc_virt[h]
      BY <1>22
    <3> QED BY <3>1, <3>2
  <2>4. \A h \in undone' : dstat'[desc_virt'[h]] # "INIT"
    <3>1. \A h \in undone : dstat[desc_virt[h]] # "INIT"
      BY <2>0, Zenon DEF RequestInv
    <3> QED BY <3>1, <2>2, <2>3, <2>a
  <2>5. th'[t].pc # "sleep" /\ th'[t].pc # "woken" /\ th'[t].req = th[t].req
    BY <1>12, <1>13
  <2>6. \A r \in live' : status'[r] = "INIT" =>
          \/ \E h \in InFlight' : desc_virt'[h] = r
          \/ \E u \in THREAD : Building(u)' /\ th'[u].req = r
    <3>1. ASSUME NEW r \in live, status[r] = "INIT"
          PROVE  \/ \E h \in InFlight' : desc_virt'[h] = r
                 \/ \E u \in THREAD : Building(u)' /\ th'[u].req = r
      <4>1. CASE \E h \in InFlight : desc_virt[h] = r
        BY <4>1, <2>a, Zenon
      <4>2. CASE th[t].req = r
        BY <4>2, <2>5, <1>17, Zenon
      <4> QED BY <4>1, <4>2, <3>1, <2>1, Zenon
    <3> QED BY <3>1, <2>3, Zenon
  <2>7. ASSUME NEW u \in THREAD, th'[u].pc \in {"sleep", "woken"}
        PROVE  th'[u] = th[u]
    BY <2>5, <2>7, <1>13, Zenon
  <2>8. \A u \in THREAD : th'[u].pc = "sleep" => \E h \in InFlight' : desc_virt'[h] = th'[u].cur
    <3>1. ASSUME NEW u \in THREAD, th'[u].pc = "sleep" PROVE \E h \in InFlight : desc_virt[h] = th'[u].cur
      <4>1. th'[u] = th[u]
        BY <3>1, <2>7
      <4> QED BY <4>1, <3>1, <2>0, ZenonT(40) DEF RequestInv
    <3> QED BY <3>1, <2>a, Zenon
  <2>9. \A u \in THREAD : th'[u].kind = "ext4" /\ th'[u].pc = "sleep" => th'[u].cur = th'[u].req
    BY <2>0, <2>7, Zenon DEF RequestInv
  <2>10. \A u \in THREAD : th'[u].kind = "ext4" /\ th'[u].pc = "woken" =>
                            \A h \in InFlight' : desc_virt'[h] # th'[u].req
    <3>1. ASSUME NEW u \in THREAD, th'[u].kind = "ext4", th'[u].pc = "woken"
          PROVE  \A h \in InFlight : desc_virt[h] # th'[u].req
      <4>1. th'[u] = th[u]
        BY <3>1, <2>7
      <4> QED BY <4>1, <3>1, <2>0, ZenonT(40) DEF RequestInv
    <3> QED BY <3>1, <2>a, Zenon
  <2> QED BY <2>4, <2>6, <2>8, <2>9, <2>10, Zenon DEF RequestInv
<1> QED BY <1>15, <1>16, <1>18, <1>21, <1>23, <1>24, <1>25 DEF DiskInv

(* The chains in flight leave room in both rings.                            *)
LEMMA FlightBound ==
  ASSUME NEW dn, NEW S, NEW T, NEW I, Owned(dn, S, T, I)
  PROVE  /\ IsFiniteSet(I) /\ Cardinality(I) \in Nat
         /\ Cardinality(T) \in Nat /\ 3 * Cardinality(I) + Cardinality(T) <= queue_size
<1>1. /\ IsFiniteSet(S) /\ IsFiniteSet(T) /\ IsFiniteSet(I)
      /\ Cardinality(S) \in Nat /\ Cardinality(T) \in Nat /\ Cardinality(I) \in Nat
  BY FiniteD DEF Owned
<1>2. Cardinality(S) + Cardinality(T) + 3 * Cardinality(I) = queue_size
  BY DEF Owned
<1> QED BY <1>1, <1>2, Sizes

LEMMA AvailPush ==
  ASSUME DiskInv, NEW a \in D, a \notin InFlight, 3 * Cardinality(InFlight) + 3 <= queue_size,
         avail' = [avail EXCEPT ![avail_idx % queue_size] = a],
         avail_idx' = (avail_idx + 1) % IDX, UNCHANGED <<devpos, devset, undone>>
  PROVE  /\ avail' \in [D -> D] /\ avail_idx' \in 0 .. IDX - 1
         /\ InFlight' = InFlight \cup {a} /\ AvailInv'
<1>0. queue_size \in Nat \ {0} /\ IDX \in Nat \ {0} /\ queue_size <= IDX
  BY Sizes
<1>1. avail \in [D -> D] /\ avail_idx \in 0 .. IDX - 1 /\ devpos \in 0 .. IDX - 1
  BY DEF DiskInv, QueueTypes
<1>2. PICK q : q = Pending
  OBVIOUS
<1>3. /\ q \in 0 .. IDX - 1 /\ (devpos + q) % queue_size = avail_idx % queue_size
      /\ q + 1 < IDX => (((avail_idx + 1) % IDX) - devpos) % IDX = q + 1
  BY <1>1, <1>2, AvailIndex DEF Pending
<1>4. q <= queue_size /\ Distinct(avail, devpos, q)
  BY <1>2 DEF DiskInv, AvailInv
<1>5. Queued = Entries(avail, devpos, q)
  <2>1. Pending \in Int /\ Pending <= queue_size
    BY <1>0, <1>2, <1>3, <1>4
  <2> QED BY <2>1, <1>2, QueuedRing
<1>6. q <= Cardinality(InFlight) /\ Cardinality(InFlight) \in Nat
  <2>1. IsFiniteSet(InFlight) /\ Cardinality(InFlight) \in Nat
    BY FlightBound DEF DiskInv, OwnInv
  <2>2. Entries(avail, devpos, q) \subseteq InFlight
    BY <1>5 DEF InFlight
  <2>3. q \in Nat /\ devpos \in Int
    BY <1>0, <1>1, <1>3
  <2> QED BY <2>1, <2>2, <2>3, <1>4, RingBound
<1>7. q \in 0 .. queue_size - 1 /\ q + 1 < IDX /\ q + 1 <= queue_size
  BY <1>0, <1>3, <1>6
<1>8. /\ avail' \in [D -> D]
      /\ Entries(avail', devpos, q + 1) = Entries(avail, devpos, q) \cup {a}
      /\ Distinct(avail', devpos, q + 1)
  <2>1. a \notin Entries(avail, devpos, q)
    BY <1>5 DEF InFlight
  <2>2. avail' = [avail EXCEPT ![(devpos + q) % queue_size] = a]
    BY <1>3, ZenonT(40)
  <2>3. devpos \in Int
    BY <1>0, <1>1
  <2>4. PICK w : w = avail'
    OBVIOUS
  <2>5. Pushed(avail, devpos, q, a, w)
    BY <2>1, <2>2, <2>3, <2>4, <1>1, <1>4, <1>7, Zenon DEF Pushed
  <2>6. /\ w \in [D -> D]
        /\ Entries(w, devpos, q + 1) = Entries(avail, devpos, q) \cup {a}
        /\ Distinct(w, devpos, q + 1)
    BY <2>5, RingPush
  <2> QED BY <2>4, <2>6, Zenon
<1>9. Pending' = q + 1
  BY <1>3, <1>7 DEF Pending
<1>10. Queued' = Queued \cup {a}
  <2>1. Queued' = {avail'[(devpos + k) % queue_size] :
                     k \in {j \in 0 .. queue_size - 1 : j < Pending'}}
    BY DEF Queued, Pending
  <2>2. Queued' = Entries(avail', devpos, q + 1)
    <3>1. q + 1 \in Int /\ q + 1 <= queue_size
      BY <1>0, <1>7
    <3>2. Queued' = {avail'[(devpos + k) % queue_size] :
                       k \in {j \in 0 .. queue_size - 1 : j < q + 1}}
      BY <2>1, <1>9
    <3>3. PICK w : w = avail'
      OBVIOUS
    <3>4. PICK v : v = q + 1
      OBVIOUS
    <3>5. {w[(devpos + k) % queue_size] : k \in {j \in 0 .. queue_size - 1 : j < v}}
            = Entries(w, devpos, v)
      BY <3>1, <3>4, RingPart
    <3> QED BY <3>2, <3>3, <3>4, <3>5, Zenon
  <2> QED BY <2>2, <1>5, <1>8, Zenon
<1>11. InFlight' = InFlight \cup {a}
  BY <1>10 DEF InFlight
<1>12. AvailInv'
  BY <1>7, <1>8, <1>9, <1>10 DEF DiskInv, AvailInv, InFlight
<1>13. avail_idx' \in 0 .. IDX - 1
  <2>1. avail_idx + 1 \in Int
    BY <1>0, <1>1
  <2> QED BY <2>1, <1>0, ModBasic, ZenonT(40)
<1> QED BY <1>8, <1>11, <1>12, <1>13

LEMMA SendStep ==
  ASSUME OneUser, DiskInv, NEW t \in THREAD, Send(t)
  PROVE  DiskInv'
<1> DEFINE d == th[t].d
<1>1. /\ OnCpu(t, "send") /\ th[t].pc = "send"
      /\ dnext' = [dnext EXCEPT ![d[1]] = d[2], ![d[2]] = d[3], ![d[3]] = 0]
      /\ dflag' = [dflag EXCEPT ![d[1]] = TRUE, ![d[2]] = TRUE, ![d[3]] = FALSE]
      /\ dlen' = [dlen EXCEPT ![d[1]] = "hdr", ![d[2]] = "data", ![d[3]] = "foot"]
      /\ avail' = [avail EXCEPT ![avail_idx % queue_size] = d[1]]
      /\ avail_idx' = (avail_idx + 1) % IDX
      /\ UNCHANGED <<conf, live, status, dev_lock, free_desc, desc_virt, used, used_idx,
                     devpos, devset, dstat, undone, seen_used, isr>>
  BY DEF Send, Chained, OnCpu, lvars
<1>a. /\ conf' = conf /\ live' = live /\ status' = status /\ dev_lock' = dev_lock
      /\ free_desc' = free_desc /\ desc_virt' = desc_virt /\ undone' = undone /\ dstat' = dstat
      /\ used' = used /\ used_idx' = used_idx /\ seen_used' = seen_used /\ isr' = isr
  BY <1>1
<1>b. OnCpu(t, "send") /\ th[t].pc = "send"
  BY <1>1, Zenon
<1>2. isr = -1 /\ \A u \in THREAD \ {t} : ~Busy(u) /\ ~Building(u)
  BY <1>b, AloneOnCpu, Zenon DEF DiskInv
<1>3. Building(t) /\ Built(t)
  BY <1>b, Zenon DEF Building, DiskInv, BuildInv
<1>4. PICK C : th \in [THREAD -> Thread(C)] /\ th[t] \in Thread(C)
  BY OwnRecord DEF DiskInv
<1>5. d \in Seq(D) /\ Len(d) = 3 /\ \A i, j \in 1 .. 3 : d[i] = d[j] => i = j
  BY <1>b, <1>3, <1>4, Zenon DEF Thread, Built
<1> DEFINE x == [th[t] EXCEPT !.left = @ - 1, !.d = <<>>, !.tmp = Idle.tmp,
                      !.cur = IF th[t].kind = "ext4" THEN th[t].req ELSE HEAD,
                      !.pc = IF th[t].kind = "ext4" THEN "sleep"
                             ELSE IF th[t].left > 1 THEN "alloc" ELSE "wait"]
<1>6. th' = [th EXCEPT ![t] = x]
  BY <1>4, Zenon DEF Send
<1>7. PICK B : B = C \cup REQ \cup {NULL, HEAD}
  BY ZenonT(40)
<1>8. /\ x \in Thread(B) /\ x.d = <<>> /\ x.req = th[t].req /\ x.kind = th[t].kind
      /\ x.pc = IF th[t].kind = "ext4" THEN "sleep" ELSE IF th[t].left > 1 THEN "alloc" ELSE "wait"
      /\ x.cur = IF th[t].kind = "ext4" THEN th[t].req ELSE HEAD
  <2>1. {"sleep", "alloc", "wait"} \subseteq Calls /\ Idle.tmp \in (0 .. queue_size) \X (0 .. queue_size)
    BY Sizes DEF Calls, Idle
  <2>2. <<>> \in Seq(D)
    OBVIOUS
  <2>3. PICK l, g, w, o : /\ l = th[t].left - 1 /\ o = Idle.tmp
                          /\ g = IF th[t].kind = "ext4" THEN th[t].req ELSE HEAD
                          /\ w = IF th[t].kind = "ext4" THEN "sleep"
                                 ELSE IF th[t].left > 1 THEN "alloc" ELSE "wait"
    OBVIOUS
  <2>4. th[t].req \in REQ \cup {NULL} /\ th[t].left \in Int /\ th[t] \in Thread(B)
    BY <1>4, <1>7, Zenon DEF Thread
  <2>5. l \in Int /\ g \in B /\ w \in Calls /\ o \in (0 .. queue_size) \X (0 .. queue_size)
    BY <2>1, <2>3, <2>4, <1>7
  <2>6. x = [th[t] EXCEPT !.left = l, !.d = <<>>, !.tmp = o, !.cur = g, !.pc = w]
    BY <2>3
  <2> HIDE DEF x
  <2>7. /\ x \in Thread(B) /\ x.d = <<>> /\ x.req = th[t].req /\ x.kind = th[t].kind
        /\ x.pc = w /\ x.cur = g
    BY <2>2, <2>4, <2>5, <2>6, ZenonT(40) DEF Thread
  <2> QED BY <2>3, <2>7, Zenon
<1> HIDE DEF x
<1>9. th'[t] = x /\ \A u \in THREAD \ {t} : th'[u] = th[u]
  BY <1>4, <1>6
<1>10. CallTypes'
  <2>1. \E A : th' \in [THREAD -> Thread(A)]
    <3>1. th \in [THREAD -> Thread(B)]
      BY <1>4, <1>7 DEF Thread
    <3> QED BY <3>1, <1>6, <1>8
  <2> QED BY <2>1, <1>a, Zenon DEF DiskInv, CallTypes
<1>11. PICK a, b, c : a = d[1] /\ b = d[2] /\ c = d[3]
  BY ZenonT(40)
<1>12. a \in D /\ b \in D /\ c \in D /\ a # b /\ a # c /\ b # c
  BY <1>5, <1>11
<1>13. Taken = {a, b, c}
  <2>1. \A u \in THREAD \ {t} : th[u].d = <<>>
    BY <1>2 DEF DiskInv, BuildInv
  <2>2. Taken = Collected(th)
    BY DEF Taken, Collected
  <2>3. Taken = {d[i] : i \in 1 .. Len(d)}
    BY <2>1, <2>2, CollectedOne
  <2>4. 1 .. Len(d) = {1, 2, 3}
    BY <1>5
  <2> HIDE DEF d
  <2> QED BY <2>3, <2>4, <1>11
<1>14. Taken' = {}
  <2>1. \A u \in THREAD : th'[u].d = <<>>
    BY <1>2, <1>8, <1>9 DEF DiskInv, BuildInv
  <2>2. Taken' = Collected(th')
    BY DEF Taken, Collected
  <2> QED BY <2>1, <2>2, CollectedNone, Zenon
<1>15. PICK S : FreeSet(dnext, free_desc, S) /\ Owned(dnext, S, {a, b, c}, InFlight)
  BY <1>13 DEF DiskInv, OwnInv
<1>16. dnext \in [D -> 0 .. queue_size] /\ dflag \in [D -> BOOLEAN]
       /\ dlen \in [D -> {"none", "hdr", "data", "foot"}] /\ desc_virt \in [D -> REQ \cup {NULL}]
  BY Zenon DEF DiskInv, QueueTypes
<1>17. dnext' = [dnext EXCEPT ![a] = b, ![b] = c, ![c] = 0]
  BY <1>1, <1>11
<1>18. /\ dnext' \in [D -> 0 .. queue_size]
       /\ Owned(dnext', S, {}, InFlight \cup {a})
       /\ a \notin InFlight /\ dnext'[a] = b /\ dnext'[b] = c
       /\ \A h \in InFlight : dnext'[h] = dnext[h] /\ dnext'[dnext[h]] = dnext[dnext[h]]
       /\ \A y \in S : dnext'[y] = dnext[y]
  <2>1. PICK d2 : d2 = dnext'
    OBVIOUS
  <2>2. d2 = [dnext EXCEPT ![a] = b, ![b] = c, ![c] = 0]
    BY <2>1, <1>17
  <2>3. Owned(dnext, S, {a, b, c}, InFlight)
    BY <1>15
  <2>4. /\ d2 \in [D -> 0 .. queue_size]
        /\ Owned(d2, S, {}, InFlight \cup {a})
        /\ a \notin InFlight /\ d2[a] = b /\ d2[b] = c
        /\ \A h \in InFlight : d2[h] = dnext[h] /\ d2[dnext[h]] = dnext[dnext[h]]
        /\ \A y \in S : d2[y] = dnext[y]
    <3>1. PICK dn, I : dn = dnext /\ I = InFlight
      OBVIOUS
    <3>2. dn \in [D -> 0 .. queue_size] /\ Owned(dn, S, {a, b, c}, I)
      BY <3>1, <2>3, <1>16
    <3>3. Linked(dn, S, I, a, b, c, d2)
      BY <3>1, <3>2, <2>2, <1>12 DEF Linked
    <3>4. /\ d2 \in [D -> 0 .. queue_size]
          /\ Owned(d2, S, {}, I \cup {a})
          /\ a \notin I /\ Parts(d2, a) = {a, b, c} /\ d2[a] = b /\ d2[b] = c
          /\ \A h \in I : /\ d2[h] = dn[h] /\ d2[dn[h]] = dn[dn[h]]
                          /\ Parts(d2, h) = Parts(dn, h)
          /\ \A y \in S : d2[y] = dn[y]
      BY <3>3, OwnSend, ZenonT(40)
    <3> QED BY <3>1, <3>4
  <2> QED BY <2>1, <2>4
<1>19. /\ avail' \in [D -> D] /\ avail_idx' \in 0 .. IDX - 1
       /\ InFlight' = InFlight \cup {a} /\ AvailInv'
  <2>1. 3 * Cardinality(InFlight) + 3 <= queue_size
    <3>1. Cardinality({a, b, c}) = 3
      BY <1>12, Triple, ZenonT(40)
    <3> QED BY <3>1, <1>15, FlightBound
  <2> QED BY <2>1, <1>1, <1>11, <1>12, <1>18, AvailPush, Zenon
<1>20. QueueTypes'
  <2>1. dflag' \in [D -> BOOLEAN] /\ dlen' \in [D -> {"none", "hdr", "data", "foot"}]
    BY <1>1, <1>11, <1>12, <1>16, ZenonT(40)
  <2> QED BY <2>1, <1>1, <1>18, <1>19, Zenon DEF DiskInv, QueueTypes
<1>21. UsedInv'
  BY <1>a, ZenonT(40) DEF DiskInv, UsedInv, Base, Done
<1>22. OwnInv'
  <2>1. FreeSet(dnext', free_desc', S)
    BY <1>a, <1>15, <1>18, ChainFrame, ZenonT(40)
  <2> QED BY <2>1, <1>14, <1>18, <1>19, ZenonT(40) DEF OwnInv
<1>23. \A u \in THREAD : ~Building(u)' /\ th'[u].d = <<>>
  <2>1. \A u \in THREAD \ {t} : th[u].d = <<>>
    BY <1>2, Zenon DEF DiskInv, BuildInv
  <2>2. ~Building(t)' /\ th'[t].d = <<>>
    BY <1>8, <1>9 DEF Building
  <2>3. \A u \in THREAD \ {t} : ~Building(u)'
    BY <1>2, <1>9, Zenon DEF Building
  <2> QED BY <2>1, <2>2, <2>3, <1>9, Zenon
<1>24. BuildInv'
  BY <1>23, Zenon DEF BuildInv
<1>25. TurnInv'
  <2>1. /\ \A u \in THREAD : th[u].pc # "idle" => th[u].kind \in conf.users
        /\ \A u \in THREAD : th[u].pc # "idle" /\ th[u].kind = "ext4" => dev_lock = u
    BY Zenon DEF TurnInv, DiskInv
  <2>2. conf' = conf /\ dev_lock' = dev_lock /\ isr' = -1 /\ th'[t].kind = th[t].kind /\ th[t].pc # "idle"
    BY <1>a, <1>b, <1>2, <1>8, <1>9
  <2>3. \A u \in THREAD : th'[u].kind = th[u].kind /\ (th'[u].pc # "idle" => th[u].pc # "idle")
    BY <2>2, <1>9, Zenon
  <2>4. \A u \in THREAD \ {t} : ~Busy(u)'
    BY <1>2, <1>9, Zenon DEF Busy
  <2>5. \A u, v \in THREAD : Busy(u)' /\ Busy(v)' => u = v
    BY <2>4, ZenonT(40)
  <2> QED BY <2>1, <2>2, <2>3, <2>5, Zenon DEF TurnInv
<1>26. desc_virt[a] = th[t].req /\ desc_virt[b] = th[t].req /\ desc_virt[c] = th[t].req
  BY <1>3, <1>5, <1>11 DEF Built
<1>27. ServeInv'
  <2>1. /\ dflag'[a] /\ dflag'[b] /\ dlen'[a] = "hdr" /\ dlen'[c] = "foot"
        /\ \A y \in D \ {a, b, c} : dflag'[y] = dflag[y] /\ dlen'[y] = dlen[y]
    BY <1>1, <1>11, <1>12, <1>16, Zenon
  <2>2. \A h \in InFlight : /\ h \in D \ {a, b, c} /\ dnext[h] \in D \ {a, b, c}
                            /\ dnext[dnext[h]] \in D \ {a, b, c}
    BY <1>15, ZenonT(40) DEF Owned, Whole, Parts
  <2>3. \A h \in InFlight :
          /\ dflag'[h] /\ dflag'[dnext'[h]] /\ dlen'[h] = "hdr" /\ dlen'[dnext'[dnext'[h]]] = "foot"
          /\ desc_virt'[dnext'[h]] = desc_virt'[h] /\ desc_virt'[dnext'[dnext'[h]]] = desc_virt'[h]
    <3> SUFFICES ASSUME NEW h \in InFlight
                 PROVE  /\ dflag'[h] /\ dflag'[dnext'[h]] /\ dlen'[h] = "hdr"
                        /\ dlen'[dnext'[dnext'[h]]] = "foot"
                        /\ desc_virt'[dnext'[h]] = desc_virt'[h]
                        /\ desc_virt'[dnext'[dnext'[h]]] = desc_virt'[h]
      BY Zenon
    <3>1. dnext'[h] = dnext[h] /\ dnext'[dnext[h]] = dnext[dnext[h]]
      BY <1>18, Zenon
    <3>2. /\ dflag[h] /\ dflag[dnext[h]] /\ dlen[h] = "hdr" /\ dlen[dnext[dnext[h]]] = "foot"
          /\ desc_virt[dnext[h]] = desc_virt[h] /\ desc_virt[dnext[dnext[h]]] = desc_virt[h]
      BY Zenon DEF DiskInv, ServeInv, Serves
    <3>3. desc_virt' = desc_virt
      BY <1>a, Zenon
    <3>4. \A y \in D \ {a, b, c} : dflag'[y] = dflag[y] /\ dlen'[y] = dlen[y]
      BY <2>1
    <3> HIDE DEF d
    <3>5. dflag'[h] /\ dflag'[dnext[h]] /\ dlen'[h] = "hdr" /\ dlen'[dnext[dnext[h]]] = "foot"
      BY <3>2, <3>4, <2>2
    <3> QED BY <3>1, <3>2, <3>3, <3>5
  <2>4. /\ dflag'[a] /\ dflag'[dnext'[a]] /\ dlen'[a] = "hdr" /\ dlen'[dnext'[dnext'[a]]] = "foot"
        /\ desc_virt'[dnext'[a]] = desc_virt'[a] /\ desc_virt'[dnext'[dnext'[a]]] = desc_virt'[a]
    BY <2>1, <1>a, <1>18, <1>26, ZenonT(40)
  <2>5. \A h \in InFlight : desc_virt[h] # th[t].req
    BY <1>3, ZenonT(40) DEF Built
  <2>6. \A g, h \in InFlight \cup {a} : desc_virt'[g] = desc_virt'[h] => g = h
    <3>1. \A g, h \in InFlight : desc_virt[g] = desc_virt[h] => g = h
      BY Zenon DEF DiskInv, ServeInv, Serves
    <3>2. desc_virt' = desc_virt
      BY <1>a
    <3> HIDE DEF d
    <3> QED BY <3>1, <3>2, <2>5, <1>26, Zenon
  <2>7. Serves(dnext', dflag', dlen', desc_virt', InFlight')
    BY <2>3, <2>4, <2>6, <1>19 DEF Serves
  <2>8. th[t].req \in live /\ status[th[t].req] = "INIT"
    BY <1>3, ZenonT(40) DEF Built
  <2>9. Open(desc_virt', live', status', InFlight')
    <3>1. \A h \in InFlight : desc_virt[h] \in live /\ status[desc_virt[h]] = "INIT"
      BY Zenon DEF DiskInv, ServeInv, Open
    <3>2. desc_virt' = desc_virt /\ live' = live /\ status' = status
      BY <1>a
    <3> QED BY <3>1, <3>2, <2>8, <1>19, <1>26, Zenon DEF Open
  <2> QED BY <2>7, <2>9 DEF ServeInv
<1>28. RequestInv'
  <2>0. RequestInv
    BY Zenon DEF DiskInv
  <2>a. /\ live' = live /\ status' = status /\ undone' = undone /\ dstat' = dstat
        /\ desc_virt' = desc_virt
    BY <1>a
  <2>1. \A r \in live' : status'[r] = "INIT" => \E h \in InFlight' : desc_virt'[h] = r
    <3>1. \A r \in live : status[r] = "INIT" => \/ \E h \in InFlight : desc_virt[h] = r
                                                \/ th[t].req = r
      BY <2>0, <1>2, Zenon DEF RequestInv
    <3> QED BY <3>1, <2>a, <1>19, <1>26, Zenon
  <2>2. \A h \in undone' : dstat'[desc_virt'[h]] # "INIT"
    BY <2>0, <2>a, Zenon DEF RequestInv
  <2>3. th'[t].pc = "sleep" => th'[t].cur = th[t].req /\ th'[t].req = th[t].req
    BY <1>8, <1>9, ZenonT(40)
  <2>4. ASSUME NEW u \in THREAD, th'[u].pc = "sleep"
        PROVE  /\ \E h \in InFlight' : desc_virt'[h] = th'[u].cur
               /\ th'[u].kind = "ext4" => th'[u].cur = th'[u].req
    <3>1. CASE u = t
      BY <3>1, <2>3, <2>4, <2>a, <1>19, <1>26, Zenon
    <3>2. CASE u # t
      <4>1. th'[u] = th[u]
        BY <3>2, <1>9, Zenon
      <4>2. /\ \E h \in InFlight : desc_virt[h] = th'[u].cur
            /\ th'[u].kind = "ext4" => th'[u].cur = th'[u].req
        BY <4>1, <2>0, <2>4, ZenonT(40) DEF RequestInv
      <4> QED BY <4>2, <2>a, <1>19, Zenon
    <3> QED BY <3>1, <3>2
  <2>6. ASSUME NEW u \in THREAD, th'[u].kind = "ext4", th'[u].pc = "woken"
        PROVE  \A h \in InFlight' : desc_virt'[h] # th'[u].req
    <3>1. u # t
      BY <2>6, <1>8, <1>9
    <3>2. th[u].pc = "woken" /\ th[u].kind = "ext4"
      BY <2>6, <3>1, <1>9
    <3> QED BY <3>1, <3>2, <1>b, SameKind, Zenon
  <2> QED BY <2>1, <2>2, <2>4, <2>6, Zenon DEF RequestInv
<1> QED BY <1>10, <1>19, <1>20, <1>21, <1>22, <1>24, <1>25, <1>27, <1>28, Zenon DEF DiskInv
=============================================================================
