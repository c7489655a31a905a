---------------------------- MODULE BuddyProofs ----------------------------
(* The page allocator keeps every page owned exactly once, for every number  *)
(* of orders, range, alignment and set of callers, as long as a caller is    *)
(* not preempted inside the allocator.                                       *)
EXTENDS Buddy, NatFacts, TLAPS

(* The header of a block on a list names that list.                          *)
ListHeaders == \A k \in Orders : \A p \in free[k] : hord[p] = k

(* One caller at a time is in the allocator, and what it has picked is there. *)
OpInv ==
  /\ \A t, u \in THREADS : op[t] # Idle /\ op[u] # Idle => t = u
  /\ \A t \in THREADS :
       /\ op[t].pc = "idle" => op[t] = Idle
       /\ op[t].pc = "remove" => op[t].addr \in free[op[t].at]
       /\ op[t].pc \in {"remove", "split"} => op[t].order <= op[t].at

IInv == /\ TypeOK
        /\ Partition
        /\ HeaderTrusted
        /\ ListHeaders
        /\ NrFreeExact
        /\ PageOrderKept
        /\ OpInv

-----------------------------------------------------------------------------
(* Replacing some claims by others on the same pages keeps a partition.      *)
LEMMA ExactReplace ==
  ASSUME NEW S, NEW P, NEW C, NEW D,
         Exact(S, P),
         C \subseteq S,
         \A d \in D : \A x \in Span(d) : \E c \in C : x \in Span(c),
         \A c \in C : \A x \in Span(c) : \E d \in D : x \in Span(d),
         \A d, e \in D : \A x \in Span(d) : x \in Span(e) => d = e
  PROVE  Exact((S \ C) \cup D, P)
<1> DEFINE T == (S \ C) \cup D
<1>1. \A c \in T : \A x \in Span(c) : x \in P
  BY DEF Exact
<1>2. \A x \in P : \E c \in T : x \in Span(c)
  <2> SUFFICES ASSUME NEW x \in P PROVE \E c \in T : x \in Span(c)
    OBVIOUS
  <2>1. PICK c \in S : x \in Span(c)
    BY DEF Exact
  <2>2. CASE c \in C
    BY <2>1, <2>2
  <2>3. CASE c \notin C
    BY <2>1, <2>3
  <2> QED BY <2>2, <2>3
<1>3. \A c, d \in T : \A x \in Span(c) : x \in Span(d) => c = d
  <2> SUFFICES ASSUME NEW c \in T, NEW d \in T, NEW x \in Span(c), x \in Span(d)
               PROVE  c = d
    OBVIOUS
  <2>1. CASE c \in D /\ d \in D
    BY <2>1
  <2>2. CASE c \in S \ C /\ d \in S \ C
    BY <2>2 DEF Exact
  <2>3. ASSUME NEW a \in D, NEW b \in S \ C, x \in Span(a), x \in Span(b)
        PROVE  FALSE
    <3>1. PICK e \in C : x \in Span(e)
      BY <2>3
    <3>2. e = b
      BY <3>1, <2>3 DEF Exact
    <3> QED BY <3>1, <3>2
  <2> QED BY <2>1, <2>2, <2>3
<1> QED BY <1>1, <1>2, <1>3, Zenon DEF Exact

LEMMA ExactRelabel ==
  ASSUME NEW S, NEW P, NEW c \in S, NEW d, NEW T,
         Exact(S, P), Span(c) = Span(d), T = (S \ {c}) \cup {d}
  PROVE  Exact(T, P)
<1> DEFINE C == {c}
           D == {d}
<1>1. /\ C \subseteq S
      /\ \A e \in D : \A x \in Span(e) : \E f \in C : x \in Span(f)
      /\ \A f \in C : \A x \in Span(f) : \E e \in D : x \in Span(e)
      /\ \A e, f \in D : \A x \in Span(e) : x \in Span(f) => e = f
  OBVIOUS
<1>2. T = (S \ C) \cup D
  OBVIOUS
<1> HIDE DEF C, D
<1>3. Exact((S \ C) \cup D, P)
  BY <1>1, ExactReplace, Zenon
<1> QED BY <1>2, <1>3

(* What linking and unlinking a block do to the claims of the free lists.    *)
LEMMA FreeClaim ==
  ASSUME NEW f, NEW c
  PROVE  c \in FreeClaims(f) <=> \E k \in Orders : \E a \in f[k] : c = <<a, k, "free">>
<1> DEFINE A(k) == {<<a, k, "free">> : a \in f[k]}
<1>1. c \in FreeClaims(f) <=> \E k \in Orders : c \in A(k)
  <2> DEFINE U == {A(k) : k \in Orders}
  <2>1. c \in UNION U <=> \E k \in Orders : c \in A(k)
    <3>1. \A x : x \in U <=> \E k \in Orders : x = A(k)
      OBVIOUS
    <3>2. c \in UNION U <=> \E x \in U : c \in x
      BY Zenon
    <3> HIDE DEF U, A
    <3> QED BY <3>1, <3>2, Zenon
  <2> QED BY <2>1 DEF FreeClaims
<1>2. \A k \in Orders : c \in A(k) <=> \E a \in f[k] : c = <<a, k, "free">>
  OBVIOUS
<1> HIDE DEF A
<1> QED BY <1>1, <1>2

LEMMA FreeClaimsAdd ==
  ASSUME NEW f \in [Orders -> SUBSET Nat], NEW a \in Nat, NEW k \in Orders
  PROVE  FreeClaims([f EXCEPT ![k] = @ \cup {a}]) = FreeClaims(f) \cup {<<a, k, "free">>}
<1> DEFINE g == [f EXCEPT ![k] = @ \cup {a}]
<1>1. \A j \in Orders : \A x : x \in g[j] <=> x \in f[j] \/ (j = k /\ x = a)
  OBVIOUS
<1> HIDE DEF g
<1>2. ASSUME NEW c
      PROVE  c \in FreeClaims(g) <=> c \in FreeClaims(f) \cup {<<a, k, "free">>}
  <2>1. ASSUME c \in FreeClaims(g) PROVE c \in FreeClaims(f) \cup {<<a, k, "free">>}
    <3>0. PICK j \in Orders : \E x \in g[j] : c = <<x, j, "free">>
      BY <2>1, FreeClaim
    <3>1. PICK x \in g[j] : c = <<x, j, "free">>
      BY <3>0
    <3>2. CASE x \in f[j]
      BY <3>1, <3>2, FreeClaim
    <3>3. CASE j = k /\ x = a
      BY <3>1, <3>3
    <3> QED BY <3>1, <3>2, <3>3, <1>1
  <2>2. ASSUME c \in FreeClaims(f) PROVE c \in FreeClaims(g)
    <3>0. PICK j \in Orders : \E x \in f[j] : c = <<x, j, "free">>
      BY <2>2, FreeClaim
    <3>1. PICK x \in f[j] : c = <<x, j, "free">>
      BY <3>0
    <3>2. x \in g[j]
      BY <3>1, <1>1
    <3> QED BY <3>1, <3>2, FreeClaim
  <2>3. <<a, k, "free">> \in FreeClaims(g)
    <3>1. a \in g[k]
      BY <1>1
    <3> QED BY <3>1, FreeClaim
  <2> QED BY <2>1, <2>2, <2>3
<1> QED BY <1>2, Zenon DEF g

LEMMA FreeClaimsRemove ==
  ASSUME NEW f \in [Orders -> SUBSET Nat], NEW a \in Nat, NEW k \in Orders,
         \A j \in Orders : a \in f[j] => j = k
  PROVE  FreeClaims([j \in Orders |-> f[j] \ {a}]) = FreeClaims(f) \ {<<a, k, "free">>}
<1> DEFINE g == [j \in Orders |-> f[j] \ {a}]
<1>1. \A j \in Orders : \A x : x \in g[j] <=> x \in f[j] /\ x # a
  OBVIOUS
<1> HIDE DEF g
<1>2. ASSUME NEW c
      PROVE  c \in FreeClaims(g) <=> c \in FreeClaims(f) \ {<<a, k, "free">>}
  <2>1. ASSUME c \in FreeClaims(g) PROVE c \in FreeClaims(f) \ {<<a, k, "free">>}
    <3>0. PICK j \in Orders : \E x \in g[j] : c = <<x, j, "free">>
      BY <2>1, FreeClaim
    <3>1. PICK x \in g[j] : c = <<x, j, "free">>
      BY <3>0
    <3>2. x \in f[j] /\ x # a
      BY <3>1, <1>1
    <3> QED BY <3>1, <3>2, FreeClaim
  <2>2. ASSUME c \in FreeClaims(f), c # <<a, k, "free">> PROVE c \in FreeClaims(g)
    <3>0. PICK j \in Orders : \E x \in f[j] : c = <<x, j, "free">>
      BY <2>2, FreeClaim
    <3>1. PICK x \in f[j] : c = <<x, j, "free">>
      BY <3>0
    <3>2. x # a
      BY <3>1, <2>2
    <3>3. x \in g[j]
      BY <3>1, <3>2, <1>1
    <3> QED BY <3>1, <3>3, FreeClaim
  <2> QED BY <2>1, <2>2
<1> QED BY <1>2, Zenon DEF g


-----------------------------------------------------------------------------
(* What a caller carries, when the others are idle.                          *)
LEMMA CarriedOne ==
  ASSUME NEW o, NEW t \in THREADS,
         \A u \in THREADS : u # t => o[u].pc = "idle"
  PROVE  /\ o[t].pc \in {"idle", "remove"} => Carried(o) = {}
         /\ o[t].pc = "split" => Carried(o) = {<<o[t].addr, o[t].at + 1, "carried">>}
         /\ o[t].pc = "coalesce" => Carried(o) = {<<o[t].addr, o[t].order, "carried">>}
<1>1. ASSUME o[t].pc \in {"idle", "remove"} PROVE Carried(o) = {}
  <2>1. {u \in THREADS : o[u].pc = "split"} = {}
    BY <1>1
  <2>2. {u \in THREADS : o[u].pc = "coalesce"} = {}
    BY <1>1
  <2> QED BY <2>1, <2>2 DEF Carried
<1>2. ASSUME o[t].pc = "split"
      PROVE  Carried(o) = {<<o[t].addr, o[t].at + 1, "carried">>}
  <2>1. {u \in THREADS : o[u].pc = "split"} = {t}
    BY <1>2
  <2>2. {u \in THREADS : o[u].pc = "coalesce"} = {}
    BY <1>2
  <2> QED BY <2>1, <2>2, Zenon DEF Carried
<1>3. ASSUME o[t].pc = "coalesce"
      PROVE  Carried(o) = {<<o[t].addr, o[t].order, "carried">>}
  <2>1. {u \in THREADS : o[u].pc = "split"} = {}
    BY <1>3
  <2>2. {u \in THREADS : o[u].pc = "coalesce"} = {t}
    BY <1>3
  <2> QED BY <2>1, <2>2, Zenon DEF Carried
<1> QED BY <1>1, <1>2, <1>3

LEMMA Alone ==
  ASSUME OpInv, NEW t \in THREADS, op[t] # Idle \/ \A u \in THREADS : op[u] = Idle
  PROVE  \A u \in THREADS : u # t => op[u] = Idle
BY DEF OpInv

(* Arithmetic of blocks.                                                     *)
LEMMA PagesNat ==
  ASSUME TypeOK
  PROVE  /\ PageBase \in Nat /\ pageEnd \in Nat /\ fill \in Nat
         /\ PageBase <= fill /\ fill <= pageEnd
         /\ Pages \subseteq Nat
         /\ PageBase .. fill - 1 \subseteq Pages
<1>1. PageBase \in Nat /\ pageEnd \in Nat /\ PageBase <= pageEnd
  BY BuddyAssumption DEF TypeOK
<1>2. fill \in PageBase .. pageEnd
  BY DEF TypeOK
<1> QED BY <1>1, <1>2 DEF Pages

LEMMA SpanIs ==
  ASSUME NEW a \in Nat, NEW k \in 0 .. MAX_ORDER, NEW w
  PROVE  /\ \A x : x \in Span(<<a, k, w>>) <=>
                     x \in Int /\ a <= x /\ x < a + BLOCK_NPAGES[k]
         /\ a \in Span(<<a, k, w>>)
<1>1. BLOCK_NPAGES[k] \in Nat \ {0}
  BY BuddyAssumption
<1> QED BY <1>1 DEF Span

LEMMA OrderFacts ==
  ASSUME NEW k \in Orders
  PROVE  /\ k \in 0 .. MAX_ORDER /\ k + 1 \in 0 .. MAX_ORDER /\ k \in Nat
         /\ BLOCK_NPAGES[k] \in Nat \ {0}
         /\ BLOCK_NPAGES[k + 1] = 2 * BLOCK_NPAGES[k]
BY BuddyAssumption DEF Orders

(* A block of the partition starts with a page of the range, and no other    *)
(* claim starts there.                                                       *)
LEMMA ClaimFacts ==
  ASSUME TypeOK, Partition, NEW a \in Nat, NEW k \in 0 .. MAX_ORDER, NEW w,
         <<a, k, w>> \in Claims
  PROVE  /\ a \in Pages
         /\ \A j \in Orders : \A v : <<a, j, v>> \in Claims => j = k /\ v = w
<1>1. a \in Span(<<a, k, w>>)
  BY SpanIs
<1>2. a \in Pages
  BY <1>1, PagesNat DEF Partition, Exact
<1>3. ASSUME NEW j \in Orders, NEW v, <<a, j, v>> \in Claims PROVE j = k /\ v = w
  <2>1. a \in Span(<<a, j, v>>)
    BY SpanIs, OrderFacts
  <2>2. <<a, j, v>> = <<a, k, w>>
    BY <1>1, <2>1, <1>3, Zenon DEF Partition, Exact
  <2> QED BY <2>2
<1> QED BY <1>2, <1>3

LEMMA InFreeClaims ==
  ASSUME NEW k \in Orders, NEW a \in free[k]
  PROVE  <<a, k, "free">> \in Claims
<1>1. <<a, k, "free">> \in FreeClaims(free)
  BY FreeClaim
<1> QED BY <1>1 DEF Claims


-----------------------------------------------------------------------------
(* add_first and add_last of a block that is on no list.                     *)
LEMMA LinkStep ==
  ASSUME TypeOK, ListHeaders, NrFreeExact, pageEnd' = pageEnd,
         NEW a \in Pages, NEW k \in Orders, \A j \in Orders : a \notin free[j],
         Link(a, k)
  PROVE  /\ free' \in [Orders -> SUBSET Pages]
         /\ nr_free' \in [Orders -> Nat]
         /\ hord' \in [Pages -> Orders \cup {-1}]
         /\ ListHeaders'
         /\ NrFreeExact'
         /\ FreeClaims(free') = FreeClaims(free) \cup {<<a, k, "free">>}
         /\ \A j \in Orders : free[j] \subseteq free'[j]
         /\ a \in free'[k] /\ hord'[a] = k
         /\ \A p \in Pages : p # a => hord'[p] = hord[p]
<1>0. /\ free \in [Orders -> SUBSET Pages] /\ nr_free \in [Orders -> Nat]
      /\ hord \in [Pages -> Orders \cup {-1}]
  BY DEF TypeOK
<1>1. /\ free' = [free EXCEPT ![k] = @ \cup {a}]
      /\ nr_free' = [nr_free EXCEPT ![k] = @ + 1]
      /\ hord' = [hord EXCEPT ![a] = k]
  BY DEF Link
<1>2. /\ free' \in [Orders -> SUBSET Pages]
      /\ \A j \in Orders : free[j] \subseteq free'[j]
      /\ a \in free'[k]
  BY <1>0, <1>1
<1>3. nr_free' \in [Orders -> Nat]
  BY <1>0, <1>1
<1>4. /\ hord' \in [Pages -> Orders \cup {-1}]
      /\ hord'[a] = k
      /\ \A p \in Pages : p # a => hord'[p] = hord[p]
  BY <1>0, <1>1
<1>5. ListHeaders'
  <2> SUFFICES ASSUME NEW j \in Orders, NEW p \in free'[j] PROVE hord'[p] = j
    BY DEF ListHeaders
  <2>1. CASE p = a
    <3>1. j = k
      BY <2>1, <1>0, <1>1
    <3> QED BY <3>1, <2>1, <1>4
  <2>2. CASE p # a
    <3>1. p \in free[j] /\ p \in Pages
      BY <2>2, <1>0, <1>1
    <3> QED BY <3>1, <2>2, <1>4 DEF ListHeaders
  <2> QED BY <2>1, <2>2
<1>6. NrFreeExact'
  <2> SUFFICES ASSUME NEW j \in Orders PROVE nr_free'[j] = Cardinality(free'[j])
    BY DEF NrFreeExact
  <2>1. CASE j # k
    BY <2>1, <1>0, <1>1 DEF NrFreeExact
  <2>2. CASE j = k
    <3>1. IsFiniteSet(Pages)
      BY FinInterval, PagesNat DEF Pages
    <3>2. IsFiniteSet(free[k])
      BY <3>1, <1>0, FinSubset
    <3>3. Cardinality(free[k] \cup {a}) = Cardinality(free[k]) + 1
      BY <3>2, FinAdd, Zenon
    <3>4. free'[k] = free[k] \cup {a} /\ nr_free'[k] = nr_free[k] + 1
      BY <1>0, <1>1
    <3> QED BY <2>2, <3>3, <3>4 DEF NrFreeExact
  <2> QED BY <2>1, <2>2
<1>7. FreeClaims(free') = FreeClaims(free) \cup {<<a, k, "free">>}
  BY <1>0, <1>1, PagesNat, FreeClaimsAdd, Zenon
<1> QED BY <1>2, <1>3, <1>4, <1>5, <1>6, <1>7

(* remove of a block that is on a list.                                      *)
LEMMA RemoveStep ==
  ASSUME TypeOK, ListHeaders, NrFreeExact, HeaderTrusted, pageEnd' = pageEnd,
         NEW k \in Orders, NEW a \in free[k], remove(a)
  PROVE  /\ free' \in [Orders -> SUBSET Pages]
         /\ nr_free' \in [Orders -> Nat]
         /\ hord' \in [Pages -> Orders \cup {-1}]
         /\ magic' \in [Pages -> BOOLEAN]
         /\ ListHeaders'
         /\ NrFreeExact'
         /\ HeaderTrusted'
         /\ FreeClaims(free') = FreeClaims(free) \ {<<a, k, "free">>}
<1>0. /\ free \in [Orders -> SUBSET Pages] /\ nr_free \in [Orders -> Nat]
      /\ hord \in [Pages -> Orders \cup {-1}] /\ magic \in [Pages -> BOOLEAN]
  BY DEF TypeOK
<1>a. a \in Pages /\ hord[a] = k /\ \A j \in Orders : a \in free[j] => j = k
  BY <1>0 DEF ListHeaders
<1>b. Pages' = Pages
  BY DEF Pages
<1>1. /\ free' = [j \in Orders |-> free[j] \ {a}]
      /\ nr_free' = [j \in Orders |-> nr_free[j] - (IF hord[a] = j THEN 1 ELSE 0)]
      /\ hord' = [hord EXCEPT ![a] = -1]
      /\ magic' = [magic EXCEPT ![a] = FALSE]
  BY DEF remove, Cleared
<1>2. free' \in [Orders -> SUBSET Pages]
  BY <1>0, <1>1
<1>3. IsFiniteSet(Pages)
  BY FinInterval, PagesNat DEF Pages
<1>4. \A j \in Orders : nr_free'[j] = Cardinality(free'[j]) /\ nr_free'[j] \in Nat
  <2> SUFFICES ASSUME NEW j \in Orders
               PROVE  nr_free'[j] = Cardinality(free'[j]) /\ nr_free'[j] \in Nat
    OBVIOUS
  <2>1. CASE j # k
    <3>1. free'[j] = free[j] /\ nr_free'[j] = nr_free[j]
      BY <2>1, <1>0, <1>1, <1>a
    <3> QED BY <3>1, <1>0 DEF NrFreeExact
  <2>2. CASE j = k
    <3>1. IsFiniteSet(free[k])
      BY <1>3, <1>0, FinSubset
    <3>2. /\ Cardinality(free[k] \ {a}) = Cardinality(free[k]) - 1
          /\ IsFiniteSet(free[k] \ {a})
      BY <3>1, FinRemove
    <3>3. Cardinality(free[k] \ {a}) \in Nat
      BY <3>2, FinType
    <3>4. free'[k] = free[k] \ {a} /\ nr_free'[k] = nr_free[k] - 1
      BY <1>0, <1>1, <1>a
    <3> QED BY <2>2, <3>2, <3>3, <3>4 DEF NrFreeExact
  <2> QED BY <2>1, <2>2
<1>5. nr_free' \in [Orders -> Nat]
  BY <1>4, <1>1
<1>6. hord' \in [Pages -> Orders \cup {-1}]
  BY <1>0, <1>1
<1>7. magic' \in [Pages -> BOOLEAN]
  BY <1>0, <1>1
<1>8. ListHeaders'
  <2> SUFFICES ASSUME NEW j \in Orders, NEW p \in free'[j] PROVE hord'[p] = j
    BY DEF ListHeaders
  <2>1. p \in free[j] /\ p # a /\ p \in Pages
    BY <1>0, <1>1
  <2> QED BY <2>1, <1>0, <1>1 DEF ListHeaders
<1>9. HeaderTrusted'
  <2> SUFFICES ASSUME NEW p \in Pages, magic'[p]
               PROVE  hord'[p] \in Orders /\ p \in free'[hord'[p]]
    BY <1>b DEF HeaderTrusted
  <2>1. p # a
    BY <1>0, <1>1
  <2>2. magic[p] /\ hord'[p] = hord[p]
    BY <2>1, <1>0, <1>1
  <2>3. hord[p] \in Orders /\ p \in free[hord[p]]
    BY <2>2 DEF HeaderTrusted
  <2> QED BY <2>1, <2>2, <2>3, <1>1
<1>10. FreeClaims(free') = FreeClaims(free) \ {<<a, k, "free">>}
  BY <1>0, <1>1, <1>a, PagesNat, FreeClaimsRemove, Zenon
<1>11. NrFreeExact'
  BY <1>4 DEF NrFreeExact
<1> QED BY <1>2, <1>5, <1>6, <1>7, <1>8, <1>9, <1>10, <1>11


(* Linking keeps headers trustworthy, whether it marks the header or not.    *)
LEMMA LinkTrusted ==
  ASSUME TypeOK, ListHeaders, NrFreeExact, HeaderTrusted, pageEnd' = pageEnd,
         NEW a \in Pages, NEW k \in Orders, \A j \in Orders : a \notin free[j],
         add_first(a, k) \/ add_last(a, k)
  PROVE  magic' \in [Pages -> BOOLEAN] /\ HeaderTrusted'
<1>0. magic \in [Pages -> BOOLEAN] /\ hord \in [Pages -> Orders \cup {-1}]
  BY DEF TypeOK
<1>1. Link(a, k) /\ magic' \in {magic, [magic EXCEPT ![a] = TRUE]}
  BY DEF add_first, add_last
<1>2. /\ \A j \in Orders : free[j] \subseteq free'[j]
      /\ a \in free'[k] /\ hord'[a] = k
      /\ \A p \in Pages : p # a => hord'[p] = hord[p]
  BY <1>1, LinkStep
<1>3. magic' \in [Pages -> BOOLEAN]
  BY <1>0, <1>1, Zenon
<1>4. HeaderTrusted'
  <2> SUFFICES ASSUME NEW p \in Pages, magic'[p]
               PROVE  hord'[p] \in Orders /\ p \in free'[hord'[p]]
    BY DEF HeaderTrusted, Pages
  <2>1. CASE p = a
    BY <2>1, <1>2
  <2>2. CASE p # a
    <3>1. magic[p]
      BY <2>2, <1>0, <1>1
    <3> QED BY <3>1, <2>2, <1>2 DEF HeaderTrusted
  <2> QED BY <2>1, <2>2
<1> QED BY <1>3, <1>4

(* A partition grows with the range.                                         *)
LEMMA ExactGrow ==
  ASSUME NEW S, NEW B \in Nat, NEW f \in Nat, NEW n \in Nat, NEW d, B <= f,
         Exact(S, B .. f - 1),
         \A x : x \in Span(d) <=> x \in Int /\ f <= x /\ x < f + n
  PROVE  Exact(S \cup {d}, B .. f + n - 1)
<1> DEFINE T == S \cup {d}
<1>1. \A c \in T : \A x \in Span(c) : x \in B .. f + n - 1
  <2>1. \A c \in S : \A x \in Span(c) : x \in B .. f - 1
    BY DEF Exact
  <2>2. \A x \in Span(d) : x \in B .. f + n - 1
    OBVIOUS
  <2> QED BY <2>1, <2>2
<1>2. \A x \in B .. f + n - 1 : \E c \in T : x \in Span(c)
  <2> SUFFICES ASSUME NEW x \in B .. f + n - 1 PROVE \E c \in T : x \in Span(c)
    OBVIOUS
  <2>1. CASE x < f
    <3>1. x \in B .. f - 1
      BY <2>1
    <3> QED BY <3>1 DEF Exact
  <2>2. CASE ~(x < f)
    <3>1. x \in Span(d)
      BY <2>2
    <3> QED BY <3>1
  <2> QED BY <2>1, <2>2
<1>3. \A c, e \in T : \A x \in Span(c) : x \in Span(e) => c = e
  <2>1. \A c \in S : \A x \in Span(c) : x \notin Span(d)
    <3> SUFFICES ASSUME NEW c \in S, NEW x \in Span(c) PROVE x \notin Span(d)
      OBVIOUS
    <3>1. x \in B .. f - 1
      BY DEF Exact
    <3> QED BY <3>1
  <2>2. \A c, e \in S : \A x \in Span(c) : x \in Span(e) => c = e
    BY DEF Exact
  <2> QED BY <2>1, <2>2
<1> HIDE DEF T
<1>4. Exact(T, B .. f + n - 1)
  BY <1>1, <1>2, <1>3, Zenon DEF Exact
<1> QED BY <1>4 DEF T

-----------------------------------------------------------------------------
LEMMA InitIInv == Init => IInv
<1> SUFFICES ASSUME Init PROVE IInv
  OBVIOUS
<1>0. MAX_ORDER \in Nat \ {0} /\ PageBase \in Nat /\ pageEnd \in Nat /\ PageBase <= pageEnd
  BY BuddyAssumption DEF Init
<1>1. TypeOK
  <2>1. todo \in [Orders -> Nat]
    <3> DEFINE n == pageEnd - PageBase
    <3>1. n \in Nat
      BY <1>0
    <3> HIDE DEF n
    <3>2. ASSUME NEW k \in Orders PROVE InitCount(n, k) \in Nat
      <4> DEFINE sq == MAX_ORDER * BLOCK_NPAGES[MAX_ORDER - 1]
                 rest == IF InitSquare(n) THEN n - sq ELSE n
                 part == rest \div BLOCK_NPAGES[k]
      <4>1. /\ BLOCK_NPAGES[k] \in Nat \ {0} /\ BLOCK_NPAGES[MAX_ORDER - 1] \in Nat
            /\ BLOCK_NPAGES[MAX_ORDER - 1 - k] \in Nat
        BY <1>0, BuddyAssumption DEF Orders
      <4>2. sq \in Nat
        BY <4>1, <1>0
      <4>3. rest \in Nat
        BY <4>2, <3>1 DEF InitSquare
      <4> HIDE DEF rest
      <4>4. part \in Nat
        BY <4>1, <4>3
      <4> HIDE DEF part
      <4>5. part % 2 \in Nat
        BY <4>4
      <4>6. InitCount(n, k) = (IF InitSquare(n) THEN BLOCK_NPAGES[MAX_ORDER - 1 - k] ELSE 0)
                                + (IF k = MAX_ORDER - 1 THEN part ELSE part % 2)
        BY DEF InitCount, part, rest
      <4> QED BY <4>1, <4>4, <4>5, <4>6
    <3>3. todo = [k \in Orders |-> InitCount(n, k)]
      BY DEF Init, n
    <3> QED BY <3>2, <3>3
  <2>2. fill \in PageBase .. pageEnd
    BY <1>0 DEF Init
  <2>3. 0 \in Orders
    BY <1>0 DEF Orders
  <2>4. Idle \in OpType
    BY <2>3 DEF Idle, OpType
  <2>5. /\ free \in [Orders -> SUBSET Pages] /\ nr_free \in [Orders -> Nat]
        /\ magic \in [Pages -> BOOLEAN] /\ hord \in [Pages -> Orders \cup {-1}]
        /\ porder \in [Pages -> Orders]
    BY <2>3 DEF Init
  <2> QED BY <2>1, <2>2, <2>4, <2>5 DEF Init, TypeOK
<1>2. Partition
  <2>1. FreeClaims(free) = {}
    <3>1. ASSUME NEW c, c \in FreeClaims(free) PROVE FALSE
      BY <3>1, FreeClaim DEF Init
    <3> QED BY <3>1, Zenon
  <2>2. Carried(op) = {}
    <3>1. \A u \in THREADS : op[u].pc = "idle"
      BY DEF Init, Idle
    <3>2. {u \in THREADS : op[u].pc = "split"} = {} /\ {u \in THREADS : op[u].pc = "coalesce"} = {}
      BY <3>1
    <3> QED BY <3>2 DEF Carried
  <2>3. Claims = {}
    BY <2>1, <2>2, Zenon DEF Claims, Init
  <2>4. PageBase .. fill - 1 = {}
    BY <1>0 DEF Init
  <2> QED BY <2>3, <2>4 DEF Partition, Exact
<1>3. HeaderTrusted /\ ListHeaders /\ PageOrderKept
  BY DEF Init, HeaderTrusted, ListHeaders, PageOrderKept
<1>4. NrFreeExact
  BY FinEmpty DEF Init, NrFreeExact
<1>5. OpInv
  BY DEF Init, OpInv, Idle
<1> QED BY <1>1, <1>2, <1>3, <1>4, <1>5 DEF IInv


-----------------------------------------------------------------------------
(* Steps that only change the phase.                                         *)
LEMMA PhaseStep ==
  ASSUME IInv, phase' \in {"init", "ready", "assert", "oom", "wild"},
         UNCHANGED <<pageEnd, fill, todo, free, nr_free, magic, hord, porder, held, op>>
  PROVE  IInv'
<1>1. TypeOK'
  BY DEF IInv, TypeOK, Pages
<1>2. Partition'
  BY DEF IInv, Partition, Claims
<1>3. HeaderTrusted' /\ ListHeaders' /\ NrFreeExact' /\ PageOrderKept'
  BY DEF IInv, HeaderTrusted, ListHeaders, NrFreeExact, PageOrderKept, Pages
<1>4. OpInv'
  BY DEF IInv, OpInv
<1> QED BY <1>1, <1>2, <1>3, <1>4 DEF IInv

LEMMA InitBlockStep ==
  ASSUME IInv, NEW k \in Orders, InitBlock(k)
  PROVE  IInv'
<1>1. CASE fill + BLOCK_NPAGES[k] > pageEnd
  <2>1. phase' = "assert"
    BY <1>1 DEF InitBlock
  <2>2. UNCHANGED <<pageEnd, fill, todo, free, nr_free, magic, hord, porder, held, op>>
    BY <1>1 DEF InitBlock
  <2> QED BY <2>1, <2>2, PhaseStep
<1>2. CASE ~(fill + BLOCK_NPAGES[k] > pageEnd)
  <2>0. TypeOK /\ Partition /\ HeaderTrusted /\ ListHeaders /\ NrFreeExact /\ PageOrderKept /\ OpInv
    BY DEF IInv
  <2>1. /\ add_last(fill, k)
        /\ fill' = fill + BLOCK_NPAGES[k]
        /\ todo' = [todo EXCEPT ![k] = @ - 1]
        /\ todo[k] > 0
        /\ phase' = phase /\ pageEnd' = pageEnd /\ porder' = porder
        /\ held' = held /\ op' = op
    BY <1>2 DEF InitBlock
  <2>2. Link(fill, k)
    BY <2>1 DEF add_last
  <2>3. /\ PageBase \in Nat /\ pageEnd \in Nat /\ fill \in Nat /\ PageBase <= fill
        /\ fill <= pageEnd /\ Pages \subseteq Nat
    BY <2>0, PagesNat
  <2>n. BLOCK_NPAGES[k] \in Nat \ {0} /\ k \in 0 .. MAX_ORDER
    BY OrderFacts
  <2>4. fill \in Pages
    BY <2>3, <2>n, <1>2 DEF Pages
  <2>5. \A j \in Orders : fill \notin free[j]
    <3> SUFFICES ASSUME NEW j \in Orders, fill \in free[j] PROVE FALSE
      OBVIOUS
    <3>1. <<fill, j, "free">> \in Claims
      BY InFreeClaims
    <3>2. fill \in Span(<<fill, j, "free">>)
      BY <2>3, SpanIs, OrderFacts
    <3>3. fill \in PageBase .. fill - 1
      BY <3>1, <3>2, <2>0 DEF Partition, Exact
    <3> QED BY <3>3, <2>3
  <2>6. /\ free' \in [Orders -> SUBSET Pages]
        /\ nr_free' \in [Orders -> Nat]
        /\ hord' \in [Pages -> Orders \cup {-1}]
        /\ ListHeaders'
        /\ NrFreeExact'
        /\ FreeClaims(free') = FreeClaims(free) \cup {<<fill, k, "free">>}
        /\ \A j \in Orders : free[j] \subseteq free'[j]
    BY <2>0, <2>1, <2>2, <2>4, <2>5, LinkStep
  <2>7. magic' \in [Pages -> BOOLEAN] /\ HeaderTrusted'
    BY <2>0, <2>1, <2>4, <2>5, LinkTrusted
  <2>8. Pages' = Pages
    BY <2>1 DEF Pages
  <2>9. TypeOK'
    <3>1. todo' \in [Orders -> Nat]
      <4>1. todo \in [Orders -> Nat]
        BY <2>0 DEF TypeOK
      <4> QED BY <4>1, <2>1
    <3>2. fill' \in PageBase .. pageEnd'
      BY <2>1, <2>3, <2>n, <1>2
    <3>3. /\ phase \in {"init", "ready", "assert", "oom", "wild"} /\ pageEnd \in PageEnds
          /\ porder \in [Pages -> Orders] /\ held \subseteq Pages \X Orders \X THREADS
          /\ op \in [THREADS -> OpType]
      BY <2>0 DEF TypeOK
    <3> QED BY <3>1, <3>2, <3>3, <2>1, <2>6, <2>7, <2>8, Zenon DEF TypeOK
  <2>10. Partition'
    <3> DEFINE d == <<fill, k, "free">>
    <3>1. Claims' = Claims \cup {d}
      BY <2>6, <2>1, Zenon DEF Claims
    <3>2. \A x : x \in Span(d) <=> x \in Int /\ fill <= x /\ x < fill + BLOCK_NPAGES[k]
      BY <2>3, <2>n, SpanIs
    <3>3. Exact(Claims, PageBase .. fill - 1)
      BY <2>0 DEF Partition
    <3> HIDE DEF d
    <3>4. Exact(Claims \cup {d}, PageBase .. fill + BLOCK_NPAGES[k] - 1)
      BY <3>2, <3>3, <2>3, <2>n, ExactGrow, Zenon
    <3>5. Exact(Claims', PageBase .. fill' - 1)
      <4>1. fill' - 1 = fill + BLOCK_NPAGES[k] - 1
        BY <2>1, <2>3, <2>n
      <4> HIDE DEF Claims
      <4> QED BY <3>1, <3>4, <4>1
    <3> QED BY <3>5 DEF Partition, Exact, Span
  <2>11. PageOrderKept'
    BY <2>0, <2>1 DEF PageOrderKept
  <2>12. OpInv'
    <3>1. op \in [THREADS -> OpType]
      BY <2>0 DEF TypeOK
    <3> QED BY <3>1, <2>0, <2>1, <2>6 DEF OpInv, OpType
  <2> QED BY <2>6, <2>7, <2>9, <2>10, <2>11, <2>12 DEF IInv
<1> QED BY <1>1, <1>2

(* An operation of t while the others are idle.                              *)
LEMMA OpStep ==
  ASSUME NEW t \in THREADS, NEW o \in OpType, OpInv, op \in [THREADS -> OpType],
         \A u \in THREADS : u # t => op[u] = Idle,
         op' = [op EXCEPT ![t] = o],
         o.pc = "idle" => o = Idle,
         o.pc = "remove" => o.addr \in free'[o.at],
         o.pc \in {"remove", "split"} => o.order <= o.at
  PROVE  /\ OpInv'
         /\ op' \in [THREADS -> OpType]
         /\ op'[t] = o
         /\ \A u \in THREADS : u # t => op'[u].pc = "idle"
<1>1. op'[t] = o /\ op' \in [THREADS -> OpType]
  OBVIOUS
<1>2. \A u \in THREADS : u # t => op'[u] = Idle
  OBVIOUS
<1>3. \A u \in THREADS : u # t => op'[u].pc = "idle"
  BY <1>2 DEF Idle
<1>4. OpInv'
  BY <1>1, <1>2, <1>3 DEF OpInv
<1> QED BY <1>1, <1>3, <1>4

(* The types that an operation leaves to its other steps.                    *)
LEMMA OpTypes ==
  ASSUME TypeOK,
         phase' = phase, pageEnd' = pageEnd, fill' = fill, todo' = todo,
         free' \in [Orders -> SUBSET Pages], nr_free' \in [Orders -> Nat],
         magic' \in [Pages -> BOOLEAN], hord' \in [Pages -> Orders \cup {-1}],
         porder' \in [Pages -> Orders], held' \subseteq Pages \X Orders \X THREADS,
         op' \in [THREADS -> OpType]
  PROVE  TypeOK'
BY DEF TypeOK, Pages

LEMMA AllocPickStep ==
  ASSUME ~Preempt, IInv, NEW t \in THREADS, NEW n \in Requests, AllocPick(t, n)
  PROVE  IInv'
<1>0. TypeOK /\ Partition /\ HeaderTrusted /\ ListHeaders /\ NrFreeExact /\ PageOrderKept /\ OpInv
  BY DEF IInv
<1>t. /\ op \in [THREADS -> OpType]
      /\ free \in [Orders -> SUBSET Pages] /\ Pages \subseteq Nat
  BY <1>0, PagesNat DEF TypeOK
<1>m. MAX_ORDER \in Nat
  BY BuddyAssumption
<1>1. /\ get_order(n) \in Orders
      /\ op[t] = Idle
      /\ UNCHANGED <<phase, pageEnd, fill, todo, free, nr_free, magic, hord, porder, held>>
  BY DEF AllocPick, MayEnter, initVars
<1>2. PICK i \in get_order(n) .. MAX_ORDER - 1 :
        \E b \in free[i] : op' = [op EXCEPT ![t] =
           [pc |-> "remove", addr |-> b, at |-> i, order |-> get_order(n)]]
  BY Zenon DEF AllocPick
<1>3. PICK b \in free[i] : op' = [op EXCEPT ![t] =
           [pc |-> "remove", addr |-> b, at |-> i, order |-> get_order(n)]]
  BY <1>2, Zenon
<1>4. i \in Orders /\ get_order(n) <= i /\ i \in Nat /\ get_order(n) \in Nat
  BY <1>1, <1>2, <1>m DEF Orders
<1>5. b \in Nat
  BY <1>t, <1>4
<1> DEFINE o == [pc |-> "remove", addr |-> b, at |-> i, order |-> get_order(n)]
<1>6. o \in OpType
  BY <1>1, <1>4, <1>5 DEF OpType
<1>7. \A u \in THREADS : op[u] = Idle
  BY DEF AllocPick, MayEnter
<1>8. /\ OpInv' /\ op' \in [THREADS -> OpType] /\ op'[t] = o
      /\ \A u \in THREADS : u # t => op'[u].pc = "idle"
  <2>1. o.pc = "remove" /\ o.addr \in free'[o.at] /\ o.order <= o.at
    BY <1>1, <1>4
  <2>2. op' = [op EXCEPT ![t] = o]
    BY <1>3
  <2> HIDE DEF o
  <2> QED BY <1>0, <1>t, <1>6, <1>7, <2>1, <2>2, OpStep, Zenon
<1>9. Carried(op) = {} /\ Carried(op') = {}
  <2>1. \A u \in THREADS : op[u].pc = "idle"
    BY <1>7 DEF Idle
  <2>2. Carried(op) = {}
    BY <2>1, CarriedOne
  <2>3. op'[t].pc = "remove"
    BY <1>8
  <2> QED BY <2>2, <2>3, <1>8, CarriedOne
<1>10. Partition'
  BY <1>0, <1>1, <1>9 DEF Partition, Claims
<1>11. TypeOK'
  BY <1>0, <1>1, <1>8 DEF TypeOK, Pages
<1>12. HeaderTrusted' /\ ListHeaders' /\ NrFreeExact' /\ PageOrderKept'
  BY <1>0, <1>1 DEF HeaderTrusted, ListHeaders, NrFreeExact, PageOrderKept, Pages
<1> QED BY <1>8, <1>10, <1>11, <1>12 DEF IInv


-----------------------------------------------------------------------------
LEMMA HeldFacts ==
  ASSUME TypeOK, NEW d \in held
  PROVE  /\ d = <<d[1], d[2], d[3]>>
         /\ d[1] \in Pages /\ d[1] \in Nat /\ d[2] \in Orders /\ d[3] \in THREADS
         /\ d[3] # "free" /\ d[3] # "carried"
         /\ d[1] \in Span(d)
         /\ d \in Claims
<1>1. d \in Pages \X Orders \X THREADS
  BY DEF TypeOK
<1>2. d = <<d[1], d[2], d[3]>> /\ d[1] \in Pages /\ d[2] \in Orders /\ d[3] \in THREADS
  BY <1>1
<1>3. d[1] \in Nat
  BY <1>2, PagesNat
<1>4. d[1] \in Span(<<d[1], d[2], d[3]>>)
  BY <1>2, <1>3, SpanIs, OrderFacts
<1>5. d[3] # "free" /\ d[3] # "carried"
  BY <1>2, BuddyAssumption
<1> QED BY <1>2, <1>3, <1>4, <1>5 DEF Claims

(* No caller's block starts at a page that another claim covers.             *)
LEMMA HeldElsewhere ==
  ASSUME TypeOK, Partition, NEW c \in Claims, c \notin held, NEW x \in Span(c)
  PROVE  \A d \in held : d[1] # x
BY HeldFacts DEF Partition, Exact

LEMMA ReturnStep ==
  ASSUME TypeOK, PageOrderKept, NEW t \in THREADS, NEW a \in Pages, NEW k \in Orders,
         \A d \in held : d[1] # a, Return(t, a, k)
  PROVE  /\ porder' \in [Pages -> Orders]
         /\ held' \subseteq Pages \X Orders \X THREADS
         /\ held' = held \cup {<<a, k, t>>}
         /\ PageOrderKept'
<1>0. porder \in [Pages -> Orders] /\ held \subseteq Pages \X Orders \X THREADS
  BY DEF TypeOK
<1>1. /\ porder' = [porder EXCEPT ![a] = k]
      /\ held' = held \cup {<<a, k, t>>}
  BY DEF Return, PageOrderOf
<1>2. porder' \in [Pages -> Orders]
  BY <1>0, <1>1
<1>3. held' \subseteq Pages \X Orders \X THREADS
  BY <1>0, <1>1
<1>4. PageOrderKept'
  <2> SUFFICES ASSUME NEW d \in held' PROVE porder'[d[1]] = d[2]
    BY DEF PageOrderKept
  <2>1. CASE d = <<a, k, t>>
    BY <2>1, <1>0, <1>1
  <2>2. CASE d \in held
    <3>1. d[1] \in Pages /\ d[1] # a
      BY <2>2, HeldFacts
    <3> QED BY <3>1, <2>2, <1>0, <1>1 DEF PageOrderKept
  <2> QED BY <2>1, <2>2, <1>1
<1> QED BY <1>1, <1>2, <1>3, <1>4

(* The entry to the splitting loop, and a turn of it.                        *)
LEMMA SplitOp ==
  ASSUME NEW o \in OpType, o.order <= o.at, o.at # o.order, NEW b \in Nat
  PROVE  /\ o.at - 1 \in Orders /\ o.order <= o.at - 1 /\ (o.at - 1) + 1 = o.at
         /\ LET q == [o EXCEPT !.pc = "split", !.at = o.at - 1]
            IN  /\ q \in OpType /\ q.pc = "split" /\ q.order <= q.at
                /\ q.addr = o.addr /\ q.at + 1 = o.at
         /\ LET q == [o EXCEPT !.addr = b, !.at = o.at - 1]
            IN  /\ q \in OpType /\ q.pc = o.pc /\ q.order <= q.at
                /\ q.addr = b /\ q.at + 1 = o.at
<1>1. o.at \in Orders /\ o.order \in Orders /\ o.addr \in Nat
  BY DEF OpType
<1>2. ASSUME NEW x \in Orders, NEW y \in Orders, y <= x, x # y
      PROVE  x - 1 \in Orders /\ y <= x - 1 /\ (x - 1) + 1 = x
  <2>1. MAX_ORDER \in Nat
    BY BuddyAssumption
  <2> QED BY <1>2, <2>1 DEF Orders
<1>3. o.at - 1 \in Orders /\ o.order <= o.at - 1 /\ (o.at - 1) + 1 = o.at
  BY <1>1, <1>2
<1> QED BY <1>1, <1>3, Zenon DEF OpType

LEMMA AllocRemoveStep ==
  ASSUME ~Preempt, IInv, NEW t \in THREADS, AllocRemove(t)
  PROVE  IInv'
<1>0. TypeOK /\ Partition /\ HeaderTrusted /\ ListHeaders /\ NrFreeExact /\ PageOrderKept /\ OpInv
  BY DEF IInv
<1> DEFINE o == op[t]
           a == o.addr
           i == o.at
           c == <<a, i, "free">>
<1>1. /\ phase' = phase /\ pageEnd' = pageEnd /\ fill' = fill /\ todo' = todo
      /\ o.pc = "remove" /\ remove(a)
  BY DEF AllocRemove, initVars
<1>2. /\ op \in [THREADS -> OpType] /\ o \in OpType
      /\ porder \in [Pages -> Orders] /\ held \subseteq Pages \X Orders \X THREADS
  BY <1>0 DEF TypeOK
<1>3. /\ a \in Nat /\ i \in Orders /\ o.order \in Orders /\ a \in free[i] /\ o.order <= i
  BY <1>0, <1>1, <1>2 DEF OpInv, OpType
<1>4. \A u \in THREADS : u # t => op[u] = Idle
  <2>1. op[t] # Idle
    BY <1>1 DEF Idle
  <2> QED BY <2>1, <1>0, Alone
<1>5. Carried(op) = {}
  <2>1. \A u \in THREADS : u # t => op[u].pc = "idle"
    BY <1>4 DEF Idle
  <2> QED BY <2>1, <1>1, CarriedOne
<1>6. /\ free' \in [Orders -> SUBSET Pages] /\ nr_free' \in [Orders -> Nat]
      /\ hord' \in [Pages -> Orders \cup {-1}] /\ magic' \in [Pages -> BOOLEAN]
      /\ ListHeaders' /\ NrFreeExact' /\ HeaderTrusted'
      /\ FreeClaims(free') = FreeClaims(free) \ {c}
  BY <1>0, <1>1, <1>3, RemoveStep
<1>7. c \in Claims /\ c \in FreeClaims(free)
  BY <1>3, InFreeClaims, FreeClaim
<1>8. c \notin held
  BY <1>0, HeldFacts
<1>9. a \in Pages /\ \A d \in held : d[1] # a
  <2>1. a \in Span(c) /\ i \in 0 .. MAX_ORDER
    BY <1>3, SpanIs, OrderFacts
  <2>2. a \in Pages
    BY <1>0, <1>3, <1>7, <2>1, ClaimFacts
  <2> QED BY <2>1, <2>2, <1>0, <1>7, <1>8, HeldElsewhere
<1>p. Claims = FreeClaims(free) \cup held
  BY <1>5 DEF Claims
<1>q. ASSUME NEW w, Claims' = (Claims \ {c}) \cup {<<a, i, w>>} PROVE Partition'
  <2> DEFINE d == <<a, i, w>>
  <2>1. Span(c) = Span(d)
    BY DEF Span
  <2>2. Exact(Claims, PageBase .. fill - 1)
    BY <1>0 DEF Partition
  <2>3. Claims' = (Claims \ {c}) \cup {d}
    BY <1>q
  <2> HIDE DEF c, d
  <2>4. Exact(Claims', PageBase .. fill - 1)
    BY <1>7, <2>1, <2>2, <2>3, ExactRelabel
  <2> QED BY <2>4, <1>1 DEF Partition, Exact, Span
<1>10. CASE i = o.order
  <2>1. Return(t, a, i)
    BY <1>10, <1>1 DEF AllocRemove
  <2>2. /\ porder' \in [Pages -> Orders] /\ held' \subseteq Pages \X Orders \X THREADS
        /\ held' = held \cup {<<a, i, t>>} /\ PageOrderKept'
    BY <2>1, <1>0, <1>3, <1>9, ReturnStep
  <2>3. op' = [op EXCEPT ![t] = Idle]
    BY <2>1 DEF Return
  <2>4. Idle \in OpType /\ Idle.pc = "idle"
    BY <1>3, BuddyAssumption DEF Idle, OpType, Orders
  <2>5. /\ OpInv' /\ op' \in [THREADS -> OpType] /\ op'[t] = Idle
        /\ \A u \in THREADS : u # t => op'[u].pc = "idle"
    BY <1>0, <1>2, <1>4, <2>3, <2>4, OpStep, Zenon
  <2>6. Carried(op') = {}
    BY <2>4, <2>5, CarriedOne
  <2>7. Claims' = (Claims \ {c}) \cup {<<a, i, t>>}
    <3>1. Claims' = FreeClaims(free') \cup held'
      BY <2>6 DEF Claims
    <3> HIDE DEF c
    <3> QED BY <3>1, <1>p, <1>6, <1>8, <2>2
  <2>8. Partition'
    BY <2>7, <1>q
  <2>9. TypeOK'
    BY <1>0, <1>1, <1>6, <2>2, <2>5, OpTypes
  <2> QED BY <1>6, <2>2, <2>5, <2>8, <2>9 DEF IInv
<1>11. CASE i # o.order
  <2> DEFINE q == [o EXCEPT !.pc = "split", !.at = o.at - 1]
  <2>1. op' = [op EXCEPT ![t] = q] /\ porder' = porder /\ held' = held
    BY <1>11, <1>1 DEF AllocRemove
  <2>2. /\ q \in OpType /\ q.pc = "split" /\ q.order <= q.at
        /\ q.addr = a /\ q.at + 1 = i
    BY <1>2, <1>3, <1>11, SplitOp, Zenon
  <2> HIDE DEF q
  <2>5. /\ OpInv' /\ op' \in [THREADS -> OpType] /\ op'[t] = q
        /\ \A u \in THREADS : u # t => op'[u].pc = "idle"
    BY <1>0, <1>2, <1>4, <2>1, <2>2, OpStep, Zenon
  <2>6. Carried(op') = {<<a, i, "carried">>}
    <3>1. Carried(op') = {<<op'[t].addr, op'[t].at + 1, "carried">>}
      BY <2>2, <2>5, CarriedOne
    <3> QED BY <3>1, <2>2, <2>5
  <2>7. Claims' = (Claims \ {c}) \cup {<<a, i, "carried">>}
    <3>1. Claims' = FreeClaims(free') \cup held \cup {<<a, i, "carried">>}
      BY <2>6, <2>1 DEF Claims
    <3> HIDE DEF c
    <3> QED BY <3>1, <1>p, <1>6, <1>8
  <2>8. Partition'
    BY <2>7, <1>q
  <2>9. TypeOK'
    BY <1>0, <1>1, <1>2, <1>6, <2>1, <2>5, OpTypes
  <2>10. PageOrderKept'
    BY <1>0, <2>1 DEF PageOrderKept
  <2> QED BY <1>6, <2>10, <2>5, <2>8, <2>9 DEF IInv
<1> QED BY <1>10, <1>11


(* The two halves of a block cover it, one page each time.                   *)
LEMMA ExactHalves ==
  ASSUME NEW S, NEW P, NEW a \in Nat, NEW k \in Orders, NEW u, NEW v, NEW w,
         NEW b, b = a + BLOCK_NPAGES[k],
         Exact(S, P), <<a, k + 1, w>> \in S
  PROVE  /\ Exact((S \ {<<a, k + 1, w>>}) \cup {<<a, k, u>>, <<b, k, v>>}, P)
         /\ b \in Nat /\ b \in Span(<<a, k + 1, w>>)
<1> DEFINE c == <<a, k + 1, w>>
           d == <<a, k, u>>
           e == <<b, k, v>>
           n == BLOCK_NPAGES[k]
<1>1. n \in Nat \ {0} /\ BLOCK_NPAGES[k + 1] = 2 * n /\ k \in 0 .. MAX_ORDER /\ k + 1 \in 0 .. MAX_ORDER
  BY OrderFacts
<1>2. b \in Nat
  BY <1>1
<1>3. \A x : x \in Span(c) <=> x \in Int /\ a <= x /\ x < a + 2 * n
  BY <1>1, SpanIs
<1>4. \A x : x \in Span(d) <=> x \in Int /\ a <= x /\ x < a + n
  BY <1>1, SpanIs
<1>5. \A x : x \in Span(e) <=> x \in Int /\ a + n <= x /\ x < a + n + n
  BY <1>1, <1>2, SpanIs
<1> HIDE DEF c, d, e, n
<1>6. b \in Span(c)
  BY <1>1, <1>3 DEF n
<1>7. \A x \in Span(d) : x \in Span(c) /\ x \notin Span(e)
  BY <1>1, <1>3, <1>4, <1>5
<1>8. \A x \in Span(e) : x \in Span(c)
  BY <1>1, <1>3, <1>5
<1>9. \A x \in Span(c) : x \in Span(d) \/ x \in Span(e)
  BY <1>1, <1>3, <1>4, <1>5
<1> DEFINE C == {c}
           D == {d, e}
<1>10. /\ C \subseteq S
       /\ \A f \in D : \A x \in Span(f) : \E g \in C : x \in Span(g)
       /\ \A g \in C : \A x \in Span(g) : \E f \in D : x \in Span(f)
       /\ \A f, g \in D : \A x \in Span(f) : x \in Span(g) => f = g
  <2>1. C \subseteq S
    BY DEF c
  <2> QED BY <2>1, <1>7, <1>8, <1>9
<1> HIDE DEF C, D
<1>11. Exact((S \ C) \cup D, P)
  BY <1>10, ExactReplace, Zenon
<1> QED BY <1>2, <1>6, <1>11 DEF C, D, c, d, e

(* Two buddies make a block of the next order.                               *)
LEMMA ExactMerge ==
  ASSUME NEW S, NEW P, NEW a \in Nat, NEW k \in Orders, NEW c, NEW d, NEW w,
         NEW b, b = a + BLOCK_NPAGES[k],
         Exact(S, P), c \in S, d \in S,
         Span(c) = Span(<<a, k, w>>), Span(d) = Span(<<b, k, w>>)
  PROVE  Exact((S \ {c, d}) \cup {<<a, k + 1, w>>}, P)
<1> DEFINE e == <<a, k + 1, w>>
           n == BLOCK_NPAGES[k]
<1>1. n \in Nat \ {0} /\ BLOCK_NPAGES[k + 1] = 2 * n /\ k \in 0 .. MAX_ORDER /\ k + 1 \in 0 .. MAX_ORDER
  BY OrderFacts
<1>2. b \in Nat
  BY <1>1
<1>3. \A x : x \in Span(e) <=> x \in Int /\ a <= x /\ x < a + 2 * n
  BY <1>1, SpanIs
<1>4. \A x : x \in Span(c) <=> x \in Int /\ a <= x /\ x < a + n
  BY <1>1, SpanIs
<1>5. \A x : x \in Span(d) <=> x \in Int /\ a + n <= x /\ x < a + n + n
  BY <1>1, <1>2, SpanIs
<1> HIDE DEF e, n
<1>6. \A x \in Span(e) : x \in Span(c) \/ x \in Span(d)
  BY <1>1, <1>3, <1>4, <1>5
<1>7. \A x \in Span(c) : x \in Span(e)
  BY <1>1, <1>3, <1>4
<1>8. \A x \in Span(d) : x \in Span(e)
  BY <1>1, <1>3, <1>5
<1> DEFINE C == {c, d}
           D == {e}
<1>10. /\ C \subseteq S
       /\ \A f \in D : \A x \in Span(f) : \E g \in C : x \in Span(g)
       /\ \A g \in C : \A x \in Span(g) : \E f \in D : x \in Span(f)
       /\ \A f, g \in D : \A x \in Span(f) : x \in Span(g) => f = g
  BY <1>6, <1>7, <1>8
<1> HIDE DEF C, D
<1>11. Exact((S \ C) \cup D, P)
  BY <1>10, ExactReplace, Zenon
<1> QED BY <1>11 DEF C, D, e

LEMMA SplitStepStep ==
  ASSUME ~Preempt, IInv, NEW t \in THREADS, SplitStep(t)
  PROVE  IInv'
<1>0. TypeOK /\ Partition /\ HeaderTrusted /\ ListHeaders /\ NrFreeExact /\ PageOrderKept /\ OpInv
  BY DEF IInv
<1> DEFINE o == op[t]
           a == o.addr
           k == o.at
           up == a + BLOCK_NPAGES[k]
           c == <<a, k + 1, "carried">>
<1>1. /\ phase' = phase /\ pageEnd' = pageEnd /\ fill' = fill /\ todo' = todo
      /\ o.pc = "split" /\ add_first(a, k)
  BY DEF SplitStep, initVars
<1>2. /\ op \in [THREADS -> OpType] /\ o \in OpType
      /\ porder \in [Pages -> Orders] /\ held \subseteq Pages \X Orders \X THREADS
  BY <1>0 DEF TypeOK
<1>3. a \in Nat /\ k \in Orders /\ o.order \in Orders /\ o.order <= k
  BY <1>0, <1>1, <1>2 DEF OpInv, OpType
<1>4. \A u \in THREADS : u # t => op[u] = Idle
  <2>1. op[t] # Idle
    BY <1>1 DEF Idle
  <2> QED BY <2>1, <1>0, Alone
<1>5. Carried(op) = {c}
  <2>1. \A u \in THREADS : u # t => op[u].pc = "idle"
    BY <1>4 DEF Idle
  <2> QED BY <2>1, <1>1, CarriedOne
<1>6. c \in Claims
  BY <1>5 DEF Claims
<1>7. c \notin held /\ c \notin FreeClaims(free)
  BY <1>0, HeldFacts, FreeClaim
<1>8. a \in Pages /\ \A j \in Orders : a \notin free[j]
  <2>1. k + 1 \in 0 .. MAX_ORDER
    BY <1>3, OrderFacts
  <2>2. a \in Pages /\ \A j \in Orders : \A v : <<a, j, v>> \in Claims => v = "carried"
    BY <1>0, <1>3, <1>6, <2>1, ClaimFacts
  <2> QED BY <2>2, InFreeClaims, Zenon
<1>9. Link(a, k)
  BY <1>1 DEF add_first
<1>10. /\ free' \in [Orders -> SUBSET Pages] /\ nr_free' \in [Orders -> Nat]
       /\ hord' \in [Pages -> Orders \cup {-1}]
       /\ ListHeaders' /\ NrFreeExact'
       /\ FreeClaims(free') = FreeClaims(free) \cup {<<a, k, "free">>}
  BY <1>0, <1>1, <1>3, <1>8, <1>9, LinkStep
<1>11. magic' \in [Pages -> BOOLEAN] /\ HeaderTrusted'
  BY <1>0, <1>1, <1>3, <1>8, LinkTrusted
<1>12. Exact(Claims, PageBase .. fill - 1)
  BY <1>0 DEF Partition
<1>13. up \in Nat /\ up \in Span(c)
  BY <1>3, <1>6, <1>12, ExactHalves, Zenon
<1>14. up \in Pages /\ \A d \in held : d[1] # up
  <2>1. up \in Pages
    BY <1>0, <1>6, <1>12, <1>13, PagesNat DEF Exact
  <2> QED BY <2>1, <1>0, <1>6, <1>7, <1>13, HeldElsewhere
<1>p. ASSUME NEW v, Claims' = (Claims \ {c}) \cup {<<a, k, "free">>, <<up, k, v>>}
      PROVE  Partition'
  <2>1. Exact((Claims \ {c}) \cup {<<a, k, "free">>, <<up, k, v>>}, PageBase .. fill - 1)
    BY <1>3, <1>6, <1>12, ExactHalves, Zenon
  <2>2. Exact(Claims', PageBase .. fill - 1)
    BY <2>1, <1>p
  <2> QED BY <2>2, <1>1 DEF Partition, Exact, Span
<1>15. CASE k = o.order
  <2>1. Return(t, up, k)
    BY <1>15, <1>1 DEF SplitStep
  <2>2. /\ porder' \in [Pages -> Orders] /\ held' \subseteq Pages \X Orders \X THREADS
        /\ held' = held \cup {<<up, k, t>>} /\ PageOrderKept'
    BY <2>1, <1>0, <1>3, <1>14, ReturnStep
  <2>3. op' = [op EXCEPT ![t] = Idle]
    BY <2>1 DEF Return
  <2>4. Idle \in OpType /\ Idle.pc = "idle"
    BY <1>3, BuddyAssumption DEF Idle, OpType, Orders
  <2>5. /\ OpInv' /\ op' \in [THREADS -> OpType] /\ op'[t] = Idle
        /\ \A u \in THREADS : u # t => op'[u].pc = "idle"
    BY <1>0, <1>2, <1>4, <2>3, <2>4, OpStep, Zenon
  <2>6. Carried(op') = {}
    BY <2>4, <2>5, CarriedOne
  <2>7. Claims' = (Claims \ {c}) \cup {<<a, k, "free">>, <<up, k, t>>}
    <3>1. Claims' = FreeClaims(free') \cup held'
      BY <2>6 DEF Claims
    <3>2. Claims = FreeClaims(free) \cup held \cup {c}
      BY <1>5 DEF Claims
    <3> HIDE DEF c
    <3> QED BY <3>1, <3>2, <1>7, <1>10, <2>2
  <2>8. Partition'
    BY <2>7, <1>p
  <2>9. TypeOK'
    BY <1>0, <1>1, <1>10, <1>11, <2>2, <2>5, OpTypes
  <2> QED BY <1>10, <1>11, <2>2, <2>5, <2>8, <2>9 DEF IInv
<1>16. CASE k # o.order
  <2> DEFINE q == [o EXCEPT !.addr = up, !.at = o.at - 1]
  <2>1. op' = [op EXCEPT ![t] = q] /\ porder' = porder /\ held' = held
    BY <1>16, <1>1 DEF SplitStep
  <2>2. /\ q \in OpType /\ q.pc = "split" /\ q.order <= q.at
        /\ q.addr = up /\ q.at + 1 = k
    BY <1>1, <1>2, <1>3, <1>13, <1>16, SplitOp, ZenonT(40)
  <2> HIDE DEF q
  <2>5. /\ OpInv' /\ op' \in [THREADS -> OpType] /\ op'[t] = q
        /\ \A u \in THREADS : u # t => op'[u].pc = "idle"
    BY <1>0, <1>2, <1>4, <2>1, <2>2, OpStep, Zenon
  <2>6. Carried(op') = {<<up, k, "carried">>}
    <3>1. Carried(op') = {<<op'[t].addr, op'[t].at + 1, "carried">>}
      BY <2>2, <2>5, CarriedOne
    <3> QED BY <3>1, <2>2, <2>5
  <2>7. Claims' = (Claims \ {c}) \cup {<<a, k, "free">>, <<up, k, "carried">>}
    <3>1. Claims' = FreeClaims(free') \cup held \cup {<<up, k, "carried">>}
      BY <2>6, <2>1 DEF Claims
    <3>2. Claims = FreeClaims(free) \cup held \cup {c}
      BY <1>5 DEF Claims
    <3> HIDE DEF c
    <3> QED BY <3>1, <3>2, <1>7, <1>10
  <2>8. Partition'
    BY <2>7, <1>p
  <2>9. TypeOK'
    BY <1>0, <1>1, <1>2, <1>10, <1>11, <2>1, <2>5, OpTypes
  <2>10. PageOrderKept'
    BY <1>0, <2>1 DEF PageOrderKept
  <2> QED BY <1>10, <1>11, <2>10, <2>5, <2>8, <2>9 DEF IInv
<1> QED BY <1>15, <1>16


LEMMA FreeStep ==
  ASSUME ~Preempt, IInv, NEW t \in THREADS, NEW c \in held, Free(t, c)
  PROVE  IInv'
<1>0. TypeOK /\ Partition /\ HeaderTrusted /\ ListHeaders /\ NrFreeExact /\ PageOrderKept /\ OpInv
  BY DEF IInv
<1> DEFINE a == c[1]
           k == c[2]
           q == [pc |-> "coalesce", addr |-> a, at |-> 0, order |-> porder[a]]
           d == <<a, k, "carried">>
<1>1. /\ UNCHANGED <<phase, pageEnd, fill, todo, free, nr_free, magic, hord>>
      /\ held' = held \ {c} /\ porder' = [porder EXCEPT ![a] = 0]
      /\ op' = [op EXCEPT ![t] = q]
      /\ \A u \in THREADS : op[u] = Idle
  BY DEF Free, MayEnter, initVars
<1>2. /\ op \in [THREADS -> OpType] /\ porder \in [Pages -> Orders]
      /\ held \subseteq Pages \X Orders \X THREADS
  BY <1>0 DEF TypeOK
<1>3. /\ c = <<a, k, c[3]>> /\ a \in Pages /\ a \in Nat /\ k \in Orders
      /\ c[3] # "free" /\ c[3] # "carried" /\ a \in Span(c) /\ c \in Claims
  BY <1>0, HeldFacts
<1>4. porder[a] = k
  BY <1>0 DEF PageOrderKept
<1>5. 0 \in Orders
  BY BuddyAssumption DEF Orders
<1>6. q \in OpType /\ q.pc = "coalesce" /\ q.order = k /\ q.addr = a
  BY <1>3, <1>4, <1>5 DEF OpType
<1>7. /\ OpInv' /\ op' \in [THREADS -> OpType] /\ op'[t] = q
      /\ \A u \in THREADS : u # t => op'[u].pc = "idle"
  <2> HIDE DEF q
  <2> QED BY <1>0, <1>1, <1>2, <1>6, OpStep, Zenon
<1>8. Carried(op) = {} /\ Carried(op') = {d}
  <2>1. \A u \in THREADS : op[u].pc = "idle"
    BY <1>1 DEF Idle
  <2>2. Carried(op) = {}
    BY <2>1, CarriedOne
  <2>3. Carried(op') = {<<op'[t].addr, op'[t].order, "carried">>}
    BY <1>6, <1>7, CarriedOne
  <2> HIDE DEF q
  <2> QED BY <2>2, <2>3, <1>6, <1>7
<1>9. Claims' = (Claims \ {c}) \cup {d}
  <2>1. c \notin FreeClaims(free)
    <3> SUFFICES ASSUME c \in FreeClaims(free) PROVE FALSE
      OBVIOUS
    <3>1. PICK j \in Orders : \E x \in free[j] : c = <<x, j, "free">>
      BY FreeClaim
    <3> QED BY <3>1, <1>3
  <2>2. Claims = FreeClaims(free) \cup held /\ Claims' = FreeClaims(free) \cup (held \ {c}) \cup {d}
    BY <1>1, <1>8, Zenon DEF Claims
  <2> HIDE DEF d
  <2> QED BY <2>1, <2>2
<1>10. Partition'
  <2>1. Span(c) = Span(d)
    BY <1>3 DEF Span
  <2>2. Exact(Claims, PageBase .. fill - 1)
    BY <1>0 DEF Partition
  <2> HIDE DEF d
  <2>3. Exact(Claims', PageBase .. fill - 1)
    BY <1>3, <1>9, <2>1, <2>2, ExactRelabel
  <2> QED BY <2>3, <1>1 DEF Partition, Exact, Span
<1>11. porder' \in [Pages -> Orders] /\ held' \subseteq Pages \X Orders \X THREADS
  BY <1>1, <1>2, <1>5
<1>12. TypeOK'
  BY <1>0, <1>1, <1>7, <1>11 DEF TypeOK, Pages
<1>13. PageOrderKept'
  <2> SUFFICES ASSUME NEW e \in held \ {c} PROVE porder'[e[1]] = e[2]
    BY <1>1 DEF PageOrderKept
  <2>1. e[1] \in Pages /\ e \in Claims /\ e[1] \in Span(e)
    BY <1>0, HeldFacts
  <2>2. e[1] # a
    BY <2>1, <1>0, <1>3 DEF Partition, Exact
  <2> QED BY <2>1, <2>2, <1>0, <1>1, <1>2 DEF PageOrderKept
<1>14. HeaderTrusted' /\ ListHeaders' /\ NrFreeExact'
  BY <1>0, <1>1 DEF HeaderTrusted, ListHeaders, NrFreeExact, Pages
<1> QED BY <1>7, <1>10, <1>12, <1>13, <1>14 DEF IInv

LEMMA CoalesceStep ==
  ASSUME ~Preempt, IInv, NEW t \in THREADS, Coalesce(t)
  PROVE  IInv'
<1>0. TypeOK /\ Partition /\ HeaderTrusted /\ ListHeaders /\ NrFreeExact /\ PageOrderKept /\ OpInv
  BY DEF IInv
<1> DEFINE o == op[t]
           a == o.addr
           k == o.order
           c == <<a, k, "carried">>
           b == BUDDY_BLOCK(a, k)
           low == BUDDY_LOW(a, k)
<1>1. /\ phase' = phase /\ pageEnd' = pageEnd /\ fill' = fill /\ todo' = todo
      /\ porder' = porder /\ held' = held /\ o.pc = "coalesce"
  BY DEF Coalesce, initVars
<1>2. /\ op \in [THREADS -> OpType] /\ o \in OpType
      /\ porder \in [Pages -> Orders] /\ held \subseteq Pages \X Orders \X THREADS
  BY <1>0 DEF TypeOK
<1>3. a \in Nat /\ k \in Orders /\ k \in 0 .. MAX_ORDER
  BY <1>2, OrderFacts DEF OpType
<1>4. \A u \in THREADS : u # t => op[u] = Idle
  <2>1. op[t] # Idle
    BY <1>1 DEF Idle
  <2> QED BY <2>1, <1>0, Alone
<1>5. Carried(op) = {c}
  <2>1. \A u \in THREADS : u # t => op[u].pc = "idle"
    BY <1>4 DEF Idle
  <2> QED BY <2>1, <1>1, CarriedOne
<1>6. c \in Claims /\ c \notin held /\ c \notin FreeClaims(free)
  BY <1>0, <1>5, HeldFacts, FreeClaim DEF Claims
<1>7. Claims = FreeClaims(free) \cup held \cup {c}
  BY <1>5 DEF Claims
<1>8. Exact(Claims, PageBase .. fill - 1)
  BY <1>0 DEF Partition
<1>9. PageOrderKept'
  BY <1>0, <1>1 DEF PageOrderKept
<1>10. CASE Merges(a, k)
  <2> DEFINE d == <<b, k, "free">>
             e == <<low, k + 1, "carried">>
             q == [o EXCEPT !.addr = low, !.order = o.order + 1]
  <2>1. remove(b) /\ op' = [op EXCEPT ![t] = q]
    BY <1>10 DEF Coalesce
  <2>2. k < MAX_ORDER - 1 /\ b \in Pages /\ b \in free[k]
    BY <1>10, <1>0 DEF Merges, HeaderTrusted
  <2>3. /\ free' \in [Orders -> SUBSET Pages] /\ nr_free' \in [Orders -> Nat]
        /\ hord' \in [Pages -> Orders \cup {-1}] /\ magic' \in [Pages -> BOOLEAN]
        /\ ListHeaders' /\ NrFreeExact' /\ HeaderTrusted'
        /\ FreeClaims(free') = FreeClaims(free) \ {d}
    BY <1>0, <1>1, <1>3, <2>1, <2>2, RemoveStep
  <2>4. d \in Claims /\ d \notin held /\ d # c
    BY <1>0, <1>3, <2>2, InFreeClaims, HeldFacts
  <2>5. b \in Nat
    BY <2>2, <1>0, PagesNat
  <2>n. BLOCK_NPAGES[k] \in Nat
    BY <1>3, OrderFacts
  <2>6. \/ low = a /\ b = a + BLOCK_NPAGES[k]
        \/ low = b /\ a = b + BLOCK_NPAGES[k]
    BY <1>3, <2>n, <2>5 DEF BUDDY_BLOCK, BUDDY_LOW
  <2> HIDE DEF b, low
  <2>7. low \in Nat /\ k + 1 \in Orders
    BY <2>2, <2>5, <2>6, <1>3, BuddyAssumption DEF Orders
  <2>8. q \in OpType /\ q.pc = "coalesce" /\ q.addr = low /\ q.order = k + 1
    BY <1>1, <1>2, <2>7, Zenon DEF OpType
  <2>9. /\ OpInv' /\ op' \in [THREADS -> OpType] /\ op'[t] = q
        /\ \A u \in THREADS : u # t => op'[u].pc = "idle"
    <3> HIDE DEF q
    <3> QED BY <1>0, <1>2, <1>4, <2>1, <2>8, OpStep, Zenon
  <2>10. Carried(op') = {e}
    <3> HIDE DEF q
    <3>1. Carried(op') = {<<op'[t].addr, op'[t].order, "carried">>}
      BY <2>8, <2>9, CarriedOne
    <3> QED BY <3>1, <2>8, <2>9
  <2>11. Claims' = (Claims \ {c, d}) \cup {e}
    <3>1. Claims' = FreeClaims(free') \cup held \cup {e}
      BY <1>1, <2>10 DEF Claims
    <3> HIDE DEF c, d, e
    <3> QED BY <3>1, <1>6, <1>7, <2>3, <2>4
  <2>12. Exact((Claims \ {c, d}) \cup {e}, PageBase .. fill - 1)
    <3>1. /\ Span(c) = Span(<<a, k, "carried">>)
          /\ Span(d) = Span(<<b, k, "carried">>)
      BY DEF Span
    <3>2. CASE low = a /\ b = a + BLOCK_NPAGES[k]
      <4> HIDE DEF c, d
      <4> QED BY <3>1, <3>2, <1>3, <1>6, <1>8, <2>4, ExactMerge, Zenon
    <3>3. CASE low = b /\ a = b + BLOCK_NPAGES[k]
      <4>1. {c, d} = {d, c}
        OBVIOUS
      <4> HIDE DEF c, d
      <4>2. Exact((Claims \ {d, c}) \cup {<<b, k + 1, "carried">>}, PageBase .. fill - 1)
        BY <3>1, <3>3, <1>3, <1>6, <1>8, <2>4, <2>5, ExactMerge
      <4> QED BY <4>1, <4>2, <3>3, Zenon
    <3> QED BY <2>6, <3>2, <3>3
  <2>13. Partition'
    <3>1. Exact(Claims', PageBase .. fill - 1)
      BY <2>11, <2>12
    <3> QED BY <3>1, <1>1 DEF Partition, Exact, Span
  <2>14. TypeOK'
    BY <1>0, <1>1, <1>2, <2>3, <2>9, OpTypes
  <2> QED BY <1>9, <2>3, <2>9, <2>13, <2>14 DEF IInv
<1>11. CASE ~Merges(a, k)
  <2> DEFINE d == <<a, k, "free">>
  <2>1. add_last(a, k) /\ op' = [op EXCEPT ![t] = Idle]
    BY <1>11 DEF Coalesce
  <2>2. a \in Pages /\ \A j \in Orders : a \notin free[j]
    <3>1. a \in Pages /\ \A j \in Orders : \A v : <<a, j, v>> \in Claims => v = "carried"
      BY <1>0, <1>3, <1>6, ClaimFacts
    <3> QED BY <3>1, InFreeClaims, Zenon
  <2>3. Link(a, k)
    BY <2>1 DEF add_last
  <2>4. /\ free' \in [Orders -> SUBSET Pages] /\ nr_free' \in [Orders -> Nat]
        /\ hord' \in [Pages -> Orders \cup {-1}]
        /\ ListHeaders' /\ NrFreeExact'
        /\ FreeClaims(free') = FreeClaims(free) \cup {d}
    BY <1>0, <1>1, <1>3, <2>2, <2>3, LinkStep
  <2>5. magic' \in [Pages -> BOOLEAN] /\ HeaderTrusted'
    BY <1>0, <1>1, <1>3, <2>1, <2>2, LinkTrusted
  <2>6. Idle \in OpType /\ Idle.pc = "idle"
    BY BuddyAssumption DEF Idle, OpType, Orders
  <2>7. /\ OpInv' /\ op' \in [THREADS -> OpType] /\ op'[t] = Idle
        /\ \A u \in THREADS : u # t => op'[u].pc = "idle"
    BY <1>0, <1>2, <1>4, <2>1, <2>6, OpStep, Zenon
  <2>8. Carried(op') = {}
    BY <2>6, <2>7, CarriedOne
  <2>9. Claims' = (Claims \ {c}) \cup {d}
    <3>1. Claims' = FreeClaims(free') \cup held
      BY <1>1, <2>8 DEF Claims
    <3> HIDE DEF c, d
    <3> QED BY <3>1, <1>6, <1>7, <2>4
  <2>10. Partition'
    <3>1. Span(c) = Span(d)
      BY DEF Span
    <3> HIDE DEF c, d
    <3>2. Exact(Claims', PageBase .. fill - 1)
      BY <1>6, <1>8, <2>9, <3>1, ExactRelabel
    <3> QED BY <3>2, <1>1 DEF Partition, Exact, Span
  <2>11. TypeOK'
    BY <1>0, <1>1, <1>2, <2>4, <2>5, <2>7, OpTypes
  <2> QED BY <1>9, <2>4, <2>5, <2>7, <2>10, <2>11 DEF IInv
<1> QED BY <1>10, <1>11

LEMMA NextIInv ==
  ASSUME ~Preempt, IInv, [Next]_vars
  PROVE  IInv'
<1>1. ASSUME NEW k \in Orders, InitBlock(k) PROVE IInv'
  BY <1>1, InitBlockStep
<1>2. CASE InitDone
  <2>1. phase' \in {"init", "ready", "assert", "oom", "wild"}
    BY <1>2 DEF InitDone
  <2> QED BY <2>1, <1>2, PhaseStep DEF InitDone, initVars
<1>3. ASSUME NEW t \in THREADS, NEW n \in Requests, AllocPick(t, n) PROVE IInv'
  BY <1>3, AllocPickStep
<1>4. ASSUME NEW t \in THREADS, NEW n \in Requests, AllocFail(t, n) \/ AllocHuge(t, n)
      PROVE  IInv'
  <2>1. phase' \in {"init", "ready", "assert", "oom", "wild"}
    BY <1>4 DEF AllocFail, AllocHuge
  <2>2. UNCHANGED <<pageEnd, fill, todo, free, nr_free, magic, hord, porder, held, op>>
    BY <1>4 DEF AllocFail, AllocHuge, initVars
  <2> QED BY <2>1, <2>2, PhaseStep
<1>5. ASSUME NEW t \in THREADS, AllocRemove(t) PROVE IInv'
  BY <1>5, AllocRemoveStep
<1>6. ASSUME NEW t \in THREADS, SplitStep(t) PROVE IInv'
  BY <1>6, SplitStepStep
<1>7. ASSUME NEW t \in THREADS, NEW c \in held, Free(t, c) PROVE IInv'
  BY <1>7, FreeStep
<1>8. ASSUME NEW t \in THREADS, Coalesce(t) PROVE IInv'
  BY <1>8, CoalesceStep
<1>9. CASE UNCHANGED vars
  <2>1. phase' \in {"init", "ready", "assert", "oom", "wild"}
    BY <1>9 DEF vars, IInv, TypeOK
  <2> QED BY <2>1, <1>9, PhaseStep DEF vars
<1> QED BY <1>1, <1>2, <1>3, <1>4, <1>5, <1>6, <1>7, <1>8, <1>9 DEF Next

(* Where no caller is preempted inside the allocator, every page placed by   *)
(* buddy_init is at all times claimed exactly once: the splitting loop of    *)
(* require() and the merging recursion of buddy_free_helper() neither lose a *)
(* page nor give one to two owners, for every range, alignment and number of *)
(* orders.                                                                   *)
THEOREM PagesOwnedOnce ==
  ASSUME ~Preempt
  PROVE  Spec => []Partition
<1>1. Init => IInv
  BY InitIInv
<1>2. IInv /\ [Next]_vars => IInv'
  BY NextIInv
<1>3. IInv => Partition
  BY DEF IInv
<1> QED BY <1>1, <1>2, <1>3, PTL DEF Spec

(* Under the same assumption the allocator's own bookkeeping is sound: the   *)
(* headers it trusts, the counters it tests and the page orders kfree reads. *)
THEOREM BookkeepingSound ==
  ASSUME ~Preempt
  PROVE  Spec => [](TypeOK /\ HeaderTrusted /\ NrFreeExact /\ PageOrderKept)
<1>1. Init => IInv
  BY InitIInv
<1>2. IInv /\ [Next]_vars => IInv'
  BY NextIInv
<1>3. IInv => TypeOK /\ HeaderTrusted /\ NrFreeExact /\ PageOrderKept
  BY DEF IInv
<1> QED BY <1>1, <1>2, <1>3, PTL DEF Spec

-----------------------------------------------------------------------------
(* The plan of buddy_init: what is left of the range for the orders from k   *)
(* on, in closed form.                                                       *)
Rest(n) == IF InitSquare(n) THEN n - MAX_ORDER * BLOCK_NPAGES[MAX_ORDER - 1] ELSE n

Remains(n, k) ==
  IF k = MAX_ORDER
  THEN 0
  ELSE (Rest(n) \div BLOCK_NPAGES[k]) * BLOCK_NPAGES[k]
         + (IF InitSquare(n) THEN (MAX_ORDER - k) * BLOCK_NPAGES[MAX_ORDER - 1] ELSE 0)

(* buddy_init is at order k: the smaller blocks are placed, the larger ones  *)
(* are all to come, and together they fill the range.                        *)
Filling(k) ==
  LET n == pageEnd - PageBase IN
  /\ \A j \in 0 .. k - 1 : todo[j] = 0
  /\ \A j \in k + 1 .. MAX_ORDER - 1 : todo[j] = InitCount(n, j)
  /\ fill + todo[k] * BLOCK_NPAGES[k] + Remains(n, k + 1) = pageEnd

FillInv ==
  /\ InitAsserts
  /\ pageEnd \in PageEnds
  /\ phase = "init" => /\ fill \in Nat
                       /\ todo \in [Orders -> Nat]
                       /\ \E k \in Orders : Filling(k)

(* The square of areas: the blocks of each order have the same total size.   *)
LEMMA EqualAreas ==
  \A k \in Orders : BLOCK_NPAGES[MAX_ORDER - 1 - k] * BLOCK_NPAGES[k]
                      = BLOCK_NPAGES[MAX_ORDER - 1]
<1> DEFINE M == MAX_ORDER - 1
           T == {k \in Orders : BLOCK_NPAGES[M - k] * BLOCK_NPAGES[k] # BLOCK_NPAGES[M]}
<1>0. M \in Nat /\ Orders = 0 .. M /\ \A k \in 0 .. M + 1 : BLOCK_NPAGES[k] \in Nat
  BY BuddyAssumption DEF Orders
<1> HIDE DEF M
<1> SUFFICES ASSUME T # {} PROVE FALSE
  BY DEF M
<1>1. PICK k \in T : \A j \in T : k <= j
  <2>1. T \in SUBSET Nat
    BY <1>0
  <2> HIDE DEF T
  <2> QED BY <2>1, LeastElement
<1>2. k \in 0 .. M /\ BLOCK_NPAGES[M - k] * BLOCK_NPAGES[k] # BLOCK_NPAGES[M]
  BY <1>0
<1>3. k # 0
  <2>1. BLOCK_NPAGES[0] = 1
    BY BuddyAssumption
  <2>2. ASSUME k = 0 PROVE FALSE
    <3>1. M - k = M /\ BLOCK_NPAGES[M] \in Nat
      BY <1>0, <2>2
    <3> QED BY <3>1, <2>1, <2>2, <1>2
  <2> QED BY <2>2
<1>4. PICK i \in Nat : k = i + 1 /\ i \in 0 .. M
  BY <1>0, <1>2, <1>3
<1>5. BLOCK_NPAGES[M - i] * BLOCK_NPAGES[i] = BLOCK_NPAGES[M]
  BY <1>0, <1>1, <1>4
<1>6. PICK x \in Nat : x = BLOCK_NPAGES[i]
  BY <1>0, <1>4
<1>7. PICK y \in Nat : y = BLOCK_NPAGES[M - k]
  BY <1>0, <1>2
<1>8. BLOCK_NPAGES[k] = 2 * x
  BY <1>0, <1>4, <1>6, BuddyAssumption
<1>9. BLOCK_NPAGES[M - i] = 2 * y
  <2>1. M - k \in Orders /\ (M - k) + 1 = M - i
    BY <1>0, <1>2, <1>4
  <2> QED BY <2>1, <1>7, BuddyAssumption
<1>10. (2 * y) * x = y * (2 * x)
  OBVIOUS
<1> QED BY <1>2, <1>5, <1>6, <1>7, <1>8, <1>9, <1>10

(* Halving a block: the odd one out and the blocks of twice the size.        *)
LEMMA Halves ==
  ASSUME NEW r \in Nat, NEW b \in Nat \ {0}
  PROVE  ((r \div b) % 2) * b + (r \div (2 * b)) * (2 * b) = (r \div b) * b
<1>1. PICK q \in Nat, x \in Nat : q = r \div b /\ x = r % b
  OBVIOUS
<1>2. r = q * b + x /\ x < b
  BY <1>1
<1>3. PICK h \in Nat, e \in {0, 1} : q = 2 * h + e /\ e = q % 2
  <2>1. q % 2 \in {0, 1} /\ q \div 2 \in Nat /\ q = 2 * (q \div 2) + (q % 2)
    OBVIOUS
  <2> QED BY <2>1
<1>4. PICK c \in Nat : c = 2 * b
  OBVIOUS
<1>5. r = h * c + (e * b + x) /\ e * b + x \in 0 .. c - 1
  <2>1. CASE e = 0
    <3>1. r = (2 * h) * b + x
      BY <1>2, <1>3, <2>1
    <3>2. (2 * h) * b = h * c
      BY <1>4
    <3> QED BY <3>1, <3>2, <1>2, <1>4, <2>1
  <2>2. CASE e = 1
    <3>1. r = (2 * h + 1) * b + x
      BY <1>2, <1>3, <2>2
    <3>2. (2 * h + 1) * b = h * c + b
      BY <1>4
    <3> QED BY <3>1, <3>2, <1>2, <1>4, <2>2
  <2> QED BY <2>1, <2>2
<1>6. h = r \div c
  <2> DEFINE y == e * b + x
  <2>1. y \in 0 .. c - 1 /\ r = h * c + y
    BY <1>5
  <2> HIDE DEF y
  <2>2. c > 0
    BY <1>4
  <2>3. PICK d \in Nat, z \in Nat : d = r \div c /\ r = d * c + z /\ z < c
    BY <2>2
  <2>4. h * c + y = d * c + z
    BY <2>1, <2>3
  <2>5. CASE h < d
    <3>1. PICK g \in Nat : d = h + 1 + g
      BY <2>5
    <3>2. d * c = h * c + c + g * c /\ g * c \in Nat /\ h * c \in Nat
      BY <3>1
    <3> QED BY <3>2, <2>4, <2>1, <2>3
  <2>6. CASE d < h
    <3>1. PICK g \in Nat : h = d + 1 + g
      BY <2>6
    <3>2. h * c = d * c + c + g * c /\ g * c \in Nat /\ d * c \in Nat
      BY <3>1
    <3> QED BY <3>2, <2>4, <2>1, <2>3
  <2> QED BY <2>5, <2>6, <2>3
<1>7. (q % 2) * b + h * c = q * b
  <2>1. h * c = (2 * h) * b
    BY <1>4
  <2>2. CASE e = 0
    BY <1>3, <2>1, <2>2
  <2>3. CASE e = 1
    <3>1. (2 * h + 1) * b = (2 * h) * b + b
      OBVIOUS
    <3> QED BY <1>3, <2>1, <2>3, <3>1
  <2> QED BY <2>2, <2>3
<1> QED BY <1>1, <1>4, <1>6, <1>7

(* The blocks planned for an order are what the larger ones leave.           *)
LEMMA RemainsStep ==
  ASSUME NEW n \in Nat, NEW k \in Orders
  PROVE  /\ InitCount(n, k) \in Nat
         /\ Remains(n, k) = InitCount(n, k) * BLOCK_NPAGES[k] + Remains(n, k + 1)
<1>0. /\ MAX_ORDER \in Nat /\ k \in 0 .. MAX_ORDER - 1
      /\ \A j \in 0 .. MAX_ORDER : BLOCK_NPAGES[j] \in Nat \ {0}
      /\ BLOCK_NPAGES[k + 1] = 2 * BLOCK_NPAGES[k]
  BY BuddyAssumption DEF Orders
<1>1. PICK r \in Nat : r = Rest(n)
  <2>1. MAX_ORDER * BLOCK_NPAGES[MAX_ORDER - 1] \in Nat
    BY <1>0
  <2> QED BY <2>1 DEF Rest, InitSquare
<1>2. PICK b \in Nat \ {0} : b = BLOCK_NPAGES[k]
  BY <1>0
<1>3. PICK a \in Nat \ {0} : a = BLOCK_NPAGES[MAX_ORDER - 1 - k]
  BY <1>0
<1>4. PICK t \in Nat \ {0} : t = BLOCK_NPAGES[MAX_ORDER - 1]
  BY <1>0
<1>5. a * b = t
  BY <1>2, <1>3, <1>4, EqualAreas
<1>7. InitCount(n, k) = (IF InitSquare(n) THEN a ELSE 0)
                          + (IF k = MAX_ORDER - 1 THEN r \div b ELSE (r \div b) % 2)
  BY <1>1, <1>2, <1>3 DEF InitCount, Rest
<1>8. InitCount(n, k) \in Nat
  BY <1>7
<1>9. Remains(n, k) = (r \div b) * b + (IF InitSquare(n) THEN (MAX_ORDER - k) * t ELSE 0)
  BY <1>0, <1>1, <1>2, <1>4 DEF Remains
<1>10. CASE k = MAX_ORDER - 1
  <2>1. Remains(n, k + 1) = 0
    BY <1>0, <1>10 DEF Remains
  <2>2. MAX_ORDER - k = 1
    BY <1>0, <1>10
  <2>3. InitCount(n, k) = (IF InitSquare(n) THEN a ELSE 0) + r \div b
    BY <1>7, <1>10
  <2>4. CASE InitSquare(n)
    <3>1. InitCount(n, k) * b = a * b + (r \div b) * b
      BY <2>3, <2>4
    <3> QED BY <3>1, <2>1, <2>2, <2>4, <1>2, <1>5, <1>8, <1>9
  <2>5. CASE ~InitSquare(n)
    BY <2>1, <2>3, <2>5, <1>2, <1>8, <1>9
  <2> QED BY <2>4, <2>5
<1>11. CASE k # MAX_ORDER - 1
  <2>1. k + 1 \in Nat /\ k + 1 # MAX_ORDER
    BY <1>0, <1>11
  <2>2. Remains(n, k + 1) = (r \div (2 * b)) * (2 * b)
                              + (IF InitSquare(n) THEN (MAX_ORDER - (k + 1)) * t ELSE 0)
    BY <2>1, <1>0, <1>1, <1>2, <1>4 DEF Remains
  <2>3. PICK o \in Nat : o = (r \div b) % 2
    OBVIOUS
  <2>4. o * b + (r \div (2 * b)) * (2 * b) = (r \div b) * b
    BY <2>3, Halves, Zenon
  <2>5. InitCount(n, k) = (IF InitSquare(n) THEN a ELSE 0) + o
    BY <1>7, <1>11, <2>3
  <2>6. PICK u \in Nat, v \in Nat : u = (r \div (2 * b)) * (2 * b) /\ v = (r \div b) * b
    OBVIOUS
  <2>7. CASE InitSquare(n)
    <3>1. InitCount(n, k) * b = t + o * b
      BY <2>5, <2>7, <1>5
    <3>2. (MAX_ORDER - k) * t = (MAX_ORDER - (k + 1)) * t + t
      BY <1>0
    <3>3. (MAX_ORDER - (k + 1)) * t \in Int /\ o * b \in Nat
      BY <1>0
    <3> QED BY <3>1, <3>2, <3>3, <2>2, <2>4, <2>6, <2>7, <1>2, <1>8, <1>9
  <2>8. CASE ~InitSquare(n)
    <3>1. o * b \in Nat
      OBVIOUS
    <3> QED BY <3>1, <2>2, <2>4, <2>5, <2>6, <2>8, <1>2, <1>8, <1>9
  <2> QED BY <2>7, <2>8
<1> QED BY <1>8, <1>10, <1>11

LEMMA RemainsNat ==
  ASSUME NEW n \in Nat, NEW k \in 0 .. MAX_ORDER
  PROVE  Remains(n, k) \in Nat
<1>1. CASE k = MAX_ORDER
  BY <1>1 DEF Remains
<1>2. CASE k # MAX_ORDER
  <2>1. /\ MAX_ORDER \in Nat \ {0} /\ MAX_ORDER - k \in Nat
        /\ BLOCK_NPAGES[k] \in Nat \ {0} /\ BLOCK_NPAGES[MAX_ORDER - 1] \in Nat
    BY BuddyAssumption
  <2>2. PICK u \in Nat : u = MAX_ORDER * BLOCK_NPAGES[MAX_ORDER - 1]
    BY <2>1
  <2>3. Rest(n) \in Nat
    BY <2>1, <2>2 DEF Rest, InitSquare
  <2>4. (Rest(n) \div BLOCK_NPAGES[k]) * BLOCK_NPAGES[k] \in Nat
    BY <2>1, <2>3
  <2>5. (MAX_ORDER - k) * BLOCK_NPAGES[MAX_ORDER - 1] \in Nat
    BY <2>1
  <2> QED BY <2>4, <2>5, <1>2 DEF Remains
<1> QED BY <1>1, <1>2

(* The order buddy_init is at can be taken to have a block left to place.    *)
LEMMA FillingNow ==
  ASSUME pageEnd \in PageEnds, fill \in Nat, todo \in [Orders -> Nat],
         \E k \in Orders : Filling(k)
  PROVE  \E k \in Orders : Filling(k) /\ (todo[k] = 0 => k = MAX_ORDER - 1)
<1> DEFINE T == {MAX_ORDER - 1 - k : k \in {j \in Orders : Filling(j)}}
           n == pageEnd - PageBase
<1>0. MAX_ORDER \in Nat \ {0} /\ Orders = 0 .. MAX_ORDER - 1
  BY BuddyAssumption DEF Orders
<1>n. n \in Nat /\ pageEnd \in Nat
  BY BuddyAssumption
<1>b. \A j \in Orders : BLOCK_NPAGES[j] \in Nat
  <2>1. BLOCK_NPAGES \in [0 .. MAX_ORDER -> Nat \ {0}]
    BY BuddyAssumption
  <2> QED BY <2>1, <1>0
<1> HIDE DEF n
<1>1. PICK d \in T : \A e \in T : d <= e
  <2>1. T \in SUBSET Nat /\ T # {}
    BY <1>0
  <2> HIDE DEF T
  <2> QED BY <2>1, LeastElement
<1>2. PICK k \in Orders : d = MAX_ORDER - 1 - k /\ Filling(k)
  OBVIOUS
<1>3. ASSUME todo[k] = 0, k # MAX_ORDER - 1 PROVE FALSE
  <2>1. PICK i \in Orders : i = k + 1 /\ i \in 0 .. MAX_ORDER /\ i + 1 \in 0 .. MAX_ORDER
    <3>1. k + 1 \in 0 .. MAX_ORDER - 1
      BY <1>0, <1>3
    <3>2. k + 1 \in 0 .. MAX_ORDER /\ (k + 1) + 1 \in 0 .. MAX_ORDER
      BY <3>1, <1>0
    <3> QED BY <3>1, <3>2, <1>0
  <2>2. todo[i] = InitCount(n, i)
    BY <2>1, <1>0, <1>2 DEF Filling, n
  <2>3. Remains(n, i) = InitCount(n, i) * BLOCK_NPAGES[i] + Remains(n, i + 1)
    BY <1>n, RemainsStep
  <2>4. fill + todo[i] * BLOCK_NPAGES[i] + Remains(n, i + 1) = pageEnd
    <3>1. PICK r : r = Remains(n, i) /\ r \in Nat
      BY <2>1, <1>n, RemainsNat
    <3>2. fill + r = pageEnd
      <4>2. todo[k] * BLOCK_NPAGES[k] = 0
        BY <1>b, <1>3
      <4>3. fill + todo[k] * BLOCK_NPAGES[k] + Remains(n, k + 1) = pageEnd
        BY <1>2 DEF Filling, n
      <4> QED BY <4>2, <4>3, <3>1, <2>1
    <3>3. PICK z : z = InitCount(n, i) * BLOCK_NPAGES[i] /\ z \in Int
      <4>1. InitCount(n, i) \in Nat /\ BLOCK_NPAGES[i] \in Nat
        BY <1>b, <1>n, RemainsStep
      <4> QED BY <4>1
    <3>4. PICK w : w = Remains(n, i + 1) /\ w \in Nat
      BY <2>1, <1>n, RemainsNat
    <3> QED BY <3>1, <3>2, <3>3, <3>4, <2>2, <2>3
  <2>5. /\ \A j \in 0 .. i - 1 : todo[j] = 0
        /\ \A j \in i + 1 .. MAX_ORDER - 1 : todo[j] = InitCount(n, j)
    BY <2>1, <1>0, <1>2, <1>3 DEF Filling, n
  <2>6. Filling(i)
    BY <2>4, <2>5 DEF Filling, n
  <2>7. MAX_ORDER - 1 - i \in T
    BY <2>6
  <2> HIDE DEF T
  <2> QED BY <2>1, <2>7, <1>0, <1>1, <1>2
<1> QED BY <1>2, <1>3

LEMMA InitFill == Init => FillInv
<1> SUFFICES ASSUME Init PROVE FillInv
  OBVIOUS
<1> DEFINE n == pageEnd - PageBase
<1>0. MAX_ORDER \in Nat \ {0} /\ Orders = 0 .. MAX_ORDER - 1
  BY BuddyAssumption DEF Orders
<1>1. pageEnd \in PageEnds /\ pageEnd \in Nat /\ n \in Nat /\ PageBase \in Nat /\ fill = PageBase
  BY BuddyAssumption DEF Init
<1>2. todo = [k \in Orders |-> InitCount(n, k)]
  BY DEF Init
<1> HIDE DEF n
<1>3. todo \in [Orders -> Nat]
  BY <1>1, <1>2, RemainsStep
<1>4. Remains(n, 0) = n
  <2>1. BLOCK_NPAGES[0] = 1 /\ BLOCK_NPAGES[MAX_ORDER - 1] \in Nat
    BY <1>0, BuddyAssumption
  <2>2. PICK t \in Nat : t = MAX_ORDER * BLOCK_NPAGES[MAX_ORDER - 1]
    BY <2>1, <1>0
  <2>3. Rest(n) \in Int /\ Rest(n) = IF InitSquare(n) THEN n - t ELSE n
    BY <2>2, <1>1 DEF Rest
  <2>4. PICK r \in Int : r = Rest(n)
    BY <2>3
  <2>5. (r \div 1) * 1 = r
    OBVIOUS
  <2>6. Remains(n, 0) = r + IF InitSquare(n) THEN t ELSE 0
    BY <2>1, <2>2, <2>4, <2>5, <1>0 DEF Remains
  <2> QED BY <2>3, <2>4, <2>6, <1>1
<1>5. 0 \in Orders
  BY <1>0
<1>6. fill + todo[0] * BLOCK_NPAGES[0] + Remains(n, 0 + 1) = pageEnd
  <2>1. todo[0] = InitCount(n, 0)
    BY <1>2, <1>5
  <2>2. Remains(n, 0) = todo[0] * BLOCK_NPAGES[0] + Remains(n, 0 + 1)
    BY <2>1, <1>1, <1>5, RemainsStep
  <2>3. Remains(n, 0 + 1) \in Nat
    <3>1. 0 + 1 \in 0 .. MAX_ORDER
      BY <1>0
    <3> QED BY <3>1, <1>1, RemainsNat
  <2>4. todo[0] * BLOCK_NPAGES[0] \in Int
    BY <1>3, <1>5, BuddyAssumption
  <2> QED BY <2>2, <2>3, <2>4, <1>1, <1>4 DEF n
<1>7. Filling(0)
  BY <1>0, <1>2, <1>6 DEF Filling, n
<1> QED BY <1>1, <1>3, <1>5, <1>7 DEF FillInv, InitAsserts, Init

LEMMA InitBlockFill ==
  ASSUME FillInv, NEW i \in Orders, InitBlock(i)
  PROVE  FillInv'
<1> DEFINE n == pageEnd - PageBase
<1>0. MAX_ORDER \in Nat \ {0} /\ Orders = 0 .. MAX_ORDER - 1
  BY BuddyAssumption DEF Orders
<1>1. /\ pageEnd \in PageEnds /\ pageEnd \in Nat /\ n \in Nat
      /\ fill \in Nat /\ todo \in [Orders -> Nat]
      /\ \E k \in Orders : Filling(k)
  BY BuddyAssumption DEF FillInv, InitBlock
<1>2. PICK k \in Orders : Filling(k) /\ (todo[k] = 0 => k = MAX_ORDER - 1)
  BY <1>1, FillingNow
<1>3. todo[i] > 0 /\ \A j \in 0 .. i - 1 : todo[j] = 0
  BY DEF InitBlock
<1>4. i = k
  <2>1. ~ i < k
    BY <1>0, <1>2, <1>3 DEF Filling
  <2>2. ASSUME k < i PROVE FALSE
    <3>1. todo[k] = 0
      BY <2>2, <1>0, <1>3
    <3> QED BY <3>1, <2>2, <1>0, <1>2
  <2> QED BY <2>1, <2>2, <1>0
<1>5. PICK b \in Nat \ {0} : b = BLOCK_NPAGES[i]
  BY <1>0, BuddyAssumption
<1>6. PICK r \in Nat : r = Remains(n, i + 1)
  <2>1. i + 1 \in 0 .. MAX_ORDER /\ n \in Nat
    BY <1>0, <1>1
  <2> HIDE DEF n
  <2> QED BY <2>1, RemainsNat
<1>7. PICK t \in Nat : todo[i] = t + 1
  BY <1>1, <1>3
<1>8. fill + b + t * b + r = pageEnd /\ t * b \in Nat
  <2>1. fill + (t + 1) * b + r = pageEnd
    BY <1>2, <1>4, <1>5, <1>6, <1>7 DEF Filling
  <2>2. (t + 1) * b = t * b + b /\ t * b \in Nat
    OBVIOUS
  <2> QED BY <2>1, <2>2, <1>1
<1>9. ~ (fill + BLOCK_NPAGES[i] > pageEnd)
  BY <1>1, <1>5, <1>8
<1>10. /\ fill' = fill + b
       /\ todo' = [todo EXCEPT ![i] = @ - 1]
       /\ UNCHANGED <<phase, pageEnd>>
  BY <1>5, <1>9 DEF InitBlock
<1>11. todo' \in [Orders -> Nat] /\ todo'[i] = t /\ \A j \in Orders \ {i} : todo'[j] = todo[j]
  BY <1>1, <1>7, <1>10
<1>12. fill' \in Nat /\ fill' + todo'[i] * BLOCK_NPAGES[i] + Remains(n, i + 1) = pageEnd
  BY <1>1, <1>5, <1>6, <1>8, <1>10, <1>11
<1>13. Filling(i)'
  <2>1. \A j \in 0 .. i - 1 : todo'[j] = 0
    BY <1>0, <1>3, <1>11
  <2>2. \A j \in i + 1 .. MAX_ORDER - 1 : todo'[j] = InitCount(n, j)
    BY <1>0, <1>2, <1>4, <1>11 DEF Filling
  <2> QED BY <2>1, <2>2, <1>10, <1>12 DEF Filling, InitCount, InitSquare, Remains, Rest
<1> QED BY <1>1, <1>10, <1>11, <1>12, <1>13 DEF FillInv, InitAsserts

LEMMA InitDoneFill ==
  ASSUME FillInv, InitDone
  PROVE  FillInv'
<1>0. MAX_ORDER \in Nat \ {0} /\ Orders = 0 .. MAX_ORDER - 1
  BY BuddyAssumption DEF Orders
<1>1. pageEnd \in PageEnds /\ fill \in Nat /\ todo \in [Orders -> Nat] /\ \E k \in Orders : Filling(k)
  BY DEF FillInv, InitDone
<1>2. PICK k \in Orders : Filling(k) /\ (todo[k] = 0 => k = MAX_ORDER - 1)
  BY <1>1, FillingNow
<1>3. todo[k] = 0 /\ k = MAX_ORDER - 1
  BY <1>2 DEF InitDone
<1>4. Remains(pageEnd - PageBase, k + 1) = 0 /\ BLOCK_NPAGES[k] \in Nat
  BY <1>0, <1>3, BuddyAssumption DEF Remains
<1>5. fill = pageEnd
  BY <1>1, <1>2, <1>3, <1>4 DEF Filling
<1> QED BY <1>1, <1>5 DEF FillInv, InitAsserts, InitDone, initVars

LEMMA NextFill == FillInv /\ [Next]_vars => FillInv'
<1> SUFFICES ASSUME FillInv, [Next]_vars PROVE FillInv'
  OBVIOUS
<1>1. ASSUME NEW k \in Orders, InitBlock(k) PROVE FillInv'
  BY <1>1, InitBlockFill
<1>2. CASE InitDone
  BY <1>2, InitDoneFill
<1>3. ASSUME phase = "ready", phase' # "init", phase' # "assert", UNCHANGED pageEnd PROVE FillInv'
  BY <1>3 DEF FillInv, InitAsserts
<1>4. ASSUME NEW t \in THREADS, NEW n \in Requests,
             AllocPick(t, n) \/ AllocFail(t, n) \/ AllocHuge(t, n)
      PROVE  FillInv'
  BY <1>4, <1>3 DEF AllocPick, AllocFail, AllocHuge, MayEnter, initVars
<1>5. ASSUME NEW t \in THREADS, AllocRemove(t) \/ SplitStep(t) \/ Coalesce(t) PROVE FillInv'
  BY <1>5, <1>3 DEF AllocRemove, SplitStep, Coalesce, initVars
<1>6. ASSUME NEW t \in THREADS, NEW c \in held, Free(t, c) PROVE FillInv'
  BY <1>6, <1>3 DEF Free, MayEnter, initVars
<1>7. CASE UNCHANGED vars
  BY <1>7 DEF vars, FillInv, InitAsserts, Filling, InitCount, InitSquare, Remains, Rest
<1> QED BY <1>1, <1>2, <1>4, <1>5, <1>6, <1>7 DEF Next

(* The assertions that end buddy_init(), npages_copy == 0 and s == e, hold   *)
(* for every number of orders and every size and alignment of the range: the *)
(* square of equal areas and the remainder in falling block sizes add up to  *)
(* the range exactly.                                                        *)
THEOREM InitNeverAsserts == Spec => []InitAsserts
<1>1. FillInv => InitAsserts
  BY DEF FillInv
<1> QED BY InitFill, NextFill, <1>1, PTL DEF Spec
=============================================================================
