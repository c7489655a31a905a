---------------------------- MODULE FilesProofs ----------------------------
(* The cached values of a descriptor table and the reference counts of open  *)
(* files and pipes follow every system call, for any number of processes,    *)
(* tables, files, pipes and slots.                                           *)
EXTENDS Files, NatFacts, TLAPS

-----------------------------------------------------------------------------
(* The empty slots of a table s, and the two cached values that fit them.    *)
Free(s) == {i \in Fd : s[i] = NULL}
FirstFree(s) == IF Free(s) = {} THEN NR_OPEN ELSE Min(Free(s))
Exact(s, n, av) == n = FirstFree(s) /\ av >= Cardinality(Free(s))

SlotValue == FILE \cup {STD, NULL}

TabType ==
  /\ fdtOf \in [PROC -> TABLE \cup {NULL}]
  /\ tstate \in [TABLE -> {"none", "live", "freed"}]
  /\ fd \in [TABLE -> [Fd -> SlotValue]]
  /\ next_fd \in [TABLE -> -1 .. NR_OPEN]
  /\ nr_avail_fd \in [TABLE -> Nat \cup {-1}]
  /\ locked \in [TABLE -> BOOLEAN]

TabInv ==
  /\ TabType
  /\ \A t \in TABLE : tstate[t] = "live" => Exact(fd[t], next_fd[t], nr_avail_fd[t])

LEMMA Numbers ==
  /\ NR_OPEN \in Nat \ {0} /\ NStd \in Nat \ {0} /\ NStd < NR_OPEN /\ Fd = 0 .. NR_OPEN - 1
  /\ MaxFiles \in Nat /\ MaxTables \in Nat \ {0} /\ MaxPipes \in Nat
  /\ FILE = 1 .. MaxFiles /\ TABLE = 1 .. MaxTables /\ PIPE = 1 .. MaxPipes
BY FilesAssumption DEF Fd, FILE, TABLE, PIPE

LEMMA FreeFinite ==
  ASSUME NEW s
  PROVE  /\ IsFiniteSet(Free(s)) /\ Cardinality(Free(s)) \in Nat
         /\ (Cardinality(Free(s)) = 0) <=> (Free(s) = {})
         /\ Free(s) # {} => Min(Free(s)) \in Free(s)
         /\ FirstFree(s) \in 0 .. NR_OPEN
         /\ FirstFree(s) < NR_OPEN => FirstFree(s) \in Fd /\ s[FirstFree(s)] = NULL
<1> DEFINE F == Free(s)
<1>0. F \in SUBSET Fd /\ Fd = 0 .. NR_OPEN - 1 /\ NR_OPEN \in Nat \ {0}
  BY Numbers DEF Free
<1>1. IsFiniteSet(F)
  <2>1. IsFiniteSet(Fd)
    BY <1>0, FinInterval
  <2> HIDE DEF F
  <2> QED BY <1>0, <2>1, FinSubset, Zenon
<1>2. Cardinality(F) \in Nat /\ (Cardinality(F) = 0 <=> F = {})
  BY <1>1, FinType, FinEmpty
<1>3. F # {} => Min(F) \in F
  <2> SUFFICES ASSUME F # {} PROVE Min(F) \in F
    OBVIOUS
  <2>1. F \in SUBSET Nat
    BY <1>0
  <2> HIDE DEF F
  <2>2. \E x \in F : \A y \in F : x <= y
    BY <2>1, LeastElement
  <2> QED BY <2>2 DEF Min
<1>4. \A i \in F : i \in Fd /\ s[i] = NULL
  BY DEF Free
<1> HIDE DEF F
<1>5. FirstFree(s) = IF F = {} THEN NR_OPEN ELSE Min(F)
  BY DEF FirstFree, F
<1>6. FirstFree(s) \in 0 .. NR_OPEN
      /\ (FirstFree(s) < NR_OPEN => FirstFree(s) \in Fd /\ s[FirstFree(s)] = NULL)
  <2>1. CASE F = {}
    BY <1>0, <1>5, <2>1
  <2>2. CASE F # {}
    <3>1. FirstFree(s) \in F
      BY <1>3, <1>5, <2>2
    <3> DEFINE x == FirstFree(s)
    <3>2. x \in Fd /\ s[x] = NULL
      BY <1>4, <3>1
    <3> HIDE DEF x
    <3>3. x \in 0 .. NR_OPEN
      BY <1>0, <3>2
    <3> QED BY <3>2, <3>3 DEF x
  <2> QED BY <2>1, <2>2
<1> QED BY <1>1, <1>2, <1>3, <1>6 DEF F

(* find_avail_fd finds the lowest empty slot, unless the counter is zero     *)
(* while a slot is empty.                                                    *)
LEMMA FindExact ==
  ASSUME NEW s, NEW av \in Int, Free(s) # {} => av # 0
  PROVE  find_avail_fd(s, av) = FirstFree(s)
<1>1. (\A i \in Fd : s[i] # NULL) <=> (Free(s) = {})
  BY DEF Free
<1>2. Lowest(s) = Min(Free(s))
  BY DEF Lowest, Free
<1> QED BY <1>1, <1>2 DEF find_avail_fd, FirstFree

LEMMA FillSlot ==
  ASSUME NEW V, NEW s \in [Fd -> V], NEW i \in Fd, NEW v, s[i] = NULL, v # NULL
  PROVE  /\ Cardinality(Free([s EXCEPT ![i] = v])) = Cardinality(Free(s)) - 1
         /\ Cardinality(Free(s)) >= 1
<1>1. Free([s EXCEPT ![i] = v]) = Free(s) \ {i} /\ i \in Free(s)
  BY DEF Free
<1>2. IsFiniteSet(Free(s)) /\ Cardinality(Free(s)) \in Nat
      /\ (Cardinality(Free(s)) = 0 <=> Free(s) = {})
  BY FreeFinite
<1>3. Cardinality(Free(s) \ {i}) = Cardinality(Free(s)) - 1
  BY <1>1, <1>2, FinRemove, Zenon
<1> DEFINE c == Cardinality(Free(s))
<1>4. c \in Nat /\ c # 0
  BY <1>1, <1>2
<1> HIDE DEF c
<1>5. c >= 1
  BY <1>4
<1> QED BY <1>1, <1>3, <1>5, Zenon DEF c

LEMMA EmptySlot ==
  ASSUME NEW V, NEW s \in [Fd -> V], NEW i \in Fd, s[i] # NULL
  PROVE  Cardinality(Free([s EXCEPT ![i] = NULL])) = Cardinality(Free(s)) + 1
<1>1. Free([s EXCEPT ![i] = NULL]) = Free(s) \cup {i} /\ i \notin Free(s)
  BY DEF Free
<1>2. IsFiniteSet(Free(s))
  BY FreeFinite
<1> QED BY <1>1, <1>2, FinAdd, Zenon

(* One slot filled, by fd_alloc or fd_clone.                                 *)
LEMMA FillExact ==
  ASSUME NEW s \in [Fd -> SlotValue], NEW n, NEW av \in Nat \cup {-1}, Exact(s, n, av),
         NEW i \in Fd, s[i] = NULL, NEW v, v # NULL
  PROVE  LET s1 == [s EXCEPT ![i] = v] IN
         /\ av >= 1 /\ Exact(s1, find_avail_fd(s1, av), av)
         /\ Exact(s1, find_avail_fd(s1, av), AvailAfter(av))
<1> DEFINE s1 == [s EXCEPT ![i] = v]
<1>1. Cardinality(Free(s1)) = Cardinality(Free(s)) - 1 /\ Cardinality(Free(s)) >= 1
  BY FillSlot, Zenon
<1>2. Cardinality(Free(s1)) \in Nat /\ Cardinality(Free(s)) \in Nat
  BY FreeFinite
<1> HIDE DEF s1
<1>3. av >= 1 /\ av - 1 >= Cardinality(Free(s1)) /\ av >= Cardinality(Free(s1)) /\ av \in Int /\ av # 0
  BY <1>1, <1>2 DEF Exact
<1>4. find_avail_fd(s1, av) = FirstFree(s1)
  BY <1>3, FindExact
<1> QED BY <1>3, <1>4 DEF Exact, AvailAfter, s1

LEMMA EmptyExact ==
  ASSUME NEW s \in [Fd -> SlotValue], NEW n, NEW av \in Nat \cup {-1}, Exact(s, n, av),
         NEW i \in Fd, s[i] # NULL
  PROVE  LET s1 == [s EXCEPT ![i] = NULL] IN
         av >= 0 /\ Exact(s1, find_avail_fd(s1, av + 1), av + 1)
<1> DEFINE s1 == [s EXCEPT ![i] = NULL]
<1>1. Cardinality(Free(s1)) = Cardinality(Free(s)) + 1
  BY EmptySlot, Zenon
<1>2. Cardinality(Free(s1)) \in Nat /\ Cardinality(Free(s)) \in Nat
  BY FreeFinite
<1> HIDE DEF s1
<1>3. av >= 0 /\ av + 1 >= Cardinality(Free(s1)) /\ av + 1 \in Int /\ av + 1 # 0
  BY <1>1, <1>2 DEF Exact
<1>4. find_avail_fd(s1, av + 1) = FirstFree(s1)
  BY <1>3, FindExact
<1> QED BY <1>3, <1>4 DEF Exact, s1

(* A step that gives one table t exact values and leaves the others alone.   *)
LEMMA TableSet ==
  ASSUME TabInv, NEW t \in TABLE,
         NEW s1 \in [Fd -> SlotValue], NEW n1, NEW a1 \in Nat \cup {-1}, Exact(s1, n1, a1),
         fd' = [fd EXCEPT ![t] = s1], next_fd' = [next_fd EXCEPT ![t] = n1],
         nr_avail_fd' = [nr_avail_fd EXCEPT ![t] = a1],
         fdtOf' \in [PROC -> TABLE \cup {NULL}], locked' = locked,
         tstate' \in [TABLE -> {"none", "live", "freed"}],
         \A u \in TABLE \ {t} : tstate'[u] = tstate[u]
  PROVE  TabInv'
<1>1. n1 \in -1 .. NR_OPEN
  <2>1. n1 = FirstFree(s1) /\ FirstFree(s1) \in 0 .. NR_OPEN
    BY FreeFinite DEF Exact
  <2> QED BY <2>1, Numbers
<1>2. TabType'
  BY <1>1, Zenon DEF TabInv, TabType, SlotValue, FILE
<1>3. ASSUME NEW u \in TABLE, tstate'[u] = "live"
      PROVE  Exact(fd[u], next_fd[u], nr_avail_fd[u])'
  <2>1. CASE u = t
    <3>1. fd'[u] = s1 /\ next_fd'[u] = n1 /\ nr_avail_fd'[u] = a1
      BY <2>1 DEF TabInv, TabType
    <3> QED BY <3>1, Zenon DEF Exact, FirstFree, Free, Fd
  <2>2. CASE u # t
    <3>1. fd'[u] = fd[u] /\ next_fd'[u] = next_fd[u] /\ nr_avail_fd'[u] = nr_avail_fd[u]
          /\ tstate[u] = "live"
      BY <1>3, <2>2 DEF TabInv, TabType
    <3> QED BY <3>1, Zenon DEF TabInv, Exact, FirstFree, Free, Fd
  <2> QED BY <2>1, <2>2
<1> QED BY <1>2, <1>3 DEF TabInv

(* A step that keeps the slots of the tables that are live after it.         *)
LEMMA TablesKept ==
  ASSUME TabInv, TabType',
         \A u \in TABLE : tstate'[u] = "live" =>
            /\ tstate[u] = "live" /\ fd'[u] = fd[u] /\ next_fd'[u] = next_fd[u]
            /\ nr_avail_fd'[u] = nr_avail_fd[u]
  PROVE  TabInv'
<1>1. ASSUME NEW u \in TABLE, tstate'[u] = "live"
      PROVE  Exact(fd[u], next_fd[u], nr_avail_fd[u])'
  <2>1. Exact(fd[u], next_fd[u], nr_avail_fd[u])
    BY <1>1 DEF TabInv
  <2> QED BY <1>1, <2>1, Zenon DEF Exact, FirstFree, Free, Fd
<1> QED BY <1>1 DEF TabInv

(* The table a system call works on.                                         *)
LEMMA CallTable ==
  ASSUME TabInv, NEW p \in PROC, Usable(p)
  PROVE  LET t == fdtOf[p] IN
         /\ t \in TABLE /\ tstate[t] = "live" /\ fd[t] \in [Fd -> SlotValue]
         /\ nr_avail_fd[t] \in Nat \cup {-1} /\ next_fd[t] \in -1 .. NR_OPEN
         /\ Exact(fd[t], next_fd[t], nr_avail_fd[t])
         /\ next_fd[t] < NR_OPEN => next_fd[t] \in Fd /\ fd[t][next_fd[t]] = NULL
<1> DEFINE t == fdtOf[p]
<1>1. t \in TABLE /\ tstate[t] = "live"
  BY DEF TabInv, TabType, Usable, Runs
<1>2. /\ fd[t] \in [Fd -> SlotValue]
      /\ nr_avail_fd[t] \in Nat \cup {-1} /\ next_fd[t] \in -1 .. NR_OPEN
      /\ Exact(fd[t], next_fd[t], nr_avail_fd[t])
  BY <1>1 DEF TabInv, TabType
<1> HIDE DEF t
<1>3. next_fd[t] < NR_OPEN => next_fd[t] \in Fd /\ fd[t][next_fd[t]] = NULL
  BY <1>2, FreeFinite DEF Exact
<1> QED BY <1>1, <1>2, <1>3 DEF t

LEMMA UsedNat ==
  ASSUME NEW st, NEW n \in Nat
  PROVE  IsFiniteSet({x \in 1 .. n : st[x] # "none"}) /\ Used(st, 1 .. n) \in Nat
<1>1. IsFiniteSet(1 .. n)
  BY FinInterval
<1>2. IsFiniteSet({x \in 1 .. n : st[x] # "none"})
  BY <1>1, FinSubset
<1> QED BY <1>2, FinType DEF Used

(* Files an action allocates are not NULL.                                   *)
LEMMA NewFileNat == ASSUME NEW k \in Nat \ {0} PROVE NewFile(k) \in Nat \ {0}
<1>1. Used(fstate, FILE) \in Nat
  BY Numbers, UsedNat, Zenon
<1> QED BY <1>1 DEF NewFile

LEMMA OpenTab ==
  ASSUME TabInv, NEW p \in PROC, Open(p)
  PROVE  TabInv'
<1> DEFINE t == fdtOf[p]
           f == NewFile(1)
           i == next_fd[t]
           s1 == [fd[t] EXCEPT ![i] = f]
           n1 == find_avail_fd(s1, nr_avail_fd[t])
           a1 == AvailAfter(nr_avail_fd[t])
<1>1. Usable(p) /\ i < NR_OPEN /\ f \in FILE
  BY DEF Open, May
<1>2. /\ t \in TABLE /\ tstate[t] = "live" /\ fd[t] \in [Fd -> SlotValue]
      /\ nr_avail_fd[t] \in Nat \cup {-1}
      /\ Exact(fd[t], next_fd[t], nr_avail_fd[t])
      /\ i \in Fd /\ fd[t][i] = NULL
  BY <1>1, CallTable
<1>3. f # NULL
  BY <1>1, Numbers DEF NULL
<1>4. nr_avail_fd[t] >= 1 /\ Exact(s1, n1, a1)
  BY <1>2, <1>3, FillExact
<1>5. s1 \in [Fd -> SlotValue] /\ a1 \in Nat \cup {-1}
  BY <1>1, <1>2, <1>4 DEF SlotValue, AvailAfter
<1>6. /\ fd' = [fd EXCEPT ![t] = s1] /\ next_fd' = [next_fd EXCEPT ![t] = n1]
      /\ nr_avail_fd' = [nr_avail_fd EXCEPT ![t] = a1]
      /\ UNCHANGED <<fdtOf, tstate, locked>>
  BY DEF Open, fd_alloc
<1>7. tstate' \in [TABLE -> {"none", "live", "freed"}] /\ fdtOf' \in [PROC -> TABLE \cup {NULL}]
  BY <1>6 DEF TabInv, TabType
<1> HIDE DEF s1, n1, a1, t
<1> QED BY <1>2, <1>4, <1>5, <1>6, <1>7, TableSet, Zenon

LEMMA CloseTab ==
  ASSUME TabInv, NEW p \in PROC, NEW i \in Fd, Close(p, i)
  PROVE  TabInv'
<1> DEFINE t == fdtOf[p]
           s1 == [fd[t] EXCEPT ![i] = NULL]
           a1 == nr_avail_fd[t] + 1
           n1 == find_avail_fd(s1, a1)
<1>1. Usable(p) /\ fd[t][i] # NULL
  BY DEF Close
<1>2. /\ t \in TABLE /\ tstate[t] = "live" /\ fd[t] \in [Fd -> SlotValue]
      /\ nr_avail_fd[t] \in Nat \cup {-1}
      /\ Exact(fd[t], next_fd[t], nr_avail_fd[t])
  BY <1>1, CallTable
<1>4. nr_avail_fd[t] >= 0 /\ Exact(s1, n1, a1)
  BY <1>1, <1>2, EmptyExact
<1>5. s1 \in [Fd -> SlotValue] /\ a1 \in Nat \cup {-1}
  BY <1>2, <1>4 DEF SlotValue
<1>6. /\ fd' = [fd EXCEPT ![t] = s1] /\ next_fd' = [next_fd EXCEPT ![t] = n1]
      /\ nr_avail_fd' = [nr_avail_fd EXCEPT ![t] = a1]
      /\ UNCHANGED <<fdtOf, tstate, locked>>
  BY DEF Close
<1>7. tstate' \in [TABLE -> {"none", "live", "freed"}] /\ fdtOf' \in [PROC -> TABLE \cup {NULL}]
  BY <1>6 DEF TabInv, TabType
<1> HIDE DEF s1, n1, a1, t
<1> QED BY <1>2, <1>4, <1>5, <1>6, <1>7, TableSet, Zenon

(* The slot a dup or dup3 fills, if it fills one.                            *)
LEMMA DupSlot ==
  ASSUME TabInv, NEW p \in PROC, NEW old \in Fd, NEW new, new \in Fd \/ new = next_fd[fdtOf[p]],
         fd_clone(p, old, new), ~Leaks(fdtOf[p], old, new)
  PROVE  new \in Fd /\ fd[fdtOf[p]][old] # NULL /\ fd[fdtOf[p]][new] = NULL
<1>1. Usable(p)
  BY DEF fd_clone, May
<1>2. next_fd[fdtOf[p]] = FirstFree(fd[fdtOf[p]])
  BY <1>1, CallTable DEF Exact
<1>3. FirstFree(fd[fdtOf[p]]) # NR_OPEN => FirstFree(fd[fdtOf[p]]) \in Fd
  BY FreeFinite, Numbers
<1> QED BY <1>2, <1>3 DEF Leaks

LEMMA DupTab ==
  ASSUME TabInv, NEW p \in PROC, NEW old \in Fd, NEW new, new \in Fd \/ new = next_fd[fdtOf[p]],
         fd_clone(p, old, new)
  PROVE  TabInv'
<1> DEFINE t == fdtOf[p]
           v == fd[t][old]
           s1 == [fd[t] EXCEPT ![new] = v]
           n1 == find_avail_fd(s1, nr_avail_fd[t])
           a1 == nr_avail_fd[t]
<1>1. Usable(p)
  BY DEF fd_clone, May
<1>2. /\ t \in TABLE /\ tstate[t] = "live" /\ fd[t] \in [Fd -> SlotValue]
      /\ nr_avail_fd[t] \in Nat \cup {-1}
      /\ Exact(fd[t], next_fd[t], nr_avail_fd[t])
  BY <1>1, CallTable
<1>3. CASE Leaks(t, old, new)
  <2>1. UNCHANGED <<fd, next_fd, fdtOf, tstate, nr_avail_fd>>
        /\ locked' = [locked EXCEPT ![t] = TRUE]
    BY <1>3 DEF fd_clone
  <2>2. TabType'
    BY <2>1, Zenon DEF TabInv, TabType, SlotValue, FILE
  <2> QED BY <2>1, <2>2, TablesKept
<1>4. CASE ~Leaks(t, old, new)
  <2>1. new \in Fd /\ v # NULL /\ fd[t][new] = NULL /\ v \in SlotValue
    BY <1>2, <1>4, DupSlot
  <2> HIDE DEF v
  <2>2. Exact(s1, n1, a1)
    BY <1>2, <2>1, FillExact, Zenon
  <2>3. s1 \in [Fd -> SlotValue] /\ a1 \in Nat \cup {-1}
    BY <1>2, <2>1
  <2>4. /\ fd' = [fd EXCEPT ![t] = s1] /\ next_fd' = [next_fd EXCEPT ![t] = n1]
        /\ UNCHANGED <<fdtOf, tstate, nr_avail_fd, locked>>
    BY <1>4 DEF fd_clone, v
  <2>5. tstate' \in [TABLE -> {"none", "live", "freed"}] /\ fdtOf' \in [PROC -> TABLE \cup {NULL}]
        /\ nr_avail_fd' = [nr_avail_fd EXCEPT ![t] = a1]
    BY <1>2, <2>4 DEF TabInv, TabType
  <2> HIDE DEF s1, n1, a1, t
  <2> QED BY <1>2, <2>2, <2>3, <2>4, <2>5, TableSet, Zenon
<1> QED BY <1>3, <1>4

LEMMA PipeTab ==
  ASSUME TabInv, NEW p \in PROC, Pipe2(p)
  PROVE  /\ TabInv'
         /\ next_fd[fdtOf[p]] \in Fd
         /\ find_avail_fd([fd[fdtOf[p]] EXCEPT ![next_fd[fdtOf[p]]] = NewFile(1)],
                          nr_avail_fd[fdtOf[p]]) \in Fd \ {next_fd[fdtOf[p]]}
<1> DEFINE t == fdtOf[p]
           r == NewFile(1)
           w == NewFile(2)
           av == nr_avail_fd[t]
           i == next_fd[t]
           s == [fd[t] EXCEPT ![i] = r]
           j == find_avail_fd(s, av)
           s1 == [s EXCEPT ![j] = w]
           n1 == find_avail_fd(s1, AvailAfter(av))
           a1 == AvailAfter(AvailAfter(av))
<1>1. Usable(p) /\ i < NR_OPEN /\ j < NR_OPEN /\ w \in FILE
  BY DEF Pipe2, May
<1>2. /\ t \in TABLE /\ tstate[t] = "live" /\ fd[t] \in [Fd -> SlotValue]
      /\ av \in Nat \cup {-1} /\ Exact(fd[t], next_fd[t], av)
      /\ i \in Fd /\ fd[t][i] = NULL
  BY <1>1, CallTable
<1>3. r \in FILE /\ r # NULL /\ w # NULL
  <2>1. r \in Nat \ {0} /\ w = r + 1
    <3>1. Used(fstate, FILE) \in Nat
      BY Numbers, UsedNat, Zenon
    <3> QED BY <3>1 DEF NewFile
  <2> HIDE DEF r, w
  <2> QED BY <1>1, <2>1, Numbers DEF NULL
<1> HIDE DEF r, w
<1>4. av >= 1 /\ Exact(s, j, AvailAfter(av))
  BY <1>2, <1>3, FillExact, Zenon
<1>5. s \in [Fd -> SlotValue] /\ s[i] = r
  BY <1>2, <1>3 DEF SlotValue
<1>6. j \in Fd /\ s[j] = NULL /\ j # i
  <2>1. j = FirstFree(s)
    BY <1>4 DEF Exact
  <2>2. FirstFree(s) < NR_OPEN
    BY <1>1, <2>1
  <2> HIDE DEF s, j
  <2>3. j \in Fd /\ s[j] = NULL
    BY <2>1, <2>2, FreeFinite
  <2> QED BY <1>3, <1>5, <2>3
<1>7. AvailAfter(av) \in Nat \cup {-1}
  BY <1>2, <1>4 DEF AvailAfter
<1>8. AvailAfter(av) >= 1 /\ Exact(s1, n1, a1)
  <2> DEFINE av1 == AvailAfter(av)
  <2> HIDE DEF s, j, av1
  <2>1. Exact(s, j, av1) /\ av1 \in Nat \cup {-1}
    BY <1>4, <1>7 DEF av1
  <2>2. av1 >= 1 /\ Exact(s1, find_avail_fd(s1, av1), AvailAfter(av1))
    BY <1>3, <1>5, <1>6, <2>1, FillExact, Zenon
  <2> QED BY <2>2 DEF av1
<1>9. s1 \in [Fd -> SlotValue] /\ a1 \in Nat \cup {-1}
  <2>1. a1 \in Nat \cup {-1}
    <3> DEFINE av1 == AvailAfter(av)
    <3>1. av1 \in Nat \cup {-1} /\ av1 >= 1
      BY <1>7, <1>8
    <3> HIDE DEF av1
    <3>2. av1 - 1 \in Nat \cup {-1}
      BY <3>1
    <3> QED BY <3>2 DEF AvailAfter, av1
  <2> HIDE DEF s, j
  <2> QED BY <1>1, <1>5, <1>6, <2>1 DEF SlotValue
<1>10. /\ fd' = [fd EXCEPT ![t] = s1] /\ next_fd' = [next_fd EXCEPT ![t] = n1]
       /\ nr_avail_fd' = [nr_avail_fd EXCEPT ![t] = a1]
       /\ UNCHANGED <<fdtOf, tstate, locked>>
  BY DEF Pipe2, r, w
<1>11. tstate' \in [TABLE -> {"none", "live", "freed"}] /\ fdtOf' \in [PROC -> TABLE \cup {NULL}]
  BY <1>10 DEF TabInv, TabType
<1>12. TabInv'
  <2> HIDE DEF s1, n1, a1, t
  <2> QED BY <1>2, <1>8, <1>9, <1>10, <1>11, TableSet, Zenon
<1> QED BY <1>2, <1>6, <1>12 DEF r

(* Rank counts the used slots up to one of them: it is positive there, and   *)
(* grows from one used slot to the next.                                     *)
LEMMA RankGrows ==
  ASSUME NEW s, NEW i \in Fd, s[i] # NULL
  PROVE  Rank(s, i) \in Nat \ {0} /\ \A j \in Fd : j < i => Rank(s, j) < Rank(s, i)
<1> DEFINE U(k) == {x \in Fd : x <= k /\ s[x] # NULL}
<1>0. IsFiniteSet(Fd) /\ i \in Nat
  BY Numbers, FinInterval
<1>1. ASSUME NEW k \in Fd PROVE IsFiniteSet(U(k)) /\ Cardinality(U(k)) \in Nat
  <2>1. U(k) \in SUBSET Fd
    OBVIOUS
  <2> HIDE DEF U
  <2>2. IsFiniteSet(U(k))
    BY <1>0, <2>1, FinSubset
  <2> QED BY <2>2, FinType
<1>2. i \in U(i)
  BY <1>0
<1>3. Cardinality(U(i)) # 0
  <2>1. IsFiniteSet(U(i)) /\ U(i) # {}
    BY <1>1, <1>2
  <2> QED BY <2>1, FinEmpty
<1>4. ASSUME NEW j \in Fd, j < i PROVE Cardinality(U(j)) < Cardinality(U(i))
  <2>1. U(j) \in SUBSET U(i) /\ i \notin U(j)
    BY <1>0, <1>4, Numbers
  <2>2. U(j) # U(i)
    BY <1>2, <2>1
  <2>3. IsFiniteSet(U(i)) /\ Cardinality(U(i)) \in Nat /\ Cardinality(U(j)) \in Nat
    BY <1>1
  <2> HIDE DEF U
  <2>4. Cardinality(U(j)) <= Cardinality(U(i)) /\ (Cardinality(U(i)) = Cardinality(U(j)) => U(i) = U(j))
    BY <2>1, <2>3, FinSubset
  <2>5. Cardinality(U(i)) # Cardinality(U(j))
    BY <2>2, <2>4
  <2> QED BY <2>3, <2>4, <2>5
<1> QED BY <1>1, <1>3, <1>4 DEF Rank

(* A copied table has the files of fdt_dup in the slots that were used.      *)
LEMMA CopyFacts ==
  ASSUME NEW s
  PROVE  /\ \A i \in Fd : CopyOf(s, i) \in Nat /\ (CopyOf(s, i) = NULL <=> s[i] = NULL)
         /\ \A i, j \in Fd : CopyOf(s, i) = CopyOf(s, j) /\ s[i] # NULL => i = j
         /\ \A i \in Fd : s[i] # NULL => CopyOf(s, i) > Used(fstate, FILE)
<1>0. Used(fstate, FILE) \in Nat
  BY Numbers, UsedNat, Zenon
<1>1. ASSUME NEW i \in Fd, s[i] # NULL
      PROVE  /\ CopyOf(s, i) = Used(fstate, FILE) + Rank(s, i) /\ Rank(s, i) \in Nat \ {0}
             /\ CopyOf(s, i) \in Nat /\ CopyOf(s, i) # 0 /\ CopyOf(s, i) > Used(fstate, FILE)
  <2>1. CopyOf(s, i) = Used(fstate, FILE) + Rank(s, i)
    BY <1>1 DEF CopyOf, NewFile
  <2>2. Rank(s, i) \in Nat \ {0}
    BY <1>1, RankGrows
  <2> QED BY <1>0, <2>1, <2>2
<1>2. ASSUME NEW i \in Fd PROVE CopyOf(s, i) \in Nat /\ (CopyOf(s, i) = NULL <=> s[i] = NULL)
  <2>1. CASE s[i] = NULL
    BY <2>1 DEF CopyOf, NULL
  <2>2. CASE s[i] # NULL
    BY <1>1, <2>2 DEF NULL
  <2> QED BY <2>1, <2>2
<1>3. ASSUME NEW i \in Fd, NEW j \in Fd, CopyOf(s, i) = CopyOf(s, j), s[i] # NULL PROVE i = j
  <2>1. s[j] # NULL
    BY <1>2, <1>3
  <2>2. Rank(s, i) = Rank(s, j) /\ Rank(s, i) \in Nat /\ Rank(s, j) \in Nat
    BY <1>0, <1>1, <1>3, <2>1
  <2>3. ~(i < j) /\ ~(j < i)
    <3>1. i < j => Rank(s, i) < Rank(s, j)
      BY <2>1, RankGrows
    <3>2. j < i => Rank(s, j) < Rank(s, i)
      BY <1>3, RankGrows
    <3> QED BY <2>2, <3>1, <3>2
  <2> QED BY <2>3, Numbers
<1> QED BY <1>1, <1>2, <1>3

LEMMA ForkTab ==
  ASSUME TabInv, NEW p \in PROC, NEW c \in PROC, Fork(p, c)
  PROVE  TabInv'
<1> DEFINE t == fdtOf[p]
           s == fd[t]
           u == NewTable
           s1 == [i \in Fd |-> CopyOf(s, i)]
           n1 == next_fd[t]
           a1 == nr_avail_fd[t]
<1>1. Usable(p) /\ u \in TABLE /\ {CopyOf(s, i) : i \in Fd} \ {NULL} \subseteq FILE
  BY DEF Fork, May
<1>2. /\ t \in TABLE /\ s \in [Fd -> SlotValue]
      /\ a1 \in Nat \cup {-1} /\ Exact(s, n1, a1)
  BY <1>1, CallTable
<1>3. s1 \in [Fd -> SlotValue]
  BY <1>1 DEF SlotValue
<1>4. /\ fd' = [fd EXCEPT ![u] = s1] /\ next_fd' = [next_fd EXCEPT ![u] = n1]
      /\ nr_avail_fd' = [nr_avail_fd EXCEPT ![u] = a1]
      /\ tstate' = [tstate EXCEPT ![u] = "live"] /\ fdtOf' = [fdtOf EXCEPT ![c] = u]
      /\ locked' = locked
  BY DEF Fork
<1> HIDE DEF s, u
<1>5. Exact(s1, n1, a1)
  <2>1. \A i \in Fd : s1[i] = NULL <=> s[i] = NULL
    BY CopyFacts
  <2>2. Free(s1) = Free(s)
    BY <2>1 DEF Free
  <2> QED BY <1>2, <2>2 DEF Exact, FirstFree
<1>6. /\ tstate' \in [TABLE -> {"none", "live", "freed"}] /\ fdtOf' \in [PROC -> TABLE \cup {NULL}]
      /\ \A v \in TABLE \ {u} : tstate'[v] = tstate[v]
  BY <1>1, <1>4 DEF TabInv, TabType
<1> HIDE DEF s1, n1, a1
<1> QED BY <1>1, <1>2, <1>3, <1>4, <1>5, <1>6, TableSet, Zenon

LEMMA ExitTab ==
  ASSUME TabInv, NEW p \in PROC, Exit(p)
  PROVE  TabInv'
<1> DEFINE t == fdtOf[p]
<1>1. t \in TABLE
  BY CallTable DEF Exit
<1>2. /\ fd' = [fd EXCEPT ![t] = [i \in Fd |-> NULL]]
      /\ next_fd' = [next_fd EXCEPT ![t] = -1]
      /\ nr_avail_fd' = [nr_avail_fd EXCEPT ![t] = -1]
      /\ tstate' = [tstate EXCEPT ![t] = "freed"]
      /\ fdtOf' = [fdtOf EXCEPT ![p] = NULL] /\ locked' = locked
  BY DEF Exit
<1> HIDE DEF t
<1>3. [i \in Fd |-> NULL] \in [Fd -> SlotValue] /\ -1 \in -1 .. NR_OPEN /\ -1 \in Nat \cup {-1}
  BY Numbers DEF SlotValue
<1>4. TabType'
  BY <1>1, <1>2, <1>3 DEF TabInv, TabType, SlotValue, FILE
<1>5. \A u \in TABLE : tstate'[u] = "live" => u # t
  BY <1>1, <1>2 DEF TabInv, TabType
<1>6. \A u \in TABLE : u # t => /\ tstate'[u] = tstate[u] /\ fd'[u] = fd[u]
                                /\ next_fd'[u] = next_fd[u] /\ nr_avail_fd'[u] = nr_avail_fd[u]
  BY <1>1, <1>2 DEF TabInv, TabType
<1> QED BY <1>4, <1>5, <1>6, TablesKept

LEMMA InitTab == ASSUME Init PROVE TabInv
<1> DEFINE s == InitSlots
           F == NStd .. NR_OPEN - 1
<1>1. Free(s) = F /\ s \in [Fd -> SlotValue]
  BY Numbers DEF Free, InitSlots, NULL, STD, SlotValue
<1>2. F # {} /\ Min(F) = NStd
  <2>1. NStd \in F /\ \A y \in F : NStd <= y
    BY Numbers
  <2>2. \A x \in F : (\A y \in F : x <= y) => x = NStd
    BY <2>1, Numbers
  <2> HIDE DEF F
  <2> QED BY <2>1, <2>2 DEF Min
<1>3. Cardinality(F) = NR_OPEN - NStd
  BY Numbers, FinInterval
<1>4. Exact(s, NStd, NR_OPEN - NStd)
  <2>1. FirstFree(s) = NStd
    BY <1>1, <1>2 DEF FirstFree
  <2> QED BY <1>1, <1>3, <2>1, Numbers DEF Exact
<1>5. /\ fd = [u \in TABLE |-> s] /\ next_fd = [u \in TABLE |-> NStd]
      /\ nr_avail_fd = [u \in TABLE |-> NR_OPEN - NStd]
      /\ fdtOf \in [PROC -> TABLE \cup {NULL}]
      /\ tstate \in [TABLE -> {"none", "live", "freed"}]
      /\ locked \in [TABLE -> BOOLEAN]
  BY Numbers DEF Init
<1>6. TabType
  BY <1>1, <1>5, Numbers DEF TabType
<1> QED BY <1>4, <1>5, <1>6 DEF TabInv

LEMMA NextTab == ASSUME TabInv, [Next]_vars PROVE TabInv'
<1>0. ASSUME UNCHANGED <<fdtOf, tstate, fd, next_fd, nr_avail_fd, locked>> PROVE TabInv'
  <2>1. TabType'
    BY <1>0 DEF TabInv, TabType, SlotValue, FILE
  <2> QED BY <1>0, <2>1, TablesKept
<1>1. ASSUME NEW p \in PROC, Stuck(p) \/ OpenFail(p) \/ ForkFault(p) PROVE TabInv'
  BY <1>0, <1>1 DEF Stuck, OpenFail, ForkFault, tvars
<1>2. ASSUME NEW p \in PROC, OpenFull(p) \/ Pipe2Full(p) PROVE TabInv'
  <2>1. UNCHANGED <<fdtOf, tstate, fd, next_fd, nr_avail_fd>>
        /\ (locked' = locked \/ locked' = [locked EXCEPT ![fdtOf[p]] = TRUE])
    BY <1>2 DEF OpenFull, Pipe2Full
  <2>2. TabType'
    BY <2>1, Zenon DEF TabInv, TabType, SlotValue, FILE
  <2> QED BY <2>1, <2>2, TablesKept
<1>3. ASSUME NEW p \in PROC, NEW c \in PROC, CloneFiles(p, c) PROVE TabInv'
  <2>1. UNCHANGED <<tstate, fd, next_fd, nr_avail_fd, locked>> /\ fdtOf' = [fdtOf EXCEPT ![c] = fdtOf[p]]
    BY <1>3 DEF CloneFiles
  <2>2. TabType'
    BY <2>1 DEF TabInv, TabType, SlotValue, FILE
  <2> QED BY <2>1, <2>2, TablesKept
<1>4. ASSUME NEW p \in PROC, NEW i \in Fd, Dup(p, i) PROVE TabInv'
  BY <1>4, DupTab DEF Dup
<1>5. ASSUME NEW p \in PROC, NEW i \in Fd, NEW j \in Fd, Dup3(p, i, j) PROVE TabInv'
  BY <1>5, DupTab DEF Dup3
<1>6. ASSUME NEW p \in PROC, Open(p) PROVE TabInv'
  BY <1>6, OpenTab
<1>7. ASSUME NEW p \in PROC, NEW i \in Fd, Close(p, i) PROVE TabInv'
  BY <1>7, CloseTab
<1>8. ASSUME NEW p \in PROC, Pipe2(p) PROVE TabInv'
  BY <1>8, PipeTab, Zenon
<1>9. ASSUME NEW p \in PROC, NEW c \in PROC, Fork(p, c) PROVE TabInv'
  BY <1>9, ForkTab
<1>10. ASSUME NEW p \in PROC, Exit(p) PROVE TabInv'
  BY <1>10, ExitTab
<1>11. CASE UNCHANGED vars
  BY <1>0, <1>11 DEF vars, tvars
<1> QED BY <1>1, <1>2, <1>3, <1>4, <1>5, <1>6, <1>7, <1>8, <1>9, <1>10, <1>11 DEF Next

(* After any mix of open, close, dup, dup3, pipe2, fork, clone and exit the  *)
(* cached next_fd of a table is its lowest empty slot and nr_avail_fd, which *)
(* dup does not keep, is never below the number of empty slots: a free       *)
(* descriptor is never hidden from find_avail_fd.                            *)
THEOREM DescriptorCachesExact == Spec => []CachesExact
<1>1. Init => TabInv
  BY InitTab
<1>2. TabInv /\ [Next]_vars => TabInv'
  BY NextTab
<1>3. TabInv => CachesExact
  BY DEF TabInv, CachesExact, NextFdLowest, AvailEnough, Live, FreeSlots, Exact, FirstFree, Free
<1> QED BY <1>1, <1>2, <1>3, PTL DEF Spec

-----------------------------------------------------------------------------
(* Reference counts.  Addresses are given out in order; a file that was not  *)
(* given out is referred to by nothing.                                      *)
Prefix(state, S) == \E n \in S \cup {0} : \A x \in S : state[x] # "none" <=> x <= n
Holds(t, i, f) == tstate[t] = "live" /\ fd[t][i] = f
InSlot(f) == \E t \in TABLE, i \in Fd : Holds(t, i, f)
PipeEnds(q) == {f \in FILE : fstate[f] = "live" /\ f_private[f] = q}

Fresh ==
  /\ Prefix(tstate, TABLE) /\ Prefix(fstate, FILE) /\ Prefix(pstate, PIPE)
  /\ \A f \in FILE : fstate[f] = "none" => f_private[f] = NULL /\ f \notin dupped /\ ~InSlot(f)
  /\ \A f \in FILE : f_private[f] # NULL => pstate[f_private[f]] # "none"

(* A live file has a reference, and a live end of a pipe exactly one; no     *)
(* count is below zero.                                                      *)
RefsCover ==
  \A f \in FILE :
    /\ f_ref[f] >= 0
    /\ fstate[f] = "live" => f_ref[f] >= 1 /\ (f_private[f] # NULL => f_ref[f] = 1)

(* The slots of a file that dup has not touched.                             *)
SlotsUnique ==
  \A f \in FILE \ dupped :
    /\ \A t, u \in TABLE : \A i, j \in Fd : Holds(t, i, f) /\ Holds(u, j, f) => t = u /\ i = j
    /\ InSlot(f) => fstate[f] = "live"
    /\ fstate[f] = "live" /\ f_private[f] # NULL => InSlot(f)

PipesCounted ==
  \A q \in PIPE \ forked :
    /\ pipe_ref[q] = Cardinality(PipeEnds(q))
    /\ (pstate[q] = "live") <=> (pipe_ref[q] > 0)

Counts == Fresh /\ RefsCover /\ SlotsUnique /\ PipesCounted

States == {"none", "live", "freed"}
RefType ==
  /\ fstate \in [FILE -> States] /\ f_ref \in [FILE -> Int]
  /\ f_private \in [FILE -> PIPE \cup {NULL}] /\ std_ref \in Nat
  /\ pstate \in [PIPE -> States] /\ pipe_ref \in [PIPE -> Int]

(* A kernel that has stopped or used freed memory takes no further step.     *)
CountInv == TabInv /\ (halt = "no" => RefType /\ Counts)

(* Used finds the last address given out.                                    *)
LEMMA PrefixUsed ==
  ASSUME NEW N \in Nat, NEW st, Prefix(st, 1 .. N)
  PROVE  Used(st, 1 .. N) \in 0 .. N /\ \A x \in 1 .. N : st[x] # "none" <=> x <= Used(st, 1 .. N)
<1>1. PICK n \in (1 .. N) \cup {0} : \A x \in 1 .. N : st[x] # "none" <=> x <= n
  BY DEF Prefix
<1>2. {x \in 1 .. N : st[x] # "none"} = 1 .. n /\ n \in 0 .. N
  BY <1>1
<1>3. Cardinality(1 .. n) = n
  BY <1>2, FinInterval
<1>4. Used(st, 1 .. N) = n
  BY <1>2, <1>3, ZenonT(40) DEF Used
<1> QED BY <1>1, <1>2, <1>4

LEMMA PrefixGrown ==
  ASSUME NEW N \in Nat, NEW st, NEW st1, Prefix(st, 1 .. N), NEW k \in Nat,
         Used(st, 1 .. N) + k <= N,
         \A x \in 1 .. N : (st1[x] # "none") <=> (st[x] # "none" \/ x \in Used(st, 1 .. N) + 1 .. Used(st, 1 .. N) + k)
  PROVE  Prefix(st1, 1 .. N)
<1> DEFINE u == Used(st, 1 .. N)
<1>1. u \in 0 .. N /\ \A x \in 1 .. N : st[x] # "none" <=> x <= u
  BY PrefixUsed
<1> HIDE DEF u
<1>2. \A x \in 1 .. N : (st1[x] # "none") <=> (st[x] # "none" \/ x \in u + 1 .. u + k)
  BY DEF u
<1>3. u + k \in (1 .. N) \cup {0}
  BY <1>1 DEF u
<1>4. \A x \in 1 .. N : st1[x] # "none" <=> x <= u + k
  BY <1>1, <1>2
<1> QED BY <1>3, <1>4, Zenon DEF Prefix

LEMMA PrefixSame ==
  ASSUME NEW S, NEW st, NEW st1, Prefix(st, S), \A x \in S : (st1[x] # "none") <=> (st[x] # "none")
  PROVE  Prefix(st1, S)
BY DEF Prefix

LEMMA EndsFinite == \A q : IsFiniteSet(PipeEnds(q)) /\ Cardinality(PipeEnds(q)) \in Nat
<1> TAKE q
<1>1. IsFiniteSet(FILE)
  BY Numbers, FinInterval
<1>2. PipeEnds(q) \in SUBSET FILE
  BY DEF PipeEnds
<1>3. IsFiniteSet(PipeEnds(q))
  BY <1>1, <1>2, FinSubset
<1> QED BY <1>3, FinType

-----------------------------------------------------------------------------
(* file_put on files that were given out, without an access to freed memory: *)
(* counts and states of files and pipes stay in step.                        *)
LEMMA PutCounts ==
  ASSUME RefType, Fresh, RefsCover, PipesCounted,
         NEW times \in [FILE -> Nat], \A f \in FILE : times[f] > 0 => fstate[f] # "none",
         file_put(times), halt' = "no", forked' = forked
  PROVE  /\ RefType' /\ RefsCover' /\ PipesCounted' /\ f_private' = f_private
         /\ Prefix(fstate, FILE)' /\ Prefix(pstate, PIPE)'
         /\ \A q \in PIPE : pstate[q] # "none" => pstate'[q] # "none"
         /\ \A f \in FILE : fstate'[f] = "none" <=> fstate[f] = "none"
         /\ \A f \in FILE : times[f] = 0 => fstate'[f] = fstate[f]
         /\ \A f \in FILE : times[f] > 0 /\ f_private[f] # NULL => fstate'[f] # "live"
<1> DEFINE closed == {f \in FILE : times[f] > 0 /\ f_ref[f] <= times[f]}
           gone(q) == {f \in closed : f_private[f] = q}
           drops(q) == Cardinality(gone(q))
<1>1. /\ f_ref' = [f \in FILE |-> f_ref[f] - times[f]]
      /\ fstate' = [f \in FILE |-> IF f \in closed THEN "freed" ELSE fstate[f]]
      /\ pipe_ref' = [q \in PIPE |-> pipe_ref[q] - drops(q)]
      /\ pstate' = [q \in PIPE |-> IF drops(q) > 0 /\ pipe_ref[q] = drops(q)
                                   THEN "freed" ELSE pstate[q]]
      /\ f_private' = f_private /\ std_ref' = std_ref
  BY DEF file_put
<1>2. /\ \A f \in FILE : times[f] > 0 => fstate[f] # "freed" /\ ~(f_ref[f] < times[f])
      /\ \A q \in PIPE : drops(q) > 0 => pstate[q] # "freed" /\ ~(pipe_ref[q] < drops(q))
  <2>1. ~(\/ \E f \in FILE : times[f] > 0 /\ (fstate[f] = "freed" \/ f_ref[f] < times[f])
          \/ \E q \in PIPE : drops(q) > 0 /\ (pstate[q] = "freed" \/ pipe_ref[q] < drops(q)))
    BY DEF file_put
  <2> QED BY <2>1, Zenon
<1>3. \A f \in FILE : times[f] > 0 => fstate[f] = "live"
  BY <1>2 DEF RefType, States
<1>4. \A f \in closed : f \in FILE /\ times[f] > 0 /\ fstate[f] = "live"
  BY <1>3
<1>5. \A q \in PIPE : /\ IsFiniteSet(gone(q)) /\ drops(q) \in Nat /\ gone(q) \in SUBSET PipeEnds(q)
                      /\ (drops(q) = 0) <=> (gone(q) = {})
  <2> TAKE q \in PIPE
  <2>1. gone(q) \in SUBSET PipeEnds(q)
    BY <1>4 DEF PipeEnds
  <2>2. IsFiniteSet(PipeEnds(q))
    BY EndsFinite
  <2> HIDE DEF gone
  <2>3. IsFiniteSet(gone(q))
    BY <2>1, <2>2, FinSubset
  <2> QED BY <2>1, <2>3, FinType, FinEmpty
<1>6. RefType'
  <2>1. pipe_ref' \in [PIPE -> Int]
    <3>1. \A q \in PIPE : drops(q) \in Int
      BY <1>5
    <3> HIDE DEF drops
    <3> QED BY <1>1, <3>1 DEF RefType
  <2>2. fstate' \in [FILE -> States] /\ pstate' \in [PIPE -> States]
    BY <1>1 DEF RefType, States
  <2>3. f_ref' \in [FILE -> Int]
    BY <1>1 DEF RefType
  <2> QED BY <1>1, <2>1, <2>2, <2>3 DEF RefType, States, FILE, PIPE
<1>7. RefsCover'
  <2>0. ASSUME NEW f \in FILE PROVE f_ref'[f] >= 0
    <3>1. f_ref'[f] = f_ref[f] - times[f] /\ f_ref[f] \in Int /\ times[f] \in Nat /\ f_ref[f] >= 0
      BY <1>1 DEF RefType, RefsCover
    <3>2. times[f] > 0 => ~(f_ref[f] < times[f])
      BY <1>2
    <3> QED BY <3>1, <3>2
  <2> SUFFICES ASSUME NEW f \in FILE, fstate'[f] = "live"
               PROVE  f_ref'[f] >= 1 /\ (f_private'[f] # NULL => f_ref'[f] = 1)
    BY <2>0 DEF RefsCover, FILE
  <2>1. f \notin closed /\ fstate[f] = "live"
    BY <1>1
  <2>2. f_ref[f] >= 1 /\ (f_private[f] # NULL => f_ref[f] = 1) /\ f_ref[f] \in Int /\ times[f] \in Nat
    BY <2>1 DEF RefsCover, RefType
  <2>3. f_ref'[f] = f_ref[f] - times[f] /\ f_private'[f] = f_private[f]
    BY <1>1
  <2>4. times[f] = 0 \/ f_ref[f] > times[f]
    BY <2>1, <2>2
  <2> QED BY <2>2, <2>3, <2>4
<1>8. PipesCounted'
  <2> SUFFICES ASSUME NEW q \in PIPE \ forked
               PROVE  /\ pipe_ref'[q] = Cardinality(PipeEnds(q)')
                      /\ (pstate'[q] = "live") <=> (pipe_ref'[q] > 0)
    BY DEF PipesCounted, PIPE
  <2>1. PipeEnds(q)' = PipeEnds(q) \ gone(q)
    BY <1>1 DEF PipeEnds, FILE
  <2>2. /\ pipe_ref[q] = Cardinality(PipeEnds(q)) /\ (pstate[q] = "live" <=> pipe_ref[q] > 0)
        /\ Cardinality(PipeEnds(q)) \in Nat /\ IsFiniteSet(PipeEnds(q))
    BY EndsFinite DEF PipesCounted
  <2>3. IsFiniteSet(gone(q)) /\ drops(q) \in Nat /\ gone(q) \subseteq PipeEnds(q)
    BY <1>5, Zenon
  <2>4. Cardinality(PipeEnds(q) \ gone(q)) = Cardinality(PipeEnds(q)) - drops(q)
    <3> DEFINE A == PipeEnds(q) \ gone(q)
               B == gone(q)
    <3>1. A \cup B = PipeEnds(q) /\ A \cap B = {} /\ A \in SUBSET PipeEnds(q)
      BY <2>3
    <3>2. IsFiniteSet(B)
      BY <2>3
    <3> HIDE DEF A, B
    <3>3. IsFiniteSet(A)
      BY <2>2, <3>1, FinSubset
    <3>4. Cardinality(A \cup B) = Cardinality(A) + Cardinality(B) - Cardinality(A \cap B)
      BY <3>2, <3>3, FinUnion, Zenon
    <3>5. Cardinality(A) \in Nat /\ Cardinality(B) \in Nat /\ Cardinality({}) = 0
      BY <3>2, <3>3, FinType, FinEmpty
    <3>6. Cardinality(PipeEnds(q)) = Cardinality(A) + Cardinality(B)
      <4>1. Cardinality(A \cap B) = 0 /\ Cardinality(A \cup B) = Cardinality(PipeEnds(q))
        BY <3>1, <3>5, Zenon
      <4>2. Cardinality(A) + Cardinality(B) - 0 = Cardinality(A) + Cardinality(B)
        BY <3>5
      <4> QED BY <3>4, <4>1, <4>2
    <3>7. Cardinality(A) = Cardinality(PipeEnds(q)) - Cardinality(B)
      BY <3>5, <3>6
    <3> QED BY <3>7 DEF A, B
  <2>5. pipe_ref'[q] = pipe_ref[q] - drops(q)
    BY <1>1
  <2>6. pstate'[q] = IF drops(q) > 0 /\ pipe_ref[q] = drops(q) THEN "freed" ELSE pstate[q]
    BY <1>1
  <2>7. drops(q) > 0 => ~(pipe_ref[q] < drops(q))
    BY <1>2
  <2> DEFINE d == drops(q)
             c == pipe_ref[q]
  <2>8. d \in Nat /\ c \in Nat
    BY <2>2, <2>3
  <2> HIDE DEF d, c, drops
  <2>9. (pstate'[q] = "live") <=> (c - d > 0)
    <3>1. CASE d = 0
      BY <2>2, <2>6, <2>8, <3>1 DEF c, d
    <3>2. CASE d > 0 /\ c = d
      BY <2>6, <2>8, <3>2 DEF c, d
    <3>3. CASE d > 0 /\ c > d
      BY <2>2, <2>6, <2>8, <3>3 DEF c, d
    <3>4. d > 0 => ~(c < d)
      BY <2>7 DEF c, d
    <3> QED BY <2>8, <3>1, <3>2, <3>3, <3>4
  <2> QED BY <2>1, <2>2, <2>4, <2>5, <2>9 DEF c, d
<1>9. \A f \in FILE : fstate'[f] = "none" <=> fstate[f] = "none"
  BY <1>1, <1>4
<1>10. \A q \in PIPE : pstate'[q] = "none" <=> pstate[q] = "none"
  <2> TAKE q \in PIPE
  <2>1. pstate'[q] = IF drops(q) > 0 /\ pipe_ref[q] = drops(q) THEN "freed" ELSE pstate[q]
    BY <1>1
  <2>2. drops(q) > 0 => pstate[q] # "none"
    <3> SUFFICES ASSUME drops(q) > 0 PROVE pstate[q] # "none"
      OBVIOUS
    <3>1. gone(q) # {}
      BY <1>5
    <3>2. PICK f \in FILE : f_private[f] = q
      BY <3>1
    <3>3. q # NULL
      BY Numbers DEF NULL
    <3> QED BY <3>2, <3>3 DEF Fresh
  <2> QED BY <2>1, <2>2
<1>11. Prefix(fstate, FILE)' /\ Prefix(pstate, PIPE)'
  <2>1. Prefix(fstate', FILE)
    BY <1>9, PrefixSame DEF Fresh
  <2>2. Prefix(pstate', PIPE)
    BY <1>10, PrefixSame DEF Fresh
  <2> QED BY <2>1, <2>2 DEF Prefix, FILE, PIPE
<1>12. \A f \in FILE : times[f] = 0 => fstate'[f] = fstate[f]
  BY <1>1
<1>13. ASSUME NEW f \in FILE, times[f] > 0, f_private[f] # NULL PROVE fstate'[f] # "live"
  <2>1. f_ref[f] = 1
    BY <1>3, <1>13 DEF RefsCover
  <2>2. f \in closed
    BY <1>13, <2>1
  <2> QED BY <1>1, <2>2
<1> QED BY <1>1, <1>6, <1>7, <1>8, <1>9, <1>10, <1>11, <1>12, <1>13

(* close and exit: the slots R are emptied and every file is put as often as *)
(* it was in one of them.                                                    *)
LEMMA PutSlots ==
  ASSUME RefType, Counts, NEW R,
         NEW times \in [FILE -> Nat],
         \A f \in FILE : times[f] > 0 <=> \E t \in TABLE, i \in Fd : <<t, i>> \in R /\ Holds(t, i, f),
         \A f \in FILE, t \in TABLE, i \in Fd : Holds(t, i, f)' <=> Holds(t, i, f) /\ <<t, i>> \notin R,
         file_put(times), halt' = "no", forked' = forked, dupped' = dupped, Prefix(tstate, TABLE)'
  PROVE  RefType' /\ Counts'
<1>1. \A f \in FILE : times[f] > 0 => fstate[f] # "none"
  BY Zenon DEF Counts, Fresh, InSlot
<1>2. /\ RefType' /\ RefsCover' /\ PipesCounted' /\ f_private' = f_private
      /\ Prefix(fstate, FILE)' /\ Prefix(pstate, PIPE)'
      /\ \A q \in PIPE : pstate[q] # "none" => pstate'[q] # "none"
      /\ \A f \in FILE : fstate'[f] = "none" <=> fstate[f] = "none"
      /\ \A f \in FILE : times[f] = 0 => fstate'[f] = fstate[f]
      /\ \A f \in FILE : times[f] > 0 /\ f_private[f] # NULL => fstate'[f] # "live"
  BY <1>1, PutCounts DEF Counts
<1>3. \A f \in FILE : (times[f] = 0) <=> ~(times[f] > 0)
  OBVIOUS
<1>4. \A f \in FILE : InSlot(f)' => InSlot(f)
  BY ZenonT(40) DEF InSlot, TABLE, Fd
<1>5. Fresh'
  <2>1. ASSUME NEW f \in FILE, fstate'[f] = "none"
        PROVE  f_private'[f] = NULL /\ f \notin dupped' /\ ~InSlot(f)'
    <3>1. fstate[f] = "none"
      BY <1>2, <2>1
    <3> QED BY <1>2, <1>4, <3>1, Zenon DEF Counts, Fresh
  <2>2. ASSUME NEW f \in FILE, f_private'[f] # NULL PROVE pstate'[f_private'[f]] # "none"
    <3>1. f_private[f] \in PIPE /\ pstate[f_private[f]] # "none"
      BY <1>2, <2>2, Zenon DEF Counts, Fresh, RefType
    <3> QED BY <1>2, <3>1
  <2> QED BY <1>2, <2>1, <2>2 DEF Fresh, FILE
<1>6. SlotsUnique'
  <2> SUFFICES ASSUME NEW f \in FILE \ dupped
               PROVE  /\ \A t, u \in TABLE : \A i, j \in Fd :
                            Holds(t, i, f)' /\ Holds(u, j, f)' => t = u /\ i = j
                      /\ InSlot(f)' => fstate'[f] = "live"
                      /\ fstate'[f] = "live" /\ f_private'[f] # NULL => InSlot(f)'
    BY DEF SlotsUnique, FILE, TABLE, Fd
  <2>0. /\ \A t, u \in TABLE : \A i, j \in Fd : Holds(t, i, f) /\ Holds(u, j, f) => t = u /\ i = j
        /\ InSlot(f) => fstate[f] = "live"
        /\ fstate[f] = "live" /\ f_private[f] # NULL => InSlot(f)
    BY DEF Counts, SlotsUnique
  <2>1. \A t, u \in TABLE : \A i, j \in Fd : Holds(t, i, f)' /\ Holds(u, j, f)' => t = u /\ i = j
    BY <2>0, Zenon
  <2>2. ASSUME InSlot(f)' PROVE fstate'[f] = "live"
    <3>1. PICK t \in TABLE, i \in Fd : Holds(t, i, f)'
      BY <2>2 DEF InSlot, TABLE, Fd
    <3>2. Holds(t, i, f) /\ <<t, i>> \notin R
      BY <3>1
    <3>3. ~(times[f] > 0)
      <4> SUFFICES ASSUME NEW u \in TABLE, NEW j \in Fd, <<u, j>> \in R, Holds(u, j, f) PROVE FALSE
        BY Zenon
      <4>1. u = t /\ j = i
        BY <2>0, <3>2
      <4> QED BY <3>2, <4>1
    <3>4. fstate'[f] = fstate[f] /\ InSlot(f)
      BY <1>2, <1>3, <3>2, <3>3 DEF InSlot
    <3> QED BY <2>0, <3>4
  <2>3. ASSUME fstate'[f] = "live", f_private'[f] # NULL PROVE InSlot(f)'
    <3>1. ~(times[f] > 0)
      BY <1>2, <2>3
    <3>2. fstate[f] = "live"
      BY <1>2, <1>3, <2>3, <3>1
    <3>3. PICK t \in TABLE, i \in Fd : Holds(t, i, f)
      BY <1>2, <2>0, <2>3, <3>2 DEF InSlot
    <3>4. Holds(t, i, f)'
      BY <3>1, <3>3
    <3> QED BY <3>4 DEF InSlot, TABLE, Fd
  <2> QED BY <2>1, <2>2, <2>3
<1> QED BY <1>2, <1>5, <1>6 DEF Counts

(* open, pipe2 and fork: files that were not given out before, each put into *)
(* one slot.                                                                 *)
LEMMA NewSlots ==
  ASSUME RefType, Counts, NEW new \in SUBSET FILE,
         \A f \in new : fstate[f] = "none",
         \A f \in FILE : fstate'[f] = IF f \in new THEN "live" ELSE fstate[f],
         \A f \in FILE \ new : f_ref'[f] = f_ref[f] /\ f_private'[f] = f_private[f],
         \A f \in new : /\ f_ref'[f] >= 1
                        /\ f_private'[f] # NULL => f_ref'[f] = 1 /\ pstate'[f_private'[f]] # "none",
         RefType',
         \A q \in PIPE : pstate[q] # "none" => pstate'[q] # "none",
         Prefix(tstate, TABLE)', Prefix(fstate, FILE)', Prefix(pstate, PIPE)',
         \A f \in FILE \ new, t \in TABLE, i \in Fd : Holds(t, i, f)' <=> Holds(t, i, f),
         \A f \in new : InSlot(f)',
         \A f \in new : \A t, u \in TABLE : \A i, j \in Fd :
            Holds(t, i, f)' /\ Holds(u, j, f)' => t = u /\ i = j,
         dupped' = dupped, PipesCounted'
  PROVE  Counts'
<1>1. \A f \in FILE \ new : InSlot(f)' <=> InSlot(f)
  BY DEF InSlot, TABLE, Fd
<1>2. Fresh'
  <2>1. ASSUME NEW f \in FILE, fstate'[f] = "none"
        PROVE  f_private'[f] = NULL /\ f \notin dupped' /\ ~InSlot(f)'
    <3>1. f \notin new /\ fstate[f] = "none"
      BY <2>1, ZenonT(40)
    <3> QED BY <1>1, <3>1 DEF Counts, Fresh
  <2>2. ASSUME NEW f \in FILE, f_private'[f] # NULL PROVE pstate'[f_private'[f]] # "none"
    <3>1. CASE f \in new
      BY <2>2, <3>1, Zenon
    <3>2. CASE f \notin new
      <4>1. f_private'[f] = f_private[f]
        BY <3>2, Zenon
      <4>2. pstate[f_private[f]] # "none"
        BY <2>2, <4>1, Zenon DEF Counts, Fresh
      <4>3. f_private[f] \in PIPE
        <5>1. f_private \in [FILE -> PIPE \cup {NULL}]
          BY Zenon DEF RefType
        <5> QED BY <5>1, <2>2, <4>1, Zenon
      <4> QED BY <4>1, <4>2, <4>3, Zenon
    <3> QED BY <3>1, <3>2, Zenon
  <2> QED BY <2>1, <2>2, Zenon DEF Fresh, FILE
<1>3. RefsCover'
  <2>1. ASSUME NEW f \in FILE PROVE f_ref'[f] >= 0
    BY DEF Counts, RefsCover, RefType
  <2>2. ASSUME NEW f \in FILE, fstate'[f] = "live"
        PROVE  f_ref'[f] >= 1 /\ (f_private'[f] # NULL => f_ref'[f] = 1)
    BY <2>2 DEF Counts, RefsCover
  <2> QED BY <2>1, <2>2 DEF RefsCover, FILE
<1>4. SlotsUnique'
  <2> SUFFICES ASSUME NEW f \in FILE \ dupped
               PROVE  /\ \A t, u \in TABLE : \A i, j \in Fd :
                            Holds(t, i, f)' /\ Holds(u, j, f)' => t = u /\ i = j
                      /\ InSlot(f)' => fstate'[f] = "live"
                      /\ fstate'[f] = "live" /\ f_private'[f] # NULL => InSlot(f)'
    BY Zenon DEF SlotsUnique, FILE, TABLE, Fd
  <2>1. CASE f \in new
    BY <2>1
  <2>2. CASE f \notin new
    <3>1. /\ \A t, u \in TABLE : \A i, j \in Fd : Holds(t, i, f) /\ Holds(u, j, f) => t = u /\ i = j
          /\ InSlot(f) => fstate[f] = "live"
          /\ fstate[f] = "live" /\ f_private[f] # NULL => InSlot(f)
      BY Zenon DEF Counts, SlotsUnique
    <3> QED BY <1>1, <2>2, <3>1
  <2> QED BY <2>1, <2>2
<1> QED BY <1>2, <1>3, <1>4 DEF Counts

LEMMA CloseCounts ==
  ASSUME TabInv, RefType, Counts, NEW p \in PROC, NEW i \in Fd, Close(p, i), halt' = "no"
  PROVE  RefType' /\ Counts'
<1> DEFINE t == fdtOf[p]
           f == fd[t][i]
           times == [g \in FILE |-> IF g = f THEN 1 ELSE 0]
           R == {<<t, i>>}
<1>1. t \in TABLE /\ tstate[t] = "live"
  BY CallTable DEF Close
<1>2. /\ fd' = [fd EXCEPT ![t] = [fd[t] EXCEPT ![i] = NULL]] /\ file_put(times)
      /\ UNCHANGED <<tstate, dupped, forked>>
  BY DEF Close
<1>3. \A g \in FILE : times[g] > 0 <=> \E u \in TABLE, j \in Fd : <<u, j>> \in R /\ Holds(u, j, g)
  BY <1>1 DEF Holds
<1>4. \A g \in FILE, u \in TABLE, j \in Fd : Holds(u, j, g)' <=> Holds(u, j, g) /\ <<u, j>> \notin R
  <2> SUFFICES ASSUME NEW g \in FILE, NEW u \in TABLE, NEW j \in Fd
               PROVE  Holds(u, j, g)' <=> Holds(u, j, g) /\ ~(u = t /\ j = i)
    OBVIOUS
  <2>1. g # NULL
    BY Numbers DEF NULL
  <2>2. fd'[u][j] = IF u = t /\ j = i THEN NULL ELSE fd[u][j]
    BY <1>1, <1>2 DEF TabInv, TabType
  <2> QED BY <1>2, <2>1, <2>2 DEF Holds
<1>5. times \in [FILE -> Nat]
  OBVIOUS
<1>6. Prefix(tstate, TABLE)'
  BY <1>2 DEF Counts, Fresh, Prefix, TABLE
<1> HIDE DEF times, R
<1> QED BY <1>2, <1>3, <1>4, <1>5, <1>6, PutSlots, Zenon

LEMMA ExitCounts ==
  ASSUME TabInv, RefType, Counts, NEW p \in PROC, Exit(p), halt' = "no"
  PROVE  RefType' /\ Counts'
<1> DEFINE t == fdtOf[p]
           in(g) == {i \in Fd : fd[t][i] = g}
           times == [g \in FILE |-> Cardinality(in(g))]
           R == {t} \X Fd
<1>1. t \in TABLE /\ tstate[t] = "live"
  BY CallTable DEF Exit
<1>2. /\ fd' = [fd EXCEPT ![t] = [i \in Fd |-> NULL]] /\ file_put(times)
      /\ tstate' = [tstate EXCEPT ![t] = "freed"] /\ UNCHANGED <<dupped, forked>>
  BY DEF Exit
<1>3. ASSUME NEW g \in FILE
      PROVE  Cardinality(in(g)) \in Nat /\ (Cardinality(in(g)) = 0 <=> in(g) = {})
  <2>1. IsFiniteSet(Fd) /\ in(g) \in SUBSET Fd
    BY Numbers, FinInterval
  <2> HIDE DEF in
  <2>2. IsFiniteSet(in(g))
    BY <2>1, FinSubset
  <2> QED BY <2>2, FinType, FinEmpty
<1>4. ASSUME NEW g \in FILE
      PROVE  times[g] > 0 <=> \E u \in TABLE, j \in Fd : <<u, j>> \in R /\ Holds(u, j, g)
  <2>1. times[g] > 0 <=> in(g) # {}
    <3> HIDE DEF in
    <3> QED BY <1>3
  <2>2. in(g) # {} <=> \E j \in Fd : fd[t][j] = g
    OBVIOUS
  <2>3. (\E u \in TABLE, j \in Fd : <<u, j>> \in R /\ Holds(u, j, g)) <=> \E j \in Fd : fd[t][j] = g
    BY <1>1, Zenon DEF Holds
  <2> QED BY <2>1, <2>2, <2>3
<1>5. ASSUME NEW g \in FILE, NEW u \in TABLE, NEW j \in Fd
      PROVE  Holds(u, j, g)' <=> Holds(u, j, g) /\ <<u, j>> \notin R
  <2>1. CASE u = t
    <3>1. tstate'[u] # "live"
      BY <1>1, <1>2, <2>1 DEF TabInv, TabType
    <3> QED BY <2>1, <3>1 DEF Holds
  <2>2. CASE u # t
    <3>1. tstate'[u] = tstate[u] /\ fd'[u] = fd[u]
      BY <1>1, <1>2, <2>2 DEF TabInv, TabType
    <3> QED BY <2>2, <3>1 DEF Holds
  <2> QED BY <2>1, <2>2
<1>6. times \in [FILE -> Nat]
  <2> HIDE DEF in
  <2> QED BY <1>3
<1>7. Prefix(tstate, TABLE)'
  <2>1. \A u \in TABLE : tstate'[u] # "none" <=> tstate[u] # "none"
    BY <1>1, <1>2 DEF TabInv, TabType
  <2> QED BY <2>1 DEF Counts, Fresh, Prefix, TABLE
<1> HIDE DEF times, R
<1> QED BY <1>2, <1>4, <1>5, <1>6, <1>7, PutSlots, Zenon

(* What the allocations give out was not given out before.                   *)
LEMMA NewFileFresh ==
  ASSUME Prefix(fstate, FILE), NEW k \in Nat \ {0}, NewFile(k) \in FILE
  PROVE  fstate[NewFile(k)] = "none"
<1>1. Used(fstate, FILE) \in Nat /\ \A x \in FILE : fstate[x] # "none" <=> x <= Used(fstate, FILE)
  BY Numbers, PrefixUsed
<1>2. ~(NewFile(k) <= Used(fstate, FILE))
  BY <1>1 DEF NewFile
<1> QED BY <1>1, <1>2

LEMMA NewPipeFresh ==
  ASSUME Prefix(pstate, PIPE), NewPipe \in PIPE
  PROVE  pstate[NewPipe] = "none"
<1>1. Used(pstate, PIPE) \in Nat /\ \A x \in PIPE : pstate[x] # "none" <=> x <= Used(pstate, PIPE)
  BY Numbers, PrefixUsed
<1>2. ~(NewPipe <= Used(pstate, PIPE))
  BY <1>1 DEF NewPipe
<1> QED BY <1>1, <1>2

LEMMA NewTableFresh ==
  ASSUME Prefix(tstate, TABLE), NewTable \in TABLE
  PROVE  tstate[NewTable] = "none"
<1>1. Used(tstate, TABLE) \in Nat /\ \A x \in TABLE : tstate[x] # "none" <=> x <= Used(tstate, TABLE)
  BY Numbers, PrefixUsed
<1>2. ~(NewTable <= Used(tstate, TABLE))
  BY <1>1 DEF NewTable
<1> QED BY <1>1, <1>2

LEMMA OpenCounts ==
  ASSUME TabInv, RefType, Counts, NEW p \in PROC, Open(p)
  PROVE  RefType' /\ Counts'
<1>0. PICK f : f = NewFile(1)
  OBVIOUS
<1> DEFINE t == fdtOf[p]
           i == next_fd[t]
           new == {f}
<1>1. Usable(p) /\ i < NR_OPEN /\ f \in FILE
  BY <1>0 DEF Open, May
<1>2. t \in TABLE /\ tstate[t] = "live" /\ i \in Fd /\ fd[t][i] = NULL
  BY <1>1, CallTable
<1>3. /\ fd' = [fd EXCEPT ![t] = [fd[t] EXCEPT ![i] = f]]
      /\ fstate' = [fstate EXCEPT ![f] = "live"] /\ f_ref' = [f_ref EXCEPT ![f] = 1]
      /\ UNCHANGED <<tstate, f_private, std_ref, pstate, pipe_ref, dupped, forked>>
  BY <1>0 DEF Open, fd_alloc
<1>4. fstate[f] = "none" /\ f_private[f] = NULL /\ ~InSlot(f)
  BY <1>0, <1>1, NewFileFresh DEF Counts, Fresh
<1>5. RefType'
  BY <1>1, <1>3 DEF RefType, States, FILE, PIPE
<1>6. Prefix(tstate, TABLE)' /\ Prefix(pstate, PIPE)'
  BY <1>3 DEF Counts, Fresh, Prefix, TABLE, PIPE
<1>7. Prefix(fstate, FILE)'
  <2>1. \A x \in FILE : (fstate'[x] # "none") <=> (fstate[x] # "none" \/ x \in Used(fstate, FILE) + 1 .. Used(fstate, FILE) + 1)
    BY <1>0, <1>1, <1>3, UsedNat, Numbers DEF NewFile, RefType
  <2>2. Used(fstate, FILE) + 1 <= MaxFiles
    BY <1>0, <1>1, Numbers DEF NewFile
  <2>3. Prefix(fstate', FILE)
    BY <2>1, <2>2, Numbers, PrefixGrown, Zenon DEF Counts, Fresh
  <2> QED BY <2>3 DEF Prefix, FILE
<1>8. \A u \in TABLE, j \in Fd : fd'[u][j] = IF u = t /\ j = i THEN f ELSE fd[u][j]
  BY <1>2, <1>3 DEF TabInv, TabType
<1>9. \A g \in FILE \ new, u \in TABLE, j \in Fd : Holds(u, j, g)' <=> Holds(u, j, g)
  <2>1. \A g \in FILE : g # NULL
    BY Numbers DEF NULL
  <2> QED BY <1>2, <1>3, <1>8, <2>1 DEF Holds
<1>10. \A u \in TABLE, j \in Fd : Holds(u, j, f)' <=> u = t /\ j = i
  <2> TAKE u \in TABLE, j \in Fd
  <2>1. ~Holds(u, j, f)
    BY <1>4, Zenon DEF InSlot
  <2>2. CASE u = t /\ j = i
    BY <1>2, <1>3, <1>8, <2>2 DEF Holds
  <2>3. CASE ~(u = t /\ j = i)
    <3>1. fd'[u][j] = fd[u][j] /\ tstate'[u] = tstate[u]
      BY <1>3, <1>8, <2>3
    <3> QED BY <2>1, <2>3, <3>1 DEF Holds
  <2> QED BY <2>2, <2>3
<1>11. InSlot(f)'
  BY <1>2, <1>10 DEF InSlot, TABLE, Fd
<1>12. PipesCounted'
  <2>1. \A q \in PIPE : PipeEnds(q)' = PipeEnds(q)
    <3> TAKE q \in PIPE
    <3>1. q # NULL
      BY Numbers DEF NULL
    <3> QED BY <1>1, <1>3, <1>4, <3>1 DEF PipeEnds, FILE, RefType
  <2> QED BY <1>3, <2>1 DEF Counts, PipesCounted, PIPE
<1>13. \A g \in FILE : fstate'[g] = IF g \in new THEN "live" ELSE fstate[g]
  BY <1>1, <1>3 DEF RefType
<1>14. /\ \A g \in FILE \ new : f_ref'[g] = f_ref[g] /\ f_private'[g] = f_private[g]
       /\ f_ref'[f] >= 1 /\ f_private'[f] = NULL
  BY <1>1, <1>3, <1>4 DEF RefType
<1>15. new \in SUBSET FILE /\ \A g \in new : g = f
  BY <1>1
<1> HIDE DEF new
<1>16. /\ \A g \in new : fstate[g] = "none" /\ InSlot(g)'
       /\ \A g \in new : f_ref'[g] >= 1
             /\ (f_private'[g] # NULL => f_ref'[g] = 1 /\ pstate'[f_private'[g]] # "none")
       /\ \A g \in new : \A u, v \in TABLE : \A j, k \in Fd :
             Holds(u, j, g)' /\ Holds(v, k, g)' => u = v /\ j = k
  <2>1. \A u, v \in TABLE : \A j, k \in Fd :
             Holds(u, j, f)' /\ Holds(v, k, f)' => u = v /\ j = k
    BY <1>10
  <2>2. \A g \in new : g = f
    BY <1>15
  <2>3. \A g \in new : f_ref'[g] >= 1 /\ f_private'[g] = NULL /\ fstate[g] = "none"
    BY <1>4, <1>14, <2>2
  <2>4. ASSUME NEW g \in new PROVE InSlot(g)' /\ \A u, v \in TABLE : \A j, k \in Fd :
             Holds(u, j, g)' /\ Holds(v, k, g)' => u = v /\ j = k
    <3>1. g = f
      BY <2>2
    <3> QED BY <1>11, <2>1, <3>1
  <2> QED BY <2>3, <2>4
<1>17. \A q \in PIPE : pstate[q] # "none" => pstate'[q] # "none"
  BY <1>3
<1>18. Counts'
  BY <1>3, <1>5, <1>6, <1>7, <1>9, <1>12, <1>13, <1>14, <1>15, <1>16, <1>17, NewSlots, Zenon
<1> QED BY <1>5, <1>18

LEMMA PipeCounts ==
  ASSUME TabInv, RefType, Counts, NEW p \in PROC, Pipe2(p), halt' = "no"
  PROVE  RefType' /\ Counts'
<1>0. PICK r, w, q, new : r = NewFile(1) /\ w = NewFile(2) /\ q = NewPipe /\ new = {r, w}
  BY Zenon
<1> DEFINE t == fdtOf[p]
           i == next_fd[t]
           s == [fd[t] EXCEPT ![i] = r]
           j == find_avail_fd(s, nr_avail_fd[t])
<1>1. w \in FILE /\ q \in PIPE /\ t \in TABLE /\ tstate[t] = "live" /\ fd[t] \in [Fd -> SlotValue]
  BY <1>0, CallTable DEF Pipe2, May
<1>2. r \in FILE /\ w = r + 1 /\ r # w
  <2>1. Used(fstate, FILE) \in Nat
    BY Numbers, UsedNat, ZenonT(40)
  <2> QED BY <1>0, <1>1, <2>1, Numbers DEF NewFile
<1>3. i \in Fd /\ j \in Fd /\ i # j
  BY <1>0, PipeTab
<1>4. fd[t][i] = NULL /\ fd[t][j] = NULL
  <2>1. fd[t][i] = NULL /\ s[j] = NULL
    BY <1>0 DEF Pipe2
  <2> QED BY <1>1, <1>3, <2>1
<1>5. /\ fd' = [fd EXCEPT ![t] = [s EXCEPT ![j] = w]]
      /\ fstate' = [f \in FILE |-> IF f \in new THEN "live" ELSE fstate[f]]
      /\ f_ref' = [f \in FILE |-> IF f \in new THEN 1 ELSE f_ref[f]]
      /\ f_private' = [f \in FILE |-> IF f \in new THEN q ELSE f_private[f]]
      /\ pstate' = [pstate EXCEPT ![q] = "live"]
      /\ pipe_ref' = [pipe_ref EXCEPT ![q] = PipeRef]
      /\ UNCHANGED <<tstate, std_ref, dupped, forked>>
  BY <1>0 DEF Pipe2
<1>6. pstate[q] = "none" /\ q # NULL
  BY <1>0, <1>1, NewPipeFresh, Numbers DEF Counts, Fresh, NULL
<1>7. \A f \in new : f \in FILE /\ fstate[f] = "none" /\ f_private[f] = NULL /\ ~InSlot(f)
  <2>1. fstate[r] = "none" /\ fstate[w] = "none"
    BY <1>0, <1>1, <1>2, NewFileFresh DEF Counts, Fresh
  <2> QED BY <1>0, <1>1, <1>2, <2>1, ZenonT(40) DEF Counts, Fresh
<1>8. RefType'
  BY <1>1, <1>5 DEF RefType, States, FILE, PIPE, PipeRef
<1>9. Prefix(tstate, TABLE)'
  BY <1>5 DEF Counts, Fresh, Prefix, TABLE
<1>10. Prefix(pstate, PIPE)'
  <2>1. \A x \in PIPE : (pstate'[x] # "none") <=> (pstate[x] # "none" \/ x \in Used(pstate, PIPE) + 1 .. Used(pstate, PIPE) + 1)
    BY <1>0, <1>1, <1>5, UsedNat, Numbers DEF NewPipe, RefType
  <2>2. Used(pstate, PIPE) + 1 <= MaxPipes
    BY <1>0, <1>1, Numbers DEF NewPipe
  <2>3. Prefix(pstate', PIPE)
    BY <2>1, <2>2, Numbers, PrefixGrown, Zenon DEF Counts, Fresh
  <2> QED BY <2>3 DEF Prefix, PIPE
<1>11. Prefix(fstate, FILE)'
  <2>0. Used(fstate, FILE) \in Nat
    BY Numbers, UsedNat, Zenon
  <2>1. \A x \in FILE : (fstate'[x] # "none") <=> (fstate[x] # "none" \/ x \in Used(fstate, FILE) + 1 .. Used(fstate, FILE) + 2)
    <3>1. \A x \in FILE : x \in new <=> x \in Used(fstate, FILE) + 1 .. Used(fstate, FILE) + 2
      BY <1>0, <2>0, Numbers DEF NewFile
    <3> QED BY <1>5, <3>1
  <2>2. Used(fstate, FILE) + 2 <= MaxFiles
    BY <1>0, <1>1, Numbers DEF NewFile
  <2>3. Prefix(fstate', FILE)
    BY <2>1, <2>2, Numbers, PrefixGrown, Zenon DEF Counts, Fresh
  <2> QED BY <2>3 DEF Prefix, FILE
<1>12. \A u \in TABLE, k \in Fd : fd'[u][k] = IF u = t /\ k = i THEN r
                                           ELSE IF u = t /\ k = j THEN w ELSE fd[u][k]
  <2> HIDE DEF j
  <2> QED BY <1>1, <1>3, <1>5 DEF TabInv, TabType
<1> HIDE DEF s, i, j, t
<1>13. \A g \in FILE \ new, u \in TABLE, k \in Fd : Holds(u, k, g)' <=> Holds(u, k, g)
  <2> SUFFICES ASSUME NEW g \in FILE \ new, NEW u \in TABLE, NEW k \in Fd
               PROVE  fd'[u][k] = g <=> fd[u][k] = g
    BY <1>5 DEF Holds
  <2>1. g # NULL /\ g # r /\ g # w
    BY <1>0, Numbers DEF NULL
  <2> QED BY <1>4, <1>12, <2>1
<1>14. ASSUME NEW u \in TABLE, NEW k \in Fd
       PROVE  /\ Holds(u, k, r)' <=> (u = t /\ k = i)
              /\ Holds(u, k, w)' <=> (u = t /\ k = j)
  <2>1. ~Holds(u, k, r) /\ ~Holds(u, k, w)
    BY <1>0, <1>7 DEF InSlot
  <2>2. CASE u = t
    <3>1. tstate'[u] = "live" /\ tstate[u] = "live"
      BY <1>1, <1>5, <2>2
    <3>2. fd[u][k] # r /\ fd[u][k] # w
      BY <2>1, <3>1 DEF Holds
    <3>3. fd'[u][k] = IF k = i THEN r ELSE IF k = j THEN w ELSE fd[u][k]
      BY <1>12, <2>2
    <3> QED BY <1>2, <1>3, <2>2, <3>1, <3>2, <3>3 DEF Holds
  <2>3. CASE u # t
    <3>1. fd'[u][k] = fd[u][k] /\ tstate'[u] = tstate[u]
      BY <1>5, <1>12, <2>3
    <3> QED BY <2>1, <2>3, <3>1 DEF Holds
  <2> QED BY <2>2, <2>3
<1>15. ASSUME NEW g \in new
       PROVE  InSlot(g)' /\ \A u, v \in TABLE : \A k, l \in Fd :
                               Holds(u, k, g)' /\ Holds(v, l, g)' => u = v /\ k = l
  <2>2. InSlot(r)' /\ InSlot(w)'
    <3>1. PICK tt, ii, jj : tt = t /\ ii = i /\ jj = j
      OBVIOUS
    <3>2. Holds(tt, ii, r)' /\ Holds(tt, jj, w)' /\ tt \in TABLE /\ ii \in Fd /\ jj \in Fd
      BY <1>1, <1>3, <1>14, <3>1
    <3> QED BY <3>2 DEF InSlot, TABLE, Fd
  <2>3. g = r \/ g = w
    BY <1>0
  <2> QED BY <1>14, <2>2, <2>3
<1>16. PipesCounted'
  <2>1. ASSUME NEW x \in PIPE, x # q PROVE PipeEnds(x)' = PipeEnds(x)
    <3>1. x # NULL
      BY Numbers DEF NULL
    <3> QED BY <1>5, <1>7, <2>1, <3>1 DEF PipeEnds, FILE
  <2>2. PipeEnds(q)' = {r, w}
    <3>1. \A f \in FILE : f_private[f] # q
      BY <1>6 DEF Counts, Fresh
    <3>2. PipeEnds(q)' = {f \in FILE : f \in new}
      BY <1>5, <3>1 DEF PipeEnds, FILE
    <3> QED BY <1>0, <1>1, <1>2, <3>2
  <2>3. Cardinality({r, w}) = 2
    <3>1. {r, w} = {r} \cup {w} /\ w \notin {r}
      BY <1>2
    <3>2. IsFiniteSet({r}) /\ Cardinality({r}) = 1
      BY FinSingle, Zenon
    <3>3. Cardinality({r} \cup {w}) = 1 + 1
      BY <3>1, <3>2, FinAdd
    <3> QED BY <3>1, <3>3
  <2>4. ASSUME NEW x \in PIPE \ forked
        PROVE  pipe_ref'[x] = Cardinality(PipeEnds(x)') /\ (pstate'[x] = "live" <=> pipe_ref'[x] > 0)
    <3>1. CASE x = q
      <4>1. pipe_ref'[x] = 2 /\ pstate'[x] = "live"
        BY <1>1, <1>5, <3>1 DEF RefType, PipeRef
      <4>2. PipeEnds(x)' = {r, w}
        BY <2>2, <3>1
      <4> QED BY <2>3, <4>1, <4>2
    <3>2. CASE x # q
      <4>1. pipe_ref'[x] = pipe_ref[x] /\ pstate'[x] = pstate[x] /\ PipeEnds(x)' = PipeEnds(x)
        BY <1>1, <1>5, <2>1, <3>2 DEF RefType
      <4> QED BY <4>1 DEF Counts, PipesCounted
    <3> QED BY <3>1, <3>2
  <2> QED BY <1>5, <2>4 DEF PipesCounted, PIPE
<1>17. /\ \A f \in FILE : fstate'[f] = IF f \in new THEN "live" ELSE fstate[f]
       /\ \A f \in FILE \ new : f_ref'[f] = f_ref[f] /\ f_private'[f] = f_private[f]
       /\ \A f \in new : f_ref'[f] = 1 /\ f_private'[f] = q
  BY <1>5, <1>7
<1>18. pstate'[q] = "live" /\ \A x \in PIPE : pstate[x] # "none" => pstate'[x] # "none"
  BY <1>1, <1>5 DEF RefType
<1>19. new \in SUBSET FILE
  BY <1>7
<1>20. \A f \in new : /\ f_ref'[f] >= 1
                      /\ f_private'[f] # NULL => f_ref'[f] = 1 /\ pstate'[f_private'[f]] # "none"
  BY <1>17, <1>18
<1>21. Counts'
  BY <1>5, <1>7, <1>8, <1>9, <1>10, <1>11, <1>13, <1>15, <1>16, <1>17, <1>18, <1>19, <1>20, NewSlots, ZenonT(40)
<1> QED BY <1>8, <1>21

(* fdt_dup allocates one file for every used slot, one after the other.      *)
LEMMA CopiesInOrder ==
  ASSUME NEW s
  PROVE  \E k \in Nat : {CopyOf(s, i) : i \in Fd} \ {NULL} = Used(fstate, FILE) + 1 .. Used(fstate, FILE) + k
<1> DEFINE new == {CopyOf(s, i) : i \in Fd} \ {NULL}
           U == {i \in Fd : s[i] # NULL}
           k == Cardinality(U)
           a == Used(fstate, FILE)
           rank == [i \in U |-> Rank(s, i)]
<1>0. IsFiniteSet(Fd) /\ U \in SUBSET Fd /\ Fd \in SUBSET Nat
  BY Numbers, FinInterval
<1>1. IsFiniteSet(U) /\ k \in Nat
  <2> HIDE DEF U
  <2>1. IsFiniteSet(U)
    BY <1>0, FinSubset, Zenon
  <2> QED BY <2>1, FinType
<1>2. a \in Nat
  BY Numbers, UsedNat, Zenon
<1>3. ASSUME NEW i \in U PROVE Rank(s, i) \in 1 .. k
  <2> DEFINE B == {x \in Fd : x <= i /\ s[x] # NULL}
  <2>1. B \in SUBSET U
    OBVIOUS
  <2>2. Rank(s, i) = Cardinality(B)
    BY DEF Rank
  <2>3. Rank(s, i) \in Nat \ {0}
    BY RankGrows
  <2> HIDE DEF B, U
  <2>4. Cardinality(B) <= Cardinality(U)
    BY <1>1, <2>1, FinSubset
  <2> QED BY <1>1, <2>2, <2>3, <2>4
<1>4. \A i, j \in U : Rank(s, i) = Rank(s, j) => i = j
  <2> SUFFICES ASSUME NEW i \in U, NEW j \in U, Rank(s, i) = Rank(s, j) PROVE i = j
    OBVIOUS
  <2>1. i \in Fd /\ j \in Fd /\ s[i] # NULL /\ s[j] # NULL
    OBVIOUS
  <2>2. CopyOf(s, i) = CopyOf(s, j)
    BY <2>1 DEF CopyOf
  <2> QED BY <2>1, <2>2, CopyFacts
<1>5. rank \in [U -> 1 .. k] /\ \A i, j \in U : rank[i] = rank[j] => i = j
  BY <1>3, <1>4
<1>6. \A x \in 1 .. k : \E i \in U : rank[i] = x
  <2>1. IsFiniteSet(1 .. k) /\ Cardinality(1 .. k) = k
    BY <1>1, FinInterval
  <2>2. Cardinality(U) = Cardinality(1 .. k)
    BY <2>1
  <2> DEFINE T == 1 .. k
  <2>3. rank \in [U -> T] /\ (\A i, j \in U : rank[i] = rank[j] => i = j) /\ IsFiniteSet(T) /\ Cardinality(U) = Cardinality(T)
    BY <1>5, <2>1, <2>2
  <2> HIDE DEF U, rank, k, T
  <2>4. \A x \in T : \E i \in U : rank[i] = x
    BY <2>3, FinInjection
  <2> QED BY <2>4 DEF T
<1>7. \A x \in 1 .. k : \E i \in U : Rank(s, i) = x
  BY <1>6, Zenon
<1>8. \A i \in Fd : CopyOf(s, i) = IF i \in U THEN a + Rank(s, i) ELSE NULL
  BY DEF CopyOf, NewFile
<1>9. \A i \in U : i \in Fd /\ a + Rank(s, i) # NULL
  <2> SUFFICES ASSUME NEW i \in U PROVE i \in Fd /\ a + Rank(s, i) # NULL
    OBVIOUS
  <2>1. Rank(s, i) \in Nat \ {0}
    BY RankGrows
  <2> HIDE DEF a
  <2>2. a + Rank(s, i) # 0
    BY <1>2, <2>1
  <2> QED BY <2>2 DEF NULL
<1>10. new = {a + Rank(s, i) : i \in U}
  <2> HIDE DEF U, a
  <2> QED BY <1>8, <1>9
<1>11. new = a + 1 .. a + k
  <2> HIDE DEF U, a, k
  <2>1. ASSUME NEW y \in a + 1 .. a + k PROVE y \in {a + Rank(s, i) : i \in U}
    <3>1. y - a \in 1 .. k
      BY <1>1, <1>2
    <3>2. PICK i \in U : Rank(s, i) = y - a
      BY <1>7, <3>1
    <3>3. y = a + (y - a)
      BY <1>2
    <3> QED BY <3>2, <3>3
  <2>2. ASSUME NEW i \in U PROVE a + Rank(s, i) \in a + 1 .. a + k
    <3>1. Rank(s, i) \in 1 .. k
      BY <1>3
    <3> QED BY <1>1, <1>2, <3>1
  <2> QED BY <1>10, <2>1, <2>2
<1> QED BY <1>1, <1>11

LEMMA ForkCounts ==
  ASSUME TabInv, RefType, Counts, NEW p \in PROC, NEW c \in PROC, Fork(p, c), halt' = "no"
  PROVE  RefType' /\ Counts'
<1>0. PICK t, s, u, cp, new : /\ t = fdtOf[p] /\ s = fd[t] /\ u = NewTable
                              /\ cp = [i \in Fd |-> CopyOf(s, i)]
                              /\ new = {CopyOf(s, i) : i \in Fd} \ {NULL}
  BY ZenonT(40)
<1> DEFINE From(g) == s[CHOOSE i \in Fd : CopyOf(s, i) = g]
<1>1. u \in TABLE /\ new \in SUBSET FILE /\ t \in TABLE /\ tstate[t] = "live" /\ s \in [Fd -> SlotValue]
  BY <1>0, CallTable DEF Fork, May
<1>2. /\ fd' = [fd EXCEPT ![u] = cp]
      /\ tstate' = [tstate EXCEPT ![u] = "live"]
      /\ fstate' = [f \in FILE |-> IF f \in new THEN "live" ELSE fstate[f]]
      /\ f_ref' = [f \in FILE |-> IF f \in new THEN RefCopied(From(f)) ELSE f_ref[f]]
      /\ f_private' = [f \in FILE |-> IF f \in new /\ From(f) # STD
                                      THEN f_private[From(f)] ELSE f_private[f]]
      /\ std_ref' = std_ref + 1
      /\ forked' = forked \cup ({f_private[f] : f \in {s[i] : i \in Fd} \cap FILE} \ {NULL})
      /\ UNCHANGED <<pstate, pipe_ref, dupped>>
  BY <1>0 DEF Fork
<1>3. \A i \in Fd : s[i] \in FILE => fstate[s[i]] # "freed"
  BY <1>0 DEF Fork
<1>4. tstate[u] = "none"
  BY <1>0, <1>1, NewTableFresh, Zenon DEF Counts, Fresh
<1>5. PICK k \in Nat : new = Used(fstate, FILE) + 1 .. Used(fstate, FILE) + k
  <2>1. new = {CopyOf(s, i) : i \in Fd} \ {NULL}
    BY <1>0
  <2>2. PICK k \in Nat : {CopyOf(s, i) : i \in Fd} \ {NULL} = Used(fstate, FILE) + 1 .. Used(fstate, FILE) + k
    BY CopiesInOrder
  <2> QED BY <2>1, <2>2
<1>6. \A f \in new : fstate[f] = "none" /\ f_private[f] = NULL /\ ~InSlot(f) /\ f \in FILE
  <2>1. Used(fstate, FILE) \in Nat /\ \A x \in FILE : fstate[x] # "none" <=> x <= Used(fstate, FILE)
    BY Numbers, PrefixUsed DEF Counts, Fresh
  <2>2. \A f \in new : f \in FILE /\ ~(f <= Used(fstate, FILE))
    BY <1>1, <1>5, <2>1
  <2> QED BY <2>1, <2>2 DEF Counts, Fresh
<1>7. ASSUME NEW f \in new
      PROVE  \E i \in Fd : /\ cp[i] = f /\ s[i] # NULL /\ From(f) = s[i]
                           /\ \A j \in Fd : cp[j] = f => j = i
  <2>1. PICK i \in Fd : CopyOf(s, i) = f /\ f # NULL
    BY <1>0
  <2>2. s[i] # NULL
    BY <2>1, CopyFacts
  <2>3. \A j \in Fd : CopyOf(s, j) = f => j = i
    BY <2>1, <2>2, CopyFacts
  <2>4. (CHOOSE j \in Fd : CopyOf(s, j) = f) = i
    BY <2>1, <2>3
  <2> QED BY <1>0, <2>1, <2>2, <2>3, <2>4
<1> HIDE DEF From
<1>8. ASSUME NEW f \in new
      PROVE  /\ From(f) = STD \/ (/\ From(f) \in FILE /\ fstate[From(f)] = "live"
                                  /\ \E i \in Fd : From(f) = s[i])
             /\ STD \notin FILE
  <2>1. PICK i \in Fd : s[i] # NULL /\ From(f) = s[i]
    BY <1>7
  <2>2. From(f) = STD \/ From(f) \in FILE
    BY <1>1, <2>1 DEF SlotValue
  <2>3. STD \notin FILE
    BY Numbers DEF STD
  <2>4. From(f) \in FILE => fstate[From(f)] = "live"
    <3> SUFFICES ASSUME From(f) \in FILE PROVE fstate[From(f)] = "live"
      OBVIOUS
    <3>1. InSlot(From(f))
      BY <1>0, <1>1, <2>1, ZenonT(40) DEF InSlot, Holds
    <3>2. fstate[From(f)] # "none" /\ fstate[From(f)] # "freed"
      BY <1>3, <2>1, <3>1, ZenonT(40) DEF Counts, Fresh
    <3> QED BY <3>2 DEF RefType, States
  <2> QED BY <2>1, <2>2, <2>3, <2>4
<1>9. ASSUME NEW f \in new
      PROVE  /\ f_ref'[f] \in Int /\ f_ref'[f] >= 1
             /\ f_private'[f] \in PIPE \cup {NULL}
             /\ f_private'[f] # NULL => /\ f_ref'[f] = 1 /\ pstate[f_private'[f]] # "none"
                                        /\ f_private'[f] \in forked'
  <2>1. f_ref'[f] = RefCopied(From(f)) /\ f_private'[f] = IF From(f) # STD THEN f_private[From(f)] ELSE NULL
    BY <1>2, <1>6
  <2>2. CASE From(f) = STD
    <3>1. f_ref'[f] = std_ref + 1 /\ f_private'[f] = NULL
      BY <2>1, <2>2 DEF RefCopied
    <3> QED BY <3>1 DEF RefType
  <2>3. CASE From(f) # STD
    <3>1. From(f) \in FILE /\ fstate[From(f)] = "live" /\ \E i \in Fd : From(f) = s[i]
      BY <1>8, <2>3
    <3>2. f_ref'[f] = f_ref[From(f)] /\ f_private'[f] = f_private[From(f)]
      BY <2>1, <2>3 DEF RefCopied
    <3>3. f_ref[From(f)] \in Int /\ f_private[From(f)] \in PIPE \cup {NULL}
      BY <3>1 DEF RefType
    <3>4. /\ f_ref[From(f)] >= 1
          /\ f_private[From(f)] # NULL => f_ref[From(f)] = 1 /\ pstate[f_private[From(f)]] # "none"
      BY <3>1 DEF Counts, RefsCover, Fresh
    <3>5. f_private[From(f)] # NULL => f_private[From(f)] \in forked'
      BY <1>2, <3>1, Zenon
    <3> QED BY <3>2, <3>3, <3>4, <3>5
  <2> QED BY <2>2, <2>3
<1>10. \A f \in FILE \ new : f_ref'[f] = f_ref[f] /\ f_private'[f] = f_private[f]
  BY <1>2
<1>11. RefType'
  <2>1. f_ref' \in [FILE -> Int]
    <3>1. \A f \in FILE : f_ref'[f] \in Int
      BY <1>9, <1>10 DEF RefType
    <3>2. f_ref' = [f \in FILE |-> f_ref'[f]]
      BY <1>2
    <3> QED BY <3>1, <3>2
  <2>2. f_private' \in [FILE -> PIPE \cup {NULL}]
    <3>1. \A f \in FILE : f_private'[f] \in PIPE \cup {NULL}
      BY <1>9, <1>10 DEF RefType
    <3>2. f_private' = [f \in FILE |-> f_private'[f]]
      BY <1>2, Zenon
    <3> QED BY <3>1, <3>2
  <2>3. fstate' \in [FILE -> States] /\ std_ref' \in Nat
    BY <1>2 DEF RefType, States
  <2> QED BY <1>2, <2>1, <2>2, <2>3 DEF RefType, States, FILE, PIPE
<1>12. Prefix(pstate, PIPE)'
  BY <1>2 DEF Counts, Fresh, Prefix, PIPE
<1>13. Prefix(tstate, TABLE)'
  <2>1. \A x \in TABLE : (tstate'[x] # "none") <=> (tstate[x] # "none" \/ x \in Used(tstate, TABLE) + 1 .. Used(tstate, TABLE) + 1)
    BY <1>0, <1>1, <1>2, UsedNat, Numbers DEF NewTable, TabInv, TabType
  <2>2. Used(tstate, TABLE) + 1 <= MaxTables
    BY <1>0, <1>1, Numbers DEF NewTable
  <2>3. Prefix(tstate', TABLE)
    BY <2>1, <2>2, Numbers, PrefixGrown, Zenon DEF Counts, Fresh
  <2> QED BY <2>3 DEF Prefix, TABLE
<1>14. Prefix(fstate, FILE)'
  <2>0. Used(fstate, FILE) \in 0 .. MaxFiles
    BY Numbers, PrefixUsed DEF Counts, Fresh
  <2>1. \A x \in FILE : (fstate'[x] # "none") <=> (fstate[x] # "none" \/ x \in Used(fstate, FILE) + 1 .. Used(fstate, FILE) + k)
    BY <1>2, <1>5, Zenon
  <2>2. Used(fstate, FILE) + k <= MaxFiles
    <3>1. CASE k = 0
      BY <2>0, <3>1, Numbers
    <3>2. CASE k # 0
      <4>1. Used(fstate, FILE) + k \in new
        BY <1>5, <2>0, <3>2, Numbers
      <4>2. Used(fstate, FILE) + k \in 1 .. MaxFiles
        BY <1>1, <4>1, Numbers, Zenon
      <4> QED BY <2>0, <4>2, Numbers
    <3> QED BY <3>1, <3>2
  <2>3. Prefix(fstate', FILE)
    BY <2>1, <2>2, Numbers, PrefixGrown DEF Counts, Fresh
  <2> QED BY <2>3 DEF Prefix, FILE
<1>15. \A v \in TABLE : /\ v = u => fd'[v] = cp /\ tstate'[v] = "live"
                        /\ v # u => fd'[v] = fd[v] /\ tstate'[v] = tstate[v]
  BY <1>1, <1>2, Zenon DEF TabInv, TabType
<1>16. ASSUME NEW f \in FILE \ new, NEW v \in TABLE, NEW i \in Fd
       PROVE  Holds(v, i, f)' <=> Holds(v, i, f)
  <2>1. CASE v = u
    <3>1. cp[i] # f
      <4>1. f # NULL
        BY Numbers DEF NULL
      <4> QED BY <1>0, <4>1
    <3> QED BY <1>4, <1>15, <2>1, <3>1 DEF Holds
  <2>2. CASE v # u
    BY <1>15, <2>2 DEF Holds
  <2> QED BY <2>1, <2>2
<1>17. ASSUME NEW f \in new, NEW v \in TABLE, NEW i \in Fd
       PROVE  Holds(v, i, f)' <=> v = u /\ cp[i] = f
  <2>1. ~Holds(v, i, f)
    BY <1>6 DEF InSlot
  <2>2. CASE v = u
    BY <1>15, <2>2 DEF Holds
  <2>3. CASE v # u
    BY <1>15, <2>1, <2>3 DEF Holds
  <2> QED BY <2>2, <2>3
<1>18. ASSUME NEW f \in new
       PROVE  InSlot(f)' /\ \A v, x \in TABLE : \A i, j \in Fd :
                               Holds(v, i, f)' /\ Holds(x, j, f)' => v = x /\ i = j
  <2>1. PICK i \in Fd : cp[i] = f /\ \A j \in Fd : cp[j] = f => j = i
    BY <1>7
  <2>2. Holds(u, i, f)'
    BY <1>1, <1>17, <2>1
  <2>3. InSlot(f)'
    BY <1>1, <2>2 DEF InSlot, TABLE, Fd
  <2> QED BY <1>17, <2>1, <2>3
<1>19. PipesCounted'
  <2> SUFFICES ASSUME NEW q \in PIPE \ forked'
               PROVE  /\ pipe_ref'[q] = Cardinality(PipeEnds(q)')
                      /\ (pstate'[q] = "live") <=> (pipe_ref'[q] > 0)
    BY DEF PipesCounted, PIPE
  <2>1. q \notin forked /\ q # NULL
    BY <1>2, Numbers DEF NULL
  <2>2. \A f \in new : f_private'[f] # q /\ f_private[f] # q
    BY <1>6, <1>9, <2>1
  <2>3. PipeEnds(q)' = PipeEnds(q)
    <3>1. \A f \in FILE : fstate'[f] = "live" /\ f_private'[f] = q <=> fstate[f] = "live" /\ f_private[f] = q
      BY <1>2, <1>10, <2>2, Zenon
    <3> QED BY <3>1 DEF PipeEnds, FILE
  <2> QED BY <1>2, <2>1, <2>3, Zenon DEF Counts, PipesCounted
<1>20. /\ \A f \in FILE : fstate'[f] = IF f \in new THEN "live" ELSE fstate[f]
       /\ pstate' = pstate /\ dupped' = dupped
  BY <1>2
<1>21. \A f \in new : /\ f_ref'[f] >= 1
                      /\ f_private'[f] # NULL => f_ref'[f] = 1 /\ pstate'[f_private'[f]] # "none"
  BY <1>9, <1>20, ZenonT(40)
<1>22. \A f \in new : fstate[f] = "none"
  BY <1>6
<1>23. \A q \in PIPE : pstate[q] # "none" => pstate'[q] # "none"
  BY <1>20
<1>24. Counts'
  BY <1>1, <1>10, <1>11, <1>12, <1>13, <1>14, <1>16, <1>18, <1>19, <1>20, <1>21, <1>22, <1>23, NewSlots, ZenonT(40)
<1> QED BY <1>11, <1>24

LEMMA CountsUnchanged ==
  ASSUME RefType, Counts,
         UNCHANGED <<tstate, fd, fstate, f_ref, f_private, pstate, pipe_ref, dupped, forked>>,
         std_ref' \in Nat
  PROVE  RefType' /\ Counts'
<1>1. RefType'
  BY DEF RefType, States, FILE, PIPE
<1>2. \A f : InSlot(f)' <=> InSlot(f)
  BY DEF InSlot, Holds, TABLE, Fd
<1>3. Fresh'
  BY <1>2 DEF Counts, Fresh, Prefix, TABLE, FILE, PIPE
<1>4. RefsCover'
  BY DEF Counts, RefsCover, FILE
<1>5. SlotsUnique'
  BY <1>2 DEF Counts, SlotsUnique, Holds, TABLE, FILE, Fd
<1>6. \A q : PipeEnds(q)' = PipeEnds(q)
  BY DEF PipeEnds, FILE
<1>7. PipesCounted'
  BY <1>6 DEF Counts, PipesCounted, PIPE
<1> QED BY <1>1, <1>3, <1>4, <1>5, <1>7 DEF Counts

LEMMA DupCounts ==
  ASSUME TabInv, RefType, Counts, NEW p \in PROC, NEW old \in Fd, NEW new,
         new \in Fd \/ new = next_fd[fdtOf[p]], fd_clone(p, old, new)
  PROVE  RefType' /\ Counts'
<1>0. PICK t, v : t = fdtOf[p] /\ v = fd[t][old]
  OBVIOUS
<1>1. t \in TABLE /\ tstate[t] = "live" /\ fd[t] \in [Fd -> SlotValue] /\ UNCHANGED fvars /\ UNCHANGED <<tstate, forked>>
  BY <1>0, CallTable DEF fd_clone, May
<1>2. CASE Leaks(t, old, new)
  <2>1. UNCHANGED <<fd, dupped>>
    BY <1>0, <1>2 DEF fd_clone
  <2>2. std_ref' \in Nat
    BY <1>1, ZenonT(30) DEF fvars, RefType
  <2> QED BY <1>1, <2>1, <2>2, CountsUnchanged, Zenon DEF fvars
<1>3. CASE ~Leaks(t, old, new)
  <2>1. new \in Fd /\ v # NULL /\ fd[t][new] = NULL
    BY <1>0, <1>3, DupSlot
  <2>2. fd' = [fd EXCEPT ![t] = [fd[t] EXCEPT ![new] = v]] /\ dupped' = dupped \cup ({v} \ {STD})
    BY <1>0, <1>3 DEF fd_clone
  <2>3. UNCHANGED <<tstate, fstate, f_ref, f_private, std_ref, pstate, pipe_ref, forked>>
    BY <1>1 DEF fvars
  <2>4. \A u \in TABLE, i \in Fd : fd'[u][i] = IF u = t /\ i = new THEN v ELSE fd[u][i]
    BY <1>1, <2>1, <2>2 DEF TabInv, TabType
  <2>5. ASSUME NEW f \in FILE, f # v, NEW u \in TABLE, NEW i \in Fd
        PROVE  Holds(u, i, f)' <=> Holds(u, i, f)
    <3>1. f # NULL
      BY Numbers DEF NULL
    <3>2. fd'[u][i] = f <=> fd[u][i] = f
      BY <2>1, <2>4, <2>5, <3>1
    <3> QED BY <2>3, <3>2, ZenonT(40) DEF Holds
  <2>6. \A f \in FILE : f # v => (InSlot(f)' <=> InSlot(f))
    BY <2>5, ZenonT(30) DEF InSlot, TABLE, Fd
  <2>7. v \in FILE => fstate[v] # "none"
    BY <1>0, <1>1, Zenon DEF Counts, Fresh, InSlot, Holds
  <2>8. RefType'
    BY <2>3 DEF RefType, States, FILE, PIPE
  <2>9. Fresh'
    <3>1. Prefix(tstate, TABLE)' /\ Prefix(fstate, FILE)' /\ Prefix(pstate, PIPE)'
      BY <2>3 DEF Counts, Fresh, Prefix, TABLE, FILE, PIPE
    <3>2. ASSUME NEW f \in FILE, fstate'[f] = "none"
          PROVE  f_private'[f] = NULL /\ f \notin dupped' /\ ~InSlot(f)'
      <4>1. fstate[f] = "none" /\ f # v
        BY <2>3, <2>7, <3>2
      <4>2. f_private[f] = NULL /\ f \notin dupped /\ ~InSlot(f)
        BY <4>1 DEF Counts, Fresh
      <4> QED BY <2>2, <2>3, <2>6, <4>1, <4>2
    <3>3. \A f \in FILE : f_private'[f] # NULL => pstate'[f_private'[f]] # "none"
      BY <2>3 DEF Counts, Fresh
    <3> QED BY <3>1, <3>2, <3>3 DEF Fresh, FILE
  <2>10. RefsCover'
    BY <2>3, Zenon DEF Counts, RefsCover, FILE
  <2>11. SlotsUnique'
    <3> SUFFICES ASSUME NEW f \in FILE \ dupped'
                 PROVE  /\ \A x, u \in TABLE : \A i, j \in Fd :
                              Holds(x, i, f)' /\ Holds(u, j, f)' => x = u /\ i = j
                        /\ InSlot(f)' => fstate'[f] = "live"
                        /\ fstate'[f] = "live" /\ f_private'[f] # NULL => InSlot(f)'
      BY Zenon DEF SlotsUnique, FILE, TABLE, Fd
    <3>1. f \notin dupped /\ f # v
      <4>1. STD \notin FILE
        BY Numbers DEF STD
      <4> QED BY <2>2, <4>1
    <3>2. /\ \A x, u \in TABLE : \A i, j \in Fd : Holds(x, i, f) /\ Holds(u, j, f) => x = u /\ i = j
          /\ InSlot(f) => fstate[f] = "live"
          /\ fstate[f] = "live" /\ f_private[f] # NULL => InSlot(f)
      BY <3>1 DEF Counts, SlotsUnique
    <3> QED BY <2>3, <2>5, <2>6, <3>1, <3>2
  <2>12. PipesCounted'
    <3>1. \A q : PipeEnds(q)' = PipeEnds(q)
      BY <2>3 DEF PipeEnds, FILE
    <3> QED BY <2>3, <3>1 DEF Counts, PipesCounted, PIPE
  <2> QED BY <2>8, <2>9, <2>10, <2>11, <2>12, ZenonT(30) DEF Counts
<1> QED BY <1>2, <1>3

LEMMA InitCounts == ASSUME Init PROVE CountInv
<1>1. TabInv
  BY InitTab
<1>2. /\ tstate = [u \in TABLE |-> IF u = 1 THEN "live" ELSE "none"]
      /\ fd = [u \in TABLE |-> InitSlots]
      /\ fstate = [f \in FILE |-> "none"] /\ f_ref = [f \in FILE |-> 0]
      /\ f_private = [f \in FILE |-> NULL] /\ std_ref = 1
      /\ pstate = [q \in PIPE |-> "none"] /\ pipe_ref = [q \in PIPE |-> 0]
      /\ dupped = {} /\ forked = {}
  BY DEF Init
<1>3. RefType
  BY <1>2 DEF RefType, States
<1>4. \A f \in FILE : ~InSlot(f)
  BY <1>2, Numbers DEF InSlot, Holds, InitSlots, STD, NULL
<1>5. Fresh
  <2>1. Prefix(tstate, TABLE)
    <3>1. 1 \in TABLE \cup {0} /\ \A x \in TABLE : tstate[x] # "none" <=> x <= 1
      BY <1>2, Numbers
    <3> QED BY <3>1 DEF Prefix
  <2>2. \A x \in FILE : fstate[x] # "none" <=> x <= 0
    BY <1>2, Numbers
  <2>3. \A x \in PIPE : pstate[x] # "none" <=> x <= 0
    BY <1>2, Numbers
  <2>4. Prefix(fstate, FILE) /\ Prefix(pstate, PIPE)
    BY <2>2, <2>3 DEF Prefix
  <2> QED BY <1>2, <1>4, <2>1, <2>4 DEF Fresh
<1>6. RefsCover
  BY <1>2 DEF RefsCover
<1>7. SlotsUnique
  BY <1>2, <1>4 DEF SlotsUnique, InSlot
<1>8. PipesCounted
  <2>1. \A q : PipeEnds(q) = {}
    BY <1>2 DEF PipeEnds
  <2> QED BY <1>2, <2>1, FinEmpty DEF PipesCounted
<1> QED BY <1>1, <1>3, <1>5, <1>6, <1>7, <1>8 DEF CountInv, Counts

LEMMA NextCounts == ASSUME CountInv, [Next]_vars PROVE CountInv'
<1>0. TabInv /\ TabInv'
  BY NextTab DEF CountInv
<1> SUFFICES ASSUME halt' = "no" PROVE RefType' /\ Counts'
  BY <1>0 DEF CountInv
<1>1. CASE UNCHANGED vars
  <2>1. RefType /\ Counts
    BY <1>1 DEF CountInv, vars
  <2>2. std_ref' \in Nat /\ UNCHANGED <<tstate, fd, fstate, f_ref, f_private, pstate, pipe_ref, dupped, forked>>
    BY <1>1, <2>1 DEF vars, tvars, fvars, RefType
  <2> QED BY <2>1, <2>2, CountsUnchanged
<1>2. ASSUME NEW p \in PROC, halt = "no",
             \/ Stuck(p) \/ Open(p) \/ OpenFull(p) \/ OpenFail(p) \/ Pipe2(p) \/ Pipe2Full(p)
             \/ ForkFault(p) \/ Exit(p)
             \/ \E i \in Fd : Close(p, i) \/ Dup(p, i)
             \/ \E i, j \in Fd : Dup3(p, i, j)
             \/ \E c \in PROC : Fork(p, c) \/ CloneFiles(p, c)
      PROVE  RefType' /\ Counts'
  <2>0. RefType /\ Counts
    BY <1>2, Zenon DEF CountInv
  <2>1. CASE Stuck(p) \/ OpenFail(p) \/ ForkFault(p)
    BY <2>1 DEF Stuck, OpenFail, ForkFault
  <2>2. CASE OpenFull(p) \/ Pipe2Full(p)
    <3>1. UNCHANGED <<tstate, fd, fvars, dupped, forked>>
      BY <2>2 DEF OpenFull, Pipe2Full
    <3>2. std_ref' \in Nat
      BY <2>0, <3>1 DEF fvars, RefType
    <3> QED BY <2>0, <3>1, <3>2, CountsUnchanged DEF fvars
  <2>3. ASSUME NEW c \in PROC, CloneFiles(p, c) PROVE RefType' /\ Counts'
    <3>1. UNCHANGED <<tstate, fd, fstate, f_ref, f_private, pstate, pipe_ref, dupped, forked>>
          /\ std_ref' = std_ref + 1
      BY <2>3 DEF CloneFiles
    <3>2. std_ref' \in Nat
      BY <2>0, <3>1 DEF RefType
    <3> QED BY <2>0, <3>1, <3>2, CountsUnchanged
  <2>4. CASE Open(p)
    BY <1>0, <2>0, <2>4, OpenCounts
  <2>5. CASE Pipe2(p)
    BY <1>0, <2>0, <2>5, PipeCounts
  <2>6. CASE Exit(p)
    BY <1>0, <2>0, <2>6, ExitCounts
  <2>7. ASSUME NEW i \in Fd, Close(p, i) PROVE RefType' /\ Counts'
    BY <1>0, <2>0, <2>7, CloseCounts, Zenon
  <2>8. ASSUME NEW i \in Fd, Dup(p, i) PROVE RefType' /\ Counts'
    BY <1>0, <2>0, <2>8, DupCounts DEF Dup
  <2>9. ASSUME NEW i \in Fd, NEW j \in Fd, Dup3(p, i, j) PROVE RefType' /\ Counts'
    BY <1>0, <2>0, <2>9, DupCounts DEF Dup3
  <2>10. ASSUME NEW c \in PROC, Fork(p, c) PROVE RefType' /\ Counts'
    BY <1>0, <2>0, <2>10, ForkCounts
  <2> QED BY <1>2, <2>1, <2>2, <2>3, <2>4, <2>5, <2>6, <2>7, <2>8, <2>9, <2>10
<1>3. CASE Next
  <2>1. PICK p \in PROC :
          \/ Stuck(p) \/ Open(p) \/ OpenFull(p) \/ OpenFail(p) \/ Pipe2(p) \/ Pipe2Full(p)
          \/ ForkFault(p) \/ Exit(p)
          \/ \E i \in Fd : Close(p, i) \/ Dup(p, i)
          \/ \E i, j \in Fd : Dup3(p, i, j)
          \/ \E c \in PROC : Fork(p, c) \/ CloneFiles(p, c)
    BY <1>3 DEF Next
  <2>2. halt = "no"
    BY <2>1, Zenon DEF Stuck, Open, OpenFull, OpenFail, Pipe2, Pipe2Full, ForkFault, Exit, Close, Dup, Dup3,
                Fork, CloneFiles, May, Usable, Runs
  <2> QED BY <1>2, <2>1, <2>2
<1> QED BY <1>1, <1>3

LEMMA CountsImplied == ASSUME CountInv PROVE CountsKept
<1> SUFFICES ASSUME halt = "no" PROVE CountsKept
  BY Zenon DEF CountsKept, CountedFilesKept, CountedPipesKept
<1>0. TabInv /\ RefType /\ Counts
  BY DEF CountInv
<1>1. CountedPipesKept
  BY <1>0 DEF CountedPipesKept, Counts, PipesCounted, PipeEnds
<1>2. CountedFilesKept
  <2> SUFFICES ASSUME NEW f \in FILE \ dupped
               PROVE  LET n == Cardinality(Slots(f)) IN
                      /\ n <= 1 /\ n <= f_ref[f]
                      /\ n = 1 => fstate[f] = "live"
                      /\ fstate[f] = "live" /\ f_private[f] # NULL => n = 1
    BY DEF CountedFilesKept
  <2>1. /\ \A t, u \in TABLE : \A i, j \in Fd : Holds(t, i, f) /\ Holds(u, j, f) => t = u /\ i = j
        /\ InSlot(f) => fstate[f] = "live"
        /\ fstate[f] = "live" /\ f_private[f] # NULL => InSlot(f)
    BY <1>0 DEF Counts, SlotsUnique
  <2>2. Slots(f) # {} <=> InSlot(f)
    <3>1. ASSUME NEW x \in Slots(f) PROVE InSlot(f)
      <4>1. x[1] \in TABLE /\ x[2] \in Fd /\ Holds(x[1], x[2], f)
        BY DEF Slots, Live, Holds
      <4> QED BY <4>1 DEF InSlot
    <3>2. ASSUME NEW t \in TABLE, NEW i \in Fd, Holds(t, i, f) PROVE <<t, i>> \in Slots(f)
      BY <3>2 DEF Slots, Live, Holds
    <3> QED BY <3>1, <3>2, Zenon DEF InSlot
  <2>3. CASE InSlot(f)
    <3>1. PICK t \in TABLE, i \in Fd : Holds(t, i, f)
      BY <2>3 DEF InSlot
    <3>2. Slots(f) = {<<t, i>>}
      BY <2>1, <3>1 DEF Slots, Live, Holds
    <3>3. Cardinality(Slots(f)) = 1
      BY <3>2, FinSingle, Zenon
    <3>4. fstate[f] = "live" /\ f_ref[f] >= 1 /\ f_ref[f] \in Int
      BY <1>0, <2>1, <2>3, Zenon DEF Counts, RefsCover, RefType
    <3> QED BY <3>3, <3>4
  <2>4. CASE ~InSlot(f)
    <3>1. Slots(f) = {}
      BY <2>2, <2>4
    <3>2. Cardinality(Slots(f)) = 0
      BY <3>1, FinEmpty
    <3>3. 0 <= f_ref[f]
      BY <1>0 DEF Counts, RefsCover, RefType
    <3> QED BY <2>1, <2>4, <3>2, <3>3
  <2> QED BY <2>3, <2>4
<1> QED BY <1>1, <1>2 DEF CountsKept

(* As long as the kernel has not stopped or used freed memory, fork, close   *)
(* and exit keep the counts of files and pipes in step with the tables: a    *)
(* file that dup has not touched is in at most one slot, live, with a count  *)
(* that covers it, and a pipe that no fork has copied lives exactly as long  *)
(* as one of its ends.                                                       *)
THEOREM ReferenceCountsKept == Spec => []CountsKept
<1>1. Init => CountInv
  BY InitCounts
<1>2. CountInv /\ [Next]_vars => CountInv'
  BY NextCounts
<1>3. CountInv => CountsKept
  BY CountsImplied
<1> QED BY <1>1, <1>2, <1>3, PTL DEF Spec
=============================================================================
