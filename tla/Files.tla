------------------------------- MODULE Files -------------------------------
(* File descriptors: the descriptor tables and open files of                 *)
(* kernel/fs/file.c, the system calls of kernel/fs/fs.c that change them     *)
(* (openat, close, dup, dup3, pipe2), the reference count of a pipe          *)
(* (kernel/fs/pipe.c) and what fork, clone and exit do with a table.         *)
(*                                                                           *)
(* A system call is one step: on LoongArch it runs with interrupts off, and  *)
(* on RISC-V a table is used by one process unless CLONE_FILES shares it.    *)
(* An address is not given out again after kfree, so that a pointer to freed *)
(* memory stays visible.  The three standard streams, static and never       *)
(* freed, are one file STD in the first NStd slots.  What a descriptor is    *)
(* opened on, its flags and its offset are left out.  Definitions ending in  *)
(* _bug are slips that no specification uses.                                *)
EXTENDS Integers, FiniteSets, FiniteSetsExt

CONSTANTS PROC, init_proc,  \* processes
          MaxTables, MaxFiles, MaxPipes,  \* bounds: objects ever allocated
          MaxAvail,         \* bound: nr_avail_fd, which dup and close push up
          NR_OPEN, NStd,    \* slots of a table, and those of the streams
          Calls             \* system calls the programs make

NULL == 0
STD == -1
Fd == 0 .. NR_OPEN - 1
TABLE == 1 .. MaxTables
FILE == 1 .. MaxFiles
PIPE == 1 .. MaxPipes

ASSUME FilesAssumption ==
  /\ init_proc \in PROC
  /\ MaxTables \in Nat \ {0} /\ MaxFiles \in Nat /\ MaxPipes \in Nat /\ MaxAvail \in Nat
  /\ NStd \in Nat \ {0} /\ NR_OPEN \in Nat /\ NStd < NR_OPEN
  /\ Calls \subseteq {"open", "open_fail", "dup", "pipe2", "fork", "clone_files"}

VARIABLES
  fdtOf,     \* p->fdt, NULL for a process that does not exist
  tstate,    \* "none", "live" or "freed", of a table
  fd,        \* fdt->fd[]
  next_fd, nr_avail_fd,
  locked,    \* fdt->fdt_lock is held
  fstate,    \* "none", "live" or "freed", of a file
  f_ref,
  f_private, \* the pipe of a pipe's file, NULL for other files
  std_ref,   \* f_ref of the standard streams
  pstate,    \* "none", "live" or "freed", of a pipe
  pipe_ref,  \* pipe->ref
  dupped,    \* history: files that dup or dup3 has given a second slot
  forked,    \* history: pipes whose files a fork has copied
  halt       \* "no", "assert" (the kernel stopped) or "freed" (freed memory used)

tvars == <<fdtOf, tstate, fd, next_fd, nr_avail_fd, locked>>
fvars == <<fstate, f_ref, f_private, std_ref, pstate, pipe_ref>>
vars == <<tvars, fvars, dupped, forked, halt>>

Runs(p) == halt = "no" /\ fdtOf[p] # NULL

-----------------------------------------------------------------------------
(* find_avail_fd on the slots s with n of them said to be free.              *)
Lowest_bug(s) == Max({i \in Fd : s[i] = NULL})
Lowest(s) == Min({i \in Fd : s[i] = NULL})
find_avail_fd(s, n) ==
  IF n = 0 \/ \A i \in Fd : s[i] # NULL THEN NR_OPEN ELSE Lowest(s)

(* fdt_init: the standard streams in the first slots.                        *)
InitSlots == [i \in Fd |-> IF i < NStd THEN STD ELSE NULL]

Init ==
  LET t == 1 IN
    /\ fdtOf = [p \in PROC |-> IF p = init_proc THEN t ELSE NULL]
    /\ tstate = [u \in TABLE |-> IF u = t THEN "live" ELSE "none"]
    /\ fd = [u \in TABLE |-> InitSlots]
    /\ next_fd = [u \in TABLE |-> NStd]
    /\ nr_avail_fd = [u \in TABLE |-> NR_OPEN - NStd]
    /\ locked = [u \in TABLE |-> FALSE]
    /\ fstate = [f \in FILE |-> "none"]
    /\ f_ref = [f \in FILE |-> 0]
    /\ f_private = [f \in FILE |-> NULL]
    /\ std_ref = 1
    /\ pstate = [q \in PIPE |-> "none"]
    /\ pipe_ref = [q \in PIPE |-> 0]
    /\ dupped = {}
    /\ forked = {}
    /\ halt = "no"

(* file_put, times[f] times on each file: at zero the file's close operation *)
(* (pipe_close drops one reference of the pipe) and kfree.  A count below    *)
(* zero is a put on freed memory.                                            *)
file_put(times) ==
  LET closed == {f \in FILE : times[f] > 0 /\ f_ref[f] <= times[f]}
      drops(q) == Cardinality({f \in closed : f_private[f] = q})
  IN
  /\ f_ref' = [f \in FILE |-> f_ref[f] - times[f]]
  /\ fstate' = [f \in FILE |-> IF f \in closed THEN "freed" ELSE fstate[f]]
  /\ pipe_ref' = [q \in PIPE |-> pipe_ref[q] - drops(q)]
  /\ pstate' = [q \in PIPE |-> IF drops(q) > 0 /\ pipe_ref[q] = drops(q)
                               THEN "freed" ELSE pstate[q]]
  /\ halt' = IF \/ \E f \in FILE : times[f] > 0 /\
                      (fstate[f] = "freed" \/ f_ref[f] < times[f])
                \/ \E q \in PIPE : drops(q) > 0 /\
                      (pstate[q] = "freed" \/ pipe_ref[q] < drops(q))
             THEN "freed" ELSE "no"
  /\ UNCHANGED <<f_private, std_ref>>

-----------------------------------------------------------------------------
(* Addresses kalloc returns next.                                            *)
Used(state, S) == Cardinality({x \in S : state[x] # "none"})
NewFile(k) == Used(fstate, FILE) + k
NewPipe == Used(pstate, PIPE) + 1
NewTable == Used(tstate, TABLE) + 1

(* fd_alloc of f in table t: fd_alloc's assertion that the slot is empty,    *)
(* find_avail_fd before the counter is decremented, file_get.                *)
AvailAfter(n) == n - 1

fd_alloc(t, f) ==
  LET s == [fd[t] EXCEPT ![next_fd[t]] = f] IN
  /\ fd' = [fd EXCEPT ![t] = s]
  /\ next_fd' = [next_fd EXCEPT ![t] = find_avail_fd(s, nr_avail_fd[t])]
  /\ nr_avail_fd' = [nr_avail_fd EXCEPT ![t] = AvailAfter(@)]
  /\ halt' = IF fd[t][next_fd[t]] = NULL THEN "no" ELSE "assert"

(* A system call that takes a lock left held by an earlier one ends in the   *)
(* assertion of spinlock_acquire; one on a table that another process has    *)
(* freed uses freed memory.                                                  *)
Stuck(p) ==
  /\ Runs(p)
  /\ IF tstate[fdtOf[p]] = "freed"
     THEN halt' = "freed"
     ELSE locked[fdtOf[p]] /\ halt' = "assert"
  /\ UNCHANGED <<tvars, fvars, dupped, forked>>

Usable(p) == Runs(p) /\ tstate[fdtOf[p]] = "live" /\ ~locked[fdtOf[p]]
May(p, call) == Usable(p) /\ call \in Calls

(* openat that succeeds.                                                     *)
Open(p) ==
  LET t == fdtOf[p]
      f == NewFile(1)
  IN
  /\ May(p, "open")
  /\ f \in FILE
  /\ next_fd[t] < NR_OPEN
  /\ fd_alloc(t, f)
  /\ fstate' = [fstate EXCEPT ![f] = "live"]
  /\ f_ref' = [f_ref EXCEPT ![f] = 1]
  /\ UNCHANGED <<fdtOf, tstate, locked, f_private, std_ref, pstate, pipe_ref,
                 dupped, forked>>

(* openat or dup with a full table, dup of an empty slot or dup3 onto a used *)
(* one: fd_alloc and fd_clone return -1 and keep the lock (fd[NR_OPEN], read *)
(* by a dup in a full table, is the non-zero next_fd behind the array).  The *)
(* file openat had allocated is freed and never seen.                        *)
Leaks(t, old, new) == fd[t][old] = NULL \/ new = NR_OPEN \/ fd[t][new] # NULL

OpenFull(p) ==
  /\ May(p, "open")
  /\ next_fd[fdtOf[p]] >= NR_OPEN
  /\ locked' = [locked EXCEPT ![fdtOf[p]] = TRUE]
  /\ UNCHANGED <<fdtOf, tstate, fd, next_fd, nr_avail_fd, fvars, dupped, forked, halt>>

(* openat whose last step, getattr, fails: fd_free closes and frees the file *)
(* and its inode, and both are freed again on the way out.                   *)
OpenFail(p) ==
  /\ May(p, "open_fail")
  /\ next_fd[fdtOf[p]] < NR_OPEN
  /\ halt' = "freed"
  /\ UNCHANGED <<tvars, fvars, dupped, forked>>

(* close, that is fd_get and fd_free.                                        *)
Close(p, i) ==
  LET t == fdtOf[p]
      f == fd[t][i]
      s == [fd[t] EXCEPT ![i] = NULL]
  IN
  /\ Usable(p)
  /\ f # NULL
  /\ nr_avail_fd[t] < MaxAvail
  /\ file_put([g \in FILE |-> IF g = f THEN 1 ELSE 0])
  /\ fd' = [fd EXCEPT ![t] = s]
  /\ nr_avail_fd' = [nr_avail_fd EXCEPT ![t] = @ + 1]
  /\ next_fd' = [next_fd EXCEPT ![t] = find_avail_fd(s, nr_avail_fd[t] + 1)]
  /\ UNCHANGED <<fdtOf, tstate, locked, dupped, forked>>

(* dup (new = next_fd) and dup3 (new chosen): neither file_get nor the       *)
(* counter of free slots.                                                    *)
fd_clone(p, old, new) ==
  LET t == fdtOf[p]
      s == [fd[t] EXCEPT ![new] = fd[t][old]]
  IN
  /\ May(p, "dup")
  /\ IF Leaks(t, old, new)
     THEN /\ locked' = [locked EXCEPT ![t] = TRUE]
          /\ UNCHANGED <<fd, next_fd, dupped>>
     ELSE /\ fd' = [fd EXCEPT ![t] = s]
          /\ next_fd' = [next_fd EXCEPT ![t] = find_avail_fd(s, nr_avail_fd[t])]
          /\ dupped' = dupped \cup ({fd[t][old]} \ {STD})
          /\ UNCHANGED locked
  /\ UNCHANGED <<fdtOf, tstate, nr_avail_fd, fvars, forked, halt>>

Dup(p, old) == Runs(p) /\ fd_clone(p, old, next_fd[fdtOf[p]])
Dup3(p, old, new) == Runs(p) /\ fd_clone(p, old, new)

(* The count pipe_init starts a pipe with.                                    *)
PipeRef_bug == 1
PipeRef == 2

(* pipe2 with room for both ends.                                            *)
Pipe2(p) ==
  LET t == fdtOf[p]
      r == NewFile(1)
      w == NewFile(2)
      q == NewPipe
      i == next_fd[t]
      s == [fd[t] EXCEPT ![i] = r]
      j == find_avail_fd(s, nr_avail_fd[t])
      u == [s EXCEPT ![j] = w]
  IN
  /\ May(p, "pipe2")
  /\ w \in FILE /\ q \in PIPE
  /\ i < NR_OPEN /\ j < NR_OPEN
  /\ fd' = [fd EXCEPT ![t] = u]
  /\ next_fd' = [next_fd EXCEPT ![t] = find_avail_fd(u, AvailAfter(nr_avail_fd[t]))]
  /\ nr_avail_fd' = [nr_avail_fd EXCEPT ![t] = AvailAfter(AvailAfter(@))]
  /\ fstate' = [f \in FILE |-> IF f \in {r, w} THEN "live" ELSE fstate[f]]
  /\ f_ref' = [f \in FILE |-> IF f \in {r, w} THEN 1 ELSE f_ref[f]]
  /\ f_private' = [f \in FILE |-> IF f \in {r, w} THEN q ELSE f_private[f]]
  /\ pstate' = [pstate EXCEPT ![q] = "live"]
  /\ pipe_ref' = [pipe_ref EXCEPT ![q] = PipeRef]
  /\ halt' = IF fd[t][i] = NULL /\ s[j] = NULL THEN "no" ELSE "assert"
  /\ UNCHANGED <<fdtOf, tstate, locked, std_ref, dupped, forked>>

(* pipe2 with a full table: the lock stays held.  With one slot left the     *)
(* second fd_alloc keeps the lock and fd_free of the first end asserts.      *)
Pipe2Full(p) ==
  LET t == fdtOf[p]
      s == [fd[t] EXCEPT ![next_fd[t]] = STD]
  IN
  /\ May(p, "pipe2")
  /\ IF next_fd[t] >= NR_OPEN
     THEN locked' = [locked EXCEPT ![t] = TRUE] /\ UNCHANGED halt
     ELSE /\ find_avail_fd(s, nr_avail_fd[t]) >= NR_OPEN
          /\ halt' = "assert"
          /\ UNCHANGED locked
  /\ UNCHANGED <<fdtOf, tstate, fd, next_fd, nr_avail_fd, fvars, dupped, forked>>


-----------------------------------------------------------------------------
(* fork and clone: alloc_proc fills a table that is then dropped, so each    *)
(* takes a reference of the standard streams; fdt_dup copies every file,     *)
(* its count and its pointer to a pipe included.                             *)
Rank(s, i) == Cardinality({j \in Fd : j <= i /\ s[j] # NULL})
CopyOf(s, i) == IF s[i] = NULL THEN NULL ELSE NewFile(Rank(s, i))
RefCopied(f) == IF f = STD THEN std_ref + 1 ELSE f_ref[f]

Fork(p, c) ==
  LET t == fdtOf[p]
      s == fd[t]
      u == NewTable
      From(g) == s[CHOOSE i \in Fd : CopyOf(s, i) = g]
      new == {CopyOf(s, i) : i \in Fd} \ {NULL}
  IN
  /\ May(p, "fork")
  /\ fdtOf[c] = NULL
  /\ u \in TABLE /\ new \subseteq FILE
  /\ fdtOf' = [fdtOf EXCEPT ![c] = u]
  /\ tstate' = [tstate EXCEPT ![u] = "live"]
  /\ fd' = [fd EXCEPT ![u] = [i \in Fd |-> CopyOf(s, i)]]
  /\ next_fd' = [next_fd EXCEPT ![u] = next_fd[t]]
  /\ nr_avail_fd' = [nr_avail_fd EXCEPT ![u] = nr_avail_fd[t]]
  /\ fstate' = [f \in FILE |-> IF f \in new THEN "live" ELSE fstate[f]]
  /\ f_ref' = [f \in FILE |-> IF f \in new THEN RefCopied(From(f)) ELSE f_ref[f]]
  /\ f_private' = [f \in FILE |-> IF f \in new /\ From(f) # STD
                                  THEN f_private[From(f)] ELSE f_private[f]]
  /\ std_ref' = std_ref + 1
  /\ forked' = forked \cup ({f_private[f] : f \in {s[i] : i \in Fd} \cap FILE} \ {NULL})
  /\ halt' = IF \E i \in Fd : s[i] \in FILE /\ fstate[s[i]] = "freed"
             THEN "freed" ELSE "no"
  /\ UNCHANGED <<locked, pstate, pipe_ref, dupped>>

(* fdt_dup also copies *f_inode, which is NULL for a stream and for an end   *)
(* of a pipe: the copy reads address 0, which the running page table maps    *)
(* (LoongArch, init's first page) or the kernel stops.                       *)
HasInode(f) == f \in FILE /\ f_private[f] = NULL

ForkFault(p) ==
  /\ May(p, "fork")
  /\ \E i \in Fd : fd[fdtOf[p]][i] # NULL /\ ~HasInode(fd[fdtOf[p]][i])
  /\ halt' = "assert"
  /\ UNCHANGED <<tvars, fvars, dupped, forked>>

CloneFiles(p, c) ==
  /\ May(p, "clone_files")
  /\ fdtOf[c] = NULL
  /\ fdtOf' = [fdtOf EXCEPT ![c] = fdtOf[p]]
  /\ std_ref' = std_ref + 1
  /\ UNCHANGED <<tstate, fd, next_fd, nr_avail_fd, locked, fstate, f_ref, f_private,
                 pstate, pipe_ref, dupped, forked, halt>>

(* do_exit: fdt_freeall and kfree of the table.                              *)
Exit(p) ==
  LET t == fdtOf[p] IN
  /\ Usable(p)
  /\ file_put([f \in FILE |-> Cardinality({i \in Fd : fd[t][i] = f})])
  /\ fd' = [fd EXCEPT ![t] = [i \in Fd |-> NULL]]
  /\ next_fd' = [next_fd EXCEPT ![t] = -1]
  /\ nr_avail_fd' = [nr_avail_fd EXCEPT ![t] = -1]
  /\ tstate' = [tstate EXCEPT ![t] = "freed"]
  /\ fdtOf' = [fdtOf EXCEPT ![p] = NULL]
  /\ UNCHANGED <<locked, dupped, forked>>

Next ==
  \E p \in PROC :
    \/ Stuck(p)
    \/ Open(p)
    \/ OpenFull(p)
    \/ OpenFail(p)
    \/ \E i \in Fd : Close(p, i)
    \/ \E i \in Fd : Dup(p, i)
    \/ \E i, j \in Fd : Dup3(p, i, j)
    \/ Pipe2(p)
    \/ Pipe2Full(p)
    \/ \E c \in PROC \ {p} : Fork(p, c) \/ CloneFiles(p, c)
    \/ ForkFault(p)
    \/ Exit(p)

Spec == Init /\ [][Next]_vars

-----------------------------------------------------------------------------
Live == {t \in TABLE : tstate[t] = "live"}
Slots(f) == {x \in Live \X Fd : fd[x[1]][x[2]] = f}
FreeSlots(t) == {i \in Fd : fd[t][i] = NULL}

(* The type of the tables, files and pipes.                                  *)
TypeOK ==
  /\ fdtOf \in [PROC -> TABLE \cup {NULL}]
  /\ tstate \in [TABLE -> {"none", "live", "freed"}]
  /\ fd \in [TABLE -> [Fd -> FILE \cup {STD, NULL}]]
  /\ next_fd \in [TABLE -> -1 .. NR_OPEN]
  /\ nr_avail_fd \in [TABLE -> Nat \cup {-1}]
  /\ locked \in [TABLE -> BOOLEAN]
  /\ fstate \in [FILE -> {"none", "live", "freed"}]
  /\ f_ref \in [FILE -> Int]
  /\ f_private \in [FILE -> PIPE \cup {NULL}]
  /\ std_ref \in Nat
  /\ pstate \in [PIPE -> {"none", "live", "freed"}]
  /\ pipe_ref \in [PIPE -> Int]
  /\ dupped \subseteq FILE /\ forked \subseteq PIPE
  /\ halt \in {"no", "assert", "freed"}

(* "If new_fd is set to -1, return the lowest-numbered fd unused": the       *)
(* cached next_fd, renewed at the end of every call, is the lowest empty     *)
(* slot of a table whatever mix of open, dup, dup3, pipe2, close and fork    *)
(* has gone before, although dup does not keep nr_avail_fd.                  *)
NextFdLowest ==
  \A t \in Live : next_fd[t] = IF FreeSlots(t) = {} THEN NR_OPEN ELSE Min(FreeSlots(t))

(* find_avail_fd() gives up when nr_avail_fd is 0: the counter is never less *)
(* than the number of empty slots, so no free slot is ever hidden.           *)
AvailEnough == \A t \in Live : nr_avail_fd[t] >= Cardinality(FreeSlots(t))

(* The two cached values of a table agree with its slots after any mix of    *)
(* calls: find_avail_fd() finds the lowest free descriptor if there is one.  *)
CachesExact == NextFdLowest /\ AvailEnough

(* A file that dup has not touched is in at most one slot, its count covers  *)
(* the slot and the slot's file is live; a live end of a pipe is in exactly  *)
(* one: fork, close and exit keep counts and tables in step.                 *)
CountedFilesKept ==
  halt = "no" =>
    \A f \in FILE \ dupped :
      LET n == Cardinality(Slots(f)) IN
      /\ n <= 1 /\ n <= f_ref[f]
      /\ n = 1 => fstate[f] = "live"
      /\ fstate[f] = "live" /\ f_private[f] # NULL => n = 1

(* A pipe that no fork has copied is freed exactly when both of its ends     *)
(* are: pipe->ref counts the live files that point to it.                    *)
CountedPipesKept ==
  halt = "no" =>
    \A q \in PIPE \ forked :
      /\ pipe_ref[q] = Cardinality({f \in FILE : fstate[f] = "live" /\ f_private[f] = q})
      /\ (pstate[q] = "live") <=> (pipe_ref[q] > 0)

(* The reference counts of files and of the pipes under them follow every    *)
(* fork, close and exit (file_get, file_put, pipe_close).                    *)
CountsKept == CountedFilesKept /\ CountedPipesKept

(* "Reference count of a struct file / f_ref = 0 will lead to free it"       *)
(* (file.h:26): a descriptor never refers to a file that has been freed.     *)
NoStaleDescriptor == \A f \in FILE : fstate[f] = "freed" => Slots(f) = {}
=============================================================================
