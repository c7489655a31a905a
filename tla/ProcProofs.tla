----------------------------- MODULE ProcProofs -----------------------------
(***************************************************************************)
(* The processes.  First what holds on both ports, although RISC-V         *)
(* preempts system calls: types, the process list has no duplicates and    *)
(* nothing that was freed, the disk's interrupt wakes its waiter, and naps *)
(* are not cut short.  Then what holds on LoongArch, where a system call   *)
(* runs with interrupts off, so that a process is inside one only while it *)
(* has the CPU and the others are at rest: the list is exact, wait4 misses *)
(* no child's exit, families and process numbers are sound, and the        *)
(* assertions of sched hold.                                               *)
(***************************************************************************)
EXTENDS Proc, TLAPS

LEMMA InitType == Init => TypeOK
<1> SUFFICES ASSUME Init PROVE TypeOK
  OBVIOUS
<1> USE ProcAssumption DEF Init
<1>1. state \in [PROC -> States] /\ pc \in [PROC -> PCs]
  BY DEF States, PCs
<1>2. chan \in [PROC -> PROC \cup {NULL, Blkreq}] /\ parent \in [PROC -> PROC \cup {NULL}]
  OBVIOUS
<1>3. killed \in [PROC -> BOOLEAN] /\ trapped \in [PROC -> BOOLEAN]
  OBVIOUS
<1>4. due \in [PROC -> Nat \cup {-1}] /\ pid \in [PROC -> Nat] /\ next_pid \in Nat
  OBVIOUS
<1>5. proc_list \in Seq(PROC)
  OBVIOUS
<1>6. fk \in [PROC -> [pid: Nat, child: PROC \cup {NULL}, next: PROC \cup {NULL}]]
  BY DEF NoFork
<1>7. disk \in [holder: PROC \cup {NULL}, req: {"none", "pending", "used", "OK"}]
  OBVIOUS
<1> QED BY <1>1, <1>2, <1>3, <1>4, <1>5, <1>6, <1>7, Zenon DEF TypeOK


-----------------------------------------------------------------------------
(* Facts about the operators of Proc.                                      *)

(* A process on the list has a position there.                             *)
LEMMA PosOfListed ==
    ASSUME NEW p \in Listed
    PROVE  Pos(p) \in DOMAIN proc_list /\ proc_list[Pos(p)] = p
BY DEF Listed, Pos

(* p->next and the head of the list are processes or NULL.                 *)
LEMMA NextOfType ==
    ASSUME proc_list \in Seq(PROC), NEW p
    PROVE  NextOf(p) \in PROC \cup {NULL} /\ ListHead \in PROC \cup {NULL}
<1>1. ListHead \in PROC \cup {NULL}
  <2>1. CASE proc_list = <<>>
    BY <2>1 DEF ListHead
  <2>2. CASE proc_list # <<>>
    BY <2>2 DEF ListHead
  <2> QED BY <2>1, <2>2
<1>2. CASE p \in Listed /\ Pos(p) < Len(proc_list)
  <2>1. Pos(p) \in DOMAIN proc_list
    BY <1>2, PosOfListed
  <2>2. Pos(p) + 1 \in 1 .. Len(proc_list)
    BY <2>1, <1>2
  <2>3. NextOf(p) = proc_list[Pos(p) + 1]
    BY <1>2 DEF NextOf
  <2> QED BY <1>1, <2>2, <2>3
<1>3. CASE ~(p \in Listed /\ Pos(p) < Len(proc_list))
  BY <1>1, <1>3 DEF NextOf
<1> QED BY <1>2, <1>3

LEMMA ListedType == ASSUME proc_list \in Seq(PROC) PROVE Listed \subseteq PROC
BY DEF Listed

(* wakeup changes states only.                                             *)
LEMMA WakeupType ==
    ASSUME NEW c, NEW st \in [PROC -> States]
    PROVE  wakeup(c, st) \in [PROC -> States]
BY DEF wakeup, States

LEMMA WithoutType ==
    ASSUME NEW S, NEW s \in Seq(S), NEW i \in 1 .. Len(s)
    PROVE  Without(s, i) \in Seq(S)
<1>1. SubSeq(s, 1, i - 1) \in Seq(S)
  OBVIOUS
<1>2. SubSeq(s, i + 1, Len(s)) \in Seq(S)
  OBVIOUS
<1> QED BY <1>1, <1>2 DEF Without

(* fork's new list begins with the child and goes on from child->next.     *)
LEMMA ListFromType ==
    ASSUME proc_list \in Seq(PROC), NEW h \in Listed, NEW c \in PROC
    PROVE  <<c>> \o ListFrom(h) \in Seq(PROC)
<1>1. Pos(h) \in 1 .. Len(proc_list)
  BY PosOfListed
<1>2. ListFrom(h) \in Seq(PROC)
  BY <1>1 DEF ListFrom
<1> QED BY <1>2

-----------------------------------------------------------------------------
(* Type correctness.  TypeOK is not inductive by itself: fork links a      *)
(* child that must be there, and a process returning from the disk undoes  *)
(* an irq_pushoff that must have been done.                                *)
Pending ==
    /\ \A p \in PROC : pc[p] = "fork3" => fk[p].child \in PROC
    /\ \A p \in PROC : pc[p] = "ioWait" => disk.holder = p
    /\ disk.holder # NULL => noff >= 1

TypeInv == TypeOK /\ Pending

(* Every step of the scheduler and of the devices keeps TypeOK.            *)
LEMMA CpuType ==
    ASSUME TypeOK, SchedScan \/ SchedPass \/ Swtch \/ TimerInterrupt
                     \/ DiskComplete \/ DiskInterrupt
    PROVE  TypeOK'
<1>1. state \in [PROC -> States] /\ pc \in [PROC -> PCs] /\ proc_list \in Seq(PROC)
  BY Zenon DEF TypeOK
<1>2. cur \in PROC \cup {NULL} /\ cursor \in PROC \cup {NULL} /\ tick \in Nat
  BY Zenon DEF TypeOK
<1>3. /\ NextOf(cursor) \in PROC \cup {NULL}
      /\ NextOf(cur) \in PROC \cup {NULL}
      /\ ListHead \in PROC \cup {NULL}
  BY <1>1, NextOfType
<1>4. CASE SchedScan
  <2>1. cursor \in PROC
    BY <1>2, <1>4 DEF SchedScan
  <2>2. state' \in [PROC -> States]
    BY <1>1, <1>4, <2>1 DEF SchedScan, States
  <2>3. due' \in [PROC -> Nat \cup {-1}]
    BY <1>4, <2>1, Zenon DEF SchedScan, TypeOK
  <2>4. cpu' \in {"sched", "swtch", "proc"} /\ cur' \in PROC \cup {NULL}
    BY <1>4, <2>1, Zenon DEF SchedScan, TypeOK
  <2>5. cursor' \in PROC \cup {NULL}
    BY <1>3, <1>4, <2>1 DEF SchedScan
  <2> QED BY <1>4, <2>2, <2>3, <2>4, <2>5, Zenon DEF SchedScan, TypeOK
<1>5. CASE SchedPass
  BY <1>3, <1>5, Zenon DEF SchedPass, procVars, TypeOK
<1>6. CASE Swtch
  BY <1>6, Zenon DEF Swtch, procVars, TypeOK
<1>7. CASE TimerInterrupt
  <2>1. tick' \in Nat
    <3>1. MaxTick \in Nat
      BY ProcAssumption
    <3>2. tick' = IF tick + 1 < MaxTick THEN tick + 1 ELSE MaxTick
      BY <1>7, Zenon DEF TimerInterrupt, Saturate
    <3> QED BY <1>2, <3>1, <3>2
  <2>2. state' \in [PROC -> States]
    BY <1>1, <1>7, Zenon DEF TimerInterrupt, States
  <2>3. pc' \in [PROC -> PCs]
    BY <1>1, <1>7, Zenon DEF TimerInterrupt, PCs
  <2>4. trapped' \in [PROC -> BOOLEAN]
    BY <1>7, Zenon DEF TimerInterrupt, TypeOK
  <2>5. cpu' \in {"sched", "swtch", "proc"} /\ cur' \in PROC \cup {NULL}
    BY <1>2, <1>7, Zenon DEF TimerInterrupt, ToScheduler
  <2>6. cursor' \in PROC \cup {NULL}
    BY <1>2, <1>3, <1>7, Zenon DEF TimerInterrupt, ToScheduler
  <2>7. intr' \in BOOLEAN /\ halt' \in {"no", "sched interruptable", "lock held",
                                       "context lost", "dangling next"}
    BY <1>7, Zenon DEF TimerInterrupt, ToScheduler, TypeOK
  <2> QED BY <1>7, <2>1, <2>2, <2>3, <2>4, <2>5, <2>6, <2>7, Zenon DEF TimerInterrupt, TypeOK
<1>8. CASE DiskComplete
  BY <1>8, Zenon DEF DiskComplete, procVars, cpuVars, TypeOK
<1>9. CASE DiskInterrupt
  <2>1. state' \in [PROC -> States]
    BY <1>1, <1>9, WakeupType DEF DiskInterrupt, Endio
  <2>2. pc' \in [PROC -> PCs]
    BY <1>1, <1>9, Zenon DEF DiskInterrupt, PCs
  <2>3. intr' \in BOOLEAN
    BY <1>9, Zenon DEF DiskInterrupt, TypeOK
  <2>4. disk' \in [holder: PROC \cup {NULL}, req: {"none", "pending", "used", "OK"}]
    BY <1>9, Zenon DEF DiskInterrupt, TypeOK
  <2> QED BY <1>9, <2>1, <2>2, <2>3, <2>4, Zenon DEF DiskInterrupt, TypeOK
<1> QED BY <1>4, <1>5, <1>6, <1>7, <1>8, <1>9


(* What sched() leaves behind has the right type.                          *)
LEMMA SchedType ==
    ASSUME TypeOK, NEW st \in [PROC -> States], sched(st)
    PROVE  /\ state' \in [PROC -> States]
           /\ cpu' \in {"sched", "swtch", "proc"}
           /\ cur' \in PROC \cup {NULL}
           /\ cursor' \in PROC \cup {NULL}
           /\ intr' \in BOOLEAN
           /\ halt' \in {"no", "sched interruptable", "lock held", "context lost",
                         "dangling next"}
<1>1. NextOf(cur) \in PROC \cup {NULL}
  BY NextOfType, Zenon DEF TypeOK
<1> QED BY <1>1, Zenon DEF sched, ToScheduler, TypeOK

(* The trap entry and exit steps keep TypeOK.                              *)
LEMMA TrapType ==
    ASSUME TypeOK, NEW p \in PROC,
           Fault(p) \/ UserReturn(p) \/ \E sc \in Syscalls : Syscall(p, sc)
    PROVE  TypeOK'
<1>1. pc' \in [PROC -> PCs]
  <2>1. pc \in [PROC -> PCs]
    BY Zenon DEF TypeOK
  <2> QED BY <2>1, ProcAssumption DEF Syscall, Fault, UserReturn, Goto, PCs
<1>2. CASE \E sc \in Syscalls : Syscall(p, sc)
  BY <1>1, <1>2, Zenon DEF Syscall, SyscallIntr, procVars, TypeOK
<1>3. CASE Fault(p)
  BY <1>1, <1>3, Zenon DEF Fault, TypeOK
<1>4. CASE UserReturn(p)
  BY <1>1, <1>4, ZenonT(40) DEF UserReturn, procVars, TypeOK
<1> QED BY <1>2, <1>3, <1>4

(* The steps of fork keep TypeOK.                                          *)
LEMMA ForkType ==
    ASSUME TypeInv, NEW p \in PROC, ForkReadPid(p) \/ ForkAlloc(p) \/ ForkInsert(p)
    PROVE  TypeOK'
<1>1. /\ pc \in [PROC -> PCs] /\ proc_list \in Seq(PROC) /\ state \in [PROC -> States]
      /\ fk \in [PROC -> [pid: Nat, child: PROC \cup {NULL}, next: PROC \cup {NULL}]]
      /\ next_pid \in Nat /\ pid \in [PROC -> Nat] /\ TypeOK
  BY Zenon DEF TypeInv, TypeOK
<1>2. CASE ForkReadPid(p)
  <2>1. pc' \in [PROC -> PCs]
    BY <1>1, <1>2 DEF ForkReadPid, Goto, PCs
  <2>2. fk' \in [PROC -> [pid: Nat, child: PROC \cup {NULL}, next: PROC \cup {NULL}]]
    BY <1>1, <1>2, Zenon DEF ForkReadPid
  <2> QED BY <1>1, <1>2, <2>1, <2>2, ZenonT(40) DEF ForkReadPid, procVars, cpuVars, TypeOK
<1>3. CASE ForkAlloc(p)
  <2>1. PICK c \in PROC :
          /\ next_pid' = fk[p].pid + 1
          /\ pid' = [pid EXCEPT ![c] = fk[p].pid]
          /\ state' = [state EXCEPT ![c] = "RUNNABLE"]
          /\ chan' = [chan EXCEPT ![c] = NULL]
          /\ killed' = [killed EXCEPT ![c] = FALSE]
          /\ due' = [due EXCEPT ![c] = -1]
          /\ parent' = [parent EXCEPT ![c] = p]
          /\ pc' = [pc EXCEPT ![c] = "dive", ![p] = "fork3"]
          /\ fk' = [fk EXCEPT ![p].child = c, ![p].next = ListHead]
    BY <1>3, Zenon DEF ForkAlloc, NextPid, ChildParent
  <2>2. ListHead \in PROC \cup {NULL}
    BY <1>1, NextOfType
  <2>3. fk' \in [PROC -> [pid: Nat, child: PROC \cup {NULL}, next: PROC \cup {NULL}]]
    BY <1>1, <2>1, <2>2, Zenon
  <2>4. pc' \in [PROC -> PCs] /\ state' \in [PROC -> States]
    BY <1>1, <2>1, Zenon DEF PCs, States
  <2>5. next_pid' \in Nat /\ pid' \in [PROC -> Nat]
    BY <1>1, <2>1
  <2>6. chan' \in [PROC -> PROC \cup {NULL, Blkreq}] /\ parent' \in [PROC -> PROC \cup {NULL}]
    BY <1>1, <2>1, Zenon DEF TypeOK
  <2>7. killed' \in [PROC -> BOOLEAN] /\ due' \in [PROC -> Nat \cup {-1}]
    BY <1>1, <2>1, Zenon DEF TypeOK
  <2> QED BY <1>1, <1>3, <2>3, <2>4, <2>5, <2>6, <2>7, ZenonT(40) DEF ForkAlloc, cpuVars, TypeOK
<1>4. CASE ForkInsert(p)
  <2>1. pc' \in [PROC -> PCs]
    BY <1>1, <1>4, Zenon DEF ForkInsert, Goto, PCs
  <2>2. fk' \in [PROC -> [pid: Nat, child: PROC \cup {NULL}, next: PROC \cup {NULL}]]
    BY <1>1, <1>4, Zenon DEF ForkInsert, NoFork
  <2>3. proc_list' \in Seq(PROC)
    <3>1. fk[p].child \in PROC
      BY <1>4, Zenon DEF ForkInsert, Running, TypeInv, Pending
    <3>2. CASE fk[p].next \in Listed
      <4>1. <<fk[p].child>> \o ListFrom(fk[p].next) \in Seq(PROC)
        BY <1>1, <3>1, <3>2, ListFromType
      <4> QED BY <1>4, <3>2, <4>1, Zenon DEF ForkInsert
    <3>3. CASE fk[p].next \notin Listed
      BY <1>1, <1>4, <3>3, Zenon DEF ForkInsert
    <3> QED BY <3>2, <3>3
  <2>4. halt' \in {"no", "sched interruptable", "lock held", "context lost", "dangling next"}
    BY <1>1, <1>4, Zenon DEF ForkInsert, TypeOK
  <2> QED BY <1>1, <1>4, <2>1, <2>2, <2>3, <2>4, Zenon DEF ForkInsert, cpuVars, TypeOK
<1> QED BY <1>2, <1>3, <1>4


(* The steps of wait4 and sleep keep TypeOK.                               *)
LEMMA WaitType ==
    ASSUME TypeOK, NEW p \in PROC,
           Wait4Reap(p) \/ Wait4None(p) \/ Wait4Sleep(p) \/ SleepReturn(p)
    PROVE  TypeOK'
<1>1. /\ pc \in [PROC -> PCs] /\ proc_list \in Seq(PROC) /\ state \in [PROC -> States]
      /\ parent \in [PROC -> PROC \cup {NULL}] /\ pid \in [PROC -> Nat]
  BY Zenon DEF TypeOK
<1>2. CASE Wait4Reap(p)
  <2>1. PICK c \in ZombieChildren(p) :
          \/ /\ proc_list' = Unlink(c)
             /\ state' = [state EXCEPT ![c] = "UNUSED"]
             /\ pc' = [pc EXCEPT ![p] = "utrap", ![c] = "none"]
             /\ parent' = [parent EXCEPT ![c] = NULL]
             /\ pid' = [pid EXCEPT ![c] = 0]
             /\ killed' = [killed EXCEPT ![c] = FALSE]
             /\ due' = [due EXCEPT ![c] = -1]
          \/ /\ Goto(p, "utrap")
             /\ UNCHANGED <<proc_list, state, parent, pid, killed, due>>
    BY <1>2 DEF Wait4Reap
  <2>2. c \in Listed /\ c \in PROC
    BY <1>1, ListedType DEF ZombieChildren, Children
  <2>3. Pos(c) \in 1 .. Len(proc_list)
    BY <1>1, <2>2, PosOfListed
  <2>4. Unlink(c) \in Seq(PROC)
    BY <1>1, <2>3, WithoutType DEF Unlink
  <2>5. proc_list' \in Seq(PROC)
    BY <1>1, <2>1, <2>4
  <2>6. pc' \in [PROC -> PCs] /\ state' \in [PROC -> States]
    BY <1>1, <2>1, <2>2, Zenon DEF Goto, PCs, States
  <2>7. parent' \in [PROC -> PROC \cup {NULL}] /\ pid' \in [PROC -> Nat]
    <3>1. parent' = parent \/ parent' = [parent EXCEPT ![c] = NULL]
      BY <2>1
    <3>2. pid' = pid \/ pid' = [pid EXCEPT ![c] = 0]
      BY <2>1
    <3> QED BY <1>1, <2>2, <3>1, <3>2
  <2>8. killed' \in [PROC -> BOOLEAN] /\ due' \in [PROC -> Nat \cup {-1}]
    BY <2>1, <2>2, Zenon DEF TypeOK
  <2> QED BY <1>2, <2>5, <2>6, <2>7, <2>8, ZenonT(40) DEF Wait4Reap, cpuVars, TypeOK
<1>3. CASE Wait4None(p)
  <2>1. pc' \in [PROC -> PCs]
    BY <1>1, <1>3 DEF Wait4None, Goto, PCs
  <2> QED BY <1>3, <2>1, ZenonT(40) DEF Wait4None, procVars, cpuVars, TypeOK
<1>4. CASE Wait4Sleep(p)
  <2>1. pc' \in [PROC -> PCs]
    BY <1>1, <1>4 DEF Wait4Sleep, Goto, PCs
  <2>2. chan' \in [PROC -> PROC \cup {NULL, Blkreq}]
    BY <1>4, Zenon DEF Wait4Sleep, TypeOK
  <2>3. [state EXCEPT ![p] = "SLEEPING"] \in [PROC -> States]
    BY <1>1 DEF States
  <2> QED BY <1>4, <2>1, <2>2, <2>3, SchedType, Zenon DEF Wait4Sleep, TypeOK
<1>5. CASE SleepReturn(p)
  <2>1. pc' \in [PROC -> PCs]
    BY <1>1, <1>5 DEF SleepReturn, Goto, PCs
  <2> QED BY <1>5, <2>1, ZenonT(40) DEF SleepReturn, TypeOK
<1> QED BY <1>2, <1>3, <1>4, <1>5

(* nanosleep, sched_yield, kill and do_exit keep TypeOK.                   *)
LEMMA ExitType ==
    ASSUME TypeOK, NEW p \in PROC,
           \/ Nanosleep(p) \/ SchedYield(p) \/ Kill(p)
           \/ ExitReparent(p) \/ ExitWakeup(p) \/ ExitZombie(p)
    PROVE  TypeOK'
<1>1. /\ pc \in [PROC -> PCs] /\ proc_list \in Seq(PROC) /\ state \in [PROC -> States]
      /\ tick \in Nat /\ due \in [PROC -> Nat \cup {-1}]
      /\ parent \in [PROC -> PROC \cup {NULL}]
  BY Zenon DEF TypeOK
<1>2. pc' \in [PROC -> PCs]
  BY <1>1 DEF Nanosleep, SchedYield, Kill, ExitReparent, ExitWakeup, ExitZombie, Goto, PCs
<1>3. CASE Nanosleep(p)
  <2>1. due' \in [PROC -> Nat \cup {-1}]
    <3>1. PICK d \in Naps : due' = [due EXCEPT ![p] = Saturate(tick + d)]
      BY <1>3, Zenon DEF Nanosleep
    <3>2. d \in Nat /\ MaxTick \in Nat
      BY ProcAssumption
    <3>3. Saturate(tick + d) \in Nat
      BY <1>1, <3>2 DEF Saturate
    <3> QED BY <1>1, <3>1, <3>3
  <2>2. [state EXCEPT ![p] = "SLEEPING"] \in [PROC -> States]
    BY <1>1 DEF States
  <2> QED BY <1>2, <1>3, <2>1, <2>2, SchedType, Zenon DEF Nanosleep, TypeOK
<1>4. CASE SchedYield(p)
  <2>1. [state EXCEPT ![p] = "RUNNABLE"] \in [PROC -> States]
    BY <1>1 DEF States
  <2> QED BY <1>2, <1>4, <2>1, SchedType, Zenon DEF SchedYield, TypeOK
<1>5. CASE Kill(p)
  <2>1. PICK q \in Listed : killed' = [killed EXCEPT ![q] = TRUE] /\ state' = KillWakes(q)
    BY <1>5, Zenon DEF Kill
  <2>2. state' \in [PROC -> States]
    BY <1>1, <2>1, Zenon DEF KillWakes, States
  <2> QED BY <1>2, <1>5, <2>1, <2>2, ZenonT(40) DEF Kill, cpuVars, TypeOK
<1>6. CASE ExitReparent(p)
  <2>1. state' \in [PROC -> States]
    BY <1>1, <1>6, WakeupType DEF ExitReparent, ReparentWakes
  <2>2. parent' \in [PROC -> PROC \cup {NULL}]
    BY <1>1, <1>6, ProcAssumption DEF ExitReparent, Reparented
  <2> QED BY <1>2, <1>6, <2>1, <2>2, ZenonT(40) DEF ExitReparent, cpuVars, TypeOK
<1>7. CASE ExitWakeup(p)
  <2>1. state' \in [PROC -> States]
    BY <1>1, <1>7, WakeupType DEF ExitWakeup, ExitWakes
  <2> QED BY <1>2, <1>7, <2>1, ZenonT(40) DEF ExitWakeup, cpuVars, TypeOK
<1>8. CASE ExitZombie(p)
  <2>1. state' \in [PROC -> States]
    BY <1>1, <1>8 DEF ExitZombie, States
  <2>2. NextOf(cur) \in PROC \cup {NULL}
    BY <1>1, NextOfType
  <2> QED BY <1>2, <1>8, <2>1, <2>2, Zenon DEF ExitZombie, ToScheduler, TypeOK
<1> QED BY <1>3, <1>4, <1>5, <1>6, <1>7, <1>8


(* The steps of block I/O keep TypeOK.                                     *)
LEMMA IoType ==
    ASSUME TypeInv, NEW p \in PROC, BlockIo(p) \/ BlockIoReturn(p)
    PROVE  TypeOK'
<1>1. /\ TypeOK /\ pc \in [PROC -> PCs] /\ proc_list \in Seq(PROC)
      /\ state \in [PROC -> States] /\ noff \in Nat
  BY Zenon DEF TypeInv, TypeOK
<1>2. pc' \in [PROC -> PCs]
  BY <1>1, Zenon DEF BlockIo, BlockIoReturn, Goto, PCs
<1>3. NextOf(cur) \in PROC \cup {NULL}
  BY <1>1, NextOfType
<1>4. CASE BlockIo(p)
  <2>1. state' \in [PROC -> States]
    BY <1>1, <1>4, Zenon DEF BlockIo, States
  <2>2. noff' \in Nat
    <3>1. noff' = noff + 1
      BY <1>4, Zenon DEF BlockIo
    <3> QED BY <1>1, <3>1
  <2>3. chan' \in [PROC -> PROC \cup {NULL, Blkreq}]
    BY <1>1, <1>4, Zenon DEF BlockIo, TypeOK
  <2>4. disk' \in [holder: PROC \cup {NULL}, req: {"none", "pending", "used", "OK"}]
    <3>1. disk' = disk \/ disk' = [holder |-> p, req |-> "pending"]
      BY <1>4, Zenon DEF BlockIo
    <3>2. disk \in [holder: PROC \cup {NULL}, req: {"none", "pending", "used", "OK"}]
      BY <1>1, ZenonT(40) DEF TypeOK
    <3> QED BY <3>1, <3>2
  <2>5. cpu' \in {"sched", "swtch", "proc"} /\ cur' \in PROC \cup {NULL}
    BY <1>1, <1>4, ZenonT(40) DEF BlockIo, ToScheduler, TypeOK
  <2>6. cursor' \in PROC \cup {NULL}
    BY <1>1, <1>3, <1>4, ZenonT(40) DEF BlockIo, ToScheduler, TypeOK
  <2>7. intr' \in BOOLEAN /\ intena' \in BOOLEAN
    BY <1>1, <1>4, ZenonT(40) DEF BlockIo, ToScheduler, TypeOK
  <2>8. halt' \in {"no", "sched interruptable", "lock held", "context lost", "dangling next"}
    BY <1>1, <1>4, Zenon DEF BlockIo, TypeOK
  <2> QED BY <1>1, <1>2, <1>4, <2>1, <2>2, <2>3, <2>4, <2>5, <2>6, <2>7, <2>8, ZenonT(40) DEF BlockIo, TypeOK
<1>5. CASE BlockIoReturn(p)
  <2>1. noff >= 1
    BY <1>5, ProcAssumption DEF BlockIoReturn, Running, TypeInv, Pending
  <2>2. noff' \in Nat
    BY <1>1, <1>5, <2>1 DEF BlockIoReturn, Popoffs
  <2>3. chan' \in [PROC -> PROC \cup {NULL, Blkreq}]
    BY <1>1, <1>5, Zenon DEF BlockIoReturn, TypeOK
  <2> QED BY <1>1, <1>2, <1>5, <2>2, <2>3, ZenonT(40) DEF BlockIoReturn, TypeOK
<1> QED BY <1>4, <1>5

(* Every step keeps TypeOK.                                                *)
LEMMA NextType == ASSUME TypeInv, Next PROVE TypeOK'
<1> TypeOK
  BY DEF TypeInv
<1>1. CASE CpuStep
  <2>1. CASE SchedScan \/ SchedPass \/ Swtch
    BY <2>1, CpuType
  <2>2. ASSUME NEW p \in PROC, KernelStep(p) PROVE TypeOK'
    BY <2>2, TrapType, ForkType, WaitType, ExitType, IoType DEF KernelStep
  <2> QED BY <1>1, <2>1, <2>2 DEF CpuStep
<1>2. CASE UserStep
  BY <1>2, TrapType DEF UserStep
<1>3. CASE Timer \/ DiskIrq \/ Device
  BY <1>3, CpuType DEF Timer, DiskIrq, Device
<1> QED BY <1>1, <1>2, <1>3 DEF Next


(* A step that starts no fork3 and no disk wait keeps Pending.             *)
LEMMA QuietPending ==
    ASSUME Pending, noff' = noff, disk'.holder = disk.holder,
           \A q \in PROC : fk'[q].child = fk[q].child,
           \A q \in PROC : pc'[q] = pc[q] \/ pc'[q] \notin {"fork3", "ioWait"}
    PROVE  Pending'
BY DEF Pending

(* Every step keeps the rest of TypeInv: who is linking a child, and who   *)
(* is at the disk.                                                         *)
LEMMA NextPending == ASSUME TypeInv, Next PROVE Pending'
<1>0. /\ pc \in [PROC -> PCs] /\ noff \in Nat /\ Pending
      /\ fk \in [PROC -> [pid: Nat, child: PROC \cup {NULL}, next: PROC \cup {NULL}]]
      /\ disk \in [holder: PROC \cup {NULL}, req: {"none", "pending", "used", "OK"}]
  BY Zenon DEF TypeInv, TypeOK
<1>1. CASE SchedScan \/ SchedPass \/ Swtch \/ TimerInterrupt \/ DiskComplete \/ DiskInterrupt
  <2>1. /\ noff' = noff /\ disk'.holder = disk.holder /\ fk' = fk
        /\ \A q \in PROC : pc'[q] = pc[q] \/ pc'[q] = "utrap"
    BY <1>0, <1>1, Zenon DEF SchedScan, SchedPass, Swtch, TimerInterrupt, DiskComplete,
                      DiskInterrupt, ToScheduler, procVars, cpuVars
  <2> QED BY <1>0, <2>1, QuietPending
<1>2. ASSUME NEW p \in PROC, Fault(p) \/ UserReturn(p) \/ \E sc \in Syscalls : Syscall(p, sc)
      PROVE  Pending'
  <2>1. /\ noff' = noff /\ disk' = disk /\ fk' = fk
        /\ \A q \in PROC : pc'[q] = pc[q] \/ pc'[q] \in Syscalls \cup {"exit", "user"}
    BY <1>0, <1>2 DEF Fault, UserReturn, Syscall, Goto, procVars
  <2> QED BY <1>0, <2>1, QuietPending, ProcAssumption
<1>3. ASSUME NEW p \in PROC, Wait4Reap(p) \/ Wait4None(p) \/ Wait4Sleep(p) \/ SleepReturn(p)
                              \/ Nanosleep(p) \/ SchedYield(p) \/ Kill(p)
                              \/ ExitReparent(p) \/ ExitWakeup(p) \/ ExitZombie(p)
      PROVE  Pending'
  <2>1. noff' = noff /\ disk' = disk /\ fk' = fk
    BY <1>3 DEF Wait4Reap, Wait4None, Wait4Sleep, SleepReturn, Nanosleep, SchedYield, Kill,
                ExitReparent, ExitWakeup, ExitZombie, cpuVars
  <2>2. \A q \in PROC : \/ pc'[q] = pc[q]
                        \/ pc'[q] \in {"utrap", "none", "waitSleep", "asleep", "wait4",
                                       "exit2", "exit3"}
    BY <1>0, <1>3 DEF Wait4Reap, Wait4None, Wait4Sleep, SleepReturn, Nanosleep, SchedYield,
                      Kill, ExitReparent, ExitWakeup, ExitZombie, Goto
  <2> QED BY <1>0, <2>1, <2>2, QuietPending
<1>4. ASSUME NEW p \in PROC, ForkReadPid(p) \/ ForkAlloc(p) \/ ForkInsert(p)
      PROVE  Pending'
  <2>1. noff' = noff /\ disk' = disk
    BY <1>4, Zenon DEF ForkReadPid, ForkAlloc, ForkInsert, cpuVars
  <2>2. \A q \in PROC : pc'[q] = "ioWait" => pc[q] = "ioWait"
    BY <1>0, <1>4, Zenon DEF ForkReadPid, ForkAlloc, ForkInsert, Goto
  <2>3. ASSUME NEW q \in PROC, pc'[q] = "fork3" PROVE fk'[q].child \in PROC
    <3>1. CASE ForkReadPid(p)
      BY <1>0, <2>3, <3>1 DEF ForkReadPid, Goto, Pending
    <3>2. CASE ForkAlloc(p)
      <4>1. PICK c \in PROC : /\ pc' = [pc EXCEPT ![c] = "dive", ![p] = "fork3"]
                              /\ fk' = [fk EXCEPT ![p].child = c, ![p].next = ListHead]
        BY <3>2, Zenon DEF ForkAlloc
      <4> QED BY <1>0, <2>3, <4>1 DEF Pending
    <3>3. CASE ForkInsert(p)
      BY <1>0, <2>3, <3>3, Zenon DEF ForkInsert, Goto, Pending
    <3> QED BY <1>4, <3>1, <3>2, <3>3
  <2> QED BY <1>0, <2>1, <2>2, <2>3 DEF Pending
<1>5. ASSUME NEW p \in PROC, BlockIo(p) PROVE Pending'
  <2>1. CASE disk.holder = NULL
    <3>1. /\ disk' = [holder |-> p, req |-> "pending"] /\ noff' = noff + 1
          /\ pc' = [pc EXCEPT ![p] = "ioWait"] /\ fk' = fk
      BY <1>5, <2>1 DEF BlockIo, Goto
    <3>2. disk'.holder = p /\ noff' >= 1
      BY <1>0, <3>1
    <3>3. \A q \in PROC : pc[q] # "ioWait"
      BY <1>0, <2>1, ProcAssumption DEF Pending
    <3> QED BY <1>0, <3>1, <3>2, <3>3 DEF Pending
  <2>2. CASE disk.holder # NULL
    <3>1. disk' = disk /\ noff' = noff + 1 /\ pc' = pc /\ fk' = fk
      BY <1>5, <2>2, Zenon DEF BlockIo
    <3> QED BY <1>0, <3>1 DEF Pending
  <2> QED BY <2>1, <2>2
<1>6. ASSUME NEW p \in PROC, BlockIoReturn(p) PROVE Pending'
  <2>1. /\ disk' = [holder |-> NULL, req |-> "none"] /\ fk' = fk
        /\ pc' = [pc EXCEPT ![p] = "utrap"] /\ pc[p] = "ioWait"
    BY <1>6 DEF BlockIoReturn, Running, Goto
  <2>2. disk'.holder = NULL /\ \A q \in PROC : pc[q] = "ioWait" => q = p
    BY <1>0, <2>1 DEF Pending
  <2> QED BY <1>0, <2>1, <2>2 DEF Pending
<1> QED BY <1>1, <1>2, <1>3, <1>4, <1>5, <1>6
        DEF Next, CpuStep, KernelStep, UserStep, Timer, DiskIrq, Device

LEMMA StutterType == ASSUME TypeInv, UNCHANGED vars PROVE TypeInv'
BY ZenonT(40) DEF TypeInv, TypeOK, Pending, vars, procVars, cpuVars

(* Type correctness, for both ports and any number of processes: the       *)
(* scheduler's pointers are processes or NULL, noff never underflows (the  *)
(* assertion of irq_popoff), and fork links a real child.                  *)
THEOREM TypeCorrect == Spec => []TypeOK
<1>1. Init => TypeInv
  <2>1. Init => Pending
    BY DEF Init, Pending
  <2> QED BY <2>1, InitType DEF TypeInv
<1>2. TypeInv /\ [Next]_vars => TypeInv'
  BY NextType, NextPending, StutterType DEF TypeInv
<1>3. TypeInv => TypeOK
  BY DEF TypeInv
<1> QED BY <1>1, <1>2, <1>3, PTL DEF Spec

-----------------------------------------------------------------------------
(* The CPU runs a RUNNING process or the scheduler.                        *)
CpuInv ==
    /\ cpu = "sched" => cur = NULL
    /\ cpu # "sched" => cur \in PROC /\ (halt = "no" => state[cur] = "RUNNING")

(* Allocated processes have a place in the code and, but for init, a       *)
(* parent; a zombie stays where do_exit left it.                           *)
BirthInv ==
    /\ \A p \in PROC : state[p] = "UNUSED" <=> pc[p] = "none"
    /\ \A p \in PROC : state[p] = "ZOMBIE" => pc[p] = "exit3"
    /\ \A p \in PROC : state[p] # "UNUSED" /\ p # init_proc => parent[p] # NULL

(* No process is linked twice and no freed one is.                         *)
ListSound ==
    /\ IsInjective(proc_list)
    /\ \A q \in Listed : state[q] # "UNUSED"

(* ListSound, and why fork keeps it: a child that is not linked yet has    *)
(* not run and belongs to one fork.                                        *)
LinkInv ==
    /\ ListSound
    /\ cpu = "sched" => cursor \in Listed \cup {NULL}
    /\ \A p \in PROC : pc[p] = "fork3" =>
          fk[p].child \notin Listed /\ pc[fk[p].child] = "dive" /\ fk[p].child # cur
    /\ \A p, q \in PROC :
          pc[p] = "fork3" /\ pc[q] = "fork3" /\ p # q => fk[p].child # fk[q].child

(* The holder of the disk is in blkdev_submit_req_wait.                    *)
DiskInv ==
    /\ disk.holder # NULL => pc[disk.holder] = "ioWait" /\ chan[disk.holder] = Blkreq
    /\ DiskWakeup

SchedInv == TypeInv /\ CpuInv /\ BirthInv /\ LinkInv /\ DiskInv

-----------------------------------------------------------------------------
(* The CPU.                                                                *)

(* wakeup leaves the current process and everybody who does not sleep.     *)
LEMMA WakeupKeeps ==
    ASSUME NEW st \in [PROC -> States], NEW c, NEW q \in PROC
    PROVE  /\ q = cur => wakeup(c, st)[q] = st[q]
           /\ st[q] # "SLEEPING" => wakeup(c, st)[q] = st[q]
           /\ wakeup(c, st)[q] \in {st[q], "RUNNABLE"}
           /\ wakeup(c, st)[q] # st[q] => st[q] = "SLEEPING" /\ chan[q] = c
BY DEF wakeup

(* The two steps of do_exit that wake somebody change no other states.     *)
LEMMA ExitWakesSleepers ==
    ASSUME state \in [PROC -> States], NEW p, ExitReparent(p) \/ ExitWakeup(p), NEW q \in PROC
    PROVE  state'[q] = state[q] \/ (state[q] = "SLEEPING" /\ state'[q] = "RUNNABLE")
<1>1. state' = state \/ \E c : state' = wakeup(c, state)
  BY Zenon DEF ExitReparent, ReparentWakes, ExitWakeup, ExitWakes
<1>2. ASSUME NEW c, state' = wakeup(c, state)
      PROVE  state'[q] \in {state[q], "RUNNABLE"} /\ (state'[q] # state[q] => state[q] = "SLEEPING")
  BY <1>2, WakeupKeeps
<1> QED BY <1>1, <1>2

(* A process that takes a step has the CPU and is RUNNING.                 *)
LEMMA StepsRunning ==
    ASSUME CpuInv, halt = "no", NEW p \in PROC,
           KernelStep(p) \/ Fault(p) \/ \E sc \in Syscalls : Syscall(p, sc)
    PROVE  cpu = "proc" /\ cur = p /\ state[p] = "RUNNING"
<1>1. cpu = "proc" /\ cur = p
  BY Zenon DEF KernelStep, UserReturn, ForkReadPid, ForkAlloc, ForkInsert, Wait4Reap, Wait4None,
         Wait4Sleep, SleepReturn, Nanosleep, SchedYield, Kill, ExitReparent, ExitWakeup,
         ExitZombie, BlockIo, BlockIoReturn, Fault, Syscall, Running
<1> QED BY <1>1 DEF CpuInv

(* NextOf and the head of the list are on it.                              *)
LEMMA NextOfListed ==
    ASSUME proc_list \in Seq(PROC), NEW p
    PROVE  NextOf(p) \in Listed \cup {NULL} /\ ListHead \in Listed \cup {NULL}
<1>1. ListHead \in Listed \cup {NULL}
  <2>1. CASE proc_list = <<>>
    BY <2>1 DEF ListHead
  <2>2. CASE proc_list # <<>>
    <3>1. 1 \in DOMAIN proc_list /\ Head(proc_list) = proc_list[1]
      BY <2>2
    <3> QED BY <2>2, <3>1 DEF ListHead, Listed
  <2> QED BY <2>1, <2>2
<1>2. CASE p \in Listed /\ Pos(p) < Len(proc_list)
  <2>1. Pos(p) \in DOMAIN proc_list
    BY <1>2, PosOfListed
  <2>2. Pos(p) + 1 \in DOMAIN proc_list
    BY <2>1, <1>2
  <2>3. NextOf(p) = proc_list[Pos(p) + 1]
    BY <1>2 DEF NextOf
  <2> QED BY <1>1, <2>2, <2>3 DEF Listed
<1>3. CASE ~(p \in Listed /\ Pos(p) < Len(proc_list))
  BY <1>1, <1>3 DEF NextOf
<1> QED BY <1>2, <1>3

LEMMA CpuCpu ==
    ASSUME TypeOK, CpuInv, halt = "no",
           SchedScan \/ SchedPass \/ Swtch \/ TimerInterrupt \/ DiskComplete \/ DiskInterrupt
    PROVE  CpuInv'
<1>0. /\ state \in [PROC -> States] /\ cur \in PROC \cup {NULL}
      /\ cursor \in PROC \cup {NULL} /\ cpu \in {"sched", "swtch", "proc"}
  BY DEF TypeOK
<1>1. CASE SchedScan
  BY <1>0, <1>1 DEF SchedScan, CpuInv
<1>2. CASE SchedPass \/ Swtch \/ DiskComplete
  BY <1>2 DEF SchedPass, Swtch, DiskComplete, procVars, cpuVars, CpuInv
<1>3. CASE TimerInterrupt
  BY <1>0, <1>3, Zenon DEF TimerInterrupt, ToScheduler, CpuInv
<1>4. CASE DiskInterrupt
  <2>1. cpu' = cpu /\ cur' = cur /\ halt' = halt /\ state' = wakeup(Blkreq, state)
    BY <1>4 DEF DiskInterrupt, Endio
  <2> QED BY <1>0, <2>1, WakeupKeeps DEF CpuInv
<1> QED BY <1>1, <1>2, <1>3, <1>4

(* What a step of process p does to the CPU: p goes on, or the scheduler   *)
(* takes over, or the kernel stops.                                        *)
LEMMA CpuProc ==
    ASSUME SchedInv, halt = "no", NEW p \in PROC,
           KernelStep(p) \/ Fault(p) \/ \E sc \in Syscalls : Syscall(p, sc)
    PROVE  /\ CpuInv'
           /\ \/ cur' = cur /\ cpu' = cpu
              \/ cur' = NULL /\ cpu' = "sched" /\ cursor' = NextOf(cur)
<1>0. pc \in [PROC -> PCs] /\ state \in [PROC -> States] /\ proc_list \in Seq(PROC) /\ CpuInv
  BY DEF SchedInv, TypeInv, TypeOK
<1>a. cpu = "proc" /\ cur = p /\ state[p] = "RUNNING"
  BY <1>0, StepsRunning
<1>1. CASE \/ Fault(p) \/ UserReturn(p) \/ \E sc \in Syscalls : Syscall(p, sc)
           \/ ForkReadPid(p) \/ ForkInsert(p) \/ Wait4None(p) \/ SleepReturn(p)
           \/ BlockIoReturn(p)
  <2>1. cpu' = cpu /\ cur' = cur /\ state' = state
    BY <1>1, Zenon DEF Fault, UserReturn, Syscall, ForkReadPid, ForkInsert, Wait4None, SleepReturn,
                BlockIoReturn, procVars, cpuVars
  <2> QED BY <1>a, <2>1 DEF CpuInv
<1>2. CASE ForkAlloc(p) \/ Wait4Reap(p)
  <2>1. cpu' = cpu /\ cur' = cur
    BY <1>2 DEF ForkAlloc, Wait4Reap, cpuVars
  <2>2. state'[p] = "RUNNING"
    BY <1>0, <1>a, <1>2, Zenon DEF ForkAlloc, Wait4Reap, ZombieChildren
  <2> QED BY <1>a, <2>1, <2>2 DEF CpuInv
<1>3. CASE Kill(p) \/ ExitReparent(p) \/ ExitWakeup(p)
  <2>1. cpu' = cpu /\ cur' = cur
    BY <1>3 DEF Kill, ExitReparent, ExitWakeup, cpuVars
  <2>2. state'[p] = "RUNNING"
    BY <1>0, <1>a, <1>3, WakeupKeeps
       DEF Kill, KillWakes, ExitReparent, ReparentWakes, ExitWakeup, ExitWakes
  <2> QED BY <1>a, <2>1, <2>2 DEF CpuInv
<1>4. CASE Wait4Sleep(p) \/ Nanosleep(p) \/ SchedYield(p)
  <2>1. \/ halt' = "sched interruptable" /\ cpu' = cpu /\ cur' = cur
        \/ cpu' = "sched" /\ cur' = NULL /\ cursor' = NextOf(cur)
    BY <1>4, Zenon DEF Wait4Sleep, Nanosleep, SchedYield, sched, ToScheduler
  <2> QED BY <1>a, <2>1, Zenon DEF CpuInv
<1>5. CASE ExitZombie(p) \/ BlockIo(p)
  <2>1. \/ halt' = "lock held" /\ cpu' = cpu /\ cur' = cur
        \/ cpu' = "sched" /\ cur' = NULL /\ cursor' = NextOf(cur)
    BY <1>5, Zenon DEF ExitZombie, BlockIo, ToScheduler
  <2> QED BY <1>a, <2>1, Zenon DEF CpuInv
<1> QED BY <1>1, <1>2, <1>3, <1>4, <1>5 DEF KernelStep

-----------------------------------------------------------------------------
(* Birth and death.                                                        *)

(* A step in which nobody is born, dies or is freed keeps BirthInv.        *)
LEMMA QuietBirth ==
    ASSUME BirthInv,
           \A q \in PROC : \/ pc'[q] = pc[q] /\ state'[q] = state[q]
                           \/ /\ state[q] \notin {"UNUSED", "ZOMBIE"} /\ pc'[q] # "none"
                              /\ state'[q] \notin {"UNUSED", "ZOMBIE"},
           \A q \in PROC : parent[q] # NULL => parent'[q] # NULL
    PROVE  BirthInv'
BY DEF BirthInv

LEMMA BirthCpu ==
    ASSUME TypeOK, CpuInv, BirthInv, halt = "no",
           SchedScan \/ SchedPass \/ Swtch \/ TimerInterrupt \/ DiskComplete \/ DiskInterrupt
    PROVE  BirthInv'
<1>0. /\ state \in [PROC -> States] /\ cur \in PROC \cup {NULL} /\ pc \in [PROC -> PCs]
      /\ cursor \in PROC \cup {NULL} /\ cpu \in {"sched", "swtch", "proc"}
  BY DEF TypeOK
<1>1. parent' = parent
  BY Zenon DEF SchedScan, SchedPass, Swtch, TimerInterrupt, DiskComplete, DiskInterrupt, procVars
<1>2. CASE SchedScan
  <2>1. pc' = pc /\ cursor \in PROC
    BY <1>0, <1>2 DEF SchedScan
  <2>2. \A q \in PROC : \/ state'[q] = state[q]
                        \/ state[q] \in {"SLEEPING", "RUNNABLE"} /\ state'[q] = "RUNNING"
    BY <1>0, <1>2, <2>1 DEF SchedScan, Expired
  <2>3. \A q \in PROC : state[q] # "UNUSED" => pc'[q] # "none"
    BY <2>1 DEF BirthInv
  <2> QED BY <1>1, <2>1, <2>2, <2>3, QuietBirth
<1>3. CASE SchedPass \/ Swtch \/ DiskComplete
  <2>1. pc' = pc /\ state' = state
    BY <1>3 DEF SchedPass, Swtch, DiskComplete, procVars, cpuVars
  <2> QED BY <1>1, <2>1, QuietBirth
<1>4. CASE TimerInterrupt
  <2>1. \A q \in PROC : \/ state'[q] = state[q] /\ pc'[q] = pc[q]
                        \/ /\ state[q] = "RUNNING" /\ state'[q] = "RUNNABLE"
                           /\ pc'[q] \in {pc[q], "utrap"}
    BY <1>0, <1>4, Zenon DEF TimerInterrupt, CpuInv
  <2>2. \A q \in PROC : state[q] = "RUNNING" => pc[q] # "none"
    BY DEF BirthInv
  <2> QED BY <1>1, <2>1, <2>2, QuietBirth
<1>5. CASE DiskInterrupt
  <2>1. \A q \in PROC : state'[q] = state[q] \/ (state[q] = "SLEEPING" /\ state'[q] = "RUNNABLE")
    BY <1>0, <1>5, WakeupKeeps DEF DiskInterrupt, Endio
  <2>2. \A q \in PROC : \/ pc'[q] = pc[q]
                        \/ pc'[q] = "utrap" /\ state[q] = "RUNNING"
    BY <1>0, <1>5, Zenon DEF DiskInterrupt, CpuInv
  <2>3. \A q \in PROC : state[q] \in {"SLEEPING", "RUNNING"} => pc[q] # "none"
    BY DEF BirthInv
  <2> QED BY <1>1, <2>1, <2>2, <2>3, QuietBirth
<1> QED BY <1>2, <1>3, <1>4, <1>5

LEMMA BirthProc ==
    ASSUME SchedInv, halt = "no", NEW p \in PROC,
           KernelStep(p) \/ Fault(p) \/ \E sc \in Syscalls : Syscall(p, sc)
    PROVE  BirthInv'
<1>0. /\ pc \in [PROC -> PCs] /\ state \in [PROC -> States] /\ proc_list \in Seq(PROC)
      /\ parent \in [PROC -> PROC \cup {NULL}] /\ CpuInv /\ BirthInv
  BY DEF SchedInv, TypeInv, TypeOK
<1>a. cpu = "proc" /\ cur = p /\ state[p] = "RUNNING" /\ pc[p] # "none"
  BY <1>0, StepsRunning DEF BirthInv
<1>1. CASE \/ Fault(p) \/ UserReturn(p) \/ \E sc \in Syscalls : Syscall(p, sc)
           \/ ForkReadPid(p) \/ ForkInsert(p) \/ Wait4None(p) \/ SleepReturn(p)
           \/ BlockIoReturn(p)
  <2>1. state' = state /\ parent' = parent
    BY <1>1, Zenon DEF Fault, UserReturn, Syscall, ForkReadPid, ForkInsert, Wait4None, SleepReturn,
                BlockIoReturn, procVars
  <2>2. \E to \in Syscalls \cup {"exit", "user", "fork2", "utrap", "waitSleep", "wait4"} :
            pc' = [pc EXCEPT ![p] = to]
    BY <1>1, Zenon DEF Fault, UserReturn, Syscall, ForkReadPid, ForkInsert, Wait4None, SleepReturn,
                BlockIoReturn, Goto
  <2>3. \A q \in PROC : pc'[q] = pc[q] \/ (q = p /\ pc'[q] # "none")
    BY <1>0, <2>2, ProcAssumption
  <2> QED BY <1>0, <1>a, <2>1, <2>3, QuietBirth
<1>2. CASE ForkAlloc(p)
  <2>1. PICK c \in PROC : /\ state[c] = "UNUSED"
                          /\ state' = [state EXCEPT ![c] = "RUNNABLE"]
                          /\ parent' = [parent EXCEPT ![c] = p]
                          /\ pc' = [pc EXCEPT ![c] = "dive", ![p] = "fork3"]
    BY <1>2, ZenonT(40) DEF ForkAlloc, ChildParent
  <2> QED BY <1>0, <1>a, <2>1, ProcAssumption DEF BirthInv
<1>3. CASE Wait4Reap(p)
  <2>1. PICK c \in PROC : /\ state[c] = "ZOMBIE"
                          /\ \/ /\ state' = [state EXCEPT ![c] = "UNUSED"]
                                /\ pc' = [pc EXCEPT ![p] = "utrap", ![c] = "none"]
                                /\ parent' = [parent EXCEPT ![c] = NULL]
                             \/ /\ state' = state /\ pc' = [pc EXCEPT ![p] = "utrap"]
                                /\ parent' = parent
    BY <1>0, <1>3, ListedType DEF Wait4Reap, ZombieChildren, Children, Goto
  <2> QED BY <1>0, <1>a, <2>1 DEF BirthInv
<1>4. CASE Kill(p) \/ ExitReparent(p) \/ ExitWakeup(p)
  <2>1. \A q \in PROC : state'[q] = state[q] \/ (state[q] = "SLEEPING" /\ state'[q] = "RUNNABLE")
    BY <1>0, <1>4, WakeupKeeps
       DEF Kill, KillWakes, ExitReparent, ReparentWakes, ExitWakeup, ExitWakes
  <2>2. \A q \in PROC : parent[q] # NULL => parent'[q] # NULL
    BY <1>4, ProcAssumption DEF Kill, ExitReparent, Reparented, ExitWakeup
  <2>3. \A q \in PROC : pc'[q] = pc[q] \/ (q = p /\ pc'[q] # "none")
    BY <1>0, <1>4 DEF Kill, ExitReparent, ExitWakeup, Goto
  <2>4. \A q \in PROC : state[q] = "SLEEPING" => pc[q] # "none"
    BY <1>0 DEF BirthInv
  <2> QED BY <1>0, <1>a, <2>1, <2>2, <2>3, <2>4, QuietBirth
<1>5. CASE Wait4Sleep(p) \/ Nanosleep(p) \/ SchedYield(p)
  <2>1. /\ \E s \in {"SLEEPING", "RUNNABLE"} : state' = [state EXCEPT ![p] = s]
        /\ \E to \in {"asleep", "utrap"} : pc' = [pc EXCEPT ![p] = to]
        /\ parent' = parent
    BY <1>5, Zenon DEF Wait4Sleep, Nanosleep, SchedYield, sched, Goto
  <2>2. \A q \in PROC : \/ pc'[q] = pc[q] /\ state'[q] = state[q]
                        \/ q = p /\ pc'[q] # "none" /\ state'[q] \notin {"UNUSED", "ZOMBIE"}
    BY <1>0, <2>1
  <2> QED BY <1>0, <1>a, <2>1, <2>2, QuietBirth
<1>6. CASE ExitZombie(p)
  <2>1. /\ state' = [state EXCEPT ![p] = "ZOMBIE"] /\ pc' = pc /\ parent' = parent
        /\ pc[p] = "exit3"
    BY <1>6 DEF ExitZombie, Running
  <2> QED BY <1>0, <1>a, <2>1 DEF BirthInv
<1>7. CASE BlockIo(p)
  <2>1. /\ parent' = parent
        /\ \/ state' = state /\ pc' = pc
           \/ state' = [state EXCEPT ![p] = "SLEEPING"] /\ pc' = [pc EXCEPT ![p] = "ioWait"]
    BY <1>7, Zenon DEF BlockIo, Goto
  <2>2. \A q \in PROC : \/ pc'[q] = pc[q] /\ state'[q] = state[q]
                        \/ q = p /\ pc'[q] # "none" /\ state'[q] \notin {"UNUSED", "ZOMBIE"}
    BY <1>0, <2>1
  <2> QED BY <1>0, <1>a, <2>1, <2>2, QuietBirth
<1> QED BY <1>1, <1>2, <1>3, <1>4, <1>5, <1>6, <1>7 DEF KernelStep

-----------------------------------------------------------------------------
(* The process list.                                                       *)

(* Injectivity survives freeproc's unlinking, and the freed process is the *)
(* one that leaves the list.                                               *)
LEMMA WithoutExact ==
    ASSUME NEW S, NEW s \in Seq(S), NEW i \in 1 .. Len(s), IsInjective(s)
    PROVE  /\ IsInjective(Without(s, i))
           /\ {Without(s, i)[j] : j \in DOMAIN Without(s, i)} =
                  {s[j] : j \in DOMAIN s} \ {s[i]}
<1> DEFINE n == Len(s)
           r == Without(s, i)
           a == SubSeq(s, 1, i - 1)
           b == SubSeq(s, i + 1, n)
           old(j) == IF j < i THEN j ELSE j + 1
<1>1. n \in Nat /\ i \in 1 .. n /\ DOMAIN s = 1 .. n
  OBVIOUS
<1>2. a \in Seq(S) /\ Len(a) = i - 1 /\ \A j \in 1 .. i - 1 : a[j] = s[j]
  OBVIOUS
<1>3. b \in Seq(S) /\ Len(b) = n - i
  OBVIOUS
<1>4. \A j \in 1 .. n - i : b[j] = s[i + j]
  OBVIOUS
<1>5. r = a \o b
  BY DEF Without
<1> HIDE DEF n, r, a, b
<1>6. r \in Seq(S) /\ Len(r) = n - 1 /\ DOMAIN r = 1 .. n - 1
  BY <1>1, <1>2, <1>3, <1>5
<1>7. ASSUME NEW j \in 1 .. n - 1 PROVE r[j] = s[old(j)]
  <2>1. CASE j < i
    <3>1. r[j] = a[j]
      BY <1>1, <1>2, <1>3, <1>5, <2>1
    <3> QED BY <1>1, <1>2, <2>1, <3>1
  <2>2. CASE j >= i
    <3>1. j - (i - 1) \in 1 .. n - i /\ i + (j - (i - 1)) = j + 1
      BY <1>1, <2>2
    <3>2. r[j] = b[j - Len(a)]
      BY <1>1, <1>2, <1>3, <1>5, <2>2
    <3>3. r[j] = s[j + 1]
      BY <1>2, <1>4, <3>1, <3>2
    <3> QED BY <1>1, <2>2, <3>3
  <2> QED BY <1>1, <2>1, <2>2
<1>8. /\ \A j \in 1 .. n - 1 : old(j) \in (1 .. n) \ {i}
      /\ \A j, k \in 1 .. n - 1 : old(j) = old(k) => j = k
      /\ \A k \in (1 .. n) \ {i} : \E j \in 1 .. n - 1 : old(j) = k
  <2>1. \A k \in (1 .. n) \ {i} : \E j \in 1 .. n - 1 : old(j) = k
    <3>1. ASSUME NEW k \in (1 .. n) \ {i} PROVE \E j \in 1 .. n - 1 : old(j) = k
      <4>1. CASE k < i
        BY <1>1, <4>1
      <4>2. CASE k > i
        <5>1. k - 1 \in 1 .. n - 1 /\ old(k - 1) = k
          BY <1>1, <4>2
        <5> QED BY <5>1
      <4> QED BY <1>1, <4>1, <4>2
    <3> QED BY <3>1
  <2> QED BY <1>1, <2>1
<1> HIDE DEF old
<1>9. \A j, k \in 1 .. n : s[j] = s[k] => j = k
  BY <1>1 DEF IsInjective
<1>10. IsInjective(r)
  BY <1>6, <1>7, <1>8, <1>9 DEF IsInjective
<1>11. ASSUME NEW x PROVE (\E j \in 1 .. n - 1 : x = r[j]) <=> \E k \in (1 .. n) \ {i} : x = s[k]
  BY <1>7, <1>8
<1>12. {r[j] : j \in 1 .. n - 1} = {s[j] : j \in 1 .. n} \ {s[i]}
  <2>1. ASSUME NEW x PROVE x \in {r[j] : j \in 1 .. n - 1} <=> x \in {s[j] : j \in 1 .. n} \ {s[i]}
    <3>1. x \in {r[j] : j \in 1 .. n - 1} <=> \E k \in (1 .. n) \ {i} : x = s[k]
      BY <1>11, Zenon
    <3>2. (\E k \in (1 .. n) \ {i} : x = s[k]) <=> (\E k \in 1 .. n : x = s[k]) /\ x # s[i]
      BY <1>1, <1>9
    <3> QED BY <3>1, <3>2
  <2> QED BY <2>1, Zenon
<1> QED BY <1>1, <1>6, <1>10, <1>12, Zenon DEF r

(* fork's insertion: the child goes before the list from child->next on.   *)
LEMMA InsertExact ==
    ASSUME proc_list \in Seq(PROC), IsInjective(proc_list), NEW h \in Listed,
           NEW c \in PROC, c \notin Listed
    PROVE  LET s == <<c>> \o ListFrom(h)
           IN  /\ IsInjective(s)
               /\ \A j \in DOMAIN s : s[j] = c \/ s[j] \in Listed
<1> DEFINE k == Pos(h)
           n == Len(proc_list)
           f == ListFrom(h)
           s == <<c>> \o f
<1>1. k \in 1 .. n /\ n \in Nat
  BY PosOfListed
<1>2. f \in Seq(PROC) /\ Len(f) = n - k + 1 /\ \A j \in 1 .. n - k + 1 : f[j] = proc_list[k + j - 1]
  BY <1>1 DEF ListFrom
<1> HIDE DEF k, n, f
<1>3. Len(s) = n - k + 2 /\ DOMAIN s = 1 .. n - k + 2
  BY <1>1, <1>2
<1>4. s[1] = c /\ \A j \in 2 .. n - k + 2 : s[j] = f[j - 1]
  BY <1>1, <1>2
<1> HIDE DEF s
<1>5. \A j \in 2 .. n - k + 2 : s[j] = proc_list[k + j - 2] /\ k + j - 2 \in 1 .. n
  <2>1. ASSUME NEW j \in 2 .. n - k + 2 PROVE s[j] = proc_list[k + j - 2] /\ k + j - 2 \in 1 .. n
    <3>1. j - 1 \in 1 .. n - k + 1 /\ k + (j - 1) - 1 = k + j - 2
      BY <1>1
    <3>2. f[j - 1] = proc_list[k + (j - 1) - 1]
      BY <1>2, <3>1
    <3>3. k + j - 2 \in 1 .. n
      BY <1>1
    <3> QED BY <1>4, <3>1, <3>2, <3>3
  <2> QED BY <2>1
<1>6. \A j \in 1 .. n : proc_list[j] \in Listed
  BY DEF Listed, n
<1>7. \A i, j \in 1 .. n : proc_list[i] = proc_list[j] => i = j
  BY DEF IsInjective, n
<1>8. \A j \in 2 .. n - k + 2 : s[j] # c
  BY <1>5, <1>6
<1>9. \A i, j \in 2 .. n - k + 2 : s[i] = s[j] => i = j
  <2>1. ASSUME NEW i \in 2 .. n - k + 2, NEW j \in 2 .. n - k + 2, s[i] = s[j] PROVE i = j
    <3>1. k + i - 2 = k + j - 2
      BY <1>5, <1>7, <2>1
    <3> QED BY <1>1, <3>1
  <2> QED BY <2>1
<1>10. \A i, j \in 1 .. n - k + 2 : s[i] = s[j] => i = j
  <2>1. \A j \in 1 .. n - k + 2 : j = 1 \/ j \in 2 .. n - k + 2
    BY <1>1
  <2> QED BY <1>4, <1>8, <1>9, <2>1
<1>11. IsInjective(s)
  BY <1>3, <1>10 DEF IsInjective
<1>12. \A j \in 1 .. n - k + 2 : s[j] = c \/ s[j] \in Listed
  <2>1. \A j \in 1 .. n - k + 2 : j = 1 \/ j \in 2 .. n - k + 2
    BY <1>1
  <2> QED BY <1>4, <1>5, <1>6, <2>1
<1> QED BY <1>3, <1>11, <1>12 DEF s, f

(* A step that neither links nor frees a process keeps LinkInv if the      *)
(* scheduler goes by the list.                                             *)
LEMMA QuietLink ==
    ASSUME LinkInv, proc_list' = proc_list,
           \A q \in PROC : state'[q] = "UNUSED" => state[q] = "UNUSED",
           Listed \subseteq PROC,
           cpu' = "sched" => cursor' \in Listed \cup {NULL},
           \A q \in PROC : pc'[q] = "fork3" => pc[q] = "fork3" /\ fk'[q].child = fk[q].child
                                             /\ fk[q].child \in PROC,
           \A q \in PROC : pc[q] = "dive" /\ q # cur => pc'[q] = "dive",
           cur' \in {cur, NULL} \cup Listed, NULL \notin PROC
    PROVE  LinkInv'
<1>1. Listed' = Listed
  BY DEF Listed
<1>2. ListSound'
  BY <1>1 DEF LinkInv, ListSound
<1>3. ASSUME NEW q \in PROC, pc'[q] = "fork3"
      PROVE  fk'[q].child \notin Listed /\ pc'[fk'[q].child] = "dive" /\ fk'[q].child # cur'
  BY <1>3 DEF LinkInv
<1>4. \A p, q \in PROC : pc'[p] = "fork3" /\ pc'[q] = "fork3" /\ p # q => fk'[p].child # fk'[q].child
  BY DEF LinkInv
<1> QED BY <1>1, <1>2, <1>3, <1>4 DEF LinkInv

LEMMA LinkCpu ==
    ASSUME TypeInv, CpuInv, BirthInv, LinkInv, halt = "no",
           SchedScan \/ SchedPass \/ Swtch \/ TimerInterrupt \/ DiskComplete \/ DiskInterrupt
    PROVE  LinkInv'
<1>0. /\ state \in [PROC -> States] /\ cur \in PROC \cup {NULL} /\ pc \in [PROC -> PCs]
      /\ cursor \in PROC \cup {NULL} /\ cpu \in {"sched", "swtch", "proc"}
      /\ proc_list \in Seq(PROC) /\ NULL \notin PROC
      /\ \A p \in PROC : pc[p] = "fork3" => fk[p].child \in PROC
  BY ProcAssumption DEF TypeInv, TypeOK, Pending
<1>1. Listed \subseteq PROC /\ NextOf(cursor) \in Listed \cup {NULL}
      /\ NextOf(cur) \in Listed \cup {NULL} /\ ListHead \in Listed \cup {NULL}
  BY <1>0, ListedType, NextOfListed
<1>2. proc_list' = proc_list /\ fk' = fk
  BY Zenon DEF SchedScan, SchedPass, Swtch, TimerInterrupt, DiskComplete, DiskInterrupt, procVars
<1>3. CASE SchedScan
  <2>1. pc' = pc /\ cursor \in PROC /\ cpu = "sched" /\ cursor \in Listed
    BY <1>0, <1>3 DEF SchedScan, LinkInv
  <2>2. \A q \in PROC : state'[q] = "UNUSED" => state[q] = "UNUSED"
    BY <1>0, <1>3, <2>1 DEF SchedScan
  <2>3. cur' \in {cur, NULL} \cup Listed /\ (cpu' = "sched" => cursor' \in Listed \cup {NULL})
    BY <1>1, <1>3, <2>1 DEF SchedScan
  <2> QED BY <1>0, <1>1, <1>2, <2>1, <2>2, <2>3, QuietLink
<1>4. CASE SchedPass \/ Swtch \/ DiskComplete
  <2>1. pc' = pc /\ state' = state /\ cur' = cur
    BY <1>4 DEF SchedPass, Swtch, DiskComplete, procVars, cpuVars
  <2>2. cpu' = "sched" => cursor' \in Listed \cup {NULL}
    BY <1>1, <1>4 DEF SchedPass, Swtch, DiskComplete, cpuVars, LinkInv
  <2> QED BY <1>0, <1>1, <1>2, <2>1, <2>2, QuietLink
<1>5. CASE TimerInterrupt
  <2>1. \A q \in PROC : state'[q] = "UNUSED" => state[q] = "UNUSED"
    BY <1>0, <1>5, Zenon DEF TimerInterrupt
  <2>2. \A q \in PROC : pc'[q] = pc[q] \/ (q = cur /\ pc'[q] = "utrap")
    BY <1>0, <1>5, ZenonT(40) DEF TimerInterrupt
  <2>3. cur' \in {cur, NULL} /\ (cpu' = "sched" => cursor' \in Listed \cup {NULL})
    BY <1>1, <1>5, Zenon DEF TimerInterrupt, ToScheduler, LinkInv
  <2> QED BY <1>0, <1>1, <1>2, <2>1, <2>2, <2>3, QuietLink
<1>6. CASE DiskInterrupt
  <2>1. \A q \in PROC : state'[q] = "UNUSED" => state[q] = "UNUSED"
    BY <1>0, <1>6, WakeupKeeps DEF DiskInterrupt, Endio
  <2>2. \A q \in PROC : pc'[q] = pc[q] \/ (q = cur /\ pc'[q] = "utrap")
    BY <1>0, <1>6, ZenonT(40) DEF DiskInterrupt
  <2>3. cur' = cur /\ (cpu' = "sched" => cursor' \in Listed \cup {NULL})
    BY <1>6 DEF DiskInterrupt, LinkInv
  <2> QED BY <1>0, <1>1, <1>2, <2>1, <2>2, <2>3, QuietLink
<1> QED BY <1>3, <1>4, <1>5, <1>6

(* A step of process p that does not touch the list.                       *)
LEMMA LinkQuietProc ==
    ASSUME SchedInv, halt = "no", NEW p \in PROC, pc'[p] # "fork3",
           KernelStep(p) \/ Fault(p) \/ \E sc \in Syscalls : Syscall(p, sc),
           proc_list' = proc_list, \A q \in PROC : fk'[q].child = fk[q].child,
           \A q \in PROC : state'[q] = "UNUSED" => state[q] = "UNUSED",
           \A q \in PROC : pc'[q] = pc[q] \/ q = p
    PROVE  LinkInv'
<1>0. proc_list \in Seq(PROC) /\ LinkInv /\ CpuInv /\ NULL \notin PROC
      /\ \A q \in PROC : pc[q] = "fork3" => fk[q].child \in PROC
  BY ProcAssumption DEF SchedInv, TypeInv, TypeOK, Pending
<1>1. Listed \subseteq PROC /\ NextOf(cur) \in Listed \cup {NULL}
  BY <1>0, ListedType, NextOfListed, ZenonT(30)
<1>2. cpu = "proc" /\ cur = p
  BY <1>0, StepsRunning, ZenonT(30)
<1>3. /\ \/ cur' = cur /\ cpu' = cpu
         \/ cur' = NULL /\ cpu' = "sched" /\ cursor' = NextOf(cur)
  BY CpuProc, Zenon
<1>4. cur' \in {cur, NULL} /\ (cpu' = "sched" => cursor' \in Listed \cup {NULL})
  BY <1>1, <1>2, <1>3
<1>5. \A q \in PROC : pc'[q] = "fork3" => pc[q] = "fork3"
  OBVIOUS
<1>6. \A q \in PROC : pc[q] = "dive" /\ q # cur => pc'[q] = "dive"
  BY <1>2
<1> QED BY <1>0, <1>1, <1>4, <1>5, <1>6, QuietLink

(* alloc_proc: the child is new, so no other fork has it.                  *)
LEMMA LinkForkAlloc ==
    ASSUME SchedInv, halt = "no", NEW p \in PROC, ForkAlloc(p)
    PROVE  LinkInv'
<1>0. /\ pc \in [PROC -> PCs] /\ state \in [PROC -> States] /\ LinkInv /\ BirthInv /\ CpuInv
      /\ fk \in [PROC -> [pid: Nat, child: PROC \cup {NULL}, next: PROC \cup {NULL}]]
      /\ \A q \in PROC : pc[q] = "fork3" => fk[q].child \in PROC
  BY DEF SchedInv, TypeInv, TypeOK, Pending
<1>1. PICK c \in PROC : /\ state[c] = "UNUSED"
                        /\ state' = [state EXCEPT ![c] = "RUNNABLE"]
                        /\ pc' = [pc EXCEPT ![c] = "dive", ![p] = "fork3"]
                        /\ fk' = [fk EXCEPT ![p].child = c, ![p].next = ListHead]
  BY Zenon DEF ForkAlloc
<1>2. cpu = "proc" /\ cur = p /\ pc[p] = "fork2" /\ UNCHANGED <<proc_list, cpu, cur>>
  BY DEF ForkAlloc, Running, cpuVars
<1>3. c \notin Listed /\ pc[c] = "none" /\ c # p /\ Listed' = Listed
  BY <1>0, <1>1, <1>2 DEF LinkInv, ListSound, BirthInv, Listed
<1>4. ListSound'
  BY <1>0, <1>1, <1>2, <1>3 DEF LinkInv, ListSound
<1>5. fk'[p].child = c /\ \A q \in PROC \ {p} : fk'[q].child = fk[q].child
  BY <1>0, <1>1
<1>6. /\ pc'[p] = "fork3" /\ pc'[c] = "dive"
      /\ \A q \in PROC \ {p, c} : pc'[q] = pc[q]
  BY <1>0, <1>1, <1>3
<1>7. ASSUME NEW q \in PROC \ {p}, pc'[q] = "fork3"
      PROVE  /\ pc[q] = "fork3" /\ fk[q].child \in PROC \ {p, c} /\ fk[q].child \notin Listed
             /\ pc[fk[q].child] = "dive" /\ fk[q].child # cur
  <2>1. pc[q] = "fork3"
    BY <1>6, <1>7
  <2> QED BY <1>0, <1>2, <1>3, <2>1 DEF LinkInv
<1>8. ASSUME NEW q \in PROC, pc'[q] = "fork3"
      PROVE  fk'[q].child \notin Listed /\ pc'[fk'[q].child] = "dive" /\ fk'[q].child # cur
  <2>1. CASE q = p
    BY <1>2, <1>3, <1>5, <1>6, <2>1
  <2>2. CASE q # p
    BY <1>5, <1>6, <1>7, <1>8, <2>2
  <2> QED BY <2>1, <2>2
<1>9. ASSUME NEW q \in PROC, NEW r \in PROC, pc'[q] = "fork3", pc'[r] = "fork3", q # r
      PROVE  fk'[q].child # fk'[r].child
  <2>1. CASE q # p /\ r # p
    BY <1>0, <1>5, <1>7, <1>9, <2>1 DEF LinkInv
  <2>2. CASE q = p \/ r = p
    BY <1>5, <1>7, <1>9, <2>2
  <2> QED BY <2>1, <2>2
<1> QED BY <1>2, <1>3, <1>4, <1>8, <1>9 DEF LinkInv

(* fork's child becomes the head: other forks have other children.         *)
LEMMA LinkForkInsert ==
    ASSUME SchedInv, halt = "no", NEW p \in PROC, ForkInsert(p)
    PROVE  LinkInv'
<1> DEFINE c == fk[p].child
<1>0. /\ pc \in [PROC -> PCs] /\ proc_list \in Seq(PROC) /\ LinkInv /\ BirthInv /\ CpuInv
      /\ fk \in [PROC -> [pid: Nat, child: PROC \cup {NULL}, next: PROC \cup {NULL}]]
      /\ \A q \in PROC : pc[q] = "fork3" => fk[q].child \in PROC
  BY DEF SchedInv, TypeInv, TypeOK, Pending
<1>1. /\ cpu = "proc" /\ cur = p /\ pc[p] = "fork3" /\ UNCHANGED <<state, cpu, cur>>
      /\ fk' = [fk EXCEPT ![p] = NoFork] /\ pc' = [pc EXCEPT ![p] = "utrap"]
      /\ \/ proc_list' = proc_list
         \/ fk[p].next \in Listed /\ proc_list' = <<fk[p].child>> \o ListFrom(fk[p].next)
  BY Zenon DEF ForkInsert, Running, Goto, cpuVars
<1>2. c \in PROC /\ c \notin Listed /\ pc[c] = "dive" /\ state[c] # "UNUSED"
  BY <1>0, <1>1 DEF LinkInv, BirthInv
<1> HIDE DEF c
<1>3. IsInjective(proc_list') /\ \A q \in Listed' : q = c \/ q \in Listed
  <2>1. CASE proc_list' = proc_list
    BY <1>0, <2>1 DEF LinkInv, ListSound, Listed
  <2>2. CASE fk[p].next \in Listed /\ proc_list' = <<fk[p].child>> \o ListFrom(fk[p].next)
    <3>1. LET s == <<c>> \o ListFrom(fk[p].next)
          IN  IsInjective(s) /\ \A j \in DOMAIN s : s[j] = c \/ s[j] \in Listed
      BY <1>0, <1>2, <2>2, InsertExact DEF LinkInv, ListSound
    <3>2. IsInjective(proc_list') /\ \A j \in DOMAIN proc_list' : proc_list'[j] = c \/ proc_list'[j] \in Listed
      BY <2>2, <3>1 DEF c
    <3>3. Listed' = {proc_list'[j] : j \in DOMAIN proc_list'}
      BY DEF Listed
    <3> QED BY <3>2, <3>3
  <2> QED BY <1>1, <2>1, <2>2
<1>4. ListSound'
  BY <1>0, <1>1, <1>2, <1>3 DEF LinkInv, ListSound
<1>5. \A q \in PROC : pc'[q] = "fork3" => q # p /\ pc[q] = "fork3" /\ fk'[q].child = fk[q].child
  BY <1>0, <1>1
<1>6. \A q \in PROC : pc[q] = "dive" => pc'[q] = "dive"
  BY <1>0, <1>1
<1>7. ASSUME NEW q \in PROC, pc'[q] = "fork3"
      PROVE  fk'[q].child \notin Listed' /\ pc'[fk'[q].child] = "dive" /\ fk'[q].child # cur
  <2>1. fk[q].child \in PROC /\ fk[q].child # c /\ fk[q].child \notin Listed
        /\ pc[fk[q].child] = "dive" /\ fk[q].child # cur
    BY <1>0, <1>1, <1>5, <1>7 DEF LinkInv, c
  <2> QED BY <1>3, <1>5, <1>6, <1>7, <2>1
<1> QED BY <1>0, <1>1, <1>4, <1>5, <1>7 DEF LinkInv

(* freeproc takes the process it frees off the list.                       *)
LEMMA LinkReap ==
    ASSUME SchedInv, halt = "no", NEW p \in PROC, Wait4Reap(p)
    PROVE  LinkInv'
<1>0. /\ pc \in [PROC -> PCs] /\ proc_list \in Seq(PROC) /\ state \in [PROC -> States]
      /\ LinkInv /\ BirthInv /\ CpuInv
      /\ \A q \in PROC : pc[q] = "fork3" => fk[q].child \in PROC
  BY DEF SchedInv, TypeInv, TypeOK, Pending
<1>1. cpu = "proc" /\ cur = p /\ fk' = fk /\ UNCHANGED <<cpu, cur>>
  BY DEF Wait4Reap, Running, cpuVars
<1>2. PICK c \in Listed : /\ state[c] = "ZOMBIE"
                          /\ \/ /\ proc_list' = Unlink(c)
                                /\ state' = [state EXCEPT ![c] = "UNUSED"]
                                /\ pc' = [pc EXCEPT ![p] = "utrap", ![c] = "none"]
                             \/ /\ proc_list' = proc_list /\ state' = state
                                /\ pc' = [pc EXCEPT ![p] = "utrap"]
  BY DEF Wait4Reap, ZombieChildren, Children, Goto
<1>3. c \in PROC /\ Listed \subseteq PROC
  BY <1>0, ListedType
<1>4. Pos(c) \in 1 .. Len(proc_list) /\ proc_list[Pos(c)] = c
  BY <1>0, PosOfListed
<1>5. \/ Listed' = Listed /\ proc_list' = proc_list /\ state' = state
      \/ /\ Listed' = Listed \ {c} /\ IsInjective(proc_list')
         /\ state' = [state EXCEPT ![c] = "UNUSED"]
  <2>1. IsInjective(Without(proc_list, Pos(c)))
        /\ {Without(proc_list, Pos(c))[j] : j \in DOMAIN Without(proc_list, Pos(c))} = Listed \ {c}
    BY <1>0, <1>4, WithoutExact, Zenon DEF LinkInv, ListSound, Listed
  <2> QED BY <1>2, <2>1 DEF Unlink, Listed
<1>6. ListSound'
  BY <1>0, <1>3, <1>5 DEF LinkInv, ListSound
<1>7. \A q \in PROC : pc'[q] = "fork3" => pc[q] = "fork3"
  BY <1>0, <1>2
<1>8. \A q \in PROC \ Listed : q # p => pc'[q] = pc[q]
  BY <1>0, <1>2
<1>9. ASSUME NEW q \in PROC, pc'[q] = "fork3"
      PROVE  fk[q].child \notin Listed' /\ pc'[fk[q].child] = "dive" /\ fk[q].child # cur
  BY <1>0, <1>1, <1>5, <1>7, <1>8, <1>9 DEF LinkInv
<1> QED BY <1>0, <1>1, <1>6, <1>7, <1>9 DEF LinkInv

LEMMA LinkProc ==
    ASSUME SchedInv, halt = "no", NEW p \in PROC,
           KernelStep(p) \/ Fault(p) \/ \E sc \in Syscalls : Syscall(p, sc)
    PROVE  LinkInv'
<1>0. /\ pc \in [PROC -> PCs] /\ state \in [PROC -> States] /\ CpuInv
      /\ fk \in [PROC -> [pid: Nat, child: PROC \cup {NULL}, next: PROC \cup {NULL}]]
  BY DEF SchedInv, TypeInv, TypeOK
<1>1. CASE ForkAlloc(p) \/ ForkInsert(p) \/ Wait4Reap(p)
  BY <1>1, LinkForkAlloc, LinkForkInsert, LinkReap, Zenon
<1>2. CASE \/ Fault(p) \/ UserReturn(p) \/ \E sc \in Syscalls : Syscall(p, sc)
           \/ ForkReadPid(p) \/ Wait4None(p) \/ SleepReturn(p) \/ BlockIoReturn(p)
  <2>1. state' = state /\ proc_list' = proc_list
    BY <1>2 DEF Fault, UserReturn, Syscall, ForkReadPid, Wait4None, SleepReturn, BlockIoReturn,
                procVars
  <2>2. \A q \in PROC : fk'[q].child = fk[q].child
    BY <1>0, <1>2 DEF Fault, UserReturn, Syscall, ForkReadPid, Wait4None, SleepReturn,
                      BlockIoReturn
  <2>3. \E to \in Syscalls \cup {"exit", "user", "fork2", "utrap", "waitSleep", "wait4"} :
            pc' = [pc EXCEPT ![p] = to]
    BY <1>2 DEF Fault, UserReturn, Syscall, ForkReadPid, Wait4None, SleepReturn, BlockIoReturn,
                Goto
  <2>4. pc'[p] # "fork3" /\ \A q \in PROC : pc'[q] = pc[q] \/ q = p
    BY <1>0, <2>3, ProcAssumption
  <2> QED BY <2>1, <2>2, <2>4, LinkQuietProc
<1>3. CASE Kill(p) \/ ExitReparent(p) \/ ExitWakeup(p)
  <2>1. proc_list' = proc_list /\ fk' = fk
    BY <1>3, Zenon DEF Kill, ExitReparent, ExitWakeup
  <2>2. \A q \in PROC : state'[q] = "UNUSED" => state[q] = "UNUSED"
    BY <1>0, <1>3, WakeupKeeps
       DEF Kill, KillWakes, ExitReparent, ReparentWakes, ExitWakeup, ExitWakes
  <2>3. pc'[p] # "fork3" /\ \A q \in PROC : pc'[q] = pc[q] \/ q = p
    BY <1>0, <1>3, Zenon DEF Kill, ExitReparent, ExitWakeup, Goto
  <2> QED BY <2>1, <2>2, <2>3, LinkQuietProc
<1>4. CASE Wait4Sleep(p) \/ Nanosleep(p) \/ SchedYield(p) \/ ExitZombie(p) \/ BlockIo(p)
  <2>1. proc_list' = proc_list /\ fk' = fk
    BY <1>4, Zenon DEF Wait4Sleep, Nanosleep, SchedYield, ExitZombie, BlockIo
  <2>2. state' = state \/ \E st \in {"SLEEPING", "RUNNABLE", "ZOMBIE"} :
            state' = [state EXCEPT ![p] = st]
    BY <1>4, Zenon DEF Wait4Sleep, Nanosleep, SchedYield, ExitZombie, BlockIo, sched
  <2>3. pc'[p] # "fork3" /\ \A q \in PROC : pc'[q] = pc[q] \/ q = p
    BY <1>0, <1>4, Zenon DEF Wait4Sleep, Nanosleep, SchedYield, ExitZombie, BlockIo, Goto, Running
  <2>4. \A q \in PROC : state'[q] = "UNUSED" => state[q] = "UNUSED"
    BY <1>0, <2>2
  <2> QED BY <2>1, <2>3, <2>4, LinkQuietProc
<1> QED BY <1>1, <1>2, <1>3, <1>4 DEF KernelStep

-----------------------------------------------------------------------------
(* The disk.                                                               *)

(* A step that leaves the request and its waiter alone keeps DiskInv.      *)
LEMMA QuietDisk ==
    ASSUME DiskInv, disk' = disk, disk.holder \in PROC \cup {NULL}, NULL \notin PROC,
           \A q \in PROC : pc[q] = "ioWait" => pc'[q] = "ioWait" /\ chan'[q] = chan[q],
           \A q \in PROC : pc[q] = "ioWait" /\ q \in Listed' => q \in Listed,
           \A q \in PROC : pc[q] = "ioWait" /\ state'[q] = "SLEEPING" => state[q] = "SLEEPING",
           Listed' \subseteq PROC
    PROVE  DiskInv'
BY Zenon DEF DiskInv, DiskWakeup

LEMMA DiskCpu ==
    ASSUME TypeInv, CpuInv, DiskInv, halt = "no",
           SchedScan \/ SchedPass \/ Swtch \/ TimerInterrupt \/ DiskComplete \/ DiskInterrupt
    PROVE  DiskInv'
<1>0. /\ state \in [PROC -> States] /\ cur \in PROC \cup {NULL} /\ pc \in [PROC -> PCs]
      /\ cursor \in PROC \cup {NULL} /\ cpu \in {"sched", "swtch", "proc"}
      /\ proc_list \in Seq(PROC) /\ NULL \notin PROC
      /\ disk \in [holder: PROC \cup {NULL}, req: {"none", "pending", "used", "OK"}]
  BY ProcAssumption DEF TypeInv, TypeOK
<1>1. proc_list' = proc_list /\ chan' = chan
  BY Zenon DEF SchedScan, SchedPass, Swtch, TimerInterrupt, DiskComplete, DiskInterrupt, procVars
<1>2. Listed' = Listed /\ Listed \subseteq PROC
  BY <1>0, <1>1, ListedType DEF Listed
<1>3. \A q \in PROC : pc[q] = "ioWait" => pc'[q] = "ioWait"
  BY <1>0, Zenon DEF SchedScan, SchedPass, Swtch, TimerInterrupt, DiskComplete, DiskInterrupt
<1>4. CASE SchedScan \/ SchedPass \/ Swtch \/ TimerInterrupt
  <2>1. disk' = disk
    BY <1>4, ZenonT(40) DEF SchedScan, SchedPass, Swtch, TimerInterrupt
  <2>2. \A q \in PROC : state'[q] = "SLEEPING" => state[q] = "SLEEPING"
    BY <1>0, <1>4, Zenon DEF SchedScan, SchedPass, Swtch, TimerInterrupt, procVars
  <2> QED BY <1>0, <1>1, <1>2, <1>3, <2>1, <2>2, QuietDisk
<1>5. CASE DiskComplete
  <2>1. disk'.holder = disk.holder /\ disk'.req = "used" /\ pc' = pc
    BY <1>0, <1>5 DEF DiskComplete
  <2> QED BY <1>1, <2>1 DEF DiskInv, DiskWakeup
<1>6. CASE DiskInterrupt
  <2>1. disk'.holder = disk.holder /\ state' = wakeup(Blkreq, state)
    BY <1>0, <1>6 DEF DiskInterrupt, Endio
  <2>2. disk.holder # NULL => pc'[disk.holder] = "ioWait" /\ chan[disk.holder] = Blkreq
    BY <1>0, <1>3 DEF DiskInv
  <2>3. ASSUME disk.holder \in Listed PROVE state'[disk.holder] # "SLEEPING"
    <3>1. disk.holder \in PROC /\ chan[disk.holder] = Blkreq
      BY <1>0, <1>2, <2>2, <2>3
    <3>2. disk.holder = cur => state[disk.holder] = "RUNNING"
      BY <1>0, <3>1 DEF CpuInv
    <3> QED BY <2>1, <2>3, <3>1, <3>2 DEF wakeup
  <2> QED BY <1>1, <1>2, <2>1, <2>2, <2>3 DEF DiskInv, DiskWakeup
<1> QED BY <1>4, <1>5, <1>6

LEMMA DiskProc ==
    ASSUME SchedInv, halt = "no", NEW p \in PROC,
           KernelStep(p) \/ Fault(p) \/ \E sc \in Syscalls : Syscall(p, sc)
    PROVE  DiskInv'
<1>0. /\ pc \in [PROC -> PCs] /\ state \in [PROC -> States] /\ proc_list \in Seq(PROC)
      /\ chan \in [PROC -> PROC \cup {NULL, Blkreq}] /\ NULL \notin PROC
      /\ disk \in [holder: PROC \cup {NULL}, req: {"none", "pending", "used", "OK"}]
      /\ CpuInv /\ BirthInv /\ LinkInv /\ DiskInv /\ Pending
  BY ProcAssumption DEF SchedInv, TypeInv, TypeOK
<1>a. cpu = "proc" /\ cur = p /\ state[p] = "RUNNING"
  BY <1>0, StepsRunning
<1>b. TypeOK'
  BY NextType DEF SchedInv, Next, CpuStep, UserStep
<1>c. Listed' \subseteq PROC /\ Listed \subseteq PROC
  <2>1. proc_list' \in Seq(PROC)
    BY <1>b, Zenon DEF TypeOK
  <2>2. \A j \in DOMAIN proc_list' : proc_list'[j] \in PROC
    BY <2>1
  <2> QED BY <1>0, <2>2, ListedType DEF Listed
<1>1. CASE BlockIo(p)
  <2>1. CASE disk.holder = NULL
    <3>1. /\ disk' = [holder |-> p, req |-> "pending"] /\ chan' = [chan EXCEPT ![p] = Blkreq]
          /\ pc' = [pc EXCEPT ![p] = "ioWait"]
      BY <1>1, <2>1 DEF BlockIo, Goto
    <3>2. disk'.holder = p /\ disk'.req = "pending" /\ chan'[p] = Blkreq /\ pc'[p] = "ioWait"
      BY <1>0, <3>1
    <3> QED BY <3>2 DEF DiskInv, DiskWakeup
  <2>2. CASE disk.holder # NULL
    <3>1. disk' = disk /\ chan' = chan /\ state' = state /\ pc' = pc /\ Listed' = Listed
      BY <1>1, <2>2, ZenonT(40) DEF BlockIo, Listed
    <3> QED BY <1>0, <1>c, <3>1, QuietDisk
  <2> QED BY <2>1, <2>2
<1>2. CASE BlockIoReturn(p)
  <2>1. disk' = [holder |-> NULL, req |-> "none"]
    BY <1>2 DEF BlockIoReturn
  <2>2. disk'.holder = NULL /\ disk'.req = "none"
    BY <2>1
  <2> QED BY <2>2 DEF DiskInv, DiskWakeup
<1>3. CASE ~BlockIo(p) /\ ~BlockIoReturn(p)
  <2>1. disk' = disk
    BY <1>3, ZenonT(40) DEF KernelStep, UserReturn, ForkReadPid, ForkAlloc, ForkInsert, Wait4Reap, Wait4None,
           Wait4Sleep, SleepReturn, Nanosleep, SchedYield, Kill, ExitReparent, ExitWakeup,
           ExitZombie, Fault, Syscall
  <2>2. pc[p] # "ioWait"
    BY <1>3, ZenonT(40) DEF KernelStep, UserReturn, ForkReadPid, ForkAlloc, ForkInsert, Wait4Reap, Wait4None,
           Wait4Sleep, SleepReturn, Nanosleep, SchedYield, Kill, ExitReparent, ExitWakeup,
           ExitZombie, Fault, Syscall, Running
  <2>3. CASE ForkAlloc(p)
    <3>1. PICK c \in PROC : /\ state[c] = "UNUSED"
                            /\ state' = [state EXCEPT ![c] = "RUNNABLE"]
                            /\ chan' = [chan EXCEPT ![c] = NULL]
                            /\ pc' = [pc EXCEPT ![c] = "dive", ![p] = "fork3"]
      BY <2>3, ZenonT(40) DEF ForkAlloc
    <3>2. pc[c] = "none" /\ Listed' = Listed
      BY <1>0, <2>3, <3>1 DEF BirthInv, ForkAlloc, Listed
    <3>3. \A q \in PROC : pc[q] = "ioWait" => pc'[q] = "ioWait" /\ chan'[q] = chan[q]
                                              /\ state'[q] = state[q]
      BY <1>0, <2>2, <3>1, <3>2
    <3> QED BY <1>0, <1>c, <2>1, <3>2, <3>3, QuietDisk
  <2>4. CASE ForkInsert(p)
    <3>1. /\ state' = state /\ chan' = chan /\ pc' = [pc EXCEPT ![p] = "utrap"] /\ pc[p] = "fork3"
          /\ \/ proc_list' = proc_list
             \/ fk[p].next \in Listed /\ proc_list' = <<fk[p].child>> \o ListFrom(fk[p].next)
      BY <2>4, ZenonT(40) DEF ForkInsert, Goto, Running
    <3>2. /\ fk[p].child \in PROC /\ fk[p].child \notin Listed /\ pc[fk[p].child] = "dive"
          /\ IsInjective(proc_list)
      BY <1>0, <3>1, ZenonT(40) DEF LinkInv, Pending, ListSound
    <3>3. \A q \in Listed' : q = fk[p].child \/ q \in Listed
      <4>1. CASE proc_list' = proc_list
        BY <4>1 DEF Listed
      <4>2. CASE fk[p].next \in Listed /\ proc_list' = <<fk[p].child>> \o ListFrom(fk[p].next)
        <5>1. LET s == <<fk[p].child>> \o ListFrom(fk[p].next)
              IN  \A j \in DOMAIN s : s[j] = fk[p].child \/ s[j] \in Listed
          BY <1>0, <3>2, <4>2, InsertExact, ZenonT(40)
        <5>2. Listed' = {proc_list'[j] : j \in DOMAIN proc_list'}
          BY Zenon DEF Listed
        <5> QED BY <4>2, <5>1, <5>2
      <4> QED BY <3>1, <4>1, <4>2
    <3>4. \A q \in PROC : pc[q] = "ioWait" => pc'[q] = "ioWait" /\ (q \in Listed' => q \in Listed)
      BY <1>0, <2>2, <3>1, <3>2, <3>3
    <3> QED BY <1>0, <1>c, <2>1, <3>1, <3>4, QuietDisk
  <2>5. CASE Wait4Reap(p)
    <3>1. PICK c \in Listed : /\ state[c] = "ZOMBIE"
                              /\ \/ /\ proc_list' = Unlink(c)
                                    /\ state' = [state EXCEPT ![c] = "UNUSED"]
                                    /\ pc' = [pc EXCEPT ![p] = "utrap", ![c] = "none"]
                                 \/ /\ proc_list' = proc_list /\ state' = state
                                    /\ pc' = [pc EXCEPT ![p] = "utrap"]
      BY <2>5 DEF Wait4Reap, ZombieChildren, Children, Goto
    <3>2. chan' = chan /\ c \in PROC /\ pc[c] = "exit3"
      BY <1>0, <1>c, <2>5, <3>1, Zenon DEF Wait4Reap, BirthInv
    <3>3. Listed' \subseteq Listed
      <4>1. Pos(c) \in 1 .. Len(proc_list) /\ proc_list[Pos(c)] = c
        BY <1>0, PosOfListed
      <4>2. IsInjective(proc_list)
        BY <1>0, ZenonT(40) DEF LinkInv, ListSound
      <4>3. {Without(proc_list, Pos(c))[j] : j \in DOMAIN Without(proc_list, Pos(c))} = Listed \ {c}
        BY <1>0, <4>1, <4>2, WithoutExact, ZenonT(40) DEF Listed
      <4> QED BY <3>1, <4>3 DEF Unlink, Listed
    <3>4. \A q \in PROC : pc[q] = "ioWait" => pc'[q] = "ioWait" /\ state'[q] = state[q]
      BY <1>0, <2>2, <3>1, <3>2
    <3> QED BY <1>0, <1>c, <2>1, <3>2, <3>3, <3>4, QuietDisk
  <2>6. CASE ~ForkAlloc(p) /\ ~ForkInsert(p) /\ ~Wait4Reap(p)
    <3>1. proc_list' = proc_list
      BY <1>3, <2>6 DEF KernelStep, UserReturn, ForkReadPid, Wait4None, Wait4Sleep, SleepReturn,
             Nanosleep, SchedYield, Kill, ExitReparent, ExitWakeup, ExitZombie, Fault, Syscall,
             procVars
    <3>2. \A q \in PROC \ {p} : pc'[q] = pc[q] /\ chan'[q] = chan[q]
      BY <1>0, <1>3, <2>6 DEF KernelStep, UserReturn, ForkReadPid, Wait4None, Wait4Sleep, SleepReturn,
             Nanosleep, SchedYield, Kill, ExitReparent, ExitWakeup, ExitZombie, Fault, Syscall,
             procVars, Goto
    <3>3. \A q \in PROC \ {p} : state'[q] = "SLEEPING" => state[q] = "SLEEPING"
      <4>0. state \in [PROC -> States]
        BY <1>0 DEF TypeOK
      <4>1. CASE Kill(p)
        BY <4>0, <4>1 DEF Kill, KillWakes
      <4>2. CASE ExitReparent(p) \/ ExitWakeup(p)
        BY <4>0, <4>2, ExitWakesSleepers
      <4>3. CASE ~Kill(p) /\ ~ExitReparent(p) /\ ~ExitWakeup(p)
        BY <1>0, <1>3, <2>6, <4>3, Zenon DEF KernelStep, UserReturn, ForkReadPid, Wait4None, Wait4Sleep, SleepReturn,
               Nanosleep, SchedYield, ExitZombie, Fault, Syscall, procVars, sched
      <4> QED BY <4>1, <4>2, <4>3, Zenon
    <3>4. Listed' = Listed
      BY <3>1 DEF Listed
    <3> QED BY <1>0, <1>c, <2>1, <2>2, <3>2, <3>3, <3>4, QuietDisk, Zenon
  <2> QED BY <2>3, <2>4, <2>5, <2>6
<1> QED BY <1>1, <1>2, <1>3

-----------------------------------------------------------------------------
LEMMA SchedInit == Init => SchedInv
<1> SUFFICES ASSUME Init PROVE SchedInv
  OBVIOUS
<1>1. TypeInv
  BY InitType DEF Init, TypeInv, Pending
<1>2. CpuInv /\ BirthInv
  BY ProcAssumption DEF Init, CpuInv, BirthInv
<1>3. LinkInv
  <2>1. Listed = {init_proc} /\ IsInjective(proc_list)
    BY DEF Init, Listed, IsInjective
  <2>2. state[init_proc] # "UNUSED" /\ \A q \in PROC : pc[q] # "fork3"
    BY ProcAssumption DEF Init
  <2> QED BY <2>1, <2>2, Zenon DEF Init, LinkInv, ListSound
<1>4. DiskInv
  BY DEF Init, DiskInv, DiskWakeup
<1> QED BY <1>1, <1>2, <1>3, <1>4 DEF SchedInv

LEMMA SchedNext == ASSUME SchedInv, Next PROVE SchedInv'
<1>0. halt = "no" /\ TypeInv /\ TypeOK /\ CpuInv /\ BirthInv /\ LinkInv /\ DiskInv
  BY DEF Next, CpuStep, UserStep, Timer, DiskIrq, Device, SchedInv, TypeInv
<1>1. TypeInv'
  BY <1>0, NextType, NextPending DEF TypeInv
<1>2. CASE SchedScan \/ SchedPass \/ Swtch \/ TimerInterrupt \/ DiskComplete \/ DiskInterrupt
  BY <1>0, <1>1, <1>2, CpuCpu, BirthCpu, LinkCpu, DiskCpu DEF SchedInv
<1>3. ASSUME NEW p \in PROC, KernelStep(p) \/ Fault(p) \/ \E sc \in Syscalls : Syscall(p, sc)
      PROVE  SchedInv'
  BY <1>0, <1>1, <1>3, CpuProc, BirthProc, LinkProc, DiskProc DEF SchedInv
<1> QED BY <1>2, <1>3 DEF Next, CpuStep, UserStep, Timer, DiskIrq, Device

LEMMA SchedStutter == ASSUME SchedInv, UNCHANGED vars PROVE SchedInv'
<1>1. TypeInv'
  BY StutterType DEF SchedInv
<1> QED BY <1>1 DEF SchedInv, CpuInv, BirthInv, LinkInv, ListSound, DiskInv, DiskWakeup, Listed,
                    vars, procVars, cpuVars

LEMMA SchedInvariance == Spec => []SchedInv
<1>1. SchedInv /\ [Next]_vars => SchedInv'
  BY SchedNext, SchedStutter
<1> QED BY <1>1, SchedInit, PTL DEF Spec

(* blkdev_general_endio wakes the process that waits for the disk, on both *)
(* ports and however the other processes are scheduled, as long as it is   *)
(* on the list.                                                            *)
THEOREM DiskWaiterWoken == Spec => []DiskWakeup
<1>1. SchedInv => DiskWakeup
  BY DEF SchedInv, DiskInv
<1> QED BY <1>1, SchedInvariance, PTL

(* fork and freeproc link no process twice and leave no freed one on the   *)
(* list, even where RISC-V lets two of them interleave.                    *)
THEOREM ListNeverCorrupt == Spec => []ListSound
<1>1. SchedInv => ListSound
  BY Zenon DEF SchedInv, LinkInv
<1> QED BY <1>1, SchedInvariance, PTL

(* What may wake a process that is in nanosleep.                           *)
NapStep ==
    \A p \in PROC : /\ state[p] = "SLEEPING" /\ due[p] # -1 /\ chan[p] = NULL
                    /\ state'[p] # "SLEEPING"
                    => tick >= due[p] \/ killed'[p] \/ cur = init_proc

LEMMA NapKeptStep == ASSUME SchedInv, Next PROVE NapStep
<1> SUFFICES ASSUME NEW p \in PROC, state[p] = "SLEEPING", due[p] # -1, chan[p] = NULL,
                    state'[p] # "SLEEPING"
             PROVE  tick >= due[p] \/ killed'[p] \/ cur = init_proc
  BY DEF NapStep
<1>0. /\ halt = "no" /\ CpuInv /\ BirthInv /\ state \in [PROC -> States]
      /\ cur \in PROC \cup {NULL} /\ cpu \in {"sched", "swtch", "proc"}
      /\ parent \in [PROC -> PROC \cup {NULL}] /\ killed \in [PROC -> BOOLEAN]
      /\ Blkreq # NULL /\ init_proc # NULL
  BY ProcAssumption, Zenon DEF Next, CpuStep, UserStep, Timer, DiskIrq, Device, SchedInv, TypeInv, TypeOK
<1>1. CASE SchedScan
  BY <1>0, <1>1 DEF SchedScan, Expired
<1>2. CASE SchedPass \/ Swtch \/ DiskComplete
  BY <1>2 DEF SchedPass, Swtch, DiskComplete, procVars
<1>3. CASE TimerInterrupt
  BY <1>0, <1>3, Zenon DEF TimerInterrupt, CpuInv
<1>4. CASE DiskInterrupt
  BY <1>0, <1>4, WakeupKeeps DEF DiskInterrupt, Endio
<1>5. ASSUME NEW q \in PROC, KernelStep(q) \/ Fault(q) \/ \E sc \in Syscalls : Syscall(q, sc)
      PROVE  killed'[p] \/ cur = init_proc
  <2>1. cpu = "proc" /\ cur = q /\ state[q] = "RUNNING" /\ p # q
    BY <1>0, <1>5, StepsRunning
  <2>2. CASE Kill(q)
    <3>1. PICK r \in Listed : killed' = [killed EXCEPT ![r] = TRUE] /\ state' = KillWakes(r)
      BY <2>2, ZenonT(40) DEF Kill
    <3> QED BY <1>0, <3>1 DEF KillWakes
  <2>3. CASE ExitReparent(q)
    BY <1>0, <2>3, WakeupKeeps DEF ExitReparent, ReparentWakes
  <2>4. CASE ExitWakeup(q)
    <3>1. parent[q] = NULL
      BY <1>0, <2>4, WakeupKeeps DEF ExitWakeup, ExitWakes
    <3> QED BY <1>0, <2>1, <3>1, Zenon DEF BirthInv
  <2>5. CASE ~Kill(q) /\ ~ExitReparent(q) /\ ~ExitWakeup(q)
    BY <1>0, <1>5, <2>1, <2>5, Zenon DEF KernelStep, UserReturn, ForkReadPid, ForkAlloc, ForkInsert, Wait4Reap, Wait4None,
           ZombieChildren, Wait4Sleep, SleepReturn, Nanosleep, SchedYield, ExitZombie, BlockIo,
           BlockIoReturn, Fault, Syscall, procVars, sched
  <2> QED BY <2>2, <2>3, <2>4, <2>5
<1> QED BY <1>1, <1>2, <1>3, <1>4, <1>5, Zenon DEF Next, CpuStep, UserStep, Timer, DiskIrq, Device

(* On both ports a nap ends when its time has come, by kill, or by init's  *)
(* exit (wakeup(NULL)): no other wakeup, disk interrupt or switch ends it. *)
THEOREM NapsKept == Spec => NapKept
<1>1. SchedInv /\ [Next]_vars => [NapStep]_vars
  BY NapKeptStep
<1> QED BY <1>1, SchedInvariance, PTL DEF Spec, NapKept, NapStep

-----------------------------------------------------------------------------
(* LoongArch.                                                              *)
(* Where a process that does not have the CPU can be.                      *)
AtRest == {"none", "dive", "utrap", "asleep", "ioWait", "exit3"}

(* The steps of system calls that run with interrupts off.                 *)
Masked == {"fork", "fork2", "fork3", "wait4", "wait4_nohang", "waitSleep", "nanosleep",
           "sched_yield", "io", "kill"}

AtomicInv ==
    /\ \A p \in PROC : pc[p] \notin AtRest => cpu = "proc" /\ cur = p
    /\ \A p \in PROC : pc[p] = "exit3" => state[p] = "ZOMBIE" \/ (cpu = "proc" /\ cur = p)
    /\ \A p \in PROC : pc[p] \in Masked => ~intr
    /\ cpu # "sched" => cur \in PROC /\ state[cur] = "RUNNING"

ListInv ==
    /\ ListExact
    /\ \A p \in PROC : fk[p].child # NULL <=> pc[p] = "fork3"
    /\ \A p \in PROC : pc[p] = "fork3" =>
          /\ state[fk[p].child] = "RUNNABLE"
          /\ proc_list # <<>> /\ fk[p].next = Head(proc_list)

Waiting(p) == state[p] = "SLEEPING" /\ chan[p] = p

WaitInv ==
    /\ \A p \in PROC : chan[p] = p => pc[p] \in {"asleep", "none"}
    /\ \A p \in PROC : pc[p] = "waitSleep" =>
          \A c \in PROC : parent[c] = p => state[c] # "ZOMBIE"
    /\ \A p \in PROC : pc[p] = "exit3" /\ state[p] # "ZOMBIE" /\ parent[p] # NULL =>
          ~Waiting(parent[p])
    /\ NoLostWakeup

IInv == TypeInv /\ AtomicInv /\ ListInv /\ WaitInv

-----------------------------------------------------------------------------
(* The process that takes a step in the kernel is the one RUNNING, and     *)
(* everybody else is at rest.                                              *)
LEMMA OthersAtRest ==
    ASSUME AtomicInv, NEW p \in PROC, cpu = "proc", cur = p
    PROVE  /\ state[p] = "RUNNING"
           /\ \A q \in PROC \ {p} : pc[q] \in AtRest /\ pc[q] \notin Masked
           /\ \A q \in PROC \ {p} : pc[q] = "exit3" => state[q] = "ZOMBIE"
BY DEF AtomicInv, AtRest, Masked

LEMMA NobodyInKernel ==
    ASSUME AtomicInv, cpu # "proc"
    PROVE  /\ \A q \in PROC : pc[q] \in AtRest /\ pc[q] \notin Masked
           /\ \A q \in PROC : pc[q] = "exit3" => state[q] = "ZOMBIE"
BY DEF AtomicInv, AtRest, Masked

(* A process that stays on the CPU keeps AtomicInv if it goes to a step    *)
(* that suits the interrupt state, and everybody else stays at rest.       *)
LEMMA StaysOnCpu ==
    ASSUME AtomicInv, NEW p \in PROC, cpu = "proc", cur = p,
           cpu' = cpu, cur' = cur, state'[p] = "RUNNING",
           pc'[p] \in Masked => ~intr',
           \A q \in PROC \ {p} : \/ pc'[q] = pc[q] /\ (state[q] = "ZOMBIE" => state'[q] = "ZOMBIE")
                                 \/ pc'[q] \in {"none", "dive"}
    PROVE  AtomicInv'
<1>1. \A q \in PROC \ {p} : pc'[q] \in AtRest /\ pc'[q] \notin Masked
  BY OthersAtRest DEF AtRest, Masked
<1>2. \A q \in PROC \ {p} : pc'[q] = "exit3" => state'[q] = "ZOMBIE"
  BY OthersAtRest
<1> QED BY <1>1, <1>2 DEF AtomicInv

(* A process that switches away leaves everybody at rest.                  *)
LEMMA LeavesCpu ==
    ASSUME AtomicInv, NEW p \in PROC, cpu = "proc", cur = p,
           cpu' = "sched", pc'[p] \in AtRest,
           pc'[p] = "exit3" => state'[p] = "ZOMBIE",
           \A q \in PROC \ {p} : pc'[q] = pc[q] /\ state'[q] = state[q]
    PROVE  AtomicInv'
<1>1. \A q \in PROC : pc'[q] \in AtRest
  BY OthersAtRest
<1>2. \A q \in PROC : pc'[q] = "exit3" => state'[q] = "ZOMBIE"
  BY OthersAtRest
<1>3. \A q \in PROC : pc'[q] \notin Masked
  BY <1>1 DEF AtRest, Masked
<1> QED BY <1>1, <1>2, <1>3 DEF AtomicInv


(* In a system call sched() finds interrupts off and switches.             *)
LEMMA SchedSwitches ==
    ASSUME AtomicInv, NEW p \in PROC, pc[p] \in Masked, NEW st, sched(st)
    PROVE  state' = st /\ cpu' = "sched"
BY Zenon DEF AtomicInv, sched, ToScheduler

LEMMA AtomicCpu ==
    ASSUME TypeOK, AtomicInv, Arch = "loongarch",
           SchedScan \/ SchedPass \/ Swtch \/ TimerInterrupt \/ DiskComplete \/ DiskInterrupt
    PROVE  AtomicInv'
<1>0. /\ pc \in [PROC -> PCs] /\ state \in [PROC -> States]
      /\ cur \in PROC \cup {NULL} /\ cursor \in PROC \cup {NULL}
  BY Zenon DEF TypeOK
<1>1. CASE SchedScan
  <2>1. cursor \in PROC /\ cpu = "sched" /\ pc' = pc
    BY <1>0, <1>1 DEF SchedScan
  <2>2. cpu' # "sched" => cur' = cursor /\ state'[cursor] = "RUNNING"
    BY <1>0, <1>1, <2>1 DEF SchedScan
  <2>3. \A q \in PROC : state[q] = "ZOMBIE" => state'[q] = "ZOMBIE"
    BY <1>0, <1>1, <2>1 DEF SchedScan, Expired
  <2> QED BY <2>1, <2>2, <2>3, NobodyInKernel DEF AtomicInv
<1>2. CASE SchedPass
  BY <1>2, NobodyInKernel DEF SchedPass, procVars, AtomicInv
<1>3. CASE Swtch
  BY <1>3, NobodyInKernel DEF Swtch, procVars, AtomicInv
<1>4. CASE TimerInterrupt
  BY <1>4, Zenon DEF TimerInterrupt
<1>5. CASE DiskComplete
  BY <1>5 DEF DiskComplete, procVars, cpuVars, AtomicInv
<1>6. CASE DiskInterrupt
  <2>1. cpu' = cpu /\ cur' = cur /\ intr /\ state' = wakeup(Blkreq, state)
    BY <1>6 DEF DiskInterrupt, Endio
  <2>2. \A q \in PROC : state[q] \in {"ZOMBIE", "RUNNING"} => state'[q] = state[q]
    BY <1>0, <2>1, WakeupKeeps
  <2>3. \A q \in PROC : pc'[q] = pc[q] \/ pc'[q] = "utrap"
    BY <1>0, <1>6, Zenon DEF DiskInterrupt
  <2>4. \A q \in PROC : pc'[q] \notin Masked
    BY <2>1, <2>3 DEF AtomicInv, Masked
  <2>5. \A q \in PROC : pc'[q] \notin AtRest => cpu' = "proc" /\ cur' = q
    BY <2>1, <2>3 DEF AtomicInv, AtRest
  <2>6. \A q \in PROC : pc'[q] = "exit3" => state'[q] = "ZOMBIE" \/ (cpu' = "proc" /\ cur' = q)
    BY <2>1, <2>2, <2>3 DEF AtomicInv
  <2>7. cpu' # "sched" => cur' \in PROC /\ state'[cur'] = "RUNNING"
    BY <2>1, <2>2 DEF AtomicInv
  <2> QED BY <2>4, <2>5, <2>6, <2>7 DEF AtomicInv
<1> QED BY <1>1, <1>2, <1>3, <1>4, <1>5, <1>6

LEMMA AtomicProc ==
    ASSUME TypeInv, AtomicInv, Arch = "loongarch", NEW p \in PROC,
           KernelStep(p) \/ Fault(p) \/ \E sc \in Syscalls : Syscall(p, sc)
    PROVE  AtomicInv'
<1>0. pc \in [PROC -> PCs] /\ state \in [PROC -> States] /\ proc_list \in Seq(PROC)
  BY Zenon DEF TypeInv, TypeOK
<1>a. cpu = "proc" /\ cur = p /\ state[p] = "RUNNING"
  <2>1. cpu = "proc" /\ cur = p
    BY Zenon DEF KernelStep, UserReturn, ForkReadPid, ForkAlloc, ForkInsert, Wait4Reap, Wait4None,
           Wait4Sleep, SleepReturn, Nanosleep, SchedYield, Kill, ExitReparent, ExitWakeup,
           ExitZombie, BlockIo, BlockIoReturn, Fault, Syscall, Running
  <2> QED BY <2>1, OthersAtRest
<1>1. CASE \E sc \in Syscalls : Syscall(p, sc)
  <2>1. /\ cpu' = cpu /\ cur' = cur /\ state' = state /\ intr' = FALSE
        /\ \A q \in PROC \ {p} : pc'[q] = pc[q]
    BY <1>0, <1>1, Zenon DEF Syscall, SyscallIntr, Goto, procVars
  <2> QED BY <1>a, <2>1, StaysOnCpu, Zenon
<1>2. CASE Fault(p)
  <2>1. /\ cpu' = cpu /\ cur' = cur /\ state' = state /\ intr' = FALSE
        /\ \A q \in PROC \ {p} : pc'[q] = pc[q]
    BY <1>0, <1>2, Zenon DEF Fault, Goto
  <2> QED BY <1>a, <2>1, StaysOnCpu, Zenon
<1>3. CASE UserReturn(p)
  <2>1. /\ cpu' = cpu /\ cur' = cur /\ state' = state /\ pc'[p] \in {"user", "exit"}
        /\ \A q \in PROC \ {p} : pc'[q] = pc[q]
    BY <1>0, <1>3, Zenon DEF UserReturn, Goto, procVars
  <2>2. pc'[p] \notin Masked
    BY <2>1, Zenon DEF Masked
  <2> QED BY <1>a, <2>1, <2>2, StaysOnCpu, Zenon
<1>4. CASE ForkReadPid(p) \/ ForkInsert(p) \/ Wait4None(p)
  <2>1. /\ cpu' = cpu /\ cur' = cur /\ state' = state /\ intr' = intr
        /\ pc[p] \in Masked /\ \A q \in PROC \ {p} : pc'[q] = pc[q]
    BY <1>0, <1>4, Zenon DEF ForkReadPid, ForkInsert, Wait4None, Running, Goto, cpuVars, procVars, Masked
  <2>2. ~intr'
    BY <2>1 DEF AtomicInv
  <2> QED BY <1>a, <2>1, <2>2, StaysOnCpu, Zenon
<1>5. CASE ForkAlloc(p)
  <2>1. PICK c \in PROC : /\ state[c] = "UNUSED"
                          /\ state' = [state EXCEPT ![c] = "RUNNABLE"]
                          /\ pc' = [pc EXCEPT ![c] = "dive", ![p] = "fork3"]
    BY <1>5, Zenon DEF ForkAlloc
  <2>2. cpu' = cpu /\ cur' = cur /\ intr' = intr /\ pc[p] \in Masked
    BY <1>5 DEF ForkAlloc, Running, cpuVars, Masked
  <2>3. ~intr'
    BY <2>2 DEF AtomicInv
  <2>4. \A q \in PROC \ {p} : \/ pc'[q] = pc[q] /\ state'[q] = state[q]
                              \/ pc'[q] \in {"none", "dive"}
    BY <1>0, <2>1
  <2>5. state'[p] = "RUNNING"
    BY <1>0, <1>a, <2>1
  <2> QED BY <1>a, <2>2, <2>3, <2>4, <2>5, StaysOnCpu
<1>6. CASE Wait4Reap(p)
  <2>1. PICK c \in PROC : /\ state[c] = "ZOMBIE"
                          /\ \/ /\ state' = [state EXCEPT ![c] = "UNUSED"]
                                /\ pc' = [pc EXCEPT ![p] = "utrap", ![c] = "none"]
                             \/ state' = state /\ pc' = [pc EXCEPT ![p] = "utrap"]
    BY <1>0, <1>6, ListedType DEF Wait4Reap, ZombieChildren, Children, Goto
  <2>2. cpu' = cpu /\ cur' = cur /\ intr' = intr /\ pc[p] \in Masked
    BY <1>6 DEF Wait4Reap, Running, cpuVars, Masked
  <2>3. ~intr'
    BY <2>2 DEF AtomicInv
  <2>4. \A q \in PROC \ {p} : \/ pc'[q] = pc[q] /\ state'[q] = state[q]
                              \/ pc'[q] \in {"none", "dive"}
    BY <1>0, <2>1
  <2>5. state'[p] = "RUNNING"
    BY <1>0, <1>a, <2>1
  <2> QED BY <1>a, <2>2, <2>3, <2>4, <2>5, StaysOnCpu
<1>7. CASE Wait4Sleep(p) \/ Nanosleep(p) \/ SchedYield(p)
  <2>1. /\ pc[p] \in Masked /\ \A q \in PROC \ {p} : pc'[q] = pc[q]
        /\ pc'[p] \in AtRest /\ pc'[p] # "exit3"
    BY <1>0, <1>7 DEF Wait4Sleep, Nanosleep, SchedYield, Running, Goto, Masked, AtRest
  <2>2. PICK s \in {"SLEEPING", "RUNNABLE"} : sched([state EXCEPT ![p] = s])
    BY <1>7 DEF Wait4Sleep, Nanosleep, SchedYield
  <2>3. state' = [state EXCEPT ![p] = s] /\ cpu' = "sched"
    BY <2>1, <2>2, SchedSwitches, ZenonT(40)
  <2> QED BY <1>0, <1>a, <2>1, <2>3, LeavesCpu
<1>8. CASE SleepReturn(p)
  <2>1. /\ cpu' = cpu /\ cur' = cur /\ state' = state /\ intr' = FALSE
        /\ \A q \in PROC \ {p} : pc'[q] = pc[q]
    BY <1>0, <1>8 DEF SleepReturn, Goto
  <2> QED BY <1>a, <2>1, StaysOnCpu, Zenon
<1>9. CASE Kill(p)
  <2>1. /\ cpu' = cpu /\ cur' = cur /\ pc'[p] = "utrap"
        /\ \A q \in PROC \ {p} : pc'[q] = pc[q]
    BY <1>0, <1>9 DEF Kill, Goto, cpuVars
  <2>2. \A q \in PROC : state[q] \in {"ZOMBIE", "RUNNING"} => state'[q] = state[q]
    BY <1>0, <1>9, Zenon DEF Kill, KillWakes
  <2> QED BY <1>a, <2>1, <2>2, StaysOnCpu, Zenon DEF Masked
<1>10. CASE ExitReparent(p) \/ ExitWakeup(p)
  <2>1. /\ cpu' = cpu /\ cur' = cur /\ pc'[p] \in {"exit2", "exit3"}
        /\ \A q \in PROC \ {p} : pc'[q] = pc[q]
    BY <1>0, <1>10 DEF ExitReparent, ExitWakeup, Goto, cpuVars
  <2>2. \A q \in PROC : state[q] \in {"ZOMBIE", "RUNNING"} => state'[q] = state[q]
    BY <1>0, <1>10, ExitWakesSleepers
  <2>3. pc'[p] \notin Masked
    BY <2>1 DEF Masked
  <2> QED BY <1>a, <2>1, <2>2, <2>3, StaysOnCpu
<1>11. CASE ExitZombie(p)
  <2>1. /\ cpu' = "sched" /\ pc' = pc /\ pc[p] = "exit3"
        /\ state' = [state EXCEPT ![p] = "ZOMBIE"]
    BY <1>11 DEF ExitZombie, ToScheduler, Running
  <2> QED BY <1>0, <1>a, <2>1, LeavesCpu DEF AtRest
<1>12. CASE BlockIo(p)
  <2>1. CASE disk.holder = NULL
    <3>1. /\ cpu' = "sched" /\ pc' = [pc EXCEPT ![p] = "ioWait"]
          /\ state' = [state EXCEPT ![p] = "SLEEPING"]
      BY <1>12, <2>1 DEF BlockIo, ToScheduler, Goto
    <3> QED BY <1>0, <1>a, <3>1, LeavesCpu DEF AtRest
  <2>2. CASE disk.holder # NULL
    <3>1. cpu' = cpu /\ cur' = cur /\ state' = state /\ intr' = FALSE /\ pc' = pc
      BY <1>12, <2>2, Zenon DEF BlockIo
    <3> QED BY <1>a, <3>1, StaysOnCpu
  <2> QED BY <2>1, <2>2
<1>13. CASE BlockIoReturn(p)
  <2>1. /\ cpu' = cpu /\ cur' = cur /\ state' = state /\ pc'[p] = "utrap"
        /\ \A q \in PROC \ {p} : pc'[q] = pc[q]
    BY <1>0, <1>13 DEF BlockIoReturn, Goto
  <2> QED BY <1>a, <2>1, StaysOnCpu DEF Masked
<1> QED BY <1>1, <1>2, <1>3, <1>4, <1>5, <1>6, <1>7, <1>8, <1>9, <1>10, <1>11, <1>12, <1>13 DEF KernelStep


-----------------------------------------------------------------------------
(* The process list.                                                       *)

(* A step that neither links nor frees a process keeps ListInv.            *)
LEMMA QuietList ==
    ASSUME ListInv, proc_list' = proc_list,
           \A q \in PROC : fk'[q].child = fk[q].child,
           \A q \in PROC : state'[q] = "UNUSED" <=> state[q] = "UNUSED",
           \A q \in PROC : pc[q] # "fork3" /\ pc'[q] # "fork3"
    PROVE  ListInv'
<1>1. Listed' = Listed
  BY DEF Listed
<1>2. {fk'[q].child : q \in PROC} = {fk[q].child : q \in PROC}
  OBVIOUS
<1>3. {p \in PROC : state'[p] # "UNUSED"} = {p \in PROC : state[p] # "UNUSED"}
  OBVIOUS
<1>4. ListExact'
  BY <1>1, <1>2, <1>3 DEF ListInv, ListExact
<1> QED BY <1>4 DEF ListInv

LEMMA ListCpu ==
    ASSUME TypeOK, AtomicInv, ListInv, Arch = "loongarch",
           SchedScan \/ SchedPass \/ Swtch \/ TimerInterrupt \/ DiskComplete \/ DiskInterrupt
    PROVE  ListInv'
<1>0. /\ pc \in [PROC -> PCs] /\ state \in [PROC -> States]
      /\ cur \in PROC \cup {NULL} /\ cursor \in PROC \cup {NULL}
  BY Zenon DEF TypeOK
<1>1. CASE SchedScan
  <2>1. cpu # "proc" /\ pc' = pc /\ proc_list' = proc_list /\ fk' = fk
    BY <1>1 DEF SchedScan
  <2>2. \A q \in PROC : state'[q] = "UNUSED" <=> state[q] = "UNUSED"
    BY <1>0, <1>1 DEF SchedScan, Expired
  <2>3. \A q \in PROC : pc[q] # "fork3"
    BY <2>1, NobodyInKernel DEF AtRest
  <2> QED BY <2>1, <2>2, <2>3, QuietList
<1>2. CASE SchedPass \/ Swtch
  <2>1. cpu # "proc" /\ pc' = pc /\ proc_list' = proc_list /\ fk' = fk /\ state' = state
    BY <1>2 DEF SchedPass, Swtch, procVars
  <2>2. \A q \in PROC : pc[q] # "fork3"
    BY <2>1, NobodyInKernel DEF AtRest
  <2> QED BY <2>1, <2>2, QuietList
<1>3. CASE TimerInterrupt
  BY <1>3, Zenon DEF TimerInterrupt
<1>4. CASE DiskComplete
  BY <1>4, ZenonT(40) DEF DiskComplete, procVars, ListInv, ListExact, Listed
<1>5. CASE DiskInterrupt
  <2>1. intr /\ state' = wakeup(Blkreq, state) /\ proc_list' = proc_list /\ fk' = fk
    BY <1>5 DEF DiskInterrupt, Endio
  <2>2. \A q \in PROC : state'[q] = "UNUSED" <=> state[q] = "UNUSED"
    BY <1>0, <2>1, WakeupKeeps
  <2>3. \A q \in PROC : pc[q] # "fork3"
    BY <2>1 DEF AtomicInv, Masked
  <2>4. \A q \in PROC : pc'[q] # "fork3"
    BY <1>0, <1>5, <2>3, Zenon DEF DiskInterrupt
  <2> QED BY <2>1, <2>2, <2>3, <2>4, QuietList
<1> QED BY <1>1, <1>2, <1>3, <1>4, <1>5

(* alloc_proc and the fields fork fills in: the child is allocated but not *)
(* on the list, and its parent is about to link it.                        *)
LEMMA ListForkAlloc ==
    ASSUME TypeInv, AtomicInv, ListInv, NEW p \in PROC, ForkAlloc(p)
    PROVE  ListInv'
<1>0. /\ pc \in [PROC -> PCs] /\ state \in [PROC -> States] /\ proc_list \in Seq(PROC)
      /\ fk \in [PROC -> [pid: Nat, child: PROC \cup {NULL}, next: PROC \cup {NULL}]]
  BY Zenon DEF TypeInv, TypeOK
<1>1. PICK c \in PROC : /\ state[c] = "UNUSED"
                        /\ state' = [state EXCEPT ![c] = "RUNNABLE"]
                        /\ pc' = [pc EXCEPT ![c] = "dive", ![p] = "fork3"]
                        /\ fk' = [fk EXCEPT ![p].child = c, ![p].next = ListHead]
  BY Zenon DEF ForkAlloc
<1>2. cpu = "proc" /\ cur = p /\ pc[p] = "fork2" /\ proc_list' = proc_list
  BY DEF ForkAlloc, Running
<1>3. state[p] = "RUNNING" /\ c # p /\ \A q \in PROC : pc[q] # "fork3"
  BY <1>1, <1>2, OthersAtRest DEF AtRest
<1>4. \A q \in PROC : fk[q].child = NULL
  BY <1>3 DEF ListInv
<1>5. p \in Listed
  BY <1>3, <1>4, ProcAssumption DEF ListInv, ListExact
<1>6. proc_list # <<>>
  BY <1>5 DEF Listed
<1>7. \A q \in PROC : fk'[q].child = IF q = p THEN c ELSE NULL
  BY <1>0, <1>1, <1>4
<1>8. fk'[p].next = Head(proc_list)
  BY <1>0, <1>1, <1>6 DEF ListHead
<1>9. Listed' = Listed
  BY <1>2 DEF Listed
<1>10. Listed = {q \in PROC : state[q] # "UNUSED"}
  BY <1>4, ProcAssumption DEF ListInv, ListExact
<1>11. {q \in PROC : state'[q] # "UNUSED"} = {q \in PROC : state[q] # "UNUSED"} \cup {c}
  BY <1>0, <1>1
<1>12. {fk'[q].child : q \in PROC} \subseteq {c, NULL} /\ c \in {fk'[q].child : q \in PROC}
  BY <1>7
<1>13. Listed' = {q \in PROC : state'[q] # "UNUSED"} \ {fk'[q].child : q \in PROC}
  BY <1>1, <1>9, <1>10, <1>11, <1>12, ProcAssumption, Zenon
<1>14. ListExact'
  BY <1>2, <1>13 DEF ListExact, ListInv
<1>15. \A q \in PROC : pc'[q] = "fork3" <=> q = p
  BY <1>0, <1>1, <1>3
<1>16. state'[c] = "RUNNABLE"
  BY <1>0, <1>1
<1> QED BY <1>2, <1>6, <1>7, <1>8, <1>14, <1>15, <1>16, ProcAssumption DEF ListInv

(* fork links the child in front of the list it read, which is still the   *)
(* list.                                                                   *)
LEMMA ListForkInsert ==
    ASSUME TypeInv, AtomicInv, ListInv, NEW p \in PROC, ForkInsert(p)
    PROVE  ListInv'
<1>0. /\ pc \in [PROC -> PCs] /\ state \in [PROC -> States] /\ proc_list \in Seq(PROC)
      /\ fk \in [PROC -> [pid: Nat, child: PROC \cup {NULL}, next: PROC \cup {NULL}]]
  BY Zenon DEF TypeInv, TypeOK
<1> DEFINE c == fk[p].child
           h == fk[p].next
           n == Len(proc_list)
<1>1. /\ cpu = "proc" /\ cur = p /\ pc[p] = "fork3" /\ state' = state
      /\ fk' = [fk EXCEPT ![p] = NoFork] /\ pc' = [pc EXCEPT ![p] = "utrap"]
  BY Zenon DEF ForkInsert, Running, Goto
<1>2. c \in PROC /\ h = Head(proc_list) /\ proc_list # <<>> /\ state[c] = "RUNNABLE"
  BY <1>1 DEF TypeInv, Pending, ListInv
<1>3. \A q \in PROC \ {p} : pc[q] # "fork3" /\ fk[q].child = NULL
  BY <1>1, OthersAtRest DEF AtRest, ListInv
<1>4. n \in Nat /\ n >= 1 /\ h = proc_list[1]
  BY <1>0, <1>2
<1>5. h \in Listed
  BY <1>0, <1>4 DEF Listed
<1>6. Pos(h) = 1
  <2>1. Pos(h) \in DOMAIN proc_list /\ proc_list[Pos(h)] = proc_list[1] /\ 1 \in DOMAIN proc_list
    BY <1>0, <1>4, <1>5, PosOfListed
  <2> QED BY <2>1 DEF ListInv, ListExact, IsInjective
<1>7. proc_list' = <<c>> \o proc_list
  <2>1. proc_list' = <<c>> \o SubSeq(proc_list, 1, n)
    BY <1>5, <1>6 DEF ForkInsert, ListFrom
  <2> QED BY <1>0, <2>1
<1>8. c \notin Listed
  BY DEF ListInv, ListExact
<1>9. /\ DOMAIN proc_list = 1 .. n /\ DOMAIN proc_list' = 1 .. n + 1
      /\ proc_list'[1] = c /\ \A i \in 2 .. n + 1 : proc_list'[i] = proc_list[i - 1]
  BY <1>0, <1>2, <1>4, <1>7
<1>10. \A i \in 1 .. n : proc_list[i] # c
  BY <1>8, <1>9 DEF Listed
<1>11. \A i, j \in 1 .. n : proc_list[i] = proc_list[j] => i = j
  BY <1>9 DEF ListInv, ListExact, IsInjective
<1> HIDE DEF c, h, n
<1>12. IsInjective(proc_list')
  <2>1. ASSUME NEW i \in 1 .. n + 1, NEW j \in 1 .. n + 1, proc_list'[i] = proc_list'[j]
        PROVE  i = j
    <3>1. CASE i = 1
      <4>1. j # 1 => j - 1 \in 1 .. n /\ proc_list'[j] = proc_list[j - 1]
        BY <1>4, <1>9
      <4> QED BY <1>9, <1>10, <2>1, <3>1, <4>1
    <3>2. CASE j = 1
      <4>1. i # 1 => i - 1 \in 1 .. n /\ proc_list'[i] = proc_list[i - 1]
        BY <1>4, <1>9
      <4> QED BY <1>9, <1>10, <2>1, <3>2, <4>1
    <3>3. CASE i # 1 /\ j # 1
      <4>1. /\ i - 1 \in 1 .. n /\ proc_list'[i] = proc_list[i - 1]
            /\ j - 1 \in 1 .. n /\ proc_list'[j] = proc_list[j - 1]
        BY <1>4, <1>9, <3>3
      <4>2. i - 1 = j - 1
        BY <1>11, <2>1, <4>1, Zenon
      <4> QED BY <1>4, <4>2
    <3> QED BY <3>1, <3>2, <3>3
  <2> QED BY <1>9, <2>1 DEF IsInjective
<1>13. Listed' = Listed \cup {c}
  <2>1. Listed' \subseteq Listed \cup {c}
    <3>1. ASSUME NEW i \in 1 .. n + 1 PROVE proc_list'[i] \in Listed \cup {c}
      <4>1. i # 1 => i - 1 \in 1 .. n /\ proc_list'[i] = proc_list[i - 1]
        BY <1>4, <1>9
      <4> QED BY <1>9, <4>1 DEF Listed
    <3> QED BY <1>9, <3>1 DEF Listed
  <2>2. c \in Listed'
    BY <1>4, <1>9 DEF Listed
  <2>3. Listed \subseteq Listed'
    <3>1. ASSUME NEW i \in 1 .. n PROVE proc_list[i] \in Listed'
      <4>1. i + 1 \in 1 .. n + 1 /\ proc_list'[i + 1] = proc_list[i]
        BY <1>4, <1>9
      <4> QED BY <1>9, <4>1 DEF Listed
    <3> QED BY <1>9, <3>1 DEF Listed
  <2> QED BY <2>1, <2>2, <2>3
<1>14. \A q \in PROC : fk'[q].child = NULL
  BY <1>0, <1>1, <1>3 DEF NoFork
<1>15. {fk[q].child : q \in PROC} \subseteq {c, NULL} /\ c \in {fk[q].child : q \in PROC}
  BY <1>3 DEF c
<1>16. Listed = {q \in PROC : state[q] # "UNUSED"} \ {c}
  BY <1>15, ProcAssumption DEF ListInv, ListExact
<1>17. Listed' = {q \in PROC : state'[q] # "UNUSED"} \ {fk'[q].child : q \in PROC}
  BY <1>1, <1>2, <1>13, <1>14, <1>16, ProcAssumption DEF c
<1>18. \A q \in PROC : pc'[q] # "fork3"
  BY <1>0, <1>1, <1>3
<1> QED BY <1>12, <1>14, <1>17, <1>18 DEF ListInv, ListExact


(* freeproc takes exactly the reaped child off the list.                   *)
LEMMA ListReap ==
    ASSUME TypeInv, AtomicInv, ListInv, NEW p \in PROC, Wait4Reap(p)
    PROVE  ListInv'
<1>0. /\ pc \in [PROC -> PCs] /\ state \in [PROC -> States] /\ proc_list \in Seq(PROC)
  BY Zenon DEF TypeInv, TypeOK
<1>1. cpu = "proc" /\ cur = p /\ pc[p] \in {"wait4", "wait4_nohang"} /\ fk' = fk
  BY DEF Wait4Reap, Running
<1>2. PICK c \in ZombieChildren(p) :
        \/ /\ proc_list' = Unlink(c)
           /\ state' = [state EXCEPT ![c] = "UNUSED"]
           /\ pc' = [pc EXCEPT ![p] = "utrap", ![c] = "none"]
        \/ /\ pc' = [pc EXCEPT ![p] = "utrap"]
           /\ proc_list' = proc_list /\ state' = state
  BY DEF Wait4Reap, Goto
<1>3. c \in Listed /\ c \in PROC /\ state[c] = "ZOMBIE"
  BY <1>0, ListedType DEF ZombieChildren, Children
<1>4. \A q \in PROC : pc[q] # "fork3"
  BY <1>1, OthersAtRest DEF AtRest
<1>5. \A q \in PROC : pc'[q] # "fork3"
  BY <1>0, <1>2, <1>3, <1>4
<1>6. CASE proc_list' = proc_list /\ state' = state
  BY <1>1, <1>4, <1>5, <1>6, QuietList
<1>7. CASE proc_list' = Unlink(c) /\ state' = [state EXCEPT ![c] = "UNUSED"]
  <2>1. Pos(c) \in 1 .. Len(proc_list) /\ proc_list[Pos(c)] = c
    BY <1>0, <1>3, PosOfListed
  <2>2. IsInjective(proc_list)
    BY DEF ListInv, ListExact
  <2>3. /\ IsInjective(proc_list')
        /\ {proc_list'[j] : j \in DOMAIN proc_list'} =
              {proc_list[j] : j \in DOMAIN proc_list} \ {proc_list[Pos(c)]}
    BY <1>0, <1>7, <2>1, <2>2, WithoutExact, Zenon DEF Unlink
  <2>4. Listed' = Listed \ {c}
    BY <2>1, <2>3, Zenon DEF Listed
  <2>5. {q \in PROC : state'[q] # "UNUSED"} = {q \in PROC : state[q] # "UNUSED"} \ {c}
    BY <1>0, <1>3, <1>7
  <2>6. Listed' = {q \in PROC : state'[q] # "UNUSED"} \ {fk'[q].child : q \in PROC}
    BY <1>1, <2>4, <2>5 DEF ListInv, ListExact
  <2>7. \A q \in PROC : fk'[q].child # NULL <=> pc'[q] = "fork3"
    BY <1>1, <1>4, <1>5 DEF ListInv
  <2> QED BY <1>5, <2>3, <2>6, <2>7 DEF ListInv, ListExact
<1> QED BY <1>2, <1>6, <1>7

(* The other steps of a process neither link nor free one.                 *)
LEMMA ListProc ==
    ASSUME TypeInv, AtomicInv, ListInv, NEW p \in PROC,
           KernelStep(p) \/ Fault(p) \/ \E sc \in Syscalls : Syscall(p, sc)
    PROVE  ListInv'
<1>0. /\ pc \in [PROC -> PCs] /\ state \in [PROC -> States]
      /\ fk \in [PROC -> [pid: Nat, child: PROC \cup {NULL}, next: PROC \cup {NULL}]]
  BY Zenon DEF TypeInv, TypeOK
<1>1. CASE ForkAlloc(p) \/ ForkInsert(p) \/ Wait4Reap(p)
  BY <1>1, ListForkAlloc, ListForkInsert, ListReap
<1> DEFINE Other == \/ UserReturn(p) \/ ForkReadPid(p) \/ Wait4None(p) \/ Wait4Sleep(p)
                    \/ SleepReturn(p) \/ Nanosleep(p) \/ SchedYield(p) \/ Kill(p)
                    \/ ExitReparent(p) \/ ExitWakeup(p) \/ ExitZombie(p) \/ BlockIo(p)
                    \/ BlockIoReturn(p) \/ Fault(p) \/ \E sc \in Syscalls : Syscall(p, sc)
<1>2. ASSUME Other PROVE ListInv'
  <2>1. cpu = "proc" /\ cur = p /\ pc[p] # "fork3"
    BY <1>2, Zenon DEF UserReturn, ForkReadPid, Wait4None, Wait4Sleep, SleepReturn, Nanosleep,
           SchedYield, Kill, ExitReparent, ExitWakeup, ExitZombie, BlockIo, BlockIoReturn,
           Fault, Syscall, Running
  <2>2. state[p] = "RUNNING" /\ \A q \in PROC : pc[q] # "fork3"
    BY <2>1, OthersAtRest DEF AtRest
  <2>3. proc_list' = proc_list
    BY <1>2, Zenon DEF UserReturn, ForkReadPid, Wait4None, Wait4Sleep, SleepReturn, Nanosleep,
           SchedYield, Kill, ExitReparent, ExitWakeup, ExitZombie, BlockIo, BlockIoReturn,
           Fault, Syscall, procVars
  <2>4. \A q \in PROC : fk'[q].child = fk[q].child
    <3>1. CASE ForkReadPid(p)
      BY <1>0, <3>1 DEF ForkReadPid
    <3>2. CASE ~ForkReadPid(p)
      BY <1>2, <3>2, ZenonT(40) DEF UserReturn, Wait4None, Wait4Sleep, SleepReturn, Nanosleep, SchedYield,
             Kill, ExitReparent, ExitWakeup, ExitZombie, BlockIo, BlockIoReturn, Fault, Syscall
    <3> QED BY <3>1, <3>2
  <2>5. \A q \in PROC : pc'[q] # "fork3"
    BY <1>0, <1>2, <2>2, ProcAssumption, ZenonT(40) DEF UserReturn, ForkReadPid, Wait4None, Wait4Sleep,
           SleepReturn, Nanosleep, SchedYield, Kill, ExitReparent, ExitWakeup, ExitZombie,
           BlockIo, BlockIoReturn, Fault, Syscall, Goto
  <2>6. \A q \in PROC : state'[q] = "UNUSED" <=> state[q] = "UNUSED"
    <3>1. CASE Wait4Sleep(p) \/ Nanosleep(p) \/ SchedYield(p)
      BY <1>0, <2>2, <3>1, Zenon DEF Wait4Sleep, Nanosleep, SchedYield, sched
    <3>2. CASE Kill(p)
      BY <1>0, <3>2 DEF Kill, KillWakes
    <3>3. CASE ExitReparent(p) \/ ExitWakeup(p)
      BY <1>0, <3>3, ExitWakesSleepers
    <3>4. CASE ExitZombie(p) \/ BlockIo(p)
      BY <1>0, <2>2, <3>4, ZenonT(40) DEF ExitZombie, BlockIo
    <3>5. CASE \/ UserReturn(p) \/ ForkReadPid(p) \/ Wait4None(p) \/ SleepReturn(p)
               \/ BlockIoReturn(p) \/ Fault(p) \/ \E sc \in Syscalls : Syscall(p, sc)
      BY <3>5 DEF UserReturn, ForkReadPid, Wait4None, SleepReturn, BlockIoReturn, Fault,
             Syscall, procVars
    <3> QED BY <1>2, <3>1, <3>2, <3>3, <3>4, <3>5, ZenonT(40)
  <2> QED BY <2>2, <2>3, <2>4, <2>5, <2>6, QuietList, Zenon
<1> QED BY <1>1, <1>2 DEF KernelStep


-----------------------------------------------------------------------------
(* Sleep and wakeup in wait4.                                              *)

(* A step that makes no zombie, no sleeper and no change to channels and   *)
(* parents keeps WaitInv.                                                  *)
LEMMA QuietWait ==
    ASSUME WaitInv, chan' = chan, parent' = parent,
           \A q \in PROC : state'[q] = "ZOMBIE" <=> state[q] = "ZOMBIE",
           \A q \in PROC : state'[q] = "SLEEPING" => state[q] = "SLEEPING",
           \A q \in PROC : \/ pc'[q] = pc[q]
                           \/ pc[q] \notin {"asleep", "none"} /\ pc'[q] \notin {"waitSleep", "exit3"},
           parent \in [PROC -> PROC \cup {NULL}]
    PROVE  WaitInv'
<1>1. \A q \in PROC : Waiting(q)' => Waiting(q)
  BY DEF Waiting
<1>2. NoLostWakeup'
  BY <1>1 DEF WaitInv, NoLostWakeup, Waiting
<1> QED BY <1>1, <1>2 DEF WaitInv

LEMMA WaitCpu ==
    ASSUME TypeOK, AtomicInv, WaitInv, Arch = "loongarch",
           SchedScan \/ SchedPass \/ Swtch \/ TimerInterrupt \/ DiskComplete \/ DiskInterrupt
    PROVE  WaitInv'
<1>0. /\ pc \in [PROC -> PCs] /\ state \in [PROC -> States]
      /\ parent \in [PROC -> PROC \cup {NULL}]
      /\ cur \in PROC \cup {NULL} /\ cursor \in PROC \cup {NULL}
  BY Zenon DEF TypeOK
<1>1. CASE SchedScan
  <2>1. chan' = chan /\ parent' = parent /\ pc' = pc
    BY <1>1 DEF SchedScan
  <2>2. \A q \in PROC : /\ state'[q] = "ZOMBIE" <=> state[q] = "ZOMBIE"
                        /\ state'[q] = "SLEEPING" => state[q] = "SLEEPING"
    BY <1>0, <1>1 DEF SchedScan, Expired
  <2> QED BY <1>0, <2>1, <2>2, QuietWait
<1>2. CASE SchedPass \/ Swtch \/ DiskComplete
  <2>1. chan' = chan /\ parent' = parent /\ pc' = pc /\ state' = state
    BY <1>2 DEF SchedPass, Swtch, DiskComplete, procVars
  <2> QED BY <1>0, <2>1, QuietWait
<1>3. CASE TimerInterrupt
  BY <1>3, Zenon DEF TimerInterrupt
<1>4. CASE DiskInterrupt
  <2>1. chan' = chan /\ parent' = parent /\ state' = wakeup(Blkreq, state)
    BY <1>4 DEF DiskInterrupt, Endio
  <2>2. \A q \in PROC : /\ state'[q] = "ZOMBIE" <=> state[q] = "ZOMBIE"
                        /\ state'[q] = "SLEEPING" => state[q] = "SLEEPING"
    BY <1>0, <2>1, WakeupKeeps
  <2>3. \A q \in PROC : pc'[q] = pc[q] \/ (pc[q] = "user" /\ pc'[q] = "utrap")
    BY <1>0, <1>4, Zenon DEF DiskInterrupt
  <2> QED BY <1>0, <2>1, <2>2, <2>3, QuietWait
<1> QED BY <1>1, <1>2, <1>3, <1>4

(* After a step of p nobody else is about to sleep or to become a zombie.  *)
LEMMA OthersSettled ==
    ASSUME AtomicInv', NEW p \in PROC, cpu' = "sched" \/ cur' = p
    PROVE  /\ \A q \in PROC \ {p} : pc'[q] # "waitSleep"
           /\ \A q \in PROC \ {p} : pc'[q] = "exit3" => state'[q] = "ZOMBIE"
BY DEF AtomicInv, AtRest

(* wakeup(r) wakes r if r sleeps in wait4: r is on the list.               *)
LEMMA Woken ==
    ASSUME ListInv, state \in [PROC -> States], NEW r \in PROC,
           \A q \in PROC : pc[q] # "fork3", r = cur => state[r] # "SLEEPING"
    PROVE  ~(wakeup(r, state)[r] = "SLEEPING" /\ chan[r] = r)
<1>1. \A q \in PROC : fk[q].child = NULL
  BY DEF ListInv
<1>2. state[r] = "SLEEPING" => r \in Listed
  <2>1. r # NULL
    BY ProcAssumption
  <2> QED BY <1>1, <2>1 DEF ListInv, ListExact
<1> QED BY <1>2 DEF wakeup

(* What is left to show for a step of p that does not go to "waitSleep".   *)
LEMMA WaitStep ==
    ASSUME AtomicInv', NEW p \in PROC, cpu' = "sched" \/ cur' = p,
           \A q \in PROC : chan'[q] = q => pc'[q] \in {"asleep", "none"},
           pc'[p] # "waitSleep", pc'[p] = "exit3" => state'[p] = "ZOMBIE",
           parent' \in [PROC -> PROC \cup {NULL}],
           \A d, r \in PROC : state'[d] = "ZOMBIE" /\ parent'[d] = r => ~Waiting(r)'
    PROVE  WaitInv'
<1>1. NoLostWakeup'
  BY DEF NoLostWakeup, Waiting
<1>2. /\ \A q \in PROC : pc'[q] # "waitSleep"
      /\ \A q \in PROC : pc'[q] = "exit3" => state'[q] = "ZOMBIE"
  BY OthersSettled
<1> QED BY <1>1, <1>2 DEF WaitInv

LEMMA WaitProc ==
    ASSUME TypeInv, AtomicInv, ListInv, WaitInv, AtomicInv', Arch = "loongarch", NEW p \in PROC,
           KernelStep(p) \/ Fault(p) \/ \E sc \in Syscalls : Syscall(p, sc)
    PROVE  WaitInv'
<1>0. /\ pc \in [PROC -> PCs] /\ state \in [PROC -> States]
      /\ parent \in [PROC -> PROC \cup {NULL}] /\ proc_list \in Seq(PROC)
      /\ chan \in [PROC -> PROC \cup {NULL, Blkreq}]
  BY Zenon DEF TypeInv, TypeOK
<1>a. cpu = "proc" /\ cur = p /\ state[p] = "RUNNING"
  <2>1. cpu = "proc" /\ cur = p
    BY Zenon DEF KernelStep, UserReturn, ForkReadPid, ForkAlloc, ForkInsert, Wait4Reap, Wait4None,
           Wait4Sleep, SleepReturn, Nanosleep, SchedYield, Kill, ExitReparent, ExitWakeup,
           ExitZombie, BlockIo, BlockIoReturn, Fault, Syscall, Running
  <2> QED BY <2>1, OthersAtRest
<1>b. \A q \in PROC : chan[q] = q => pc[q] \in {"asleep", "none"}
  BY Zenon DEF WaitInv
<1>c. /\ p \notin {NULL, Blkreq} /\ NULL \notin PROC /\ init_proc \in PROC
      /\ \A q \in PROC : q # Blkreq
  BY ProcAssumption
<1>d. \A d, r \in PROC : state[d] = "ZOMBIE" /\ parent[d] = r => ~Waiting(r)
  BY <1>c DEF WaitInv, NoLostWakeup, Waiting
<1>1. CASE \E sc \in Syscalls : Syscall(p, sc)
  <2>1. /\ chan' = chan /\ parent' = parent /\ state' = state /\ pc[p] = "user"
        /\ \A q \in PROC : pc'[q] = pc[q] \/ (q = p /\ pc'[q] \in Syscalls \cup {"exit"})
    BY <1>0, <1>1 DEF Syscall, Goto, procVars, Running
  <2> QED BY <1>0, <2>1, QuietWait, ProcAssumption
<1>2. CASE Fault(p) \/ UserReturn(p) \/ ForkReadPid(p) \/ ForkInsert(p)
  <2>1. /\ chan' = chan /\ parent' = parent /\ state' = state /\ pc[p] \notin {"asleep", "none"}
        /\ \A q \in PROC : \/ pc'[q] = pc[q]
                           \/ q = p /\ pc'[q] \in {"exit", "user", "fork2", "utrap"}
    BY <1>0, <1>2, Zenon DEF Fault, UserReturn, ForkReadPid, ForkInsert, Goto, procVars, Running
  <2> QED BY <1>0, <2>1, QuietWait
<1>3. CASE SchedYield(p)
  <2>1. /\ chan' = chan /\ parent' = parent /\ pc' = [pc EXCEPT ![p] = "utrap"]
        /\ pc[p] = "sched_yield" /\ state' = [state EXCEPT ![p] = "RUNNABLE"]
    BY <1>3, Zenon DEF SchedYield, sched, Goto, Running
  <2> QED BY <1>0, <1>a, <2>1, QuietWait
<1>4. CASE Kill(p)
  <2>1. /\ chan' = chan /\ parent' = parent /\ pc' = [pc EXCEPT ![p] = "utrap"]
        /\ pc[p] = "kill"
    BY <1>4 DEF Kill, Goto, Running
  <2>2. \A q \in PROC : /\ state'[q] = "ZOMBIE" <=> state[q] = "ZOMBIE"
                        /\ state'[q] = "SLEEPING" => state[q] = "SLEEPING"
    BY <1>0, <1>4 DEF Kill, KillWakes
  <2> QED BY <1>0, <2>1, <2>2, QuietWait

<1>5. CASE ForkAlloc(p)
  <2>1. PICK c \in PROC : /\ state' = [state EXCEPT ![c] = "RUNNABLE"]
                          /\ chan' = [chan EXCEPT ![c] = NULL]
                          /\ parent' = [parent EXCEPT ![c] = p]
                          /\ pc' = [pc EXCEPT ![c] = "dive", ![p] = "fork3"]
    BY <1>5, Zenon DEF ForkAlloc, ChildParent
  <2>2. cur' = p /\ pc[p] = "fork2"
    BY <1>5 DEF ForkAlloc, Running, cpuVars
  <2>3. \A q \in PROC : chan'[q] = q => pc'[q] \in {"asleep", "none"}
    BY <1>0, <1>b, <1>c, <2>1, <2>2
  <2>4. \A d, r \in PROC : state'[d] = "ZOMBIE" /\ parent'[d] = r => ~Waiting(r)'
    BY <1>0, <1>d, <2>1 DEF Waiting
  <2>5. parent' \in [PROC -> PROC \cup {NULL}] /\ pc'[p] = "fork3"
    BY <1>0, <2>1, Zenon
  <2> QED BY <2>2, <2>3, <2>4, <2>5, WaitStep, Zenon
<1>6. CASE Wait4Reap(p)
  <2>1. PICK c \in PROC : /\ state[c] = "ZOMBIE"
                          /\ \/ /\ state' = [state EXCEPT ![c] = "UNUSED"]
                                /\ pc' = [pc EXCEPT ![p] = "utrap", ![c] = "none"]
                                /\ parent' = [parent EXCEPT ![c] = NULL]
                             \/ /\ pc' = [pc EXCEPT ![p] = "utrap"]
                                /\ state' = state /\ parent' = parent
    BY <1>0, <1>6, ListedType DEF Wait4Reap, ZombieChildren, Children, Goto
  <2>2. cur' = p /\ chan' = chan /\ pc[p] \in {"wait4", "wait4_nohang"}
    BY <1>6 DEF Wait4Reap, Running, cpuVars
  <2>3. c # p /\ pc'[p] = "utrap"
    BY <1>0, <1>a, <2>1
  <2>4. \A q \in PROC : chan'[q] = q => pc'[q] \in {"asleep", "none"}
    BY <1>0, <1>b, <2>1, <2>2
  <2>5. \A d, r \in PROC : state'[d] = "ZOMBIE" /\ parent'[d] = r => ~Waiting(r)'
    BY <1>0, <1>c, <1>d, <2>1, <2>2 DEF Waiting
  <2>6. parent' \in [PROC -> PROC \cup {NULL}]
    BY <1>0, <2>1, Zenon
  <2> QED BY <2>2, <2>3, <2>4, <2>5, <2>6, WaitStep
<1>7. CASE Wait4None(p)
  <2>1. /\ state' = state /\ chan' = chan /\ parent' = parent /\ cur' = p
        /\ pc[p] \in {"wait4", "wait4_nohang"} /\ ZombieChildren(p) = {}
        /\ \E to \in {"utrap", "waitSleep"} : pc' = [pc EXCEPT ![p] = to]
    BY <1>7, ZenonT(40) DEF Wait4None, Running, Goto, procVars, cpuVars
  <2>2. \A c \in PROC : parent[c] = p => state[c] # "ZOMBIE"
    <3>1. \A q \in PROC : fk[q].child = NULL
      BY <1>a, <2>1, OthersAtRest, ZenonT(40) DEF ListInv, AtRest
    <3>2. \A c \in PROC : state[c] = "ZOMBIE" => c \in Listed
      BY <1>c, <3>1, ZenonT(40) DEF ListInv, ListExact
    <3> QED BY <2>1, <3>2 DEF ZombieChildren, Children
  <2>3. \A q \in PROC : chan'[q] = q => pc'[q] \in {"asleep", "none"}
    BY <1>0, <1>b, <2>1
  <2>4. NoLostWakeup'
    BY <2>1, Zenon DEF NoLostWakeup, WaitInv
  <2>5. \A q \in PROC \ {p} : pc'[q] # "waitSleep" /\ (pc'[q] = "exit3" => state'[q] = "ZOMBIE")
    BY <2>1, OthersSettled
  <2>6. pc'[p] # "exit3"
    BY <1>0, <2>1
  <2> QED BY <2>1, <2>2, <2>3, <2>4, <2>5, <2>6 DEF WaitInv
<1>8. CASE Wait4Sleep(p)
  <2>1. /\ pc' = [pc EXCEPT ![p] = "asleep"] /\ pc[p] = "waitSleep" /\ parent' = parent
        /\ chan' = [chan EXCEPT ![p] = p] /\ sched([state EXCEPT ![p] = "SLEEPING"])
    BY <1>8 DEF Wait4Sleep, Running, Goto
  <2>2. state' = [state EXCEPT ![p] = "SLEEPING"] /\ cpu' = "sched"
    BY <2>1, SchedSwitches DEF Masked
  <2>3. \A q \in PROC : chan'[q] = q => pc'[q] \in {"asleep", "none"}
    BY <1>0, <1>b, <2>1, Zenon
  <2>4. \A d \in PROC : parent[d] = p => state[d] # "ZOMBIE"
    BY <2>1, Zenon DEF WaitInv
  <2>5. \A d, r \in PROC : state'[d] = "ZOMBIE" /\ parent'[d] = r => ~Waiting(r)'
    BY <1>0, <1>d, <2>1, <2>2, <2>4 DEF Waiting
  <2>6. pc'[p] = "asleep"
    BY <1>0, <2>1
  <2> QED BY <1>0, <2>1, <2>2, <2>3, <2>5, <2>6, WaitStep
<1>9. CASE SleepReturn(p) \/ BlockIoReturn(p)
  <2>1. /\ state' = state /\ parent' = parent /\ cur' = p /\ chan' = [chan EXCEPT ![p] = NULL]
        /\ \E to \in {"wait4", "utrap"} : pc' = [pc EXCEPT ![p] = to]
    BY <1>a, <1>9 DEF SleepReturn, BlockIoReturn, Goto
  <2>2. \A q \in PROC : chan'[q] = q => pc'[q] \in {"asleep", "none"}
    BY <1>0, <1>b, <1>c, <2>1
  <2>3. \A d, r \in PROC : state'[d] = "ZOMBIE" /\ parent'[d] = r => ~Waiting(r)'
    BY <1>0, <1>c, <1>d, <2>1 DEF Waiting
  <2>4. pc'[p] \in {"wait4", "utrap"}
    BY <1>0, <2>1
  <2> QED BY <1>0, <2>1, <2>2, <2>3, <2>4, WaitStep
<1>10. CASE Nanosleep(p)
  <2>1. /\ pc' = [pc EXCEPT ![p] = "utrap"] /\ pc[p] = "nanosleep" /\ parent' = parent
        /\ chan' = chan /\ sched([state EXCEPT ![p] = "SLEEPING"])
    BY <1>10 DEF Nanosleep, Running, Goto
  <2>2. state' = [state EXCEPT ![p] = "SLEEPING"] /\ cpu' = "sched"
    BY <2>1, SchedSwitches DEF Masked
  <2>3. chan[p] # p /\ pc'[p] = "utrap"
    BY <1>0, <1>b, <2>1
  <2>4. \A q \in PROC : chan'[q] = q => pc'[q] \in {"asleep", "none"}
    BY <1>0, <1>b, <2>1, <2>3
  <2>5. \A d, r \in PROC : state'[d] = "ZOMBIE" /\ parent'[d] = r => ~Waiting(r)'
    BY <1>0, <1>d, <2>1, <2>2, <2>3 DEF Waiting
  <2> QED BY <1>0, <2>1, <2>2, <2>3, <2>4, <2>5, WaitStep
<1>11. CASE ExitReparent(p) \/ ExitWakeup(p)
  <2>1. chan' = chan /\ cur' = p /\ pc[p] \in {"exit", "exit2"} /\ \A q \in PROC : pc[q] # "fork3"
    BY <1>a, <1>11, OthersAtRest, ZenonT(40) DEF ExitReparent, ExitWakeup, Running, cpuVars, AtRest
  <2>2. \A q \in PROC : /\ state'[q] = "ZOMBIE" => state[q] = "ZOMBIE"
                        /\ state'[q] = "SLEEPING" => state[q] = "SLEEPING"
    BY <1>0, <1>11, ExitWakesSleepers
  <2>3. \A r \in PROC : Waiting(r)' => Waiting(r)
    BY <2>1, <2>2 DEF Waiting
  <2>4. \A r \in PROC : state' = wakeup(r, state) => ~Waiting(r)'
    BY <1>0, <1>a, <2>1, Woken DEF Waiting
  <2>5. CASE ExitReparent(p)
    <3>1. /\ parent' = [c \in PROC |-> IF c \in Children(p) THEN init_proc ELSE parent[c]]
          /\ Children(p) # {} => state' = wakeup(init_proc, state)
          /\ pc' = [pc EXCEPT ![p] = "exit2"]
      BY <2>5 DEF ExitReparent, Reparented, ReparentWakes, Goto
    <3>2. \A d, r \in PROC : state'[d] = "ZOMBIE" /\ parent'[d] = r => ~Waiting(r)'
      BY <1>c, <1>d, <2>2, <2>3, <2>4, <3>1, Zenon
    <3>3. parent' \in [PROC -> PROC \cup {NULL}] /\ pc'[p] = "exit2"
      BY <1>0, <1>c, <3>1
    <3>4. \A q \in PROC : chan'[q] = q => pc'[q] \in {"asleep", "none"}
      BY <1>0, <1>b, <2>1, <3>1, Zenon
    <3> QED BY <2>1, <3>2, <3>3, <3>4, WaitStep, Zenon
  <2>6. CASE ExitWakeup(p)
    <3>1. parent' = parent /\ state' = wakeup(parent[p], state) /\ pc' = [pc EXCEPT ![p] = "exit3"]
      BY <2>6 DEF ExitWakeup, ExitWakes, Goto
    <3>2. NoLostWakeup'
      BY <1>0, <1>d, <2>2, <2>3, <3>1, ZenonT(40) DEF NoLostWakeup, Waiting
    <3>3. parent'[p] # NULL => ~Waiting(parent[p])'
      BY <1>0, <2>4, <3>1
    <3>4. \A q \in PROC : chan'[q] = q => pc'[q] \in {"asleep", "none"}
      BY <1>0, <1>b, <2>1, <3>1
    <3>5. \A q \in PROC \ {p} : pc'[q] # "waitSleep" /\ (pc'[q] = "exit3" => state'[q] = "ZOMBIE")
      BY <2>1, OthersSettled, Zenon
    <3>6. pc'[p] = "exit3"
      BY <1>0, <3>1
    <3>7. \A q \in PROC : pc'[q] = "exit3" /\ state'[q] # "ZOMBIE" /\ parent'[q] # NULL =>
             ~(state'[parent'[q]] = "SLEEPING" /\ chan'[parent'[q]] = parent'[q])
      BY <3>1, <3>3, <3>5, Zenon DEF Waiting
    <3> QED BY <3>2, <3>4, <3>5, <3>6, <3>7 DEF WaitInv, Waiting
  <2> QED BY <1>11, <2>5, <2>6
<1>12. CASE ExitZombie(p)
  <2>1. /\ state' = [state EXCEPT ![p] = "ZOMBIE"] /\ chan' = chan /\ parent' = parent
        /\ pc' = pc /\ pc[p] = "exit3" /\ cpu' = "sched"
    BY <1>12 DEF ExitZombie, ToScheduler, Running
  <2>2. parent[p] # NULL => ~Waiting(parent[p])
    BY <1>a, <2>1, Zenon DEF WaitInv
  <2>3. \A d, r \in PROC : state'[d] = "ZOMBIE" /\ parent'[d] = r => ~Waiting(r)'
    BY <1>0, <1>c, <1>d, <2>1, <2>2 DEF Waiting
  <2>4. state'[p] = "ZOMBIE"
    BY <1>0, <2>1
  <2> QED BY <1>0, <1>b, <2>1, <2>3, <2>4, WaitStep
<1>13. CASE BlockIo(p)
  <2>1. CASE disk.holder = NULL
    <3>1. /\ state' = [state EXCEPT ![p] = "SLEEPING"] /\ chan' = [chan EXCEPT ![p] = Blkreq]
          /\ parent' = parent /\ pc' = [pc EXCEPT ![p] = "ioWait"] /\ cpu' = "sched"
          /\ pc[p] = "io"
      BY <1>13, <2>1 DEF BlockIo, ToScheduler, Goto, Running
    <3>2. \A q \in PROC : chan'[q] = q => pc'[q] \in {"asleep", "none"}
      BY <1>0, <1>b, <1>c, <3>1
    <3>3. \A d, r \in PROC : state'[d] = "ZOMBIE" /\ parent'[d] = r => ~Waiting(r)'
      BY <1>0, <1>c, <1>d, <3>1 DEF Waiting
    <3>4. pc'[p] = "ioWait"
      BY <1>0, <3>1
    <3> QED BY <1>0, <3>1, <3>2, <3>3, <3>4, WaitStep
  <2>2. CASE disk.holder # NULL
    <3>1. chan' = chan /\ parent' = parent /\ state' = state /\ pc' = pc
      BY <1>13, <2>2, Zenon DEF BlockIo
    <3> QED BY <1>0, <3>1, QuietWait
  <2> QED BY <2>1, <2>2
<1> QED BY <1>1, <1>2, <1>3, <1>4, <1>5, <1>6, <1>7, <1>8, <1>9, <1>10, <1>11, <1>12, <1>13 DEF KernelStep


-----------------------------------------------------------------------------
LEMMA InitInv == Init => IInv
<1> SUFFICES ASSUME Init PROVE IInv
  OBVIOUS
<1>1. TypeInv
  BY InitType DEF Init, TypeInv, Pending
<1>2. AtomicInv
  BY DEF Init, AtomicInv, AtRest, Masked
<1>3. ListInv
  <2>1. Listed = {init_proc} /\ IsInjective(proc_list)
    BY DEF Init, Listed, IsInjective
  <2>2. /\ \A q \in PROC : fk[q].child = NULL /\ pc[q] # "fork3"
        /\ {p \in PROC : state[p] # "UNUSED"} = {init_proc}
    BY ProcAssumption DEF Init, NoFork
  <2>3. ListExact
    BY <2>1, <2>2, ProcAssumption DEF ListExact
  <2> QED BY <2>2, <2>3 DEF ListInv
<1>4. WaitInv
  BY ProcAssumption DEF Init, WaitInv, NoLostWakeup
<1> QED BY <1>1, <1>2, <1>3, <1>4 DEF IInv

LEMMA StutterInv == ASSUME IInv, UNCHANGED vars PROVE IInv'
<1>1. TypeInv'
  BY StutterType, Zenon DEF IInv
<1>2. AtomicInv' /\ ListInv' /\ WaitInv'
  BY DEF IInv, AtomicInv, ListInv, WaitInv, ListExact, Listed, NoLostWakeup, Waiting,
         vars, procVars, cpuVars
<1> QED BY <1>1, <1>2 DEF IInv

LEMMA NextInv == ASSUME Arch = "loongarch", IInv, Next PROVE IInv'
<1>1. TypeInv'
  BY NextType, NextPending DEF IInv, TypeInv
<1>2. CASE SchedScan \/ SchedPass \/ Swtch \/ TimerInterrupt \/ DiskComplete \/ DiskInterrupt
  BY <1>1, <1>2, AtomicCpu, ListCpu, WaitCpu DEF IInv, TypeInv
<1>3. ASSUME NEW p \in PROC, KernelStep(p) \/ Fault(p) \/ \E sc \in Syscalls : Syscall(p, sc)
      PROVE  IInv'
  <2>1. AtomicInv'
    BY <1>3, AtomicProc DEF IInv
  <2>2. ListInv'
    BY <1>3, ListProc DEF IInv
  <2>3. WaitInv'
    BY <1>3, <2>1, WaitProc DEF IInv
  <2> QED BY <1>1, <2>1, <2>2, <2>3 DEF IInv
<1> QED BY <1>2, <1>3 DEF Next, CpuStep, UserStep, Timer, DiskIrq, Device

LEMMA Invariance == ASSUME Arch = "loongarch" PROVE Spec => []IInv
<1>1. Init => IInv
  BY InitInv
<1>2. IInv /\ [Next]_vars => IInv'
  BY NextInv, StutterInv
<1> QED BY <1>1, <1>2, PTL DEF Spec

(* Without preemption sleep() and wakeup() need no lock ("no need to worry *)
(* about Lost Wakeup", proc.c): on LoongArch, whatever the number of       *)
(* processes and the system calls they make, nobody sleeps in wait4 with a *)
(* zombie child.                                                           *)
THEOREM LoongArchNoLostWakeup == ASSUME Arch = "loongarch" PROVE Spec => []NoLostWakeup
<1>1. IInv => NoLostWakeup
  BY DEF IInv, WaitInv
<1> QED BY <1>1, Invariance, PTL

(* On LoongArch fork and freeproc keep proc_list exact: it links every     *)
(* allocated process once, but for the child that a running fork is about  *)
(* to link.                                                                *)
THEOREM LoongArchListExact == ASSUME Arch = "loongarch" PROVE Spec => []ListExact
<1>1. IInv => ListExact
  BY Zenon DEF IInv, ListInv
<1> QED BY <1>1, Invariance, PTL

-----------------------------------------------------------------------------
(* Families, pids and the reasons to stop.                                 *)

(* A process that has left do_exit's reparent has no children, so freeing  *)
(* it leaves no child behind; pids in use are below next_pid, which only   *)
(* one fork at a time has read.                                            *)
FamInv ==
    /\ state[init_proc] # "UNUSED" /\ parent[init_proc] = NULL
    /\ \A p \in PROC : parent[p] # NULL => state[parent[p]] # "UNUSED"
    /\ \A p \in PROC : state[p] = "UNUSED" => parent[p] = NULL
    /\ \A p \in PROC : pc[p] \in {"exit2", "exit3"} /\ p # init_proc =>
          \A c \in PROC : parent[c] # p
    /\ \A p \in PROC : state[p] # "UNUSED" => pid[p] < next_pid
    /\ \A p \in PROC : pc[p] = "fork2" => fk[p].pid = next_pid
    /\ UniquePid

(* The only thing that stops the kernel on LoongArch.                      *)
HaltInv == halt \in {"no", "lock held"}

(* A step that starts no fork and no exit and frees nobody keeps FamInv.   *)
LEMMA QuietFam ==
    ASSUME FamInv, parent' = parent, pid' = pid, next_pid' = next_pid,
           \A q \in PROC : state'[q] = "UNUSED" <=> state[q] = "UNUSED",
           \A q \in PROC : pc'[q] \in {"exit2", "exit3"} => pc[q] \in {"exit2", "exit3"},
           \A q \in PROC : pc'[q] = "fork2" => pc[q] = "fork2" /\ fk'[q].pid = fk[q].pid,
           parent \in [PROC -> PROC \cup {NULL}]
    PROVE  FamInv'
<1>1. UniquePid'
  BY Zenon DEF FamInv, UniquePid
<1> QED BY <1>1, ProcAssumption DEF FamInv

LEMMA FamCpu ==
    ASSUME IInv, FamInv, HaltInv, Arch = "loongarch",
           SchedScan \/ SchedPass \/ Swtch \/ TimerInterrupt \/ DiskComplete \/ DiskInterrupt
    PROVE  FamInv' /\ HaltInv'
<1>0. /\ pc \in [PROC -> PCs] /\ state \in [PROC -> States] /\ cursor \in PROC \cup {NULL}
      /\ parent \in [PROC -> PROC \cup {NULL}]
  BY Zenon DEF IInv, TypeInv, TypeOK
<1>1. ~TimerInterrupt
  BY DEF TimerInterrupt
<1>2. parent' = parent /\ pid' = pid /\ next_pid' = next_pid /\ fk' = fk /\ halt' = halt
  BY <1>1 DEF SchedScan, SchedPass, Swtch, DiskComplete, DiskInterrupt, procVars
<1>3. \A q \in PROC : pc'[q] = pc[q] \/ pc'[q] = "utrap"
  BY <1>0, <1>1 DEF SchedScan, SchedPass, Swtch, DiskComplete, DiskInterrupt
<1>4. \A q \in PROC : state'[q] = "UNUSED" <=> state[q] = "UNUSED"
  BY <1>0, <1>1, WakeupKeeps DEF SchedScan, Expired, SchedPass, Swtch, DiskComplete, DiskInterrupt, Endio, procVars
<1>5. FamInv'
  BY <1>0, <1>2, <1>3, <1>4, QuietFam
<1> QED BY <1>2, <1>5, ZenonT(40) DEF HaltInv

LEMMA FamFork ==
    ASSUME IInv, FamInv, HaltInv, NEW p \in PROC, ForkReadPid(p) \/ ForkAlloc(p) \/ ForkInsert(p)
    PROVE  FamInv' /\ HaltInv'
<1>0. /\ pc \in [PROC -> PCs] /\ state \in [PROC -> States] /\ next_pid \in Nat
      /\ pid \in [PROC -> Nat] /\ parent \in [PROC -> PROC \cup {NULL}]
      /\ fk \in [PROC -> [pid: Nat, child: PROC \cup {NULL}, next: PROC \cup {NULL}]]
      /\ AtomicInv /\ ListInv /\ init_proc \in PROC /\ NULL \notin PROC
  BY ProcAssumption, Zenon DEF IInv, TypeInv, TypeOK
<1>1. cpu = "proc" /\ cur = p
  BY Zenon DEF ForkReadPid, ForkAlloc, ForkInsert, Running
<1>2. state[p] = "RUNNING" /\ \A q \in PROC \ {p} : pc[q] # "fork2"
  BY <1>0, <1>1, OthersAtRest DEF AtRest
<1>3. CASE ForkReadPid(p)
  <2>1. /\ fk' = [fk EXCEPT ![p].pid = next_pid] /\ pc' = [pc EXCEPT ![p] = "fork2"]
        /\ UNCHANGED <<state, parent, pid, next_pid, halt>>
    BY <1>3 DEF ForkReadPid, Goto, procVars
  <2>2. \A q \in PROC : pc'[q] = "fork2" => fk'[q].pid = next_pid
    BY <1>0, <1>2, <2>1
  <2>3. \A q \in PROC : pc'[q] \in {"exit2", "exit3"} => pc[q] \in {"exit2", "exit3"}
    BY <1>0, <2>1
  <2>4. UniquePid'
    BY <2>1 DEF FamInv, UniquePid
  <2> QED BY <2>1, <2>2, <2>3, <2>4, ZenonT(40) DEF FamInv, HaltInv
<1>4. CASE ForkAlloc(p)
  <2>1. PICK c \in PROC :
          /\ state[c] = "UNUSED" /\ next_pid' = fk[p].pid + 1
          /\ pid' = [pid EXCEPT ![c] = fk[p].pid]
          /\ state' = [state EXCEPT ![c] = "RUNNABLE"]
          /\ parent' = [parent EXCEPT ![c] = p]
          /\ pc' = [pc EXCEPT ![c] = "dive", ![p] = "fork3"]
          /\ fk' = [fk EXCEPT ![p].child = c, ![p].next = ListHead]
    BY <1>4, Zenon DEF ForkAlloc, NextPid, ChildParent
  <2>2. fk[p].pid = next_pid /\ halt' = halt
    BY <1>4 DEF FamInv, ForkAlloc, Running
  <2>3. c # init_proc /\ c # p /\ \A q \in PROC : parent[q] # c
    BY <1>0, <1>2, <2>1 DEF FamInv
  <2>4. \A q \in PROC : state'[q] # "UNUSED" => pid'[q] < next_pid'
    <3>1. \A q \in PROC \ {c} : state[q] # "UNUSED" => pid[q] < next_pid
      BY Zenon DEF FamInv
    <3> QED BY <1>0, <2>1, <2>2, <3>1
  <2>5. UniquePid'
    <3>1. \A q \in PROC \ {c} : state[q] # "UNUSED" => pid[q] # next_pid
      BY <1>0 DEF FamInv
    <3>2. \A q, r \in PROC \ {c} : state[q] # "UNUSED" /\ state[r] # "UNUSED" /\ q # r => pid[q] # pid[r]
      BY Zenon DEF FamInv, UniquePid
    <3>3. pid'[c] = next_pid /\ \A q \in PROC \ {c} : pid'[q] = pid[q] /\ state'[q] = state[q]
      BY <1>0, <2>1, <2>2
    <3>4. ASSUME NEW q \in PROC, NEW r \in PROC, q # r,
                 state'[q] # "UNUSED", state'[r] # "UNUSED"
          PROVE  pid'[q] # pid'[r]
      <4>1. CASE q = c
        BY <3>1, <3>3, <3>4, <4>1
      <4>2. CASE r = c
        BY <3>1, <3>3, <3>4, <4>2
      <4>3. CASE q # c /\ r # c
        <5>1. q \in PROC \ {c} /\ r \in PROC \ {c}
          BY <4>3
        <5> QED BY <3>2, <3>3, <3>4, <5>1
      <4> QED BY <4>1, <4>2, <4>3
    <3> QED BY <3>4, Zenon DEF UniquePid
  <2>6. \A q \in PROC : pc'[q] # "fork2"
    BY <1>0, <1>2, <2>1
  <2>7. \A q \in PROC : pc'[q] \in {"exit2", "exit3"} => q # p /\ pc[q] \in {"exit2", "exit3"}
    BY <1>0, <2>1
  <2>8. \A q \in PROC : parent'[q] = IF q = c THEN p ELSE parent[q]
    BY <1>0, <2>1
  <2>9. \A q \in PROC : state'[q] = IF q = c THEN "RUNNABLE" ELSE state[q]
    BY <1>0, <2>1, Zenon
  <2>10. \A q \in PROC : parent'[q] # NULL => state'[parent'[q]] # "UNUSED"
    BY <1>0, <1>2, <2>3, <2>8, <2>9 DEF FamInv
  <2>11. \A q \in PROC : pc'[q] \in {"exit2", "exit3"} /\ q # init_proc => \A d \in PROC : parent'[d] # q
    BY <2>7, <2>8, ZenonT(40) DEF FamInv
  <2>12. state'[init_proc] # "UNUSED" /\ parent'[init_proc] = NULL
    BY <1>0, <2>3, <2>8, <2>9, Zenon DEF FamInv
  <2>13. \A q \in PROC : state'[q] = "UNUSED" => parent'[q] = NULL
    BY <2>8, <2>9, Zenon DEF FamInv
  <2>14. FamInv'
    BY <2>4, <2>5, <2>6, <2>10, <2>11, <2>12, <2>13, Zenon DEF FamInv
  <2> QED BY <2>2, <2>14, ZenonT(40) DEF HaltInv
<1>5. CASE ForkInsert(p)
  <2>1. /\ pc[p] = "fork3" /\ pc' = [pc EXCEPT ![p] = "utrap"]
        /\ fk' = [fk EXCEPT ![p] = NoFork] /\ UNCHANGED <<state, parent, pid, next_pid>>
    BY <1>5, Zenon DEF ForkInsert, Running, Goto
  <2>2. FamInv'
    BY <1>0, <2>1, QuietFam
  <2>3. fk[p].next \in Listed
    <3>1. proc_list # <<>> /\ fk[p].next = Head(proc_list) /\ proc_list \in Seq(PROC)
      BY <1>0, <2>1, Zenon DEF ListInv, IInv, TypeInv, TypeOK
    <3>2. 1 \in DOMAIN proc_list /\ Head(proc_list) = proc_list[1]
      BY <3>1
    <3> QED BY <3>1, <3>2 DEF Listed
  <2> QED BY <1>5, <2>2, <2>3, ZenonT(40) DEF HaltInv, ForkInsert
<1> QED BY <1>3, <1>4, <1>5

LEMMA FamReap ==
    ASSUME IInv, FamInv, BirthInv, HaltInv, NEW p \in PROC, Wait4Reap(p)
    PROVE  FamInv' /\ HaltInv'
<1>0. /\ pc \in [PROC -> PCs] /\ state \in [PROC -> States] /\ proc_list \in Seq(PROC)
      /\ pid \in [PROC -> Nat] /\ parent \in [PROC -> PROC \cup {NULL}]
      /\ init_proc \in PROC /\ NULL \notin PROC
  BY ProcAssumption, Zenon DEF IInv, TypeInv, TypeOK
<1>1. fk' = fk /\ halt' = halt /\ next_pid' = next_pid
  BY DEF Wait4Reap
<1>2. PICK c \in PROC :
        /\ state[c] = "ZOMBIE" /\ parent[c] = p
        /\ \/ /\ state' = [state EXCEPT ![c] = "UNUSED"]
              /\ pc' = [pc EXCEPT ![p] = "utrap", ![c] = "none"]
              /\ parent' = [parent EXCEPT ![c] = NULL] /\ pid' = [pid EXCEPT ![c] = 0]
           \/ /\ state' = state /\ pc' = [pc EXCEPT ![p] = "utrap"]
              /\ parent' = parent /\ pid' = pid
  BY <1>0, ListedType, Zenon DEF Wait4Reap, ZombieChildren, Children, Goto
<1>3. \A q \in PROC : pc'[q] = pc[q] \/ pc'[q] \in {"utrap", "none"}
  BY <1>0, <1>2, Zenon
<1>4. CASE state' = state /\ pc' = [pc EXCEPT ![p] = "utrap"] /\ parent' = parent /\ pid' = pid
  <2>1. FamInv'
    BY <1>0, <1>1, <1>3, <1>4, QuietFam
  <2> QED BY <1>1, <2>1, Zenon DEF HaltInv
<1>5. CASE /\ state' = [state EXCEPT ![c] = "UNUSED"]
           /\ pc' = [pc EXCEPT ![p] = "utrap", ![c] = "none"]
           /\ parent' = [parent EXCEPT ![c] = NULL] /\ pid' = [pid EXCEPT ![c] = 0]
  <2>1. c # init_proc /\ \A d \in PROC : parent[d] # c
    BY <1>0, <1>2 DEF FamInv, BirthInv
  <2>2. /\ state'[c] = "UNUSED" /\ parent'[c] = NULL
        /\ \A q \in PROC \ {c} : state'[q] = state[q] /\ parent'[q] = parent[q] /\ pid'[q] = pid[q]
    BY <1>0, <1>5
  <2>3. UniquePid'
    <3>1. UniquePid
      BY Zenon DEF FamInv
    <3>2. \A q \in PROC : state'[q] # "UNUSED" => q \in PROC \ {c}
      BY <2>2
    <3> QED BY <2>2, <3>1, <3>2 DEF UniquePid
  <2>4. \A q \in PROC : parent'[q] # NULL => state'[parent'[q]] # "UNUSED"
    <3> SUFFICES ASSUME NEW q \in PROC, parent'[q] # NULL PROVE state'[parent'[q]] # "UNUSED"
      OBVIOUS
    <3>1. q # c
      BY <2>2
    <3>2. parent'[q] = parent[q] /\ parent[q] # NULL
      BY <2>2, <3>1
    <3>3. parent[q] \in PROC \ {c}
      BY <1>0, <2>1, <3>2
    <3>4. state[parent[q]] # "UNUSED"
      BY <3>2, Zenon DEF FamInv
    <3> QED BY <2>2, <3>2, <3>3, <3>4
  <2>5. \A q \in PROC : pc'[q] \in {"exit2", "exit3"} /\ q # init_proc => \A d \in PROC : parent'[d] # q
    <3> SUFFICES ASSUME NEW q \in PROC, pc'[q] \in {"exit2", "exit3"}, q # init_proc, NEW d \in PROC
                 PROVE  parent'[d] # q
      OBVIOUS
    <3>1. pc[q] \in {"exit2", "exit3"}
      BY <1>3
    <3>2. parent[d] # q
      BY <3>1, Zenon DEF FamInv
    <3> QED BY <1>0, <2>2, <3>2, Zenon
  <2>6. \A q \in PROC : state'[q] # "UNUSED" => pid'[q] < next_pid'
    BY <1>1, <2>2 DEF FamInv
  <2>7. \A q \in PROC : pc'[q] = "fork2" => fk'[q].pid = next_pid'
    BY <1>1, <1>3 DEF FamInv
  <2>8. /\ state'[init_proc] # "UNUSED" /\ parent'[init_proc] = NULL
        /\ \A q \in PROC : state'[q] = "UNUSED" => parent'[q] = NULL
    BY <1>0, <2>1, <2>2, ZenonT(40) DEF FamInv
  <2>9. FamInv'
    BY <2>3, <2>4, <2>5, <2>6, <2>7, <2>8, Zenon DEF FamInv
  <2> QED BY <1>1, <2>9, Zenon DEF HaltInv
<1> QED BY <1>2, <1>4, <1>5

(* do_exit: nobody is in the middle of fork, so the list has every child   *)
(* and reparent leaves none behind.                                        *)
LEMMA FamExit ==
    ASSUME IInv, FamInv, HaltInv, NEW p \in PROC, ExitReparent(p) \/ ExitWakeup(p)
    PROVE  FamInv' /\ HaltInv'
<1>0. /\ pc \in [PROC -> PCs] /\ state \in [PROC -> States] /\ AtomicInv /\ ListInv
      /\ parent \in [PROC -> PROC \cup {NULL}] /\ init_proc \in PROC /\ NULL \notin PROC
  BY ProcAssumption, Zenon DEF IInv, TypeInv, TypeOK
<1>1. cpu = "proc" /\ cur = p /\ pc[p] \in {"exit", "exit2"}
  BY DEF ExitReparent, ExitWakeup, Running
<1>2. \A q \in PROC : pc[q] # "fork3"
  BY <1>0, <1>1, OthersAtRest DEF AtRest
<1>3. \A q \in PROC : state'[q] = "UNUSED" <=> state[q] = "UNUSED"
  BY <1>0, ExitWakesSleepers
<1>4. pid' = pid /\ next_pid' = next_pid /\ fk' = fk /\ halt' = halt
  BY DEF ExitReparent, ExitWakeup
<1>5. CASE ExitWakeup(p)
  <2>1. parent' = parent /\ pc' = [pc EXCEPT ![p] = "exit3"] /\ pc[p] = "exit2"
    BY <1>5 DEF ExitWakeup, Goto, Running
  <2>2. \A q \in PROC : pc'[q] = pc[q] \/ (pc'[q] = "exit3" /\ pc[q] = "exit2")
    BY <1>0, <2>1
  <2>3. FamInv'
    BY <1>0, <1>3, <1>4, <2>1, <2>2, QuietFam
  <2> QED BY <1>4, <2>3, Zenon DEF HaltInv
<1>6. CASE ExitReparent(p)
  <2>1. /\ pc' = [pc EXCEPT ![p] = "exit2"]
        /\ \A q \in PROC : parent'[q] = IF q \in Children(p) THEN init_proc ELSE parent[q]
    BY <1>6 DEF ExitReparent, Reparented, Goto
  <2>2. \A q \in PROC : parent[q] = p => q \in Children(p)
    <3>1. \A q \in PROC : fk[q].child = NULL
      BY <1>0, <1>2, Zenon DEF ListInv
    <3>2. \A q \in PROC : state[q] # "UNUSED" => q \in Listed
      BY <1>0, <3>1 DEF ListInv, ListExact
    <3>3. \A q \in PROC : parent[q] = p => state[q] # "UNUSED"
      BY <1>0 DEF FamInv
    <3> QED BY <3>2, <3>3 DEF Children
  <2>3. parent'[init_proc] = NULL
    BY <1>0, <2>1, Zenon DEF FamInv, Children
  <2>4. \A q \in PROC : parent'[q] # NULL => state'[parent'[q]] # "UNUSED"
    BY <1>0, <1>3, <2>1 DEF FamInv
  <2>5. \A q \in PROC : state'[q] = "UNUSED" => parent'[q] = NULL
    <3>1. \A q \in PROC : state[q] = "UNUSED" => q \notin Children(p)
      BY <1>0, Zenon DEF FamInv, Children
    <3> QED BY <1>3, <2>1, <3>1, Zenon DEF FamInv
  <2>6. \A q \in PROC : pc'[q] \in {"exit2", "exit3"} /\ q # init_proc => \A d \in PROC : parent'[d] # q
    BY <1>0, <2>1, <2>2 DEF FamInv
  <2>7. UniquePid'
    BY <1>3, <1>4, ZenonT(40) DEF FamInv, UniquePid
  <2>8. FamInv'
    BY <1>0, <1>3, <1>4, <2>1, <2>3, <2>4, <2>5, <2>6, <2>7, Zenon DEF FamInv
  <2> QED BY <1>4, <2>8, Zenon DEF HaltInv
<1> QED BY <1>5, <1>6

LEMMA FamProc ==
    ASSUME IInv, FamInv, BirthInv, HaltInv, Arch = "loongarch", NEW p \in PROC,
           KernelStep(p) \/ Fault(p) \/ \E sc \in Syscalls : Syscall(p, sc)
    PROVE  FamInv' /\ HaltInv'
<1>0. /\ pc \in [PROC -> PCs] /\ state \in [PROC -> States] /\ AtomicInv
      /\ parent \in [PROC -> PROC \cup {NULL}]
  BY Zenon DEF IInv, TypeInv, TypeOK
<1>1. CASE ForkReadPid(p) \/ ForkAlloc(p) \/ ForkInsert(p)
  BY <1>1, FamFork
<1>2. CASE Wait4Reap(p)
  BY <1>2, FamReap
<1>3. CASE ExitReparent(p) \/ ExitWakeup(p)
  BY <1>3, FamExit
<1>4. CASE \/ Fault(p) \/ UserReturn(p) \/ \E sc \in Syscalls : Syscall(p, sc)
           \/ Wait4None(p) \/ SleepReturn(p) \/ BlockIoReturn(p) \/ Kill(p)
  <2>1. parent' = parent /\ pid' = pid /\ next_pid' = next_pid /\ fk' = fk /\ halt' = halt
    BY <1>4, Zenon DEF Fault, UserReturn, Syscall, Wait4None, SleepReturn, BlockIoReturn, Kill, procVars
  <2>2. \A q \in PROC : state'[q] = "UNUSED" <=> state[q] = "UNUSED"
    BY <1>0, <1>4, ZenonT(40) DEF Fault, UserReturn, Syscall, Wait4None, SleepReturn, BlockIoReturn, Kill,
                      KillWakes, procVars
  <2>3. \E to \in Syscalls \cup {"exit", "user", "utrap", "waitSleep", "wait4"} :
            pc' = [pc EXCEPT ![p] = to]
    BY <1>4 DEF Fault, UserReturn, Syscall, Wait4None, SleepReturn, BlockIoReturn, Kill, Goto
  <2>4. \A q \in PROC : pc'[q] = pc[q] \/ pc'[q] \notin {"fork2", "exit2", "exit3"}
    BY <1>0, <2>3, ProcAssumption
  <2>5. FamInv'
    BY <1>0, <2>1, <2>2, <2>4, QuietFam, ZenonT(40)
  <2> QED BY <2>1, <2>5, ZenonT(40) DEF HaltInv
<1>5. CASE Wait4Sleep(p) \/ Nanosleep(p) \/ SchedYield(p) \/ ExitZombie(p) \/ BlockIo(p)
  <2>1. parent' = parent /\ pid' = pid /\ next_pid' = next_pid /\ fk' = fk
    BY <1>5, ZenonT(40) DEF Wait4Sleep, Nanosleep, SchedYield, ExitZombie, BlockIo
  <2>2. \/ state' = state
        \/ \E st \in {"SLEEPING", "RUNNABLE", "ZOMBIE"} : state' = [state EXCEPT ![p] = st]
    BY <1>5, Zenon DEF Wait4Sleep, Nanosleep, SchedYield, ExitZombie, BlockIo, sched
  <2>3. state[p] = "RUNNING"
    <3>1. cpu = "proc" /\ cur = p
      BY <1>5, Zenon DEF Wait4Sleep, Nanosleep, SchedYield, ExitZombie, BlockIo, Running
    <3> QED BY <1>0, <3>1, OthersAtRest
  <2>4. \A q \in PROC : state'[q] = "UNUSED" <=> state[q] = "UNUSED"
    BY <1>0, <2>2, <2>3
  <2>5. \A q \in PROC : pc'[q] = pc[q] \/ pc'[q] \in {"asleep", "utrap", "ioWait"}
    BY <1>0, <1>5, ZenonT(40) DEF Wait4Sleep, Nanosleep, SchedYield, ExitZombie, BlockIo, Goto
  <2>6. FamInv'
    BY <1>0, <2>1, <2>4, <2>5, QuietFam, ZenonT(40)
  <2>7. HaltInv'
    <3>1. CASE Wait4Sleep(p) \/ Nanosleep(p) \/ SchedYield(p)
      <4>1. ~intr
        BY <1>0, <3>1 DEF Wait4Sleep, Nanosleep, SchedYield, Running, AtomicInv, Masked
      <4> QED BY <3>1, <4>1, ZenonT(40) DEF Wait4Sleep, Nanosleep, SchedYield, sched, HaltInv
    <3>2. CASE ExitZombie(p) \/ BlockIo(p)
      BY <3>2, Zenon DEF ExitZombie, BlockIo, HaltInv
    <3> QED BY <1>5, <3>1, <3>2
  <2> QED BY <2>6, <2>7
<1> QED BY <1>1, <1>2, <1>3, <1>4, <1>5 DEF KernelStep

LEMMA FamInvariance == ASSUME Arch = "loongarch" PROVE Spec => [](FamInv /\ HaltInv)
<1>1. Init => FamInv /\ HaltInv
  BY ProcAssumption DEF Init, FamInv, UniquePid, HaltInv
<1>2. IInv /\ SchedInv /\ FamInv /\ HaltInv /\ [Next]_vars => FamInv' /\ HaltInv'
  <2>1. ASSUME IInv, SchedInv, FamInv, HaltInv, Next PROVE FamInv' /\ HaltInv'
    BY <2>1, FamCpu, FamProc DEF SchedInv, Next, CpuStep, UserStep, Timer, DiskIrq, Device
  <2>2. ASSUME FamInv, HaltInv, UNCHANGED vars PROVE FamInv' /\ HaltInv'
    BY <2>2, Zenon DEF FamInv, UniquePid, HaltInv, vars, procVars
  <2> QED BY <2>1, <2>2
<1> QED BY <1>1, <1>2, Invariance, SchedInvariance, PTL DEF Spec

(* On LoongArch no process is left with a freed parent and no pid is given *)
(* out twice, whatever forks, exits and reaps went before.                 *)
THEOREM LoongArchFamilySound == ASSUME Arch = "loongarch" PROVE Spec => []FamilySound
<1>1. FamInv /\ SchedInv => FamilySound
  BY DEF FamInv, SchedInv, BirthInv, FamilySound, ParentAllocated
<1> QED BY <1>1, FamInvariance, SchedInvariance, PTL

(* On LoongArch sched() always finds interrupts off, so that its panic is  *)
(* out of reach; on RISC-V wait4, nanosleep and sched_yield run into it.   *)
THEOREM LoongArchSchedUninterruptible ==
    ASSUME Arch = "loongarch" PROVE Spec => []SchedUninterruptible
<1>1. HaltInv => SchedUninterruptible
  BY Zenon DEF HaltInv, SchedUninterruptible
<1> QED BY <1>1, FamInvariance, PTL
=============================================================================
