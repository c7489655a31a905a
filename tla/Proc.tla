-------------------------------- MODULE Proc --------------------------------
(***************************************************************************)
(* Process life cycle, scheduler, sleep/wakeup and the traps that drive    *)
(* them (kernel/proc, kernel/sys/time.c, arch/*/trap, arch/*/drivers).     *)
(*                                                                         *)
(* One CPU runs either the scheduler loop or one process.  The steps of a  *)
(* system call are separate actions wherever an interrupt may separate     *)
(* them, because the two ports differ exactly there: on RISC-V             *)
(* syscall_handler turns interrupts on before it dispatches, so the timer  *)
(* preempts a system call; on LoongArch a system call runs with interrupts *)
(* off and the timer is configured but never enabled.                      *)
(*                                                                         *)
(* panic and a failed Assert are an endless loop: the model records the    *)
(* reason in halt and stops.                                               *)
(*                                                                         *)
(* Address spaces, open files and names are left out: allocating, copying  *)
(* and freeing them is taken to succeed.                                   *)
(*                                                                         *)
(* The definitions whose names end in _bug are variants with a plausible   *)
(* slip of the definition after them; no specification uses them.          *)
(***************************************************************************)
EXTENDS Integers, Sequences, Functions, FiniteSets

CONSTANTS
    PROC,       \* addresses KCALLOC can return for a struct proc
    init_proc,  \* the first process
    NULL,
    Blkreq,     \* blkreq_wait_channel of the disk's request
    Arch,       \* "riscv" or "loongarch"
    Syscalls,   \* the system calls the user programs of this run make
    Naps,       \* durations of nanosleep, in ticks
    MaxTick,    \* bound on tick_counter, which saturates there
    MaxPid      \* bound on next_pid: at most MaxPid - 1 processes are created

ASSUME ProcAssumption ==
    /\ init_proc \in PROC
    /\ NULL \notin PROC
    /\ Blkreq \notin PROC \cup {NULL}
    /\ Arch \in {"riscv", "loongarch"}
    /\ Syscalls \subseteq {"fork", "exit", "wait4", "wait4_nohang", "nanosleep",
                          "sched_yield", "io", "kill"}
    /\ Naps \subseteq Nat \ {0}
    /\ MaxTick \in Nat
    /\ MaxPid \in Nat \ {0}

VARIABLES
    state,      \* proc.state; "UNUSED" when the struct is not allocated
    chan,       \* proc.chan
    killed,     \* proc.killed
    due,        \* proc.sleeping_due
    parent,     \* proc.parent
    pid,        \* proc.pid
    next_pid,
    proc_list,  \* the list as a sequence, head first
    pc,         \* where each process is: in user mode or at a kernel step
    fk,         \* locals of fork: the pid it read, the child, child->next
    trapped,    \* preempted in kernel mode: sret will enable interrupts
    cpu,        \* "sched": scheduler loop; "swtch": about to switch; "proc"
    cur,        \* c->proc
    cursor,     \* p of the scheduler loop
    intr,       \* interrupt enable
    noff,       \* c->noff
    intena,     \* c->intena of the outermost irq_pushoff
    tick,       \* tick_counter
    disk,       \* the disk: who holds its lock, and its request
    halt        \* "no", or why the kernel stopped

procVars  == <<state, chan, killed, due, parent, pid, next_pid, proc_list>>
cpuVars   == <<cpu, cur, cursor, intr, noff, intena>>
vars == <<procVars, cpuVars, pc, fk, trapped, tick, disk, halt>>

States == {"UNUSED", "RUNNABLE", "RUNNING", "SLEEPING", "ZOMBIE"}
PCs == {"none", "dive", "user", "utrap", "fork", "fork2", "fork3",
        "wait4", "wait4_nohang", "waitSleep", "asleep", "exit", "exit2",
        "exit3", "nanosleep", "sched_yield", "io", "ioWait", "kill"}

TypeOK ==
    /\ state \in [PROC -> States]
    /\ chan \in [PROC -> PROC \cup {NULL, Blkreq}]
    /\ killed \in [PROC -> BOOLEAN]
    /\ due \in [PROC -> Nat \cup {-1}]
    /\ parent \in [PROC -> PROC \cup {NULL}]
    /\ pid \in [PROC -> Nat]
    /\ next_pid \in Nat
    /\ proc_list \in Seq(PROC)
    /\ pc \in [PROC -> PCs]
    /\ fk \in [PROC -> [pid: Nat, child: PROC \cup {NULL},
                        next: PROC \cup {NULL}]]
    /\ trapped \in [PROC -> BOOLEAN]
    /\ cpu \in {"sched", "swtch", "proc"}
    /\ cur \in PROC \cup {NULL}
    /\ cursor \in PROC \cup {NULL}
    /\ intr \in BOOLEAN
    /\ noff \in Nat
    /\ intena \in BOOLEAN
    /\ tick \in Nat
    /\ disk \in [holder: PROC \cup {NULL}, req: {"none", "pending", "used", "OK"}]
    /\ halt \in {"no", "sched interruptable", "lock held", "context lost",
                 "dangling next"}

NoFork == [pid |-> 0, child |-> NULL, next |-> NULL]

(* proc_init creates init, then main calls scheduler(), which enables      *)
(* interrupts and enters its loop.                                         *)
Init ==
    /\ state = [p \in PROC |-> IF p = init_proc THEN "RUNNABLE" ELSE "UNUSED"]
    /\ chan = [p \in PROC |-> NULL]
    /\ killed = [p \in PROC |-> FALSE]
    /\ due = [p \in PROC |-> -1]
    /\ parent = [p \in PROC |-> NULL]
    /\ pid = [p \in PROC |-> IF p = init_proc THEN 1 ELSE 0]
    /\ next_pid = 2
    /\ proc_list = <<init_proc>>
    /\ pc = [p \in PROC |-> IF p = init_proc THEN "dive" ELSE "none"]
    /\ fk = [p \in PROC |-> NoFork]
    /\ trapped = [p \in PROC |-> FALSE]
    /\ cpu = "sched" /\ cur = NULL /\ cursor = init_proc
    /\ intr = TRUE /\ noff = 0 /\ intena = FALSE
    /\ tick = 0
    /\ disk = [holder |-> NULL, req |-> "none"]
    /\ halt = "no"

Listed == {proc_list[i] : i \in DOMAIN proc_list}

Pos(p) == CHOOSE i \in DOMAIN proc_list : proc_list[i] = p
ListHead == IF proc_list = <<>> THEN NULL ELSE Head(proc_list)

(* p->next, for p on the list.                                             *)
NextOf(p) ==
    IF p \in Listed /\ Pos(p) < Len(proc_list) THEN proc_list[Pos(p) + 1] ELSE NULL

(***************************************************************************)
(* scheduler                                                               *)
(***************************************************************************)
Expired_bug(p) == state[p] = "SLEEPING" /\ due[p] # -1
Expired(p) == state[p] = "SLEEPING" /\ due[p] # -1 /\ tick >= due[p]

(* One iteration of the inner loop: wake p if its nap is over, and pick it *)
(* if it is runnable; swtch itself is the next step, because interrupts    *)
(* may be on here.                                                         *)
SchedScan ==
    /\ cpu = "sched" /\ cursor # NULL
    /\ IF Expired(cursor) \/ state[cursor] = "RUNNABLE"
       THEN /\ state' = [state EXCEPT ![cursor] = "RUNNING"]
            /\ due' = IF Expired(cursor) THEN [due EXCEPT ![cursor] = -1] ELSE due
            /\ cur' = cursor
            /\ cpu' = "swtch"
            /\ UNCHANGED cursor
       ELSE /\ cursor' = NextOf(cursor)
            /\ UNCHANGED <<state, due, cur, cpu>>
    /\ UNCHANGED <<chan, killed, parent, pid, next_pid, proc_list, intr, noff,
                   intena, pc, fk, trapped, tick, disk, halt>>

(* The end of a pass: interrupts on only if every process sleeps.          *)
SchedPass ==
    /\ cpu = "sched" /\ cursor = NULL
    /\ cursor' = ListHead
    /\ intr' = (intr \/ \A p \in Listed : state[p] = "SLEEPING")
    /\ UNCHANGED <<procVars, cpu, cur, noff, intena, pc, fk, trapped, tick,
                   disk, halt>>

(* swtch to the process picked.  A process preempted in kernel mode goes   *)
(* back through sret with interrupts on; any other continues after its     *)
(* own swtch with the scheduler's interrupt state.                         *)
Swtch ==
    /\ cpu = "swtch"
    /\ cpu' = "proc"
    /\ intr' = (intr \/ trapped[cur])
    /\ trapped' = [trapped EXCEPT ![cur] = FALSE]
    /\ UNCHANGED <<procVars, cur, cursor, noff, intena, pc, fk, tick, disk, halt>>

ToScheduler_bug ==
    cpu' = "sched" /\ cur' = NULL /\ cursor' = Head(proc_list) /\ intr' = FALSE

(* Back in scheduler after swtch: c->proc = 0 and p = p->next, with the    *)
(* interrupts as the process left them, off.                               *)
ToScheduler ==
    /\ cpu' = "sched"
    /\ cur' = NULL
    /\ cursor' = NextOf(cur)
    /\ intr' = FALSE

(* sched(): its own myproc() call masks interrupts when noff > 0, so the   *)
(* check that they are off only fails with noff = 0.                       *)
sched(newstate) ==
    /\ state' = newstate
    /\ IF intr /\ noff = 0
       THEN /\ halt' = "sched interruptable"
            /\ UNCHANGED <<cpu, cur, cursor, intr>>
       ELSE /\ ToScheduler
            /\ UNCHANGED halt

(* wakeup(c): every listed process but the current one that sleeps on c.   *)
wakeup(c, st) ==
    [p \in PROC |-> IF /\ p \in Listed /\ p # cur
                       /\ st[p] = "SLEEPING" /\ chan[p] = c
                    THEN "RUNNABLE" ELSE st[p]]

(***************************************************************************)
(* Interrupts                                                              *)
(***************************************************************************)
Saturate(t) == IF t < MaxTick THEN t ELSE MaxTick

(* timer_interrupt_handler, taken whenever interrupts are on (RISC-V only: *)
(* LoongArch never sets the timer's enable bit).  A RUNNING process        *)
(* yields.  Between c->proc = p and swtch that yield saves the scheduler's *)
(* own stack in p->context: p's context is lost.                           *)
TimerInterrupt ==
    /\ Arch = "riscv" /\ intr
    /\ tick' = Saturate(tick + 1)
    /\ \/ /\ cpu = "proc" /\ state[cur] = "RUNNING"
          /\ state' = [state EXCEPT ![cur] = "RUNNABLE"]
          /\ IF pc[cur] = "user"
             THEN pc' = [pc EXCEPT ![cur] = "utrap"] /\ UNCHANGED trapped
             ELSE trapped' = [trapped EXCEPT ![cur] = TRUE] /\ UNCHANGED pc
          /\ ToScheduler
          /\ UNCHANGED halt
       \/ /\ cpu = "swtch"
          /\ state' = [state EXCEPT ![cur] = "RUNNABLE"]
          /\ halt' = "context lost"
          /\ UNCHANGED <<pc, trapped, cpu, cur, cursor, intr>>
       \/ /\ cpu = "sched"
          /\ UNCHANGED <<state, pc, trapped, cpu, cur, cursor, intr, halt>>
    /\ UNCHANGED <<chan, killed, due, parent, pid, next_pid, proc_list, noff,
                   intena, fk, disk>>

(* The disk finishes the request (external to the CPU).                    *)
DiskComplete ==
    /\ disk.req = "pending"
    /\ disk' = [disk EXCEPT !.req = "used"]
    /\ UNCHANGED <<procVars, cpuVars, pc, fk, trapped, tick, halt>>

(* blkdev_general_endio.                                                   *)
Endio_bug == wakeup(NULL, state)
Endio == wakeup(Blkreq, state)

(* irq_response down to blkdev_general_endio: set the request's status and *)
(* wake its waiter.  From user mode the trap ends in the check of killed.  *)
DiskInterrupt ==
    /\ intr /\ disk.req = "used"
    /\ disk' = [disk EXCEPT !.req = "OK"]
    /\ state' = Endio
    /\ IF cpu = "proc" /\ pc[cur] = "user"
       THEN pc' = [pc EXCEPT ![cur] = "utrap"] /\ intr' = FALSE
       ELSE UNCHANGED <<pc, intr>>
    /\ UNCHANGED <<chan, killed, due, parent, pid, next_pid, proc_list, cpu, cur,
                   cursor, noff, intena, fk, trapped, tick, halt>>

(***************************************************************************)
(* The running process                                                     *)
(***************************************************************************)
Running(p, at) == cpu = "proc" /\ cur = p /\ pc[p] = at
Goto(p, to) == pc' = [pc EXCEPT ![p] = to]

(* Bounds: a fork is made only while a struct and a pid are left for it.   *)
ForkBound ==
    LET forking == Cardinality({q \in PROC : pc[q] \in {"fork", "fork2"}})
    IN /\ next_pid + forking < MaxPid
       /\ Cardinality({q \in PROC : state[q] = "UNUSED"}) > forking

(* Interrupts in a system call: on RISC-V syscall_handler turns them on,   *)
(* and myproc() masks them again when another process left noff > 0.       *)
SyscallIntr == Arch = "riscv" /\ noff = 0

(* user_trap, syscall_handler and syscall up to the handler's first step.  *)
Syscall(p, sc) ==
    /\ Running(p, "user")
    /\ sc = "fork" => ForkBound
    /\ IF Arch = "riscv" /\ killed[p]
       THEN Goto(p, "exit") /\ intr' = FALSE
       ELSE Goto(p, sc) /\ intr' = SyscallIntr
    /\ UNCHANGED <<procVars, cpu, cur, cursor, noff, intena, fk, trapped, tick,
                   disk, halt>>

(* user_trap finds no handler: the process is marked killed and exits.     *)
Fault(p) ==
    /\ Running(p, "user")
    /\ killed' = [killed EXCEPT ![p] = TRUE]
    /\ Goto(p, "exit")
    /\ intr' = FALSE
    /\ UNCHANGED <<state, chan, due, parent, pid, next_pid, proc_list, cpu, cur,
                   cursor, noff, intena, fk, trapped, tick, disk, halt>>

(* The end of user_trap, and dive_to_user.                                 *)
UserReturn(p) ==
    /\ \/ Running(p, "utrap") /\ ~killed[p] /\ Goto(p, "user") /\ intr' = TRUE
       \/ Running(p, "utrap") /\ killed[p] /\ Goto(p, "exit") /\ UNCHANGED intr
       \/ Running(p, "dive") /\ Goto(p, "user") /\ intr' = TRUE
    /\ UNCHANGED <<procVars, cpu, cur, cursor, noff, intena, fk, trapped, tick,
                   disk, halt>>

(* fork/clone: alloc_pid reads next_pid ...                                *)
ForkReadPid(p) ==
    /\ Running(p, "fork")
    /\ fk' = [fk EXCEPT ![p].pid = next_pid]
    /\ Goto(p, "fork2")
    /\ UNCHANGED <<procVars, cpuVars, trapped, tick, disk, halt>>

(* alloc_pid's new next_pid, and the child's parent.                       *)
NextPid(read) == read + 1
ChildParent(p) == p

(* ... and writes it back; the child is filled in and linked to the head   *)
(* of the list it finds ...                                                *)
ForkAlloc(p) ==
    /\ Running(p, "fork2")
    /\ \E c \in {q \in PROC : state[q] = "UNUSED"} :
        /\ next_pid' = NextPid(fk[p].pid)
        /\ pid' = [pid EXCEPT ![c] = fk[p].pid]
        /\ state' = [state EXCEPT ![c] = "RUNNABLE"]
        /\ chan' = [chan EXCEPT ![c] = NULL]
        /\ killed' = [killed EXCEPT ![c] = FALSE]
        /\ due' = [due EXCEPT ![c] = -1]
        /\ parent' = [parent EXCEPT ![c] = ChildParent(p)]
        /\ pc' = [pc EXCEPT ![c] = "dive", ![p] = "fork3"]
        /\ fk' = [fk EXCEPT ![p].child = c, ![p].next = ListHead]
    /\ UNCHANGED <<proc_list, cpuVars, trapped, tick, disk, halt>>

(* The list from p on.                                                     *)
ListFrom(p) == SubSeq(proc_list, Pos(p), Len(proc_list))

(* ... and becomes the head.  If child->next is off the list by then, freed *)
(* or dropped by a fork that came between, the model stops.                *)
ForkInsert(p) ==
    /\ Running(p, "fork3")
    /\ IF fk[p].next \in Listed
       THEN /\ proc_list' = <<fk[p].child>> \o ListFrom(fk[p].next)
            /\ UNCHANGED halt
       ELSE /\ halt' = "dangling next"
            /\ UNCHANGED proc_list
    /\ fk' = [fk EXCEPT ![p] = NoFork]
    /\ Goto(p, "utrap")
    /\ UNCHANGED <<state, chan, killed, due, parent, pid, next_pid, cpuVars,
                   trapped, tick, disk>>

(* wait4's scan finds a zombie child: the first one in list order is freed *)
(* by freeproc, which unlinks it; or copying its status out fails and      *)
(* wait4 returns with the zombie left where it is.                         *)
Children(p) == {c \in Listed : parent[c] = p}
ZombieChildren(p) == {c \in Children(p) : state[c] = "ZOMBIE"}

(* freeproc's unlinking: the list s without its i-th member.               *)
Without(s, i) == SubSeq(s, 1, i - 1) \o SubSeq(s, i + 1, Len(s))

Unlink_bug(c) == IF Pos(c) = 1 THEN proc_list ELSE Without(proc_list, Pos(c))
Unlink(c) == Without(proc_list, Pos(c))

Wait4Reap(p) ==
    /\ Running(p, "wait4") \/ Running(p, "wait4_nohang")
    /\ \E c \in ZombieChildren(p) :
        /\ \A d \in ZombieChildren(p) : Pos(c) <= Pos(d)
        /\ \/ /\ proc_list' = Unlink(c)
              /\ state' = [state EXCEPT ![c] = "UNUSED"]
              /\ pc' = [pc EXCEPT ![p] = "utrap", ![c] = "none"]
              /\ parent' = [parent EXCEPT ![c] = NULL]
              /\ pid' = [pid EXCEPT ![c] = 0]
              /\ killed' = [killed EXCEPT ![c] = FALSE]
              /\ due' = [due EXCEPT ![c] = -1]
           \/ /\ Goto(p, "utrap")
              /\ UNCHANGED <<proc_list, state, parent, pid, killed, due>>
    /\ UNCHANGED <<chan, next_pid, cpuVars, fk, trapped, tick, disk, halt>>

(* No zombie child: return if there is no child, p is killed or WNOHANG is *)
(* set; otherwise go to sleep.                                             *)
Wait4None(p) ==
    /\ Running(p, "wait4") \/ Running(p, "wait4_nohang")
    /\ ZombieChildren(p) = {}
    /\ Goto(p, IF Children(p) = {} \/ killed[p] \/ pc[p] = "wait4_nohang"
               THEN "utrap" ELSE "waitSleep")
    /\ UNCHANGED <<procVars, cpuVars, fk, trapped, tick, disk, halt>>

(* sleep(curproc), up to the switch.                                       *)
Wait4Sleep(p) ==
    /\ Running(p, "waitSleep")
    /\ chan' = [chan EXCEPT ![p] = p]
    /\ sched([state EXCEPT ![p] = "SLEEPING"])
    /\ Goto(p, "asleep")
    /\ UNCHANGED <<killed, due, parent, pid, next_pid, proc_list, noff, intena,
                   fk, trapped, tick, disk>>

(* The rest of sleep: int_status was off when sched() let it pass.         *)
SleepReturn(p) ==
    /\ Running(p, "asleep")
    /\ chan' = [chan EXCEPT ![p] = NULL]
    /\ intr' = FALSE
    /\ Goto(p, "wait4")
    /\ UNCHANGED <<state, killed, due, parent, pid, next_pid, proc_list, cpu, cur,
                   cursor, noff, intena, fk, trapped, tick, disk, halt>>

(* nanosleep: proc->chan keeps the NULL it has outside sleep.  Times are   *)
(* capped at MaxTick, so that every nap can end.                           *)
Nanosleep(p) ==
    /\ Running(p, "nanosleep")
    /\ \E d \in Naps : due' = [due EXCEPT ![p] = Saturate(tick + d)]
    /\ sched([state EXCEPT ![p] = "SLEEPING"])
    /\ Goto(p, "utrap")
    /\ UNCHANGED <<chan, killed, parent, pid, next_pid, proc_list, noff, intena,
                   fk, trapped, tick, disk>>

SchedYield(p) ==
    /\ Running(p, "sched_yield")
    /\ sched([state EXCEPT ![p] = "RUNNABLE"])
    /\ Goto(p, "utrap")
    /\ UNCHANGED <<chan, killed, due, parent, pid, next_pid, proc_list, noff,
                   intena, fk, trapped, tick, disk>>

(* reparent: the children's new parent, and init woken if there is one.    *)
Reparented_bug(p) == parent
Reparented(p) == [c \in PROC |-> IF c \in Children(p) THEN init_proc ELSE parent[c]]
ReparentWakes(p) == IF Children(p) = {} THEN state ELSE wakeup(init_proc, state)

(* do_exit: the children go to init, which is woken if there is one, ...   *)
ExitReparent(p) ==
    /\ Running(p, "exit")
    /\ parent' = Reparented(p)
    /\ state' = ReparentWakes(p)
    /\ Goto(p, "exit2")
    /\ UNCHANGED <<chan, killed, due, pid, next_pid, proc_list, cpuVars, fk,
                   trapped, tick, disk, halt>>

(* wakeup(p->parent).                                                      *)
ExitWakes_bug(p) == wakeup(p, state)
ExitWakes(p) == wakeup(parent[p], state)

(* ... then the parent is woken, ...                                       *)
ExitWakeup(p) ==
    /\ Running(p, "exit2")
    /\ state' = ExitWakes(p)
    /\ Goto(p, "exit3")
    /\ UNCHANGED <<chan, killed, due, parent, pid, next_pid, proc_list, cpuVars,
                   fk, trapped, tick, disk, halt>>

(* ... and the process becomes a zombie and switches away for good.        *)
ExitZombie(p) ==
    /\ Running(p, "exit3")
    /\ state' = [state EXCEPT ![p] = "ZOMBIE"]
    /\ ToScheduler
    /\ UNCHANGED <<chan, killed, due, parent, pid, next_pid, proc_list, noff,
                   intena, pc, fk, trapped, tick, disk, halt>>

(* A block read or write of the ext4 disk: blockdev_lock takes dev_lock,   *)
(* which masks interrupts, the request is queued and sent, and             *)
(* blkdev_submit_req_wait sleeps with the lock: all this is one step.      *)
(* spinlock_acquire asserts that this CPU does not hold the lock already.  *)
BlockIo(p) ==
    /\ Running(p, "io")
    /\ intena' = IF noff = 0 THEN intr ELSE intena
    /\ noff' = noff + 1
    /\ IF disk.holder = NULL
       THEN /\ disk' = [holder |-> p, req |-> "pending"]
            /\ chan' = [chan EXCEPT ![p] = Blkreq]
            /\ state' = [state EXCEPT ![p] = "SLEEPING"]
            /\ Goto(p, "ioWait")
            /\ ToScheduler
            /\ UNCHANGED halt
       ELSE /\ halt' = "lock held"
            /\ intr' = FALSE
            /\ UNCHANGED <<disk, chan, state, pc, cpu, cur, cursor>>
    /\ UNCHANGED <<killed, due, parent, pid, next_pid, proc_list, fk, trapped, tick>>

(* Releasing dev_lock.                                                     *)
Popoffs == noff - 1

(* Woken: sleep returns with interrupts off, the lock is released and its  *)
(* irq_popoff restores intena.                                             *)
BlockIoReturn(p) ==
    /\ Running(p, "ioWait")
    /\ chan' = [chan EXCEPT ![p] = NULL]
    /\ disk' = [holder |-> NULL, req |-> "none"]
    /\ noff' = Popoffs
    /\ intr' = (noff = 1 /\ intena)
    /\ Goto(p, "utrap")
    /\ UNCHANGED <<state, killed, due, parent, pid, next_pid, proc_list, cpu, cur,
                   cursor, intena, fk, trapped, tick, halt>>

(* kill's effect on the state of its target: a sleeper becomes RUNNABLE.   *)
KillWakes_bug(q) == state
KillWakes(q) == IF state[q] = "SLEEPING" THEN [state EXCEPT ![q] = "RUNNABLE"] ELSE state

(* kill(pid): exported by proc.h, called by no system call yet.            *)
Kill(p) ==
    /\ Running(p, "kill")
    /\ \E q \in Listed :
        /\ killed' = [killed EXCEPT ![q] = TRUE]
        /\ state' = KillWakes(q)
    /\ Goto(p, "utrap")
    /\ UNCHANGED <<chan, due, parent, pid, next_pid, proc_list, cpuVars, fk,
                   trapped, tick, disk, halt>>

-----------------------------------------------------------------------------
(* What the CPU does of its own accord: the scheduler, and a process in    *)
(* the kernel.                                                             *)
KernelStep(p) ==
    \/ UserReturn(p) \/ ForkReadPid(p) \/ ForkAlloc(p) \/ ForkInsert(p)
    \/ Wait4Reap(p) \/ Wait4None(p) \/ Wait4Sleep(p) \/ SleepReturn(p)
    \/ Nanosleep(p) \/ SchedYield(p) \/ Kill(p)
    \/ ExitReparent(p) \/ ExitWakeup(p) \/ ExitZombie(p)
    \/ BlockIo(p) \/ BlockIoReturn(p)

CpuStep ==
    halt = "no" /\ (SchedScan \/ SchedPass \/ Swtch \/ \E p \in PROC : KernelStep(p))

UserStep == halt = "no" /\ \E p \in PROC : Fault(p) \/ \E sc \in Syscalls : Syscall(p, sc)
Timer == halt = "no" /\ TimerInterrupt
DiskIrq == halt = "no" /\ DiskInterrupt
Device == halt = "no" /\ DiskComplete

Next == CpuStep \/ UserStep \/ Timer \/ DiskIrq \/ Device

Spec == Init /\ [][Next]_vars

(* The CPU keeps executing, the timer and the disk do their work, and a    *)
(* raised interrupt stays pending until the CPU takes it: it is not lost   *)
(* because interrupts were off when it came.  Nothing is assumed of user   *)
(* programs.                                                               *)
Fairness ==
    /\ WF_vars(CpuStep)
    /\ SF_vars(Timer)
    /\ WF_vars(Device)
    /\ SF_vars(DiskIrq)

FairSpec == Spec /\ Fairness

-----------------------------------------------------------------------------
(* Properties                                                              *)

(* Nobody waits for what has already happened: a process asleep in wait4   *)
(* (sleep(curproc)) has no zombie child, because do_exit and reparent wake *)
(* it no later than the child becomes its zombie.                          *)
NoLostWakeup ==
    \A c \in PROC :
        /\ state[c] = "ZOMBIE"
        /\ parent[c] # NULL
        => ~(state[parent[c]] = "SLEEPING" /\ chan[parent[c]] = parent[c])

(* proc_list links each allocated struct exactly once, except a child that *)
(* fork has not linked yet: freeproc and fork never drop, duplicate or     *)
(* leave behind another process.                                           *)
ListExact ==
    /\ IsInjective(proc_list)
    /\ Listed = {p \in PROC : state[p] # "UNUSED"} \ {fk[p].child : p \in PROC}

(* No struct refers to a freed parent: by the time wait4 frees a process,  *)
(* reparent has moved all its children to init.                            *)
ParentAllocated ==
    \A p \in PROC : state[p] # "UNUSED" /\ p # init_proc =>
        parent[p] # NULL /\ state[parent[p]] # "UNUSED"

(* alloc_pid never hands out a pid twice.                                  *)
UniquePid ==
    \A p, q \in PROC :
        state[p] # "UNUSED" /\ state[q] # "UNUSED" /\ p # q => pid[p] # pid[q]

(* wait4, which looks for children by their parent and is told a pid, can  *)
(* rely on both whatever forks, exits and reaps went before.               *)
FamilySound == ParentAllocated /\ UniquePid

(* Without a timer (LoongArch) a program keeps the CPU until it yields,    *)
(* blocks or exits: assume that every program does so again and again.     *)
Cooperative == \A p \in PROC : []<>(cur # p)

(* A zombie keeps the scheduler from enabling interrupts, and a process     *)
(* asleep in nanosleep then sleeps until the zombie is reaped (sched.c:65). *)
NapsEnd == \A p \in PROC : []<>~(state[p] = "SLEEPING" /\ chan[p] = NULL)

InWait4(p) == pc[p] \in {"wait4", "waitSleep", "asleep"}

(* wait4 returns once a child has exited: the sleep ends, the scheduler    *)
(* gets round to the parent, and the scan finds a zombie.                  *)
WaiterServed ==
    Cooperative /\ NapsEnd =>
        \A p \in PROC : (InWait4(p) /\ ZombieChildren(p) # {}) ~> ~InWait4(p)

(* A killed process gets out of wait4's sleep and exits.                   *)
KilledExits ==
    Cooperative /\ NapsEnd =>
        \A p \in PROC : killed[p] ~> state[p] \in {"ZOMBIE", "UNUSED"}

(* The interrupt that completes a disk request never misses its waiter,    *)
(* which sleeps holding the disk's spinlock.  A waiter must be on the list *)
(* to be woken: two forks that interleave on RISC-V can drop one from it.  *)
DiskWakeup ==
    disk.req = "OK" /\ disk.holder \in Listed => state[disk.holder] # "SLEEPING"

(* Starvation freedom under the timer: each pass of the scheduler reaches  *)
(* every RUNNABLE process on the list, although new children are linked    *)
(* ahead of it and user programs may never stop computing.                 *)
RunnableRuns ==
    \A p \in PROC : (state[p] = "RUNNABLE" /\ p \in Listed) ~>
        (state[p] = "RUNNING" \/ p \notin Listed \/ halt # "no")

(* sched() is only entered with interrupts off.                            *)
SchedUninterruptible == halt # "sched interruptable"

(* A timed sleep ends when its time has come or the process is killed,     *)
(* not because of an event it does not wait for.  The one exception is the *)
(* exit of init, whose wakeup(p->parent) is wakeup(NULL) and so wakes      *)
(* everybody in nanosleep, whose chan is NULL.                             *)
NapKept ==
    [][\A p \in PROC : /\ state[p] = "SLEEPING" /\ due[p] # -1 /\ chan[p] = NULL
                       /\ state'[p] # "SLEEPING"
                       => tick >= due[p] \/ killed'[p] \/ cur = init_proc]_vars

(* A process that sleeps for the disk wakes up.                            *)
DiskSleepEnds == \A p \in PROC : pc[p] = "ioWait" ~> (pc[p] # "ioWait" \/ halt # "no")
=============================================================================
