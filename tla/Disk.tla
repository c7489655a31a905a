-------------------------------- MODULE Disk --------------------------------
(* Disk I/O: block requests (kernel/io/blk.c), the virtqueue                 *)
(* (kernel/drivers/virtio.c), the virtio-blk drivers of both architectures,  *)
(* and their two users, the block device of ext4 (kernel/fs/ext4/ext4_blk.c, *)
(* built with EXT4_BLK_IO_ALL) and /dev block files                          *)
(* (kernel/fs/devfs/devs/block.c).                                           *)
(*                                                                           *)
(* Threads share one processor: a thread inside a call gives it up only in   *)
(* sleep(), or anywhere outside a spinlock when system calls run with        *)
(* interrupts on (RISC-V).  The device is external: it takes chains *)
(* from the available ring and completes them in any order, also while the   *)
(* interrupt handler runs.  An entry of a ring is dropped once it is read,   *)
(* and the status of a request when it is freed.                             *)
(* Addresses of requests are reused.  Sector numbers, sizes and data are     *)
(* left out.  Definitions ending in _bug are slips that no specification     *)
(* uses.                                                                     *)
EXTENDS Integers, Sequences, FiniteSets

CONSTANTS THREAD, REQ, HEAD, NULL,
          queue_size,   \* descriptors, a power of 2
          IDX,          \* 2^16, a multiple of queue_size
          MaxSectors,   \* bound: requests of one devfs call
          Confs,        \* the machine and the users of the device, in turn
          Errors        \* whether the device may report an I/O error

D == 0 .. queue_size - 1
Node == REQ \cup {HEAD}

ASSUME DiskAssumption ==
  /\ HEAD \notin REQ /\ NULL \notin Node /\ NULL \notin THREAD
  /\ queue_size \in Nat \ {0} /\ queue_size \in {2 ^ k : k \in 0 .. 15}
  /\ IDX \in Nat \ {0} /\ IDX % queue_size = 0
  /\ MaxSectors \in Nat \ {0} /\ Errors \in BOOLEAN
  /\ Confs \subseteq [arch : {"riscv", "loongarch"}, users : SUBSET {"ext4", "devfs"}]

VARIABLES
  conf,                \* element of Confs
  nxt, prv,            \* rq_list and the rq_head of every request
  rq_lock, dev_lock,   \* holder, or NULL
  live,                \* requests that are allocated
  status,              \* request->status
  dnext, dflag, dlen,  \* next, F_NEXT and the kind of length of a descriptor
  free_desc, desc_virt,
  avail, avail_idx, used, used_idx, seen_used,
  devpos, devset,      \* device: position in avail, chains it works on
  dstat,               \* device: status byte it wrote
  undone,              \* history: chains completed and not yet handled
  irq,                 \* an interrupt of the device is pending
  isr,                 \* index of the loop in virtio_blk_isr, beyond the queue
                       \* after the loop, -1 outside
  th,                  \* threads
  halt                 \* "no", or why the kernel stopped or read freed memory

lvars == <<conf, nxt, prv, live>>
qvars == <<dnext, dflag, dlen, free_desc, desc_virt>>
rvars == <<avail, avail_idx, used, used_idx, devpos, devset, dstat, undone>>
vars == <<lvars, rq_lock, dev_lock, status, qvars, rvars, seen_used, irq, isr, th, halt>>

Idle == [pc |-> "idle", kind |-> "ext4", left |-> 0, req |-> NULL, cur |-> HEAD,
         d |-> <<>>, tmp |-> <<0, 0>>]

(* virtq_create, blkdev_init.                                                *)
Init ==
  /\ conf \in Confs
  /\ nxt = [x \in Node |-> x] /\ prv = [x \in Node |-> x]
  /\ rq_lock = NULL /\ dev_lock = NULL
  /\ live = {} /\ status = [r \in REQ |-> "INIT"]
  /\ dnext = [d \in D |-> d + 1]
  /\ dflag = [d \in D |-> FALSE] /\ dlen = [d \in D |-> "none"]
  /\ free_desc = 0 /\ desc_virt = [d \in D |-> NULL]
  /\ avail = [i \in D |-> 0] /\ avail_idx = 0
  /\ used = [i \in D |-> 0] /\ used_idx = 0 /\ seen_used = 0
  /\ devpos = 0 /\ devset = {} /\ undone = {} /\ dstat = [r \in REQ |-> "INIT"]
  /\ irq = FALSE /\ isr = -1
  /\ th = [t \in THREAD |-> Idle]
  /\ halt = "no"

(* System calls run with interrupts on; the interrupt is acknowledged at the *)
(* end of the handler (MMIO), not by reading it at the start (PCI).          *)
Preempt == conf.arch = "riscv"
AckLate == conf.arch = "riscv"

(* Thread t may be switched out, or interrupted, where it is.                *)
Yields(t) ==
  \/ th[t].pc \in {"idle", "sleep", "woken"}
  \/ Preempt /\ th[t].kind = "devfs" /\ rq_lock # t
OnCpu(t, pc) ==
  /\ halt = "no" /\ isr = -1
  /\ th[t].pc = pc
  /\ \A u \in THREAD \ {t} : Yields(u)

Stop(why) ==
  /\ halt' = why
  /\ UNCHANGED <<lvars, rq_lock, dev_lock, status, qvars, rvars, seen_used, irq, isr, th>>

-----------------------------------------------------------------------------
(* blockdev_bread and blockdev_bwrite of ext4 take the lock of the device    *)
(* and make one request; block_read and block_write make one per sector.     *)
(* Taking a lock that a sleeping thread holds fails spinlock_acquire's       *)
(* assertion.                                                                *)
StartExt4(t) ==
  /\ OnCpu(t, "idle") /\ "ext4" \in conf.users
  /\ IF dev_lock # NULL THEN Stop("assert")
     ELSE /\ dev_lock' = t
          /\ th' = [th EXCEPT ![t] = [Idle EXCEPT !.pc = "alloc", !.left = 1]]
          /\ UNCHANGED <<lvars, rq_lock, status, qvars, rvars, seen_used, irq, isr, halt>>

StartDevfs(t) ==
  /\ OnCpu(t, "idle") /\ "devfs" \in conf.users
  /\ \E n \in 1 .. MaxSectors :
       th' = [th EXCEPT ![t] = [Idle EXCEPT !.pc = "alloc", !.kind = "devfs", !.left = n]]
  /\ UNCHANGED <<lvars, rq_lock, dev_lock, status, qvars, rvars, seen_used, irq, isr, halt>>

(* virtio_blk_alloc and blkreq_init, then blkdev_submit_req's list_insert,   *)
(* for a request at address r.                                               *)
InsertedNext(r) == LET n == [nxt EXCEPT ![r] = r]
                   IN  [n EXCEPT ![r] = n[HEAD], ![HEAD] = r]
InsertedPrev(r) == LET n == [nxt EXCEPT ![r] = r]
                       p == [prv EXCEPT ![r] = HEAD]
                   IN  [p EXCEPT ![n[HEAD]] = r]

Submit(t) ==
  /\ OnCpu(t, "alloc")
  /\ IF rq_lock # NULL THEN Stop("assert")
     ELSE \E r \in REQ \ live :
            /\ live' = live \cup {r}
            /\ status' = [status EXCEPT ![r] = "INIT"]
            /\ nxt' = InsertedNext(r) /\ prv' = InsertedPrev(r)
            /\ th' = [th EXCEPT ![t].pc = "desc", ![t].req = r, ![t].d = <<>>]
            /\ UNCHANGED <<conf, rq_lock, dev_lock, qvars, rvars, seen_used, irq, isr, halt>>

(* virtq_alloc_desc reads the head of the free chain, and then moves it; no  *)
(* lock covers the two.  Past the last descriptor it goes on outside the     *)
(* table.                                                                    *)
DescRead(t) ==
  /\ OnCpu(t, "desc")
  /\ IF free_desc = queue_size THEN Stop("overrun")
     ELSE /\ th' = [th EXCEPT ![t].pc = "take", ![t].tmp = <<free_desc, dnext[free_desc]>>]
          /\ UNCHANGED <<lvars, rq_lock, dev_lock, status, qvars, rvars, seen_used, irq, isr, halt>>

DescTake(t) ==
  LET d == th[t].tmp[1] IN
  /\ OnCpu(t, "take")
  /\ free_desc' = th[t].tmp[2]
  /\ desc_virt' = [desc_virt EXCEPT ![d] = th[t].req]
  /\ th' = [th EXCEPT ![t].pc = IF Len(th[t].d) = 2 THEN "send" ELSE "desc",
                      ![t].d = Append(@, d)]
  /\ UNCHANGED <<lvars, rq_lock, dev_lock, status, dnext, dflag, dlen, rvars,
                 seen_used, irq, isr, halt>>

(* The end of virtio_blk_submit and virtio_blk_send.  The caller of ext4     *)
(* then sleeps on its request at once; devfs goes on to its next sector.     *)
Chained(d) == [dnext EXCEPT ![d[1]] = d[2], ![d[2]] = d[3], ![d[3]] = 0]

Send(t) ==
  LET d == th[t].d IN
  /\ OnCpu(t, "send")
  /\ dnext' = Chained(d)
  /\ dflag' = [dflag EXCEPT ![d[1]] = TRUE, ![d[2]] = TRUE, ![d[3]] = FALSE]
  /\ dlen' = [dlen EXCEPT ![d[1]] = "hdr", ![d[2]] = "data", ![d[3]] = "foot"]
  /\ avail' = [avail EXCEPT ![avail_idx % queue_size] = d[1]]
  /\ avail_idx' = (avail_idx + 1) % IDX
  /\ th' = [th EXCEPT ![t].left = @ - 1, ![t].d = <<>>, ![t].tmp = Idle.tmp,
                      ![t].cur = IF th[t].kind = "ext4" THEN th[t].req ELSE HEAD,
                      ![t].pc = IF th[t].kind = "ext4" THEN "sleep"
                                ELSE IF th[t].left > 1 THEN "alloc" ELSE "wait"]
  /\ UNCHANGED <<lvars, rq_lock, dev_lock, status, free_desc, desc_virt, used, used_idx,
                 devpos, devset, dstat, undone, seen_used, irq, isr, halt>>

-----------------------------------------------------------------------------
(* The list as a walk from its head, one step longer than the requests there *)
(* are.  A walk that never comes back to the head, or that meets freed       *)
(* memory, has no further meaning.                                           *)
Steps == Cardinality(REQ) + 1
Walk == LET w[n \in 0 .. Steps] == IF n = 0 THEN HEAD ELSE nxt[w[n - 1]]
        IN  [n \in 1 .. Steps |-> w[n]]
Listed == {Walk[n] : n \in 1 .. Steps} \ {HEAD}
Sound == Listed \subseteq live /\ \E n \in 1 .. Steps : Walk[n] = HEAD

(* blkdev_wait_all takes the lock of the list and sleeps with it.            *)
WaitAll(t) ==
  /\ OnCpu(t, "wait")
  /\ IF rq_lock # NULL THEN Stop("assert")
     ELSE IF ~Sound THEN Stop("list")
     ELSE /\ rq_lock' = t
          /\ th' = [th EXCEPT ![t].pc = "each", ![t].cur = nxt[HEAD]]
          /\ UNCHANGED <<lvars, dev_lock, status, qvars, rvars, seen_used, irq, isr, halt>>

Waits_bug(r) == status[r] # "OK"
Waits(r) == status[r] = "INIT"

WaitEach(t) ==
  LET r == th[t].cur IN
  /\ \E pc \in {"each", "woken"} : OnCpu(t, pc)
  /\ th[t].kind = "devfs"
  /\ IF r # HEAD /\ r \notin live THEN Stop("list")
     ELSE /\ th' = [th EXCEPT
               ![t] = IF r = HEAD THEN [@ EXCEPT !.pc = "free"]
                      ELSE IF @.pc = "each" /\ Waits(r) THEN [@ EXCEPT !.pc = "sleep"]
                      ELSE [@ EXCEPT !.pc = "each", !.cur = nxt[r]]]
          /\ rq_lock' = IF r = HEAD THEN NULL ELSE rq_lock
          /\ UNCHANGED <<lvars, dev_lock, status, qvars, rvars, seen_used, irq, isr, halt>>

(* blkdev_free_all: the completed requests are freed and unlinked, one that  *)
(* failed stays.  The links of a freed request are not read again.           *)
Frees(r) == status[r] = "OK"

FreeAll(t) ==
  LET order == SubSeq(Walk, 1, Cardinality(Listed))
      keep == <<HEAD>> \o SelectSeq(order, LAMBDA r : ~Frees(r)) \o <<HEAD>>
      gone == {r \in Listed : Frees(r)}
      At(x) == CHOOSE i \in 1 .. Len(keep) - 1 : keep[i] = x
      From(x) == CHOOSE i \in 2 .. Len(keep) : keep[i] = x
  IN
  /\ OnCpu(t, "free")
  /\ IF rq_lock # NULL THEN Stop("assert")
     ELSE IF ~Sound THEN Stop("list")
     ELSE /\ live' = live \ gone
          /\ status' = [r \in REQ |-> IF r \in gone THEN "INIT" ELSE status[r]]
          /\ nxt' = [x \in Node |-> IF x \in gone THEN x
                                    ELSE IF x \in Listed \cup {HEAD} THEN keep[At(x) + 1]
                                    ELSE nxt[x]]
          /\ prv' = [x \in Node |-> IF x \in gone THEN x
                                    ELSE IF x \in Listed \cup {HEAD} THEN keep[From(x) - 1]
                                    ELSE prv[x]]
          /\ th' = [th EXCEPT ![t] = Idle]
          /\ UNCHANGED <<conf, rq_lock, dev_lock, qvars, rvars, seen_used, irq, isr, halt>>

(* ext4 after its sleep: the status is read, the request is freed but not    *)
(* unlinked, the lock of the device released.                                *)
Ext4Done(t) ==
  LET r == th[t].req IN
  /\ OnCpu(t, "woken") /\ th[t].kind = "ext4"
  /\ IF r \notin live THEN Stop("list")
     ELSE /\ live' = live \ {r}
          /\ status' = [status EXCEPT ![r] = "INIT"]
          /\ dev_lock' = NULL
          /\ th' = [th EXCEPT ![t] = Idle]
          /\ UNCHANGED <<conf, nxt, prv, rq_lock, qvars, rvars, seen_used, irq, isr, halt>>

-----------------------------------------------------------------------------
(* The device: fetches a chain, completes one in any order.                  *)
DevFetch ==
  /\ halt = "no" /\ devpos # avail_idx
  /\ devset' = devset \cup {avail[devpos % queue_size]}
  /\ devpos' = (devpos + 1) % IDX
  /\ avail' = [avail EXCEPT ![devpos % queue_size] = 0]
  /\ UNCHANGED <<lvars, rq_lock, dev_lock, status, qvars, avail_idx, used, used_idx,
                 dstat, undone, seen_used, irq, isr, th, halt>>

DevComplete ==
  /\ halt = "no"
  /\ \E h \in devset, res \in {"OK"} \cup (IF Errors THEN {"ERR"} ELSE {}) :
       /\ devset' = devset \ {h}
       /\ undone' = undone \cup {h}
       /\ used' = [used EXCEPT ![used_idx % queue_size] = h]
       /\ dstat' = [dstat EXCEPT ![desc_virt[h]] = res]
  /\ irq' = TRUE
  /\ used_idx' = (used_idx + 1) % IDX
  /\ UNCHANGED <<lvars, rq_lock, dev_lock, status, qvars, avail, avail_idx, devpos,
                 seen_used, isr, th, halt>>

(* virtio_blk_isr: the loop reads used->idx afresh in every round, and once  *)
(* more when it stores how far it has come.                                  *)
IsrEnter ==
  /\ halt = "no" /\ isr = -1
  /\ irq
  /\ \A t \in THREAD : Yields(t)
  /\ isr' = seen_used
  /\ irq' = AckLate
  /\ UNCHANGED <<lvars, rq_lock, dev_lock, status, qvars, rvars, seen_used, th, halt>>

(* virtq_free_desc of the three, in the order d[1], d[2], d[3].              *)
Freed_bug(d) == [dnext EXCEPT ![d[1]] = free_desc, ![d[3]] = d[2]]
Freed(d) == [dnext EXCEPT ![d[1]] = free_desc, ![d[2]] = d[1], ![d[3]] = d[2]]

Malformed(d) == ~dflag[d[1]] \/ ~dflag[d[2]] \/ dlen[d[1]] # "hdr" \/ dlen[d[3]] # "foot"

Woken_bug(r) == {t \in THREAD : th[t].pc = "sleep" /\ th[t].cur = r /\ dstat[r] = "OK"}
Woken(r) == {t \in THREAD : th[t].pc = "sleep" /\ th[t].cur = r}

(* The macro clears the bit of queue_size.                                   *)
wrap(x) == IF x >= queue_size THEN x - queue_size ELSE x

(* virtio_blk_handle_used and blkdev_general_endio.                          *)
IsrStep ==
  LET d1 == used[isr]
      d == <<d1, dnext[d1], dnext[dnext[d1]]>>
      r == desc_virt[d1]
  IN
  /\ halt = "no" /\ isr \in D
  /\ isr # used_idx % queue_size
  /\ isr' = wrap(isr + 1)
  /\ undone' = undone \ {d1}
  /\ used' = [used EXCEPT ![isr] = 0]
  /\ IF Malformed(d)
     THEN UNCHANGED <<qvars, status, dstat, th, halt>>
     ELSE /\ dnext' = Freed(d)
          /\ free_desc' = d[3]
          /\ desc_virt' = [x \in D |-> IF x \in {d[1], d[2], d[3]} THEN NULL ELSE desc_virt[x]]
          /\ status' = [status EXCEPT ![r] = dstat[r]]
          /\ dstat' = [dstat EXCEPT ![r] = "INIT"]
          /\ th' = [t \in THREAD |-> IF t \in Woken(r) THEN [th[t] EXCEPT !.pc = "woken"]
                                     ELSE th[t]]
          /\ halt' = IF r \in live THEN "no" ELSE "list"
          /\ UNCHANGED <<dflag, dlen>>
  /\ UNCHANGED <<lvars, rq_lock, dev_lock, avail, avail_idx, used_idx, devpos, devset,
                 seen_used, irq>>

IsrLoopEnd ==
  /\ halt = "no" /\ isr = used_idx % queue_size
  /\ isr' = queue_size
  /\ UNCHANGED <<lvars, rq_lock, dev_lock, status, qvars, rvars, seen_used, irq, th, halt>>

SeenUsed == used_idx % queue_size

IsrStore ==
  /\ halt = "no" /\ isr = queue_size
  /\ seen_used' = SeenUsed
  /\ isr' = queue_size + 1
  /\ UNCHANGED <<lvars, rq_lock, dev_lock, status, qvars, rvars, irq, th, halt>>

IsrAck ==
  /\ halt = "no" /\ isr = queue_size + 1
  /\ isr' = -1
  /\ irq' = (irq /\ ~AckLate)
  /\ UNCHANGED <<lvars, rq_lock, dev_lock, status, qvars, rvars, seen_used, th, halt>>

-----------------------------------------------------------------------------
ThreadStep(t) ==
  \/ StartExt4(t) \/ StartDevfs(t) \/ Submit(t) \/ DescRead(t) \/ DescTake(t)
  \/ Send(t) \/ WaitAll(t) \/ WaitEach(t) \/ FreeAll(t) \/ Ext4Done(t)

Next ==
  \/ \E t \in THREAD : ThreadStep(t)
  \/ DevFetch \/ DevComplete
  \/ IsrEnter \/ IsrStep \/ IsrLoopEnd \/ IsrStore \/ IsrAck

Spec == Init /\ [][Next]_vars

(* The device serves every chain, its interrupt is taken, and a thread that  *)
(* has entered a call is scheduled; no thread has to start a call.           *)
FairSpec ==
  /\ Spec
  /\ WF_vars(DevFetch) /\ WF_vars(DevComplete)
  /\ WF_vars(IsrEnter) /\ WF_vars(IsrStep \/ IsrLoopEnd \/ IsrStore \/ IsrAck)
  /\ \A t \in THREAD : WF_vars(th[t].pc # "idle" /\ ThreadStep(t))

-----------------------------------------------------------------------------
(* The free descriptors, from free_desc on.                                  *)
FreeChain == LET c[n \in 0 .. queue_size] ==
                   IF n = 0 THEN free_desc
                   ELSE IF c[n - 1] \in D THEN dnext[c[n - 1]] ELSE queue_size
             IN  {c[n] : n \in 0 .. queue_size}
Chain(h) == {h, dnext[h], dnext[dnext[h]]}

(* Chains handed to the device and not yet handled: waiting in the available *)
(* ring, worked on, or completed.                                            *)
Queued == {avail[(devpos + k) % queue_size] :
             k \in {j \in 0 .. queue_size - 1 : j < (avail_idx - devpos) % IDX}}
InFlight == Queued \cup devset \cup undone
Taken == UNION {{th[t].d[i] : i \in 1 .. Len(th[t].d)} : t \in THREAD}

(* Types.                                                                    *)
TypeOK ==
  /\ conf \in Confs
  /\ nxt \in [Node -> Node] /\ prv \in [Node -> Node]
  /\ rq_lock \in THREAD \cup {NULL} /\ dev_lock \in THREAD \cup {NULL}
  /\ live \subseteq REQ /\ status \in [REQ -> {"INIT", "OK", "ERR"}]
  /\ dnext \in [D -> 0 .. queue_size] /\ dflag \in [D -> BOOLEAN]
  /\ dlen \in [D -> {"none", "hdr", "data", "foot"}]
  /\ free_desc \in 0 .. queue_size /\ desc_virt \in [D -> REQ \cup {NULL}]
  /\ avail \in [D -> D] /\ used \in [D -> D]
  /\ {avail_idx, used_idx, devpos} \subseteq 0 .. IDX - 1 /\ seen_used \in D
  /\ devset \subseteq D /\ undone \subseteq D /\ dstat \in [REQ -> {"INIT", "OK", "ERR"}]
  /\ isr \in -1 .. queue_size + 1 /\ irq \in BOOLEAN
  /\ halt \in {"no", "assert", "list", "overrun"}

(* Each descriptor is in the free chain, held by a thread that is building a *)
(* chain, or part of exactly one chain that the device has: none is used     *)
(* twice, none is lost.                                                      *)
DescOwnedOnce ==
  LET free == FreeChain \ {queue_size} IN
  /\ \A h \in InFlight : Cardinality(Chain(h)) = 3 /\ Chain(h) \cap (free \cup Taken) = {}
  /\ \A g, h \in InFlight : g # h => Chain(g) \cap Chain(h) = {}
  /\ free \cap Taken = {}
  /\ Cardinality(free) + Cardinality(Taken) + 3 * Cardinality(InFlight) = queue_size

(* A chain the device has is well formed and belongs to an allocated request *)
(* that is not completed, and no two chains to the same: the handler never   *)
(* meets malformed descriptors, never completes a request twice or one whose *)
(* memory has been given to somebody else.                                   *)
ChainsSound ==
  /\ \A h \in InFlight :
       /\ ~Malformed(<<h, dnext[h], dnext[dnext[h]]>>)
       /\ desc_virt[h] \in live /\ status[desc_virt[h]] = "INIT"
       /\ \A d \in Chain(h) : desc_virt[d] = desc_virt[h]
  /\ \A g, h \in InFlight : desc_virt[g] = desc_virt[h] => g = h

(* Both: what virtq_alloc_desc, virtio_blk_submit and the handler pass on to *)
(* each other and to the device stays a set of whole, separate chains.       *)
ChainsOwned == DescOwnedOnce /\ ChainsSound

(* A thread sleeps only on a request that the device has still to complete   *)
(* or the handler to handle: submitting and falling asleep, or checking the  *)
(* status and falling asleep, lets no wakeup slip through.                   *)
SleepersAwaited ==
  halt = "no" => \A t \in THREAD : th[t].pc = "sleep" =>
                   \E h \in InFlight : desc_virt[h] = th[t].cur

(* "when the device has finished the request, an interrupt tells the driver, *)
(* which ... wakes the waiting process" (virtio.md:166): a thread that       *)
(* sleeps on a request wakes, unless the kernel has stopped.                 *)
SleepEnds ==
  \A t \in THREAD : (th[t].pc = "sleep" /\ halt = "no") ~> (th[t].pc # "sleep" \/ halt # "no")

(* The same where ext4 is the only user: with one request at a time nothing  *)
(* completes behind the handler's back.                                      *)
Ext4SleepEnds ==
  \A t \in THREAD : (conf.users = {"ext4"} /\ th[t].pc = "sleep" /\ halt = "no")
                       ~> (th[t].pc # "sleep" \/ halt # "no")
=============================================================================
