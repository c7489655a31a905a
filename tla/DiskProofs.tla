---------------------------- MODULE DiskProofs ----------------------------
(* The virtqueue is kept whole, for every number of threads, requests and    *)
(* descriptors, wherever one user has the device and is not preempted inside *)
(* the driver: ext4 on both machines, or /dev block files on LoongArch.  The *)
(* steps of the device and of the interrupt handler, and the theorems; the   *)
(* invariant and the calls of the driver are in DriverProofs.                *)
EXTENDS DriverProofs

(* A step of the device or of the handler that leaves the calls alone, and   *)
(* the chains in flight as they are.                                         *)
LEMMA CallsKept ==
  ASSUME DiskInv, InFlight' = InFlight, UNCHANGED <<conf, live, status, dev_lock, qvars, th>>,
         isr' # -1 => isr # -1 \/ \A t \in THREAD : ~Busy(t)
  PROVE  TurnInv' /\ BuildInv' /\ OwnInv' /\ ServeInv'
<1>1. UNCHANGED <<conf, live, status, dev_lock, dnext, dflag, dlen, free_desc, desc_virt, th>>
  BY DEF qvars
<1>2. TurnInv'
  BY <1>1 DEF DiskInv, TurnInv, Busy
<1>3. BuildInv'
  BY <1>1 DEF DiskInv, BuildInv, Building, Built
<1>4. OwnInv'
  <2>1. Taken' = Taken
    BY <1>1 DEF Taken
  <2>2. PICK S : FreeSet(dnext, free_desc, S) /\ Owned(dnext, S, Taken, InFlight)
    BY DEF DiskInv, OwnInv
  <2>3. FreeSet(dnext', free_desc', S) /\ Owned(dnext', S, Taken', InFlight')
    BY <2>1, <2>2, <1>1
  <2> QED BY <2>3 DEF OwnInv
<1>5. ServeInv'
  BY <1>1 DEF DiskInv, ServeInv
<1> QED BY <1>2, <1>3, <1>4, <1>5

LEMMA RequestsKept ==
  ASSUME DiskInv, InFlight' = InFlight, UNCHANGED <<live, status, desc_virt, th>>,
         \A h \in undone' : dstat'[desc_virt[h]] # "INIT"
  PROVE  RequestInv'
BY DEF DiskInv, RequestInv, Building

LEMMA DevFetchStep ==
  ASSUME OneUser, DiskInv, DevFetch
  PROVE  DiskInv'
<1>1. /\ devpos # avail_idx
      /\ devset' = devset \cup {avail[devpos % queue_size]}
      /\ devpos' = (devpos + 1) % IDX
      /\ avail' = [avail EXCEPT ![devpos % queue_size] = 0]
      /\ UNCHANGED <<conf, live, status, dev_lock, qvars, avail_idx, used, used_idx, dstat,
                     undone, seen_used, isr, th>>
  BY DEF DevFetch, lvars
<1>0. queue_size \in Nat \ {0} /\ IDX \in Nat \ {0} /\ queue_size <= IDX
  BY Sizes
<1>2. avail \in [D -> D] /\ avail_idx \in 0 .. IDX - 1 /\ devpos \in 0 .. IDX - 1 /\ devset \subseteq D
  BY DEF DiskInv, QueueTypes
<1>3. PICK q, x : q = Pending /\ x = avail[devpos % queue_size]
  OBVIOUS
<1>4. q \in 0 .. IDX - 1 /\ q > 0 /\ (avail_idx - ((devpos + 1) % IDX)) % IDX = q - 1
  BY <1>1, <1>2, <1>3, AvailIndex DEF Pending
<1>5. q <= queue_size /\ Distinct(avail, devpos, q)
  BY <1>3 DEF DiskInv, AvailInv
<1>6. Queued = Entries(avail, devpos, q)
  <2>1. Pending \in Int /\ Pending <= queue_size
    BY <1>0, <1>3, <1>4, <1>5
  <2> QED BY <2>1, <1>3, QueuedRing
<1>7. PICK w, p : w = avail' /\ p = devpos'
  OBVIOUS
<1>8. /\ w \in [D -> D] /\ x \in D /\ x \in Entries(avail, devpos, q)
      /\ Entries(w, devpos + 1, q - 1) = Entries(avail, devpos, q) \ {x}
      /\ Distinct(w, devpos + 1, q - 1)
  <2>1. devpos \in Int /\ q \in 1 .. queue_size
    BY <1>0, <1>2, <1>4, <1>5
  <2>2. w = [avail EXCEPT ![devpos % queue_size] = 0]
    BY <1>1, <1>7
  <2>3. PICK u, b : u = avail /\ b = devpos
    OBVIOUS
  <2>4. u \in [D -> D] /\ b \in Int /\ Distinct(u, b, q) /\ x = u[b % queue_size]
    BY <2>1, <2>3, <1>2, <1>3, <1>5
  <2>5. w = [u EXCEPT ![b % queue_size] = 0]
    BY <2>2, <2>3
  <2>6. Popped(u, b, q, x, w)
    BY <2>1, <2>4, <2>5 DEF Popped
  <2>7. /\ w \in [D -> D] /\ x \in D /\ x \in Entries(u, b, q)
        /\ Entries(w, b + 1, q - 1) = Entries(u, b, q) \ {x}
        /\ Distinct(w, b + 1, q - 1)
    BY <2>6, RingPop
  <2> QED BY <2>3, <2>7
<1>9. p \in 0 .. IDX - 1 /\ p % queue_size = (devpos + 1) % queue_size
  <2>1. p = (devpos + 1) % IDX
    BY <1>1, <1>7
  <2>2. /\ (devpos + 1) % IDX \in 0 .. IDX - 1
        /\ ((devpos + 1) % IDX) % queue_size = (devpos + 1) % queue_size
    BY <1>2, IdxWrap
  <2> QED BY <2>1, <2>2
<1>10. Entries(w, p, q - 1) = Queued \ {x} /\ Distinct(w, p, q - 1)
  <2>1. p \in Int /\ devpos + 1 \in Int /\ q - 1 \in Int
    BY <1>0, <1>2, <1>4, <1>9
  <2>2. PICK e, k : e = devpos + 1 /\ k = q - 1
    OBVIOUS
  <2>3. e \in Int /\ k \in Int /\ p % queue_size = e % queue_size
    BY <2>1, <2>2, <1>9
  <2>4. Entries(w, p, k) = Entries(w, e, k) /\ (Distinct(w, p, k) <=> Distinct(w, e, k))
    BY <2>1, <2>3, RingBase
  <2> QED BY <2>2, <2>4, <1>6, <1>8
<1>11. Pending' = q - 1
  <2>1. Pending' = (avail_idx - ((devpos + 1) % IDX)) % IDX
    BY <1>1 DEF Pending
  <2> QED BY <2>1, <1>4
<1>12. Queued' = Queued \ {x}
  <2>1. Queued' = {avail'[(devpos' + k) % queue_size] :
                     k \in {j \in 0 .. queue_size - 1 : j < Pending'}}
    BY DEF Queued, Pending
  <2>2. PICK v : v = q - 1
    OBVIOUS
  <2>3. v \in Int /\ v <= queue_size
    BY <2>2, <1>0, <1>4, <1>5
  <2>4. {w[(p + k) % queue_size] : k \in {j \in 0 .. queue_size - 1 : j < v}} = Entries(w, p, v)
    BY <2>3, RingPart
  <2> QED BY <2>1, <2>2, <2>4, <1>7, <1>10, <1>11
<1>13. InFlight' = InFlight
  BY <1>1, <1>3, <1>6, <1>8, <1>12 DEF InFlight
<1>14. AvailInv'
  <2>1. Pending' <= queue_size /\ Distinct(avail', devpos', Pending')
    BY <1>0, <1>4, <1>5, <1>7, <1>10, <1>11
  <2>2. x \notin undone
    BY <1>6, <1>8 DEF DiskInv, AvailInv
  <2> QED BY <2>1, <2>2, <1>1, <1>3, <1>12 DEF DiskInv, AvailInv
<1>15. UsedInv'
  BY <1>1 DEF DiskInv, UsedInv, Base, Done
<1>16. QueueTypes' /\ CallTypes'
  BY <1>1, <1>2, <1>3, <1>7, <1>8, <1>9 DEF DiskInv, QueueTypes, CallTypes, qvars
<1>17. TurnInv' /\ BuildInv' /\ OwnInv' /\ ServeInv'
  BY <1>1, <1>13, CallsKept
<1>18. RequestInv'
  <2>1. desc_virt' = desc_virt
    BY <1>1 DEF qvars
  <2>2. \A h \in undone' : dstat'[desc_virt[h]] # "INIT"
    BY <1>1 DEF DiskInv, RequestInv
  <2> QED BY <2>1, <2>2, <1>1, <1>13, RequestsKept
<1> QED BY <1>14, <1>15, <1>16, <1>17, <1>18 DEF DiskInv

LEMMA DevCompleteStep ==
  ASSUME OneUser, DiskInv, DevComplete
  PROVE  DiskInv'
<1>1. PICK h \in devset, res \in {"OK", "ERR"} :
        /\ devset' = devset \ {h} /\ undone' = undone \cup {h}
        /\ used' = [used EXCEPT ![used_idx % queue_size] = h]
        /\ dstat' = [dstat EXCEPT ![desc_virt[h]] = res]
  BY Zenon DEF DevComplete
<1>2. /\ used_idx' = (used_idx + 1) % IDX
      /\ UNCHANGED <<conf, live, status, dev_lock, qvars, avail, avail_idx, devpos, seen_used, isr, th>>
  BY DEF DevComplete, lvars
<1>0. queue_size \in Nat \ {0} /\ IDX \in Nat \ {0} /\ D = 0 .. queue_size - 1
  BY Sizes
<1>3. /\ used \in [D -> D] /\ used_idx \in 0 .. IDX - 1 /\ devset \subseteq D /\ undone \subseteq D
      /\ isr \in -1 .. queue_size + 1 /\ seen_used \in D
  BY DEF DiskInv, QueueTypes
<1>4. h \in D /\ h \in InFlight /\ h \notin undone /\ h \notin Queued
  BY <1>3 DEF InFlight, DiskInv, AvailInv
<1>5. InFlight' = InFlight /\ Queued' = Queued /\ Pending' = Pending
  <2>1. Queued' = Queued /\ Pending' = Pending
    BY <1>2 DEF Queued, Pending
  <2> QED BY <2>1, <1>1 DEF InFlight
<1>6. AvailInv'
  <2> HIDE DEF Pending
  <2> QED BY <1>1, <1>2, <1>4, <1>5 DEF DiskInv, AvailInv
<1>7. UNCHANGED <<dnext, dflag, dlen, free_desc, desc_virt>>
  BY <1>2 DEF qvars
<1>8. /\ used_idx' \in 0 .. IDX - 1 /\ used' \in [D -> D]
  <2>1. used_idx' \in 0 .. IDX - 1
    BY <1>2, <1>3, IdxWrap
  <2> QED BY <2>1, <1>1, <1>3, <1>4, Zenon
<1>9. desc_virt[h] \in live /\ status[desc_virt[h]] = "INIT" /\ desc_virt[h] \in REQ
  BY <1>4 DEF DiskInv, ServeInv, Open, CallTypes
<1>10. dstat \in [REQ -> Result] /\ dstat' \in [REQ -> Result]
  BY <1>1, ZenonT(40) DEF DiskInv, CallTypes, Result
<1>11. QueueTypes' /\ CallTypes'
  BY <1>1, <1>2, <1>3, <1>4, <1>7, <1>8, <1>10 DEF DiskInv, QueueTypes, CallTypes
<1>12. TurnInv' /\ BuildInv' /\ OwnInv' /\ ServeInv'
  BY <1>2, <1>5, CallsKept
<1>13. RequestInv'
  <2>1. ASSUME NEW g \in undone' PROVE dstat'[desc_virt[g]] # "INIT"
    <3>1. g = h \/ g \in undone
      BY <1>1
    <3>2. CASE g = h
      BY <3>2, <1>1, <1>9, <1>10
    <3>3. CASE g \in undone /\ g # h
      <4>1. g \in InFlight
        BY <3>3 DEF InFlight
      <4>2. desc_virt[g] # desc_virt[h] /\ desc_virt[g] \in REQ
        BY <3>3, <4>1, <1>4 DEF DiskInv, ServeInv, Serves, Open, CallTypes
      <4>3. dstat[desc_virt[g]] # "INIT"
        BY <3>3 DEF DiskInv, RequestInv
      <4> QED BY <4>2, <4>3, <1>1, <1>10
    <3> QED BY <3>1, <3>2, <3>3
  <2> QED BY <2>1, <1>2, <1>5, <1>7, RequestsKept
<1>14. UsedInv'
  <2> SUFFICES ASSUME isr' # queue_size
               PROVE  Distinct(used', Base', Done') /\ Entries(used', Base', Done') \subseteq undone'
    BY DEF UsedInv
  <2>1. PICK b, k : b = Base /\ k = Done
    OBVIOUS
  <2>2. b \in D /\ Base' = b
    BY <2>1, <1>2, <1>3 DEF Base
  <2>3. Distinct(used, b, k) /\ Entries(used, b, k) \subseteq undone
    BY <2>1, <1>2 DEF DiskInv, UsedInv
  <2>4. /\ k \in 0 .. queue_size - 1 /\ (b + k) % queue_size = used_idx % queue_size
        /\ k + 1 < queue_size => (((used_idx + 1) % IDX) - b) % queue_size = k + 1
    BY <2>1, <2>2, <1>3, UsedIndex DEF Done
  <2>5. PICK S : Owned(dnext, S, Taken, InFlight)
    BY DEF DiskInv, OwnInv
  <2>6. /\ IsFiniteSet(InFlight) /\ Cardinality(InFlight) \in Nat
        /\ Cardinality(Taken) \in Nat /\ 3 * Cardinality(InFlight) + Cardinality(Taken) <= queue_size
    BY <2>5, FlightBound
  <2>7. k <= Cardinality(InFlight \ {h})
    <3>1. Entries(used, b, k) \subseteq InFlight \ {h}
      BY <2>3, <1>4 DEF InFlight
    <3>2. IsFiniteSet(InFlight \ {h})
      BY <2>6, FinRemove, Zenon
    <3>3. b \in Int /\ k \in Nat
      BY <2>2, <2>4, <1>0
    <3> QED BY <3>1, <3>2, <3>3, <2>3, RingBound
  <2>8. Cardinality(InFlight \ {h}) = Cardinality(InFlight) - 1
    BY <2>6, <1>4, FinRemove, Zenon
  <2>9. k + 1 < queue_size
    BY <2>4, <2>6, <2>7, <2>8, <1>0
  <2>10. PICK w : w = used'
    OBVIOUS
  <2>11. w = [used EXCEPT ![(b + k) % queue_size] = h]
    BY <2>4, <2>10, <1>1, ZenonT(40)
  <2>12. /\ Entries(w, b, k + 1) = Entries(used, b, k) \cup {h}
         /\ Distinct(w, b, k + 1)
    <3>1. h \notin Entries(used, b, k) /\ b \in Int
      BY <2>2, <2>3, <1>0, <1>4
    <3>2. Pushed(used, b, k, h, w)
      BY <3>1, <2>3, <2>4, <2>11, <1>3, <1>4 DEF Pushed
    <3> QED BY <3>2, RingPush
  <2>13. Done' = k + 1
    <3>1. Done' = (((used_idx + 1) % IDX) - b) % queue_size
      BY <2>2, <1>2 DEF Done
    <3> QED BY <3>1, <2>4, <2>9
  <2> QED BY <2>2, <2>3, <2>10, <2>12, <2>13, <1>1, ZenonT(40)
<1> QED BY <1>6, <1>11, <1>12, <1>13, <1>14 DEF DiskInv

(* The handler, where it only moves its index.                               *)
LEMMA IsrMoves ==
  ASSUME OneUser, DiskInv, UNCHANGED <<conf, live, status, dev_lock, qvars, rvars, th>>,
         seen_used' \in D, isr' \in -1 .. queue_size + 1, UsedInv',
         isr' # -1 => isr # -1 \/ \A t \in THREAD : ~Busy(t)
  PROVE  DiskInv'
<1>1. /\ UNCHANGED <<dnext, dflag, dlen, free_desc, desc_virt>>
      /\ UNCHANGED <<avail, avail_idx, used, used_idx, devpos, devset, dstat, undone>>
  BY DEF qvars, rvars
<1>2. InFlight' = InFlight /\ Queued' = Queued /\ Pending' = Pending
  BY <1>1, SameFlight
<1>3. AvailInv'
  <2> HIDE DEF Pending
  <2> QED BY <1>1, <1>2 DEF DiskInv, AvailInv
<1>4. QueueTypes' /\ CallTypes'
  BY <1>1 DEF DiskInv, QueueTypes, CallTypes
<1>5. TurnInv' /\ BuildInv' /\ OwnInv' /\ ServeInv'
  BY <1>2, CallsKept
<1>6. RequestInv'
  <2>1. \A h \in undone' : dstat'[desc_virt[h]] # "INIT"
    BY <1>1 DEF DiskInv, RequestInv
  <2> QED BY <2>1, <1>1, <1>2, RequestsKept
<1> QED BY <1>3, <1>4, <1>5, <1>6 DEF DiskInv

LEMMA IsrEnterStep ==
  ASSUME OneUser, DiskInv, IsrEnter
  PROVE  DiskInv'
<1>1. /\ isr = -1 /\ isr' = seen_used /\ \A t \in THREAD : Yields(t)
      /\ UNCHANGED <<conf, live, status, dev_lock, qvars, rvars, seen_used, th>>
  BY DEF IsrEnter, lvars
<1>0. queue_size \in Nat \ {0} /\ D = 0 .. queue_size - 1
  BY Sizes
<1>2. seen_used \in D
  BY DEF DiskInv, QueueTypes
<1>3. UsedInv'
  <2>1. used' = used /\ used_idx' = used_idx /\ undone' = undone
    BY <1>1 DEF rvars
  <2>2. Base = seen_used /\ Base' = seen_used
    BY <1>0, <1>1, <1>2 DEF Base
  <2>3. Done' = Done
    BY <2>1, <2>2 DEF Done
  <2>4. isr # queue_size
    BY <1>0, <1>1
  <2> QED BY <2>1, <2>2, <2>3, <2>4 DEF DiskInv, UsedInv
<1>4. \A t \in THREAD : ~Busy(t)
  <2> SUFFICES ASSUME NEW t \in THREAD, Busy(t) PROVE FALSE
    OBVIOUS
  <2>1. conf.arch = "riscv" /\ th[t].kind = "devfs"
    BY <1>1 DEF Yields, Busy, Preempt
  <2>2. th[t].kind \in conf.users
    BY DEF DiskInv, TurnInv, Busy
  <2> QED BY <2>1, <2>2 DEF OneUser, DiskInv, CallTypes
<1>5. isr' \in -1 .. queue_size + 1 /\ seen_used' \in D
  BY <1>0, <1>1, <1>2
<1> QED BY <1>1, <1>3, <1>4, <1>5, IsrMoves

LEMMA IsrLoopEndStep ==
  ASSUME OneUser, DiskInv, IsrLoopEnd
  PROVE  DiskInv'
<1>1. /\ isr = used_idx % queue_size /\ isr' = queue_size
      /\ UNCHANGED <<conf, live, status, dev_lock, qvars, rvars, seen_used, th>>
  BY DEF IsrLoopEnd, lvars
<1>0. queue_size \in Nat \ {0} /\ IDX \in Nat \ {0}
  BY Sizes
<1>2. seen_used \in D /\ used_idx \in 0 .. IDX - 1
  BY DEF DiskInv, QueueTypes
<1>3. isr # -1
  <2>1. used_idx \in Int
    BY <1>0, <1>2
  <2>2. used_idx % queue_size \in 0 .. queue_size - 1
    BY <2>1, <1>0, ModBasic
  <2> QED BY <2>2, <1>0, <1>1
<1>4. UsedInv'
  BY <1>1 DEF UsedInv
<1>5. isr' \in -1 .. queue_size + 1 /\ seen_used' \in D
  BY <1>0, <1>1, <1>2
<1> QED BY <1>1, <1>3, <1>4, <1>5, IsrMoves

LEMMA IsrStoreStep ==
  ASSUME OneUser, DiskInv, IsrStore
  PROVE  DiskInv'
<1>1. /\ isr = queue_size /\ isr' = queue_size + 1 /\ seen_used' = used_idx % queue_size
      /\ UNCHANGED <<conf, live, status, dev_lock, qvars, rvars, th>>
  BY DEF IsrStore, SeenUsed, lvars
<1>0. queue_size \in Nat \ {0} /\ IDX \in Nat \ {0} /\ D = 0 .. queue_size - 1
  BY Sizes
<1>2. used_idx \in 0 .. IDX - 1
  BY DEF DiskInv, QueueTypes
<1>3. PICK b : b = used_idx % queue_size
  OBVIOUS
<1>4. b \in D
  <2>1. used_idx \in Int
    BY <1>0, <1>2
  <2> QED BY <2>1, <1>0, <1>3, ModBasic
<1>5. (used_idx - b) % queue_size = 0
  BY <1>2, <1>3, <1>4, UsedIndex
<1>6. UsedInv'
  <2>1. Base' = b
    BY <1>0, <1>1, <1>3 DEF Base
  <2>2. Done' = 0
    BY <2>1, <1>1, <1>5 DEF Done, rvars
  <2>3. 0 .. 0 - 1 = {}
    OBVIOUS
  <2>4. Distinct(used', b, 0) /\ Entries(used', b, 0) = {}
    BY <2>3 DEF Distinct, Entries
  <2> QED BY <2>1, <2>2, <2>4 DEF UsedInv
<1>7. isr' \in -1 .. queue_size + 1 /\ seen_used' \in D /\ isr # -1
  BY <1>0, <1>1, <1>3, <1>4
<1> QED BY <1>1, <1>6, <1>7, IsrMoves

LEMMA IsrAckStep ==
  ASSUME OneUser, DiskInv, IsrAck
  PROVE  DiskInv'
<1>1. /\ isr = queue_size + 1 /\ isr' = -1
      /\ UNCHANGED <<conf, live, status, dev_lock, qvars, rvars, seen_used, th>>
  BY DEF IsrAck, lvars
<1>0. queue_size \in Nat \ {0} /\ D = 0 .. queue_size - 1
  BY Sizes
<1>2. UsedInv'
  <2>1. used' = used /\ used_idx' = used_idx /\ undone' = undone
    BY <1>1 DEF rvars
  <2>2. Base = seen_used /\ Base' = seen_used
    BY <1>0, <1>1 DEF Base
  <2>3. Done' = Done
    BY <2>1, <2>2 DEF Done
  <2>4. isr # queue_size
    BY <1>0, <1>1
  <2> QED BY <2>1, <2>2, <2>3, <2>4 DEF DiskInv, UsedInv
<1>3. isr' \in -1 .. queue_size + 1 /\ seen_used' \in D
  BY <1>0, <1>1 DEF DiskInv, QueueTypes
<1> QED BY <1>1, <1>2, <1>3, IsrMoves

(* The handler frees one chain, completes its request and wakes the threads  *)
(* that sleep on it.                                                         *)
LEMMA IsrStepStep ==
  ASSUME OneUser, DiskInv, IsrStep
  PROVE  DiskInv'
<1>0. queue_size \in Nat \ {0} /\ IDX \in Nat \ {0} /\ D = 0 .. queue_size - 1
  BY Sizes
<1>1. PICK h, x, y, r : h = used[isr] /\ x = dnext[h] /\ y = dnext[dnext[h]] /\ r = desc_virt[h]
  OBVIOUS
<1>2. /\ isr \in D /\ isr # used_idx % queue_size /\ isr' = wrap(isr + 1)
      /\ undone' = undone \ {h} /\ used' = [used EXCEPT ![isr] = 0]
      /\ UNCHANGED <<conf, live, dev_lock, avail, avail_idx, used_idx, devpos, devset, seen_used>>
  BY <1>1 DEF IsrStep, lvars
<1>3. /\ used \in [D -> D] /\ used_idx \in 0 .. IDX - 1 /\ undone \subseteq D
      /\ dnext \in [D -> 0 .. queue_size] /\ desc_virt \in [D -> REQ \cup {NULL}]
  BY DEF DiskInv, QueueTypes
<1>4. PICK b, k, w : b = isr /\ k = Done /\ w = used'
  OBVIOUS
<1>5. /\ isr # -1 /\ isr # queue_size /\ Base = b /\ b \in D /\ b \in Int
  BY <1>0, <1>2, <1>4 DEF Base
<1>6. /\ k \in 0 .. queue_size - 1
      /\ wrap(b + 1) \in D /\ wrap(b + 1) % queue_size = (b + 1) % queue_size
      /\ k > 0 /\ (used_idx - wrap(b + 1)) % queue_size = k - 1
  <2>1. k = (used_idx - b) % queue_size /\ b # used_idx % queue_size
    BY <1>2, <1>4, <1>5 DEF Done
  <2> HIDE DEF wrap
  <2> QED BY <2>1, <1>3, <1>5, UsedIndex
<1>7. Distinct(used, b, k) /\ Entries(used, b, k) \subseteq undone
  BY <1>4, <1>5 DEF DiskInv, UsedInv
<1>8. /\ w \in [D -> D] /\ h \in D /\ h \in Entries(used, b, k)
      /\ Entries(w, b + 1, k - 1) = Entries(used, b, k) \ {h}
      /\ Distinct(w, b + 1, k - 1)
  <2>1. b % queue_size = b
    BY <1>0, <1>5, ModSmall
  <2>2. h = used[b % queue_size] /\ w = [used EXCEPT ![b % queue_size] = 0]
    BY <2>1, <1>1, <1>2, <1>4, ZenonT(40)
  <2>3. k \in 1 .. queue_size
    BY <1>0, <1>6
  <2>4. Popped(used, b, k, h, w)
    BY <2>2, <2>3, <1>3, <1>5, <1>7 DEF Popped
  <2> QED BY <2>4, RingPop
<1>9. h \in undone /\ h \in InFlight /\ h \notin Queued /\ h \notin devset
  BY <1>7, <1>8 DEF DiskInv, AvailInv, InFlight
<1>10. UsedInv'
  <2>1. PICK c, e, m : c = wrap(b + 1) /\ e = b + 1 /\ m = k - 1
    OBVIOUS
  <2>2. c \in D /\ c \in Int /\ e \in Int /\ m \in Int /\ c % queue_size = e % queue_size
    BY <2>1, <1>0, <1>5, <1>6
  <2>3. Base' = c /\ isr' = c
    BY <2>1, <2>2, <1>2, <1>4 DEF Base
  <2>4. Done' = m
    <3>1. Done' = (used_idx - c) % queue_size
      BY <2>3, <1>2 DEF Done
    <3> QED BY <3>1, <2>1, <1>6
  <2>5. Entries(w, c, m) = Entries(w, e, m) /\ (Distinct(w, c, m) <=> Distinct(w, e, m))
    BY <2>2, RingBase
  <2>6. Distinct(w, c, m) /\ Entries(w, c, m) \subseteq undone \ {h}
    BY <2>1, <2>5, <1>7, <1>8
  <2> QED BY <2>3, <2>4, <2>6, <1>2, <1>4, ZenonT(40) DEF UsedInv
<1>11. Queued' = Queued /\ Pending' = Pending
  BY <1>2 DEF Queued, Pending
<1>12. InFlight' = InFlight \ {h}
  BY <1>2, <1>9, <1>11 DEF InFlight
<1>13. AvailInv'
  <2> HIDE DEF Pending
  <2> QED BY <1>2, <1>11 DEF DiskInv, AvailInv
<1>14. \A t \in THREAD : ~Busy(t) /\ ~Building(t) /\ th[t].d = <<>>
  <2>1. \A t \in THREAD : ~Busy(t)
    BY <1>5 DEF DiskInv, TurnInv
  <2>2. \A t \in THREAD : ~Building(t)
    BY <2>1 DEF Busy, Building
  <2> QED BY <2>1, <2>2 DEF DiskInv, BuildInv
<1>15. /\ dflag[h] /\ dflag[x] /\ dlen[h] = "hdr" /\ dlen[y] = "foot"
       /\ r \in live /\ status[r] = "INIT" /\ dstat[r] # "INIT" /\ r \in REQ
       /\ \A g \in InFlight \ {h} : desc_virt[g] # r
  <2>1. /\ dflag[h] /\ dflag[x] /\ dlen[h] = "hdr" /\ dlen[y] = "foot"
    BY <1>1, <1>9 DEF DiskInv, ServeInv, Serves
  <2>2. r \in live /\ status[r] = "INIT" /\ r \in REQ
    BY <1>1, <1>9 DEF DiskInv, ServeInv, Open, CallTypes
  <2>3. dstat[r] # "INIT"
    BY <1>1, <1>9, ZenonT(40) DEF DiskInv, RequestInv
  <2>4. \A g \in InFlight \ {h} : desc_virt[g] # r
    BY <1>1, <1>9 DEF DiskInv, ServeInv, Serves
  <2> QED BY <2>1, <2>2, <2>3, <2>4
<1>16. /\ dnext' = [dnext EXCEPT ![h] = free_desc, ![x] = h, ![y] = x]
       /\ free_desc' = y
       /\ desc_virt' = [z \in D |-> IF z \in {h, x, y} THEN NULL ELSE desc_virt[z]]
       /\ status' = [status EXCEPT ![r] = dstat[r]]
       /\ dstat' = [dstat EXCEPT ![r] = "INIT"]
       /\ th' = [t \in THREAD |-> IF th[t].pc = "sleep" /\ th[t].cur = r
                                  THEN [th[t] EXCEPT !.pc = "woken"] ELSE th[t]]
       /\ UNCHANGED <<dflag, dlen>>
  <2>1. ~Malformed(<<h, x, y>>)
    BY <1>15 DEF Malformed
  <2>2. /\ dnext' = Freed(<<h, x, y>>) /\ free_desc' = y
        /\ desc_virt' = [z \in D |-> IF z \in {h, x, y} THEN NULL ELSE desc_virt[z]]
        /\ status' = [status EXCEPT ![r] = dstat[r]]
        /\ dstat' = [dstat EXCEPT ![r] = "INIT"]
        /\ th' = [t \in THREAD |-> IF t \in Woken(r) THEN [th[t] EXCEPT !.pc = "woken"] ELSE th[t]]
        /\ UNCHANGED <<dflag, dlen>>
    BY <2>1, <1>1 DEF IsrStep
  <2> QED BY <2>2 DEF Freed, Woken
<1>17. PICK S : FreeSet(dnext, free_desc, S) /\ Owned(dnext, S, Taken, InFlight)
  BY DEF DiskInv, OwnInv
<1>18. PICK d2 : d2 = dnext'
  OBVIOUS
<1>19. /\ d2 \in [D -> 0 .. queue_size] /\ x \in D /\ y \in D
       /\ FreeSet(d2, y, S \cup {h, x, y})
       /\ Owned(d2, S \cup {h, x, y}, Taken, InFlight \ {h})
       /\ \A g \in InFlight \ {h} : /\ d2[g] = dnext[g] /\ d2[dnext[g]] = dnext[dnext[g]]
                                    /\ Parts(d2, g) = Parts(dnext, g)
                                    /\ Parts(dnext, g) \cap {h, x, y} = {}
  <2>1. Unlinked(dnext, free_desc, S, Taken, InFlight, h, x, y, d2)
    BY <1>1, <1>3, <1>9, <1>16, <1>17, <1>18 DEF Unlinked
  <2> QED BY <2>1, OwnFree, ZenonT(40)
<1>20. \A g \in InFlight \ {h} : /\ g \in D \ {h, x, y} /\ dnext[g] \in D \ {h, x, y}
                                 /\ dnext[dnext[g]] \in D \ {h, x, y}
  BY <1>17, <1>19, ZenonT(40) DEF Owned, Whole, Parts
<1>21. \A z \in D \ {h, x, y} : desc_virt'[z] = desc_virt[z]
  BY <1>16
<1>22. OwnInv'
  <2>1. Taken' = {} /\ Taken = {}
    <3>1. \A t \in THREAD : th'[t].d = <<>>
      BY <1>14, <1>16
    <3>2. Taken' = Collected(th') /\ Taken = Collected(th)
      BY DEF Taken, Collected
    <3> QED BY <3>1, <3>2, <1>14, CollectedNone
  <2>2. FreeSet(dnext', free_desc', S \cup {h, x, y})
        /\ Owned(dnext', S \cup {h, x, y}, Taken', InFlight')
    BY <2>1, <1>12, <1>16, <1>18, <1>19
  <2> QED BY <2>2 DEF OwnInv
<1>23. ServeInv'
  <2>1. ASSUME NEW g \in InFlight'
        PROVE  /\ dflag'[g] /\ dflag'[dnext'[g]] /\ dlen'[g] = "hdr" /\ dlen'[dnext'[dnext'[g]]] = "foot"
               /\ desc_virt'[dnext'[g]] = desc_virt'[g] /\ desc_virt'[dnext'[dnext'[g]]] = desc_virt'[g]
               /\ desc_virt'[g] \in live' /\ status'[desc_virt'[g]] = "INIT"
    <3>1. g \in InFlight \ {h} /\ g \in InFlight
      BY <1>12
    <3>2. /\ dflag[g] /\ dflag[dnext[g]] /\ dlen[g] = "hdr" /\ dlen[dnext[dnext[g]]] = "foot"
          /\ desc_virt[dnext[g]] = desc_virt[g] /\ desc_virt[dnext[dnext[g]]] = desc_virt[g]
      BY <3>1 DEF DiskInv, ServeInv, Serves
    <3>3. dnext'[g] = dnext[g] /\ dnext'[dnext[g]] = dnext[dnext[g]]
      BY <3>1, <1>18, <1>19
    <3>4. desc_virt[g] \in live /\ status[desc_virt[g]] = "INIT" /\ desc_virt[g] \in REQ
      BY <3>1 DEF DiskInv, ServeInv, Open, CallTypes
    <3>5. status'[desc_virt[g]] = "INIT"
      <4>1. desc_virt[g] # r
        BY <3>1, <1>15
      <4>2. status \in [REQ -> Result]
        BY DEF DiskInv, CallTypes
      <4> QED BY <3>4, <4>1, <4>2, <1>16
    <3>6. /\ desc_virt'[g] = desc_virt[g] /\ desc_virt'[dnext[g]] = desc_virt[dnext[g]]
          /\ desc_virt'[dnext[dnext[g]]] = desc_virt[dnext[dnext[g]]]
      BY <3>1, <1>20, <1>21
    <3> QED BY <3>2, <3>3, <3>4, <3>5, <3>6, <1>2, <1>16
  <2>2. \A e, g \in InFlight' : desc_virt'[e] = desc_virt'[g] => e = g
    <3>1. \A e \in InFlight' : e \in InFlight /\ desc_virt'[e] = desc_virt[e]
      BY <1>12, <1>20, <1>21
    <3> QED BY <3>1 DEF DiskInv, ServeInv, Serves
  <2> QED BY <2>1, <2>2 DEF ServeInv, Serves, Open
<1>24. BuildInv' /\ TurnInv'
  <2>1. PICK C : th \in [THREAD -> Thread(C)]
    BY DEF DiskInv, CallTypes
  <2>2. \A t \in THREAD : /\ th'[t].kind = th[t].kind /\ th'[t].d = th[t].d
                          /\ \/ th'[t].pc = th[t].pc
                             \/ th'[t].pc = "woken" /\ th[t].pc = "sleep"
    <3>1. \A t \in THREAD : /\ th'[t].kind = th[t].kind /\ th'[t].d = th[t].d
                            /\ th'[t].pc = IF th[t].pc = "sleep" /\ th[t].cur = r THEN "woken"
                                           ELSE th[t].pc
      BY <2>1, <1>16 DEF Thread
    <3> QED BY <3>1
  <2>3. \A t \in THREAD : ~Busy(t)' /\ ~Building(t)'
    BY <2>2, <1>14 DEF Busy, Building
  <2>4. BuildInv'
    BY <2>2, <2>3, <1>14 DEF BuildInv
  <2>5. \A t \in THREAD : th'[t].pc # "idle" => th[t].pc # "idle"
    BY <2>2
  <2>6. TurnInv'
    BY <2>2, <2>3, <2>5, <1>2, ZenonT(40) DEF DiskInv, TurnInv
  <2> QED BY <2>4, <2>6
<1>25. QueueTypes' /\ CallTypes'
  <2>1. isr' \in -1 .. queue_size + 1
    BY <1>0, <1>2, <1>4, <1>6
  <2>2. desc_virt' \in [D -> REQ \cup {NULL}]
    BY <1>3, <1>16
  <2>3. free_desc' \in 0 .. queue_size /\ used' \in [D -> D] /\ undone' \subseteq D
    <3>1. y \in 0 .. queue_size
      BY <1>0, <1>19
    <3> QED BY <3>1, <1>2, <1>3, <1>4, <1>8, <1>16
  <2>4. QueueTypes'
    BY <2>1, <2>2, <2>3, <1>2, <1>16, <1>18, <1>19 DEF DiskInv, QueueTypes
  <2>5. status' \in [REQ -> Result] /\ dstat' \in [REQ -> Result]
    BY <1>15, <1>16 DEF DiskInv, CallTypes, Result
  <2>6. PICK C : th \in [THREAD -> Thread(C)]
    BY DEF DiskInv, CallTypes
  <2>7. \A t \in THREAD : th[t] \in Thread(C) /\ [th[t] EXCEPT !.pc = "woken"] \in Thread(C)
    <3>1. "woken" \in Calls
      BY DEF Calls
    <3> QED BY <3>1, <2>6, ZenonT(40) DEF Thread
  <2>8. th' \in [THREAD -> Thread(C)]
    BY <2>7, <1>16
  <2> QED BY <2>4, <2>5, <2>8, <1>2 DEF DiskInv, CallTypes
<1>26. RequestInv'
  <2>1. \A g \in InFlight \ {h} : g \in InFlight' /\ desc_virt'[g] = desc_virt[g]
    BY <1>12, <1>20, <1>21
  <2>2. status \in [REQ -> Result] /\ dstat \in [REQ -> Result] /\ live \subseteq REQ
    BY DEF DiskInv, CallTypes
  <2>3. ASSUME NEW q \in live', status'[q] = "INIT"
        PROVE  \E g \in InFlight' : desc_virt'[g] = q
    <3>1. q \in live /\ q \in REQ /\ q # r /\ status[q] = "INIT"
      BY <2>2, <2>3, <1>2, <1>15, <1>16
    <3>2. PICK g \in InFlight : desc_virt[g] = q
      BY <3>1, <1>14 DEF DiskInv, RequestInv
    <3>3. g # h
      BY <3>1, <3>2, <1>1
    <3> QED BY <3>2, <3>3, <2>1
  <2>4. ASSUME NEW g \in undone' PROVE dstat'[desc_virt'[g]] # "INIT"
    <3>1. g \in undone /\ g # h /\ g \in InFlight
      BY <1>2 DEF InFlight
    <3>2. desc_virt[g] # r /\ desc_virt[g] \in REQ /\ dstat[desc_virt[g]] # "INIT"
      BY <3>1, <1>15, Zenon DEF DiskInv, ServeInv, Open, CallTypes, RequestInv
    <3> QED BY <3>1, <3>2, <2>1, <2>2, <1>16
  <2>5. PICK C : th \in [THREAD -> Thread(C)]
    BY DEF DiskInv, CallTypes
  <2>6. \A t \in THREAD : /\ th'[t].kind = th[t].kind /\ th'[t].req = th[t].req /\ th'[t].cur = th[t].cur
                          /\ th'[t].pc = IF th[t].pc = "sleep" /\ th[t].cur = r THEN "woken"
                                         ELSE th[t].pc
    BY <2>5, <1>16 DEF Thread
  <2>7. ASSUME NEW t \in THREAD, th'[t].pc = "sleep"
        PROVE  \E g \in InFlight' : desc_virt'[g] = th'[t].cur
    <3>1. th[t].pc = "sleep" /\ th[t].cur # r /\ th'[t].cur = th[t].cur
      BY <2>6, <2>7
    <3>2. PICK g \in InFlight : desc_virt[g] = th[t].cur
      BY <3>1 DEF DiskInv, RequestInv
    <3>3. g # h
      BY <3>1, <3>2, <1>1
    <3> QED BY <3>1, <3>2, <3>3, <2>1
  <2>8. ASSUME NEW t \in THREAD, th'[t].kind = "ext4", th'[t].pc = "sleep"
        PROVE  th'[t].cur = th'[t].req
    BY <2>6, <2>8 DEF DiskInv, RequestInv
  <2>9. ASSUME NEW t \in THREAD, th'[t].kind = "ext4", th'[t].pc = "woken", NEW g \in InFlight'
        PROVE  desc_virt'[g] # th'[t].req
    <3>1. g \in InFlight \ {h} /\ desc_virt'[g] = desc_virt[g]
      BY <2>1, <1>12
    <3>2. CASE th[t].pc = "woken"
      BY <2>6, <2>9, <3>1, <3>2 DEF DiskInv, RequestInv
    <3>3. CASE th[t].pc = "sleep" /\ th[t].cur = r
      <4>1. th[t].req = r
        BY <2>6, <2>9, <3>3 DEF DiskInv, RequestInv
      <4> QED BY <4>1, <3>1, <2>6, <1>15, Zenon
    <3> QED BY <2>6, <2>9, <3>2, <3>3
  <2> QED BY <2>3, <2>4, <2>7, <2>8, <2>9 DEF RequestInv
<1> QED BY <1>10, <1>13, <1>22, <1>23, <1>24, <1>25, <1>26 DEF DiskInv

-----------------------------------------------------------------------------
(* After virtq_create every descriptor is in the free chain, in order.       *)
LEMMA InitInv == Init => DiskInv
<1> SUFFICES ASSUME Init PROVE DiskInv
  OBVIOUS
<1>0. queue_size \in Nat \ {0} /\ IDX \in Nat \ {0} /\ D = 0 .. queue_size - 1
  BY Sizes
<1>1. /\ conf \in Confs /\ dev_lock = NULL /\ live = {} /\ status = [r \in REQ |-> "INIT"]
      /\ dnext = [d \in D |-> d + 1]
      /\ dflag = [d \in D |-> FALSE] /\ dlen = [d \in D |-> "none"]
      /\ free_desc = 0 /\ desc_virt = [d \in D |-> NULL]
      /\ avail = [i \in D |-> 0] /\ avail_idx = 0
      /\ used = [i \in D |-> 0] /\ used_idx = 0 /\ seen_used = 0
      /\ devpos = 0 /\ devset = {} /\ undone = {} /\ dstat = [r \in REQ |-> "INIT"]
      /\ isr = -1 /\ th = [t \in THREAD |-> Idle]
  BY DEF Init
<1>2. QueueTypes
  BY <1>0, <1>1 DEF QueueTypes
<1>3. CallTypes
  BY <1>1, IdleRecord DEF CallTypes, Result
<1>4. \A t \in THREAD : th[t].pc = "idle" /\ th[t].d = <<>>
  BY <1>1 DEF Idle
<1>5. TurnInv /\ BuildInv
  BY <1>1, <1>4 DEF TurnInv, BuildInv, Busy, Building
<1>6. Pending = 0 /\ Base = 0 /\ Done = 0
  BY <1>0, <1>1 DEF Pending, Base, Done
<1>7. 0 .. 0 - 1 = {}
  OBVIOUS
<1>8. \A buf, b : Entries(buf, b, 0) = {} /\ Distinct(buf, b, 0)
  BY <1>7 DEF Entries, Distinct
<1>9. Queued = {} /\ InFlight = {}
  <2>1. Queued = Entries(avail, devpos, Pending)
    BY <1>0, <1>6, QueuedRing
  <2>2. Queued = {}
    BY <2>1, <1>6, <1>8
  <2> QED BY <2>2, <1>1 DEF InFlight
<1>10. AvailInv /\ UsedInv
  BY <1>0, <1>1, <1>6, <1>8, <1>9 DEF AvailInv, UsedInv
<1>11. FreeSet(dnext, free_desc, D)
  <2> DEFINE F == [i \in 1 .. queue_size + 1 |-> i - 1]
  <2>1. /\ F \in [1 .. queue_size + 1 -> 0 .. queue_size]
        /\ F[1] = free_desc /\ F[queue_size + 1] = queue_size
    BY <1>0, <1>1
  <2>2. \A i \in 1 .. queue_size : F[i] \in D /\ dnext[F[i]] = F[i + 1]
    BY <1>0, <1>1
  <2>3. \A i, j \in 1 .. queue_size : F[i] = F[j] => i = j
    BY <1>0
  <2>4. D = {F[i] : i \in 1 .. queue_size}
    <3>1. \A d \in D : d + 1 \in 1 .. queue_size /\ F[d + 1] = d
      BY <1>0
    <3> HIDE DEF F
    <3> QED BY <3>1, <2>2
  <2> HIDE DEF F
  <2>5. Numbers(F, queue_size, dnext, free_desc, D)
    BY <2>1, <2>2, <2>3, <2>4, <1>0 DEF Numbers
  <2> QED BY <2>5 DEF FreeSet
<1>12. OwnInv
  <2>1. Taken = {}
    BY <1>4, TakenNone
  <2>2. Cardinality(D) = queue_size
    <3>1. PICK e \in Int : e = queue_size - 1
      BY <1>0
    <3>2. Cardinality(0 .. e) = IF 0 > e THEN 0 ELSE e - 0 + 1
      BY FinInterval
    <3> QED BY <3>1, <3>2, <1>0
  <2>3. Cardinality({}) = 0
    BY FinEmpty
  <2>4. Owned(dnext, D, {}, {})
    BY <2>2, <2>3, <1>0 DEF Owned
  <2> QED BY <2>1, <2>4, <1>9, <1>11 DEF OwnInv
<1>13. ServeInv
  BY <1>9 DEF ServeInv, Serves, Open
<1>14. RequestInv
  BY <1>1, <1>4 DEF RequestInv
<1> QED BY <1>2, <1>3, <1>5, <1>10, <1>12, <1>13, <1>14 DEF DiskInv

LEMMA NextInv == ASSUME OneUser, DiskInv, [Next]_vars PROVE DiskInv'
<1>1. ASSUME NEW t \in THREAD, ThreadStep(t) PROVE DiskInv'
  BY <1>1, StartExt4Step, StartDevfsStep, SubmitStep, DescReadStep, DescTakeStep, SendStep,
     WaitAllStep, WaitEachStep, FreeAllStep, Ext4DoneStep DEF ThreadStep
<1>2. CASE UNCHANGED vars
  <2>1. /\ UNCHANGED <<conf, live, status, dev_lock, qvars, rvars, th, seen_used, isr>>
    BY <1>2 DEF vars, lvars
  <2>2. AvailInv' /\ UsedInv'
    BY <2>1, SameRings DEF DiskInv
  <2>3. seen_used' \in D /\ isr' \in -1 .. queue_size + 1
    BY <2>1 DEF DiskInv, QueueTypes
  <2>4. isr' # -1 => isr # -1 \/ \A t \in THREAD : ~Busy(t)
    BY <2>1
  <2> QED BY <2>1, <2>2, <2>3, <2>4, IsrMoves
<1> QED BY <1>1, <1>2, DevFetchStep, DevCompleteStep, IsrEnterStep, IsrStepStep,
           IsrLoopEndStep, IsrStoreStep, IsrAckStep DEF Next

LEMMA AlwaysInv == ASSUME OneUser PROVE Spec => []DiskInv
<1>1. Init => DiskInv
  BY InitInv
<1>2. DiskInv /\ [Next]_vars => DiskInv'
  BY NextInv
<1> QED BY <1>1, <1>2, PTL DEF Spec

-----------------------------------------------------------------------------
LEMMA InvOwned == DiskInv => ChainsOwned
<1> SUFFICES ASSUME DiskInv PROVE ChainsOwned
  OBVIOUS
<1>1. PICK S : FreeSet(dnext, free_desc, S) /\ Owned(dnext, S, Taken, InFlight)
  BY DEF DiskInv, OwnInv
<1>2. FreeChain \ {queue_size} = S
  BY <1>1, WalkFinds
<1>3. \A h : Chain(h) = Parts(dnext, h)
  BY DEF Chain, Parts
<1>4. \A h \in InFlight : Cardinality(Chain(h)) = 3 /\ Chain(h) \cap (S \cup Taken) = {}
  <2> SUFFICES ASSUME NEW h \in InFlight
               PROVE  Cardinality(Chain(h)) = 3 /\ Chain(h) \cap (S \cup Taken) = {}
    OBVIOUS
  <2>1. h # dnext[h] /\ h # dnext[dnext[h]] /\ dnext[h] # dnext[dnext[h]]
    BY <1>1 DEF Owned, Whole
  <2>2. Cardinality(Chain(h)) = 3
    BY <2>1, Triple, ZenonT(40) DEF Chain
  <2>3. Chain(h) \cap S = {} /\ Chain(h) \cap Taken = {}
    BY <1>1, <1>3 DEF Owned
  <2> QED BY <2>2, <2>3
<1>5. \A g, h \in InFlight : g # h => Chain(g) \cap Chain(h) = {}
  BY <1>1, <1>3 DEF Owned
<1>6. S \cap Taken = {}
  BY <1>1 DEF Owned
<1>7. Cardinality(S) + Cardinality(Taken) + 3 * Cardinality(InFlight) = queue_size
  BY <1>1 DEF Owned
<1>8. DescOwnedOnce
  BY <1>2, <1>4, <1>5, <1>6, <1>7 DEF DescOwnedOnce
<1>9. ChainsSound
  <2>1. ASSUME NEW h \in InFlight
        PROVE  /\ ~Malformed(<<h, dnext[h], dnext[dnext[h]]>>)
               /\ desc_virt[h] \in live /\ status[desc_virt[h]] = "INIT"
               /\ \A d \in Chain(h) : desc_virt[d] = desc_virt[h]
    <3>1. /\ dflag[h] /\ dflag[dnext[h]] /\ dlen[h] = "hdr" /\ dlen[dnext[dnext[h]]] = "foot"
          /\ desc_virt[dnext[h]] = desc_virt[h] /\ desc_virt[dnext[dnext[h]]] = desc_virt[h]
      BY ZenonT(40) DEF DiskInv, ServeInv, Serves
    <3>2. desc_virt[h] \in live /\ status[desc_virt[h]] = "INIT"
      BY DEF DiskInv, ServeInv, Open
    <3>3. ~Malformed(<<h, dnext[h], dnext[dnext[h]]>>)
      BY <3>1 DEF Malformed
    <3>4. \A d \in Chain(h) : desc_virt[d] = desc_virt[h]
      BY <3>1 DEF Chain
    <3> QED BY <3>2, <3>3, <3>4
  <2>2. \A g, h \in InFlight : desc_virt[g] = desc_virt[h] => g = h
    BY Zenon DEF DiskInv, ServeInv, Serves
  <2> QED BY <2>1, <2>2 DEF ChainsSound
<1> QED BY <1>8, <1>9 DEF ChainsOwned

(* Each descriptor of the virtqueue is free, held by the thread that builds  *)
(* a chain, or part of one chain in flight, and each such chain is well      *)
(* formed and serves an allocated request of its own that is not completed:  *)
(* virtq_alloc_desc, virtio_blk_submit and virtio_blk_handle_used never use  *)
(* a descriptor twice, lose one or complete a request twice, for any queue   *)
(* size, any number of threads and requests, and any order of completion.    *)
THEOREM DescriptorChainsOwned == ASSUME OneUser PROVE Spec => []ChainsOwned
<1>1. Spec => []DiskInv
  BY AlwaysInv
<1>2. DiskInv => ChainsOwned
  BY InvOwned
<1> QED BY <1>1, <1>2, PTL

(* A thread that sleeps in blkdev_wait_all or in ext4's blockdev functions   *)
(* sleeps on a request whose chain the device has still to complete or the   *)
(* handler to handle: no wakeup goes by between submitting, or testing the   *)
(* status, and sleep().                                                      *)
THEOREM NoSleeperForgotten == ASSUME OneUser PROVE Spec => []SleepersAwaited
<1>1. Spec => []DiskInv
  BY AlwaysInv
<1>2. DiskInv => SleepersAwaited
  BY DEF DiskInv, RequestInv, SleepersAwaited
<1> QED BY <1>1, <1>2, PTL
=============================================================================
