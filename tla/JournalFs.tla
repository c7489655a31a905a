------------------------------ MODULE JournalFs -----------------------------
(***************************************************************************)
(* A file system that changes its blocks through the journal and the cache *)
(* of lwext4, and a machine that may lose power between any two writes to  *)
(* the device.  now is the content the file system means its blocks to     *)
(* have (0 for a free block, a positive version of a metadata block, a     *)
(* negative one of a data block, which is written past the journal);       *)
(* stable is now as of the last commit, and allowed what may be found      *)
(* after a crash.                                                          *)
(* Init lets the journal be started or not.  HANA mounts its root without  *)
(* starting it: then only the cache is at work.                            *)
(* An operation of ext4.c does not reallocate a block it has freed itself, *)
(* and one that has freed blocks is not aborted here.                      *)
(***************************************************************************)
EXTENDS Journal

CONSTANTS MaxVer,       \* versions written in a behaviour
          MaxCrash, MaxStart, MaxWb,
          Defects       \* the known defects of the code that a run walks into

VARIABLES s, mode, now, stable, allowed, freed, ver, crashes, starts
vars == <<s, mode, now, stable, allowed, freed, ver, crashes, starts>>

Empty == [x \in {} |-> 0]

(* The memory of a machine that has just mounted the device. *)
Boot(dev) ==
  [dev |-> dev, w |-> <<>>, buf |-> Empty, age |-> <<>>, dl |-> <<>>, wb |-> 0,
   on |-> FALSE, cur |-> 0, tr |-> Empty, jb |-> Empty, rec |-> Empty, cpq |-> <<>>,
   start |-> 0, last |-> 0, tid |-> 0, atid |-> 0, msb |-> dev.jsb, mdirty |-> FALSE,
   halt |-> ""]

Zero == [b \in Blocks |-> 0]
Blank == [home |-> Zero, log |-> [i \in 1 .. LogLen |-> LogBlk("B", 0, 0)],
          jsb |-> [start |-> 0, seq |-> 0]]

Init ==
  /\ \E journalled \in BOOLEAN :
       IF journalled THEN s = Started(Boot(Blank)) ELSE s = Boot(Blank)
  /\ mode = "up" /\ now = Zero /\ stable = Zero /\ allowed = {Zero}
  /\ freed = {} /\ ver = 0 /\ crashes = 0 /\ starts = IF s.on THEN 1 ELSE MaxStart

(* The device when power fails after the first k writes of a call. *)
DevAfter(w, k) ==
  LET D[n \in 0 .. k] == IF n = 0 THEN s.dev ELSE LET d == D[n - 1] IN Applied(d, w[n])
  IN  D[k]

Lost(dev, may) ==
  /\ s' = Boot(dev) /\ mode' = "down" /\ allowed' = may /\ crashes' = crashes + 1
  /\ freed' = {} /\ UNCHANGED <<now, stable, ver, starts>>

(***************************************************************************)
(* jbd_journal_flush_trans and jbd_trans_finish_callback copy a block back *)
(* from the log without putting back the magic number that was cleared in  *)
(* the copy, which is what jbd_replay_block_tags does.                     *)
(***************************************************************************)
NotCopiedEscaped(r) ==
  "escape" \in Defects \/
    \A v \in Magic : Escaped(v) \notin {r.buf[b].data : b \in DOMAIN r.buf}
                                      \cup {r.dev.home[b] : b \in Blocks}

(* The call ends in r, or power fails during it. *)
Completes(r) == NotCopiedEscaped(r) /\ s' = [r EXCEPT !.w = <<>>]
Fails(r, may) ==
  /\ NotCopiedEscaped(r) /\ s.on /\ crashes < MaxCrash
  /\ \E k \in 1 .. Len(r.w) - 1 : Lost(DevAfter(r.w, k), may)

Running == mode = "up" /\ s.halt = ""

-----------------------------------------------------------------------------
(* A metadata block is changed: taken, marked and released.  The running     *)
(* transaction keeps a reference, so that nothing is written then.           *)
Changed(b) ==
  LET a == TransStart([s EXCEPT !.w = <<>>])
      g == IF now[b] = 0 THEN GetNoread(a, b, JUNK) ELSE BlockGet(a, b, JUNK)
      d == [BlockDirty(g, b) EXCEPT !.buf[b].data = ver + 1]
  IN  BlockSet(d, b)

Modify(b) ==
  /\ Running /\ ver < MaxVer /\ now[b] >= 0 /\ b \notin freed
  /\ LET r == Changed(b) IN Completes(r)
  /\ ver' = ver + 1 /\ now' = [now EXCEPT ![b] = ver + 1]
  /\ UNCHANGED <<mode, stable, allowed, freed, crashes, starts>>

(* A data block is written straight to the device. *)
DataWrite(b) ==
  /\ Running /\ ver < MaxVer /\ now[b] = 0 /\ b \notin freed
  /\ LET r == Write(TransStart(s), "home", b, -(ver + 1))
     IN  Completes(r) /\ ver' = ver + 1 /\ now' = [now EXCEPT ![b] = -(ver + 1)]
  /\ UNCHANGED <<mode, stable, allowed, freed, crashes, starts>>

(* A transaction on the checkpoint queue has b in the log. *)
InLog(b) ==
  \E i \in 1 .. LogLen, t \in ToSet(s.cpq) :
    /\ s.dev.log[i].k = "D" /\ s.dev.log[i].seq = s.tr[t].id
    /\ \E tag \in ToSet(s.dev.log[i].v) : tag.b = b

Free(b) ==
  /\ Running /\ now[b] # 0
  /\ LET a == TransStart(s)
         r == FreeBlk(a, b)
     IN  /\ "revoke" \in Defects \/ (s.on /\ InLog(b) => b \in r.tr[r.cur].rev)
         /\ Completes(r)
  /\ now' = [now EXCEPT ![b] = 0]
  /\ freed' = IF s.on THEN freed \cup {b} ELSE freed
  /\ UNCHANGED <<mode, stable, allowed, ver, crashes, starts>>

(***************************************************************************)
(* The oldest transaction is completely written and still queued, because  *)
(* it was not the oldest when jbd_trans_end_write began.  When the log is  *)
(* full, its blocks are used again before the superblock on the device     *)
(* stops naming them as the start of the log.                              *)
(***************************************************************************)
HeadWritten(x) == x.cpq # <<>> /\ x.tr[Head(x.cpq)].data = x.tr[Head(x.cpq)].written

Commit ==
  /\ Running /\ s.on /\ s.cur # 0
  /\ LET r == TransStop(s)
     IN  /\ "head" \in Defects \/ ~HeadWritten(s) \/ r.start = s.start
         /\ \/ /\ Completes(r) /\ stable' = now /\ allowed' = {now} /\ freed' = {}
               /\ UNCHANGED <<mode, now, ver, crashes, starts>>
            \/ Fails(r, {stable, now})

Abort ==
  /\ Running /\ s.on /\ s.cur # 0 /\ freed = {}
  /\ LET r == TransAbort(s)
     IN  \/ /\ Completes(r) /\ now' = stable
            /\ UNCHANGED <<mode, stable, allowed, freed, ver, crashes, starts>>
         \/ Fails(r, allowed)

(* Other blocks push the oldest idle buffer out. *)
Evict ==
  /\ Running /\ Idle(s) # <<>>
  /\ LET r == Shake(s)
     IN  \/ Completes(r) /\ UNCHANGED <<mode, now, stable, allowed, freed, ver, crashes, starts>>
         \/ Fails(r, allowed)

Read(b) ==
  /\ Running /\ now[b] > 0
  /\ LET g == BlockGet(s, b, JUNK) IN LET r == BlockSet(g, b) IN Completes(r)
  /\ UNCHANGED <<mode, now, stable, allowed, freed, ver, crashes, starts>>

WriteBack(on) ==
  /\ Running /\ (IF on THEN s.wb < MaxWb ELSE s.wb > 0)
  /\ LET r == CacheWriteBack(s, on)
     IN  \/ Completes(r) /\ UNCHANGED <<mode, now, stable, allowed, freed, ver, crashes, starts>>
         \/ Fails(r, allowed)

Stop ==
  /\ Running /\ s.on /\ s.cur = 0
  /\ LET r == Stopped(s)
     IN  \/ /\ Completes(r) /\ mode' = "stopped"
            /\ UNCHANGED <<now, stable, allowed, freed, ver, crashes, starts>>
         \/ Fails(r, allowed)

Crash ==
  /\ Running /\ s.on /\ crashes < MaxCrash
  /\ Lost(s.dev, allowed)

(* ext4_recover after the mount; power may fail during it too. *)
Found(dev) == {a \in allowed : \A b \in Blocks : a[b] # 0 => dev.home[b] = a[b]}

Recover ==
  /\ mode = "down"
  /\ LET r == Recovered(s)
     IN  \/ /\ Completes(r)
            /\ IF Found(r.dev) = {} THEN mode' = "damaged" /\ UNCHANGED <<now, stable, allowed>>
               ELSE \E a \in Found(r.dev) :
                      mode' = "recovered" /\ now' = a /\ stable' = a /\ allowed' = {a}
            /\ UNCHANGED <<freed, ver, crashes, starts>>
         \/ /\ crashes < MaxCrash
            /\ \E k \in 1 .. Len(r.w) - 1 : Lost(DevAfter(r.w, k), allowed)

Start ==
  /\ mode = "recovered" \/ ("restart" \in Defects /\ mode = "stopped")
  /\ starts < MaxStart
  /\ LET r == Started(Boot(s.dev))
     IN  Completes(r) /\ mode' = "up" /\ starts' = starts + 1
  /\ UNCHANGED <<now, stable, allowed, freed, ver, crashes>>

Next ==
  \/ \E b \in Blocks : Modify(b) \/ DataWrite(b) \/ Free(b) \/ Read(b)
  \/ Commit \/ Abort \/ Evict \/ \E on \in BOOLEAN : WriteBack(on)
  \/ Stop \/ Crash \/ Recover \/ Start

Spec == Init /\ [][Next]_vars

-----------------------------------------------------------------------------
(***************************************************************************)
(* Power may fail between any two writes of a commit, an abort, an         *)
(* eviction, a flush, a stop or the recovery itself: after jbd_recover     *)
(* every block in use has the content of the last transaction whose commit *)
(* had returned, or all have that of the one being committed.  Blocks      *)
(* revoked and used again for data are not overwritten by the replay.  And *)
(* after jbd_journal_stop the home blocks alone hold the file system.      *)
(***************************************************************************)
RecoveredIsCommitted ==
  /\ mode # "damaged"
  /\ mode = "stopped" => \A b \in Blocks : now[b] # 0 => s.dev.home[b] = now[b]

(***************************************************************************)
(* Between calls, ext4_block_get of a metadata block in use gives what was *)
(* last written to it or, after an abort, what was last committed, whether *)
(* that is in the cache, at home or only in the log; and a data block is   *)
(* on the device as it was written, past the cache.                        *)
(***************************************************************************)
CacheCoherent ==
  Running => \A b \in Blocks :
    /\ now[b] > 0 => LET r == BlockGet(s, b, JUNK) IN r.buf[b].data = now[b]
    /\ now[b] < 0 => s.dev.home[b] = now[b]

(***************************************************************************)
(* A buffer's reference count is the number of jbd_bufs of the running     *)
(* transaction on it, so that no reference leaks or is given back twice;   *)
(* its end_write_arg is a live jbd_buf of the same block; and the block    *)
(* record of every jbd_buf exists.                                         *)
(***************************************************************************)
BuffersTracked ==
  mode = "up" =>
    /\ \A b \in Cached(s) :
         /\ s.buf[b].ref = Cardinality({j \in DOMAIN s.jb : s.jb[j].b = b /\ s.jb[j].t = s.cur})
         /\ s.buf[b].ew # 0 => /\ s.buf[b].ew \in DOMAIN s.jb
                               /\ s.jb[s.buf[b].ew].b = b
    /\ \A j \in DOMAIN s.jb : s.jb[j].b \in DOMAIN s.rec

(***************************************************************************)
(* The assertion of jbd_journal_alloc_block that a full log has room after *)
(* one transaction is flushed holds, jbd_journal_stop comes to an end, and *)
(* jbd_journal_flush_trans does not walk onto a jbd_buf it has freed.      *)
(***************************************************************************)
NeverStuck == s.halt = ""

(***************************************************************************)
(* What the comment of jbd_trans_try_revoke_block says: a block freed by   *)
(* the running transaction that remains in a transaction on the checkpoint *)
(* queue is revoked by it.                                                 *)
(***************************************************************************)
RevokedIfQueued ==
  s.on /\ s.cur # 0 => \A b \in freed : InLog(b) => b \in s.tr[s.cur].rev
=============================================================================
