------------------------------- MODULE Journal ------------------------------
(***************************************************************************)
(* The journal of lwext4, ext4_journal.c and ext4_trans.c, over the buffer *)
(* cache.  The record s of Bcache has in addition                          *)
(*   on     whether the journal is started (fs->jbd_journal)               *)
(*   cur    fs->curr_trans, 0 for none                                     *)
(*   tr[t]  the transactions: trans_id, buf_queue, start_iblock,           *)
(*          alloc_blocks, data_cnt, written_cnt and the revoked blocks     *)
(*   jb[j]  the jbd_bufs: home block, transaction, log block               *)
(*   rec[b] the block records: owner and dirty_buf_queue                   *)
(*   cpq    cp_queue; start, last, tid, atid of struct jbd_journal         *)
(*   msb    the journal superblock in memory, mdirty that it has changed   *)
(*   halt   a failed assertion or a loop that never ends                   *)
(* The log is the blocks 1 .. LogLen; block 0 is the journal superblock.   *)
(* A log block is [k, seq, v]: a descriptor ("D") with its tags, a revoke  *)
(* block ("R"), a commit block ("C") or data ("B").  Checksums are left    *)
(* out, and the device does not fail.                                      *)
(***************************************************************************)
EXTENDS Integers, Sequences, SequencesExt, FiniteSets, FiniteSetsExt

CONSTANTS Blocks, LogLen, TagsPerDesc,
          Magic         \* contents whose first word is JBD_MAGIC_NUMBER

JUNK == 99              \* whatever memory held

Wrap(n) == IF n > LogLen THEN n - LogLen ELSE n

(* The escape of a data block in the log: its first word is zeroed. *)
Escaped(v) == IF v \in Magic THEN v + 1000 ELSE v
Unescaped(v, esc) == IF esc THEN v - 1000 ELSE v

Drop(f, x) == [y \in DOMAIN f \ {x} |-> f[y]]
Put(f, x, v) == [y \in DOMAIN f \cup {x} |-> IF y = x THEN v ELSE f[y]]
Sans(q, x) == SelectSeq(q, LAMBDA y : y # x)
Unused(f) == Min(1 .. Cardinality(DOMAIN f) + 1 \ DOMAIN f)

-----------------------------------------------------------------------------
(* Checkpointing: what happens when journalled content reaches its home.   *)

(* jbd_journal_write_sb marks the superblock in memory, jbd_write_sb writes it. *)
MarkSb(s) == [s EXCEPT !.msb = [start |-> s.start, seq |-> s.tid], !.mdirty = TRUE]
WriteSb(s) ==
  IF ~s.mdirty THEN s
  ELSE [s EXCEPT !.dev.jsb = s.msb, !.w = Append(@, [at |-> "jsb", n |-> 0, v |-> s.msb]),
                 !.mdirty = FALSE]

(* jbd_journal_free_trans of a transaction with an empty buf_queue. *)
FreeTrans(s, t) ==
  [s EXCEPT !.tr = Drop(@, t),
            !.rec = [b \in {x \in DOMAIN @ : @[x].t # t} |-> @[b]]]

(* The log now starts behind t, which leaves the head of cp_queue. *)
Passed(s, t) ==
  FreeTrans([s EXCEPT !.start = Wrap(s.tr[t].start + s.tr[t].alloc),
                      !.tid = s.tr[t].id + 1, !.cpq = Tail(@)], t)

(* jbd_journal_purge_cp_trans without flush. *)
PurgeHead(p, t) ==
  LET x == p.s.tr[t]
  IN  IF p.stop \/ p.s.cpq = <<>> THEN p
      ELSE IF x.data = x.written THEN [p EXCEPT !.s = MarkSb(Passed(p.s, t))]
      ELSE [s |-> MarkSb([p.s EXCEPT !.start = x.start, !.tid = x.id]), stop |-> TRUE]

PurgeWritten(s) ==
  LET P[k \in 0 .. Len(s.cpq)] ==
        IF k = 0 THEN [s |-> s, stop |-> FALSE]
        ELSE LET p == P[k - 1] IN PurgeHead(p, Head(p.s.cpq))
  IN  P[Len(s.cpq)].s

(* jbd_trans_end_write for one jbd_buf. *)
Unlinked(s, j) ==
  LET x == s.jb[j]
  IN  [s EXCEPT !.tr[x.t].q = Sans(@, j), !.rec[x.b].q = Sans(@, j)]

Counted(s, t) == [s EXCEPT !.tr[t].written = @ + 1]

PurgeFrom(s, t, first) ==
  IF s.tr[t].written = s.tr[t].data /\ first
  THEN WriteSb(MarkSb(PurgeWritten(Passed(s, t)))) ELSE s

Written(s, j, first) ==
  PurgeFrom(Counted([s EXCEPT !.jb = Drop(@, j)], s.jb[j].t), s.jb[j].t, first)

IsFirst(s, t) == s.cpq # <<>> /\ Head(s.cpq) = t

EndOlder(s, j) == Written(Unlinked(s, j), j, IsFirst(s, s.jb[j].t))

EndOlders(s, q) ==
  LET E[k \in 0 .. Len(q)] == IF k = 0 THEN s ELSE EndOlder(E[k - 1], q[k])
  IN  E[Len(q)]

EndOwned(s, b, t) == IF s.rec[b].t = t THEN EndOlders(s, s.rec[b].q) ELSE s

(* withBuf = FALSE when the buffer is not cached. *)
NoEndWrite(s, b, t, withBuf) ==
  IF s.rec[b].t = t /\ withBuf THEN [s EXCEPT !.buf[b].ew = 0] ELSE s

EndWriteOf(s, j, withBuf) ==
  LET b == s.jb[j].b
      t == s.jb[j].t
  IN  Written(NoEndWrite(EndOwned(Unlinked(s, j), b, t), b, t, withBuf), j, IsFirst(s, t))

JEndWrite(s, b, j) == EndWriteOf(s, j, TRUE)

INSTANCE Bcache WITH EndWrite <- JEndWrite

-----------------------------------------------------------------------------
(* jbd_journal_flush_trans: what a later transaction has taken over, or    *)
(* the cache has lost, is copied from the log, as it is there.             *)
Referred(s, b, has) == IF has THEN FindGet(s, b) ELSE s
PutBack(s, b, has) == IF has THEN BlockSet(s, b) ELSE s

FlushGot(s, t, j, b, has) ==
  IF has /\ s.buf[b].up /\ s.rec[b].t = t THEN FlushBuf(s, b)
  ELSE EndWriteOf(Write(s, "home", b, s.dev.log[s.jb[j].lba].v), j, has)

FlushOne(s, t, j) ==
  LET b   == s.jb[j].b
      has == b \in Cached(s)
  IN  PutBack(FlushGot(Referred(s, b, has), t, j, b, has), b, has)

FlushTrans(s, t) ==
  LET q == s.tr[t].q
      F[k \in 0 .. Len(q)] ==
        IF k = 0 THEN s
        ELSE LET u == F[k - 1]
             IN  IF q[k] \in DOMAIN u.jb THEN FlushOne(u, t, q[k])
                 ELSE [u EXCEPT !.halt = "flush_trans uses a freed jbd_buf"]
  IN  F[Len(q)]

(* One round of jbd_journal_purge_cp_trans with flush. *)
PurgeRound(s) ==
  LET t == Head(s.cpq)
  IN  IF s.cpq = <<>> THEN s
      ELSE IF s.tr[t].data = s.tr[t].written THEN MarkSb(Passed(s, t))
      ELSE FlushTrans(s, t)

Emptied(s) == IF s.cpq = <<>> THEN s ELSE [s EXCEPT !.halt = "journal_stop spins"]

PurgeAll(s) ==
  LET P[k \in 0 .. 2 * Len(s.cpq)] == IF k = 0 THEN s ELSE PurgeRound(P[k - 1])
  IN  Emptied(P[2 * Len(s.cpq)])

(* Slip: the log's tail is not looked at. *)
AllocLog_bug(s, t) == [s EXCEPT !.last = Wrap(@ + 1), !.tr[t].alloc = @ + 1]

(* jbd_journal_alloc_block: the block is s.last. *)
HasRoom(s) == IF s.last # s.start THEN s ELSE [s EXCEPT !.halt = "alloc_block asserts"]

(* Slip: the oldest transaction is not flushed. *)
MakeRoom_bug(s) == HasRoom(s)

MakeRoom(s) == IF s.last # s.start THEN s ELSE HasRoom(PurgeRound(s))

AllocLog(s, t) == MakeRoom([s EXCEPT !.last = Wrap(@ + 1), !.tr[t].alloc = @ + 1])

-----------------------------------------------------------------------------
(* The running transaction: __ext4_trans_start makes one if there is none. *)
NoTrans == [id |-> 0, q |-> <<>>, start |-> 0, alloc |-> 0,
            data |-> 0, written |-> 0, rev |-> {}]
TransStart(s) ==
  LET t == Unused(s.tr)
  IN  IF ~s.on \/ s.cur # 0 THEN s
      ELSE [s EXCEPT !.tr = Put(@, t, NoTrans), !.cur = t]

(* jbd_trans_set_block_dirty, with jbd_trans_insert_block_rec. *)
TransDirty(s, b) ==
  LET t == s.cur
      j == Unused(s.jb)
      r == IF b \in DOMAIN s.rec THEN s.rec[b].q ELSE <<>>
      u == [SetDirty(s, b) EXCEPT
              !.jb = Put(@, j, [b |-> b, t |-> t, lba |-> 0]),
              !.rec = Put(@, b, [t |-> t, q |-> Append(r, j)]),
              !.buf[b].ref = @ + 1, !.buf[b].ew = j,
              !.tr[t].q = <<j>> \o @, !.tr[t].data = @ + 1, !.tr[t].rev = @ \ {b}]
  IN  IF s.buf[b].ew # 0 /\ s.jb[s.buf[b].ew].t = t THEN s ELSE u

(* ext4_trans_set_block_dirty. *)
BlockDirty(s, b) == IF s.on /\ s.cur # 0 THEN TransDirty(s, b) ELSE SetDirty(s, b)

(* jbd_trans_try_revoke_block. *)
TryRevoke(s, b) ==
  IF b \in DOMAIN s.rec /\ (s.rec[b].t = s.cur => Len(s.rec[b].q) > 1)
  THEN [s EXCEPT !.tr[s.cur].rev = @ \cup {b}] ELSE s

(* What ext4_balloc_free_block does to the journal and the cache. *)
FreeBlk(s, b) ==
  InvalidateLba(IF s.on /\ s.cur # 0 THEN TryRevoke(s, b) ELSE s, b)

(* Slip: what was aborted is forgotten and nothing brought back. *)
LetGo_bug(s, t, b, revoke) ==
  IF s.rec[b].t = t /\ s.rec[b].q # <<>>
  THEN [s EXCEPT !.rec[b].t = s.jb[Last(s.rec[b].q)].t] ELSE s

(***************************************************************************)
(* jbd_trans_finish_callback when a transaction lets go of a block: what   *)
(* an older transaction logged becomes the content again, from the log, or *)
(* if the block is revoked only the record goes back.                      *)
(***************************************************************************)
FromLog(g, b, j, raw) ==
  SetDirty([g EXCEPT !.buf[b].data = raw, !.buf[b].ew = j, !.rec[b].t = g.jb[j].t], b)

LetGo(s, t, b, revoke) ==
  LET q == s.rec[b].q
      j == Last(q)
  IN  IF s.rec[b].t # t \/ q = <<>> THEN s
      ELSE IF revoke THEN [s EXCEPT !.rec[b].t = s.jb[j].t]
      ELSE BlockSet(FromLog(GetNoread(s, b, JUNK), b, j,
                            IF s.jb[j].lba = 0 THEN JUNK ELSE s.dev.log[s.jb[j].lba].v), b)

(* jbd_journal_free_trans with abort. *)
NoJbdBuf(s, j) == [s EXCEPT !.jb = Drop(@, j)]

AbortOne(s, t, j) ==
  LET b == s.jb[j].b
  IN  NoJbdBuf(LetGo(Unlinked(BlockSet(ClearDirty([s EXCEPT !.buf[b].ew = 0], b), b), j),
                     t, b, FALSE), j)

AbortTrans(s, t) ==
  LET q == s.tr[t].q
      A[k \in 0 .. Len(q)] == IF k = 0 THEN s ELSE AbortOne(A[k - 1], t, q[k])
  IN  FreeTrans(A[Len(q)], t)

(* A jbd_buf whose block is no longer dirty leaves the transaction. *)
NoRecord(s, t, b) == IF s.rec[b].t = t THEN [s EXCEPT !.rec = Drop(@, b)] ELSE s
OneLess(s, t) == [s EXCEPT !.tr[t].data = @ - 1]
Leaves(s, t, j, b) ==
  OneLess(NoRecord(LetGo(Unlinked([s EXCEPT !.buf[b].ew = 0], j), t, b, b \in s.tr[t].rev),
                   t, b), t)

(* Slip: the reference of the jbd_buf is not given back. *)
Released_bug(s, t, j) == NoJbdBuf(Leaves(s, t, j, s.jb[j].b), j)

Released(s, t, j) ==
  LET b == s.jb[j].b IN NoJbdBuf(BlockSet(Leaves(s, t, j, b), b), j)

LogBlk(k, seq, v) == [k |-> k, seq |-> seq, v |-> v]

(* jbd_journal_prepare.  st.desc is the descriptor being filled, 0 for none. *)
ReleaseLast(s, t) ==
  LET q == s.tr[t].q
  IN  IF q = <<>> \/ s.buf[s.jb[Last(q)].b].dirty THEN s ELSE Released(s, t, Last(q))

Tail0(s, t) ==          \* the clean ones at the old end of buf_queue
  LET T[k \in 0 .. Len(s.tr[t].q)] == IF k = 0 THEN s ELSE ReleaseLast(T[k - 1], t)
  IN  T[Len(s.tr[t].q)]

CloseDesc(st, t) ==
  [st EXCEPT !.s = Write(st.s, "log", st.desc, LogBlk("D", st.s.tr[t].id, st.tags)),
             !.desc = 0, !.tags = <<>>]

FirstAt(s, t, pos) == IF s.tr[t].start = 0 THEN [s EXCEPT !.tr[t].start = pos] ELSE s

OpenDesc(st, t) ==
  IF st.desc # 0 THEN st
  ELSE [st EXCEPT !.desc = st.s.last, !.s = FirstAt(AllocLog(st.s, t), t, st.s.last)]

LoggedAt(s, j, pos, v) ==
  [Write(s, "log", pos, LogBlk("B", 0, Escaped(v))) EXCEPT !.jb[j].lba = pos]

AddTag(st, t, j, b, v) ==
  [st EXCEPT !.s = LoggedAt(AllocLog(st.s, t), j, st.s.last, v),
             !.tags = Append(@, [b |-> b, esc |-> v \in Magic,
                                 last |-> st.i = st.s.tr[t].data - 1]),
             !.i = @ + 1]

LogBuf(st, t, j) == LET b == st.s.jb[j].b IN AddTag(st, t, j, b, st.s.buf[b].data)

LogOne(st, t, j) ==
  LogBuf(OpenDesc(IF st.desc # 0 /\ Len(st.tags) = TagsPerDesc THEN CloseDesc(st, t) ELSE st,
                  t), t, j)

PrepareOne(st, t, j) ==
  IF st.s.buf[st.s.jb[j].b].dirty THEN LogOne(st, t, j)
  ELSE [st EXCEPT !.s = Released(st.s, t, j)]

PrepareAll(s, t, q) ==
  LET P[k \in 0 .. Len(q)] ==
        IF k = 0 THEN [s |-> s, desc |-> 0, tags |-> <<>>, i |-> 0]
        ELSE PrepareOne(P[k - 1], t, q[k])
  IN  P[Len(q)]

LastDesc(st, t) == IF st.desc = 0 THEN st ELSE CloseDesc(st, t)

PrepareTail(s, t) == LastDesc(PrepareAll(s, t, s.tr[t].q), t).s

Prepare(s, t) == PrepareTail(Tail0(s, t), t)

(* jbd_journal_prepare_revoke; the revoked blocks fit one block here. *)
PrepareRevoke(s, t) ==
  IF s.tr[t].rev = {} THEN s
  ELSE Write(FirstAt(AllocLog(s, t), t, s.last), "log", s.last,
             LogBlk("R", s.tr[t].id, s.tr[t].rev))

WriteCommit(s, t) ==
  [Write(AllocLog(s, t), "log", s.last, LogBlk("C", s.tr[t].id, 0)) EXCEPT !.atid = @ + 1]

(* The checkpoint of what the transaction revokes is complete. *)
EndRevoked(s, b) ==
  LET has == b \in Cached(s)
  IN  IF b \notin DOMAIN s.rec \/ s.rec[b].q = <<>> THEN s
      ELSE PutBack(EndWriteOf(Referred(s, b, has), Last(s.rec[b].q), has), b, has)

AllRevoked(s, t) ==
  LET q == SetToSortSeq(s.tr[t].rev, <)
      R[k \in 0 .. Len(q)] == IF k = 0 THEN s ELSE EndRevoked(R[k - 1], q[k])
  IN  R[Len(q)]

(* jbd_journal_cp_trans gives back the references the transaction held. *)
CpTrans(s, t) ==
  LET q == s.tr[t].q
      C[k \in 0 .. Len(q)] ==
        IF k = 0 THEN s ELSE BlockSet(C[k - 1], s.jb[q[k]].b)
  IN  C[Len(q)]

CpFirst(s, t) ==
  CpTrans([WriteSb(MarkSb([s EXCEPT !.start = s.tr[t].start, !.tid = s.tr[t].id]))
             EXCEPT !.cpq = <<t>>], t)

(* __jbd_journal_commit_trans. *)
Checkpoint(s, t) ==
  LET x == s.tr[t]
      queued == [s EXCEPT !.cpq = Append(@, t)]
  IN  IF s.cpq = <<>>
      THEN IF x.data # 0 THEN CpFirst(s, t)
           ELSE FreeTrans(MarkSb([s EXCEPT !.start = Wrap(x.start + x.alloc),
                                           !.tid = x.id + 1]), t)
      ELSE IF x.data # 0 THEN CpTrans(queued, t) ELSE queued

WriteTrans(s, t) ==
  IF s.tr[t].q = <<>> /\ s.tr[t].rev = {} THEN FreeTrans(s, t)
  ELSE Checkpoint(AllRevoked(WriteCommit(s, t), t), t)

CommitTrans(s, t) ==
  WriteTrans(PrepareRevoke(Prepare([s EXCEPT !.tr[t].id = s.atid], t), t), t)

(* __ext4_trans_stop and __ext4_trans_abort. *)
TransStop(s) == [CommitTrans(s, s.cur) EXCEPT !.cur = 0]
TransAbort(s) == [AbortTrans(s, s.cur) EXCEPT !.cur = 0]

-----------------------------------------------------------------------------
(***************************************************************************)
(* jbd_recover.  Visit is the order in which jbd_iterate_log comes by the  *)
(* descriptor and revoke blocks: [pos, tid].  The scan ends at a block of  *)
(* another kind or sequence number, or once round the log.                 *)
(***************************************************************************)
TagCount(tags) == Min({k \in DOMAIN tags : tags[k].last} \cup {TagsPerDesc})

RECURSIVE Visit(_, _, _, _)
Visit(dev, pos, tid, seen) ==
  LET x    == dev.log[pos]
      step == IF x.k = "D" THEN TagCount(x.v) + 1 ELSE 1
      next == Wrap(pos + step)
      all  == IF x.k = "C" THEN seen ELSE Append(seen, [pos |-> pos, tid |-> tid])
      id   == IF x.k = "C" THEN tid + 1 ELSE tid
  IN  IF x.k = "B" \/ x.seq # tid THEN [seen |-> seen, tid |-> tid]
      ELSE IF next = dev.jsb.start THEN [seen |-> all, tid |-> id]
      ELSE Visit(dev, next, id, all)

ReplayTags(s, x, revoked) ==
  LET tags == s.dev.log[x.pos].v
      n == TagCount(tags)
      R[k \in 0 .. n] ==
        IF k = 0 THEN s
        ELSE LET u == R[k - 1]
                 g == tags[k]
                 raw == u.dev.log[Wrap(x.pos + k)].v
             IN  IF \E r \in revoked : r.b = g.b /\ x.tid <= r.tid THEN u
                 ELSE Write(u, "home", g.b, Unescaped(raw, g.esc))
  IN  R[n]

Recovered(s) ==
  LET v    == Visit(s.dev, s.dev.jsb.start, s.dev.jsb.seq, <<>>)
      good == SelectSeq(v.seen, LAMBDA x : x.tid < v.tid)
      kind(x) == s.dev.log[x.pos].k
      revoked == UNION {{[b |-> b, tid |-> x.tid] : b \in s.dev.log[x.pos].v} :
                          x \in {y \in ToSet(good) : kind(y) = "R"}}
      descs == SelectSeq(good, LAMBDA x : kind(x) = "D")
      R[k \in 0 .. Len(descs)] ==
        IF k = 0 THEN s ELSE LET u == R[k - 1] IN ReplayTags(u, descs[k], revoked)
      done == R[Len(descs)]
      lastId == IF v.tid > s.dev.jsb.seq THEN v.tid - 1 ELSE v.tid
  IN  IF s.dev.jsb.start = 0 THEN s
      ELSE Write(done, "jsb", 0, [start |-> 0, seq |-> lastId])

(* jbd_journal_start and jbd_journal_stop. *)
Started(s) ==
  LET id == s.dev.jsb.seq + 1
      u  == [s EXCEPT !.on = TRUE, !.start = 1, !.last = 1, !.tid = id, !.atid = id]
  IN  WriteSb(MarkSb(u))

Stopped(s) ==
  [WriteSb(MarkSb([PurgeAll(s) EXCEPT !.start = 0, !.tid = 0])) EXCEPT !.on = FALSE]
=============================================================================
