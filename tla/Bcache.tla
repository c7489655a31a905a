------------------------------- MODULE Bcache -------------------------------
(***************************************************************************)
(* The buffer cache of lwext4, ext4_bcache.c and ext4_blockdev.c, as       *)
(* operators on a record s:                                                *)
(*   dev    the device: home[b], the blocks of the file system; log and    *)
(*          jsb, the journal's blocks and superblock                       *)
(*   w      the writes the current call has sent to the device, in order   *)
(*   buf    the cached blocks: data, the flags up (BC_UPTODATE) and dirty, *)
(*          the reference count and ew, the argument of end_write or 0     *)
(*   age    the cached blocks in the order of their lru_id                 *)
(*   dl     dirty_list, its first element first                            *)
(*   wb     bdev->cache_write_back, a counter                              *)
(* EndWrite(s, b, j) is the callback a buffer may carry.  Blocks of the    *)
(* journal are BC_FLUSH and BC_TMP: written and dropped when released, so  *)
(* they never stay in the cache and are not part of buf.                   *)
(***************************************************************************)
EXTENDS Integers, Sequences, SequencesExt, FiniteSets

CONSTANT EndWrite(_, _, _)

Cached(s) == DOMAIN s.buf
SetBuf(s, b, r) ==
  [s EXCEPT !.buf = [x \in DOMAIN @ \cup {b} |-> IF x = b THEN r ELSE @[x]]]
Without(q, x) == SelectSeq(q, LAMBDA y : y # x)

(* One write to the device, ext4_blocks_set_direct or ext4_block_writebytes. *)
Applied(dev, x) ==
  CASE x.at = "home" -> [dev EXCEPT !.home[x.n] = x.v]
    [] x.at = "log"  -> [dev EXCEPT !.log[x.n] = x.v]
    [] x.at = "jsb"  -> [dev EXCEPT !.jsb = x.v]
Write(s, at, n, v) ==
  LET x == [at |-> at, n |-> n, v |-> v]
  IN  [s EXCEPT !.dev = Applied(@, x), !.w = Append(@, x)]

(* ext4_block_flush_buf: only what is dirty and up to date is written. *)
Cleaned(s, b, x) ==
  [Write(s, "home", b, x.data) EXCEPT !.dl = Without(@, b), !.buf[b].dirty = FALSE]

FlushBuf(s, b) ==
  LET x == s.buf[b]
  IN  IF ~(x.dirty /\ x.up) THEN s
      ELSE IF x.ew = 0 THEN Cleaned(s, b, x) ELSE EndWrite(Cleaned(s, b, x), b, x.ew)

DropBuf(s, b) ==
  [s EXCEPT !.buf = [x \in DOMAIN @ \ {b} |-> @[x]],
            !.age = Without(@, b),
            !.dl  = IF s.buf[b].dirty THEN Without(@, b) ELSE @]

(* ext4_bcache_find_get of a cached block. *)
FindGet(s, b) ==
  IF s.buf[b].ref # 0 THEN [s EXCEPT !.buf[b].ref = @ + 1]
  ELSE [s EXCEPT !.buf[b].ref = 1,
                 !.age = Append(Without(@, b), b),
                 !.dl = IF s.buf[b].dirty THEN Without(@, b) ELSE @]

(* ext4_block_get_noread; a new buffer holds whatever its memory held. *)
GetNoread(s, b, junk) ==
  IF b \in Cached(s) THEN FindGet(s, b)
  ELSE [SetBuf(s, b, [data |-> junk, up |-> FALSE, dirty |-> FALSE, ref |-> 1, ew |-> 0])
          EXCEPT !.age = Append(@, b)]

(* ext4_block_get. *)
Filled(s, b) ==
  IF s.buf[b].up THEN s
  ELSE [s EXCEPT !.buf[b].data = s.dev.home[b], !.buf[b].up = TRUE]
BlockGet(s, b, junk) == Filled(GetNoread(s, b, junk), b)

(* ext4_bcache_set_dirty and ext4_bcache_clear_dirty, which set and clear two flags. *)
SetDirty(s, b) == [s EXCEPT !.buf[b].dirty = TRUE, !.buf[b].up = TRUE]
ClearDirty(s, b) == [s EXCEPT !.buf[b].dirty = FALSE, !.buf[b].up = FALSE]

(* ext4_block_set, that is ext4_bcache_free: what the last reference leaves. *)
Kept(s, b) == IF ~s.buf[b].up THEN DropBuf(s, b) ELSE s
Saved(s, b) ==
  IF ~(s.buf[b].dirty /\ s.buf[b].up) THEN s
  ELSE IF s.wb > 0 THEN [s EXCEPT !.dl = <<b>> \o @]
  ELSE FlushBuf(s, b)
LastPut(s, b) == IF s.buf[b].ref # 0 THEN s ELSE Kept(Saved(s, b), b)
BlockSet(s, b) == LastPut([s EXCEPT !.buf[b].ref = @ - 1], b)

(* ext4_bcache_invalidate_lba of one block. *)
InvalidateLba(s, b) ==
  IF b \notin Cached(s) THEN s
  ELSE [s EXCEPT !.dl = IF s.buf[b].dirty THEN Without(@, b) ELSE @,
                 !.buf[b].dirty = FALSE, !.buf[b].up = FALSE, !.buf[b].ew = 0]

(* One round of ext4_block_cache_shake: the lowest lru_id nobody refers to. *)
Idle(s) == SelectSeq(s.age, LAMBDA b : s.buf[b].ref = 0)
Shaken(s, b) == DropBuf(IF s.buf[b].dirty THEN FlushBuf(s, b) ELSE s, b)
Shake(s) == Shaken(s, Head(Idle(s)))

(* ext4_block_cache_flush and ext4_block_cache_write_back. *)
FlushHead(s) == IF s.dl = <<>> THEN s ELSE FlushBuf(s, Head(s.dl))
CacheFlush(s) ==
  LET F[k \in 0 .. Len(s.dl)] == IF k = 0 THEN s ELSE FlushHead(F[k - 1])
  IN  F[Len(s.dl)]

FlushUnless(s) == IF s.wb > 0 THEN s ELSE CacheFlush(s)
CacheWriteBack(s, on) ==
  FlushUnless([s EXCEPT !.wb = IF on THEN @ + 1 ELSE IF @ > 0 THEN @ - 1 ELSE @])
=============================================================================
