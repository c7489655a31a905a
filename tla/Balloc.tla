------------------------------- MODULE Balloc -------------------------------
(***************************************************************************)
(* The block and i-node allocators of lwext4: ext4_balloc.c,               *)
(* ext4_ialloc.c, ext4_bitmap.c and the block group references of          *)
(* ext4_fs.c.  The operators act on a file system record fs:               *)
(*   bit[g], ibit[g]  the set bits of the block and i-node bitmaps         *)
(*   bg[g]            the group descriptor: counters and UNINIT flags      *)
(*   sbfree, sbifree  the free counters of the superblock                  *)
(*   lastbg           fs->last_inode_bg_id                                 *)
(*   ino[i]           the i-nodes (blocks_count here; see FsAlloc)         *)
(* A block is named by its absolute address, a bit by its index in the     *)
(* group.                                                                  *)
(***************************************************************************)
EXTENDS Integers, FiniteSets, FiniteSetsExt

CONSTANTS FirstDataBlock,   \* 1 for 1 KiB blocks, else 0
          BlocksPerGroup, BlocksCount,
          InodesPerGroup, InodesCount,
          BYTE, NEAR,       \* 8 bits and the 64-bit window in the code
          MetaBits          \* per group: super block, descriptors, bitmaps, table

NONE == -1

ASSUME GeometryAssumption ==
  /\ FirstDataBlock \in {0, 1}
  /\ {BlocksPerGroup, BlocksCount, InodesPerGroup, InodesCount, BYTE, NEAR}
       \subseteq Nat \ {0}
  /\ NEAR % BYTE = 0

RoundUp(n, m) == ((n + m - 1) \div m) * m

GroupCnt == RoundUp(BlocksCount, BlocksPerGroup) \div BlocksPerGroup
Groups == 0 .. GroupCnt - 1

BlocksInGroup(g) ==
  IF g < GroupCnt - 1 THEN BlocksPerGroup
  ELSE BlocksCount - (GroupCnt - 1) * BlocksPerGroup

InodesInGroup(g) ==
  IF g < GroupCnt - 1 THEN InodesPerGroup
  ELSE InodesCount - (GroupCnt - 1) * InodesPerGroup

Shifted(baddr) == IF FirstDataBlock = 1 /\ baddr # 0 THEN baddr - 1 ELSE baddr
BgidOfBlock(baddr) == Shifted(baddr) \div BlocksPerGroup
AddrToIdx(baddr) == Shifted(baddr) % BlocksPerGroup
IdxToAddr(idx, g) == BlocksPerGroup * g + idx + FirstDataBlock

(***************************************************************************)
(* ext4_bmap_bit_find_clr.  The bits before the first byte boundary are    *)
(* tried one by one, and the answer there is sbit and not the bit found.   *)
(***************************************************************************)
FindClr(bits, sbit, ebit) ==
  LET up   == RoundUp(sbit, BYTE)
      head == sbit .. (IF up < ebit THEN up ELSE ebit) - 1
      rest == (up .. ebit - 1) \ bits
  IN  IF head \ bits # {} THEN sbit
      ELSE IF rest # {} THEN Min(rest) ELSE NONE

(***************************************************************************)
(* A block group reference.  A bitmap flagged UNINIT is built on first     *)
(* use; a descriptor slot past the last group is zero, as mke2fs pads it.  *)
(***************************************************************************)
InitBlockBitmap(g) ==
  MetaBits[g] \cup (BlocksInGroup(g) .. BlocksPerGroup - 1)

InitInodeBitmap(g) == {}

GetBlockGroupRef(fs, g) ==
  IF g \notin Groups THEN fs
  ELSE [fs EXCEPT
          !.bit[g]  = IF fs.bg[g].buninit THEN InitBlockBitmap(g) ELSE @,
          !.ibit[g] = IF fs.bg[g].iuninit THEN InitInodeBitmap(g) ELSE @,
          !.bg[g].buninit = FALSE,
          !.bg[g].iuninit = FALSE]

GroupFree(fs, g) == IF g \in Groups THEN fs.bg[g].bfree ELSE 0

(* Slip: the superblock's counter is not updated when a block is freed. *)
Charge_bug(fs, i, g, d) ==
  [fs EXCEPT !.sbfree = IF d = 1 THEN @ ELSE @ + d,
             !.bg[g].bfree = @ + d, !.ino[i].blocks = @ - d]

(* The counters of one allocated (d = -1) or freed (d = 1) block. *)
Charge(fs, i, g, d) ==
  [fs EXCEPT !.sbfree = @ + d, !.bg[g].bfree = @ + d, !.ino[i].blocks = @ - d]

(***************************************************************************)
(* ext4_balloc_alloc_block: the goal, then the bits up to the next NEAR    *)
(* boundary, then the rest of the group, then the other groups in turn     *)
(* with the goal's own group last.                                         *)
(***************************************************************************)
InWindow(bits, idx, top) ==
  {t \in idx + 1 .. Min({RoundUp(idx, NEAR), top}) - 1 : t \notin bits}

NearGoal(bits, idx, top, near) ==
  IF idx \notin bits THEN idx
  ELSE IF near # {} THEN Min(near) ELSE FindClr(bits, idx, top)

InGoalGroup(fs, g, idx, top) ==
  IF GroupFree(fs, g) = 0 THEN NONE
  ELSE NearGoal(fs.bit[g], idx, top, InWindow(fs.bit[g], idx, top))

Candidate(fs, g, idx) == [fs |-> fs, g |-> g, idx |-> idx]

TryGroup(fs, g) ==
  Candidate(fs, g, IF GroupFree(fs, g) = 0 THEN NONE
                   ELSE FindClr(fs.bit[g], 0, BlocksInGroup(g)))

TryGroups(fs, bgid) ==
  LET Try[k \in 0 .. GroupCnt] ==
        IF k = 0 THEN Candidate(fs, NONE, NONE)
        ELSE LET prev == Try[k - 1]
                 g    == (bgid + k) % GroupCnt
             IN  IF prev.idx # NONE THEN prev ELSE TryGroup(GetBlockGroupRef(prev.fs, g), g)
  IN  Try[GroupCnt]

Search(fs, g, at) == IF at # NONE THEN Candidate(fs, g, at) ELSE TryGroups(fs, g)

Take(hit, i) ==
  IF hit.idx = NONE THEN [fs |-> hit.fs, err |-> "ENOSPC", blk |-> 0]
  ELSE [fs |-> [Charge(hit.fs, i, hit.g, -1) EXCEPT !.bit[hit.g] = @ \cup {hit.idx}],
        err |-> "EOK", blk |-> IdxToAddr(hit.idx, hit.g)]

AllocNear(fs, i, g, idx) ==
  Take(Search(fs, g, InGoalGroup(fs, g, idx, BlocksInGroup(g))), i)

AllocBlock(fs, i, goal) ==
  AllocNear(GetBlockGroupRef(fs, BgidOfBlock(goal)), i, BgidOfBlock(goal), AddrToIdx(goal))

(* ext4_balloc_free_blocks and ext4_balloc_free_block. *)
ClearBit(fs, i, g, idx) == [Charge(fs, i, g, 1) EXCEPT !.bit[g] = @ \ {idx}]

FreeBlocks(fs, i, first, count) ==
  LET Free[n \in 0 .. count] ==
        IF n = 0 THEN fs
        ELSE ClearBit(GetBlockGroupRef(Free[n - 1], BgidOfBlock(first + n - 1)), i,
                      BgidOfBlock(first + n - 1), AddrToIdx(first + n - 1))
  IN  Free[count]

FreeBlock(fs, i, b) == FreeBlocks(fs, i, b, 1)

(***************************************************************************)
(* ext4_ialloc_alloc_inode and ext4_ialloc_free_inode.  Groups are tried   *)
(* from lastbg to the last, then from 0 to lastbg - 1.  A group whose      *)
(* counter says it has a free i-node and whose bitmap has none is tried    *)
(* again for ever: the loop continues without advancing bgid.              *)
(***************************************************************************)
BgidOfInode(i) == (i - 1) \div InodesPerGroup
InodeToBgidx(i) == (i - 1) % InodesPerGroup
BgidxToInode(idx, g) == g * InodesPerGroup + idx + 1

(* Slip: the search does not go round to the groups before lastbg. *)
InodeGroup_bug(fs, k) == Min({fs.lastbg + k - 1, GroupCnt - 1})

InodeGroup(fs, k) == (fs.lastbg + k - 1) % GroupCnt     \* the k-th group tried

TryInodeGroup(fs, g, c) ==
  [fs |-> fs, g |-> g, idx |-> IF fs.bg[g].ifree = 0 THEN NONE ELSE c,
   spin |-> fs.bg[g].ifree # 0 /\ c = NONE]

ClearInode(fs, g) == FindClr(fs.ibit[g], 0, InodesInGroup(g))

TryInodeGroups(fs) ==
  LET Try[k \in 0 .. GroupCnt] ==
        IF k = 0 THEN [fs |-> fs, g |-> NONE, idx |-> NONE, spin |-> FALSE]
        ELSE LET prev == Try[k - 1]
                 g == InodeGroup(fs, k)
                 f == GetBlockGroupRef(prev.fs, g)
             IN  IF prev.idx # NONE \/ prev.spin THEN prev
                 ELSE TryInodeGroup(f, g, ClearInode(f, g))
  IN  Try[GroupCnt]

TakeInode(hit, g, isDir) ==
  IF hit.spin THEN [fs |-> hit.fs, err |-> "SPIN", i |-> 0]
  ELSE IF hit.idx = NONE THEN [fs |-> hit.fs, err |-> "ENOSPC", i |-> 0]
  ELSE [fs |-> [hit.fs EXCEPT
          !.ibit[g] = @ \cup {hit.idx},
          !.bg[g].ifree = @ - 1,
          !.bg[g].dirs = @ + (IF isDir THEN 1 ELSE 0),
          !.bg[g].unused =
             IF hit.idx >= InodesInGroup(g) - @
             THEN InodesInGroup(g) - (hit.idx + 1) ELSE @,
          !.sbifree = @ - 1,
          !.lastbg = g],
        err |-> "EOK", i |-> BgidxToInode(hit.idx, g)]

TakeFound(hit, isDir) == TakeInode(hit, hit.g, isDir)

AllocInode(fs, isDir) == TakeFound(TryInodeGroups(fs), isDir)

FreeInodeBit(fs0, i, isDir) ==
  LET g  == BgidOfInode(i)
      fs == GetBlockGroupRef(fs0, g)
  IN  [fs EXCEPT !.ibit[g] = @ \ {InodeToBgidx(i)},
                 !.bg[g].dirs = @ - (IF isDir THEN 1 ELSE 0),
                 !.bg[g].ifree = @ + 1,
                 !.sbifree = @ + 1]
=============================================================================
