------------------------------ MODULE BlockMap ------------------------------
(***************************************************************************)
(* The block map of an i-node without extents, in ext4_fs.c: NDirect       *)
(* direct blocks and a single, double and triple indirect tree.  The slots *)
(* of the i-node are ino[i].slot, 0 when free; an indirect block b is      *)
(* fs.node[b], a function from 0 .. PerBlock - 1 to block addresses.       *)
(***************************************************************************)
EXTENDS Extent

CONSTANTS NDirect, PerBlock

ASSUME MapAssumption == NDirect \in Nat /\ PerBlock \in Nat \ {0}

Slots == 0 .. NDirect + 2
EmptySlots == [k \in Slots |-> 0]
EmptyTable == [k \in 0 .. PerBlock - 1 |-> 0]

(* inode_blocks_per_level and inode_block_limits of ext4_fs_init. *)
PerLevel(l) == PerBlock ^ l
Limit[l \in 0 .. 3] == IF l = 0 THEN NDirect ELSE Limit[l - 1] + PerLevel(l)

(* Slip: off by one at the limit of a level. *)
LevelOf_bug(iblock) ==
  LET fit == {l \in 1 .. 3 : iblock <= Limit[l]} IN IF fit = {} THEN 0 ELSE Min(fit)

LevelOf(iblock) ==
  LET fit == {l \in 1 .. 3 : iblock < Limit[l]} IN IF fit = {} THEN 0 ELSE Min(fit)

(* The table offsets from the top level down, one per level. *)
Offset(iblock, l, level) ==
  ((iblock - Limit[l - 1]) % PerLevel(level)) \div PerLevel(level - 1)

(* The address kept for iblock at height h above the data: h = 0 is the data block. *)
Walk(fs, i, iblock, h) ==
  LET l == LevelOf(iblock)
      At[k \in 0 .. l] ==       \* the block reached k levels below the top
        IF k = 0 THEN fs.ino[i].slot[NDirect + l - 1]
        ELSE LET b == At[k - 1]
             IN  IF b = 0 THEN 0 ELSE fs.node[b][Offset(iblock, l, l - k + 1)]
  IN  At[l - h]

(* ext4_fs_get_inode_dblk_idx_internal without extents. *)
MapLookup(fs, i, iblock) ==
  IF iblock < NDirect THEN fs.ino[i].slot[iblock]
  ELSE IF LevelOf(iblock) = 0 THEN NONE ELSE Walk(fs, i, iblock, 0)

(* ext4_fs_indirect_find_goal: behind the last block, else behind the i-node table. *)
TableEnd(g) == IdxToAddr(Cardinality(MetaBits[g]), g)

IndirectFindGoal(fs, i, nblk) ==
  LET last == IF nblk = 0 THEN 0 ELSE MapLookup(fs, i, nblk - 1)
      g    == BgidOfInode(i)
  IN  IF last # 0 THEN [fs |-> fs, goal |-> last + 1]
      ELSE [fs |-> GetBlockGroupRef(fs, g), goal |-> TableEnd(g)]

(* Write blk where the address of iblock at height h is kept. *)
StoreAt(fs, i, iblock, h, blk) ==
  LET l == LevelOf(iblock)
  IN  IF iblock < NDirect THEN [fs EXCEPT !.ino[i].slot[iblock] = blk]
      ELSE IF h = l THEN [fs EXCEPT !.ino[i].slot[NDirect + l - 1] = blk]
      ELSE [fs EXCEPT !.node[Walk(fs, i, iblock, h + 1)][Offset(iblock, l, h + 1)] = blk]

(***************************************************************************)
(* ext4_fs_set_inode_data_block_index: the missing tables are allocated    *)
(* and zeroed from the top down; what was allocated stays linked when a    *)
(* later one fails.                                                        *)
(***************************************************************************)
LinkTable(a, i, iblock, h) ==
  IF a.err # "EOK" THEN [fs |-> a.fs, err |-> a.err]
  ELSE [fs |-> StoreAt(SetNode(a.fs, i, a.blk, EmptyTable), i, iblock, h, a.blk), err |-> "EOK"]

AllocAtGoal(g, i) == AllocBlock(g.fs, i, g.goal)

AddTable(st, i, iblock, nblk, h) ==
  IF st.err # "EOK" \/ Walk(st.fs, i, iblock, h) # 0 THEN st
  ELSE LinkTable(AllocAtGoal(IndirectFindGoal(st.fs, i, nblk), i), i, iblock, h)

AddTables(fs, i, iblock, nblk, l) ==
  LET Exist[k \in 0 .. l] ==    \* after the k topmost tables exist
        IF k = 0 THEN [fs |-> fs, err |-> "EOK"]
        ELSE AddTable(Exist[k - 1], i, iblock, nblk, l - k + 1)
  IN  Exist[l]

StoreData(st, i, iblock, blk) ==
  IF st.err # "EOK" THEN st ELSE [st EXCEPT !.fs = StoreAt(st.fs, i, iblock, 0, blk)]

SetDataBlockIndex(fs, i, iblock, nblk, blk) ==
  IF iblock >= NDirect /\ LevelOf(iblock) = 0 THEN [fs |-> fs, err |-> "EIO"]
  ELSE StoreData(IF iblock < NDirect THEN [fs |-> fs, err |-> "EOK"]
                 ELSE AddTables(fs, i, iblock, nblk, LevelOf(iblock)), i, iblock, blk)

(* ext4_balloc_free_block; no table stays in the block. *)
DropBlock(fs, i, b) == NoNodes(FreeBlock(fs, i, b), {b})

(* ext4_fs_append_inode_dblk without extents. *)
Appended(set, i, blk) ==
  IF set.err # "EOK" THEN [fs |-> DropBlock(set.fs, i, blk), err |-> set.err, blk |-> 0]
  ELSE [fs |-> set.fs, err |-> "EOK", blk |-> blk]

AppendAt(a, i, nblk) ==
  IF a.err # "EOK" THEN [fs |-> a.fs, err |-> a.err, blk |-> 0]
  ELSE Appended(SetDataBlockIndex(a.fs, i, nblk, nblk, a.blk), i, a.blk)

MapAppend(fs, i, nblk) == AppendAt(AllocAtGoal(IndirectFindGoal(fs, i, nblk), i), i, nblk)

(* ext4_fs_release_inode_block: the tables stay. *)
ReleaseBlock(fs, i, iblock) ==
  LET b == MapLookup(fs, i, iblock)
  IN  IF b \in {0, NONE} THEN fs ELSE DropBlock(StoreAt(fs, i, iblock, 0, 0), i, b)

(***************************************************************************)
(* The indirect blocks released by ext4_fs_free_inode: the tables below a  *)
(* table first, the data blocks having been released by a truncate.        *)
(***************************************************************************)
TablesUnder(fs, b, h) ==        \* b, of height h, and the tables below it
  LET Kids(S) == {fs.node[x][k] : x \in S, k \in 0 .. PerBlock - 1} \ {0}
  IN  IF b = 0 THEN {}
      ELSE {b} \cup (IF h >= 2 THEN Kids({b}) ELSE {})
               \cup (IF h = 3 THEN Kids(Kids({b})) ELSE {})

Tables(fs, i) == UNION {TablesUnder(fs, fs.ino[i].slot[NDirect + h - 1], h) : h \in 1 .. 3}

NoTables(fs, i) ==
  [fs EXCEPT !.ino[i].slot = [k \in Slots |-> IF k < NDirect THEN @[k] ELSE 0]]

FreeTables(fs, i) ==
  NoTables(FoldSet(LAMBDA b, f : DropBlock(f, i, b), fs, Tables(fs, i)), i)
=============================================================================
