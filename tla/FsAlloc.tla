------------------------------ MODULE FsAlloc -------------------------------
(***************************************************************************)
(* Files and their blocks: the operations of ext4.c that allocate and free *)
(* i-nodes and blocks, on top of extent trees and block maps.  lwext4 runs *)
(* one call at a time, so a call is a step; what can go wrong is the state *)
(* a long sequence of calls leaves.  Sizes are counted in units of which a *)
(* block has UNITS; ext is whether the superblock has the extents feature. *)
(* res is what the last call returned.                                     *)
(***************************************************************************)
EXTENDS BlockMap

CONSTANTS UNITS, MaxBlocks,     \* bounds on the blocks of a file
          MaxDirBlocks,         \* and of a directory
          WriteLens,            \* lengths a write is made with
          TruncateSizes,        \* sizes files are truncated to
          MaxTruncate,          \* CONFIG_MAX_TRUNCATE_SIZE, in units
          PreBlocks,            \* preallocated blocks of the initial file
          MaxCuts               \* bound on truncations and removals

VARIABLES fs, ext, res, cuts,
          files                 \* history: the blocks a reader of each file is given
vars == <<fs, ext, res, cuts, files>>

Inodes == 2 .. InodesCount      \* 1 is the root directory
BlocksOf(size) == (size + UNITS - 1) \div UNITS

NoInode == [used |-> FALSE, kind |-> "none", ext |-> FALSE, size |-> 0,
            blocks |-> 0, root |-> TreeInit, slot |-> EmptySlots]

(***************************************************************************)
(* A file system mke2fs could have made: the last group's bitmaps not yet  *)
(* initialised, and, with extents, possibly a file whose PreBlocks blocks  *)
(* were preallocated and never written, at the end of group 0.             *)
(***************************************************************************)
Prealloc == BlocksPerGroup - PreBlocks .. BlocksPerGroup - 1
PreFile == [NoInode EXCEPT
              !.used = TRUE, !.kind = "file", !.ext = TRUE,
              !.size = PreBlocks * UNITS, !.blocks = PreBlocks,
              !.root.e = <<[lb |-> 0, cnt |-> Mark(PreBlocks, TRUE),
                            pb |-> IdxToAddr(Min(Prealloc), 0)]>>]

MadeFs(pre) ==
  LET bit == [g \in Groups |-> MetaBits[g] \cup
                (IF g = 0 /\ pre THEN Prealloc ELSE {})]
      ibit == [g \in Groups |-> IF g # 0 THEN {} ELSE IF pre THEN {0, 1} ELSE {0}]
      bg  == [g \in Groups |->
                [bfree |-> BlocksInGroup(g) - Cardinality(bit[g]),
                 ifree |-> InodesInGroup(g) - Cardinality(ibit[g]),
                 dirs  |-> IF g = 0 THEN 1 ELSE 0,
                 unused |-> InodesInGroup(g) - Cardinality(ibit[g]),
                 buninit |-> g = GroupCnt - 1, iuninit |-> g = GroupCnt - 1]]
  IN  [bit |-> bit, ibit |-> ibit, bg |-> bg,
       sbfree  |-> MapThenSumSet(LAMBDA g : bg[g].bfree, Groups),
       sbifree |-> MapThenSumSet(LAMBDA g : bg[g].ifree, Groups),
       lastbg  |-> 0,
       node |-> <<>>,
       ino |-> [i \in Inodes |-> IF pre /\ i = 2 THEN PreFile ELSE NoInode]]

(* ext4_fs_get_inode_dblk_idx, and ext4_fs_init_inode_dblk_idx, which creates. *)
MapGot(f, b) == Got(f, IF b = NONE THEN "EIO" ELSE "EOK", b)

DblkIdx(f, i, iblock) ==
  IF f.ino[i].size = 0 THEN Got(f, "EOK", 0)
  ELSE IF f.ino[i].ext THEN FindBlocks(f, i, iblock)
  ELSE MapGot(f, MapLookup(f, i, iblock))

InitDblkIdx(f, i, iblock) ==
  IF f.ino[i].size = 0 THEN Got(f, "EOK", 0)
  ELSE IF f.ino[i].ext THEN CreateBlocks(f, i, iblock)
  ELSE MapGot(f, MapLookup(f, i, iblock))

(* The files as the sequences of blocks ext4_fs_get_inode_dblk_idx gives a reader. *)
FilesOf(f) ==
  [i \in Inodes |->
     IF ~f.ino[i].used THEN <<-1>>
     ELSE [k \in 1 .. BlocksOf(f.ino[i].size) |-> DblkIdx(f, i, k - 1).blk]]

Init ==
  /\ ext \in BOOLEAN
  /\ \E pre \in IF ext THEN BOOLEAN ELSE {FALSE} : fs = MadeFs(pre)
  /\ res = "EOK"
  /\ cuts = 0
  /\ files = FilesOf(fs)

-----------------------------------------------------------------------------
(* ext4_fs_append_inode_dblk: only the block map rounds the size up first. *)
Grown(st, i, size) == IF st.err # "EOK" THEN st ELSE [st EXCEPT !.fs.ino[i].size = size]

AppendDblk(f, i) ==
  LET n == BlocksOf(f.ino[i].size)
  IN  IF f.ino[i].ext THEN Grown(CreateBlocks(f, i, n), i, f.ino[i].size + UNITS)
      ELSE Grown(MapAppend(f, i, n), i, (n + 1) * UNITS)

(* ext4_fs_truncate_inode. *)
ReleaseBlocks(f, i, from, till) ==
  LET Release[k \in from .. till] ==
        IF k = from THEN f ELSE ReleaseBlock(Release[k - 1], i, k - 1)
  IN  Release[till]

Shrunk(f, i, new) == [f EXCEPT !.ino[i].size = new]

TruncateInode(f, i, new) ==
  LET from == BlocksOf(new)
      till == BlocksOf(f.ino[i].size)
  IN  Shrunk(IF from = till THEN f
             ELSE IF f.ino[i].ext THEN RemoveSpace(f, i, from)
             ELSE ReleaseBlocks(f, i, from, till), i, new)

(* ext4_trunc_inode: no more than MaxTruncate goes in one truncation. *)
TruncChunk(f, i, size, new) ==
  TruncateInode(f, i, IF size > new + MaxTruncate THEN size - MaxTruncate ELSE new)

TruncInode(f, i, new) ==
  LET chunks == {k \in 0 .. f.ino[i].size : f.ino[i].size - k * MaxTruncate > new}
      Cut[k \in 0 .. Cardinality(chunks)] ==
        IF k = 0 THEN f
        ELSE LET g == Cut[k - 1] IN TruncChunk(g, i, g.ino[i].size, new)
  IN  Cut[Cardinality(chunks)]

(* ext4_fs_alloc_inode and ext4_fs_inode_blocks_init. *)
InodeInit(a, kind) ==
  IF a.err # "EOK" THEN a
  ELSE [a EXCEPT !.fs.ino[a.i] =
         [NoInode EXCEPT !.used = TRUE, !.kind = kind,
                         !.ext = ext /\ kind \in {"file", "dir"}]]

NewInode(f, kind) == InodeInit(AllocInode(f, kind = "dir"), kind)

(* ext4_fs_free_inode, after a truncate to nothing. *)
Disused(f, i) == [FreeInodeBit(f, i, f.ino[i].kind = "dir") EXCEPT !.ino[i].used = FALSE]

FreeInode(f, i) == Disused(IF f.ino[i].ext THEN f ELSE FreeTables(f, i), i)

-----------------------------------------------------------------------------
(***************************************************************************)
(* ext4_fwrite of len units at pos.  A block that exists is initialised, a *)
(* block behind the end is appended.  When an append fails what was        *)
(* written so far counts, and the size follows the position reached; when  *)
(* an initialisation fails the call ends there.  The caller is told EOK.   *)
(***************************************************************************)
Wrote(st, w, pos, sized) ==
  IF w.err = "EOK" THEN [st EXCEPT !.fs = w.fs, !.pos = pos]
  ELSE [st EXCEPT !.fs = w.fs, !.err = w.err, !.sized = sized]

WriteBlock(st, i, k, nfile) ==
  IF st.err # "EOK" THEN st
  ELSE Wrote(st, IF k < nfile THEN InitDblkIdx(st.fs, i, k) ELSE AppendDblk(st.fs, i),
             IF (k + 1) * UNITS < st.end THEN (k + 1) * UNITS ELSE st.end, k >= nfile)

WriteBlocks(f, i, pos, len, first) ==
  LET Blk[k \in 0 .. BlocksOf(pos + len) - first] ==
        IF k = 0 THEN [fs |-> f, err |-> "EOK", pos |-> pos, end |-> pos + len, sized |-> TRUE]
        ELSE WriteBlock(Blk[k - 1], i, first + k - 1, BlocksOf(f.ino[i].size))
  IN  Blk[BlocksOf(pos + len) - first]

Sized(st, i, size) ==
  IF st.sized /\ st.pos > size THEN [st EXCEPT !.fs.ino[i].size = st.pos] ELSE st

WriteFile(f, i, pos, len) ==
  Sized(WriteBlocks(f, i, pos, len, pos \div UNITS), i, f.ino[i].size)

(* The state a call leaves and what it returned. *)
Returns(r) ==
  /\ fs' = r.fs
  /\ res' = r.err
  /\ files' = FilesOf(r.fs)
  /\ UNCHANGED ext

FWrite ==
  \E i \in Inodes, len \in WriteLens :
    \E pos \in {0, fs.ino[i].size} :
      /\ fs.ino[i].used /\ fs.ino[i].kind = "file"
      /\ BlocksOf(pos + len) <= MaxBlocks
      /\ Returns(WriteFile(fs, i, pos, len))
      /\ UNCHANGED cuts

(* ext4_dir_add_entry of a directory whose blocks are full. *)
DirGrow ==
  \E i \in Inodes :
    /\ fs.ino[i].used /\ fs.ino[i].kind = "dir"
    /\ BlocksOf(fs.ino[i].size) < MaxDirBlocks
    /\ Returns(AppendDblk(fs, i))
    /\ UNCHANGED cuts

(* ext4_generic_open2 with O_CREAT, the entry's own i-node. *)
FCreate ==
  \E kind \in {"file", "dir"} :
    /\ Returns(NewInode(fs, kind))
    /\ UNCHANGED cuts

(***************************************************************************)
(* ext4_fsymlink with a target that does not fit the i-node: a new i-node, *)
(* and one block in its block map whatever the file system's features are. *)
(* The size becomes the target's length, less than a block here.           *)
(***************************************************************************)
LinkSized(w, i) == IF w.err # "EOK" THEN w ELSE [w EXCEPT !.fs.ino[i].size = UNITS - 1]

LinkBlock(a) == IF a.err # "EOK" THEN a ELSE LinkSized(AppendDblk(a.fs, a.i), a.i)

FSymlink ==
  /\ Returns(LinkBlock(NewInode(fs, "link")))
  /\ UNCHANGED cuts

(* ext4_ftruncate: a size at or above the present one changes nothing. *)
Cuts(f) == cuts < MaxCuts /\ Returns([fs |-> f, err |-> "EOK"]) /\ cuts' = cuts + 1

FTruncate ==
  \E i \in Inodes, new \in TruncateSizes :
      /\ new < fs.ino[i].size
      /\ fs.ino[i].used /\ fs.ino[i].kind = "file"
      /\ Cuts(TruncInode(fs, i, new))

(* ext4_fremove of the last link and ext4_dir_rm: truncate, unlink, free the i-node. *)
FRemove ==
  \E i \in Inodes :
    /\ fs.ino[i].used
    /\ Cuts(FreeInode(TruncInode(fs, i, 0), i))

Next == FWrite \/ DirGrow \/ FCreate \/ FSymlink \/ FTruncate \/ FRemove

Spec == Init /\ [][Next]_vars

-----------------------------------------------------------------------------
(* What is referenced on the disk. *)
Used == {i \in Inodes : fs.ino[i].used}
TreeNodes(i) ==
  LET root == fs.ino[i].root
      Level[k \in 1 .. 4] ==
        IF k = 1 THEN (IF root.depth = 0 THEN {} ELSE {root.e[p].pb : p \in DOMAIN root.e})
        ELSE UNION {{fs.node[b].e[p].pb : p \in DOMAIN fs.node[b].e} :
                      b \in {x \in Level[k - 1] : fs.node[x].depth > 0}}
  IN  UNION {Level[k] : k \in 1 .. 4}
NodesOf(i) == IF fs.ino[i].ext THEN TreeNodes(i) ELSE Tables(fs, i)

Leaves(i) ==
  {n \in {fs.ino[i].root} \cup {fs.node[b] : b \in TreeNodes(i)} : n.depth = 0}
Extents(i) == UNION {Range(n.e) : n \in Leaves(i)}
ExtentBlocks(x) == x.pb .. x.pb + ActualLen(x) - 1

DataOf(i) ==
  IF fs.ino[i].ext THEN UNION {ExtentBlocks(x) : x \in Extents(i)}
  ELSE {MapLookup(fs, i, k) : k \in 0 .. MaxBlocks - 1} \ {0, NONE}

BlocksUsed(i) == DataOf(i) \cup NodesOf(i)

(***************************************************************************)
(* The bitmaps and what the files refer to agree: a block is marked used   *)
(* exactly when it holds file system metadata, data, a tree node or an     *)
(* indirect table, so nothing leaks and nothing in use can be given out    *)
(* again (ext4_balloc_alloc_block, ext4_balloc_free_blocks and every       *)
(* error path of ext4_extent.c and ext4_fs.c that gives blocks back).      *)
(***************************************************************************)
BitmapsExact ==
  \A g \in Groups :
    /\ fs.bit[g] \cap (0 .. BlocksInGroup(g) - 1) =
         MetaBits[g] \cup
         {AddrToIdx(b) : b \in {x \in UNION {BlocksUsed(i) : i \in Used} : BgidOfBlock(x) = g}}
    /\ fs.ibit[g] = {InodeToBgidx(i) : i \in {j \in Used \cup {1} : BgidOfInode(j) = g}}

(***************************************************************************)
(* Each block has one use: the blocks counted by the i-nodes               *)
(* (ext4_inode_set_blocks_count) are as many as there are blocks in use,   *)
(* so no two files, no two places of a file, share one.                    *)
(***************************************************************************)
OneUse ==
  /\ \A i \in Used : fs.ino[i].blocks = Cardinality(BlocksUsed(i))
  /\ \A i \in Used : DataOf(i) \cap NodesOf(i) = {}
  /\ \A i, j \in Used : i # j => BlocksUsed(i) \cap BlocksUsed(j) = {}
  /\ DOMAIN fs.node = UNION {NodesOf(i) : i \in Used}

(***************************************************************************)
(* The free counters are the bitmaps'.  ext4_balloc_alloc_block believes   *)
(* the group's counter before it looks, and ext4_ialloc_alloc_inode loops  *)
(* for ever on a group whose counter promises an i-node it does not have.  *)
(***************************************************************************)
CountersExact ==
  /\ \A g \in Groups :
       /\ fs.bg[g].bfree = BlocksInGroup(g) - Cardinality(fs.bit[g] \cap (0 .. BlocksInGroup(g) - 1))
       /\ fs.bg[g].ifree = InodesInGroup(g) - Cardinality(fs.ibit[g])
       /\ fs.bg[g].dirs = Cardinality({i \in Used : fs.ino[i].kind = "dir" /\ BgidOfInode(i) = g})
                            + (IF g = 0 THEN 1 ELSE 0)
       /\ \A b \in fs.ibit[g] : b < InodesInGroup(g) - fs.bg[g].unused
  /\ fs.sbfree = MapThenSumSet(LAMBDA g : fs.bg[g].bfree, Groups)
  /\ fs.sbifree = MapThenSumSet(LAMBDA g : fs.bg[g].ifree, Groups)
  /\ res # "SPIN"

(***************************************************************************)
(* Bitmaps, i-nodes and counters, which ext4_balloc.c, ext4_ialloc.c and   *)
(* ext4_inode.c change one after the other, tell the same use of space     *)
(* after every call, also one that failed half way.                        *)
(***************************************************************************)
SpaceExact == BitmapsExact /\ OneUse /\ CountersExact

(***************************************************************************)
(* Extent trees stay searchable: ext4_ext_binsearch and _idx find a block  *)
(* only if keys ascend, a child's keys lie between its index and the next, *)
(* extents do not overlap and no node below the root is empty or over its  *)
(* capacity, through every split, growth and removal.                      *)
(***************************************************************************)
TreesSearchable ==
  \A i \in {j \in Used : fs.ino[j].ext} :
    \A b \in {0} \cup TreeNodes(i) :
      LET n == NodeOf(fs, i, b)
      IN  /\ Len(n.e) <= n.max
          /\ b # 0 => n.e # <<>>
          /\ n.depth = 0 =>
               \A p \in 1 .. Len(n.e) - 1 : n.e[p].lb + ActualLen(n.e[p]) <= n.e[p + 1].lb
          /\ n.depth > 0 =>
               \A p \in DOMAIN n.e :
                 LET c == fs.node[n.e[p].pb]
                 IN  /\ c.depth = n.depth - 1
                     /\ n.e[p].lb = c.e[1].lb
                     /\ p < Len(n.e) => Last(c.e).lb < n.e[p + 1].lb

(***************************************************************************)
(* A call is refused for want of space only when there is none: a create   *)
(* when every i-node is taken, a write when fewer blocks are left than one *)
(* append can need (its data block and a node on every level).  The block  *)
(* search starts in any group at any bit and must still reach every block. *)
(***************************************************************************)
RefusedOnlyWhenFull ==
  [][res' = "ENOSPC" =>
       \/ fs'.sbifree = 0 /\ Used' = Used
       \/ fs'.sbfree < 5]_vars

Abstract == INSTANCE FileMap WITH map <- files, Inodes <- Inodes,
              Blocks <- FirstDataBlock .. BlocksCount + FirstDataBlock - 1

(***************************************************************************)
(* Every behaviour is one of the abstract file map: a write never moves or *)
(* loses a block that was there, a truncate leaves the rest, and no block  *)
(* a reader is given belongs to two positions.                             *)
(***************************************************************************)
FilesKeepTheirBlocks == Abstract!MapSpec
=============================================================================
