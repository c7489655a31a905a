------------------------------- MODULE Extent -------------------------------
(***************************************************************************)
(* The extent tree of an i-node, ext4_extent.c.  fs.ino[i].root is the     *)
(* node in the i-node, fs.node[b] the node in block b.  A node is          *)
(*   [depth, max, e]   e the sequence of its valid entries                 *)
(* A leaf entry is [lb, cnt, pb]: first logical block, 16-bit block_count  *)
(* with the unwritten mark in its top bit, first physical block.  An index *)
(* entry is [lb, pb].  A path gives, for level 0 (the root) to depth, the  *)
(* block of the node (0: the i-node) and the position of the entry its     *)
(* index or extent pointer is at (0: NULL).                                *)
(***************************************************************************)
EXTENDS Balloc, Sequences, SequencesExt

CONSTANTS RootMax, BlockMax     \* entries in the i-node, in a block

ASSUME NodeAssumption == RootMax \in Nat \ {0} /\ BlockMax \in Nat /\ BlockMax > RootMax

HALF == 32768                   \* EXT_INIT_MAX_LEN

IsUnwritten(x) == x.cnt > HALF
ActualLen(x) == IF x.cnt <= HALF THEN x.cnt ELSE x.cnt - HALF
Count16(n) == n % 65536
MarkUnwritten(n) == IF n < HALF THEN n + HALF ELSE n
Mark(n, unwritten) == IF unwritten THEN MarkUnwritten(Count16(n)) ELSE Count16(n)

TreeInit == [depth |-> 0, max |-> RootMax, e |-> <<>>]

NodeOf(fs, i, b) == IF b = 0 THEN fs.ino[i].root ELSE fs.node[b]
SetNode(fs, i, b, n) ==
  IF b = 0 THEN [fs EXCEPT !.ino[i].root = n]
  ELSE [fs EXCEPT !.node = [x \in DOMAIN @ \cup {b} |-> IF x = b THEN n ELSE @[x]]]
SetEntry(fs, i, b, p, x) ==
  SetNode(fs, i, b, [NodeOf(fs, i, b) EXCEPT !.e[p] = x])
Depth(fs, i) == fs.ino[i].root.depth

(* Freeing a block leaves no node there. *)
NoNodes(fs, blocks) == [fs EXCEPT !.node = [b \in DOMAIN @ \ blocks |-> @[b]]]
ExtFreeBlocks(fs, i, first, count) ==
  NoNodes(FreeBlocks(fs, i, first, count), first .. first + count - 1)

(* Slip: the search never looks at the last entry. *)
Binsearch_bug(n, block) ==
  IF n.e = <<>> THEN 0
  ELSE Max({1} \cup {p \in 2 .. Len(n.e) - 1 : n.e[p].lb <= block})

(* ext4_ext_binsearch and _idx: the last entry at or before block, or the first. *)
Binsearch(n, block) ==
  IF n.e = <<>> THEN 0
  ELSE Max({1} \cup {p \in 2 .. Len(n.e) : n.e[p].lb <= block})

FindExtent(fs, i, block) ==
  LET P[k \in 0 .. Depth(fs, i)] ==
        LET up == P[k - 1]
            b  == IF k = 0 THEN 0 ELSE NodeOf(fs, i, up.b).e[up.p].pb
        IN  [b |-> b, p |-> Binsearch(NodeOf(fs, i, b), block)]
  IN  [k \in 0 .. Depth(fs, i) |-> P[k]]

(* Where the path ends, and the extent there. *)
LeafOf(fs, i, path) == path[Depth(fs, i)]
ExtentAt(fs, i, at) == NodeOf(fs, i, at.b).e[at.p]
PathExtent(fs, i, path) == ExtentAt(fs, i, LeafOf(fs, i, path))

(***************************************************************************)
(* ext4_ext_find_goal, from the extent the path ends at, else from the     *)
(* leaf's own block, else from the i-node's group.                         *)
(***************************************************************************)
InodeToGoal(i) == (i - 1) \div InodesPerGroup

GoalAt(fs, i, at, block) ==
  IF at.p # 0 THEN ExtentAt(fs, i, at).pb + (block - ExtentAt(fs, i, at).lb)
  ELSE IF at.b # 0 THEN at.b ELSE InodeToGoal(i)

FindGoal(fs, i, path, block) == GoalAt(fs, i, LeafOf(fs, i, path), block)

(***************************************************************************)
(* ext4_ext_correct_indexes: a new first entry moves the keys above it.    *)
(* Here the levels above k get key as long as the path below them goes     *)
(* through first entries only.                                             *)
(***************************************************************************)
SetKey(fs, i, at, key) ==
  SetEntry(fs, i, at.b, at.p, [ExtentAt(fs, i, at) EXCEPT !.lb = key])

CorrectAbove(fs, i, path, k, key) ==
  LET Up[m \in 0 .. k] ==       \* after levels k-1 .. k-m are corrected
        IF m = 0 THEN fs
        ELSE IF \A q \in k - m + 1 .. k : path[q].p = 1
        THEN SetKey(Up[m - 1], i, path[k - m], key)
        ELSE Up[m - 1]
  IN  Up[k]

CorrectIndexes(fs, i, path) ==
  CorrectAbove(fs, i, path, Depth(fs, i), PathExtent(fs, i, path).lb)

Adjacent(a, b) ==               \* b continues a, on disk and in the file
  /\ a.pb + ActualLen(a) = b.pb
  /\ a.lb + ActualLen(a) = b.lb
Fits(ex1, ex2) ==
  ActualLen(ex1) + ActualLen(ex2) <= (IF IsUnwritten(ex1) THEN HALF - 1 ELSE HALF)
CanAppend(ex, new) == Adjacent(ex, new) /\ Fits(ex, new)
CanPrepend(ex, new) == Adjacent(new, ex) /\ Fits(ex, new)

(***************************************************************************)
(* ext4_ext_insert_leaf.  Prepending keeps the extent's physical start, as *)
(* the code does.                                                          *)
(***************************************************************************)
Enlarged(ex, new, lb) ==
  [ex EXCEPT !.lb = lb, !.cnt = Mark(ActualLen(ex) + ActualLen(new), IsUnwritten(ex))]

InsertBeside(fs, i, path, n, at, new, pos) ==
  IF Len(n.e) = n.max THEN [fs |-> fs, err |-> "SPLIT", path |-> path]
  ELSE [fs |-> CorrectIndexes(SetNode(fs, i, at.b, [n EXCEPT !.e = InsertAt(@, pos, new)]), i,
                 [path EXCEPT ![Depth(fs, i)].p = IF @ = 0 THEN 1 ELSE @]),
        err |-> "EOK", path |-> [path EXCEPT ![Depth(fs, i)].p = pos]]

InsertNear(fs, i, path, at, ex, new, combine) ==
  CASE new.lb = ex.lb -> [fs |-> fs, err |-> "EIO", path |-> path]
    [] new.lb # ex.lb /\ combine /\ CanAppend(ex, new) ->
         [fs |-> SetEntry(fs, i, at.b, at.p, Enlarged(ex, new, ex.lb)),
          err |-> "EOK", path |-> path]
    [] new.lb # ex.lb /\ combine /\ CanPrepend(ex, new) ->
         [fs |-> SetEntry(fs, i, at.b, at.p, Enlarged(ex, new, new.lb)),
          err |-> "EOK", path |-> path]
    [] OTHER ->
         InsertBeside(fs, i, path, NodeOf(fs, i, at.b), at, new,
                      IF new.lb > ex.lb THEN at.p + 1 ELSE at.p)

InsertLeaf(fs, i, path, new, combine) ==
  LET at == LeafOf(fs, i, path)
  IN  IF at.p = 0 THEN InsertBeside(fs, i, path, NodeOf(fs, i, at.b), at, new, 1)
      ELSE InsertNear(fs, i, path, at, ExtentAt(fs, i, at), new, combine)

(* ext4_ext_insert_index. *)
InsertIndex(fs, i, path, at, lb, blk, setToIx) ==
  LET b  == path[at].b
      p  == path[at].p
      n  == NodeOf(fs, i, b)
      ix == IF lb > n.e[p].lb THEN p + 1 ELSE p
  IN  IF lb = n.e[p].lb \/ Len(n.e) = n.max
      THEN [fs |-> fs, err |-> "EIO", path |-> path]
      ELSE [fs |-> SetNode(fs, i, b, [n EXCEPT !.e = InsertAt(@, ix, [lb |-> lb, pb |-> blk])]),
            err |-> "EOK",
            path |-> IF setToIx THEN [path EXCEPT ![at].p = ix] ELSE path]

(***************************************************************************)
(* ext4_ext_split_node: the entries after the path's move to new nodes,    *)
(* from the leaf up to level at, and the level above at gets an index to   *)
(* the topmost.  When a block cannot be had the new blocks are freed, and  *)
(* what was moved into them with them.                                     *)
(***************************************************************************)
MoveTo(a, st, i, at, n, depth, head) ==
  IF a.err # "EOK" THEN [st EXCEPT !.fs = a.fs, !.err = a.err]
  ELSE [fs |-> SetNode(SetNode(a.fs, i, at.b, [n EXCEPT !.e = SubSeq(@, 1, at.p)]), i, a.blk,
                       [depth |-> depth, max |-> BlockMax,
                        e |-> head \o SubSeq(n.e, at.p + 1, Len(n.e))]),
        err |-> "EOK", top |-> a.blk, blks |-> Append(st.blks, a.blk)]

SplitLevel(st, i, path, k, insertLb, goal) ==
  IF st.err # "EOK" THEN st
  ELSE MoveTo(AllocBlock(st.fs, i, goal), st, i, path[k], NodeOf(st.fs, i, path[k].b),
              Depth(st.fs, i) - k,
              IF k = Depth(st.fs, i) THEN <<>> ELSE <<[lb |-> insertLb, pb |-> st.top]>>)

SplitLevels(fs, i, path, at, insertLb, goal) ==
  LET d == Depth(fs, i)
      Level[k \in at .. d + 1] ==
        IF k = d + 1 THEN [fs |-> fs, err |-> "EOK", top |-> 0, blks |-> <<>>]
        ELSE SplitLevel(Level[k + 1], i, path, k, insertLb, goal)
  IN  Level[at]

FreeNew(fs, i, blks) ==
  LET Undo[k \in 0 .. Len(blks)] ==
        IF k = 0 THEN fs ELSE ExtFreeBlocks(Undo[k - 1], i, blks[k], 1)
  IN  Undo[Len(blks)]

SplitDone(ins, i, path, at, blks, right) ==
  IF ins.err # "EOK" THEN [fs |-> FreeNew(ins.fs, i, blks), err |-> ins.err, path |-> path]
  ELSE [fs |-> ins.fs, err |-> "EOK",
        path |-> [k \in DOMAIN path |->
                    IF k < at \/ ~right THEN ins.path[k]
                    ELSE LET blk == blks[Depth(ins.fs, i) - k + 1]
                         IN  [b |-> blk, p |-> IF ins.fs.node[blk].e = <<>> THEN 0 ELSE 1]]]

LinkSplit(st, i, path, at, insertLb, right) ==
  SplitDone(IF st.err # "EOK" THEN st
            ELSE InsertIndex(st.fs, i, path, at - 1, insertLb, st.top, right),
            i, path, at, st.blks, right)

SplitAtKey(fs, i, path, at, new, insertLb) ==
  LinkSplit(SplitLevels(fs, i, path, at, insertLb, FindGoal(fs, i, path, new.lb)),
            i, path, at, insertLb, new.lb >= insertLb)

InsertKey(n, p, new) == IF p # n.max THEN n.e[p + 1].lb ELSE new.lb

SplitNode(fs, i, path, at, new) ==
  SplitAtKey(fs, i, path, at, new,
             InsertKey(NodeOf(fs, i, LeafOf(fs, i, path).b), LeafOf(fs, i, path).p, new))

(* ext4_ext_grow_indepth: the root's entries move to a block of their own. *)
MoveRoot(a, i, root) ==
  IF a.err # "EOK" THEN [fs |-> a.fs, err |-> a.err]
  ELSE [fs |-> SetNode(SetNode(a.fs, i, a.blk, [root EXCEPT !.max = BlockMax]), i, 0,
                 [depth |-> root.depth + 1, max |-> RootMax,
                  e |-> <<[lb |-> root.e[1].lb, pb |-> a.blk]>>]),
        err |-> "EOK"]

GrowIndepth(fs, i) ==
  LET root == fs.ino[i].root
  IN  MoveRoot(AllocBlock(fs, i, IF root.depth # 0 THEN root.e[1].pb ELSE InodeToGoal(i)),
               i, root)

(***************************************************************************)
(* ext4_ext_insert_extent: insert; when the leaf is full split up to the   *)
(* lowest node with room, growing the tree first when there is none, and   *)
(* insert again.                                                           *)
(***************************************************************************)
Deepened(grow, i, path, new) ==
  IF grow.err # "EOK" THEN [fs |-> grow.fs, err |-> grow.err, path |-> path]
  ELSE LET deep == FindExtent(grow.fs, i, new.lb)
       IN  IF Depth(grow.fs, i) = 1 THEN [fs |-> grow.fs, err |-> "EOK", path |-> deep]
           ELSE SplitNode(grow.fs, i, deep, 2, new)

MakeRoom(fs, i, path, new) ==
  LET room == {k \in 0 .. Depth(fs, i) : LET n == NodeOf(fs, i, path[k].b)
                                         IN  Len(n.e) < n.max}
  IN  IF room # {} THEN SplitNode(fs, i, path, Max(room) + 1, new)
      ELSE Deepened(GrowIndepth(fs, i), i, path, new)

InsertAgain(room, i, new, combine) ==
  IF room.err # "EOK" THEN room ELSE InsertLeaf(room.fs, i, room.path, new, combine)

InsertOrSplit(first, i, new, combine) ==
  IF first.err # "SPLIT" THEN first
  ELSE InsertAgain(MakeRoom(first.fs, i, first.path, new), i, new, combine)

InsertExtent(fs, i, path, new, combine) ==
  InsertOrSplit(InsertLeaf(fs, i, path, new, combine), i, new, combine)

(***************************************************************************)
(* ext4_extent_remove_space from block from to the end: its only caller    *)
(* passes EXT_MAX_BLOCKS as the end, so nothing behind the range survives. *)
(* A removed entry's key stays readable where it was: garbage is what the  *)
(* levels above are given until they are removed in turn.                  *)
(***************************************************************************)
DropIdx(fs, i, path, k, n, p) ==
  CorrectAbove(ExtFreeBlocks(SetNode(fs, i, path[k].b, [n EXCEPT !.e = RemoveAt(@, p)]), i,
                             n.e[p].pb, 1),
               i, path, k, n.e[IF p < Len(n.e) THEN p + 1 ELSE p].lb)

RemoveIdx(fs, i, path, k) ==
  DropIdx(fs, i, path, k, NodeOf(fs, i, path[k].b), path[k].p)

FreeFrom(fs, i, n, p, from) ==       \* the blocks of n from from on
  LET Cut(x) == IF x.lb < from THEN from - x.lb ELSE 0
      Free[k \in p - 1 .. Len(n.e)] ==
        IF k = p - 1 THEN fs
        ELSE ExtFreeBlocks(Free[k - 1], i, n.e[k].pb + Cut(n.e[k]),
                           ActualLen(n.e[k]) - Cut(n.e[k]))
  IN  Free[Len(n.e)]

Trimmed(n, p, keep, from) ==
  [n EXCEPT !.e = [k \in 1 .. keep |->
      IF k = p THEN [n.e[k] EXCEPT !.cnt = Mark(from - n.e[k].lb, IsUnwritten(n.e[k]))]
      ELSE n.e[k]]]

LeafRemoved(fs, i, path, at, keep) ==
  IF keep = 0 /\ at.b # 0
  THEN [fs |-> RemoveIdx(fs, i, path, Depth(fs, i) - 1), path |-> path]
  ELSE [fs |-> IF at.p = 1 /\ keep > 0 THEN CorrectIndexes(fs, i, path) ELSE fs,
        path |-> IF Depth(fs, i) = 0 THEN path ELSE [path EXCEPT ![Depth(fs, i) - 1].p = @ + 1]]

TrimLeaf(fs, i, path, from, at, n, keep) ==
  LeafRemoved(SetNode(FreeFrom(fs, i, n, at.p, from), i, at.b, Trimmed(n, at.p, keep, from)),
              i, path, at, keep)

RemoveLeaf(fs, i, path, from) ==
  LET at == LeafOf(fs, i, path)
  IN  TrimLeaf(fs, i, path, from, at, NodeOf(fs, i, at.b),
               IF ExtentAt(fs, i, at).lb < from THEN at.p ELSE at.p - 1)

RemoveStep(st, i, from) ==
  LET d == Depth(st.fs, i)
      k == st.k
      n == NodeOf(st.fs, i, st.path[k].b)
  IN  CASE k = d -> RemoveLeaf(st.fs, i, st.path, from) @@ [k |-> k - 1]
        [] k < d /\ st.path[k].p <= Len(n.e) ->
             [st EXCEPT !.path[k + 1] = [b |-> n.e[st.path[k].p].pb, p |-> 1],
                        !.k = k + 1]
        [] k < d /\ st.path[k].p > Len(n.e) /\ k > 0 /\ n.e = <<>> ->
             [st EXCEPT !.fs = RemoveIdx(st.fs, i, st.path, k - 1), !.k = k - 1]
        [] OTHER ->
             [st EXCEPT !.path = IF k > 0 THEN [@ EXCEPT ![k - 1].p = @ + 1] ELSE @,
                        !.k = k - 1]

RemoveAll(fs, i, path, from) ==
  LET fuel == 2 * (Cardinality(DOMAIN fs.node) + 2)
      Loop[t \in 0 .. fuel] ==
        IF t = 0 THEN [fs |-> fs, path |-> path, k |-> Depth(fs, i)]
        ELSE LET st == Loop[t - 1] IN IF st.k < 0 THEN st ELSE RemoveStep(st, i, from)
  IN  Loop[fuel].fs

EmptiedRoot(fs, i) ==
  IF fs.ino[i].root.e = <<>> THEN [fs EXCEPT !.ino[i].root = TreeInit] ELSE fs

Covers(at, x, block) == at.p # 0 /\ block \in x.lb .. x.lb + ActualLen(x) - 1

RemoveSpace(fs, i, from) ==
  LET path == FindExtent(fs, i, from)
  IN  IF ~Covers(LeafOf(fs, i, path), PathExtent(fs, i, path), from) THEN fs
      ELSE EmptiedRoot(RemoveAll(fs, i, path, from), i)

(***************************************************************************)
(* ext4_ext_split_extent_at and ext4_ext_convert_to_initialized (for one   *)
(* block).  When the second half cannot be inserted the first gets its     *)
(* length back, without its unwritten mark, and the caller sees success.   *)
(***************************************************************************)
SplitRest(ins, i, path, at, ex) ==
  IF ins.err = "EOK" THEN ins
  ELSE [fs |-> SetEntry(ins.fs, i, at.b, at.p, [ex EXCEPT !.cnt = ActualLen(ex)]),
        err |-> "EOK", path |-> path]

SplitAt(fs, i, path, at, ex, split, unwrit1, unwrit2) ==
  IF split = ex.lb
  THEN [fs |-> SetEntry(fs, i, at.b, at.p, [ex EXCEPT !.cnt = Mark(ActualLen(ex), unwrit2)]),
        err |-> "EOK", path |-> path]
  ELSE SplitRest(
         InsertExtent(
           SetEntry(fs, i, at.b, at.p, [ex EXCEPT !.cnt = Mark(split - ex.lb, unwrit1)]),
           i, path,
           [lb |-> split, cnt |-> Mark(ActualLen(ex) - (split - ex.lb), unwrit2),
            pb |-> split - ex.lb + ex.pb], FALSE),
         i, path, at, ex)

SplitExtentAt(fs, i, path, split, unwrit1, unwrit2) ==
  SplitAt(fs, i, path, LeafOf(fs, i, path), PathExtent(fs, i, path), split, unwrit1, unwrit2)

ConvertHead(cut, i, split) ==
  IF cut.err = "EOK" THEN SplitExtentAt(cut.fs, i, cut.path, split, TRUE, FALSE) ELSE cut

ConvertToInitialized(fs, i, path, ex, split) ==
  IF split + 1 = ex.lb + ActualLen(ex)
  THEN SplitExtentAt(fs, i, path, split, TRUE, FALSE)
  ELSE IF ex.lb = split THEN SplitExtentAt(fs, i, path, split + 1, FALSE, TRUE)
  ELSE ConvertHead(SplitExtentAt(fs, i, path, split + 1, TRUE, TRUE), i, split)

(***************************************************************************)
(* ext4_extent_get_blocks for one block; blk 0 is a hole or unwritten.     *)
(* FindBlocks is its answer without create, CreateBlocks with it.          *)
(***************************************************************************)
Got(fs, err, blk) == [fs |-> fs, err |-> err, blk |-> blk]

FoundAt(fs, at, x, iblock) ==
  Got(fs, "EOK", IF Covers(at, x, iblock) /\ ~IsUnwritten(x) THEN x.pb + (iblock - x.lb) ELSE 0)

FoundOn(fs, i, path, iblock) ==
  FoundAt(fs, LeafOf(fs, i, path), PathExtent(fs, i, path), iblock)

FindBlocks(fs, i, iblock) == FoundOn(fs, i, FindExtent(fs, i, iblock), iblock)

NewExtent(ins, i, blk) ==
  IF ins.err # "EOK" THEN Got(ExtFreeBlocks(ins.fs, i, blk, 1), ins.err, 0)
  ELSE Got(ins.fs, "EOK", blk)

AddExtent(a, i, path, iblock) ==
  IF a.err # "EOK" THEN Got(a.fs, a.err, 0)
  ELSE NewExtent(InsertExtent(a.fs, i, path, [lb |-> iblock, cnt |-> 1, pb |-> a.blk], TRUE),
                 i, a.blk)

Converted(conv, blk) == Got(conv.fs, conv.err, blk)

CreateOn(fs, i, path, x, iblock) ==
  IF ~Covers(LeafOf(fs, i, path), x, iblock)
  THEN AddExtent(AllocBlock(fs, i, FindGoal(fs, i, path, iblock)), i, path, iblock)
  ELSE IF IsUnwritten(x)
  THEN Converted(ConvertToInitialized(fs, i, path, x, iblock), x.pb + (iblock - x.lb))
  ELSE Got(fs, "EOK", x.pb + (iblock - x.lb))

CreatePath(fs, i, path, iblock) == CreateOn(fs, i, path, PathExtent(fs, i, path), iblock)

CreateBlocks(fs, i, iblock) == CreatePath(fs, i, FindExtent(fs, i, iblock), iblock)
=============================================================================
