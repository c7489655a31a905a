------------------------------- MODULE DirIdx -------------------------------
(***************************************************************************)
(* The hash index of a directory (ext4_dir_idx.c) and the operations of    *)
(* ext4_dir.c that choose between it and the linear search.  A directory   *)
(* is a record d:                                                          *)
(*   blk[n]   its blocks, read as records (see DirBlock)                   *)
(*   dx[n]    the same blocks read as index nodes, for those that are one  *)
(*   index    EXT4_INODE_FLAG_INDEX                                        *)
(*   levels   indirect_levels of the root                                  *)
(*   csum     whether the file system has metadata_csum                    *)
(* The root is block 0; its entries and those of a node lie behind one     *)
(* record that covers them, so the linear code sees an index block as      *)
(* nearly empty.  ents[1]'s hash is the slot of count and limit.           *)
(***************************************************************************)
EXTENDS DirBlock, Sequences, TLC

CONSTANTS Hash(_),          \* ext2_htree_hash: an even number
          RootLimit,        \* entries of a root and of a node of a file
          NodeLimit,        \* system without metadata_csum
          MaxBlocks         \* the blocks that can be appended run out here

ASSUME LimitAssumption == 1 < RootLimit /\ RootLimit < NodeLimit

(* The tail of a checksummed index block takes the place of one entry. *)
RootSpace(csum) == IF csum THEN RootLimit - 1 ELSE RootLimit
NodeSpace(csum) == IF csum THEN NodeLimit - 1 ELSE NodeLimit

NBlocks(d) == Cardinality(DOMAIN d.blk)
Full(d) == NBlocks(d) = MaxBlocks
AppendBlock(d, b) == [d EXCEPT !.blk = @ @@ (NBlocks(d) :> b)]

(***************************************************************************)
(* qsort of lib/sort.c, on a sequence s by the hashes of its elements: the *)
(* middle element is the pivot, and the smaller ones are swapped forward.  *)
(***************************************************************************)
Swap(s, i, j) == [s EXCEPT ![i] = s[j], ![j] = s[i]]

Comparator(a, b) == Hash(a.name) - Hash(b.name)

Partition(s0, left, right) ==
  LET s1 == Swap(s0, left, (left + right) \div 2)
      P[i \in left .. right] ==
        IF i = left THEN [s |-> s1, last |-> left]
        ELSE LET prev == P[i - 1]
             IN  IF Comparator(prev.s[left], prev.s[i]) > 0
                 THEN [s |-> Swap(prev.s, i, prev.last + 1), last |-> prev.last + 1]
                 ELSE prev
      end == P[right]
  IN  [s |-> Swap(end.s, left, end.last), last |-> end.last]

RECURSIVE QsortRange(_, _, _)
QsortRange(s, left, right) ==
  IF left >= right THEN s
  ELSE LET p == Partition(s, left, right)
       IN  QsortRange(QsortRange(p.s, left, p.last - 1), p.last + 1, right)

Qsort(s) == QsortRange(s, 1, Len(s))

-----------------------------------------------------------------------------
(* ext4_dir_dx_init: the root with its two dots and one empty leaf. *)
DxInit(self, parent, csum) ==
  LET root == WriteEntry(WriteEntry(Fresh, 0, DotLen, self, "."),
                         DotLen, BS - DotLen, parent, "..")
      leaf == InitTail([Fresh EXCEPT ![0] = Empty(Room(csum))], csum)
  IN  [blk |-> (0 :> root) @@ (1 :> leaf),
       dx |-> 0 :> [limit |-> RootSpace(csum), ents |-> <<[hash |-> 0, blk |-> 1]>>],
       index |-> TRUE, levels |-> 0, csum |-> csum]

(***************************************************************************)
(* ext4_dir_dx_get_leaf: the entries followed from the root, as a path of  *)
(* index blocks and positions; <<>> when a node's limit is not the one     *)
(* this code computes (EXT4_ERR_BAD_DX_DIR).                               *)
(***************************************************************************)
Position(ents, hash) ==
  LET B[p \in 2 .. Len(ents) + 1, q \in 1 .. Len(ents)] ==
        LET m == p + (q - p) \div 2
        IN  IF p > q THEN p - 1
            ELSE IF ents[m].hash > hash THEN B[p, m - 1] ELSE B[m + 1, q]
  IN  B[2, Len(ents)]

Ents(d, n) == d.dx[n].ents
Target(d, at) == Ents(d, at.n)[at.pos].blk

GetLeaf(d, hash) ==
  LET top  == [n |-> 0, pos |-> Position(Ents(d, 0), hash)]
      node == Target(d, top)
  IN  IF d.dx[0].limit # RootSpace(d.csum) THEN <<>>
      ELSE IF d.levels = 0 THEN <<top>>
      ELSE IF d.dx[node].limit # NodeSpace(d.csum) THEN <<>>
      ELSE <<top, [n |-> node, pos |-> Position(Ents(d, node), hash)]>>

(***************************************************************************)
(* ext4_dir_dx_next_block: the path to the next leaf if it may hold        *)
(* entries of the same hash, else <<>>.  Such a leaf's hash has the low    *)
(* bit set.                                                                *)
(***************************************************************************)
NextBlock(d, hash, path) ==
  LET last == Len(path)
      ups  == {k \in 1 .. last : path[k].pos < Len(Ents(d, path[k].n))}
      k    == Max(ups)
      next == [path[k] EXCEPT !.pos = @ + 1]
      h    == Ents(d, next.n)[next.pos].hash
      down == IF k = last THEN <<next>>
              ELSE <<next, [n |-> Target(d, next), pos |-> 1]>>
  IN  IF ups = {} \/ h - (h % 2) # hash THEN <<>>
      ELSE SubSeq(path, 1, k - 1) \o down

(* ext4_dir_dx_find_entry: the leaves of the hash in turn. *)
DxFind(d, name) ==
  LET first == GetLeaf(d, Hash(name))
      Trail[k \in 0 .. NBlocks(d)] ==
        IF k = 0 THEN first
        ELSE LET prev == Trail[k - 1]
             IN  IF prev = <<>> THEN <<>> ELSE NextBlock(d, Hash(name), prev)
      leaf(k) == Target(d, Trail[k][Len(Trail[k])])
      hits == {k \in 0 .. NBlocks(d) :
                 Trail[k] # <<>> /\ FindInBlock(d.blk[leaf(k)], name) # -1}
      n    == leaf(Min(hits))
  IN  IF first = <<>> THEN [err |-> "BAD_DX", n |-> 0, o |-> 0]
      ELSE IF hits = {} THEN [err |-> "ENOENT", n |-> 0, o |-> 0]
      ELSE [err |-> "EOK", n |-> n, o |-> FindInBlock(d.blk[n], name)]

LinearFind(d, name) ==
  LET hits == {n \in DOMAIN d.blk : FindInBlock(d.blk[n], name) # -1}
      n    == Min(hits)
  IN  IF hits = {} THEN [err |-> "ENOENT", n |-> 0, o |-> 0]
      ELSE [err |-> "EOK", n |-> n, o |-> FindInBlock(d.blk[n], name)]

(* ext4_dir_find_entry; a bad index is dropped for good. *)
DropIndex(d, name) ==
  IF d.index /\ GetLeaf(d, Hash(name)) = <<>> THEN [d EXCEPT !.index = FALSE] ELSE d

FindEntry(d, name) ==
  IF DropIndex(d, name).index THEN DxFind(d, name) ELSE LinearFind(d, name)

-----------------------------------------------------------------------------
(* ext4_dir_dx_insert_entry: after the path's position in its node. *)
DxInsert(d, at, hash, n) ==
  [d EXCEPT !.dx[at.n].ents = SubSeq(@, 1, at.pos) \o <<[hash |-> hash, blk |-> n]>>
                              \o SubSeq(@, at.pos + 1, Len(@))]

(***************************************************************************)
(* ext4_dir_dx_split_data: the records of leaf n, sorted by hash; those    *)
(* that fit in half a block stay, the others go to a new leaf.  When all   *)
(* of them fit in half a block no middle is found: mid stays 0, the hash   *)
(* 0, every record is copied and none leaves the old block.  (The word     *)
(* before the sorted array is then compared; it is taken to differ.)       *)
(***************************************************************************)
RECURSIVE SeqOf(_, _)
SeqOf(b, offs) == IF offs = {} THEN <<>>
                  ELSE <<b[Min(offs)]>> \o SeqOf(b, offs \ {Min(offs)})

Sorted(d, n) ==
  LET b == d.blk[n]
  IN  Qsort(SeqOf(b, {o \in Walk(b) : b[o].ino # 0 /\ b[o].name # ""}))

SizeTo(s, k) == MapThenSumSet(LAMBDA j : RecLen(s[j].name), 1 .. k)

Middle(s) ==                \* how many records stay
  LET over == {k \in DOMAIN s : SizeTo(s, k) > BS \div 2}
  IN  IF over = {} THEN 0 ELSE Min(over) - 1

(* Records s one after the other over block b, the last one up to end. *)
Laid(b, s, end) ==
  LET L[k \in 0 .. Len(s)] ==
        IF k = 0 THEN [b |-> b, o |-> 0]
        ELSE LET prev == L[k - 1]
                 len  == IF k = Len(s) THEN end - prev.o ELSE RecLen(s[k].name)
             IN  [b |-> WriteEntry(prev.b, prev.o, len, s[k].ino, s[k].name),
                  o |-> prev.o + RecLen(s[k].name)]
  IN  L[Len(s)].b

(* Slip: the mark of a hash that continues in the next leaf is forgotten. *)
Continued_bug(s, mid) == 0

Continued(s, mid) ==
  IF mid > 0 /\ Hash(s[mid].name) = Hash(s[mid + 1].name) THEN 1 ELSE 0

SplitData(d, at, n) ==
  LET s    == Sorted(d, n)
      mid  == Middle(s)
      none == mid = 0 /\ SizeTo(s, Len(s)) <= BS \div 2
      hash == IF none THEN 0 ELSE Hash(s[mid + 1].name) + Continued(s, mid)
      low  == InitTail(Laid(d.blk[n], SubSeq(s, 1, mid), Room(d.csum)), d.csum)
      high == InitTail(Laid(Fresh, SubSeq(s, mid + 1, Len(s)), Room(d.csum)), d.csum)
  IN  DxInsert(AppendBlock([d EXCEPT !.blk[n] = low], high), at, hash, NBlocks(d))

(***************************************************************************)
(* ext4_dir_dx_split_index: makes room for one more entry in the node at   *)
(* the end of the path.  A full root moves to a new node below it; a full  *)
(* node gives its upper half to a new one, unless the root is full too.    *)
(* The new node's limit does not allow for the checksum.                   *)
(***************************************************************************)
NodeHeader == [Fresh EXCEPT ![0] = Empty(BS)]
LimitOf(d, n) == d.dx[n].limit

(* Slip: the new node is entered in the root under the hash of the left half. *)
RightHash_bug(ents, left) == ents[left].hash

RightHash(ents, left) == ents[left + 1].hash

SplitIndex(d, path) ==
  LET at   == path[Len(path)]
      ents == Ents(d, at.n)
      new  == NBlocks(d)
      left == Len(ents) \div 2
      grown == AppendBlock(d, NodeHeader)
      deeper == [grown EXCEPT
        !.dx = [@ EXCEPT ![0].ents = <<[hash |-> 0, blk |-> new]>>]
                 @@ (new :> [limit |-> NodeLimit, ents |-> ents]),
        !.levels = 1]
      halved == [grown EXCEPT
        !.dx = [@ EXCEPT ![at.n].ents = SubSeq(ents, 1, left)]
                 @@ (new :> [limit |-> NodeLimit,
                             ents |-> SubSeq(ents, left + 1, Len(ents))])]
  IN  IF Len(ents) < LimitOf(d, at.n) THEN [err |-> "EOK", d |-> d, path |-> path]
      ELSE IF Len(path) = 2 /\ Len(Ents(d, 0)) = LimitOf(d, 0)
      THEN [err |-> "ENOSPC", d |-> d, path |-> path]
      ELSE IF Full(d) THEN [err |-> "ENOSPC", d |-> d, path |-> path]
      ELSE IF Len(path) = 1
      THEN [err |-> "EOK", d |-> deeper, path |-> <<[n |-> 0, pos |-> 1],
                                                    [at EXCEPT !.n = new]>>]
      ELSE [err |-> "EOK",
            d |-> DxInsert(halved, path[1], RightHash(ents, left), new),
            path |-> IF at.pos > left
                     THEN <<path[1], [n |-> new, pos |-> at.pos - left]>>
                     ELSE path]

(***************************************************************************)
(* ext4_dir_dx_add_entry.  What inserting after a split returns is not     *)
(* looked at.  wild: an error of split_index goes to a label that releases *)
(* target_block, which is not yet set.                                     *)
(***************************************************************************)
Put(d, n, ino, name) ==
  LET r == TryInsertEntry(d.blk[n], ino, name)
  IN  [ok |-> r.ok, d |-> [d EXCEPT !.blk[n] = r.b]]

Added(d) == [err |-> "EOK", d |-> d, wild |-> FALSE]
Refused(d, wild) == [err |-> "ENOSPC", d |-> d, wild |-> wild]

DxAdd(d, ino, name) ==
  LET path == GetLeaf(d, Hash(name))
      leaf == Target(d, path[Len(path)])
      room == SplitIndex(d, path)
      at   == room.path[Len(room.path)]
      put  == Put(room.d, leaf, ino, name)
      two  == SplitData(room.d, at, leaf)
      high == Hash(name) >= Ents(two, at.n)[at.pos + 1].hash
  IN  IF room.err # "EOK" THEN Refused(d, TRUE)
      ELSE IF put.ok THEN Added(put.d)
      ELSE IF Full(room.d) THEN Refused(room.d, FALSE)
      ELSE Added(Put(two, IF high THEN NBlocks(room.d) ELSE leaf, ino, name).d)

(* ext4_dir_add_entry without an index: the first block with room, or a new one. *)
LinearAdd(d, ino, name) ==
  LET fits == {n \in DOMAIN d.blk : TryInsertEntry(d.blk[n], ino, name).ok}
      b    == WriteEntry(Fresh, 0, Room(d.csum), ino, name)
  IN  IF fits # {} THEN Added(Put(d, Min(fits), ino, name).d)
      ELSE IF Full(d) THEN Refused(d, FALSE)
      ELSE Added(AppendBlock(d, InitTail(b, d.csum)))

AddEntry(d0, ino, name) ==
  LET d == DropIndex(d0, name)
  IN  IF d.index THEN DxAdd(d, ino, name) ELSE LinearAdd(d, ino, name)

(* ext4_dir_remove_entry. *)
RemoveEntry(d0, name) ==
  LET d == DropIndex(d0, name)
      f == FindEntry(d, name)
  IN  [d EXCEPT !.blk[f.n] = RemoveAt(@, f.o)]

(* The two dots of a directory without an index, ext4_link. *)
LinearInit(self, parent, csum) ==
  LET none == [blk |-> <<>>, dx |-> <<>>, index |-> FALSE, levels |-> 0, csum |-> csum]
  IN  LinearAdd(LinearAdd(none, self, ".").d, parent, "..").d
=============================================================================
