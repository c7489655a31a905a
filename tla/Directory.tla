----------------------------- MODULE Directory ------------------------------
(***************************************************************************)
(* One directory under a sequence of calls: entries added, removed and     *)
(* looked up as open, link, rename and unlink do, and one reader listing   *)
(* it by ext4_dir_entry_next meanwhile.  lwext4 runs one call at a time.   *)
(***************************************************************************)
EXTENDS DirIdx

CONSTANTS Names, Inodes, Self, Parent, MaxAdds,
          Defects           \* conditions the code mishandles that may occur

ASSUME DefectAssumption == Defects \subseteq {"split"}

VARIABLES d,
          map,              \* history: the entries the calls made so far leave
          pos,              \* dir->next_off, or TERM or Closed
          kept,             \* names there since the listing began
          seen,             \* how often the listing returned them
          adds
vars == <<d, map, pos, kept, seen, adds>>

TERM == -1
Closed == -2

DirectoryInit ==
  /\ \E csum \in BOOLEAN :
        d \in {DxInit(Self, Parent, csum), LinearInit(Self, Parent, csum)}
  /\ map = <<>>
  /\ pos = Closed /\ kept = {} /\ seen = [n \in Names |-> 0]
  /\ adds = 0

-----------------------------------------------------------------------------
(* Unless "split" may happen, no add meets a full leaf whose records would *)
(* fit in half a block.                                                    *)
SplitsNothing(e, name) ==
  LET path == GetLeaf(e, Hash(name))
      leaf == Target(e, path[Len(path)])
  IN  /\ e.index
      /\ ~TryInsertEntry(e.blk[leaf], 1, name).ok
      /\ Middle(Sorted(e, leaf)) = 0

(* Headers that are not on the walk are read through an old position only: *)
(* without a listing they are as good as junk.                             *)
Settled(e) ==
  [e EXCEPT !.blk = [n \in DOMAIN @ |->
     LET on == Walk(@[n]) IN [o \in DOMAIN @[n] |-> IF o \in on THEN @[n][o] ELSE Junk]]]

(* The callers of ext4_dir_add_entry have looked the name up and not found *)
(* it.  A split may move records past a reader either way: an add ends the *)
(* listing that is followed.                                               *)
Add(name, ino) ==
  /\ adds < MaxAdds
  /\ name \notin DOMAIN map
  /\ LET e == DropIndex(d, name)
         r == AddEntry(e, ino, name)
     IN  /\ "split" \in Defects \/ ~SplitsNothing(e, name)
         /\ d' = Settled(r.d)
         /\ map' = IF r.err = "EOK" THEN map @@ (name :> ino) ELSE map
  /\ adds' = adds + 1
  /\ pos' = Closed /\ kept' = {} /\ seen' = [n \in Names |-> 0]

Remove(name) ==
  /\ name \in DOMAIN map
  /\ d' = IF pos = Closed THEN Settled(RemoveEntry(d, name)) ELSE RemoveEntry(d, name)
  /\ map' = [n \in DOMAIN map \ {name} |-> map[n]]
  /\ kept' = kept \ {name}
  /\ seen' = [seen EXCEPT ![name] = 0]
  /\ UNCHANGED <<pos, adds>>

(* A lookup changes nothing, unless it finds the index bad. *)
Lookup(name) ==
  /\ DropIndex(d, name) # d
  /\ d' = DropIndex(d, name)
  /\ UNCHANGED <<map, pos, kept, seen, adds>>

(* ext4_dir_open and ext4_dir_entry_rewind. *)
Rewind ==
  /\ pos = Closed
  /\ pos' = 0
  /\ kept' = DOMAIN map
  /\ seen' = [n \in Names |-> 0]
  /\ UNCHANGED <<d, map, adds>>

(* ext4_dir_entry_next, as ext4_getdents64 uses it: an unused record is    *)
(* skipped and the directory's end or a bad position ends the listing.     *)
NextEntry ==
  /\ pos >= 0
  /\ LET st  == Seek(d.blk, pos)
         rec == At(d.blk, pos)
         on  == IterNext(d.blk, pos)
     IN  /\ pos' = IF st = "at" /\ on.st = "at" THEN on.pos ELSE TERM
         /\ seen' = IF st = "at" /\ rec.ino # 0 /\ rec.name \in kept
                    THEN [seen EXCEPT ![rec.name] = @ + 1] ELSE seen
  /\ UNCHANGED <<d, map, kept, adds>>

Next == \/ \E n \in Names : (\E i \in Inodes : Add(n, i)) \/ Remove(n) \/ Lookup(n)
        \/ Rewind \/ NextEntry

Spec == DirectoryInit /\ [][Next]_vars

-----------------------------------------------------------------------------
(* What ext4_dir_find_entry answers for a name. *)
Answer(name) == LET f == FindEntry(d, name)
                IN  IF f.err = "EOK" THEN d.blk[f.n][f.o].ino ELSE 0

Records(n) == {o \in Walk(d.blk[n]) : d.blk[n][o].ino # 0}
Places(name) == {<<n, o>> \in (DOMAIN d.blk) \X (0 .. BS - 1) :
                   o \in Records(n) /\ d.blk[n][o].name = name}

(***************************************************************************)
(* A lookup finds exactly the entries the calls made so far left, whatever *)
(* splits of leaves and index nodes, merges of records and losses of the   *)
(* index came between (ext4_dir_find_entry, ext4_dir_dx_split_data,        *)
(* ext4_dir_dx_split_index).                                               *)
(***************************************************************************)
LookupExact ==
  \A n \in Names : Answer(n) = (IF n \in DOMAIN map THEN map[n] ELSE 0)

(***************************************************************************)
(* The records of every block follow each other to the block's end, each   *)
(* at least as long as its name needs, and an entry is in one place only:  *)
(* what ext4_dir_try_insert_entry cuts and ext4_dir_remove_entry merges.   *)
(***************************************************************************)
RecordsTile ==
  /\ \A n \in DOMAIN d.blk : \A o \in Walk(d.blk[n]) :
       LET r == d.blk[n][o]
       IN  /\ r # Junk /\ r.len > 0 /\ o + r.len <= BS
           /\ r.ino # 0 => r.len >= RecLen(r.name)
  /\ \A n \in DOMAIN map : Cardinality(Places(n)) = 1
  /\ UNION {{d.blk[n][o].name : o \in Records(n)} : n \in DOMAIN d.blk}
       = DOMAIN map \cup {".", ".."}

(***************************************************************************)
(* While the index is in use its leaves, taken in order, cover ranges of   *)
(* hashes that do not overlap except for one hash that continues, and no   *)
(* node is above its limit or empty (ext4_dir_dx_insert_entry, the order   *)
(* ext4_dir_dx_get_leaf's binary search relies on).                        *)
(***************************************************************************)
Leaves ==
  IF d.levels = 0 THEN Ents(d, 0)
  ELSE LET top == Ents(d, 0)
           below(k) == LET e == Ents(d, top[k].blk)
                       IN  <<[e[1] EXCEPT !.hash = top[k].hash]>> \o SubSeq(e, 2, Len(e))
           Cat[k \in 0 .. Len(top)] == IF k = 0 THEN <<>> ELSE Cat[k - 1] \o below(k)
       IN  Cat[Len(top)]

IndexOrdered ==
  d.index =>
    /\ \A n \in DOMAIN d.dx : Len(Ents(d, n)) \in 1 .. LimitOf(d, n)
    /\ \A k \in 2 .. Len(Leaves) :
         LET h == Leaves[k].hash
         IN  /\ h >= (IF k = 2 THEN 0 ELSE Leaves[k - 1].hash)
             /\ \A o \in Records(Leaves[k].blk) :
                  Hash(d.blk[Leaves[k].blk][o].name) >= h - (h % 2)
             /\ \A o \in Records(Leaves[k - 1].blk) :
                  Hash(d.blk[Leaves[k - 1].blk][o].name) < h

(***************************************************************************)
(* The blocks of the directory are what the next call takes them for:      *)
(* leaves of records, and an index over them.                              *)
(***************************************************************************)
DirBlocksSound == RecordsTile /\ IndexOrdered

(***************************************************************************)
(* A listing during which entries are only removed returns every entry     *)
(* that stays exactly once, although its position may be that of a record  *)
(* that has since been merged into its neighbour (ext4_dir_entry_next,     *)
(* ext4_dir_remove_entry).                                                 *)
(***************************************************************************)
ListingExact == pos = TERM => \A n \in kept : seen[n] = 1

(***************************************************************************)
(* The comment on ext4_dir_dx_split_data, "Split directory entries to two  *)
(* parts": no entry is in both.                                            *)
(***************************************************************************)
InOnePart == \A n \in DOMAIN map : Cardinality(Places(n)) <= 1
=============================================================================
