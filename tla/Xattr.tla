-------------------------------- MODULE Xattr --------------------------------
(***************************************************************************)
(* Extended attributes of lwext4 (ext4_xattr.c and the calls of ext4.c on  *)
(* top of it): where an attribute is kept, when the block of attributes is *)
(* allocated, copied and freed.  The kernel builds this code and calls     *)
(* none of it, as with the journal.                                        *)
(*   ino[i]  an i-node: live, extra (i_extra_isize is not zero), ib (the   *)
(*           area in its body), acl (the block of attributes, 0 if none)   *)
(*   blk[b]  the area of an allocated block, FREE otherwise                *)
(*   ro      the file system is mounted read only                          *)
(*   want    history: the attributes a user has set and not removed        *)
(* Operators on the pair st = [ino, blk] answer [err, st, hit]; hit holds  *)
(* the conditions this code mishandles, which occur only if Defects has    *)
(* them:                                                                   *)
(*   empty     a value is taken out beside an attribute with empty value   *)
(*   exactfit  attributes fill the body of an i-node to the last byte      *)
(*   uninit    a search context or a name that was never set is used       *)
(*   setfail   a set that fails after its i-node body had no room for it   *)
(*   shared    a block of attributes of several i-nodes is changed by set  *)
(*             or freed with one of them                                   *)
(*   listfill  the buffer of a listing ends with one of its inner names    *)
(***************************************************************************)
EXTENDS XattrArea, FiniteSets

CONSTANTS Blocks,           \* the blocks the allocator has left
          Tails,            \* full name -> prefix it starts with -> name and length behind it
          Values,           \* records id, len
          Writes,           \* i-node -> the values its users set
          Images,           \* the pairs [ino, blk] a volume may be mounted with
          Defects

ASSUME DefectAssumption ==
  Defects \subseteq {"empty", "exactfit", "uninit", "setfail", "shared", "listfill"}

VARIABLES ino, blk, ro, want
vars == <<ino, blk, ro, want>>

FREE == [magic |-> FALSE, ref |-> 0, hash |-> NOHASH, ents |-> <<>>, dat |-> <<>>]
Names == DOMAIN Tails
NoAttr == [id |-> "none", len |-> 0]

-----------------------------------------------------------------------------
(* prefix_tbl; a prefix that ends in a dot requires a name behind it. *)
Prefix(p, x, len, dot) == [prefix |-> p, index |-> x, len |-> len, dot |-> dot]
PrefixTbl == << Prefix("user.", 1, 5, TRUE),
                Prefix("system.posix_acl_access", 2, 23, FALSE),
                Prefix("system.posix_acl_default", 3, 24, FALSE),
                Prefix("trusted.", 4, 8, TRUE), Prefix("security.", 6, 9, TRUE),
                Prefix("system.", 7, 7, TRUE), Prefix("system.richacl", 8, 14, FALSE) >>

(* ext4_extract_xattr_name and ext4_get_xattr_name_prefix. *)
ExtractName(f) ==
  LET k == SelectInSeq(PrefixTbl, LAMBDA p : p.prefix \in DOMAIN Tails[f])
      p == PrefixTbl[k]
      t == Tails[f][p.prefix]
  IN  IF k = 0 THEN [found |-> FALSE]
      ELSE IF t.len = 0 /\ p.dot THEN [found |-> FALSE]
      ELSE [found |-> TRUE, key |-> <<p.index, t.name>>, nlen |-> t.len]

PrefixOf(x) == PrefixTbl[SelectInSeq(PrefixTbl, LAMBDA p : p.index = x)]

Info(f, v) == LET n == ExtractName(f) IN [key |-> n.key, nlen |-> n.nlen, value |-> v]

-----------------------------------------------------------------------------
(* ext4_xattr_ibody_find_entry: EIO for a body that is not valid; without  *)
(* extra space nothing is found.                                           *)
BodyError(n) == n.extra /\ ~IsIbodyValid(n.ib)
InBody(n, key) == n.extra /\ FindEntry(n.ib, key) # 0

(* ext4_xattr_block_find_entry, and the answer its callers give. *)
BlockFind(A, key) ==
  IF ~IsBlockValid(A) THEN "EIO" ELSE IF FindEntry(A, key) = 0 THEN "ENODATA" ELSE "EOK"

Answer(err, st, hit) == [err |-> err, st |-> st, hit |-> hit]

(* What the allocator may answer: any free block, or 0 when there is none. *)
AllocChoices(st) ==
  LET free == {b \in Blocks : st.blk[b] = FREE} IN IF free = {} THEN {0} ELSE free

(* ext4_xattr_try_free_block. *)
TryFreeBlock(st, i) ==
  IF st.ino[i].acl = 0 THEN st
  ELSE [ino |-> [st.ino EXCEPT ![i].acl = 0],
        blk |-> [st.blk EXCEPT ![st.ino[i].acl] = FREE]]

(* ext4_xattr_copy_new_block: nb is the block the allocator answers. *)
CopyNewBlock(st, i, nb) ==
  LET b == st.ino[i].acl
      A == st.blk[b]
  IN  IF A.ref <= 1 THEN [err |-> "EOK", st |-> st]
      ELSE IF nb = 0 THEN [err |-> "ENOSPC", st |-> st]
      ELSE [err |-> "EOK",
            st |-> [ino |-> [st.ino EXCEPT ![i].acl = nb],
                    blk |-> [st.blk EXCEPT ![nb] = [A EXCEPT !.ref = 1],
                                           ![b]  = [A EXCEPT !.ref = @ - 1]]]]

(* ext4_xattr_compute_hash of the entry that was set, ext4_xattr_rehash. *)
Hashed(A, at) == Rehash(ComputeHash(A, at))

(* Slip: the block allocated for an attribute that does not fit is kept. *)
NoRoomInNew_bug(st, i) == st

NoRoomInNew(st, i) == TryFreeBlock(st, i)

(***************************************************************************)
(* ext4_xattr_block_set.  Without a block one is allocated, unless         *)
(* insertion is not allowed; with one of its own, no_insert is not looked  *)
(* at.  After a copy of a shared block the entry is set in the old block.  *)
(***************************************************************************)
BlockSetNew(st, i, info, nb) ==
  LET st1 == [ino |-> [st.ino EXCEPT ![i].acl = nb],
              blk |-> [st.blk EXCEPT ![nb] = BlockInitialize]]
      r   == SetEntry(BlockInitialize, BlockSearch, info)
  IN  IF nb = 0 THEN Answer("ENOSPC", st, {})
      ELSE IF r.err # "EOK" THEN Answer(r.err, NoRoomInNew(st1, i), {})
      ELSE Answer("EOK", [st1 EXCEPT !.blk[nb] = Hashed(r.A, 1)], {})

BlockSet(st, i, info, noInsert, nb) ==
  LET b  == st.ino[i].acl
      A  == st.blk[b]
      c  == CopyNewBlock(st, i, nb)
      A1 == c.st.blk[b]
      r  == SetEntry(A1, BlockSearch, info)
      sh == IF A.ref > 1 THEN {"shared"} ELSE {}
  IN  IF b = 0
      THEN IF noInsert THEN Answer("ENODATA", st, {}) ELSE BlockSetNew(st, i, info, nb)
      ELSE IF A.ref > 1 /\ noInsert /\ BlockFind(A, info.key) # "EOK"
      THEN Answer(BlockFind(A, info.key), st, {})
      ELSE IF c.err # "EOK" THEN Answer(c.err, st, {})
      ELSE IF ~IsBlockValid(A1) THEN Answer("EIO", c.st, sh)
      ELSE IF r.err # "EOK" THEN Answer(r.err, c.st, sh)
      ELSE Answer("EOK", [c.st EXCEPT !.blk[b] = Hashed(r.A, FindEntry(r.A, info.key))],
                  sh \cup r.hit)

(* ext4_xattr_block_remove.  finder.i is never set: victim is the key that *)
(* happens to be searched for, and the entry found is removed.             *)
BlockRemove(st, i, victim, nb) ==
  LET c == CopyNewBlock(st, i, nb)
      b == c.st.ino[i].acl
      A == c.st.blk[b]
      r == SetEntry(A, BlockSearch, [key |-> victim, nlen |-> 0, value |-> NULL])
  IN  IF c.err # "EOK" THEN Answer(c.err, st, {"uninit"})
      ELSE IF BlockFind(A, victim) # "EOK"
      THEN Answer("EOK", c.st, {"uninit"})
      ELSE Answer("EOK", [c.st EXCEPT !.blk[b] = Rehash(r.A)], {"uninit"} \cup r.hit)

(***************************************************************************)
(* ext4_xattr_set.  An i-node body that is not valid is cleared first.  An *)
(* attribute found in the body is changed there; one that is not goes to   *)
(* the block if there is one, then to the body, then to a new block.       *)
(***************************************************************************)
TryInsert(st, i, info, blockFound, victim, nb) ==
  LET A  == st.ino[i].ib
      r  == SetEntry(A, IbodySearch, info)
      b  == BlockSet(st, i, info, FALSE, nb)
      in == [st EXCEPT !.ino[i].ib = r.A]
      rm == BlockRemove(in, i, victim, nb)
      fit == IF IsIbodyValid(r.A) THEN {} ELSE {"exactfit"}
      drop == SetEntry(A, IbodySearch, [info EXCEPT !.value = NULL])
  IN  IF st.ino[i].extra /\ r.err = "EOK"
      THEN IF blockFound THEN Answer(rm.err, rm.st, rm.hit \cup r.hit \cup fit)
           ELSE Answer("EOK", in, r.hit \cup fit)
      ELSE IF blockFound THEN Answer("ENOSPC", st, {})
      ELSE IF ~InBody(st.ino[i], info.key) THEN b
      ELSE Answer(b.err, [b.st EXCEPT !.ino[i].ib = drop.A],
                  b.hit \cup drop.hit \cup (IF b.err = "EOK" THEN {} ELSE {"setfail"}))

XattrSet(st0, i, info, victim, nb) ==
  LET n   == st0.ino[i]
      st  == IF BodyError(n) THEN [st0 EXCEPT !.ino[i].ib = IbodyInitialize] ELSE st0
      b   == BlockSet(st, i, info, TRUE, nb)
  IN  IF InBody(st.ino[i], info.key) \/ n.acl = 0 THEN TryInsert(st, i, info, FALSE, victim, nb)
      ELSE IF b.err \in {"ENOSPC", "ENODATA"}
      THEN LET t == TryInsert(b.st, i, info, TRUE, victim, nb)
           IN  Answer(t.err, t.st, t.hit \cup b.hit)
      ELSE b

(***************************************************************************)
(* ext4_xattr_remove.  Only an entry of the block is removed by a search   *)
(* context that was set; in the other cases the answer below is the one of *)
(* a context that happens to say not_found.  An empty block is freed.      *)
(***************************************************************************)
AfterRemoval(st, i, A) ==
  IF IsEmpty(A) THEN TryFreeBlock(st, i)
  ELSE [st EXCEPT !.blk[st.ino[i].acl] = Rehash(A)]

XattrRemove(st, i, info, nb) ==
  LET n == st.ino[i]
      c == CopyNewBlock(st, i, nb)
      r == SetEntry(c.st.blk[c.st.ino[i].acl], BlockSearch, info)
      f == BlockFind(st.blk[n.acl], info.key)
  IN  IF BodyError(n) THEN Answer("EIO", st, {})
      ELSE IF InBody(n, info.key) \/ n.acl = 0 THEN Answer("EOK", st, {"uninit"})
      ELSE IF f # "EOK" THEN Answer(f, st, {})
      ELSE IF c.err # "EOK" THEN Answer(c.err, st, {})
      ELSE Answer("EOK", AfterRemoval(c.st, i, r.A), r.hit)

-----------------------------------------------------------------------------
(* ext4_xattr_get: the length of the value and what a buffer of len bytes  *)
(* receives of it.                                                         *)
Found(A, at, len) ==
  [err |-> "EOK", size |-> A.ents[at].size,
   data |-> SubSeq(ReadValue(A, A.ents[at]), 1, SIZE(Min({len, A.ents[at].size})) \div 4)]

NotFound(err) == [err |-> err, size |-> 0, data |-> <<>>]

XattrGet(st, i, key, len) ==
  LET n == st.ino[i]
      A == st.blk[n.acl]
  IN  IF BodyError(n) THEN NotFound("EIO")
      ELSE IF InBody(n, key) THEN Found(n.ib, FindEntry(n.ib, key), len)
      ELSE IF n.acl = 0 THEN NotFound("ENODATA")
      ELSE IF BlockFind(A, key) # "EOK" THEN NotFound(BlockFind(A, key))
      ELSE Found(A, FindEntry(A, key), len)

(* ext4_getxattr of a file that exists. *)
GetXattr(st, i, f, len) ==
  LET n == ExtractName(f)
  IN  IF n.found THEN XattrGet(st, i, n.key, len) ELSE NotFound("EINVAL")

(* ext4_xattr_list: the entries of the body, then those of the block. *)
XattrList(st, i) ==
  LET n == st.ino[i]
  IN  (IF n.extra /\ IsIbodyValid(n.ib) THEN n.ib.ents ELSE <<>>)
      \o (IF n.acl = 0 THEN <<>> ELSE st.blk[n.acl].ents)

ListError(st, i) == st.ino[i].acl # 0 /\ ~IsBlockValid(st.blk[st.ino[i].acl])

(***************************************************************************)
(* ext4_listxattr.  size is the room left in the buffer; 0 asks for the    *)
(* length only, and a buffer that is used up looks the same.               *)
(***************************************************************************)
NameSize(e) == PrefixOf(e.key[1]).len + e.nlen + 1
FullName(e) ==
  CHOOSE f \in Names : LET p == PrefixOf(e.key[1]).prefix
                       IN  p \in DOMAIN Tails[f] /\ Tails[f][p].name = e.key[2]

ListXattr(st, i, size) ==
  LET Step(r, e) ==
        IF r.err # "EOK" THEN r
        ELSE IF r.room # 0 /\ NameSize(e) > r.room THEN [r EXCEPT !.err = "ERANGE"]
        ELSE [r EXCEPT !.names = IF r.room = 0 THEN @ ELSE Append(@, FullName(e)),
                       !.room  = IF @ = 0 THEN 0 ELSE @ - NameSize(e),
                       !.total = @ + NameSize(e)]
  IN  FoldLeft(Step, [err |-> IF ListError(st, i) THEN "EIO" ELSE "EOK",
                      names |-> <<>>, room |-> size, total |-> 0],
               XattrList(st, i))

-----------------------------------------------------------------------------
Now == [ino |-> ino, blk |-> blk]

(* A fresh i-node as ext4_fs_alloc_inode leaves it. *)
FreshInode(extra) == [live |-> TRUE, extra |-> extra, ib |-> Blank(IbodySearch), acl |-> 0]

(* The attributes an image holds, as a reader finds them. *)
Held(st, i, f) ==
  LET r == GetXattr(st, i, f, BLOCK_SIZE)
      s == {v \in Values : v.len = r.size /\ WordsOf(v) = r.data}
  IN  IF r.err = "EOK" THEN CHOOSE v \in s : TRUE ELSE NoAttr

Init ==
  \E st \in Images :
    /\ ino = st.ino /\ blk = st.blk
    /\ ro \in BOOLEAN
    /\ want = [i \in DOMAIN st.ino |-> [f \in Names |-> Held(st, i, f)]]

Apply(i, f, v, r) ==
  /\ r.hit \subseteq Defects
  /\ ino' = r.st.ino /\ blk' = r.st.blk
  /\ want' = IF r.err = "EOK" THEN [want EXCEPT ![i][f] = v] ELSE want
  /\ UNCHANGED ro

(* The names a context that was never set may hold. *)
Keys == {ExtractName(f).key : f \in {g \in Names : ExtractName(g).found}}
Garbage == IF "uninit" \in Defects THEN Keys \cup {<<0, "">>} ELSE {<<0, "">>}

(* ext4_setxattr of a file that exists. *)
SetXattr(i, f, v) ==
  /\ ino[i].live
  /\ ~ro /\ ExtractName(f).found
  /\ \E nb \in AllocChoices(Now) :
     \E victim \in Garbage :
       Apply(i, f, v, XattrSet(Now, i, Info(f, v), victim, nb))

(* ext4_removexattr of a file that exists. *)
RemoveXattr(i, f) ==
  /\ ino[i].live
  /\ ~ro /\ ExtractName(f).found
  /\ \E nb \in AllocChoices(Now) :
       Apply(i, f, NoAttr, XattrRemove(Now, i, Info(f, NULL), nb))

(* EROFS and EINVAL. *)
Refuse(f) == (ro \/ ~ExtractName(f).found) /\ UNCHANGED vars

(* The end of ext4_fs_free_inode: the block of attributes is freed, however *)
(* many i-nodes it belongs to.                                              *)
FreeInode(i) ==
  /\ ino[i].live /\ ~ro
  /\ LET st == TryFreeBlock(Now, i)
     IN  /\ ino[i].acl # 0 /\ blk[ino[i].acl].ref > 1 => "shared" \in Defects
         /\ ino' = [st.ino EXCEPT ![i].live = FALSE]
         /\ blk' = st.blk
  /\ want' = [want EXCEPT ![i] = [f \in Names |-> NoAttr]]
  /\ UNCHANGED ro

(* ext4_fs_alloc_inode: the i-node is zeroed, its extra size set. *)
AllocInode(i) ==
  /\ ~ino[i].live /\ ~ro
  /\ ino' = [ino EXCEPT ![i] = FreshInode(@.extra)]
  /\ UNCHANGED <<blk, ro, want>>

Next ==
  \/ \E i \in DOMAIN ino, f \in Names : \E v \in Writes[i] : SetXattr(i, f, v)
  \/ \E i \in DOMAIN ino, f \in Names : RemoveXattr(i, f)
  \/ \E f \in Names : Refuse(f)
  \/ \E i \in DOMAIN ino : FreeInode(i) \/ AllocInode(i)

Spec == Init /\ [][Next]_vars

-----------------------------------------------------------------------------
(* Every attribute set by ext4_setxattr and not removed is found by         *)
(* ext4_getxattr with its value, wherever it is kept and whatever happened  *)
(* to the attributes beside it, also when a later set of it failed; no      *)
(* other is found.  A buffer that is too short receives the beginning.      *)
AttributesExact ==
  \A i \in DOMAIN ino, f \in Names : ino[i].live /\ ExtractName(f).found =>
    \A len \in {0, 4, BLOCK_SIZE} :
      LET r == GetXattr(Now, i, f, len)
          v == want[i][f]
      IN  IF v = NoAttr
          THEN r.err = IF ino[i].extra /\ ~ino[i].ib.magic THEN "EIO" ELSE "ENODATA"
          ELSE /\ r.err = "EOK" /\ r.size = v.len
               /\ r.data = SubSeq(WordsOf(v), 1, SIZE(Min({len, v.len})) \div 4)

(* The listing of ext4_listxattr into a buffer that is large enough has     *)
(* every attribute once, under the name it was set by; into one that is     *)
(* not, it fails; and without a buffer it answers the length needed.        *)
TotalSize(i) == FoldLeft(LAMBDA n, e : n + NameSize(e), 0, XattrList(Now, i))
FillsInside(i, size) ==
  \E k \in 1 .. Len(XattrList(Now, i)) - 1 :
    size = FoldLeft(LAMBDA n, e : n + NameSize(e), 0, SubSeq(XattrList(Now, i), 1, k))

ListingWhole ==
  \A i \in DOMAIN ino : ino[i].live =>
    LET all == {f \in Names : want[i][f] # NoAttr}
        total == TotalSize(i)
    IN  \A size \in {0, total - 1, total, total + 1} \cup {7, 24} :
          (size >= 0 /\ (FillsInside(i, size) => "listfill" \in Defects)) =>
          LET r == ListXattr(Now, i, size)
          IN  IF size = 0 THEN r.err = "EOK" /\ r.total = total
              ELSE IF size < total THEN r.err = "ERANGE"
              ELSE r.err = "EOK" /\ ToSet(r.names) = all /\ Len(r.names) = Cardinality(all)

(* What get and list answer is what was set and not removed.                *)
AttrsAnswered == AttributesExact /\ ListingWhole

(* A block of attributes is allocated exactly while live i-nodes point at   *)
(* it, its reference count says how many, and it is never left empty: none  *)
(* is lost by a set that fails, by a copy or by the removal of the last     *)
(* attribute, and none is freed under another i-node.                       *)
BlocksOwned ==
  \A b \in Blocks :
    LET users == {i \in DOMAIN ino : ino[i].live /\ ino[i].acl = b}
    IN  IF users = {} THEN blk[b] = FREE
        ELSE blk[b] # FREE /\ blk[b].ref = Cardinality(users) /\ ~IsEmpty(blk[b])

(* In an area the values do not overlap each other or the entries, leave no *)
(* gap between them, and pass the validity check of the next reader: moving *)
(* the values of ext4_xattr_set_entry together loses no byte.               *)
Packed(A, s) ==
  LET valued == {k \in DOMAIN A.ents : A.ents[k].size > 0}
      Span(k) == A.ents[k].off .. A.ents[k].off + SIZE(A.ents[k].size) - 1
  IN  /\ \A j, k \in valued : j # k => Span(j) \cap Span(k) = {}
      /\ UNION {Span(k) : k \in valued} = MinOffs(A, s.end) .. s.end - 1
      /\ s.first + EntsLen(A) + TERM <= MinOffs(A, s.end)

AreasPacked ==
  /\ \A b \in Blocks : blk[b] # FREE => Packed(blk[b], BlockSearch) /\ IsBlockValid(blk[b])
  /\ \A i \in DOMAIN ino : ino[i].ib.magic =>
       Packed(ino[i].ib, IbodySearch) /\ IsIbodyValid(ino[i].ib)

(* The hashes by which blocks are compared for sharing describe what the    *)
(* block holds after every set and removal (ext4_xattr_rehash).             *)
HashesExact ==
  \A b \in Blocks : blk[b] # FREE =>
    /\ \A k \in DOMAIN blk[b].ents : blk[b].ents[k].hash = HashOf(blk[b], blk[b].ents[k])
    /\ blk[b].hash = Rehash(blk[b]).hash

(* A block that i-nodes may share is counted and hashed as it is.           *)
AttrBlocksSound == BlocksOwned /\ HashesExact

(* ext4_setxattr answers ENOSPC only when the attribute fits neither in the *)
(* body of the i-node nor in its block, nor in a new block.  Not claimed of *)
(* an i-node whose block is shared.                                         *)
Fits(A, s, info) ==
  LET others == SelectSeq(A.ents, LAMBDA e : e.key # info.key)
      used   == FoldLeft(LAMBDA n, e : n + LEN(e.nlen) + SIZE(e.size), 0, others)
  IN  s.first + used + LEN(info.nlen) + SIZE(info.value.len) + TERM <= s.end

SetRefusedOnlyWhenFull ==
  \A i \in DOMAIN ino, f \in Names :
    ino[i].live /\ ExtractName(f).found
      /\ (ino[i].acl # 0 => blk[ino[i].acl].ref = 1) =>
      \A v \in Writes[i], nb \in AllocChoices(Now) :
        LET info == Info(f, v)
            n == ino[i]
        IN  XattrSet(Now, i, info, <<0, "">>, nb).err = "ENOSPC" =>
              /\ n.extra => ~Fits(IF n.ib.magic THEN n.ib ELSE IbodyInitialize, IbodySearch, info)
              /\ IF n.acl # 0 THEN ~Fits(blk[n.acl], BlockSearch, info)
                 ELSE nb = 0 \/ ~Fits(BlockInitialize, BlockSearch, info)

(* ext4_xattr_set_entry loses no room: areas are packed, and so the room    *)
(* there is can be used.                                                    *)
RoomKept == AreasPacked /\ SetRefusedOnlyWhenFull
=============================================================================
