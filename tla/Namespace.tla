----------------------------- MODULE Namespace ------------------------------
(***************************************************************************)
(* The tree of names of lwext4, ext4.c: what ext4_generic_open2, _flink,   *)
(* _frename, _fremove, _dir_mk, _dir_rm, _fsymlink and _mknod do to        *)
(* i-nodes, link counts and directory entries.  The operators act on a     *)
(* tree record t:                                                          *)
(*   used     the i-nodes marked in the bitmap                             *)
(*   free     the blocks not marked in the bitmap                          *)
(*   disk[b]  the bytes of block b, Junk while b is free                   *)
(*   index    the superblock's DIR_INDEX feature                           *)
(*   ro       fs->read_only                                                *)
(*   ino[i]   kind, links, idx (the INDEX flag), up (the ".." entry),      *)
(*            ents (the entries but the dots), size, blk (the blocks), and *)
(*            attr: the permission bits of mode, the owner and the times   *)
(* A directory is the map of names that DirBlock and DirIdx implement.  A  *)
(* path is a sequence of names below the mount point; "." and ".." are not *)
(* used as components.  A fault <<k, what>> is the disk running full while *)
(* component k of the path is created:                                     *)
(*   "add"     ext4_dir_add_entry in the parent                            *)
(*   "init"    ext4_dir_dx_init of a new indexed directory                 *)
(*   "dots"    the "." or ".." entry of a new linear directory             *)
(***************************************************************************)
EXTENDS Integers, FiniteSets, FiniteSetsExt, Sequences, Functions, TLC

CONSTANTS Root, Inos, Names, Blocks,
          BS,               \* bytes of a block
          INLINE,           \* bytes of a symbolic link's target kept in the i-node
          LINK_MAX          \* EXT4_LINK_MAX

ASSUME NamespaceAssumption == 
  Root \in Inos /\ Inos \subseteq Nat \ {0} /\ Blocks \subseteq Nat \ {0} /\ BS \in Nat \ {0}

ANY == "ANY"                \* EXT4_DE_UNKNOWN
NoFault == <<0, "none">>
NoEnts == [n \in {} |-> 0]
Junk == [k \in 1 .. BS |-> -1]

Attrs == {"mode", "owner", "atime", "mtime", "ctime"}
NoAttr == [a \in Attrs |-> 0]          \* as ext4_fs_alloc_inode leaves them

Fresh(kind) == [kind |-> kind, links |-> 0, idx |-> FALSE, up |-> 0,
                ents |-> NoEnts, size |-> 0, blk |-> <<>>, attr |-> NoAttr]

Fail(t, err) == [t |-> t, err |-> err, i |-> 0, par |-> 0]
Done(t, i, par) == [t |-> t, err |-> "EOK", i |-> i, par |-> par]

(* Slip: read_only is not looked at. *)
Writable_bug(t, r) == r

Writable(t, r) == IF t.ro THEN Fail(t, "EROFS") ELSE r

(* ext4_fs_alloc_inode and ext4_fs_free_inode, as far as names can tell. *)
AllocInode(t, kind) ==
  LET free == Inos \ t.used
      i == Min(free)
  IN  IF free = {} THEN Fail(t, "ENOSPC")
      ELSE Done([t EXCEPT !.used = @ \cup {i}, !.ino[i] = Fresh(kind)], i, 0)

FreeInode(t, i) ==
  [t EXCEPT !.used = @ \ {i}, !.ino[i] = Fresh(t.ino[i].kind)]

IsDir(t, i) == t.ino[i].kind = "DIR"
Entry(t, d, n) == IF n \in DOMAIN t.ino[d].ents THEN t.ino[d].ents[n] ELSE 0
AddEntry(t, d, n, i) == [t EXCEPT !.ino[d].ents = (n :> i) @@ @]
RemoveEntry(t, d, n) == [t EXCEPT !.ino[d].ents = Restrict(@, DOMAIN @ \ {n})]
HasChildren(t, i) == IsDir(t, i) /\ DOMAIN t.ino[i].ents # {}

(* ext4_fs_inode_links_count_inc: an indexed directory stops counting at 1. *)
LinksInc(t, i) ==
  LET n == t.ino[i].links + 1
  IN  [t EXCEPT !.ino[i].links =
         IF t.ino[i].idx /\ (n >= LINK_MAX \/ n = 2) THEN 1 ELSE n]

(* ext4_fs_inode_links_count_dec: a directory keeps its two. *)
LinksDec(t, i) ==
  [t EXCEPT !.ino[i].links =
     IF @ > (IF IsDir(t, i) THEN 2 ELSE 0) THEN @ - 1 ELSE @]

(* Slip: a directory that moves does not count in its new parent. *)
Moved_bug(t, p, c) == [t EXCEPT !.ino[c].up = p]

(* The ".." entry of a directory that moves is reset. *)
Moved(t, p, c) == LinksInc([t EXCEPT !.ino[c].up = p], p)

(***************************************************************************)
(* ext4_link.  goal says that n is the last component of the caller's      *)
(* path: the entry of a directory whose dots cannot be added is removed    *)
(* under the name strlen(n) long, which is n only then.                    *)
(***************************************************************************)
Link(t, p, c, n, rename, goal, what) ==
  LET t1 == AddEntry(t, p, n, c)
  IN  IF what = "add" THEN Fail(t, "ENOSPC")
      ELSE IF ~IsDir(t, c)
      THEN Done(IF rename THEN t1 ELSE LinksInc(t1, c), c, p)
      ELSE IF rename THEN Done(Moved(t1, p, c), c, p)
      ELSE IF what = "init" /\ t.index THEN Fail(t1, "ENOSPC")
      ELSE IF what = "dots" /\ ~t.index
      THEN Fail(IF goal THEN t ELSE t1, "ENOSPC")
      ELSE Done(LinksInc([t1 EXCEPT !.ino[c].up = p, !.ino[c].links = 2,
                                    !.ino[c].idx = t.index], p), c, p)

(* ext4_unlink *)
Dropped(t, c) == IF t.ino[c].links > 0 THEN LinksDec(t, c) ELSE t

Unlink(t, p, c, n) ==
  IF HasChildren(t, c) THEN Fail(t, "ENOTEMPTY")
  ELSE IF n \notin DOMAIN t.ino[p].ents THEN Fail(t, "ENOENT")
  ELSE LET t1 == RemoveEntry(t, p, n)
       IN  Done(Dropped(IF IsDir(t, c) THEN LinksDec(t1, p) ELSE t1, c), c, p)

(***************************************************************************)
(* ext4_generic_open2.  A missing component is created, the ones before    *)
(* the goal as directories, and those stay when a later one fails.         *)
(***************************************************************************)
Linked(l, i) == IF l.err # "EOK" THEN Fail(FreeInode(l.t, i), l.err) ELSE l

LinkNew(a, p, n, goal, what) ==
  IF a.err # "EOK" THEN a ELSE Linked(Link(a.t, p, a.i, n, FALSE, goal, what), a.i)

Create(t, p, n, kind, goal, what) == LinkNew(AllocInode(t, kind), p, n, goal, what)

Checked(c, goal, ftype) ==
  IF c.err # "EOK" THEN c
  ELSE IF \/ ~goal /\ ~IsDir(c.t, c.i)
          \/ goal /\ ftype # ANY /\ c.t.ino[c.i].kind # ftype
  THEN Fail(c.t, "ENOENT")
  ELSE c

FindStep(w, n, goal, ftype, creat, what) ==
  LET found == Entry(w.t, w.i, n)
  IN  Checked(IF found # 0 THEN Done(w.t, found, w.i)
              ELSE IF creat THEN Create(w.t, w.i, n, IF goal THEN ftype ELSE "DIR", goal, what)
              ELSE Fail(w.t, "ENOENT"), goal, ftype)

OpenStep(w, path, k, creat, ftype, fault) ==
  FindStep(w, path[k], k = Len(path), ftype, creat,
           IF fault[1] = k THEN fault[2] ELSE "none")

Open2(t, path, creat, ftype, fault) ==
  LET Walk[k \in 0 .. Len(path)] ==
        IF k = 0 THEN Done(t, Root, Root)
        ELSE LET w == Walk[k - 1]
             IN  IF w.err # "EOK" THEN w
                 ELSE OpenStep(w, path, k, creat, ftype, fault)
  IN  IF t.ro /\ creat THEN Fail(t, "EROFS")
      ELSE IF path = <<>> /\ ftype \notin {"DIR", ANY} THEN Fail(t, "ENOENT")
      ELSE Walk[Len(path)]

Lookup(t, path, ftype) == Open2(t, path, FALSE, ftype, NoFault)

(***************************************************************************)
(* The attributes of the i-node a path leads to: ext4_mode_set keeps the   *)
(* bits of the kind, the other setters write one field each.               *)
(***************************************************************************)
AttrSet(f, a, v) == IF f.err # "EOK" THEN f ELSE [f EXCEPT !.t.ino[f.i].attr[a] = v]

SetAttr(t, path, a, v) == Writable(t, AttrSet(Lookup(t, path, ANY), a, v))

ModeSet(t, path, mode) == SetAttr(t, path, "mode", mode)
OwnerSet(t, path, owner) == SetAttr(t, path, "owner", owner)

TimeSet(t, path, a, time) == SetAttr(t, path, a, time)

AttrOf(f, a) == IF f.err = "EOK" THEN f.t.ino[f.i].attr[a] ELSE -1

GetAttr(t, path, a) == AttrOf(Lookup(t, path, ANY), a)

ModeGet(t, path) == GetAttr(t, path, "mode")
OwnerGet(t, path) == GetAttr(t, path, "owner")
TimeGet(t, path, a) == GetAttr(t, path, a)

RawInodeFill(t, path) == Lookup(t, path, ANY)

Parent(path) == SubSeq(path, 1, Len(path) - 1)
Base(path) == path[Len(path)]

(* ext4_create_hardlink *)
LinkIn(t, dir, n, c, rename, what) ==
  IF dir.err # "EOK" THEN Fail(t, "ENOENT")
  ELSE IF Entry(t, dir.i, n) # 0 THEN Fail(t, "EEXIST")
  ELSE Link(t, dir.i, c, n, rename, TRUE, what)

CreateHardlink(t, path, c, rename, what) ==
  IF path = <<>> THEN Fail(t, "EINVAL")
  ELSE LinkIn(t, Lookup(t, Parent(path), "DIR"), Base(path), c, rename, what)

LinkTo(t, f, new, what) ==
  IF f.err # "EOK" THEN f
  ELSE IF IsDir(t, f.i) THEN Fail(t, "EINVAL")
  ELSE CreateHardlink(t, new, f.i, FALSE, what)

FLink(t, path, new, what) == Writable(t, LinkTo(t, Lookup(t, path, ANY), new, what))

(* Slip: the old name is removed first, and not put back. *)
FRename_bug(t, path, new, what) ==
  LET f == Lookup(t, path, ANY)
  IN  IF t.ro \/ path = <<>> \/ f.err # "EOK" THEN Fail(t, "ENOENT")
      ELSE CreateHardlink(RemoveEntry(t, f.par, Base(path)), new, f.i, TRUE, what)

(* ext4_frename and ext4_remove_orig_reference *)
RemoveOrig(l, f, path) ==
  IF l.err # "EOK" THEN l
  ELSE IF path = <<>> THEN Fail(l.t, "ENOENT")
  ELSE LET r == RemoveEntry(l.t, f.par, Base(path))
       IN  Done(IF IsDir(l.t, f.i) THEN LinksDec(r, f.par) ELSE r, f.i, f.par)

RenameTo(t, f, path, new, what) ==
  IF f.err # "EOK" THEN f
  ELSE RemoveOrig(CreateHardlink(t, new, f.i, TRUE, what), f, path)

FRename(t, path, new, what) == Writable(t, RenameTo(t, Lookup(t, path, ANY), path, new, what))

(* ext4_trunc_inode: the blocks past the new size are freed. *)
TruncInode(t, i, new) ==
  LET keep == (new + BS - 1) \div BS
      blk  == t.ino[i].blk
      gone == {blk[k] : k \in keep + 1 .. Len(blk)}
  IN  IF t.ino[i].size <= new THEN t
      ELSE [t EXCEPT !.ino[i].size = new, !.ino[i].blk = SubSeq(@, 1, keep),
                     !.free = @ \cup gone,
                     !.disk = [b \in Blocks |-> IF b \in gone THEN Junk ELSE @[b]]]

(* ext4_fremove: a directory is left alone and the answer is EOK. *)
Orphaned(u, f) ==
  IF u.err # "EOK" THEN u
  ELSE IF u.t.ino[f.i].links = 0 THEN Done(FreeInode(u.t, f.i), f.i, f.par) ELSE u

RemoveFile(t, f, path) ==
  IF f.err # "EOK" \/ IsDir(t, f.i) THEN f
  ELSE Orphaned(Unlink(IF t.ino[f.i].links = 1 THEN TruncInode(t, f.i, 0) ELSE t,
                       f.par, f.i, Base(path)), f)

FRemove(t, path) == Writable(t, RemoveFile(t, Lookup(t, path, ANY), path))

(***************************************************************************)
(* ext4_dir_rm: children without children of their own are truncated,      *)
(* unlinked and freed whatever their link count is; the first child that   *)
(* has some is entered, and left again through its ".." entry.  RmStep is  *)
(* one turn of the outer loop, a scan of the directory cur.                *)
(***************************************************************************)
RmChild(t, d, n) ==
  LET c == t.ino[d].ents[n] IN FreeInode(Unlink(TruncInode(t, c, 0), d, c, n).t, c)

RmScan(s, names) ==
  LET Scan[k \in 0 .. Len(names)] ==
        IF k = 0 THEN [t |-> s.t, into |-> 0]
        ELSE LET prev == Scan[k - 1]
                 c == s.t.ino[s.cur].ents[names[k]]
             IN  IF prev.into # 0 THEN prev
                 ELSE IF HasChildren(prev.t, c) THEN [prev EXCEPT !.into = c]
                 ELSE [prev EXCEPT !.t = RmChild(prev.t, s.cur, names[k])]
  IN  Scan[Len(names)]

RmTurn(s, end, up) ==
  IF end.into # 0
  THEN [t |-> end.t, cur |-> end.into, up |-> s.cur, depth |-> s.depth + 1]
  ELSE [t |-> end.t, cur |-> IF s.depth > 1 THEN up ELSE s.cur, up |-> up, depth |-> s.depth - 1]

Listing(ents) ==           \* the names, in some order
  CHOOSE f \in [1 .. Cardinality(DOMAIN ents) -> DOMAIN ents] : IsInjective(f)

RmStep(s) ==
  IF s.depth = 0 THEN s
  ELSE RmTurn(s, RmScan(s, Listing(s.t.ino[s.cur].ents)), s.t.ino[s.cur].up)

RmLoop(t, f) ==
  LET Loop[k \in 0 .. 2 * Cardinality(Inos)] ==
        IF k = 0 THEN [t |-> t, cur |-> f.i, up |-> f.par, depth |-> 1]
        ELSE RmStep(Loop[k - 1])
  IN  Loop[2 * Cardinality(Inos)]

RmFree(u, s) ==
  IF u.err = "EOK" /\ u.t.ino[s.cur].links = 2
  THEN Done(FreeInode(u.t, s.cur), s.cur, s.up) ELSE u

RmLast(s, path) ==
  IF path = <<>> THEN Fail(s.t, "ENOENT") ELSE RmFree(Unlink(s.t, s.up, s.cur, Base(path)), s)

RmFrom(t, f, path) == IF f.err # "EOK" THEN f ELSE RmLast(RmLoop(t, f), path)

DirRm(t, path) == Writable(t, RmFrom(t, Lookup(t, path, "DIR"), path))

(* ext4_dir_mk: a directory that exists is made without complaint. *)
DirMk(t, path, fault) ==
  LET f == Lookup(t, path, "DIR")
  IN  Writable(t,
      IF f.err = "EOK" THEN f ELSE Open2(t, path, TRUE, "DIR", fault))

(* ext4_mknod and ext4_mknod_set *)
NodSet(f) == IF f.err # "EOK" THEN f ELSE [f EXCEPT !.t.ino[f.i].size = 0]

MkNod(t, path, fault) == Writable(t, NodSet(Open2(t, path, TRUE, "CHR", fault)))

(***************************************************************************)
(* ext4_fsymlink and ext4_fsymlink_set, for a target of len bytes: inside  *)
(* the i-node, or in one block, or refused with the link already there.    *)
(***************************************************************************)
TargetBlock(f, cut, len) ==
  IF len < INLINE THEN [f EXCEPT !.t = [cut EXCEPT !.ino[f.i].size = len]]
  ELSE IF cut.free = {} THEN [f EXCEPT !.t = cut, !.err = "ENOSPC"]
  ELSE LET b == Min(cut.free)
       IN  [f EXCEPT !.t = [cut EXCEPT !.ino[f.i].size = len, !.ino[f.i].blk = <<b>>,
                                       !.free = @ \ {b}]]

TargetSet(f, len) ==
  IF f.err # "EOK" \/ len = 0 THEN f
  ELSE IF len > BS THEN [f EXCEPT !.err = "EINVAL"]
  ELSE TargetBlock(f, TruncInode(f.t, f.i, 0), len)

FSymlink(t, path, len, fault) ==
  Writable(t, TargetSet(Open2(t, path, TRUE, "LNK", fault), len))
=============================================================================
