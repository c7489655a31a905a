------------------------------- MODULE FileIO -------------------------------
(***************************************************************************)
(* Reading and writing an open file: ext4_fread, ext4_fwrite, ext4_fseek   *)
(* and ext4_ftruncate of lwext4, and the glue of fs/ext4/ext4.c that calls *)
(* them at the offset the VFS keeps.  An open file is a record f:          *)
(*   i, path        the i-node, and file->f_path                           *)
(*   fsize, fpos    the size last seen and the offset of ext4_file         *)
(*   pos            file->fpos, the offset of the VFS                      *)
(*   acc, app       O_RDONLY, O_WRONLY or O_RDWR, and O_APPEND             *)
(* A byte is a small number.  A file has no holes: see Reaches.            *)
(***************************************************************************)
EXTENDS Namespace

NoFile == [i |-> 0, path |-> <<>>, fsize |-> 0, fpos |-> 0, pos |-> 0,
           acc |-> "R", app |-> FALSE]

Size(t, i) == t.ino[i].size
Blk(t, i, idx) == t.ino[i].blk[idx + 1]

(***************************************************************************)
(* The loop both calls move whole blocks with: consecutive blocks are      *)
(* gathered and moved by one call of ext4_blocks_get_direct or             *)
(* _set_direct; the block that ends a run starts the next one.  Runs(p) is *)
(* the sequence of blocks really moved for the file blocks p.              *)
(***************************************************************************)
Run(start, count) == [j \in 1 .. count |-> start + j - 1]

(* Slip: the block that ends a run is not counted in the next one. *)
Runs_bug(p) ==
  LET Loop[k \in 0 .. Len(p)] ==
        IF k = 0 THEN [start |-> 0, count |-> 0, out |-> <<>>]
        ELSE LET s  == Loop[k - 1]
                 st == IF s.start = 0 THEN p[k] ELSE s.start
             IN  IF st + s.count = p[k] THEN [s EXCEPT !.start = st, !.count = @ + 1]
                 ELSE [start |-> st + s.count, count |-> 1,
                       out |-> s.out \o Run(st, s.count)]
      end == Loop[Len(p)]
  IN  end.out \o Run(end.start, end.count)

Runs(p) ==
  LET Loop[k \in 0 .. Len(p)] ==
        IF k = 0 THEN [start |-> 0, count |-> 0, out |-> <<>>]
        ELSE LET s  == Loop[k - 1]
                 st == IF s.start = 0 THEN p[k] ELSE s.start
             IN  IF st + s.count = p[k] THEN [s EXCEPT !.start = st, !.count = @ + 1]
                 ELSE [start |-> p[k], count |-> 1, out |-> s.out \o Run(st, s.count)]
      end == Loop[Len(p)]
  IN  end.out \o Run(end.start, end.count)

(***************************************************************************)
(* A transfer of n bytes at fpos: an unaligned head, whole blocks from     *)
(* index mid on, and a tail.                                               *)
(***************************************************************************)
HeadLen(pos, n) == IF pos % BS = 0 THEN 0 ELSE Min({n, BS - (pos % BS)})
Mid(pos, n) == (pos + HeadLen(pos, n)) \div BS
Full(pos, n) == (n - HeadLen(pos, n)) \div BS
TailLen(pos, n) == (n - HeadLen(pos, n)) % BS

(* Slip: the size the handle saw last bounds the read. *)
ReadLen_bug(t, f, n) == Min({n, f.fsize - f.fpos})

ReadLen(t, f, n) == Min({n, Size(t, f.i) - f.fpos})

BytesOf(t, bs) ==
  [k \in 1 .. BS * Len(bs) |-> t.disk[bs[(k - 1) \div BS + 1]][((k - 1) % BS) + 1]]

FRead(t, f, n) ==
  LET m    == ReadLen(t, f, n)
      off  == f.fpos % BS
      head == SubSeq(t.disk[Blk(t, f.i, f.fpos \div BS)], off + 1, off + HeadLen(f.fpos, m))
      mid  == Mid(f.fpos, m)
      got  == Runs([k \in 1 .. Full(f.fpos, m) |-> Blk(t, f.i, mid + k - 1)])
      tail == SubSeq(t.disk[Blk(t, f.i, mid + Full(f.fpos, m))], 1, TailLen(f.fpos, m))
  IN  [f     |-> [f EXCEPT !.fsize = Size(t, f.i), !.fpos = @ + m],
       bytes |-> (IF HeadLen(f.fpos, m) = 0 THEN <<>> ELSE head)
                 \o BytesOf(t, got)
                 \o (IF TailLen(f.fpos, m) = 0 THEN <<>> ELSE tail)]

(* ext4_fs_append_inode_dblk; pick is the allocator's choice. *)
Append1(t, i, pick) ==
  LET b == IF pick = "lo" THEN Min(t.free) ELSE Max(t.free)
  IN  [t EXCEPT !.ino[i].blk = Append(@, b), !.free = @ \ {b}]

(* The file's blocks up to index last, as many of them as there is room for. *)
Grow(t, i, last, pick) ==
  LET need == last + 1 - Len(t.ino[i].blk)
      G[k \in 0 .. Max({need, 0})] ==
        IF k = 0 THEN t
        ELSE LET prev == G[k - 1]
             IN  IF prev.free = {} THEN prev ELSE Append1(prev, i, pick)
  IN  G[Max({need, 0})]

Put(disk, b, off, byte, n) ==
  [disk EXCEPT ![b] = [k \in 1 .. BS |-> IF k \in off + 1 .. off + n THEN byte ELSE @[k]]]

(***************************************************************************)
(* ext4_fwrite of n equal bytes.  Without room for all of them the blocks  *)
(* that could be had are written, and the tail only when every whole block *)
(* was.  The answer is EOK in every case; cnt is *wcnt.                    *)
(***************************************************************************)
WriteAt(t, f, h, byte, g, mid, full, tail) ==
  LET i    == f.i
      have == Min({full, Len(g.ino[i].blk) - mid})
      put  == Range(Runs([k \in 1 .. have |-> Blk(g, i, mid + k - 1)]))
      last == IF have = full /\ Len(g.ino[i].blk) > mid + full THEN tail ELSE 0
      d1   == IF h = 0 THEN t.disk ELSE Put(t.disk, Blk(t, i, f.fpos \div BS), f.fpos % BS, byte, h)
      d2   == [b \in Blocks |-> IF b \in put THEN [k \in 1 .. BS |-> byte] ELSE d1[b]]
      d3   == IF last = 0 THEN d2 ELSE Put(d2, Blk(g, i, mid + full), 0, byte, last)
      cnt  == h + have * BS + last
      size == Max({Size(t, i), f.fpos + cnt})
  IN  [t |-> [g EXCEPT !.disk = d3, !.ino[i].size = size], cnt |-> cnt,
       f |-> [f EXCEPT !.fpos = @ + cnt, !.fsize = size]]

FWrite(t, f, n, byte, pick) ==
  LET full == Full(f.fpos, n)
      tail == TailLen(f.fpos, n)
      last == Mid(f.fpos, n) + full - 1 + (IF tail = 0 THEN 0 ELSE 1)
  IN  WriteAt(t, f, HeadLen(f.fpos, n), byte, Grow(t, f.i, last, pick),
              Mid(f.fpos, n), full, tail)

(* ext4_fopen2: an open file of the regular file path leads to.  O_TRUNC is *)
(* not checked against read_only.                                           *)
OpenFile(new, o, path, flags) ==
  [err |-> "EOK", t |-> new,
   f |-> [i |-> o.i, path |-> path, fsize |-> Size(new, o.i), pos |-> 0,
          acc |-> IF "RDWR" \in flags THEN "RW" ELSE "R", app |-> "APPEND" \in flags,
          fpos |-> IF "APPEND" \in flags THEN Size(new, o.i) ELSE 0]]

OpenFound(o, path, flags) ==
  IF o.err # "EOK" THEN [err |-> o.err, t |-> o.t, f |-> NoFile]
  ELSE OpenFile(IF "TRUNC" \in flags THEN TruncInode(o.t, o.i, 0) ELSE o.t, o, path, flags)

FOpen2(t, path, flags) ==
  OpenFound(Open2(t, path, "CREAT" \in flags, "FILE", NoFault), path, flags)

(***************************************************************************)
(* ext4_fseek, against the size the handle saw last.  From the end the     *)
(* offset counts backwards.                                                *)
(***************************************************************************)
FSeek(f, off, whence) ==
  LET to == CASE whence = "SET" -> off
              [] whence = "CUR" -> f.fpos + off
              [] whence = "END" -> f.fsize - off
  IN  IF to < 0 \/ to > f.fsize \/ (whence # "CUR" /\ off < 0)
      THEN [f |-> f, err |-> "EINVAL"]
      ELSE [f |-> [f EXCEPT !.fpos = to], err |-> "EOK"]

(* ext4_ftruncate: a file never grows. *)
FTruncate(t, f, size) ==
  [t |-> TruncInode(t, f.i, size),
   f |-> [f EXCEPT !.fsize = Min({Size(t, f.i), size}),
                   !.fpos = IF Size(t, f.i) > size /\ @ > size THEN size ELSE @]]

(***************************************************************************)
(* The glue: ext4_read and ext4_write move the handle to the offset of the *)
(* VFS and advance both.  Reaches says that the offset lies inside the     *)
(* file; past it, after another handle cut the file, lwext4 reads and      *)
(* writes at blocks that are not there.                                    *)
(***************************************************************************)
Reaches(t, f) == f.pos <= Size(t, f.i)

Advanced(r) == [err |-> "EOK", f |-> [r.f EXCEPT !.pos = @ + Len(r.bytes)], bytes |-> r.bytes]

ReadFrom(t, s, n) ==
  IF s.err # "EOK" THEN [err |-> s.err, f |-> s.f, bytes |-> <<>>]
  ELSE Advanced(FRead(t, s.f, n))

Read(t, f, n) == ReadFrom(t, FSeek(f, f.pos, "SET"), n)

WroteAt(w) == [err |-> "EOK", t |-> w.t, f |-> [w.f EXCEPT !.pos = @ + w.cnt], cnt |-> w.cnt]

WriteFrom(t, s, n, byte, pick) ==
  IF t.ro \/ s.err # "EOK" THEN [err |-> "FAIL", t |-> t, f |-> s.f, cnt |-> 0]
  ELSE WroteAt(FWrite(t, s.f, n, byte, pick))

Write(t, f, n, byte, pick) == WriteFrom(t, FSeek(f, f.pos, "SET"), n, byte, pick)

(* ext4_llseek and what its callers do with the offset it returns. *)
Llseek(f, off, whence) ==
  LET s == FSeek(f, off, whence)
  IN  IF s.err = "EOK" THEN [s.f EXCEPT !.pos = s.f.fpos] ELSE f

(* ext4_openat: O_CREAT sets the mode of a file that was there already too. *)
OpenMode(o, m) == [o EXCEPT !.t = m.t, !.err = m.err]

OpenedMode(o, path, flags, mode) ==
  IF o.err # "EOK" \/ "CREAT" \notin flags THEN o ELSE OpenMode(o, ModeSet(o.t, path, mode))

Ext4Openat(t, path, flags, mode) == OpenedMode(FOpen2(t, path, flags), path, flags, mode)

KernelOpen(t, path) == Ext4Openat(t, path, {}, 0)

(* ext4_truncate; with read_only, ext4_ftruncate answers EROFS. *)
Ext4Truncate(t, f, len) ==
  IF t.ro THEN [err |-> "EROFS", t |-> t] ELSE [err |-> "EOK", t |-> FTruncate(t, f, len).t]

(* ext4_mkdir: the mode of a directory that was there already is set too. *)
MadeMode(d, path, mode) == IF d.err # "EOK" THEN d ELSE ModeSet(d.t, path, mode)

Ext4Mkdir(t, path, mode, fault) == MadeMode(DirMk(t, path, fault), path, mode)

(* ext4_getattr: the owner is always 0. *)
StatOf(f) ==
  IF f.err # "EOK" THEN [err |-> "FAIL"]
  ELSE LET x == f.t.ino[f.i]
       IN  [err |-> "EOK", ino |-> f.i, kind |-> x.kind, nlink |-> x.links,
            size |-> x.size, attr |-> [x.attr EXCEPT !["owner"] = 0]]

Getattr(t, path) == StatOf(RawInodeFill(t, path))

Contents(t, i) ==
  SubSeq(BytesOf(t, t.ino[i].blk), 1, Size(t, i))
=============================================================================
