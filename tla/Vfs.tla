-------------------------------- MODULE Vfs ---------------------------------
(***************************************************************************)
(* The file system calls of fs/fs.c over the ext4 glue and lwext4: the     *)
(* tree of names (Namespace), open files (FileIO) and mount points         *)
(* (Mounts) together, with the devices (DevFs).  Every call is one step;   *)
(* paths are absolute, as get_absolute_path leaves them.  The journal is   *)
(* off, as the kernel never starts it, so ext4_trans_abort undoes nothing. *)
(*   t       the file system of the root device                            *)
(*   h       the open files of the descriptors, NoFile when closed         *)
(*   mnt     the mount points                                              *)
(*   cwd     the working directory, as characters                          *)
(*   failed  the last call was one on names, and lwext4 refused it         *)
(*   halted  an assertion failed                                           *)
(*   data    what every file should hold (history)                         *)
(*   given   the attributes every i-node was given last (history)          *)
(*   writes  the number of writes and settings of attributes so far        *)
(*   work    the calls and paths of this behaviour (a bound: Workloads)    *)
(***************************************************************************)
EXTENDS FileIO, Mounts, DevFs

CONSTANTS CwdPaths, MountDirs, OpenFlags,
          Workloads,    \* a behaviour makes the calls of one, on its paths
          MaxWrites,    \* writes in a behaviour; each writes its own byte
          Sizes,        \* of reads and writes
          Lengths,      \* truncate64 cuts to
          Offsets,      \* of lseek
          MODE,         \* that mkdirat and openat ask for
          Sbs           \* the superblocks devices may have

(* Paths are made of names; a working directory ends in "/" when it is "/". *)
ASSUME VfsAssumption ==
  /\ Names \cap {"/", ".."} = {}
  /\ MountDirs \subseteq [p : Seq(Names \cup {"dev"}), s : BOOLEAN]
  /\ \A w \in Workloads : w.paths \subseteq Seq(Names)
  /\ \A c \in CwdPaths : /\ c \in Seq(Names \cup {"/"}) /\ c # <<>>
                         /\ c[Len(c)] = "/" => c = <<"/">>

VARIABLES t, h, mnt, cwd, failed, halted, data, given, writes, work

fileVars == <<t, h, mnt, cwd, failed, halted, data, given, writes, work>>
vars == <<fileVars, dv>>

(* What mke2fs leaves, and a read-only image with a file a and a directory *)
(* b.                                                                      *)
EmptyTree(x) ==
  [used |-> {Root}, free |-> Blocks, disk |-> [b \in Blocks |-> Junk], index |-> x,
   ro |-> FALSE,
   ino |-> [i \in Inos |-> IF i = Root
                           THEN [Fresh("DIR") EXCEPT !.links = 2, !.up = Root, !.idx = x]
                           ELSE Fresh("FREE")]]

ReadOnlyTree(x) ==
  LET f == Open2(EmptyTree(x), <<"a">>, TRUE, "FILE", NoFault)
      w == FWrite(f.t, [NoFile EXCEPT !.i = f.i], 1, 1, "lo")
  IN  [Open2(w.t, <<"b">>, TRUE, "DIR", NoFault).t EXCEPT !.ro = TRUE]

(* The boot is over, kernel_mount("/dev/sda", "/", "ext4") included, except *)
(* in the behaviours that mount.                                            *)
Init ==
  /\ work \in Workloads
  /\ \E x \in work.index, sb \in Sbs :
       LET fs == FsInit(sb)
       IN  /\ fs # "bad"
           /\ t = IF fs = "ro" THEN ReadOnlyTree(x) ELSE EmptyTree(x)
           /\ mnt = IF "mount" \in work.calls THEN VfilesysInit
                    ELSE Mount(VfilesysInit, CHOOSE d \in Devs : TRUE, Slash, sb)
  /\ h = [d \in Hs |-> NoFile]
  /\ cwd = <<"/">>
  /\ failed = FALSE
  /\ halted = FALSE
  /\ writes = 0
  /\ data = [i \in Inos |-> IF i \in t.used THEN Contents(t, i) ELSE <<>>]
  /\ given = [i \in Inos |-> NoAttr]
  /\ DevfsInit

(* The call may be made, and its path belongs to the root file system.      *)
Calls(what, path) ==
  /\ what \in work.calls
  /\ ~halted
  /\ ~mnt.held
  /\ LET e == Find(mnt, [p |-> path, s |-> path = <<>>]) IN e.dir = Slash /\ e.priv

(* Of a history of i-nodes, what is left when the call leaves tree new. *)
Survives(hist, none, new) ==
  [i \in Inos |-> IF i \in t.used \cap new.used THEN hist[i] ELSE none]

Kept(new) == Survives(given, NoAttr, new)

NameCallGiven(r, g) ==
  /\ t' = r.t
  /\ data' = Survives(data, <<>>, r.t)
  /\ given' = g
  /\ failed' = (r.err # "EOK")
  /\ UNCHANGED <<h, mnt, cwd, halted, writes, work>>

NameCall(r) == NameCallGiven(r, Kept(r.t))

IsOpen(i) == \E d \in Hs : h[d].i = i

Faults(p) ==
  {NoFault} \cup {<<k, "add">> : k \in 1 .. Len(p)}
            \cup {<<k, "dots">> : k \in IF Allowed("dots") THEN 1 .. Len(p) ELSE {}}
            \cup {<<k, "init">> : k \in IF Allowed("dxinit") THEN 1 .. Len(p) ELSE {}}

-----------------------------------------------------------------------------
Mkdirat(p) ==
  /\ Calls("names", p)
  /\ \E fault \in Faults(p) \cup {<<Len(p), "dots">>} :
       LET r == Ext4Mkdir(t, p, MODE, fault)
       IN  NameCallGiven(r, IF r.err # "EOK" THEN Kept(r.t)
                            ELSE [Kept(r.t) EXCEPT ![r.i]["mode"] = MODE])

(* ext4_mode_set, _owner_set and _atime_set, _mtime_set and _ctime_set by   *)
(* themselves have no system call.                                          *)
Setattr(p, a) ==
  /\ Calls("attr", p)
  /\ writes < MaxWrites
  /\ writes' = writes + 1
  /\ LET v == MODE + writes'
         r == CASE a = "mode" -> ModeSet(t, p, v)
                [] a = "owner" -> OwnerSet(t, p, v)
                [] OTHER -> TimeSet(t, p, a, v)
     IN  /\ t' = r.t
         /\ failed' = (r.err # "EOK")
         /\ given' = IF r.err = "EOK" THEN [given EXCEPT ![r.i][a] = v] ELSE given
  /\ UNCHANGED <<h, mnt, cwd, halted, data, work>>

(* ext4_mknod has no system call; it makes the nodes other kinds stand for. *)
Mknod(p) ==
  /\ Calls("names", p)
  /\ \E fault \in Faults(p) :
       NameCall(MkNod(t, p, fault))

Symlinkat(p) ==
  /\ Calls("names", p)
  /\ \E len \in {INLINE - 1, INLINE, BS + 1}, fault \in Faults(p) :
       NameCall(FSymlink(t, p, len, fault))

Linkat(p, q) ==
  /\ Calls("link", p)
  /\ \E what \in {"none", "add"} :
       NameCall(FLink(t, p, q, what))

(* A directory is not moved below itself, which the code does not refuse. *)
Rename(p, q) ==
  /\ Calls("link", p)
  /\ Len(p) < Len(q) /\ p = SubSeq(q, 1, Len(p)) /\ Lookup(t, p, "DIR").err = "EOK" => Allowed("cycle")
  /\ \E what \in {"none", "add"} :
       NameCall(FRename(t, p, q, what))

Unlinkat(p) ==
  /\ Calls("unlink", p)
  /\ LET f == Lookup(t, p, ANY)
         r == FRemove(t, p)
     IN  /\ f.err = "EOK" /\ IsOpen(f.i) /\ t.ino[f.i].links = 1 => Allowed("openremove")
         /\ NameCall(r)

Below(i) ==
  LET Reach[k \in 0 .. Cardinality(Inos)] ==
        IF k = 0 THEN {i}
        ELSE LET prev == Reach[k - 1]
             IN  prev \cup UNION {Range(t.ino[d].ents) : d \in prev}
  IN  Reach[Cardinality(Inos)]

(***************************************************************************)
(* unlinkat with AT_REMOVEDIR removes a directory with all it holds.  Not  *)
(* allowed here: the root, which answers ENOENT after everything is gone;  *)
(* files with another name or an open descriptor, whose i-nodes are freed  *)
(* all the same; a directory whose count overflowed, which is not freed.   *)
(***************************************************************************)
Rmdir(p) ==
  /\ Calls("link", p)
  /\ LET f == Lookup(t, p, "DIR")
         r == DirRm(t, p)
     IN  /\ p = <<>> => Allowed("rmroot")
         /\ f.err = "EOK" =>
              /\ t.ino[f.i].links = 1 => Allowed("linkmax")
              /\ \A c \in Below(f.i) : ~IsDir(t, c) =>
                   /\ t.ino[c].links # 1 => Allowed("rmlinks")
                   /\ IsOpen(c) => Allowed("openremove")
         /\ NameCall(r)

-----------------------------------------------------------------------------
Openat(d, p, flags) ==
  /\ Calls("io", p)
  /\ h[d] = NoFile
  /\ LET o == Ext4Openat(t, p, flags, MODE)
         i == o.f.i
     IN  IF o.err # "EOK" THEN NameCall(o)
         ELSE /\ t.ro /\ "TRUNC" \in flags => Allowed("rotrunc")
              /\ t' = o.t
              /\ h' = [h EXCEPT ![d] = o.f]
              /\ data' = [Survives(data, <<>>, o.t) EXCEPT ![i] =
                            IF "TRUNC" \in flags THEN <<>> ELSE @]
              /\ given' = [Kept(o.t) EXCEPT ![i]["mode"] =
                             IF "CREAT" \in flags THEN MODE ELSE @]
              /\ failed' = FALSE
              /\ UNCHANGED <<mnt, cwd, halted, writes, work>>

IoCall == failed' = FALSE /\ UNCHANGED <<mnt, cwd, halted, given, work>>

Using(d) == "io" \in work.calls /\ ~halted /\ h[d] # NoFile

SysRead(d, n) ==
  /\ Using(d)
  /\ h[d].acc # "W" /\ Reaches(t, h[d])
  /\ LET r == Read(t, h[d], n)
     IN  h' = [h EXCEPT ![d] = r.f] /\ IoCall
  /\ UNCHANGED <<t, data, writes>>

(* s with n bytes from offset p on replaced by byte. *)
Overwrite(s, p, n, byte) ==
  [k \in 1 .. Max({Len(s), p + n}) |-> IF k \in p + 1 .. p + n THEN byte ELSE s[k]]

(* write with O_APPEND goes to the end as the handle knows it. *)
WritePos(f) ==
  LET s == FSeek(f, 0, "END") IN IF f.app THEN [s.f EXCEPT !.pos = s.f.fpos] ELSE f

SysWrite(d, n, pick) ==
  /\ Using(d)
  /\ h[d].acc # "R" /\ Reaches(t, h[d])
  /\ writes < MaxWrites
  /\ h[d].app /\ h[d].fsize # Size(t, h[d].i) => Allowed("append")
  /\ writes' = writes + 1
  /\ LET f  == WritePos(h[d])
         byte == writes'
         w  == Write(t, f, n, byte, pick)
         at == IF f.app THEN Len(data[f.i]) ELSE f.pos
     IN  /\ h' = [h EXCEPT ![d] = w.f]
         /\ t' = w.t
         /\ data' = [data EXCEPT ![f.i] = Overwrite(@, at, w.cnt, byte)]
         /\ IoCall

Lseek(d, off, whence) ==
  /\ Using(d)
  /\ h' = [h EXCEPT ![d] = Llseek(@, off, whence)]
  /\ IoCall
  /\ UNCHANGED <<t, data, writes>>

(* truncate64: through a kernel handle of its own, opened O_RDONLY. *)
Truncate64(p, len) ==
  /\ Calls("io", p)
  /\ LET o == KernelOpen(t, p)
         c == Ext4Truncate(t, o.f, len)
     IN  IF o.err # "EOK" \/ c.err # "EOK" THEN NameCall(Fail(t, "FAIL"))
         ELSE /\ t' = c.t
              /\ data' = [data EXCEPT ![o.f.i] = SubSeq(@, 1, Min({len, Len(@)}))]
              /\ IoCall
              /\ UNCHANGED <<h, writes>>

Close(d) ==
  /\ Using(d)
  /\ h' = [h EXCEPT ![d] = NoFile]
  /\ UNCHANGED <<t, data, writes>>
  /\ IoCall

(* What stat and fstat answer; faccessat answers whether stat succeeds. *)
Stat(p) ==
  LET e == Find(mnt, [p |-> p, s |-> p = <<>>])
  IN  IF e.dir = Slash /\ e.priv THEN Getattr(t, p) ELSE [err |-> "FAIL"]

Fstat(d) == Getattr(t, h[d].path)

-----------------------------------------------------------------------------
(* chdir keeps the path as it is given. *)
Chdir(p) ==
  /\ "chdir" \in work.calls /\ ~halted
  /\ cwd' = p
  /\ UNCHANGED <<t, h, mnt, failed, halted, data, given, writes, work>>

MountCall(dev, dir, sb) ==
  /\ "mount" \in work.calls /\ ~halted /\ ~mnt.held
  /\ mnt' = Mount(mnt, dev, dir, sb)
  /\ UNCHANGED <<t, h, cwd, failed, halted, data, given, writes, work>>

(* umount2 asserts that the mount succeeded; devfs has no umount. *)
Umount2(dir) ==
  /\ "mount" \in work.calls /\ ~halted /\ ~mnt.held
  /\ LET e == Find(mnt, dir)
     IN  /\ e.fs = "ext4"
         /\ halted' = ~e.priv
         /\ mnt' = IF e.priv THEN Umount(mnt, dir) ELSE mnt
         /\ (\E d \in Hs : h[d] # NoFile) => Allowed("busy")
  /\ UNCHANGED <<t, h, cwd, failed, data, given, writes, work>>

(* Any path is looked up with mplst_lock still held: the assertion in       *)
(* spinlock_acquire fails.                                                  *)
AcquireHeld ==
  /\ mnt.held /\ ~halted
  /\ halted' = TRUE
  /\ UNCHANGED <<t, h, mnt, cwd, failed, data, given, writes, work>>

(* A call on a path or descriptor of devfs. *)
DevCall ==
  /\ "dev" \in work.calls /\ ~halted /\ ~mnt.held
  /\ \A p \in DevPaths : Find(mnt, [p |-> p, s |-> FALSE]).fs = "devfs"
  /\ DevNext
  /\ UNCHANGED fileVars

FileCall ==
  \/ \E p \in work.links : Symlinkat(p)
  \/ \E p \in work.paths, a \in Attrs : Setattr(p, a)
  \/ \E p \in work.paths : Mkdirat(p) \/ Mknod(p) \/ Unlinkat(p) \/ Rmdir(p)
  \/ \E p, q \in work.paths : Linkat(p, q) \/ Rename(p, q)
  \/ \E d \in Hs, p \in work.paths, flags \in OpenFlags : Openat(d, p, flags)
  \/ \E d \in Hs : SysRead(d, Max(Sizes))
  \/ \E d \in Hs, n \in Sizes, pick \in {"lo", "hi"} : SysWrite(d, n, pick)
  \/ \E d \in Hs, off \in Offsets, whence \in {"SET", "CUR", "END"} : Lseek(d, off, whence)
  \/ \E p \in work.paths, len \in Lengths : Truncate64(p, len)
  \/ \E d \in Hs : Close(d)
  \/ \E p \in CwdPaths : Chdir(p)
  \/ \E dev \in Devs, dir \in MountDirs, sb \in Sbs : MountCall(dev, dir, sb)
  \/ \E dir \in MountDirs : Umount2(dir)
  \/ AcquireHeld

Next == (FileCall /\ UNCHANGED dv) \/ DevCall

Spec == Init /\ [][Next]_vars

-----------------------------------------------------------------------------
Refs(i) == {x \in t.used \X Names : Entry(t, x[1], x[2]) = i}
Subdirs(i) == {n \in DOMAIN t.ino[i].ents : IsDir(t, t.ino[i].ents[n])}

(* However entries are made, moved and removed, and whichever of the steps  *)
(* of ext4_link fails, an i-node's link count is the number of its names,   *)
(* and a directory's two and its subdirectories, or 1 once it overflowed.   *)
LinksExact ==
  \A i \in t.used :
    IF IsDir(t, i)
    THEN t.ino[i].links = 2 + Cardinality(Subdirs(i)) \/ (t.ino[i].links = 1 /\ t.ino[i].idx)
    ELSE t.ino[i].links = Cardinality(Refs(i))

(* ext4_generic_open2, _frename and _dir_rm keep a tree: no entry names a   *)
(* freed i-node, no allocated i-node is out of reach of the root, and a     *)
(* directory has one name, in the directory its ".." entry says.            *)
TreeShape ==
  /\ \A d \in t.used : Range(t.ino[d].ents) \subseteq t.used
  /\ Below(Root) = t.used
  /\ Refs(Root) = {} /\ t.ino[Root].up = Root
  /\ \A i \in t.used \ {Root} : IsDir(t, i) =>
       \E n \in Names : Refs(i) = {<<t.ino[i].up, n>>}

(* What a check of the file system would look for, after any calls.         *)
TreeSound == LinksExact /\ TreeShape

(* The blocks of every file hold what was written to it, in order, whatever *)
(* else was written, cut or removed through other descriptors and names     *)
(* since, and whether or not there was room: ext4_fwrite, ext4_trunc_inode. *)
ContentsExact ==
  \A i \in t.used : t.ino[i].kind = "FILE" => Contents(t, i) = data[i]

(* A read of any length from any open descriptor returns the file's bytes   *)
(* at the descriptor's offset, as many as there are: ext4_read, ext4_fread. *)
ReadExact ==
  \A d \in Hs, n \in Sizes :
    LET f == h[d]
        r == Read(t, f, n)
    IN  f # NoFile /\ Reaches(t, f) =>
          /\ r.err = "EOK"
          /\ r.bytes = SubSeq(data[f.i], f.pos + 1, Min({f.pos + n, Len(data[f.i])}))

(* stat of any path and fstat of any descriptor tell the i-node's own       *)
(* number, size and attributes, each as the call that set it last left it   *)
(* under whichever name: ext4_getattr, which finds the file by f_path.      *)
StatExact ==
  /\ \A p \in work.paths :
       LET s == Stat(p)
       IN  s.err = "EOK" =>
             /\ s.kind = "FILE" => s.size = Len(data[s.ino])
             /\ s.attr = [given[s.ino] EXCEPT !["owner"] = 0]
             /\ "attr" \in work.calls =>
                  /\ ModeGet(t, p) = given[s.ino]["mode"]
                  /\ OwnerGet(t, p) = given[s.ino]["owner"]
                  /\ \A a \in {"atime", "mtime", "ctime"} : TimeGet(t, p, a) = given[s.ino][a]
  /\ \A d \in Hs : h[d] # NoFile => Fstat(d).err = "EOK" /\ Fstat(d).ino = h[d].i

(* Reads and stats answer what was written and set last, however many names *)
(* and descriptors a file has (ext4_fread, ext4_getattr).                   *)
AnswersExact == ReadExact /\ StatExact

(* A call that fails leaves every name leading where it led, and adds none  *)
(* but directories on the way and the link symlinkat could not fill:        *)
(* the error paths of ext4_generic_open2, ext4_link and ext4_frename.       *)
FailKeeps ==
  [][failed' =>
       \A p \in work.paths :
         LET was == Lookup(t, p, ANY)
             is  == Lookup(t', p, ANY)
         IN  IF was.err = "EOK" THEN is.err = "EOK" /\ is.i = was.i
             ELSE is.err = "EOK" => t'.ino[is.i].kind \in {"DIR", "LNK"}]_vars

(* A file system mounted read-only because of its features never changes:   *)
(* the EROFS checks of ext4.c.                                              *)
ReadOnlyKeeps == [][t.ro => t' = t]_vars

(* The VFS and lwext4 find the same file system for every path below a      *)
(* mount that succeeded, although one takes the longest prefix and the      *)
(* other the first slot: mountpoint_find and ext4_get_mount.                *)
ResolversAgree ==
  \A p \in work.paths :
    LET q == [p |-> p, s |-> p = <<>>]
        e == Find(mnt, q)
    IN  e.priv => GetMount(mnt, q).name = e.dir /\ GetMount(mnt, q).dev = e.dev

(* The tables agree after every mount and umount2: a mount point that       *)
(* succeeded has one slot, on its registered device, and the superblock     *)
(* says ERROR exactly while the device is mounted for writing.              *)
TablesAgree ==
  /\ \A e \in mnt.list : e.priv =>
       /\ e.dev \in mnt.devs
       /\ Cardinality({k \in 1 .. MPS : mnt.slots[k].on /\ mnt.slots[k].name = e.dir}) = 1
  /\ \A k \in 1 .. MPS : mnt.slots[k].on =>
       \E e \in mnt.list : e.dir = mnt.slots[k].name /\ e.dev = mnt.slots[k].dev /\ e.priv
  /\ \A d \in mnt.devs : \E e \in mnt.list : e.dev = d
  /\ \A d \in Devs : mnt.state[d] = "ERROR" <=>
       \E k \in 1 .. MPS : mnt.slots[k].on /\ mnt.slots[k].dev = d /\ ~mnt.slots[k].ro

(* A plain name is resolved below the working directory: fullpath_connect   *)
(* with the path chdir kept.                                                *)
NameBelowCwd ==
  \A n \in Names :
    FullpathConnect(<<n>>, cwd) =
      (IF cwd = <<"/">> THEN <<>> ELSE cwd) \o <<"/", n>>

(* A path leads to one file system and one name, relative or absolute, for  *)
(* the VFS and for lwext4.                                                  *)
PathsResolved == ResolversAgree /\ NameBelowCwd

(* spinlock.c:48 asserts that a lock is not acquired by its holder.         *)
NeverAcquiredTwice == ~(mnt.held /\ halted)
=============================================================================
