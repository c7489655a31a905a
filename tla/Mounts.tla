------------------------------- MODULE Mounts -------------------------------
(***************************************************************************)
(* Mount points and path names: fs/mountp.c, the mount and umount2 system  *)
(* calls with kernel_mount, the ext4 glue that registers a device with     *)
(* lwext4 and mounts it there, and fullpath_connect.  A file system is     *)
(* found twice for every path: by the VFS, which takes the longest mount   *)
(* point that is a prefix, and by lwext4, which takes the first slot that  *)
(* is one.  A mount record m has                                           *)
(*   list     the mount points of the VFS: dir, fs, dev, priv              *)
(*   held     mplst_lock was not released                                  *)
(*   devs     the devices registered with lwext4 (s_bdevices)              *)
(*   slots    its mount points (s_mp): name, dev, on, ro                   *)
(*   state    per device, the state field of its superblock                *)
(* A directory name is [p, s]: its components and whether it ends in "/".  *)
(***************************************************************************)
EXTENDS Integers, FiniteSets, FiniteSetsExt, Sequences

CONSTANTS Devs, MPS, BDEVS      \* CONFIG_EXT4_MOUNTPOINTS_COUNT, _BLOCKDEVS_COUNT

ASSUME MountsAssumption == MPS \in Nat /\ Devs # {}

Slash == [p |-> <<>>, s |-> TRUE]
DevDir == [p |-> <<"dev">>, s |-> FALSE]
NoMount == [dir |-> Slash, fs |-> "none", dev |-> "none", priv |-> FALSE]
NoSlot == [name |-> DevDir, dev |-> "none", on |-> FALSE, ro |-> FALSE]

(* vfilesys_init: devfs, and nothing else yet. *)
VfilesysInit ==
  [list |-> {[dir |-> DevDir, fs |-> "devfs", dev |-> "none", priv |-> FALSE]},
   held |-> FALSE, devs |-> {},
   slots |-> [k \in 1 .. MPS |-> NoSlot], state |-> [d \in Devs |-> "VALID"]]

StrLen(d) == 2 * Len(d.p) + (IF d.s THEN 1 ELSE 0)
IsStrPrefix(d, q) ==
  /\ Len(d.p) <= Len(q.p) /\ d.p = SubSeq(q.p, 1, Len(d.p))
  /\ d.s => Len(q.p) > Len(d.p) \/ q.s

(* mountpoint_find *)
Find(m, q) ==
  LET hits == {e \in m.list : IsStrPrefix(e.dir, q)}
  IN  IF hits = {} THEN NoMount
      ELSE CHOOSE e \in hits : \A o \in hits : StrLen(o.dir) <= StrLen(e.dir)

(* ext4_get_mount *)
GetMount(m, q) ==
  LET hits == {k \in 1 .. MPS : m.slots[k].on /\ IsStrPrefix(m.slots[k].name, q)}
  IN  IF hits = {} THEN NoSlot ELSE m.slots[Min(hits)]

(***************************************************************************)
(* What ext4_fs_init makes of a superblock sb: "bad", "ro" or "rw".        *)
(*   valid      the magic number, counts and sizes ext4_sb_check wants     *)
(*   csum       the checksum is right, when METADATA_CSUM is a feature     *)
(*   fits       the block size is at most EXT4_MAX_BLOCK_SIZE              *)
(*   rev0       revision 0, whose features are not looked at               *)
(*   incompat   an incompatible feature lwext4 does not know               *)
(*   rocompat   one that it may only read                                  *)
(***************************************************************************)
SbCheck(sb) == sb.valid /\ sb.csum

CheckFeatures(sb) ==
  IF sb.rev0 THEN "rw"
  ELSE IF sb.incompat THEN "bad"
  ELSE IF sb.rocompat THEN "ro" ELSE "rw"

FsInit(sb) == IF SbCheck(sb) /\ sb.fits THEN CheckFeatures(sb) ELSE "bad"

(***************************************************************************)
(* ext4_mount of a device with superblock sb.  The name is written into    *)
(* the slot before anything can fail; a device mounted for writing is      *)
(* marked ERROR until it is unmounted.                                     *)
(***************************************************************************)
Ext4Mount(m, dev, dir, sb) ==
  LET off  == {k \in 1 .. MPS : ~m.slots[k].on}
      k    == Min(off)
      same == {j \in 1 .. MPS : m.slots[j].on /\ m.slots[j].name = dir}
      fs   == FsInit(sb)
  IN  IF ~dir.s THEN [m |-> m, ok |-> FALSE]
      ELSE IF \E j \in same : \A o \in off : j < o THEN [m |-> m, ok |-> TRUE]
      ELSE IF off = {} THEN [m |-> m, ok |-> FALSE]
      ELSE [m  |-> [m EXCEPT !.slots[k] = [name |-> dir, dev |-> dev, on |-> fs # "bad",
                                           ro |-> fs = "ro"],
                             !.state[dev] = IF fs = "rw" THEN "ERROR" ELSE @],
            ok |-> fs # "bad"]

(* ext4_device_register *)
Register(m, dev) ==
  IF dev \in m.devs \/ Cardinality(m.devs) >= BDEVS THEN [m |-> m, ok |-> FALSE]
  ELSE [m |-> [m EXCEPT !.devs = @ \cup {dev}], ok |-> TRUE]

(* ext4_fs_mount: a device that cannot be mounted stays registered. *)
Ext4FsMount(m, dev, dir, sb) ==
  LET r == Register(m, dev) IN IF r.ok THEN Ext4Mount(r.m, dev, dir, sb) ELSE r

(* Slip: only the same directory counts as used. *)
Used_bug(m, dir) == \E e \in m.list : e.dir = dir

Used(m, dir) == Find(m, dir).fs # "none"

(***************************************************************************)
(* mount and kernel_mount: refused as soon as a mount point covers the     *)
(* directory.  The entry is added first and stays when the file system     *)
(* cannot be mounted.                                                      *)
(***************************************************************************)
Mount(m, dev, dir, sb) ==
  LET e == [dir |-> dir, fs |-> "ext4", dev |-> dev, priv |-> FALSE]
      r == Ext4FsMount([m EXCEPT !.list = @ \cup {e}], dev, dir, sb)
  IN  IF Used(m, dir) THEN m
      ELSE IF ~r.ok THEN r.m
      ELSE [r.m EXCEPT !.list = (@ \ {e}) \cup {[e EXCEPT !.priv = TRUE]}]

(* Slip: the device stays registered. *)
Unregister_bug(m, dev) == m

Unregister(m, dev) == [m EXCEPT !.devs = @ \ {dev}]

(* ext4_fs_fini *)
FsFini(m, slot) == IF slot.ro THEN m ELSE [m EXCEPT !.state[slot.dev] = "VALID"]

(* ext4_umount: the first slot of that name, mounted or not. *)
Ext4Umount(m, dir) ==
  LET k == Min({j \in 1 .. MPS : m.slots[j].name = dir})
  IN  FsFini([m EXCEPT !.slots[k].on = FALSE], m.slots[k])

Ext4FsUmount(m, e) == Unregister(Ext4Umount(m, e.dir), e.dev)

(***************************************************************************)
(* umount2 of the file system q belongs to.  mountpoint_remove returns     *)
(* from inside its loop without releasing mplst_lock.                      *)
(***************************************************************************)
Umount(m, q) ==
  LET e == Find(m, q)
  IN  [Ext4FsUmount(m, e) EXCEPT !.list = @ \ {e}, !.held = TRUE]

(***************************************************************************)
(* fullpath_connect, for names of one character: full is the directory,    *)
(* path the components and separators of a relative path.  After a ".."    *)
(* the separator before the directory's last name is gone too.             *)
(***************************************************************************)
Strip(full, n) ==          \* the length left by the two loops of a ".."
  LET seps == {k \in 0 .. n - 1 : k = 0 \/ full[k] = "/"}
      at   == Max(seps)
  IN  IF at > 0 THEN at - 1 ELSE 0

FullpathConnect(path, dir) ==
  LET start == IF dir[Len(dir)] = "/" THEN dir ELSE Append(dir, "/")
      dot(k) == path[k] = "." /\ k < Len(path)
      Walk[k \in 0 .. Len(path)] ==
        IF k = 0 THEN start
        ELSE LET full == Walk[k - 1]
             IN  IF path[k] = "/" \/ dot(k) THEN full
                 ELSE IF path[k] = ".." THEN SubSeq(full, 1, Strip(full, Len(full)))
                 ELSE Append(full, path[k])
  IN  Walk[Len(path)]
=============================================================================
