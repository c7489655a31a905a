-------------------------------- MODULE DevFs --------------------------------
(***************************************************************************)
(* The file system of devices: fs/devfs/devfs.c with the terminals of      *)
(* devs/tty.c and the disks of devs/block.c.  A terminal is written one    *)
(* character at a time, and a process may be preempted between two (RISC-V *)
(* system calls run with interrupts on); the flush of a buffer is one      *)
(* step.  Disk requests succeed (Disk models them).  Reads change nothing  *)
(* but a position and are left out, except that of a disk, whose answer    *)
(* never reaches the user: block_read returns 0 for success and read       *)
(* copies that many bytes.                                                 *)
(*   dv.h     the open device of a descriptor: dev, acc, pos, todo (what a *)
(*            terminal write has left), mid (put, not yet tested)          *)
(*   dv.dirs  the structures devfs_openat allocated for "/dev"             *)
(*   dv.obuf  the buffer of stdout        dv.out  what the console printed *)
(*   dv.said  per terminal, what was written to it, in order (history)     *)
(*   dv.disk  per disk, its bytes         dv.ofs  per disk, disk->ofs      *)
(*   dv.meant per disk, what its writers meant it to hold (history)        *)
(***************************************************************************)
EXTENDS Integers, Sequences, Functions, FiniteSets

CONSTANTS Hs,           \* descriptors
          BlkNames,     \* the block devices, in the order they registered
          TTY_BUF,      \* TTY_BUF_SIZE_DEFAULT
          SECT, NSECT,  \* sector size and sectors of a disk
          DevPaths, DevFlags, Texts,
          MaxChars,     \* characters and disk writes in a behaviour
          Defects       \* conditions the code mishandles that may happen here

ASSUME DevFsAssumption ==
  /\ TTY_BUF \in Nat \ {0} /\ SECT \in Nat \ {0} /\ NSECT \in Nat \ {0}
  /\ Texts \subseteq Seq(BOOLEAN)

VARIABLE dv

Allowed(defect) == defect \in Defects

(* devfs_init and devfs_add_device: numbers from 0, the list backwards. *)
Added == <<"stdin", "stdout", "stderr">> \o BlkNames
DevfsList == [k \in 1 .. Len(Added) |-> Added[Len(Added) + 1 - k]]
DevIno(name) == (CHOOSE k \in 1 .. Len(Added) : Added[k] = name) - 1
Disks == Range(BlkNames)
Terminals == {"stdin", "stdout", "stderr"}
DevType(name) == IF name = "dir" THEN "DIR" ELSE IF name \in Disks THEN "BLK" ELSE "CHR"

(* get_name_pos_from_path and devfs_get_by_name: "dir", a device or "bad". *)
DevByPath(p) ==
  IF p = <<"dev">> THEN "dir"
  ELSE IF Len(p) = 2 /\ p[2] \in Range(DevfsList) THEN p[2] ELSE "bad"

(* devfs_getattr *)
DevGetattr(p) ==
  LET n == DevByPath(p)
  IN  IF n = "bad" THEN [err |-> "FAIL"]
      ELSE [err |-> "EOK", kind |-> DevType(n), ino |-> IF n = "dir" THEN 1 ELSE DevIno(n),
            size |-> CASE n = "dir" -> 4096 [] n \in Disks -> SECT * NSECT [] OTHER -> 0]

(* devfs_getdents64: from the start at every call, as many as fit; reclen  *)
(* is the length of an entry.                                              *)
DevGetdents(len, reclen) == SubSeq(DevfsList, 1, len \div reclen)

NoDev == [dev |-> "none", acc |-> "R", pos |-> 0, todo |-> <<>>, mid |-> FALSE]
Zeros == [b \in 0 .. SECT * NSECT - 1 |-> 0]

DevfsInit ==
  dv = [h |-> [d \in Hs |-> NoDev], dirs |-> 0, obuf |-> <<>>, out |-> <<>>,
        said |-> [n \in Terminals |-> <<>>], n |-> 0,
        disk |-> [n \in Disks |-> Zeros], ofs |-> [n \in Disks |-> 0],
        meant |-> [n \in Disks |-> Zeros]]

-----------------------------------------------------------------------------
(* devfs_openat; without a free descriptor openat does not call close. *)
DevOpenat(d, p, flags) ==
  LET n == DevByPath(p)
      dirs == dv.dirs + (IF n = "dir" THEN 1 ELSE 0)
  IN  /\ dv.h[d] = NoDev
      /\ dv' = IF n = "bad" \/ flags \cap {"CREAT", "APPEND"} # {} THEN dv
               ELSE [dv EXCEPT !.dirs = dirs,
                       !.h[d] = [NoDev EXCEPT !.dev = n,
                                   !.acc = IF "RDWR" \in flags THEN "RW" ELSE "R"]]

DevOpenatFull(p) ==
  /\ \A d \in Hs : dv.h[d] # NoDev
  /\ DevByPath(p) = "dir" => Allowed("fdfull")
  /\ dv' = [dv EXCEPT !.dirs = @ + (IF DevByPath(p) = "dir" THEN 1 ELSE 0)]

Idle(d) == dv.h[d] # NoDev /\ dv.h[d].todo = <<>>

FreedDirs(d) == IF dv.h[d].dev = "dir" THEN 1 ELSE 0

(* devfs_close *)
DevClose(d) ==
  /\ Idle(d)
  /\ dv' = [dv EXCEPT !.dirs = @ - FreedDirs(d), !.h[d] = NoDev]

-----------------------------------------------------------------------------
(* tty_write of a text, given as which of its characters are newlines. *)
TtyWrite(d, text) ==
  /\ Idle(d) /\ dv.h[d].acc = "RW" /\ dv.h[d].dev \in Terminals
  /\ dv.n + Len(text) <= MaxChars
  /\ dv' = [dv EXCEPT !.n = @ + Len(text),
              !.h[d].todo = [k \in DOMAIN text |->
                               [tty |-> dv.h[d].dev, n |-> dv.n + k, nl |-> text[k]]]]

(* The character is stored and bofs incremented, or it is printed.  Not     *)
(* while another writer is between its store and its test, which the code   *)
(* does not prevent.                                                        *)
TtyPut(d) ==
  LET c == Head(dv.h[d].todo)
  IN  /\ dv.h[d].todo # <<>> /\ ~dv.h[d].mid
      /\ (\E e \in Hs : dv.h[e].mid) => Allowed("preempt")
      /\ dv' = IF c.tty = "stdout"
               THEN [dv EXCEPT !.said[c.tty] = Append(@, c), !.obuf = Append(@, c),
                               !.h[d].mid = TRUE]
               ELSE [dv EXCEPT !.said[c.tty] = Append(@, c), !.out = Append(@, c),
                               !.h[d].todo = Tail(@)]

(* Slip: only a newline is looked for. *)
Flushes_bug(c) == c.nl

Flushes(c) == c.nl \/ Len(dv.obuf) = TTY_BUF

(* d goes on to its next character. *)
NextChar(d) == [dv.h EXCEPT ![d].todo = Tail(@), ![d].mid = FALSE]

(* The test for a newline or a full buffer, and tty_flush. *)
TtyTest(d) ==
  LET c == Head(dv.h[d].todo)
  IN  /\ dv.h[d].mid
      /\ dv' = IF Flushes(c)
               THEN [dv EXCEPT !.h = NextChar(d), !.out = @ \o dv.obuf, !.obuf = <<>>]
               ELSE [dv EXCEPT !.h = NextChar(d)]

-----------------------------------------------------------------------------
(* Where in the caller's buffer the data of the i-th sector starts: buf_ptr *)
(* moves on only in an incomplete transfer, and not to the last sector.     *)
BufPtr(i, size) ==
  LET cnt == (size - 1) \div SECT + 1
  IN  IF size % SECT # 0 THEN SECT * (IF i < cnt - 1 THEN i ELSE IF cnt > 1 THEN cnt - 2 ELSE 0)
      ELSE 0

(* Slip: the sector after the addressed one. *)
FirstSector_bug(pos) == ((pos \div SECT) + 1) % NSECT

FirstSector(pos) == pos \div SECT

(* block_write of size bytes; byte k of the w-th write is <<w, k>>.  The    *)
(* last sector of an incomplete transfer is filled up with zeros.           *)
BlockWritten(old, pos, size, w) ==
  LET cnt == (size - 1) \div SECT + 1
  IN  [b \in DOMAIN old |->
         LET i == (b \div SECT) - FirstSector(pos)
             k == b % SECT
         IN  IF i \notin 0 .. cnt - 1 THEN old[b]
             ELSE IF size % SECT # 0 /\ i = cnt - 1 /\ k >= size % SECT THEN 0
             ELSE w * 10 + BufPtr(i, size) + k]

(* Only whole, aligned single sectors arrive as they were meant. *)
BlockWrite(d, size) ==
  LET n == dv.h[d].dev
      p == dv.h[d].pos
  IN  /\ Idle(d) /\ dv.h[d].acc = "RW" /\ n \in Disks
      /\ dv.n < MaxChars
      /\ p + size <= SECT * NSECT
      /\ size > SECT => Allowed("multisector")
      /\ p % SECT # 0 \/ size % SECT # 0 => Allowed("partial")
      /\ dv' = [dv EXCEPT !.n = @ + 1, !.h[d].pos = @ + size,
                  !.disk[n]  = BlockWritten(@, p, size, dv.n + 1),
                  !.meant[n] = [b \in DOMAIN @ |->
                    IF b \in p .. p + size - 1 THEN (dv.n + 1) * 10 + b - p ELSE @[b]]]

(* block_read of one sector moves the position, within the disk. *)
BlockRead(d) ==
  /\ Idle(d) /\ dv.h[d].dev \in Disks
  /\ dv.h[d].pos + SECT <= SECT * NSECT
  /\ dv' = [dv EXCEPT !.h[d].pos = @ + SECT]

(* lseek and block_llseek: SEEK_CUR counts from disk->ofs, which reads and  *)
(* writes leave alone; SEEK_END is SEEK_SET.                                *)
BlockLlseek(d, off, whence) ==
  LET n == dv.h[d].dev
      size == SECT * NSECT
      res == IF whence = "CUR" THEN (dv.ofs[n] + off + size) % size ELSE off
  IN  /\ Idle(d) /\ n \in Disks
      /\ dv' = [dv EXCEPT !.ofs[n] = res, !.h[d].pos = res]

DevNext ==
  \/ \E d \in Hs, p \in DevPaths, flags \in DevFlags : DevOpenat(d, p, flags)
  \/ \E p \in DevPaths : DevOpenatFull(p)
  \/ \E d \in Hs : DevClose(d) \/ TtyPut(d) \/ TtyTest(d) \/ BlockRead(d)
  \/ \E d \in Hs, text \in Texts : TtyWrite(d, text)
  \/ \E d \in Hs, size \in 1 .. SECT * NSECT : BlockWrite(d, size)
  \/ \E d \in Hs, off \in {0, SECT}, whence \in {"SET", "CUR", "END"} :
       BlockLlseek(d, off, whence)

-----------------------------------------------------------------------------
(* said is what all has of terminal n, in the same order. *)
Heard(all, n, said) ==
  \E f \in [DOMAIN said -> DOMAIN all] :
    /\ \A i \in DOMAIN said : all[f[i]] = said[i]
    /\ \A i, j \in DOMAIN said : i < j => f[i] < f[j]
    /\ {f[i] : i \in DOMAIN said} = {k \in DOMAIN all : all[k].tty = n}

(* However two writers of a terminal alternate between characters, the      *)
(* console printed, with what is still buffered, every character written to *)
(* it once and in the order written; the buffer is never written past its   *)
(* end, and between two writes it is not full and holds no whole line.      *)
ConsoleExact ==
  /\ \A n \in Terminals : Heard(dv.out \o dv.obuf, n, dv.said[n])
  /\ Len(dv.obuf) <= TTY_BUF
  /\ (\A d \in Hs : ~dv.h[d].mid) =>
       Len(dv.obuf) < TTY_BUF /\ \A k \in DOMAIN dv.obuf : ~dv.obuf[k].nl

(* A disk opened through devfs holds what its writers meant to write, at    *)
(* the position their descriptor had, through seeks and other descriptors.  *)
SectorsExact == dv.disk = dv.meant

(* The structures allocated for "/dev" are those of its open descriptors.   *)
DirsOwned == dv.dirs = Cardinality({d \in Hs : dv.h[d].dev = "dir"})
=============================================================================
