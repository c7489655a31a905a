------------------------------ MODULE DirBlock ------------------------------
(***************************************************************************)
(* Directory blocks: ext4_dir.c.  Lengths and offsets are counted in words *)
(* of four bytes, to which the code aligns every record.  A block is a     *)
(* function from offsets to what a reader finds there: a record header     *)
(* (i-node, record length, name) or Junk, the bytes of a name or of a      *)
(* block never written.  A header stays in memory when its record is       *)
(* merged into the one before it; only the headers on the walk from offset *)
(* 0 by record lengths are the block's records.                            *)
(***************************************************************************)
EXTENDS Integers, FiniteSets, FiniteSetsExt, Functions

CONSTANTS BS,           \* words of a block
          RecLen(_)     \* words a record of this name needs: header and name

TailLen == 3            \* the checksum "dirent" ending a block
DotLen == 3             \* a record for "." or ".."

Junk == [ino |-> -1, len |-> 0, name |-> "junk"]
Rec(ino, len, name) == [ino |-> ino, len |-> len, name |-> name]
CsumTail == Rec(0, TailLen, "csum")
Empty(len) == Rec(0, len, "")

(* A block with csum keeps its last words for the tail. *)
Room(csum) == IF csum THEN BS - TailLen ELSE BS
InitTail(b, csum) == IF csum THEN [b EXCEPT ![BS - TailLen] = CsumTail] ELSE b

Fresh == [o \in 0 .. BS - 1 |-> Junk]

(* The offsets of the records of b; a length of 0 ends the walk (EINVAL). *)
Walk(b) ==
  LET W[o \in 0 .. 2 * BS] ==
        IF o >= BS THEN {} ELSE IF b[o].len = 0 THEN {o}
        ELSE {o} \cup W[o + b[o].len]
  IN  W[0]

(* ext4_dir_write_entry: the header and, over what was there, the name. *)
WriteEntry(b, o, len, ino, name) ==
  [k \in DOMAIN b |-> IF k = o THEN Rec(ino, len, name)
                      ELSE IF k \in o + 1 .. o + RecLen(name) - 1 THEN Junk
                      ELSE b[k]]

(* ext4_dir_find_in_block: the offset of the record of name, or -1. *)
FindInBlock(b, name) ==
  LET hits == {o \in Walk(b) : b[o].ino # 0 /\ b[o].name = name}
  IN  IF hits = {} THEN -1 ELSE Min(hits)

(***************************************************************************)
(* ext4_dir_try_insert_entry: the first unused record that is long enough, *)
(* or the first used one with enough room behind its name.                 *)
(***************************************************************************)
Slack(r) == IF r.ino = 0 THEN 0 ELSE r.len - RecLen(r.name)

TryInsertEntry(b, ino, name) ==
  LET need == RecLen(name)
      fits == {o \in Walk(b) :
                 \/ b[o].ino = 0 /\ b[o].name # "csum" /\ b[o].len >= need
                 \/ Slack(b[o]) >= need}
      o    == Min(fits)
      free == Slack(b[o])
  IN  IF fits = {} THEN [ok |-> FALSE, b |-> b]
      ELSE IF b[o].ino = 0
      THEN [ok |-> TRUE, b |-> WriteEntry(b, o, b[o].len, ino, name)]
      ELSE [ok |-> TRUE,
            b |-> WriteEntry([b EXCEPT ![o].len = @ - free],
                             o + b[o].len - free, free, ino, name)]

(* ext4_dir_remove_entry, the block part: the record is marked unused and, *)
(* unless it is the first, its length is given to its predecessor.         *)
(* Slip: the header of the removed record is wiped. *)
RemoveAt_bug(b, o) ==
  LET gone == [b EXCEPT ![o] = Junk]
      pred == CHOOSE p \in Walk(b) : p + b[p].len = o
  IN  IF o = 0 THEN [b EXCEPT ![o].ino = 0] ELSE [gone EXCEPT ![pred].len = @ + b[o].len]

RemoveAt(b, o) ==
  LET gone == [b EXCEPT ![o].ino = 0]
      pred == CHOOSE p \in Walk(b) : p + b[p].len = o
  IN  IF o = 0 THEN gone ELSE [gone EXCEPT ![pred].len = @ + b[o].len]

-----------------------------------------------------------------------------
(***************************************************************************)
(* The iterator over blocks blk[0], blk[1], ...: a position is a word      *)
(* offset in the directory.  ext4_dir_iterator_seek refuses (EIO) a        *)
(* position with no header that fits in its block.                         *)
(***************************************************************************)
EndPos(blk) == Cardinality(DOMAIN blk) * BS
At(blk, pos) == blk[pos \div BS][pos % BS]

Seek(blk, pos) ==
  IF pos >= EndPos(blk) THEN "end"
  ELSE IF At(blk, pos) = Junk \/ (pos % BS) + At(blk, pos).len > BS THEN "EIO"
  ELSE "at"

(* ext4_dir_iterator_next: on by record lengths, past unused records; the  *)
(* end of the directory and a refused position both give no current record.*)
IterNext(blk, pos) ==
  LET N[p \in 0 .. EndPos(blk)] ==
        LET q == p + At(blk, p).len
        IN  IF Seek(blk, q) # "at" THEN [st |-> Seek(blk, q), pos |-> q]
            ELSE IF At(blk, q).ino # 0 THEN [st |-> "at", pos |-> q]
            ELSE N[q]
  IN  N[pos]
=============================================================================
