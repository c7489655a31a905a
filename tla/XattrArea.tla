------------------------------ MODULE XattrArea ------------------------------
(***************************************************************************)
(* The layout of extended attributes in lwext4 (ext4_xattr.c): an area     *)
(* holds a table of entries that grows upwards from first, closed by a     *)
(* zero word, and the values, which grow downwards from end.  There are    *)
(* two kinds of area: a block of its own and the space behind the fields   *)
(* of an i-node.  An area is a record                                      *)
(*   magic   h_magic is right                                              *)
(*   ref     h_refcount      hash  h_hash            (blocks only)         *)
(*   ents    the entries: key (name index and name), nlen, off, size, hash *)
(*   dat     its words by word number, counted from base                   *)
(* Offsets and sizes are in bytes as in the code.  A word of a value is    *)
(* the value's identity and the word's number in it; padding is not kept.  *)
(***************************************************************************)
EXTENDS Integers, Sequences, SequencesExt, FiniteSetsExt

CONSTANTS BLOCK_SIZE,       \* bytes of a block
          IBODY_SIZE        \* bytes from IFIRST to the end of the i-node

ASSUME SizeAssumption ==
  BLOCK_SIZE \in Nat /\ BLOCK_SIZE > 36 /\ BLOCK_SIZE % 4 = 0
  /\ IBODY_SIZE \in Nat /\ IBODY_SIZE > 4 /\ IBODY_SIZE % 4 = 0

SIZE(len) == ((len + 3) \div 4) * 4               \* EXT4_XATTR_SIZE
LEN(nlen) == ((nlen + 3 + 16) \div 4) * 4         \* EXT4_XATTR_LEN
TERM == 4                                         \* sizeof(uint32)

ZERO == <<"zero", 0>>
NOHASH == <<>>                                    \* a hash of 0
Word(v, j) == <<v.id, j>>

(* Where the entries start and where the area ends, both from base.  The   *)
(* base of a block is its header, that of an i-node body its first entry.  *)
BlockSearch == [first |-> 32, end |-> BLOCK_SIZE]
IbodySearch == [first |-> 0, end |-> IBODY_SIZE]

Blank(s) == [magic |-> FALSE, ref |-> 0, hash |-> NOHASH, ents |-> <<>>,
             dat |-> [w \in 0 .. (s.end \div 4) - 1 |-> ZERO]]

(* ext4_xattr_block_initialize and ext4_xattr_ibody_initialize. *)
BlockInitialize == [Blank(BlockSearch) EXCEPT !.magic = TRUE, !.ref = 1]
IbodyInitialize == [Blank(IbodySearch) EXCEPT !.magic = TRUE]

(* The value of entry e as a reader copies it: its words from e_value_offs. *)
ReadValue(A, e) ==
  [j \in 1 .. SIZE(e.size) \div 4 |-> A.dat[(e.off \div 4) + j - 1]]

WordsOf(v) == [j \in 1 .. SIZE(v.len) \div 4 |-> Word(v, j)]

-----------------------------------------------------------------------------
(* ext4_xattr_find_entry: the position of the first entry with the key, or 0. *)
FindEntry(A, key) == SelectInSeq(A.ents, LAMBDA e : e.key = key)

EntsLen(A) == FoldLeft(LAMBDA n, e : n + LEN(e.nlen), 0, A.ents)

MinOffs(A, top) ==
  Min({top} \cup {e.off : e \in {x \in ToSet(A.ents) : x.size > 0}})

FreeSpace(A, s) == MinOffs(A, s.end) - (s.first + EntsLen(A)) - TERM

(* Slip: the name of a replaced entry is not counted as free. *)
Released_bug(e) == SIZE(e.size)

Released(e) == SIZE(e.size) + LEN(e.nlen)

(* Slip: the entries keep their offsets when the values move. *)
Moves_bug(x, e) == FALSE

(* The entries whose offset is adjusted when the value of e is taken out:   *)
(* those with a smaller offset, which an empty value (offset 0) also has.   *)
Moves(x, e) == x.off < e.off

(* The value of e is taken out: the values below it move up over it and    *)
(* the gap this leaves at the bottom is zeroed.                            *)
RemoveData(A, s, e) ==
  LET vs == SIZE(e.size) \div 4
      lo == MinOffs(A, s.end) \div 4
      hi == e.off \div 4
  IN  [A EXCEPT
        !.dat  = [w \in DOMAIN @ |->
                    IF e.off = 0 \/ w < lo \/ w >= hi + vs THEN @[w]
                    ELSE IF w < lo + vs THEN ZERO ELSE @[w - vs]],
        !.ents = [k \in DOMAIN @ |->
                    IF Moves(@[k], e) THEN [@[k] EXCEPT !.off = @ + SIZE(e.size)]
                    ELSE @[k]]]

(* The new value just below min, in the entry at or in a new last one.     *)
InsertData(A, min, at, i) ==
  LET off == IF i.value.len = 0 THEN 0 ELSE min - SIZE(i.value.len)
      e   == [key |-> i.key, nlen |-> i.nlen, off |-> off,
              size |-> i.value.len, hash |-> NOHASH]
  IN  [A EXCEPT
        !.ents = IF at = 0 THEN Append(@, e)
                 ELSE [@ EXCEPT ![at].off = off, ![at].size = i.value.len],
        !.dat  = [w \in DOMAIN @ |->
                    IF off # 0 /\ w \in off \div 4 .. (off + SIZE(i.value.len)) \div 4 - 1
                    THEN Word(i.value, w - (off \div 4) + 1) ELSE @[w]]]

NULL == [id |-> "NULL", len |-> 0]        \* i->value of a removal

(***************************************************************************)
(* ext4_xattr_set_entry; a removal has the value NULL.  hit names what the *)
(* code mishandles in this call (see Xattr).                               *)
(***************************************************************************)
SetEntry(A, s, i) ==
  LET at   == FindEntry(A, i.key)
      e    == A.ents[at]
      free == FreeSpace(A, s) + (IF at = 0 THEN 0 ELSE Released(e))
      min  == MinOffs(A, s.end) + (IF at = 0 THEN 0 ELSE SIZE(e.size))
  IN  IF i.value = NULL /\ at = 0 THEN [err |-> "EOK", A |-> A, hit |-> {}]
      ELSE IF i.value # NULL /\ free < SIZE(i.value.len) + LEN(i.nlen)
      THEN [err |-> "ENOSPC", A |-> A, hit |-> {}]
      ELSE [err |-> "EOK",
            A   |-> IF i.value = NULL
                    THEN [RemoveData(A, s, e) EXCEPT !.ents = RemoveAt(@, at)]
                    ELSE InsertData(IF at = 0 THEN A ELSE RemoveData(A, s, e), min, at, i),
            hit |-> IF at # 0 /\ \E x \in ToSet(A.ents) : x.size = 0 /\ Moves(x, e)
                    THEN {"empty"} ELSE {}]

IsEmpty(A) == A.ents = <<>>

(***************************************************************************)
(* ext4_xattr_is_block_valid and ext4_xattr_is_ibody_valid.  The latter    *)
(* counts offsets from the header, four bytes before the base that the     *)
(* writer of the entries uses: d is 4 there and 0 for a block.             *)
(***************************************************************************)
Valid(A, s, d) ==
  /\ A.magic
  /\ \A k \in DOMAIN A.ents :
       /\ A.ents[k].size = 0 => A.ents[k].off = 0
       /\ A.ents[k].off + A.ents[k].size <= s.end + d
       /\ s.first + EntsLen([A EXCEPT !.ents = SubSeq(@, 1, k)]) + TERM <= s.end
  /\ MinOffs(A, s.end + d) - d >= s.first + EntsLen(A) + TERM

IsBlockValid(A) == Valid(A, BlockSearch, 0)
IsIbodyValid(A) == Valid(A, IbodySearch, 4)

-----------------------------------------------------------------------------
(* ext4_xattr_compute_hash: of the name and the value.  No name and no     *)
(* value hash to 0, and one such entry makes the hash of the block 0.      *)
HashOf(A, e) == IF e.nlen = 0 /\ e.size = 0 THEN NOHASH ELSE <<e.key[2], ReadValue(A, e)>>

ComputeHash(A, at) == [A EXCEPT !.ents[at].hash = HashOf(A, A.ents[at])]

(* ext4_xattr_rehash of the first entry. *)
Rehash(A) ==
  LET B == IF IsEmpty(A) THEN A ELSE ComputeHash(A, 1)
      h == [k \in DOMAIN B.ents |-> B.ents[k].hash]
  IN  [B EXCEPT !.hash = IF \E k \in DOMAIN h : h[k] = NOHASH THEN NOHASH ELSE h]
=============================================================================
