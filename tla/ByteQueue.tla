----------------------------- MODULE ByteQueue -----------------------------
(* What a pipe promises: a bounded first-in first-out queue of bytes.  A     *)
(* write appends the longest prefix that fits, a read removes the longest    *)
(* prefix asked for, neither ever waits, and what the writer has put in can  *)
(* still be read after the writing end is closed.                            *)
EXTENDS Naturals, Sequences, FiniteSetsExt

CONSTANTS Byte, MaxLen

VARIABLES cap,   \* capacity
          q,     \* bytes written and not yet read
          got,   \* the bytes the last read returned
          ret,   \* what the last call returned
          ends   \* ends still open, a subset of {"r", "w"}

Data == UNION {[1 .. n -> Byte] : n \in 1 .. MaxLen}

Write(data) ==
  LET n == Min({Len(data), cap - Len(q)}) IN
  /\ "w" \in ends
  /\ q' = q \o SubSeq(data, 1, n)
  /\ ret' = n
  /\ UNCHANGED <<cap, got, ends>>

Read(len) ==
  LET n == Min({len, Len(q)}) IN
  /\ "r" \in ends
  /\ got' = SubSeq(q, 1, n)
  /\ q' = SubSeq(q, n + 1, Len(q))
  /\ ret' = n
  /\ UNCHANGED <<cap, ends>>

Shut(e) ==
  /\ e \in ends
  /\ ends' = ends \ {e}
  /\ q' = IF ends' = {} THEN <<>> ELSE q
  /\ UNCHANGED <<cap, got, ret>>

QInit ==
  /\ cap \in Nat /\ q = <<>> /\ got = <<>> /\ ret = 0 /\ ends = {"r", "w"}

QNext ==
  \/ \E data \in Data : Write(data)
  \/ \E len \in 1 .. MaxLen : Read(len)
  \/ \E e \in {"r", "w"} : Shut(e)

QSpec == QInit /\ [][QNext]_<<cap, q, got, ret, ends>>
=============================================================================
