-------------------------------- MODULE Fifo --------------------------------
(* Pipes: the ring buffer of kernel/lib/kfifo.c under the read, write and    *)
(* close operations of kernel/fs/pipe.c.  Each operation holds the spinlock  *)
(* of the ring, which turns interrupts off, so it is one step.  W is     *)
(* 2^32 in the code: in and out are unsigned and wrap.  Definitions ending   *)
(* in _bug are slips that no specification uses.                             *)
EXTENDS Integers, Sequences, FiniteSets, FiniteSetsExt

CONSTANTS Byte,     \* values of a byte, without the initial content 0
          Sizes,    \* sizes asked of kfifo_alloc
          MaxLen,   \* bound: bytes of one call
          Width     \* 32, the bits of an unsigned int

(* kfifo_alloc warns of a size above 0x80000000, which it cannot round up;   *)
(* PowersOfTwo is the law of exponents that the proofs need.                 *)
ASSUME FifoAssumption ==
  /\ MaxLen \in Nat \ {0} /\ Width \in Nat \ {0} /\ 0 \notin Byte
  /\ Sizes \subseteq 0 .. 2^(Width - 1)
ASSUME PowersOfTwo == \A k \in 0 .. Width - 1 : 2^(k + 1) = 2 * 2^k

VARIABLES want,     \* size asked for
          size, buffer, in, out,
          got, ret, \* bytes and result the last call gave its caller
          ends      \* open ends; pipe->ref is their number

vars == <<want, size, buffer, in, out, got, ret, ends>>

-----------------------------------------------------------------------------
Bits == 0 .. Width - 1
W == 2^Width
is_power_of_2(n) == \E k \in Bits : n = 2^k

(* The loop shifts n right until it is zero.                                 *)
roundup_pow_of_two(n) ==
  IF n = 0 THEN 1
  ELSE IF is_power_of_2(n) THEN n
  ELSE 2^(Cardinality({k \in Bits : n \div 2^k > 0}))

Init ==
  /\ want \in Sizes
  /\ size = roundup_pow_of_two(want)
  /\ buffer = [i \in 0 .. size - 1 |-> 0]
  /\ in = 0 /\ out = 0
  /\ got = <<>> /\ ret = 0
  /\ ends = {"r", "w"}

-----------------------------------------------------------------------------
(* Unsigned arithmetic.                                                      *)
Uint(x) == x % W

kfifo_len == Uint(in - out)

(* Room for len bytes, and how many of n bytes go before the end of the      *)
(* buffer when the first one is at index i.                                  *)
Room_bug(len) == Min({len, Uint(size - (in % size) + (out % size))})
Room(len) == Min({len, Uint(size - in + out)})
Before(i, n) == Min({n, size - (i % size)})

(* read and write on an end that is open: pipe_read and pipe_write find the  *)
(* ring in place, since only the last pipe_close takes it away.              *)
Usable(e) == e \in ends

(* kfifo_put and pipe_write.                                                 *)
Put(data) ==
  LET n == Room(Len(data))
      l == Before(in, n)
  IN
  /\ Usable("w")
  /\ buffer' = [i \in 0 .. size - 1 |->
                  IF i - (in % size) \in 0 .. l - 1 THEN data[i - (in % size) + 1]
                  ELSE IF i \in 0 .. n - l - 1 THEN data[l + i + 1]
                  ELSE buffer[i]]
  /\ in' = Uint(in + n)
  /\ ret' = n
  /\ UNCHANGED <<want, size, out, got, ends>>

(* kfifo_get and pipe_read: an empty ring starts again at index 0.           *)
Rewound(i, o) == IF i = o THEN <<0, 0>> ELSE <<i, o>>

Get(len) ==
  LET n == Min({len, kfifo_len})
      l == Before(out, n)
      idx == Rewound(in, Uint(out + n))
  IN
  /\ Usable("r")
  /\ got' = [k \in 1 .. n |-> IF k <= l THEN buffer[(out % size) + k - 1]
                              ELSE buffer[k - l - 1]]
  /\ in' = idx[1] /\ out' = idx[2]
  /\ ret' = n
  /\ UNCHANGED <<want, size, buffer, ends>>

(* pipe_close; the second one frees the ring.                                *)
Close(e) ==
  /\ e \in ends
  /\ ends' = ends \ {e}
  /\ IF ends' = {} THEN in' = 0 /\ out' = 0 /\ buffer' = [i \in DOMAIN buffer |-> 0]
     ELSE UNCHANGED <<in, out, buffer>>
  /\ UNCHANGED <<want, size, got, ret>>

Data == UNION {[1 .. n -> Byte] : n \in 1 .. MaxLen}

Next ==
  \/ \E data \in Data : Put(data)
  \/ \E len \in 1 .. MaxLen : Get(len)
  \/ \E e \in {"r", "w"} : Close(e)

Spec == Init /\ [][Next]_vars

-----------------------------------------------------------------------------
(* Types of the ring.                                                        *)
TypeOK ==
  /\ want \in Sizes /\ size \in Nat
  /\ buffer \in [0 .. size - 1 -> Byte \cup {0}]
  /\ in \in 0 .. W - 1 /\ out \in 0 .. W - 1
  /\ got \in Seq(Byte) /\ ret \in 0 .. MaxLen
  /\ ends \subseteq {"r", "w"}

(* "The size will be rounded-up to a power of 2" (kfifo_alloc): to the least *)
(* one that is not smaller, 1 for a size of 0.                               *)
SizeRounded ==
  /\ is_power_of_2(size) /\ size >= want
  /\ \A k \in Bits : 2^k >= want => size <= 2^k

(* The ring, its two indices and their wrap at 2^32 are a bounded queue of   *)
(* bytes: no byte is lost, repeated or reordered, a full or an empty ring is *)
(* never taken for the other.                                                *)
Contents == [k \in 1 .. kfifo_len |-> buffer[(out + k - 1) % size]]
Queue == INSTANCE ByteQueue WITH cap <- size, q <- Contents
IsQueue == Queue!QSpec
=============================================================================
