----------------------------- MODULE FifoProofs -----------------------------
(* The ring buffer of kfifo.c implements a bounded queue of bytes, for rings *)
(* of every size and for indices that wrap.                                  *)
EXTENDS Fifo, NatFacts, SequenceTheorems, TLAPS

-----------------------------------------------------------------------------
(* Powers of two.                                                            *)
LEMMA PowerType == \A k \in 0 .. Width : 2^k \in Nat \ {0}
<1> DEFINE T == {k \in 0 .. Width : ~(2^k \in Nat \ {0})}
<1> SUFFICES ASSUME T # {} PROVE FALSE
  OBVIOUS
<1>0. Width \in Nat \ {0}
  BY FifoAssumption
<1>1. PICK n \in T : \A m \in T : n <= m
  <2>1. T \in SUBSET Nat
    BY <1>0
  <2> HIDE DEF T
  <2> QED BY <2>1, LeastElement
<1>2. CASE n = 0
  BY <1>1, <1>2
<1>3. CASE n # 0
  <2>1. n - 1 \in 0 .. Width - 1 /\ n - 1 \notin T
    BY <1>0, <1>1, <1>3
  <2>2. 2^(n - 1) \in Nat \ {0} /\ 2^((n - 1) + 1) = 2 * 2^(n - 1)
    BY <1>0, <2>1, PowersOfTwo
  <2>3. (n - 1) + 1 = n
    BY <1>0, <1>1
  <2>4. 2^n = 2 * 2^(n - 1)
    BY <2>2, <2>3
  <2>5. 2^n \in Nat \ {0}
    BY <2>2, <2>4
  <2> QED BY <1>1, <2>5
<1> QED BY <1>2, <1>3

(* Every power in range divides the largest one.                             *)
LEMMA PowerDivides ==
  ASSUME NEW k \in 0 .. Width - 1
  PROVE  \E m \in Nat \ {0} : 2^(Width - 1) = m * 2^k
<1> DEFINE D(d) == \E m \in Nat \ {0} : 2^(Width - 1) = m * 2^(Width - 1 - d)
           T == {d \in 0 .. Width - 1 : ~D(d)}
<1>0. Width \in Nat \ {0}
  BY FifoAssumption
<1>1. T = {}
  <2> SUFFICES ASSUME T # {} PROVE FALSE
    OBVIOUS
  <2>1. PICK n \in T : \A m \in T : n <= m
    <3>1. T \in SUBSET Nat
      BY <1>0
    <3> HIDE DEF T
    <3> QED BY <3>1, LeastElement
  <2>2. CASE n = 0
    <3>1. Width - 1 - n = Width - 1 /\ 2^(Width - 1) \in Nat
      BY <1>0, <2>2, PowerType
    <3>2. 2^(Width - 1) = 1 * 2^(Width - 1 - n)
      BY <3>1
    <3> QED BY <2>1, <3>2
  <2>3. CASE n # 0
    <3> DEFINE j == Width - 1 - n
    <3>1. j \in 0 .. Width - 1 /\ n - 1 \in 0 .. Width - 1 /\ Width - 1 - (n - 1) = j + 1
      BY <1>0, <2>1, <2>3
    <3>2. PICK m \in Nat \ {0} : 2^(Width - 1) = m * 2^(Width - 1 - (n - 1))
      BY <2>1, <3>1
    <3>3. 2^(j + 1) = 2 * 2^j /\ 2^j \in Nat
      BY <1>0, <3>1, PowersOfTwo, PowerType
    <3>4. 2^(Width - 1) = m * (2 * 2^j)
      BY <3>1, <3>2, <3>3
    <3> HIDE DEF j
    <3>5. 2^(Width - 1) = (m * 2) * 2^j /\ m * 2 \in Nat \ {0}
      BY <3>3, <3>4
    <3> QED BY <2>1, <3>5 DEF j
  <2> QED BY <2>2, <2>3
<1>2. Width - 1 - k \in 0 .. Width - 1 /\ Width - 1 - (Width - 1 - k) = k
  BY <1>0
<1>3. D(Width - 1 - k)
  BY <1>1, <1>2
<1> QED BY <1>2, <1>3

LEMMA PowerGrows == ASSUME NEW j \in 0 .. Width, NEW k \in 0 .. Width, j < k PROVE 2^j < 2^k
<1> DEFINE T == {i \in 0 .. Width : j < i /\ ~(2^j < 2^i)}
<1>0. Width \in Nat \ {0}
  BY FifoAssumption
<1>1. T = {}
  <2> SUFFICES ASSUME T # {} PROVE FALSE
    OBVIOUS
  <2>1. PICK n \in T : \A m \in T : n <= m
    <3>1. T \in SUBSET Nat
      BY <1>0
    <3> HIDE DEF T
    <3> QED BY <3>1, LeastElement
  <2>2. n - 1 \in 0 .. Width - 1 /\ n - 1 \notin T /\ (n - 1) + 1 = n /\ j <= n - 1
    BY <1>0, <2>1
  <2>3. 2^((n - 1) + 1) = 2 * 2^(n - 1) /\ 2^(n - 1) \in Nat \ {0}
    BY <1>0, <2>2, PowersOfTwo, PowerType
  <2>4. 2^n = 2 * 2^(n - 1) /\ 2^j \in Nat
    BY <2>2, <2>3, PowerType
  <2>5. 2^j <= 2^(n - 1)
    <3>1. CASE j = n - 1
      BY <2>3, <3>1
    <3>2. CASE j < n - 1
      <4>1. n - 1 \in 0 .. Width
        BY <1>0, <2>2
      <4>2. 2^j < 2^(n - 1)
        BY <2>2, <3>2, <4>1
      <4> QED BY <2>3, <2>4, <4>2
    <3> QED BY <2>2, <3>1, <3>2
  <2>6. 2^j < 2^n
    BY <2>3, <2>4, <2>5
  <2> QED BY <2>1, <2>6
<1> QED BY <1>1

(* The loop of roundup_pow_of_two counts the bits of n.                      *)
LEMMA BitLength ==
  ASSUME NEW n \in 1 .. 2^(Width - 1)
  PROVE  LET m == Cardinality({k \in Bits : n \div 2^k > 0})
         IN  /\ m \in 1 .. Width
             /\ 2^(m - 1) <= n /\ n < 2^m
<1> DEFINE T == {k \in 0 .. Width : n < 2^k}
           S == {k \in Bits : n \div 2^k > 0}
<1>0. Width \in Nat \ {0} /\ 2^Width = 2 * 2^(Width - 1) /\ 2^(Width - 1) \in Nat \ {0} /\ n \in Nat
  <2>1. Width \in Nat \ {0}
    BY FifoAssumption
  <2>2. Width - 1 \in 0 .. Width - 1 /\ (Width - 1) + 1 = Width
    BY <2>1
  <2>3. 2^((Width - 1) + 1) = 2 * 2^(Width - 1) /\ 2^(Width - 1) \in Nat \ {0}
    BY <2>1, <2>2, PowersOfTwo, PowerType
  <2> QED BY <2>1, <2>2, <2>3
<1>1. PICK m \in T : \A k \in T : m <= k
  <2>1. Width \in T
    BY <1>0
  <2>2. T \in SUBSET Nat /\ T # {}
    BY <1>0, <2>1
  <2> HIDE DEF T
  <2> QED BY <2>2, LeastElement
<1>2. m # 0 /\ m \in 1 .. Width /\ n < 2^m
  <2>1. 2^0 = 1
    OBVIOUS
  <2>2. m # 0
    <3> SUFFICES ASSUME m = 0 PROVE FALSE
      OBVIOUS
    <3>1. n < 2^m
      BY <1>1
    <3>2. 2^m = 1
      BY <2>1, Zenon
    <3> QED BY <1>0, <3>1, <3>2
  <2> QED BY <1>0, <1>1, <2>2
<1>3. 2^(m - 1) <= n
  <2>1. m - 1 \in 0 .. Width /\ m - 1 \notin T
    BY <1>0, <1>1, <1>2
  <2>2. 2^(m - 1) \in Nat
    BY <2>1, PowerType
  <2> QED BY <1>0, <2>1, <2>2
<1>4. ASSUME NEW k \in Bits PROVE k \in S <=> k \in 0 .. m - 1
  <2>1. k \in 0 .. Width /\ 2^k \in Nat \ {0} /\ 2^m \in Nat
    BY <1>0, <1>2, PowerType DEF Bits
  <2>2. n \div 2^k > 0 <=> 2^k <= n
    BY <1>0, <2>1
  <2>3. CASE k < m
    <3>1. k \notin T
      BY <1>0, <1>1, <2>1, <2>3
    <3> QED BY <1>0, <1>2, <2>1, <2>2, <2>3, <3>1
  <2>4. CASE k >= m
    <3>1. 2^m <= 2^k
      BY <1>2, <2>1, <2>4, PowerGrows
    <3> QED BY <1>0, <1>2, <2>1, <2>2, <2>4, <3>1
  <2> QED BY <1>0, <1>2, <2>1, <2>3, <2>4
<1>5. S = 0 .. m - 1
  BY <1>0, <1>2, <1>4 DEF Bits
<1>6. Cardinality(0 .. m - 1) = m
  <2>1. 0 \in Int /\ m - 1 \in Int
    BY <1>2
  <2>2. Cardinality(0 .. m - 1) = IF 0 > m - 1 THEN 0 ELSE (m - 1) - 0 + 1
    BY <2>1, FinInterval
  <2> QED BY <1>2, <2>2
<1> QED BY <1>2, <1>3, <1>5, <1>6, Zenon

(* kfifo_alloc's size.                                                       *)
LEMMA RoundupExact ==
  ASSUME NEW n \in 0 .. 2^(Width - 1)
  PROVE  LET s == roundup_pow_of_two(n)
         IN  /\ \E k \in Bits : s = 2^k
             /\ s >= n /\ \A k \in Bits : 2^k >= n => s <= 2^k
<1>0. Width \in Nat \ {0} /\ Bits = 0 .. Width - 1 /\ \A k \in 0 .. Width : 2^k \in Nat \ {0}
  BY FifoAssumption, PowerType DEF Bits
<1>1. CASE n = 0
  <2>1. roundup_pow_of_two(n) = 2^0 /\ 0 \in Bits
    BY <1>0, <1>1 DEF roundup_pow_of_two
  <2>2. 2^0 = 1 /\ \A k \in Bits : 1 <= 2^k
    BY <1>0
  <2>3. \E k \in Bits : roundup_pow_of_two(n) = 2^k
    BY <2>1, Zenon
  <2> QED BY <1>1, <2>1, <2>2, <2>3
<1>2. CASE n # 0 /\ is_power_of_2(n)
  <2>1. roundup_pow_of_two(n) = n
    BY <1>2 DEF roundup_pow_of_two
  <2>2. \E k \in Bits : n = 2^k
    BY <1>2 DEF is_power_of_2
  <2>3. n \in Nat
    BY <1>0
  <2>4. \A k \in Bits : 2^k >= n => roundup_pow_of_two(n) <= 2^k
    BY <1>0, <2>1, <2>3
  <2>5. roundup_pow_of_two(n) >= n /\ \E k \in Bits : roundup_pow_of_two(n) = 2^k
    BY <2>1, <2>2, <2>3
  <2> QED BY <2>4, <2>5
<1>3. CASE n # 0 /\ ~is_power_of_2(n)
  <2> DEFINE m == Cardinality({k \in Bits : n \div 2^k > 0})
  <2>1. roundup_pow_of_two(n) = 2^m
    BY <1>3 DEF roundup_pow_of_two
  <2>2. n \in 1 .. 2^(Width - 1) /\ n \in Nat
    BY <1>0, <1>3
  <2>3. m \in 1 .. Width /\ 2^(m - 1) <= n /\ n < 2^m
    BY <2>2, BitLength
  <2> HIDE DEF m
  <2>4. \A k \in Bits : n # 2^k
    BY <1>3 DEF is_power_of_2
  <2>5. m # Width
    BY <1>0, <2>2, <2>3, <2>4
  <2>6. m \in Bits
    BY <1>0, <2>3, <2>5
  <2>7. ASSUME NEW k \in Bits, 2^k >= n PROVE 2^m <= 2^k
    <3>1. k >= m
      <4> SUFFICES ASSUME k < m PROVE FALSE
        BY <1>0, <2>6
      <4>1. k = m - 1 \/ k < m - 1
        BY <1>0, <2>3
      <4>2. 2^k <= 2^(m - 1)
        <5>1. m - 1 \in 0 .. Width /\ k \in 0 .. Width
          BY <1>0, <2>3
        <5> QED BY <1>0, <4>1, <5>1, PowerGrows
      <4>3. 2^k \in Nat /\ 2^(m - 1) \in Nat
        BY <1>0, <2>6, <2>3
      <4> QED BY <2>2, <2>3, <2>4, <2>7, <4>2, <4>3
    <3>2. k = m \/ m < k
      BY <1>0, <2>6, <3>1
    <3> QED BY <1>0, <2>6, <3>2, PowerGrows
  <2>8. 2^m \in Nat
    BY <1>0, <2>3
  <2> QED BY <2>1, <2>2, <2>3, <2>6, <2>7, <2>8
<1> QED BY <1>1, <1>2, <1>3

-----------------------------------------------------------------------------
(* The ring.  The indices are never more than size apart, and size divides   *)
(* the range of an unsigned int: that is why rounding to a power of two is   *)
(* needed once the indices wrap.                                             *)
RingInv ==
  /\ want \in Sizes /\ size = roundup_pow_of_two(want)
  /\ DOMAIN buffer = 0 .. size - 1
  /\ in \in 0 .. W - 1 /\ out \in 0 .. W - 1
  /\ kfifo_len <= size

LEMMA SizeFacts ==
  ASSUME want \in Sizes, size = roundup_pow_of_two(want)
  PROVE  /\ size \in Nat \ {0} /\ W \in Nat \ {0} /\ size < W
         /\ \E m \in Nat \ {0} : W = size * m
<1>0. Width \in Nat \ {0} /\ want \in 0 .. 2^(Width - 1)
  BY FifoAssumption
<1>1. PICK k \in Bits : size = 2^k
  BY <1>0, RoundupExact
<1>2. k \in 0 .. Width - 1 /\ k \in 0 .. Width /\ Width - 1 \in 0 .. Width - 1
      /\ Width - 1 \in 0 .. Width /\ (Width - 1) + 1 = Width /\ Width \in 0 .. Width
  BY <1>0, <1>1 DEF Bits
<1>3. size \in Nat \ {0} /\ W \in Nat \ {0} /\ 2^(Width - 1) \in Nat \ {0}
  BY <1>1, <1>2, PowerType DEF W
<1>4. W = 2 * 2^(Width - 1)
  <2>1. 2^((Width - 1) + 1) = 2 * 2^(Width - 1)
    BY <1>2, PowersOfTwo
  <2> QED BY <1>2, <2>1 DEF W
<1>5. PICK m \in Nat \ {0} : 2^(Width - 1) = m * size
  BY <1>1, <1>2, PowerDivides, Zenon
<1>6. W = size * (2 * m) /\ 2 * m \in Nat \ {0}
  BY <1>3, <1>4, <1>5
<1>7. size < W
  BY <1>3, <1>4, <1>5
<1> QED BY <1>3, <1>6, <1>7

LEMMA MinPair == ASSUME NEW a \in Int, NEW b \in Int PROVE Min({a, b}) = IF a <= b THEN a ELSE b
BY DEF Min

(* The fill of the ring, its room, and where its bytes are.                  *)
LEMMA Fill ==
  ASSUME RingInv
  PROVE  /\ kfifo_len \in 0 .. size
         /\ Uint(size - in + out) = size - kfifo_len
         /\ \A d \in Int : (in + d) % size = (out + kfifo_len + d) % size
<1> DEFINE L == kfifo_len
           z == (in - out) \div W
<1>0. /\ size \in Nat \ {0} /\ W \in Nat \ {0} /\ size < W /\ in \in 0 .. W - 1 /\ out \in 0 .. W - 1
      /\ \E m \in Nat \ {0} : W = size * m
  BY SizeFacts DEF RingInv
<1>1. L \in 0 .. W - 1 /\ z \in Int /\ in - out = W * z + L
  <2>1. in - out \in Int
    BY <1>0
  <2> QED BY <1>0, <2>1, ModBasic, Zenon DEF kfifo_len, Uint
<1>2. L \in 0 .. size
  BY <1>0, <1>1 DEF RingInv
<1> HIDE DEF L, z
<1>3. Uint(size - in + out) = size - L
  <2>1. size - in + out = W * (-z) + (size - L) /\ size - L \in 0 .. W - 1 /\ -z \in Int
    BY <1>0, <1>1, <1>2
  <2>2. (W * (-z) + (size - L)) % W = size - L
    BY <1>0, <2>1, ModUnique, Zenon
  <2> QED BY <2>1, <2>2 DEF Uint
<1>4. ASSUME NEW d \in Int PROVE (in + d) % size = (out + L + d) % size
  <2>1. PICK m \in Nat \ {0} : W = size * m
    BY <1>0
  <2>2. in + d = (out + L + d) + size * (m * z) /\ m * z \in Int /\ out + L + d \in Int
    <3>1. W * z = size * (m * z) /\ m * z \in Int
      BY <1>0, <1>1, <2>1
    <3> QED BY <1>0, <1>1, <3>1
  <2>3. ((out + L + d) + size * (m * z)) % size = (out + L + d) % size
    BY <1>0, <2>2, ModShift, Zenon
  <2> QED BY <2>2, <2>3
<1> QED BY <1>2, <1>3, <1>4 DEF L

(* The contents of the ring as a sequence.                                   *)
LEMMA ContentsSeq ==
  ASSUME RingInv
  PROVE  /\ Contents \in Seq({buffer[i] : i \in 0 .. size - 1}) /\ Len(Contents) = kfifo_len
         /\ \A k \in 1 .. kfifo_len : Contents[k] = buffer[(out + k - 1) % size]
<1>0. size \in Nat \ {0} /\ out \in 0 .. W - 1 /\ W \in Nat /\ kfifo_len \in 0 .. size
  BY SizeFacts, Fill DEF RingInv
<1>1. \A k \in 1 .. kfifo_len : (out + k - 1) % size \in 0 .. size - 1
  <2>1. ASSUME NEW k \in 1 .. kfifo_len PROVE (out + k - 1) % size \in 0 .. size - 1
    <3>1. out + k - 1 \in Int
      BY <1>0
    <3> QED BY <1>0, <3>1, ModBasic
  <2> QED BY <2>1
<1> QED BY <1>0, <1>1 DEF Contents

(* Put, as __kfifo_put computes it: n bytes in two pieces, the first l of    *)
(* them up to the end of the buffer.                                         *)
LEMMA PutBytes ==
  ASSUME RingInv, NEW data \in Data, Put(data)
  PROVE  LET n == Room(Len(data)) IN
         /\ n = (IF Len(data) <= size - kfifo_len THEN Len(data) ELSE size - kfifo_len)
         /\ n \in 0 .. Len(data) /\ kfifo_len + n <= size
         /\ in' \in 0 .. W - 1 /\ kfifo_len' = kfifo_len + n
         /\ \A d \in 0 .. n - 1 : buffer'[(out + kfifo_len + d) % size] = data[d + 1]
         /\ \A k \in 0 .. kfifo_len - 1 : buffer'[(out + k) % size] = buffer[(out + k) % size]
<1> DEFINE L == kfifo_len
           n == Room(Len(data))
           l == Before(in, n)
           b == in % size
           pos(d) == (in + d) % size
<1>0. /\ size \in Nat \ {0} /\ W \in Nat \ {0} /\ size < W /\ in \in 0 .. W - 1 /\ out \in 0 .. W - 1
      /\ L \in 0 .. size /\ Len(data) \in Nat
  BY SizeFacts, Fill DEF RingInv, Data
<1>1. n = (IF Len(data) <= size - L THEN Len(data) ELSE size - L)
  <2>1. n = Min({Len(data), size - L})
    BY Fill DEF Room
  <2> QED BY <1>0, <2>1, MinPair
<1>2. n \in 0 .. Len(data) /\ L + n <= size
  BY <1>0, <1>1
<1>3. b \in 0 .. size - 1
  BY <1>0, ModBasic
<1>4. l = IF n <= size - b THEN n ELSE size - b
  <2>1. l = Min({n, size - b})
    BY DEF Before
  <2>2. n \in Int /\ size - b \in Int
    BY <1>0, <1>2, <1>3
  <2> HIDE DEF n, b, l
  <2> QED BY <2>1, <2>2, MinPair
<1>5. /\ in' = Uint(in + n) /\ out' = out /\ size' = size
      /\ \A i \in 0 .. size - 1 : buffer'[i] = IF i - b \in 0 .. l - 1 THEN data[i - b + 1]
                                            ELSE IF i \in 0 .. n - l - 1 THEN data[l + i + 1]
                                            ELSE buffer[i]
  BY DEF Put
<1> HIDE DEF n, l, b, L
<1>6. in' \in 0 .. W - 1 /\ kfifo_len' = L + n
  <2> DEFINE z1 == (in - out) \div W
             z2 == (in + n) \div W
             y == z1 - z2
  <2>1. in - out \in Int /\ in + n \in Int
    BY <1>0, <1>2
  <2>2. z1 \in Int /\ in - out = W * z1 + L
    BY <1>0, <2>1, ModBasic DEF kfifo_len, Uint, L
  <2>3. in' \in 0 .. W - 1 /\ z2 \in Int /\ in + n = W * z2 + in'
    BY <1>0, <1>5, <2>1, ModBasic, Zenon DEF Uint
  <2>4. in' - out = W * y + (L + n) /\ y \in Int /\ L + n \in 0 .. W - 1
    <3> HIDE DEF z1, z2
    <3>1. W * y = W * z1 - W * z2
      BY <1>0, <2>2, <2>3
    <3> HIDE DEF y
    <3>2. W * z1 \in Int /\ W * z2 \in Int
      BY <1>0, <2>2, <2>3
    <3> DEFINE p1 == W * z1
               p2 == W * z2
               p3 == W * y
    <3>3. p1 \in Int /\ p2 \in Int /\ p3 = p1 - p2 /\ in - out = p1 + L /\ in + n = p2 + in'
      BY <2>2, <2>3, <3>1, <3>2
    <3>4. in \in Int /\ out \in Int /\ in' \in Int /\ L \in Int /\ n \in Int
      BY <1>0, <1>2, <2>3
    <3> HIDE DEF p1, p2, p3
    <3>8. in' = in + n - p2
      <4>1. PICK j : j = in'
        OBVIOUS
      <4>2. j \in Int /\ in + n = p2 + j
        BY <3>3, <3>4, <4>1, Zenon
      <4>3. j = in + n - p2
        BY <3>3, <3>4, <4>2
      <4> QED BY <4>1, <4>3
    <3>9. in = out + p1 + L
      BY <3>3, <3>4
    <3>5. in' - out = p3 + (L + n)
      BY <3>3, <3>4, <3>8, <3>9
    <3>6. y \in Int
      BY <2>2, <2>3 DEF y
    <3>7. L + n \in 0 .. W - 1
      BY <1>0, <1>2
    <3> QED BY <3>5, <3>6, <3>7 DEF p3
  <2> HIDE DEF y
  <2>5. (W * y + (L + n)) % W = L + n
    <3> DEFINE r == L + n
    <3>1. r \in 0 .. W - 1
      BY <2>4
    <3> HIDE DEF r
    <3>2. (W * y + r) % W = r
      BY <1>0, <2>4, <3>1, ModUnique
    <3> QED BY <3>2 DEF r
  <2>6. kfifo_len' = (in' - out) % W
    BY <1>5 DEF kfifo_len, Uint, W
  <2> QED BY <2>3, <2>4, <2>5, <2>6
<1>7. ASSUME NEW d \in 0 .. n - 1
      PROVE  pos(d) = IF b + d < size THEN b + d ELSE b + d - size
  <2>1. d \in 0 .. size - 1 /\ in \in Int
    BY <1>0, <1>2
  <2> QED BY <1>0, <2>1, ModAdd, Zenon DEF b
<1>10. \A d \in Int : pos(d) = (out + L + d) % size
  BY Fill DEF L
<1> HIDE DEF pos
<1>8. ASSUME NEW d \in 0 .. n - 1 PROVE buffer'[pos(d)] = data[d + 1]
  <2>1. CASE b + d < size
    <3>1. pos(d) = b + d /\ b + d \in 0 .. size - 1 /\ (b + d) - b = d /\ d \in 0 .. l - 1
      BY <1>0, <1>2, <1>3, <1>4, <1>7, <2>1
    <3> QED BY <1>5, <3>1
  <2>2. CASE ~(b + d < size)
    <3> DEFINE i == b + d - size
    <3>1. /\ pos(d) = i /\ i \in 0 .. size - 1 /\ ~(i - b \in 0 .. l - 1) /\ i \in 0 .. n - l - 1
          /\ l + i + 1 = d + 1
      BY <1>0, <1>2, <1>3, <1>4, <1>7, <2>2
    <3> QED BY <1>5, <3>1
  <2> QED BY <2>1, <2>2
<1>9. \A i \in 0 .. size - 1 : buffer'[i] = buffer[i] \/ \E d \in 0 .. n - 1 : i = pos(d)
  <2>1. ASSUME NEW i \in 0 .. size - 1, i - b \in 0 .. l - 1 PROVE \E d \in 0 .. n - 1 : i = pos(d)
    <3>1. i - b \in 0 .. n - 1 /\ b + (i - b) = i /\ b + (i - b) < size
      BY <1>0, <1>2, <1>3, <1>4, <2>1
    <3> QED BY <1>7, <3>1
  <2>2. ASSUME NEW i \in 0 .. size - 1, i \in 0 .. n - l - 1 PROVE \E d \in 0 .. n - 1 : i = pos(d)
    <3>1. l = size - b /\ l + i \in 0 .. n - 1 /\ ~(b + (l + i) < size) /\ b + (l + i) - size = i
      BY <1>0, <1>2, <1>3, <1>4, <2>2
    <3> QED BY <1>7, <3>1
  <2> QED BY <1>5, <2>1, <2>2
<1>11. ASSUME NEW k \in 0 .. L - 1 PROVE buffer'[(out + k) % size] = buffer[(out + k) % size]
  <2>1. out + k \in Int /\ (out + k) % size \in 0 .. size - 1
    <3>1. out + k \in Int
      BY <1>0
    <3> QED BY <1>0, <3>1, ModBasic
  <2>2. ASSUME NEW d \in 0 .. n - 1 PROVE (out + k) % size # pos(d)
    <3> DEFINE a == out + k
               e == L + d - k
    <3>1. a \in Int /\ e \in 1 .. size - 1 /\ out + L + d = a + e /\ d \in Int
      BY <1>0, <1>2, <2>1
    <3>2. pos(d) = (a + e) % size
      BY <1>10, <3>1
    <3> HIDE DEF a, e
    <3>3. (a + e) % size # a % size
      BY <1>0, <3>1, ModDistinct, Zenon
    <3> QED BY <3>2, <3>3 DEF a
  <2> QED BY <1>9, <2>1, <2>2
<1>12. \A d \in 0 .. n - 1 : buffer'[(out + L + d) % size] = data[d + 1]
  <2>1. \A d \in 0 .. n - 1 : d \in Int
    BY <1>2
  <2> QED BY <1>8, <1>10, <2>1
<1> QED BY <1>1, <1>2, <1>6, <1>11, <1>12 DEF L, n

LEMMA DataSeq == ASSUME NEW data \in Data PROVE data \in Seq(Byte) /\ Len(data) \in 1 .. MaxLen
<1>1. PICK m \in 1 .. MaxLen : data \in [1 .. m -> Byte]
  BY DEF Data
<1>2. m \in Nat /\ MaxLen \in Nat
  BY FifoAssumption
<1>3. data \in Seq(Byte) /\ Len(data) = m
  BY <1>1, <1>2
<1> QED BY <1>3

LEMMA ConcatElements ==
  ASSUME NEW S, NEW T, NEW a \in Seq(S), NEW b \in Seq(T)
  PROVE  /\ a \o b = [k \in 1 .. Len(a) + Len(b) |-> (a \o b)[k]]
         /\ \A k \in 1 .. Len(a) : (a \o b)[k] = a[k]
         /\ \A k \in Len(a) + 1 .. Len(a) + Len(b) : (a \o b)[k] = b[k - Len(a)]
<1> DEFINE U == S \cup T
           c == a \o b
<1>1. a \in Seq(U) /\ b \in Seq(U)
  BY SeqMonotonic
<1>2. Len(a) \in Nat /\ Len(b) \in Nat
  BY LenProperties
<1> HIDE DEF U
<1>3. /\ c \in Seq(U) /\ Len(c) = Len(a) + Len(b)
      /\ \A i \in 1 .. Len(a) + Len(b) : c[i] = IF i <= Len(a) THEN a[i] ELSE b[i - Len(a)]
  BY <1>1, ConcatProperties
<1> HIDE DEF c
<1>4. c \in [1 .. Len(c) -> U]
  BY <1>3, LenProperties
<1>5. c = [k \in 1 .. Len(a) + Len(b) |-> c[k]]
  BY <1>3, <1>4
<1>6. \A k \in 1 .. Len(a) : k \in 1 .. Len(a) + Len(b) /\ k <= Len(a)
  BY <1>2
<1>7. \A k \in Len(a) + 1 .. Len(a) + Len(b) : k \in 1 .. Len(a) + Len(b) /\ ~(k <= Len(a))
  BY <1>2
<1> QED BY <1>3, <1>5, <1>6, <1>7 DEF c

(* A put appends the longest prefix of its data that fits.                   *)
LEMMA PutStep ==
  ASSUME RingInv, NEW data \in Data, Put(data)
  PROVE  RingInv' /\ Queue!Write(data)
<1> DEFINE L == kfifo_len
           n == Room(Len(data))
<1>0. /\ size \in Nat \ {0} /\ L \in 0 .. size /\ Len(data) \in Nat
      /\ data \in Seq(Byte) /\ out \in Nat
  BY SizeFacts, Fill, DataSeq DEF RingInv
<1>1. /\ n = (IF Len(data) <= size - L THEN Len(data) ELSE size - L)
      /\ n \in 0 .. Len(data) /\ L + n <= size
      /\ in' \in 0 .. W - 1 /\ kfifo_len' = L + n
      /\ \A d \in 0 .. n - 1 : buffer'[(out + L + d) % size] = data[d + 1]
      /\ \A k \in 0 .. L - 1 : buffer'[(out + k) % size] = buffer[(out + k) % size]
  BY PutBytes
<1>2. /\ DOMAIN buffer' = 0 .. size - 1 /\ ret' = n /\ "w" \in ends
      /\ UNCHANGED <<want, size, out, got, ends>>
  BY DEF Put, Usable
<1>3. RingInv'
  <2>1. roundup_pow_of_two(want)' = roundup_pow_of_two(want)
    BY <1>2 DEF roundup_pow_of_two, is_power_of_2, Bits
  <2> QED BY <1>1, <1>2, <2>1 DEF RingInv, W
<1>4. /\ Len(Contents) = L /\ Contents \in Seq({buffer[i] : i \in 0 .. size - 1})
      /\ \A k \in 1 .. L : Contents[k] = buffer[(out + k - 1) % size]
  BY ContentsSeq
<1>5. n = Queue!Min({Len(data), size - Len(Contents)})
  <2> HIDE DEF n, L
  <2>1. Len(data) \in Int /\ size - L \in Int
    BY <1>0
  <2> QED BY <1>1, <1>4, <2>1 DEF Queue!Min
<1> HIDE DEF n, L
<1>6. Contents' = Contents \o SubSeq(data, 1, n)
  <2> DEFINE s == Contents \o SubSeq(data, 1, n)
  <2>1. Contents' = [k \in 1 .. L + n |-> buffer'[(out + k - 1) % size]]
    BY <1>1, <1>2 DEF Contents
  <2>2. SubSeq(data, 1, n) \in Seq(Byte) /\ Len(SubSeq(data, 1, n)) = n
        /\ \A k \in 1 .. n : SubSeq(data, 1, n)[k] = data[k]
    BY <1>0, <1>1
  <2>3. /\ s = [k \in 1 .. L + n |-> s[k]]
        /\ \A k \in 1 .. L : s[k] = Contents[k]
        /\ \A k \in L + 1 .. L + n : s[k] = data[k - L]
    <3> DEFINE c == Contents
               e == SubSeq(data, 1, n)
    <3> HIDE DEF c, e
    <3>1. c \in Seq({buffer[i] : i \in 0 .. size - 1}) /\ e \in Seq(Byte) /\ Len(c) = L /\ Len(e) = n
      BY <1>4, <2>2 DEF c, e
    <3> DEFINE V == {buffer[i] : i \in 0 .. size - 1}
    <3> HIDE DEF V
    <3>4. c \in Seq(V)
      BY <3>1 DEF V
    <3>2. /\ c \o e = [k \in 1 .. L + n |-> (c \o e)[k]]
          /\ \A k \in 1 .. L : (c \o e)[k] = c[k]
          /\ \A k \in L + 1 .. L + n : (c \o e)[k] = e[k - L]
      <4>1. /\ c \o e = [k \in 1 .. Len(c) + Len(e) |-> (c \o e)[k]]
            /\ \A k \in 1 .. Len(c) : (c \o e)[k] = c[k]
            /\ \A k \in Len(c) + 1 .. Len(c) + Len(e) : (c \o e)[k] = e[k - Len(c)]
        <5>1. e \in Seq(Byte)
          BY <3>1
        <5> QED BY <3>4, <5>1, ConcatElements
      <4> QED BY <3>1, <4>1
    <3>3. \A k \in L + 1 .. L + n : k - L \in 1 .. n
      BY <1>0, <1>1
    <3> QED BY <2>2, <3>2, <3>3, Zenon DEF c, e
  <2>4. ASSUME NEW k \in 1 .. L PROVE buffer'[(out + k - 1) % size] = s[k]
    <3>1. k - 1 \in 0 .. L - 1 /\ out + (k - 1) = out + k - 1
      BY <1>0
    <3> QED BY <1>1, <1>4, <2>3, <3>1, Zenon
  <2>5. ASSUME NEW k \in L + 1 .. L + n PROVE buffer'[(out + k - 1) % size] = s[k]
    <3>1. k - L - 1 \in 0 .. n - 1 /\ out + L + (k - L - 1) = out + k - 1 /\ (k - L - 1) + 1 = k - L
      BY <1>0, <1>1
    <3> QED BY <1>1, <2>3, <3>1, ZenonT(40)
  <2>6. \A k \in 1 .. L + n : k \in 1 .. L \/ k \in L + 1 .. L + n
    BY <1>0, <1>1
  <2> HIDE DEF s
  <2>7. Contents' = s
    BY <2>1, <2>3, <2>4, <2>5, <2>6, Zenon
  <2> QED BY <2>7 DEF s
<1> QED BY <1>2, <1>3, <1>5, <1>6 DEF Queue!Write

(* out advanced by n of the bytes in the ring: the fill that is left, and    *)
(* the places of the bytes that are left.                                    *)
LEMMA Advance ==
  ASSUME RingInv, NEW n \in 0 .. kfifo_len
  PROVE  LET o == Uint(out + n) IN
         /\ o \in 0 .. W - 1 /\ Uint(in - o) = kfifo_len - n
         /\ \A d \in Int : (o + d) % size = (out + n + d) % size
         /\ (in = o) <=> (n = kfifo_len)
<1> DEFINE L == kfifo_len
           o == Uint(out + n)
           z1 == (in - out) \div W
           z2 == (out + n) \div W
           y == z1 + z2
<1>0. /\ size \in Nat \ {0} /\ W \in Nat \ {0} /\ size < W /\ in \in 0 .. W - 1 /\ out \in 0 .. W - 1
      /\ L \in 0 .. size /\ n \in 0 .. L
  BY SizeFacts, Fill DEF RingInv
<1>1. in - out \in Int /\ out + n \in Int
  BY <1>0
<1>2. z1 \in Int /\ in - out = W * z1 + L
  BY <1>0, <1>1, ModBasic DEF kfifo_len, Uint
<1>3. o \in 0 .. W - 1 /\ z2 \in Int /\ out + n = W * z2 + o
  BY <1>0, <1>1, ModBasic, Zenon DEF Uint
<1> HIDE DEF o, L, z1, z2
<1>4. in - o = W * y + (L - n) /\ y \in Int /\ L - n \in 0 .. W - 1
  <2> DEFINE p1 == W * z1
             p2 == W * z2
             p3 == W * y
  <2>1. W * y = W * z1 + W * z2 /\ W * z1 \in Int /\ W * z2 \in Int
    BY <1>0, <1>2, <1>3
  <2>2. p1 \in Int /\ p2 \in Int /\ p3 = p1 + p2 /\ in - out = p1 + L /\ out + n = p2 + o
    BY <1>2, <1>3, <2>1
  <2>3. in \in Int /\ out \in Int /\ o \in Int /\ L \in Int /\ n \in Int
    BY <1>0, <1>3
  <2> HIDE DEF p1, p2, p3
  <2>4. o = out + n - p2
    BY <2>2, <2>3
  <2>5. in - o = p3 + (L - n)
    BY <2>2, <2>3, <2>4
  <2>6. y \in Int
    BY <1>2, <1>3
  <2>7. L - n \in 0 .. W - 1
    BY <1>0
  <2> QED BY <2>5, <2>6, <2>7 DEF p3
<1>5. Uint(in - o) = L - n
  <2> DEFINE r == L - n
  <2>1. r \in 0 .. W - 1
    BY <1>4
  <2> HIDE DEF r, y
  <2>2. (W * y + r) % W = r
    BY <1>0, <1>4, <2>1, ModUnique
  <2> QED BY <1>4, <2>2 DEF Uint, r
<1>6. (in = o) <=> (n = L)
  <2>1. CASE in = o
    <3>1. Uint(in - o) = 0
      BY <1>0, <1>3, <2>1 DEF Uint
    <3> QED BY <1>0, <1>5, <2>1, <3>1
  <2>2. CASE in # o
    <3>1. (in - o) % W # 0
      <4>1. CASE in > o
        BY <1>0, <1>3, <4>1
      <4>2. CASE in < o
        <5> DEFINE e == in - o + W
        <5>1. e \in 1 .. W - 1 /\ in - o = W * (-1) + e
          BY <1>0, <1>3, <4>2
        <5> HIDE DEF e
        <5>2. e \in 0 .. W - 1 /\ -1 \in Int
          BY <1>0, <5>1
        <5>3. (W * (-1) + e) % W = e
          BY <1>0, <5>2, ModUnique
        <5> QED BY <1>0, <5>1, <5>3
      <4> QED BY <1>0, <1>3, <2>2, <4>1, <4>2
    <3> QED BY <1>0, <1>5, <2>2, <3>1 DEF Uint
  <2> QED BY <2>1, <2>2
<1>7. ASSUME NEW d \in Int PROVE (o + d) % size = (out + n + d) % size
  <2>1. PICK m \in Nat \ {0} : W = size * m
    BY SizeFacts DEF RingInv
  <2> DEFINE a == o + d
             z == m * z2
  <2>2. a \in Int /\ z \in Int
    BY <1>0, <1>3, <2>1
  <2>3. W * z2 = size * z
    BY <1>0, <1>3, <2>1
  <2>4. out + n + d = a + size * z
    <3>1. size * z \in Int
      BY <1>0, <2>2
    <3> HIDE DEF z
    <3>2. out + n = size * z + o
      BY <1>3, <2>3
    <3> DEFINE x == size * z
    <3>3. x \in Int /\ out + n = x + o
      BY <3>1, <3>2
    <3> HIDE DEF x
    <3>4. out + n + d = o + d + x
      BY <1>0, <1>3, <3>3
    <3> QED BY <3>4 DEF x
  <2> HIDE DEF a, z
  <2>5. (a + size * z) % size = a % size
    BY <1>0, <2>2, ModShift, Zenon
  <2> QED BY <2>4, <2>5 DEF a
<1> QED BY <1>3, <1>5, <1>6, <1>7 DEF o, L

LEMMA RoundupFixed == ASSUME UNCHANGED want PROVE roundup_pow_of_two(want)' = roundup_pow_of_two(want)
BY DEF roundup_pow_of_two, is_power_of_2, Bits

(* A get takes the oldest bytes, in two pieces, the first l of them up to    *)
(* the end of the buffer; an emptied ring starts again at index 0.           *)
LEMMA GetStep ==
  ASSUME RingInv, NEW len \in 1 .. MaxLen, Get(len)
  PROVE  RingInv' /\ Queue!Read(len)
<1> DEFINE L == kfifo_len
           n == Min({len, L})
           l == Before(out, n)
           b == out % size
           o == Uint(out + n)
<1>0. /\ size \in Nat \ {0} /\ W \in Nat \ {0} /\ size < W /\ L \in 0 .. size /\ len \in Nat
      /\ out \in 0 .. W - 1
  BY SizeFacts, Fill, FifoAssumption DEF RingInv
<1>1. n = (IF len <= L THEN len ELSE L) /\ n \in 0 .. L
  <2> HIDE DEF L
  <2>1. n = IF len <= L THEN len ELSE L
    BY <1>0, MinPair
  <2> QED BY <1>0, <2>1
<1>2. b \in 0 .. size - 1
  BY <1>0, ModBasic
<1>3. l = IF n <= size - b THEN n ELSE size - b
  <2>1. l = Min({n, size - b})
    BY DEF Before
  <2>2. n \in Int /\ size - b \in Int
    BY <1>0, <1>1, <1>2
  <2> HIDE DEF n, b, l
  <2> QED BY <2>1, <2>2, MinPair
<1>4. /\ "r" \in ends /\ ret' = n /\ UNCHANGED <<want, size, buffer, ends>>
      /\ got' = [k \in 1 .. n |-> IF k <= l THEN buffer[b + k - 1] ELSE buffer[k - l - 1]]
      /\ in' = Rewound(in, o)[1] /\ out' = Rewound(in, o)[2]
  BY DEF Get, Usable
<1>5. /\ o \in 0 .. W - 1 /\ Uint(in - o) = L - n
      /\ \A d \in Int : (o + d) % size = (out + n + d) % size
      /\ (in = o) <=> (n = L)
  BY <1>1, Advance, Zenon
<1>6. /\ Len(Contents) = L /\ Contents \in Seq({buffer[i] : i \in 0 .. size - 1})
      /\ \A k \in 1 .. L : Contents[k] = buffer[(out + k - 1) % size]
  BY ContentsSeq
<1>7. n = Queue!Min({len, Len(Contents)})
  <2> HIDE DEF L
  <2>1. len \in Int /\ L \in Int
    BY <1>0
  <2> QED BY <1>1, <1>6, <2>1 DEF Queue!Min
<1> HIDE DEF L, n, l, b, o
<1>8. ASSUME NEW m \in Nat, NEW k \in Nat, m + k <= L
      PROVE  /\ SubSeq(Contents, m + 1, m + k) = [j \in 1 .. k |-> Contents[m + j]]
             /\ \A j \in 1 .. k : Contents[m + j] = buffer[(out + m + j - 1) % size]
  <2>1. \A j \in 1 .. k : m + j \in 1 .. L /\ out + (m + j) - 1 = out + m + j - 1
    BY <1>0, <1>8
  <2>2. \A j \in 1 .. k : Contents[m + j] = buffer[(out + m + j - 1) % size]
    BY <1>6, <2>1
  <2>3. SubSeq(Contents, m + 1, m + k) = [j \in 1 .. k |-> Contents[m + j]]
    <3> DEFINE c == Contents
               V == {buffer[i] : i \in 0 .. size - 1}
    <3>1. c \in Seq(V) /\ Len(c) = L
      BY <1>6
    <3> HIDE DEF c, V
    <3>2. c \in [1 .. L -> V]
      BY <3>1, LenProperties
    <3>3. \A i \in m + 1 .. m + k : c[i] \in V
      BY <1>0, <1>8, <3>2
    <3> DEFINE s == SubSeq(c, m + 1, m + k)
    <3>4. /\ s \in Seq(V) /\ Len(s) = k
          /\ \A i \in 1 .. k : s[i] = c[m + i]
      BY <1>0, <1>8, <3>1, <3>3
    <3> HIDE DEF s
    <3>5. s \in [1 .. k -> V]
      BY <3>4, LenProperties
    <3>6. s = [j \in 1 .. k |-> c[m + j]]
      BY <3>4, <3>5
    <3> QED BY <3>6 DEF s, c
  <2> QED BY <2>2, <2>3
<1>9. got' = SubSeq(Contents, 1, n)
  <2>1. /\ SubSeq(Contents, 1, n) = [j \in 1 .. n |-> Contents[j]]
        /\ \A j \in 1 .. n : Contents[j] = buffer[(out + j - 1) % size]
    <3>1. n \in Nat /\ 0 \in Nat /\ 0 + n <= L /\ 0 + n = n /\ 0 + 1 = 1
      BY <1>0, <1>1
    <3>2. /\ SubSeq(Contents, 0 + 1, 0 + n) = [j \in 1 .. n |-> Contents[0 + j]]
          /\ \A j \in 1 .. n : Contents[0 + j] = buffer[(out + 0 + j - 1) % size]
      BY <1>8, <3>1
    <3>3. \A j \in 1 .. n : 0 + j = j /\ out + 0 + j - 1 = out + j - 1
      BY <1>0, <3>1
    <3> QED BY <3>1, <3>2, <3>3
  <2>2. ASSUME NEW k \in 1 .. n
        PROVE  (out + k - 1) % size = IF k <= l THEN b + k - 1 ELSE k - l - 1
    <3> DEFINE d == k - 1
    <3>1. d \in 0 .. size - 1 /\ out \in Int /\ out + d = out + k - 1
      BY <1>0, <1>1
    <3> HIDE DEF d
    <3>2. (out + d) % size = IF b + d < size THEN b + d ELSE b + d - size
      BY <1>0, <3>1, ModAdd, Zenon DEF b
    <3>3. (out + k - 1) % size = IF b + d < size THEN b + d ELSE b + d - size
      BY <3>1, <3>2
    <3> QED BY <1>0, <1>1, <1>2, <1>3, <3>3 DEF d
  <2>3. \A k \in 1 .. n : (IF k <= l THEN buffer[b + k - 1] ELSE buffer[k - l - 1]) = Contents[k]
    BY <2>1, <2>2
  <2> QED BY <1>4, <2>1, <2>3
<1>10. CASE n = L
  <2>1. in' = 0 /\ out' = 0
    BY <1>4, <1>5, <1>10 DEF Rewound
  <2>2. kfifo_len' = 0 /\ 0 \in 0 .. W - 1
    BY <1>0, <2>1 DEF kfifo_len, Uint, W
  <2>3. RingInv'
    BY <1>0, <1>4, <2>1, <2>2, RoundupFixed DEF RingInv, W
  <2>4. Contents' = <<>>
    BY <2>2 DEF Contents
  <2>5. SubSeq(Contents, n + 1, L) = <<>>
    BY <1>0, <1>1, <1>10
  <2> QED BY <1>4, <1>6, <1>7, <1>9, <2>3, <2>4, <2>5, Zenon DEF Queue!Read
<1>11. CASE n # L
  <2>1. in' = in /\ out' = o
    BY <1>4, <1>5, <1>11 DEF Rewound
  <2>2. kfifo_len' = L - n
    BY <1>5, <2>1 DEF kfifo_len, Uint, W
  <2>3. RingInv'
    <3>1. L - n <= size
      BY <1>0, <1>1
    <3> QED BY <1>4, <1>5, <2>1, <2>2, <3>1, RoundupFixed DEF RingInv, W
  <2>4. Contents' = [k \in 1 .. L - n |-> buffer[(o + k - 1) % size]]
    BY <1>4, <2>1, <2>2 DEF Contents
  <2>5. /\ SubSeq(Contents, n + 1, L) = [j \in 1 .. L - n |-> Contents[n + j]]
        /\ \A j \in 1 .. L - n : Contents[n + j] = buffer[(out + n + j - 1) % size]
    <3> DEFINE k == L - n
    <3>1. n \in Nat /\ k \in Nat /\ n + k <= L /\ n + k = L
      BY <1>0, <1>1
    <3> HIDE DEF k
    <3>2. /\ SubSeq(Contents, n + 1, n + k) = [j \in 1 .. k |-> Contents[n + j]]
          /\ \A j \in 1 .. k : Contents[n + j] = buffer[(out + n + j - 1) % size]
      BY <1>8, <3>1, Zenon
    <3> QED BY <3>1, <3>2 DEF k
  <2>6. ASSUME NEW k \in 1 .. L - n PROVE (o + k - 1) % size = (out + n + k - 1) % size
    <3>1. k - 1 \in Int /\ o + (k - 1) = o + k - 1 /\ out + n + (k - 1) = out + n + k - 1
      BY <1>0, <1>1, <1>5
    <3> QED BY <1>5, <3>1
  <2>7. Contents' = SubSeq(Contents, n + 1, L)
    BY <2>4, <2>5, <2>6
  <2> QED BY <1>4, <1>6, <1>7, <1>9, <2>3, <2>7, ZenonT(40) DEF Queue!Read
<1> QED BY <1>10, <1>11

(* The last close empties the ring, the first one leaves it as it is.        *)
LEMMA CloseStep ==
  ASSUME RingInv, NEW e \in {"r", "w"}, Close(e)
  PROVE  RingInv' /\ Queue!Shut(e)
<1>0. size \in Nat \ {0} /\ W \in Nat \ {0}
  BY SizeFacts DEF RingInv
<1>1. e \in ends /\ ends' = ends \ {e} /\ UNCHANGED <<want, size, got, ret>>
  BY DEF Close
<1>2. CASE ends' = {}
  <2>1. in' = 0 /\ out' = 0 /\ DOMAIN buffer' = 0 .. size - 1
    BY <1>2 DEF Close, RingInv
  <2>2. kfifo_len' = 0 /\ 0 \in 0 .. W - 1
    BY <1>0, <2>1 DEF kfifo_len, Uint, W
  <2>3. RingInv'
    BY <1>0, <1>1, <2>1, <2>2, RoundupFixed DEF RingInv, W
  <2>4. Contents' = <<>>
    BY <2>2 DEF Contents
  <2> QED BY <1>1, <1>2, <2>3, <2>4 DEF Queue!Shut
<1>3. CASE ends' # {}
  <2>1. UNCHANGED <<in, out, buffer>>
    BY <1>3 DEF Close
  <2>2. RingInv' /\ Contents' = Contents
    BY <1>1, <2>1, RoundupFixed DEF RingInv, W, kfifo_len, Uint, Contents
  <2> QED BY <1>1, <1>3, <2>2, Zenon DEF Queue!Shut
<1> QED BY <1>2, <1>3

LEMMA InitRing == ASSUME Init PROVE RingInv /\ Queue!QInit
<1>1. want \in Sizes /\ size = roundup_pow_of_two(want) /\ in = 0 /\ out = 0
      /\ DOMAIN buffer = 0 .. size - 1
  BY DEF Init
<1>2. size \in Nat \ {0} /\ W \in Nat \ {0}
  BY <1>1, SizeFacts
<1>3. kfifo_len = 0
  BY <1>1, <1>2 DEF kfifo_len, Uint
<1>4. RingInv
  BY <1>1, <1>2, <1>3 DEF RingInv
<1>5. Contents = <<>>
  BY <1>3 DEF Contents
<1> QED BY <1>2, <1>4, <1>5 DEF Init, Queue!QInit

LEMMA RingStep ==
  ASSUME RingInv, [Next]_vars
  PROVE  RingInv' /\ [Queue!QNext]_<<size, Contents, got, ret, ends>>
<1>1. ASSUME NEW data \in Data, Put(data)
      PROVE  RingInv' /\ Queue!QNext
  BY <1>1, PutStep DEF Queue!QNext, Queue!Data, Data
<1>2. ASSUME NEW len \in 1 .. MaxLen, Get(len)
      PROVE  RingInv' /\ Queue!QNext
  BY <1>2, GetStep DEF Queue!QNext
<1>3. ASSUME NEW e \in {"r", "w"}, Close(e)
      PROVE  RingInv' /\ Queue!QNext
  BY <1>3, CloseStep DEF Queue!QNext
<1>4. CASE UNCHANGED vars
  <2>1. UNCHANGED <<want, size, buffer, in, out, got, ret, ends>>
    BY <1>4 DEF vars
  <2> QED BY <2>1, RoundupFixed DEF RingInv, W, kfifo_len, Uint, Contents
<1> QED BY <1>1, <1>2, <1>3, <1>4 DEF Next

(* The ring of kfifo.c under the operations of pipe.c implements the bounded *)
(* queue of bytes ByteQueue for every size, every width of its two indices   *)
(* and every length of a call: their wrap at 2^Width never loses, repeats or *)
(* reorders a byte.                                                          *)
THEOREM PipeIsQueue == Spec => IsQueue
<1>1. Init => RingInv /\ Queue!QInit
  BY InitRing
<1>2. RingInv /\ [Next]_vars => RingInv' /\ [Queue!QNext]_<<size, Contents, got, ret, ends>>
  BY RingStep
<1> QED BY <1>1, <1>2, PTL DEF Spec, IsQueue, Queue!QSpec

(* kfifo_alloc gives a ring the least power of two that is not below the     *)
(* size asked for, and no later call changes it.                             *)
THEOREM RingSizeRounded == Spec => []SizeRounded
<1>1. Init => RingInv
  BY InitRing
<1>2. RingInv /\ [Next]_vars => RingInv'
  BY RingStep
<1>3. RingInv => SizeRounded
  <2> SUFFICES ASSUME RingInv PROVE SizeRounded
    OBVIOUS
  <2>1. want \in 0 .. 2^(Width - 1) /\ size = roundup_pow_of_two(want)
    BY FifoAssumption DEF RingInv
  <2> QED BY <2>1, RoundupExact DEF SizeRounded, is_power_of_2
<1> QED BY <1>1, <1>2, <1>3, PTL DEF Spec
=============================================================================
