----------------------------- MODULE CodecProofs -----------------------------
(***************************************************************************)
(* Theorems about Codec: the varint functions undo each other for every    *)
(* word of 64 bits, and for every message of the robot, whatever its       *)
(* values, the decoder finds what was encoded and notices what was lost.   *)
(***************************************************************************)
EXTENDS Codec, SequenceTheorems, WellFoundedInduction, TLAPS

-----------------------------------------------------------------------------
(* Numbers and their bits.                                                 *)

\* A set of numbers has a least member.
LEMMA LeastOf ==
  ASSUME NEW T, T \subseteq Nat, T # {}
  PROVE  \E n \in T : \A m \in T : n <= m
<1>1. PICK n \in T : \A m \in T : ~(<<m, n>> \in OpToRel(<, Nat))
  BY NatLessThanWellFounded, WFMin, Zenon
<1>2. \A m \in T : m \in Nat /\ n \in Nat /\ ~(m < n)
  BY <1>1 DEF OpToRel
<1>3. \A m \in T : n <= m
  BY <1>2
<1>. QED
  BY <1>3, Zenon

\* Induction, for a set of numbers.
LEMMA AllNumbers ==
  ASSUME NEW T, T \subseteq Nat, 0 \in T, \A n \in T : n + 1 \in T
  PROVE  T = Nat
<1>. SUFFICES ASSUME Nat \ T # {} PROVE FALSE
  OBVIOUS
<1>1. PICK n \in Nat \ T : \A m \in Nat \ T : n <= m
  <2>1. Nat \ T \subseteq Nat
    OBVIOUS
  <2>. QED
    BY <2>1, LeastOf
<1>2. n # 0 /\ n - 1 \in Nat
  BY <1>1
<1>3. n - 1 \in T
  BY <1>1, <1>2
<1>4. (n - 1) + 1 = n
  BY <1>1
<1>. QED
  BY <1>1, <1>3, <1>4

\* The powers of two up to 2^16, as numbers.
LEMMA Powers ==
  /\ 2^0 = 1 /\ 2^1 = 2 /\ 2^2 = 4 /\ 2^3 = 8 /\ 2^4 = 16 /\ 2^5 = 32 /\ 2^6 = 64 /\ 2^7 = 128
  /\ 2^8 = 256 /\ 2^9 = 512 /\ 2^10 = 1024 /\ 2^11 = 2048 /\ 2^12 = 4096 /\ 2^13 = 8192
  /\ 2^14 = 16384 /\ 2^15 = 32768 /\ 2^16 = 65536
OBVIOUS

Powers16 == {1, 2, 4, 8, 16, 32, 64, 128, 256, 512, 1024, 2048, 4096, 8192, 16384, 32768}

\* Each of them is twice the one before.
LEMMA PowerOf ==
  ASSUME NEW k \in 1..16
  PROVE  /\ 2^k = 2 * 2^(k-1)
         /\ 2^(k-1) \in Powers16
<1>. DEFINE P(j) == 2^j
<1>1. /\ P(0) = 1 /\ P(1) = 2 /\ P(2) = 4 /\ P(3) = 8 /\ P(4) = 16 /\ P(5) = 32 /\ P(6) = 64
      /\ P(7) = 128 /\ P(8) = 256 /\ P(9) = 512 /\ P(10) = 1024 /\ P(11) = 2048 /\ P(12) = 4096
      /\ P(13) = 8192 /\ P(14) = 16384 /\ P(15) = 32768 /\ P(16) = 65536
  BY Powers
<1>. HIDE DEF P
<1>2. /\ P(k) = 2 * P(k-1)
      /\ P(k-1) \in Powers16
  BY <1>1 DEF Powers16
<1>. QED
  BY <1>2 DEF P

\* Each is a number of Powers16; from 2^4 on they exceed 15.
LEMMA PowersAre ==
  ASSUME NEW b \in 0..15
  PROVE  2^b \in Powers16 /\ (b > 3 => 2^b > 15)
<1>. DEFINE P(j) == 2^j
<1>1. /\ P(0) = 1 /\ P(1) = 2 /\ P(2) = 4 /\ P(3) = 8 /\ P(4) = 16 /\ P(5) = 32 /\ P(6) = 64
      /\ P(7) = 128 /\ P(8) = 256 /\ P(9) = 512 /\ P(10) = 1024 /\ P(11) = 2048 /\ P(12) = 4096
      /\ P(13) = 8192 /\ P(14) = 16384 /\ P(15) = 32768
  BY Powers
<1>. HIDE DEF P
<1>2. P(b) \in Powers16 /\ (b > 3 => P(b) > 15)
  BY <1>1 DEF Powers16
<1>. QED
  BY <1>2 DEF P

\* The lowest numbers have no high bits, and zero has none.
LEMMA LowNumbers ==
  ASSUME NEW n \in 0..15
  PROVE  Bits(n) \subseteq 0..3 /\ (n = 0 => Bits(n) = {})
<1>1. ASSUME NEW b \in 0..15, (n \div 2^b) % 2 = 1 PROVE b \in 0..3 /\ n # 0
  <2>. DEFINE p == 2^b
  <2>1. p \in Powers16 /\ (b > 3 => p > 15)
    BY PowersAre, Zenon
  <2>2. (n \div p) % 2 = 1
    BY <1>1
  <2>. HIDE DEF p
  <2>3. b <= 3
    BY <2>1, <2>2 DEF Powers16
  <2>4. n # 0
    BY <2>1, <2>2 DEF Powers16
  <2>. QED
    BY <2>3, <2>4
<1>2. \A b \in Bits(n) : b \in 0..3 /\ n # 0
  BY <1>1, Zenon DEF Bits
<1>. QED
  BY <1>2

\* A remainder gains its next bit.
LEMMA Halves ==
  ASSUME NEW n \in Nat,
         NEW p \in Powers16
  PROVE  n % (2 * p) = (n % p) + IF (n \div p) % 2 = 1 THEN p ELSE 0
BY DEF Powers16

\* The bits of a number stand for that number: the sum up to a bit is a remainder.
LEMMA NumberOfBits ==
  ASSUME NEW n \in 0..(Huge - 1)
  PROVE  Bits(n) \subseteq 0..15 /\ NumberOf(Bits(n)) = n
<1>. DEFINE IsSum(f) == f = [k \in 0..16 |-> IF k = 0 THEN 0
                               ELSE f[k-1] + IF k - 1 \in Bits(n) THEN 2^(k-1) ELSE 0]
            sum == CHOOSE f : IsSum(f)
            g == [k \in 0..16 |-> n % 2^k]
<1>1. Bits(n) \subseteq 0..15
  BY DEF Bits
<1>2. NumberOf(Bits(n)) = sum[16]
  BY <1>1 DEF NumberOf
<1>3. n \in Nat /\ n < 65536
  BY Powers DEF Huge
<1>4. IsSum(g)
  <2>1. g[0] = 0
    BY <1>3, Powers
  <2>2. ASSUME NEW k \in 1..16
        PROVE  g[k] = g[k-1] + IF k - 1 \in Bits(n) THEN 2^(k-1) ELSE 0
    <3>. DEFINE p == 2^(k-1)
    <3>1. /\ 2^k = 2 * p
          /\ p \in Powers16
      BY PowerOf, Zenon
    <3>2. g[k] = n % 2^k /\ g[k-1] = n % p
      OBVIOUS
    <3>3. k - 1 \in Bits(n) <=> (n \div p) % 2 = 1
      <4>1. k - 1 \in 0..15
        OBVIOUS
      <4>. HIDE DEF g
      <4>. QED
        BY <4>1, Zenon DEF Bits
    <3>. HIDE DEF p, g
    <3>4. n % (2 * p) = (n % p) + IF (n \div p) % 2 = 1 THEN p ELSE 0
      BY <1>3, <3>1, Halves
    <3>. QED
      BY <3>1, <3>2, <3>3, <3>4 DEF p
  <2>3. ASSUME NEW k \in 0..16
        PROVE  g[k] = IF k = 0 THEN 0 ELSE g[k-1] + IF k - 1 \in Bits(n) THEN 2^(k-1) ELSE 0
    <3>. HIDE DEF g
    <3>1. CASE k = 0
      BY <2>1, <3>1, Zenon
    <3>2. CASE k # 0
      <4>1. k \in 1..16
        BY <3>2
      <4>. QED
        BY <2>2, <3>2, <4>1, Zenon
    <3>. QED
      BY <3>1, <3>2
  <2>. DEFINE h == [k \in 0..16 |-> IF k = 0 THEN 0 ELSE g[k-1] + IF k - 1 \in Bits(n) THEN 2^(k-1) ELSE 0]
  <2>4. \A k \in 0..16 : g[k] = h[k]
    <3>. HIDE DEF g
    <3>. QED
      BY <2>3, Zenon
  <2>5. g = h
    BY <2>4
  <2>. QED
    BY <2>5, Zenon
<1>. HIDE DEF g
<1>5. IsSum(sum)
  BY <1>4
<1>. HIDE DEF sum
<1>6. /\ g[0] = 0 /\ sum[0] = 0
      /\ \A k \in 1..16 : /\ g[k] = g[k-1] + IF k - 1 \in Bits(n) THEN 2^(k-1) ELSE 0
                          /\ sum[k] = sum[k-1] + IF k - 1 \in Bits(n) THEN 2^(k-1) ELSE 0
  BY <1>4, <1>5
<1>7. \A k \in 1..16 : sum[k-1] = g[k-1] => sum[k] = g[k]
  BY <1>6
<1>8. sum[16] = g[16]
  BY <1>6, <1>7
<1>9. g[16] = n
  BY <1>3, Powers DEF g
<1>. QED
  BY <1>1, <1>2, <1>8, <1>9

-----------------------------------------------------------------------------
(* What a varint looks like, and what its readers make of it.              *)

Bytes == Seq(SUBSET Word8)

\* The first n bytes are those of the word w: groups of seven bits, the high bit
\* on all but the last, which is not empty unless it is the only one.
IsVarint(at, n, w) ==
  /\ n \in 1..10
  /\ \A i \in 1..n : at[i] \subseteq Word8 /\ (7 \in at[i] <=> i < n)
  /\ \A i \in 1..n, k \in 0..6 : k \in at[i] <=> 7 * (i - 1) + k \in w
  /\ \A b \in w : b < 7 * n
  /\ n > 1 => \E b \in w : 7 * (n - 1) <= b

\* A set of groups has a last one.
LEMMA GreatestOf ==
  ASSUME NEW S, S \subseteq 1..10, 1 \in S
  PROVE  \E g \in S : \A h \in S : h <= g
<1>1. \/ 10 \in S \/ 9 \in S \/ 8 \in S \/ 7 \in S \/ 6 \in S \/ 5 \in S \/ 4 \in S \/ 3 \in S
      \/ 2 \in S \/ S \subseteq {1}
  OBVIOUS
<1>. QED
  OBVIOUS

\* The encoder writes a varint of the word it is given.
LEMMA VarintBytesAre ==
  ASSUME NEW w, w \subseteq Word64
  PROVE  /\ VarintBytes(w) \in Bytes
         /\ IsVarint(VarintBytes(w), Len(VarintBytes(w)), w)
<1>. DEFINE groups == {1} \cup {b \div 7 + 1 : b \in w}
            last == CHOOSE g \in groups : \A h \in groups : h <= g
            group(i) == {b - 7 * (i-1) : b \in {x \in w : x \div 7 = i - 1}}
            byte(i) == group(i) \cup IF i < last THEN {7} ELSE {}
            bytes == [i \in 1..last |-> byte(i)]
<1>1. VarintBytes(w) = bytes
  BY DEF VarintBytes
<1>2. \A b \in w : b \in 0..63 /\ b \div 7 + 1 \in groups /\ b \div 7 + 1 \in 1..10
  BY DEF Word64
<1>3. groups \subseteq 1..10 /\ 1 \in groups
  BY <1>2
<1>4. \A g \in groups : g # 1 => \E b \in w : g = b \div 7 + 1
  OBVIOUS
<1>5. last \in groups /\ \A h \in groups : h <= last
  <2>. HIDE DEF groups
  <2>. QED
    BY <1>3, GreatestOf
<1>6. last \in 1..10
  BY <1>3, <1>5
<1>. HIDE DEF last, groups
<1>7. ASSUME NEW i \in 1..last
      PROVE  /\ group(i) \subseteq 0..6
             /\ \A k \in 0..6 : k \in group(i) <=> 7 * (i - 1) + k \in w
  BY <1>2, <1>6
<1>. HIDE DEF group
<1>8. ASSUME NEW i \in 1..last
      PROVE  /\ byte(i) \subseteq Word8
             /\ 7 \in byte(i) <=> i < last
             /\ \A k \in 0..6 : k \in byte(i) <=> 7 * (i - 1) + k \in w
  BY <1>7 DEF Word8
<1>. HIDE DEF byte
<1>9. Len(bytes) = last /\ bytes \in Bytes /\ \A i \in 1..last : bytes[i] = byte(i)
  BY <1>6, <1>8 DEF Bytes
<1>10. \A b \in w : b < 7 * last
  <2>. SUFFICES ASSUME NEW b \in w PROVE b < 7 * last
    OBVIOUS
  <2>1. b \in 0..63 /\ b \div 7 + 1 <= last
    BY <1>2, <1>5
  <2>. QED
    BY <1>6, <2>1
<1>11. last > 1 => \E b \in w : 7 * (last - 1) <= b
  <2>. SUFFICES ASSUME last > 1 PROVE \E b \in w : 7 * (last - 1) <= b
    OBVIOUS
  <2>1. PICK b \in w : last = b \div 7 + 1
    BY <1>4, <1>5
  <2>. QED
    BY <1>2, <1>6, <2>1
<1>. HIDE DEF bytes
<1>12. IsVarint(bytes, last, w)
  BY <1>6, <1>8, <1>9, <1>10, <1>11 DEF IsVarint
<1>. QED
  BY <1>1, <1>9, <1>12

\* What follows makes no difference.
LEMMA VarintBefore ==
  ASSUME NEW w, w \subseteq Word64, NEW rest \in Bytes
  PROVE  /\ VarintBytes(w) \o rest \in Bytes
         /\ Len(VarintBytes(w)) \in 1..10
         /\ Len(VarintBytes(w) \o rest) = Len(VarintBytes(w)) + Len(rest)
         /\ IsVarint(VarintBytes(w) \o rest, Len(VarintBytes(w)), w)
<1>. DEFINE v == VarintBytes(w)
            n == Len(v)
<1>1. v \in Bytes /\ IsVarint(v, n, w)
  BY VarintBytesAre
<1>. HIDE DEF v
<1>2. n \in 1..10 /\ n = Len(v)
  BY <1>1 DEF IsVarint
<1>3. v \o rest \in Bytes /\ Len(v \o rest) = n + Len(rest)
  BY <1>1 DEF Bytes
<1>4. \A i \in 1..n : (v \o rest)[i] = v[i]
  BY <1>1, <1>2 DEF Bytes
<1>. DEFINE all == v \o rest
<1>5. IsVarint(all, n, w)
  <2>. HIDE DEF all, n
  <2>1. \A i \in 1..n : all[i] = v[i]
    BY <1>4 DEF all
  <2>. QED
    BY <1>1, <2>1 DEF IsVarint
<1>. QED
  BY <1>2, <1>3, <1>5 DEF v
Istream == [ok : BOOLEAN, at : Bytes, left : Nat]
IsIn(s) == s \in Istream /\ s.left <= Len(s.at)

\* The decoders look for the last byte where the varint has it.
LEMMA VarintLengthIs ==
  ASSUME NEW s, IsIn(s), NEW n, NEW w, IsVarint(s.at, n, w), n <= s.left
  PROVE  VarintLength(s) = n
<1>. DEFINE ends == {m \in 1..s.left : 7 \notin s.at[m]}
<1>1. n \in 1..10 /\ \A i \in 1..n : 7 \in s.at[i] <=> i < n
  BY DEF IsVarint
<1>2. s.left \in Nat
  BY DEF IsIn, Istream
<1>3. n \in ends /\ \A m \in ends : n <= m
  BY <1>1, <1>2
<1>4. \A m \in ends : m \in Nat
  BY <1>2
<1>5. VarintLength(s) = CHOOSE m \in ends : \A k \in ends : m <= k
  BY <1>3 DEF VarintLength
<1>. HIDE DEF ends
<1>6. PICK m \in ends : VarintLength(s) = m /\ \A k \in ends : m <= k
  BY <1>3, <1>5, Zenon
<1>7. n \in Nat /\ m \in Nat /\ n <= m /\ m <= n
  BY <1>1, <1>3, <1>4, <1>6
<1>. QED
  BY <1>6, <1>7

\* Any sequence of bytes: the length is 0 or that of a varint.
LEMMA VarintLengthBound ==
  ASSUME NEW s, IsIn(s)
  PROVE  VarintLength(s) \in 0..s.left
<1>. DEFINE ends == {m \in 1..s.left : 7 \notin s.at[m]}
<1>1. s.left \in Nat
  BY DEF IsIn, Istream
<1>2. VarintLength(s) = IF ends = {} THEN 0 ELSE CHOOSE m \in ends : \A k \in ends : m <= k
  BY DEF VarintLength
<1>3. CASE ends = {}
  BY <1>1, <1>2, <1>3
<1>4. CASE ends # {}
  <2>1. \E m \in ends : \A k \in ends : m <= k
    <3>1. ends \subseteq Nat
      BY <1>1
    <3>. HIDE DEF ends
    <3>. QED
      BY <1>4, <3>1, LeastOf
  <2>2. ends \subseteq 0..s.left
    BY <1>1
  <2>. HIDE DEF ends
  <2>. QED
    BY <1>2, <1>4, <2>1, <2>2
<1>. QED
  BY <1>3, <1>4

\* Each group of seven bits is shifted seven further.
LEMMA GroupOf ==
  ASSUME NEW i \in 1..10
  PROVE  bitpos(i) = 7 * (i - 1)
BY DEF bitpos

\* The bits that groups stand for.
LEMMA JoinedIs ==
  ASSUME NEW s, NEW n, NEW w, IsVarint(s.at, n, w), NEW I, I \subseteq 1..n, NEW width
  PROVE  \A b : b \in Joined(s, I, width) <=>
                  b \in width /\ \E i \in I, k \in 0..6 : b = k + 7 * (i - 1) /\ b \in w
<1>1. n \in 1..10
  BY DEF IsVarint
<1>2. ASSUME NEW i \in I
      PROVE  /\ bitpos(i) = 7 * (i - 1)
             /\ \A b : b \in Shl(s.at[i] \ {7}, bitpos(i), width) <=>
                         b \in width /\ \E k \in 0..6 : b = k + 7 * (i - 1) /\ b \in w
  <2>1. i \in 1..n /\ bitpos(i) = 7 * (i - 1)
    BY <1>1, GroupOf
  <2>2. s.at[i] \subseteq 0..7 /\ \A k \in 0..6 : k \in s.at[i] <=> 7 * (i - 1) + k \in w
    BY <2>1 DEF IsVarint, Word8
  <2>3. \A k : k \in s.at[i] \ {7} <=> k \in 0..6 /\ k + 7 * (i - 1) \in w
    BY <1>1, <2>1, <2>2
  <2>4. \A b : b \in Shl(s.at[i] \ {7}, bitpos(i), width) <=>
                  b \in width /\ \E k \in s.at[i] \ {7} : b = k + bitpos(i)
    BY DEF Shl
  <2>. QED
    BY <2>1, <2>3, <2>4
<1>3. \A b : b \in Joined(s, I, width) <=> \E i \in I : b \in Shl(s.at[i] \ {7}, bitpos(i), width)
  BY DEF Joined
<1>4. ASSUME NEW b
      PROVE  b \in Joined(s, I, width) <=>
               b \in width /\ \E i \in I, k \in 0..6 : b = k + 7 * (i - 1) /\ b \in w
  <2>1. \A i \in I : b \in Shl(s.at[i] \ {7}, bitpos(i), width) <=>
                      b \in width /\ \E k \in 0..6 : b = k + 7 * (i - 1) /\ b \in w
    BY <1>2, Zenon
  <2>2. b \in Joined(s, I, width) <=> \E i \in I : b \in Shl(s.at[i] \ {7}, bitpos(i), width)
    BY <1>3, Zenon
  <2>. QED
    BY <2>1, <2>2, Zenon
<1>. QED
  BY <1>4, Zenon

\* The groups of a varint together are its word.
LEMMA AllGroups ==
  ASSUME NEW s, NEW n, NEW w, w \subseteq Word64, IsVarint(s.at, n, w)
  PROVE  Joined(s, 1..n, Word64) = w
<1>1. n \in 1..10 /\ \A b \in w : b < 7 * n /\ b \in 0..63
  BY DEF IsVarint, Word64
<1>2. \A b : b \in Joined(s, 1..n, Word64) <=>
               b \in Word64 /\ \E i \in 1..n, k \in 0..6 : b = k + 7 * (i - 1) /\ b \in w
  BY JoinedIs
<1>3. ASSUME NEW b \in w PROVE \E i \in 1..n, k \in 0..6 : b = k + 7 * (i - 1)
  <2>1. b \div 7 + 1 \in 1..n /\ b % 7 \in 0..6 /\ b = (b % 7) + 7 * ((b \div 7 + 1) - 1)
    BY <1>1
  <2>. QED
    BY <2>1
<1>4. \A b \in w : b \in Word64
  BY <1>1
<1>5. \A b : b \in Joined(s, 1..n, Word64) <=> b \in w
  BY <1>2, <1>3, <1>4, Zenon
<1>. QED
  BY <1>5, Zenon

\* pb_decode_varint takes a whole varint and returns its word.
LEMMA DecodeVarint ==
  ASSUME NEW s, IsIn(s), s.ok, NEW n, NEW w, w \subseteq Word64,
         IsVarint(s.at, n, w), n <= s.left
  PROVE  pb_decode_varint(s) = Read(Dropped(s, n), w)
<1>1. VarintLength(s) = n /\ n \in 1..10 /\ Joined(s, 1..n, Word64) = w
  BY VarintLengthIs, AllGroups DEF IsVarint
<1>. QED
  BY <1>1, Zenon DEF pb_decode_varint

\* The groups that pb_decode_varint32 joins.
LEMMA LowIs ==
  ASSUME NEW n \in 1..10
  PROVE  \A i : i \in Low(n) <=> i \in 1..n /\ i <= 5
<1>1. \A i \in 1..10 : bitpos(i) = 7 * (i - 1)
  BY GroupOf
<1>2. \A i \in 1..n : bitpos(i) < 32 <=> i <= 5
  BY <1>1
<1>. QED
  BY <1>2 DEF Low

\* Whatever the word: what the reader puts together are its lower 32 bits.
LEMMA LowBits ==
  ASSUME NEW s, NEW n, NEW w, w \subseteq Word64, IsVarint(s.at, n, w), NEW i \in 1..n
  PROVE  /\ Joined(s, Low(i), Word32) \subseteq w \cap Word32
         /\ i >= 5 \/ i = n => Joined(s, Low(i), Word32) = w \cap Word32
<1>1. n \in 1..10 /\ \A b \in w : b < 7 * n /\ b \in 0..63
  BY DEF IsVarint, Word64
<1>2. i \in 1..10 /\ i <= n
  BY <1>1
<1>3. \A j : j \in Low(i) <=> j \in 1..i /\ j <= 5
  BY <1>2, LowIs
<1>4. Low(i) \subseteq 1..n
  BY <1>1, <1>2, <1>3
<1>5. \A b : b \in Joined(s, Low(i), Word32) <=>
               b \in Word32 /\ \E j \in Low(i), k \in 0..6 : b = k + 7 * (j - 1) /\ b \in w
  BY <1>4, JoinedIs
<1>6. Joined(s, Low(i), Word32) \subseteq w \cap Word32
  BY <1>5, Zenon
<1>7. ASSUME i >= 5 \/ i = n, NEW b \in w, b \in Word32
      PROVE  \E j \in Low(i), k \in 0..6 : b = k + 7 * (j - 1)
  <2>1. b \in 0..31 /\ b < 7 * n
    BY <1>1, <1>7 DEF Word32
  <2>2. b \div 7 + 1 \in 1..i /\ b \div 7 + 1 <= 5
    BY <1>1, <1>2, <1>7, <2>1
  <2>3. b % 7 \in 0..6 /\ b = (b % 7) + 7 * ((b \div 7 + 1) - 1)
    BY <2>1
  <2>4. b \div 7 + 1 \in Low(i)
    BY <1>3, <2>2
  <2>. QED
    BY <2>3, <2>4
<1>8. ASSUME i >= 5 \/ i = n PROVE w \cap Word32 \subseteq Joined(s, Low(i), Word32)
  <2>. SUFFICES ASSUME NEW b \in w, b \in Word32 PROVE b \in Joined(s, Low(i), Word32)
    OBVIOUS
  <2>1. \E j \in Low(i), k \in 0..6 : b = k + 7 * (j - 1)
    BY <1>7, <1>8
  <2>. QED
    BY <1>5, <2>1, Zenon
<1>. QED
  BY <1>6, <1>8

Fits(w) == w \subseteq Word32 \/ w = SignExtend(w \cap Word32, 32)

\* A number of 32 bits, with or without sign, is not too large.
LEMMA FitsIsAccepted ==
  ASSUME NEW s, NEW n, NEW w, w \subseteq Word64, IsVarint(s.at, n, w), Fits(w)
  PROVE  ~Overflow32(s, n)
<1>1. n \in 1..10 /\ \A b \in w : b < 7 * n /\ b \in 0..63
  BY DEF IsVarint, Word64
<1>2. \A i : i \in Low(n) <=> i \in 1..n /\ i <= 5
  BY <1>1, LowIs
<1>3. (7 * n) % 256 = 35 => n = 5
  BY <1>1
<1>4. \A i \in 1..n, k \in 0..6 : k \in s.at[i] <=> 7 * (i - 1) + k \in w
  BY DEF IsVarint
<1>5. CASE w \subseteq Word32
  <2>1. n <= 5
    <3>. SUFFICES ASSUME n > 5 PROVE FALSE
      BY <1>1
    <3>1. PICK b \in w : 7 * (n - 1) <= b
      BY <1>1 DEF IsVarint
    <3>2. b \in 0..31
      BY <1>5, <3>1 DEF Word32
    <3>. QED
      BY <1>1, <3>1, <3>2
  <2>2. (1..n) \ Low(n) = {}
    BY <1>1, <1>2, <2>1
  <2>3. n = 5 => s.at[n] \cap (4..6) = {}
    <3>. SUFFICES ASSUME n = 5, NEW k \in 4..6, k \in s.at[n] PROVE FALSE
      OBVIOUS
    <3>1. 7 * (n - 1) + k \in w
      BY <1>1, <1>4
    <3>2. 7 * (n - 1) + k \in 0..31
      BY <1>5, <3>1 DEF Word32
    <3>. QED
      BY <3>2
  <2>. QED
    BY <1>3, <2>2, <2>3, Zenon DEF Overflow32
<1>6. CASE ~(w \subseteq Word32)
  <2>1. 31 \in w /\ \A b \in 32..63 : b \in w
    <3>1. w = SignExtend(w \cap Word32, 32)
      BY <1>6 DEF Fits
    <3>2. 32 - 1 \in w \cap Word32
      BY <1>6, <3>1 DEF SignExtend
    <3>3. w = (w \cap Word32) \cup (32..63)
      BY <3>1, <3>2 DEF SignExtend
    <3>. QED
      BY <3>2, <3>3
  <2>2. n = 10
    <3>1. 63 \in w
      BY <2>1
    <3>. QED
      BY <1>1, <3>1
  <2>3. ASSUME NEW i \in (1..n) \ Low(n)
        PROVE  /\ i \in 6..10
               /\ 31 \in Joined(s, Low(i), Word32)
               /\ s.at[i] = IF bitpos(i) < 63 THEN Word8 ELSE {0}
    <3>1. i \in 6..10
      BY <1>2, <2>2
    <3>2. Joined(s, Low(i), Word32) = w \cap Word32 /\ 31 \in Word32
      <4>1. i \in 1..n /\ i >= 5
        BY <2>2, <3>1
      <4>2. 31 \in Word32
        BY DEF Word32
      <4>. QED
        BY <4>1, <4>2, LowBits, Zenon
    <3>3. bitpos(i) < 63 <=> i < 10
      BY <3>1, GroupOf
    <3>4. s.at[i] \subseteq 0..7 /\ (7 \in s.at[i] <=> i < 10)
      BY <2>2, <3>1 DEF IsVarint, Word8
    <3>5. CASE i < 10
      <4>1. \A k \in 0..6 : k \in s.at[i]
        <5>. SUFFICES ASSUME NEW k \in 0..6 PROVE k \in s.at[i]
          OBVIOUS
        <5>1. 7 * (i - 1) + k \in 32..63
          BY <3>1, <3>5
        <5>. QED
          BY <1>4, <2>1, <2>2, <5>1
      <4>2. s.at[i] = Word8
        BY <3>4, <3>5, <4>1 DEF Word8
      <4>. QED
        BY <2>1, <3>1, <3>2, <3>3, <3>5, <4>2
    <3>6. CASE i = 10
      <4>1. \A k \in 0..6 : k \in s.at[i] <=> 63 + k \in w
        BY <1>4, <2>2, <3>6
      <4>2. 63 \in w /\ \A k \in 1..6 : 63 + k \notin w
        BY <1>1, <2>1
      <4>3. s.at[i] = {0}
        BY <3>4, <3>6, <4>1, <4>2
      <4>. QED
        BY <2>1, <3>1, <3>2, <3>3, <3>6, <4>3
    <3>. QED
      BY <3>1, <3>5, <3>6
  <2>4. (7 * n) % 256 # 35
    BY <2>2
  <2>. QED
    BY <2>3, <2>4, Zenon DEF Overflow32
<1>. QED
  BY <1>5, <1>6

\* What is accepted without bit 31 has 32 bits.
LEMMA AcceptedFits ==
  ASSUME NEW s, NEW n, NEW w, w \subseteq Word64, IsVarint(s.at, n, w),
         ~Overflow32(s, n), 31 \notin w
  PROVE  w \subseteq Word32
<1>. SUFFICES ASSUME NEW b \in w, b \notin Word32 PROVE FALSE
  OBVIOUS
<1>1. n \in 1..10 /\ \A c \in w : c < 7 * n /\ c \in 0..63
  BY DEF IsVarint, Word64
<1>2. b \in 32..63 /\ b < 7 * n
  BY <1>1 DEF Word32
<1>3. \A i : i \in Low(n) <=> i \in 1..n /\ i <= 5
  BY <1>1, LowIs
<1>4. ASSUME NEW c \in w, c >= 35 PROVE FALSE
  <2>. DEFINE i == c \div 7 + 1
  <2>1. i \in 6..n /\ c % 7 \in 0..6 /\ c = 7 * (i - 1) + (c % 7)
    BY <1>1, <1>4
  <2>2. i \in 1..n /\ i \in (1..n) \ Low(n)
    BY <1>1, <1>3, <2>1
  <2>. HIDE DEF i
  <2>3. c % 7 \in s.at[i]
    BY <2>1, <2>2 DEF IsVarint
  <2>4. c % 7 # 7
    BY <2>1
  <2>5. 31 \notin Joined(s, Low(i), Word32)
    BY <2>2, LowBits
  <2>. QED
    BY <2>2, <2>3, <2>4, <2>5, Zenon DEF Overflow32
<1>5. n = 5
  <2>1. n >= 5
    BY <1>1, <1>2
  <2>2. n > 5 => \E c \in w : c >= 35
    <3>. SUFFICES ASSUME n > 5 PROVE \E c \in w : c >= 35
      OBVIOUS
    <3>1. PICK c \in w : 7 * (n - 1) <= c
      BY <1>1 DEF IsVarint
    <3>. QED
      BY <1>1, <3>1
  <2>. QED
    BY <1>1, <1>4, <2>1, <2>2
<1>6. b \in 32..34
  BY <1>2, <1>4
<1>7. b - 28 \in s.at[n]
  <2>1. b - 28 \in 0..6 /\ 7 * (n - 1) + (b - 28) = b
    BY <1>5, <1>6
  <2>. QED
    BY <1>1, <2>1 DEF IsVarint
<1>8. b - 28 \in 4..6
  BY <1>6
<1>9. (7 * n) % 256 = 35 /\ n > 1
  BY <1>5
<1>. QED
  BY <1>7, <1>8, <1>9 DEF Overflow32

\* pb_decode_varint32 fails on an overflow, and otherwise returns the low word.
LEMMA DecodeVarint32 ==
  ASSUME NEW s, IsIn(s), s.ok, NEW n, NEW w, w \subseteq Word64,
         IsVarint(s.at, n, w), n <= s.left
  PROVE  pb_decode_varint32(s) = IF Overflow32(s, n) THEN Read(FailedI(s), {})
                                 ELSE Read(Dropped(s, n), w \cap Word32)
<1>1. n \in 1..10 /\ n \in 1..n /\ n # 0
  BY DEF IsVarint
<1>2. Joined(s, Low(n), Word32) = w \cap Word32
  BY <1>1, LowBits, Zenon
<1>3. VarintLength(s) = n
  BY VarintLengthIs
<1>. QED
  BY <1>1, <1>2, <1>3, Zenon DEF pb_decode_varint32

\* pb_decode_svarint undoes the zig-zag of pb_encode_svarint.
LEMMA ZigZagAndBack ==
  ASSUME NEW w, w \subseteq Word64
  PROVE  /\ ZigZag(w) \subseteq Word64
         /\ w = IF 0 \in ZigZag(w) THEN Word64 \ Shr(ZigZag(w), 1) ELSE Shr(ZigZag(w), 1)
<1>1. \A b : b \in Shl(w, 1, Word64) <=> b \in 1..63 /\ b - 1 \in w
  BY DEF Shl, Word64
<1>2. \A b : b \in Shr(ZigZag(w), 1) <=> b \in Int /\ b >= 0 /\ b + 1 \in ZigZag(w)
  <2>1. ZigZag(w) \subseteq 0..63
    BY <1>1 DEF ZigZag, Word64
  <2>. HIDE DEF ZigZag
  <2>. QED
    BY <2>1 DEF Shr
<1>3. \A b \in w : b \in 0..63
  BY DEF Word64
<1>4. CASE 63 \in w
  <2>1. \A b : b \in ZigZag(w) <=> b \in 0..63 /\ ~(b \in 1..63 /\ b - 1 \in w)
    BY <1>1, <1>4 DEF ZigZag, Word64
  <2>2. 0 \in ZigZag(w)
    BY <2>1
  <2>3. \A b \in 0..63 : b \in Shr(ZigZag(w), 1) <=> b \in 0..62 /\ b \notin w
    <3>. SUFFICES ASSUME NEW b \in 0..63
                  PROVE  b \in Shr(ZigZag(w), 1) <=> b \in 0..62 /\ b \notin w
      OBVIOUS
    <3>1. b \in Shr(ZigZag(w), 1) <=> b + 1 \in ZigZag(w)
      BY <1>2
    <3>2. b + 1 \in ZigZag(w) <=> b + 1 \in 0..63 /\ ~(b + 1 \in 1..63 /\ (b + 1) - 1 \in w)
      BY <2>1
    <3>3. (b + 1) - 1 = b /\ (b + 1 \in 0..63 <=> b \in 0..62) /\ b + 1 \in 0..64
      OBVIOUS
    <3>. QED
      BY <3>1, <3>2, <3>3
  <2>4. \A b : b \in Word64 \ Shr(ZigZag(w), 1) <=> b \in w
    <3>1. \A b : b \in Word64 \ Shr(ZigZag(w), 1) <=> b \in 0..63 /\ b \notin Shr(ZigZag(w), 1)
      BY DEF Word64
    <3>2. \A b \in 0..63 : b \notin 0..62 => b = 63
      OBVIOUS
    <3>3. ASSUME NEW b \in 0..63 PROVE b \notin Shr(ZigZag(w), 1) <=> b \in w
      BY <1>4, <2>3, <3>2, <3>3, Zenon
    <3>. QED
      BY <1>3, <3>1, <3>3, Zenon
  <2>5. Word64 \ Shr(ZigZag(w), 1) = w
    BY <2>4, Zenon
  <2>6. ZigZag(w) \subseteq Word64
    BY <2>1 DEF Word64
  <2>. QED
    BY <2>2, <2>5, <2>6
<1>5. CASE 63 \notin w
  <2>1. \A b : b \in ZigZag(w) <=> b \in 1..63 /\ b - 1 \in w
    BY <1>1, <1>5 DEF ZigZag
  <2>2. 0 \notin ZigZag(w)
    BY <2>1
  <2>3. \A b : b \in Shr(ZigZag(w), 1) <=> b \in w
    BY <1>2, <1>3, <1>5, <2>1
  <2>4. Shr(ZigZag(w), 1) = w
    BY <2>3, Zenon
  <2>5. ZigZag(w) \subseteq Word64
    BY <2>1 DEF Word64
  <2>. QED
    BY <2>2, <2>4, <2>5
<1>. QED
  BY <1>4, <1>5

\* A stream made of the bytes of a varint holds all of it.
LEMMA WholeStream ==
  ASSUME NEW w, w \subseteq Word64
  PROVE  LET s == pb_istream_from_buffer(VarintBytes(w))
         IN  /\ IsIn(s) /\ s.ok
             /\ IsVarint(s.at, Len(VarintBytes(w)), w)
             /\ Len(VarintBytes(w)) <= s.left
<1>1. VarintBytes(w) \in Bytes /\ IsVarint(VarintBytes(w), Len(VarintBytes(w)), w)
  BY VarintBytesAre
<1>2. Len(VarintBytes(w)) \in Nat
  BY <1>1 DEF Bytes
<1>. QED
  BY <1>1, <1>2 DEF pb_istream_from_buffer, pb_istream, IsIn, Istream

WordOK == word \subseteq Word64

\* The word under test never has a bit beyond 64.
LEMMA WordStaysOK == WordSpec => []WordOK
<1>1. WordInit => WordOK
  BY DEF WordInit, WordOK
<1>2. WordOK /\ [SetBits]_word => WordOK'
  BY CodecAssumption DEF WordOK, SetBits
<1>. QED
  BY <1>1, <1>2, PTL DEF WordSpec

\* For every word of 64 bits: what the varint functions write is read back, and
\* the reader of 32 bits takes what fits and leaves what does not.
THEOREM VarintsUndoEachOther == WordSpec => []VarintsAgree
<1>1. WordOK => VarintsAgree
  <2>. SUFFICES ASSUME word \subseteq Word64 PROVE VarintsAgree
    BY DEF WordOK
  <2>. DEFINE w == word
              n == Len(VarintBytes(w))
              s == pb_istream_from_buffer(VarintBytes(w))
              m == Len(VarintBytes(ZigZag(w)))
              z == pb_istream_from_buffer(VarintBytes(ZigZag(w)))
              r == pb_decode_varint32(s)
  <2>1. /\ IsIn(s) /\ s.ok /\ IsVarint(s.at, n, w) /\ n <= s.left
        /\ ZigZag(w) \subseteq Word64
        /\ IsIn(z) /\ z.ok /\ IsVarint(z.at, m, ZigZag(w)) /\ m <= z.left
    BY WholeStream, ZigZagAndBack
  <2>2. pb_decode_varint(s) = Read(Dropped(s, n), w)
    <3>. HIDE DEF s, n
    <3>. QED
      BY <2>1, DecodeVarint
  <2>3. pb_decode_varint(z) = Read(Dropped(z, m), ZigZag(w))
    <3>. HIDE DEF z, m
    <3>. QED
      BY <2>1, DecodeVarint
  <2>4. pb_decode_svarint(z) = Read(Dropped(z, m), w)
    <3>1. w = IF 0 \in ZigZag(w) THEN Word64 \ Shr(ZigZag(w), 1) ELSE Shr(ZigZag(w), 1)
      BY ZigZagAndBack
    <3>. HIDE DEF z, m, w
    <3>2. pb_decode_varint(z).s = Dropped(z, m) /\ pb_decode_varint(z).v = ZigZag(w)
      BY <2>3 DEF Read
    <3>. QED
      BY <3>1, <3>2 DEF pb_decode_svarint
  <2>5. r = IF Overflow32(s, n) THEN Read(FailedI(s), {}) ELSE Read(Dropped(s, n), w \cap Word32)
    <3>. HIDE DEF s, n
    <3>. QED
      BY <2>1, DecodeVarint32
  <2>6. Fits(w) => ~Overflow32(s, n)
    <3>. HIDE DEF s, n
    <3>. QED
      BY <2>1, FitsIsAccepted
  <2>7. ~Overflow32(s, n) /\ 31 \notin w => Fits(w)
    <3>. HIDE DEF s, n
    <3>. QED
      BY <2>1, AcceptedFits DEF Fits
  <2>8. Dropped(s, n).ok /\ Dropped(z, m).ok /\ ~FailedI(s).ok
    <3>. HIDE DEF s, n, z, m
    <3>. QED
      BY <2>1 DEF Dropped, FailedI, pb_istream, IsIn, Istream
  <2>. HIDE DEF s, n, z, m, r
  <2>9. /\ pb_decode_varint(s).s.ok /\ pb_decode_varint(s).v = w
        /\ pb_decode_svarint(z).s.ok /\ pb_decode_svarint(z).v = w
        /\ Fits(w) => r.s.ok
        /\ r.s.ok => r.v = w \cap Word32 /\ (Fits(w) \/ 31 \in w)
    BY <2>2, <2>4, <2>5, <2>6, <2>7, <2>8 DEF Read
  <2>. QED
    BY <2>9 DEF VarintsAgree, Fits, s, z, r
<1>. QED
  BY <1>1, WordStaysOK, PTL

-----------------------------------------------------------------------------
(* Streams.                                                                *)

\* Where bytes are joined first makes no difference.
LEMMA Associative ==
  ASSUME NEW a \in Bytes, NEW b \in Bytes, NEW c \in Bytes
  PROVE  (a \o b) \o c = a \o (b \o c)
BY DEF Bytes

\* Joined bytes are as long as both.
LEMMA Lengths ==
  ASSUME NEW a \in Bytes, NEW b \in Bytes
  PROVE  /\ a \o b \in Bytes
         /\ Len(a) \in Nat /\ Len(b) \in Nat
         /\ Len(a \o b) = Len(a) + Len(b)
BY DEF Bytes

\* Joined bytes can be taken apart.
LEMMA Joins ==
  ASSUME NEW a \in Bytes, NEW b \in Bytes
  PROVE  /\ a \o b \in Bytes
         /\ Len(a) \in Nat /\ Len(b) \in Nat
         /\ Len(a \o b) = Len(a) + Len(b)
         /\ SubSeq(a \o b, 1, Len(a)) = a
         /\ SubSeq(a \o b, Len(a) + 1, Len(a \o b)) = b
BY DEF Bytes

\* Joining nothing changes nothing.
LEMMA Nothing ==
  ASSUME NEW a \in Bytes
  PROVE  /\ <<>> \in Bytes /\ Len(<<>>) = 0
         /\ <<>> \o a = a /\ a \o <<>> = a
BY DEF Bytes

\* A stream without an error.
In(at, left) == pb_istream(TRUE, at, left)

\* A stream's parts.
LEMMA InIs ==
  ASSUME NEW at \in Bytes, NEW left \in 0..Len(at)
  PROVE  /\ IsIn(In(at, left))
         /\ In(at, left).ok = TRUE /\ In(at, left).at = at /\ In(at, left).left = left
<1>1. Len(at) \in Nat
  BY DEF Bytes
<1>. QED
  BY <1>1 DEF IsIn, Istream, In, pb_istream

\* Dropping what is in front leaves what is behind.
LEMMA DropFirst ==
  ASSUME NEW a \in Bytes, NEW b \in Bytes, NEW left \in Nat
  PROVE  Dropped(In(a \o b, left), Len(a)) = In(b, left - Len(a))
<1>1. SubSeq(a \o b, Len(a) + 1, Len(a \o b)) = b
  BY Joins
<1>. QED
  BY <1>1 DEF Dropped, In, pb_istream

\* pb_read returns what is in front, if the stream has that many bytes left.
LEMMA ReadFirst ==
  ASSUME NEW a \in Bytes, NEW b \in Bytes, NEW left \in Nat, Len(a) <= left
  PROVE  pb_read(In(a \o b, left), Len(a)) = Read(In(b, left - Len(a)), a)
<1>1. SubSeq(a \o b, 1, Len(a)) = a
  BY Joins
<1>. QED
  BY <1>1, DropFirst DEF pb_read, In, pb_istream

\* The tag of a field and its wire type, in one word.
TagWord(tag, wt) == Shl(Bits(tag), 3, Word64) \cup wt

\* Tag and wire type can be told from the word that holds both.
LEMMA TagWordIs ==
  ASSUME NEW tag \in 1..(2^12 - 1), NEW wt, wt \subseteq 0..2
  PROVE  /\ TagWord(tag, wt) \subseteq Word32
         /\ TagWord(tag, wt) # {}
         /\ NumberOf(Shr(TagWord(tag, wt), 3)) = tag
         /\ TagWord(tag, wt) \cap (0..2) = wt
         /\ tag <= 15 => TagWord(tag, wt) \subseteq 0..6
<1>1. tag \in 0..(Huge - 1) /\ tag \in Nat /\ tag # 0
  BY Powers DEF Huge
<1>2. Bits(tag) \subseteq 0..15 /\ NumberOf(Bits(tag)) = tag
  BY <1>1, NumberOfBits
<1>3. Bits(tag) # {}
  <2>1. 0 \in 0..(Huge - 1) /\ 0 \in 0..15
    BY Powers DEF Huge
  <2>2. NumberOf(Bits(0)) = 0 /\ Bits(0) = {}
    BY <2>1, NumberOfBits, LowNumbers, Zenon
  <2>. QED
    BY <1>1, <1>2, <2>2
<1>4. tag <= 15 => Bits(tag) \subseteq 0..3
  BY <1>1, LowNumbers
<1>. DEFINE bits == Bits(tag)
            w == TagWord(tag, wt)
<1>. HIDE DEF bits
<1>5. bits \subseteq 0..15 /\ wt \subseteq 0..2
  BY <1>2 DEF bits
<1>6. /\ \A b \in w : b \in wt \/ \E c \in bits : b = c + 3
      /\ wt \subseteq w
      /\ \A c \in bits : c + 3 \in w
  <2>1. \A b : b \in Shl(bits, 3, Word64) <=> \E c \in bits : b = c + 3
    BY <1>5 DEF Shl, Word64
  <2>2. w = Shl(bits, 3, Word64) \cup wt
    BY DEF TagWord, w, bits
  <2>. QED
    BY <2>1, <2>2
<1>7. Shr(w, 3) = bits
  <2>1. \A b : b \in Shr(w, 3) <=> \E c \in w : c >= 3 /\ b = c - 3
    BY DEF Shr
  <2>2. ASSUME NEW c \in w, c >= 3 PROVE c - 3 \in bits
    <3>1. c \notin wt
      <4>. SUFFICES ASSUME c \in wt PROVE FALSE
        OBVIOUS
      <4>1. c \in 0..2
        BY <1>5, Zenon
      <4>. QED
        BY <2>2, <4>1
    <3>2. PICK e \in bits : c = e + 3
      BY <1>6, <3>1, Zenon
    <3>3. c - 3 = e
      BY <1>5, <3>2
    <3>. QED
      BY <3>2, <3>3
  <2>3. ASSUME NEW b \in bits PROVE \E c \in w : c >= 3 /\ b = c - 3
    <3>1. b + 3 \in w /\ b + 3 >= 3 /\ b = (b + 3) - 3
      BY <1>5, <1>6
    <3>. QED
      BY <3>1
  <2>. QED
    BY <2>1, <2>2, <2>3
<1>8. w # {}
  <2>1. PICK b : b \in bits
    BY <1>3 DEF bits
  <2>. QED
    BY <1>6, <2>1
<1>9. w \cap (0..2) = wt
  <2>1. ASSUME NEW b \in w, b \in 0..2 PROVE b \in wt
    BY <1>5, <1>6, <2>1
  <2>. QED
    BY <1>5, <1>6, <2>1
<1>10. tag <= 15 => w \subseteq 0..6
  <2>. SUFFICES ASSUME tag <= 15, NEW b \in w PROVE b \in 0..6
    OBVIOUS
  <2>1. bits \subseteq 0..3
    BY <1>4 DEF bits
  <2>2. b \in wt \/ \E c \in bits : b = c + 3
    BY <1>6
  <2>3. wt \subseteq 0..6 /\ \A c \in bits : c + 3 \in 0..6
    BY <1>5, <2>1
  <2>. QED
    BY <2>2, <2>3, Zenon
<1>11. w \subseteq Word32
  <2>1. wt \subseteq Word32 /\ \A c \in bits : c + 3 \in Word32
    BY <1>5 DEF Word32
  <2>. QED
    BY <1>6, <2>1, Zenon
<1>. QED
  BY <1>2, <1>7, <1>8, <1>9, <1>10, <1>11 DEF w, bits

-----------------------------------------------------------------------------
(* What becomes of one field.                                              *)

\* The fields of the robot's messages: a float or a bool with a has_.
IsSimple(f) ==
  /\ f.htype = "OPTIONAL" /\ f.counted = TRUE /\ f.atype = "STATIC" /\ f.ptr = {}
  /\ f.tag \in 1..15
  /\ f.ltype = "FIXED32" \/ (f.ltype = "VARINT" /\ f.size = 1)

IsCell(f, cell) ==
  cell = Default(f) \/ (cell = Has(cell.data) /\ cell.data \in FieldValues(f))

WireType(f) == IF f.ltype = "VARINT" THEN WT_VARINT ELSE WT_32BIT
FixedBytes(v) == [i \in 1..4 |-> {b - 8 * (i-1) : b \in {x \in v : x \div 8 = i - 1}}]
PayloadSize(f) == IF f.ltype = "VARINT" THEN 1 ELSE 4
Payload(f, v) == IF f.ltype = "VARINT" THEN VarintBytes(v) ELSE FixedBytes(v)
Tagged(f) == VarintBytes(TagWord(f.tag, WireType(f)))
Piece(f, cell) == IF cell.size THEN Tagged(f) \o Payload(f, cell.data) ELSE <<>>

\* A field of the robot is unset by default.
LEMMA DefaultIs ==
  ASSUME NEW f, IsSimple(f)
  PROVE  Default(f) = [size |-> FALSE, data |-> {}]
BY DEF IsSimple, Default

\* A field of the robot is unset or has one of its values.
LEMMA CellIs ==
  ASSUME NEW f, IsSimple(f), NEW cell, IsCell(f, cell)
  PROVE  \/ cell.size = FALSE /\ cell = Default(f)
         \/ cell.size = TRUE /\ cell = Has(cell.data) /\ cell.data \in FieldValues(f)
BY DefaultIs DEF IsCell, Has

\* A word of seven bits takes one byte.
LEMMA SmallVarint ==
  ASSUME NEW w, w \subseteq 0..6
  PROVE  VarintBytes(w) \in Bytes /\ Len(VarintBytes(w)) = 1
<1>1. w \subseteq Word64
  BY DEF Word64
<1>2. VarintBytes(w) \in Bytes /\ IsVarint(VarintBytes(w), Len(VarintBytes(w)), w)
  BY <1>1, VarintBytesAre
<1>. DEFINE n == Len(VarintBytes(w))
<1>. HIDE DEF n
<1>3. n \in 1..10 /\ (n > 1 => \E b \in w : 7 * (n - 1) <= b)
  BY <1>2 DEF IsVarint, n
<1>4. n = 1
  BY <1>3
<1>. QED
  BY <1>2, <1>4 DEF n

\* The tag of a field of the robot takes one byte.
LEMMA TaggedIs ==
  ASSUME NEW f, IsSimple(f)
  PROVE  /\ WireType(f) \subseteq 0..2 /\ f.tag \in 1..(2^12 - 1) /\ f.tag <= 15
         /\ Tagged(f) \in Bytes /\ Len(Tagged(f)) = 1
<1>1. WireType(f) \subseteq 0..2 /\ f.tag \in 1..(2^12 - 1) /\ f.tag <= 15
  BY Powers DEF WireType, WT_VARINT, WT_32BIT, IsSimple
<1>2. TagWord(f.tag, WireType(f)) \subseteq 0..6
  BY <1>1, TagWordIs
<1>. QED
  BY <1>1, <1>2, SmallVarint DEF Tagged

\* A value takes as many bytes as its type says.
LEMMA PayloadIs ==
  ASSUME NEW f, IsSimple(f), NEW v \in FieldValues(f)
  PROVE  Payload(f, v) \in Bytes /\ Len(Payload(f, v)) = PayloadSize(f)
<1>1. CASE f.ltype = "VARINT"
  <2>1. v \subseteq 0..6
    BY <1>1 DEF FieldValues
  <2>. QED
    BY <1>1, <2>1, SmallVarint DEF Payload, PayloadSize
<1>2. CASE f.ltype # "VARINT"
  <2>1. v \subseteq 0..31
    BY <1>2 DEF FieldValues, Word32
  <2>2. ASSUME NEW i \in 1..4
        PROVE  {b - 8 * (i-1) : b \in {x \in v : x \div 8 = i - 1}} \subseteq Word8
    BY <2>1 DEF Word8
  <2>3. FixedBytes(v) \in Bytes /\ Len(FixedBytes(v)) = 4
    BY <2>2 DEF FixedBytes, Bytes
  <2>. QED
    BY <1>2, <2>3 DEF Payload, PayloadSize
<1>. QED
  BY <1>1, <1>2

\* So a field is no bytes, or a tag and a value.
LEMMA PieceIs ==
  ASSUME NEW f, IsSimple(f), NEW cell, IsCell(f, cell)
  PROVE  /\ Piece(f, cell) \in Bytes
         /\ Len(Piece(f, cell)) \in {0, 1 + PayloadSize(f)}
         /\ PayloadSize(f) \in Nat
<1>0. PayloadSize(f) \in Nat
  BY DEF PayloadSize
<1>1. CASE cell.size = FALSE
  BY <1>0, <1>1 DEF Piece, Bytes
<1>2. CASE cell.size = TRUE
  <2>1. cell.data \in FieldValues(f)
    BY <1>2, CellIs
  <2>2. /\ Tagged(f) \in Bytes /\ Len(Tagged(f)) = 1
        /\ Payload(f, cell.data) \in Bytes /\ Len(Payload(f, cell.data)) = PayloadSize(f)
    BY <2>1, TaggedIs, PayloadIs
  <2>3. Piece(f, cell) = Tagged(f) \o Payload(f, cell.data)
    BY <1>2 DEF Piece
  <2>. QED
    BY <1>0, <2>2, <2>3, Joins
<1>. QED
  BY <1>1, <1>2, CellIs

\* An output stream takes what it has room for.
LEMMA WriteIs ==
  ASSUME NEW out \in Bytes, NEW buf \in Bytes, NEW sizing \in BOOLEAN, NEW max \in Nat,
         sizing \/ Len(out) + Len(buf) <= max
  PROVE  pb_write(pb_ostream(TRUE, out, sizing, max), buf)
           = pb_ostream(TRUE, out \o buf, sizing, max)
BY DEF pb_write, pb_ostream

\* encode_field appends just that, for a buffer with room or a sizing stream.
LEMMA EncodeFieldIs ==
  ASSUME NEW f, IsSimple(f), NEW cell, IsCell(f, cell),
         NEW out \in Bytes, NEW sizing \in BOOLEAN, NEW max \in Nat,
         sizing \/ Len(out) + Len(Piece(f, cell)) <= max
  PROVE  encode_field(pb_ostream(TRUE, out, sizing, max), f, cell)
           = pb_ostream(TRUE, out \o Piece(f, cell), sizing, max)
<1>. DEFINE o == pb_ostream(TRUE, out, sizing, max)
<1>1. /\ f.htype = "OPTIONAL" /\ f.counted = TRUE /\ f.atype = "STATIC"
      /\ f.ltype = "FIXED32" \/ (f.ltype = "VARINT" /\ f.size = 1)
  BY DEF IsSimple
<1>2. CASE cell.size = FALSE
  <2>1. encode_field(o, f, cell) = o
    BY <1>1, <1>2 DEF encode_field
  <2>. QED
    BY <1>2, <2>1, Nothing DEF Piece
<1>3. CASE cell.size = TRUE
  <2>. DEFINE v == cell.data
              tagged == pb_ostream(TRUE, out \o Tagged(f), sizing, max)
  <2>1. v \in FieldValues(f) /\ Piece(f, cell) = Tagged(f) \o Payload(f, v)
    BY <1>3, CellIs DEF Piece
  <2>2. /\ Tagged(f) \in Bytes /\ Len(Tagged(f)) = 1
        /\ Payload(f, v) \in Bytes /\ Len(Payload(f, v)) \in Nat
    <3>1. Payload(f, v) \in Bytes
      BY <2>1, PayloadIs
    <3>. QED
      BY <3>1, TaggedIs, Joins
  <2>a. /\ Len(Piece(f, cell)) = 1 + Len(Payload(f, v))
        /\ out \o Tagged(f) \in Bytes /\ Len(out \o Tagged(f)) = Len(out) + 1
        /\ Len(out) \in Nat
    <3>. DEFINE t == Tagged(f)
                p == Payload(f, v)
    <3>. HIDE DEF t, p
    <3>1. t \in Bytes /\ p \in Bytes /\ Len(t) = 1
      BY <2>2 DEF t, p
    <3>2. Len(t \o p) = 1 + Len(p) /\ out \o t \in Bytes /\ Len(out \o t) = Len(out) + 1 /\ Len(out) \in Nat
      <4>1. t \o p \in Bytes /\ Len(t) \in Nat /\ Len(p) \in Nat /\ Len(t \o p) = Len(t) + Len(p)
        BY <3>1, Lengths
      <4>2. out \o t \in Bytes /\ Len(out) \in Nat /\ Len(out \o t) = Len(out) + Len(t)
        BY <3>1, Lengths
      <4>. QED
        BY <3>1, <4>1, <4>2
    <3>. QED
      BY <2>1, <3>2 DEF t, p
  <2>b. /\ sizing \/ Len(out) + Len(Tagged(f)) <= max
        /\ sizing \/ Len(out \o Tagged(f)) + Len(Payload(f, v)) <= max
    <3>. DEFINE l == Len(Payload(f, v))
                c == Len(Piece(f, cell))
                lo == Len(out)
    <3>1. l \in Nat /\ c = 1 + l /\ lo \in Nat /\ (sizing \/ lo + c <= max)
      BY <2>2, <2>a
    <3>. HIDE DEF l, c, lo
    <3>2. sizing \/ (lo + 1 <= max /\ (lo + 1) + l <= max)
      BY <3>1
    <3>. QED
      BY <2>2, <2>a, <3>2 DEF l, c, lo
  <2>3. encode_field(o, f, cell) = EncodeItem(pb_encode_tag_for_field(o, f), f, v)
    BY <1>1, <1>3 DEF encode_field
  <2>4. pb_encode_tag_for_field(o, f) = pb_write(o, Tagged(f))
    BY <1>1 DEF pb_encode_tag_for_field, pb_encode_tag, pb_encode_varint, Tagged, TagWord, WireType
  <2>5. pb_write(o, Tagged(f)) = tagged
    BY <2>2, <2>b, WriteIs, Zenon
  <2>6. EncodeItem(tagged, f, v) = pb_write(tagged, Payload(f, v))
    <3>1. CASE f.ltype = "FIXED32"
      BY <3>1 DEF EncodeItem, pb_encode_fixed, Payload, FixedBytes
    <3>2. CASE f.ltype = "VARINT"
      <4>1. 8 * f.size - 1 \notin v
        BY <1>1, <2>1, <3>2 DEF FieldValues
      <4>2. SignExtend(v, 8 * f.size) = v
        BY <4>1 DEF SignExtend
      <4>. QED
        BY <3>2, <4>2 DEF EncodeItem, pb_encode_varint, Payload
    <3>. QED
      BY <1>1, <3>1, <3>2
  <2>7. pb_write(tagged, Payload(f, v))
          = pb_ostream(TRUE, (out \o Tagged(f)) \o Payload(f, v), sizing, max)
    <3>. HIDE DEF v
    <3>. QED
      BY <2>2, <2>a, <2>b, WriteIs, Zenon
  <2>8. (out \o Tagged(f)) \o Payload(f, v) = out \o Piece(f, cell)
    BY <2>1, <2>2, Associative
  <2>. QED
    BY <2>3, <2>4, <2>5, <2>6, <2>7, <2>8
<1>. QED
  BY <1>2, <1>3, CellIs

\* Reading back what a stream begins with.
LEMMA VarintFirst ==
  ASSUME NEW w, w \subseteq Word64, NEW rest \in Bytes, NEW left \in Nat,
         Len(VarintBytes(w)) <= left, left <= Len(VarintBytes(w)) + Len(rest)
  PROVE  LET s == In(VarintBytes(w) \o rest, left)
             n == Len(VarintBytes(w))
         IN  /\ IsIn(s) /\ s.ok = TRUE /\ s.left = left
             /\ n \in 1..10 /\ IsVarint(s.at, n, w)
             /\ Dropped(s, n) = In(rest, left - n)
<1>. DEFINE v == VarintBytes(w)
            n == Len(v)
            at == v \o rest
<1>1. /\ v \in Bytes /\ at \in Bytes /\ n \in 1..10 /\ Len(at) = n + Len(rest)
      /\ IsVarint(at, n, w)
  BY VarintBytesAre, VarintBefore
<1>2. Dropped(In(at, left), n) = In(rest, left - n)
  <2>. HIDE DEF v
  <2>. QED
    BY <1>1, DropFirst
<1>3. left \in 0..Len(at)
  BY <1>1
<1>4. IsIn(In(at, left)) /\ In(at, left).ok = TRUE /\ In(at, left).at = at /\ In(at, left).left = left
  <2>. HIDE DEF at
  <2>. QED
    BY <1>1, <1>3, InIs
<1>. QED
  BY <1>1, <1>2, <1>4

\* A varint in front is read, or skipped, and what is behind it stays.
LEMMA Varint64First ==
  ASSUME NEW w, w \subseteq Word64, NEW rest \in Bytes, NEW left \in Nat,
         Len(VarintBytes(w)) <= left, left <= Len(VarintBytes(w)) + Len(rest)
  PROVE  /\ pb_decode_varint(In(VarintBytes(w) \o rest, left))
              = Read(In(rest, left - Len(VarintBytes(w))), w)
         /\ pb_skip_varint(In(VarintBytes(w) \o rest, left)) = In(rest, left - Len(VarintBytes(w)))
<1>. DEFINE s == In(VarintBytes(w) \o rest, left)
            n == Len(VarintBytes(w))
<1>1. /\ IsIn(s) /\ s.ok = TRUE /\ n <= s.left /\ n \in 1..10 /\ IsVarint(s.at, n, w)
      /\ Dropped(s, n) = In(rest, left - n)
  BY VarintFirst
<1>. HIDE DEF s, n
<1>2. pb_decode_varint(s) = Read(Dropped(s, n), w)
  BY <1>1, DecodeVarint
<1>3. VarintLength(s) = n /\ n > 0
  <2>1. VarintLength(s) = n
    BY <1>1, VarintLengthIs, Zenon
  <2>. QED
    BY <1>1, <2>1
<1>4. pb_skip_varint(s) = Dropped(s, n)
  BY <1>1, <1>3 DEF pb_skip_varint
<1>. QED
  BY <1>1, <1>2, <1>4 DEF s, n

\* The same of the decoder for 32 bits.
LEMMA Varint32First ==
  ASSUME NEW w, w \subseteq Word32, NEW rest \in Bytes, NEW left \in Nat,
         Len(VarintBytes(w)) <= left, left <= Len(VarintBytes(w)) + Len(rest)
  PROVE  pb_decode_varint32(In(VarintBytes(w) \o rest, left))
           = Read(In(rest, left - Len(VarintBytes(w))), w)
<1>. DEFINE s == In(VarintBytes(w) \o rest, left)
            n == Len(VarintBytes(w))
<1>1. w \subseteq Word64 /\ w \cap Word32 = w
  <2>1. Word32 \subseteq Word64
    BY DEF Word32, Word64
  <2>. QED
    BY <2>1, Zenon
<1>2. /\ IsIn(s) /\ s.ok = TRUE /\ n <= s.left /\ n \in 1..10 /\ IsVarint(s.at, n, w)
      /\ Dropped(s, n) = In(rest, left - n)
  BY <1>1, VarintFirst
<1>. HIDE DEF s, n
<1>3. ~Overflow32(s, n)
  BY <1>1, <1>2, FitsIsAccepted DEF Fits
<1>4. pb_decode_varint32(s) = Read(Dropped(s, n), w)
  BY <1>1, <1>2, <1>3, DecodeVarint32
<1>. QED
  BY <1>2, <1>4 DEF s, n

\* The same of a tag.
LEMMA TagFirst ==
  ASSUME NEW tag \in 1..(2^12 - 1), NEW wt, wt \subseteq 0..2, NEW rest \in Bytes, NEW left \in Nat,
         Len(VarintBytes(TagWord(tag, wt))) <= left,
         left <= Len(VarintBytes(TagWord(tag, wt))) + Len(rest)
  PROVE  pb_decode_tag(In(VarintBytes(TagWord(tag, wt)) \o rest, left))
           = [s |-> In(rest, left - Len(VarintBytes(TagWord(tag, wt)))),
              eof |-> FALSE, tag |-> tag, wire |-> wt]
<1>. DEFINE w == TagWord(tag, wt)
            n == Len(VarintBytes(w))
            s == In(VarintBytes(w) \o rest, left)
<1>1. /\ w \subseteq Word32 /\ w # {} /\ NumberOf(Shr(w, 3)) = tag /\ w \cap (0..2) = wt
  BY TagWordIs
<1>. HIDE DEF w
<1>2. pb_decode_varint32(s) = Read(In(rest, left - n), w)
  BY <1>1, Varint32First DEF w
<1>. HIDE DEF s, n
<1>. DEFINE r == pb_decode_varint32(s)
<1>3. r.s = In(rest, left - n) /\ r.v = w
  BY <1>2 DEF Read
<1>4. pb_decode_tag(s) = [s |-> r.s, eof |-> r.s.ok /\ r.v = {}, tag |-> NumberOf(Shr(r.v, 3)),
                          wire |-> r.v \cap (0..2)]
  BY Zenon DEF pb_decode_tag
<1>. HIDE DEF r
<1>5. pb_decode_tag(s) = [s |-> In(rest, left - n), eof |-> FALSE, tag |-> tag, wire |-> wt]
  BY <1>1, <1>3, <1>4
<1>. QED
  BY <1>5 DEF s, n, w

\* The same of a float.
LEMMA FixedFirst ==
  ASSUME NEW v, v \subseteq Word32, NEW rest \in Bytes, NEW left \in Nat, 4 <= left
  PROVE  pb_decode_fixed(In(FixedBytes(v) \o rest, left), 4) = Read(In(rest, left - 4), v)
<1>. DEFINE b == FixedBytes(v)
            byte(i) == {x - 8 * (i-1) : x \in {y \in v : y \div 8 = i - 1}}
<1>1. v \subseteq 0..31
  BY DEF Word32
<1>2. ASSUME NEW i \in 1..4
      PROVE  byte(i) \subseteq Word8 /\ \A k \in 0..7 : k \in byte(i) <=> k + 8 * (i - 1) \in v
  BY <1>1 DEF Word8
<1>. HIDE DEF byte
<1>3. b = [i \in 1..4 |-> byte(i)]
  BY DEF FixedBytes, byte
<1>4. b \in Bytes /\ Len(b) = 4 /\ DOMAIN b = 1..4 /\ \A i \in 1..4 : b[i] = byte(i)
  BY <1>2, <1>3 DEF Bytes
<1>. HIDE DEF b
<1>5. pb_read(In(b \o rest, left), 4) = Read(In(rest, left - 4), b)
  BY <1>4, ReadFirst
<1>6. UNION {Shl(b[i], 8 * (i-1), Word64) : i \in DOMAIN b} = v
  <2>. DEFINE u == UNION {Shl(b[i], 8 * (i-1), Word64) : i \in 1..4}
  <2>1. \A x : x \in u <=> \E i \in 1..4 : x \in Shl(byte(i), 8 * (i-1), Word64)
    BY <1>4
  <2>. HIDE DEF u
  <2>2. ASSUME NEW i \in 1..4
        PROVE  \A x : x \in Shl(byte(i), 8 * (i-1), Word64) <=> x \in v /\ x \div 8 = i - 1
    <3>1. \A x : x \in Shl(byte(i), 8 * (i-1), Word64) <=>
                   x \in 0..63 /\ \E k \in byte(i) : x = k + 8 * (i - 1)
      BY DEF Shl, Word64
    <3>2. \A x : (\E k \in byte(i) : x = k + 8 * (i - 1)) <=>
                 (\E k \in 0..7 : x = k + 8 * (i - 1) /\ x \in v)
      BY <1>2 DEF Word8
    <3>3. ASSUME NEW x \in v
          PROVE  (\E k \in 0..7 : x = k + 8 * (i - 1)) <=> x \div 8 = i - 1
      <4>1. x \in 0..31
        BY <1>1
      <4>2. x \div 8 = i - 1 => x - 8 * (i - 1) \in 0..7 /\ x = (x - 8 * (i - 1)) + 8 * (i - 1)
        BY <4>1
      <4>3. (\E k \in 0..7 : x = k + 8 * (i - 1)) => x \div 8 = i - 1
        BY <4>1
      <4>. QED
        BY <4>2, <4>3
    <3>4. \A x \in v : x \in 0..63
      BY <1>1
    <3>. QED
      BY <3>1, <3>2, <3>3, <3>4, Zenon
  <2>3. \A x \in v : \E i \in 1..4 : x \div 8 = i - 1
    <3>. SUFFICES ASSUME NEW x \in v PROVE \E i \in 1..4 : x \div 8 = i - 1
      OBVIOUS
    <3>1. x \in 0..31
      BY <1>1
    <3>2. x \div 8 + 1 \in 1..4 /\ x \div 8 = (x \div 8 + 1) - 1
      BY <3>1
    <3>. QED
      BY <3>2
  <2>4. \A x : x \in u <=> x \in v
    BY <2>1, <2>2, <2>3, Zenon
  <2>5. u = v
    BY <2>4, Zenon
  <2>. QED
    BY <1>4, <2>5 DEF u
<1>. DEFINE r == pb_read(In(b \o rest, left), 4)
<1>7. r.s = In(rest, left - 4) /\ r.v = b
  BY <1>5 DEF Read
<1>8. pb_decode_fixed(In(b \o rest, left), 4)
        = Read(r.s, UNION {Shl(r.v[i], 8 * (i-1), Word64) : i \in DOMAIN r.v})
  BY Zenon DEF pb_decode_fixed
<1>. HIDE DEF r
<1>. QED
  BY <1>6, <1>7, <1>8 DEF b

-----------------------------------------------------------------------------
(* A field is read back, and one that is not known is passed over.         *)

\* decode_field reads the value that was encoded.
LEMMA FieldRead ==
  ASSUME NEW f, IsSimple(f), NEW v \in FieldValues(f), NEW cell, NEW rest \in Bytes, NEW left \in Nat,
         PayloadSize(f) <= left, left <= PayloadSize(f) + Len(rest)
  PROVE  decode_field(In(Payload(f, v) \o rest, left), WireType(f), f, cell)
           = Read(In(rest, left - PayloadSize(f)), Has(v))
<1>. DEFINE s == In(Payload(f, v) \o rest, left)
            to == In(rest, left - PayloadSize(f))
            r == DecodeItem(s, f, cell.data)
<1>1. /\ f.htype = "OPTIONAL" /\ f.counted = TRUE /\ f.atype = "STATIC"
      /\ f.ltype = "FIXED32" \/ (f.ltype = "VARINT" /\ f.size = 1)
  BY DEF IsSimple
<1>2. r = Read(to, v)
  <2>1. CASE f.ltype = "FIXED32"
    <3>1. v \subseteq Word32 /\ Payload(f, v) = FixedBytes(v) /\ PayloadSize(f) = 4
      BY <2>1 DEF FieldValues, Payload, PayloadSize
    <3>2. r = pb_decode_fixed(s, 4)
      BY <2>1 DEF DecodeItem
    <3>. QED
      BY <3>1, <3>2, FixedFirst
  <2>2. CASE f.ltype = "VARINT"
    <3>1. v \subseteq {0} /\ Payload(f, v) = VarintBytes(v) /\ PayloadSize(f) = 1 /\ f.size = 1
      BY <1>1, <2>2 DEF FieldValues, Payload, PayloadSize
    <3>2. v \subseteq 0..6 /\ v \subseteq Word64 /\ v \cap Word32 = v /\ {b \in v : b < 8} = v
      <4>1. 0 \in 0..6 /\ 0 \in Word64 /\ 0 \in Word32 /\ 0 < 8
        BY DEF Word64, Word32
      <4>. QED
        BY <3>1, <4>1
    <3>3. Len(VarintBytes(v)) = 1
      BY <3>2, SmallVarint
    <3>4. pb_decode_varint(s) = Read(to, v)
      BY <3>1, <3>2, <3>3, Varint64First
    <3>. HIDE DEF s, to
    <3>5. SignExtend(v, 32) = v /\ SignExtend(v, 8) = v
      BY <3>1 DEF SignExtend
    <3>. DEFINE q == Read(to, v)
    <3>a. q.s = to /\ q.v = v
      BY DEF Read
    <3>b. 8 * 1 = 8
      OBVIOUS
    <3>. HIDE DEF q
    <3>6. Clamped(q, 1, TRUE) = Read(to, v)
      BY <3>2, <3>5, <3>a, <3>b, Zenon DEF Clamped
    <3>c. pb_decode_varint(s) = q
      BY <3>4 DEF q
    <3>7. pb_dec_varint(s, f) = Clamped(q, 1, TRUE)
      <4>1. Read(q.s, SignExtend(q.v \cap Word32, 32)) = q
        BY <3>2, <3>5, <3>a, Zenon DEF q
      <4>2. f.size # 8
        BY <3>1
      <4>. QED
        BY <3>1, <3>c, <4>1, <4>2, Zenon DEF pb_dec_varint
    <3>8. r = pb_dec_varint(s, f)
      BY <2>2 DEF DecodeItem
    <3>. QED
      BY <3>6, <3>7, <3>8
  <2>. QED
    BY <1>1, <2>1, <2>2
<1>. HIDE DEF s, to
<1>3. decode_field(s, WireType(f), f, cell) = Read(r.s, [size |-> TRUE, data |-> r.v])
  BY <1>1 DEF decode_field, decode_static_field, Before, Stored
<1>. HIDE DEF r
<1>4. r.s = to /\ r.v = v
  BY <1>2 DEF Read
<1>. QED
  BY <1>3, <1>4 DEF s, to, Has

\* What is left of a field is not taken for it.
LEMMA FieldCut ==
  ASSUME NEW f, IsSimple(f), NEW cell, NEW at \in Bytes, Len(at) < PayloadSize(f)
  PROVE  decode_field(In(at, Len(at)), WireType(f), f, cell).s.ok = FALSE
<1>. DEFINE s == In(at, Len(at))
            r == DecodeItem(s, f, cell.data)
<1>1. /\ f.htype = "OPTIONAL" /\ f.counted = TRUE /\ f.atype = "STATIC"
      /\ f.ltype = "FIXED32" \/ (f.ltype = "VARINT" /\ f.size = 1)
  BY DEF IsSimple
<1>0. Len(at) \in Nat /\ s.left = Len(at) /\ s.ok = TRUE /\ IsIn(s)
  <2>1. Len(at) \in Nat /\ Len(at) \in 0..Len(at)
    BY DEF Bytes
  <2>. QED
    BY <2>1, InIs
<1>2. r.s.ok = FALSE
  <2>1. CASE f.ltype = "FIXED32"
    <3>1. ~(4 <= Len(at))
      BY <1>0, <2>1 DEF PayloadSize
    <3>. HIDE DEF s
    <3>2. pb_read(s, 4).s.ok = FALSE
      BY <1>0, <3>1 DEF pb_read, Read, FailedI, pb_istream
    <3>3. pb_decode_fixed(s, 4).s = pb_read(s, 4).s
      BY DEF pb_decode_fixed, Read
    <3>4. r = pb_decode_fixed(s, 4)
      BY <2>1 DEF DecodeItem
    <3>. QED
      BY <3>2, <3>3, <3>4
  <2>2. CASE f.ltype = "VARINT"
    <3>1. Len(at) = 0
      BY <1>0, <2>2 DEF PayloadSize
    <3>. HIDE DEF s
    <3>2. VarintLength(s) \in 0..s.left
      BY <1>0, VarintLengthBound
    <3>3. VarintLength(s) = 0
      BY <1>0, <3>1, <3>2
    <3>4. pb_decode_varint(s).s.ok = FALSE
      BY <3>3 DEF pb_decode_varint, Read, FailedI, pb_istream
    <3>5. pb_dec_varint(s, f).s.ok = FALSE
      BY <3>4 DEF pb_dec_varint, Clamped, Read, FailedI, pb_istream
    <3>. QED
      BY <2>2, <3>5 DEF DecodeItem
  <2>. QED
    BY <1>1, <2>1, <2>2
<1>3. decode_field(s, WireType(f), f, cell) = Read(r.s, [size |-> TRUE, data |-> r.v])
  BY <1>1 DEF decode_field, decode_static_field, Before, Stored
<1>. QED
  BY <1>2, <1>3 DEF Read

\* The value of a field that is not known, with its length if it has one.
Body(u) ==
  CASE u.wire = WT_VARINT -> VarintBytes(u.value)
    [] u.wire \in {WT_64BIT, WT_32BIT} -> u.value
    [] u.wire = WT_STRING -> VarintBytes(Bits(Len(u.value))) \o u.value

\* No two wire types are the same bits.
LEMMA WireTypesDiffer ==
  /\ WT_VARINT # WT_64BIT /\ WT_VARINT # WT_32BIT /\ WT_VARINT # WT_STRING
  /\ WT_STRING # WT_64BIT /\ WT_STRING # WT_32BIT /\ WT_64BIT # WT_32BIT
<1>1. 0 \in WT_64BIT /\ 0 \in WT_32BIT /\ 1 \in WT_STRING /\ 2 \in WT_32BIT
  BY DEF WT_64BIT, WT_STRING, WT_32BIT
<1>2. 0 \notin WT_VARINT /\ 1 \notin WT_VARINT /\ 0 \notin WT_STRING /\ 2 \notin WT_64BIT
  BY DEF WT_VARINT, WT_64BIT, WT_STRING
<1>. QED
  BY <1>1, <1>2, Zenon

\* The bytes behind an unknown tag, for each wire type.
LEMMA UnknownIs ==
  ASSUME NEW u, IsUnknownField(u)
  PROVE  \/ u.wire = WT_VARINT /\ Body(u) = VarintBytes(u.value) /\ u.value \subseteq Word64
         \/ u.wire = WT_64BIT /\ Body(u) = u.value /\ u.value \in Bytes /\ Len(u.value) = 8
         \/ u.wire = WT_32BIT /\ Body(u) = u.value /\ u.value \in Bytes /\ Len(u.value) = 4
         \/ /\ u.wire = WT_STRING /\ Body(u) = VarintBytes(Bits(Len(u.value))) \o u.value
            /\ u.value \in Bytes /\ Len(u.value) \in 0..(Huge - 1)
<1>2. u.wire \in {WT_VARINT, WT_64BIT, WT_32BIT, WT_STRING}
  BY DEF IsUnknownField
<1>3. /\ u.wire = WT_VARINT => Body(u) = VarintBytes(u.value)
      /\ u.wire = WT_64BIT => Body(u) = u.value
      /\ u.wire = WT_32BIT => Body(u) = u.value
      /\ u.wire = WT_STRING => Body(u) = VarintBytes(Bits(Len(u.value))) \o u.value
  BY WireTypesDiffer DEF Body
<1>4. Huge \in Nat
  BY Powers DEF Huge
<1>5. \/ u.wire = WT_VARINT /\ u.value \subseteq Word64
      \/ u.wire = WT_64BIT /\ u.value \in Bytes /\ Len(u.value) = 8
      \/ u.wire = WT_32BIT /\ u.value \in Bytes /\ Len(u.value) = 4
      \/ u.wire = WT_STRING /\ u.value \in Bytes /\ Len(u.value) < Huge
  BY DEF IsUnknownField, Bytes
<1>6. u.value \in Bytes /\ Len(u.value) < Huge => Len(u.value) \in 0..(Huge - 1)
  BY <1>4 DEF Bytes
<1>. QED
  BY <1>3, <1>5, <1>6

\* An unknown field is a tag and these bytes.
LEMMA ForeignIs ==
  ASSUME NEW u, IsUnknownField(u)
  PROVE  /\ u.tag \in 1..(2^12 - 1) /\ u.tag > 15 /\ u.wire \subseteq 0..2
         /\ Foreign(u) = VarintBytes(TagWord(u.tag, u.wire)) \o Body(u)
         /\ Body(u) \in Bytes /\ VarintBytes(TagWord(u.tag, u.wire)) \in Bytes
         /\ Len(VarintBytes(TagWord(u.tag, u.wire))) \in 1..10
<1>1. u.tag \in 1..(2^12 - 1) /\ u.tag > 15
  BY Powers DEF IsUnknownField
<1>2. u.wire \in {WT_VARINT, WT_64BIT, WT_32BIT, WT_STRING}
  BY DEF IsUnknownField
<1>3. u.wire \subseteq 0..2
  BY <1>2 DEF WT_VARINT, WT_64BIT, WT_32BIT, WT_STRING
<1>4. Foreign(u) = VarintBytes(TagWord(u.tag, u.wire)) \o Body(u)
  BY DEF Foreign, Body, TagWord
<1>5. VarintBytes(TagWord(u.tag, u.wire)) \in Bytes /\ Len(VarintBytes(TagWord(u.tag, u.wire))) \in 1..10
  <2>1. TagWord(u.tag, u.wire) \subseteq Word32 /\ Word32 \subseteq Word64
    BY <1>1, <1>3, TagWordIs DEF Word32, Word64
  <2>2. TagWord(u.tag, u.wire) \subseteq Word64
    BY <2>1, Zenon
  <2>3. <<>> \in Bytes
    BY DEF Bytes
  <2>. QED
    BY <2>2, <2>3, VarintBytesAre, VarintBefore
<1>6. Body(u) \in Bytes
  <2>1. CASE Body(u) = VarintBytes(u.value) /\ u.value \subseteq Word64
    BY <2>1, VarintBytesAre
  <2>2. CASE /\ Body(u) = VarintBytes(Bits(Len(u.value))) \o u.value
             /\ u.value \in Bytes /\ Len(u.value) \in 0..(Huge - 1)
    <3>1. Bits(Len(u.value)) \subseteq 0..15
      BY <2>2, NumberOfBits
    <3>2. 0..15 \subseteq Word64
      BY DEF Word64
    <3>3. Bits(Len(u.value)) \subseteq Word64
      BY <3>1, <3>2, Zenon
    <3>4. VarintBytes(Bits(Len(u.value))) \in Bytes
      BY <3>3, VarintBytesAre
    <3>. QED
      BY <2>2, <3>4, Lengths
  <2>. QED
    BY <2>1, <2>2, UnknownIs
<1>. QED
  BY <1>1, <1>3, <1>4, <1>5, <1>6

\* pb_skip_field drops just these bytes.
LEMMA ForeignSkipped ==
  ASSUME NEW u, IsUnknownField(u), NEW rest \in Bytes, NEW left \in Nat,
         Len(Body(u)) <= left, left <= Len(Body(u)) + Len(rest)
  PROVE  pb_skip_field(In(Body(u) \o rest, left), u.wire) = In(rest, left - Len(Body(u)))
<1>. DEFINE s == In(Body(u) \o rest, left)
<1>1. CASE u.wire = WT_VARINT
  <2>1. Body(u) = VarintBytes(u.value) /\ u.value \subseteq Word64
    BY WireTypesDiffer, <1>1, UnknownIs
  <2>2. pb_skip_field(s, u.wire) = pb_skip_varint(s)
    BY WireTypesDiffer, <1>1 DEF pb_skip_field
  <2>. QED
    BY <2>1, <2>2, Varint64First
<1>2. CASE u.wire \in {WT_64BIT, WT_32BIT}
  <2>. DEFINE n == IF u.wire = WT_64BIT THEN 8 ELSE 4
  <2>1. Body(u) = u.value
    BY WireTypesDiffer, <1>2, UnknownIs
  <2>2. u.value \in Bytes /\ Len(u.value) = n
    BY WireTypesDiffer, <1>2, UnknownIs
  <2>3. pb_skip_field(s, u.wire) = pb_read(s, n).s
    BY WireTypesDiffer, <1>2 DEF pb_skip_field
  <2>. HIDE DEF n
  <2>4. pb_read(s, n) = Read(In(rest, left - n), u.value)
    BY <2>1, <2>2, ReadFirst
  <2>. QED
    BY <2>1, <2>2, <2>3, <2>4 DEF Read
<1>3. CASE u.wire = WT_STRING
  <2>. DEFINE n == Len(u.value)
              head == VarintBytes(Bits(n))
              m == Len(head)
  <2>1. u.value \in Bytes /\ n \in 0..(Huge - 1)
    BY WireTypesDiffer, <1>3, UnknownIs
  <2>2. Body(u) = head \o u.value
    BY WireTypesDiffer, <1>3, UnknownIs
  <2>3. pb_skip_field(s, u.wire) = pb_skip_string(s)
    BY WireTypesDiffer, <1>3 DEF pb_skip_field
  <2>4. Bits(n) \subseteq 0..15 /\ NumberOf(Bits(n)) = n
    BY <2>1, NumberOfBits
  <2>5. Bits(n) \subseteq Word32 /\ Bits(n) \subseteq Word64
    <3>1. 0..15 \subseteq Word32 /\ 0..15 \subseteq Word64
      BY DEF Word32, Word64
    <3>. QED
      BY <2>4, <3>1, Zenon
  <2>6. head \in Bytes
    BY <2>5, VarintBytesAre
  <2>7. (head \o u.value) \o rest = head \o (u.value \o rest)
    <3>. HIDE DEF head
    <3>. QED
      BY <2>1, <2>6, Associative
  <2>8. /\ u.value \o rest \in Bytes /\ Len(u.value \o rest) = n + Len(rest)
        /\ m \in Nat /\ n \in Nat /\ Len(rest) \in Nat /\ Len(Body(u)) = m + n
    <3>1. /\ u.value \o rest \in Bytes /\ Len(u.value \o rest) = n + Len(rest)
          /\ n \in Nat /\ Len(rest) \in Nat
      BY <2>1, Lengths
    <3>. HIDE DEF head
    <3>2. m \in Nat /\ Len(head \o u.value) = m + n
      BY <2>1, <2>6, Lengths
    <3>. QED
      BY <2>2, <3>1, <3>2
  <2>9. m <= left /\ left <= m + (n + Len(rest)) /\ left - m \in Nat /\ n <= left - m
        /\ (left - m) - n = left - (m + n)
    <3>. DEFINE b == Len(Body(u))
                l == Len(rest)
    <3>0. m \in Nat /\ n \in Nat /\ l \in Nat /\ b = m + n
      BY <2>8, Zenon
    <3>1. b \in Nat /\ b <= left /\ left <= b + l
      <4>1. b <= left /\ left <= b + l
        OBVIOUS
      <4>. HIDE DEF b, m, n, l
      <4>. QED
        BY <3>0, <4>1
    <3>. HIDE DEF b, l, m, n
    <3>2. m <= left /\ left <= m + (n + l) /\ left - m \in Nat /\ n <= left - m /\ (left - m) - n = left - (m + n)
      BY <3>0, <3>1
    <3>. QED
      BY <3>2 DEF l
  <2>10. s = In(head \o (u.value \o rest), left)
    BY <2>2, <2>7
  <2>11. pb_decode_varint32(s) = Read(In(u.value \o rest, left - m), Bits(n))
    <3>1. Len(VarintBytes(Bits(n))) <= left /\ left <= Len(VarintBytes(Bits(n))) + Len(u.value \o rest)
      BY <2>8, <2>9
    <3>2. pb_decode_varint32(In(VarintBytes(Bits(n)) \o (u.value \o rest), left))
            = Read(In(u.value \o rest, left - m), Bits(n))
      <4>. HIDE DEF n
      <4>. QED
        BY <2>5, <2>8, <3>1, Varint32First
    <3>. QED
      BY <2>10, <3>2
  <2>12. pb_read(In(u.value \o rest, left - m), n) = Read(In(rest, (left - m) - n), u.value)
    <3>. HIDE DEF m
    <3>. QED
      BY <2>1, <2>9, ReadFirst
  <2>13. pb_skip_string(s) = pb_read(pb_decode_varint32(s).s, NumberOf(pb_decode_varint32(s).v)).s
    BY Zenon DEF pb_skip_string
  <2>14. pb_decode_varint32(s).s = In(u.value \o rest, left - m) /\ pb_decode_varint32(s).v = Bits(n)
    BY <2>11 DEF Read
  <2>15. pb_skip_string(s) = In(rest, (left - m) - n)
    <3>. HIDE DEF s, m, n
    <3>. QED
      BY <2>4, <2>12, <2>13, <2>14 DEF Read
  <2>. QED
    BY <2>3, <2>8, <2>9, <2>15
<1>. QED
  BY <1>1, <1>2, <1>3, UnknownIs

-----------------------------------------------------------------------------
(* A round of the decoder's loop.                                          *)

\* The descriptors of the robot's messages: simple fields, numbered from 1.
IsDescriptor(D) ==
  /\ Len(D) \in 1..15 /\ DOMAIN D = 1..Len(D)
  /\ \A i \in 1..Len(D) : IsSimple(D[i]) /\ D[i].tag = i

\* What the macros of the robot's messages make is a float or a bool of one byte's tag.
LEMMA RobotField ==
  ASSUME NEW tag \in 1..15, NEW name
  PROVE  /\ IsSimple(Float(tag, name)) /\ Float(tag, name).tag = tag
         /\ IsSimple(Bool(tag, name)) /\ Bool(tag, name).tag = tag
<1>1. IsSimple(Float(tag, name)) /\ Float(tag, name).tag = tag
  BY DEF Float, PB_FIELD, IsSimple
<1>2. IsSimple(Bool(tag, name)) /\ Bool(tag, name).tag = tag
  BY DEF Bool, PB_FIELD, IsSimple
<1>. QED
  BY <1>1, <1>2

\* The two descriptors, of ten and of thirteen such fields.
LEMMA RobotDescriptors ==
  /\ IsDescriptor(RequestMessage_fields) /\ Len(RequestMessage_fields) = 10
  /\ IsDescriptor(ResponseMessage_fields) /\ Len(ResponseMessage_fields) = 13
  /\ \A i \in 1..10 : RequestMessage_fields[i].ltype = "FIXED32"
  /\ \A i \in 1..13 : ResponseMessage_fields[i].ltype = IF i = 11 THEN "VARINT" ELSE "FIXED32"
<1>1. Len(RequestMessage_fields) = 10 /\ DOMAIN RequestMessage_fields = 1..10
  BY DEF RequestMessage_fields
<1>2. Len(ResponseMessage_fields) = 13 /\ DOMAIN ResponseMessage_fields = 1..13
  BY DEF ResponseMessage_fields
<1>3. ASSUME NEW i \in 1..10
      PROVE  \E name : RequestMessage_fields[i] = Float(i, name)
  BY DEF RequestMessage_fields
<1>4. ASSUME NEW i \in 1..13
      PROVE  \E name : ResponseMessage_fields[i] = IF i = 11 THEN Bool(i, name) ELSE Float(i, name)
  BY DEF ResponseMessage_fields
<1>5. \A i \in 1..10 : IsSimple(RequestMessage_fields[i]) /\ RequestMessage_fields[i].tag = i
  <2>1. \A i \in 1..10 : i \in 1..15
    OBVIOUS
  <2>. QED
    BY <1>3, <2>1, RobotField, Zenon
<1>6. \A i \in 1..13 : IsSimple(ResponseMessage_fields[i]) /\ ResponseMessage_fields[i].tag = i
  <2>1. \A i \in 1..13 : i \in 1..15
    OBVIOUS
  <2>2. ASSUME NEW i \in 1..13
        PROVE  IsSimple(ResponseMessage_fields[i]) /\ ResponseMessage_fields[i].tag = i
    <3>1. PICK name : ResponseMessage_fields[i] = IF i = 11 THEN Bool(i, name) ELSE Float(i, name)
      BY <1>4
    <3>. QED
      BY <2>1, <3>1, RobotField, Zenon
  <2>. QED
    BY <2>2
<1>7. \A tag, name : Float(tag, name).ltype = "FIXED32" /\ Bool(tag, name).ltype = "VARINT"
  BY DEF Float, Bool, PB_FIELD
<1>8. \A i \in 1..10 : RequestMessage_fields[i].ltype = "FIXED32"
  BY <1>3, <1>7, Zenon
<1>9. \A i \in 1..13 : ResponseMessage_fields[i].ltype = IF i = 11 THEN "VARINT" ELSE "FIXED32"
  <2>1. ASSUME NEW i \in 1..13
        PROVE  ResponseMessage_fields[i].ltype = IF i = 11 THEN "VARINT" ELSE "FIXED32"
    <3>1. PICK name : ResponseMessage_fields[i] = IF i = 11 THEN Bool(i, name) ELSE Float(i, name)
      BY <1>4
    <3>. QED
      BY <1>7, <3>1, Zenon
  <2>. QED
    BY <2>1
<1>. QED
  BY <1>1, <1>2, <1>5, <1>6, <1>8, <1>9 DEF IsDescriptor

\* The descriptor's field is found by its tag, and no other tag finds one.
LEMMA TagFound ==
  ASSUME NEW D, IsDescriptor(D)
  PROVE  /\ \A i \in 1..Len(D) : FieldWithTag(D, i) = i
         /\ \A tag : tag > 15 => FieldWithTag(D, tag) = 0
<1>1. DOMAIN D = 1..Len(D) /\ Len(D) \in 1..15 /\ \A i \in 1..Len(D) : D[i].tag = i
  BY DEF IsDescriptor
<1>2. ASSUME NEW i \in 1..Len(D) PROVE FieldWithTag(D, i) = i
  BY <1>1 DEF FieldWithTag
<1>3. ASSUME NEW tag, tag > 15 PROVE FieldWithTag(D, tag) = 0
  <2>1. \A i \in 1..Len(D) : D[i].tag # tag
    BY <1>1, <1>3
  <2>. QED
    BY <1>1, <2>1 DEF FieldWithTag
<1>. QED
  BY <1>2, <1>3

\* What a round does, by the tag that comes next.
LEMMA RoundEnds ==
  ASSUME NEW D, NEW s, NEW m, NEW seen, s.ok = TRUE, s.left > 0,
         pb_decode_tag(s).eof = TRUE \/ pb_decode_tag(s).s.ok = FALSE
  PROVE  DecodeField(D, Progress(s, m, seen, 0, TRUE))
           = Progress(pb_decode_tag(s).s, m, seen, 0, FALSE)
<1>. DEFINE d == Progress(s, m, seen, 0, TRUE)
<1>1. d.s = s /\ d.msg = m /\ d.seen = seen /\ d.fixed = 0 /\ d.more = TRUE
  BY DEF Progress
<1>. HIDE DEF d
<1>2. DecodeField(D, d) = Progress(pb_decode_tag(s).s, m, seen, 0, FALSE)
  BY <1>1, Zenon DEF DecodeField
<1>. QED
  BY <1>2 DEF d

\* A round of the decoder whose tag is unknown skips a field.
LEMMA RoundSkips ==
  ASSUME NEW D, NEW s, NEW m, NEW seen, s.ok = TRUE, s.left > 0,
         pb_decode_tag(s).eof = FALSE, pb_decode_tag(s).s.ok = TRUE,
         FieldWithTag(D, pb_decode_tag(s).tag) = 0
  PROVE  DecodeField(D, Progress(s, m, seen, 0, TRUE))
           = Progress(pb_skip_field(pb_decode_tag(s).s, pb_decode_tag(s).wire), m, seen, 0, TRUE)
<1>. DEFINE d == Progress(s, m, seen, 0, TRUE)
            t == pb_decode_tag(s)
<1>1. d.s = s /\ d.msg = m /\ d.seen = seen /\ d.fixed = 0 /\ d.more = TRUE
  BY DEF Progress
<1>. HIDE DEF d
<1>2. DecodeField(D, d) = Progress(pb_skip_field(t.s, t.wire), m, seen, 0, TRUE)
  BY <1>1, Zenon DEF DecodeField
<1>. QED
  BY <1>2 DEF d

Put(m, x, cell) == [m EXCEPT ![x] = cell]
FieldNext(f, s, m) == decode_field(pb_decode_tag(s).s, pb_decode_tag(s).wire, f, m[f.slot])
Reads(D, i, s, m, seen) ==
  DecodeField(D, Progress(s, m, seen, 0, TRUE))
    = Progress(FieldNext(D[i], s, m).s, Put(m, D[i].slot, FieldNext(D[i], s, m).v),
               seen \cup {i}, 0, TRUE)

\* A round whose tag is known reads the field.
LEMMA RoundReads ==
  ASSUME NEW D, NEW i, NEW s, NEW m, NEW seen, IsDescriptor(D), i \in 1..Len(D),
         s.ok = TRUE, s.left > 0, pb_decode_tag(s).eof = FALSE, pb_decode_tag(s).s.ok = TRUE,
         FieldWithTag(D, pb_decode_tag(s).tag) = i
  PROVE  Reads(D, i, s, m, seen)
<1>. DEFINE d == Progress(s, m, seen, 0, TRUE)
            t == pb_decode_tag(s)
            r == FieldNext(D[i], s, m)
<1>1. d.s = s /\ d.msg = m /\ d.seen = seen /\ d.fixed = 0 /\ d.more = TRUE
  BY DEF Progress
<1>2. ~FixedCount(D[i])
  BY DEF IsDescriptor, IsSimple, FixedCount
<1>3. i # 0
  BY DEF IsDescriptor
<1>. HIDE DEF d
<1>4. DecodeField(D, d) = Progress(r.s, Put(m, D[i].slot, r.v), seen \cup {i}, 0, TRUE)
  BY <1>1, <1>2, <1>3, Zenon DEF DecodeField, Put, FieldNext
<1>. QED
  BY <1>4 DEF d, Reads

\* A round that takes a piece: of the message and the fields seen it makes these.
Takes(D, p, rest, left, m, seen, m1, seen1) ==
  DecodeField(D, Progress(In(p \o rest, Len(p) + left), m, seen, 0, TRUE))
    = Progress(In(rest, left), m1, seen1, 0, TRUE)

\* A field that is set: its cell takes the value.
LEMMA RoundKnown ==
  ASSUME NEW D, IsDescriptor(D), NEW i \in 1..Len(D), NEW v \in FieldValues(D[i]),
         NEW m, NEW seen, NEW rest \in Bytes, NEW left \in 0..Len(rest)
  PROVE  Takes(D, Piece(D[i], Has(v)), rest, left, m, seen, Put(m, D[i].slot, Has(v)), seen \cup {i})
<1>. DEFINE f == D[i]
            p == Piece(f, Has(v))
            s == In(p \o rest, Len(p) + left)
            t == pb_decode_tag(s)
            load == Payload(f, v)
            size == PayloadSize(f)
            head == Tagged(f)
<1>1. IsSimple(f) /\ f.tag = i /\ FieldWithTag(D, i) = i /\ i # 0
  <2>1. IsSimple(D[i]) /\ D[i].tag = i /\ i # 0
    BY DEF IsDescriptor
  <2>2. FieldWithTag(D, i) = i
    BY TagFound, Zenon
  <2>. QED
    BY <2>1, <2>2
<1>. HIDE DEF f
<1>2. p = head \o load
  BY DEF Piece, Has
<1>3. /\ head \in Bytes /\ Len(head) = 1 /\ load \in Bytes /\ Len(load) = size
      /\ WireType(f) \subseteq 0..2 /\ f.tag \in 1..(2^12 - 1) /\ size \in Nat
  <2>1. v \in FieldValues(f)
    BY DEF f
  <2>. QED
    BY <1>1, <2>1, TaggedIs, PayloadIs DEF PayloadSize
<1>4. p \in Bytes /\ Len(p) = 1 + size /\ load \o rest \in Bytes /\ Len(load \o rest) = size + Len(rest)
      /\ Len(rest) \in Nat /\ p \o rest \in Bytes /\ Len(p \o rest) = (1 + size) + Len(rest)
  <2>. HIDE DEF p, head, load, size
  <2>1. p \in Bytes /\ Len(p) = 1 + size
    BY <1>2, <1>3, Lengths
  <2>2. load \o rest \in Bytes /\ Len(load \o rest) = size + Len(rest) /\ Len(rest) \in Nat
    BY <1>3, Lengths
  <2>3. p \o rest \in Bytes /\ Len(p \o rest) = (1 + size) + Len(rest)
    BY <2>1, Lengths
  <2>. QED
    BY <2>1, <2>2, <2>3
<1>5. p \o rest = head \o (load \o rest)
  <2>. HIDE DEF p, head, load
  <2>. QED
    BY <1>2, <1>3, Associative
<1>6. left \in Nat /\ left <= Len(rest)
  BY <1>4
<1>7. t = [s |-> In(load \o rest, size + left), eof |-> FALSE, tag |-> i, wire |-> WireType(f)]
  <2>1. s = In(head \o (load \o rest), (1 + size) + left)
    BY <1>4, <1>5
  <2>2. (1 + size) + left \in Nat /\ 1 <= (1 + size) + left /\ (1 + size) + left <= 1 + (size + Len(rest))
        /\ ((1 + size) + left) - 1 = size + left
    <3>. HIDE DEF size
    <3>. QED
      BY <1>3, <1>4, <1>6
  <2>3. pb_decode_tag(In(head \o (load \o rest), (1 + size) + left))
          = [s |-> In(load \o rest, ((1 + size) + left) - 1), eof |-> FALSE, tag |-> f.tag, wire |-> WireType(f)]
    <3>. DEFINE w == VarintBytes(TagWord(f.tag, WireType(f)))
                n == (1 + size) + left
                z == load \o rest
    <3>1. head = w /\ Len(w) = 1 /\ z \in Bytes /\ Len(z) = size + Len(rest) /\ n \in Nat
      BY <1>3, <1>4, <2>2 DEF Tagged
    <3>2. Len(w) <= n /\ n <= Len(w) + Len(z)
      BY <2>2, <3>1
    <3>. HIDE DEF n, z, load, size
    <3>3. pb_decode_tag(In(w \o z, n)) = [s |-> In(z, n - Len(w)), eof |-> FALSE, tag |-> f.tag, wire |-> WireType(f)]
      BY <1>3, <3>1, <3>2, TagFirst
    <3>. HIDE DEF w
    <3>4. pb_decode_tag(In(head \o z, n)) = [s |-> In(z, n - 1), eof |-> FALSE, tag |-> f.tag, wire |-> WireType(f)]
      BY <3>1, <3>3
    <3>. QED
      BY <3>4 DEF n, z
  <2>. HIDE DEF s, load, size
  <2>. QED
    BY <1>1, <2>1, <2>2, <2>3
<1>8. s.ok = TRUE /\ s.left > 0
  <2>1. Len(p) + left \in 0..Len(p \o rest) /\ Len(p) + left > 0
    <3>. HIDE DEF p, size
    <3>. QED
      BY <1>3, <1>4, <1>6
  <2>2. s.ok = TRUE /\ s.left = Len(p) + left
    <3>. HIDE DEF p
    <3>. QED
      BY <1>4, <2>1, InIs
  <2>. QED
    BY <2>1, <2>2
<1>9. /\ t.s = In(load \o rest, size + left) /\ t.eof = FALSE /\ t.tag = i /\ t.wire = WireType(f)
      /\ t.s.ok = TRUE
  <2>1. size + left \in 0..Len(load \o rest)
    <3>. HIDE DEF load, size
    <3>. QED
      BY <1>3, <1>4, <1>6
  <2>2. In(load \o rest, size + left).ok = TRUE
    <3>. HIDE DEF load, size
    <3>. QED
      BY <1>4, <2>1, InIs
  <2>. HIDE DEF t, load, size
  <2>. QED
    BY <1>7, <2>2
<1>. DEFINE r == FieldNext(f, s, m)
<1>10. r = Read(In(rest, left), Has(v))
  <2>1. v \in FieldValues(f)
    BY DEF f
  <2>2. size + left \in Nat /\ size <= size + left /\ size + left <= size + Len(rest) /\ (size + left) - size = left
    <3>. HIDE DEF size
    <3>. QED
      BY <1>3, <1>4, <1>6
  <2>. DEFINE n == size + left
  <2>. HIDE DEF n
  <2>3. decode_field(In(Payload(f, v) \o rest, n), WireType(f), f, m[f.slot])
          = Read(In(rest, n - PayloadSize(f)), Has(v))
    BY <1>1, <2>1, <2>2, FieldRead DEF n
  <2>4. r = decode_field(t.s, t.wire, f, m[f.slot])
    BY DEF FieldNext
  <2>. HIDE DEF t, r
  <2>. QED
    BY <1>9, <2>2, <2>3, <2>4 DEF n
<1>11. DecodeField(D, Progress(s, m, seen, 0, TRUE))
         = Progress(r.s, Put(m, f.slot, r.v), seen \cup {i}, 0, TRUE)
  <2>1. t.eof = FALSE /\ t.s.ok = TRUE /\ FieldWithTag(D, t.tag) = i
    <3>. HIDE DEF t
    <3>. QED
      BY <1>1, <1>9
  <2>. HIDE DEF s
  <2>4. Reads(D, i, s, m, seen)
    BY <1>8, <2>1, RoundReads
  <2>. QED
    BY <2>4 DEF Reads, f
<1>12. r.s = In(rest, left) /\ r.v = Has(v)
  <2>. HIDE DEF r
  <2>. QED
    BY <1>10 DEF Read
<1>. HIDE DEF r
<1>. QED
  BY <1>11, <1>12 DEF f, Takes

\* A field that is not known: the stream is behind it, and nothing else happens.
LEMMA RoundForeign ==
  ASSUME NEW D, IsDescriptor(D), NEW u, IsUnknownField(u),
         NEW m, NEW seen, NEW rest \in Bytes, NEW left \in 0..Len(rest)
  PROVE  /\ Foreign(u) \in Bytes /\ Len(Foreign(u)) > 0
         /\ Takes(D, Foreign(u), rest, left, m, seen, m, seen)
<1>. DEFINE p == Foreign(u)
            s == In(p \o rest, Len(p) + left)
            t == pb_decode_tag(s)
            head == VarintBytes(TagWord(u.tag, u.wire))
            body == Body(u)
<1>1. /\ u.tag \in 1..(2^12 - 1) /\ u.tag > 15 /\ u.wire \subseteq 0..2
      /\ p = head \o body /\ body \in Bytes /\ head \in Bytes /\ Len(head) \in 1..10
  BY ForeignIs
<1>2. FieldWithTag(D, u.tag) = 0
  BY <1>1, TagFound
<1>. HIDE DEF p, head, body
<1>3. /\ p \in Bytes /\ Len(p) = Len(head) + Len(body) /\ Len(body) \in Nat /\ Len(rest) \in Nat
      /\ body \o rest \in Bytes /\ Len(body \o rest) = Len(body) + Len(rest)
      /\ p \o rest \in Bytes /\ Len(p \o rest) = Len(p) + Len(rest)
      /\ p \o rest = head \o (body \o rest)
  <2>1. p \in Bytes /\ Len(p) = Len(head) + Len(body) /\ Len(body) \in Nat
    BY <1>1, Lengths
  <2>2. body \o rest \in Bytes /\ Len(body \o rest) = Len(body) + Len(rest) /\ Len(rest) \in Nat
    BY <1>1, Lengths
  <2>3. p \o rest \in Bytes /\ Len(p \o rest) = Len(p) + Len(rest)
    BY <2>1, Lengths
  <2>4. p \o rest = head \o (body \o rest)
    BY <1>1, Associative
  <2>. QED
    BY <2>1, <2>2, <2>3, <2>4
<1>. DEFINE h == Len(head)
            b == Len(body)
            n == Len(p) + left
            l == Len(rest)
<1>4. h \in 1..10 /\ b \in Nat /\ l \in Nat /\ left \in Nat /\ left <= l /\ n = h + b + left /\ Len(p) = h + b
  BY <1>1, <1>3
<1>5. /\ n \in Nat /\ n > 0 /\ n \in 0..(Len(p) + l) /\ h <= n /\ n <= h + (b + l) /\ n - h \in Nat
      /\ b <= n - h /\ n - h <= b + l /\ n - h \in 0..(b + l) /\ (n - h) - b = left
  <2>1. Len(p) + l = h + b + l
    BY <1>4
  <2>. HIDE DEF n, h, b, l
  <2>. QED
    BY <1>4, <2>1
<1>6. s.ok = TRUE /\ s.left = n
  <2>1. n \in 0..Len(p \o rest)
    BY <1>3, <1>5
  <2>. HIDE DEF n
  <2>. QED
    BY <1>3, <2>1, InIs DEF n
<1>7. t = [s |-> In(body \o rest, n - h), eof |-> FALSE, tag |-> u.tag, wire |-> u.wire]
  <2>. DEFINE z == body \o rest
  <2>1. z \in Bytes /\ h <= n /\ n <= h + Len(z) /\ n \in Nat
    BY <1>3, <1>5
  <2>2. s = In(head \o z, n)
    BY <1>3
  <2>. HIDE DEF n, z
  <2>3. pb_decode_tag(In(head \o z, n)) = [s |-> In(z, n - h), eof |-> FALSE, tag |-> u.tag, wire |-> u.wire]
    BY <1>1, <2>1, TagFirst DEF head
  <2>. HIDE DEF s, h
  <2>. QED
    BY <2>2, <2>3 DEF z
<1>8. In(body \o rest, n - h).ok = TRUE
  <2>1. n - h \in 0..Len(body \o rest)
    BY <1>3, <1>5
  <2>. HIDE DEF n, h
  <2>. QED
    BY <1>3, <2>1, InIs
<1>9. pb_skip_field(In(body \o rest, n - h), u.wire) = In(rest, left)
  <2>. DEFINE k == n - h
  <2>1. k \in Nat /\ b <= k /\ k <= b + l /\ k - b = left
    BY <1>5
  <2>. HIDE DEF k
  <2>2. pb_skip_field(In(body \o rest, k), u.wire) = In(rest, k - b)
    BY <2>1, ForeignSkipped DEF body
  <2>. QED
    BY <2>1, <2>2 DEF k
<1>. DEFINE d == Progress(s, m, seen, 0, TRUE)
<1>10. DecodeField(D, d) = Progress(In(rest, left), m, seen, 0, TRUE)
  <2>. HIDE DEF t, s, n, h
  <2>2. t.s = In(body \o rest, n - h) /\ t.eof = FALSE /\ t.tag = u.tag /\ t.wire = u.wire
    BY <1>7
  <2>3. t.eof = FALSE /\ t.s.ok = TRUE /\ FieldWithTag(D, t.tag) = 0
    BY <1>2, <1>8, <2>2
  <2>4. s.ok = TRUE /\ s.left > 0
    BY <1>5, <1>6
  <2>5. DecodeField(D, d) = Progress(pb_skip_field(t.s, t.wire), m, seen, 0, TRUE)
    BY <2>3, <2>4, RoundSkips DEF t
  <2>. QED
    BY <1>9, <2>2, <2>5
<1>11. p \in Bytes /\ Len(p) > 0
  <2>1. h \in 1..10 /\ b \in Nat /\ Len(p) = h + b
    BY <1>4
  <2>2. h + b > 0
    <3>. HIDE DEF h, b
    <3>. QED
      BY <2>1
  <2>. QED
    BY <1>3, <2>1, <2>2
<1>. QED
  BY <1>10, <1>11 DEF p, Takes

\* The first bytes of a stream.
LEMMA CutIs ==
  ASSUME NEW a \in Bytes, NEW n \in 0..Len(a)
  PROVE  SubSeq(a, 1, n) \in Bytes /\ Len(SubSeq(a, 1, n)) = n
<1>1. Len(a) \in Nat
  BY DEF Bytes
<1>2. n \in Nat /\ n <= Len(a)
  BY <1>1
<1>. QED
  BY <1>2 DEF Bytes

\* Bytes cut inside of the first part.
LEMMA CutBefore ==
  ASSUME NEW a \in Bytes, NEW b \in Bytes, NEW n \in 0..Len(a)
  PROVE  SubSeq(a \o b, 1, n) = SubSeq(a, 1, n)
<1>1. Len(a) \in Nat
  BY DEF Bytes
<1>2. n \in Nat /\ n <= Len(a)
  BY <1>1
<1>. QED
  BY <1>2 DEF Bytes

\* Bytes cut inside of the second part.
LEMMA CutBehind ==
  ASSUME NEW a \in Bytes, NEW b \in Bytes, NEW n \in 0..Len(b)
  PROVE  SubSeq(a \o b, 1, Len(a) + n) = a \o SubSeq(b, 1, n)
<1>1. Len(a) \in Nat /\ Len(b) \in Nat
  BY DEF Bytes
<1>2. n \in Nat /\ n <= Len(b)
  BY <1>1
<1>. DEFINE x == SubSeq(a \o b, 1, Len(a) + n)
            y == SubSeq(b, 1, n)
<1>3. y \in Bytes /\ Len(y) = n /\ \A i \in 1..n : y[i] = b[i]
  BY <1>2 DEF Bytes
<1>4. a \o b \in Bytes /\ Len(a \o b) = Len(a) + Len(b)
      /\ \A i \in 1..(Len(a) + Len(b)) : (a \o b)[i] = IF i <= Len(a) THEN a[i] ELSE b[i - Len(a)]
  BY ConcatProperties DEF Bytes
<1>5. x \in Bytes /\ Len(x) = Len(a) + n /\ \A i \in 1..(Len(a) + n) : x[i] = (a \o b)[i]
  <2>1. Len(a) + n \in 0..Len(a \o b)
    BY <1>1, <1>2, <1>4
  <2>2. x \in Bytes /\ Len(x) = Len(a) + n
    BY <1>4, <2>1, CutIs
  <2>3. \A i \in 1..(Len(a) + n) : x[i] = (a \o b)[i]
    <3>. DEFINE c == a \o b
                k == Len(a) + n
    <3>1. c \in Bytes /\ k \in Nat /\ k <= Len(c)
      BY <1>1, <1>2, <1>4
    <3>. HIDE DEF c, k
    <3>2. \A i \in 1..k : SubSeq(c, 1, k)[i] = c[i]
      BY <3>1 DEF Bytes
    <3>. QED
      BY <3>2 DEF c, k
  <2>. QED
    BY <2>2, <2>3
<1>. HIDE DEF x, y
<1>6. a \o y \in Bytes /\ Len(a \o y) = Len(a) + n
      /\ \A i \in 1..(Len(a) + n) : (a \o y)[i] = IF i <= Len(a) THEN a[i] ELSE y[i - Len(a)]
  BY <1>3, ConcatProperties DEF Bytes
<1>7. ASSUME NEW i \in 1..Len(x) PROVE x[i] = (a \o y)[i]
  <2>1. i \in 1..(Len(a) + n) /\ i \in 1..(Len(a) + Len(b))
    BY <1>1, <1>2, <1>5
  <2>2. x[i] = IF i <= Len(a) THEN a[i] ELSE b[i - Len(a)]
    BY <1>4, <1>5, <2>1
  <2>3. (a \o y)[i] = IF i <= Len(a) THEN a[i] ELSE y[i - Len(a)]
    BY <1>6, <2>1
  <2>4. ~(i <= Len(a)) => i - Len(a) \in 1..n
    BY <1>1, <1>2, <2>1
  <2>. QED
    BY <1>3, <2>2, <2>3, <2>4, Zenon
<1>8. x = a \o y
  BY <1>5, <1>6, <1>7, SeqEqual DEF Bytes
<1>. QED
  BY <1>8 DEF x, y

\* Part of a field: the decoder fails.
Fails(D, at, n, m, seen) ==
  LET d == DecodeField(D, Progress(In(at, n), m, seen, 0, TRUE))
  IN  d.s.ok = FALSE /\ d.fixed = 0

\* A round fails when its field lost its end.
LEMMA RoundCut ==
  ASSUME NEW D, IsDescriptor(D), NEW i \in 1..Len(D), NEW v \in FieldValues(D[i]),
         NEW m, NEW seen, NEW n \in 1..(Len(Piece(D[i], Has(v))) - 1)
  PROVE  Fails(D, SubSeq(Piece(D[i], Has(v)), 1, n), n, m, seen)
<1>. DEFINE f == D[i]
            p == Piece(f, Has(v))
            s == In(SubSeq(p, 1, n), n)
            t == pb_decode_tag(s)
            load == Payload(f, v)
            size == PayloadSize(f)
            head == Tagged(f)
            rest == SubSeq(load, 1, n - 1)
<1>1. IsSimple(f) /\ f.tag = i /\ FieldWithTag(D, i) = i /\ i # 0
  <2>1. IsSimple(D[i]) /\ D[i].tag = i /\ i # 0
    BY DEF IsDescriptor
  <2>2. FieldWithTag(D, i) = i
    BY TagFound, Zenon
  <2>. QED
    BY <2>1, <2>2
<1>2. p = head \o load
  BY DEF Piece, Has
<1>3. /\ head \in Bytes /\ Len(head) = 1 /\ load \in Bytes /\ Len(load) = size
      /\ WireType(f) \subseteq 0..2 /\ f.tag \in 1..(2^12 - 1) /\ size \in Nat
  <2>1. v \in FieldValues(f)
    BY DEF f
  <2>. HIDE DEF f
  <2>. QED
    BY <1>1, <2>1, TaggedIs, PayloadIs DEF PayloadSize
<1>. HIDE DEF f
<1>4. n \in 1..(Len(p) - 1)
  BY DEF f
<1>5. Len(p) = 1 + size
  <2>. HIDE DEF p, head, load, size
  <2>. QED
    BY <1>2, <1>3, Lengths
<1>6. n \in Nat /\ n - 1 \in 0..size /\ n - 1 < size /\ 1 + (n - 1) = n /\ n > 0
  <2>. HIDE DEF p, size
  <2>. QED
    BY <1>3, <1>4, <1>5
<1>7. rest \in Bytes /\ Len(rest) = n - 1
  <2>. HIDE DEF load, size
  <2>. QED
    BY <1>3, <1>6, CutIs
<1>8. SubSeq(p, 1, n) = head \o rest
  <2>. DEFINE k == n - 1
  <2>. HIDE DEF head, load, size, p, k
  <2>1. SubSeq(head \o load, 1, Len(head) + k) = head \o SubSeq(load, 1, k)
    BY <1>3, <1>6, CutBehind DEF k
  <2>2. Len(head) + k = n
    BY <1>3, <1>6 DEF k
  <2>. QED
    BY <1>2, <2>1, <2>2 DEF k
<1>. HIDE DEF p, rest, size, load
<1>9. t = [s |-> In(rest, n - 1), eof |-> FALSE, tag |-> i, wire |-> WireType(f)]
  <2>. DEFINE w == VarintBytes(TagWord(f.tag, WireType(f)))
  <2>1. head = w /\ Len(w) = 1
    BY <1>3 DEF Tagged
  <2>2. Len(w) <= n /\ n <= Len(w) + Len(rest)
    BY <1>6, <1>7, <2>1
  <2>3. pb_decode_tag(In(w \o rest, n)) = [s |-> In(rest, n - Len(w)), eof |-> FALSE, tag |-> f.tag, wire |-> WireType(f)]
    BY <1>3, <1>6, <1>7, <2>2, TagFirst
  <2>. HIDE DEF w, head
  <2>. QED
    BY <1>1, <1>8, <2>1, <2>3
<1>10. s.ok = TRUE /\ s.left > 0 /\ In(rest, n - 1).ok = TRUE
  <2>1. head \o rest \in Bytes /\ Len(head \o rest) = n
    <3>. HIDE DEF head
    <3>1. head \o rest \in Bytes /\ Len(head \o rest) = 1 + (n - 1)
      BY <1>3, <1>7, Lengths
    <3>. QED
      BY <1>6, <3>1
  <2>2. n \in 0..Len(head \o rest) /\ n - 1 \in 0..Len(rest)
    BY <1>6, <1>7, <2>1
  <2>. HIDE DEF head
  <2>3. In(head \o rest, n).ok = TRUE /\ In(head \o rest, n).left = n
    BY <2>1, <2>2, InIs
  <2>4. In(rest, n - 1).ok = TRUE
    BY <1>7, <2>2, InIs
  <2>. QED
    BY <1>6, <1>8, <2>3, <2>4
<1>11. /\ t.s = In(rest, n - 1) /\ t.wire = WireType(f)
       /\ t.eof = FALSE /\ t.s.ok = TRUE /\ FieldWithTag(D, t.tag) = i
  <2>. HIDE DEF t
  <2>. QED
    BY <1>1, <1>9, <1>10
<1>12. FieldNext(f, s, m).s.ok = FALSE
  <2>1. FieldNext(f, s, m) = decode_field(t.s, t.wire, f, m[f.slot])
    BY DEF FieldNext
  <2>2. Len(rest) < PayloadSize(f)
    BY <1>6, <1>7 DEF size
  <2>3. decode_field(In(rest, Len(rest)), WireType(f), f, m[f.slot]).s.ok = FALSE
    BY <1>1, <1>7, <2>2, FieldCut
  <2>. HIDE DEF t
  <2>. QED
    BY <1>7, <1>11, <2>1, <2>3
<1>13. Reads(D, i, s, m, seen)
  <2>. HIDE DEF s
  <2>. QED
    BY <1>10, <1>11, RoundReads
<1>14. /\ DecodeField(D, Progress(s, m, seen, 0, TRUE)).s = FieldNext(f, s, m).s
       /\ DecodeField(D, Progress(s, m, seen, 0, TRUE)).fixed = 0
  <2>. HIDE DEF s
  <2>. QED
    BY <1>13 DEF Reads, Progress, f
<1>. QED
  BY <1>12, <1>14 DEF p, f, Fails

\* A zero: the message ends there.
Stops(D, rest, left, m, seen) ==
  DecodeField(D, Progress(In(<<{}>> \o rest, 1 + left), m, seen, 0, TRUE))
    = Progress(In(rest, left), m, seen, 0, FALSE)

\* A round ends the loop when its tag is zero, as a terminator is.
LEMMA RoundZero ==
  ASSUME NEW D, NEW m, NEW seen, NEW rest \in Bytes, NEW left \in 0..Len(rest)
  PROVE  Stops(D, rest, left, m, seen)
<1>. DEFINE s == In(<<{}>> \o rest, 1 + left)
<1>1. VarintBytes({}) = <<{}>>
  <2>1. VarintBytes({}) \in Bytes /\ Len(VarintBytes({})) = 1
    BY SmallVarint
  <2>2. {} \subseteq Word64
    OBVIOUS
  <2>3. IsVarint(VarintBytes({}), Len(VarintBytes({})), {})
    BY <2>2, VarintBytesAre
  <2>. DEFINE v == VarintBytes({})
  <2>. HIDE DEF v
  <2>4. v \in Bytes /\ Len(v) = 1 /\ IsVarint(v, 1, {})
    BY <2>1, <2>3 DEF v
  <2>5. v[1] = {}
    BY <2>4 DEF IsVarint, Bytes, Word8
  <2>6. v = <<{}>>
    BY <2>4, <2>5 DEF Bytes
  <2>. QED
    BY <2>6 DEF v
<1>2. Len(rest) \in Nat /\ left \in Nat /\ left <= Len(rest)
  BY DEF Bytes
<1>3. pb_decode_varint32(s) = Read(In(rest, left), {})
  <2>. DEFINE v == VarintBytes({})
              n == 1 + left
  <2>0. {} \subseteq Word32
    OBVIOUS
  <2>a. Len(v) = 1
    BY SmallVarint
  <2>1. n \in Nat /\ Len(v) <= n /\ n <= Len(v) + Len(rest) /\ n - 1 = left
    <3>. HIDE DEF v
    <3>. QED
      BY <1>2, <2>a
  <2>. HIDE DEF n
  <2>2. pb_decode_varint32(In(v \o rest, n)) = Read(In(rest, n - Len(v)), {})
    BY <2>0, <2>1, Varint32First
  <2>. HIDE DEF v
  <2>3. v = <<{}>>
    BY <1>1 DEF v
  <2>. QED
    BY <2>a, <2>1, <2>2, <2>3 DEF n
<1>4. In(rest, left).ok = TRUE
  BY InIs
<1>5. s.ok = TRUE /\ s.left > 0
  BY <1>2 DEF In, pb_istream
<1>. HIDE DEF s
<1>6. pb_decode_tag(s).eof = TRUE /\ pb_decode_tag(s).s = In(rest, left)
  <2>. DEFINE r == pb_decode_varint32(s)
  <2>1. r.s = In(rest, left) /\ r.v = {}
    BY <1>3 DEF Read
  <2>2. pb_decode_tag(s) = [s |-> r.s, eof |-> r.s.ok /\ r.v = {}, tag |-> NumberOf(Shr(r.v, 3)),
                            wire |-> r.v \cap (0..2)]
    BY Zenon DEF pb_decode_tag
  <2>. HIDE DEF r
  <2>3. pb_decode_tag(s).s = r.s /\ pb_decode_tag(s).eof = (r.s.ok /\ r.v = {})
    BY <2>2
  <2>4. r.s.ok = TRUE
    BY <1>4, <2>1
  <2>. QED
    BY <2>1, <2>3, <2>4
<1>7. DecodeField(D, Progress(s, m, seen, 0, TRUE)) = Progress(pb_decode_tag(s).s, m, seen, 0, FALSE)
  BY <1>5, <1>6, RoundEnds
<1>. QED
  BY <1>6, <1>7 DEF s, Stops

\* Behind the end, after an error and after a zero nothing happens.
LEMMA RoundRests ==
  ASSUME NEW D, NEW d, d.more = FALSE \/ d.s.ok = FALSE \/ ~(d.s.left > 0)
  PROVE  DecodeField(D, d) = d
BY Zenon DEF DecodeField

-----------------------------------------------------------------------------
(* Recursive functions on the numbers up to a bound, and flat sequences.   *)

\* Induction up to a bound.
LEMMA NumbersUpTo ==
  ASSUME NEW N \in Nat, NEW T, 0 \in T, \A n \in 0..(N - 1) : n \in T => n + 1 \in T
  PROVE  \A n \in 0..N : n \in T
<1>. DEFINE U == {n \in Nat : n <= N => n \in T}
<1>1. U \subseteq Nat /\ 0 \in U
  OBVIOUS
<1>2. ASSUME NEW n \in U PROVE n + 1 \in U
  <2>. SUFFICES ASSUME n + 1 <= N PROVE n + 1 \in T
    OBVIOUS
  <2>1. n \in 0..(N - 1) /\ n <= N
    OBVIOUS
  <2>. QED
    BY <2>1
<1>3. U = Nat
  <2>. HIDE DEF U
  <2>. QED
    BY <1>1, <1>2, AllNumbers
<1>. QED
  BY <1>3

\* f, up to n, is what the recursion says.
UpTo(f, n, S, a, g) ==
  /\ f \in [0..n -> S] /\ f[0] = a
  /\ \A k \in 1..n : f[k] = g[<<k, f[k-1]>>]

\* Recursion up to a bound defines a function.
LEMMA RecursionUpTo ==
  ASSUME NEW S, NEW a \in S, NEW N \in Nat, NEW g \in [(1..N) \X S -> S]
  PROVE  \E f : UpTo(f, N, S, a, g)
<1>. DEFINE T == {n \in Nat : n <= N => \E f : UpTo(f, n, S, a, g)}
<1>1. 0 \in T
  <2>. DEFINE f == [k \in 0..0 |-> a]
  <2>1. UpTo(f, 0, S, a, g)
    BY DEF UpTo
  <2>. QED
    BY <2>1
<1>2. ASSUME NEW n \in 0..(N - 1), n \in T PROVE n + 1 \in T
  <2>0. n \in Nat /\ n <= N
    OBVIOUS
  <2>1. PICK f : UpTo(f, n, S, a, g)
    BY <1>2, <2>0
  <2>. DEFINE v == g[<<n + 1, f[n]>>]
              h == [k \in 0..(n + 1) |-> IF k = n + 1 THEN v ELSE f[k]]
  <2>2. f \in [0..n -> S] /\ f[0] = a /\ \A k \in 1..n : f[k] = g[<<k, f[k-1]>>]
    BY <2>1 DEF UpTo
  <2>3. v \in S
    <3>1. f[n] \in S /\ n + 1 \in 1..N
      BY <2>0, <2>2
    <3>. QED
      BY <3>1
  <2>. HIDE DEF v
  <2>4. h \in [0..(n + 1) -> S] /\ h[0] = a
    BY <2>0, <2>2, <2>3
  <2>5. ASSUME NEW k \in 1..(n + 1) PROVE h[k] = g[<<k, h[k-1]>>]
    <3>1. k - 1 \in 0..n /\ h[k-1] = f[k-1]
      BY <2>0
    <3>2. CASE k = n + 1
      <4>1. k - 1 = n /\ h[k] = v
        BY <2>0, <3>2
      <4>. QED
        BY <3>1, <3>2, <4>1 DEF v
    <3>3. CASE k # n + 1
      <4>1. k \in 1..n /\ h[k] = f[k]
        BY <2>0, <3>3
      <4>. QED
        BY <2>2, <3>1, <4>1
    <3>. QED
      BY <3>2, <3>3
  <2>6. UpTo(h, n + 1, S, a, g)
    BY <2>4, <2>5 DEF UpTo
  <2>. QED
    BY <2>0, <2>6
<1>3. N \in T
  <2>1. \A n \in 0..N : n \in T
    <3>. HIDE DEF T
    <3>. QED
      BY <1>1, <1>2, NumbersUpTo
  <2>. QED
    BY <2>1
<1>. QED
  BY <1>3

\* pre[k] is what the first k pieces make.
IsFlat(pre, pieces) ==
  /\ pre \in [0..Len(pieces) -> Bytes] /\ pre[0] = <<>>
  /\ \A k \in 1..Len(pieces) : pre[k] = pre[k-1] \o pieces[k]

\* Flat is the last of the joins it is defined by.
LEMMA FlatIs ==
  ASSUME NEW pieces \in Seq(Bytes)
  PROVE  \E pre : IsFlat(pre, pieces) /\ pre[Len(pieces)] = Flat(pieces)
<1>. DEFINE N == Len(pieces)
            g == [x \in (1..N) \X Bytes |-> x[2] \o pieces[x[1]]]
            upTo == CHOOSE u : u = [n \in 0..N |-> IF n = 0 THEN <<>> ELSE u[n-1] \o pieces[n]]
<1>1. N \in Nat /\ \A k \in 1..N : pieces[k] \in Bytes
  OBVIOUS
<1>2. <<>> \in Bytes
  BY DEF Bytes
<1>3. g \in [(1..N) \X Bytes -> Bytes]
  <2>1. ASSUME NEW x \in (1..N) \X Bytes PROVE x[2] \o pieces[x[1]] \in Bytes
    <3>1. x[2] \in Bytes /\ pieces[x[1]] \in Bytes
      BY <1>1
    <3>. QED
      BY <3>1, Lengths
  <2>. QED
    BY <2>1
<1>4. PICK f : UpTo(f, N, Bytes, <<>>, g)
  <2>. HIDE DEF g, N
  <2>. QED
    BY <1>1, <1>2, <1>3, RecursionUpTo
<1>5. f = [n \in 0..N |-> IF n = 0 THEN <<>> ELSE f[n-1] \o pieces[n]]
  <2>1. f \in [0..N -> Bytes] /\ f[0] = <<>> /\ \A k \in 1..N : f[k] = g[<<k, f[k-1]>>]
    BY <1>4 DEF UpTo
  <2>2. \A k \in 1..N : f[k] = f[k-1] \o pieces[k]
    BY <1>1, <2>1
  <2>3. \A n \in 0..N : n = 0 \/ n \in 1..N
    BY <1>1
  <2>. HIDE DEF g, N
  <2>. QED
    BY <2>1, <2>2, <2>3
<1>6. upTo = [n \in 0..N |-> IF n = 0 THEN <<>> ELSE upTo[n-1] \o pieces[n]]
  BY <1>5
<1>. HIDE DEF upTo
<1>7. upTo[0] = <<>> /\ \A k \in 1..N : upTo[k] = upTo[k-1] \o pieces[k]
  BY <1>1, <1>6
<1>8. \A n \in 0..N : n \in {m \in 0..N : upTo[m] \in Bytes}
  <2>. DEFINE T == {m \in 0..N : upTo[m] \in Bytes}
  <2>1. 0 \in T
    BY <1>1, <1>2, <1>7
  <2>2. ASSUME NEW n \in 0..(N - 1), n \in T PROVE n + 1 \in T
    <3>1. n + 1 \in 1..N /\ (n + 1) - 1 = n
      BY <1>1
    <3>2. upTo[n+1] = upTo[n] \o pieces[n+1]
      BY <1>7, <3>1
    <3>3. upTo[n+1] \in Bytes
      BY <1>1, <2>2, <3>1, <3>2, Lengths
    <3>. QED
      BY <3>1, <3>3
  <2>. HIDE DEF T, N
  <2>. QED
    BY <1>1, <2>1, <2>2, NumbersUpTo DEF T
<1>9. IsFlat(upTo, pieces)
  BY <1>6, <1>7, <1>8 DEF IsFlat
<1>10. upTo[N] = Flat(pieces)
  BY DEF Flat, upTo
<1>. QED
  BY <1>9, <1>10

\* rest[j] is what is behind the first j pieces.
IsRest(rest, pieces, tail) ==
  /\ rest \in [0..Len(pieces) -> Bytes] /\ rest[Len(pieces)] = tail
  /\ \A j \in 0..(Len(pieces) - 1) : rest[j] = pieces[j+1] \o rest[j+1]

\* The bytes that remain behind each piece.
LEMMA RestIs ==
  ASSUME NEW pieces \in Seq(Bytes), NEW tail \in Bytes
  PROVE  \E rest : IsRest(rest, pieces, tail) /\ rest[0] = Flat(pieces) \o tail
<1>. DEFINE N == Len(pieces)
            g == [x \in (1..N) \X Bytes |-> pieces[N - x[1] + 1] \o x[2]]
<1>1. N \in Nat /\ \A k \in 1..N : pieces[k] \in Bytes
  OBVIOUS
<1>2. g \in [(1..N) \X Bytes -> Bytes]
  <2>1. ASSUME NEW x \in (1..N) \X Bytes PROVE pieces[N - x[1] + 1] \o x[2] \in Bytes
    <3>1. x[1] \in 1..N /\ x[2] \in Bytes
      OBVIOUS
    <3>2. N - x[1] + 1 \in 1..N
      BY <1>1, <3>1
    <3>3. pieces[N - x[1] + 1] \in Bytes
      BY <1>1, <3>2
    <3>. QED
      BY <3>1, <3>3, Lengths
  <2>. QED
    BY <2>1
<1>3. PICK f : UpTo(f, N, Bytes, tail, g)
  <2>. HIDE DEF g, N
  <2>. QED
    BY <1>1, <1>2, RecursionUpTo
<1>4. f \in [0..N -> Bytes] /\ f[0] = tail /\ \A k \in 1..N : f[k] = g[<<k, f[k-1]>>]
  BY <1>3 DEF UpTo
<1>. DEFINE rest == [j \in 0..N |-> f[N - j]]
<1>5. rest \in [0..N -> Bytes] /\ rest[N] = tail
  <2>1. \A j \in 0..N : N - j \in 0..N
    BY <1>1
  <2>2. N \in 0..N /\ N - N = 0
    BY <1>1
  <2>. HIDE DEF N, g
  <2>. QED
    BY <1>4, <2>1, <2>2
<1>6. ASSUME NEW j \in 0..(N - 1) PROVE rest[j] = pieces[j+1] \o rest[j+1]
  <2>1. N - j \in 1..N /\ (N - j) - 1 = N - (j + 1) /\ N - (N - j) + 1 = j + 1 /\ j \in 0..N /\ j + 1 \in 0..N
        /\ (N - j) - 1 \in 0..N
    BY <1>1
  <2>2. f[N - j] = g[<<N - j, f[(N - j) - 1]>>]
    <3>. HIDE DEF g, N
    <3>. QED
      BY <1>4, <2>1
  <2>3. g[<<N - j, f[(N - j) - 1]>>] = pieces[N - (N - j) + 1] \o f[(N - j) - 1]
    <3>1. f[(N - j) - 1] \in Bytes
      BY <1>4, <2>1
    <3>. HIDE DEF N
    <3>. QED
      BY <2>1, <3>1
  <2>4. rest[j] = f[N - j] /\ rest[j+1] = f[N - (j + 1)]
    BY <2>1
  <2>. HIDE DEF g, N, rest
  <2>. QED
    BY <2>1, <2>2, <2>3, <2>4
<1>. HIDE DEF rest, g
<1>7. IsRest(rest, pieces, tail)
  BY <1>5, <1>6 DEF IsRest
<1>8. PICK pre : IsFlat(pre, pieces) /\ pre[N] = Flat(pieces)
  BY FlatIs
<1>9. pre \in [0..N -> Bytes] /\ pre[0] = <<>> /\ \A k \in 1..N : pre[k] = pre[k-1] \o pieces[k]
  BY <1>8 DEF IsFlat
<1>10. \A n \in 0..N : n \in {j \in 0..N : pre[j] \o rest[j] = rest[0]}
  <2>. DEFINE T == {j \in 0..N : pre[j] \o rest[j] = rest[0]}
  <2>1. 0 \in T
    <3>1. 0 \in 0..N /\ rest[0] \in Bytes
      BY <1>1, <1>5
    <3>. QED
      BY <1>9, <3>1, Nothing
  <2>2. ASSUME NEW n \in 0..(N - 1), n \in T PROVE n + 1 \in T
    <3>1. n + 1 \in 1..N /\ (n + 1) - 1 = n /\ n \in 0..N /\ n + 1 \in 0..N
      BY <1>1
    <3>2. pre[n+1] = pre[n] \o pieces[n+1]
      BY <1>9, <3>1
    <3>3. rest[n] = pieces[n+1] \o rest[n+1]
      BY <1>6
    <3>4. pre[n] \in Bytes /\ pieces[n+1] \in Bytes /\ rest[n+1] \in Bytes
      BY <1>1, <1>5, <1>9, <3>1
    <3>a. (pre[n] \o pieces[n+1]) \o rest[n+1] = pre[n] \o (pieces[n+1] \o rest[n+1])
      BY <3>4, Associative
    <3>5. pre[n+1] \o rest[n+1] = pre[n] \o rest[n]
      BY <3>2, <3>3, <3>a, Zenon
    <3>. QED
      BY <2>2, <3>1, <3>5
  <2>. HIDE DEF T, N
  <2>. QED
    BY <1>1, <2>1, <2>2, NumbersUpTo DEF T
<1>11. pre[N] \o rest[N] = rest[0]
  <2>1. N \in 0..N
    BY <1>1
  <2>. HIDE DEF N
  <2>. QED
    BY <1>10, <2>1
<1>. QED
  BY <1>5, <1>7, <1>8, <1>11

\* Joins grow.
LEMMA FlatGrows ==
  ASSUME NEW pieces \in Seq(Bytes), NEW pre, IsFlat(pre, pieces)
  PROVE  \A k \in 0..Len(pieces) : Len(pre[k]) <= Len(pre[Len(pieces)])
<1>. DEFINE N == Len(pieces)
<1>1. N \in Nat /\ \A k \in 1..N : pieces[k] \in Bytes
  OBVIOUS
<1>2. pre \in [0..N -> Bytes] /\ \A k \in 1..N : pre[k] = pre[k-1] \o pieces[k]
  BY DEF IsFlat
<1>. DEFINE T == {n \in 0..N : \A k \in 0..n : Len(pre[k]) <= Len(pre[n])}
<1>0. \A k \in 0..N : Len(pre[k]) \in Nat
  BY <1>2, Lengths
<1>3. 0 \in T
  BY <1>0, <1>1
<1>4. ASSUME NEW n \in 0..(N - 1), n \in T PROVE n + 1 \in T
  <2>1. n + 1 \in 1..N /\ (n + 1) - 1 = n /\ n \in 0..N /\ n + 1 \in 0..N
    BY <1>1
  <2>2. pre[n+1] = pre[n] \o pieces[n+1]
    BY <1>2, <2>1
  <2>3. Len(pre[n+1]) = Len(pre[n]) + Len(pieces[n+1]) /\ Len(pieces[n+1]) \in Nat
    BY <1>1, <1>2, <2>1, <2>2, Lengths
  <2>4. ASSUME NEW k \in 0..(n + 1) PROVE Len(pre[k]) <= Len(pre[n+1])
    <3>1. CASE k = n + 1
      BY <1>0, <2>1, <3>1
    <3>2. CASE k # n + 1
      <4>1. k \in 0..n /\ k \in 0..N
        BY <2>1, <3>2
      <4>2. Len(pre[k]) <= Len(pre[n])
        BY <1>4, <4>1
      <4>3. Len(pre[k]) \in Nat /\ Len(pre[n]) \in Nat /\ Len(pre[n+1]) \in Nat
        BY <1>0, <2>1, <4>1
      <4>. DEFINE a == Len(pre[k])
                  b == Len(pre[n])
                  c == Len(pre[n+1])
                  d == Len(pieces[n+1])
      <4>4. a <= b /\ c = b + d /\ a \in Nat /\ b \in Nat /\ c \in Nat /\ d \in Nat
        BY <2>3, <4>2, <4>3
      <4>. HIDE DEF a, b, c, d
      <4>5. a <= c
        BY <4>4
      <4>. QED
        BY <4>5 DEF a, c
    <3>. QED
      BY <3>1, <3>2
  <2>. QED
    BY <2>1, <2>4
<1>5. N \in T
  <2>1. N \in 0..N
    BY <1>1
  <2>. HIDE DEF T, N
  <2>. QED
    BY <1>1, <1>3, <1>4, <2>1, NumbersUpTo
<1>. QED
  BY <1>5

\* They are no longer than the room that is left for each piece.
LEMMA FlatFits ==
  ASSUME NEW pieces \in Seq(Bytes), NEW room \in [0..Len(pieces) -> Nat],
         \A k \in 1..Len(pieces) : room[k-1] + Len(pieces[k]) <= room[k]
  PROVE  Len(Flat(pieces)) <= room[Len(pieces)]
<1>. DEFINE N == Len(pieces)
<1>1. N \in Nat /\ \A k \in 1..N : pieces[k] \in Bytes
  OBVIOUS
<1>2. PICK pre : IsFlat(pre, pieces) /\ pre[N] = Flat(pieces)
  BY FlatIs
<1>3. pre \in [0..N -> Bytes] /\ pre[0] = <<>> /\ \A k \in 1..N : pre[k] = pre[k-1] \o pieces[k]
  BY <1>2 DEF IsFlat
<1>. DEFINE T == {n \in 0..N : Len(pre[n]) <= room[n]}
<1>4. 0 \in T
  <2>1. Len(pre[0]) = 0 /\ room[0] \in Nat /\ 0 \in 0..N
    BY <1>1, <1>3
  <2>. QED
    BY <2>1
<1>5. ASSUME NEW n \in 0..(N - 1), n \in T PROVE n + 1 \in T
  <2>1. n + 1 \in 1..N /\ (n + 1) - 1 = n /\ n \in 0..N /\ n + 1 \in 0..N
    BY <1>1
  <2>2. pre[n+1] = pre[n] \o pieces[n+1]
    BY <1>3, <2>1
  <2>3. Len(pre[n+1]) = Len(pre[n]) + Len(pieces[n+1]) /\ Len(pieces[n+1]) \in Nat /\ Len(pre[n]) \in Nat
    BY <1>1, <1>3, <2>1, <2>2, Lengths
  <2>4. room[n] + Len(pieces[n+1]) <= room[n+1] /\ room[n] \in Nat /\ room[n+1] \in Nat
    BY <2>1
  <2>5. Len(pre[n]) <= room[n]
    BY <1>5
  <2>. DEFINE a == Len(pre[n])
              b == Len(pieces[n+1])
              c == Len(pre[n+1])
              r == room[n]
              q == room[n+1]
  <2>a. c = a + b /\ a \in Nat /\ b \in Nat /\ r + b <= q /\ r \in Nat /\ q \in Nat /\ a <= r
    BY <2>3, <2>4, <2>5
  <2>b. c <= q
    <3>. HIDE DEF a, b, c, r, q
    <3>. QED
      BY <2>a
  <2>6. Len(pre[n+1]) <= room[n+1]
    BY <2>b
  <2>. QED
    BY <2>1, <2>6
<1>6. N \in T
  <2>1. N \in 0..N
    BY <1>1
  <2>. HIDE DEF T, N
  <2>. QED
    BY <1>1, <1>4, <1>5, <2>1, NumbersUpTo
<1>. QED
  BY <1>2, <1>6

-----------------------------------------------------------------------------
(* What pb_encode writes: one piece after the other.                       *)

IsMessage(D, msg0) ==
  /\ IsDescriptor(D)
  /\ msg0 = [x \in Slots(D) |-> msg0[x]]
  /\ \A i \in 1..Len(D) : IsCell(D[i], msg0[D[i].slot])

Pieces(D, msg0) == [i \in 1..Len(D) |-> Piece(D[i], msg0[D[i].slot])]

\* The pieces of a message, one per field.
LEMMA PiecesAre ==
  ASSUME NEW D, NEW msg0, IsMessage(D, msg0)
  PROVE  /\ Len(D) \in Nat
         /\ Pieces(D, msg0) \in Seq(Bytes) /\ Len(Pieces(D, msg0)) = Len(D)
         /\ \A i \in 1..Len(D) :
              /\ Pieces(D, msg0)[i] = Piece(D[i], msg0[D[i].slot])
              /\ IsSimple(D[i]) /\ IsCell(D[i], msg0[D[i].slot])
              /\ Len(Pieces(D, msg0)[i]) <= 1 + PayloadSize(D[i])
<1>1. Len(D) \in Nat /\ \A i \in 1..Len(D) : IsSimple(D[i]) /\ IsCell(D[i], msg0[D[i].slot])
  BY DEF IsMessage, IsDescriptor
<1>2. \A i \in 1..Len(D) : Piece(D[i], msg0[D[i].slot]) \in Bytes
  BY <1>1, PieceIs
<1>3. Pieces(D, msg0) \in Seq(Bytes) /\ Len(Pieces(D, msg0)) = Len(D)
  BY <1>1, <1>2 DEF Pieces
<1>4. \A i \in 1..Len(D) : Pieces(D, msg0)[i] = Piece(D[i], msg0[D[i].slot])
  BY DEF Pieces
<1>5. ASSUME NEW i \in 1..Len(D)
      PROVE  Len(Pieces(D, msg0)[i]) <= 1 + PayloadSize(D[i])
  <2>1. Len(Piece(D[i], msg0[D[i].slot])) \in {0, 1 + PayloadSize(D[i])} /\ PayloadSize(D[i]) \in Nat
    BY <1>1, PieceIs
  <2>2. Len(Piece(D[i], msg0[D[i].slot])) <= 1 + PayloadSize(D[i])
    BY <2>1
  <2>. QED
    BY <1>4, <2>2
<1>. QED
  BY <1>1, <1>3, <1>4, <1>5

Writes(D, msg0, sizing, max) ==
  pb_encode(pb_ostream(TRUE, <<>>, sizing, max), D, msg0)
    = pb_ostream(TRUE, Flat(Pieces(D, msg0)), sizing, max)

\* pb_encode writes all pieces, in order.
LEMMA EncodeIs ==
  ASSUME NEW D, NEW msg0, IsMessage(D, msg0),
         NEW sizing \in BOOLEAN, NEW max \in Nat, sizing \/ Len(Flat(Pieces(D, msg0))) <= max
  PROVE  Flat(Pieces(D, msg0)) \in Bytes /\ Writes(D, msg0, sizing, max)
<1>. DEFINE N == Len(D)
            pieces == Pieces(D, msg0)
            o == pb_ostream(TRUE, <<>>, sizing, max)
            upTo == CHOOSE u : u = [n \in 0..N |->
                      IF n = 0 THEN o ELSE encode_field(u[n-1], D[n], msg0[D[n].slot])]
<1>1. /\ N \in Nat /\ pieces \in Seq(Bytes) /\ Len(pieces) = N
      /\ \A i \in 1..N : /\ pieces[i] = Piece(D[i], msg0[D[i].slot])
                         /\ IsSimple(D[i]) /\ IsCell(D[i], msg0[D[i].slot])
  BY PiecesAre
<1>. HIDE DEF pieces
<1>2. PICK pre : IsFlat(pre, pieces) /\ pre[Len(pieces)] = Flat(pieces)
  BY <1>1, FlatIs
<1>3. pre \in [0..N -> Bytes] /\ pre[0] = <<>> /\ \A k \in 1..N : pre[k] = pre[k-1] \o pieces[k]
  BY <1>1, <1>2 DEF IsFlat
<1>4. \A k \in 0..N : Len(pre[k]) <= Len(pre[N])
  BY <1>1, <1>2, FlatGrows
<1>5. pre[N] = Flat(pieces) /\ Flat(pieces) \in Bytes /\ (sizing \/ Len(pre[N]) <= max)
  <2>1. N \in 0..N /\ pre[N] = Flat(pieces)
    BY <1>1, <1>2
  <2>2. pre[N] \in Bytes
    BY <1>3, <2>1
  <2>. QED
    BY <2>1, <2>2 DEF pieces
<1>6. ASSUME NEW n \in 1..N
      PROVE  encode_field(pb_ostream(TRUE, pre[n-1], sizing, max), D[n], msg0[D[n].slot])
               = pb_ostream(TRUE, pre[n], sizing, max)
  <2>1. n - 1 \in 0..N /\ n \in 0..N
    BY <1>1
  <2>2. pre[n-1] \in Bytes /\ pieces[n] \in Bytes /\ pre[n] = pre[n-1] \o pieces[n]
    <3>1. pieces[n] \in Bytes
      BY <1>1
    <3>2. pre[n-1] \in Bytes
      BY <1>3, <2>1
    <3>. QED
      BY <1>3, <3>1, <3>2
  <2>3. Len(pre[n]) = Len(pre[n-1]) + Len(pieces[n])
    BY <2>2, Lengths
  <2>4. Len(pre[n]) <= Len(pre[N]) /\ Len(pre[n]) \in Nat /\ Len(pre[N]) \in Nat
    <3>1. pre[n] \in Bytes /\ pre[N] \in Bytes
      BY <1>1, <1>3, <2>1
    <3>. QED
      BY <1>4, <2>1, <3>1, Lengths
  <2>5. sizing \/ Len(pre[n-1]) + Len(Piece(D[n], msg0[D[n].slot])) <= max
    <3>1. sizing \/ Len(pre[n]) <= max
      BY <1>5, <2>4
    <3>2. Len(pre[n]) = Len(pre[n-1]) + Len(Piece(D[n], msg0[D[n].slot]))
      BY <1>1, <2>3
    <3>. QED
      BY <3>1, <3>2
  <2>6. encode_field(pb_ostream(TRUE, pre[n-1], sizing, max), D[n], msg0[D[n].slot])
          = pb_ostream(TRUE, pre[n-1] \o Piece(D[n], msg0[D[n].slot]), sizing, max)
    <3>1. IsSimple(D[n]) /\ IsCell(D[n], msg0[D[n].slot])
      BY <1>1
    <3>. DEFINE a == pre[n-1]
                c == msg0[D[n].slot]
                h == D[n]
    <3>2. a \in Bytes /\ IsSimple(h) /\ IsCell(h, c) /\ (sizing \/ Len(a) + Len(Piece(h, c)) <= max)
      BY <2>2, <2>5, <3>1
    <3>. HIDE DEF a, c, h
    <3>3. encode_field(pb_ostream(TRUE, a, sizing, max), h, c)
            = pb_ostream(TRUE, a \o Piece(h, c), sizing, max)
      BY <3>2, EncodeFieldIs
    <3>. QED
      BY <3>3 DEF a, c, h
  <2>. QED
    BY <1>1, <2>2, <2>6
<1>. DEFINE f == [n \in 0..N |-> pb_ostream(TRUE, pre[n], sizing, max)]
<1>7. f = [n \in 0..N |-> IF n = 0 THEN o ELSE encode_field(f[n-1], D[n], msg0[D[n].slot])]
  <2>1. ASSUME NEW n \in 0..N
        PROVE  f[n] = IF n = 0 THEN o ELSE encode_field(f[n-1], D[n], msg0[D[n].slot])
    <3>1. CASE n = 0
      BY <1>3, <3>1
    <3>2. CASE n # 0
      <4>1. n \in 1..N /\ n - 1 \in 0..N
        BY <1>1, <3>2
      <4>2. f[n] = pb_ostream(TRUE, pre[n], sizing, max) /\ f[n-1] = pb_ostream(TRUE, pre[n-1], sizing, max)
        BY <4>1
      <4>. HIDE DEF f
      <4>. QED
        BY <1>6, <3>2, <4>1, <4>2
    <3>. QED
      BY <3>1, <3>2
  <2>. QED
    BY <2>1
<1>8. upTo = [n \in 0..N |-> IF n = 0 THEN o ELSE encode_field(upTo[n-1], D[n], msg0[D[n].slot])]
  <2>. HIDE DEF f
  <2>. QED
    BY <1>7
<1>. HIDE DEF upTo, f
<1>9. upTo[0] = o /\ \A n \in 1..N : upTo[n] = encode_field(upTo[n-1], D[n], msg0[D[n].slot])
  <2>1. 0 \in 0..N /\ \A n \in 1..N : n \in 0..N /\ n # 0
    BY <1>1
  <2>. HIDE DEF N, o
  <2>. QED
    BY <1>8, <2>1, Zenon
<1>. DEFINE T == {n \in 0..N : upTo[n] = pb_ostream(TRUE, pre[n], sizing, max)}
<1>10. 0 \in T
  <2>1. 0 \in 0..N
    BY <1>1
  <2>2. upTo[0] = pb_ostream(TRUE, pre[0], sizing, max)
    BY <1>3, <1>9
  <2>. QED
    BY <2>1, <2>2
<1>11. ASSUME NEW n \in 0..(N - 1), n \in T PROVE n + 1 \in T
  <2>1. n + 1 \in 1..N /\ (n + 1) - 1 = n /\ n + 1 \in 0..N
    BY <1>1
  <2>2. upTo[n] = pb_ostream(TRUE, pre[n], sizing, max)
    BY <1>11
  <2>3. upTo[n+1] = pb_ostream(TRUE, pre[n+1], sizing, max)
    BY <1>6, <1>9, <2>1, <2>2
  <2>. QED
    BY <2>1, <2>3
<1>12. N \in T
  <2>1. N \in 0..N
    BY <1>1
  <2>. HIDE DEF T, N, o
  <2>. QED
    BY <1>1, <1>10, <1>11, <2>1, NumbersUpTo
<1>13. upTo[N] = pb_ostream(TRUE, Flat(pieces), sizing, max)
  BY <1>5, <1>12
<1>14. pb_encode(o, D, msg0) = upTo[N]
  BY DEF pb_encode, upTo
<1>. QED
  BY <1>5, <1>13, <1>14 DEF pieces, Writes

\* The sizes that igvc.pb.h states are enough.
LEMMA RobotSizes ==
  ASSUME NEW msg0
  PROVE  /\ IsMessage(RequestMessage_fields, msg0) =>
              Len(Flat(Pieces(RequestMessage_fields, msg0))) <= RequestMessage_size
         /\ IsMessage(ResponseMessage_fields, msg0) =>
              Len(Flat(Pieces(ResponseMessage_fields, msg0))) <= ResponseMessage_size
<1>1. ASSUME IsMessage(RequestMessage_fields, msg0)
      PROVE  Len(Flat(Pieces(RequestMessage_fields, msg0))) <= RequestMessage_size
  <2>. DEFINE D == RequestMessage_fields
              pieces == Pieces(D, msg0)
              room == [k \in 0..10 |-> 5 * k]
  <2>1. /\ pieces \in Seq(Bytes) /\ Len(pieces) = Len(D) /\ Len(D) = 10
        /\ \A i \in 1..Len(D) : Len(pieces[i]) <= 1 + PayloadSize(D[i])
    BY <1>1, PiecesAre, RobotDescriptors
  <2>2. \A i \in 1..10 : PayloadSize(D[i]) = 4
    BY RobotDescriptors DEF PayloadSize
  <2>. HIDE DEF D, pieces
  <2>3. room \in [0..10 -> Nat] /\ room[10] = 50
    OBVIOUS
  <2>4. ASSUME NEW k \in 1..10 PROVE room[k-1] + Len(pieces[k]) <= room[k]
    <3>1. Len(pieces[k]) <= 5
      <4>1. Len(pieces[k]) <= 1 + PayloadSize(D[k]) /\ PayloadSize(D[k]) = 4
        BY <2>1, <2>2
      <4>. QED
        BY <4>1
    <3>2. Len(pieces[k]) \in Nat
      <4>1. k \in 1..Len(pieces) /\ pieces \in Seq(Bytes)
        BY <2>1
      <4>2. pieces[k] \in Bytes
        BY <4>1, ElementOfSeq
      <4>. QED
        BY <4>2, Lengths
    <3>3. room[k-1] = 5 * (k - 1) /\ room[k] = 5 * k
      OBVIOUS
    <3>. DEFINE l == Len(pieces[k])
                a == room[k-1]
                b == room[k]
    <3>4. l \in Nat /\ l <= 5
      BY <3>1, <3>2
    <3>5. a = 5 * (k - 1) /\ b = 5 * k
      BY <3>3
    <3>. HIDE DEF l, a, b
    <3>6. a + l <= b
      BY <3>4, <3>5
    <3>. QED
      BY <3>6 DEF l, a, b
  <2>5. Len(Flat(pieces)) <= room[10]
    <3>. HIDE DEF room
    <3>. QED
      BY <2>1, <2>3, <2>4, FlatFits
  <2>. QED
    BY <2>3, <2>5 DEF RequestMessage_size, pieces, D
<1>2. ASSUME IsMessage(ResponseMessage_fields, msg0)
      PROVE  Len(Flat(Pieces(ResponseMessage_fields, msg0))) <= ResponseMessage_size
  <2>. DEFINE D == ResponseMessage_fields
              pieces == Pieces(D, msg0)
              room == [k \in 0..13 |-> IF k < 11 THEN 5 * k ELSE 5 * k - 3]
  <2>1. /\ pieces \in Seq(Bytes) /\ Len(pieces) = Len(D) /\ Len(D) = 13
        /\ \A i \in 1..Len(D) : Len(pieces[i]) <= 1 + PayloadSize(D[i])
    BY <1>2, PiecesAre, RobotDescriptors
  <2>2. \A i \in 1..13 : PayloadSize(D[i]) = IF i = 11 THEN 1 ELSE 4
    BY RobotDescriptors DEF PayloadSize
  <2>. HIDE DEF D, pieces
  <2>3. room \in [0..13 -> Nat] /\ room[13] = 62
    OBVIOUS
  <2>4. ASSUME NEW k \in 1..13 PROVE room[k-1] + Len(pieces[k]) <= room[k]
    <3>1. Len(pieces[k]) <= IF k = 11 THEN 2 ELSE 5
      <4>1. Len(pieces[k]) <= 1 + PayloadSize(D[k]) /\ PayloadSize(D[k]) = IF k = 11 THEN 1 ELSE 4
        BY <2>1, <2>2
      <4>. QED
        BY <4>1
    <3>2. Len(pieces[k]) \in Nat
      <4>1. k \in 1..Len(pieces) /\ pieces \in Seq(Bytes)
        BY <2>1
      <4>2. pieces[k] \in Bytes
        BY <4>1, ElementOfSeq
      <4>. QED
        BY <4>2, Lengths
    <3>3. /\ room[k-1] = IF k - 1 < 11 THEN 5 * (k - 1) ELSE 5 * (k - 1) - 3
          /\ room[k] = IF k < 11 THEN 5 * k ELSE 5 * k - 3
      OBVIOUS
    <3>. DEFINE l == Len(pieces[k])
                a == room[k-1]
                b == room[k]
    <3>4. l \in Nat /\ l <= IF k = 11 THEN 2 ELSE 5
      BY <3>1, <3>2
    <3>5. /\ a = IF k - 1 < 11 THEN 5 * (k - 1) ELSE 5 * (k - 1) - 3
          /\ b = IF k < 11 THEN 5 * k ELSE 5 * k - 3
      BY <3>3
    <3>. HIDE DEF l, a, b
    <3>6. a + l <= b
      BY <3>4, <3>5
    <3>. QED
      BY <3>6 DEF l, a, b
  <2>5. Len(Flat(pieces)) <= room[13]
    <3>. HIDE DEF room
    <3>. QED
      BY <2>1, <2>3, <2>4, FlatFits
  <2>. QED
    BY <2>3, <2>5 DEF ResponseMessage_size, pieces, D
<1>. QED
  BY <1>1, <1>2

-----------------------------------------------------------------------------
(* What pb_decode reads: one piece after the other.                        *)

Unset == [size |-> FALSE, data |-> {}]

\* The pieces under way: of tells which field each is of, 0 for an unknown one.
IsWire(D, msg0, pieces, of) ==
  /\ pieces \in Seq(Bytes)
  /\ of \in [1..Len(pieces) -> 0..Len(D)]
  /\ \A p \in 1..Len(pieces) :
       IF of[p] = 0 THEN \E u : IsUnknownField(u) /\ pieces[p] = Foreign(u)
       ELSE pieces[p] = Piece(D[of[p]], msg0[D[of[p]].slot])

\* The message and the fields seen behind the first j pieces.
Holds(D, of, j, x) == \E p \in 1..j : of[p] # 0 /\ D[of[p]].slot = x
Got(D, msg0, of, j) == [x \in Slots(D) |-> IF Holds(D, of, j, x) THEN msg0[x] ELSE Unset]
Seen(pieces, of, j) == {of[p] : p \in {q \in 1..j : of[q] # 0 /\ pieces[q] # <<>>}}

\* The decoder begins with every field unset.
LEMMA DefaultsAre ==
  ASSUME NEW D, IsDescriptor(D)
  PROVE  /\ \A i \in 1..Len(D) : Default(D[i]) = Unset /\ D[i].slot \in Slots(D)
         /\ \A msg0, of : pb_message_set_to_defaults(D) = Got(D, msg0, of, 0)
<1>1. DOMAIN D = 1..Len(D) /\ \A i \in 1..Len(D) : IsSimple(D[i])
  BY DEF IsDescriptor
<1>2. \A i \in 1..Len(D) : Default(D[i]) = Unset
  BY <1>1, DefaultIs DEF Unset
<1>3. \A i \in 1..Len(D) : D[i].slot \in Slots(D)
  BY <1>1 DEF Slots
<1>4. ASSUME NEW x \in Slots(D)
      PROVE  Default(D[CHOOSE i \in DOMAIN D : D[i].slot = x]) = Unset
  <2>1. \E i \in DOMAIN D : D[i].slot = x
    BY DEF Slots
  <2>2. (CHOOSE i \in DOMAIN D : D[i].slot = x) \in 1..Len(D)
    BY <1>1, <2>1
  <2>. QED
    BY <1>2, <2>2
<1>5. ASSUME NEW msg0, NEW of PROVE pb_message_set_to_defaults(D) = Got(D, msg0, of, 0)
  <2>1. \A x : ~Holds(D, of, 0, x)
    BY DEF Holds
  <2>2. Got(D, msg0, of, 0) = [x \in Slots(D) |-> Unset]
    BY <2>1 DEF Got
  <2>3. pb_message_set_to_defaults(D) = [x \in Slots(D) |-> Unset]
    BY <1>4 DEF pb_message_set_to_defaults
  <2>. QED
    BY <2>2, <2>3
<1>. QED
  BY <1>2, <1>3, <1>5

\* A piece more.
LEMMA HoldsMore ==
  ASSUME NEW D, NEW of, NEW j \in Nat, NEW x
  PROVE  Holds(D, of, j + 1, x) <=>
           Holds(D, of, j, x) \/ (of[j+1] # 0 /\ D[of[j+1]].slot = x)
<1>1. \A p : p \in 1..(j + 1) <=> p \in 1..j \/ p = j + 1
  OBVIOUS
<1>. QED
  BY <1>1, Zenon DEF Holds

\* A piece that is read adds its field to those seen.
LEMMA SeenMore ==
  ASSUME NEW pieces, NEW of, NEW j \in Nat
  PROVE  /\ of[j+1] = 0 \/ pieces[j+1] = <<>> => Seen(pieces, of, j + 1) = Seen(pieces, of, j)
         /\ of[j+1] # 0 /\ pieces[j+1] # <<>> =>
              Seen(pieces, of, j + 1) = Seen(pieces, of, j) \cup {of[j+1]}
<1>1. \A p : p \in 1..(j + 1) <=> p \in 1..j \/ p = j + 1
  OBVIOUS
<1>2. \A n, y : y \in Seen(pieces, of, n) <=>
                 \E p \in 1..n : y = of[p] /\ of[p] # 0 /\ pieces[p] # <<>>
  BY Zenon DEF Seen
<1>. DEFINE Is(p, y) == y = of[p] /\ of[p] # 0 /\ pieces[p] # <<>>
<1>3. \A y : y \in Seen(pieces, of, j + 1) <=> y \in Seen(pieces, of, j) \/ Is(j + 1, y)
  <2>1. \A n, y : y \in Seen(pieces, of, n) <=> \E p \in 1..n : Is(p, y)
    BY <1>2
  <2>. HIDE DEF Is
  <2>. QED
    BY <1>1, <2>1, Zenon
<1>4. ASSUME of[j+1] = 0 \/ pieces[j+1] = <<>>
      PROVE  Seen(pieces, of, j + 1) = Seen(pieces, of, j)
  <2>1. \A y : ~Is(j + 1, y)
    BY <1>4
  <2>2. \A y : y \in Seen(pieces, of, j + 1) <=> y \in Seen(pieces, of, j)
    BY <1>3, <2>1, Zenon
  <2>. QED
    BY <2>2, Zenon
<1>5. ASSUME of[j+1] # 0, pieces[j+1] # <<>>
      PROVE  Seen(pieces, of, j + 1) = Seen(pieces, of, j) \cup {of[j+1]}
  <2>1. \A y : Is(j + 1, y) <=> y = of[j+1]
    BY <1>5
  <2>2. \A y : y \in Seen(pieces, of, j + 1) <=> y \in Seen(pieces, of, j) \cup {of[j+1]}
    BY <1>3, <2>1, Zenon
  <2>. QED
    BY <2>2, Zenon
<1>. QED
  BY <1>4, <1>5, Zenon

\* The decoder takes a piece: the stream is behind it, and its field has arrived.
Step(D, msg0, pieces, of, j, at, left) ==
  Progress(In(at, left), Got(D, msg0, of, j), Seen(pieces, of, j), 0, TRUE)

\* The parts of what is under way.
LEMMA WireIs ==
  ASSUME NEW D, NEW msg0, IsMessage(D, msg0), NEW pieces, NEW of, IsWire(D, msg0, pieces, of)
  PROVE  /\ IsDescriptor(D) /\ Len(D) \in Nat /\ Len(pieces) \in Nat
         /\ pieces \in Seq(Bytes) /\ of \in [1..Len(pieces) -> 0..Len(D)]
<1>1. IsDescriptor(D)
  BY DEF IsMessage
<1>2. Len(D) \in Nat
  BY <1>1 DEF IsDescriptor
<1>3. pieces \in Seq(Bytes) /\ of \in [1..Len(pieces) -> 0..Len(D)]
  BY DEF IsWire
<1>4. Len(pieces) \in Nat
  BY <1>3, LenProperties
<1>. QED
  BY <1>1, <1>2, <1>3, <1>4

\* A piece that is read puts the field's cell into the message.
LEMMA GotMore ==
  ASSUME NEW D, NEW msg0, IsMessage(D, msg0), NEW pieces, NEW of, IsWire(D, msg0, pieces, of),
         NEW j \in 0..(Len(pieces) - 1)
  PROVE  /\ of[j+1] = 0 => Got(D, msg0, of, j + 1) = Got(D, msg0, of, j)
         /\ of[j+1] # 0 =>
              LET x == D[of[j+1]].slot
              IN  /\ of[j+1] \in 1..Len(D)
                  /\ Got(D, msg0, of, j + 1) = Put(Got(D, msg0, of, j), x, msg0[x])
                  /\ msg0[x] = Unset => Got(D, msg0, of, j + 1) = Got(D, msg0, of, j)
<1>1. /\ IsDescriptor(D) /\ Len(D) \in Nat /\ Len(pieces) \in Nat
      /\ pieces \in Seq(Bytes) /\ of \in [1..Len(pieces) -> 0..Len(D)]
  BY WireIs
<1>2. j \in Nat /\ j + 1 \in 1..Len(pieces)
  BY <1>1
<1>3. of[j+1] \in 0..Len(D)
  BY <1>1, <1>2
<1>4. \A x : Holds(D, of, j + 1, x) <=>
               Holds(D, of, j, x) \/ (of[j+1] # 0 /\ D[of[j+1]].slot = x)
  BY <1>2, HoldsMore
<1>5. ASSUME of[j+1] = 0 PROVE Got(D, msg0, of, j + 1) = Got(D, msg0, of, j)
  <2>1. \A x : Holds(D, of, j + 1, x) <=> Holds(D, of, j, x)
    BY <1>4, <1>5, Zenon
  <2>. QED
    BY <2>1 DEF Got
<1>6. ASSUME of[j+1] # 0
      PROVE  LET x == D[of[j+1]].slot
             IN  /\ of[j+1] \in 1..Len(D)
                 /\ Got(D, msg0, of, j + 1) = Put(Got(D, msg0, of, j), x, msg0[x])
                 /\ msg0[x] = Unset => Got(D, msg0, of, j + 1) = Got(D, msg0, of, j)
  <2>. DEFINE z == D[of[j+1]].slot
              old == Got(D, msg0, of, j)
  <2>1. of[j+1] \in 1..Len(D)
    BY <1>1, <1>3, <1>6
  <2>2. z \in Slots(D)
    BY <1>1, <2>1, DefaultsAre
  <2>3. \A x : Holds(D, of, j + 1, x) <=> Holds(D, of, j, x) \/ z = x
    BY <1>4, <1>6, Zenon
  <2>. HIDE DEF z
  <2>4. Got(D, msg0, of, j + 1)
          = [x \in Slots(D) |-> IF x = z THEN msg0[z] ELSE IF Holds(D, of, j, x) THEN msg0[x] ELSE Unset]
    BY <2>3 DEF Got
  <2>5. Got(D, msg0, of, j + 1) = Put(old, z, msg0[z])
    BY <2>2, <2>4 DEF Got, Put
  <2>6. msg0[z] = Unset => Got(D, msg0, of, j + 1) = old
    BY <2>4 DEF Got
  <2>. QED
    BY <2>1, <2>5, <2>6 DEF z
<1>. QED
  BY <1>5, <1>6

Advances(D, msg0, pieces, of, j, rest, left) ==
  /\ pieces[j+1] \in Bytes
  /\ Len(pieces[j+1]) \in Nat
  /\ Len(pieces[j+1]) = 0 =>
       /\ pieces[j+1] \o rest = rest
       /\ Step(D, msg0, pieces, of, j, rest, left) = Step(D, msg0, pieces, of, j + 1, rest, left)
  /\ Len(pieces[j+1]) > 0 =>
       DecodeField(D, Step(D, msg0, pieces, of, j, pieces[j+1] \o rest, Len(pieces[j+1]) + left))
         = Step(D, msg0, pieces, of, j + 1, rest, left)

\* From one piece to the next the decoder makes one round, or none if the piece is empty.
LEMMA PieceStep ==
  ASSUME NEW D, NEW msg0, IsMessage(D, msg0), NEW pieces, NEW of, IsWire(D, msg0, pieces, of),
         NEW j \in 0..(Len(pieces) - 1), NEW rest \in Bytes, NEW left \in 0..Len(rest)
  PROVE  Advances(D, msg0, pieces, of, j, rest, left)
<1>. DEFINE p == pieces[j+1]
<1>1. /\ IsDescriptor(D) /\ Len(D) \in Nat /\ Len(pieces) \in Nat
      /\ pieces \in Seq(Bytes) /\ of \in [1..Len(pieces) -> 0..Len(D)]
  BY WireIs
<1>2. j \in Nat /\ j + 1 \in 1..Len(pieces)
  BY <1>1
<1>3. p \in Bytes
  BY <1>1, <1>2, ElementOfSeq
<1>4. Len(p) \in Nat /\ (Len(p) = 0 <=> p = <<>>)
  BY <1>3, EmptySeq, LenProperties DEF Bytes
<1>5. <<>> \o rest = rest
  BY Nothing
<1>6. /\ of[j+1] = 0 => \E u : IsUnknownField(u) /\ p = Foreign(u)
      /\ of[j+1] # 0 => p = Piece(D[of[j+1]], msg0[D[of[j+1]].slot])
  BY <1>2 DEF IsWire
<1>7. CASE of[j+1] = 0
  <2>1. Got(D, msg0, of, j + 1) = Got(D, msg0, of, j)
    BY <1>7, GotMore
  <2>2. Seen(pieces, of, j + 1) = Seen(pieces, of, j)
    BY <1>2, <1>7, SeenMore
  <2>3. PICK u : IsUnknownField(u) /\ p = Foreign(u)
    BY <1>6, <1>7
  <2>4. /\ Len(Foreign(u)) > 0
        /\ DecodeField(D, Progress(In(Foreign(u) \o rest, Len(Foreign(u)) + left),
                                   Got(D, msg0, of, j), Seen(pieces, of, j), 0, TRUE))
             = Progress(In(rest, left), Got(D, msg0, of, j), Seen(pieces, of, j), 0, TRUE)
    <3>. DEFINE m == Got(D, msg0, of, j)
                seen == Seen(pieces, of, j)
    <3>. HIDE DEF m, seen
    <3>1. Len(Foreign(u)) > 0 /\ Takes(D, Foreign(u), rest, left, m, seen, m, seen)
      BY <1>1, <2>3, RoundForeign, Zenon
    <3>. QED
      BY <3>1 DEF Takes, m, seen
  <2>5. Len(p) > 0
    BY <2>3, <2>4
  <2>6. DecodeField(D, Step(D, msg0, pieces, of, j, p \o rest, Len(p) + left))
          = Step(D, msg0, pieces, of, j + 1, rest, left)
    BY <2>1, <2>2, <2>3, <2>4 DEF Step
  <2>7. Len(p) # 0
    BY <1>4, <2>5
  <2>. QED
    BY <1>3, <1>4, <2>6, <2>7 DEF Advances
<1>8. CASE of[j+1] # 0
  <2>. DEFINE i == of[j+1]
              x == D[i].slot
  <2>1. /\ i \in 1..Len(D)
        /\ Got(D, msg0, of, j + 1) = Put(Got(D, msg0, of, j), x, msg0[x])
        /\ msg0[x] = Unset => Got(D, msg0, of, j + 1) = Got(D, msg0, of, j)
    BY <1>8, GotMore
  <2>2. p = Piece(D[i], msg0[x])
    BY <1>6, <1>8
  <2>3. IsSimple(D[i]) /\ IsCell(D[i], msg0[x])
    BY <2>1 DEF IsMessage, IsDescriptor
  <2>4. \/ msg0[x].size = FALSE /\ msg0[x] = Unset
        \/ msg0[x].size = TRUE /\ msg0[x] = Has(msg0[x].data) /\ msg0[x].data \in FieldValues(D[i])
    BY <2>3, CellIs, DefaultIs DEF Unset
  <2>5. CASE msg0[x].size = FALSE /\ msg0[x] = Unset
    <3>1. p = <<>>
      BY <2>2, <2>5 DEF Piece
    <3>2. Seen(pieces, of, j + 1) = Seen(pieces, of, j)
      BY <1>2, <3>1, SeenMore
    <3>3. Step(D, msg0, pieces, of, j, rest, left) = Step(D, msg0, pieces, of, j + 1, rest, left)
      BY <2>1, <2>5, <3>2 DEF Step
    <3>4. ~(Len(p) > 0)
      BY <1>4, <3>1
    <3>. QED
      BY <1>3, <1>4, <1>5, <3>1, <3>3, <3>4 DEF Advances
  <2>6. CASE /\ msg0[x].size = TRUE /\ msg0[x] = Has(msg0[x].data)
             /\ msg0[x].data \in FieldValues(D[i])
    <3>. DEFINE v == msg0[x].data
    <3>1. p = Piece(D[i], Has(v))
      BY <2>2, <2>6
    <3>2. DecodeField(D, Progress(In(p \o rest, Len(p) + left), Got(D, msg0, of, j), Seen(pieces, of, j), 0, TRUE))
            = Progress(In(rest, left), Put(Got(D, msg0, of, j), x, Has(v)), Seen(pieces, of, j) \cup {i}, 0, TRUE)
      <4>. DEFINE m == Got(D, msg0, of, j)
                  seen == Seen(pieces, of, j)
                  q == Piece(D[i], Has(v))
      <4>1. i \in 1..Len(D) /\ v \in FieldValues(D[i])
        BY <2>1, <2>6
      <4>. HIDE DEF i, v, m, seen
      <4>2. Takes(D, q, rest, left, m, seen, Put(m, D[i].slot, Has(v)), seen \cup {i})
        BY <1>1, <4>1, RoundKnown, Zenon
      <4>. QED
        BY <3>1, <4>2 DEF Takes, m, seen
    <3>3. Len(p) > 0
      <4>1. Tagged(D[i]) \in Bytes /\ Len(Tagged(D[i])) = 1
        BY <2>3, TaggedIs
      <4>2. Payload(D[i], v) \in Bytes
        BY <2>3, <2>6, PayloadIs
      <4>3. p = Tagged(D[i]) \o Payload(D[i], v)
        BY <2>2, <2>6 DEF Piece
      <4>4. Len(p) = Len(Tagged(D[i])) + Len(Payload(D[i], v)) /\ Len(Payload(D[i], v)) \in Nat
        BY <4>1, <4>2, <4>3, Lengths
      <4>. QED
        BY <4>1, <4>4
    <3>4. p # <<>>
      BY <1>4, <3>3
    <3>5. Seen(pieces, of, j + 1) = Seen(pieces, of, j) \cup {i}
      BY <1>2, <1>8, <3>4, SeenMore
    <3>6. Got(D, msg0, of, j + 1) = Put(Got(D, msg0, of, j), x, Has(v))
      BY <2>1, <2>6
    <3>7. DecodeField(D, Step(D, msg0, pieces, of, j, p \o rest, Len(p) + left))
            = Step(D, msg0, pieces, of, j + 1, rest, left)
      BY <3>2, <3>5, <3>6 DEF Step
    <3>8. Len(p) # 0
      BY <1>4, <3>4
    <3>. QED
      BY <1>3, <1>4, <3>7, <3>8 DEF Advances
  <2>. QED
    BY <2>4, <2>5, <2>6
<1>. QED
  BY <1>7, <1>8

-----------------------------------------------------------------------------
(* The decoder's loop.                                                     *)

\* States of the loop, of which each leads to one with fewer bytes or to the
\* last, where it stays.
IsRun(D, St, left, N, last) ==
  /\ N \in Nat /\ left \in [0..N -> Nat]
  /\ \A j \in 0..N :
       /\ left[j] = 0 => St[j] = last
       /\ \/ DecodeField(D, St[j]) = last
          \/ \E i \in 0..N : DecodeField(D, St[j]) = St[i] /\ left[i] < left[j]
  /\ DecodeField(D, last) = last
  /\ last.fixed = 0

Yields(s, D, m, last) == pb_decode_noinit(s, D, m) = Read(last.s, last.msg)

\* Rounds that lead from the first state to the last are what the decoder's recursion returns.
LEMMA LoopEnds ==
  ASSUME NEW D, NEW s, NEW m, NEW St, NEW left, NEW N, NEW last,
         IsRun(D, St, left, N, last), St[0] = Progress(s, m, {}, 0, TRUE),
         s.left \in Nat, left[0] <= s.left, Required(D) = {}
  PROVE  Yields(s, D, m, last)
<1>. DEFINE L == s.left
            start == Progress(s, m, {}, 0, TRUE)
            after == CHOOSE h : h = [n \in 0..L |-> IF n = 0 THEN start ELSE DecodeField(D, h[n-1])]
            S == {St[j] : j \in 0..N} \cup {last}
            g == [x \in (1..L) \X S |-> DecodeField(D, x[2])]
<1>1. /\ N \in Nat /\ left \in [0..N -> Nat] /\ 0 \in 0..N /\ L \in Nat
      /\ \A j \in 0..N :
           /\ left[j] = 0 => St[j] = last
           /\ \/ DecodeField(D, St[j]) = last
              \/ \E i \in 0..N : DecodeField(D, St[j]) = St[i] /\ left[i] < left[j]
      /\ DecodeField(D, last) = last /\ last.fixed = 0
      /\ St[0] = start
  BY DEF IsRun
<1>. HIDE DEF start, L
<1>2. \A d \in S : DecodeField(D, d) \in S
  BY <1>1
<1>3. start \in S
  BY <1>1
<1>4. g \in [(1..L) \X S -> S]
  BY <1>2
<1>. HIDE DEF S
<1>5. PICK f : UpTo(f, L, S, start, g)
  <2>. HIDE DEF g
  <2>. QED
    BY <1>1, <1>3, <1>4, RecursionUpTo
<1>6. f = [n \in 0..L |-> IF n = 0 THEN start ELSE DecodeField(D, f[n-1])]
  <2>1. f \in [0..L -> S] /\ f[0] = start /\ \A n \in 1..L : f[n] = g[<<n, f[n-1]>>]
    BY <1>5 DEF UpTo
  <2>2. ASSUME NEW n \in 0..L PROVE f[n] = IF n = 0 THEN start ELSE DecodeField(D, f[n-1])
    <3>1. CASE n = 0
      BY <2>1, <3>1
    <3>2. CASE n # 0
      <4>1. n \in 1..L /\ n - 1 \in 0..L
        BY <1>1, <3>2
      <4>2. f[n-1] \in S
        BY <2>1, <4>1
      <4>3. g[<<n, f[n-1]>>] = DecodeField(D, f[n-1])
        BY <4>1, <4>2
      <4>. HIDE DEF g
      <4>. QED
        BY <2>1, <3>2, <4>1, <4>3
    <3>. QED
      BY <3>1, <3>2
  <2>. HIDE DEF g
  <2>. QED
    BY <2>1, <2>2
<1>7. after = [n \in 0..L |-> IF n = 0 THEN start ELSE DecodeField(D, after[n-1])]
  BY <1>6
<1>. HIDE DEF after, g
<1>8. after[0] = start /\ \A n \in 1..L : after[n] = DecodeField(D, after[n-1])
  <2>1. 0 \in 0..L /\ \A n \in 1..L : n \in 0..L /\ n # 0
    BY <1>1
  <2>. QED
    BY <1>7, <2>1, Zenon
<1>. DEFINE T == {n \in 0..L : after[n] = last \/ \E j \in 0..N : after[n] = St[j] /\ left[j] <= L - n}
<1>9. 0 \in T
  <2>1. 0 \in 0..L /\ left[0] <= L - 0
    <3>1. left[0] \in Nat /\ left[0] <= L
      BY <1>1 DEF L
    <3>. QED
      BY <1>1, <3>1
  <2>. QED
    BY <1>1, <1>8, <2>1
<1>10. ASSUME NEW n \in 0..(L - 1), n \in T PROVE n + 1 \in T
  <2>1. n + 1 \in 1..L /\ (n + 1) - 1 = n /\ n + 1 \in 0..L /\ n \in Int
    BY <1>1
  <2>2. after[n+1] = DecodeField(D, after[n])
    BY <1>8, <2>1
  <2>3. CASE after[n] = last
    BY <1>1, <2>1, <2>2, <2>3
  <2>4. CASE \E j \in 0..N : after[n] = St[j] /\ left[j] <= L - n
    <3>1. PICK j \in 0..N : after[n] = St[j] /\ left[j] <= L - n
      BY <2>4
    <3>2. CASE DecodeField(D, St[j]) = last
      BY <2>1, <2>2, <3>1, <3>2
    <3>3. CASE \E i \in 0..N : DecodeField(D, St[j]) = St[i] /\ left[i] < left[j]
      <4>1. PICK i \in 0..N : DecodeField(D, St[j]) = St[i] /\ left[i] < left[j]
        BY <3>3
      <4>2. left[i] <= L - (n + 1)
        <5>. DEFINE a == left[i]
                    b == left[j]
        <5>1. a \in Nat /\ b \in Nat /\ a < b /\ b <= L - n
          BY <1>1, <3>1, <4>1
        <5>. HIDE DEF a, b
        <5>2. a <= L - (n + 1)
          BY <1>1, <2>1, <5>1
        <5>. QED
          BY <5>2 DEF a
      <4>3. after[n+1] = St[i]
        BY <2>2, <3>1, <4>1
      <4>. QED
        BY <2>1, <4>2, <4>3
    <3>. QED
      BY <1>1, <3>2, <3>3
  <2>. QED
    BY <1>10, <2>3, <2>4
<1>11. L \in T
  <2>1. L \in 0..L
    BY <1>1
  <2>. HIDE DEF T
  <2>. QED
    BY <1>1, <1>9, <1>10, <2>1, NumbersUpTo
<1>12. after[L] = last
  <2>1. CASE after[L] = last
    BY <2>1
  <2>2. CASE \E j \in 0..N : after[L] = St[j] /\ left[j] <= L - L
    <3>1. PICK j \in 0..N : after[L] = St[j] /\ left[j] <= L - L
      BY <2>2
    <3>2. left[j] = 0
      <4>1. left[j] \in Nat
        BY <1>1
      <4>. QED
        BY <1>1, <3>1, <4>1
    <3>. QED
      BY <1>1, <3>1, <3>2
  <2>. QED
    BY <1>11, <2>1, <2>2
<1>. DEFINE Is(d) == IF Complete(D, d.fixed, d.msg) /\ Required(D) \subseteq d.seen
                     THEN Read(d.s, d.msg) ELSE Read(FailedI(d.s), d.msg)
<1>13. pb_decode_noinit(s, D, m) = Is(after[L])
  BY DEF pb_decode_noinit, after, L, start
<1>14. Is(last) = Read(last.s, last.msg)
  BY <1>1 DEF Complete
<1>. HIDE DEF Is
<1>. QED
  BY <1>12, <1>13, <1>14 DEF Yields

\* What pb_decode makes of the pieces and of k bytes of what follows them.
Ends(D, msg0, pieces, of, tail, k, last) ==
  LET behind == Step(D, msg0, pieces, of, Len(pieces), tail, k)
  IN  /\ IF k = 0 THEN behind = last ELSE DecodeField(D, behind) = last
      /\ DecodeField(D, last) = last
      /\ last.fixed = 0

Decodes(D, at, left, last) == pb_decode(In(at, left), D) = Read(last.s, last.msg)

\* The bytes behind the first j pieces are the rest of the pieces and the tail.
IsLeft(left, rest, pieces, tail, k) ==
  /\ left \in [0..Len(pieces) -> Nat] /\ left[Len(pieces)] = k
  /\ left[0] = Len(Flat(pieces)) + k
  /\ \A j \in 0..Len(pieces) : left[j] \in 0..Len(rest[j])
  /\ \A j \in 0..(Len(pieces) - 1) : left[j] = Len(pieces[j+1]) + left[j+1]

\* The bytes the stream has left before each piece.
LEMMA LeftIs ==
  ASSUME NEW pieces \in Seq(Bytes), NEW tail \in Bytes, NEW k \in 0..Len(tail),
         NEW rest, IsRest(rest, pieces, tail), rest[0] = Flat(pieces) \o tail, Flat(pieces) \in Bytes
  PROVE  \E left : IsLeft(left, rest, pieces, tail, k)
<1>. DEFINE N == Len(pieces)
            t == Len(tail)
            long == [j \in 0..N |-> Len(rest[j])]
            left == [j \in 0..N |-> long[j] - t + k]
<1>1. N \in Nat /\ t \in Nat /\ k \in Nat /\ k <= t
  <2>1. N \in Nat /\ t \in Nat
    BY Lengths, LenProperties
  <2>. HIDE DEF N, t
  <2>. QED
    BY <2>1 DEF t
<1>2. /\ rest \in [0..N -> Bytes] /\ rest[N] = tail
      /\ \A j \in 0..(N - 1) : rest[j] = pieces[j+1] \o rest[j+1]
  BY DEF IsRest
<1>3. long \in [0..N -> Nat] /\ \A j \in 0..N : long[j] = Len(rest[j])
  <2>1. \A j \in 0..N : Len(rest[j]) \in Nat
    BY <1>2, Lengths
  <2>. QED
    BY <2>1
<1>4. 0 \in 0..N /\ N \in 0..N /\ long[N] = t
  <2>1. 0 \in 0..N /\ N \in 0..N
    BY <1>1
  <2>. QED
    BY <1>2, <1>3, <2>1
<1>5. \A j \in 0..(N - 1) : /\ long[j] = Len(pieces[j+1]) + long[j+1]
                            /\ Len(pieces[j+1]) \in Nat /\ j \in 0..N /\ j + 1 \in 0..N
  <2>1. TAKE j \in 0..(N - 1)
  <2>2. j \in 0..N /\ j + 1 \in 0..N /\ j + 1 \in 1..N
    BY <1>1
  <2>3. pieces[j+1] \in Bytes
    BY <2>2, ElementOfSeq
  <2>4. rest[j+1] \in Bytes
    BY <1>2, <2>2
  <2>5. Len(pieces[j+1]) \in Nat /\ Len(rest[j]) = Len(pieces[j+1]) + Len(rest[j+1])
    BY <1>2, <2>3, <2>4, Lengths
  <2>6. long[j] = Len(rest[j]) /\ long[j+1] = Len(rest[j+1])
    BY <1>3, <2>2
  <2>. HIDE DEF long
  <2>. QED
    BY <2>2, <2>5, <2>6
<1>. HIDE DEF long, N, t
<1>. DEFINE T == {n \in 0..N : long[N - n] >= t}
<1>6. 0 \in T
  <2>1. N - 0 = N
    BY <1>1
  <2>2. long[N] >= t
    BY <1>1, <1>4
  <2>. QED
    BY <1>4, <2>1, <2>2
<1>7. ASSUME NEW n \in 0..(N - 1), n \in T PROVE n + 1 \in T
  <2>. DEFINE j == N - (n + 1)
  <2>1. j \in 0..(N - 1) /\ j + 1 = N - n /\ n + 1 \in 0..N
    BY <1>1
  <2>. HIDE DEF j
  <2>. DEFINE a == long[j]
              b == long[j+1]
              c == Len(pieces[j+1])
  <2>2. a = c + b /\ c \in Nat /\ b >= t /\ b \in Nat
    BY <1>3, <1>5, <1>7, <2>1
  <2>. HIDE DEF a, b, c
  <2>3. a >= t
    BY <1>1, <2>2
  <2>. QED
    BY <2>1, <2>3 DEF a, j
<1>8. \A j \in 0..N : long[j] >= t
  <2>1. \A n \in 0..N : n \in T
    <3>. HIDE DEF T
    <3>. QED
      BY <1>1, <1>6, <1>7, NumbersUpTo
  <2>2. TAKE j \in 0..N
  <2>3. N - j \in 0..N /\ N - (N - j) = j
    BY <1>1
  <2>. QED
    BY <2>1, <2>3
<1>9. \A j \in 0..N : left[j] = long[j] - t + k /\ left[j] \in 0..long[j]
  <2>1. TAKE j \in 0..N
  <2>. DEFINE a == long[j]
  <2>2. a \in Nat /\ a >= t
    BY <1>3, <1>8
  <2>3. left[j] = a - t + k
    OBVIOUS
  <2>. HIDE DEF a, left
  <2>4. left[j] \in 0..a
    BY <1>1, <2>2, <2>3
  <2>. QED
    BY <2>3, <2>4 DEF a
<1>10. left \in [0..N -> Nat]
  BY <1>3, <1>9
<1>11. left[N] = k
  <2>. HIDE DEF left
  <2>. QED
    BY <1>1, <1>4, <1>9
<1>12. left[0] = Len(Flat(pieces)) + k
  <2>. DEFINE l == Len(Flat(pieces))
              a == long[0]
  <2>1. a = l + t /\ l \in Nat
    <3>1. Len(Flat(pieces) \o tail) = Len(Flat(pieces)) + Len(tail) /\ Len(Flat(pieces)) \in Nat
      BY Lengths
    <3>2. a = Len(rest[0])
      BY <1>3, <1>4
    <3>. QED
      BY <3>1, <3>2 DEF t
  <2>2. left[0] = a - t + k
    BY <1>4, <1>9
  <2>. HIDE DEF l, a, left
  <2>3. left[0] = l + k
    BY <1>1, <2>1, <2>2
  <2>. QED
    BY <2>3 DEF l
<1>13. \A j \in 0..(N - 1) : left[j] = Len(pieces[j+1]) + left[j+1]
  <2>1. TAKE j \in 0..(N - 1)
  <2>. DEFINE a == long[j]
              b == long[j+1]
              c == Len(pieces[j+1])
  <2>2. a = c + b /\ c \in Nat /\ b \in Nat
    BY <1>3, <1>5
  <2>3. left[j] = a - t + k /\ left[j+1] = b - t + k
    BY <1>5, <1>9
  <2>. HIDE DEF a, b, c, left
  <2>4. left[j] = c + left[j+1]
    BY <1>1, <2>2, <2>3
  <2>. QED
    BY <2>4 DEF c
<1>14. \A j \in 0..N : left[j] \in 0..Len(rest[j])
  <2>. HIDE DEF left
  <2>. QED
    BY <1>3, <1>9
<1>15. IsLeft(left, rest, pieces, tail, k)
  <2>. HIDE DEF left
  <2>. QED
    BY <1>10, <1>11, <1>12, <1>13, <1>14 DEF IsLeft, N
<1>. HIDE DEF left
<1>. QED
  BY <1>15

\* So pb_decode reads piece after piece and goes on from the last.
LEMMA DecodeIs ==
  ASSUME NEW D, NEW msg0, IsMessage(D, msg0), NEW pieces, NEW of, IsWire(D, msg0, pieces, of),
         NEW tail \in Bytes, NEW k \in 0..Len(tail), NEW last,
         Ends(D, msg0, pieces, of, tail, k, last), Flat(pieces) \in Bytes
  PROVE  Decodes(D, Flat(pieces) \o tail, Len(Flat(pieces)) + k, last)
<1>. DEFINE N == Len(pieces)
<1>1. IsDescriptor(D) /\ N \in Nat /\ pieces \in Seq(Bytes) /\ k \in Nat
  BY WireIs
<1>2. PICK rest : IsRest(rest, pieces, tail) /\ rest[0] = Flat(pieces) \o tail
  BY <1>1, RestIs
<1>3. PICK left : IsLeft(left, rest, pieces, tail, k)
  BY <1>1, <1>2, LeftIs
<1>4. /\ rest \in [0..N -> Bytes] /\ rest[N] = tail
      /\ \A j \in 0..(N - 1) : rest[j] = pieces[j+1] \o rest[j+1]
  BY <1>2 DEF IsRest
<1>5. /\ left \in [0..N -> Nat] /\ left[N] = k /\ left[0] = Len(Flat(pieces)) + k
      /\ \A j \in 0..N : left[j] \in 0..Len(rest[j])
      /\ \A j \in 0..(N - 1) : left[j] = Len(pieces[j+1]) + left[j+1]
  BY <1>3 DEF IsLeft
<1>. DEFINE St == [j \in 0..N |-> Step(D, msg0, pieces, of, j, rest[j], left[j])]
<1>6. 0 \in 0..N /\ N \in 0..N /\ \A j \in 0..(N - 1) : j \in 0..N /\ j + 1 \in 0..N
  BY <1>1
<1>7. \A j \in 0..N : St[j] = Step(D, msg0, pieces, of, j, rest[j], left[j])
  OBVIOUS
<1>8. ASSUME NEW j \in 0..(N - 1)
      PROVE  \/ left[j] = left[j+1] /\ St[j] = St[j+1]
             \/ left[j] > left[j+1] /\ DecodeField(D, St[j]) = St[j+1]
  <2>1. rest[j+1] \in Bytes /\ left[j+1] \in 0..Len(rest[j+1])
    BY <1>4, <1>5, <1>6
  <2>2. Advances(D, msg0, pieces, of, j, rest[j+1], left[j+1])
    BY <2>1, PieceStep
  <2>. DEFINE l == Len(pieces[j+1])
              a == left[j]
              b == left[j+1]
  <2>3. l \in Nat /\ a = l + b /\ b \in Nat
    <3>1. l \in Nat
      BY <2>2 DEF Advances
    <3>2. b \in Nat
      BY <1>5, <1>6
    <3>. QED
      BY <1>5, <3>1, <3>2
  <2>4. rest[j] = pieces[j+1] \o rest[j+1]
    BY <1>4
  <2>5. CASE l = 0
    <3>1. rest[j] = rest[j+1]
      BY <2>2, <2>4, <2>5 DEF Advances
    <3>2. Step(D, msg0, pieces, of, j, rest[j+1], b) = Step(D, msg0, pieces, of, j + 1, rest[j+1], b)
      BY <2>2, <2>5 DEF Advances
    <3>3. a = b
      <4>. HIDE DEF l, a, b
      <4>. QED
        BY <2>3, <2>5
    <3>4. St[j] = Step(D, msg0, pieces, of, j, rest[j], a)
          /\ St[j+1] = Step(D, msg0, pieces, of, j + 1, rest[j+1], b)
      BY <1>6, <1>7
    <3>5. St[j] = St[j+1]
      <4>. HIDE DEF St, a, b
      <4>. QED
        BY <3>1, <3>2, <3>3, <3>4
    <3>. QED
      BY <3>3, <3>5
  <2>6. CASE l > 0
    <3>1. DecodeField(D, Step(D, msg0, pieces, of, j, rest[j], l + b))
            = Step(D, msg0, pieces, of, j + 1, rest[j+1], b)
      BY <2>2, <2>4, <2>6 DEF Advances
    <3>2. St[j] = Step(D, msg0, pieces, of, j, rest[j], a)
          /\ St[j+1] = Step(D, msg0, pieces, of, j + 1, rest[j+1], b)
      BY <1>6, <1>7
    <3>3. a > b /\ a = l + b
      <4>. HIDE DEF l, a, b
      <4>. QED
        BY <2>3, <2>6
    <3>4. DecodeField(D, St[j]) = St[j+1]
      <4>. HIDE DEF St, a, b, l
      <4>. QED
        BY <3>1, <3>2, <3>3
    <3>. QED
      BY <3>3, <3>4
  <2>7. l = 0 \/ l > 0
    <3>. HIDE DEF l
    <3>. QED
      BY <2>3
  <2>. QED
    BY <2>5, <2>6, <2>7
<1>9. /\ DecodeField(D, last) = last /\ last.fixed = 0
      /\ k = 0 => St[N] = last
      /\ k # 0 => DecodeField(D, St[N]) = last
  <2>1. St[N] = Step(D, msg0, pieces, of, N, tail, k)
    BY <1>4, <1>5, <1>6, <1>7
  <2>. HIDE DEF St
  <2>. QED
    BY <2>1 DEF Ends
<1>. HIDE DEF St
<1>. DEFINE Good(j) == /\ left[j] = 0 => St[j] = last
                       /\ \/ DecodeField(D, St[j]) = last
                          \/ \E i \in 0..N : DecodeField(D, St[j]) = St[i] /\ left[i] < left[j]
            T == {n \in 0..N : Good(N - n)}
<1>10. Good(N)
  BY <1>5, <1>9
<1>11. ASSUME NEW j \in 0..(N - 1), Good(j + 1) PROVE Good(j)
  <2>1. CASE left[j] = left[j+1] /\ St[j] = St[j+1]
    BY <1>11, <2>1
  <2>2. CASE left[j] > left[j+1] /\ DecodeField(D, St[j]) = St[j+1]
    <3>1. left[j] # 0 /\ left[j+1] < left[j]
      <4>. DEFINE a == left[j]
                  b == left[j+1]
      <4>1. a \in Nat /\ b \in Nat /\ a > b
        BY <1>5, <1>6, <2>2
      <4>. HIDE DEF a, b
      <4>2. a # 0 /\ b < a
        BY <4>1
      <4>. QED
        BY <4>2 DEF a, b
    <3>. QED
      BY <1>6, <2>2, <3>1
  <2>. HIDE DEF Good
  <2>. QED
    BY <1>8, <2>1, <2>2
<1>12. \A j \in 0..N : Good(j)
  <2>. HIDE DEF Good
  <2>1. 0 \in T
    <3>1. N - 0 = N
      BY <1>1
    <3>. QED
      BY <1>6, <1>10, <3>1
  <2>2. ASSUME NEW n \in 0..(N - 1), n \in T PROVE n + 1 \in T
    <3>. DEFINE j == N - (n + 1)
    <3>1. j \in 0..(N - 1) /\ j + 1 = N - n /\ n + 1 \in 0..N
      BY <1>1
    <3>. HIDE DEF j
    <3>2. Good(j + 1)
      BY <2>2, <3>1
    <3>3. Good(j)
      BY <1>11, <3>1, <3>2
    <3>. QED
      BY <3>1, <3>3 DEF j
  <2>3. \A n \in 0..N : n \in T
    <3>. HIDE DEF T, N
    <3>. QED
      BY <1>1, <2>1, <2>2, NumbersUpTo
  <2>4. TAKE j \in 0..N
  <2>5. N - j \in 0..N /\ N - (N - j) = j
    BY <1>1
  <2>. QED
    BY <2>3, <2>5
<1>13. IsRun(D, St, left, N, last)
  BY <1>1, <1>5, <1>9, <1>12 DEF IsRun
<1>. DEFINE s == In(Flat(pieces) \o tail, Len(Flat(pieces)) + k)
            m == pb_message_set_to_defaults(D)
<1>14. St[0] = Progress(s, m, {}, 0, TRUE)
  <2>1. m = Got(D, msg0, of, 0)
    BY <1>1, DefaultsAre
  <2>2. Seen(pieces, of, 0) = {}
    BY DEF Seen
  <2>3. St[0] = Step(D, msg0, pieces, of, 0, Flat(pieces) \o tail, Len(Flat(pieces)) + k)
    BY <1>2, <1>5, <1>6, <1>7
  <2>. HIDE DEF m
  <2>. QED
    BY <2>1, <2>2, <2>3 DEF Step
<1>15. s.left \in Nat /\ left[0] <= s.left
  <2>1. s.left = left[0] /\ left[0] \in Nat
    BY <1>5, <1>6 DEF In, pb_istream
  <2>. HIDE DEF s
  <2>. QED
    BY <2>1
<1>16. Required(D) = {}
  BY <1>1 DEF Required, IsDescriptor, IsSimple
<1>. HIDE DEF s, m
<1>17. Yields(s, D, m, last)
  BY <1>13, <1>14, <1>15, <1>16, LoopEnds
<1>. QED
  BY <1>17 DEF Yields, Decodes, pb_decode, s, m

-----------------------------------------------------------------------------
(* What is encoded is decoded.                                             *)

\* Every field is among the first n pieces.
EveryField(D, of, n) == \A i \in 1..Len(D) : \E p \in 1..n : of[p] = i

\* When every field has been under way, the message is complete.
LEMMA AllGot ==
  ASSUME NEW D, NEW msg0, IsMessage(D, msg0), NEW n, NEW of, EveryField(D, of, n)
  PROVE  Got(D, msg0, of, n) = msg0
<1>1. DOMAIN D = 1..Len(D) /\ Len(D) \in 1..15 /\ msg0 = [x \in Slots(D) |-> msg0[x]]
  BY DEF IsMessage, IsDescriptor
<1>2. ASSUME NEW x \in Slots(D) PROVE Holds(D, of, n, x)
  <2>1. PICK i \in 1..Len(D) : D[i].slot = x
    BY <1>1 DEF Slots
  <2>2. PICK p \in 1..n : of[p] = i
    BY DEF EveryField
  <2>3. i # 0
    BY <1>1
  <2>. QED
    BY <2>1, <2>2, <2>3 DEF Holds
<1>3. Got(D, msg0, of, n) = [x \in Slots(D) |-> msg0[x]]
  BY <1>2 DEF Got
<1>. QED
  BY <1>1, <1>3

\* Behind the last byte that may be read nothing happens.
LEMMA EndsThere ==
  ASSUME NEW D, NEW msg0, NEW pieces, NEW of, NEW tail
  PROVE  Ends(D, msg0, pieces, of, tail, 0, Step(D, msg0, pieces, of, Len(pieces), tail, 0))
<1>. DEFINE d == Step(D, msg0, pieces, of, Len(pieces), tail, 0)
<1>1. d.fixed = 0 /\ d.s.left = 0
  BY DEF Step, Progress, In, pb_istream
<1>2. DecodeField(D, d) = d
  <2>. HIDE DEF d
  <2>1. ~(d.s.left > 0)
    BY <1>1
  <2>. QED
    BY <2>1, RoundRests, Zenon
<1>. QED
  BY <1>1, <1>2 DEF Ends

\* The pieces of a message, in the order of its fields.
LEMMA InOrder ==
  ASSUME NEW D, NEW msg0, IsMessage(D, msg0)
  PROVE  LET of == [i \in 1..Len(D) |-> i]
         IN  /\ IsWire(D, msg0, Pieces(D, msg0), of)
             /\ EveryField(D, of, Len(Pieces(D, msg0)))
<1>. DEFINE of == [i \in 1..Len(D) |-> i]
            pieces == Pieces(D, msg0)
<1>1. /\ Len(D) \in Nat /\ pieces \in Seq(Bytes) /\ Len(pieces) = Len(D)
      /\ \A i \in 1..Len(D) : pieces[i] = Piece(D[i], msg0[D[i].slot])
  BY PiecesAre
<1>2. \A i \in 1..Len(D) : i \in 0..Len(D) /\ i # 0
  BY <1>1
<1>. HIDE DEF pieces
<1>3. \A i \in 1..Len(D) : of[i] = i
  OBVIOUS
<1>4. of \in [1..Len(pieces) -> 0..Len(D)]
  BY <1>1, <1>2
<1>. HIDE DEF of
<1>5. IsWire(D, msg0, pieces, of)
  BY <1>1, <1>2, <1>3, <1>4 DEF IsWire
<1>6. EveryField(D, of, Len(pieces))
  BY <1>1, <1>3 DEF EveryField
<1>. QED
  BY <1>5, <1>6 DEF of, pieces

DecodedTo(D, at, left, s, m) == pb_decode(In(at, left), D) = Read(s, m)

\* With bytes behind it that may not be read, or none.
LEMMA DecodeExactly ==
  ASSUME NEW D, NEW msg0, IsMessage(D, msg0), NEW pieces, NEW of, IsWire(D, msg0, pieces, of),
         EveryField(D, of, Len(pieces)), NEW tail \in Bytes, Flat(pieces) \in Bytes
  PROVE  DecodedTo(D, Flat(pieces) \o tail, Len(Flat(pieces)), In(tail, 0), msg0)
<1>. DEFINE F == Flat(pieces)
            d == Step(D, msg0, pieces, of, Len(pieces), tail, 0)
<1>1. Ends(D, msg0, pieces, of, tail, 0, d)
  BY EndsThere
<1>2. 0 \in 0..Len(tail) /\ Len(F) + 0 = Len(F)
  BY Lengths
<1>3. d.s = In(tail, 0) /\ d.msg = msg0
  BY AllGot DEF Step, Progress
<1>. HIDE DEF d
<1>4. Decodes(D, F \o tail, Len(F) + 0, d)
  BY <1>1, <1>2, DecodeIs
<1>. QED
  BY <1>2, <1>3, <1>4 DEF Decodes, DecodedTo

\* Pieces of bytes join to bytes.
LEMMA FlatBytes ==
  ASSUME NEW pieces \in Seq(Bytes)
  PROVE  Flat(pieces) \in Bytes
<1>1. PICK pre : IsFlat(pre, pieces) /\ pre[Len(pieces)] = Flat(pieces)
  BY FlatIs
<1>2. Len(pieces) \in 0..Len(pieces)
  <2>1. Len(pieces) \in Nat
    BY LenProperties
  <2>. QED
    BY <2>1
<1>. QED
  BY <1>1, <1>2 DEF IsFlat

\* The byte behind the message.
LEMMA Behind ==
  /\ <<{3}>> \in Bytes /\ Len(<<{3}>>) = 1
  /\ <<{}>> \in Bytes /\ Len(<<{}>>) = 1
BY DEF Bytes, Word8

\* The length in front of a message is found again.
LEMMA LengthFirst ==
  ASSUME NEW n \in 0..(Huge - 1)
  PROVE  /\ Bits(n) \subseteq Word32
         /\ NumberOf(Bits(n)) = n
         /\ VarintBytes(Bits(n)) \in Bytes /\ Len(VarintBytes(Bits(n))) \in 1..10
<1>1. Bits(n) \subseteq 0..15 /\ NumberOf(Bits(n)) = n
  BY NumberOfBits
<1>2. Bits(n) \subseteq Word32 /\ Bits(n) \subseteq Word64
  BY <1>1 DEF Word32, Word64
<1>3. VarintBytes(Bits(n)) \in Bytes /\ IsVarint(VarintBytes(Bits(n)), Len(VarintBytes(Bits(n))), Bits(n))
  BY <1>2, VarintBytesAre
<1>. QED
  BY <1>1, <1>2, <1>3 DEF IsVarint

\* A substream of the length that is in front of it, and what is behind it.
LEMMA SubstreamIs ==
  ASSUME NEW F \in Bytes, Len(F) < Huge, NEW tail \in Bytes
  PROVE  LET head == VarintBytes(Bits(Len(F)))
             s    == In(head \o (F \o tail), Len(head) + (Len(F) + Len(tail)))
             st   == pb_make_string_substream(s)
         IN  st.parent = In(tail, Len(tail)) /\ st.sub = In(F \o tail, Len(F))
<1>. DEFINE l == Len(F)
            t == Len(tail)
            w == Bits(l)
            head == VarintBytes(w)
            h == Len(head)
            z == F \o tail
            s == In(head \o z, h + (l + t))
            r == pb_decode_varint32(s)
<1>1. l \in Nat /\ t \in Nat /\ z \in Bytes /\ Len(z) = l + t
  BY Lengths
<1>2. Huge \in Nat /\ l < Huge
  BY Powers DEF Huge
<1>3. l \in 0..(Huge - 1)
  <2>. HIDE DEF l
  <2>. QED
    BY <1>1, <1>2
<1>. HIDE DEF l
<1>4. w \subseteq Word32 /\ NumberOf(w) = l /\ head \in Bytes /\ h \in 1..10
  BY <1>3, LengthFirst
<1>. HIDE DEF w, t, z
<1>5. r = Read(In(z, l + t), w)
  <2>. DEFINE n == h + (l + t)
  <2>1. n \in Nat /\ h <= n /\ n <= h + Len(z) /\ n - h = l + t
    <3>. HIDE DEF h
    <3>. QED
      BY <1>1, <1>4
  <2>. HIDE DEF n
  <2>2. pb_decode_varint32(In(head \o z, n)) = Read(In(z, n - h), w)
    BY <1>1, <1>4, <2>1, Varint32First
  <2>. QED
    BY <2>1, <2>2 DEF n
<1>. HIDE DEF r, s, h, head
<1>6. r.s = In(z, l + t) /\ r.v = w
  BY <1>5 DEF Read
<1>7. l <= l + t /\ (l + t) - l = t
  BY <1>1
<1>8. Dropped(In(z, l + t), l) = In(tail, t)
  <2>1. l + t \in Nat
    BY <1>1
  <2>. DEFINE n == l + t
  <2>. HIDE DEF n
  <2>2. Dropped(In(F \o tail, n), Len(F)) = In(tail, n - Len(F))
    BY <2>1, DropFirst DEF n
  <2>. QED
    BY <1>7, <2>2 DEF n, z, l
<1>9. pb_make_string_substream(s)
        = IF r.s.ok /\ l <= r.s.left
          THEN [parent |-> Dropped(r.s, l), sub |-> pb_istream(TRUE, r.s.at, l)]
          ELSE [parent |-> FailedI(r.s), sub |-> FailedI(r.s)]
  BY <1>4, <1>6 DEF pb_make_string_substream, r
<1>10. r.s.ok = TRUE /\ r.s.left = l + t /\ r.s.at = z
  BY <1>6 DEF In, pb_istream
<1>11. pb_make_string_substream(s) = [parent |-> In(tail, t), sub |-> In(z, l)]
  BY <1>6, <1>7, <1>8, <1>9, <1>10 DEF In
<1>. QED
  BY <1>11 DEF s, head, h, w, l, t, z
Delimits(D, msg0) ==
  pb_decode_delimited(
      pb_istream_from_buffer(pb_encode_delimited(Buffer(256), D, msg0).out \o <<{3}>>), D)
    = Read(In(<<{3}>>, 1), msg0)

\* Delimited messages are decoded by the length in front of them.
LEMMA DelimitedIs ==
  ASSUME NEW D, NEW msg0, IsMessage(D, msg0), Len(Flat(Pieces(D, msg0))) <= 62
  PROVE  Delimits(D, msg0)
<1>. DEFINE pieces == Pieces(D, msg0)
            F == Flat(pieces)
            l == Len(F)
            head == VarintBytes(Bits(l))
            of == [i \in 1..Len(D) |-> i]
            o == Buffer(256)
            sized == pb_encode(PB_OSTREAM_SIZING, D, msg0)
            sub == pb_encode(KeptTo(o, sized), D, msg0)
<1>1. IsWire(D, msg0, pieces, of) /\ EveryField(D, of, Len(pieces))
  BY InOrder
<1>2. F \in Bytes /\ l \in Nat /\ l <= 62
  <2>1. pieces \in Seq(Bytes)
    BY PiecesAre
  <2>2. F \in Bytes
    BY <2>1, FlatBytes
  <2>. QED
    BY <2>2, Lengths
<1>3. sized = pb_ostream(TRUE, F, TRUE, 0)
  <2>1. 0 \in Nat /\ TRUE \in BOOLEAN
    OBVIOUS
  <2>2. Writes(D, msg0, TRUE, 0)
    BY <2>1, EncodeIs
  <2>. QED
    BY <2>2 DEF Writes, PB_OSTREAM_SIZING
<1>. HIDE DEF of, sized
<1>4. KeptTo(o, sized) = pb_ostream(TRUE, <<>>, FALSE, l)
  BY <1>3 DEF KeptTo, pb_ostream, Buffer, pb_ostream_from_buffer
<1>5. sub = pb_ostream(TRUE, F, FALSE, l)
  <2>1. l <= l
    <3>. HIDE DEF l
    <3>. QED
      BY <1>2
  <2>2. pb_encode(pb_ostream(TRUE, <<>>, FALSE, l), D, msg0) = pb_ostream(TRUE, F, FALSE, l)
    <3>1. Writes(D, msg0, FALSE, l)
      BY <1>2, <2>1, EncodeIs
    <3>. QED
      BY <3>1 DEF Writes
  <2>. QED
    BY <1>4, <2>2
<1>. HIDE DEF sub, pieces, F
<1>6. head \in Bytes /\ Len(head) \in 1..10
  <2>1. l \in 0..(Huge - 1)
    <3>. HIDE DEF l
    <3>. QED
      BY <1>2, Powers DEF Huge
  <2>. HIDE DEF l
  <2>. QED
    BY <2>1, LengthFirst
<1>7. pb_encode_delimited(o, D, msg0).out = head \o F
  <2>1. pb_encode_delimited(o, D, msg0) = Framed(o, sized, sub)
    BY DEF pb_encode_delimited, sized, sub
  <2>2. Framed(o, sized, sub) = pb_write(pb_encode_varint(o, Bits(l)), F)
    <3>1. sized.ok = TRUE /\ sub.ok = TRUE /\ sub.out = F /\ sized.out = F
      BY <1>3, <1>5 DEF pb_ostream
    <3>. QED
      BY <3>1 DEF Framed
  <2>. DEFINE h == Len(head)
  <2>3. h + l <= 256 /\ 0 + h <= 256 /\ h \in Nat
    <3>. HIDE DEF h, l
    <3>1. h \in 1..10
      BY <1>6 DEF h
    <3>. QED
      BY <1>2, <3>1
  <2>4. pb_encode_varint(o, Bits(l)) = pb_ostream(TRUE, head, FALSE, 256)
    <3>1. <<>> \o head = head /\ Len(<<>>) = 0 /\ <<>> \in Bytes
      BY <1>6, Nothing
    <3>2. pb_write(pb_ostream(TRUE, <<>>, FALSE, 256), head) = pb_ostream(TRUE, <<>> \o head, FALSE, 256)
      <4>. HIDE DEF head
      <4>1. Len(<<>>) + Len(head) <= 256
        BY <2>3, <3>1 DEF h
      <4>. QED
        BY <1>6, <3>1, <4>1, WriteIs
    <3>. QED
      BY <3>1, <3>2 DEF pb_encode_varint, Buffer, pb_ostream_from_buffer
  <2>5. pb_write(pb_ostream(TRUE, head, FALSE, 256), F) = pb_ostream(TRUE, head \o F, FALSE, 256)
    <3>. HIDE DEF head
    <3>1. Len(head) + Len(F) <= 256
      BY <2>3 DEF h, l
    <3>2. 256 \in Nat /\ FALSE \in BOOLEAN
      OBVIOUS
    <3>. DEFINE big == 256
    <3>. HIDE DEF big, F
    <3>. QED
      BY <1>2, <1>6, <3>1, <3>2, WriteIs, Zenon
  <2>6. pb_encode_delimited(o, D, msg0) = pb_ostream(TRUE, head \o F, FALSE, 256)
    BY <2>1, <2>2, <2>4, <2>5
  <2>. QED
    BY <2>6 DEF pb_ostream
<1>. DEFINE tail == <<{3}>>
            s == In(head \o (F \o tail), Len(head) + (Len(F) + Len(tail)))
            st == pb_make_string_substream(s)
<1>8. tail \in Bytes /\ Len(tail) = 1
  BY Behind
<1>. HIDE DEF tail
<1>9. pb_istream_from_buffer((head \o F) \o tail) = s
  <2>1. (head \o F) \o tail = head \o (F \o tail)
    BY <1>2, <1>6, <1>8, Associative
  <2>2. Len(head \o (F \o tail)) = Len(head) + (Len(F) + Len(tail))
    <3>1. F \o tail \in Bytes /\ Len(F \o tail) = Len(F) + Len(tail)
      BY <1>2, <1>8, Lengths
    <3>. QED
      BY <1>6, <3>1, Lengths
  <2>. QED
    BY <2>1, <2>2 DEF In, pb_istream_from_buffer
<1>10. st.parent = In(tail, Len(tail)) /\ st.sub = In(F \o tail, Len(F))
  <2>1. Len(F) < Huge
    BY <1>2, Powers DEF Huge
  <2>. QED
    BY <1>2, <1>8, <2>1, SubstreamIs
<1>11. DecodedTo(D, F \o tail, Len(F), In(tail, 0), msg0)
  BY <1>1, <1>2, <1>8, DecodeExactly DEF F
<1>12. pb_decode(st.sub, D) = Read(In(tail, 0), msg0)
  BY <1>10, <1>11 DEF DecodedTo
<1>. HIDE DEF st, s
<1>13. pb_decode_delimited(s, D)
         = Read(pb_close_string_substream(st.parent, pb_decode(st.sub, D).s), pb_decode(st.sub, D).v)
  BY DEF pb_decode_delimited, st
<1>14. pb_close_string_substream(In(tail, Len(tail)), In(tail, 0)) = In(tail, Len(tail))
  BY DEF pb_close_string_substream, In, pb_istream
<1>15. pb_decode_delimited(s, D) = Read(In(tail, 1), msg0)
  <2>1. pb_decode(st.sub, D).s = In(tail, 0) /\ pb_decode(st.sub, D).v = msg0
    BY <1>12 DEF Read
  <2>. QED
    BY <1>8, <1>10, <1>13, <1>14, <2>1
<1>. QED
  BY <1>7, <1>9, <1>15 DEF Delimits, tail

Terminates(D, msg0) ==
  pb_decode(pb_istream_from_buffer(pb_encode_nullterminated(Buffer(256), D, msg0).out \o <<{3}>>), D)
    = Read(In(<<{3}>>, 1), msg0)

\* Null-terminated messages are decoded up to their zero.
LEMMA TerminatedIs ==
  ASSUME NEW D, NEW msg0, IsMessage(D, msg0), Len(Flat(Pieces(D, msg0))) <= 62
  PROVE  Terminates(D, msg0)
<1>. DEFINE pieces == Pieces(D, msg0)
            F == Flat(pieces)
            l == Len(F)
            of == [i \in 1..Len(D) |-> i]
            rest == <<{3}>>
            zero == <<{}>>
            tail == zero \o rest
            N == Len(pieces)
            m == Got(D, msg0, of, N)
            seen == Seen(pieces, of, N)
            last == Progress(In(rest, 1), m, seen, 0, FALSE)
<1>1. IsWire(D, msg0, pieces, of) /\ EveryField(D, of, N)
  BY InOrder
<1>2. F \in Bytes /\ l \in Nat /\ l <= 62
  <2>1. pieces \in Seq(Bytes)
    BY PiecesAre
  <2>2. F \in Bytes
    BY <2>1, FlatBytes
  <2>. QED
    BY <2>2, Lengths
<1>3. m = msg0
  BY <1>1, AllGot
<1>. HIDE DEF of
<1>4. pb_encode_nullterminated(Buffer(256), D, msg0).out = F \o zero
  <2>1. pb_encode(Buffer(256), D, msg0) = pb_ostream(TRUE, F, FALSE, 256)
    <3>1. l <= 256
      <4>. HIDE DEF l
      <4>. QED
        BY <1>2
    <3>2. 256 \in Nat /\ FALSE \in BOOLEAN
      OBVIOUS
    <3>3. Writes(D, msg0, FALSE, 256)
      BY <3>1, <3>2, EncodeIs, Zenon
    <3>. QED
      BY <3>3 DEF Writes, Buffer, pb_ostream_from_buffer
  <2>. HIDE DEF pieces, F
  <2>2. pb_write(pb_ostream(TRUE, F, FALSE, 256), zero) = pb_ostream(TRUE, F \o zero, FALSE, 256)
    <3>1. Len(F) + Len(zero) <= 256
      <4>1. Len(zero) = 1
        BY Behind
      <4>. HIDE DEF zero
      <4>. DEFINE a == Len(F)
                  b == Len(zero)
      <4>2. a \in Nat /\ a <= 62 /\ b = 1
        BY <1>2, <4>1
      <4>. HIDE DEF a, b
      <4>3. a + b <= 256
        BY <4>2
      <4>. QED
        BY <4>3 DEF a, b
    <3>2. 256 \in Nat /\ FALSE \in BOOLEAN /\ zero \in Bytes
      BY Behind
    <3>. HIDE DEF zero
    <3>. QED
      BY <1>2, <3>1, <3>2, WriteIs, Zenon
  <2>3. pb_encode_nullterminated(Buffer(256), D, msg0) = pb_ostream(TRUE, F \o zero, FALSE, 256)
    BY <2>1, <2>2 DEF pb_encode_nullterminated
  <2>. QED
    BY <2>3 DEF pb_ostream
<1>5. rest \in Bytes /\ Len(rest) = 1 /\ zero \in Bytes /\ Len(zero) = 1
  BY Behind
<1>. HIDE DEF rest
<1>6. tail \in Bytes /\ Len(tail) = 2
  <2>. HIDE DEF zero
  <2>1. tail \in Bytes /\ Len(tail) = Len(zero) + Len(rest)
    BY <1>5, Lengths
  <2>. QED
    BY <1>5, <2>1
<1>7. Ends(D, msg0, pieces, of, tail, 2, last)
  <2>1. Stops(D, rest, 1, m, seen)
    <3>1. 1 \in 0..Len(rest)
      BY <1>5
    <3>. HIDE DEF m, seen
    <3>. QED
      BY <1>5, <3>1, RoundZero, Zenon
  <2>2. DecodeField(D, Progress(In(tail, 2), m, seen, 0, TRUE)) = last
    <3>1. 1 + 1 = 2
      OBVIOUS
    <3>2. DecodeField(D, Progress(In(tail, 1 + 1), m, seen, 0, TRUE)) = last
      BY <2>1 DEF Stops
    <3>. HIDE DEF last, tail, m, seen
    <3>. QED
      BY <3>1, <3>2
  <2>3. last.fixed = 0 /\ last.more = FALSE
    BY DEF Progress
  <2>4. DecodeField(D, last) = last
    <3>. HIDE DEF last
    <3>. QED
      BY <2>3, RoundRests, Zenon
  <2>5. DecodeField(D, Step(D, msg0, pieces, of, N, tail, 2)) = last
    BY <2>2 DEF Step
  <2>. HIDE DEF last, tail, pieces
  <2>. QED
    BY <2>3, <2>4, <2>5 DEF Ends, pieces
<1>8. Decodes(D, F \o tail, Len(F) + 2, last)
  <2>1. 2 \in 0..Len(tail)
    BY <1>6
  <2>. HIDE DEF last, tail
  <2>. QED
    BY <1>1, <1>2, <1>6, <1>7, <2>1, DecodeIs
<1>9. last.s = In(rest, 1) /\ last.msg = msg0
  BY <1>3 DEF Progress
<1>10. pb_istream_from_buffer((F \o zero) \o rest) = In(F \o tail, Len(F) + 2)
  <2>. HIDE DEF F, zero
  <2>1. (F \o zero) \o rest = F \o tail
    BY <1>2, <1>5, Associative
  <2>. HIDE DEF tail
  <2>2. Len(F \o tail) = Len(F) + 2
    BY <1>2, <1>6, Lengths
  <2>. QED
    BY <2>1, <2>2 DEF In, pb_istream_from_buffer
<1>. HIDE DEF last, tail
<1>11. pb_decode(In(F \o tail, Len(F) + 2), D) = Read(In(rest, 1), msg0)
  BY <1>8, <1>9 DEF Decodes
<1>. HIDE DEF F, zero
<1>12. pb_decode(pb_istream_from_buffer(pb_encode_nullterminated(Buffer(256), D, msg0).out \o rest), D)
         = Read(In(rest, 1), msg0)
  BY <1>4, <1>10, <1>11
<1>. QED
  BY <1>12 DEF Terminates, rest

-----------------------------------------------------------------------------
(* The bytes under way.                                                    *)

\* Every field of the message is among the pieces, and any others are unknown.
Carries(D, msg0, pieces) ==
  \E of : IsWire(D, msg0, pieces, of) /\ EveryField(D, of, Len(pieces))

Swapped(w, i) == [w EXCEPT ![i] = w[i+1], ![i+1] = w[i]]

IsSwapped(w2, w, i, n, S) ==
  /\ w2 \in [1..n -> S]
  /\ \A p \in 1..n : w2[p] = IF p = i THEN w[i+1] ELSE IF p = i + 1 THEN w[i] ELSE w[p]

\* What swapping two pieces leaves.
LEMMA SwappedIs ==
  ASSUME NEW n \in Nat, NEW S, NEW w \in [1..n -> S], NEW i \in 1..(n - 1)
  PROVE  IsSwapped(Swapped(w, i), w, i, n, S)
<1>1. i \in 1..n /\ i + 1 \in 1..n /\ i + 1 # i
  OBVIOUS
<1>2. \A p \in 1..n : Swapped(w, i)[p] = IF p = i THEN w[i+1] ELSE IF p = i + 1 THEN w[i] ELSE w[p]
  BY <1>1 DEF Swapped
<1>3. DOMAIN Swapped(w, i) = 1..n /\ Swapped(w, i) = [p \in 1..n |-> Swapped(w, i)[p]]
  BY DEF Swapped
<1>4. \A p \in 1..n : Swapped(w, i)[p] \in S
  BY <1>1, <1>2
<1>. QED
  BY <1>2, <1>3, <1>4 DEF IsSwapped

\* Pieces that change places still carry the message.
LEMMA SwapCarries ==
  ASSUME NEW D, NEW msg0, NEW w, Carries(D, msg0, w), NEW i \in 1..(Len(w) - 1)
  PROVE  Carries(D, msg0, Swapped(w, i))
<1>. DEFINE n == Len(w)
            w2 == Swapped(w, i)
<1>1. PICK of : IsWire(D, msg0, w, of) /\ EveryField(D, of, n)
  BY DEF Carries
<1>. DEFINE of2 == Swapped(of, i)
            Old(p) == IF p = i THEN i + 1 ELSE IF p = i + 1 THEN i ELSE p
<1>2. /\ w \in Seq(Bytes) /\ of \in [1..n -> 0..Len(D)]
      /\ \A p \in 1..n : IF of[p] = 0 THEN \E u : IsUnknownField(u) /\ w[p] = Foreign(u)
                         ELSE w[p] = Piece(D[of[p]], msg0[D[of[p]].slot])
  BY <1>1 DEF IsWire
<1>3. n \in Nat /\ w \in [1..n -> Bytes]
  BY <1>2, LenProperties
<1>4. i \in 1..n /\ i + 1 \in 1..n /\ i + 1 # i
  BY <1>3
<1>5. i \in 1..(n - 1)
  OBVIOUS
<1>6. /\ w2 \in [1..n -> Bytes]
      /\ \A p \in 1..n : w2[p] = w[Old(p)]
  <2>. HIDE DEF n
  <2>1. IsSwapped(Swapped(w, i), w, i, n, Bytes)
    BY <1>3, <1>5, SwappedIs, Zenon
  <2>. QED
    BY <2>1 DEF IsSwapped
<1>7. /\ of2 \in [1..n -> 0..Len(D)]
      /\ \A p \in 1..n : of2[p] = of[Old(p)]
  <2>. HIDE DEF n
  <2>1. IsSwapped(Swapped(of, i), of, i, n, 0..Len(D))
    BY <1>2, <1>3, <1>5, SwappedIs, Zenon
  <2>. QED
    BY <2>1 DEF IsSwapped
<1>8. \A p \in 1..n : Old(p) \in 1..n /\ Old(Old(p)) = p
  BY <1>4
<1>9. w2 \in Seq(Bytes) /\ Len(w2) = n
  <2>. HIDE DEF n, w2
  <2>. QED
    BY <1>3, <1>6
<1>. HIDE DEF w2, of2, Old, n
<1>10. \A p \in 1..n : IF of2[p] = 0 THEN \E u : IsUnknownField(u) /\ w2[p] = Foreign(u)
                      ELSE w2[p] = Piece(D[of2[p]], msg0[D[of2[p]].slot])
  <2>1. TAKE p \in 1..n
  <2>. DEFINE q == Old(p)
  <2>2. q \in 1..n /\ w2[p] = w[q] /\ of2[p] = of[q]
    BY <1>6, <1>7, <1>8
  <2>. HIDE DEF q
  <2>. QED
    BY <1>2, <2>2
<1>11. IsWire(D, msg0, w2, of2)
  BY <1>7, <1>9, <1>10 DEF IsWire
<1>12. EveryField(D, of2, n)
  <2>1. ASSUME NEW x \in 1..Len(D) PROVE \E p \in 1..n : of2[p] = x
    <3>1. PICK p \in 1..n : of[p] = x
      BY <1>1 DEF EveryField
    <3>2. Old(p) \in 1..n /\ of2[Old(p)] = of[p]
      BY <1>7, <1>8
    <3>. QED
      BY <3>1, <3>2
  <2>. QED
    BY <2>1 DEF EveryField
<1>. QED
  BY <1>9, <1>11, <1>12 DEF Carries, w2

Inserted(w, i, x) == SubSeq(w, 1, i) \o <<x>> \o SubSeq(w, i + 1, Len(w))

\* What inserting a piece leaves.
LEMMA InsertedIs ==
  ASSUME NEW w \in Seq(Bytes), NEW i \in 0..Len(w), NEW x \in Bytes
  PROVE  /\ Inserted(w, i, x) \in Seq(Bytes) /\ Len(Inserted(w, i, x)) = Len(w) + 1
         /\ \A p \in 1..(Len(w) + 1) :
              Inserted(w, i, x)[p] = IF p <= i THEN w[p] ELSE IF p = i + 1 THEN x ELSE w[p-1]
<1>. DEFINE n == Len(w)
            a == SubSeq(w, 1, i)
            c == SubSeq(w, i + 1, n)
            ab == a \o <<x>>
<1>1. n \in Nat /\ i \in 0..n /\ \A p \in 1..n : w[p] \in Bytes
  BY LenProperties, ElementOfSeq
<1>. HIDE DEF n
<1>2. a \in Seq(Bytes) /\ Len(a) = i /\ \A p \in 1..i : a[p] = w[p]
  <2>1. \A p \in 1..i : w[p] \in Bytes
    BY <1>1
  <2>. QED
    BY <1>1, <2>1, SubSeqProperties
<1>3. c \in Seq(Bytes) /\ Len(c) = n - i /\ \A p \in 1..(n - i) : c[p] = w[i + p]
  <2>1. \A p \in (i + 1)..n : w[p] \in Bytes
    BY <1>1
  <2>2. i + 1 \in Int /\ n \in Int
    BY <1>1
  <2>3. /\ c \in Seq(Bytes) /\ Len(c) = IF i + 1 <= n THEN n - (i + 1) + 1 ELSE 0
        /\ \A p \in 1..(n - (i + 1) + 1) : c[p] = w[(i + 1) + p - 1]
    BY <2>1, <2>2, SubSeqProperties
  <2>4. n - (i + 1) + 1 = n - i /\ \A p \in 1..(n - i) : (i + 1) + p - 1 = i + p
    BY <1>1
  <2>5. Len(c) = n - i
    <3>. HIDE DEF c
    <3>. QED
      BY <1>1, <2>3
  <2>. HIDE DEF c
  <2>. QED
    BY <2>3, <2>4, <2>5
<1>4. <<x>> \in Seq(Bytes) /\ Len(<<x>>) = 1 /\ <<x>>[1] = x
  OBVIOUS
<1>. HIDE DEF a, c
<1>. DEFINE b == <<x>>
<1>5. /\ ab \in Seq(Bytes) /\ Len(ab) = i + 1
      /\ \A p \in 1..(i + 1) : ab[p] = IF p <= i THEN w[p] ELSE x
  <2>. HIDE DEF b
  <2>1. /\ a \o b \in Seq(Bytes) /\ Len(a \o b) = i + 1
        /\ \A p \in 1..(i + 1) : (a \o b)[p] = IF p <= i THEN a[p] ELSE b[p - i]
    BY <1>2, <1>4, ConcatProperties DEF b
  <2>2. ASSUME NEW p \in 1..(i + 1) PROVE (a \o b)[p] = IF p <= i THEN w[p] ELSE x
    <3>1. CASE p <= i
      <4>1. p \in 1..i
        BY <1>1, <3>1
      <4>. QED
        BY <1>2, <2>1, <3>1, <4>1
    <3>2. CASE ~(p <= i)
      <4>1. p - i = 1
        BY <1>1, <3>2
      <4>. QED
        BY <1>4, <2>1, <3>2, <4>1 DEF b
    <3>. QED
      BY <3>1, <3>2
  <2>. QED
    BY <2>1, <2>2 DEF b
<1>. HIDE DEF ab
<1>6. /\ ab \o c \in Seq(Bytes) /\ Len(ab \o c) = (i + 1) + (n - i)
      /\ \A p \in 1..((i + 1) + (n - i)) : (ab \o c)[p] = IF p <= i + 1 THEN ab[p] ELSE c[p - (i + 1)]
  <2>. DEFINE k == i + 1
              l == n - i
  <2>1. Len(ab) = k /\ Len(c) = l /\ ab \in Seq(Bytes) /\ c \in Seq(Bytes)
    BY <1>3, <1>5
  <2>. HIDE DEF k, l
  <2>2. /\ ab \o c \in Seq(Bytes) /\ Len(ab \o c) = k + l
        /\ \A p \in 1..(k + l) : (ab \o c)[p] = IF p <= k THEN ab[p] ELSE c[p - k]
    <3>1. /\ ab \o c \in Seq(Bytes) /\ Len(ab \o c) = Len(ab) + Len(c)
          /\ \A p \in 1..(Len(ab) + Len(c)) : (ab \o c)[p] = IF p <= Len(ab) THEN ab[p] ELSE c[p - Len(ab)]
      BY <2>1, ConcatProperties, Zenon
    <3>. QED
      BY <2>1, <3>1
  <2>. QED
    BY <2>2 DEF k, l
<1>7. (i + 1) + (n - i) = n + 1
  BY <1>1
<1>8. ASSUME NEW p \in 1..(n + 1)
      PROVE  (ab \o c)[p] = IF p <= i THEN w[p] ELSE IF p = i + 1 THEN x ELSE w[p-1]
  <2>1. CASE p <= i + 1
    <3>1. p \in 1..(i + 1) /\ (~(p <= i) <=> p = i + 1)
      BY <1>1, <2>1
    <3>2. (ab \o c)[p] = ab[p]
      BY <1>6, <1>7, <2>1
    <3>. QED
      BY <1>5, <3>1, <3>2
  <2>2. CASE ~(p <= i + 1)
    <3>1. p - (i + 1) \in 1..(n - i) /\ i + (p - (i + 1)) = p - 1 /\ ~(p <= i) /\ p # i + 1
      BY <1>1, <2>2
    <3>2. (ab \o c)[p] = c[p - (i + 1)]
      BY <1>6, <1>7, <2>2
    <3>3. c[p - (i + 1)] = w[p - 1]
      BY <1>3, <3>1
    <3>. QED
      BY <3>1, <3>2, <3>3
  <2>. QED
    BY <2>1, <2>2
<1>9. Inserted(w, i, x) = ab \o c
  BY DEF Inserted, ab, a, c, n
<1>. QED
  BY <1>6, <1>7, <1>8, <1>9 DEF n

\* Pieces that an unknown field comes between still carry the message.
LEMMA InsertCarries ==
  ASSUME NEW D, NEW msg0, NEW w, Carries(D, msg0, w), NEW i \in 0..Len(w), NEW u, IsUnknownField(u),
         IsDescriptor(D)
  PROVE  Carries(D, msg0, Inserted(w, i, Foreign(u)))
<1>. DEFINE n == Len(w)
            x == Foreign(u)
            w2 == Inserted(w, i, x)
<1>1. PICK of : IsWire(D, msg0, w, of) /\ EveryField(D, of, n)
  BY DEF Carries
<1>. DEFINE of2 == [p \in 1..(n + 1) |-> IF p <= i THEN of[p] ELSE IF p = i + 1 THEN 0 ELSE of[p-1]]
<1>2. /\ w \in Seq(Bytes) /\ of \in [1..n -> 0..Len(D)]
      /\ \A p \in 1..n : IF of[p] = 0 THEN \E y : IsUnknownField(y) /\ w[p] = Foreign(y)
                         ELSE w[p] = Piece(D[of[p]], msg0[D[of[p]].slot])
  BY <1>1 DEF IsWire
<1>3. n \in Nat /\ i \in 0..n /\ Len(D) \in Nat
  BY <1>2, LenProperties DEF IsDescriptor
<1>4. x \in Bytes
  <2>. DEFINE e == <<>>
  <2>1. e \in Bytes /\ 0 \in 0..Len(e)
    BY EmptySeq DEF Bytes
  <2>. HIDE DEF e
  <2>. QED
    BY <2>1, RoundForeign
<1>5. /\ w2 \in Seq(Bytes) /\ Len(w2) = n + 1
      /\ \A p \in 1..(n + 1) : w2[p] = IF p <= i THEN w[p] ELSE IF p = i + 1 THEN x ELSE w[p-1]
  <2>. HIDE DEF x
  <2>. QED
    BY <1>2, <1>4, InsertedIs
<1>6. /\ of2 \in [1..(n + 1) -> 0..Len(D)]
      /\ \A p \in 1..(n + 1) : of2[p] = IF p <= i THEN of[p] ELSE IF p = i + 1 THEN 0 ELSE of[p-1]
  <2>1. \A p \in 1..(n + 1) : (IF p <= i THEN of[p] ELSE IF p = i + 1 THEN 0 ELSE of[p-1]) \in 0..Len(D)
    <3>1. TAKE p \in 1..(n + 1)
    <3>2. CASE p <= i
      <4>1. p \in 1..n
        BY <1>3, <3>2
      <4>. QED
        BY <1>2, <3>2, <4>1
    <3>3. CASE p = i + 1
      BY <1>3, <3>3
    <3>4. CASE ~(p <= i) /\ p # i + 1
      <4>1. p - 1 \in 1..n
        BY <1>3, <3>4
      <4>. QED
        BY <1>2, <3>4, <4>1
    <3>. QED
      BY <3>2, <3>3, <3>4
  <2>. QED
    BY <2>1
<1>. HIDE DEF w2, of2, n
<1>7. \A p \in 1..(n + 1) : IF of2[p] = 0 THEN \E y : IsUnknownField(y) /\ w2[p] = Foreign(y)
                            ELSE w2[p] = Piece(D[of2[p]], msg0[D[of2[p]].slot])
  <2>1. TAKE p \in 1..(n + 1)
  <2>2. CASE p <= i
    <3>1. p \in 1..n
      BY <1>3, <2>2
    <3>2. w2[p] = w[p] /\ of2[p] = of[p]
      BY <1>5, <1>6, <2>2
    <3>. QED
      BY <1>2, <3>1, <3>2
  <2>3. CASE p = i + 1
    <3>1. w2[p] = x /\ of2[p] = 0
      BY <1>3, <1>5, <1>6, <2>3
    <3>. QED
      BY <3>1
  <2>4. CASE ~(p <= i) /\ p # i + 1
    <3>1. p - 1 \in 1..n /\ w2[p] = w[p-1] /\ of2[p] = of[p-1]
      BY <1>3, <1>5, <1>6, <2>4
    <3>. DEFINE q == p - 1
    <3>2. q \in 1..n /\ w2[p] = w[q] /\ of2[p] = of[q]
      BY <3>1
    <3>. HIDE DEF q
    <3>. QED
      BY <1>2, <3>2
  <2>. QED
    BY <2>2, <2>3, <2>4
<1>8. IsWire(D, msg0, w2, of2)
  BY <1>5, <1>6, <1>7 DEF IsWire
<1>9. EveryField(D, of2, n + 1)
  <2>1. ASSUME NEW y \in 1..Len(D) PROVE \E p \in 1..(n + 1) : of2[p] = y
    <3>1. PICK p \in 1..n : of[p] = y
      BY <1>1 DEF EveryField
    <3>2. CASE p <= i
      <4>1. p \in 1..(n + 1) /\ of2[p] = of[p]
        BY <1>3, <1>6, <3>2
      <4>. QED
        BY <3>1, <4>1
    <3>3. CASE ~(p <= i)
      <4>1. p + 1 \in 1..(n + 1) /\ ~(p + 1 <= i) /\ p + 1 # i + 1 /\ (p + 1) - 1 = p
        BY <1>3, <3>3
      <4>2. of2[p+1] = of[p]
        BY <1>6, <4>1
      <4>. QED
        BY <3>1, <4>1, <4>2
    <3>. QED
      BY <3>2, <3>3
  <2>. QED
    BY <2>1 DEF EveryField
<1>. QED
  BY <1>5, <1>8, <1>9 DEF Carries, w2

\* One piece alone is its bytes.
LEMMA FlatOne ==
  ASSUME NEW a \in Bytes
  PROVE  Flat(<<a>>) = a
<1>. DEFINE w == <<a>>
<1>1. w \in Seq(Bytes) /\ Len(w) = 1 /\ w[1] = a
  OBVIOUS
<1>. HIDE DEF w
<1>2. PICK pre : IsFlat(pre, w) /\ pre[Len(w)] = Flat(w)
  BY <1>1, FlatIs
<1>3. pre[0] = <<>> /\ pre[1] = pre[0] \o w[1] /\ pre[1] = Flat(w)
  <2>1. 1 \in 1..Len(w) /\ 1 - 1 = 0
    BY <1>1
  <2>2. pre[1] = pre[1-1] \o w[1]
    BY <1>2, <2>1 DEF IsFlat
  <2>. QED
    BY <1>1, <1>2, <2>1, <2>2 DEF IsFlat
<1>4. Flat(w) = <<>> \o a
  BY <1>1, <1>3
<1>. QED
  BY <1>4, Nothing DEF w

-----------------------------------------------------------------------------
(* The invariant of the codec, for the robot's messages.                   *)

RobotFields == {RequestMessage_fields, ResponseMessage_fields}

\* The bytes have lost their end: what is left is the beginning of the message.
IsCut(D, msg0, w) ==
  LET F == Flat(Pieces(D, msg0))
  IN  \E n \in 0..(Len(F) - 1) : w = <<SubSeq(F, 1, n)>>

CodecInv ==
  fields \in RobotFields =>
    /\ IsMessage(fields, msg)
    /\ cut \in BOOLEAN
    /\ wire = <<>> => ~cut
    /\ wire # <<>> /\ ~cut => Carries(fields, msg, wire)
    /\ cut => IsCut(fields, msg, wire)

\* The messages of CodecAssumption are the ones the lemmas speak of.
LEMMA RobotMessageIs ==
  ASSUME NEW m, IsRobotMessage(m)
  PROVE  m.fields \in RobotFields /\ IsMessage(m.fields, m.msg)
<1>1. m.fields \in RobotFields /\ IsDescriptor(m.fields)
  BY RobotDescriptors DEF IsRobotMessage, RobotFields
<1>. DEFINE D == m.fields
            c == m.msg
<1>2. /\ c = [x \in Slots(D) |-> c[x]]
      /\ \A i \in DOMAIN D : IsCell(D[i], c[D[i].slot])
  BY DEF IsRobotMessage, IsCell
<1>3. DOMAIN D = 1..Len(D)
  BY <1>1 DEF IsDescriptor
<1>. HIDE DEF D, c
<1>4. IsMessage(D, c)
  BY <1>1, <1>2, <1>3 DEF IsMessage, D
<1>. QED
  BY <1>1, <1>4 DEF D, c

\* The buffer is large enough, of the size that igvc.pb.h states.
LEMMA RobotEncoded ==
  ASSUME NEW D \in RobotFields, NEW msg0, IsMessage(D, msg0)
  PROVE  /\ Len(Flat(Pieces(D, msg0))) <= 62
         /\ IsDescriptor(D)
         /\ D = RequestMessage_fields => Len(Flat(Pieces(D, msg0))) <= RequestMessage_size
         /\ D # RequestMessage_fields =>
              D = ResponseMessage_fields /\ Len(Flat(Pieces(D, msg0))) <= ResponseMessage_size
<1>. DEFINE l == Len(Flat(Pieces(D, msg0)))
<1>1. l \in Nat
  <2>1. Flat(Pieces(D, msg0)) \in Bytes
    BY PiecesAre, FlatBytes
  <2>. QED
    BY <2>1, Lengths
<1>2. CASE D = RequestMessage_fields
  <2>1. l <= RequestMessage_size
    BY <1>2, RobotSizes
  <2>. HIDE DEF l
  <2>2. l <= 62
    BY <1>1, <2>1 DEF RequestMessage_size
  <2>. QED
    BY <1>2, <2>1, <2>2, RobotDescriptors DEF l
<1>3. CASE D # RequestMessage_fields
  <2>1. D = ResponseMessage_fields
    BY <1>3 DEF RobotFields
  <2>2. l <= ResponseMessage_size
    BY <2>1, RobotSizes
  <2>. HIDE DEF l
  <2>3. l <= 62
    BY <1>1, <2>2 DEF ResponseMessage_size
  <2>. QED
    BY <1>3, <2>1, <2>2, <2>3, RobotDescriptors DEF l
<1>. QED
  BY <1>2, <1>3

\* What pb_encode writes into the buffer of the stated size, and into a larger one.
LEMMA EncodedIs ==
  ASSUME fields \in RobotFields, IsMessage(fields, msg)
  PROVE  Encoded = pb_ostream(TRUE, Flat(Pieces(fields, msg)), FALSE, MessageSize)
<1>. DEFINE F == Flat(Pieces(fields, msg))
<1>1. /\ fields = RequestMessage_fields => Len(F) <= RequestMessage_size
      /\ fields # RequestMessage_fields =>
           fields = ResponseMessage_fields /\ Len(F) <= ResponseMessage_size
  BY RobotEncoded
<1>2. RequestMessage_fields # ResponseMessage_fields
  BY RobotDescriptors
<1>3. MessageSize \in Nat /\ Len(F) <= MessageSize
  <2>. HIDE DEF F
  <2>1. CASE fields = RequestMessage_fields
    <3>1. MessageSize = RequestMessage_size
      BY <1>2, <2>1 DEF MessageSize
    <3>. QED
      BY <1>1, <2>1, <3>1 DEF RequestMessage_size
  <2>2. CASE fields # RequestMessage_fields
    <3>1. MessageSize = ResponseMessage_size
      BY <1>1, <1>2, <2>2 DEF MessageSize
    <3>. QED
      BY <1>1, <2>2, <3>1 DEF ResponseMessage_size
  <2>. QED
    BY <2>1, <2>2
<1>. DEFINE max == MessageSize
<1>. HIDE DEF max
<1>4. Writes(fields, msg, FALSE, max)
  <2>1. FALSE \in BOOLEAN /\ max \in Nat /\ Len(Flat(Pieces(fields, msg))) <= max
    BY <1>3 DEF max
  <2>. QED
    BY <2>1, EncodeIs, Zenon
<1>. QED
  BY <1>4 DEF Writes, Encoded, Buffer, pb_ostream_from_buffer, max

\* One field after the other makes the pieces.
LEMMA EncodeStep ==
  ASSUME fields \in RobotFields, IsMessage(fields, msg),
         NEW w, w = [i \in DOMAIN fields |-> encode_field(Buffer(256), fields[i], msg[fields[i].slot]).out]
  PROVE  w = Pieces(fields, msg)
<1>1. DOMAIN fields = 1..Len(fields)
  BY DEF IsMessage, IsDescriptor
<1>2. ASSUME NEW i \in 1..Len(fields)
      PROVE  encode_field(Buffer(256), fields[i], msg[fields[i].slot]).out
               = Piece(fields[i], msg[fields[i].slot])
  <2>. DEFINE f == fields[i]
              c == msg[f.slot]
  <2>1. IsSimple(f) /\ IsCell(f, c)
    BY PiecesAre
  <2>. HIDE DEF c, f
  <2>2. Piece(f, c) \in Bytes /\ Len(Piece(f, c)) \in {0, 1 + PayloadSize(f)}
    BY <2>1, PieceIs
  <2>3. PayloadSize(f) \in {1, 4}
    BY DEF PayloadSize
  <2>. DEFINE e == <<>>
              no == FALSE
              max == 256
              l == Len(Piece(f, c))
              z == PayloadSize(f)
  <2>4. e \in Bytes /\ e \o Piece(f, c) = Piece(f, c) /\ Len(e) = 0
    BY <2>2, Nothing
  <2>5. no \in BOOLEAN /\ max \in Nat
    OBVIOUS
  <2>6. Len(e) + l <= max
    <3>1. l \in {0, 1 + z} /\ z \in {1, 4}
      BY <2>2, <2>3
    <3>. HIDE DEF l, z, e
    <3>2. 0 + l <= max
      BY <3>1
    <3>. QED
      BY <2>4, <3>2
  <2>. HIDE DEF e, no, max
  <2>7. encode_field(pb_ostream(TRUE, e, no, max), f, c) = pb_ostream(TRUE, e \o Piece(f, c), no, max)
    BY <2>1, <2>4, <2>5, <2>6, EncodeFieldIs
  <2>8. encode_field(Buffer(256), f, c) = pb_ostream(TRUE, Piece(f, c), FALSE, 256)
    BY <2>4, <2>7 DEF e, no, max, Buffer, pb_ostream_from_buffer
  <2>. QED
    BY <2>8 DEF pb_ostream, f, c
<1>. QED
  BY <1>1, <1>2 DEF Pieces

\* A message that is not encoded yet.
LEMMA CodecInvInit == CodecInit => CodecInv
<1>. SUFFICES ASSUME CodecInit, fields \in RobotFields
              PROVE  IsMessage(fields, msg) /\ wire = <<>> /\ cut = FALSE
  BY DEF CodecInv
<1>1. IsMessage(fields, msg)
  <2>1. CASE \E m \in RobotMessages : fields = m.fields /\ msg = m.msg
    BY <2>1, CodecAssumption, RobotMessageIs
  <2>2. CASE \E m \in OtherMessages : fields = m.fields /\ msg = m.msg
    BY <2>2, CodecAssumption DEF RobotFields
  <2>. QED
    BY <2>1, <2>2 DEF CodecInit
<1>. QED
  BY <1>1 DEF CodecInit

\* Every step on the way keeps the message, or cuts it once.
LEMMA CodecInvStep == CodecInv /\ [CodecNext]_codecVars => CodecInv'
<1>. SUFFICES ASSUME CodecInv, [CodecNext]_codecVars PROVE CodecInv'
  OBVIOUS
<1>1. CASE Encode
  <2>. SUFFICES ASSUME fields \in RobotFields
                PROVE  /\ IsMessage(fields, msg) /\ cut' = FALSE
                       /\ wire' # <<>> => Carries(fields, msg, wire')
    BY <1>1 DEF CodecInv, Encode
  <2>1. IsMessage(fields, msg) /\ cut' = FALSE
    BY <1>1 DEF CodecInv, Encode
  <2>2. wire' = Pieces(fields, msg)
    BY <1>1, <2>1, EncodeStep DEF Encode
  <2>3. Carries(fields, msg, Pieces(fields, msg))
    BY <2>1, InOrder DEF Carries
  <2>. QED
    BY <2>1, <2>2, <2>3
<1>2. CASE SwapFields
  <2>. SUFFICES ASSUME fields \in RobotFields
                PROVE  /\ IsMessage(fields, msg) /\ cut' = FALSE
                       /\ Carries(fields, msg, wire')
    BY <1>2 DEF CodecInv, SwapFields
  <2>1. IsMessage(fields, msg) /\ cut' = FALSE /\ Carries(fields, msg, wire)
    BY <1>2 DEF CodecInv, SwapFields
  <2>2. PICK i \in 1..(Len(wire) - 1) : wire' = Swapped(wire, i)
    BY <1>2 DEF SwapFields, Swapped
  <2>. QED
    BY <2>1, <2>2, SwapCarries
<1>3. CASE AddForeignField
  <2>. SUFFICES ASSUME fields \in RobotFields
                PROVE  /\ IsMessage(fields, msg) /\ cut' = FALSE
                       /\ Carries(fields, msg, wire')
    BY <1>3 DEF CodecInv, AddForeignField
  <2>1. IsMessage(fields, msg) /\ cut' = FALSE /\ Carries(fields, msg, wire)
    BY <1>3 DEF CodecInv, AddForeignField
  <2>2. PICK i \in 0..Len(wire), u \in UnknownFields : wire' = Inserted(wire, i, Foreign(u))
    BY <1>3 DEF AddForeignField, Inserted
  <2>3. IsUnknownField(u) /\ IsDescriptor(fields)
    BY <2>1, CodecAssumption DEF IsMessage
  <2>. QED
    BY <2>1, <2>2, <2>3, InsertCarries
<1>4. CASE LoseEnd
  <2>. SUFFICES ASSUME fields \in RobotFields
                PROVE  /\ IsMessage(fields, msg) /\ cut' = TRUE /\ wire' # <<>>
                       /\ IsCut(fields, msg, wire')
    BY <1>4 DEF CodecInv, LoseEnd
  <2>1. IsMessage(fields, msg)
    BY DEF CodecInv
  <2>2. Encoded.out = Flat(Pieces(fields, msg))
    BY <2>1, EncodedIs DEF pb_ostream
  <2>3. IsCut(fields, msg, wire') /\ wire' # <<>> /\ cut' = TRUE
    BY <1>4, <2>2 DEF LoseEnd, IsCut
  <2>. QED
    BY <2>1, <2>3
<1>5. CASE UNCHANGED codecVars
  BY <1>5 DEF codecVars, CodecInv
<1>. QED
  BY <1>1, <1>2, <1>3, <1>4, <1>5 DEF CodecNext

\* A message that arrives is the one that was sent, in whatever order its fields
\* come and whatever unknown fields are among them; delimited by a length or by
\* a zero, what is behind it is left alone.
LEMMA ArrivesWhole ==
  ASSUME fields \in RobotFields, CodecInv
  PROVE  RoundTrip
<1>1. IsMessage(fields, msg) /\ Len(Flat(Pieces(fields, msg))) <= 62 /\ IsDescriptor(fields)
  BY RobotEncoded DEF CodecInv
<1>. DEFINE length == pb_istream_from_buffer(pb_encode_delimited(Buffer(256), fields, msg).out \o <<{3}>>)
            zero   == pb_istream_from_buffer(pb_encode_nullterminated(Buffer(256), fields, msg).out \o <<{3}>>)
            behind == pb_istream(TRUE, <<{3}>>, 1)
<1>2. pb_decode_delimited(length, fields) = Read(behind, msg)
  BY <1>1, DelimitedIs DEF Delimits, In
<1>3. pb_decode(zero, fields) = Read(behind, msg)
  BY <1>1, TerminatedIs DEF Terminates, In
<1>4. ASSUME wire # <<>>, ~cut
      PROVE  Encoded.ok /\ Decoded.s.ok /\ Decoded.v = msg
  <2>1. PICK of : IsWire(fields, msg, wire, of) /\ EveryField(fields, of, Len(wire))
    BY <1>4 DEF CodecInv, Carries
  <2>. DEFINE F == Flat(wire)
              e == <<>>
  <2>2. F \in Bytes /\ e \in Bytes /\ F \o e = F
    <3>1. F \in Bytes
      BY <2>1, FlatBytes DEF IsWire
    <3>. HIDE DEF F
    <3>. QED
      BY <3>1, Nothing
  <2>. HIDE DEF e
  <2>3. DecodedTo(fields, F \o e, Len(F), In(e, 0), msg)
    BY <1>1, <2>1, <2>2, DecodeExactly
  <2>. HIDE DEF F
  <2>4. pb_decode(In(F, Len(F)), fields) = Read(In(e, 0), msg)
    BY <2>2, <2>3 DEF DecodedTo
  <2>5. Decoded = Read(In(e, 0), msg)
    BY <2>4 DEF Decoded, F, In, pb_istream_from_buffer
  <2>6. Decoded.s.ok /\ Decoded.v = msg
    BY <2>5 DEF Read, In, pb_istream
  <2>7. Encoded.ok
    BY <1>1, EncodedIs DEF pb_ostream
  <2>. QED
    BY <2>6, <2>7
<1>. HIDE DEF length, zero, behind
<1>5. wire = <<>> => ~cut
  BY DEF CodecInv
<1>. QED
  BY <1>2, <1>3, <1>4 DEF RoundTrip, length, zero, behind

\* What is under way carries the message, or is a beginning of it.
LEMMA CodecInvHolds == CodecSpec => []CodecInv
BY CodecInvInit, CodecInvStep, PTL DEF CodecSpec

\* A request or a response, with any values, is decoded to what was encoded, with
\* its fields in any order and any number of unknown fields among them.
THEOREM RobotMessagesArrive == CodecSpec => [](fields \in RobotFields => RoundTrip)
<1>1. CodecInv => (fields \in RobotFields => RoundTrip)
  BY ArrivesWhole
<1>. QED
  BY <1>1, CodecInvHolds, PTL

-----------------------------------------------------------------------------
(* What is left when the end is lost.                                      *)

\* There is only one such sequence of joins.
LEMMA FlatUnique ==
  ASSUME NEW pieces \in Seq(Bytes), NEW pre, IsFlat(pre, pieces)
  PROVE  pre[Len(pieces)] = Flat(pieces)
<1>. DEFINE N == Len(pieces)
<1>1. PICK other : IsFlat(other, pieces) /\ other[N] = Flat(pieces)
  BY FlatIs
<1>2. N \in Nat /\ N \in 0..N /\ 0 \in 0..N
  <2>1. N \in Nat
    BY LenProperties
  <2>. QED
    BY <2>1
<1>3. /\ pre[0] = <<>> /\ \A k \in 1..N : pre[k] = pre[k-1] \o pieces[k]
      /\ other[0] = <<>> /\ \A k \in 1..N : other[k] = other[k-1] \o pieces[k]
  BY <1>1 DEF IsFlat
<1>. DEFINE Same == {n \in 0..N : pre[n] = other[n]}
<1>4. 0 \in Same
  BY <1>2, <1>3
<1>5. ASSUME NEW n \in 0..(N - 1), n \in Same PROVE n + 1 \in Same
  <2>1. n + 1 \in 1..N /\ n + 1 \in 0..N /\ (n + 1) - 1 = n
    BY <1>2
  <2>2. pre[n+1] = pre[n] \o pieces[n+1] /\ other[n+1] = other[n] \o pieces[n+1]
    BY <1>3, <2>1
  <2>. QED
    BY <1>5, <2>1, <2>2
<1>6. \A n \in 0..N : n \in Same
  <2>. HIDE DEF Same, N
  <2>. QED
    BY <1>2, <1>4, <1>5, NumbersUpTo
<1>. QED
  BY <1>1, <1>2, <1>6

\* The first j pieces alone.
First(pieces, j) == [i \in 1..j |-> pieces[i]]

\* The first pieces.
LEMMA FirstIs ==
  ASSUME NEW pieces \in Seq(Bytes), NEW j \in 0..Len(pieces)
  PROVE  /\ First(pieces, j) \in Seq(Bytes) /\ Len(First(pieces, j)) = j
         /\ \A i \in 1..j : First(pieces, j)[i] = pieces[i]
<1>1. \A i \in 1..j : pieces[i] \in Bytes
  <2>1. Len(pieces) \in Nat
    BY LenProperties
  <2>2. \A i \in 1..j : i \in 1..Len(pieces)
    BY <2>1
  <2>. QED
    BY <2>2, ElementOfSeq
<1>2. j \in Nat
  BY LenProperties
<1>. QED
  BY <1>1, <1>2 DEF First

\* They join to what all of them join to on the way.
LEMMA FirstFlat ==
  ASSUME NEW pieces \in Seq(Bytes), NEW pre, IsFlat(pre, pieces), NEW j \in 0..Len(pieces)
  PROVE  pre[j] = Flat(First(pieces, j))
<1>. DEFINE w == First(pieces, j)
            p == [k \in 0..j |-> pre[k]]
            N == Len(pieces)
<1>1. w \in Seq(Bytes) /\ Len(w) = j /\ \A i \in 1..j : w[i] = pieces[i]
  BY FirstIs
<1>2. N \in Nat
  BY LenProperties
<1>3. j \in Nat /\ j <= N /\ (\A k \in 0..j : k \in 0..N) /\ (\A k \in 1..j : k \in 1..N /\ k - 1 \in 0..j /\ k \in 0..j)
  BY <1>2
<1>4. /\ pre \in [0..N -> Bytes] /\ pre[0] = <<>>
      /\ \A k \in 1..N : pre[k] = pre[k-1] \o pieces[k]
  BY DEF IsFlat
<1>. HIDE DEF N, w
<1>5. p \in [0..j -> Bytes] /\ \A k \in 0..j : p[k] = pre[k]
  BY <1>3, <1>4
<1>. HIDE DEF p
<1>6. 0 \in 0..j /\ j \in 0..j
  BY <1>3
<1>7. p[0] = <<>> /\ \A k \in 1..j : p[k] = p[k-1] \o w[k]
  BY <1>1, <1>3, <1>4, <1>5, <1>6
<1>8. IsFlat(p, w)
  BY <1>1, <1>5, <1>7 DEF IsFlat
<1>9. p[j] = Flat(w)
  BY <1>1, <1>8, FlatUnique
<1>. QED
  BY <1>5, <1>6, <1>9 DEF w

\* Where the end is lost: behind some pieces, within the next.
LEMMA CutPoint ==
  ASSUME NEW pieces \in Seq(Bytes), NEW n \in 0..(Len(Flat(pieces)) - 1)
  PROVE  \E j \in 0..(Len(pieces) - 1) : \E c \in 0..(Len(pieces[j+1]) - 1) :
           SubSeq(Flat(pieces), 1, n) = Flat(First(pieces, j)) \o SubSeq(pieces[j+1], 1, c)
<1>. DEFINE N == Len(pieces)
            F == Flat(pieces)
            e == <<>>
<1>1. PICK pre : IsFlat(pre, pieces) /\ pre[N] = F
  BY FlatIs
<1>2. e \in Bytes
  BY EmptySeq DEF Bytes
<1>. HIDE DEF e
<1>3. PICK rest : IsRest(rest, pieces, e) /\ rest[0] = F \o e
  BY <1>2, RestIs
<1>4. N \in Nat /\ F \in Bytes /\ Len(F) \in Nat /\ n \in Nat /\ n < Len(F)
  <2>1. N \in Nat /\ F \in Bytes
    BY LenProperties, FlatBytes
  <2>2. Len(F) \in Nat
    BY <2>1, Lengths
  <2>. DEFINE l == Len(F)
  <2>3. n \in 0..(l - 1)
    OBVIOUS
  <2>. HIDE DEF l
  <2>4. l \in Nat
    BY <2>2 DEF l
  <2>5. n \in Nat /\ n < l
    BY <2>3, <2>4
  <2>. QED
    BY <2>1, <2>2, <2>5 DEF l
<1>5. /\ pre \in [0..N -> Bytes] /\ pre[0] = <<>>
      /\ \A k \in 1..N : pre[k] = pre[k-1] \o pieces[k]
      /\ rest \in [0..N -> Bytes]
      /\ \A j \in 0..(N - 1) : rest[j] = pieces[j+1] \o rest[j+1]
  BY <1>1, <1>3 DEF IsFlat, IsRest
<1>6. \A k \in 0..N : pre[k] \in Bytes /\ rest[k] \in Bytes
  BY <1>5
<1>7. \A j \in 0..(N - 1) : pieces[j+1] \in Bytes /\ j + 1 \in 1..N /\ j + 1 \in 0..N /\ j \in 0..N /\ (j + 1) - 1 = j
  <2>1. \A j \in 0..(N - 1) : j + 1 \in 1..N /\ j + 1 \in 0..N /\ j \in 0..N /\ (j + 1) - 1 = j
    BY <1>4
  <2>. QED
    BY <2>1, ElementOfSeq
<1>. HIDE DEF N, F
<1>. DEFINE Whole == {k \in 0..N : pre[k] \o rest[k] = F}
            T == {k \in 0..N : Len(pre[k]) <= n}
<1>8. 0 \in Whole
  <2>1. 0 \in 0..N
    BY <1>4
  <2>2. pre[0] \o rest[0] = F
    <3>1. F \o e = F
      BY <1>4, Nothing DEF e
    <3>2. <<>> \o F = F
      BY <1>4, Nothing
    <3>. QED
      BY <1>3, <1>5, <3>1, <3>2
  <2>. QED
    BY <2>1, <2>2
<1>9. ASSUME NEW k \in 0..(N - 1), k \in Whole PROVE k + 1 \in Whole
  <2>. DEFINE a == pre[k]
              b == pieces[k+1]
              c == rest[k+1]
  <2>1. a \in Bytes /\ b \in Bytes /\ c \in Bytes
    BY <1>6, <1>7
  <2>2. pre[k+1] = a \o b /\ rest[k] = b \o c /\ a \o rest[k] = F
    BY <1>5, <1>7, <1>9
  <2>3. (a \o b) \o c = a \o (b \o c)
    BY <2>1, Associative
  <2>4. pre[k+1] \o rest[k+1] = F
    BY <2>2, <2>3
  <2>. QED
    BY <1>7, <2>4
<1>10. \A k \in 0..N : k \in Whole
  <2>. HIDE DEF Whole
  <2>. QED
    BY <1>4, <1>8, <1>9, NumbersUpTo
<1>11. 0 \in T
  <2>1. 0 \in 0..N /\ Len(<<>>) = 0
    BY <1>4
  <2>2. Len(pre[0]) <= n
    BY <1>4, <1>5, <2>1
  <2>. QED
    BY <2>1, <2>2
<1>12. \E j \in 0..(N - 1) : j \in T /\ j + 1 \notin T
  <2>. SUFFICES ASSUME \A j \in 0..(N - 1) : j \in T => j + 1 \in T PROVE FALSE
    OBVIOUS
  <2>1. \A k \in 0..N : k \in T
    <3>. HIDE DEF T
    <3>. QED
      BY <1>4, <1>11, NumbersUpTo
  <2>2. N \in T
    BY <1>4, <2>1
  <2>. QED
    BY <1>1, <1>4, <2>2
<1>13. PICK j \in 0..(N - 1) : j \in T /\ j + 1 \notin T
  BY <1>12
<1>. DEFINE a == pre[j]
            b == pieces[j+1]
            d == rest[j+1]
            c == n - Len(a)
<1>14. a \in Bytes /\ b \in Bytes /\ d \in Bytes /\ b \o d \in Bytes
  BY <1>6, <1>7, Lengths
<1>15. /\ pre[j+1] = a \o b /\ F = a \o (b \o d)
       /\ Len(a) <= n /\ ~(Len(pre[j+1]) <= n)
  <2>1. pre[j+1] = a \o b
    BY <1>5, <1>7
  <2>2. F = a \o (b \o d)
    BY <1>5, <1>7, <1>10
  <2>3. Len(a) <= n /\ ~(Len(pre[j+1]) <= n)
    BY <1>7, <1>13
  <2>. QED
    BY <2>1, <2>2, <2>3
<1>. HIDE DEF a, b, d
<1>16. /\ c \in 0..(Len(b) - 1) /\ c \in 0..Len(b) /\ c \in 0..Len(b \o d) /\ Len(a) + c = n
  <2>. DEFINE la == Len(a)
              lb == Len(b)
              ld == Len(d)
  <2>1. la \in Nat /\ lb \in Nat /\ ld \in Nat /\ Len(b \o d) = lb + ld /\ Len(a \o b) = la + lb
    BY <1>14, Lengths
  <2>2. la <= n /\ ~(la + lb <= n) /\ c = n - la
    BY <1>15, <2>1
  <2>. HIDE DEF la, lb, ld, c
  <2>3. c \in 0..(lb - 1) /\ c \in 0..lb /\ c \in 0..(lb + ld) /\ la + c = n
    BY <1>4, <2>1, <2>2
  <2>. QED
    BY <2>1, <2>3 DEF la, lb
<1>. HIDE DEF c
<1>17. SubSeq(F, 1, n) = a \o SubSeq(b, 1, c)
  <2>1. SubSeq(a \o (b \o d), 1, Len(a) + c) = a \o SubSeq(b \o d, 1, c)
    BY <1>14, <1>16, CutBehind
  <2>2. SubSeq(b \o d, 1, c) = SubSeq(b, 1, c)
    BY <1>14, <1>16, CutBefore
  <2>. QED
    BY <1>15, <1>16, <2>1, <2>2
<1>18. a = Flat(First(pieces, j))
  BY <1>1, <1>7, FirstFlat DEF a, N
<1>. QED
  BY <1>16, <1>17, <1>18 DEF b, F, N

\* No two fields of the robot's messages share a member.
OwnSlots(D) == \A i, k \in 1..Len(D) : D[i].slot = D[k].slot => i = k

\* No two fields of the robot share a slot.
LEMMA RobotSlots ==
  ASSUME NEW D \in RobotFields
  PROVE  OwnSlots(D)
<1>1. \A tag, name : Float(tag, name).slot = name /\ Bool(tag, name).slot = name
  BY DEF Float, Bool, PB_FIELD
<1>2. CASE D = RequestMessage_fields
  <2>. DEFINE S == <<"p_l", "p_r", "i_l", "i_r", "d_l", "d_r", "speed_l", "speed_r", "kv_l", "kv_r">>
  <2>1. Len(D) = 10
    BY <1>2, RobotDescriptors
  <2>2. \A i \in 1..10 : D[i] = Float(i, S[i])
    BY <1>2 DEF RequestMessage_fields
  <2>. HIDE DEF S
  <2>3. \A i \in 1..10 : D[i].slot = S[i]
    <3>1. TAKE i \in 1..10
    <3>. DEFINE name == S[i]
    <3>2. D[i] = Float(i, name)
      BY <2>2
    <3>. HIDE DEF name
    <3>3. D[i].slot = name
      BY <1>1, <3>2
    <3>. QED
      BY <3>3 DEF name
  <2>4. \A i, k \in 1..10 : S[i] = S[k] => i = k
    BY DEF S
  <2>. QED
    BY <2>1, <2>3, <2>4 DEF OwnSlots
<1>3. CASE D = ResponseMessage_fields
  <2>. DEFINE S == <<"p_l", "p_r", "i_l", "i_r", "d_l", "d_r", "speed_l", "speed_r", "dt_sec",
                     "voltage", "estop", "kv_l", "kv_r">>
  <2>1. Len(D) = 13
    BY <1>3, RobotDescriptors
  <2>2. \A i \in 1..13 : D[i] = IF i = 11 THEN Bool(i, S[i]) ELSE Float(i, S[i])
    BY <1>3 DEF ResponseMessage_fields
  <2>. HIDE DEF S
  <2>3. \A i \in 1..13 : D[i].slot = S[i]
    <3>1. TAKE i \in 1..13
    <3>. DEFINE name == S[i]
    <3>2. D[i] = Float(i, name) \/ D[i] = Bool(i, name)
      BY <2>2
    <3>. HIDE DEF name
    <3>3. D[i].slot = name
      BY <1>1, <3>2
    <3>. QED
      BY <3>3 DEF name
  <2>4. \A i, k \in 1..13 : S[i] = S[k] => i = k
    BY DEF S
  <2>. QED
    BY <2>1, <2>3, <2>4 DEF OwnSlots
<1>. QED
  BY <1>2, <1>3 DEF RobotFields

\* Nothing behind the first pieces adds nothing.
LEMMA FlatPadded ==
  ASSUME NEW pieces \in Seq(Bytes), NEW padded \in Seq(Bytes), Len(padded) = Len(pieces),
         NEW j \in 0..Len(pieces),
         \A i \in 1..Len(pieces) : padded[i] = IF i <= j THEN pieces[i] ELSE <<>>
  PROVE  Flat(padded) = Flat(First(pieces, j))
<1>. DEFINE N == Len(pieces)
            w == First(pieces, j)
<1>1. N \in Nat
  BY LenProperties
<1>2. w \in Seq(Bytes) /\ Len(w) = j /\ \A i \in 1..j : w[i] = pieces[i]
  BY FirstIs
<1>. HIDE DEF w
<1>3. PICK pre : IsFlat(pre, w) /\ pre[j] = Flat(w)
  BY <1>2, FlatIs
<1>4. pre \in [0..j -> Bytes] /\ pre[0] = <<>> /\ \A k \in 1..j : pre[k] = pre[k-1] \o w[k]
  BY <1>2, <1>3 DEF IsFlat
<1>. DEFINE all == [k \in 0..N |-> IF k <= j THEN pre[k] ELSE pre[j]]
<1>5. j \in Nat /\ j <= N /\ 0 \in 0..j /\ j \in 0..j /\ 0 \in 0..N /\ N \in 0..N
  BY <1>1
<1>. HIDE DEF N
<1>6. \A k \in 0..N : k <= j => k \in 0..j
  BY <1>1, <1>5
<1>7. all \in [0..N -> Bytes] /\ \A k \in 0..N : all[k] = IF k <= j THEN pre[k] ELSE pre[j]
  BY <1>4, <1>5, <1>6
<1>. HIDE DEF all
<1>8. ASSUME NEW k \in 1..N PROVE all[k] = all[k-1] \o padded[k]
  <2>1. k \in 0..N /\ k - 1 \in 0..N
    BY <1>1
  <2>2. CASE k <= j
    <3>1. k \in 1..j /\ k - 1 <= j
      BY <1>5, <2>2
    <3>2. all[k] = pre[k] /\ all[k-1] = pre[k-1] /\ padded[k] = w[k]
      BY <1>2, <1>7, <2>1, <2>2, <3>1 DEF N
    <3>. QED
      BY <1>4, <3>1, <3>2
  <2>3. CASE ~(k <= j)
    <3>1. k - 1 <= j => k - 1 = j
      BY <1>5, <2>3
    <3>2. all[k] = pre[j] /\ all[k-1] = pre[j] /\ padded[k] = <<>>
      BY <1>7, <2>1, <2>3, <3>1 DEF N
    <3>3. pre[j] \in Bytes
      BY <1>4, <1>5
    <3>. QED
      BY <3>2, <3>3, Nothing
  <2>. QED
    BY <2>2, <2>3
<1>9. all[0] = <<>>
  BY <1>4, <1>5, <1>7
<1>10. IsFlat(all, padded)
  BY <1>7, <1>8, <1>9 DEF IsFlat, N
<1>11. all[N] = Flat(padded)
  BY <1>10, FlatUnique DEF N
<1>12. all[N] = pre[j]
  <2>1. N <= j => N = j
    BY <1>1, <1>5
  <2>. QED
    BY <1>5, <1>7, <2>1
<1>. QED
  BY <1>3, <1>11, <1>12 DEF w

\* The first fields of a message alone are a message, of the first pieces.
Ones(j) == [i \in 1..j |-> i]

\* The message of the first fields alone is encoded to the first pieces.
LEMMA PartIs ==
  ASSUME NEW D, NEW msg0, IsMessage(D, msg0), OwnSlots(D), NEW j \in 0..Len(D)
  PROVE  LET m == Got(D, msg0, Ones(j), j)
         IN  /\ IsMessage(D, m)
             /\ Flat(Pieces(D, m)) = Flat(First(Pieces(D, msg0), j))
<1>. DEFINE m == Got(D, msg0, Ones(j), j)
            N == Len(D)
            pieces == Pieces(D, msg0)
<1>1. /\ IsDescriptor(D) /\ N \in 1..15 /\ \A i \in 1..N : IsSimple(D[i]) /\ D[i].slot \in Slots(D)
      /\ \A i \in 1..N : Default(D[i]) = Unset /\ IsCell(D[i], msg0[D[i].slot])
  BY DefaultsAre DEF IsMessage, IsDescriptor
<1>2. j \in Nat /\ j <= N /\ \A i \in 1..N : i <= j <=> i \in 1..j
  BY <1>1
<1>3. \A i \in 1..N : Holds(D, Ones(j), j, D[i].slot) <=> i <= j
  <2>1. TAKE i \in 1..N
  <2>2. \A p \in 1..j : Ones(j)[p] = p /\ p # 0 /\ p \in 1..N
    BY <1>1, <1>2 DEF Ones
  <2>3. Holds(D, Ones(j), j, D[i].slot) <=> \E p \in 1..j : D[p].slot = D[i].slot
    BY <2>2 DEF Holds
  <2>4. (\E p \in 1..j : D[p].slot = D[i].slot) <=> i \in 1..j
    BY <2>2 DEF OwnSlots
  <2>. QED
    BY <1>2, <2>3, <2>4
<1>4. \A i \in 1..N : m[D[i].slot] = IF i <= j THEN msg0[D[i].slot] ELSE Unset
  BY <1>1, <1>3 DEF Got
<1>5. m = [x \in Slots(D) |-> m[x]]
  BY DEF Got
<1>. HIDE DEF m
<1>6. \A i \in 1..N : IsCell(D[i], m[D[i].slot])
  BY <1>1, <1>4 DEF IsCell
<1>7. IsMessage(D, m)
  BY <1>1, <1>5, <1>6 DEF IsMessage
<1>8. /\ pieces \in Seq(Bytes) /\ Len(pieces) = N
      /\ \A i \in 1..N : pieces[i] = Piece(D[i], msg0[D[i].slot])
  BY PiecesAre
<1>9. /\ Pieces(D, m) \in Seq(Bytes) /\ Len(Pieces(D, m)) = N
      /\ \A i \in 1..N : Pieces(D, m)[i] = Piece(D[i], m[D[i].slot])
  BY <1>7, PiecesAre
<1>10. \A f : Piece(f, Unset) = <<>>
  BY DEF Piece, Unset
<1>. HIDE DEF pieces
<1>11. \A i \in 1..N : Pieces(D, m)[i] = IF i <= j THEN pieces[i] ELSE <<>>
  BY <1>4, <1>8, <1>9, <1>10
<1>. DEFINE padded == Pieces(D, m)
<1>. HIDE DEF padded, N
<1>12. Flat(padded) = Flat(First(pieces, j))
  <2>1. j \in 0..Len(pieces)
    BY <1>8 DEF N
  <2>2. Len(padded) = Len(pieces) /\ \A i \in 1..Len(pieces) : padded[i] = IF i <= j THEN pieces[i] ELSE <<>>
    BY <1>8, <1>9, <1>11 DEF padded
  <2>3. padded \in Seq(Bytes) /\ pieces \in Seq(Bytes)
    BY <1>8, <1>9 DEF padded
  <2>. QED
    BY <2>1, <2>2, <2>3, FlatPadded
<1>. QED
  BY <1>7, <1>12 DEF padded, pieces, m

\* Bytes that lost their end are refused, or are all of a message.
Notices(D, at) ==
  LET r == pb_decode(In(at, Len(at)), D)
  IN  r.s.ok = FALSE \/ pb_encode(Buffer(256), D, r.v).out = at

\* A cut between pieces leaves such a message, and one inside of a piece is an error.
LEMMA CutNoticed ==
  ASSUME NEW D \in RobotFields, NEW msg0, IsMessage(D, msg0),
         NEW n \in 0..(Len(Flat(Pieces(D, msg0))) - 1)
  PROVE  Notices(D, SubSeq(Flat(Pieces(D, msg0)), 1, n))
<1>. DEFINE pieces == Pieces(D, msg0)
            N == Len(D)
            at == SubSeq(Flat(pieces), 1, n)
<1>1. /\ IsDescriptor(D) /\ N \in Nat
      /\ pieces \in Seq(Bytes) /\ Len(pieces) = N
      /\ \A i \in 1..N : /\ pieces[i] = Piece(D[i], msg0[D[i].slot])
                         /\ IsSimple(D[i]) /\ IsCell(D[i], msg0[D[i].slot])
  BY PiecesAre DEF IsMessage
<1>2. OwnSlots(D)
  BY RobotSlots
<1>3. PICK j \in 0..(N - 1) : \E c \in 0..(Len(pieces[j+1]) - 1) :
        at = Flat(First(pieces, j)) \o SubSeq(pieces[j+1], 1, c)
  <2>1. n \in 0..(Len(Flat(pieces)) - 1)
    OBVIOUS
  <2>. HIDE DEF pieces, N
  <2>2. \E j \in 0..(Len(pieces) - 1) : \E c \in 0..(Len(pieces[j+1]) - 1) :
          at = Flat(First(pieces, j)) \o SubSeq(pieces[j+1], 1, c)
    BY <1>1, <2>1, CutPoint, Zenon
  <2>3. Len(pieces) = N
    BY <1>1
  <2>. QED
    BY <2>2, <2>3
<1>4. PICK c \in 0..(Len(pieces[j+1]) - 1) : at = Flat(First(pieces, j)) \o SubSeq(pieces[j+1], 1, c)
  BY <1>3
<1>5. j \in Nat /\ j \in 0..N /\ j + 1 \in 1..N /\ \A i \in 1..j : i \in 1..N /\ i # 0 /\ i \in 0..N
  BY <1>1
<1>. DEFINE part == First(pieces, j)
            of == Ones(j)
            p == pieces[j+1]
            tail == SubSeq(p, 1, c)
            m == Got(D, msg0, of, j)
            seen == Seen(part, of, j)
<1>6. part \in Seq(Bytes) /\ Len(part) = j /\ \A i \in 1..j : part[i] = pieces[i]
  <2>1. j \in 0..Len(pieces)
    BY <1>1, <1>5
  <2>. HIDE DEF pieces
  <2>. QED
    BY <1>1, <2>1, FirstIs
<1>7. p \in Bytes
  <2>1. j + 1 \in 1..Len(pieces)
    BY <1>1, <1>5
  <2>. HIDE DEF pieces
  <2>. QED
    BY <1>1, <2>1, ElementOfSeq
<1>8. tail \in Bytes /\ Len(tail) = c /\ c \in Nat /\ c < Len(p) /\ Len(p) \in Nat
  <2>. DEFINE l == Len(p)
  <2>1. l \in Nat
    BY <1>7, Lengths
  <2>2. c \in 0..(l - 1)
    BY <1>4
  <2>. HIDE DEF l, p
  <2>3. c \in 0..l /\ c \in Nat /\ c < l
    BY <2>1, <2>2
  <2>4. tail \in Bytes /\ Len(tail) = c
    BY <1>7, <2>3, CutIs DEF l
  <2>. QED
    BY <2>1, <2>3, <2>4 DEF l
<1>9. IsWire(D, msg0, part, of)
  <2>1. of \in [1..j -> 0..N] /\ \A i \in 1..j : of[i] = i
    BY <1>5 DEF Ones
  <2>. HIDE DEF part, of, pieces
  <2>2. \A i \in 1..j : IF of[i] = 0 THEN \E u : IsUnknownField(u) /\ part[i] = Foreign(u)
                        ELSE part[i] = Piece(D[of[i]], msg0[D[of[i]].slot])
    BY <1>1, <1>5, <1>6, <2>1
  <2>. QED
    BY <1>6, <2>1, <2>2 DEF IsWire
<1>10. Flat(part) \in Bytes
  <2>. HIDE DEF part
  <2>. QED
    BY <1>6, FlatBytes
<1>11. at = Flat(part) \o tail /\ Len(at) = Len(Flat(part)) + c
  <2>1. at = Flat(part) \o tail
    BY <1>4
  <2>. HIDE DEF at, part, tail
  <2>. QED
    BY <1>8, <1>10, <2>1, Lengths
<1>12. IsMessage(D, m) /\ Flat(Pieces(D, m)) = Flat(part)
  <2>1. j \in 0..Len(D)
    BY <1>5
  <2>. QED
    BY <1>2, <2>1, PartIs
<1>. DEFINE behind == Step(D, msg0, part, of, j, tail, c)
<1>13. c \in 0..Len(tail)
  BY <1>8
<1>14. ASSUME NEW last, Ends(D, msg0, part, of, tail, c, last)
       PROVE  pb_decode(In(at, Len(at)), D) = Read(last.s, last.msg)
  <2>. HIDE DEF at, part, tail, of
  <2>1. Decodes(D, Flat(part) \o tail, Len(Flat(part)) + c, last)
    BY <1>8, <1>9, <1>10, <1>13, <1>14, DecodeIs
  <2>. QED
    BY <1>11, <2>1 DEF Decodes
<1>. HIDE DEF at, m, seen
<1>15. CASE c = 0
  <2>1. Ends(D, msg0, part, of, tail, c, Step(D, msg0, part, of, Len(part), tail, 0))
    BY <1>15, EndsThere
  <2>. DEFINE last == Step(D, msg0, part, of, Len(part), tail, 0)
  <2>2. last.msg = m
    BY <1>6 DEF Step, Progress, m
  <2>3. pb_decode(In(at, Len(at)), D) = Read(last.s, last.msg)
    BY <1>14, <2>1
  <2>4. tail = <<>>
    <3>. HIDE DEF tail
    <3>. QED
      BY <1>8, <1>15, EmptySeq DEF Bytes
  <2>. HIDE DEF last, part, tail
  <2>5. at = Flat(part)
    BY <1>10, <1>11, <2>4, Nothing
  <2>6. pb_encode(Buffer(256), D, m).out = at
    <3>1. Len(Flat(Pieces(D, m))) <= 62
      BY <1>12, RobotEncoded
    <3>. DEFINE l == Len(Flat(Pieces(D, m)))
                no == FALSE
                max == 256
    <3>2. l \in Nat
      BY <1>10, <1>12, Lengths
    <3>3. no \in BOOLEAN /\ max \in Nat /\ l <= max
      <4>. HIDE DEF l
      <4>1. l <= 62
        BY <3>1 DEF l
      <4>. QED
        BY <3>2, <4>1
    <3>. HIDE DEF no, max
    <3>4. Writes(D, m, no, max)
      BY <1>12, <3>3, EncodeIs, Zenon
    <3>5. pb_encode(Buffer(256), D, m) = pb_ostream(TRUE, at, FALSE, 256)
      BY <1>12, <2>5, <3>4 DEF Writes, no, max, Buffer, pb_ostream_from_buffer
    <3>. QED
      BY <3>5 DEF pb_ostream
  <2>7. pb_decode(In(at, Len(at)), D).v = m
    BY <2>2, <2>3 DEF Read
  <2>. QED
    BY <2>6, <2>7 DEF Notices, at
<1>16. CASE c # 0
  <2>. DEFINE i == j + 1
              cell == msg0[D[i].slot]
              last == DecodeField(D, behind)
  <2>1. /\ i \in 1..N /\ p = Piece(D[i], cell) /\ IsSimple(D[i]) /\ IsCell(D[i], cell)
    BY <1>1, <1>5
  <2>2. cell = Has(cell.data) /\ cell.data \in FieldValues(D[i])
    <3>1. cell.size # FALSE
      <4>. SUFFICES ASSUME cell.size = FALSE PROVE FALSE
        OBVIOUS
      <4>1. p = <<>>
        BY <2>1 DEF Piece
      <4>2. Len(p) = 0
        BY <4>1
      <4>. HIDE DEF p
      <4>. QED
        BY <1>8, <4>2
    <3>. HIDE DEF cell, i
    <3>. QED
      BY <2>1, <3>1, CellIs
  <2>. DEFINE v == cell.data
  <2>3. p = Piece(D[i], Has(v))
    BY <2>1, <2>2
  <2>4. Fails(D, tail, c, m, seen)
    <3>. HIDE DEF p, v, cell, i
    <3>1. c \in 1..(Len(Piece(D[i], Has(v))) - 1)
      <4>. DEFINE l == Len(p)
      <4>1. l = Len(Piece(D[i], Has(v))) /\ l \in Nat /\ c < l
        BY <1>8, <2>3
      <4>. HIDE DEF l
      <4>2. c \in 1..(l - 1)
        BY <1>8, <1>16, <4>1
      <4>. QED
        BY <4>1, <4>2
    <3>2. v \in FieldValues(D[i]) /\ i \in 1..Len(D)
      BY <2>1, <2>2 DEF v
    <3>3. Fails(D, SubSeq(Piece(D[i], Has(v)), 1, c), c, m, seen)
      BY <1>1, <3>1, <3>2, RoundCut, Zenon
    <3>. QED
      BY <2>3, <3>3
  <2>5. last.s.ok = FALSE /\ last.fixed = 0
    BY <2>4 DEF Fails, Step, m, seen
  <2>. HIDE DEF last
  <2>6. DecodeField(D, last) = last
    BY <2>5, RoundRests, Zenon
  <2>7. Ends(D, msg0, part, of, tail, c, last)
    <3>. HIDE DEF part, of, tail
    <3>. QED
      BY <1>6, <1>16, <2>5, <2>6 DEF Ends, last
  <2>8. pb_decode(In(at, Len(at)), D) = Read(last.s, last.msg)
    BY <1>14, <2>7
  <2>9. pb_decode(In(at, Len(at)), D).s.ok = FALSE
    BY <2>5, <2>8 DEF Read
  <2>. QED
    BY <2>9 DEF Notices, at
<1>. QED
  BY <1>15, <1>16

\* What has lost its end is such a cut of an encoded message.
LEMMA LossNoticed ==
  ASSUME fields \in RobotFields, CodecInv
  PROVE  TruncationNoticed
<1>. SUFFICES ASSUME cut, Decoded.s.ok
              PROVE  pb_encode(Buffer(256), fields, Decoded.v).out = Flat(wire)
  BY DEF TruncationNoticed
<1>1. IsMessage(fields, msg) /\ IsCut(fields, msg, wire)
  BY DEF CodecInv
<1>. DEFINE F == Flat(Pieces(fields, msg))
<1>2. PICK n \in 0..(Len(F) - 1) : wire = <<SubSeq(F, 1, n)>>
  BY <1>1 DEF IsCut
<1>. DEFINE at == SubSeq(F, 1, n)
<1>3. Notices(fields, at)
  BY <1>1, CutNoticed
<1>4. F \in Bytes
  BY <1>1, PiecesAre, FlatBytes
<1>5. at \in Bytes
  <2>. DEFINE l == Len(F)
  <2>1. l \in Nat
    BY <1>4, Lengths
  <2>2. n \in 0..(l - 1)
    OBVIOUS
  <2>. HIDE DEF l, F
  <2>3. n \in 0..l
    BY <2>1, <2>2
  <2>. QED
    BY <1>4, <2>3, CutIs DEF l
<1>6. Flat(wire) = at
  <2>1. wire = <<at>>
    BY <1>2
  <2>. HIDE DEF at
  <2>. QED
    BY <1>5, <2>1, FlatOne
<1>. HIDE DEF at
<1>7. Decoded = pb_decode(In(at, Len(at)), fields)
  BY <1>6 DEF Decoded, In, pb_istream_from_buffer
<1>. QED
  BY <1>3, <1>6, <1>7 DEF Notices

\* Of a request or a response that lost its end, at whatever byte, the decoder
\* accepts no part of a field: it fails, or the fields it returns encode to just
\* the bytes there were.
THEOREM RobotTruncationNoticed == CodecSpec => [](fields \in RobotFields => TruncationNoticed)
<1>1. CodecInv => (fields \in RobotFields => TruncationNoticed)
  BY LossNoticed
<1>. QED
  BY <1>1, CodecInvHolds, PTL
=============================================================================
