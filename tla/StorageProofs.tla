--------------------------- MODULE StorageProofs ---------------------------
(***************************************************************************)
(* How codes and bits are stored, for every size: what SetTuple writes     *)
(* GetTuple reads back; the slices of two codes, compared as signed bytes  *)
(* from the first one that differs, are ordered as the codes are; and      *)
(* ClearTail keeps the bits of a block's tuples and no other.  A code has  *)
(* at most four bytes, so each proof about it is a case split on their     *)
(* number.                                                                 *)
(***************************************************************************)
EXTENDS BitVectorBlock, InterleavedSlices, TLAPS, FiniteSetTheorems, WellFoundedInduction

----------------------------------------------------------------------------
(* The modules that extend this one argue by the smallest exception.       *)
Lower == {pair \in Nat \X Nat : pair[1] < pair[2]}

(* A set of natural numbers has a smallest one.                            *)
LEMMA Smallest ==
  ASSUME NEW S, S \subseteq Nat, S # {}
  PROVE  \E n \in S : \A m \in S : n <= m
<1>1. IsWellFoundedOn(Lower, Nat)
  BY NatLessThanWellFounded, Zenon DEF OpToRel, Lower
<1>2. PICK n \in S : \A m \in S : ~(<<m, n>> \in Lower)
  BY <1>1, WFMin
<1>3. ASSUME NEW m \in S
      PROVE  n <= m
  <2>1. n \in Nat /\ m \in Nat
    OBVIOUS
  <2>2. <<m, n>> \notin Lower
    BY <1>2
  <2>3. m < n => <<m, n>> \in Lower
    BY <2>1 DEF Lower
  <2> HIDE <2>2
  <2>4. ~(m < n)
    BY <2>2, <2>3
  <2> QED BY <2>1, <2>4
<1> QED BY <1>3

----------------------------------------------------------------------------
(* The values a code of a column may have.                                 *)
CodesOf(width) == 0..(2^width - 1)

(* The first `bytes' slices of x and y agree.                              *)
SamePrefix(x, y, bytes) == \A k \in 1..bytes : x[k] = y[k]

(* The first of `bytes' slices in which x and y differ is lower in x.      *)
LowerPrefix(x, y, bytes) ==
  \E k \in 1..bytes : SamePrefix(x, y, k - 1) /\ x[k] < y[k]

(* A code padded to whole bytes.                                           *)
PaddedCode(value, width) == Padded(value, kNumPaddingBits(width))

----------------------------------------------------------------------------
(* The powers of two that bytes and widths are made of.                    *)
LEMMA PowersOfTwo ==
  /\ 2^1 = 2 /\ 2^2 = 4 /\ 2^3 = 8 /\ 2^4 = 16 /\ 2^5 = 32 /\ 2^6 = 64 /\ 2^7 = 128
  /\ 2^8 = 256 /\ 2^9 = 512 /\ 2^10 = 1024 /\ 2^11 = 2048 /\ 2^12 = 4096 /\ 2^13 = 8192
  /\ 2^14 = 16384 /\ 2^15 = 32768 /\ 2^16 = 65536 /\ 2^17 = 131072 /\ 2^18 = 262144
  /\ 2^19 = 524288 /\ 2^20 = 1048576 /\ 2^21 = 2097152 /\ 2^22 = 4194304 /\ 2^23 = 8388608
  /\ 2^24 = 16777216 /\ 2^25 = 33554432 /\ 2^26 = 67108864 /\ 2^27 = 134217728
  /\ 2^28 = 268435456 /\ 2^29 = 536870912 /\ 2^30 = 1073741824 /\ 2^31 = 2147483648
  /\ 2^32 = 4294967296
  BY SMT

(* A narrower column has no more codes.                                    *)
LEMMA NarrowCodes ==
  ASSUME NEW m \in 1..32, NEW width \in 1..32, m <= width
  PROVE  2^m <= 2^width
<1> DEFINE P(n) == 2^n
<1>1. /\ P(1) = 2 /\ P(2) = 4 /\ P(3) = 8 /\ P(4) = 16 /\ P(5) = 32 /\ P(6) = 64
      /\ P(7) = 128 /\ P(8) = 256 /\ P(9) = 512 /\ P(10) = 1024 /\ P(11) = 2048
      /\ P(12) = 4096 /\ P(13) = 8192 /\ P(14) = 16384 /\ P(15) = 32768 /\ P(16) = 65536
      /\ P(17) = 131072 /\ P(18) = 262144 /\ P(19) = 524288 /\ P(20) = 1048576
      /\ P(21) = 2097152 /\ P(22) = 4194304 /\ P(23) = 8388608 /\ P(24) = 16777216
      /\ P(25) = 33554432 /\ P(26) = 67108864 /\ P(27) = 134217728 /\ P(28) = 268435456
      /\ P(29) = 536870912 /\ P(30) = 1073741824 /\ P(31) = 2147483648
      /\ P(32) = 4294967296
  BY PowersOfTwo, SMT
<1> HIDE DEF P
<1>2. P(m) <= P(width)
  BY <1>1, SMT
<1> QED BY <1>2 DEF P

(***************************************************************************)
(* The bytes of a code, the factor that pads it, and how many codes there  *)
(* are: 2^width of them fill 8 * bytes bits when padded.                   *)
(***************************************************************************)
LEMMA Widths ==
  ASSUME NEW width \in 1..32
  PROVE  /\ kNumBytesPerCode(width) \in 1..4
         /\ kNumPaddingBits(width) \in 0..7
         /\ PowerOfTwo[kNumPaddingBits(width) + 1] \in {1, 2, 4, 8, 16, 32, 64, 128}
         /\ 2^width \in Nat \ {0}
         /\ 2^width * PowerOfTwo[kNumPaddingBits(width) + 1]
              = 256 * Weight[kNumBytesPerCode(width)]
<1> DEFINE Fact(w) ==
      /\ kNumBytesPerCode(w) \in 1..4
      /\ kNumPaddingBits(w) \in 0..7
      /\ PowerOfTwo[kNumPaddingBits(w) + 1] \in {1, 2, 4, 8, 16, 32, 64, 128}
      /\ 2^w \in Nat \ {0}
      /\ 2^w * PowerOfTwo[kNumPaddingBits(w) + 1] = 256 * Weight[kNumBytesPerCode(w)]
<1>1. Fact(1) /\ Fact(2) /\ Fact(3) /\ Fact(4) /\ Fact(5) /\ Fact(6) /\ Fact(7) /\ Fact(8)
  BY PowersOfTwo DEF kNumBytesPerCode, kNumPaddingBits, PowerOfTwo, Weight
<1>2. /\ Fact(9) /\ Fact(10) /\ Fact(11) /\ Fact(12) /\ Fact(13) /\ Fact(14) /\ Fact(15)
      /\ Fact(16)
  BY PowersOfTwo DEF kNumBytesPerCode, kNumPaddingBits, PowerOfTwo, Weight
<1>3. /\ Fact(17) /\ Fact(18) /\ Fact(19) /\ Fact(20) /\ Fact(21) /\ Fact(22) /\ Fact(23)
      /\ Fact(24)
  BY PowersOfTwo DEF kNumBytesPerCode, kNumPaddingBits, PowerOfTwo, Weight
<1>4. /\ Fact(25) /\ Fact(26) /\ Fact(27) /\ Fact(28) /\ Fact(29) /\ Fact(30) /\ Fact(31)
      /\ Fact(32)
  BY PowersOfTwo DEF kNumBytesPerCode, kNumPaddingBits, PowerOfTwo, Weight
<1>5. \A w \in 1..32 : Fact(w)
  <2> HIDE DEF Fact
  <2> TAKE w \in 1..32
  <2>1. CASE w \in 1..8
    <3>1. w = 1 \/ w = 2 \/ w = 3 \/ w = 4 \/ w = 5 \/ w = 6 \/ w = 7 \/ w = 8
      BY <2>1
    <3> QED BY <3>1, <1>1
  <2>2. CASE w \in 9..16
    <3>1. w = 9 \/ w = 10 \/ w = 11 \/ w = 12 \/ w = 13 \/ w = 14 \/ w = 15 \/ w = 16
      BY <2>2
    <3> QED BY <3>1, <1>2
  <2>3. CASE w \in 17..24
    <3>1. w = 17 \/ w = 18 \/ w = 19 \/ w = 20 \/ w = 21 \/ w = 22 \/ w = 23 \/ w = 24
      BY <2>3
    <3> QED BY <3>1, <1>3
  <2>4. CASE w \in 25..32
    <3>1. w = 25 \/ w = 26 \/ w = 27 \/ w = 28 \/ w = 29 \/ w = 30 \/ w = 31 \/ w = 32
      BY <2>4
    <3> QED BY <3>1, <1>4
  <2> QED BY <2>1, <2>2, <2>3, <2>4
<1> QED BY <1>5

(* Padding keeps the order of codes, and a padded code has no more than    *)
(* its bytes.                                                              *)
LEMMA PaddedCodes ==
  ASSUME NEW width \in 1..32, NEW u \in CodesOf(width), NEW v \in CodesOf(width)
  PROVE  /\ PaddedCode(u, width) \in 0..(256 * Weight[kNumBytesPerCode(width)] - 1)
         /\ PaddedCode(u, width) \in Nat
         /\ u < v <=> PaddedCode(u, width) < PaddedCode(v, width)
         /\ PaddedCode(u, width) \div PowerOfTwo[kNumPaddingBits(width) + 1] = u
<1> DEFINE p == PowerOfTwo[kNumPaddingBits(width) + 1]
           n == 2^width
           top == 256 * Weight[kNumBytesPerCode(width)]
<1>1. /\ p \in {1, 2, 4, 8, 16, 32, 64, 128} /\ n \in Nat /\ n * p = top
      /\ u \in 0..(n - 1) /\ v \in 0..(n - 1)
  BY Widths DEF CodesOf
<1>2. PaddedCode(u, width) = u * p /\ PaddedCode(v, width) = v * p
  BY DEF PaddedCode, Padded
<1> HIDE DEF p, n, top
<1>3. u * p \in 0..(n * p - 1) /\ (u < v <=> u * p < v * p) /\ (u * p) \div p = u
  BY <1>1
<1> QED BY <1>1, <1>2, <1>3 DEF p, top

(***************************************************************************)
(* The values of so many bytes, and the value that given bytes make.       *)
(***************************************************************************)
Values(bytes) == 0..(256 * Weight[bytes] - 1)

ValueOfTwo(a, b) == 256 * a + b
ValueOfThree(a, b, c) == 256 * (256 * a + b) + c
ValueOfFour(a, b, c, d) == 256 * (256 * (256 * a + b) + c) + d

(* Two bytes are the digits of a number below 2^16.                        *)
LEMMA DigitsOfTwo ==
  ASSUME NEW u \in Values(2)
  PROVE  \E a, b \in ByteUnit : u = ValueOfTwo(a, b)
<1>1. u \div 256 \in ByteUnit /\ u % 256 \in ByteUnit /\ u = ValueOfTwo(u \div 256, u % 256)
  BY SMT DEF ByteUnit, Values, Weight, ValueOfTwo
<1> QED BY <1>1

(* Three bytes are the digits of a number below 2^24.                      *)
LEMMA DigitsOfThree ==
  ASSUME NEW u \in Values(3)
  PROVE  \E a, b, c \in ByteUnit : u = ValueOfThree(a, b, c)
<1>1. PICK q \in Values(2), c \in ByteUnit : u = 256 * q + c
  <2>1. u \div 256 \in Values(2) /\ u % 256 \in ByteUnit /\ u = 256 * (u \div 256) + (u % 256)
    BY SMT DEF ByteUnit, Values, Weight
  <2> QED BY <2>1
<1>2. PICK a \in ByteUnit, b \in ByteUnit : q = ValueOfTwo(a, b)
  BY DigitsOfTwo
<1>3. u = ValueOfThree(a, b, c)
  BY <1>1, <1>2 DEF ValueOfTwo, ValueOfThree
<1> QED BY <1>3

(* Four bytes are the digits of a number below 2^32.                       *)
LEMMA DigitsOfFour ==
  ASSUME NEW u \in Values(4)
  PROVE  \E a, b, c, d \in ByteUnit : u = ValueOfFour(a, b, c, d)
<1>1. PICK q \in Values(3), d \in ByteUnit : u = 256 * q + d
  <2>1. u \div 256 \in Values(3) /\ u % 256 \in ByteUnit /\ u = 256 * (u \div 256) + (u % 256)
    BY SMT DEF ByteUnit, Values, Weight
  <2> QED BY <2>1
<1>2. PICK a \in ByteUnit, b \in ByteUnit, c \in ByteUnit : q = ValueOfThree(a, b, c)
  BY DigitsOfThree
<1>3. u = ValueOfFour(a, b, c, d)
  BY <1>1, <1>2 DEF ValueOfThree, ValueOfFour
<1> QED BY <1>3

(***************************************************************************)
(* ByteOf finds the bytes of a value.                                      *)
(***************************************************************************)
Bytes(u, n) == [k \in 1..n |-> ByteOf(u, n, k)]

(* The byte of a code of up to 8 bits.                                     *)
LEMMA BytesOfOne ==
  ASSUME NEW u \in Values(1)
  PROVE  Bytes(u, 1)[1] = u
  BY SMT DEF ByteUnit, Bytes, ByteOf, Values, Weight

(* The bytes of a code of 9 to 16 bits.                                    *)
LEMMA BytesOfTwo ==
  ASSUME NEW a \in ByteUnit, NEW b \in ByteUnit
  PROVE  LET x == Bytes(ValueOfTwo(a, b), 2) IN x[1] = a /\ x[2] = b
<1> DEFINE u == ValueOfTwo(a, b)
<1>1. ByteOf(u, 2, 1) = (u \div 256) % 256 /\ ByteOf(u, 2, 2) = (u \div 1) % 256
  BY SMT DEF ByteUnit, ByteOf, Weight
<1>2. (u \div 256) % 256 = a /\ (u \div 1) % 256 = b
  BY SMT DEF ByteUnit, ValueOfTwo
<1> HIDE DEF u
<1>3. Bytes(u, 2)[1] = a /\ Bytes(u, 2)[2] = b
  BY <1>1, <1>2, SMT DEF Bytes
<1> QED BY <1>3 DEF u

(* The bytes of a code of 17 to 24 bits.                                   *)
LEMMA BytesOfThree ==
  ASSUME NEW a \in ByteUnit, NEW b \in ByteUnit, NEW c \in ByteUnit
  PROVE  LET x == Bytes(ValueOfThree(a, b, c), 3) IN x[1] = a /\ x[2] = b /\ x[3] = c
<1> DEFINE u == ValueOfThree(a, b, c)
<1>1. /\ ByteOf(u, 3, 1) = (u \div 65536) % 256
      /\ ByteOf(u, 3, 2) = (u \div 256) % 256
      /\ ByteOf(u, 3, 3) = (u \div 1) % 256
  BY SMT DEF ByteUnit, ByteOf, Weight
<1>2. u \div 65536 = a /\ u \div 256 = 256 * a + b /\ u \div 1 = u
  BY SMT DEF ByteUnit, ValueOfThree
<1>3. a % 256 = a /\ (256 * a + b) % 256 = b /\ u % 256 = c
  BY SMT DEF ByteUnit, ValueOfThree
<1> HIDE DEF u
<1>4. ByteOf(u, 3, 1) = a /\ ByteOf(u, 3, 2) = b /\ ByteOf(u, 3, 3) = c
  BY <1>1, <1>2, <1>3, SMT DEF ByteUnit
<1>5. Bytes(u, 3)[1] = a /\ Bytes(u, 3)[2] = b /\ Bytes(u, 3)[3] = c
  BY <1>4, SMT DEF Bytes
<1> QED BY <1>5 DEF u

(* The bytes of a code of 25 to 32 bits.                                   *)
LEMMA BytesOfFour ==
  ASSUME NEW a \in ByteUnit, NEW b \in ByteUnit, NEW c \in ByteUnit, NEW d \in ByteUnit
  PROVE  LET x == Bytes(ValueOfFour(a, b, c, d), 4)
         IN x[1] = a /\ x[2] = b /\ x[3] = c /\ x[4] = d
<1> DEFINE u == ValueOfFour(a, b, c, d)
<1>1. /\ ByteOf(u, 4, 1) = (u \div 16777216) % 256
      /\ ByteOf(u, 4, 2) = (u \div 65536) % 256
      /\ ByteOf(u, 4, 3) = (u \div 256) % 256
      /\ ByteOf(u, 4, 4) = (u \div 1) % 256
  BY SMT DEF ByteUnit, ByteOf, Weight
<1>2. /\ u \div 16777216 = a /\ u \div 65536 = 256 * a + b
      /\ u \div 256 = 256 * (256 * a + b) + c /\ u \div 1 = u
  BY SMT DEF ByteUnit, ValueOfFour
<1>3. /\ a % 256 = a /\ (256 * a + b) % 256 = b
      /\ (256 * (256 * a + b) + c) % 256 = c /\ u % 256 = d
  BY SMT DEF ByteUnit, ValueOfFour
<1> HIDE DEF u
<1>4. /\ ByteOf(u, 4, 1) = a /\ ByteOf(u, 4, 2) = b
      /\ ByteOf(u, 4, 3) = c /\ ByteOf(u, 4, 4) = d
  BY <1>1, <1>2, <1>3, SMT DEF ByteUnit
<1>5. /\ Bytes(u, 4)[1] = a /\ Bytes(u, 4)[2] = b
      /\ Bytes(u, 4)[3] = c /\ Bytes(u, 4)[4] = d
  BY <1>4, SMT DEF Bytes
<1> QED BY <1>5 DEF u

(***************************************************************************)
(* The prefixes, byte by byte.                                             *)
(***************************************************************************)
LEMMA SamePrefixes ==
  ASSUME NEW x, NEW y
  PROVE  /\ SamePrefix(x, y, 0)
         /\ SamePrefix(x, y, 1) <=> x[1] = y[1]
         /\ SamePrefix(x, y, 2) <=> x[1] = y[1] /\ x[2] = y[2]
         /\ SamePrefix(x, y, 3) <=> x[1] = y[1] /\ x[2] = y[2] /\ x[3] = y[3]
         /\ SamePrefix(x, y, 4) <=> x[1] = y[1] /\ x[2] = y[2] /\ x[3] = y[3] /\ x[4] = y[4]
  BY SMT DEF ByteUnit, SamePrefix

(* Two sequences agree on one byte more when that byte is the same.        *)
LEMMA SameNext ==
  ASSUME NEW x, NEW y, NEW n \in Nat
  PROVE  SamePrefix(x, y, n + 1) <=> SamePrefix(x, y, n) /\ x[n + 1] = y[n + 1]
  BY SMT DEF ByteUnit, SamePrefix

(* One byte more decides when it differs and none before it did.           *)
LEMMA LowerNext ==
  ASSUME NEW x, NEW y, NEW n \in Nat
  PROVE  LowerPrefix(x, y, n + 1) <=>
           LowerPrefix(x, y, n) \/ (SamePrefix(x, y, n) /\ x[n + 1] < y[n + 1])
<1>1. ASSUME LowerPrefix(x, y, n + 1)
      PROVE  LowerPrefix(x, y, n) \/ (SamePrefix(x, y, n) /\ x[n + 1] < y[n + 1])
  <2>1. PICK k \in 1..(n + 1) : SamePrefix(x, y, k - 1) /\ x[k] < y[k]
    BY <1>1 DEF LowerPrefix
  <2>2. k \in 1..n \/ k - 1 = n
    BY <2>1
  <2> QED BY <2>1, <2>2 DEF LowerPrefix
<1>2. 1..n \subseteq 1..(n + 1) /\ n + 1 \in 1..(n + 1) /\ (n + 1) - 1 = n
  OBVIOUS
<1> QED BY <1>1, <1>2 DEF LowerPrefix

(* No bytes are never lower.                                               *)
LEMMA LowerNone ==
  ASSUME NEW x, NEW y
  PROVE  ~LowerPrefix(x, y, 0)
  BY DEF LowerPrefix

(***************************************************************************)
(* The bytes of a value, most significant first, determine and order it.   *)
(***************************************************************************)
LEMMA OrderOfOne ==
  ASSUME NEW u \in Values(1), NEW v \in Values(1)
  PROVE  /\ u = v <=> SamePrefix(Bytes(u, 1), Bytes(v, 1), 1)
         /\ u < v <=> LowerPrefix(Bytes(u, 1), Bytes(v, 1), 1)
<1>1. Bytes(u, 1)[1] = u /\ Bytes(v, 1)[1] = v
  BY BytesOfOne
<1>2. LowerPrefix(Bytes(u, 1), Bytes(v, 1), 0 + 1) <=> u < v
  BY <1>1, LowerNext, LowerNone, SamePrefixes
<1> QED BY <1>1, <1>2, SamePrefixes

(* Two bytes order as the numbers they are the digits of.                  *)
LEMMA OrderOfTwo ==
  ASSUME NEW a \in ByteUnit, NEW b \in ByteUnit,
         NEW e \in ByteUnit, NEW f \in ByteUnit
  PROVE  LET u == ValueOfTwo(a, b)
             v == ValueOfTwo(e, f)
         IN /\ u = v <=> SamePrefix(Bytes(u, 2), Bytes(v, 2), 2)
            /\ u < v <=> LowerPrefix(Bytes(u, 2), Bytes(v, 2), 2)
<1> DEFINE u == ValueOfTwo(a, b)
           v == ValueOfTwo(e, f)
           x == Bytes(u, 2)
           y == Bytes(v, 2)
<1>1. x[1] = a /\ x[2] = b
  BY BytesOfTwo
<1>2. y[1] = e /\ y[2] = f
  BY BytesOfTwo
<1>3. /\ u = v <=> a = e /\ b = f
      /\ u < v <=>
           \/ a < e
           \/ (a = e /\ b < f)
  BY SMT DEF ByteUnit, ValueOfTwo
<1> HIDE DEF u, v, x, y
<1>4. LowerPrefix(x, y, 2) <=>
        \/ a < e
        \/ (a = e /\ b < f)
  <2>1. LowerPrefix(x, y, 0 + 1) <=> a < e
    BY <1>1, <1>2, LowerNext, LowerNone, SamePrefixes
  <2>2. LowerPrefix(x, y, 1 + 1) <=>
          LowerPrefix(x, y, 1) \/ (a = e /\ b < f)
    BY <1>1, <1>2, LowerNext, SamePrefixes
  <2> QED BY <2>1, <2>2
<1>5. SamePrefix(x, y, 2) <=> a = e /\ b = f
  BY <1>1, <1>2, SamePrefixes
<1> QED BY <1>3, <1>4, <1>5 DEF u, v, x, y

(* Three bytes order as the numbers they are the digits of.                *)
LEMMA OrderOfThree ==
  ASSUME NEW a \in ByteUnit, NEW b \in ByteUnit, NEW c \in ByteUnit,
         NEW e \in ByteUnit, NEW f \in ByteUnit, NEW g \in ByteUnit
  PROVE  LET u == ValueOfThree(a, b, c)
             v == ValueOfThree(e, f, g)
         IN /\ u = v <=> SamePrefix(Bytes(u, 3), Bytes(v, 3), 3)
            /\ u < v <=> LowerPrefix(Bytes(u, 3), Bytes(v, 3), 3)
<1> DEFINE u == ValueOfThree(a, b, c)
           v == ValueOfThree(e, f, g)
           x == Bytes(u, 3)
           y == Bytes(v, 3)
<1>1. x[1] = a /\ x[2] = b /\ x[3] = c
  BY BytesOfThree
<1>2. y[1] = e /\ y[2] = f /\ y[3] = g
  BY BytesOfThree
<1>3. /\ u = v <=> a = e /\ b = f /\ c = g
      /\ u < v <=>
           \/ a < e
           \/ (a = e /\ b < f)
           \/ (a = e /\ b = f /\ c < g)
  BY SMT DEF ByteUnit, ValueOfThree
<1> HIDE DEF u, v, x, y
<1>4. LowerPrefix(x, y, 3) <=>
        \/ a < e
        \/ (a = e /\ b < f)
        \/ (a = e /\ b = f /\ c < g)
  <2>1. LowerPrefix(x, y, 0 + 1) <=> a < e
    BY <1>1, <1>2, LowerNext, LowerNone, SamePrefixes
  <2>2. LowerPrefix(x, y, 1 + 1) <=>
          LowerPrefix(x, y, 1) \/ (a = e /\ b < f)
    BY <1>1, <1>2, LowerNext, SamePrefixes
  <2>3. LowerPrefix(x, y, 2 + 1) <=>
          LowerPrefix(x, y, 2) \/ (a = e /\ b = f /\ c < g)
    BY <1>1, <1>2, LowerNext, SamePrefixes
  <2> QED BY <2>1, <2>2, <2>3
<1>5. SamePrefix(x, y, 3) <=> a = e /\ b = f /\ c = g
  BY <1>1, <1>2, SamePrefixes
<1> QED BY <1>3, <1>4, <1>5 DEF u, v, x, y

(* Four bytes order as the numbers they are the digits of.                 *)
LEMMA OrderOfFour ==
  ASSUME NEW a \in ByteUnit, NEW b \in ByteUnit, NEW c \in ByteUnit, NEW d \in ByteUnit,
         NEW e \in ByteUnit, NEW f \in ByteUnit, NEW g \in ByteUnit, NEW h \in ByteUnit
  PROVE  LET u == ValueOfFour(a, b, c, d)
             v == ValueOfFour(e, f, g, h)
         IN /\ u = v <=> SamePrefix(Bytes(u, 4), Bytes(v, 4), 4)
            /\ u < v <=> LowerPrefix(Bytes(u, 4), Bytes(v, 4), 4)
<1> DEFINE u == ValueOfFour(a, b, c, d)
           v == ValueOfFour(e, f, g, h)
           x == Bytes(u, 4)
           y == Bytes(v, 4)
<1>1. x[1] = a /\ x[2] = b /\ x[3] = c /\ x[4] = d
  BY BytesOfFour
<1>2. y[1] = e /\ y[2] = f /\ y[3] = g /\ y[4] = h
  BY BytesOfFour
<1>3. /\ u = v <=> a = e /\ b = f /\ c = g /\ d = h
      /\ u < v <=>
           \/ a < e
           \/ (a = e /\ b < f)
           \/ (a = e /\ b = f /\ c < g)
           \/ (a = e /\ b = f /\ c = g /\ d < h)
  BY SMT DEF ByteUnit, ValueOfFour
<1> HIDE DEF u, v, x, y
<1>4. LowerPrefix(x, y, 4) <=>
        \/ a < e
        \/ (a = e /\ b < f)
        \/ (a = e /\ b = f /\ c < g)
        \/ (a = e /\ b = f /\ c = g /\ d < h)
  <2>1. LowerPrefix(x, y, 0 + 1) <=> a < e
    BY <1>1, <1>2, LowerNext, LowerNone, SamePrefixes
  <2>2. LowerPrefix(x, y, 1 + 1) <=>
          LowerPrefix(x, y, 1) \/ (a = e /\ b < f)
    BY <1>1, <1>2, LowerNext, SamePrefixes
  <2>3. LowerPrefix(x, y, 2 + 1) <=>
          LowerPrefix(x, y, 2) \/ (a = e /\ b = f /\ c < g)
    BY <1>1, <1>2, LowerNext, SamePrefixes
  <2>4. LowerPrefix(x, y, 3 + 1) <=>
          LowerPrefix(x, y, 3) \/ (a = e /\ b = f /\ c = g /\ d < h)
    BY <1>1, <1>2, LowerNext, SamePrefixes
  <2> QED BY <2>1, <2>2, <2>3, <2>4
<1>5. SamePrefix(x, y, 4) <=> a = e /\ b = f /\ c = g /\ d = h
  BY <1>1, <1>2, SamePrefixes
<1> QED BY <1>3, <1>4, <1>5 DEF u, v, x, y

(* The bytes of two codes order as the codes, at every width.              *)
LEMMA OrderOfBytes ==
  ASSUME NEW n \in 1..4, NEW u \in Values(n), NEW v \in Values(n)
  PROVE  /\ u = v <=> SamePrefix(Bytes(u, n), Bytes(v, n), n)
         /\ u < v <=> LowerPrefix(Bytes(u, n), Bytes(v, n), n)
<1>1. CASE n = 1
  BY <1>1, OrderOfOne
<1>2. CASE n = 2
  <2>1. PICK a \in ByteUnit, b \in ByteUnit : u = ValueOfTwo(a, b)
    BY <1>2, DigitsOfTwo
  <2>2. PICK e \in ByteUnit, f \in ByteUnit : v = ValueOfTwo(e, f)
    BY <1>2, DigitsOfTwo
  <2> QED BY <1>2, <2>1, <2>2, OrderOfTwo
<1>3. CASE n = 3
  <2>1. PICK a \in ByteUnit, b \in ByteUnit, c \in ByteUnit : u = ValueOfThree(a, b, c)
    BY <1>3, DigitsOfThree
  <2>2. PICK e \in ByteUnit, f \in ByteUnit, g \in ByteUnit : v = ValueOfThree(e, f, g)
    BY <1>3, DigitsOfThree
  <2> QED BY <1>3, <2>1, <2>2, OrderOfThree
<1>4. CASE n = 4
  <2>1. PICK a \in ByteUnit, b \in ByteUnit, c \in ByteUnit, d \in ByteUnit :
          u = ValueOfFour(a, b, c, d)
    BY <1>4, DigitsOfFour
  <2>2. PICK e \in ByteUnit, f \in ByteUnit, g \in ByteUnit, h \in ByteUnit :
          v = ValueOfFour(e, f, g, h)
    BY <1>4, DigitsOfFour
  <2>3. LET y == ValueOfFour(a, b, c, d)
            z == ValueOfFour(e, f, g, h)
        IN /\ y = z <=> SamePrefix(Bytes(y, 4), Bytes(z, 4), 4)
           /\ y < z <=> LowerPrefix(Bytes(y, 4), Bytes(z, 4), 4)
    BY OrderOfFour, ZenonT(60)
  <2> QED BY <1>4, <2>1, <2>2, <2>3
<1> QED BY <1>1, <1>2, <1>3, <1>4

----------------------------------------------------------------------------
(***************************************************************************)
(* The byte slices of a code.                                              *)
(***************************************************************************)
SignedSlices(value, width) ==
  [k \in 1..kNumBytesPerCode(width) |-> AsSigned(SetTuple(value, width)[k])]

(* Every byte of a code is a byte, and is stored as itself less 128.       *)
LEMMA StoredBytes ==
  ASSUME NEW width \in 1..32, NEW u \in CodesOf(width),
         NEW k \in 1..kNumBytesPerCode(width)
  PROVE  /\ Bytes(PaddedCode(u, width), kNumBytesPerCode(width))[k] \in ByteUnit
         /\ SetTuple(u, width)[k]
              = FLIP(Bytes(PaddedCode(u, width), kNumBytesPerCode(width))[k])
         /\ SignedSlices(u, width)[k]
              = Bytes(PaddedCode(u, width), kNumBytesPerCode(width))[k] - 128
<1> DEFINE n == kNumBytesPerCode(width)
           v == PaddedCode(u, width)
           b == ByteOf(v, n, k)
<1>1. n \in 1..4 /\ v \in Nat
  BY PaddedCodes, Widths
<1>2. b \in ByteUnit
  <2>1. n - k + 1 \in 1..4
    BY <1>1
  <2>2. Weight[n - k + 1] \in Nat \ {0}
    BY <2>1, SMT DEF Weight
  <2> HIDE DEF n, v
  <2> QED BY <1>1, <2>2, SMT DEF ByteOf, ByteUnit
<1>3. Bytes(v, n)[k] = b /\ SetTuple(u, width)[k] = FLIP(b)
  BY DEF Bytes, SetTuple, PaddedCode
<1>4. SignedSlices(u, width)[k] = AsSigned(FLIP(b))
  BY <1>3 DEF SignedSlices
<1> HIDE DEF b
<1>5. AsSigned(FLIP(b)) = b - 128
  BY <1>2, SMT DEF AsSigned, FLIP, ByteUnit
<1> QED BY <1>2, <1>3, <1>4, <1>5 DEF n, v

(***************************************************************************)
(* The slices of two codes, compared as signed bytes from the first on in  *)
(* which they differ, are ordered as the codes.                            *)
(***************************************************************************)
THEOREM SliceOrder ==
  ASSUME NEW width \in 1..32, NEW u \in CodesOf(width), NEW v \in CodesOf(width)
  PROVE  LET x == SignedSlices(u, width)
             y == SignedSlices(v, width)
             n == kNumBytesPerCode(width)
         IN /\ u = v <=> SamePrefix(x, y, n)
            /\ u < v <=> LowerPrefix(x, y, n)
<1> DEFINE n == kNumBytesPerCode(width)
           x == SignedSlices(u, width)
           y == SignedSlices(v, width)
           p == Bytes(PaddedCode(u, width), n)
           q == Bytes(PaddedCode(v, width), n)
<1>1. n \in 1..4
  BY Widths
<1>2. \A k \in 1..n : /\ p[k] \in ByteUnit /\ q[k] \in ByteUnit
                      /\ x[k] = p[k] - 128 /\ y[k] = q[k] - 128
  BY StoredBytes
<1>3. PaddedCode(u, width) \in Values(n) /\ PaddedCode(v, width) \in Values(n)
  BY PaddedCodes DEF Values
<1>4. u = v <=> PaddedCode(u, width) = PaddedCode(v, width)
  BY PaddedCodes
<1>5. u < v <=> PaddedCode(u, width) < PaddedCode(v, width)
  BY PaddedCodes
<1>6. /\ u = v <=> SamePrefix(p, q, n)
      /\ u < v <=> LowerPrefix(p, q, n)
  BY <1>1, <1>3, <1>4, <1>5, OrderOfBytes
<1> HIDE DEF n, x, y, p, q
<1>7. \A k \in 1..n : (x[k] = y[k] <=> p[k] = q[k]) /\ (x[k] < y[k] <=> p[k] < q[k])
  <2> TAKE k \in 1..n
  <2>1. p[k] \in ByteUnit /\ q[k] \in ByteUnit /\ x[k] = p[k] - 128 /\ y[k] = q[k] - 128
    BY <1>2
  <2>2. ASSUME NEW a \in ByteUnit, NEW b \in ByteUnit
        PROVE  (a - 128 = b - 128 <=> a = b) /\ (a - 128 < b - 128 <=> a < b)
    BY SMT DEF ByteUnit
  <2>3. /\ p[k] - 128 = q[k] - 128 <=> p[k] = q[k]
        /\ p[k] - 128 < q[k] - 128 <=> p[k] < q[k]
    BY <2>1, <2>2
  <2> QED BY <2>1, <2>3
<1>8. \A j \in 0..n : SamePrefix(x, y, j) <=> SamePrefix(p, q, j)
  BY <1>1, <1>7, SMT DEF SamePrefix
<1>9. LowerPrefix(x, y, n) <=> LowerPrefix(p, q, n)
  BY <1>1, <1>7, <1>8, SMT DEF LowerPrefix
<1>10. n \in 0..n
  BY <1>1
<1> QED BY <1>6, <1>8, <1>9, <1>10 DEF n, x, y

(***************************************************************************)
(* Joined adds up the bytes, most significant first.  It is a function     *)
(* defined recursively; for at most four bytes the function is written out *)
(* and shown to satisfy its definition.                                    *)
(***************************************************************************)
LEMMA JoinedBytes ==
  ASSUME NEW n \in 1..4, NEW s, \A k \in 1..n : FLIP(s[k]) \in ByteUnit
  PROVE  LET d == [k \in 1..4 |-> IF k <= n THEN FLIP(s[k]) * Weight[n - k + 1] ELSE 0]
         IN Joined(s, n) = d[1] + d[2] + d[3] + d[4]
<1> DEFINE d == [k \in 1..4 |-> IF k <= n THEN FLIP(s[k]) * Weight[n - k + 1] ELSE 0]
           IsPart(g) ==
             g = [k \in 0..n |-> IF k = 0 THEN 0
                                 ELSE g[k - 1] + FLIP(s[k]) * Weight[n - k + 1]]
           f == [k \in 0..n |-> IF k = 0 THEN 0
                                ELSE IF k = 1 THEN d[1]
                                ELSE IF k = 2 THEN d[1] + d[2]
                                ELSE IF k = 3 THEN d[1] + d[2] + d[3]
                                ELSE d[1] + d[2] + d[3] + d[4]]
           part == CHOOSE g : IsPart(g)
<1>1. \A k \in 1..n : d[k] = FLIP(s[k]) * Weight[n - k + 1]
  BY SMT
<1>2. \A k \in 1..4 : d[k] \in Int /\ (k > n => d[k] = 0)
  <2> TAKE k \in 1..4
  <2>1. CASE k <= n
    <3>1. Weight[n - k + 1] \in Int
      BY <2>1, SMT DEF Weight
    <3>2. FLIP(s[k]) \in Int
      BY <2>1, SMT DEF ByteUnit
    <3> QED BY <2>1, <3>1, <3>2, SMT
  <2>2. CASE k > n
    BY <2>2, SMT
  <2> QED BY <2>1, <2>2, SMT
<1> HIDE DEF d
<1>3. IsPart(f)
  <2>1. \A k \in 1..n : f[k] = f[k - 1] + d[k]
    BY <1>2, SMT
  <2> HIDE DEF f
  <2>2. f = [k \in 0..n |-> IF k = 0 THEN 0 ELSE f[k - 1] + FLIP(s[k]) * Weight[n - k + 1]]
    <3>1. f = [k \in 0..n |-> f[k]] /\ f[0] = 0
      BY SMT DEF f
    <3>2. \A k \in 0..n : f[k] = IF k = 0 THEN 0
                                ELSE f[k - 1] + FLIP(s[k]) * Weight[n - k + 1]
      <4> TAKE k \in 0..n
      <4>1. k = 0 \/ k \in 1..n
        BY SMT
      <4> QED BY <4>1, <1>1, <2>1, <3>1
    <3> QED BY <3>1, <3>2, Zenon
  <2> QED BY <2>2
<1>4. IsPart(part)
  BY <1>3, Zenon
<1>5. Joined(s, n) = part[n]
  BY DEF Joined
<1> HIDE DEF part
<1>6. part[0] = 0 /\ \A k \in 1..n : part[k] = part[k - 1] + d[k]
  <2>1. \A k \in 0..n : part[k] = IF k = 0 THEN 0
                                 ELSE part[k - 1] + FLIP(s[k]) * Weight[n - k + 1]
    BY <1>4, Zenon
  <2>2. 0 \in 0..n /\ \A k \in 1..n : k \in 0..n /\ k # 0
    BY SMT
  <2> QED BY <1>1, <2>1, <2>2, Zenon
<1>7. part[n] = d[1] + d[2] + d[3] + d[4]
  BY <1>2, <1>6, SMT
<1> QED BY <1>5, <1>7 DEF d

(* The bytes of a value, joined, are the value.                            *)
LEMMA BytesJoin ==
  ASSUME NEW n \in 1..4, NEW u \in Values(n), NEW s,
         \A k \in 1..n : FLIP(s[k]) = Bytes(u, n)[k]
  PROVE  Joined(s, n) = u
<1> DEFINE x == Bytes(u, n)
           d == [k \in 1..4 |-> IF k <= n THEN FLIP(s[k]) * Weight[n - k + 1] ELSE 0]
<1>1. ASSUME \A k \in 1..n : x[k] \in ByteUnit
      PROVE  Joined(s, n) = d[1] + d[2] + d[3] + d[4]
  BY <1>1, JoinedBytes
<1>2. \A k \in 1..4 : d[k] = IF k <= n THEN x[k] * Weight[n - k + 1] ELSE 0
  BY SMT
<1> HIDE DEF d
<1>3. CASE n = 1
  <2>1. x[1] = u /\ u \in ByteUnit
    BY <1>3, BytesOfOne, SMT DEF Values, Weight, ByteUnit
  <2> HIDE DEF x
  <2>2. d[1] = u /\ d[2] = 0 /\ d[3] = 0 /\ d[4] = 0
    BY <1>2, <1>3, <2>1, SMT DEF Weight, ByteUnit
  <2> QED BY <1>1, <1>3, <2>1, <2>2, SMT DEF ByteUnit
<1>4. CASE n = 2
  <2>1. PICK a \in ByteUnit, b \in ByteUnit : u = ValueOfTwo(a, b)
    BY <1>4, DigitsOfTwo
  <2>2. x[1] = a /\ x[2] = b
    BY <1>4, <2>1, BytesOfTwo
  <2> HIDE DEF x
  <2>3. d[1] = 256 * a /\ d[2] = b /\ d[3] = 0 /\ d[4] = 0
    BY <1>2, <1>4, <2>2, SMT DEF Weight, ByteUnit
  <2>4. \A k \in 1..n : x[k] \in ByteUnit
    BY <1>4, <2>2, SMT
  <2>5. Joined(s, n) = d[1] + d[2] + d[3] + d[4]
    BY <1>1, <2>4
  <2> QED BY <2>1, <2>3, <2>5, SMT DEF ValueOfTwo, ByteUnit
<1>5. CASE n = 3
  <2>1. PICK a \in ByteUnit, b \in ByteUnit, c \in ByteUnit : u = ValueOfThree(a, b, c)
    BY <1>5, DigitsOfThree
  <2>2. x[1] = a /\ x[2] = b /\ x[3] = c
    BY <1>5, <2>1, BytesOfThree
  <2> HIDE DEF x
  <2>3. d[1] = 65536 * a /\ d[2] = 256 * b /\ d[3] = c /\ d[4] = 0
    BY <1>2, <1>5, <2>2, SMT DEF Weight, ByteUnit
  <2>4. \A k \in 1..n : x[k] \in ByteUnit
    BY <1>5, <2>2, SMT
  <2>5. Joined(s, n) = d[1] + d[2] + d[3] + d[4]
    BY <1>1, <2>4
  <2> QED BY <2>1, <2>3, <2>5, SMT DEF ValueOfThree, ByteUnit
<1>6. CASE n = 4
  <2>1. PICK a \in ByteUnit, b \in ByteUnit, c \in ByteUnit, d4 \in ByteUnit :
          u = ValueOfFour(a, b, c, d4)
    BY <1>6, DigitsOfFour
  <2>2. x[1] = a /\ x[2] = b /\ x[3] = c /\ x[4] = d4
    BY <1>6, <2>1, BytesOfFour
  <2> HIDE DEF x
  <2>3. d[1] = 16777216 * a /\ d[2] = 65536 * b /\ d[3] = 256 * c /\ d[4] = d4
    BY <1>2, <1>6, <2>2, SMT DEF Weight, ByteUnit
  <2>4. \A k \in 1..n : x[k] \in ByteUnit
    BY <1>6, <2>2, SMT
  <2>5. Joined(s, n) = d[1] + d[2] + d[3] + d[4]
    BY <1>1, <2>4
  <2> QED BY <2>1, <2>3, <2>5, SMT DEF ValueOfFour, ByteUnit
<1> QED BY <1>3, <1>4, <1>5, <1>6, SMT

(***************************************************************************)
(* What SetTuple writes, GetTuple reads.                                   *)
(***************************************************************************)
THEOREM RoundTrip ==
  ASSUME NEW width \in 1..32, NEW u \in CodesOf(width)
  PROVE  GetTuple(SetTuple(u, width), width) = u
<1> DEFINE n == kNumBytesPerCode(width)
           v == PaddedCode(u, width)
           s == SetTuple(u, width)
<1>1. n \in 1..4 /\ v \in Values(n)
  BY Widths, PaddedCodes DEF Values
<1>2. \A k \in 1..n : Bytes(v, n)[k] \in ByteUnit /\ s[k] = FLIP(Bytes(v, n)[k])
  BY StoredBytes
<1>3. ASSUME NEW b \in ByteUnit
      PROVE  FLIP(FLIP(b)) = b
  BY SMT DEF FLIP, ByteUnit
<1>4. \A k \in 1..n : FLIP(s[k]) = Bytes(v, n)[k]
  BY <1>2, <1>3
<1> HIDE DEF n, v, s
<1>5. Joined(s, n) = v
  BY <1>1, <1>4, BytesJoin
<1>6. v \div PowerOfTwo[kNumPaddingBits(width) + 1] = u
  BY PaddedCodes DEF v
<1> QED BY <1>5, <1>6 DEF GetTuple, n, s

----------------------------------------------------------------------------
(* x is q units of d and the rest r.                                       *)
IsDivision(x, d, q, r) == x = q * d + r /\ q \in Nat /\ r \in 0..(d - 1)

(* Division finds the units and the rest, and there is one way to do so.   *)
LEMMA Division ==
  ASSUME NEW x \in Nat, NEW d \in Nat \ {0}
  PROVE  IsDivision(x, d, x \div d, x % d)
  BY DEF IsDivision

(* The multiple of b at or below a is the quotient times b.                *)
LEMMA UniqueDivision ==
  ASSUME NEW x \in Nat, NEW d \in Nat \ {0}, NEW q, NEW r, IsDivision(x, d, q, r)
  PROVE  x \div d = q /\ x % d = r
<1>1. x = d * (x \div d) + (x % d) /\ x % d \in 0..(d - 1) /\ x \div d \in Int
  OBVIOUS
<1>2. (x \div d) = q
  BY <1>1 DEF IsDivision
<1> QED BY <1>1, <1>2 DEF IsDivision

(* Multiples of the divisor add to the quotient and leave the rest.        *)
LEMMA AddMultiple ==
  ASSUME NEW x \in Nat, NEW d \in Nat \ {0}, NEW a \in Nat
  PROVE  (a * d + x) \div d = a + (x \div d) /\ (a * d + x) % d = x % d
<1> DEFINE q == x \div d
           r == x % d
<1>1. IsDivision(x, d, q, r)
  BY Division
<1> HIDE DEF q, r
<1>2. /\ x = q * d + r /\ q \in Nat /\ r \in 0..(d - 1)
      /\ a * d \in Nat /\ (a + q) * d = a * d + q * d
  BY <1>1 DEF IsDivision
<1>3. IsDivision(a * d + x, d, a + q, r) /\ a * d + x \in Nat
  BY <1>2 DEF IsDivision
<1> QED BY <1>3, UniqueDivision DEF q, r

(* How many values so many bytes have.                                     *)
NumValues(bytes) == 256 * Weight[bytes]

(* What stands above the bytes of a column is in none of them.             *)
LEMMA HigherBytes ==
  ASSUME NEW n \in 1..4, NEW k \in 1..n, NEW q \in Nat, NEW r \in Nat
  PROVE  ByteOf(q * NumValues(n) + r, n, k) = ByteOf(r, n, k)
<1> DEFINE w == Weight[n - k + 1]
           v == Weight[k]
<1>1. w \in Nat \ {0} /\ v \in Nat /\ Weight[n] = w * v
  <2>1. n = 1 \/ n = 2 \/ n = 3 \/ n = 4
    OBVIOUS
  <2>2. k = 1 \/ k = 2 \/ k = 3 \/ k = 4
    OBVIOUS
  <2> QED BY <2>1, <2>2, SMT DEF Weight
<1>2. ByteOf(r, n, k) = (r \div w) % 256
  BY DEF ByteOf
<1>3. ByteOf(q * NumValues(n) + r, n, k) = ((q * NumValues(n) + r) \div w) % 256
  BY DEF ByteOf
<1> HIDE DEF w, v
<1>4. q * NumValues(n) = ((q * v) * 256) * w /\ q * v \in Nat /\ (q * v) * 256 \in Nat
  <2>1. q * (256 * (w * v)) = ((q * v) * 256) * w /\ q * v \in Nat
    BY <1>1
  <2> QED BY <1>1, <2>1 DEF NumValues
<1> DEFINE a == (q * v) * 256
           b == r \div w
<1>5. (a * w + r) \div w = a + b
  BY <1>1, <1>4, AddMultiple
<1>6. (a + b) % 256 = b % 256
  <2>1. b \in Nat
    BY <1>1
  <2> DEFINE c == q * v
  <2>2. c \in Nat
    BY <1>4
  <2> HIDE DEF b, c
  <2>3. (c * 256 + b) % 256 = b % 256
    BY <2>1, <2>2, SMT
  <2> QED BY <2>3 DEF c
<1>7. q * NumValues(n) = a * w
  BY <1>4
<1> HIDE DEF a
<1>8. ByteOf(q * NumValues(n) + r, n, k) = (a + b) % 256
  BY <1>3, <1>5, <1>7, Zenon
<1> QED BY <1>2, <1>6, <1>8, Zenon

(***************************************************************************)
(* Of a number that is no code of the column, SetTuple writes the lowest   *)
(* bits, as many as a code has.                                            *)
(***************************************************************************)
THEOREM LowestBitsKept ==
  ASSUME NEW width \in 1..32, NEW u \in Nat
  PROVE  GetTuple(SetTuple(u, width), width) = u % 2^width
<1> DEFINE n == kNumBytesPerCode(width)
           p == PowerOfTwo[kNumPaddingBits(width) + 1]
           m == 2^width
           q == u \div m
           r == u % m
<1>1. n \in 1..4 /\ p \in Nat /\ m \in Nat \ {0} /\ m * p = NumValues(n)
  <2>1. p \in {1, 2, 4, 8, 16, 32, 64, 128}
    BY Widths
  <2> HIDE DEF n, p, m
  <2>2. p \in Nat
    BY <2>1
  <2> QED BY <2>2, Widths DEF n, p, m, NumValues
<1>2. q \in Nat /\ r \in 0..(m - 1) /\ u = q * m + r
  <2> HIDE DEF m
  <2> QED BY <1>1
<1>3. r \in CodesOf(width)
  BY <1>2 DEF CodesOf
<1> HIDE DEF n, p, m, q, r
<1>4. u * p = q * (NumValues(n)) + r * p /\ r * p \in Nat
  <2>1. r \in Nat
    BY <1>1, <1>2
  <2>2. (q * m + r) * p = q * (m * p) + r * p /\ r * p \in Nat
    BY <1>1, <1>2, <2>1
  <2> QED BY <1>1, <1>2, <2>2
<1>5. ASSUME NEW k \in 1..n
      PROVE  ByteOf(u * p, n, k) = ByteOf(r * p, n, k)
  <2>1. n \in 1..4 /\ q \in Nat /\ r * p \in Nat
    BY <1>1, <1>2, <1>4
  <2>2. ASSUME NEW x \in Nat
        PROVE  ByteOf(q * (NumValues(n)) + x, n, k) = ByteOf(x, n, k)
    BY <2>1, HigherBytes, Zenon
  <2> QED BY <1>4, <2>1, <2>2, Zenon
<1>6. SetTuple(u, width) = SetTuple(r, width)
  BY <1>5 DEF SetTuple, Padded, n, p
<1> QED BY <1>3, <1>6, RoundTrip DEF r, m

----------------------------------------------------------------------------
LEMMA DivisionInNat ==
  ASSUME NEW x, NEW d \in Nat, NEW q, NEW r, IsDivision(x, d, q, r)
  PROVE  x \in Nat
<1>1. q \in Nat /\ r \in Nat /\ x = q * d + r
  BY DEF IsDivision
<1>2. q * d \in Nat
  BY <1>1
<1> QED BY <1>1, <1>2

LEMMA SmallIntervals ==
  Cardinality(1..1) = 1 /\ Cardinality(1..2) = 2
<1>1. \A n \in Nat : n > 0 => Cardinality(1..n) = n
  BY FS_Interval
<1>2. 1 \in Nat /\ 1 > 0 /\ 2 \in Nat /\ 2 > 0
  OBVIOUS
<1> QED BY <1>1, <1>2, Zenon

(* The runs of the columns that share a slice are numbered one by one.     *)
LEMMA RunsOfColumns ==
  ASSUME NEW n \in Nat, NEW bytes \in Layout(n), NEW b \in 1..4,
         NEW c \in Sharing(bytes, b)
  PROVE  /\ Cardinality(Sharing(bytes, b)) \in Nat \ {0}
         /\ Cardinality(Before(bytes, b, c)) \in 0..(Cardinality(Sharing(bytes, b)) - 1)
         /\ \A d \in Sharing(bytes, b) :
              c < d => Cardinality(Before(bytes, b, c)) < Cardinality(Before(bytes, b, d))
<1> DEFINE S == Sharing(bytes, b)
           B(d) == Before(bytes, b, d)
<1>1. S \subseteq 1..n
  BY DEF Sharing, Layout
<1>2. IsFiniteSet(S)
  BY <1>1, FS_Interval, FS_Subset
<1>3. ASSUME NEW d
      PROVE  B(d) \subseteq S /\ IsFiniteSet(B(d)) /\ Cardinality(B(d)) \in Nat
  <2>1. B(d) \subseteq S
    BY DEF Before
  <2> QED BY <2>1, <1>2, FS_Subset, FS_CardinalityType
<1>4. B(c) # S
  BY <1>1 DEF Before
<1>5. Cardinality(S) \in Nat /\ Cardinality(B(c)) < Cardinality(S)
  BY <1>2, <1>3, <1>4, FS_Subset, FS_CardinalityType
<1>6. ASSUME NEW d \in S, c < d
      PROVE  Cardinality(B(c)) < Cardinality(B(d))
  <2>1. B(c) \subseteq B(d) /\ c \in B(d) /\ c \notin B(c)
    BY <1>1, <1>6 DEF Before
  <2>2. B(c) # B(d)
    BY <2>1
  <2> QED BY <2>1, <2>2, <1>3, FS_Subset
<1> QED BY <1>3, <1>5, <1>6

(***************************************************************************)
(* No byte of SetTuple_2, SetTuple_3 or SetTuple_4 is written over another *)
(* one: two columns, or two positions, have no index in common.            *)
(***************************************************************************)
THEOREM NoByteIsShared ==
  ASSUME NEW n \in Nat, NEW bytes \in Layout(n), NEW slide_size \in Nat \ {0}, NEW b \in 1..4,
         NEW c \in Sharing(bytes, b), NEW d \in Sharing(bytes, b),
         NEW pos \in Nat, NEW other \in Nat,
         Index(slide_size, bytes, b, c, pos) = Index(slide_size, bytes, b, d, other)
  PROVE  c = d /\ pos = other
<1> DEFINE k == Cardinality(Sharing(bytes, b))
           Rank(e) == Cardinality(Before(bytes, b, e))
           Q(p) == p \div slide_size
           R(p) == p % slide_size
           Run(e, p) == k * Q(p) + Rank(e)
<1>1. /\ k \in Nat \ {0} /\ Rank(c) \in 0..(k - 1) /\ Rank(d) \in 0..(k - 1)
  BY RunsOfColumns
<1>2. ASSUME NEW p \in Nat
      PROVE  IsDivision(p, slide_size, Q(p), R(p))
  BY Division
<1>3. ASSUME NEW p \in Nat, NEW e, Rank(e) \in 0..(k - 1)
      PROVE  /\ Run(e, p) \in Nat
             /\ IsDivision(Index(slide_size, bytes, b, e, p), slide_size, Run(e, p), R(p))
             /\ IsDivision(Run(e, p), k, Q(p), Rank(e))
  <2>1. Q(p) \in Nat /\ R(p) \in 0..(slide_size - 1)
    BY <1>2 DEF IsDivision
  <2>2. Index(slide_size, bytes, b, e, p) = Run(e, p) * slide_size + R(p)
    BY DEF Index
  <2> HIDE DEF k, Rank, Q, R
  <2>3. Run(e, p) \in Nat /\ Run(e, p) = Q(p) * k + Rank(e)
    BY <1>1, <1>3, <2>1
  <2> QED BY <1>1, <1>3, <2>1, <2>2, <2>3 DEF IsDivision
<1>4. Run(c, pos) = Run(d, other) /\ R(pos) = R(other)
  <2>1. IsDivision(Index(slide_size, bytes, b, c, pos), slide_size, Run(c, pos), R(pos))
    BY <1>1, <1>3
  <2>2. IsDivision(Index(slide_size, bytes, b, c, pos), slide_size, Run(d, other), R(other))
    BY <1>1, <1>3
  <2>3. Index(slide_size, bytes, b, c, pos) \in Nat
    BY <2>1, DivisionInNat
  <2> HIDE DEF Run, R
  <2> QED BY <2>1, <2>2, <2>3, UniqueDivision
<1>5. Q(pos) = Q(other) /\ Rank(c) = Rank(d)
  <2>1. IsDivision(Run(c, pos), k, Q(pos), Rank(c)) /\ Run(c, pos) \in Nat
    BY <1>1, <1>3
  <2>2. IsDivision(Run(c, pos), k, Q(other), Rank(d))
    BY <1>1, <1>3, <1>4
  <2> HIDE DEF Run, k, Q, Rank
  <2> QED BY <1>1, <2>1, <2>2, UniqueDivision
<1>6. pos = other
  BY <1>2, <1>4, <1>5 DEF IsDivision
<1>7. c = d
  <2>1. c \in Nat /\ d \in Nat
    BY DEF Sharing, Layout
  <2>2. /\ c < d => Rank(c) < Rank(d)
        /\ d < c => Rank(d) < Rank(c)
    BY RunsOfColumns
  <2> HIDE DEF Rank
  <2> QED BY <1>1, <1>5, <2>1, <2>2
<1> QED BY <1>6, <1>7

(* What SetTuple_2, SetTuple_3 and SetTuple_4 write of a column.           *)
LEMMA WrittenBytes ==
  ASSUME NEW n \in Nat, NEW width, BytesOf(width) \in Layout(n), NEW slide_size \in Nat \ {0},
         NEW data_, NEW values, NEW pos \in Nat, NEW b \in 1..4, b \in DOMAIN data_,
         NEW c \in Sharing(BytesOf(width), b), NEW i \in DOMAIN data_[b],
         i = Index(slide_size, BytesOf(width), b, c, pos)
  PROVE  Interleaved(slide_size, data_, pos, values, width)[b][i] = SetTuple(values[c], width[c])[b]
<1> DEFINE bytes == BytesOf(width)
           At(x, j) == {d \in Sharing(bytes, x) : Index(slide_size, bytes, x, d, pos) = j}
<1>1. At(b, i) = {c}
  BY NoByteIsShared
<1>2. (CHOOSE d \in At(b, i) : TRUE) = c
  BY <1>1
<1>3. Interleaved(slide_size, data_, pos, values, width)[b][i]
        = IF At(b, i) = {} THEN data_[b][i]
          ELSE SetTuple(values[CHOOSE d \in At(b, i) : TRUE], width[CHOOSE d \in At(b, i) : TRUE])[b]
  BY DEF Interleaved
<1> HIDE DEF At
<1> QED BY <1>1, <1>2, <1>3

(***************************************************************************)
(* What SetTuple_2 writes, GetTuple_2 reads, where the two columns have    *)
(* the same number of bytes.                                               *)
(***************************************************************************)
THEOREM InterleavedRoundTrip ==
  ASSUME NEW width \in [1..2 -> 1..32],
         kNumBytesPerCode(width[1]) = kNumBytesPerCode(width[2]),
         NEW size \in Nat, NEW data_, DOMAIN data_ = 1..4,
         \A b \in 1..4 : DOMAIN data_[b] = 0..(size - 1),
         NEW pos \in Nat, (pos \div 32) * 64 + 64 <= size,
         NEW values, NEW c \in 1..2, values[c] \in CodesOf(width[c])
  PROVE  GetTuple_2(SetTuple_2(data_, pos, values, width), pos, c - 1, width[c]) = values[c]
<1> DEFINE bytes == BytesOf(width)
           m == kNumBytesPerCode(width[c])
           at == (pos \div 32) * 64 + (pos % 32) + 32 * (c - 1)
           after == SetTuple_2(data_, pos, values, width)
           s == SetTuple(values[c], width[c])
<1>1. m \in 1..4 /\ \A d \in 1..2 : kNumBytesPerCode(width[d]) = m
  <2>1. width[c] \in 1..32
    OBVIOUS
  <2>2. m \in 1..4
    BY <2>1, Widths
  <2>3. \A d \in 1..2 : d = 1 \/ d = 2
    OBVIOUS
  <2> HIDE DEF m
  <2>4. m = kNumBytesPerCode(width[1]) /\ m = kNumBytesPerCode(width[2])
    BY <2>3 DEF m
  <2> QED BY <2>2, <2>3, <2>4
<1>2. bytes = [d \in 1..2 |-> m]
  BY <1>1 DEF BytesOf
<1>3. bytes \in Layout(2)
  BY <1>1, <1>2 DEF Layout
<1>4. ASSUME NEW b \in 1..m
      PROVE  after[b][at] = s[b]
  <2>1. b \in 1..4
    BY <1>1
  <2>2. Sharing(bytes, b) = 1..2
    BY <1>1, <1>2 DEF Sharing
  <2>3. Cardinality(Sharing(bytes, b)) = 2
    BY <2>2, SmallIntervals
  <2>4. Cardinality(Before(bytes, b, c)) = c - 1
    <3>1. CASE c = 1
      <4>1. Before(bytes, b, c) = {}
        BY <2>2, <3>1 DEF Before
      <4>2. Cardinality(Before(bytes, b, c)) = 0
        BY <4>1, FS_EmptySet, Zenon
      <4> QED BY <3>1, <4>2
    <3>2. CASE c = 2
      <4>1. Before(bytes, b, c) = 1..1
        BY <2>2, <3>2 DEF Before
      <4>2. Cardinality(Before(bytes, b, c)) = 1
        BY <4>1, SmallIntervals, Zenon
      <4> QED BY <3>2, <4>2
    <3> QED BY <3>1, <3>2
  <2>5. Index(32, bytes, b, c, pos) = (2 * (pos \div 32) + (c - 1)) * 32 + (pos % 32)
    BY <2>3, <2>4 DEF Index
  <2>6. IsDivision(pos, 32, pos \div 32, pos % 32)
    <3>1. 32 \in Nat \ {0}
      OBVIOUS
    <3> QED BY <3>1, Division
  <2>7. Index(32, bytes, b, c, pos) = at /\ at \in 0..(size - 1)
    BY <2>5, <2>6 DEF IsDivision
  <2>8. c \in Sharing(bytes, b)
    BY <2>2
  <2>9. Interleaved(32, data_, pos, values, width)[b][at] = SetTuple(values[c], width[c])[b]
    <3>1. 32 \in Nat \ {0} /\ 2 \in Nat /\ b \in DOMAIN data_ /\ at \in DOMAIN data_[b]
      BY <2>1, <2>7
    <3> HIDE DEF at
    <3> QED BY <1>3, <2>1, <2>7, <2>8, <3>1, WrittenBytes
  <2> QED BY <2>9 DEF SetTuple_2
<1>5. DOMAIN s = 1..m
  BY DEF SetTuple
<1>6. s = [b \in 1..m |-> s[b]]
  BY <1>5 DEF SetTuple
<1>7. [b \in 1..m |-> after[b][at]] = s
  BY <1>4, <1>6
<1>8. GetTuple(s, width[c]) = values[c]
  BY RoundTrip
<1>9. GetTuple_2(after, pos, c - 1, width[c]) = GetTuple([b \in 1..m |-> after[b][at]], width[c])
  BY DEF GetTuple_2
<1> HIDE DEF after, at, m, s
<1>10. GetTuple_2(after, pos, c - 1, width[c]) = values[c]
  BY <1>7, <1>8, <1>9
<1> QED BY <1>10 DEF after

----------------------------------------------------------------------------
(* The sizes of words and AVX units.                                       *)
LEMMA WordSizes ==
  /\ kNumWordBits \in Nat \ {0} /\ WordsPerAvxUnit \in Nat \ {0}
  /\ kNumAvxBits \in Nat \ {0} /\ kNumAvxBits = WordsPerAvxUnit * kNumWordBits
<1>1. /\ kNumWordBits \in Nat \ {0} /\ WordsPerAvxUnit \in Nat \ {0}
  BY WordsAssumption
<1>2. kNumAvxBits \in Nat \ {0}
  BY <1>1 DEF kNumAvxBits
<1> QED BY <1>1, <1>2 DEF kNumAvxBits

(* The words of a block hold the bits of all its tuples.                   *)
LEMMA WordsOfBlock ==
  ASSUME NEW num \in Nat \ {0}
  PROVE  /\ num_word_units(num) \in Nat \ {0}
         /\ num <= num_word_units(num) * kNumWordBits
         /\ \A w \in Nat : w * kNumWordBits < num => w \in WordIds(num)
<1> DEFINE q == (num - 1) \div kNumAvxBits
           r == (num - 1) % kNumAvxBits
<1>1. num - 1 = q * kNumAvxBits + r /\ q \in Nat /\ r \in 0..(kNumAvxBits - 1)
  <2>1. kNumAvxBits \in Nat \ {0}
    BY WordSizes
  <2> QED BY <2>1
<1>2. num_word_units(num) = (q + 1) * WordsPerAvxUnit
  BY DEF num_word_units, CEIL
<1> HIDE DEF q, r
<1>3. num_word_units(num) \in Nat \ {0}
  BY <1>1, <1>2, WordSizes
<1>4. num_word_units(num) * kNumWordBits = (q + 1) * kNumAvxBits
  BY <1>1, <1>2, WordSizes
<1>5. num <= (q + 1) * kNumAvxBits
  <2>1. (q + 1) * kNumAvxBits = q * kNumAvxBits + kNumAvxBits
    BY <1>1, WordSizes
  <2> QED BY <2>1, <1>1, WordSizes
<1>6. num <= num_word_units(num) * kNumWordBits
  BY <1>4, <1>5
<1>7. ASSUME NEW w \in Nat, w * kNumWordBits < num
      PROVE  w < num_word_units(num)
  <2> DEFINE n == num_word_units(num)
  <2>1. n \in Nat /\ w * kNumWordBits < n * kNumWordBits
    <3>1. n * kNumWordBits \in Nat /\ w * kNumWordBits \in Nat
      BY <1>3, WordSizes
    <3> QED BY <1>3, <1>6, <1>7, <3>1
  <2> HIDE DEF n
  <2>2. w < n
    BY <2>1, WordSizes
  <2> QED BY <2>2 DEF n
<1> QED BY <1>3, <1>6, <1>7 DEF WordIds

(* The word and the bit of a position.                                     *)
LEMMA BitOfPosition ==
  ASSUME NEW w \in Nat, NEW b \in WordBits
  PROVE  /\ (w * kNumWordBits + b) \div kNumWordBits = w
         /\ (w * kNumWordBits + b) % kNumWordBits = b
         /\ \A word : GetBit(word, w * kNumWordBits + b) <=> b \in word[w]
<1>1. /\ (w * kNumWordBits + b) \div kNumWordBits = w
      /\ (w * kNumWordBits + b) % kNumWordBits = b
  <2> DEFINE x == w * kNumWordBits + b
  <2>1. x \in Nat /\ IsDivision(x, kNumWordBits, w, b)
    BY WordSizes DEF WordBits, IsDivision
  <2> HIDE DEF x
  <2>2. x \div kNumWordBits = w /\ x % kNumWordBits = b
    BY <2>1, UniqueDivision, WordSizes
  <2> QED BY <2>2 DEF x
<1> QED BY <1>1 DEF GetBit

(* Every tuple's bit is in a word of the block.                            *)
LEMMA PositionOfTuple ==
  ASSUME NEW num \in Nat \ {0}, NEW x \in 0..(num - 1)
  PROVE  /\ x \div kNumWordBits \in WordIds(num) /\ x \div kNumWordBits \in Nat
         /\ x % kNumWordBits \in WordBits
         /\ x = (x \div kNumWordBits) * kNumWordBits + (x % kNumWordBits)
<1>1. /\ x = (x \div kNumWordBits) * kNumWordBits + (x % kNumWordBits)
      /\ x \div kNumWordBits \in Nat /\ x % kNumWordBits \in WordBits
  BY WordSizes DEF WordBits
<1>2. (x \div kNumWordBits) * kNumWordBits < num
  <2> DEFINE p == (x \div kNumWordBits) * kNumWordBits
  <2>1. p \in Nat /\ x = p + (x % kNumWordBits) /\ x % kNumWordBits \in Nat
    BY <1>1, WordSizes DEF WordBits
  <2> HIDE DEF p
  <2>2. p < num
    BY <2>1
  <2> QED BY <2>2 DEF p
<1> QED BY <1>1, <1>2, WordsOfBlock

(* ClearTail keeps the bits of the tuples and no other.                    *)
LEMMA ClearedTail ==
  ASSUME NEW num \in Nat \ {0}, NEW block \in [WordIds(num) -> SUBSET WordBits]
  PROVE  ClearTail(block, num) =
           [w \in WordIds(num) |-> {b \in block[w] : w * kNumWordBits + b < num}]
<1> DEFINE q == num \div kNumAvxBits
           r == num % kNumAvxBits
           empty == kNumAvxBits - r
           e == empty \div kNumWordBits
           f == empty % kNumWordBits
           n == num_word_units(num)
           last == n - 1 - e
           kept == kNumWordBits - f
<1>1. num = q * kNumAvxBits + r /\ q \in Nat /\ r \in 0..(kNumAvxBits - 1)
  BY WordSizes
<1>2. DOMAIN block = WordIds(num) /\ WordIds(num) = 0..(n - 1) /\ n \in Nat \ {0}
  BY WordsOfBlock DEF WordIds
<1>3. empty \in Nat
  BY <1>1, WordSizes
<1>4. empty = e * kNumWordBits + f /\ e \in Nat /\ f \in 0..(kNumWordBits - 1)
  <2> HIDE DEF empty
  <2> QED BY <1>3, WordSizes
<1>5. num_word_units(num) = ((num - 1) \div kNumAvxBits + 1) * WordsPerAvxUnit
  BY DEF num_word_units, CEIL
<1>6. CASE r = 0
  <2>1. empty = kNumAvxBits
    BY <1>6, WordSizes
  <2>2. ClearTail(block, num) = block
    BY <2>1 DEF ClearTail
  <2>3. n * kNumWordBits = num
    <3> HIDE DEF r
    <3>1. num = q * kNumAvxBits /\ q \in Nat \ {0}
      <4> HIDE DEF q
      <4> QED BY <1>1, <1>6, WordSizes
    <3> HIDE DEF q
    <3>2. num - 1 = (q - 1) * kNumAvxBits + (kNumAvxBits - 1)
      BY <3>1, WordSizes
    <3>3. (num - 1) \div kNumAvxBits = q - 1
      <4>1. num - 1 \in Nat /\ IsDivision(num - 1, kNumAvxBits, q - 1, kNumAvxBits - 1)
        BY <3>1, <3>2, WordSizes DEF IsDivision
      <4> QED BY <4>1, UniqueDivision, WordSizes
    <3>4. n = q * WordsPerAvxUnit
      BY <1>5, <3>1, <3>3
    <3> QED BY <3>1, <3>4, WordSizes
  <2>4. ASSUME NEW w \in WordIds(num), NEW b \in WordBits
        PROVE  w * kNumWordBits + b < num
    <3>1. w \in Nat /\ w + 1 <= n
      BY <1>2
    <3> HIDE DEF n
    <3>2. (w + 1) * kNumWordBits <= n * kNumWordBits
      BY <1>2, <3>1, WordSizes
    <3>3. (w + 1) * kNumWordBits = w * kNumWordBits + kNumWordBits /\ w * kNumWordBits \in Nat
      BY <3>1, WordSizes
    <3> QED BY <2>3, <3>2, <3>3, WordSizes DEF WordBits
  <2>5. \A w \in WordIds(num) : block[w] = {b \in block[w] : w * kNumWordBits + b < num}
    BY <2>4
  <2> QED BY <1>2, <2>2, <2>5
<1>7. CASE r # 0
  <2>1. empty # kNumAvxBits
    BY <1>1, <1>7, WordSizes
  <2>2. ClearTail(block, num) =
          [w \in WordIds(num) |-> {b \in block[w] : w < last \/ (w = last /\ b < kept)}]
    BY <1>2, <2>1 DEF ClearTail
  <2>3. num = last * kNumWordBits + kept /\ kept \in 1..kNumWordBits /\ last \in Int
    <3>0. empty = kNumAvxBits - r
      OBVIOUS
    <3> HIDE DEF q, r, e, f, empty
    <3>1. num - 1 \in Nat /\ IsDivision(num - 1, kNumAvxBits, q, r - 1)
      <4>1. q * kNumAvxBits \in Nat
        BY <1>1, WordSizes
      <4> QED BY <1>1, <1>7, <4>1, WordSizes DEF IsDivision
    <3>2. (num - 1) \div kNumAvxBits = q
      BY <3>1, UniqueDivision, WordSizes
    <3>3. n = (q + 1) * WordsPerAvxUnit
      BY <1>5, <3>2
    <3>4. n * kNumWordBits = q * kNumAvxBits + kNumAvxBits
      BY <1>1, <3>3, WordSizes
    <3>5. num = n * kNumWordBits - (e * kNumWordBits + f)
      <4> HIDE DEF n
      <4>1. q * kNumAvxBits \in Nat
        BY <1>1, WordSizes
      <4> QED BY <1>1, <1>4, <3>0, <3>4, <4>1, WordSizes
    <3> HIDE DEF n
    <3>6. last * kNumWordBits = n * kNumWordBits - kNumWordBits - e * kNumWordBits
      BY <1>2, <1>4, WordSizes
    <3>7. n * kNumWordBits \in Nat /\ e * kNumWordBits \in Nat
      BY <1>2, <1>4, WordSizes
    <3>8. kept \in 1..kNumWordBits /\ last \in Int
      BY <1>2, <1>4, WordSizes
    <3>9. num = last * kNumWordBits + kept
      <4>1. kept = kNumWordBits - f /\ f \in Int
        BY <1>4
      <4> HIDE DEF kept, last
      <4> QED BY <3>5, <3>6, <3>7, <4>1, WordSizes
    <3> QED BY <3>8, <3>9
  <2> HIDE DEF last, kept
  <2>4. ASSUME NEW w \in WordIds(num), NEW b \in WordBits
        PROVE  w < last \/ (w = last /\ b < kept) <=> w * kNumWordBits + b < num
    <3>1. w \in Nat /\ b \in Nat /\ b < kNumWordBits
      BY <1>2, WordSizes DEF WordBits
    <3>2. CASE w < last
      <4>1. (w + 1) * kNumWordBits <= last * kNumWordBits
        BY <2>3, <3>1, <3>2, WordSizes
      <4>2. (w + 1) * kNumWordBits = w * kNumWordBits + kNumWordBits
        BY <3>1, WordSizes
      <4>3. w * kNumWordBits \in Nat /\ last * kNumWordBits \in Int
        BY <2>3, <3>1, WordSizes
      <4> QED BY <2>3, <3>1, <3>2, <4>1, <4>2, <4>3, WordSizes
    <3>3. CASE w = last
      <4>1. last * kNumWordBits \in Int
        BY <2>3, WordSizes
      <4> QED BY <2>3, <3>1, <3>3, <4>1, WordSizes
    <3>4. CASE w > last
      <4>1. (last + 1) * kNumWordBits <= w * kNumWordBits
        BY <2>3, <3>1, <3>4, WordSizes
      <4>2. (last + 1) * kNumWordBits = last * kNumWordBits + kNumWordBits
        BY <2>3, WordSizes
      <4>3. w * kNumWordBits \in Nat /\ last * kNumWordBits \in Int
        BY <2>3, <3>1, WordSizes
      <4> QED BY <2>3, <3>1, <3>4, <4>1, <4>2, <4>3, WordSizes
    <3> QED BY <2>3, <3>1, <3>2, <3>3, <3>4
  <2>5. ASSUME NEW w \in WordIds(num)
        PROVE  {b \in block[w] : w < last \/ (w = last /\ b < kept)}
                 = {b \in block[w] : w * kNumWordBits + b < num}
    <3>1. block[w] \subseteq WordBits
      OBVIOUS
    <3> QED BY <2>4, <3>1
  <2> QED BY <2>2, <2>5
<1> QED BY <1>6, <1>7

(* A cleared block holds the bits of its tuples alone.                     *)
LEMMA Cleared ==
  ASSUME NEW num \in Nat \ {0}, NEW block \in [WordIds(num) -> SUBSET WordBits]
  PROVE  /\ ClearTail(block, num) \in [WordIds(num) -> SUBSET WordBits]
         /\ \A w \in WordIds(num) : \A b \in ClearTail(block, num)[w] :
              w * kNumWordBits + b < num
  BY ClearedTail

(* A block without bits behind its last tuple has as many as its tuples.   *)
LEMMA OnesOfTuples ==
  ASSUME NEW num \in Nat \ {0}, NEW block \in [WordIds(num) -> SUBSET WordBits],
         \A w \in WordIds(num) : \A b \in block[w] : w * kNumWordBits + b < num
  PROVE  CountOnes(block) = Cardinality({x \in 0..(num - 1) : GetBit(block, x)})
<1> DEFINE S == {x \in 0..(num - 1) : GetBit(block, x)}
           T == Ones(block)
           f == [x \in S |-> <<x \div kNumWordBits, x % kNumWordBits>>]
<1>1. IsFiniteSet(S)
  <2>1. IsFiniteSet(0..(num - 1))
    BY FS_Interval
  <2> QED BY <2>1, FS_Subset
<1>2. DOMAIN block = WordIds(num)
  OBVIOUS
<1>3. \A x \in S : /\ x \div kNumWordBits \in WordIds(num) /\ x % kNumWordBits \in WordBits
                   /\ x % kNumWordBits \in block[x \div kNumWordBits]
                   /\ x = (x \div kNumWordBits) * kNumWordBits + (x % kNumWordBits)
  BY PositionOfTuple DEF GetBit
<1>4. ASSUME NEW x \in S
      PROVE  f[x] \in T
  <2>1. f[x] = <<x \div kNumWordBits, x % kNumWordBits>>
    OBVIOUS
  <2> QED BY <1>2, <1>3, <2>1 DEF Ones
<1>5. ASSUME NEW x \in S, NEW y \in S, f[x] = f[y]
      PROVE  x = y
  <2>1. x \div kNumWordBits = y \div kNumWordBits /\ x % kNumWordBits = y % kNumWordBits
    BY <1>5
  <2> QED BY <1>3, <2>1
<1>6. ASSUME NEW p \in T
      PROVE  \E x \in S : f[x] = p
  <2>1. PICK w \in WordIds(num), b \in WordBits : p = <<w, b>> /\ b \in block[w]
    BY <1>2 DEF Ones
  <2>2. w \in Nat /\ b \in Nat
    BY WordSizes, WordsOfBlock DEF WordIds, WordBits
  <2> DEFINE x == w * kNumWordBits + b
  <2>3. x \in 0..(num - 1)
    BY <2>1, <2>2, WordSizes
  <2>4. x \div kNumWordBits = w /\ x % kNumWordBits = b /\ GetBit(block, x)
    BY <2>1, <2>2, BitOfPosition
  <2> HIDE DEF x
  <2>5. x \in S /\ f[x] = p
    BY <2>1, <2>3, <2>4
  <2> QED BY <2>5
<1> HIDE DEF S, T
<1>7. f \in Bijection(S, T)
  <2>1. f \in [S -> T]
    BY <1>4
  <2> HIDE DEF f
  <2>2. f \in Injection(S, T)
    BY <1>5, <2>1 DEF Injection, IsInjective
  <2>3. f \in Surjection(S, T)
    BY <1>6, <2>1 DEF Surjection
  <2> QED BY <2>2, <2>3 DEF Bijection
<1>8. Cardinality(T) = Cardinality(S)
  BY <1>1, <1>7, FS_Bijection DEF ExistsBijection
<1> QED BY <1>8 DEF S, T, CountOnes

(* Clearing the tail changes no tuple's bit.                               *)
LEMMA ClearedBits ==
  ASSUME NEW num \in Nat \ {0}, NEW block \in [WordIds(num) -> SUBSET WordBits],
         NEW x \in 0..(num - 1)
  PROVE  GetBit(ClearTail(block, num), x) <=> GetBit(block, x)
<1> DEFINE w == x \div kNumWordBits
           b == x % kNumWordBits
<1>1. w \in WordIds(num) /\ b \in WordBits /\ x = w * kNumWordBits + b /\ x < num
  BY PositionOfTuple
<1>2. ClearTail(block, num)[w] = {c \in block[w] : w * kNumWordBits + c < num}
  BY <1>1, ClearedTail
<1> HIDE DEF w, b
<1>3. b \in ClearTail(block, num)[w] <=> b \in block[w]
  BY <1>1, <1>2
<1> QED BY <1>3 DEF GetBit, w, b
=============================================================================
