------------------------- MODULE BlockQueriesProofs -------------------------
(***************************************************************************)
(* Proofs about BlockScan, for every size of word and register, every      *)
(* program a driver can make, and every content of the columns; and then   *)
(* about BlockQueries.                                                     *)
(*                                                                         *)
(* Every execution model of ByteSlice's queries, of its tests and of the   *)
(* single-column kernels leaves the bits its driver recomputes from the    *)
(* codes, for every block and every table: in a run, the bits of a tuple   *)
(* are what the operations, one after the other, make of them.             *)
(***************************************************************************)
EXTENDS BlockScanInvariant, BlockQueries, StorageProofs, SequenceTheorems

----------------------------------------------------------------------------
(* The sizes of words and registers.                                       *)
LEMMA Sizes ==
  /\ kNumWordBits \in Nat \ {0} /\ WordsPerAvxUnit \in Nat \ {0} /\ kNumLanes \in Nat \ {0}
  /\ kNumAvxBits \in Nat \ {0} /\ kNumAvxBits = WordsPerAvxUnit * kNumWordBits
  /\ Lane = 0..(kNumLanes - 1) /\ kNumWordBits % kNumLanes = 0
  BY WordSizes, LanesAssumption

(* The chunks of a word fill it.                                           *)
LEMMA Chunks ==
  ASSUME NEW c \in Nat, c < kNumWordBits, c % kNumLanes = 0
  PROVE  /\ c + kNumLanes <= kNumWordBits
         /\ (c + kNumLanes) % kNumLanes = 0
<1>1. ASSUME NEW d \in Nat \ {0}, NEW n \in Nat, NEW k \in Nat, k < n, n % d = 0, k % d = 0
      PROVE  k + d <= n /\ (k + d) % d = 0
  <2>1. n = (n \div d) * d /\ k = (k \div d) * d /\ n \div d \in Nat /\ k \div d \in Nat
    BY <1>1
  <2>2. k \div d < n \div d
    BY <1>1, <2>1
  <2>3. ((k \div d) + 1) * d <= n
    BY <1>1, <2>1, <2>2
  <2>4. IsDivision(k + d, d, (k \div d) + 1, 0)
    BY <2>1 DEF IsDivision
  <2>5. (k + d) % d = 0
    <3>1. k + d \in Nat
      OBVIOUS
    <3> QED BY <2>4, <3>1, UniqueDivision
  <2> QED BY <2>3, <2>4, <2>5, <2>1, <1>1
<1> QED BY <1>1, Sizes

(* A scan loads the positions of every word it reaches.                    *)
LEMMA LoadedWord ==
  ASSUME NEW num \in Nat \ {0}, NEW w \in Nat, w * kNumWordBits < num, NEW b \in WordBits
  PROVE  w * kNumWordBits + b \in Loaded(num)
<1> DEFINE q == (num - 1) \div kNumWordBits
           r == (num - 1) % kNumWordBits
<1>1. num - 1 = q * kNumWordBits + r /\ q \in Nat /\ r \in WordBits
  BY Sizes DEF WordBits
<1>2. Loaded(num) = 0..((q + 1) * kNumWordBits - 1)
  BY DEF Loaded, CEIL
<1> HIDE DEF q, r
<1>3. w < q + 1
  <2>1. w * kNumWordBits < (q + 1) * kNumWordBits
    <3>1. (q + 1) * kNumWordBits = q * kNumWordBits + kNumWordBits
      BY <1>1, Sizes
    <3>2. w * kNumWordBits \in Nat /\ q * kNumWordBits \in Nat
      BY <1>1, Sizes
    <3> QED BY <1>1, <3>1, <3>2, Sizes DEF WordBits
  <2> QED BY <1>1, <2>1, Sizes
<1>4. (w + 1) * kNumWordBits <= (q + 1) * kNumWordBits
  BY <1>1, <1>3, Sizes
<1>5. (w + 1) * kNumWordBits = w * kNumWordBits + kNumWordBits
  BY Sizes
<1>6. w * kNumWordBits \in Nat /\ (q + 1) * kNumWordBits \in Nat
  BY <1>1, Sizes
<1> QED BY <1>2, <1>4, <1>5, <1>6, Sizes DEF WordBits

----------------------------------------------------------------------------
(* What the assumption on programs says of the program in progress.        *)
LEMMA ProgramFields ==
  ASSUME TypeOK
  PROVE  /\ num_tuples \in Nat \ {0}
         /\ program.vectors \in Nat
         /\ Len(program.ops) \in Nat /\ DOMAIN program.ops = 1..Len(program.ops)
         /\ \A c \in Columns : program.width[c] \in 1..32
         /\ \A x \in Loaded(num_tuples), c \in Columns : codes[x][c] \in CodesOf(program.width[c])
         /\ \A j \in 1..Len(program.ops) : IsOperation(program, program.ops[j])
<1>1. program \in Programs /\ codes \in Tables(program)
  BY DEF TypeOK
<1>2. IsProgram(program)
  BY <1>1, ProgramsAssumption
<1>3. \A x \in Loaded(program.num), c \in 1..Len(program.width) :
        codes[x][c] \in 0..kCodeMask(program.width[c])
  BY <1>1, ProgramsAssumption
<1> QED BY <1>2, <1>3 DEF IsProgram, num_tuples, Columns, CodesOf, kCodeMask

(* A scan is in progress.                                                  *)
Scanning == ip \in 1..Len(program.ops) /\ Op.op = "Scan"

(* ... and of the scan in progress.                                        *)
LEMMA ScanFields ==
  ASSUME TypeOK, Scanning
  PROVE  /\ Op.bv \in 1..program.vectors
         /\ Op.cmp \in Comparator
         /\ Op.bit_opt \in {"kSet", "kAnd", "kOr"}
         /\ Op.column \in Columns
         /\ Op.right # 0 => Op.right \in Columns
                            /\ program.width[Op.right] = program.width[Op.column]
         /\ Op.value \in Nat
         /\ program.width[Op.column] \in 1..32
         /\ NumBytes(Op) \in 1..4
         /\ Op.last \in Nat /\ Op.last >= NumBytes(Op)
<1>1. IsOperation(program, Op)
  BY ProgramFields DEF Scanning, Op
<1>2. /\ Op.bv \in 1..program.vectors
      /\ Op.cmp \in Comparator
      /\ Op.bit_opt \in {"kSet", "kAnd", "kOr"}
      /\ Op.column \in 1..Len(program.width)
      /\ Op.right \in 0..Len(program.width)
      /\ Op.right # 0 => program.width[Op.right] = program.width[Op.column]
      /\ Op.value \in Nat
      /\ Op.last \in Nat /\ Op.last >= kNumBytesPerCode(program.width[Op.column])
  BY <1>1 DEF IsOperation, Scanning
<1>3. \A c : c \in 0..Len(program.width) /\ c # 0 => c \in 1..Len(program.width)
  <2>1. Len(program.width) \in Nat
    BY ProgramsAssumption DEF TypeOK, IsProgram
  <2> QED BY <2>1
<1>4. program.width[Op.column] \in 1..32
  BY <1>2, ProgramFields DEF Columns
<1>5. kNumBytesPerCode(program.width[Op.column]) \in 1..4
  BY <1>4, Widths
<1> QED BY <1>2, <1>3, <1>4, <1>5 DEF Columns, NumBytes

----------------------------------------------------------------------------
(* The bytes compared at a position, from the first.                       *)
LeftBytes(op, x) == [b \in 1..NumBytes(op) |-> LeftByte(op, b, x)]
RightBytes(op, x) == [b \in 1..NumBytes(op) |-> RightByte(op, b, x)]

(* They are the slices of the code and of the right operand.               *)
LEMMA BytesOfOperands ==
  ASSUME TypeOK, DataInv, Scanning, NEW x \in Loaded(num_tuples)
  PROVE  LET width == program.width[Op.column]
         IN /\ codes[x][Op.column] \in CodesOf(width)
            /\ RightCode(Op, x) \in CodesOf(width)
            /\ LeftBytes(Op, x) = SignedSlices(codes[x][Op.column], width)
            /\ RightBytes(Op, x) = SignedSlices(RightCode(Op, x), width)
<1> DEFINE width == program.width[Op.column]
<1>1. /\ Op.column \in Columns /\ width \in 1..32 /\ Op.value \in Nat
      /\ Op.right # 0 => Op.right \in Columns /\ program.width[Op.right] = width
  BY ScanFields
<1>2. NumBytes(Op) = kNumBytesPerCode(width)
  BY DEF NumBytes
<1>3. ASSUME NEW c \in Columns, program.width[c] = width, NEW b \in 1..NumBytes(Op)
      PROVE  data[<<c, b>>][x] = AsSigned(SetTuple(codes[x][c], width)[b])
  <2>1. <<c, b>> \in Slices
    BY <1>2, <1>3 DEF Slices
  <2>2. data[<<c, b>>] = StoredSlice(c, b)
    BY <2>1 DEF DataInv
  <2> QED BY <1>3, <2>2 DEF StoredSlice
<1>4. codes[x][Op.column] \in CodesOf(width)
  BY <1>1, ProgramFields
<1>5. LeftBytes(Op, x) = SignedSlices(codes[x][Op.column], width)
  BY <1>1, <1>2, <1>3 DEF LeftBytes, LeftByte, SignedSlices
<1>6. CASE Op.right = 0
  <2>1. RightCode(Op, x) = Op.value % (kCodeMask(width) + 1)
    BY <1>6 DEF RightCode
  <2>2. RightCode(Op, x) \in CodesOf(width)
    <3>1. 2^width \in Nat \ {0} /\ kCodeMask(width) = 2^width - 1
      BY <1>1, Widths DEF kCodeMask
    <3> DEFINE n == 2^width
    <3> HIDE DEF n
    <3>2. n \in Nat \ {0} /\ kCodeMask(width) = n - 1 /\ CodesOf(width) = 0..(n - 1)
      BY <3>1 DEF n, CodesOf
    <3> HIDE DEF width
    <3>3. Op.value % n \in 0..(n - 1)
      BY <1>1, <3>2
    <3>4. (n - 1) + 1 = n
      BY <3>2
    <3> QED BY <2>1, <3>2, <3>3, <3>4
  <2>3. RightBytes(Op, x) = SignedSlices(RightCode(Op, x), width)
    BY <1>2, <1>6, <2>1 DEF RightBytes, RightByte, mask_literal, SignedSlices
  <2> QED BY <1>4, <1>5, <2>2, <2>3
<1>7. CASE Op.right # 0
  <2>1. RightCode(Op, x) = codes[x][Op.right]
    BY <1>7 DEF RightCode
  <2>2. RightCode(Op, x) \in CodesOf(width)
    BY <1>1, <1>7, <2>1, ProgramFields
  <2>3. RightBytes(Op, x) = SignedSlices(RightCode(Op, x), width)
    BY <1>1, <1>2, <1>3, <1>7, <2>1 DEF RightBytes, RightByte, SignedSlices
  <2> QED BY <1>4, <1>5, <2>2, <2>3
<1> QED BY <1>6, <1>7

(* So on all their bytes they compare as the codes do.                     *)
LEMMA Comparison ==
  ASSUME TypeOK, DataInv, Scanning, NEW x \in Loaded(num_tuples)
  PROVE  LET code == codes[x][Op.column]
             right == RightCode(Op, x)
             n == NumBytes(Op)
         IN /\ code \in Nat /\ right \in Nat
            /\ AgreesSoFar(Op, n, x) <=> code = right
            /\ LowerSoFar(Op, n, x) <=> code < right
            /\ HigherSoFar(Op, n, x) <=> code > right
<1> DEFINE width == program.width[Op.column]
           code == codes[x][Op.column]
           right == RightCode(Op, x)
           n == NumBytes(Op)
           y == LeftBytes(Op, x)
           z == RightBytes(Op, x)
<1>1. /\ code \in CodesOf(width) /\ right \in CodesOf(width)
      /\ y = SignedSlices(code, width) /\ z = SignedSlices(right, width)
  BY BytesOfOperands
<1>2. width \in 1..32 /\ n = kNumBytesPerCode(width) /\ n \in 1..4
  BY ScanFields DEF NumBytes
<1>3. \A k \in 1..n : y[k] = LeftByte(Op, k, x) /\ z[k] = RightByte(Op, k, x)
  BY DEF LeftBytes, RightBytes
<1>4. code \in Nat /\ right \in Nat
  <2>1. 2^width \in Nat
    BY <1>2, Widths
  <2>2. \A u \in CodesOf(width) : u \in Nat
    BY <2>1 DEF CodesOf
  <2> QED BY <1>1, <2>2
<1>5. (code = right <=> SamePrefix(y, z, n)) /\ (code < right <=> LowerPrefix(y, z, n))
  BY <1>1, <1>2, SliceOrder
<1>6. right < code <=> LowerPrefix(z, y, n)
  BY <1>1, <1>2, SliceOrder
<1> HIDE DEF width, code, right, n, y, z
<1>7. \A k \in 0..n : /\ AgreesSoFar(Op, k, x) <=> SamePrefix(y, z, k)
                      /\ AgreesSoFar(Op, k, x) <=> SamePrefix(z, y, k)
  <2> TAKE k \in 0..n
  <2>1. 1..k \subseteq 1..n
    BY <1>2
  <2>2. AgreesSoFar(Op, k, x) <=>
          \A b \in 1..k : LeftByte(Op, b, x) = RightByte(Op, b, x)
    BY Zenon DEF AgreesSoFar, LeftByte, RightByte
  <2> QED BY <1>3, <2>1, <2>2, Zenon DEF SamePrefix
<1>8. \A k \in 1..n : k - 1 \in 0..n
  BY <1>2
<1>9. LowerSoFar(Op, n, x) <=> LowerPrefix(y, z, n)
  BY <1>3, <1>7, <1>8 DEF LowerSoFar, LowerPrefix
<1>10. HigherSoFar(Op, n, x) <=> LowerPrefix(z, y, n)
  <2>1. \A k \in 1..n : LeftByte(Op, k, x) > RightByte(Op, k, x) <=> z[k] < y[k]
    BY <1>3
  <2> QED BY <2>1, <1>7, <1>8 DEF HigherSoFar, LowerPrefix
<1>11. AgreesSoFar(Op, n, x) <=> SamePrefix(y, z, n)
  BY <1>2, <1>7
<1>12. right < code <=> code > right
  BY <1>4
<1> QED BY <1>4, <1>5, <1>6, <1>9, <1>10, <1>11, <1>12 DEF code, right, n

(* One byte more.                                                          *)
LEMMA NextByte ==
  ASSUME NEW op, NEW x, NEW n \in Nat
  PROVE  /\ AgreesSoFar(op, n + 1, x) <=>
              AgreesSoFar(op, n, x) /\ LeftByte(op, n + 1, x) = RightByte(op, n + 1, x)
         /\ LowerSoFar(op, n + 1, x) <=>
              \/ LowerSoFar(op, n, x)
              \/ AgreesSoFar(op, n, x) /\ LeftByte(op, n + 1, x) < RightByte(op, n + 1, x)
         /\ HigherSoFar(op, n + 1, x) <=>
              \/ HigherSoFar(op, n, x)
              \/ AgreesSoFar(op, n, x) /\ LeftByte(op, n + 1, x) > RightByte(op, n + 1, x)
<1>1. 1..(n + 1) = (1..n) \cup {n + 1} /\ (n + 1) - 1 = n
  OBVIOUS
<1>2. AgreesSoFar(op, n + 1, x) <=>
        AgreesSoFar(op, n, x) /\ LeftByte(op, n + 1, x) = RightByte(op, n + 1, x)
  BY <1>1, Zenon DEF AgreesSoFar, LeftByte, RightByte
<1>3. LowerSoFar(op, n + 1, x) <=>
        \/ LowerSoFar(op, n, x)
        \/ AgreesSoFar(op, n, x) /\ LeftByte(op, n + 1, x) < RightByte(op, n + 1, x)
  BY <1>1, Zenon DEF LowerSoFar
<1>4. HigherSoFar(op, n + 1, x) <=>
        \/ HigherSoFar(op, n, x)
        \/ AgreesSoFar(op, n, x) /\ LeftByte(op, n + 1, x) > RightByte(op, n + 1, x)
  BY <1>1, Zenon DEF HigherSoFar
<1> QED BY <1>2, <1>3, <1>4

(* After no byte at all nothing has differed yet.                          *)
LEMMA NoByte ==
  ASSUME NEW op, NEW x
  PROVE  AgreesSoFar(op, 0, x) /\ ~LowerSoFar(op, 0, x) /\ ~HigherSoFar(op, 0, x)
  BY DEF AgreesSoFar, LowerSoFar, HigherSoFar

(* Bytes that differ decide the comparison of all.                         *)
LEMMA Decided ==
  ASSUME NEW op, NEW x, NEW n \in Nat, NEW all \in Nat, n <= all, ~AgreesSoFar(op, n, x)
  PROVE  /\ ~AgreesSoFar(op, all, x)
         /\ LowerSoFar(op, n, x) <=> LowerSoFar(op, all, x)
         /\ HigherSoFar(op, n, x) <=> HigherSoFar(op, all, x)
<1>1. 1..n \subseteq 1..all
  OBVIOUS
<1>2. \A b \in Nat : n <= b => ~AgreesSoFar(op, b, x)
  <2> TAKE b \in Nat
  <2> HAVE n <= b
  <2>1. 1..n \subseteq 1..b
    OBVIOUS
  <2> QED BY <2>1 DEF AgreesSoFar
<1>3. \A b \in 1..all : AgreesSoFar(op, b - 1, x) => b \in 1..n
  <2> TAKE b \in 1..all
  <2> HAVE AgreesSoFar(op, b - 1, x)
  <2>1. b - 1 \in Nat
    OBVIOUS
  <2>2. ~(n <= b - 1)
    BY <1>2, <2>1
  <2> QED BY <2>2
<1> QED BY <1>1, <1>2, <1>3 DEF LowerSoFar, HigherSoFar

----------------------------------------------------------------------------
(* The lanes of the chunk in progress are bits of its word, at positions   *)
(* that the columns hold; the input mask holds the wanted ones.            *)
LEMMA LanePositions ==
  ASSUME TypeOK, PositionInv, pc \in {"chunk", "slice", "result"}, NEW l \in Lane
  PROVE  /\ bv_word_id \in WordIds(num_tuples)
         /\ i + l \in WordBits
         /\ Position(l) = WordPosition(i + l)
         /\ Position(l) \in Loaded(num_tuples)
         /\ l \in InputMask(Op.bit_opt) <=> Wanted(Position(l))
<1>1. /\ Scanning /\ bv_word_id \in Nat /\ bv_word_id * kNumWordBits < num_tuples
      /\ i \in Nat /\ i < kNumWordBits /\ i % kNumLanes = 0 /\ num_tuples \in Nat \ {0}
  BY ProgramFields DEF PositionInv, TypeOK, Scanning, InWord
<1>2. i + l \in WordBits
  <2>1. i + kNumLanes <= kNumWordBits
    BY <1>1, Chunks
  <2>2. l \in Nat /\ l < kNumLanes
    BY Sizes
  <2> QED BY <1>1, <2>1, <2>2, Sizes DEF WordBits
<1>3. Position(l) = WordPosition(i + l)
  <2>1. bv_word_id * kNumWordBits \in Nat /\ l \in Nat
    BY <1>1, Sizes
  <2> QED BY <1>1, <2>1 DEF Position, WordPosition
<1> DEFINE b == i + l
<1>4. b \in WordBits /\ Position(l) = bv_word_id * kNumWordBits + b
  BY <1>2, <1>3 DEF WordPosition
<1> HIDE DEF b
<1>5. Position(l) \in Loaded(num_tuples)
  BY <1>1, <1>4, LoadedWord
<1>6. bv_word_id \in WordIds(num_tuples)
  BY <1>1, WordsOfBlock
<1>7. GetBit(bvblock[Op.bv], Position(l)) <=> l \in WordChunk
  BY <1>1, <1>4, BitOfPosition DEF WordChunk, b
<1>8. l \in InputMask(Op.bit_opt) <=> Wanted(Position(l))
  BY <1>1, <1>7, ScanFields DEF InputMask, Wanted, avx_not
<1> QED BY <1>2, <1>3, <1>5, <1>6, <1>8

(* When the result of a chunk is read, it is right in every wanted lane.   *)
LEMMA VerdictOfLane ==
  ASSUME TypeOK, DataInv, PositionInv, MaskInv, LoadInv, pc = "result",
         NEW l \in Lane, Wanted(Position(l))
  PROVE  l \in computeMask_one_predicate(Op.cmp, m) <=> Satisfies(Op, Position(l))
<1> DEFINE x == Position(l)
           n == byte_id - 1
           all == NumBytes(Op)
<1>1. Scanning /\ x \in Loaded(num_tuples) /\ l \in input_mask
  BY LanePositions DEF PositionInv, MaskInv, TypeOK, Scanning
<1>2. all \in 1..4 /\ Op.cmp \in Comparator /\ Op.last \in Nat /\ Op.last >= all
  BY <1>1, ScanFields
<1>3. n \in Nat /\ n <= all
  BY <1>2 DEF TypeOK, MaskInv
<1>4. /\ Op.cmp \in {"kLess", "kLessEqual"} => (l \in m.less <=> LowerSoFar(Op, n, x))
      /\ Op.cmp \in {"kGreater", "kGreaterEqual"} => (l \in m.greater <=> HigherSoFar(Op, n, x))
      /\ Op.cmp \notin {"kLess", "kGreater"} => (l \in m.equal <=> AgreesSoFar(Op, n, x))
  BY DEF MaskInv
<1>5. n = all \/ ~AgreesSoFar(Op, n, x)
  <2>1. byte_id = all + 1 \/ ~AgreesSoFar(Op, n, x)
    BY <1>1 DEF LoadInv
  <2>2. byte_id = all + 1 => n = all
    BY <1>2 DEF TypeOK
  <2> QED BY <2>1, <2>2
<1>6. /\ AgreesSoFar(Op, n, x) <=> AgreesSoFar(Op, all, x)
      /\ LowerSoFar(Op, n, x) <=> LowerSoFar(Op, all, x)
      /\ HigherSoFar(Op, n, x) <=> HigherSoFar(Op, all, x)
  <2> HIDE DEF n, all
  <2>1. all \in Nat
    BY <1>2
  <2> QED BY <1>3, <1>5, <2>1, Decided
<1> DEFINE code == codes[x][Op.column]
           right == RightCode(Op, x)
<1>7. /\ code \in Nat /\ right \in Nat
      /\ AgreesSoFar(Op, all, x) <=> code = right
      /\ LowerSoFar(Op, all, x) <=> code < right
      /\ HigherSoFar(Op, all, x) <=> code > right
  BY <1>1, Comparison
<1>8. Satisfies(Op, x) <=>
        CASE Op.cmp = "kEqual" -> code = right
          [] Op.cmp = "kInequal" -> code # right
          [] Op.cmp = "kLess" -> code < right
          [] Op.cmp = "kLessEqual" -> code <= right
          [] Op.cmp = "kGreater" -> code > right
          [] Op.cmp = "kGreaterEqual" -> code >= right
  BY DEF Satisfies
<1> DEFINE eq == AgreesSoFar(Op, n, x)
           lower == LowerSoFar(Op, n, x)
           higher == HigherSoFar(Op, n, x)
           holds == Satisfies(Op, x)
<1>9. /\ code \in Nat /\ right \in Nat
      /\ eq <=> code = right
      /\ lower <=> code < right
      /\ higher <=> code > right
  BY <1>6, <1>7
<1>10. /\ Op.cmp \in {"kLess", "kLessEqual"} => (l \in m.less <=> lower)
       /\ Op.cmp \in {"kGreater", "kGreaterEqual"} => (l \in m.greater <=> higher)
       /\ Op.cmp \notin {"kLess", "kGreater"} => (l \in m.equal <=> eq)
  BY <1>4
<1> HIDE DEF x, code, right, eq, lower, higher, holds
<1>11. CASE Op.cmp = "kEqual"
  BY <1>8, <1>9, <1>10, <1>11 DEF computeMask_one_predicate, holds, x
<1>12. CASE Op.cmp = "kInequal"
  BY <1>8, <1>9, <1>10, <1>12 DEF computeMask_one_predicate, holds, x, avx_not
<1>13. CASE Op.cmp = "kLess"
  BY <1>8, <1>9, <1>10, <1>13 DEF computeMask_one_predicate, holds, x
<1>14. CASE Op.cmp = "kLessEqual"
  BY <1>8, <1>9, <1>10, <1>14 DEF computeMask_one_predicate, holds, x
<1>15. CASE Op.cmp = "kGreater"
  BY <1>8, <1>9, <1>10, <1>15 DEF computeMask_one_predicate, holds, x
<1>16. CASE Op.cmp = "kGreaterEqual"
  BY <1>8, <1>9, <1>10, <1>16 DEF computeMask_one_predicate, holds, x
<1> QED BY <1>2, <1>11, <1>12, <1>13, <1>14, <1>15, <1>16 DEF Comparator, Ordering, x

----------------------------------------------------------------------------
(* The invariant holds before the first operation.                         *)
LEMMA InvInit ==
  ASSUME Init
  PROVE  Inv
<1>1. program \in Programs /\ codes \in Tables(program) /\ IsProgram(program)
  BY ProgramsAssumption DEF Init
<1>2. Len(program.ops) \in Nat
  BY <1>1 DEF IsProgram
<1>3. bvblock \in [1..program.vectors -> [WordIds(num_tuples) -> SUBSET WordBits]]
  BY DEF Init, Memory, num_tuples
<1>4. TypeOK
  BY <1>1, <1>2, <1>3 DEF Init, TypeOK
<1>5. DataInv /\ PositionInv /\ MaskInv /\ LoadInv /\ CollectsVerdicts /\ TailInv
  BY <1>2 DEF Init, DataInv, PositionInv, InWord, MaskInv, LoadInv, CollectsVerdicts, TailInv
<1> QED BY <1>4, <1>5 DEF Inv

(* The input, and all that is defined by it alone, stays.                  *)
LEMMA InputStays ==
  ASSUME UNCHANGED input
  PROVE  /\ num_tuples' = num_tuples /\ Columns' = Columns /\ Slices' = Slices
         /\ DataInv => DataInv'
         /\ \A op, b : mask_literal(op, b)' = mask_literal(op, b)
         /\ \A op, n, x : /\ AgreesSoFar(op, n, x)' <=> AgreesSoFar(op, n, x)
                          /\ LowerSoFar(op, n, x)' <=> LowerSoFar(op, n, x)
                          /\ HigherSoFar(op, n, x)' <=> HigherSoFar(op, n, x)
         /\ \A op, x : Satisfies(op, x)' <=> Satisfies(op, x)
         /\ \A op : NumBytes(op)' = NumBytes(op)
<1>1. program' = program /\ codes' = codes /\ data' = data
  BY DEF input
<1>2. num_tuples' = num_tuples /\ Columns' = Columns /\ Slices' = Slices
  BY <1>1 DEF num_tuples, Columns, Slices
<1>3. \A op, b : mask_literal(op, b)' = mask_literal(op, b)
  BY <1>1 DEF mask_literal
<1>4. DataInv => DataInv'
  <2>1. \A c, b : StoredSlice(c, b)' = StoredSlice(c, b)
    BY <1>1, <1>2 DEF StoredSlice
  <2> QED BY <1>1, <1>2, <2>1 DEF DataInv
<1>5. \A op, n, x : AgreesSoFar(op, n, x)' <=> AgreesSoFar(op, n, x)
  BY <1>1, <1>3 DEF AgreesSoFar
<1>6. \A op, b, x : LeftByte(op, b, x)' = LeftByte(op, b, x)
                    /\ RightByte(op, b, x)' = RightByte(op, b, x)
  BY <1>1, <1>3 DEF LeftByte, RightByte
<1>7. \A op, n, x : /\ LowerSoFar(op, n, x)' <=> LowerSoFar(op, n, x)
                    /\ HigherSoFar(op, n, x)' <=> HigherSoFar(op, n, x)
  BY <1>5, <1>6 DEF LowerSoFar, HigherSoFar
<1>8. \A op, x : RightCode(op, x)' = RightCode(op, x)
  BY <1>1 DEF RightCode
<1>9. \A op, x : Satisfies(op, x)' <=> Satisfies(op, x)
  BY <1>1, <1>8 DEF Satisfies
<1>10. \A op : NumBytes(op)' = NumBytes(op)
  BY <1>1 DEF NumBytes
<1> QED BY <1>2, <1>3, <1>4, <1>5, <1>7, <1>9, <1>10

(* Where a step leaves the scan's position, the operation is the same.     *)
LEMMA PlaceStays ==
  ASSUME UNCHANGED <<input, ip, bv_word_id, i>>
  PROVE  /\ Op' = Op
         /\ \A l : Position(l)' = Position(l)
         /\ \A b : WordPosition(b)' = WordPosition(b)
         /\ UNCHANGED bvblock => \A x : Wanted(x)' <=> Wanted(x)
  BY DEF input, Op, Position, WordPosition, Wanted, GetBit

----------------------------------------------------------------------------
(* A scan begins with no bit collected.                                    *)
LEMMA StartScanStep ==
  ASSUME Inv, StartScan
  PROVE  Inv'
<1>1. UNCHANGED input /\ ip' = ip /\ program' = program
  BY DEF StartScan, input
<1>2. Op' = Op /\ num_tuples' = num_tuples
  BY <1>1 DEF Op, num_tuples
<1>3. TypeOK'
  BY <1>1, <1>2 DEF Inv, TypeOK, StartScan, input, locals
<1>4. DataInv'
  BY <1>1, InputStays DEF Inv
<1>5. PositionInv'
  <2>1. num_tuples \in Nat \ {0} /\ kNumWordBits \in Nat \ {0} /\ kNumLanes \in Nat \ {0}
    BY ProgramFields, Sizes DEF Inv
  <2> QED BY <1>1, <1>2, <2>1 DEF PositionInv, StartScan, InWord
<1>6. MaskInv' /\ LoadInv' /\ TailInv'
  BY DEF StartScan, MaskInv, LoadInv, TailInv
<1>7. CollectsVerdicts'
  BY Sizes DEF StartScan, CollectsVerdicts, InWord, WordBits
<1> QED BY <1>3, <1>4, <1>5, <1>6, <1>7 DEF Inv

(* A chunk begins with every lane equal.                                   *)
LEMMA StartChunkStep ==
  ASSUME Inv, StartChunk
  PROVE  Inv'
<1>1. /\ UNCHANGED <<input, ip, bv_word_id, i>> /\ UNCHANGED bvblock /\ program' = program
      /\ bitvector_word' = bitvector_word /\ pc = "chunk" /\ pc' \in {"slice", "result"}
      /\ m' = [less |-> {}, greater |-> {}, equal |-> Lane]
      /\ input_mask' = InputMask(Op.bit_opt) /\ byte_id' = 1
      /\ pc' = "slice" => input_mask' # {}
      /\ pc' = "result" => input_mask' = {}
  BY DEF StartChunk, input
<1>2. Op' = Op /\ num_tuples' = num_tuples
  BY <1>1, PlaceStays, InputStays
<1>3. Scanning /\ TypeOK /\ DataInv /\ PositionInv /\ Op.bit_opt \in {"kSet", "kAnd", "kOr"}
  <2>1. Scanning
    BY <1>1 DEF Inv, TypeOK, PositionInv, Scanning
  <2> QED BY <2>1, ScanFields DEF Inv
<1>4. InputMask(Op.bit_opt) \subseteq Lane
  BY <1>3 DEF InputMask, WordChunk, avx_not
<1>5. TypeOK'
  BY <1>1, <1>2, <1>3, <1>4 DEF TypeOK, input
<1>6. DataInv'
  BY <1>1, <1>3, InputStays
<1>7. PositionInv'
  BY <1>1, <1>2, <1>3 DEF PositionInv, InWord
<1>8. MaskInv'
  <2>1. input_mask' = InputMask(Op.bit_opt)'
    BY <1>1, <1>2 DEF InputMask, WordChunk
  <2>2. (byte_id' - 1) = 0 /\ 0 <= NumBytes(Op)'
    BY <1>1, <1>2, <1>3, InputStays, ScanFields
  <2>3. \A l \in Lane : /\ l \in m'.equal /\ l \notin m'.less /\ l \notin m'.greater
    BY <1>1
  <2>4. \A l : /\ AgreesSoFar(Op, 0, Position(l))'
               /\ ~LowerSoFar(Op, 0, Position(l))' /\ ~HigherSoFar(Op, 0, Position(l))'
    BY DEF AgreesSoFar, LowerSoFar, HigherSoFar
  <2> QED BY <2>1, <2>2, <2>3, <2>4 DEF MaskInv
<1>9. LoadInv'
  <2>1. 1 <= NumBytes(Op)'
    BY <1>1, <1>2, <1>3, InputStays, ScanFields
  <2> QED BY <1>1, <1>4, <2>1 DEF LoadInv
<1>10. CollectsVerdicts'
  <2>1. \A x : Satisfies(Op, x)' <=> Satisfies(Op, x)
    BY <1>1, <1>2, InputStays
  <2>2. \A b : Wanted(WordPosition(b))' <=> Wanted(WordPosition(b))
    BY <1>1, PlaceStays
  <2>3. \A b : Satisfies(Op, WordPosition(b))' <=> Satisfies(Op, WordPosition(b))
    BY <1>1, <2>1, PlaceStays
  <2> QED BY <1>1, <2>2, <2>3 DEF Inv, CollectsVerdicts, InWord
<1>11. TailInv'
  BY <1>1 DEF TailInv
<1> QED BY <1>5, <1>6, <1>7, <1>8, <1>9, <1>10, <1>11 DEF Inv

(* A byte slice keeps the masks exact, and is the last if no lane needs    *)
(* another.                                                                *)
LEMMA ScanSliceStep ==
  ASSUME Inv, ScanSlice
  PROVE  Inv'
<1> DEFINE n == byte_id - 1
           x == Load(Op, byte_id)
           y == LoadRight(Op, byte_id)
           last == byte_id = Op.last
<1>1. /\ UNCHANGED <<input, ip, bv_word_id, i>> /\ UNCHANGED bvblock /\ program' = program
      /\ bitvector_word' = bitvector_word /\ pc = "slice" /\ pc' \in {"slice", "result"}
      /\ m' = ScanKernel2(Op.cmp, last, x, y, m)
      /\ input_mask' = input_mask /\ byte_id' = byte_id + 1
      /\ pc' = "slice" <=> byte_id < NumBytes(Op) /\ SliceWanted(m')
  BY DEF ScanSlice, input
<1>2. Op' = Op /\ num_tuples' = num_tuples /\ NumBytes(Op)' = NumBytes(Op)
  BY <1>1, PlaceStays, InputStays
<1>3. Scanning /\ TypeOK /\ DataInv /\ PositionInv
  BY <1>1 DEF Inv, TypeOK, PositionInv, Scanning
<1>4. /\ Op.bit_opt \in {"kSet", "kAnd", "kOr"} /\ Op.cmp \in Comparator
      /\ NumBytes(Op) \in 1..4 /\ Op.last \in Nat /\ Op.last >= NumBytes(Op)
  BY <1>3, ScanFields
<1>5. byte_id \in Nat \ {0} /\ n \in Nat /\ n + 1 = byte_id /\ byte_id <= NumBytes(Op)
  BY <1>1, <1>3 DEF Inv, TypeOK, LoadInv
<1>6. m' \in [less : SUBSET Lane, greater : SUBSET Lane, equal : SUBSET Lane]
  BY <1>1, <1>3 DEF TypeOK, ScanKernel2, avx_cmplt, avx_cmpgt, avx_cmpeq
<1>7. TypeOK'
  BY <1>1, <1>2, <1>3, <1>5, <1>6 DEF TypeOK, input
<1>8. DataInv'
  BY <1>1, <1>3, InputStays
<1>9. PositionInv'
  BY <1>1, <1>2, <1>3 DEF PositionInv, InWord
<1>10. \A l \in Lane : /\ x[l] = LeftByte(Op, byte_id, Position(l))
                       /\ y[l] = RightByte(Op, byte_id, Position(l))
  BY DEF Load, LoadRight, LeftByte, RightByte
<1>11. /\ input_mask = InputMask(Op.bit_opt)
       /\ \A l \in Lane :
            /\ Op.cmp \in {"kLess", "kLessEqual"} =>
                 (l \in m.less <=> LowerSoFar(Op, n, Position(l)))
            /\ Op.cmp \in {"kGreater", "kGreaterEqual"} =>
                 (l \in m.greater <=> HigherSoFar(Op, n, Position(l)))
            /\ l \in m.equal <=> AgreesSoFar(Op, n, Position(l))
  <2>1. n < Op.last
    BY <1>4, <1>5
  <2> QED BY <1>1, <2>1 DEF Inv, MaskInv
<1> HIDE DEF x, y
<1>12. ASSUME NEW l \in Lane
       PROVE  /\ Op.cmp \in {"kLess", "kLessEqual"} =>
                   (l \in m'.less <=> LowerSoFar(Op, byte_id, Position(l)))
              /\ Op.cmp \in {"kGreater", "kGreaterEqual"} =>
                   (l \in m'.greater <=> HigherSoFar(Op, byte_id, Position(l)))
              /\ ~last \/ Op.cmp \notin {"kLess", "kGreater"} =>
                   (l \in m'.equal <=> AgreesSoFar(Op, byte_id, Position(l)))
  <2> DEFINE p == Position(l)
             eq == AgreesSoFar(Op, n, p)
  <2>1. /\ AgreesSoFar(Op, byte_id, p) <=> eq /\ x[l] = y[l]
        /\ LowerSoFar(Op, byte_id, p) <=> LowerSoFar(Op, n, p) \/ (eq /\ x[l] < y[l])
        /\ HigherSoFar(Op, byte_id, p) <=> HigherSoFar(Op, n, p) \/ (eq /\ x[l] > y[l])
    <3> HIDE DEF n, p
    <3> QED BY <1>5, <1>10, NextByte DEF p
  <2>2. /\ l \in avx_cmplt(x, y) <=> x[l] < y[l]
        /\ l \in avx_cmpgt(x, y) <=> x[l] > y[l]
        /\ l \in avx_cmpeq(x, y) <=> x[l] = y[l]
    BY DEF avx_cmplt, avx_cmpgt, avx_cmpeq
  <2>3. /\ m'.less = IF Op.cmp \in {"kLess", "kLessEqual"}
                     THEN m.less \cup (m.equal \cap avx_cmplt(x, y)) ELSE m.less
        /\ m'.greater = IF Op.cmp \in {"kGreater", "kGreaterEqual"}
                        THEN m.greater \cup (m.equal \cap avx_cmpgt(x, y)) ELSE m.greater
        /\ m'.equal = IF last /\ Op.cmp \in {"kLess", "kGreater"} THEN m.equal
                      ELSE m.equal \cap avx_cmpeq(x, y)
    BY <1>1, <1>3 DEF ScanKernel2, TypeOK
  <2> HIDE DEF p, eq, n, last
  <2>4. /\ Op.cmp \in {"kLess", "kLessEqual"} => (l \in m.less <=> LowerSoFar(Op, n, p))
        /\ Op.cmp \in {"kGreater", "kGreaterEqual"} =>
             (l \in m.greater <=> HigherSoFar(Op, n, p))
        /\ l \in m.equal <=> eq
    BY <1>11 DEF p, eq
  <2>5. /\ Op.cmp \in {"kLess", "kLessEqual"} =>
             (l \in m'.less <=> LowerSoFar(Op, byte_id, p))
        /\ Op.cmp \in {"kGreater", "kGreaterEqual"} =>
             (l \in m'.greater <=> HigherSoFar(Op, byte_id, p))
        /\ ~last \/ Op.cmp \notin {"kLess", "kGreater"} =>
             (l \in m'.equal <=> AgreesSoFar(Op, byte_id, p))
    BY <2>1, <2>2, <2>3, <2>4
  <2> QED BY <2>5 DEF p
<1>13. \A k, l : /\ AgreesSoFar(Op, k, Position(l))' <=> AgreesSoFar(Op, k, Position(l))
                 /\ LowerSoFar(Op, k, Position(l))' <=> LowerSoFar(Op, k, Position(l))
                 /\ HigherSoFar(Op, k, Position(l))' <=> HigherSoFar(Op, k, Position(l))
  BY <1>1, <1>2, InputStays, PlaceStays
<1>14. MaskInv'
  <2>1. input_mask' = InputMask(Op.bit_opt)'
    BY <1>1, <1>2, <1>11 DEF InputMask, WordChunk
  <2>2. (byte_id' - 1) = byte_id /\ byte_id <= NumBytes(Op)'
    BY <1>1, <1>2, <1>5
  <2>3. last <=> ~(byte_id < Op.last)
    BY <1>4, <1>5
  <2> HIDE DEF last
  <2>4. \A l \in Lane :
          /\ (Op.cmp)' \in {"kLess", "kLessEqual"} =>
               (l \in m'.less <=> LowerSoFar(Op, byte_id, Position(l)))
          /\ (Op.cmp)' \in {"kGreater", "kGreaterEqual"} =>
               (l \in m'.greater <=> HigherSoFar(Op, byte_id, Position(l)))
          /\ byte_id < (Op.last)' \/ (Op.cmp)' \notin {"kLess", "kGreater"} =>
               (l \in m'.equal <=> AgreesSoFar(Op, byte_id, Position(l)))
    BY <1>2, <1>12, <2>3
  <2> QED BY <1>13, <2>1, <2>2, <2>4 DEF MaskInv
<1>15. LoadInv'
  <2>1. SliceWanted(m') <=> input_mask \cap m'.equal # {}
    BY <1>4, <1>6, <1>11 DEF SliceWanted, InputMask
  <2>2. pc' = "slice" => byte_id' <= NumBytes(Op)' /\ input_mask' \cap m'.equal # {}
    BY <1>1, <1>2, <1>4, <1>5, <2>1
  <2>3. ASSUME pc' = "result", byte_id # NumBytes(Op), NEW l \in input_mask
        PROVE  ~AgreesSoFar(Op, byte_id - 1, Position(l))'
    <3>1. byte_id < NumBytes(Op) /\ byte_id # Op.last
      BY <1>4, <1>5, <2>3
    <3>2. l \in Lane /\ l \notin m'.equal
      BY <1>1, <1>3, <2>1, <2>3, <3>1 DEF TypeOK
    <3>3. ~AgreesSoFar(Op, byte_id, Position(l))
      BY <1>12, <3>1, <3>2
    <3>4. (byte_id - 1)' = byte_id
      BY <1>1, <1>5
    <3> QED BY <1>13, <3>3, <3>4
  <2>4. byte_id = NumBytes(Op) => byte_id' = NumBytes(Op)' + 1
    BY <1>1, <1>2
  <2>5. byte_id' - 1 = byte_id
    BY <1>1, <1>5
  <2> QED BY <1>1, <2>2, <2>3, <2>4, <2>5 DEF LoadInv
<1>16. CollectsVerdicts'
  <2>1. \A b : /\ Wanted(WordPosition(b))' <=> Wanted(WordPosition(b))
               /\ Satisfies(Op, WordPosition(b))' <=> Satisfies(Op, WordPosition(b))
    BY <1>1, <1>2, InputStays, PlaceStays
  <2> QED BY <1>1, <2>1 DEF Inv, CollectsVerdicts, InWord
<1>17. TailInv'
  BY <1>1 DEF TailInv
<1> QED BY <1>7, <1>8, <1>9, <1>14, <1>15, <1>16, <1>17 DEF Inv

(* A chunk adds the verdicts on its lanes to the word.                     *)
LEMMA MoveMaskStep ==
  ASSUME Inv, MoveMask
  PROVE  Inv'
<1> DEFINE mask == computeMask_one_predicate(Op.cmp, m)
<1>1. /\ UNCHANGED <<input, ip, bv_word_id>> /\ UNCHANGED <<locals, bvblock>>
      /\ program' = program /\ pc = "result" /\ pc' \in {"chunk", "word"}
      /\ bitvector_word' = bitvector_word \cup {i + l : l \in mask}
      /\ i' = i + kNumLanes
      /\ pc' = "chunk" <=> i + kNumLanes < kNumWordBits
  BY DEF MoveMask, input
<1>2. Op' = Op /\ num_tuples' = num_tuples
  BY <1>1, InputStays DEF Op
<1>3. Scanning /\ TypeOK /\ DataInv /\ PositionInv /\ MaskInv /\ LoadInv /\ CollectsVerdicts
  BY <1>1 DEF Inv, TypeOK, PositionInv, Scanning
<1>4. /\ i \in Nat /\ i < kNumWordBits /\ i % kNumLanes = 0
      /\ bv_word_id * kNumWordBits < num_tuples
  BY <1>1, <1>3 DEF PositionInv, TypeOK, InWord
<1>5. i + kNumLanes <= kNumWordBits /\ (i + kNumLanes) % kNumLanes = 0
  BY <1>4, Chunks
<1>6. mask \subseteq Lane
  BY <1>3, ScanFields DEF TypeOK, computeMask_one_predicate, avx_not, Comparator, Ordering
<1>7. \A l \in Lane : i + l \in WordBits /\ Position(l) = WordPosition(i + l)
  BY <1>1, <1>3, LanePositions
<1>8. \A l \in Lane : Wanted(Position(l)) => (l \in mask <=> Satisfies(Op, Position(l)))
  BY <1>1, <1>3, VerdictOfLane
<1> HIDE DEF mask
<1>9. bitvector_word' \subseteq WordBits
  BY <1>1, <1>3, <1>6, <1>7 DEF TypeOK
<1>10. TypeOK'
  <2>1. /\ byte_id' = byte_id /\ input_mask' = input_mask /\ m' = m
        /\ codes' = codes /\ ip' = ip /\ bv_word_id' = bv_word_id /\ bvblock' = bvblock
    BY <1>1 DEF locals, input
  <2>2. i' \in Nat
    BY <1>1, <1>4, Sizes
  <2> QED BY <1>1, <1>2, <1>3, <1>9, <2>1, <2>2 DEF TypeOK
<1>11. DataInv'
  BY <1>1, <1>3, InputStays
<1>12. PositionInv'
  <2>1. pc' = "word" => i' = kNumWordBits
    BY <1>1, <1>4, <1>5, Sizes
  <2> QED BY <1>1, <1>2, <1>3, <1>4, <1>5, <2>1 DEF PositionInv, InWord
<1>13. MaskInv' /\ LoadInv' /\ TailInv'
  BY <1>1 DEF MaskInv, LoadInv, TailInv
<1>14. CollectsVerdicts'
  <2>1. \A b : /\ Wanted(WordPosition(b))' <=> Wanted(WordPosition(b))
               /\ Satisfies(Op, WordPosition(b))' <=> Satisfies(Op, WordPosition(b))
    <3>1. \A x : Wanted(x)' <=> Wanted(x)
      BY <1>1, <1>2 DEF Wanted, GetBit
    <3>2. \A b : WordPosition(b)' = WordPosition(b)
      BY <1>1 DEF WordPosition
    <3> QED BY <1>1, <1>2, <3>1, <3>2, InputStays
  <2>2. \A b \in bitvector_word : b < i
    BY <1>1, <1>3 DEF CollectsVerdicts, InWord
  <2>3. \A l \in Lane : l \in Nat /\ l < kNumLanes
    BY Sizes
  <2>4. \A b \in bitvector_word' : b < i'
    <3> TAKE b \in bitvector_word'
    <3>1. CASE b \in bitvector_word
      <4>1. b \in Int /\ b < i
        BY <1>3, <2>2, <3>1 DEF TypeOK, WordBits
      <4> QED BY <1>1, <1>4, <4>1, Sizes
    <3>2. CASE b \notin bitvector_word
      <4>1. PICK l \in mask : b = i + l
        BY <1>1, <3>2
      <4> QED BY <1>1, <1>4, <1>6, <2>3, <4>1, Sizes
    <3> QED BY <3>1, <3>2
  <2>5. ASSUME NEW b \in WordBits, b < i', Wanted(WordPosition(b))
        PROVE  b \in bitvector_word' <=> Satisfies(Op, WordPosition(b))
    <3>1. b \in Nat
      BY Sizes DEF WordBits
    <3>2. CASE b < i
      <4>1. b \in bitvector_word <=> Satisfies(Op, WordPosition(b))
        BY <1>1, <1>3, <2>5, <3>2 DEF CollectsVerdicts, InWord
      <4>2. b \notin {i + l : l \in mask}
        BY <1>4, <1>6, <2>3, <3>1, <3>2
      <4> QED BY <1>1, <4>1, <4>2
    <3>3. CASE ~(b < i)
      <4>1. PICK l \in Lane : b = i + l
        <5>1. b - i \in Lane /\ b = i + (b - i)
          BY <1>1, <1>4, <2>5, <3>1, <3>3, Sizes
        <5> QED BY <5>1
      <4>2. b \notin bitvector_word
        BY <2>2, <3>3
      <4>3. b \in {i + k : k \in mask} <=> l \in mask
        BY <1>4, <1>6, <2>3, <4>1
      <4>4. Position(l) = WordPosition(b)
        BY <1>7, <4>1
      <4> QED BY <1>1, <1>8, <2>5, <4>2, <4>3, <4>4
    <3> QED BY <3>2, <3>3
  <2> QED BY <2>1, <2>4, <2>5 DEF CollectsVerdicts
<1> QED BY <1>10, <1>11, <1>12, <1>13, <1>14 DEF Inv

(* The next word begins with no bit collected.                             *)
LEMMA StoreWordStep ==
  ASSUME Inv, StoreWord
  PROVE  Inv'
<1>1. /\ UNCHANGED input /\ ip' = ip /\ program' = program /\ codes' = codes
      /\ UNCHANGED locals
      /\ pc = "word" /\ pc' \in {"chunk", "tail"} /\ i' = 0 /\ bitvector_word' = {}
      /\ bv_word_id' = bv_word_id + 1
      /\ pc' = "chunk" <=> (bv_word_id + 1) * kNumWordBits < num_tuples
      /\ bvblock' = [bvblock EXCEPT ![Op.bv][bv_word_id] =
                       JoinWord(Op.bit_opt, bitvector_word, @)]
  BY DEF StoreWord, input
<1>2. Op' = Op /\ num_tuples' = num_tuples
  BY <1>1, InputStays DEF Op
<1>3. Scanning /\ TypeOK /\ DataInv /\ PositionInv
  BY <1>1 DEF Inv, TypeOK, PositionInv, Scanning
<1>4. num_tuples \in Nat \ {0} /\ bv_word_id \in Nat
  BY <1>3, ProgramFields DEF TypeOK
<1>5. TypeOK'
  <2>1. bv_word_id \in WordIds(num_tuples)
    BY <1>1, <1>3, <1>4, WordsOfBlock DEF PositionInv, InWord
  <2>2. JoinWord(Op.bit_opt, bitvector_word, bvblock[Op.bv][bv_word_id]) \subseteq WordBits
    BY <1>3, <2>1, ScanFields DEF JoinWord, TypeOK
  <2>3. bvblock' \in [1..program.vectors -> [WordIds(num_tuples) -> SUBSET WordBits]]
    BY <1>1, <1>3, <2>1, <2>2, ScanFields DEF TypeOK
  <2> QED BY <1>1, <1>2, <1>3, <1>4, <2>3 DEF TypeOK, locals
<1>6. DataInv'
  BY <1>1, <1>3, InputStays
<1>7. PositionInv'
  <2>1. (bv_word_id + 1) * kNumWordBits \in Nat
    BY <1>4, Sizes
  <2>2. 0 < kNumWordBits /\ 0 % kNumLanes = 0
    BY Sizes
  <2> QED BY <1>1, <1>2, <1>3, <1>4, <2>1, <2>2 DEF PositionInv, InWord
<1>8. MaskInv' /\ LoadInv' /\ TailInv'
  BY <1>1 DEF MaskInv, LoadInv, TailInv
<1>9. CollectsVerdicts'
  BY <1>1, Sizes DEF CollectsVerdicts, InWord, WordBits
<1> QED BY <1>5, <1>6, <1>7, <1>8, <1>9 DEF Inv

(* The end of a scan clears what lies behind the last tuple.               *)
LEMMA EndScanStep ==
  ASSUME Inv, EndScan
  PROVE  Inv'
<1>1. /\ UNCHANGED input /\ program' = program /\ codes' = codes
      /\ UNCHANGED <<bv_word_id, i, locals, bitvector_word>>
      /\ pc = "tail" /\ pc' = "next" /\ ip' = ip + 1
      /\ bvblock' = [bvblock EXCEPT ![Op.bv] =
                       IF Op.clears THEN ClearTail(@, num_tuples) ELSE @]
  BY DEF EndScan, input
<1>2. num_tuples' = num_tuples
  BY <1>1, InputStays
<1>3. Scanning /\ TypeOK /\ DataInv
  BY <1>1 DEF Inv, TypeOK, PositionInv, Scanning
<1>4. /\ Op.bv \in 1..program.vectors /\ ip \in 1..Len(program.ops)
      /\ Len(program.ops) \in Nat /\ num_tuples \in Nat \ {0}
      /\ bvblock[Op.bv] \in [WordIds(num_tuples) -> SUBSET WordBits]
  BY <1>3, ScanFields, ProgramFields DEF TypeOK, Scanning
<1> DEFINE cleared == ClearTail(bvblock[Op.bv], num_tuples)
<1>5. /\ cleared \in [WordIds(num_tuples) -> SUBSET WordBits]
      /\ \A w \in WordIds(num_tuples) : \A b \in cleared[w] : w * kNumWordBits + b < num_tuples
  BY <1>4, Cleared
<1>6. bvblock' = [bvblock EXCEPT ![Op.bv] = IF Op.clears THEN cleared ELSE bvblock[Op.bv]]
  BY <1>1
<1> HIDE DEF cleared
<1>7. /\ bvblock' \in [1..program.vectors -> [WordIds(num_tuples) -> SUBSET WordBits]]
      /\ Op.clears => bvblock'[Op.bv] = cleared
  BY <1>3, <1>4, <1>5, <1>6 DEF TypeOK
<1>8. ip' \in 1..(Len(program.ops) + 1) /\ ip' - 1 = ip
  BY <1>1, <1>4
<1>9. TypeOK'
  BY <1>1, <1>2, <1>3, <1>7, <1>8 DEF TypeOK, locals
<1>10. DataInv'
  BY <1>1, <1>3, InputStays
<1>11. PositionInv' /\ MaskInv' /\ LoadInv' /\ CollectsVerdicts'
  BY <1>1 DEF PositionInv, InWord, MaskInv, LoadInv, CollectsVerdicts
<1>12. TailInv'
  <2>1. (program.ops[ip - 1])' = Op
    BY <1>1, <1>8 DEF Op
  <2> QED BY <1>1, <1>2, <1>5, <1>7, <2>1 DEF TailInv
<1> QED BY <1>9, <1>10, <1>11, <1>12 DEF Inv

(* A combination that clears leaves nothing behind the last tuple.         *)
LEMMA CombineBlocksStep ==
  ASSUME Inv, CombineBlocks
  PROVE  Inv'
<1> DEFINE left == bvblock[Op.bv]
           right == bvblock[Op.other]
           joined == IF Op.op = "And" THEN [w \in DOMAIN left |-> left[w] \cap right[w]]
                                      ELSE [w \in DOMAIN left |-> left[w] \cup right[w]]
           cleared == ClearTail(joined, num_tuples)
<1>1. /\ UNCHANGED input /\ program' = program /\ codes' = codes
      /\ UNCHANGED <<bv_word_id, i, locals, bitvector_word>>
      /\ pc = "next" /\ pc' = "next" /\ ip' = ip + 1 /\ ip <= Len(program.ops)
      /\ Op.op \in {"And", "Or"}
      /\ bvblock' = [bvblock EXCEPT ![Op.bv] = cleared]
  BY DEF CombineBlocks, input, AndBlock, OrBlock
<1>2. num_tuples' = num_tuples
  BY <1>1, InputStays
<1>3. TypeOK /\ DataInv
  BY DEF Inv
<1>4. /\ ip \in 1..Len(program.ops) /\ Len(program.ops) \in Nat /\ num_tuples \in Nat \ {0}
      /\ IsOperation(program, Op)
  BY <1>1, <1>3, ProgramFields DEF TypeOK, Op
<1>5. Op.bv \in 1..program.vectors /\ Op.other \in 1..program.vectors
  BY <1>1, <1>4 DEF IsOperation
<1>6. joined \in [WordIds(num_tuples) -> SUBSET WordBits]
  BY <1>3, <1>5 DEF TypeOK
<1> HIDE DEF joined
<1>7. /\ cleared \in [WordIds(num_tuples) -> SUBSET WordBits]
      /\ \A w \in WordIds(num_tuples) : \A b \in cleared[w] : w * kNumWordBits + b < num_tuples
  BY <1>4, <1>6, Cleared
<1> HIDE DEF cleared
<1>8. /\ bvblock' \in [1..program.vectors -> [WordIds(num_tuples) -> SUBSET WordBits]]
      /\ bvblock'[Op.bv] = cleared
  BY <1>1, <1>3, <1>5, <1>7 DEF TypeOK
<1>9. ip' \in 1..(Len(program.ops) + 1) /\ ip' - 1 = ip
  BY <1>1, <1>4
<1>10. TypeOK'
  BY <1>1, <1>2, <1>3, <1>8, <1>9 DEF TypeOK, locals
<1>11. DataInv'
  BY <1>1, <1>3, InputStays
<1>12. PositionInv' /\ MaskInv' /\ LoadInv' /\ CollectsVerdicts'
  BY <1>1 DEF PositionInv, InWord, MaskInv, LoadInv, CollectsVerdicts
<1>13. TailInv'
  <2>1. (program.ops[ip - 1])' = Op
    BY <1>1, <1>9 DEF Op
  <2> QED BY <1>1, <1>2, <1>7, <1>8, <2>1 DEF TailInv
<1> QED BY <1>10, <1>11, <1>12, <1>13 DEF Inv

(* A step that changes nothing keeps the invariant.                        *)
LEMMA StutterStep ==
  ASSUME Inv, UNCHANGED vars
  PROVE  Inv'
<1>1. /\ UNCHANGED <<input, ip, bv_word_id, i>> /\ UNCHANGED bvblock
      /\ program' = program /\ codes' = codes /\ ip' = ip /\ bv_word_id' = bv_word_id /\ i' = i
      /\ pc' = pc /\ byte_id' = byte_id /\ input_mask' = input_mask /\ m' = m
      /\ bitvector_word' = bitvector_word
  BY DEF vars, input, locals
<1>2. Op' = Op /\ num_tuples' = num_tuples
  BY <1>1, PlaceStays, InputStays
<1>3. TypeOK' /\ PositionInv' /\ TailInv'
  BY <1>1, <1>2 DEF Inv, TypeOK, PositionInv, InWord, TailInv
<1>4. DataInv'
  BY <1>1, InputStays DEF Inv
<1>5. \A k, l : /\ AgreesSoFar(Op, k, Position(l))' <=> AgreesSoFar(Op, k, Position(l))
                /\ LowerSoFar(Op, k, Position(l))' <=> LowerSoFar(Op, k, Position(l))
                /\ HigherSoFar(Op, k, Position(l))' <=> HigherSoFar(Op, k, Position(l))
  BY <1>1, <1>2, InputStays, PlaceStays
<1>6. NumBytes(Op)' = NumBytes(Op) /\ InputMask(Op.bit_opt)' = InputMask(Op.bit_opt)
  BY <1>1, <1>2, InputStays DEF InputMask, WordChunk
<1>7. MaskInv' /\ LoadInv'
  BY <1>1, <1>2, <1>5, <1>6 DEF Inv, MaskInv, LoadInv
<1>8. \A b : /\ Wanted(WordPosition(b))' <=> Wanted(WordPosition(b))
             /\ Satisfies(Op, WordPosition(b))' <=> Satisfies(Op, WordPosition(b))
  BY <1>1, <1>2, InputStays, PlaceStays
<1>9. CollectsVerdicts'
  BY <1>1, <1>8 DEF Inv, CollectsVerdicts, InWord
<1> QED BY <1>3, <1>4, <1>7, <1>9 DEF Inv

----------------------------------------------------------------------------
(* The invariant holds in every reachable state of every execution model.  *)
THEOREM InvCorrect == Spec => []Inv
<1>1. Init => Inv
  BY InvInit
<1>2. Inv /\ [Next]_vars => Inv'
  BY StartScanStep, StartChunkStep, ScanSliceStep, MoveMaskStep, StoreWordStep, EndScanStep,
     CombineBlocksStep, StutterStep DEF Next
<1> QED BY <1>1, <1>2, PTL DEF Spec

(* The masks, words and blocks have the types TypeOK gives them.           *)
THEOREM TypeCorrect == Spec => []TypeOK
<1>1. Inv => TypeOK
  BY DEF Inv
<1> QED BY <1>1, InvCorrect, PTL

(***************************************************************************)
(* A scan is exact on the byte slices it has compared, reads one only for  *)
(* a lane that is open, stops when none is, and clears what lies behind    *)
(* the last tuple.                                                         *)
(***************************************************************************)
THEOREM ScanIsExact == Spec => []ScanInv
<1>1. Inv => ScanInv
  BY DEF Inv, ScanInv
<1> QED BY <1>1, InvCorrect, PTL

(***************************************************************************)
(* The bits a scan has collected for a word are the verdicts of its        *)
(* comparison on the codes, wherever the word's new value depends on them. *)
(***************************************************************************)
THEOREM VerdictsAreRight == Spec => []CollectsVerdicts
<1>1. Inv => CollectsVerdicts
  BY DEF Inv
<1> QED BY <1>1, InvCorrect, PTL

----------------------------------------------------------------------------
(***************************************************************************)
(* When a scan or combination that clears is complete, CountOnes of its    *)
(* block counts the block's tuples alone.                                  *)
(***************************************************************************)
THEOREM TailStaysClear == Spec => []TailIsClear
<1>1. Inv => TailIsClear
  <2> SUFFICES ASSUME Inv, pc = "next", ip > 1, program.ops[ip - 1].clears
               PROVE  LET written == bvblock[program.ops[ip - 1].bv] IN
                      CountOnes(written) = Cardinality({x \in TupleIds : GetBit(written, x)})
    BY DEF TailIsClear
  <2> DEFINE op == program.ops[ip - 1]
             block == bvblock[op.bv]
  <2>1. TypeOK /\ num_tuples \in Nat \ {0}
    BY ProgramFields DEF Inv
  <2>2. ip - 1 \in 1..Len(program.ops)
    BY <2>1, ProgramFields DEF TypeOK
  <2>3. op.bv \in 1..program.vectors
    BY <2>1, <2>2, ProgramFields DEF IsOperation
  <2>4. block \in [WordIds(num_tuples) -> SUBSET WordBits]
    BY <2>1, <2>3 DEF TypeOK
  <2>5. \A w \in WordIds(num_tuples) : \A b \in block[w] : w * kNumWordBits + b < num_tuples
    BY DEF Inv, TailInv
  <2> HIDE DEF block
  <2>6. CountOnes(block) = Cardinality({x \in TupleIds : GetBit(block, x)})
    BY <2>1, <2>4, <2>5, OnesOfTuples DEF TupleIds
  <2> QED BY <2>6 DEF block
<1> QED BY <1>1, InvCorrect, PTL

(***************************************************************************)
(* A byte slice is loaded only if one of its lanes has a bit that the      *)
(* comparison can still change, and agrees with the right operand so far.  *)
(***************************************************************************)
THEOREM EarlyStopSavesLoads == Spec => LoadsOnlyWhatMatters
<1> DEFINE Loads == \E l \in Lane :
              /\ AgreesSoFar(Op, byte_id - 1, Position(l))
              /\ Op.bit_opt = "kAnd" => GetBit(bvblock[Op.bv], Position(l))
              /\ Op.bit_opt = "kOr" => ~GetBit(bvblock[Op.bv], Position(l))
<1>1. Inv /\ [Next]_vars => [ScanSlice => Loads]_vars
  <2> SUFFICES ASSUME Inv, ScanSlice
               PROVE  Loads
    OBVIOUS
  <2>1. pc = "slice" /\ Scanning /\ TypeOK /\ PositionInv
    BY DEF Inv, ScanSlice, TypeOK, PositionInv, Scanning
  <2>2. byte_id <= NumBytes(Op) /\ input_mask \cap m.equal # {}
    BY <2>1 DEF Inv, LoadInv
  <2>3. PICK l \in Lane : l \in input_mask /\ l \in m.equal
    BY <2>1, <2>2 DEF TypeOK
  <2>4. byte_id - 1 < Op.last
    BY <2>1, <2>2, ScanFields DEF TypeOK
  <2>5. AgreesSoFar(Op, byte_id - 1, Position(l)) /\ input_mask = InputMask(Op.bit_opt)
    BY <2>1, <2>3, <2>4 DEF Inv, MaskInv
  <2>6. Wanted(Position(l))
    BY <2>1, <2>3, <2>5, LanePositions
  <2> QED BY <2>5, <2>6 DEF Wanted
<1>2. Spec => [][ScanSlice => Loads]_vars
  BY <1>1, InvCorrect, PTL DEF Spec
<1> QED BY <1>2 DEF LoadsOnlyWhatMatters

----------------------------------------------------------------------------
(***************************************************************************)
(* The refinement of WordwiseScan: the tuples whose bits are set, the      *)
(* words written, and the tuples that satisfy a scan's comparison.         *)
(***************************************************************************)
TupleBits == [v \in DOMAIN bvblock |-> {x \in TupleIds : GetBit(bvblock[v], x)}]

WordsWritten == IF pc = "next" THEN 0 ELSE bv_word_id

Qualifying ==
  [o \in DOMAIN program.ops |->
     {x \in TupleIds : program.ops[o].op = "Scan" /\ Satisfies(program.ops[o], x)}]

(* Initially nothing is promised but the blocks as they are.               *)
LEMMA PromisedInit ==
  ASSUME Init
  PROVE  Promised!Init
  BY DEF Init, Promised!Init, TupleIds

(* The input of the specification stays.                                   *)
LEMMA PromisedInput ==
  ASSUME UNCHANGED input
  PROVE  /\ program' = program /\ num_tuples' = num_tuples /\ TupleIds' = TupleIds
         /\ Qualifying' = Qualifying
<1>1. program' = program /\ num_tuples' = num_tuples /\ TupleIds' = TupleIds
  BY InputStays DEF input, TupleIds
<1>2. \A op, x : Satisfies(op, x)' <=> Satisfies(op, x)
  BY InputStays
<1> QED BY <1>1, <1>2 DEF Qualifying

(* A step within a word is not seen.                                       *)
LEMMA PromisedStutter ==
  ASSUME UNCHANGED input, ip' = ip, bvblock' = bvblock, WordsWritten' = WordsWritten
  PROVE  UNCHANGED Promised!vars
<1>1. TupleBits' = TupleBits
  BY PromisedInput DEF TupleBits, GetBit
<1> QED BY <1>1, PromisedInput DEF Promised!vars, TupleBits, WordsWritten, Qualifying

(* A word is stored as the specification joins verdicts into bits.         *)
LEMMA PromisedWord ==
  ASSUME Inv, StoreWord
  PROVE  Promised!WriteWord
<1>1. /\ UNCHANGED input /\ ip' = ip /\ pc = "word" /\ pc' # "next"
      /\ bv_word_id' = bv_word_id + 1
      /\ bvblock' = [bvblock EXCEPT ![Op.bv][bv_word_id] =
                       JoinWord(Op.bit_opt, bitvector_word, @)]
  BY DEF StoreWord
<1>2. Scanning /\ TypeOK /\ PositionInv /\ CollectsVerdicts
  BY <1>1 DEF Inv, TypeOK, PositionInv, Scanning
<1>3. /\ ip \in 1..Len(program.ops) /\ (ip - 1) + 1 = ip /\ ip - 1 < Len(program.ops)
      /\ Len(program.ops) \in Nat /\ DOMAIN program.ops = 1..Len(program.ops)
      /\ num_tuples \in Nat \ {0} /\ bv_word_id \in Nat
      /\ bv_word_id * kNumWordBits < num_tuples /\ i = kNumWordBits
  BY <1>1, <1>2, ProgramFields DEF Scanning, PositionInv, InWord, TypeOK
<1>4. program.ops[(ip - 1) + 1] = Op /\ Op.op = "Scan"
  BY <1>2, <1>3 DEF Op, Scanning
<1>5. /\ Op.bv \in 1..program.vectors /\ Op.bit_opt \in {"kSet", "kAnd", "kOr"}
      /\ DOMAIN bvblock = 1..program.vectors /\ DOMAIN bvblock' = DOMAIN bvblock
      /\ bv_word_id \in WordIds(num_tuples)
      /\ bvblock[Op.bv] \in [WordIds(num_tuples) -> SUBSET WordBits]
  BY <1>1, <1>2, <1>3, ScanFields, WordsOfBlock DEF TypeOK
<1> DEFINE Written(x) ==
             IF x \div kNumWordBits = bv_word_id
             THEN CASE Op.bit_opt = "kSet" -> Satisfies(Op, x)
                    [] Op.bit_opt = "kAnd" -> GetBit(bvblock[Op.bv], x) /\ Satisfies(Op, x)
                    [] Op.bit_opt = "kOr" -> GetBit(bvblock[Op.bv], x) \/ Satisfies(Op, x)
             ELSE GetBit(bvblock[Op.bv], x)
<1>6. ASSUME NEW x \in TupleIds
      PROVE  GetBit(bvblock'[Op.bv], x) <=> Written(x)
  <2> DEFINE w == x \div kNumWordBits
             b == x % kNumWordBits
  <2>1. /\ w \in WordIds(num_tuples) /\ b \in WordBits /\ x = w * kNumWordBits + b
    BY <1>3, PositionOfTuple DEF TupleIds
  <2>2. /\ GetBit(bvblock[Op.bv], x) <=> b \in bvblock[Op.bv][w]
        /\ GetBit(bvblock'[Op.bv], x) <=> b \in bvblock'[Op.bv][w]
    BY DEF GetBit
  <2>3. CASE w = bv_word_id
    <3>1. bvblock'[Op.bv][w] = JoinWord(Op.bit_opt, bitvector_word, bvblock[Op.bv][w])
      BY <1>1, <1>5, <2>3
    <3>2. x = WordPosition(b) /\ b < i
      BY <1>3, <2>1, <2>3, Sizes DEF WordPosition, WordBits
    <3>3. Wanted(x) => (b \in bitvector_word <=> Satisfies(Op, x))
      BY <1>1, <1>2, <2>1, <3>2 DEF CollectsVerdicts, InWord
    <3> HIDE DEF w, b
    <3>4. Written(x) <=>
            CASE Op.bit_opt = "kSet" -> Satisfies(Op, x)
              [] Op.bit_opt = "kAnd" -> GetBit(bvblock[Op.bv], x) /\ Satisfies(Op, x)
              [] Op.bit_opt = "kOr" -> GetBit(bvblock[Op.bv], x) \/ Satisfies(Op, x)
      BY <2>3 DEF w
    <3>5. CASE Op.bit_opt = "kSet"
      <4>1. Wanted(x)
        BY <3>5 DEF Wanted
      <4> QED BY <2>2, <3>1, <3>3, <3>4, <3>5, <4>1 DEF JoinWord
    <3>6. CASE Op.bit_opt = "kAnd"
      <4>1. Wanted(x) <=> GetBit(bvblock[Op.bv], x)
        BY <3>6 DEF Wanted
      <4> QED BY <2>2, <3>1, <3>3, <3>4, <3>6, <4>1 DEF JoinWord
    <3>7. CASE Op.bit_opt = "kOr"
      <4>1. Wanted(x) <=> ~GetBit(bvblock[Op.bv], x)
        BY <3>7 DEF Wanted
      <4> QED BY <2>2, <3>1, <3>3, <3>4, <3>7, <4>1 DEF JoinWord
    <3> QED BY <1>5, <3>5, <3>6, <3>7
  <2>4. CASE w # bv_word_id
    <3>1. bvblock'[Op.bv][w] = bvblock[Op.bv][w]
      BY <1>1, <1>5, <2>1, <2>4
    <3> QED BY <2>2, <2>4, <3>1
  <2> QED BY <2>3, <2>4
<1>7. \A v \in DOMAIN bvblock : v # Op.bv => bvblock'[v] = bvblock[v]
  BY <1>1, <1>5
<1>8. Qualifying[ip] = {x \in TupleIds : Satisfies(Op, x)}
  BY <1>3, <1>4 DEF Qualifying, Op
<1>9. TupleBits' =
        [TupleBits EXCEPT ![Op.bv] =
           {x \in TupleIds :
              IF x \div kNumWordBits = bv_word_id
              THEN CASE Op.bit_opt = "kSet" -> x \in Qualifying[ip]
                     [] Op.bit_opt = "kAnd" -> x \in @ /\ x \in Qualifying[ip]
                     [] Op.bit_opt = "kOr" -> x \in @ \/ x \in Qualifying[ip]
              ELSE x \in @}]
  <2> DEFINE old == TupleBits[Op.bv]
             new == {x \in TupleIds :
                       IF x \div kNumWordBits = bv_word_id
                       THEN CASE Op.bit_opt = "kSet" -> x \in Qualifying[ip]
                              [] Op.bit_opt = "kAnd" -> x \in old /\ x \in Qualifying[ip]
                              [] Op.bit_opt = "kOr" -> x \in old \/ x \in Qualifying[ip]
                       ELSE x \in old}
  <2>1. TupleIds' = TupleIds
    BY <1>1, PromisedInput
  <2>2. old = {x \in TupleIds : GetBit(bvblock[Op.bv], x)}
    BY <1>5 DEF TupleBits
  <2>3. ASSUME NEW x \in TupleIds
        PROVE  Written(x) <=> x \in new
    <3>1. x \in old <=> GetBit(bvblock[Op.bv], x)
      BY <2>2
    <3>2. x \in Qualifying[ip] <=> Satisfies(Op, x)
      BY <1>8
    <3> HIDE DEF old
    <3> QED BY <1>5, <3>1, <3>2
  <2> HIDE DEF old
  <2>4. {x \in TupleIds : GetBit(bvblock'[Op.bv], x)} = new
    <3> HIDE DEF Written
    <3>1. \A x \in new : x \in TupleIds
      OBVIOUS
    <3> HIDE DEF new
    <3> QED BY <1>6, <2>3, <3>1
  <2> HIDE DEF new, Written
  <2>5. TupleBits' = [v \in DOMAIN bvblock |-> {x \in TupleIds : GetBit(bvblock'[v], x)}]
    BY <1>5, <2>1 DEF TupleBits
  <2>6. TupleBits' = [TupleBits EXCEPT ![Op.bv] = new]
    BY <1>5, <1>7, <2>4, <2>5 DEF TupleBits
  <2> QED BY <2>6 DEF new, old
<1>10. WordsWritten = bv_word_id /\ WordsWritten' = WordsWritten + 1
  BY <1>1 DEF WordsWritten
<1> QED BY <1>1, <1>3, <1>4, <1>9, <1>10, PromisedInput
        DEF Promised!WriteWord, Promised!Current, Promised!InWord, Promised!Joined,
            TupleBits, Qualifying, WordsWritten, TupleIds

(* The step that ends a scan is the promised scan.                         *)
LEMMA PromisedEnd ==
  ASSUME Inv, EndScan
  PROVE  Promised!EndScan
<1>1. /\ UNCHANGED input /\ pc = "tail" /\ pc' = "next" /\ ip' = ip + 1
      /\ bvblock' = [bvblock EXCEPT ![Op.bv] =
                       IF Op.clears THEN ClearTail(@, num_tuples) ELSE @]
  BY DEF EndScan
<1>2. Scanning /\ TypeOK /\ bv_word_id * kNumWordBits >= num_tuples
  BY <1>1 DEF Inv, TypeOK, PositionInv, Scanning
<1>3. /\ Op.bv \in 1..program.vectors /\ num_tuples \in Nat \ {0}
      /\ bvblock[Op.bv] \in [WordIds(num_tuples) -> SUBSET WordBits]
      /\ DOMAIN bvblock = 1..program.vectors
  BY <1>2, ScanFields, ProgramFields DEF TypeOK
<1>4. /\ ip \in 1..Len(program.ops) /\ Len(program.ops) \in Nat
      /\ (ip - 1) + 1 = ip /\ ip - 1 < Len(program.ops) /\ ip' - 1 = (ip - 1) + 1
  BY <1>1, <1>2, ProgramFields DEF Scanning
<1>5. \A x \in TupleIds : GetBit(ClearTail(bvblock[Op.bv], num_tuples), x)
                            <=> GetBit(bvblock[Op.bv], x)
  BY <1>3, ClearedBits DEF TupleIds
<1>6. TupleBits' = TupleBits
  <2>1. DOMAIN bvblock' = DOMAIN bvblock /\ TupleIds' = TupleIds
    BY <1>1, PromisedInput
  <2>2. \A v \in DOMAIN bvblock : \A x \in TupleIds :
          GetBit(bvblock'[v], x) <=> GetBit(bvblock[v], x)
    BY <1>1, <1>5
  <2>3. TupleBits' = [v \in DOMAIN bvblock |-> {x \in TupleIds : GetBit(bvblock'[v], x)}]
    BY <2>1 DEF TupleBits
  <2>4. \A v \in DOMAIN bvblock : {x \in TupleIds : GetBit(bvblock'[v], x)}
                                    = {x \in TupleIds : GetBit(bvblock[v], x)}
    BY <2>2
  <2> QED BY <2>3, <2>4 DEF TupleBits
<1>7. program.ops[(ip - 1) + 1].op = "Scan"
  BY <1>2, <1>4 DEF Scanning, Op
<1>8. WordsWritten = bv_word_id /\ WordsWritten' = 0
  BY <1>1 DEF WordsWritten
<1> QED BY <1>1, <1>2, <1>4, <1>6, <1>7, <1>8, PromisedInput
        DEF Promised!EndScan, Promised!Current, TupleBits, Qualifying, WordsWritten

(* A combination is the promised combination.                              *)
LEMMA PromisedCombine ==
  ASSUME Inv, CombineBlocks
  PROVE  Promised!Combine
<1> DEFINE left == bvblock[Op.bv]
           right == bvblock[Op.other]
           joined == IF Op.op = "And" THEN [w \in DOMAIN left |-> left[w] \cap right[w]]
                                      ELSE [w \in DOMAIN left |-> left[w] \cup right[w]]
           cleared == ClearTail(joined, num_tuples)
<1>1. /\ UNCHANGED input /\ pc = "next" /\ pc' = "next" /\ ip' = ip + 1
      /\ ip <= Len(program.ops) /\ Op.op \in {"And", "Or"}
      /\ bvblock' = [bvblock EXCEPT ![Op.bv] = cleared]
  BY DEF CombineBlocks, AndBlock, OrBlock
<1>2. TypeOK
  BY DEF Inv
<1>3. /\ ip \in 1..Len(program.ops) /\ num_tuples \in Nat \ {0} /\ Len(program.ops) \in Nat
      /\ (ip - 1) + 1 = ip /\ ip - 1 < Len(program.ops) /\ ip' - 1 = (ip - 1) + 1
  BY <1>1, <1>2, ProgramFields DEF TypeOK
<1>4. Op.bv \in 1..program.vectors /\ Op.other \in 1..program.vectors
  <2>1. IsOperation(program, Op)
    BY <1>2, <1>3, ProgramFields DEF Op
  <2> QED BY <1>1, <2>1 DEF IsOperation
<1>5. /\ left \in [WordIds(num_tuples) -> SUBSET WordBits]
      /\ right \in [WordIds(num_tuples) -> SUBSET WordBits]
      /\ joined \in [WordIds(num_tuples) -> SUBSET WordBits]
      /\ DOMAIN bvblock = 1..program.vectors
  BY <1>2, <1>4 DEF TypeOK
<1>6. ASSUME NEW x \in TupleIds
      PROVE  GetBit(cleared, x) <=> IF Op.op = "And" THEN GetBit(left, x) /\ GetBit(right, x)
                                                     ELSE GetBit(left, x) \/ GetBit(right, x)
  <2>1. x \div kNumWordBits \in WordIds(num_tuples)
    BY <1>3, PositionOfTuple DEF TupleIds
  <2>2. GetBit(joined, x) <=> IF Op.op = "And" THEN GetBit(left, x) /\ GetBit(right, x)
                                               ELSE GetBit(left, x) \/ GetBit(right, x)
    BY <1>5, <2>1 DEF GetBit
  <2> HIDE DEF joined
  <2>3. GetBit(cleared, x) <=> GetBit(joined, x)
    BY <1>3, <1>5, ClearedBits DEF TupleIds
  <2> QED BY <2>2, <2>3
<1> HIDE DEF cleared, joined
<1>7. TupleBits' = [TupleBits EXCEPT ![Op.bv] =
                      IF Op.op = "And" THEN @ \cap TupleBits[Op.other]
                                       ELSE @ \cup TupleBits[Op.other]]
  <2> DEFINE new == IF Op.op = "And" THEN TupleBits[Op.bv] \cap TupleBits[Op.other]
                                     ELSE TupleBits[Op.bv] \cup TupleBits[Op.other]
  <2>1. /\ TupleBits[Op.bv] = {x \in TupleIds : GetBit(left, x)}
        /\ TupleBits[Op.other] = {x \in TupleIds : GetBit(right, x)}
    BY <1>4, <1>5 DEF TupleBits
  <2>2. {x \in TupleIds : GetBit(cleared, x)} = new
    BY <1>1, <1>6, <2>1
  <2> HIDE DEF new
  <2>3. DOMAIN bvblock' = DOMAIN bvblock /\ TupleIds' = TupleIds
    BY <1>1, PromisedInput
  <2>4. TupleBits' = [v \in DOMAIN bvblock |-> {x \in TupleIds : GetBit(bvblock'[v], x)}]
    BY <2>3 DEF TupleBits
  <2>5. bvblock'[Op.bv] = cleared /\ \A v \in DOMAIN bvblock : v # Op.bv => bvblock'[v] = bvblock[v]
    BY <1>1, <1>4, <1>5
  <2>6. TupleBits' = [TupleBits EXCEPT ![Op.bv] = new]
    BY <1>4, <1>5, <2>2, <2>4, <2>5 DEF TupleBits
  <2> QED BY <2>6 DEF new
<1>8. program.ops[(ip - 1) + 1] = Op
  BY <1>3 DEF Op
<1>9. WordsWritten' = WordsWritten
  BY <1>1 DEF WordsWritten
<1> QED BY <1>1, <1>3, <1>7, <1>8, <1>9, PromisedInput
        DEF Promised!Combine, Promised!Current, TupleBits, Qualifying, WordsWritten

(***************************************************************************)
(* Every scan joins its comparison's verdict on the codes into the bits of *)
(* its block, a word at a time, and touches no other bit.                  *)
(***************************************************************************)
THEOREM ScansKeepTheirPromise == Spec => ImplementsWordwiseScan
<1>1. Init => Promised!Init
  BY PromisedInit
<1>2. Inv /\ [Next]_vars => [Promised!WriteWord \/ Promised!EndScan \/ Promised!Combine]_Promised!vars
  <2> SUFFICES ASSUME Inv, [Next]_vars
               PROVE  [Promised!WriteWord \/ Promised!EndScan \/ Promised!Combine]_Promised!vars
    OBVIOUS
  <2>1. CASE StartScan
    BY <2>1, PromisedStutter DEF StartScan, WordsWritten
  <2>2. CASE StartChunk
    <3>1. pc = "chunk" /\ pc' \in {"slice", "result"}
      BY <2>2 DEF StartChunk
    <3> QED BY <2>2, <3>1, PromisedStutter DEF StartChunk, WordsWritten
  <2>3. CASE ScanSlice
    <3>1. pc = "slice" /\ pc' \in {"slice", "result"}
      BY <2>3 DEF ScanSlice
    <3> QED BY <2>3, <3>1, PromisedStutter DEF ScanSlice, WordsWritten
  <2>4. CASE MoveMask
    <3>1. pc = "result" /\ pc' \in {"chunk", "word"}
      BY <2>4 DEF MoveMask
    <3> QED BY <2>4, <3>1, PromisedStutter DEF MoveMask, WordsWritten
  <2>5. CASE StoreWord
    BY <2>5, PromisedWord
  <2>6. CASE EndScan
    BY <2>6, PromisedEnd
  <2>7. CASE CombineBlocks
    BY <2>7, PromisedCombine
  <2>8. CASE UNCHANGED vars
    BY <2>8, PromisedStutter DEF vars, WordsWritten
  <2> QED BY <2>1, <2>2, <2>3, <2>4, <2>5, <2>6, <2>7, <2>8 DEF Next
<1> QED BY <1>1, <1>2, InvCorrect, PTL DEF Spec, ImplementsWordwiseScan, Promised!Spec

----------------------------------------------------------------------------
(***************************************************************************)
(* A history of a tuple x: the vectors in which its bit is set at first    *)
(* and after each operation.  It exists in every reachable state, because  *)
(* an operation reads no bit but those of x.                               *)
(***************************************************************************)
Vectors == 1..program.vectors

Held(x) == {v \in Vectors : GetBit(bvblock[v], x)}

Leaves(op, x, before, after) ==
  /\ \A v : v # op.bv => (v \in after <=> v \in before)
  /\ op.op = "Scan" =>
       (op.bv \in after <=> Promised!Joined(op.bit_opt, op.bv \in before, Satisfies(op, x)))
  /\ op.op = "And" => (op.bv \in after <=> op.bv \in before /\ op.other \in before)
  /\ op.op = "Or" => (op.bv \in after <=> op.bv \in before \/ op.other \in before)

Ran(h, x, n) == \A j \in 1..n : Leaves(program.ops[j], x, h[j - 1], h[j])

Histories == [0..Len(program.ops) -> SUBSET Vectors]

IsPast(h, x) ==
  /\ Ran(h, x, ip - 1)
  /\ IF x \div kNumWordBits < WordsWritten THEN Leaves(Op, x, h[ip - 1], Held(x))
                                           ELSE Held(x) = h[ip - 1]

HistoryInv == \A x \in TupleIds : \E h \in Histories : IsPast(h, x)

(* The bits of a tuple are those the refinement shows.                     *)
LEMMA HeldBits ==
  ASSUME Inv
  PROVE  /\ \A v \in Vectors : TupleBits[v] = {x \in TupleIds : GetBit(bvblock[v], x)}
         /\ \A x \in TupleIds : \A v : v \in Held(x) <=> v \in Vectors /\ x \in TupleBits[v]
<1>1. DOMAIN bvblock = Vectors
  BY DEF Inv, TypeOK, Vectors
<1>2. \A v \in Vectors : TupleBits[v] = {x \in TupleIds : GetBit(bvblock[v], x)}
  BY <1>1 DEF TupleBits
<1> QED BY <1>2 DEF Held

(* What does not change the input does not change what operations mean.    *)
LEMMA SameMeaning ==
  ASSUME UNCHANGED input
  PROVE  /\ Vectors' = Vectors /\ Histories' = Histories /\ TupleIds' = TupleIds
         /\ \A op, x, before, after :
              Leaves(op, x, before, after)' <=> Leaves(op, x, before, after)
         /\ \A h, x, n : Ran(h, x, n)' <=> Ran(h, x, n)
<1>1. program' = program /\ TupleIds' = TupleIds
  BY PromisedInput
<1>2. Vectors' = Vectors /\ Histories' = Histories
  BY <1>1 DEF Vectors, Histories
<1>3. \A op, x : Satisfies(op, x)' = Satisfies(op, x)
  BY DEF input, Satisfies, RightCode
<1>4. \A op, x, before, after :
        Leaves(op, x, before, after)' <=> Leaves(op, x, before, after)
  BY <1>3 DEF Leaves
<1>5. \A h, x, n : Ran(h, x, n)' <=> Ran(h, x, n)
  BY <1>1, <1>4 DEF Ran
<1> QED BY <1>1, <1>2, <1>4, <1>5

(* A history goes on with the outcome of an operation that is complete.    *)
LEMMA HistoryGrows ==
  ASSUME NEW h \in Histories, NEW x \in TupleIds, NEW n \in 1..Len(program.ops),
         Len(program.ops) \in Nat,
         Ran(h, x, n - 1),
         NEW after \in SUBSET Vectors, Leaves(program.ops[n], x, h[n - 1], after)
  PROVE  \E g \in Histories : Ran(g, x, n) /\ g[n] = after
<1> DEFINE g == [h EXCEPT ![n] = after]
<1>1. g \in Histories /\ g[n] = after /\ \A j \in 0..(n - 1) : g[j] = h[j]
  BY DEF Histories
<1> HIDE DEF g
<1>2. ASSUME NEW j \in 1..n
      PROVE  Leaves(program.ops[j], x, g[j - 1], g[j])
  <2>1. CASE j = n
    BY <1>1, <2>1
  <2>2. CASE j # n
    <3>1. j \in 1..(n - 1) /\ j \in 0..(n - 1) /\ j - 1 \in 0..(n - 1)
      BY <2>2
    <3> QED BY <1>1, <3>1 DEF Ran
  <2> QED BY <2>1, <2>2
<1>3. Ran(g, x, n)
  BY <1>2 DEF Ran
<1> QED BY <1>1, <1>3

(* Before the first operation a tuple has the bits the memory held.        *)
LEMMA HistoryInit ==
  ASSUME Init, Inv
  PROVE  HistoryInv
<1> SUFFICES ASSUME NEW x \in TupleIds
             PROVE  \E h \in Histories : IsPast(h, x)
  BY DEF HistoryInv
<1>1. ip = 1 /\ pc = "next" /\ WordsWritten = 0 /\ Len(program.ops) \in Nat
      /\ num_tuples \in Nat \ {0}
  BY ProgramFields DEF Init, Inv, WordsWritten
<1> DEFINE h == [j \in 0..Len(program.ops) |-> Held(x)]
<1>2. h \in Histories /\ h[ip - 1] = Held(x)
  BY <1>1 DEF Held, Histories
<1> HIDE DEF h
<1>3. ~(x \div kNumWordBits < WordsWritten)
  BY <1>1, Sizes DEF TupleIds
<1>4. Ran(h, x, ip - 1)
  BY <1>1 DEF Ran
<1>5. IsPast(h, x)
  BY <1>2, <1>3, <1>4 DEF IsPast
<1> QED BY <1>2, <1>5

(* A step within a word leaves the bits alone.                             *)
LEMMA HistoryStutter ==
  ASSUME HistoryInv, UNCHANGED input, ip' = ip, bvblock' = bvblock,
         WordsWritten' = WordsWritten
  PROVE  HistoryInv'
<1>1. Op' = Op
  BY PromisedInput DEF Op
<1>2. \A x : Held(x)' = Held(x)
  BY SameMeaning DEF Held, GetBit
<1>3. \A h, x : IsPast(h, x)' <=> IsPast(h, x)
  BY <1>1, <1>2, SameMeaning DEF IsPast
<1> QED BY <1>3, SameMeaning DEF HistoryInv

(* A word that is stored has the outcome of the scan at its tuples.        *)
LEMMA HistoryWord ==
  ASSUME Inv, Inv', HistoryInv, StoreWord
  PROVE  HistoryInv'
<1>1. UNCHANGED input /\ ip' = ip /\ Op' = Op /\ pc = "word" /\ pc' # "next"
      /\ WordsWritten = bv_word_id /\ WordsWritten' = bv_word_id + 1
  BY PromisedInput DEF StoreWord, Op, WordsWritten
<1>2. Scanning /\ TypeOK /\ bv_word_id \in Nat /\ num_tuples \in Nat \ {0}
  BY <1>1, ProgramFields DEF Inv, TypeOK, PositionInv, Scanning
<1>3. /\ Op.bv \in Vectors /\ Op.op = "Scan" /\ ip \in 1..Len(program.ops) /\ (ip - 1) + 1 = ip
      /\ Op.bit_opt \in {"kSet", "kAnd", "kOr"} /\ DOMAIN program.ops = 1..Len(program.ops)
      /\ DOMAIN bvblock = Vectors
  BY <1>2, ScanFields, ProgramFields DEF Vectors, Scanning, TypeOK
<1>4. Promised!WriteWord
  BY PromisedWord
<1>5. Qualifying[ip] = {x \in TupleIds : Satisfies(Op, x)}
  BY <1>3 DEF Qualifying, Op
<1>6. TupleBits' = [TupleBits EXCEPT ![Op.bv] =
                      {x \in TupleIds :
                         IF x \div kNumWordBits = bv_word_id
                         THEN Promised!Joined(Op.bit_opt, x \in @, x \in Qualifying[ip])
                         ELSE x \in @}]
  BY <1>1, <1>3, <1>4
     DEF Promised!WriteWord, Promised!Current, Promised!InWord, Op,
         TupleBits, Qualifying, WordsWritten, TupleIds
<1>7. ASSUME NEW x \in TupleIds
      PROVE  /\ \A v : v # Op.bv => (v \in Held(x)' <=> v \in Held(x))
             /\ IF x \div kNumWordBits = bv_word_id
                THEN Op.bv \in Held(x)'
                       <=> Promised!Joined(Op.bit_opt, Op.bv \in Held(x), Satisfies(Op, x))
                ELSE Op.bv \in Held(x)' <=> Op.bv \in Held(x)
  <2>1. DOMAIN TupleBits = Vectors
    BY <1>3 DEF TupleBits
  <2>2. \A v : v \in Held(x) <=> v \in Vectors /\ x \in TupleBits[v]
    BY HeldBits
  <2>3. \A v : v \in Held(x)' <=> v \in Vectors /\ x \in TupleBits'[v]
    <3>1. DOMAIN bvblock' = Vectors /\ Vectors' = Vectors /\ TupleIds' = TupleIds
      BY <1>1, SameMeaning DEF Inv, TypeOK, Vectors
    <3>2. \A v \in Vectors : TupleBits'[v] = {y \in TupleIds : GetBit(bvblock'[v], y)}
      BY <3>1 DEF TupleBits
    <3> QED BY <3>1, <3>2 DEF Held, GetBit
  <2>4. x \in Qualifying[ip] <=> Satisfies(Op, x)
    BY <1>5
  <2>5. \A v \in Vectors : v # Op.bv => TupleBits'[v] = TupleBits[v]
    BY <1>3, <1>6, <2>1
  <2>6. x \in TupleBits'[Op.bv] <=>
          IF x \div kNumWordBits = bv_word_id
          THEN Promised!Joined(Op.bit_opt, x \in TupleBits[Op.bv], x \in Qualifying[ip])
          ELSE x \in TupleBits[Op.bv]
    BY <1>3, <1>6, <2>1
  <2> QED BY <1>3, <2>2, <2>3, <2>4, <2>5, <2>6 DEF Promised!Joined
<1>8. ASSUME NEW x \in TupleIds
      PROVE  \E h \in Histories : IsPast(h, x)'
  <2>1. PICK h \in Histories : IsPast(h, x)
    BY DEF HistoryInv
  <2>2. Ran(h, x, ip - 1)'
    BY <1>1, <2>1, SameMeaning DEF IsPast
  <2>3. x \div kNumWordBits \in Int
    BY <1>2, Sizes DEF TupleIds
  <2>4. CASE x \div kNumWordBits = bv_word_id
    <3>1. Held(x) = h[ip - 1]
      BY <1>1, <1>2, <2>1, <2>4 DEF IsPast
    <3>2. Leaves(Op, x, h[ip - 1], Held(x)')
      BY <1>3, <1>7, <2>4, <3>1 DEF Leaves
    <3> QED BY <1>1, <1>2, <2>2, <2>4, <3>2, SameMeaning DEF IsPast
  <2>5. CASE x \div kNumWordBits # bv_word_id
    <3>1. Held(x)' = Held(x)
      <4>1. \A v : v \in Held(x)' <=> v \in Held(x)
        BY <1>7, <2>5
      <4>2. Held(x) \subseteq Vectors /\ Held(x)' \subseteq Vectors
        BY <1>1, SameMeaning DEF Held
      <4> QED BY <4>1, <4>2
    <3>2. x \div kNumWordBits < WordsWritten' <=> x \div kNumWordBits < WordsWritten
      BY <1>1, <1>2, <2>3, <2>5
    <3> QED BY <1>1, <2>1, <2>2, <3>1, <3>2, SameMeaning DEF IsPast
  <2> QED BY <2>4, <2>5
<1> QED BY <1>1, <1>8, SameMeaning DEF HistoryInv

(* The end of a scan adds to the history.                                  *)
LEMMA HistoryEnd ==
  ASSUME Inv, Inv', HistoryInv, EndScan
  PROVE  HistoryInv'
<1>1. UNCHANGED input /\ program' = program /\ ip' = ip + 1 /\ pc' = "next" /\ pc = "tail"
      /\ WordsWritten = bv_word_id /\ WordsWritten' = 0
  BY PromisedInput DEF EndScan, WordsWritten
<1>2. /\ Scanning /\ TypeOK /\ bv_word_id \in Nat /\ num_tuples \in Nat \ {0}
      /\ bv_word_id * kNumWordBits >= num_tuples
  BY <1>1, ProgramFields DEF Inv, TypeOK, PositionInv, Scanning
<1>3. ip \in 1..Len(program.ops) /\ Len(program.ops) \in Nat
  BY <1>2, ProgramFields DEF Scanning
<1>4. ASSUME NEW x \in TupleIds
      PROVE  Held(x)' = Held(x) /\ x \div kNumWordBits < bv_word_id
             /\ ~(x \div kNumWordBits < WordsWritten')
  <2>1. TupleBits' = TupleBits
    BY PromisedEnd DEF Promised!EndScan, TupleBits
  <2>2. \A v : v \in Held(x) <=> v \in Vectors /\ x \in TupleBits[v]
    BY HeldBits
  <2>3. \A v : v \in Held(x)' <=> v \in Vectors /\ x \in TupleBits'[v]
    <3>1. DOMAIN bvblock' = Vectors /\ Vectors' = Vectors /\ TupleIds' = TupleIds
      BY <1>1, SameMeaning DEF Inv, TypeOK, Vectors
    <3>2. \A v \in Vectors : TupleBits'[v] = {y \in TupleIds : GetBit(bvblock'[v], y)}
      BY <3>1 DEF TupleBits
    <3> QED BY <3>1, <3>2 DEF Held, GetBit
  <2>4. Held(x)' = Held(x)
    <3>1. \A v : v \in Held(x)' <=> v \in Held(x)
      BY <2>1, <2>2, <2>3
    <3>2. Held(x) \subseteq Vectors /\ Held(x)' \subseteq Vectors
      BY <1>1, SameMeaning DEF Held
    <3> QED BY <3>1, <3>2
  <2>5. x \in Nat /\ x < num_tuples
    BY <1>2 DEF TupleIds
  <2>6. IsDivision(x, kNumWordBits, x \div kNumWordBits, x % kNumWordBits)
    BY <2>5, Sizes, Division
  <2>7. x \div kNumWordBits < bv_word_id /\ x \div kNumWordBits \in Nat
    <3> DEFINE q == x \div kNumWordBits
    <3>1. q \in Nat /\ q * kNumWordBits <= x
      BY <2>5, <2>6, Sizes DEF IsDivision
    <3> HIDE DEF q
    <3>2. q < bv_word_id
      BY <1>2, <2>5, <3>1, Sizes
    <3> QED BY <3>1, <3>2 DEF q
  <2> QED BY <1>1, <2>4, <2>7
<1>5. ASSUME NEW x \in TupleIds
      PROVE  \E h \in Histories : IsPast(h, x)'
  <2>1. PICK h \in Histories : IsPast(h, x)
    BY DEF HistoryInv
  <2>2. Ran(h, x, ip - 1) /\ Leaves(program.ops[ip], x, h[ip - 1], Held(x))
    BY <1>1, <1>4, <2>1 DEF IsPast, Op
  <2> DEFINE after == Held(x)
  <2>3. /\ Ran(h, x, ip - 1)
        /\ after \in SUBSET Vectors /\ Leaves(program.ops[ip], x, h[ip - 1], after)
    BY <2>2 DEF Held
  <2> HIDE DEF after
  <2>4. PICK g \in Histories : Ran(g, x, ip) /\ g[ip] = after
    BY <1>3, <2>3, HistoryGrows
  <2>5. ip' - 1 = ip
    BY <1>1, <1>3
  <2> QED BY <1>1, <1>4, <2>4, <2>5, SameMeaning DEF IsPast, after
<1> QED BY <1>1, <1>5, SameMeaning DEF HistoryInv

(* So does a combination of two blocks.                                    *)
LEMMA HistoryCombine ==
  ASSUME Inv, Inv', HistoryInv, CombineBlocks
  PROVE  HistoryInv'
<1>1. /\ UNCHANGED input /\ program' = program /\ ip' = ip + 1 /\ pc' = "next" /\ pc = "next"
      /\ ip <= Len(program.ops) /\ Op.op \in {"And", "Or"}
      /\ WordsWritten = 0 /\ WordsWritten' = 0
  BY PromisedInput DEF CombineBlocks, WordsWritten
<1>2. TypeOK /\ num_tuples \in Nat \ {0}
  BY ProgramFields DEF Inv
<1>3. ip \in 1..Len(program.ops) /\ Len(program.ops) \in Nat /\ (ip - 1) + 1 = ip
  BY <1>1, <1>2, ProgramFields DEF TypeOK
<1>4. Op.bv \in Vectors /\ Op.other \in Vectors /\ DOMAIN TupleBits = Vectors
  <2>1. IsOperation(program, Op)
    BY <1>2, <1>3, ProgramFields DEF Op
  <2> QED BY <1>1, <1>2, <2>1 DEF IsOperation, Vectors, TypeOK, TupleBits
<1>5. TupleBits' = [TupleBits EXCEPT ![Op.bv] =
                      IF Op.op = "And" THEN @ \cap TupleBits[Op.other]
                                       ELSE @ \cup TupleBits[Op.other]]
  BY <1>3, PromisedCombine DEF Promised!Combine, Promised!Current, TupleBits, Op
<1>6. ASSUME NEW x \in TupleIds
      PROVE  Leaves(Op, x, Held(x), Held(x)') /\ ~(x \div kNumWordBits < 0)
             /\ Held(x)' \in SUBSET Vectors
  <2>1. \A v : v \in Held(x) <=> v \in Vectors /\ x \in TupleBits[v]
    BY HeldBits
  <2>2. \A v : v \in Held(x)' <=> v \in Vectors /\ x \in TupleBits'[v]
    <3>1. DOMAIN bvblock' = Vectors /\ Vectors' = Vectors /\ TupleIds' = TupleIds
      BY <1>1, SameMeaning DEF Inv, TypeOK, Vectors
    <3>2. \A v \in Vectors : TupleBits'[v] = {y \in TupleIds : GetBit(bvblock'[v], y)}
      BY <3>1 DEF TupleBits
    <3> QED BY <3>1, <3>2 DEF Held, GetBit
  <2>3. \A v \in Vectors : v # Op.bv => TupleBits'[v] = TupleBits[v]
    BY <1>4, <1>5
  <2>4. TupleBits'[Op.bv] = IF Op.op = "And" THEN TupleBits[Op.bv] \cap TupleBits[Op.other]
                                             ELSE TupleBits[Op.bv] \cup TupleBits[Op.other]
    BY <1>4, <1>5
  <2>5. Leaves(Op, x, Held(x), Held(x)')
    BY <1>1, <1>4, <2>1, <2>2, <2>3, <2>4 DEF Leaves
  <2>6. x \div kNumWordBits \in Nat
    BY <1>2, Sizes DEF TupleIds
  <2>7. Held(x)' \in SUBSET Vectors
    BY <2>2
  <2> QED BY <2>5, <2>6, <2>7
<1>7. ASSUME NEW x \in TupleIds
      PROVE  \E h \in Histories : IsPast(h, x)'
  <2>1. PICK h \in Histories : IsPast(h, x)
    BY DEF HistoryInv
  <2>2. Ran(h, x, ip - 1) /\ Held(x) = h[ip - 1]
    BY <1>1, <1>6, <2>1 DEF IsPast
  <2>3. Leaves(program.ops[ip], x, h[ip - 1], Held(x)')
    BY <1>6, <2>2 DEF Op
  <2> DEFINE after == Held(x)'
  <2>4. after \in SUBSET Vectors
    BY <1>6
  <2> HIDE DEF after
  <2>5. PICK g \in Histories : Ran(g, x, ip) /\ g[ip] = after
    BY <1>3, <2>2, <2>3, <2>4, HistoryGrows DEF after
  <2>6. ip' - 1 = ip
    BY <1>1, <1>3
  <2> QED BY <1>1, <1>6, <2>5, <2>6, SameMeaning DEF IsPast, after
<1> QED BY <1>1, <1>7, SameMeaning DEF HistoryInv

(* In every reachable state every tuple has a history.                     *)
THEOREM HistoryCorrect == Spec => []HistoryInv
<1>1. Init /\ Inv => HistoryInv
  BY HistoryInit
<1>2. Inv /\ Inv' /\ HistoryInv /\ [Next]_vars => HistoryInv'
  <2> SUFFICES ASSUME Inv, Inv', HistoryInv, [Next]_vars
               PROVE  HistoryInv'
    OBVIOUS
  <2>1. CASE StartScan
    BY <2>1, HistoryStutter DEF StartScan, WordsWritten
  <2>2. CASE StartChunk
    <3>1. pc = "chunk" /\ pc' \in {"slice", "result"}
      BY <2>2 DEF StartChunk
    <3> QED BY <2>2, <3>1, HistoryStutter DEF StartChunk, WordsWritten
  <2>3. CASE ScanSlice
    <3>1. pc = "slice" /\ pc' \in {"slice", "result"}
      BY <2>3 DEF ScanSlice
    <3> QED BY <2>3, <3>1, HistoryStutter DEF ScanSlice, WordsWritten
  <2>4. CASE MoveMask
    <3>1. pc = "result" /\ pc' \in {"chunk", "word"}
      BY <2>4 DEF MoveMask
    <3> QED BY <2>4, <3>1, HistoryStutter DEF MoveMask, WordsWritten
  <2>5. CASE UNCHANGED vars
    BY <2>5, HistoryStutter DEF vars, WordsWritten
  <2> QED BY <2>1, <2>2, <2>3, <2>4, <2>5, HistoryWord, HistoryEnd, HistoryCombine DEF Next
<1> QED BY <1>1, <1>2, InvCorrect, PTL DEF Spec

----------------------------------------------------------------------------
(***************************************************************************)
(* The operations of a kernel's predicates.  A list of them that stands    *)
(* somewhere in the program takes the history from the entry before it to  *)
(* its end.                                                                *)
(***************************************************************************)
Runs(k) ==
  /\ program.width = k.width
  /\ k.n \in Nat
  /\ \A p \in 1..k.n : k.column[p] \in 1..Len(k.width)
  /\ \A p \in 1..k.n : k.right[p] = 0 => k.value[p] \in CodesOf(k.width[k.column[p]])

Operand(k, p, c) == IF k.right[p] = 0 THEN k.value[p] ELSE c[k.right[p]]

Meets(k, p, c) ==
  LET u == c[k.column[p]]
      v == Operand(k, p, c)
  IN CASE k.cmp[p] = "kEqual" -> u = v
       [] k.cmp[p] = "kInequal" -> u # v
       [] k.cmp[p] = "kLess" -> u < v
       [] k.cmp[p] = "kLessEqual" -> u <= v
       [] k.cmp[p] = "kGreater" -> u > v
       [] k.cmp[p] = "kGreaterEqual" -> u >= v

Takes(h, x, s, ops) == \A j \in 1..Len(ops) : Leaves(ops[j], x, h[s + j - 1], h[s + j])

(* A scan of the block compares as the predicate does.                     *)
LEMMA ScanMeets ==
  ASSUME TypeOK, NEW k, Runs(k), NEW p \in 1..k.n, NEW v, NEW bit_opt, NEW x
  PROVE  Satisfies(Scan(k, p, v, bit_opt), x) = Meets(k, p, codes[x])
<1> DEFINE op == Scan(k, p, v, bit_opt)
           width == program.width[op.column]
<1>1. /\ op.cmp = k.cmp[p] /\ op.column = k.column[p] /\ op.right = k.right[p]
      /\ op.value = k.value[p]
  BY DEF Scan
<1>2. RightCode(op, x) = Operand(k, p, codes[x])
  <2>1. CASE op.right = 0
    <3>1. op.column \in Columns /\ width \in 1..32
      BY <1>1, ProgramFields DEF Runs, Columns
    <3>2. k.value[p] \in CodesOf(width)
      BY <1>1, <2>1 DEF Runs
    <3>3. 2^width \in Nat \ {0} /\ kCodeMask(width) = 2^width - 1
      BY <3>1, Widths DEF kCodeMask
    <3> DEFINE n == 2^width
    <3> HIDE DEF n
    <3>4. n \in Nat \ {0} /\ kCodeMask(width) = n - 1 /\ k.value[p] \in 0..(n - 1)
      BY <3>2, <3>3 DEF n, CodesOf
    <3> HIDE DEF width
    <3>5. k.value[p] % n = k.value[p] /\ (n - 1) + 1 = n
      BY <3>4
    <3>6. RightCode(op, x) = k.value[p] % (kCodeMask(width) + 1)
      BY <1>1, <2>1 DEF RightCode, width
    <3> QED BY <1>1, <2>1, <3>4, <3>5, <3>6 DEF Operand
  <2>2. CASE op.right # 0
    BY <1>1, <2>2 DEF RightCode, Operand
  <2> QED BY <2>1, <2>2
<1> HIDE DEF op
<1> QED BY <1>1, <1>2 DEF Satisfies, Meets, op

(* What a scan makes of the history.                                       *)
LEMMA ScanLeaves ==
  ASSUME TypeOK, NEW k, Runs(k), NEW p \in 1..k.n, NEW v, NEW bit_opt, NEW x,
         NEW before, NEW after, Leaves(Scan(k, p, v, bit_opt), x, before, after)
  PROVE  /\ \A u : u # v => (u \in after <=> u \in before)
         /\ bit_opt = "kSet" => (v \in after <=> Meets(k, p, codes[x]))
         /\ bit_opt = "kAnd" => (v \in after <=> v \in before /\ Meets(k, p, codes[x]))
         /\ bit_opt = "kOr" => (v \in after <=> v \in before \/ Meets(k, p, codes[x]))
<1> DEFINE op == Scan(k, p, v, bit_opt)
<1>1. op.op = "Scan" /\ op.bv = v /\ op.bit_opt = bit_opt
  BY DEF Scan
<1>2. Satisfies(op, x) = Meets(k, p, codes[x])
  BY ScanMeets
<1>3. Leaves(op, x, before, after)
  OBVIOUS
<1> HIDE DEF op
<1> QED BY <1>1, <1>2, <1>3 DEF Leaves, Promised!Joined

(* What the combination of two blocks makes of it.                         *)
LEMMA CombinedLeaves ==
  ASSUME NEW v, NEW other, NEW x, NEW before, NEW after, NEW op \in {"And", "Or"},
         Leaves(Combined(op, v, other), x, before, after)
  PROVE  /\ \A u : u # v => (u \in after <=> u \in before)
         /\ op = "And" => (v \in after <=> v \in before /\ other \in before)
         /\ op = "Or" => (v \in after <=> v \in before \/ other \in before)
  BY DEF Combined, Leaves

(* A function on 1..n is a sequence of length n.                           *)
LEMMA ListOf ==
  ASSUME NEW n \in Nat, NEW S, NEW a \in [1..n -> S]
  PROVE  a \in Seq(S) /\ Len(a) = n
  BY SeqDef

(* The lists that two lists are joined of.                                 *)
LEMMA TakesBoth ==
  ASSUME NEW S, NEW a \in Seq(S), NEW b \in Seq(S), NEW h, NEW x, NEW s \in Nat,
         Takes(h, x, s, a \o b)
  PROVE  Takes(h, x, s, a) /\ Takes(h, x, s + Len(a), b)
<1>1. /\ Len(a \o b) = Len(a) + Len(b) /\ Len(a) \in Nat /\ Len(b) \in Nat
      /\ \A r \in 1..(Len(a) + Len(b)) :
           (a \o b)[r] = IF r <= Len(a) THEN a[r] ELSE b[r - Len(a)]
  BY ConcatProperties, LenProperties
<1> DEFINE c == a \o b
           o == Len(a)
           n == Len(b)
<1>2. \A j \in 1..(o + n) : Leaves(c[j], x, h[s + j - 1], h[s + j])
  BY <1>1 DEF Takes
<1>3. /\ o \in Nat /\ n \in Nat
      /\ \A r \in 1..(o + n) : c[r] = IF r <= o THEN a[r] ELSE b[r - o]
  BY <1>1
<1> HIDE DEF c, o, n
<1>4. ASSUME NEW j \in 1..o
      PROVE  Leaves(a[j], x, h[s + j - 1], h[s + j])
  <2>1. j \in 1..(o + n) /\ c[j] = a[j]
    BY <1>3
  <2> QED BY <1>2, <2>1
<1>5. ASSUME NEW j \in 1..n
      PROVE  Leaves(b[j], x, h[s + o + j - 1], h[s + o + j])
  <2>1. o + j \in 1..(o + n) /\ ~(o + j <= o) /\ (o + j) - o = j
        /\ s + (o + j) - 1 = s + o + j - 1 /\ s + (o + j) = s + o + j
    BY <1>3
  <2>2. c[o + j] = b[j]
    BY <1>3, <2>1
  <2>3. Leaves(c[o + j], x, h[s + (o + j) - 1], h[s + (o + j)])
    BY <1>2, <2>1
  <2> QED BY <2>1, <2>2, <2>3
<1> QED BY <1>4, <1>5 DEF Takes, o, n

(* The order of some of a kernel's predicates.                             *)
IsOrder(k, order, n) ==
  n \in Nat /\ Len(order) = n /\ \A j \in 1..n : order[j] \in 1..k.n

Scans(k) == {Scan(k, p, v, b) : p \in 1..k.n, v \in 1..4, b \in {"kSet", "kAnd", "kOr"}}

Combinations == {Combined(o, v, u) : o \in {"And", "Or"}, v \in 1..4, u \in 1..4}

Ops(k) == Scans(k) \cup Combinations

(***************************************************************************)
(* What a list makes of the vectors that hold the bit of x, wherever it    *)
(* stands.                                                                 *)
(***************************************************************************)
Makes(ops, x, before, after) ==
  \E h, s : /\ s \in Nat /\ h[s] = before /\ h[s + Len(ops)] = after
           /\ Takes(h, x, s, ops)

(* Two lists, one after the other.                                         *)
LEMMA MakesBoth ==
  ASSUME NEW k, NEW a \in Seq(Ops(k)), NEW b \in Seq(Ops(k)), NEW x, NEW before, NEW after,
         Makes(a \o b, x, before, after)
  PROVE  \E middle : Makes(a, x, before, middle) /\ Makes(b, x, middle, after)
<1> DEFINE S == Ops(k)
<1>1. a \in Seq(S) /\ b \in Seq(S)
  OBVIOUS
<1> HIDE DEF S
<1>2. PICK h, s : /\ s \in Nat /\ h[s] = before /\ h[s + Len(a \o b)] = after
                  /\ Takes(h, x, s, a \o b)
  BY DEF Makes
<1>3. Takes(h, x, s, a) /\ Takes(h, x, s + Len(a), b)
  BY <1>1, <1>2, TakesBoth
<1>4. Len(a \o b) = Len(a) + Len(b) /\ Len(a) \in Nat /\ Len(b) \in Nat
  BY <1>1, ConcatProperties, LenProperties
<1>5. s + Len(a) \in Nat /\ (s + Len(a)) + Len(b) = s + Len(a \o b)
  BY <1>2, <1>4
<1>6. Makes(a, x, before, h[s + Len(a)])
  BY <1>2, <1>3 DEF Makes
<1>7. Makes(b, x, h[s + Len(a)], after)
  BY <1>2, <1>3, <1>5 DEF Makes
<1> QED BY <1>6, <1>7

(* Lists of one and of two operations.                                     *)
LEMMA MakesOne ==
  ASSUME NEW k, NEW a \in Ops(k), NEW x, NEW before, NEW after, Makes(<<a>>, x, before, after)
  PROVE  Leaves(a, x, before, after)
<1>1. PICK h, s : s \in Nat /\ h[s] = before /\ h[s + 1] = after /\ Takes(h, x, s, <<a>>)
  BY DEF Makes
<1>2. Leaves(a, x, h[s + 1 - 1], h[s + 1])
  BY <1>1 DEF Takes
<1>3. s + 1 - 1 = s
  BY <1>1
<1> QED BY <1>1, <1>2, <1>3

LEMMA MakesTwo ==
  ASSUME NEW k, NEW a \in Ops(k), NEW b \in Ops(k), NEW x, NEW before, NEW after,
         Makes(<<a, b>>, x, before, after)
  PROVE  \E middle : Leaves(a, x, before, middle) /\ Leaves(b, x, middle, after)
<1>1. PICK h, s : s \in Nat /\ h[s] = before /\ h[s + 2] = after /\ Takes(h, x, s, <<a, b>>)
  BY DEF Makes
<1>2. Leaves(a, x, h[s + 1 - 1], h[s + 1]) /\ Leaves(b, x, h[s + 2 - 1], h[s + 2])
  BY <1>1 DEF Takes
<1>3. s + 1 - 1 = s /\ s + 2 - 1 = s + 1
  BY <1>1
<1> QED BY <1>1, <1>2, <1>3

(* n entries of a history from s on: v is and-ed with what is met.         *)
Ands(h, s, n, v, met) ==
  \A j \in 1..n : /\ v \in h[s + j] <=> v \in h[s + j - 1] /\ j \in met
                  /\ \A u : u # v => (u \in h[s + j] <=> u \in h[s + j - 1])

(* Then v is kept where all is met.  By the shortest prefix that differs.  *)
LEMMA Anded ==
  ASSUME NEW h, NEW s \in Nat, NEW n \in Nat, NEW v, NEW met, Ands(h, s, n, v, met)
  PROVE  /\ v \in h[s + n] <=> v \in h[s] /\ \A j \in 1..n : j \in met
         /\ \A u : u # v => (u \in h[s + n] <=> u \in h[s])
<1> DEFINE Good(k) == /\ v \in h[s + k] <=> v \in h[s] /\ \A j \in 1..k : j \in met
                      /\ \A u : u # v => (u \in h[s + k] <=> u \in h[s])
           Bad == {k \in 0..n : ~Good(k)}
<1>1. Good(0)
  BY DEF Good
<1>2. ASSUME NEW k \in 1..n, Good(k - 1)
      PROVE  Good(k)
  <2>1. s + (k - 1) = s + k - 1 /\ \A j \in 1..k : j = k \/ j \in 1..(k - 1)
    OBVIOUS
  <2>2. \A j \in 1..(k - 1) : j \in 1..k
    OBVIOUS
  <2> QED BY <1>2, <2>1, <2>2 DEF Ands
<1>3. Bad = {}
  <2> SUFFICES ASSUME Bad # {} PROVE FALSE
    OBVIOUS
  <2> HIDE DEF Good
  <2>1. PICK k \in Bad : \A o \in Bad : k <= o
    <3>1. Bad \subseteq Nat
      OBVIOUS
    <3> HIDE DEF Bad
    <3> QED BY <3>1, Smallest
  <2>2. k \in 1..n /\ k - 1 \in 0..n /\ ~(k <= k - 1)
    BY <1>1, <2>1
  <2>3. Good(k - 1)
    BY <2>1, <2>2
  <2> QED BY <1>2, <2>1, <2>2, <2>3
<1>4. Good(n)
  <2> HIDE DEF Good
  <2> QED BY <1>3
<1> QED BY <1>4

(* They are lists of operations, as long as the order.                     *)
LEMMA ListsOfScans ==
  ASSUME NEW k, NEW order, NEW n, IsOrder(k, order, n), NEW v \in 1..4
  PROVE  /\ AndScans(k, order, v) = [j \in 1..n |-> Scan(k, order[j], v, "kAnd")]
         /\ Conjunction(k, order, v) =
              [j \in 1..n |-> Scan(k, order[j], v, IF j = 1 THEN "kSet" ELSE "kAnd")]
         /\ AndScans(k, order, v) \in Seq(Ops(k)) /\ Len(AndScans(k, order, v)) = n
         /\ Conjunction(k, order, v) \in Seq(Ops(k)) /\ Len(Conjunction(k, order, v)) = n
<1>1. n \in Nat /\ Len(order) = n /\ \A j \in 1..n : order[j] \in 1..k.n
  BY DEF IsOrder
<1>2. /\ AndScans(k, order, v) = [j \in 1..n |-> Scan(k, order[j], v, "kAnd")]
      /\ Conjunction(k, order, v) =
           [j \in 1..n |-> Scan(k, order[j], v, IF j = 1 THEN "kSet" ELSE "kAnd")]
  BY <1>1 DEF AndScans, Conjunction
<1>3. \A j \in 1..n, b \in {"kSet", "kAnd"} : Scan(k, order[j], v, b) \in Ops(k)
  BY <1>1 DEF Ops, Scans
<1>4. AndScans(k, order, v) \in [1..n -> Ops(k)] /\ Conjunction(k, order, v) \in [1..n -> Ops(k)]
  BY <1>2, <1>3
<1> QED BY <1>1, <1>2, <1>4, ListOf

(* And-scans keep the tuples that meet all of their predicates.            *)
LEMMA AndScansLeave ==
  ASSUME TypeOK, NEW k, Runs(k), NEW order, NEW n, IsOrder(k, order, n), NEW v \in 1..4,
         NEW h, NEW x, NEW s \in Nat, Takes(h, x, s, AndScans(k, order, v))
  PROVE  /\ v \in h[s + n] <=> v \in h[s] /\ \A j \in 1..n : Meets(k, order[j], codes[x])
         /\ \A u : u # v => (u \in h[s + n] <=> u \in h[s])
<1> DEFINE a == AndScans(k, order, v)
           met == {j \in 1..n : Meets(k, order[j], codes[x])}
<1>1. n \in Nat /\ \A j \in 1..n : order[j] \in 1..k.n
  BY DEF IsOrder
<1>2. Len(a) = n /\ \A j \in 1..n : a[j] = Scan(k, order[j], v, "kAnd")
  BY ListsOfScans
<1>3. ASSUME NEW j \in 1..n
      PROVE  /\ v \in h[s + j] <=> v \in h[s + j - 1] /\ j \in met
             /\ \A u : u # v => (u \in h[s + j] <=> u \in h[s + j - 1])
  <2>1. Leaves(Scan(k, order[j], v, "kAnd"), x, h[s + j - 1], h[s + j])
    BY <1>2 DEF Takes
  <2> DEFINE before == h[s + j - 1]
             after == h[s + j]
             bit_opt == "kAnd"
             p == order[j]
  <2>2. p \in 1..k.n
    BY <1>1
  <2> HIDE DEF before, after, bit_opt, p
  <2>3. Leaves(Scan(k, p, v, bit_opt), x, before, after)
    BY <2>1 DEF before, after, bit_opt, p
  <2>4. /\ \A u : u # v => (u \in after <=> u \in before)
        /\ bit_opt = "kAnd" => (v \in after <=> v \in before /\ Meets(k, p, codes[x]))
    BY <2>2, <2>3, ScanLeaves
  <2> QED BY <2>4 DEF before, after, bit_opt, p
<1> HIDE DEF met
<1>4. Ands(h, s, n, v, met)
  BY <1>3 DEF Ands
<1>5. /\ v \in h[s + n] <=> v \in h[s] /\ \A j \in 1..n : j \in met
      /\ \A u : u # v => (u \in h[s + n] <=> u \in h[s])
  BY <1>1, <1>4, Anded
<1> QED BY <1>5 DEF met

(* A conjunction leaves the tuples that meet all of its predicates.        *)
LEMMA ConjunctionLeaves ==
  ASSUME TypeOK, NEW k, Runs(k), NEW order, NEW n, IsOrder(k, order, n), n # 0, NEW v \in 1..4,
         NEW h, NEW x, NEW s \in Nat, Takes(h, x, s, Conjunction(k, order, v))
  PROVE  /\ v \in h[s + n] <=> \A j \in 1..n : Meets(k, order[j], codes[x])
         /\ \A u : u # v => (u \in h[s + n] <=> u \in h[s])
<1> DEFINE a == Conjunction(k, order, v)
           opt(j) == IF j = 1 THEN "kSet" ELSE "kAnd"
           met == {j \in 1..(n - 1) : Meets(k, order[j + 1], codes[x])}
<1>1. n \in Nat \ {0} /\ \A j \in 1..n : order[j] \in 1..k.n
  BY DEF IsOrder
<1>2. Len(a) = n /\ \A j \in 1..n : a[j] = Scan(k, order[j], v, opt(j))
  BY ListsOfScans
<1>3. ASSUME NEW j \in 1..n
      PROVE  /\ j = 1 => (v \in h[s + j] <=> Meets(k, order[j], codes[x]))
             /\ j # 1 => (v \in h[s + j] <=>
                            v \in h[s + j - 1] /\ Meets(k, order[j], codes[x]))
             /\ \A u : u # v => (u \in h[s + j] <=> u \in h[s + j - 1])
  <2>1. Leaves(Scan(k, order[j], v, opt(j)), x, h[s + j - 1], h[s + j])
    BY <1>2 DEF Takes
  <2> DEFINE before == h[s + j - 1]
             after == h[s + j]
             bit_opt == opt(j)
             p == order[j]
  <2>2. p \in 1..k.n /\ (j = 1 => bit_opt = "kSet") /\ (j # 1 => bit_opt = "kAnd")
    BY <1>1
  <2> HIDE DEF before, after, bit_opt, p
  <2>3. Leaves(Scan(k, p, v, bit_opt), x, before, after)
    BY <2>1 DEF before, after, bit_opt, p
  <2>4. /\ \A u : u # v => (u \in after <=> u \in before)
        /\ bit_opt = "kSet" => (v \in after <=> Meets(k, p, codes[x]))
        /\ bit_opt = "kAnd" => (v \in after <=> v \in before /\ Meets(k, p, codes[x]))
    BY <2>2, <2>3, ScanLeaves
  <2> QED BY <2>2, <2>4 DEF before, after, p
<1> HIDE DEF met
<1>4. s + 1 \in Nat /\ n - 1 \in Nat /\ (s + 1) + (n - 1) = s + n /\ s + 1 - 1 = s /\ 1 \in 1..n
  BY <1>1
<1>5. /\ v \in h[s + n] <=> v \in h[s + 1] /\ \A j \in 1..(n - 1) : j \in met
      /\ \A u : u # v => (u \in h[s + n] <=> u \in h[s + 1])
  <2> DEFINE t == s + 1
             o == n - 1
  <2>1. ASSUME NEW j \in 1..o
        PROVE  /\ v \in h[t + j] <=> v \in h[t + j - 1] /\ j \in met
               /\ \A u : u # v => (u \in h[t + j] <=> u \in h[t + j - 1])
    <3>1. j + 1 \in 1..n /\ j + 1 # 1 /\ s + (j + 1) = t + j /\ s + (j + 1) - 1 = t + j - 1
      BY <1>1
    <3> QED BY <1>3, <3>1 DEF met
  <2>2. t \in Nat /\ o \in Nat /\ t + o = s + n
    BY <1>4
  <2> HIDE DEF t, o
  <2>3. Ands(h, t, o, v, met)
    BY <2>1 DEF Ands
  <2>4. /\ v \in h[t + o] <=> v \in h[t] /\ \A j \in 1..o : j \in met
        /\ \A u : u # v => (u \in h[t + o] <=> u \in h[t])
    BY <2>2, <2>3, Anded
  <2> QED BY <2>2, <2>4 DEF t, o
<1>6. /\ v \in h[s + 1] <=> Meets(k, order[1], codes[x])
      /\ \A u : u # v => (u \in h[s + 1] <=> u \in h[s])
  BY <1>3, <1>4
<1>7. (\A j \in 1..n : Meets(k, order[j], codes[x])) <=>
        Meets(k, order[1], codes[x]) /\ \A j \in 1..(n - 1) : j \in met
  <2>1. \A j \in 1..n : j = 1 \/ (j - 1 \in 1..(n - 1) /\ (j - 1) + 1 = j)
    BY <1>1
  <2>2. \A j \in 1..(n - 1) : j \in met <=> Meets(k, order[j + 1], codes[x])
    BY DEF met
  <2>3. \A j \in 1..(n - 1) : j + 1 \in 1..n
    BY <1>1
  <2> QED BY <1>4, <2>1, <2>2, <2>3
<1> QED BY <1>5, <1>6, <1>7

(* Both, as what they make of the vectors that hold the bit of x.          *)
LEMMA AndScansMake ==
  ASSUME TypeOK, NEW k, Runs(k), NEW order, NEW n, IsOrder(k, order, n), NEW v \in 1..4,
         NEW x, NEW before, NEW after, Makes(AndScans(k, order, v), x, before, after)
  PROVE  /\ v \in after <=> v \in before /\ \A j \in 1..n : Meets(k, order[j], codes[x])
         /\ \A u : u # v => (u \in after <=> u \in before)
<1>1. PICK h, s : /\ s \in Nat /\ h[s] = before /\ h[s + Len(AndScans(k, order, v))] = after
                  /\ Takes(h, x, s, AndScans(k, order, v))
  BY DEF Makes
<1>2. Len(AndScans(k, order, v)) = n
  BY ListsOfScans
<1>3. /\ v \in h[s + n] <=> v \in h[s] /\ \A j \in 1..n : Meets(k, order[j], codes[x])
      /\ \A u : u # v => (u \in h[s + n] <=> u \in h[s])
  BY <1>1, AndScansLeave
<1> QED BY <1>1, <1>2, <1>3

LEMMA ConjunctionMakes ==
  ASSUME TypeOK, NEW k, Runs(k), NEW order, NEW n, IsOrder(k, order, n), n # 0, NEW v \in 1..4,
         NEW x, NEW before, NEW after, Makes(Conjunction(k, order, v), x, before, after)
  PROVE  /\ v \in after <=> \A j \in 1..n : Meets(k, order[j], codes[x])
         /\ \A u : u # v => (u \in after <=> u \in before)
<1>1. PICK h, s : /\ s \in Nat /\ h[s] = before /\ h[s + Len(Conjunction(k, order, v))] = after
                  /\ Takes(h, x, s, Conjunction(k, order, v))
  BY DEF Makes
<1>2. Len(Conjunction(k, order, v)) = n
  BY ListsOfScans
<1>3. /\ v \in h[s + n] <=> \A j \in 1..n : Meets(k, order[j], codes[x])
      /\ \A u : u # v => (u \in h[s + n] <=> u \in h[s])
  BY <1>1, ConjunctionLeaves
<1> QED BY <1>1, <1>2, <1>3

----------------------------------------------------------------------------
(***************************************************************************)
(* The execution models that are one conjunction: the order in which the   *)
(* predicates are scanned does not matter, so long as none is left out.    *)
(***************************************************************************)
Covers(order, n) ==
  /\ Len(order) = n
  /\ \A j \in 1..n : order[j] \in 1..n
  /\ \A p \in 1..n : \E j \in 1..n : order[j] = p

(* The driver's expression is the conjunction of the predicates.           *)
IsConjunction(k) ==
  \A c : (\A p \in 1..k.n : Meets(k, p, c)) <=> Expected(k, c)

(* Literals of a program fit its columns.                                  *)
Fits(k) ==
  /\ k.n \in Nat \ {0}
  /\ \A p \in 1..k.n : k.column[p] \in 1..Len(k.width)
  /\ \A p \in 1..k.n : k.right[p] = 0 => k.value[p] \in CodesOf(k.width[k.column[p]])

(* A program answers if its operations leave in bit vector 1 the bits the  *)
(* driver expects, whatever was in the vectors.                            *)
Answers(p) ==
  program = p =>
    \A x, before, after :
      Makes(p.ops, x, before, after) => (1 \in after <=> Expected(p.kernel, codes[x]))

(* Every order of a conjunction's predicates gives its answer.             *)
LEMMA ConjunctionAnswers ==
  ASSUME TypeOK, NEW k, Fits(k), IsConjunction(k), NEW num, NEW order, Covers(order, k.n)
  PROVE  Answers(Program(k, num, 1, Conjunction(k, order, 1)))
<1> DEFINE p == Program(k, num, 1, Conjunction(k, order, 1))
<1>1. p.ops = Conjunction(k, order, 1) /\ p.kernel = k /\ p.width = k.width
  BY DEF Program
<1> HIDE DEF p
<1> SUFFICES ASSUME program = p, NEW x, NEW before, NEW after,
                    Makes(p.ops, x, before, after)
             PROVE  1 \in after <=> Expected(p.kernel, codes[x])
  BY DEF Answers, p
<1>2. Runs(k) /\ IsOrder(k, order, k.n) /\ k.n \in Nat /\ k.n # 0
  BY <1>1 DEF Runs, Fits, IsOrder, Covers
<1>3. 1 \in after <=> \A j \in 1..k.n : Meets(k, order[j], codes[x])
  <2> DEFINE v == 1
  <2>1. v \in 1..4 /\ Makes(Conjunction(k, order, v), x, before, after)
    BY <1>1
  <2> HIDE DEF v
  <2>2. v \in after <=> \A j \in 1..k.n : Meets(k, order[j], codes[x])
    BY <1>2, <2>1, ConjunctionMakes
  <2> QED BY <2>2 DEF v
<1>4. (\A j \in 1..k.n : Meets(k, order[j], codes[x])) <=> \A q \in 1..k.n : Meets(k, q, codes[x])
  BY <1>2 DEF Covers
<1> QED BY <1>1, <1>3, <1>4 DEF IsConjunction

(* What a comparison says, by its comparator.                              *)
LEMMA MeetsCases ==
  ASSUME NEW k, NEW p, NEW c
  PROVE  LET u == c[k.column[p]]
             v == Operand(k, p, c)
         IN /\ k.cmp[p] = "kEqual" => (Meets(k, p, c) <=> u = v)
            /\ k.cmp[p] = "kLess" => (Meets(k, p, c) <=> u < v)
            /\ k.cmp[p] = "kLessEqual" => (Meets(k, p, c) <=> u <= v)
            /\ k.cmp[p] = "kGreater" => (Meets(k, p, c) <=> u > v)
            /\ k.cmp[p] = "kGreaterEqual" => (Meets(k, p, c) <=> u >= v)
  BY DEF Meets

(* The queries but the tests are checked by real.                          *)
LEMMA ExpectedOfQuery ==
  ASSUME NEW k, NEW c, k.query \notin {"test", "test_c", "test_less"}
  PROVE  Expected(k, c) = real(k, c)
  BY DEF Expected

(* The codes of columns of 3, 8 and 12 bits.                               *)
LEMMA CodesOfQueries ==
  \A v : /\ v \in 0..7 => v \in CodesOf(3)
         /\ v \in 0..255 => v \in CodesOf(8)
         /\ v \in 0..4095 => v \in CodesOf(12)
<1>1. CodesOf(3) = 0..7 /\ CodesOf(8) = 0..255 /\ CodesOf(12) = 0..4095
  BY PowersOfTwo DEF CodesOf
<1> QED BY <1>1

(* Q1, Q14 and Q15: a date in a range.                                     *)
LEMMA DateRangeIsConjunction ==
  ASSUME NEW name, name \in {"Q1", "Q14", "Q15"},
         NEW low, NEW high, low \in CodesOf(12), high \in CodesOf(12)
  PROVE  LET k == DateRange(name, low, high) IN
         k.query = name /\ k.n = 2 /\ Fits(k) /\ IsConjunction(k)
<1> DEFINE k == DateRange(name, low, high)
<1>1. k.n = 2 /\ k.query = name /\ Len(k.width) = 1 /\ k.width[1] = 12
  BY DEF DateRange, Query
<1>2. /\ k.cmp[1] = "kGreater" /\ k.column[1] = 1 /\ k.right[1] = 0 /\ k.value[1] = low
      /\ k.cmp[2] = "kLess" /\ k.column[2] = 1 /\ k.right[2] = 0 /\ k.value[2] = high
  BY DEF DateRange, Query, Compare
<1> HIDE DEF k
<1>3. Fits(k)
  <2>1. \A p \in 1..k.n : p \in {1, 2}
    BY <1>1
  <2>2. k.value[1] \in CodesOf(k.width[1]) /\ k.value[2] \in CodesOf(k.width[1])
    BY <1>1, <1>2
  <2> QED BY <1>1, <1>2, <2>1, <2>2 DEF Fits
<1>4. ASSUME NEW c
      PROVE  (\A p \in 1..k.n : Meets(k, p, c)) <=> Expected(k, c)
  <2>1. Expected(k, c) <=> real_Q1(k, c)
    <3>1. real(k, c) <=> real_Q1(k, c)
      BY <1>1 DEF real
    <3> QED BY <1>1, <3>1, ExpectedOfQuery
  <2>2. /\ Operand(k, 1, c) = k.value[1] /\ Operand(k, 2, c) = k.value[2]
    BY <1>2 DEF Operand
  <2>3. /\ Meets(k, 1, c) <=> c[1] > k.value[1]
        /\ Meets(k, 2, c) <=> c[1] < k.value[2]
    BY <1>2, <2>2, MeetsCases
  <2>4. (\A p \in 1..k.n : Meets(k, p, c)) <=> Meets(k, 1, c) /\ Meets(k, 2, c)
    BY <1>1
  <2> QED BY <2>1, <2>3, <2>4 DEF real_Q1
<1> QED BY <1>1, <1>3, <1>4 DEF IsConjunction, k

(* Q3: a segment, and two dates.                                           *)
LEMMA Q3IsConjunction ==
  Q3.query = "Q3" /\ Q3.n = 3 /\ Fits(Q3) /\ IsConjunction(Q3)
<1> DEFINE k == Q3
<1>1. /\ k.n = 3 /\ k.query = "Q3" /\ Len(k.width) = 3
      /\ k.width[1] = 3 /\ k.width[2] = 12 /\ k.width[3] = 12
  BY DEF Q3, Query
<1>2. /\ k.cmp[1] = "kEqual" /\ k.column[1] = 1 /\ k.right[1] = 0
         /\ k.value[1] = 2
      /\ k.cmp[2] = "kLess" /\ k.column[2] = 2 /\ k.right[2] = 0
         /\ k.value[2] = 1923
      /\ k.cmp[3] = "kGreater" /\ k.column[3] = 3 /\ k.right[3] = 0
         /\ k.value[3] = 1953
  BY DEF Q3, Query, Compare
<1> HIDE DEF k
<1>3. Fits(k)
  <2>1. \A p \in 1..k.n : p \in {1, 2, 3}
    BY <1>1
  <2>2. /\ k.value[1] \in CodesOf(k.width[1])
        /\ k.value[2] \in CodesOf(k.width[2])
        /\ k.value[3] \in CodesOf(k.width[3])
    BY <1>1, <1>2, CodesOfQueries
  <2> QED BY <1>1, <1>2, <2>1, <2>2 DEF Fits
<1>4. ASSUME NEW c
      PROVE  (\A p \in 1..k.n : Meets(k, p, c)) <=> Expected(k, c)
  <2>1. Expected(k, c) <=> real_Q3(k, c)
    <3>1. real(k, c) <=> real_Q3(k, c)
      BY <1>1 DEF real
    <3> QED BY <1>1, <3>1, ExpectedOfQuery
  <2>2. /\ Operand(k, 1, c) = k.value[1]
        /\ Operand(k, 2, c) = k.value[2]
        /\ Operand(k, 3, c) = k.value[3]
    BY <1>2 DEF Operand
  <2>3. /\ Meets(k, 1, c) <=> c[1] = k.value[1]
        /\ Meets(k, 2, c) <=> c[2] < k.value[2]
        /\ Meets(k, 3, c) <=> c[3] > k.value[3]
    BY <1>2, <2>2, MeetsCases
  <2>4. (\A p \in 1..k.n : Meets(k, p, c)) <=> Meets(k, 1, c) /\ Meets(k, 2, c) /\ Meets(k, 3, c)
    BY <1>1
  <2> QED BY <2>1, <2>3, <2>4 DEF real_Q3
<1> QED BY <1>1, <1>3, <1>4 DEF IsConjunction, k

(* Q5 and Q10: a key and a date in a range.                                *)
LEMMA KeyAndDateRangeIsConjunction ==
  ASSUME NEW name, name \in {"Q5", "Q10"}, NEW key, key \in CodesOf(3),
         NEW low, NEW high, low \in CodesOf(12), high \in CodesOf(12)
  PROVE  LET k == KeyAndDateRange(name, key, low, high) IN
         k.query = name /\ k.n = 3 /\ Fits(k) /\ IsConjunction(k)
<1> DEFINE k == KeyAndDateRange(name, key, low, high)
<1>1. /\ k.n = 3 /\ k.query = name /\ Len(k.width) = 2
      /\ k.width[1] = 3 /\ k.width[2] = 12
  BY DEF KeyAndDateRange, Query
<1>2. /\ k.cmp[1] = "kEqual" /\ k.column[1] = 1 /\ k.right[1] = 0
         /\ k.value[1] = key
      /\ k.cmp[2] = "kGreaterEqual" /\ k.column[2] = 2 /\ k.right[2] = 0
         /\ k.value[2] = low
      /\ k.cmp[3] = "kLess" /\ k.column[3] = 2 /\ k.right[3] = 0
         /\ k.value[3] = high
  BY DEF KeyAndDateRange, Query, Compare
<1> HIDE DEF k
<1>3. Fits(k)
  <2>1. \A p \in 1..k.n : p \in {1, 2, 3}
    BY <1>1
  <2>2. /\ k.value[1] \in CodesOf(k.width[1])
        /\ k.value[2] \in CodesOf(k.width[2])
        /\ k.value[3] \in CodesOf(k.width[2])
    BY <1>1, <1>2, CodesOfQueries
  <2> QED BY <1>1, <1>2, <2>1, <2>2 DEF Fits
<1>4. ASSUME NEW c
      PROVE  (\A p \in 1..k.n : Meets(k, p, c)) <=> Expected(k, c)
  <2>1. Expected(k, c) <=> real_Q5(k, c)
    <3>1. real(k, c) <=> real_Q5(k, c)
      BY <1>1 DEF real
    <3> QED BY <1>1, <3>1, ExpectedOfQuery
  <2>2. /\ Operand(k, 1, c) = k.value[1]
        /\ Operand(k, 2, c) = k.value[2]
        /\ Operand(k, 3, c) = k.value[3]
    BY <1>2 DEF Operand
  <2>3. /\ Meets(k, 1, c) <=> c[1] = k.value[1]
        /\ Meets(k, 2, c) <=> c[2] >= k.value[2]
        /\ Meets(k, 3, c) <=> c[2] < k.value[3]
    BY <1>2, <2>2, MeetsCases
  <2>4. (\A p \in 1..k.n : Meets(k, p, c)) <=> Meets(k, 1, c) /\ Meets(k, 2, c) /\ Meets(k, 3, c)
    BY <1>1
  <2> QED BY <2>1, <2>3, <2>4 DEF real_Q5
<1> QED BY <1>1, <1>3, <1>4 DEF IsConjunction, k

(* Q6: a date and a discount in ranges, and a bounded quantity.            *)
LEMMA Q6IsConjunction ==
  Q6.query = "Q6" /\ Q6.n = 5 /\ Fits(Q6) /\ IsConjunction(Q6)
<1> DEFINE k == Q6
<1>1. /\ k.n = 5 /\ k.query = "Q6" /\ Len(k.width) = 3
      /\ k.width[1] = 12 /\ k.width[2] = 8 /\ k.width[3] = 8
  BY DEF Q6, Q6_predicates, Q6_result, Query
<1>2. /\ k.cmp[1] = "kGreaterEqual" /\ k.column[1] = 1 /\ k.right[1] = 0
         /\ k.value[1] = 1488
      /\ k.cmp[2] = "kLess" /\ k.column[2] = 1 /\ k.right[2] = 0
         /\ k.value[2] = 1860
      /\ k.cmp[3] = "kGreaterEqual" /\ k.column[3] = 2 /\ k.right[3] = 0
         /\ k.value[3] = 5
      /\ k.cmp[4] = "kLessEqual" /\ k.column[4] = 2 /\ k.right[4] = 0
         /\ k.value[4] = 7
      /\ k.cmp[5] = "kLess" /\ k.column[5] = 3 /\ k.right[5] = 0
         /\ k.value[5] = 24
  BY DEF Q6, Q6_predicates, Q6_result, Query, Compare
<1> HIDE DEF k
<1>3. Fits(k)
  <2>1. \A p \in 1..k.n : p \in {1, 2, 3, 4, 5}
    BY <1>1
  <2>2. /\ k.value[1] \in CodesOf(k.width[1])
        /\ k.value[2] \in CodesOf(k.width[1])
        /\ k.value[3] \in CodesOf(k.width[2])
        /\ k.value[4] \in CodesOf(k.width[2])
        /\ k.value[5] \in CodesOf(k.width[3])
    BY <1>1, <1>2, CodesOfQueries
  <2> QED BY <1>1, <1>2, <2>1, <2>2 DEF Fits
<1>4. ASSUME NEW c
      PROVE  (\A p \in 1..k.n : Meets(k, p, c)) <=> Expected(k, c)
  <2>1. Expected(k, c) <=> real_Q6(k, c)
    <3>1. real(k, c) <=> real_Q6(k, c)
      BY <1>1 DEF real
    <3> QED BY <1>1, <3>1, ExpectedOfQuery
  <2>2. /\ Operand(k, 1, c) = k.value[1]
        /\ Operand(k, 2, c) = k.value[2]
        /\ Operand(k, 3, c) = k.value[3]
        /\ Operand(k, 4, c) = k.value[4]
        /\ Operand(k, 5, c) = k.value[5]
    BY <1>2 DEF Operand
  <2>3. /\ Meets(k, 1, c) <=> c[1] >= k.value[1]
        /\ Meets(k, 2, c) <=> c[1] < k.value[2]
        /\ Meets(k, 3, c) <=> c[2] >= k.value[3]
        /\ Meets(k, 4, c) <=> c[2] <= k.value[4]
        /\ Meets(k, 5, c) <=> c[3] < k.value[5]
    BY <1>2, <2>2, MeetsCases
  <2>4. (\A p \in 1..k.n : Meets(k, p, c)) <=>
          Meets(k, 1, c) /\ Meets(k, 2, c) /\ Meets(k, 3, c) /\
          Meets(k, 4, c) /\ Meets(k, 5, c)
    BY <1>1
  <2> QED BY <2>1, <2>3, <2>4 DEF real_Q6
<1> QED BY <1>1, <1>3, <1>4 DEF IsConjunction, k

(* Q8: two keys, and a date in a range.                                    *)
LEMMA Q8IsConjunction ==
  Q8.query = "Q8" /\ Q8.n = 4 /\ Fits(Q8) /\ IsConjunction(Q8)
<1> DEFINE k == Q8
<1>1. /\ k.n = 4 /\ k.query = "Q8" /\ Len(k.width) = 3
      /\ k.width[1] = 8 /\ k.width[2] = 12 /\ k.width[3] = 8
  BY DEF Q8, Query
<1>2. /\ k.cmp[1] = "kEqual" /\ k.column[1] = 1 /\ k.right[1] = 0
         /\ k.value[1] = 2
      /\ k.cmp[2] = "kGreaterEqual" /\ k.column[2] = 2 /\ k.right[2] = 0
         /\ k.value[2] = 1861
      /\ k.cmp[3] = "kLessEqual" /\ k.column[3] = 2 /\ k.right[3] = 0
         /\ k.value[3] = 2604
      /\ k.cmp[4] = "kEqual" /\ k.column[4] = 3 /\ k.right[4] = 0
         /\ k.value[4] = 4
  BY DEF Q8, Query, Compare
<1> HIDE DEF k
<1>3. Fits(k)
  <2>1. \A p \in 1..k.n : p \in {1, 2, 3, 4}
    BY <1>1
  <2>2. /\ k.value[1] \in CodesOf(k.width[1])
        /\ k.value[2] \in CodesOf(k.width[2])
        /\ k.value[3] \in CodesOf(k.width[2])
        /\ k.value[4] \in CodesOf(k.width[3])
    BY <1>1, <1>2, CodesOfQueries
  <2> QED BY <1>1, <1>2, <2>1, <2>2 DEF Fits
<1>4. ASSUME NEW c
      PROVE  (\A p \in 1..k.n : Meets(k, p, c)) <=> Expected(k, c)
  <2>1. Expected(k, c) <=> real_Q8(k, c)
    <3>1. real(k, c) <=> real_Q8(k, c)
      BY <1>1 DEF real
    <3> QED BY <1>1, <3>1, ExpectedOfQuery
  <2>2. /\ Operand(k, 1, c) = k.value[1]
        /\ Operand(k, 2, c) = k.value[2]
        /\ Operand(k, 3, c) = k.value[3]
        /\ Operand(k, 4, c) = k.value[4]
    BY <1>2 DEF Operand
  <2>3. /\ Meets(k, 1, c) <=> c[1] = k.value[1]
        /\ Meets(k, 2, c) <=> c[2] >= k.value[2]
        /\ Meets(k, 3, c) <=> c[2] <= k.value[3]
        /\ Meets(k, 4, c) <=> c[3] = k.value[4]
    BY <1>2, <2>2, MeetsCases
  <2>4. (\A p \in 1..k.n : Meets(k, p, c)) <=>
          Meets(k, 1, c) /\ Meets(k, 2, c) /\ Meets(k, 3, c) /\
          Meets(k, 4, c)
    BY <1>1
  <2> QED BY <2>1, <2>3, <2>4 DEF real_Q8, Within
<1> QED BY <1>1, <1>3, <1>4 DEF IsConjunction, k

(* Q17: a brand and a container, and a bounded quantity.                   *)
LEMMA Q17IsConjunction ==
  Q17.query = "Q17" /\ Q17.n = 3 /\ Fits(Q17) /\ IsConjunction(Q17)
<1> DEFINE k == Q17
<1>1. /\ k.n = 3 /\ k.query = "Q17" /\ Len(k.width) = 3
      /\ k.width[1] = 8 /\ k.width[2] = 8 /\ k.width[3] = 8
  BY DEF Q17, OneByteQuery, Query
<1>2. /\ k.cmp[1] = "kEqual" /\ k.column[1] = 1 /\ k.right[1] = 0
         /\ k.value[1] = 8
      /\ k.cmp[2] = "kEqual" /\ k.column[2] = 2 /\ k.right[2] = 0
         /\ k.value[2] = 18
      /\ k.cmp[3] = "kLess" /\ k.column[3] = 3 /\ k.right[3] = 0
         /\ k.value[3] = 6
  BY DEF Q17, OneByteQuery, Query, Compare
<1> HIDE DEF k
<1>3. Fits(k)
  <2>1. \A p \in 1..k.n : p \in {1, 2, 3}
    BY <1>1
  <2>2. /\ k.value[1] \in CodesOf(k.width[1])
        /\ k.value[2] \in CodesOf(k.width[2])
        /\ k.value[3] \in CodesOf(k.width[3])
    BY <1>1, <1>2, CodesOfQueries
  <2> QED BY <1>1, <1>2, <2>1, <2>2 DEF Fits
<1>4. ASSUME NEW c
      PROVE  (\A p \in 1..k.n : Meets(k, p, c)) <=> Expected(k, c)
  <2>1. Expected(k, c) <=> real_Q17(k, c)
    <3>1. real(k, c) <=> real_Q17(k, c)
      BY <1>1 DEF real
    <3> QED BY <1>1, <3>1, ExpectedOfQuery
  <2>2. /\ Operand(k, 1, c) = k.value[1]
        /\ Operand(k, 2, c) = k.value[2]
        /\ Operand(k, 3, c) = k.value[3]
    BY <1>2 DEF Operand
  <2>3. /\ Meets(k, 1, c) <=> c[1] = k.value[1]
        /\ Meets(k, 2, c) <=> c[2] = k.value[2]
        /\ Meets(k, 3, c) <=> c[3] < k.value[3]
    BY <1>2, <2>2, MeetsCases
  <2>4. (\A p \in 1..k.n : Meets(k, p, c)) <=> Meets(k, 1, c) /\ Meets(k, 2, c) /\ Meets(k, 3, c)
    BY <1>1
  <2> QED BY <2>1, <2>3, <2>4 DEF real_Q17
<1> QED BY <1>1, <1>3, <1>4 DEF IsConjunction, k

(* All orders of two or of three predicates cover them.                    *)
LEMMA OrdersCover ==
  /\ \A order \in AllOrders(2) : Covers(order, 2)
  /\ \A order \in AllOrders(3) : Covers(order, 3)
<1>1. ASSUME NEW order \in AllOrders(2)
      PROVE  Covers(order, 2)
  <2>1. order \in [1..2 -> 1..2] /\ \A j, r \in 1..2 : j # r => order[j] # order[r]
    BY DEF AllOrders
  <2>2. Len(order) = 2
    BY <2>1, ListOf
  <2> QED BY <2>1, <2>2 DEF Covers
<1>2. ASSUME NEW order \in AllOrders(3)
      PROVE  Covers(order, 3)
  <2>1. order \in [1..3 -> 1..3] /\ \A j, r \in 1..3 : j # r => order[j] # order[r]
    BY DEF AllOrders
  <2>2. Len(order) = 3
    BY <2>1, ListOf
  <2>3. order[1] \in 1..3 /\ order[2] \in 1..3 /\ order[3] \in 1..3
        /\ order[1] # order[2] /\ order[1] # order[3] /\ order[2] # order[3]
    BY <2>1
  <2> QED BY <2>1, <2>2, <2>3 DEF Covers
<1> QED BY <1>1, <1>2

(* So do the orders of Q6.                                                 *)
LEMMA Q6OrdersCover ==
  \A order \in Orders["Q6"] : Covers(order, 5)
<1>1. Covers(<<1, 2, 3, 4, 5>>, 5)
  BY DEF Covers
<1>2. Covers(<<1, 2, 5, 3, 4>>, 5)
  BY DEF Covers
<1>3. Covers(<<3, 4, 1, 2, 5>>, 5)
  BY DEF Covers
<1>4. Covers(<<3, 4, 5, 1, 2>>, 5)
  BY DEF Covers
<1>5. Covers(<<5, 3, 4, 1, 2>>, 5)
  BY DEF Covers
<1>6. Covers(<<5, 1, 2, 3, 4>>, 5)
  BY DEF Covers
<1>7. Covers(<<2, 1, 3, 4, 5>>, 5)
  BY DEF Covers
<1>8. Covers(<<2, 1, 5, 3, 4>>, 5)
  BY DEF Covers
<1>9. Covers(<<4, 3, 1, 2, 5>>, 5)
  BY DEF Covers
<1>10. Covers(<<4, 3, 5, 1, 2>>, 5)
  BY DEF Covers
<1>11. Covers(<<5, 4, 3, 1, 2>>, 5)
  BY DEF Covers
<1>12. Covers(<<5, 2, 1, 3, 4>>, 5)
  BY DEF Covers
<1> QED BY <1>1, <1>2, <1>3, <1>4, <1>5, <1>6, <1>7, <1>8, <1>9, <1>10, <1>11, <1>12 DEF Orders

(* And those of Q8.                                                        *)
LEMMA Q8OrdersCover ==
  \A order \in Orders["Q8"] : Covers(order, 4)
<1>1. Covers(<<1, 2, 3, 4>>, 4)
  BY DEF Covers
<1>2. Covers(<<1, 4, 2, 3>>, 4)
  BY DEF Covers
<1>3. Covers(<<4, 1, 2, 3>>, 4)
  BY DEF Covers
<1>4. Covers(<<4, 2, 3, 1>>, 4)
  BY DEF Covers
<1>5. Covers(<<2, 3, 4, 1>>, 4)
  BY DEF Covers
<1>6. Covers(<<2, 3, 1, 4>>, 4)
  BY DEF Covers
<1>7. Covers(<<3, 2, 4, 1>>, 4)
  BY DEF Covers
<1>8. Covers(<<3, 2, 1, 4>>, 4)
  BY DEF Covers
<1> QED BY <1>1, <1>2, <1>3, <1>4, <1>5, <1>6, <1>7, <1>8 DEF Orders

ConjunctiveQueries == {Q1, Q14, Q15, Q3, Q5_byteslice, Q10, Q6, Q8, Q17}

(* Every execution model of a query that is a conjunction answers it.      *)
LEMMA ConjunctiveModelsAnswer ==
  ASSUME TypeOK, NEW k \in ConjunctiveQueries, NEW num, NEW p \in ConjunctiveModels(k, num)
  PROVE  Answers(p)
<1>1. PICK order \in Orders[k.query] : p = Program(k, num, 1, Conjunction(k, order, 1))
  BY DEF ConjunctiveModels
<1>2. /\ Orders["Q1"] = AllOrders(2) /\ Orders["Q14"] = AllOrders(2)
      /\ Orders["Q15"] = AllOrders(2) /\ Orders["Q3"] = AllOrders(3)
      /\ Orders["Q5"] = AllOrders(3) /\ Orders["Q10"] = AllOrders(3)
      /\ Orders["Q17"] = AllOrders(3)
  BY DEF Orders
<1>3. Fits(k) /\ IsConjunction(k) /\ Covers(order, k.n)
  <2>1. 3229 \in CodesOf(12) /\ 3319 \in CodesOf(12) /\ 2109 \in CodesOf(12) /\ 2140 \in CodesOf(12)
        /\ 2233 \in CodesOf(12) /\ 2326 \in CodesOf(12) /\ 1488 \in CodesOf(12) /\ 1860 \in CodesOf(12)
        /\ 1396 \in CodesOf(12) /\ 3 \in CodesOf(3)
    BY CodesOfQueries
  <2>2. CASE k = Q1
    <3>1. k.query = "Q1" /\ k.n = 2 /\ Fits(k) /\ IsConjunction(k)
      BY <2>1, <2>2, DateRangeIsConjunction DEF Q1
    <3> QED BY <1>1, <1>2, <3>1, OrdersCover
  <2>3. CASE k = Q14
    <3>1. k.query = "Q14" /\ k.n = 2 /\ Fits(k) /\ IsConjunction(k)
      BY <2>1, <2>3, DateRangeIsConjunction DEF Q14
    <3> QED BY <1>1, <1>2, <3>1, OrdersCover
  <2>4. CASE k = Q15
    <3>1. k.query = "Q15" /\ k.n = 2 /\ Fits(k) /\ IsConjunction(k)
      BY <2>1, <2>4, DateRangeIsConjunction DEF Q15
    <3> QED BY <1>1, <1>2, <3>1, OrdersCover
  <2>5. CASE k = Q3
    BY <1>1, <1>2, <2>5, Q3IsConjunction, OrdersCover
  <2>6. CASE k = Q5_byteslice
    <3>1. k.query = "Q5" /\ k.n = 3 /\ Fits(k) /\ IsConjunction(k)
      BY <2>1, <2>6, KeyAndDateRangeIsConjunction DEF Q5_byteslice
    <3> QED BY <1>1, <1>2, <3>1, OrdersCover
  <2>7. CASE k = Q10
    <3>1. k.query = "Q10" /\ k.n = 3 /\ Fits(k) /\ IsConjunction(k)
      BY <2>1, <2>7, KeyAndDateRangeIsConjunction DEF Q10
    <3> QED BY <1>1, <1>2, <3>1, OrdersCover
  <2>8. CASE k = Q6
    BY <1>1, <2>8, Q6IsConjunction, Q6OrdersCover
  <2>9. CASE k = Q8
    BY <1>1, <2>9, Q8IsConjunction, Q8OrdersCover
  <2>10. CASE k = Q17
    BY <1>1, <1>2, <2>10, Q17IsConjunction, OrdersCover
  <2> QED BY <2>2, <2>3, <2>4, <2>5, <2>6, <2>7, <2>8, <2>9, <2>10 DEF ConjunctiveQueries
<1> QED BY <1>1, <1>3, ConjunctionAnswers

(* The conjunction of a pair of predicates.                                *)
LEMMA PairMakes ==
  ASSUME TypeOK, NEW k, Runs(k), NEW p \in 1..k.n, NEW q \in 1..k.n, NEW v \in 1..4,
         NEW x, NEW before, NEW after, Makes(Conjunction(k, <<p, q>>, v), x, before, after)
  PROVE  /\ v \in after <=> Meets(k, p, codes[x]) /\ Meets(k, q, codes[x])
         /\ \A u : u # v => (u \in after <=> u \in before)
<1> DEFINE order == <<p, q>>
           n == 2
<1>1. n \in Nat /\ n # 0 /\ Len(order) = n /\ order[1] = p /\ order[2] = q
      /\ \A j \in 1..n : j \in {1, 2}
  OBVIOUS
<1>2. Makes(Conjunction(k, order, v), x, before, after) /\ 1 \in 1..n /\ 2 \in 1..n
  OBVIOUS
<1> HIDE DEF order, n
<1>3. IsOrder(k, order, n)
  BY <1>1 DEF IsOrder
<1>4. /\ v \in after <=> \A j \in 1..n : Meets(k, order[j], codes[x])
      /\ \A u : u # v => (u \in after <=> u \in before)
  BY <1>1, <1>2, <1>3, ConjunctionMakes
<1> QED BY <1>1, <1>2, <1>4

LEMMA PairsAreLists ==
  ASSUME NEW k, NEW p \in 1..k.n, NEW q \in 1..k.n, NEW v \in 1..4
  PROVE  Conjunction(k, <<p, q>>, v) \in Seq(Ops(k))
<1> DEFINE order == <<p, q>>
           n == 2
<1>1. IsOrder(k, order, n)
  BY DEF IsOrder
<1> HIDE DEF order, n
<1>2. Conjunction(k, order, v) \in Seq(Ops(k))
  BY <1>1, ListsOfScans
<1> QED BY <1>2 DEF order

(* Lists of few operations, and joined lists.                              *)
LEMMA ListsOfOps ==
  ASSUME NEW k
  PROVE  /\ \A a \in Ops(k) : <<a>> \in Seq(Ops(k))
         /\ \A a, b \in Ops(k) : <<a, b>> \in Seq(Ops(k))
         /\ \A a, b \in Seq(Ops(k)) : a \o b \in Seq(Ops(k))
<1> DEFINE S == Ops(k)
<1> HIDE DEF S
<1>1. /\ \A a \in S : <<a>> \in Seq(S)
      /\ \A a, b \in S : <<a, b>> \in Seq(S)
      /\ \A a, b \in Seq(S) : a \o b \in Seq(S)
  OBVIOUS
<1> QED BY <1>1 DEF S

(* Q7: its literals fit, and what its predicates say.                      *)
LEMMA Q7Predicates ==
  /\ Q7.query = "Q7" /\ Q7.n = 6 /\ Fits(Q7)
  /\ \A c : Expected(Q7, c) <=>
              /\ (Meets(Q7, 1, c) /\ Meets(Q7, 2, c)) \/ (Meets(Q7, 3, c) /\ Meets(Q7, 4, c))
              /\ Meets(Q7, 5, c) /\ Meets(Q7, 6, c)
<1> DEFINE k == Q7
<1>1. /\ k.n = 6 /\ k.query = "Q7" /\ Len(k.width) = 3
      /\ k.width[1] = 8 /\ k.width[2] = 8 /\ k.width[3] = 12
  BY DEF Q7, Q7_predicates, Q7_result, Query
<1>2. /\ k.cmp[1] = "kEqual" /\ k.column[1] = 1 /\ k.right[1] = 0 /\ k.value[1] = 9
      /\ k.cmp[2] = "kEqual" /\ k.column[2] = 2 /\ k.right[2] = 0 /\ k.value[2] = 8
      /\ k.cmp[3] = "kEqual" /\ k.column[3] = 1 /\ k.right[3] = 0 /\ k.value[3] = 8
      /\ k.cmp[4] = "kEqual" /\ k.column[4] = 2 /\ k.right[4] = 0 /\ k.value[4] = 9
      /\ k.cmp[5] = "kGreaterEqual" /\ k.column[5] = 3 /\ k.right[5] = 0 /\ k.value[5] = 1861
      /\ k.cmp[6] = "kLessEqual" /\ k.column[6] = 3 /\ k.right[6] = 0 /\ k.value[6] = 2604
  BY DEF Q7, Q7_predicates, Q7_result, Query, Compare
<1> HIDE DEF k
<1>3. Fits(k)
  <2>1. \A r \in 1..k.n : r \in {1, 2, 3, 4, 5, 6}
    BY <1>1
  <2>2. /\ k.value[1] \in CodesOf(k.width[1]) /\ k.value[2] \in CodesOf(k.width[2])
        /\ k.value[3] \in CodesOf(k.width[1]) /\ k.value[4] \in CodesOf(k.width[2])
        /\ k.value[5] \in CodesOf(k.width[3]) /\ k.value[6] \in CodesOf(k.width[3])
    BY <1>1, <1>2, CodesOfQueries
  <2> QED BY <1>1, <1>2, <2>1, <2>2 DEF Fits
<1>4. ASSUME NEW c
      PROVE  Expected(k, c) <=>
               /\ (Meets(k, 1, c) /\ Meets(k, 2, c)) \/ (Meets(k, 3, c) /\ Meets(k, 4, c))
               /\ Meets(k, 5, c) /\ Meets(k, 6, c)
  <2>1. Expected(k, c) <=> real_Q7(k, c)
    <3>1. real(k, c) <=> real_Q7(k, c)
      BY <1>1 DEF real
    <3> QED BY <1>1, <3>1, ExpectedOfQuery
  <2>2. /\ Operand(k, 1, c) = k.value[1] /\ Operand(k, 2, c) = k.value[2]
        /\ Operand(k, 3, c) = k.value[2] /\ Operand(k, 4, c) = k.value[1]
        /\ Operand(k, 5, c) = k.value[5] /\ Operand(k, 6, c) = k.value[6]
    BY <1>2 DEF Operand
  <2>3. /\ Meets(k, 1, c) <=> c[1] = k.value[1]
        /\ Meets(k, 2, c) <=> c[2] = k.value[2]
        /\ Meets(k, 3, c) <=> c[1] = k.value[2]
        /\ Meets(k, 4, c) <=> c[2] = k.value[1]
        /\ Meets(k, 5, c) <=> c[3] >= k.value[5]
        /\ Meets(k, 6, c) <=> c[3] <= k.value[6]
    BY <1>2, <2>2, MeetsCases
  <2> QED BY <2>1, <2>3 DEF real_Q7, Within
<1> QED BY <1>1, <1>3, <1>4 DEF k

(* Q7: either nation may be the supplier's, and a date is in a range.      *)
LEMMA Q7ModelsAnswer ==
  ASSUME TypeOK, NEW num, NEW p \in Q7_models(num)
  PROVE  Answers(p)
<1> DEFINE k == Q7
           NP == Conjunction(k, <<1, 2>>, 1)
           NQ == Conjunction(k, <<3, 4>>, 2)
           join == Combined("Or", 1, 2)
<1>1. PICK d \in {<<5, 6>>, <<6, 5>>} :
        p = Program(k, num, 2, ((NP \o NQ) \o <<join>>)
                                 \o <<Scan(k, d[1], 1, "kAnd"), Scan(k, d[2], 1, "kAnd")>>)
  BY DEF Q7_models, NationPairs
<1>2. PICK e \in 5..6, f \in 5..6 : e # f /\ d[1] = e /\ d[2] = f
  OBVIOUS
<1> DEFINE date1 == Scan(k, e, 1, "kAnd")
           date2 == Scan(k, f, 1, "kAnd")
<1>3. p.kernel = k /\ p.width = k.width /\ p.ops = ((NP \o NQ) \o <<join>>) \o <<date1, date2>>
  BY <1>1, <1>2 DEF Program
<1>4. /\ k.query = "Q7" /\ k.n = 6 /\ Fits(k)
      /\ \A c : Expected(k, c) <=>
           /\ (Meets(k, 1, c) /\ Meets(k, 2, c)) \/ (Meets(k, 3, c) /\ Meets(k, 4, c))
           /\ Meets(k, 5, c) /\ Meets(k, 6, c)
  BY Q7Predicates
<1> HIDE DEF k
<1> SUFFICES ASSUME program = p, NEW x, NEW s0, NEW s5, Makes(p.ops, x, s0, s5)
             PROVE  1 \in s5 <=> Expected(p.kernel, codes[x])
  BY DEF Answers
<1>5. Runs(k) /\ e \in 1..k.n /\ f \in 1..k.n
  BY <1>3, <1>4 DEF Runs, Fits
<1>6. NP \in Seq(Ops(k)) /\ NQ \in Seq(Ops(k))
  BY <1>4, PairsAreLists
<1>7. join \in Ops(k) /\ date1 \in Ops(k) /\ date2 \in Ops(k)
  BY <1>5 DEF Ops, Scans, Combinations
<1> HIDE DEF NP, NQ, join, date1, date2
<1>8. PICK s3 : Makes((NP \o NQ) \o <<join>>, x, s0, s3) /\ Makes(<<date1, date2>>, x, s3, s5)
  BY <1>3, <1>6, <1>7, ListsOfOps, MakesBoth
<1>9. PICK s2 : Makes(NP \o NQ, x, s0, s2) /\ Makes(<<join>>, x, s2, s3)
  BY <1>6, <1>7, <1>8, ListsOfOps, MakesBoth
<1>10. PICK s1 : Makes(NP, x, s0, s1) /\ Makes(NQ, x, s1, s2)
  BY <1>6, <1>9, MakesBoth
<1>11. PICK s4 : Leaves(date1, x, s3, s4) /\ Leaves(date2, x, s4, s5)
  BY <1>7, <1>8, MakesTwo
<1> DEFINE Holds(r) == Meets(k, r, codes[x])
<1>12. 1 \in s1 <=> Holds(1) /\ Holds(2)
  BY <1>4, <1>5, <1>10, PairMakes DEF NP
<1>13. (2 \in s2 <=> Holds(3) /\ Holds(4)) /\ (1 \in s2 <=> 1 \in s1)
  BY <1>4, <1>5, <1>10, PairMakes DEF NQ
<1>14. 1 \in s3 <=> 1 \in s2 \/ 2 \in s2
  <2>1. Leaves(join, x, s2, s3)
    BY <1>7, <1>9, MakesOne
  <2> QED BY <2>1, CombinedLeaves DEF join
<1>15. 1 \in s4 <=> 1 \in s3 /\ Holds(e)
  BY <1>5, <1>11, ScanLeaves DEF date1
<1>16. 1 \in s5 <=> 1 \in s4 /\ Holds(f)
  BY <1>5, <1>11, ScanLeaves DEF date2
<1>17. Holds(e) /\ Holds(f) <=> Holds(5) /\ Holds(6)
  BY <1>2
<1>18. Expected(k, codes[x]) <=>
         ((Holds(1) /\ Holds(2)) \/ (Holds(3) /\ Holds(4))) /\ Holds(5) /\ Holds(6)
  BY <1>4
<1> HIDE DEF Holds
<1> QED BY <1>3, <1>12, <1>13, <1>14, <1>15, <1>16, <1>17, <1>18

(* Q12: its literals fit, and what its predicates say.                     *)
LEMMA Q12Predicates ==
  /\ Q12.query = "Q12" /\ Q12.n = 6 /\ Fits(Q12)
  /\ \A c : Expected(Q12, c) <=>
              /\ Meets(Q12, 1, c) \/ Meets(Q12, 2, c)
              /\ Meets(Q12, 3, c) /\ Meets(Q12, 4, c) /\ Meets(Q12, 5, c) /\ Meets(Q12, 6, c)
<1> DEFINE k == Q12
<1>1. /\ k.n = 6 /\ k.query = "Q12" /\ Len(k.width) = 4
      /\ k.width[1] = 8 /\ k.width[2] = 12 /\ k.width[3] = 12 /\ k.width[4] = 12
  BY DEF Q12, Q12_predicates, Q12_refined, Q12_result, Query
<1>2. /\ k.cmp[1] = "kEqual" /\ k.column[1] = 1 /\ k.right[1] = 0 /\ k.value[1] = 3
      /\ k.cmp[2] = "kEqual" /\ k.column[2] = 1 /\ k.right[2] = 0 /\ k.value[2] = 6
      /\ k.cmp[3] = "kLess" /\ k.column[3] = 2 /\ k.right[3] = 3
      /\ k.cmp[4] = "kLess" /\ k.column[4] = 4 /\ k.right[4] = 2
      /\ k.cmp[5] = "kGreaterEqual" /\ k.column[5] = 3 /\ k.right[5] = 0 /\ k.value[5] = 1488
      /\ k.cmp[6] = "kLess" /\ k.column[6] = 3 /\ k.right[6] = 0 /\ k.value[6] = 1861
  BY DEF Q12, Q12_predicates, Q12_refined, Q12_result, Query, Compare, CompareColumns
<1> HIDE DEF k
<1>3. Fits(k)
  <2>1. \A r \in 1..k.n : r \in {1, 2, 3, 4, 5, 6}
    BY <1>1
  <2>2. /\ k.value[1] \in CodesOf(k.width[1]) /\ k.value[2] \in CodesOf(k.width[1])
        /\ k.value[5] \in CodesOf(k.width[3]) /\ k.value[6] \in CodesOf(k.width[3])
    BY <1>1, <1>2, CodesOfQueries
  <2> QED BY <1>1, <1>2, <2>1, <2>2 DEF Fits
<1>4. ASSUME NEW c
      PROVE  Expected(k, c) <=>
               /\ Meets(k, 1, c) \/ Meets(k, 2, c)
               /\ Meets(k, 3, c) /\ Meets(k, 4, c) /\ Meets(k, 5, c) /\ Meets(k, 6, c)
  <2>1. Expected(k, c) <=> real_Q12(k, c)
    <3>1. real(k, c) <=> real_Q12(k, c)
      BY <1>1 DEF real
    <3> QED BY <1>1, <3>1, ExpectedOfQuery
  <2>2. /\ Operand(k, 1, c) = k.value[1] /\ Operand(k, 2, c) = k.value[2]
        /\ Operand(k, 3, c) = c[3] /\ Operand(k, 4, c) = c[2]
        /\ Operand(k, 5, c) = k.value[5] /\ Operand(k, 6, c) = k.value[6]
    BY <1>2 DEF Operand
  <2>3. /\ Meets(k, 1, c) <=> c[1] = k.value[1]
        /\ Meets(k, 2, c) <=> c[1] = k.value[2]
        /\ Meets(k, 3, c) <=> c[2] < c[3]
        /\ Meets(k, 4, c) <=> c[4] < c[2]
        /\ Meets(k, 5, c) <=> c[3] >= k.value[5]
        /\ Meets(k, 6, c) <=> c[3] < k.value[6]
    BY <1>2, <2>2, MeetsCases
  <2>4. In(c[1], k, {1, 2}) <=> c[1] = k.value[1] \/ c[1] = k.value[2]
    BY DEF In
  <2> QED BY <2>1, <2>3, <2>4 DEF real_Q12
<1> QED BY <1>1, <1>3, <1>4 DEF k

(* The orders of Q12's dates are orders of its predicates 3 to 6.          *)
LEMMA DateOrdersCover ==
  ASSUME NEW k, k.n = 6, NEW order \in DateOrders
  PROVE  /\ IsOrder(k, order, 4)
         /\ \A j \in 1..4 : order[j] \in 3..6
         /\ \A r \in 3..6 : \E j \in 1..4 : order[j] = r
<1>1. order \in {<<3, 4, 5, 6>>, <<5, 6, 3, 4>>, <<6, 5, 3, 4>>, <<4, 3, 5, 6>>}
  BY DEF DateOrders
<1>2. CASE order = <<3, 4, 5, 6>>
  BY <1>2 DEF IsOrder
<1>3. CASE order = <<5, 6, 3, 4>>
  BY <1>3 DEF IsOrder
<1>4. CASE order = <<6, 5, 3, 4>>
  BY <1>4 DEF IsOrder
<1>5. CASE order = <<4, 3, 5, 6>>
  BY <1>5 DEF IsOrder
<1> QED BY <1>1, <1>2, <1>3, <1>4, <1>5

(* Q12: one of two ship modes, and four comparisons of dates.              *)
LEMMA Q12ModelsAnswer ==
  ASSUME TypeOK, NEW num, NEW p \in Q12_models(num)
  PROVE  Answers(p)
<1> DEFINE k == Q12
           mode1 == Scan(k, 1, 1, "kSet")
           mode2 == Scan(k, 2, 1, "kOr")
           n == 4
           v == 1
<1>1. PICK order \in DateOrders :
        p = Program(k, num, 2, ShipModes(1) \o AndScans(k, order, 1))
  BY DEF Q12_models
<1> DEFINE dates == AndScans(k, order, v)
<1>2. p.kernel = k /\ p.width = k.width /\ p.ops = <<mode1, mode2>> \o dates
  BY <1>1 DEF Program, ShipModes
<1>3. /\ k.query = "Q12" /\ k.n = 6 /\ Fits(k)
      /\ \A c : Expected(k, c) <=>
           /\ Meets(k, 1, c) \/ Meets(k, 2, c)
           /\ Meets(k, 3, c) /\ Meets(k, 4, c) /\ Meets(k, 5, c) /\ Meets(k, 6, c)
  BY Q12Predicates
<1> HIDE DEF k
<1>4. /\ IsOrder(k, order, n)
      /\ \A j \in 1..n : order[j] \in 3..6
      /\ \A r \in 3..6 : \E j \in 1..n : order[j] = r
  BY <1>3, DateOrdersCover
<1>5. v \in 1..4 /\ v = 1
  OBVIOUS
<1> SUFFICES ASSUME program = p, NEW x, NEW s0, NEW s3, Makes(p.ops, x, s0, s3)
             PROVE  1 \in s3 <=> Expected(p.kernel, codes[x])
  BY DEF Answers
<1>6. Runs(k) /\ 1 \in 1..k.n /\ 2 \in 1..k.n
  BY <1>2, <1>3 DEF Runs, Fits
<1>7. mode1 \in Ops(k) /\ mode2 \in Ops(k)
  BY <1>6 DEF Ops, Scans
<1> HIDE DEF n, v
<1>8. dates \in Seq(Ops(k))
  BY <1>4, <1>5, ListsOfScans
<1> HIDE DEF mode1, mode2, dates
<1>9. PICK s2 : Makes(<<mode1, mode2>>, x, s0, s2) /\ Makes(dates, x, s2, s3)
  BY <1>2, <1>7, <1>8, ListsOfOps, MakesBoth
<1>10. PICK s1 : Leaves(mode1, x, s0, s1) /\ Leaves(mode2, x, s1, s2)
  BY <1>7, <1>9, MakesTwo
<1> DEFINE Holds(r) == Meets(k, r, codes[x])
<1>11. 1 \in s1 <=> Holds(1)
  BY <1>6, <1>10, ScanLeaves DEF mode1
<1>12. 1 \in s2 <=> 1 \in s1 \/ Holds(2)
  BY <1>6, <1>10, ScanLeaves DEF mode2
<1>13. v \in s3 <=> v \in s2 /\ \A j \in 1..n : Meets(k, order[j], codes[x])
  BY <1>4, <1>5, <1>6, <1>9, AndScansMake DEF dates
<1>14. (\A j \in 1..n : Meets(k, order[j], codes[x])) <=> \A r \in 3..6 : Holds(r)
  BY <1>4
<1>15. (\A r \in 3..6 : Holds(r)) <=> Holds(3) /\ Holds(4) /\ Holds(5) /\ Holds(6)
  <2>1. \A r : r \in 3..6 <=> r \in {3, 4, 5, 6}
    OBVIOUS
  <2> HIDE DEF Holds
  <2> QED BY <2>1
<1>16. Expected(k, codes[x]) <=>
         (Holds(1) \/ Holds(2)) /\ Holds(3) /\ Holds(4) /\ Holds(5) /\ Holds(6)
  BY <1>3
<1> HIDE DEF Holds
<1> QED BY <1>2, <1>5, <1>11, <1>12, <1>13, <1>14, <1>15, <1>16

----------------------------------------------------------------------------
(* A test's predicates are kGreater and kLess in turn, one per column.     *)
LEMMA TestPredicates ==
  ASSUME NEW width \in 1..32, NEW values, NEW n \in Nat \ {0}, Len(values) = n,
         \A j \in 1..n : values[j] \in CodesOf(width)
  PROVE  LET k == TestKernel(width, values) IN
         /\ k.query = "test" /\ k.n = n /\ Fits(k)
         /\ \A c : \A p \in 1..n : Meets(k, p, c) <=> TestConjunct(k, c, p)
<1> DEFINE k == TestKernel(width, values)
<1>1. k.query = "test" /\ k.n = n /\ k.width = [c \in 1..n |-> width] /\ Len(k.width) = n
  BY DEF TestKernel, Query
<1>2. ASSUME NEW p \in 1..n
      PROVE  /\ k.cmp[p] = IF p % 2 = 1 THEN "kGreater" ELSE "kLess"
             /\ k.column[p] = p /\ k.right[p] = 0 /\ k.value[p] = values[p]
             /\ k.width[p] = width
  BY DEF TestKernel, Query, Compare
<1> HIDE DEF k
<1>3. Fits(k)
  BY <1>1, <1>2 DEF Fits
<1>4. ASSUME NEW c, NEW p \in 1..n
      PROVE  Meets(k, p, c) <=> TestConjunct(k, c, p)
  <2>1. Operand(k, p, c) = k.value[p]
    BY <1>2 DEF Operand
  <2>2. CASE p % 2 = 1
    <3>1. Meets(k, p, c) <=> c[p] > k.value[p]
      BY <1>2, <2>1, <2>2, MeetsCases
    <3> QED BY <2>2, <3>1 DEF TestConjunct
  <2>3. CASE p % 2 # 1
    <3>1. Meets(k, p, c) <=> c[p] < k.value[p]
      BY <1>2, <2>1, <2>3, MeetsCases
    <3> QED BY <2>3, <3>1 DEF TestConjunct
  <2> QED BY <2>2, <2>3
<1> QED BY <1>1, <1>3, <1>4 DEF k

(* column_N: the conjunction of all of them.                               *)
LEMMA ColumnTestAnswers ==
  ASSUME TypeOK, NEW width \in 1..32, NEW values, NEW n \in Nat \ {0}, Len(values) = n,
         \A j \in 1..n : values[j] \in CodesOf(width), NEW num
  PROVE  Answers(ColumnTest(width, values, num))
<1> DEFINE k == TestKernel(width, values)
           order == [p \in 1..n |-> p]
<1>1. /\ k.query = "test" /\ k.n = n /\ Fits(k)
      /\ \A c : \A p \in 1..n : Meets(k, p, c) <=> TestConjunct(k, c, p)
  BY TestPredicates
<1>2. ColumnTest(width, values, num) = Program(k, num, 1, Conjunction(k, order, 1))
  BY DEF ColumnTest
<1>3. order \in [1..n -> 1..n] /\ \A p \in 1..n : order[p] = p
  OBVIOUS
<1> HIDE DEF k, order
<1>4. Covers(order, k.n)
  <2>1. Len(order) = n
    BY <1>3, ListOf
  <2> QED BY <1>1, <1>3, <2>1 DEF Covers
<1>5. IsConjunction(k)
  <2> SUFFICES ASSUME NEW c
               PROVE  (\A p \in 1..k.n : Meets(k, p, c)) <=> Expected(k, c)
    BY DEF IsConjunction
  <2>1. Expected(k, c) <=> real_test(k, c)
    BY <1>1 DEF Expected
  <2> QED BY <1>1, <2>1 DEF real_test
<1> QED BY <1>1, <1>2, <1>4, <1>5, ConjunctionAnswers

(* column_c: the disjunction of two pairs of them.                         *)
LEMMA ColumnCTestAnswers ==
  ASSUME TypeOK, NEW width \in 1..32, NEW values, Len(values) = 4,
         \A j \in 1..4 : values[j] \in CodesOf(width), NEW num
  PROVE  Answers(ColumnCTest(width, values, num))
<1> DEFINE k0 == TestKernel(width, values)
           k == [k0 EXCEPT !.query = "test_c"]
           NP == Conjunction(k, <<1, 2>>, 1)
           NQ == Conjunction(k, <<3, 4>>, 2)
           join == Combined("Or", 1, 2)
           p == ColumnCTest(width, values, num)
           n == 4
<1>1. /\ k0.n = 4 /\ Fits(k0)
      /\ \A c : \A q \in 1..4 : Meets(k0, q, c) <=> TestConjunct(k0, c, q)
  <2>1. n \in Nat \ {0} /\ Len(values) = n /\ \A j \in 1..n : values[j] \in CodesOf(width)
    OBVIOUS
  <2>2. n = 4
    OBVIOUS
  <2> HIDE DEF n
  <2>3. /\ k0.n = n /\ Fits(k0)
        /\ \A c : \A q \in 1..n : Meets(k0, q, c) <=> TestConjunct(k0, c, q)
    BY <2>1, TestPredicates
  <2> QED BY <2>2, <2>3
<1>2. /\ k.query = "test_c" /\ k.n = k0.n /\ k.cmp = k0.cmp /\ k.column = k0.column
      /\ k.right = k0.right /\ k.value = k0.value /\ k.width = k0.width
  BY DEF TestKernel, Query
<1>3. p.kernel = k /\ p.width = k.width /\ p.ops = (NP \o NQ) \o <<join>>
  BY DEF ColumnCTest, Program
<1> HIDE DEF k, k0, p
<1>4. /\ k.n = 4 /\ Fits(k)
      /\ \A c : \A q \in 1..4 : Meets(k, q, c) <=> TestConjunct(k, c, q)
  <2>1. Fits(k)
    BY <1>1, <1>2 DEF Fits
  <2>2. \A q, c : Meets(k, q, c) = Meets(k0, q, c)
    BY <1>2 DEF Meets, Operand
  <2>3. \A q, c : TestConjunct(k, c, q) = TestConjunct(k0, c, q)
    BY <1>2 DEF TestConjunct
  <2> QED BY <1>1, <1>2, <2>1, <2>2, <2>3
<1> SUFFICES ASSUME program = p, NEW x, NEW s0, NEW s3, Makes(p.ops, x, s0, s3)
             PROVE  1 \in s3 <=> Expected(p.kernel, codes[x])
  BY DEF Answers, p
<1>5. Runs(k) /\ 1 \in 1..k.n /\ 2 \in 1..k.n /\ 3 \in 1..k.n /\ 4 \in 1..k.n
  BY <1>3, <1>4 DEF Runs, Fits
<1>6. NP \in Seq(Ops(k)) /\ NQ \in Seq(Ops(k))
  BY <1>4, <1>5, PairsAreLists
<1>7. join \in Ops(k)
  BY DEF Ops, Combinations
<1> HIDE DEF NP, NQ, join
<1>8. PICK s2 : Makes(NP \o NQ, x, s0, s2) /\ Makes(<<join>>, x, s2, s3)
  BY <1>3, <1>6, <1>7, ListsOfOps, MakesBoth
<1>9. PICK s1 : Makes(NP, x, s0, s1) /\ Makes(NQ, x, s1, s2)
  BY <1>6, <1>8, MakesBoth
<1> DEFINE Holds(r) == Meets(k, r, codes[x])
<1>10. 1 \in s1 <=> Holds(1) /\ Holds(2)
  BY <1>4, <1>5, <1>9, PairMakes DEF NP
<1>11. (2 \in s2 <=> Holds(3) /\ Holds(4)) /\ (1 \in s2 <=> 1 \in s1)
  BY <1>4, <1>5, <1>9, PairMakes DEF NQ
<1>12. 1 \in s3 <=> 1 \in s2 \/ 2 \in s2
  <2>1. Leaves(join, x, s2, s3)
    BY <1>7, <1>8, MakesOne
  <2> QED BY <2>1, CombinedLeaves DEF join
<1>13. Expected(k, codes[x]) <=> (Holds(1) /\ Holds(2)) \/ (Holds(3) /\ Holds(4))
  <2>1. Expected(k, codes[x]) <=> real_test_c(k, codes[x])
    BY <1>2 DEF Expected
  <2> QED BY <1>4, <2>1 DEF real_test_c
<1> HIDE DEF Holds
<1> QED BY <1>3, <1>10, <1>11, <1>12, <1>13

(* The single-column kernels: one kLess, with a literal or with a column.  *)
LEMMA SingleColumnAnswers ==
  ASSUME TypeOK, NEW width \in 1..32, NEW num, NEW pred,
         \/ \E v \in CodesOf(width) : pred = Compare("kLess", 1, v)
         \/ pred = CompareColumns("kLess", 1, 2)
  PROVE  Answers(SingleColumnKernel(width, pred, num))
<1> DEFINE k == Query("test_less", <<width, width>>, <<pred>>, <<{}>>, <<>>)
           op == [Scan(k, 1, 1, "kSet") EXCEPT !.last = 4, !.clears = FALSE]
           p == SingleColumnKernel(width, pred, num)
<1>1. p.kernel = k /\ p.width = k.width /\ p.ops = <<op>>
  BY DEF SingleColumnKernel, Program
<1>2. /\ k.query = "test_less" /\ k.n = 1 /\ Len(k.width) = 2 /\ k.width[1] = width
      /\ k.cmp[1] = pred.cmp /\ k.column[1] = pred.column /\ k.right[1] = pred.right
      /\ k.value[1] = pred.value
  BY DEF Query
<1> HIDE DEF k
<1>3. Fits(k) /\ k.cmp[1] = "kLess" /\ k.column[1] = 1 /\ k.right[1] \in {0, 2}
  <2>1. /\ pred.cmp = "kLess" /\ pred.column = 1 /\ pred.right \in {0, 2}
        /\ pred.right = 0 => pred.value \in CodesOf(width)
    BY DEF Compare, CompareColumns
  <2> QED BY <1>2, <2>1 DEF Fits
<1> DEFINE scan == Scan(k, 1, 1, "kSet")
<1>4. /\ op.op = scan.op /\ op.bv = scan.bv /\ op.bit_opt = scan.bit_opt /\ op.cmp = scan.cmp
      /\ op.column = scan.column /\ op.right = scan.right /\ op.value = scan.value
  BY DEF Scan
<1> HIDE DEF op, scan, p
<1> SUFFICES ASSUME program = p, NEW x, NEW s0, NEW s1, Makes(p.ops, x, s0, s1)
             PROVE  1 \in s1 <=> Expected(p.kernel, codes[x])
  BY DEF Answers, p
<1>5. Runs(k) /\ 1 \in 1..k.n
  BY <1>1, <1>2, <1>3 DEF Runs, Fits
<1>6. Leaves(op, x, s0, s1)
  <2>1. PICK h, s : s \in Nat /\ h[s] = s0 /\ h[s + 1] = s1 /\ Takes(h, x, s, <<op>>)
    BY <1>1 DEF Makes
  <2>2. Leaves(op, x, h[s + 1 - 1], h[s + 1]) /\ s + 1 - 1 = s
    BY <2>1 DEF Takes
  <2> QED BY <2>1, <2>2
<1>7. Leaves(scan, x, s0, s1)
  <2>1. Satisfies(op, x) = Satisfies(scan, x)
    BY <1>4 DEF Satisfies, RightCode
  <2>2. op.op = "Scan" /\ scan.op = "Scan" /\ op.bit_opt = "kSet" /\ scan.bit_opt = "kSet"
    BY <1>4 DEF scan, Scan
  <2>3. \A v : v # op.bv => (v \in s1 <=> v \in s0)
    BY <1>6 DEF Leaves
  <2>4. op.bv \in s1 <=> Satisfies(op, x)
    BY <1>6, <2>2 DEF Leaves, Promised!Joined
  <2>5. scan.bv \in s1 <=> Satisfies(scan, x)
    BY <1>4, <2>1, <2>4
  <2> QED BY <1>4, <2>2, <2>3, <2>5 DEF Leaves, Promised!Joined
<1>8. 1 \in s1 <=> Meets(k, 1, codes[x])
  BY <1>5, <1>7, ScanLeaves DEF scan
<1>9. Meets(k, 1, codes[x]) <=> Expected(k, codes[x])
  <2> DEFINE c == codes[x]
  <2> HIDE DEF c
  <2>1. Meets(k, 1, c) <=> c[1] < Operand(k, 1, c)
    BY <1>3, MeetsCases
  <2>2. Operand(k, 1, c) = IF k.right[1] = 0 THEN k.value[1] ELSE c[2]
    BY <1>3 DEF Operand
  <2>3. Expected(k, c) <=> real_less(k, c)
    BY <1>2 DEF Expected
  <2> QED BY <2>1, <2>2, <2>3 DEF real_less, c
<1> QED BY <1>1, <1>8, <1>9

----------------------------------------------------------------------------
(* The set s of Q19: a brand, one of four containers, and two ranges.      *)
InSet(k, c, s) ==
  /\ Meets(k, 1 + s, c)
  /\ \/ Meets(k, 4 + 4 * s, c) \/ Meets(k, 5 + 4 * s, c)
     \/ Meets(k, 6 + 4 * s, c) \/ Meets(k, 7 + 4 * s, c)
  /\ Meets(k, 16 + 2 * s, c) /\ Meets(k, 17 + 2 * s, c)
  /\ Meets(k, 22 + 2 * s, c) /\ Meets(k, 23 + 2 * s, c)

(* A kernel of nothing but first bytes, whose literals are not flipped.    *)
Unflipped(name, width, preds, prog) ==
  [OneByteQuery(name, width, preds, prog) EXCEPT !.flips = FALSE]

LEMMA UnflippedFields ==
  ASSUME NEW name, NEW width, NEW preds, NEW prog
  PROVE  LET k == Unflipped(name, width, preds, prog) IN
         /\ k.query = name /\ k.width = width /\ k.n = Len(preds)
         /\ \A p \in 1..Len(preds) : /\ k.cmp[p] = preds[p].cmp /\ k.column[p] = preds[p].column
                                   /\ k.right[p] = preds[p].right /\ k.value[p] = preds[p].value
  BY DEF Unflipped, OneByteQuery, Query

(* Q19: its literals fit, and what its predicates say.                     *)
LEMMA Q19Predicates ==
  /\ Q19.query = "Q19" /\ Q19.n = 30 /\ Fits(Q19)
  /\ \A c : Expected(Q19, c) <=>
              /\ \E s \in 0..2 : InSet(Q19, c, s)
              /\ Meets(Q19, 28, c) \/ Meets(Q19, 29, c)
              /\ Meets(Q19, 30, c)
<1> DEFINE k == Q19
           preds == Q19_brand \o Q19_container \o Q19_quantity \o Q19_size \o Q19_delivery
<1>1. PICK prog : k = Unflipped("Q19", [c \in 1..6 |-> 8], preds, prog)
  BY DEF Q19, Unflipped
<1>2. Len(preds) = 30
  BY DEF Q19_brand, Q19_container, Q19_quantity, Q19_size, Q19_delivery, EqualToAny, Between
<1>3. /\ preds[1] = Compare("kEqual", 1, 2)
      /\ preds[2] = Compare("kEqual", 1, 8)
      /\ preds[3] = Compare("kEqual", 1, 14)
  BY DEF Q19_brand, Q19_container, Q19_quantity, Q19_size, Q19_delivery, EqualToAny, Between
<1>4. /\ preds[4] = Compare("kEqual", 2, 28)
      /\ preds[5] = Compare("kEqual", 2, 26)
      /\ preds[6] = Compare("kEqual", 2, 31)
      /\ preds[7] = Compare("kEqual", 2, 32)
      /\ preds[8] = Compare("kEqual", 2, 17)
      /\ preds[9] = Compare("kEqual", 2, 18)
  BY DEF Q19_brand, Q19_container, Q19_quantity, Q19_size, Q19_delivery, EqualToAny, Between
<1>5. /\ preds[10] = Compare("kEqual", 2, 23)
      /\ preds[11] = Compare("kEqual", 2, 24)
      /\ preds[12] = Compare("kEqual", 2, 12)
      /\ preds[13] = Compare("kEqual", 2, 10)
      /\ preds[14] = Compare("kEqual", 2, 15)
      /\ preds[15] = Compare("kEqual", 2, 16)
  BY DEF Q19_brand, Q19_container, Q19_quantity, Q19_size, Q19_delivery, EqualToAny, Between
<1>6. /\ preds[16] = Compare("kGreaterEqual", 3, 1)
      /\ preds[17] = Compare("kLessEqual", 3, 11)
      /\ preds[18] = Compare("kGreaterEqual", 3, 11)
      /\ preds[19] = Compare("kLessEqual", 3, 21)
      /\ preds[20] = Compare("kGreaterEqual", 3, 21)
      /\ preds[21] = Compare("kLessEqual", 3, 31)
  BY DEF Q19_brand, Q19_container, Q19_quantity, Q19_size, Q19_delivery, EqualToAny, Between
<1>7. /\ preds[22] = Compare("kGreaterEqual", 4, 1)
      /\ preds[23] = Compare("kLessEqual", 4, 5)
      /\ preds[24] = Compare("kGreaterEqual", 4, 1)
      /\ preds[25] = Compare("kLessEqual", 4, 10)
      /\ preds[26] = Compare("kGreaterEqual", 4, 1)
      /\ preds[27] = Compare("kLessEqual", 4, 15)
  BY DEF Q19_brand, Q19_container, Q19_quantity, Q19_size, Q19_delivery, EqualToAny, Between
<1>8. /\ preds[28] = Compare("kEqual", 5, 1)
      /\ preds[29] = Compare("kEqual", 5, 5)
      /\ preds[30] = Compare("kEqual", 6, 2)
  BY DEF Q19_brand, Q19_container, Q19_quantity, Q19_size, Q19_delivery, EqualToAny, Between
<1> HIDE DEF k, preds
<1>9. /\ k.query = "Q19" /\ k.n = 30 /\ Len(k.width) = 6 /\ \A c \in 1..6 : k.width[c] = 8
      /\ \A p \in 1..30 : /\ k.cmp[p] = preds[p].cmp /\ k.column[p] = preds[p].column
                         /\ k.right[p] = preds[p].right /\ k.value[p] = preds[p].value
  <2> DEFINE width == [c \in 1..6 |-> 8]
             name == "Q19"
  <2>1. Len(width) = 6 /\ \A c \in 1..6 : width[c] = 8
    OBVIOUS
  <2>2. k = Unflipped(name, width, preds, prog) /\ name = "Q19"
    BY <1>1
  <2> HIDE DEF width, name
  <2>3. /\ k.query = name /\ k.width = width /\ k.n = Len(preds)
        /\ \A p \in 1..Len(preds) : /\ k.cmp[p] = preds[p].cmp /\ k.column[p] = preds[p].column
                                  /\ k.right[p] = preds[p].right /\ k.value[p] = preds[p].value
    BY <2>2, UnflippedFields
  <2>4. k.query = "Q19" /\ k.n = 30 /\ Len(k.width) = 6 /\ \A c \in 1..6 : k.width[c] = 8
    BY <1>2, <2>1, <2>2, <2>3
  <2> QED BY <1>2, <2>3, <2>4
<1>10. /\ \A p \in 1..3 : preds[p].cmp = "kEqual" /\ preds[p].column = 1
       /\ \A p \in 4..15 : preds[p].cmp = "kEqual" /\ preds[p].column = 2
       /\ \A p \in 28..29 : preds[p].cmp = "kEqual" /\ preds[p].column = 5
       /\ preds[30].cmp = "kEqual" /\ preds[30].column = 6
  BY <1>3, <1>4, <1>5, <1>8 DEF Compare
<1>11. \A s \in 0..2 :
         /\ preds[16 + 2 * s].cmp = "kGreaterEqual" /\ preds[16 + 2 * s].column = 3
         /\ preds[17 + 2 * s].cmp = "kLessEqual" /\ preds[17 + 2 * s].column = 3
         /\ preds[22 + 2 * s].cmp = "kGreaterEqual" /\ preds[22 + 2 * s].column = 4
         /\ preds[23 + 2 * s].cmp = "kLessEqual" /\ preds[23 + 2 * s].column = 4
  BY <1>6, <1>7 DEF Compare
<1>12. \A p \in 1..30 : preds[p].right = 0 /\ preds[p].value \in 0..255 /\ preds[p].column \in 1..6
  BY <1>3, <1>4, <1>5, <1>6, <1>7, <1>8 DEF Compare
<1>13. Fits(k)
  <2>1. \A p \in 1..30 : k.value[p] \in CodesOf(8)
    BY <1>9, <1>12, CodesOfQueries
  <2>2. \A p \in 1..30 : k.width[k.column[p]] = 8 /\ k.column[p] \in 1..6
    BY <1>9, <1>12
  <2>3. \A p \in 1..30 : /\ k.column[p] \in 1..Len(k.width)
                         /\ k.value[p] \in CodesOf(k.width[k.column[p]])
    BY <1>9, <2>1, <2>2
  <2>4. k.n \in Nat \ {0} /\ 1..k.n = 1..30
    BY <1>9
  <2> QED BY <2>3, <2>4 DEF Fits
<1>14. ASSUME NEW c
       PROVE  Expected(k, c) <=>
                /\ \E s \in 0..2 : InSet(k, c, s)
                /\ Meets(k, 28, c) \/ Meets(k, 29, c)
                /\ Meets(k, 30, c)
  <2>1. Expected(k, c) <=> real_Q19(k, c)
    <3>1. real(k, c) <=> real_Q19(k, c)
      BY <1>9 DEF real
    <3> QED BY <1>9, <3>1, ExpectedOfQuery
  <2>2. \A p \in 1..30 : Operand(k, p, c) = k.value[p]
    BY <1>9, <1>12 DEF Operand
  <2>3. /\ \A p \in 1..3 : Meets(k, p, c) <=> c[1] = k.value[p]
        /\ \A p \in 4..15 : Meets(k, p, c) <=> c[2] = k.value[p]
        /\ \A p \in 28..29 : Meets(k, p, c) <=> c[5] = k.value[p]
        /\ Meets(k, 30, c) <=> c[6] = k.value[30]
    <3>1. \A p \in 1..30 : k.cmp[p] = "kEqual" => (Meets(k, p, c) <=> c[k.column[p]] = k.value[p])
      BY <2>2, MeetsCases
    <3>2. /\ \A p \in 1..3 : k.cmp[p] = "kEqual" /\ k.column[p] = 1 /\ p \in 1..30
          /\ \A p \in 4..15 : k.cmp[p] = "kEqual" /\ k.column[p] = 2 /\ p \in 1..30
          /\ \A p \in 28..29 : k.cmp[p] = "kEqual" /\ k.column[p] = 5 /\ p \in 1..30
          /\ k.cmp[30] = "kEqual" /\ k.column[30] = 6
      BY <1>9, <1>10
    <3>3. \A p \in 1..3 : Meets(k, p, c) <=> c[1] = k.value[p]
      BY <3>1, <3>2
    <3>4. \A p \in 4..15 : Meets(k, p, c) <=> c[2] = k.value[p]
      BY <3>1, <3>2
    <3>5. \A p \in 28..29 : Meets(k, p, c) <=> c[5] = k.value[p]
      BY <3>1, <3>2
    <3>6. Meets(k, 30, c) <=> c[6] = k.value[30]
      BY <3>1, <3>2
    <3> QED BY <3>3, <3>4, <3>5, <3>6
  <2>4. ASSUME NEW s \in 0..2
        PROVE  /\ Meets(k, 16 + 2 * s, c) <=> c[3] >= k.value[16 + 2 * s]
               /\ Meets(k, 17 + 2 * s, c) <=> c[3] <= k.value[17 + 2 * s]
               /\ Meets(k, 22 + 2 * s, c) <=> c[4] >= k.value[22 + 2 * s]
               /\ Meets(k, 23 + 2 * s, c) <=> c[4] <= k.value[23 + 2 * s]
    <3> DEFINE low3 == 16 + 2 * s
               high3 == 17 + 2 * s
               low4 == 22 + 2 * s
               high4 == 23 + 2 * s
    <3>1. low3 \in 1..30 /\ high3 \in 1..30 /\ low4 \in 1..30 /\ high4 \in 1..30
      OBVIOUS
    <3>2. /\ k.cmp[low3] = "kGreaterEqual" /\ k.column[low3] = 3
          /\ k.cmp[high3] = "kLessEqual" /\ k.column[high3] = 3
          /\ k.cmp[low4] = "kGreaterEqual" /\ k.column[low4] = 4
          /\ k.cmp[high4] = "kLessEqual" /\ k.column[high4] = 4
      BY <1>9, <1>11, <3>1
    <3> HIDE DEF low3, high3, low4, high4
    <3>3. /\ Meets(k, low3, c) <=> c[3] >= k.value[low3]
          /\ Meets(k, high3, c) <=> c[3] <= k.value[high3]
          /\ Meets(k, low4, c) <=> c[4] >= k.value[low4]
          /\ Meets(k, high4, c) <=> c[4] <= k.value[high4]
      BY <2>2, <3>1, <3>2, MeetsCases
    <3> QED BY <3>3 DEF low3, high3, low4, high4
  <2>5. ASSUME NEW s \in 0..2
        PROVE  InSet(k, c, s) <=>
                 /\ c[1] = k.value[1 + s]
                 /\ In(c[2], k, (4 + 4 * s)..(7 + 4 * s))
                 /\ Within(c[3], k, 16 + 2 * s, 17 + 2 * s)
                 /\ Within(c[4], k, 22 + 2 * s, 23 + 2 * s)
    <3>1. Meets(k, 1 + s, c) <=> c[1] = k.value[1 + s]
      BY <2>3
    <3>2. In(c[2], k, (4 + 4 * s)..(7 + 4 * s)) <=>
            \/ Meets(k, 4 + 4 * s, c) \/ Meets(k, 5 + 4 * s, c)
            \/ Meets(k, 6 + 4 * s, c) \/ Meets(k, 7 + 4 * s, c)
      <4> DEFINE p == 4 + 4 * s
      <4>1. p \in Nat /\ 7 + 4 * s = p + 3 /\ 5 + 4 * s = p + 1 /\ 6 + 4 * s = p + 2
            /\ p \in 4..15 /\ p + 1 \in 4..15 /\ p + 2 \in 4..15 /\ p + 3 \in 4..15
        OBVIOUS
      <4> HIDE DEF p
      <4>2. \A q : q \in p..(p + 3) <=> q \in {p, p + 1, p + 2, p + 3}
        BY <4>1
      <4>3. In(c[2], k, p..(p + 3)) <=>
              \/ Meets(k, p, c) \/ Meets(k, p + 1, c)
              \/ Meets(k, p + 2, c) \/ Meets(k, p + 3, c)
        BY <2>3, <4>1, <4>2 DEF In
      <4> QED BY <4>1, <4>3 DEF p
    <3> QED BY <2>4, <3>1, <3>2 DEF InSet, Within
  <2>6. In(c[5], k, {28, 29}) <=> Meets(k, 28, c) \/ Meets(k, 29, c)
    BY <2>3 DEF In
  <2> QED BY <2>1, <2>3, <2>5, <2>6 DEF real_Q19
<1> QED BY <1>9, <1>13, <1>14 DEF k

(* A list of four operations.                                              *)
LEMMA MakesFour ==
  ASSUME NEW k, NEW a \in Ops(k), NEW b \in Ops(k), NEW c \in Ops(k), NEW d \in Ops(k),
         NEW x, NEW before, NEW after, Makes(<<a, b, c, d>>, x, before, after)
  PROVE  \E s1, s2, s3 : /\ Leaves(a, x, before, s1) /\ Leaves(b, x, s1, s2)
                         /\ Leaves(c, x, s2, s3) /\ Leaves(d, x, s3, after)
<1>1. PICK h, s : /\ s \in Nat /\ h[s] = before /\ h[s + 4] = after
                  /\ Takes(h, x, s, <<a, b, c, d>>)
  BY DEF Makes
<1>2. /\ Leaves(a, x, h[s + 1 - 1], h[s + 1]) /\ Leaves(b, x, h[s + 2 - 1], h[s + 2])
      /\ Leaves(c, x, h[s + 3 - 1], h[s + 3]) /\ Leaves(d, x, h[s + 4 - 1], h[s + 4])
  BY <1>1 DEF Takes
<1>3. s + 1 - 1 = s /\ s + 2 - 1 = s + 1 /\ s + 3 - 1 = s + 2 /\ s + 4 - 1 = s + 3
  BY <1>1
<1> QED BY <1>1, <1>2, <1>3

(* The scans of a set of Q19 into a bit vector of its own.                 *)
LEMMA Q19SetMakes ==
  ASSUME TypeOK, NEW k, k = Q19, Runs(k), k.n = 30, NEW t \in 0..2, NEW v \in 1..4
  PROVE  /\ Q19_set(t, v) \in Seq(Ops(k))
         /\ \A x, before, after :
              Makes(Q19_set(t, v), x, before, after) =>
                /\ v \in after <=> InSet(k, codes[x], t)
                /\ \A u : u # v => (u \in after <=> u \in before)
<1> DEFINE p1 == 4 + 4 * t
           p2 == 5 + 4 * t
           p3 == 6 + 4 * t
           p4 == 7 + 4 * t
           order == <<1 + t, 16 + 2 * t, 17 + 2 * t, 22 + 2 * t, 23 + 2 * t>>
           n == 5
           a == Scan(k, p1, v, "kSet")
           b == Scan(k, p2, v, "kOr")
           c == Scan(k, p3, v, "kOr")
           d == Scan(k, p4, v, "kOr")
           boxes == <<a, b, c, d>>
           ranges == AndScans(k, order, v)
<1>1. Q19_set(t, v) = boxes \o ranges
  BY DEF Q19_set
<1>2. p1 \in 1..k.n /\ p2 \in 1..k.n /\ p3 \in 1..k.n /\ p4 \in 1..k.n
  OBVIOUS
<1>3. IsOrder(k, order, n)
  BY DEF IsOrder
<1>4. \A q : (\A j \in 1..n : Meets(k, order[j], q)) <=>
               /\ Meets(k, 1 + t, q) /\ Meets(k, 16 + 2 * t, q) /\ Meets(k, 17 + 2 * t, q)
               /\ Meets(k, 22 + 2 * t, q) /\ Meets(k, 23 + 2 * t, q)
  <2>1. \A j : j \in 1..n <=> j \in {1, 2, 3, 4, 5}
    OBVIOUS
  <2>2. /\ order[1] = 1 + t /\ order[2] = 16 + 2 * t /\ order[3] = 17 + 2 * t
        /\ order[4] = 22 + 2 * t /\ order[5] = 23 + 2 * t
    OBVIOUS
  <2> HIDE DEF order, n
  <2> QED BY <2>1, <2>2
<1>5. \A q : InSet(k, q, t) <=>
               /\ \A j \in 1..n : Meets(k, order[j], q)
               /\ Meets(k, p1, q) \/ Meets(k, p2, q) \/ Meets(k, p3, q) \/ Meets(k, p4, q)
  <2> HIDE DEF order, n
  <2> QED BY <1>4 DEF InSet
<1> HIDE DEF p1, p2, p3, p4, order, n
<1>6. a \in Ops(k) /\ b \in Ops(k) /\ c \in Ops(k) /\ d \in Ops(k)
  BY <1>2 DEF Ops, Scans
<1>7. ranges \in Seq(Ops(k))
  BY <1>3, ListsOfScans
<1> HIDE DEF a, b, c, d, ranges
<1>8. boxes \in Seq(Ops(k))
  <2> DEFINE S == Ops(k)
  <2>1. a \in S /\ b \in S /\ c \in S /\ d \in S
    BY <1>6
  <2> HIDE DEF S
  <2>2. boxes \in Seq(S)
    BY <2>1
  <2> QED BY <2>2 DEF S
<1>9. ASSUME NEW x, NEW before, NEW after, Makes(Q19_set(t, v), x, before, after)
      PROVE  /\ v \in after <=> InSet(k, codes[x], t)
             /\ \A u : u # v => (u \in after <=> u \in before)
  <2> DEFINE list == boxes
  <2>1. list \in Seq(Ops(k)) /\ Makes(list \o ranges, x, before, after)
    BY <1>1, <1>8, <1>9
  <2> HIDE DEF list
  <2>2. PICK s4 : Makes(list, x, before, s4) /\ Makes(ranges, x, s4, after)
    BY <1>7, <2>1, MakesBoth
  <2>3. PICK s1, s2, s3 : /\ Leaves(a, x, before, s1) /\ Leaves(b, x, s1, s2)
                          /\ Leaves(c, x, s2, s3) /\ Leaves(d, x, s3, s4)
    BY <1>6, <2>2, MakesFour DEF list
  <2>4. /\ v \in s1 <=> Meets(k, p1, codes[x])
        /\ \A u : u # v => (u \in s1 <=> u \in before)
    BY <1>2, <2>3, ScanLeaves DEF a
  <2>5. /\ v \in s2 <=> v \in s1 \/ Meets(k, p2, codes[x])
        /\ \A u : u # v => (u \in s2 <=> u \in s1)
    BY <1>2, <2>3, ScanLeaves DEF b
  <2>6. /\ v \in s3 <=> v \in s2 \/ Meets(k, p3, codes[x])
        /\ \A u : u # v => (u \in s3 <=> u \in s2)
    BY <1>2, <2>3, ScanLeaves DEF c
  <2>7. /\ v \in s4 <=> v \in s3 \/ Meets(k, p4, codes[x])
        /\ \A u : u # v => (u \in s4 <=> u \in s3)
    BY <1>2, <2>3, ScanLeaves DEF d
  <2>8. /\ v \in after <=> v \in s4 /\ \A j \in 1..n : Meets(k, order[j], codes[x])
        /\ \A u : u # v => (u \in after <=> u \in s4)
    BY <1>3, <2>2, AndScansMake DEF ranges
  <2> QED BY <1>5, <2>4, <2>5, <2>6, <2>7, <2>8
<1>10. Q19_set(t, v) \in Seq(Ops(k))
  <2> DEFINE list == boxes
  <2>1. list \in Seq(Ops(k)) /\ Q19_set(t, v) = list \o ranges
    BY <1>1, <1>8
  <2> HIDE DEF list
  <2> QED BY <1>7, <2>1, ListsOfOps
<1> QED BY <1>9, <1>10

(* A list of six operations.                                               *)
LEMMA MakesSix ==
  ASSUME NEW k, NEW a \in Ops(k), NEW b \in Ops(k), NEW c \in Ops(k), NEW d \in Ops(k),
         NEW e \in Ops(k), NEW f \in Ops(k), NEW x, NEW before, NEW after,
         Makes(<<a, b, c, d, e, f>>, x, before, after)
  PROVE  \E s1, s2, s3, s4, s5 :
           /\ Leaves(a, x, before, s1) /\ Leaves(b, x, s1, s2) /\ Leaves(c, x, s2, s3)
           /\ Leaves(d, x, s3, s4) /\ Leaves(e, x, s4, s5) /\ Leaves(f, x, s5, after)
<1>1. PICK h, s : /\ s \in Nat /\ h[s] = before /\ h[s + 6] = after
                  /\ Takes(h, x, s, <<a, b, c, d, e, f>>)
  BY DEF Makes
<1>2. /\ Leaves(a, x, h[s + 1 - 1], h[s + 1]) /\ Leaves(b, x, h[s + 2 - 1], h[s + 2])
      /\ Leaves(c, x, h[s + 3 - 1], h[s + 3]) /\ Leaves(d, x, h[s + 4 - 1], h[s + 4])
      /\ Leaves(e, x, h[s + 5 - 1], h[s + 5]) /\ Leaves(f, x, h[s + 6 - 1], h[s + 6])
  BY <1>1 DEF Takes
<1>3. /\ s + 1 - 1 = s /\ s + 2 - 1 = s + 1 /\ s + 3 - 1 = s + 2 /\ s + 4 - 1 = s + 3
      /\ s + 5 - 1 = s + 4 /\ s + 6 - 1 = s + 5
  BY <1>1
<1> QED BY <1>1, <1>2, <1>3

(* Q19: one of three sets, and the ship mode and instruction.              *)
LEMMA Q19ModelAnswers ==
  ASSUME TypeOK, NEW num
  PROVE  Answers(Q19_model(num))
<1> DEFINE k == Q19
           p == Q19_model(num)
           A == Q19_set(0, 2)
           B == Q19_set(1, 3)
           C == Q19_set(2, 4)
           a == Scan(k, 28, 1, "kSet")
           b == Scan(k, 29, 1, "kOr")
           c == Scan(k, 30, 1, "kAnd")
           d == Combined("Or", 2, 3)
           e == Combined("Or", 2, 4)
           f == Combined("And", 1, 2)
           last == <<a, b, c, d, e, f>>
<1>1. p.kernel = k /\ p.width = k.width /\ p.ops = ((A \o B) \o C) \o last
  BY DEF Q19_model, Program
<1>2. /\ k.query = "Q19" /\ k.n = 30 /\ Fits(k)
      /\ \A q : Expected(k, q) <=>
           /\ \E t \in 0..2 : InSet(k, q, t)
           /\ Meets(k, 28, q) \/ Meets(k, 29, q)
           /\ Meets(k, 30, q)
  BY Q19Predicates
<1>3. k = Q19
  OBVIOUS
<1> HIDE DEF k, p
<1> SUFFICES ASSUME program = p, NEW x, NEW s0, NEW s9, Makes(p.ops, x, s0, s9)
             PROVE  1 \in s9 <=> Expected(p.kernel, codes[x])
  BY DEF Answers, p
<1>4. Runs(k) /\ 28 \in 1..k.n /\ 29 \in 1..k.n /\ 30 \in 1..k.n
  BY <1>1, <1>2 DEF Runs, Fits
<1>5. /\ A \in Seq(Ops(k))
      /\ \A y, before, after :
           Makes(A, y, before, after) =>
             /\ 2 \in after <=> InSet(k, codes[y], 0)
             /\ \A u : u # 2 => (u \in after <=> u \in before)
  BY <1>2, <1>3, <1>4, Q19SetMakes
<1>6. /\ B \in Seq(Ops(k))
      /\ \A y, before, after :
           Makes(B, y, before, after) =>
             /\ 3 \in after <=> InSet(k, codes[y], 1)
             /\ \A u : u # 3 => (u \in after <=> u \in before)
  BY <1>2, <1>3, <1>4, Q19SetMakes
<1>7. /\ C \in Seq(Ops(k))
      /\ \A y, before, after :
           Makes(C, y, before, after) =>
             /\ 4 \in after <=> InSet(k, codes[y], 2)
             /\ \A u : u # 4 => (u \in after <=> u \in before)
  BY <1>2, <1>3, <1>4, Q19SetMakes
<1>8. a \in Ops(k) /\ b \in Ops(k) /\ c \in Ops(k)
  BY <1>2, <1>4 DEF Ops, Scans
<1>9. d \in Ops(k) /\ e \in Ops(k) /\ f \in Ops(k)
  BY DEF Ops, Combinations
<1> HIDE DEF A, B, C, a, b, c, d, e, f
<1>10. last \in Seq(Ops(k))
  <2> DEFINE S == Ops(k)
  <2>1. a \in S /\ b \in S /\ c \in S /\ d \in S /\ e \in S /\ f \in S
    BY <1>8, <1>9
  <2> HIDE DEF S
  <2>2. last \in Seq(S)
    BY <2>1
  <2> QED BY <2>2 DEF S
<1>11. PICK s3 : Makes(last, x, s3, s9) /\ \E r, q : /\ Makes(A, x, s0, r) /\ Makes(B, x, r, q)
                                                  /\ Makes(C, x, q, s3)
  <2> DEFINE list == last
  <2>1. list \in Seq(Ops(k)) /\ Makes(((A \o B) \o C) \o list, x, s0, s9)
    BY <1>1, <1>10
  <2>2. A \o B \in Seq(Ops(k)) /\ (A \o B) \o C \in Seq(Ops(k))
    BY <1>5, <1>6, <1>7, ListsOfOps
  <2> HIDE DEF list
  <2>3. PICK s : Makes((A \o B) \o C, x, s0, s) /\ Makes(list, x, s, s9)
    BY <2>1, <2>2, MakesBoth
  <2>4. PICK q : Makes(A \o B, x, s0, q) /\ Makes(C, x, q, s)
    BY <1>7, <2>2, <2>3, MakesBoth
  <2>5. PICK r : Makes(A, x, s0, r) /\ Makes(B, x, r, q)
    BY <1>5, <1>6, <2>4, MakesBoth
  <2> QED BY <2>3, <2>4, <2>5 DEF list
<1> DEFINE In3(t) == InSet(k, codes[x], t)
           Holds(r) == Meets(k, r, codes[x])
<1>12. (2 \in s3 <=> In3(0)) /\ (3 \in s3 <=> In3(1)) /\ (4 \in s3 <=> In3(2))
  <2>1. PICK r, q : Makes(A, x, s0, r) /\ Makes(B, x, r, q) /\ Makes(C, x, q, s3)
    BY <1>11
  <2>2. 2 \in r <=> In3(0)
    BY <1>5, <2>1
  <2>3. (3 \in q <=> In3(1)) /\ (2 \in q <=> 2 \in r)
    BY <1>6, <2>1
  <2>4. (4 \in s3 <=> In3(2)) /\ (2 \in s3 <=> 2 \in q) /\ (3 \in s3 <=> 3 \in q)
    BY <1>7, <2>1
  <2> QED BY <2>2, <2>3, <2>4
<1>13. PICK s4, s5, s6, s7, s8 :
         /\ Leaves(a, x, s3, s4) /\ Leaves(b, x, s4, s5) /\ Leaves(c, x, s5, s6)
         /\ Leaves(d, x, s6, s7) /\ Leaves(e, x, s7, s8) /\ Leaves(f, x, s8, s9)
  BY <1>8, <1>9, <1>11, MakesSix
<1>14. (1 \in s4 <=> Holds(28)) /\ \A u : u # 1 => (u \in s4 <=> u \in s3)
  BY <1>4, <1>13, ScanLeaves DEF a
<1>15. (1 \in s5 <=> 1 \in s4 \/ Holds(29)) /\ \A u : u # 1 => (u \in s5 <=> u \in s4)
  BY <1>4, <1>13, ScanLeaves DEF b
<1>16. (1 \in s6 <=> 1 \in s5 /\ Holds(30)) /\ \A u : u # 1 => (u \in s6 <=> u \in s5)
  BY <1>4, <1>13, ScanLeaves DEF c
<1>17. (2 \in s7 <=> 2 \in s6 \/ 3 \in s6) /\ \A u : u # 2 => (u \in s7 <=> u \in s6)
  BY <1>13, CombinedLeaves DEF d
<1>18. (2 \in s8 <=> 2 \in s7 \/ 4 \in s7) /\ \A u : u # 2 => (u \in s8 <=> u \in s7)
  BY <1>13, CombinedLeaves DEF e
<1>19. 1 \in s9 <=> 1 \in s8 /\ 2 \in s8
  BY <1>13, CombinedLeaves DEF f
<1>20. Expected(k, codes[x]) <=>
         (In3(0) \/ In3(1) \/ In3(2)) /\ (Holds(28) \/ Holds(29)) /\ Holds(30)
  <2>1. \A t : t \in 0..2 <=> t \in {0, 1, 2}
    OBVIOUS
  <2> QED BY <1>2, <2>1
<1> HIDE DEF In3, Holds
<1>21. /\ 2 \in s6 <=> 2 \in s3
       /\ 3 \in s6 <=> 3 \in s3
       /\ 4 \in s7 <=> 4 \in s3
  <2>1. \A u : u # 1 => (u \in s6 <=> u \in s3)
    BY <1>14, <1>15, <1>16
  <2> QED BY <1>17, <2>1
<1>22. 2 \in s8 <=> In3(0) \/ In3(1) \/ In3(2)
  BY <1>12, <1>17, <1>18, <1>21
<1>23. 1 \in s8 <=> (Holds(28) \/ Holds(29)) /\ Holds(30)
  BY <1>14, <1>15, <1>16, <1>17, <1>18
<1> QED BY <1>1, <1>19, <1>20, <1>22, <1>23

----------------------------------------------------------------------------
(***************************************************************************)
(* The execution models the drivers run: those of the queries, the tests   *)
(* of as many columns as there are literals, and the single-column         *)
(* kernels.  Pairs of scans are not execution models, and have no answer.  *)
(***************************************************************************)
IsExecutionModel(p) ==
  \/ \E k \in ConjunctiveQueries, num \in Nat : p \in ConjunctiveModels(k, num)
  \/ \E num \in Nat : p \in Q7_models(num) \cup Q12_models(num) \cup {Q19_model(num)}
  \/ \E width \in 1..32, n \in Nat \ {0}, num \in Nat : \E values \in [1..n -> CodesOf(width)] :
       p = ColumnTest(width, values, num)
  \/ \E width \in 1..32, num \in Nat : \E values \in [1..4 -> CodesOf(width)] :
       p = ColumnCTest(width, values, num)
  \/ \E width \in 1..32, num \in Nat :
       \/ \E v \in CodesOf(width) : p = column_cmp_with_literal(width, v, num)
       \/ p = two_column_cmp(width, num)
  \/ p.kernel.query = "pair"

LEMMA ExecutionModelsAnswer ==
  ASSUME TypeOK, NEW p, IsExecutionModel(p), p.kernel.query # "pair"
  PROVE  Answers(p)
<1>1. CASE \E k \in ConjunctiveQueries, num \in Nat : p \in ConjunctiveModels(k, num)
  BY <1>1, ConjunctiveModelsAnswer
<1>2. CASE \E num \in Nat : p \in Q7_models(num) \cup Q12_models(num) \cup {Q19_model(num)}
  BY <1>2, Q7ModelsAnswer, Q12ModelsAnswer, Q19ModelAnswers
<1>3. CASE \E width \in 1..32, n \in Nat \ {0}, num \in Nat : \E values \in [1..n -> CodesOf(width)] :
             p = ColumnTest(width, values, num)
  <2>1. PICK width \in 1..32, n \in Nat \ {0}, num \in Nat :
          \E values \in [1..n -> CodesOf(width)] : p = ColumnTest(width, values, num)
    BY <1>3
  <2>2. PICK values \in [1..n -> CodesOf(width)] : p = ColumnTest(width, values, num)
    BY <2>1
  <2>3. Len(values) = n /\ \A j \in 1..n : values[j] \in CodesOf(width)
    BY ListOf
  <2> QED BY <2>2, <2>3, ColumnTestAnswers
<1>4. CASE \E width \in 1..32, num \in Nat : \E values \in [1..4 -> CodesOf(width)] :
             p = ColumnCTest(width, values, num)
  <2>1. PICK width \in 1..32, num \in Nat :
          \E values \in [1..4 -> CodesOf(width)] : p = ColumnCTest(width, values, num)
    BY <1>4
  <2>2. PICK values \in [1..4 -> CodesOf(width)] : p = ColumnCTest(width, values, num)
    BY <2>1
  <2>3. Len(values) = 4 /\ \A j \in 1..4 : values[j] \in CodesOf(width)
    BY ListOf
  <2> QED BY <2>2, <2>3, ColumnCTestAnswers
<1>5. CASE \E width \in 1..32, num \in Nat :
             \/ \E v \in CodesOf(width) : p = column_cmp_with_literal(width, v, num)
             \/ p = two_column_cmp(width, num)
  <2>1. PICK width \in 1..32, num \in Nat :
          \/ \E v \in CodesOf(width) : p = column_cmp_with_literal(width, v, num)
          \/ p = two_column_cmp(width, num)
    BY <1>5
  <2>2. CASE p = two_column_cmp(width, num)
    <3> DEFINE pred == CompareColumns("kLess", 1, 2)
    <3>1. p = SingleColumnKernel(width, pred, num) /\ pred = CompareColumns("kLess", 1, 2)
      BY <2>2 DEF two_column_cmp
    <3> HIDE DEF pred
    <3> QED BY <3>1, SingleColumnAnswers
  <2>3. CASE \E v \in CodesOf(width) : p = column_cmp_with_literal(width, v, num)
    <3>1. PICK v \in CodesOf(width) : p = column_cmp_with_literal(width, v, num)
      BY <2>3
    <3> DEFINE pred == Compare("kLess", 1, v)
    <3>2. p = SingleColumnKernel(width, pred, num) /\ pred = Compare("kLess", 1, v)
      BY <3>1 DEF column_cmp_with_literal
    <3> HIDE DEF pred
    <3> QED BY <3>2, SingleColumnAnswers
  <2> QED BY <2>1, <2>2, <2>3
<1> QED BY <1>1, <1>2, <1>3, <1>4, <1>5 DEF IsExecutionModel

(* They have a bit vector for the answer.                                  *)
LEMMA ExecutionModelsHaveVectors ==
  ASSUME NEW p, IsExecutionModel(p), p.kernel.query # "pair"
  PROVE  p.vectors \in 1..4
<1>1. CASE \E k \in ConjunctiveQueries, num \in Nat : p \in ConjunctiveModels(k, num)
  BY <1>1 DEF ConjunctiveModels, Program
<1>2. CASE \E num \in Nat : p \in Q7_models(num) \cup Q12_models(num) \cup {Q19_model(num)}
  BY <1>2 DEF Q7_models, Q12_models, Q19_model, Program
<1>3. CASE \E width \in 1..32, n \in Nat \ {0}, num \in Nat : \E values \in [1..n -> CodesOf(width)] :
             p = ColumnTest(width, values, num)
  BY <1>3 DEF ColumnTest, Program
<1>4. CASE \E width \in 1..32, num \in Nat : \E values \in [1..4 -> CodesOf(width)] :
             p = ColumnCTest(width, values, num)
  BY <1>4 DEF ColumnCTest, Program
<1>5. CASE \E width \in 1..32, num \in Nat :
             \/ \E v \in CodesOf(width) : p = column_cmp_with_literal(width, v, num)
             \/ p = two_column_cmp(width, num)
  <2>1. \A width, pred, num : SingleColumnKernel(width, pred, num).vectors = 1
    BY DEF SingleColumnKernel, Program
  <2>2. PICK width, num :
          \/ \E v : p = column_cmp_with_literal(width, v, num)
          \/ p = two_column_cmp(width, num)
    BY <1>5
  <2>3. \E pred : p = SingleColumnKernel(width, pred, num)
    BY <2>2 DEF column_cmp_with_literal, two_column_cmp
  <2> QED BY <2>1, <2>3
<1> QED BY <1>1, <1>2, <1>3, <1>4, <1>5 DEF IsExecutionModel

(* When the operations of an execution model are done, the bit of every    *)
(* tuple is the driver's predicate on its codes: for every one of them, of *)
(* every size of block, with every table.                                  *)
THEOREM ModelsAnswerTheirQueries ==
  ASSUME \A p \in Programs : IsExecutionModel(p)
  PROVE  Spec => []EveryModelAnswersTheQuery
<1>1. Inv /\ HistoryInv => EveryModelAnswersTheQuery
  <2> SUFFICES ASSUME Inv, HistoryInv, Finished, program.kernel.query # "pair",
                      NEW x \in TupleIds
               PROVE  GetBit(bvblock[1], x) <=> Expected(program.kernel, codes[x])
    BY DEF EveryModelAnswersTheQuery
  <2>1. /\ TypeOK /\ program \in Programs /\ WordsWritten = 0 /\ ip = Len(program.ops) + 1
        /\ Len(program.ops) \in Nat
    BY ProgramFields DEF Inv, TypeOK, Finished, WordsWritten
  <2>2. PICK h \in Histories : IsPast(h, x)
    BY DEF HistoryInv
  <2> DEFINE l == Len(program.ops)
  <2>3. Ran(h, x, l) /\ Held(x) = h[l]
    <3>1. ip - 1 = l /\ ~(x \div kNumWordBits < WordsWritten)
      BY <2>1, Sizes, ProgramFields DEF TupleIds
    <3> QED BY <2>2, <3>1 DEF IsPast
  <2>4. Takes(h, x, 0, program.ops)
    BY <2>1, <2>3 DEF Ran, Takes
  <2>5. Makes(program.ops, x, h[0], Held(x))
    BY <2>1, <2>3, <2>4 DEF Makes
  <2>6. Answers(program)
    BY <2>1, ExecutionModelsAnswer
  <2>7. 1 \in Held(x) <=> Expected(program.kernel, codes[x])
    BY <2>5, <2>6 DEF Answers
  <2>8. 1 \in Vectors
    BY <2>1, ExecutionModelsHaveVectors DEF Vectors
  <2> QED BY <2>7, <2>8 DEF Held
<1> QED BY <1>1, InvCorrect, HistoryCorrect, PTL
=============================================================================
