-------------------------- MODULE ColumnClientProofs --------------------------
(***************************************************************************)
(* Proofs about ColumnClient, for every size of block and word, any number *)
(* of threads, and any script whose calls the functions are made for:      *)
(* ClientInv is inductive, so that no assertion fails and no bit is left   *)
(* behind the last tuple.                                                  *)
(***************************************************************************)
EXTENDS ColumnClientInvariant, StorageProofs

----------------------------------------------------------------------------
(* Blocks and the positions in them.                                       *)
LEMMA BlockCapacity == kNumTuplesPerBlock \in Nat \ {0}
  BY BlockAssumption

(* All blocks of a column are full but the last, which has the rest.       *)
LEMMA BlockSizes ==
  ASSUME NEW num \in Nat
  PROVE  /\ NumBlocks(num) \in Nat
         /\ num > 0 => NumBlocks(num) = CEIL(num, kNumTuplesPerBlock)
         /\ \A q \in Nat : q * kNumTuplesPerBlock < num => q + 1 \in 1..NumBlocks(num)
         /\ \A b \in 1..NumBlocks(num) :
              /\ BlockSize(num, b - 1) \in 1..kNumTuplesPerBlock
              /\ b < NumBlocks(num) => BlockSize(num, b - 1) = kNumTuplesPerBlock
              /\ b = NumBlocks(num) =>
                   BlockSize(num, b - 1) = num - (b - 1) * kNumTuplesPerBlock
<1> DEFINE k == kNumTuplesPerBlock
           q == (num - 1) \div k
           r == (num - 1) % k
<1>1. k \in Nat \ {0}
  BY BlockCapacity
<1>2. CASE num = 0
  <2>1. NumBlocks(num) = 0
    BY <1>2 DEF NumBlocks
  <2>2. \A p \in Nat : ~(p * kNumTuplesPerBlock < num)
    BY <1>1, <1>2
  <2> QED BY <1>2, <2>1, <2>2
<1>3. CASE num # 0
  <2>1. num - 1 = q * k + r /\ q \in Nat /\ r \in 0..(k - 1)
    BY <1>1, <1>3
  <2>2. NumBlocks(num) = q + 1 /\ NumBlocks(num) = CEIL(num, kNumTuplesPerBlock)
    BY <1>3 DEF NumBlocks, CEIL
  <2> HIDE DEF q, r
  <2>3. num = q * k + r + 1 /\ q * k \in Nat
    BY <1>1, <2>1
  <2>4. ASSUME NEW p \in Nat, p * k < num
        PROVE  p <= q
    <3>1. (q + 1) * k = q * k + k
      BY <1>1, <2>1
    <3>2. p * k < (q + 1) * k
      BY <1>1, <2>1, <2>3, <2>4, <3>1
    <3>3. p < q + 1
      BY <1>1, <2>1, <3>2
    <3> QED BY <2>1, <3>3
  <2>5. ASSUME NEW b \in 1..(q + 1)
        PROVE  /\ BlockSize(num, b - 1) \in 1..k
               /\ b < q + 1 => BlockSize(num, b - 1) = k
               /\ b = q + 1 => BlockSize(num, b - 1) = num - (b - 1) * k
    <3>1. CASE b = q + 1
      <4>1. num - (b - 1) * k = r + 1
        BY <2>1, <2>3, <3>1
      <4> QED BY <1>1, <2>1, <3>1, <4>1 DEF BlockSize, Min2
    <3>2. CASE b < q + 1
      <4>1. b * k <= q * k
        BY <1>1, <2>1, <3>2
      <4>2. b * k = (b - 1) * k + k /\ (b - 1) * k \in Nat /\ b * k \in Nat
        BY <1>1
      <4>3. num - (b - 1) * k >= k
        BY <1>1, <2>1, <2>3, <4>1, <4>2
      <4>4. num - (b - 1) * k \in Int
        BY <4>2
      <4> QED BY <1>1, <3>2, <4>3, <4>4 DEF BlockSize, Min2
    <3> QED BY <2>1, <2>5, <3>1, <3>2
  <2>6. \A p \in Nat : p * k < num => p + 1 \in 1..(q + 1)
    BY <2>1, <2>4
  <2> QED BY <1>3, <2>1, <2>2, <2>5, <2>6
<1> QED BY <1>2, <1>3

(* A position is so far into its block.                                    *)
LEMMA PositionOfBlock ==
  ASSUME NEW pos \in Nat
  PROVE  /\ block_id(pos) \in Nat /\ pos_in_block(pos) \in Positions /\ pos_in_block(pos) \in Nat
         /\ block_id(pos) * kNumTuplesPerBlock \in Nat
         /\ pos = block_id(pos) * kNumTuplesPerBlock + pos_in_block(pos)
<1>1. IsDivision(pos, kNumTuplesPerBlock, block_id(pos), pos_in_block(pos))
  BY BlockCapacity, Division DEF block_id, pos_in_block
<1> QED BY <1>1, BlockCapacity DEF IsDivision, Positions

(* A position of a column is in one of its blocks.                         *)
LEMMA BlockOfTuple ==
  ASSUME NEW num \in Nat, NEW pos \in Nat, pos < num
  PROVE  /\ block_id(pos) + 1 \in 1..NumBlocks(num)
         /\ pos_in_block(pos) < BlockSize(num, block_id(pos))
<1> DEFINE q == block_id(pos)
           p == pos_in_block(pos)
           k == kNumTuplesPerBlock
<1>1. q \in Nat /\ p \in 0..(k - 1) /\ q * k \in Nat /\ pos = q * k + p /\ k \in Nat \ {0}
  BY PositionOfBlock, BlockCapacity DEF Positions
<1> HIDE DEF q, p
<1>2. q + 1 \in 1..NumBlocks(num)
  BY <1>1, BlockSizes
<1>3. p < BlockSize(num, q)
  BY <1>1 DEF BlockSize, Min2
<1> QED BY <1>2, <1>3 DEF q, p

----------------------------------------------------------------------------
(* The fields of a column and of a bit vector.                             *)
LEMMA ColumnFields ==
  ASSUME NEW column, IsColumn(column)
  PROVE  /\ column.type \in ColumnType /\ column.bit_width \in 1..32
         /\ column.num_tuples \in Nat /\ NumBlocks(column.num_tuples) \in Nat
         /\ DOMAIN column.blocks = 1..NumBlocks(column.num_tuples)
         /\ Len(column.blocks) = NumBlocks(column.num_tuples)
         /\ \A b \in 1..NumBlocks(column.num_tuples) :
              /\ column.blocks[b] \in [num_tuples : {BlockSize(column.num_tuples, b - 1)},
                                       data : [Positions -> StoredCode(column)]]
              /\ column.blocks[b].num_tuples = BlockSize(column.num_tuples, b - 1)
              /\ column.blocks[b].data \in [Positions -> StoredCode(column)]
<1> DEFINE S == [num_tuples : 1..kNumTuplesPerBlock, data : [Positions -> StoredCode(column)]]
           n == NumBlocks(column.num_tuples)
<1>1. /\ column \in [type : ColumnType, bit_width : 1..32, num_tuples : Nat, blocks : [1..n -> S]]
      /\ \A b \in 1..n : column.blocks[b].num_tuples = BlockSize(column.num_tuples, b - 1)
  BY DEF IsColumn
<1> HIDE DEF S
<1>2. column.num_tuples \in Nat /\ column.blocks \in [1..n -> S]
  BY <1>1
<1>3. n \in Nat
  BY <1>2, BlockSizes
<1> HIDE DEF n
<1>4. DOMAIN column.blocks = 1..n /\ Len(column.blocks) = n
  BY <1>2, <1>3
<1>5. ASSUME NEW b \in 1..n
      PROVE  /\ column.blocks[b] \in [num_tuples : {BlockSize(column.num_tuples, b - 1)},
                                      data : [Positions -> StoredCode(column)]]
             /\ column.blocks[b].data \in [Positions -> StoredCode(column)]
  <2>1. column.blocks[b] \in S
    BY <1>2
  <2> QED BY <1>1, <2>1 DEF S
<1> QED BY <1>1, <1>2, <1>3, <1>4, <1>5 DEF n

(* A column is one with these fields.                                      *)
LEMMA MakesColumn ==
  ASSUME NEW type \in ColumnType, NEW width \in 1..32, NEW num \in Nat, NEW blocks,
         LET column == [type |-> type, bit_width |-> width, num_tuples |-> num, blocks |-> blocks]
         IN blocks \in [1..NumBlocks(num) ->
                          [num_tuples : 1..kNumTuplesPerBlock,
                           data : [Positions -> StoredCode(column)]]],
         \A b \in 1..NumBlocks(num) : blocks[b].num_tuples = BlockSize(num, b - 1)
  PROVE  IsColumn([type |-> type, bit_width |-> width, num_tuples |-> num, blocks |-> blocks])
  BY DEF IsColumn, StoredCode

LEMMA VectorFields ==
  ASSUME NEW bv, IsBitVector(bv)
  PROVE  /\ bv.num \in Nat /\ NumBlocks(bv.num) \in Nat
         /\ DOMAIN bv.blocks = 1..NumBlocks(bv.num)
         /\ Len(bv.blocks) = NumBlocks(bv.num)
         /\ \A b \in 1..NumBlocks(bv.num) :
              /\ bv.blocks[b].num = BlockSize(bv.num, b - 1)
              /\ bv.blocks[b].num \in 1..kNumTuplesPerBlock
              /\ bv.blocks[b].data \in Words(bv.blocks[b].num)
<1> DEFINE S == [num : 1..kNumTuplesPerBlock, data : UNION {Words(k) : k \in 1..kNumTuplesPerBlock}]
           n == NumBlocks(bv.num)
<1>1. /\ bv \in [num : Nat, blocks : [1..n -> S]]
      /\ \A b \in 1..n : /\ bv.blocks[b].num = BlockSize(bv.num, b - 1)
                         /\ bv.blocks[b].data \in Words(bv.blocks[b].num)
  BY DEF IsBitVector
<1> HIDE DEF S
<1>2. bv.num \in Nat /\ bv.blocks \in [1..n -> S]
  BY <1>1
<1>3. n \in Nat
  BY <1>2, BlockSizes
<1>4. \A b \in 1..n : BlockSize(bv.num, b - 1) \in 1..kNumTuplesPerBlock
  BY <1>2, BlockSizes
<1> HIDE DEF n
<1>5. DOMAIN bv.blocks = 1..n /\ Len(bv.blocks) = n
  BY <1>2, <1>3
<1> QED BY <1>1, <1>2, <1>3, <1>4, <1>5 DEF n

(* A column with other blocks of the same sizes.                           *)
LEMMA ChangedBlocks ==
  ASSUME NEW column, IsColumn(column), NEW blocks,
         blocks \in [1..NumBlocks(column.num_tuples) ->
                      [num_tuples : 1..kNumTuplesPerBlock,
                       data : [Positions -> StoredCode(column)]]],
         \A b \in 1..NumBlocks(column.num_tuples) :
           blocks[b].num_tuples = BlockSize(column.num_tuples, b - 1)
  PROVE  /\ IsColumn([column EXCEPT !.blocks = blocks])
         /\ [column EXCEPT !.blocks = blocks].num_tuples = column.num_tuples
<1> DEFINE T == [1..NumBlocks(column.num_tuples) ->
                   [num_tuples : 1..kNumTuplesPerBlock, data : [Positions -> StoredCode(column)]]]
           R == [type : ColumnType, bit_width : 1..32, num_tuples : Nat, blocks : T]
           new == [column EXCEPT !.blocks = blocks]
<1>1. column \in R /\ blocks \in T
  BY DEF IsColumn
<1> HIDE DEF T
<1>2. /\ new \in R /\ new.num_tuples = column.num_tuples /\ new.blocks = blocks
      /\ new.type = column.type /\ new.bit_width = column.bit_width
  BY <1>1
<1> HIDE DEF new
<1>3. StoredCode(new) = StoredCode(column)
  BY <1>2 DEF StoredCode
<1>4. IsColumn(new)
  BY <1>2, <1>3 DEF IsColumn, T
<1> QED BY <1>2, <1>4 DEF new

(* A column of another size.                                               *)
LEMMA ChangedSize ==
  ASSUME NEW column, IsColumn(column), NEW num \in Nat, NEW blocks,
         blocks \in [1..NumBlocks(num) -> [num_tuples : 1..kNumTuplesPerBlock,
                                           data : [Positions -> StoredCode(column)]]],
         \A b \in 1..NumBlocks(num) : blocks[b].num_tuples = BlockSize(num, b - 1)
  PROVE  LET new == [column EXCEPT !.num_tuples = num, !.blocks = blocks] IN
         IsColumn(new) /\ new.num_tuples = num
<1> DEFINE S == [1..NumBlocks(column.num_tuples) ->
                   [num_tuples : 1..kNumTuplesPerBlock, data : [Positions -> StoredCode(column)]]]
           T == [1..NumBlocks(num) ->
                   [num_tuples : 1..kNumTuplesPerBlock, data : [Positions -> StoredCode(column)]]]
           R(s) == [type : ColumnType, bit_width : 1..32, num_tuples : Nat, blocks : s]
           new == [column EXCEPT !.num_tuples = num, !.blocks = blocks]
<1>1. column \in R(S) /\ blocks \in T
  BY DEF IsColumn
<1> HIDE DEF S, T
<1>2. /\ new \in R(T) /\ new.num_tuples = num /\ new.blocks = blocks
      /\ new.type = column.type /\ new.bit_width = column.bit_width
  BY <1>1
<1> HIDE DEF new
<1>3. StoredCode(new) = StoredCode(column)
  BY <1>2 DEF StoredCode
<1>4. IsColumn(new)
  BY <1>2, <1>3 DEF IsColumn, T
<1> QED BY <1>2, <1>4 DEF new

(* A bit vector with other words in a block.                               *)
LEMMA ChangedVector ==
  ASSUME NEW bv, IsBitVector(bv), NEW b \in 1..NumBlocks(bv.num), NEW data,
         data \in Words(bv.blocks[b].num)
  PROVE  LET new == [bv EXCEPT !.blocks[b].data = data] IN
         /\ IsBitVector(new) /\ new.num = bv.num
         /\ \A k \in 1..NumBlocks(bv.num) :
              /\ new.blocks[k].num = bv.blocks[k].num
              /\ new.blocks[k].data = IF k = b THEN data ELSE bv.blocks[k].data
<1> DEFINE S == UNION {Words(k) : k \in 1..kNumTuplesPerBlock}
           B == [num : 1..kNumTuplesPerBlock, data : S]
           n == NumBlocks(bv.num)
           new == [bv EXCEPT !.blocks[b].data = data]
           changed == [bv.blocks[b] EXCEPT !.data = data]
           blocks == [bv.blocks EXCEPT ![b] = changed]
<1>1. bv \in [num : Nat, blocks : [1..n -> B]] /\ bv.blocks[b].num \in 1..kNumTuplesPerBlock
  BY VectorFields DEF IsBitVector
<1>2. data \in S
  BY <1>1
<1> HIDE DEF S, n
<1>3. bv.blocks \in [1..n -> B] /\ b \in 1..n /\ bv.blocks[b] \in B
  BY <1>1 DEF n
<1>4. changed \in B /\ changed.num = bv.blocks[b].num /\ changed.data = data
  BY <1>2, <1>3
<1> HIDE DEF B, changed
<1>5. blocks \in [1..n -> B] /\ \A k \in 1..n : blocks[k] = IF k = b THEN changed ELSE bv.blocks[k]
  BY <1>3, <1>4
<1>6. new = [bv EXCEPT !.blocks = blocks]
  BY DEF changed
<1> HIDE DEF blocks
<1>7. new \in [num : Nat, blocks : [1..n -> B]] /\ new.num = bv.num /\ new.blocks = blocks
  BY <1>1, <1>5, <1>6
<1> HIDE DEF new
<1>8. \A k \in 1..n : /\ new.blocks[k].num = bv.blocks[k].num
                      /\ new.blocks[k].data = IF k = b THEN data ELSE bv.blocks[k].data
  BY <1>4, <1>5, <1>7
<1>9. IsBitVector(new)
  <2>1. \A k \in 1..n : new.blocks[k].num = BlockSize(bv.num, k - 1)
    BY <1>8 DEF n, IsBitVector
  <2>2. \A k \in 1..n : new.blocks[k].data \in Words(new.blocks[k].num)
    BY <1>8 DEF n, IsBitVector
  <2> QED BY <1>7, <2>1, <2>2 DEF IsBitVector, n, B, S
<1> QED BY <1>7, <1>8, <1>9 DEF new, n

----------------------------------------------------------------------------
(* The arguments of the call in progress.                                  *)
LEMMA CallType ==
  ASSUME TypeOK, ip <= Len(script)
  PROVE  IsCall(Call)
<1>1. script \in Seq({script[k] : k \in DOMAIN script}) /\ \A k \in DOMAIN script : IsCall(script[k])
  BY ScriptsAssumption DEF TypeOK
<1>2. ip \in 1..Len(script)
  BY <1>1 DEF TypeOK
<1>3. ip \in DOMAIN script
  BY <1>1, <1>2
<1> QED BY <1>1, <1>3 DEF Call

(* Between calls all threads are idle.                                     *)
LEMMA CallReturns ==
  ASSUME ClientInv, script' = script, ip' = ip + 1, pc' = "call", load' = load, ~failed',
         next_block' \in Nat, DOMAIN running' = Threads,
         \A t \in Threads : running'[t] = None,
         DOMAIN columns' = {1, 2}, \A c \in {1, 2} : IsColumn(columns'[c]),
         DOMAIN bitvectors' = {1, 2}, \A v \in {1, 2} : IsBitVector(bitvectors'[v]),
         file_pos' \in Nat, failed' \in BOOLEAN,
         \A v \in {1, 2} : \A b \in 1..NumBlocks(bitvectors'[v].num) :
           TailIsClear(bitvectors'[v].blocks[b])
  PROVE  ClientInv'
<1>1. TypeOK'
  BY DEF ClientInv, TypeOK
<1>2. CallInv'
  BY DEF ClientInv, CallInv
<1>3. LoadInv'
  BY DEF LoadInv
<1>4. TailInv'
  BY DEF TailInv
<1> QED BY <1>1, <1>2, <1>3, <1>4 DEF ClientInv

----------------------------------------------------------------------------
(* What is stored of a code, and what new memory holds.                    *)
LEMMA StoredType ==
  ASSUME NEW column, column.type \in ColumnType, column.bit_width \in 1..32, NEW value \in Nat
  PROVE  Stored(column, value) \in StoredCode(column)
<1>1. CASE column.type = "kNaive"
  <2>1. AsDtype(column.bit_width, value) \in Nat
    BY DEF AsDtype
  <2> QED BY <1>1, <2>1 DEF Stored, StoredCode
<1>2. CASE column.type # "kNaive"
  <2> DEFINE n == kNumBytesPerCode(column.bit_width)
             padded == Padded(value, kNumPaddingBits(column.bit_width))
  <2>1. n \in 1..4 /\ padded \in Nat
    <3>1. PICK w \in 1..32 : w = column.bit_width
      OBVIOUS
    <3>2. /\ kNumBytesPerCode(w) \in 1..4
          /\ PowerOfTwo[kNumPaddingBits(w) + 1] \in {1, 2, 4, 8, 16, 32, 64, 128}
      BY Widths
    <3>3. PowerOfTwo[kNumPaddingBits(w) + 1] \in Nat
      BY <3>2
    <3> QED BY <3>1, <3>2, <3>3 DEF Padded
  <2>2. ASSUME NEW k \in 1..n
        PROVE  FLIP(ByteOf(padded, n, k)) \in ByteUnit
    <3>1. n - k + 1 \in 1..4
      BY <2>1
    <3>2. Weight[n - k + 1] \in Nat \ {0}
      BY <3>1, SMT DEF Weight
    <3> HIDE DEF n, padded
    <3>3. ByteOf(padded, n, k) \in ByteUnit
      BY <2>1, <3>2, SMT DEF ByteOf, ByteUnit
    <3> QED BY <3>3, SMT DEF FLIP, ByteUnit
  <2>3. SetTuple(value, column.bit_width) = [k \in 1..n |-> FLIP(ByteOf(padded, n, k))]
    BY DEF SetTuple
  <2> HIDE DEF n, padded
  <2>4. SetTuple(value, column.bit_width) \in [1..n -> ByteUnit]
    BY <2>2, <2>3
  <2> QED BY <1>2, <2>4 DEF Stored, StoredCode, n
<1> QED BY <1>1, <1>2

LEMMA FreshType ==
  ASSUME NEW column, NEW fresh \in FreshData(column)
  PROVE  fresh \in [Positions -> StoredCode(column)]
<1>1. 0 \in ByteUnit /\ 255 \in ByteUnit
  BY DEF ByteUnit
<1> QED BY <1>1 DEF FreshData, StoredCode

(* Other data in one block of a column.                                    *)
LEMMA ChangedData ==
  ASSUME NEW column, IsColumn(column), NEW b \in 1..NumBlocks(column.num_tuples), NEW data,
         data \in [Positions -> StoredCode(column)]
  PROVE  LET new == [column EXCEPT !.blocks[b].data = data] IN
         IsColumn(new) /\ new.num_tuples = column.num_tuples
<1> DEFINE D == [Positions -> StoredCode(column)]
           S == [num_tuples : 1..kNumTuplesPerBlock, data : D]
           n == NumBlocks(column.num_tuples)
           changed == [column.blocks[b] EXCEPT !.data = data]
           blocks == [column.blocks EXCEPT ![b] = changed]
<1>1. /\ column.num_tuples \in Nat
      /\ \A k \in 1..n : column.blocks[k].num_tuples = BlockSize(column.num_tuples, k - 1)
  BY ColumnFields
<1>2. column.blocks \in [1..n -> S] /\ data \in D
  BY DEF IsColumn
<1> HIDE DEF D
<1>3. column.blocks[b] \in S /\ changed \in S /\ changed.num_tuples = column.blocks[b].num_tuples
  BY <1>2
<1> HIDE DEF S, changed
<1>4. blocks \in [1..n -> S] /\ \A k \in 1..n : blocks[k] = IF k = b THEN changed ELSE column.blocks[k]
  BY <1>2, <1>3
<1>5. \A k \in 1..n : blocks[k].num_tuples = BlockSize(column.num_tuples, k - 1)
  BY <1>1, <1>3, <1>4
<1>6. [column EXCEPT !.blocks[b].data = data] = [column EXCEPT !.blocks = blocks]
  BY DEF changed
<1> HIDE DEF blocks
<1>7. /\ IsColumn([column EXCEPT !.blocks = blocks])
      /\ [column EXCEPT !.blocks = blocks].num_tuples = column.num_tuples
  <2>1. blocks \in [1..NumBlocks(column.num_tuples) ->
                     [num_tuples : 1..kNumTuplesPerBlock, data : [Positions -> StoredCode(column)]]]
    BY <1>4 DEF S, D
  <2> HIDE DEF n
  <2>2. \A k \in 1..NumBlocks(column.num_tuples) :
          blocks[k].num_tuples = BlockSize(column.num_tuples, k - 1)
    BY <1>5 DEF n
  <2> QED BY <2>1, <2>2, ChangedBlocks
<1> QED BY <1>6, <1>7

----------------------------------------------------------------------------
(* What an action between calls starts from.                               *)
LEMMA BetweenCalls ==
  ASSUME ClientInv, NEW ops, Calls(ops)
  PROVE  /\ TypeOK /\ IsCall(Call) /\ pc = "call" /\ Call.op \in ops /\ ip <= Len(script)
         /\ \A t \in Threads : running[t] = None
         /\ \A v \in {1, 2} : \A b \in 1..NumBlocks(bitvectors[v].num) :
              TailIsClear(bitvectors[v].blocks[b])
<1>1. TypeOK /\ pc = "call" /\ Call.op \in ops /\ ip <= Len(script)
  BY DEF ClientInv, Calls
<1>2. IsCall(Call)
  BY <1>1, CallType
<1>3. \A t \in Threads : running[t] = None
  BY <1>1 DEF ClientInv, CallInv
<1>4. \A v \in {1, 2} : \A b \in 1..NumBlocks(bitvectors[v].num) :
        TailIsClear(bitvectors[v].blocks[b])
  BY <1>1 DEF ClientInv, TailInv
<1> QED BY <1>1, <1>2, <1>3, <1>4

(* An action that changes one column only.                                 *)
LEMMA OneColumn ==
  ASSUME ClientInv, NEW ops, Calls(ops), Returns, InStep, NEW c \in {1, 2}, NEW column,
         columns' = [columns EXCEPT ![c] = column], IsColumn(column),
         UNCHANGED bitvectors, file_pos' \in Nat, ~failed', failed' \in BOOLEAN
  PROVE  ClientInv'
<1>1. /\ TypeOK /\ \A t \in Threads : running[t] = None
      /\ \A v \in {1, 2} : \A b \in 1..NumBlocks(bitvectors[v].num) :
           TailIsClear(bitvectors[v].blocks[b])
  BY BetweenCalls
<1>2. DOMAIN columns' = {1, 2} /\ \A d \in {1, 2} : IsColumn(columns'[d])
  BY <1>1 DEF TypeOK
<1> QED BY <1>1, <1>2, CallReturns DEF TypeOK, Returns, InStep, loop

LEMMA ColumnStep ==
  ASSUME ClientInv, Column
  PROVE  ClientInv'
<1>1. IsCall(Call) /\ Call.op = "Column"
  BY BetweenCalls DEF Column
<1>2. Call.column \in {1, 2} /\ Call.type \in ColumnType /\ Call.bit_width \in 1..32 /\ Call.num \in Nat
  BY <1>1 DEF IsCall, ColumnCalls
<1>3. PICK fresh \in FreshData(Call) :
        columns' = [columns EXCEPT ![Call.column] =
          [type |-> Call.type, bit_width |-> Call.bit_width, num_tuples |-> Call.num,
           blocks |-> [b \in 1..NumBlocks(Call.num) |->
                         [num_tuples |-> BlockSize(Call.num, b - 1), data |-> fresh]]]]
  BY DEF Column
<1> DEFINE blocks == [b \in 1..NumBlocks(Call.num) |->
                        [num_tuples |-> BlockSize(Call.num, b - 1), data |-> fresh]]
           column == [type |-> Call.type, bit_width |-> Call.bit_width, num_tuples |-> Call.num,
                      blocks |-> blocks]
<1>4. fresh \in [Positions -> StoredCode(Call)] /\ StoredCode(column) = StoredCode(Call)
  BY FreshType DEF StoredCode
<1>5. \A b \in 1..NumBlocks(Call.num) : BlockSize(Call.num, b - 1) \in 1..kNumTuplesPerBlock
  BY <1>2, BlockSizes
<1>6. blocks \in [1..NumBlocks(Call.num) -> [num_tuples : 1..kNumTuplesPerBlock,
                                             data : [Positions -> StoredCode(column)]]]
  BY <1>4, <1>5
<1>7. \A b \in 1..NumBlocks(Call.num) : blocks[b].num_tuples = BlockSize(Call.num, b - 1)
  OBVIOUS
<1>8. IsColumn(column)
  <2> HIDE DEF blocks
  <2> QED BY <1>2, <1>6, <1>7, MakesColumn
<1> HIDE DEF column
<1>9. Calls({"Column"}) /\ Returns /\ InStep /\ UNCHANGED <<bitvectors, file_pos, failed>>
  BY DEF Column
<1>10. file_pos' \in Nat /\ ~failed' /\ failed' \in BOOLEAN
  BY <1>9 DEF ClientInv, TypeOK
<1>11. columns' = [columns EXCEPT ![Call.column] = column]
  BY <1>3 DEF column
<1> QED BY <1>2, <1>8, <1>9, <1>10, <1>11, OneColumn

(* The last block of a column has the rest, or is full if there is none.   *)
LEMMA LastBlock ==
  ASSUME NEW num \in Nat \ {0}
  PROVE  BlockSize(num, NumBlocks(num) - 1) =
           IF num % kNumTuplesPerBlock = 0 THEN kNumTuplesPerBlock ELSE num % kNumTuplesPerBlock
<1> DEFINE k == kNumTuplesPerBlock
           n == NumBlocks(num)
           s == BlockSize(num, n - 1)
<1>1. k \in Nat \ {0}
  BY BlockCapacity
<1>2. n \in Nat \ {0} /\ n \in 1..n
  <2>1. 0 * k < num
    BY <1>1
  <2>2. n \in Nat /\ 0 + 1 \in 1..n
    BY <2>1, BlockSizes
  <2> QED BY <2>2
<1>3. s \in 1..k /\ s = num - (n - 1) * k
  BY <1>2, BlockSizes
<1> HIDE DEF n, s
<1>4. num = (n - 1) * k + s /\ n * k = (n - 1) * k + k /\ n - 1 \in Nat /\ (n - 1) * k \in Nat
  BY <1>1, <1>2, <1>3
<1>5. CASE s = k
  <2>1. IsDivision(num, k, n, 0)
    BY <1>1, <1>2, <1>4, <1>5 DEF IsDivision
  <2> QED BY <1>1, <1>5, <2>1, UniqueDivision DEF s, n
<1>6. CASE s # k
  <2>1. IsDivision(num, k, n - 1, s)
    BY <1>1, <1>3, <1>4, <1>6 DEF IsDivision
  <2>2. num % k = s
    BY <1>1, <2>1, UniqueDivision
  <2> QED BY <1>3, <2>2 DEF s, n
<1> QED BY <1>5, <1>6

(* An allowed Resize leaves blocks of the sizes of a new column.           *)
LEMMA ResizedSizes ==
  ASSUME NEW column, IsColumn(column), NEW num \in Nat \ {0},
         NEW fresh \in [Positions -> StoredCode(column)],
         \/ NumBlocks(num) > NumBlocks(column.num_tuples)
         \/ /\ NumBlocks(num) = NumBlocks(column.num_tuples)
            /\ num % kNumTuplesPerBlock # 0 \/ num = column.num_tuples
  PROVE  LET blocks == ResizedBlocks(column.blocks, num, fresh) IN
         /\ blocks \in [1..NumBlocks(num) -> [num_tuples : 1..kNumTuplesPerBlock,
                                              data : [Positions -> StoredCode(column)]]]
         /\ \A b \in 1..NumBlocks(num) : blocks[b].num_tuples = BlockSize(num, b - 1)
<1> DEFINE k == kNumTuplesPerBlock
           D == [Positions -> StoredCode(column)]
           S == [num_tuples : 1..k, data : D]
           old == NumBlocks(column.num_tuples)
           new == NumBlocks(num)
           last == num % k
           grown == [b \in 1..new |->
                       IF b > old THEN [num_tuples |-> k, data |-> fresh]
                       ELSE IF b = old THEN [column.blocks[b] EXCEPT !.num_tuples = k]
                       ELSE column.blocks[b]]
           changed == IF new > old THEN grown ELSE column.blocks
           blocks == IF last = 0 THEN changed ELSE [changed EXCEPT ![new].num_tuples = last]
<1>1. /\ k \in Nat \ {0} /\ column.num_tuples \in Nat /\ old \in Nat /\ new \in Nat
      /\ last \in 0..(k - 1) /\ fresh \in D
  <2>1. column.num_tuples \in Nat /\ old \in Nat
    BY ColumnFields
  <2>2. new \in Nat
    BY BlockSizes
  <2>3. k \in Nat \ {0} /\ last \in 0..(k - 1)
    BY BlockCapacity
  <2> QED BY <2>1, <2>2, <2>3
<1>2. column.blocks \in [1..old -> S] /\ Len(column.blocks) = old /\ CEIL(num, k) = new
  BY ColumnFields, BlockSizes DEF IsColumn
<1>3. /\ \A b \in 1..old : column.blocks[b].num_tuples = BlockSize(column.num_tuples, b - 1)
      /\ \A b \in 1..old : b < old => column.blocks[b].num_tuples = k
      /\ \A b \in 1..new : b < new => BlockSize(num, b - 1) = k
  <2>1. \A b \in 1..old : column.blocks[b].num_tuples = BlockSize(column.num_tuples, b - 1)
    BY ColumnFields
  <2>2. \A b \in 1..old : b < old => BlockSize(column.num_tuples, b - 1) = k
    BY <1>1, BlockSizes
  <2>3. \A b \in 1..new : b < new => BlockSize(num, b - 1) = k
    BY BlockSizes
  <2> HIDE DEF old, new
  <2> QED BY <2>1, <2>2, <2>3
<1>4. /\ new \in 1..new
      /\ BlockSize(num, new - 1) = IF last = 0 THEN k ELSE last
  <2>1. 0 * k < num
    BY <1>1
  <2>2. 0 + 1 \in 1..new
    BY <2>1, BlockSizes
  <2> QED BY <1>1, <2>2, LastBlock
<1>5. new > old \/ (new = old /\ (last # 0 \/ num = column.num_tuples))
  OBVIOUS
<1> HIDE DEF D, old, new, last
<1>6. k \in 1..k
  BY <1>1
<1>7. /\ changed \in [1..new -> S]
      /\ \A b \in 1..new : b < new => changed[b].num_tuples = k
      /\ new > old => changed[new].num_tuples = k
  <2>1. CASE new > old
    <3>1. ASSUME NEW b \in 1..new
          PROVE  grown[b] \in S /\ grown[b].num_tuples = k
      <4>1. CASE b > old
        BY <1>1, <1>6, <4>1
      <4>2. CASE b <= old
        <5>1. b \in 1..old /\ column.blocks[b] \in S
          BY <1>1, <1>2, <4>2
        <5> QED BY <1>1, <1>3, <1>6, <4>2, <5>1
      <4> QED BY <1>1, <4>1, <4>2
    <3> HIDE DEF S
    <3>2. grown \in [1..new -> S]
      BY <3>1
    <3> QED BY <1>4, <2>1, <3>1, <3>2
  <2>2. CASE ~(new > old)
    <3>1. new = old /\ changed = column.blocks
      BY <1>1, <1>5, <2>2
    <3> QED BY <1>2, <1>3, <2>2, <3>1
  <2> QED BY <2>1, <2>2
<1>8. Len(changed) = new
  BY <1>1, <1>7
<1>9. ResizedBlocks(column.blocks, num, fresh) = blocks
  <2>1. ~(new < old)
    BY <1>1, <1>5
  <2> QED BY <1>2, <1>8, <2>1 DEF ResizedBlocks, last
<1>10. last = 0 /\ new = old => changed[new].num_tuples = BlockSize(num, new - 1)
  BY <1>1, <1>3, <1>4, <1>5
<1> HIDE DEF changed
<1>11. /\ blocks \in [1..new -> S]
       /\ \A b \in 1..new : blocks[b].num_tuples = BlockSize(num, b - 1)
  <2>1. CASE last = 0
    <3>1. changed[new].num_tuples = BlockSize(num, new - 1)
      BY <1>1, <1>4, <1>5, <1>7, <1>10, <2>1
    <3>2. \A b \in 1..new : b = new \/ b < new
      BY <1>1
    <3> QED BY <1>3, <1>7, <2>1, <3>1, <3>2
  <2>2. CASE last # 0
    <3> DEFINE filled == [changed[new] EXCEPT !.num_tuples = last]
    <3>1. last \in 1..k
      BY <1>1, <2>2
    <3>2. filled \in S /\ filled.num_tuples = last
      BY <1>4, <1>7, <3>1
    <3> HIDE DEF filled, S
    <3>3. blocks = [changed EXCEPT ![new] = filled]
      BY <2>2 DEF filled
    <3>4. blocks \in [1..new -> S] /\ \A b \in 1..new : blocks[b] = IF b = new THEN filled ELSE changed[b]
      BY <1>4, <1>7, <3>2, <3>3
    <3>5. \A b \in 1..new : b = new \/ b < new
      BY <1>1
    <3> HIDE DEF blocks
    <3> QED BY <1>3, <1>4, <1>7, <2>2, <3>2, <3>4, <3>5
  <2> QED BY <2>1, <2>2
<1> HIDE DEF blocks
<1> QED BY <1>9, <1>11 DEF new, D

LEMMA ResizeStep ==
  ASSUME ClientInv, ClientKeepsContract, Resize
  PROVE  ClientInv'
<1>1. IsCall(Call) /\ Call.op = "Resize" /\ TypeOK /\ pc = "call" /\ ip <= Len(script)
  BY BetweenCalls DEF Resize
<1> DEFINE c == Call.column
           column == columns[c]
           num == Call.num
<1>2. c \in {1, 2} /\ num \in Nat /\ IsColumn(column) /\ DOMAIN columns = {1, 2}
  BY <1>1 DEF IsCall, ColumnCalls, TypeOK
<1>3. ResizesRight
  BY <1>1 DEF ClientKeepsContract, IsAllowed
<1>4. /\ num \in Nat \ {0} /\ CEIL(num, kNumTuplesPerBlock) = NumBlocks(num)
      /\ Len(column.blocks) = NumBlocks(column.num_tuples)
  <2>1. Call.num > 0
    BY <1>3, Zenon DEF ResizesRight
  <2>2. num \in Nat \ {0}
    BY <1>2, <2>1
  <2>3. CEIL(num, kNumTuplesPerBlock) = NumBlocks(num)
    BY <2>2 DEF NumBlocks
  <2>4. Len(column.blocks) = NumBlocks(column.num_tuples)
    <3> HIDE DEF column
    <3> QED BY <1>2, ColumnFields, Zenon
  <2> QED BY <2>2, <2>3, <2>4
<1>5. \/ NumBlocks(num) > NumBlocks(column.num_tuples)
      \/ /\ NumBlocks(num) = NumBlocks(column.num_tuples)
         /\ num % kNumTuplesPerBlock # 0 \/ num = column.num_tuples
  BY <1>3, <1>4 DEF ResizesRight
<1>6. PICK fresh \in FreshData(column) :
        columns' = [columns EXCEPT ![c].num_tuples = num,
                                   ![c].blocks = ResizedBlocks(@, num, fresh)]
  BY DEF Resize
<1>7. fresh \in [Positions -> StoredCode(column)]
  BY FreshType
<1> DEFINE blocks == ResizedBlocks(column.blocks, num, fresh)
           new == [column EXCEPT !.num_tuples = num, !.blocks = blocks]
<1>8. columns' = [columns EXCEPT ![c] = new]
  BY <1>2, <1>6
<1> HIDE DEF c, column, num
<1>9. /\ blocks \in [1..NumBlocks(num) -> [num_tuples : 1..kNumTuplesPerBlock,
                                           data : [Positions -> StoredCode(column)]]]
      /\ \A b \in 1..NumBlocks(num) : blocks[b].num_tuples = BlockSize(num, b - 1)
  BY <1>2, <1>4, <1>5, <1>7, ResizedSizes
<1> HIDE DEF blocks
<1>10. IsColumn(new)
  BY <1>2, <1>9, ChangedSize
<1>11. new.blocks = blocks
  BY <1>2 DEF IsColumn
<1>12. columns'[c].blocks = blocks
  BY <1>2, <1>8, <1>11
<1>13. Len(blocks) = NumBlocks(num)
  BY <1>2, <1>9, BlockSizes
<1>14. ~failed' /\ failed' \in BOOLEAN
  <2>1. failed' = (Len(columns'[c].blocks) # CEIL(num, kNumTuplesPerBlock))
    BY DEF Resize, c, num
  <2> QED BY <1>4, <1>12, <1>13, <2>1
<1>15. /\ Calls({"Resize"}) /\ Returns /\ InStep /\ UNCHANGED bitvectors
       /\ file_pos' \in Nat
  BY <1>1 DEF Resize, TypeOK
<1> HIDE DEF new
<1> QED BY <1>2, <1>8, <1>10, <1>14, <1>15, OneColumn

----------------------------------------------------------------------------
(* The other calls on a column that return at once.                        *)
LEMMA SetTupleStep ==
  ASSUME ClientInv, ClientKeepsContract, SetTuple_
  PROVE  ClientInv'
<1>1. IsCall(Call) /\ Call.op = "SetTuple" /\ TypeOK /\ pc = "call" /\ ip <= Len(script)
  BY BetweenCalls DEF SetTuple_
<1> DEFINE c == Call.column
           column == columns[c]
           b == block_id(Call.pos) + 1
           p == pos_in_block(Call.pos)
           data == [column.blocks[b].data EXCEPT ![p] = Stored(column, Call.value)]
           new == [column EXCEPT !.blocks[b].data = data]
<1>2. /\ c \in {1, 2} /\ Call.pos \in Nat /\ Call.value \in Nat
      /\ IsColumn(column) /\ DOMAIN columns = {1, 2}
  BY <1>1 DEF IsCall, ColumnCalls, TypeOK
<1>3. Call.pos < column.num_tuples
  BY <1>1 DEF ClientKeepsContract, IsAllowed
<1>4. columns' = [columns EXCEPT ![c] = new]
  BY <1>2 DEF SetTuple_, Written
<1>5. /\ Calls({"SetTuple"}) /\ Returns /\ InStep /\ UNCHANGED bitvectors
      /\ file_pos' \in Nat /\ ~failed' /\ failed' \in BOOLEAN
  BY <1>1 DEF SetTuple_, TypeOK, ClientInv
<1>6. column.num_tuples \in Nat /\ column.type \in ColumnType /\ column.bit_width \in 1..32
  BY <1>2, ColumnFields
<1>7. b \in 1..NumBlocks(column.num_tuples)
  BY <1>2, <1>3, <1>6, BlockOfTuple
<1>8. column.blocks[b].data \in [Positions -> StoredCode(column)]
  BY <1>2, <1>7, ColumnFields
<1>9. Stored(column, Call.value) \in StoredCode(column)
  BY <1>2, <1>6, StoredType
<1>10. data \in [Positions -> StoredCode(column)]
  BY <1>8, <1>9
<1> HIDE DEF c, column, b, data
<1>11. IsColumn(new)
  BY <1>2, <1>7, <1>10, ChangedData
<1> HIDE DEF new
<1> QED BY <1>2, <1>4, <1>5, <1>11, OneColumn

LEMMA LoadTextFileStep ==
  ASSUME ClientInv, LoadTextFile
  PROVE  ClientInv'
<1>1. IsCall(Call) /\ Call.op = "LoadTextFile" /\ TypeOK /\ pc = "call" /\ ip <= Len(script)
  BY BetweenCalls DEF LoadTextFile
<1> DEFINE c == Call.column
           column == columns[c]
           n == NumBlocks(column.num_tuples)
           read == Min2(column.num_tuples, Len(Call.codes))
           At(b, p) == (b - 1) * kNumTuplesPerBlock + p
           data(b) == [p \in Positions |-> IF At(b, p) < read
                                           THEN Stored(column, Call.codes[At(b, p) + 1])
                                           ELSE column.blocks[b].data[p]]
           blocks == [b \in 1..n |-> [column.blocks[b] EXCEPT !.data = data(b)]]
           new == [column EXCEPT !.blocks = blocks]
<1>2. c \in {1, 2} /\ Call.codes \in Seq(Nat) /\ IsColumn(column) /\ DOMAIN columns = {1, 2}
  BY <1>1 DEF IsCall, ColumnCalls, TypeOK
<1>3. /\ column.num_tuples \in Nat /\ column.type \in ColumnType /\ column.bit_width \in 1..32
      /\ n \in Nat /\ DOMAIN column.blocks = 1..n
      /\ \A b \in 1..n : /\ column.blocks[b] \in [num_tuples : {BlockSize(column.num_tuples, b - 1)},
                                                  data : [Positions -> StoredCode(column)]]
                         /\ column.blocks[b].data \in [Positions -> StoredCode(column)]
  BY <1>2, ColumnFields
<1>4. columns' = [columns EXCEPT ![c] = new]
  <2>1. columns' = [columns EXCEPT ![c].blocks = blocks]
    BY <1>2, <1>3 DEF LoadTextFile
  <2> HIDE DEF blocks
  <2> QED BY <1>2, <2>1
<1>5. /\ Calls({"LoadTextFile"}) /\ Returns /\ InStep /\ UNCHANGED bitvectors
      /\ file_pos' \in Nat /\ ~failed' /\ failed' \in BOOLEAN
  BY <1>1 DEF LoadTextFile, TypeOK, ClientInv
<1>6. ASSUME NEW b \in 1..n
      PROVE  data(b) \in [Positions -> StoredCode(column)]
  <2> SUFFICES ASSUME NEW p \in Positions, At(b, p) < read
               PROVE  Stored(column, Call.codes[At(b, p) + 1]) \in StoredCode(column)
    BY <1>3
  <2>1. b - 1 \in Nat /\ p \in Nat
    BY <1>3, BlockCapacity DEF Positions
  <2>2. (b - 1) * kNumTuplesPerBlock \in Nat
    BY <2>1, BlockCapacity
  <2>3. At(b, p) + 1 \in 1..Len(Call.codes)
    BY <1>2, <1>3, <2>1, <2>2 DEF Min2
  <2> DEFINE value == Call.codes[At(b, p) + 1]
  <2>4. value \in Nat
    <3> HIDE DEF At
    <3> QED BY <1>2, <2>3
  <2> HIDE DEF value
  <2>5. Stored(column, value) \in StoredCode(column)
    BY <1>3, <2>4, StoredType
  <2> QED BY <2>5 DEF value
<1> HIDE DEF c, column, data
<1>7. ASSUME NEW b \in 1..n
      PROVE  /\ blocks[b] \in [num_tuples : 1..kNumTuplesPerBlock,
                               data : [Positions -> StoredCode(column)]]
             /\ blocks[b].num_tuples = BlockSize(column.num_tuples, b - 1)
  <2> DEFINE size == BlockSize(column.num_tuples, b - 1)
             D == [Positions -> StoredCode(column)]
  <2>1. size \in 1..kNumTuplesPerBlock
    BY <1>3, BlockSizes
  <2>2. column.blocks[b] \in [num_tuples : {size}, data : D] /\ data(b) \in D
    BY <1>3, <1>6
  <2>3. blocks[b] = [column.blocks[b] EXCEPT !.data = data(b)]
    OBVIOUS
  <2> HIDE DEF size, D, blocks
  <2>4. blocks[b] \in [num_tuples : 1..kNumTuplesPerBlock, data : D] /\ blocks[b].num_tuples = size
    BY <2>1, <2>2, <2>3
  <2> QED BY <2>4 DEF size, D
<1>8. IsColumn(new)
  <2>1. DOMAIN blocks = 1..n
    OBVIOUS
  <2>2. blocks \in [1..n -> [num_tuples : 1..kNumTuplesPerBlock,
                             data : [Positions -> StoredCode(column)]]]
    BY <1>7
  <2> HIDE DEF blocks
  <2> QED BY <1>2, <1>7, <2>2, ChangedBlocks
<1> HIDE DEF new
<1> QED BY <1>2, <1>4, <1>5, <1>8, OneColumn

LEMMA SerToFileStep ==
  ASSUME ClientInv, SerToFile
  PROVE  ClientInv'
<1>1. /\ Calls({"SerToFile"}) /\ TypeOK /\ \A t \in Threads : running[t] = None
      /\ \A v \in {1, 2} : \A b \in 1..NumBlocks(bitvectors[v].num) :
           TailIsClear(bitvectors[v].blocks[b])
  BY BetweenCalls DEF SerToFile
<1>2. Returns /\ InStep /\ UNCHANGED <<columns, bitvectors, file_pos, failed>> /\ ~failed
  BY DEF SerToFile, ClientInv
<1> QED BY <1>1, <1>2, CallReturns DEF TypeOK, Returns, InStep, loop

LEMMA DeserFromFileStep ==
  ASSUME ClientInv, ClientKeepsContract, DeserFromFile
  PROVE  ClientInv'
<1>1. IsCall(Call) /\ Call.op = "DeserFromFile" /\ TypeOK /\ pc = "call" /\ ip <= Len(script)
  BY BetweenCalls DEF DeserFromFile
<1> DEFINE c == Call.column
           column == columns[c]
           n == NumBlocks(column.num_tuples)
           blocks == [b \in 1..n |-> file[file_pos + b]]
           new == [column EXCEPT !.blocks = blocks]
<1>2. c \in {1, 2} /\ IsColumn(column) /\ DOMAIN columns = {1, 2}
  BY <1>1 DEF IsCall, ColumnCalls, TypeOK
<1>3. /\ column.num_tuples \in Nat /\ n \in Nat /\ DOMAIN column.blocks = 1..n
      /\ Len(column.blocks) = n
      /\ \A b \in 1..n : column.blocks[b].num_tuples = BlockSize(column.num_tuples, b - 1)
  BY <1>2, ColumnFields
<1>4. ReadsItsBlocks
  BY <1>1 DEF ClientKeepsContract, IsAllowed
<1>5. columns' = [columns EXCEPT ![c] = new] /\ file_pos' = file_pos + n
  <2>1. columns' = [columns EXCEPT ![c].blocks = blocks]
    BY <1>2, <1>3 DEF DeserFromFile
  <2>2. file_pos' = file_pos + n
    BY <1>3 DEF DeserFromFile
  <2> HIDE DEF blocks
  <2> QED BY <1>2, <2>1, <2>2
<1>6. /\ Calls({"DeserFromFile"}) /\ Returns /\ InStep /\ UNCHANGED bitvectors
      /\ ~failed' /\ failed' \in BOOLEAN /\ file_pos' \in Nat
  BY <1>1, <1>3, <1>5 DEF DeserFromFile, TypeOK, ClientInv
<1>7. \A b \in 1..n : file[file_pos + b] \in [num_tuples : {BlockSize(column.num_tuples, b - 1)},
                                              data : [Positions -> StoredCode(column)]]
  BY <1>3, <1>4 DEF ReadsItsBlocks
<1> HIDE DEF c, column
<1>8. ASSUME NEW b \in 1..n
      PROVE  /\ blocks[b] \in [num_tuples : 1..kNumTuplesPerBlock,
                               data : [Positions -> StoredCode(column)]]
             /\ blocks[b].num_tuples = BlockSize(column.num_tuples, b - 1)
  <2> DEFINE size == BlockSize(column.num_tuples, b - 1)
             D == [Positions -> StoredCode(column)]
  <2>1. size \in 1..kNumTuplesPerBlock
    BY <1>3, BlockSizes
  <2>2. blocks[b] \in [num_tuples : {size}, data : D]
    BY <1>7
  <2> HIDE DEF size, D, blocks
  <2>3. blocks[b] \in [num_tuples : 1..kNumTuplesPerBlock, data : D] /\ blocks[b].num_tuples = size
    BY <2>1, <2>2
  <2> QED BY <2>3 DEF size, D
<1>9. IsColumn(new)
  <2>1. blocks \in [1..n -> [num_tuples : 1..kNumTuplesPerBlock,
                             data : [Positions -> StoredCode(column)]]]
    BY <1>8
  <2> HIDE DEF blocks
  <2> QED BY <1>2, <1>8, <2>1, ChangedBlocks
<1> HIDE DEF new
<1> QED BY <1>2, <1>5, <1>6, <1>9, OneColumn

----------------------------------------------------------------------------
(* BulkLoadArray.                                                          *)
LEMMA BulkLoadArrayStep ==
  ASSUME ClientInv, ClientKeepsContract, BulkLoadArray
  PROVE  ClientInv'
<1>1. /\ IsCall(Call) /\ Call.op = "BulkLoadArray" /\ TypeOK /\ pc = "call" /\ ip <= Len(script)
      /\ \A t \in Threads : running[t] = None
      /\ \A v \in {1, 2} : \A b \in 1..NumBlocks(bitvectors[v].num) :
           TailIsClear(bitvectors[v].blocks[b])
  BY BetweenCalls DEF BulkLoadArray
<1>2. Call.column \in {1, 2} /\ Call.pos \in Nat /\ Call.codes \in Seq(Nat)
  BY <1>1 DEF IsCall, ColumnCalls
<1>3. Call.pos + Len(Call.codes) <= columns[Call.column].num_tuples
  BY <1>1 DEF ClientKeepsContract, IsAllowed
<1>4. IsColumn(columns[Call.column])
  BY <1>1, <1>2 DEF TypeOK
<1>5. columns[Call.column].num_tuples \in Nat /\ Len(Call.codes) \in Nat
  BY <1>2, <1>4, ColumnFields
<1>6. /\ UNCHANGED <<script, ip, columns, bitvectors, file_pos, next_block, running>> /\ pc' = "load"
      /\ load' = [block_id |-> block_id(Call.pos), pos_in_block |-> pos_in_block(Call.pos),
                  data_ptr |-> 0]
      /\ ~failed' /\ failed' \in BOOLEAN
  <2> DEFINE Beyond == Call.pos + Len(Call.codes) > columns[Call.column].num_tuples
  <2>1. Beyond = FALSE
    BY <1>2, <1>3, <1>5
  <2>2. failed' = Beyond
    BY DEF BulkLoadArray
  <2> HIDE DEF Beyond
  <2>3. ~failed' /\ failed' \in BOOLEAN
    BY <2>1, <2>2
  <2> QED BY <2>3 DEF BulkLoadArray, store, loop
<1>7. /\ block_id(Call.pos) \in Nat /\ pos_in_block(Call.pos) \in Positions
      /\ pos_in_block(Call.pos) \in Nat
      /\ Call.pos = block_id(Call.pos) * kNumTuplesPerBlock + pos_in_block(Call.pos)
  BY <1>2, PositionOfBlock
<1>8. TypeOK'
  BY <1>1, <1>6, <1>7 DEF TypeOK
<1>9. CallInv'
  BY <1>1, <1>6 DEF CallInv, Call
<1>10. LoadInv'
  <2>1. /\ load'.block_id = block_id(Call.pos) /\ load'.pos_in_block = pos_in_block(Call.pos)
        /\ load'.data_ptr = 0
    BY <1>6
  <2>2. Call' = Call
    BY <1>6 DEF Call
  <2>3. pos_in_block(Call.pos) < kNumTuplesPerBlock
    BY <1>7, BlockCapacity DEF Positions
  <2>4. Call.pos + 0 = Call.pos
    BY <1>2
  <2> QED BY <1>3, <1>5, <1>6, <1>7, <2>1, <2>2, <2>3, <2>4 DEF LoadInv
<1>11. TailInv'
  BY <1>1, <1>6 DEF TailInv, TailIsClear
<1> QED BY <1>6, <1>8, <1>9, <1>10, <1>11 DEF ClientInv

(* Where LoadBlock is: in a block of the column that has the next position *)
(* of the call; and, if there are codes left behind it, not in the last.   *)
LEMMA LoadPosition ==
  ASSUME ClientInv, pc = "load", load.data_ptr < Len(Call.codes), IsCall(Call),
         Call.op = "BulkLoadArray"
  PROVE  LET column == columns[Call.column]
             n == NumBlocks(column.num_tuples)
             q == load.block_id
             p == load.pos_in_block
             remain == Len(Call.codes) - load.data_ptr
             size == Min2(BlockSize(column.num_tuples, q) - p, remain)
         IN /\ q + 1 \in 1..n /\ p \in 0..(BlockSize(column.num_tuples, q) - 1)
            /\ size \in 1..remain /\ p + size <= BlockSize(column.num_tuples, q)
            /\ size < remain =>
                 /\ q + 1 # n
                 /\ (q + 1) * kNumTuplesPerBlock = Call.pos + (load.data_ptr + size)
<1> DEFINE column == columns[Call.column]
           num == column.num_tuples
           n == NumBlocks(num)
           k == kNumTuplesPerBlock
           q == load.block_id
           p == load.pos_in_block
           d == load.data_ptr
           len == Len(Call.codes)
           x == Call.pos + d
           bs == BlockSize(num, q)
           size == Min2(bs - p, len - d)
<1>1. Call.column \in {1, 2} /\ Call.pos \in Nat /\ len \in Nat
  BY DEF IsCall, ColumnCalls
<1>2. IsColumn(column)
  BY <1>1 DEF ClientInv, TypeOK
<1>3. num \in Nat /\ n \in Nat /\ k \in Nat \ {0}
  BY <1>2, ColumnFields, BlockCapacity
<1>4. q \in Nat /\ p \in Nat /\ d \in Nat
  BY DEF ClientInv, TypeOK
<1>5. /\ Call.pos + len <= num /\ d < len
      /\ p < k /\ q * k + p = x
  BY DEF ClientInv, LoadInv
<1>6. x \in Nat /\ x < num /\ p \in 0..(k - 1)
  BY <1>1, <1>3, <1>4, <1>5
<1>7. block_id(x) = q /\ pos_in_block(x) = p
  <2>1. IsDivision(x, k, q, p)
    BY <1>4, <1>5, <1>6 DEF IsDivision
  <2>2. x \div k = q /\ x % k = p
    BY <1>3, <1>6, <2>1, UniqueDivision
  <2> QED BY <2>2 DEF block_id, pos_in_block
<1>8. q + 1 \in 1..n /\ p < bs
  BY <1>3, <1>6, <1>7, BlockOfTuple
<1>9. /\ bs \in 1..k
      /\ q + 1 < n => bs = k
      /\ q + 1 = n => bs = num - q * k
  <2>1. (q + 1) - 1 = q
    BY <1>4
  <2> QED BY <1>3, <1>8, <2>1, BlockSizes
<1> HIDE DEF n, num, q, p, d, len, bs, column
<1>10. q * k \in Nat /\ (q + 1) * k = q * k + k
  BY <1>3, <1>4
<1>11. size \in 1..(len - d) /\ p + size <= bs /\ size \in Nat
  BY <1>1, <1>3, <1>4, <1>5, <1>8, <1>9 DEF Min2
<1>12. ASSUME size < len - d
       PROVE  q + 1 # n /\ (q + 1) * k = Call.pos + (d + size)
  <2>1. size = bs - p
    BY <1>1, <1>3, <1>4, <1>9, <1>12 DEF Min2
  <2> HIDE DEF size
  <2>2. Call.pos + (d + size) = q * k + bs
    BY <1>1, <1>3, <1>4, <1>5, <1>9, <1>10, <2>1
  <2>3. q + 1 # n
    <3> SUFFICES ASSUME q + 1 = n PROVE FALSE
      OBVIOUS
    <3>1. Call.pos + (d + size) = num
      BY <1>3, <1>9, <1>10, <2>2
    <3> QED BY <1>1, <1>3, <1>4, <1>5, <1>11, <1>12, <3>1
  <2>4. q + 1 < n
    BY <1>3, <1>4, <1>8, <2>3
  <2> QED BY <1>9, <1>10, <2>2, <2>3, <2>4
<1>13. p \in 0..(bs - 1)
  BY <1>3, <1>4, <1>8, <1>9
<1> HIDE DEF size
<1>14. /\ q + 1 \in 1..n /\ p \in 0..(bs - 1) /\ size \in 1..(len - d) /\ p + size <= bs
       /\ size < len - d => q + 1 # n /\ (q + 1) * k = Call.pos + (d + size)
  BY <1>8, <1>11, <1>12, <1>13
<1> QED BY <1>14 DEF n, num, q, p, d, len, bs, column, size

(* The codes of a block's part of the call go where they belong.           *)
LEMMA LoadBlockStep ==
  ASSUME ClientInv, LoadBlock
  PROVE  ClientInv'
<1> DEFINE c == Call.column
           column == columns[c]
           num == column.num_tuples
           n == NumBlocks(num)
           q == load.block_id
           p == load.pos_in_block
           d == load.data_ptr
           remain == Len(Call.codes) - d
           block == column.blocks[q + 1]
           size == Min2(block.num_tuples - p, remain)
           data == [x \in Positions |->
                      IF x \in p..(p + size - 1) THEN Stored(column, Call.codes[d + x - p + 1])
                                                ELSE block.data[x]]
           new == [column EXCEPT !.blocks[q + 1].data = data]
<1>1. pc = "load" /\ ip <= Len(script) /\ Call.op = "BulkLoadArray" /\ TypeOK /\ ~failed
  BY DEF LoadBlock, ClientInv, CallInv
<1>2. IsCall(Call)
  BY <1>1, CallType
<1>3. c \in {1, 2} /\ Call.pos \in Nat /\ Call.codes \in Seq(Nat) /\ Len(Call.codes) \in Nat
  BY <1>1, <1>2 DEF IsCall, ColumnCalls
<1>4. DOMAIN columns = {1, 2} /\ IsColumn(column)
  BY <1>1, <1>3 DEF TypeOK
<1>5. q \in Nat /\ p \in Nat /\ d \in Nat
  BY <1>1 DEF TypeOK
<1>6. /\ d < Len(Call.codes) /\ Call.pos + Len(Call.codes) <= num
  <2>1. remain > 0
    BY DEF LoadBlock
  <2> QED BY <1>1, <1>3, <1>5, <2>1 DEF ClientInv, LoadInv
<1>7. /\ num \in Nat /\ n \in Nat /\ Len(column.blocks) = n
      /\ column.type \in ColumnType /\ column.bit_width \in 1..32
      /\ \A b \in 1..n : /\ column.blocks[b].num_tuples = BlockSize(num, b - 1)
                         /\ column.blocks[b].data \in [Positions -> StoredCode(column)]
                         /\ BlockSize(num, b - 1) \in 1..kNumTuplesPerBlock
  <2>1. /\ num \in Nat /\ n \in Nat /\ Len(column.blocks) = n
        /\ column.type \in ColumnType /\ column.bit_width \in 1..32
        /\ \A b \in 1..n : /\ column.blocks[b].num_tuples = BlockSize(num, b - 1)
                           /\ column.blocks[b].data \in [Positions -> StoredCode(column)]
    BY <1>4, ColumnFields
  <2>2. \A b \in 1..n : BlockSize(num, b - 1) \in 1..kNumTuplesPerBlock
    BY <2>1, BlockSizes
  <2> QED BY <2>1, <2>2
<1> DEFINE bs == BlockSize(num, q)
           part == Min2(bs - p, remain)
<1>8. /\ q + 1 \in 1..n /\ p \in 0..(bs - 1) /\ part \in 1..remain /\ p + part <= bs
      /\ part < remain => /\ q + 1 # n
                          /\ (q + 1) * kNumTuplesPerBlock = Call.pos + (d + part)
  BY <1>1, <1>2, <1>6, LoadPosition
<1>9. block.num_tuples = bs /\ block.data \in [Positions -> StoredCode(column)]
      /\ bs \in 1..kNumTuplesPerBlock
  <2>1. (q + 1) - 1 = q
    BY <1>5
  <2> QED BY <1>7, <1>8, <2>1
<1>10. size = part
  BY <1>9
<1>11. /\ failed' = (p > block.num_tuples \/ (size < remain /\ q + 1 = Len(column.blocks)))
       /\ columns' = [columns EXCEPT ![c] = new]
       /\ load' = [block_id |-> q + 1, pos_in_block |-> 0, data_ptr |-> d + size]
       /\ UNCHANGED <<script, ip, pc, bitvectors, file_pos, next_block, running>>
  <2>1. columns' = [columns EXCEPT ![c].blocks[q + 1].data = data]
    BY DEF LoadBlock
  <2> HIDE DEF data
  <2>2. columns' = [columns EXCEPT ![c] = new]
    BY <1>3, <1>4, <2>1
  <2> QED BY <2>2 DEF LoadBlock, loop
<1> HIDE DEF size, part
<1>12. data \in [Positions -> StoredCode(column)]
  <2>1. ASSUME NEW x \in p..(p + part - 1)
        PROVE  Stored(column, Call.codes[d + x - p + 1]) \in StoredCode(column)
    <3> DEFINE k == d + x - p + 1
    <3>1. part \in Nat /\ remain \in Nat /\ part <= remain
      BY <1>3, <1>5, <1>6, <1>8
    <3>2. k \in 1..Len(Call.codes) /\ x \in Nat /\ x < bs
      <4> DEFINE len == Len(Call.codes)
      <4>1. part <= len - d /\ len \in Nat
        BY <1>3, <3>1
      <4> HIDE DEF len, p, d, bs
      <4>2. k \in 1..len /\ x \in Nat /\ x < bs
        BY <1>5, <1>8, <1>9, <2>1, <3>1, <4>1
      <4> QED BY <4>2 DEF len
    <3> HIDE DEF k
    <3> DEFINE value == Call.codes[k]
    <3>4. value \in Nat
      BY <1>3, <3>2
    <3> HIDE DEF value
    <3>5. Stored(column, value) \in StoredCode(column)
      BY <1>7, <3>4, StoredType
    <3> QED BY <3>5 DEF value, k
  <2> HIDE DEF block, p, d
  <2> QED BY <1>9, <1>10, <2>1
<1>13. ~failed' /\ failed' \in BOOLEAN
  <2>1. ~(p > block.num_tuples)
    BY <1>5, <1>8, <1>9
  <2>2. ~(size < remain /\ q + 1 = Len(column.blocks))
    BY <1>7, <1>8, <1>10
  <2> QED BY <1>11, <2>1, <2>2, Zenon
<1> HIDE DEF data
<1>14. IsColumn(new) /\ new.num_tuples = num
  BY <1>4, <1>8, <1>12, ChangedData
<1> HIDE DEF new
<1>15. DOMAIN columns' = {1, 2} /\ \A e \in {1, 2} : IsColumn(columns'[e])
  BY <1>1, <1>3, <1>4, <1>11, <1>14 DEF TypeOK
<1>16. columns'[c].num_tuples = num
  BY <1>3, <1>4, <1>11, <1>14
<1>17. size \in Nat /\ d + size <= Len(Call.codes)
  BY <1>3, <1>5, <1>6, <1>8, <1>10
<1>18. TypeOK'
  BY <1>1, <1>5, <1>11, <1>13, <1>15, <1>17 DEF TypeOK
<1>19. CallInv'
  BY <1>1, <1>11 DEF CallInv, ClientInv, Call
<1>20. LoadInv'
  <2>1. Call' = Call
    BY <1>11 DEF Call
  <2>2. load'.block_id = q + 1 /\ load'.pos_in_block = 0 /\ load'.data_ptr = d + size
    BY <1>11
  <2>3. d + size < Len(Call.codes) => (q + 1) * kNumTuplesPerBlock = Call.pos + (d + size)
    BY <1>3, <1>5, <1>8, <1>10, <1>17
  <2>4. (q + 1) * kNumTuplesPerBlock \in Nat /\ 0 < kNumTuplesPerBlock
    BY <1>5, BlockCapacity
  <2> HIDE DEF size, q, d
  <2> QED BY <1>6, <1>16, <1>17, <2>1, <2>2, <2>3, <2>4 DEF LoadInv
<1>21. TailInv'
  BY <1>1, <1>11 DEF TailInv, TailIsClear, ClientInv, Call
<1> QED BY <1>13, <1>18, <1>19, <1>20, <1>21 DEF ClientInv

LEMMA EndLoadStep ==
  ASSUME ClientInv, EndLoad
  PROVE  ClientInv'
<1>1. /\ TypeOK /\ \A t \in Threads : running[t] = None
      /\ \A v \in {1, 2} : \A b \in 1..NumBlocks(bitvectors[v].num) :
           TailIsClear(bitvectors[v].blocks[b])
  BY DEF ClientInv, EndLoad, CallInv, TailInv
<1>2. Returns /\ UNCHANGED <<columns, bitvectors, file_pos, next_block, running, load, failed>> /\ ~failed
  BY DEF EndLoad, ClientInv, store, loop
<1> QED BY <1>1, <1>2, CallReturns DEF TypeOK, Returns

----------------------------------------------------------------------------
(* Words whose tail is clear.                                              *)
LEMMA WrittenBit ==
  ASSUME NEW num \in Nat \ {0}, NEW data \in Words(num), NEW x \in 0..(num - 1),
         \A w \in WordIds(num) : \A bit \in data[w] : w * kNumWordBits + bit < num
  PROVE  \A new \in {SetBit(data, x), UnsetBit(data, x)} :
           /\ new \in Words(num)
           /\ \A w \in WordIds(num) : \A bit \in new[w] : w * kNumWordBits + bit < num
<1> DEFINE q == x \div kNumWordBits
           r == x % kNumWordBits
<1>1. q \in WordIds(num) /\ r \in WordBits /\ x = q * kNumWordBits + r
  BY PositionOfTuple
<1>2. data \in [WordIds(num) -> SUBSET WordBits]
  BY DEF Words
<1> HIDE DEF q, r
<1>3. SetBit(data, x) = [data EXCEPT ![q] = @ \cup {r}] /\ UnsetBit(data, x) = [data EXCEPT ![q] = @ \ {r}]
  BY DEF SetBit, UnsetBit, q, r
<1>4. ASSUME NEW new \in {SetBit(data, x), UnsetBit(data, x)}
      PROVE  /\ new \in [WordIds(num) -> SUBSET WordBits]
             /\ \A w \in WordIds(num) : \A bit \in new[w] : bit \in data[w] \/ (w = q /\ bit = r)
  <2>1. ASSUME NEW word \in SUBSET WordBits, word \subseteq data[q] \cup {r},
               new = [data EXCEPT ![q] = word]
        PROVE  /\ new \in [WordIds(num) -> SUBSET WordBits]
               /\ \A w \in WordIds(num) : \A bit \in new[w] : bit \in data[w] \/ (w = q /\ bit = r)
    BY <1>1, <1>2, <2>1
  <2>2. data[q] \cup {r} \in SUBSET WordBits /\ data[q] \ {r} \in SUBSET WordBits
    BY <1>1, <1>2
  <2>3. CASE new = SetBit(data, x)
    BY <1>3, <2>1, <2>2, <2>3
  <2>4. CASE new = UnsetBit(data, x)
    <3>1. data[q] \ {r} \subseteq data[q] \cup {r}
      OBVIOUS
    <3> QED BY <1>3, <2>1, <2>2, <2>4, <3>1
  <2> QED BY <1>4, <2>3, <2>4
<1>5. q * kNumWordBits + r < num
  BY <1>1
<1> QED BY <1>4, <1>5 DEF Words

LEMMA FullAndEmpty ==
  ASSUME NEW num \in Nat \ {0}
  PROVE  /\ [w \in WordIds(num) |-> WordBits] \in Words(num)
         /\ SetOnes(num) \in Words(num)
         /\ \A w \in WordIds(num) : \A bit \in SetOnes(num)[w] : w * kNumWordBits + bit < num
         /\ SetZeros(num) \in Words(num)
         /\ \A w \in WordIds(num) : SetZeros(num)[w] = {}
<1>1. [w \in WordIds(num) |-> WordBits] \in [WordIds(num) -> SUBSET WordBits]
  OBVIOUS
<1>2. /\ SetOnes(num) \in [WordIds(num) -> SUBSET WordBits]
      /\ \A w \in WordIds(num) : \A bit \in SetOnes(num)[w] : w * kNumWordBits + bit < num
  BY <1>1, Cleared DEF SetOnes
<1> QED BY <1>1, <1>2 DEF Words, SetZeros

(* A scan leaves nothing behind the last tuple, a naive one because there  *)
(* was nothing.                                                            *)
LEMMA ScannedTail ==
  ASSUME NEW num \in Nat \ {0}, NEW data \in Words(num), NEW column, NEW block, NEW right,
         NEW cmp, NEW bit_opt \in {"kSet", "kAnd", "kOr"}, block.num_tuples = num,
         \A w \in WordIds(num) : \A bit \in data[w] : w * kNumWordBits + bit < num
  PROVE  LET new == ScanBlock(column, block, right, cmp, bit_opt, data) IN
         /\ new \in Words(num)
         /\ \A w \in WordIds(num) : \A bit \in new[w] : w * kNumWordBits + bit < num
<1> DEFINE Compared(p) == column.type = "kNaive" => p < block.num_tuples
           holds(p) == Satisfies(cmp, Code(column, block.data[p]), right[p])
           verdicts(w) == {b \in WordBits : Compared(w * kNumWordBits + b) /\ holds(w * kNumWordBits + b)}
           scanned == [w \in WordIds(num) |->
                         IF w * kNumWordBits < block.num_tuples
                         THEN JoinWord(bit_opt, verdicts(w), data[w]) ELSE data[w]]
           new == ScanBlock(column, block, right, cmp, bit_opt, data)
<1>1. data \in [WordIds(num) -> SUBSET WordBits]
  BY DEF Words
<1>2. new = IF column.type = "kNaive" THEN scanned ELSE ClearTail(scanned, num)
  BY <1>1 DEF ScanBlock
<1> HIDE DEF new, holds
<1>3. ASSUME NEW w \in WordIds(num)
      PROVE  scanned[w] \subseteq verdicts(w) \cup data[w]
  BY DEF JoinWord
<1>4. scanned \in [WordIds(num) -> SUBSET WordBits]
  <2>1. \A w \in WordIds(num) : verdicts(w) \subseteq WordBits
    OBVIOUS
  <2> HIDE DEF verdicts
  <2>2. \A w \in WordIds(num) : scanned[w] \subseteq WordBits
    BY <1>1, <1>3, <2>1
  <2> QED BY <2>2
<1>5. CASE column.type = "kNaive"
  <2>1. ASSUME NEW w \in WordIds(num), NEW bit \in scanned[w]
        PROVE  w * kNumWordBits + bit < num
    BY <1>3, <1>5, <2>1
  <2> QED BY <1>2, <1>4, <1>5, <2>1 DEF Words, new
<1>6. CASE column.type # "kNaive"
  <2> HIDE DEF scanned
  <2>1. /\ ClearTail(scanned, num) \in [WordIds(num) -> SUBSET WordBits]
        /\ \A w \in WordIds(num) : \A bit \in ClearTail(scanned, num)[w] :
             w * kNumWordBits + bit < num
    BY <1>4, Cleared
  <2> QED BY <1>2, <1>6, <2>1 DEF Words, new
<1> QED BY <1>5, <1>6

----------------------------------------------------------------------------
(* The calls on a bit vector.                                              *)
LEMMA SetBitStep ==
  ASSUME ClientInv, ClientKeepsContract, SetBit_
  PROVE  ClientInv'
<1> DEFINE v == Call.bv
           bv == bitvectors[v]
           n == NumBlocks(bv.num)
           b == block_id(Call.pos) + 1
           p == pos_in_block(Call.pos)
           old == bv.blocks[b].data
           data == IF Call.op = "SetBit" THEN SetBit(old, p) ELSE UnsetBit(old, p)
           new == [bv EXCEPT !.blocks[b].data = data]
<1>1. /\ IsCall(Call) /\ Call.op \in {"SetBit", "UnsetBit"} /\ TypeOK /\ pc = "call"
      /\ ip <= Len(script) /\ \A t \in Threads : running[t] = None
      /\ \A w \in {1, 2} : \A k \in 1..NumBlocks(bitvectors[w].num) :
           TailIsClear(bitvectors[w].blocks[k])
  BY BetweenCalls DEF SetBit_
<1>2. v \in {1, 2} /\ Call.pos \in Nat /\ IsBitVector(bv) /\ DOMAIN bitvectors = {1, 2}
  BY <1>1 DEF IsCall, BitVectorCalls, TypeOK
<1>3. Call.pos < bv.num
  BY <1>1 DEF ClientKeepsContract, IsAllowed
<1>4. /\ bv.num \in Nat
      /\ \A k \in 1..n : /\ bv.blocks[k].num = BlockSize(bv.num, k - 1)
                         /\ bv.blocks[k].num \in 1..kNumTuplesPerBlock
                         /\ bv.blocks[k].data \in Words(bv.blocks[k].num)
  BY <1>2, VectorFields
<1>5. b \in 1..n /\ p < BlockSize(bv.num, b - 1) /\ p \in Nat
  <2>1. block_id(Call.pos) \in Nat /\ p \in Nat
    BY <1>2, PositionOfBlock
  <2>2. b \in 1..n /\ p < BlockSize(bv.num, block_id(Call.pos))
    BY <1>2, <1>3, <1>4, BlockOfTuple
  <2>3. b - 1 = block_id(Call.pos)
    BY <2>1
  <2> QED BY <2>1, <2>2, <2>3
<1> DEFINE size == bv.blocks[b].num
<1>6. /\ size \in Nat \ {0} /\ p \in 0..(size - 1) /\ old \in Words(size)
      /\ \A w \in WordIds(size) : \A bit \in old[w] : w * kNumWordBits + bit < size
  <2>1. TailIsClear(bv.blocks[b])
    BY <1>1, <1>2, <1>5
  <2>2. size \in 1..kNumTuplesPerBlock /\ old \in Words(size) /\ p < size
    BY <1>4, <1>5
  <2> HIDE DEF p
  <2>3. size \in Nat \ {0} /\ p \in 0..(size - 1)
    BY <1>5, <2>2, BlockCapacity
  <2> QED BY <2>1, <2>2, <2>3 DEF TailIsClear
<1>7. data \in {SetBit(old, p), UnsetBit(old, p)}
  OBVIOUS
<1>8. bitvectors' = [bitvectors EXCEPT ![v] = new]
  <2>1. bitvectors' = [bitvectors EXCEPT ![v].blocks[b].data =
                         IF Call.op = "SetBit" THEN SetBit(@, p) ELSE UnsetBit(@, p)]
    BY DEF SetBit_
  <2> HIDE DEF p
  <2> QED BY <1>2, <2>1
<1> HIDE DEF p, data, old
<1>9. /\ data \in Words(size)
      /\ \A w \in WordIds(size) : \A bit \in data[w] : w * kNumWordBits + bit < size
  BY <1>6, <1>7, WrittenBit
<1>10. /\ IsBitVector(new) /\ new.num = bv.num
       /\ \A k \in 1..n : /\ new.blocks[k].num = bv.blocks[k].num
                          /\ new.blocks[k].data = IF k = b THEN data ELSE bv.blocks[k].data
  <2>1. b \in 1..NumBlocks(bv.num) /\ data \in Words(bv.blocks[b].num) /\ IsBitVector(bv)
    BY <1>2, <1>5, <1>9
  <2> HIDE DEF bv, b, n, size
  <2>2. /\ IsBitVector(new) /\ new.num = bv.num
        /\ \A k \in 1..NumBlocks(bv.num) :
             /\ new.blocks[k].num = bv.blocks[k].num
             /\ new.blocks[k].data = IF k = b THEN data ELSE bv.blocks[k].data
    BY <2>1, ChangedVector
  <2> QED BY <2>2 DEF n
<1> HIDE DEF new
<1>11. \A k \in 1..n : TailIsClear(new.blocks[k])
  <2> TAKE k \in 1..n
  <2>1. CASE k = b
    BY <1>5, <1>9, <1>10, <2>1 DEF TailIsClear
  <2>2. CASE k # b
    <3>1. TailIsClear(bv.blocks[k])
      BY <1>1, <1>2
    <3> HIDE DEF bv, b, n
    <3> QED BY <1>10, <2>2, <3>1 DEF TailIsClear
  <2> QED BY <2>1, <2>2
<1> HIDE DEF n, bv
<1>12. /\ DOMAIN bitvectors' = {1, 2} /\ \A w \in {1, 2} : IsBitVector(bitvectors'[w])
       /\ \A w \in {1, 2} : \A k \in 1..NumBlocks(bitvectors'[w].num) :
            TailIsClear(bitvectors'[w].blocks[k])
  BY <1>1, <1>2, <1>8, <1>10, <1>11 DEF TypeOK, n
<1>13. Returns /\ InStep /\ UNCHANGED <<columns, file_pos, failed>> /\ ~failed
  BY DEF SetBit_, ClientInv
<1> QED BY <1>1, <1>12, <1>13, CallReturns DEF TypeOK, Returns, InStep, loop

----------------------------------------------------------------------------
(* The parallel loops.                                                     *)
LEMMA StartLoopStep ==
  ASSUME ClientInv, ClientKeepsContract, StartLoop
  PROVE  ClientInv'
<1> DEFINE v == Call.bv
           num == columns[Call.column].num_tuples
<1>1. /\ IsCall(Call) /\ Call.op \in LoopCalls /\ TypeOK /\ pc = "call" /\ ip <= Len(script)
      /\ \A t \in Threads : running[t] = None
      /\ \A w \in {1, 2} : \A k \in 1..NumBlocks(bitvectors[w].num) :
           TailIsClear(bitvectors[w].blocks[k])
  BY BetweenCalls DEF StartLoop, LoopCalls
<1>2. /\ v \in {1, 2} /\ DOMAIN bitvectors = {1, 2} /\ \A w \in {1, 2} : IsBitVector(bitvectors[w])
  BY <1>1 DEF IsCall, BitVectorCalls, LoopCalls, TypeOK
<1>3. SameSizes
  <2>1. CASE Call.op \in {"Scan", "And", "Or"}
    BY <1>1, <2>1 DEF ClientKeepsContract, IsAllowed
  <2>2. CASE Call.op \notin {"Scan", "And", "Or"}
    BY <2>2 DEF SameSizes
  <2> QED BY <2>1, <2>2
<1>4. /\ UNCHANGED <<script, ip, columns, file_pos, running, load>> /\ pc' = "loop"
      /\ next_block' = 0 /\ failed' = ~SameSizes /\ Call' = Call
      /\ ~failed' /\ failed' \in BOOLEAN
  BY <1>3 DEF StartLoop, Call
<1>5. CASE Call.op = "BitVector"
  <2>1. Call.column \in {1, 2}
    BY <1>1, <1>5 DEF IsCall, ColumnCalls
  <2>2. num \in Nat
    <3>1. IsColumn(columns[Call.column])
      BY <1>1, <2>1 DEF TypeOK
    <3> QED BY <3>1, ColumnFields
  <2>3. PICK full \in BOOLEAN : bitvectors' = [bitvectors EXCEPT ![v] = Allocated(num, full)]
    BY <1>5 DEF StartLoop
  <2> DEFINE new == Allocated(num, full)
  <2> HIDE DEF num
  <2>4. IsBitVector(new) /\ new.num = num
    <3> DEFINE n == NumBlocks(num)
               data(size) == IF full THEN [w \in WordIds(size) |-> WordBits] ELSE SetZeros(size)
               blocks == [b \in 1..n |-> [num |-> BlockSize(num, b - 1),
                                          data |-> data(BlockSize(num, b - 1))]]
    <3>1. ASSUME NEW size \in 1..kNumTuplesPerBlock
          PROVE  data(size) \in Words(size)
      <4>1. size \in Nat \ {0}
        BY BlockCapacity
      <4> QED BY <4>1, FullAndEmpty
    <3>2. \A b \in 1..n : BlockSize(num, b - 1) \in 1..kNumTuplesPerBlock
      BY <2>2, BlockSizes
    <3>3. new = [num |-> num, blocks |-> blocks]
      BY DEF Allocated
    <3> HIDE DEF new, data
    <3>4. ASSUME NEW b \in 1..n
          PROVE  /\ blocks[b].num = BlockSize(num, b - 1)
                 /\ blocks[b].data \in Words(blocks[b].num)
                 /\ blocks[b] \in [num : 1..kNumTuplesPerBlock,
                                   data : UNION {Words(k) : k \in 1..kNumTuplesPerBlock}]
      <4> DEFINE size == BlockSize(num, b - 1)
      <4>1. size \in 1..kNumTuplesPerBlock /\ data(size) \in Words(size)
        BY <3>1, <3>2
      <4>2. blocks[b] = [num |-> size, data |-> data(size)]
        OBVIOUS
      <4> HIDE DEF size, blocks
      <4>3. data(size) \in UNION {Words(k) : k \in 1..kNumTuplesPerBlock}
        BY <4>1
      <4>4. /\ blocks[b].num = size /\ blocks[b].data \in Words(blocks[b].num)
            /\ blocks[b] \in [num : 1..kNumTuplesPerBlock,
                              data : UNION {Words(k) : k \in 1..kNumTuplesPerBlock}]
        BY <4>1, <4>2, <4>3
      <4> QED BY <4>4 DEF size
    <3>5. blocks \in [1..n -> [num : 1..kNumTuplesPerBlock,
                               data : UNION {Words(k) : k \in 1..kNumTuplesPerBlock}]]
      <4>1. DOMAIN blocks = 1..n /\ blocks = [b \in 1..n |-> blocks[b]]
        OBVIOUS
      <4> HIDE DEF blocks
      <4> QED BY <3>4, <4>1
    <3> HIDE DEF blocks
    <3>6. new.num = num /\ new.blocks = blocks
      BY <3>3
    <3>7. new \in [num : Nat, blocks : [1..n -> [num : 1..kNumTuplesPerBlock,
                                                 data : UNION {Words(k) : k \in 1..kNumTuplesPerBlock}]]]
      BY <2>2, <3>3, <3>5
    <3> QED BY <3>4, <3>6, <3>7 DEF IsBitVector
  <2> HIDE DEF new
  <2>5. /\ DOMAIN bitvectors' = {1, 2} /\ \A w \in {1, 2} : IsBitVector(bitvectors'[w])
        /\ bitvectors'[v] = new /\ \A w \in {1, 2} : w # v => bitvectors'[w] = bitvectors[w]
    BY <1>2, <2>3, <2>4 DEF new
  <2>6. TypeOK'
    BY <1>1, <1>4, <2>5 DEF TypeOK
  <2>7. CallInv'
    <3>1. SameSizes'
      BY <1>4, <1>5 DEF SameSizes
    <3> QED BY <1>1, <1>4, <3>1 DEF CallInv, LoopCalls
  <2>8. TailInv'
    <3>1. Iterations' = NumBlocks(new.num) /\ NumBlocks(new.num) \in Nat
      BY <1>4, <1>5, <2>4, <2>5, VectorFields DEF Iterations
    <3> SUFFICES ASSUME NEW w \in {1, 2}, NEW b \in 1..NumBlocks(bitvectors'[w].num)
                 PROVE  \/ TailIsClear(bitvectors'[w].blocks[b])
                        \/ w = v /\ (b - 1) \in Unfinished'
      BY <1>4, <1>5 DEF TailInv, TailIsClear
    <3>2. CASE w # v
      BY <1>1, <2>5, <3>2
    <3>3. CASE w = v
      <4>1. b - 1 \in 0..(Iterations' - 1) /\ b - 1 >= next_block'
        BY <1>4, <2>5, <3>1, <3>3
      <4> QED BY <3>3, <4>1 DEF Unfinished
    <3> QED BY <3>2, <3>3
  <2> QED BY <1>4, <2>6, <2>7, <2>8 DEF ClientInv, LoadInv
<1>6. CASE Call.op # "BitVector"
  <2>1. UNCHANGED bitvectors
    BY <1>6 DEF StartLoop
  <2>2. TypeOK'
    BY <1>1, <1>4, <2>1 DEF TypeOK
  <2>3. CallInv'
    <3>1. SameSizes'
      BY <1>3, <1>4, <2>1 DEF SameSizes
    <3> QED BY <1>1, <1>4, <3>1 DEF CallInv, LoopCalls
  <2>4. TailInv'
    BY <1>1, <2>1 DEF TailInv, TailIsClear
  <2> QED BY <1>4, <2>2, <2>3, <2>4 DEF ClientInv, LoadInv
<1> QED BY <1>5, <1>6

(* What a loop is over.                                                    *)
LEMMA InLoop ==
  ASSUME ClientInv, pc = "loop"
  PROVE  LET bv == bitvectors[Call.bv] IN
         /\ IsCall(Call) /\ Call.op \in LoopCalls /\ Call.bv \in {1, 2}
         /\ TypeOK /\ SameSizes /\ IsBitVector(bv) /\ bv.num \in Nat
         /\ NumBlocks(bv.num) \in Nat /\ Iterations = NumBlocks(bv.num)
<1>1. /\ TypeOK /\ SameSizes /\ Call.op \in LoopCalls /\ ip <= Len(script)
  BY DEF ClientInv, CallInv
<1>2. IsCall(Call)
  BY <1>1, CallType
<1>3. Call.bv \in {1, 2}
  BY <1>1, <1>2 DEF IsCall, BitVectorCalls, LoopCalls
<1> DEFINE bv == bitvectors[Call.bv]
<1>4. IsBitVector(bv)
  BY <1>1, <1>3 DEF TypeOK
<1>5. bv.num \in Nat /\ NumBlocks(bv.num) \in Nat /\ Len(bv.blocks) = NumBlocks(bv.num)
  BY <1>4, VectorFields
<1>6. CASE Call.op = "Scan"
  <2>1. Call.column \in {1, 2} /\ columns[Call.column].num_tuples = bv.num
    BY <1>1, <1>2, <1>6 DEF IsCall, ColumnCalls, SameSizes
  <2>2. IsColumn(columns[Call.column])
    BY <1>1, <2>1 DEF TypeOK
  <2>3. Len(columns[Call.column].blocks) = NumBlocks(columns[Call.column].num_tuples)
    BY <2>2, ColumnFields
  <2> QED BY <1>1, <1>2, <1>3, <1>4, <1>5, <1>6, <2>1, <2>3 DEF Iterations
<1>7. CASE Call.op # "Scan"
  BY <1>1, <1>2, <1>3, <1>4, <1>5, <1>7 DEF Iterations
<1> QED BY <1>6, <1>7

LEMMA TakeBlockStep ==
  ASSUME ClientInv, NEW t \in Threads, TakeBlock(t)
  PROVE  ClientInv'
<1>1. /\ pc = "loop" /\ running[t] = None /\ next_block < Iterations
      /\ running' = [running EXCEPT ![t] = next_block] /\ next_block' = next_block + 1
      /\ UNCHANGED <<script, ip, pc, columns, bitvectors, file_pos, load, failed>>
  BY DEF TakeBlock, store
<1>2. TypeOK /\ CallInv /\ TailInv /\ ~failed /\ SameSizes /\ Iterations \in Nat
  BY <1>1, InLoop DEF ClientInv
<1>3. next_block \in Nat /\ DOMAIN running = Threads
  BY <1>2 DEF TypeOK
<1>4. Iterations' = Iterations /\ Call' = Call
  BY <1>1 DEF Iterations, Call
<1>5. running'[t] = next_block /\ \A u \in Threads : u # t => running'[u] = running[u]
  BY <1>1, <1>3
<1>6. TypeOK'
  BY <1>1, <1>2, <1>3 DEF TypeOK
<1>7. CallInv'
  <2>1. SameSizes'
    BY <1>1, <1>2 DEF SameSizes, Call
  <2>2. \A u \in Threads : running[u] = None \/ running[u] \in 0..(Iterations - 1)
    BY <1>1, <1>2 DEF CallInv
  <2>3. next_block \in 0..(Iterations - 1)
    BY <1>1, <1>2, <1>3
  <2>4. \A u \in Threads : running'[u] = None \/ running'[u] \in 0..(Iterations' - 1)
    BY <1>4, <1>5, <2>2, <2>3
  <2> QED BY <1>1, <1>2, <1>4, <2>1, <2>4 DEF CallInv
<1>8. ASSUME NEW b \in Unfinished
      PROVE  b \in Unfinished'
  <2>1. b \in 0..(Iterations - 1) /\ (b >= next_block \/ \E u \in Threads : b = running[u])
    BY <1>3 DEF Unfinished, Range
  <2>2. CASE b >= next_block + 1
    BY <1>1, <1>4, <2>1, <2>2 DEF Unfinished
  <2>3. CASE b = next_block
    BY <1>1, <1>3, <1>4, <1>5, <2>1, <2>3 DEF Unfinished, Range
  <2>4. CASE \E u \in Threads : b = running[u]
    <3>1. PICK u \in Threads : b = running[u]
      BY <2>4
    <3>2. u # t
      BY <1>1, <2>1, <3>1 DEF None
    <3>3. b = running'[u] /\ DOMAIN running' = Threads
      BY <1>1, <1>3, <1>5, <3>1, <3>2
    <3> QED BY <1>4, <2>1, <3>3 DEF Unfinished, Range
  <2> QED BY <1>3, <2>1, <2>2, <2>3, <2>4
<1>9. TailInv'
  BY <1>1, <1>2, <1>4, <1>8 DEF TailInv, TailIsClear
<1> QED BY <1>1, <1>2, <1>6, <1>7, <1>9 DEF ClientInv, LoadInv

(* The blocks of one number fit, and come out without a tail.              *)
LEMMA BlockFits ==
  ASSUME ClientInv, pc = "loop", NEW b \in 0..(Iterations - 1)
  PROVE  LET block == bitvectors[Call.bv].blocks[b + 1] IN
         /\ b + 1 \in 1..NumBlocks(bitvectors[Call.bv].num)
         /\ block.num \in Nat \ {0} /\ block.data \in Words(block.num)
         /\ Call.op = "Scan" =>
              /\ columns[Call.column].blocks[b + 1].num_tuples = block.num
              /\ Call.right # 0 => columns[Call.right].blocks[b + 1].num_tuples = block.num
         /\ Call.op \in {"And", "Or"} =>
              bitvectors[Call.other].blocks[b + 1].data \in Words(block.num)
<1> DEFINE bv == bitvectors[Call.bv]
           n == NumBlocks(bv.num)
           block == bv.blocks[b + 1]
<1>1. /\ IsCall(Call) /\ Call.bv \in {1, 2} /\ TypeOK /\ SameSizes
      /\ IsBitVector(bv) /\ bv.num \in Nat /\ n \in Nat /\ Iterations = n
  BY InLoop
<1>2. b + 1 \in 1..n /\ (b + 1) - 1 = b
  BY <1>1
<1>3. \A k \in 1..n : /\ bv.blocks[k].num = BlockSize(bv.num, k - 1)
                      /\ bv.blocks[k].num \in 1..kNumTuplesPerBlock
                      /\ bv.blocks[k].data \in Words(bv.blocks[k].num)
  BY <1>1, VectorFields
<1>4. /\ block.num = BlockSize(bv.num, b) /\ block.num \in 1..kNumTuplesPerBlock
      /\ block.data \in Words(block.num)
  BY <1>2, <1>3
<1>5. block.num \in Nat \ {0}
  BY <1>4, BlockCapacity
<1>6. ASSUME NEW c \in {1, 2}, columns[c].num_tuples = bv.num
      PROVE  columns[c].blocks[b + 1].num_tuples = block.num
  <2>1. IsColumn(columns[c])
    BY <1>1 DEF TypeOK
  <2>2. \A k \in 1..NumBlocks(columns[c].num_tuples) :
          columns[c].blocks[k].num_tuples = BlockSize(columns[c].num_tuples, k - 1)
    BY <2>1, ColumnFields
  <2> HIDE DEF bv, n, block
  <2> QED BY <1>2, <1>4, <1>6, <2>2 DEF n
<1>7. ASSUME Call.op = "Scan"
      PROVE  /\ columns[Call.column].blocks[b + 1].num_tuples = block.num
             /\ Call.right # 0 => columns[Call.right].blocks[b + 1].num_tuples = block.num
  <2>1. /\ Call.column \in {1, 2} /\ Call.right \in 0..2
        /\ columns[Call.column].num_tuples = bv.num
        /\ Call.right # 0 => columns[Call.right].num_tuples = columns[Call.column].num_tuples
    BY <1>1, <1>7 DEF IsCall, ColumnCalls, SameSizes
  <2>2. Call.right # 0 => Call.right \in {1, 2}
    BY <2>1
  <2> QED BY <1>6, <2>1, <2>2
<1>8. ASSUME Call.op \in {"And", "Or"}
      PROVE  bitvectors[Call.other].blocks[b + 1].data \in Words(block.num)
  <2> DEFINE other == bitvectors[Call.other]
  <2>1. Call.other \in {1, 2} /\ other.num = bv.num
    BY <1>1, <1>8 DEF IsCall, SameSizes
  <2>2. IsBitVector(other)
    BY <1>1, <2>1 DEF TypeOK
  <2>3. \A k \in 1..NumBlocks(other.num) : /\ other.blocks[k].num = BlockSize(other.num, k - 1)
                                           /\ other.blocks[k].data \in Words(other.blocks[k].num)
    BY <2>2, VectorFields
  <2> HIDE DEF other
  <2>4. b + 1 \in 1..NumBlocks(other.num)
    BY <1>2, <2>1
  <2>5. /\ other.blocks[b + 1].num = BlockSize(other.num, b)
        /\ other.blocks[b + 1].data \in Words(other.blocks[b + 1].num)
    BY <1>2, <2>3, <2>4
  <2> QED BY <1>4, <2>1, <2>5 DEF other
<1> QED BY <1>2, <1>4, <1>5, <1>7, <1>8

LEMMA ResultTail ==
  ASSUME ClientInv, pc = "loop", NEW b \in 0..(Iterations - 1)
  PROVE  LET num == bitvectors[Call.bv].blocks[b + 1].num IN
         /\ BlockResult(b) \in Words(num)
         /\ \A w \in WordIds(num) : \A bit \in BlockResult(b)[w] : w * kNumWordBits + bit < num
<1> DEFINE block == bitvectors[Call.bv].blocks[b + 1]
           num == block.num
           old == block.data
           new == BlockResult(b)
           other == bitvectors[Call.other].blocks[b + 1].data
           Clear(data) == \A w \in WordIds(num) : \A bit \in data[w] : w * kNumWordBits + bit < num
<1>1. IsCall(Call) /\ Call.op \in LoopCalls /\ Call.bv \in {1, 2}
  BY InLoop
<1>2. /\ b + 1 \in 1..NumBlocks(bitvectors[Call.bv].num)
      /\ num \in Nat \ {0} /\ old \in Words(num)
      /\ Call.op = "Scan" => columns[Call.column].blocks[b + 1].num_tuples = num
      /\ Call.op \in {"And", "Or"} => other \in Words(num)
  BY BlockFits
<1>3. Call.op # "BitVector" => Clear(old)
  BY <1>1, <1>2 DEF TailIsClear, ClientInv, TailInv
<1>4. ASSUME NEW data \in [WordIds(num) -> SUBSET WordBits]
      PROVE  ClearTail(data, num) \in Words(num) /\ Clear(ClearTail(data, num))
  BY <1>2, <1>4, Cleared DEF Words
<1>5. old \in [WordIds(num) -> SUBSET WordBits]
  BY <1>2 DEF Words
<1>6. CASE Call.op = "Scan"
  <2> DEFINE column == columns[Call.column]
             scanned == column.blocks[b + 1]
             right == RightCodes(b)
             cmp == Call.cmp
             bit_opt == Call.bit_opt
  <2>1. new = ScanBlock(column, scanned, right, cmp, bit_opt, old)
    BY <1>6 DEF BlockResult
  <2>2. bit_opt \in {"kSet", "kAnd", "kOr"}
    BY <1>1, <1>6 DEF IsCall
  <2>3. scanned.num_tuples = num /\ Clear(old)
    BY <1>2, <1>3, <1>6
  <2> HIDE DEF num, old, new, column, scanned, right, cmp, bit_opt
  <2>4. LET made == ScanBlock(column, scanned, right, cmp, bit_opt, old) IN
        /\ made \in Words(num)
        /\ \A w \in WordIds(num) : \A bit \in made[w] : w * kNumWordBits + bit < num
    BY <1>2, <2>2, <2>3, ScannedTail
  <2> QED BY <2>1, <2>4 DEF num, new
<1>7. CASE Call.op \in {"And", "Or"}
  <2> DEFINE data == IF Call.op = "And" THEN [w \in DOMAIN old |-> old[w] \cap other[w]]
                                        ELSE [w \in DOMAIN old |-> old[w] \cup other[w]]
  <2>1. new = ClearTail(data, num)
    BY <1>7 DEF BlockResult, AndBlock, OrBlock
  <2>2. other \in [WordIds(num) -> SUBSET WordBits]
    BY <1>2, <1>7 DEF Words
  <2> HIDE DEF num, old, new, other
  <2>3. data \in [WordIds(num) -> SUBSET WordBits]
    BY <1>5, <2>2
  <2> HIDE DEF data
  <2> QED BY <1>4, <2>1, <2>3 DEF num, new
<1>8. CASE Call.op \in {"BitVector", "SetOnes"}
  <2>1. new = SetOnes(num)
    BY <1>8 DEF BlockResult
  <2> QED BY <1>2, <2>1, FullAndEmpty
<1>9. CASE Call.op = "SetZeros"
  <2>1. new = SetZeros(num)
    BY <1>9 DEF BlockResult
  <2> QED BY <1>2, <2>1, FullAndEmpty
<1>10. CASE Call.op = "CountOnes"
  <2>1. new = old
    BY <1>10 DEF BlockResult
  <2> QED BY <1>2, <1>3, <1>10, <2>1
<1> QED BY <1>1, <1>6, <1>7, <1>8, <1>9, <1>10 DEF LoopCalls

LEMMA RunBlockStep ==
  ASSUME ClientInv, NEW t \in Threads, RunBlock(t)
  PROVE  ClientInv'
<1> DEFINE v == Call.bv
           bv == bitvectors[v]
           n == NumBlocks(bv.num)
           b == running[t]
           data == BlockResult(b)
           new == [bv EXCEPT !.blocks[b + 1].data = data]
<1>1. /\ pc = "loop" /\ b # None /\ failed' = ~BlockSizesAgree(b)
      /\ bitvectors' = IF failed' THEN bitvectors
                       ELSE [bitvectors EXCEPT ![v].blocks[b + 1].data = data]
      /\ running' = [running EXCEPT ![t] = None]
      /\ UNCHANGED <<script, ip, pc, columns, file_pos, next_block, load>>
  BY DEF RunBlock
<1>2. TypeOK /\ CallInv /\ TailInv /\ ~failed
  BY DEF ClientInv
<1>3. b \in 0..(Iterations - 1)
  BY <1>1, <1>2 DEF CallInv
<1>4. /\ v \in {1, 2} /\ SameSizes /\ IsBitVector(bv) /\ bv.num \in Nat /\ n \in Nat
      /\ Iterations = n
  BY <1>1, InLoop
<1>5. ~failed' /\ failed' \in BOOLEAN
  <2>1. BlockSizesAgree(b)
    BY <1>1, <1>3, BlockFits DEF BlockSizesAgree
  <2> QED BY <1>1, <2>1
<1>6. /\ b + 1 \in 1..n /\ data \in Words(bv.blocks[b + 1].num)
      /\ \A w \in WordIds(bv.blocks[b + 1].num) : \A bit \in data[w] :
           w * kNumWordBits + bit < bv.blocks[b + 1].num
  <2>1. b + 1 \in 1..n
    BY <1>1, <1>3, <1>4
  <2> QED BY <1>1, <1>3, <2>1, ResultTail
<1>7. running'[t] = None /\ \A u \in Threads : u # t => running'[u] = running[u]
  BY <1>1, <1>2 DEF TypeOK
<1>8. DOMAIN bitvectors = {1, 2}
  BY <1>2 DEF TypeOK
<1>9. bitvectors' = [bitvectors EXCEPT ![v] = new]
  <2> HIDE DEF data, b
  <2> QED BY <1>1, <1>4, <1>5, <1>8
<1> HIDE DEF data, b
<1>10. /\ IsBitVector(new) /\ new.num = bv.num
       /\ \A k \in 1..n : /\ new.blocks[k].num = bv.blocks[k].num
                          /\ new.blocks[k].data = IF k = b + 1 THEN data ELSE bv.blocks[k].data
  <2> DEFINE m == b + 1
  <2>1. m \in 1..NumBlocks(bv.num) /\ data \in Words(bv.blocks[m].num) /\ IsBitVector(bv)
    BY <1>4, <1>6
  <2>2. new = [bv EXCEPT !.blocks[m].data = data]
    OBVIOUS
  <2> HIDE DEF bv, n, new, m
  <2>3. LET made == [bv EXCEPT !.blocks[m].data = data] IN
        /\ IsBitVector(made) /\ made.num = bv.num
        /\ \A k \in 1..NumBlocks(bv.num) :
             /\ made.blocks[k].num = bv.blocks[k].num
             /\ made.blocks[k].data = IF k = m THEN data ELSE bv.blocks[k].data
    BY <2>1, ChangedVector
  <2> QED BY <2>2, <2>3 DEF n, m
<1> HIDE DEF new
<1>11. /\ DOMAIN bitvectors' = {1, 2} /\ bitvectors'[v] = new
       /\ \A w \in {1, 2} : w # v => bitvectors'[w] = bitvectors[w]
  BY <1>4, <1>8, <1>9
<1>12. \A w \in {1, 2} : IsBitVector(bitvectors'[w]) /\ bitvectors'[w].num = bitvectors[w].num
  BY <1>2, <1>4, <1>10, <1>11 DEF TypeOK
<1>13. TypeOK'
  BY <1>1, <1>2, <1>5, <1>11, <1>12 DEF TypeOK
<1>14. Iterations' = Iterations /\ Call' = Call
  <2>1. Call' = Call
    BY <1>1 DEF Call
  <2>2. Len(new.blocks) = NumBlocks(new.num) /\ Len(bv.blocks) = NumBlocks(bv.num)
    BY <1>4, <1>10, VectorFields
  <2> QED BY <1>1, <1>10, <1>11, <2>1, <2>2 DEF Iterations
<1>15. CallInv'
  <2>1. SameSizes'
    <3>1. CASE Call.op = "Scan"
      BY <1>1, <1>4, <1>12, <1>14, <3>1 DEF SameSizes
    <3>2. CASE Call.op \in {"And", "Or"}
      <4>1. Call.other \in {1, 2}
        BY <1>1, <3>2, InLoop DEF IsCall
      <4> QED BY <1>4, <1>12, <1>14, <3>2, <4>1 DEF SameSizes
    <3>3. CASE Call.op \notin {"Scan", "And", "Or"}
      BY <1>14, <3>3 DEF SameSizes
    <3> QED BY <3>1, <3>2, <3>3
  <2>2. \A u \in Threads : running'[u] = None \/ running'[u] \in 0..(Iterations' - 1)
    BY <1>1, <1>2, <1>7, <1>14 DEF CallInv
  <2> QED BY <1>1, <1>2, <1>14, <2>1, <2>2 DEF CallInv
<1>16. ASSUME NEW k \in Unfinished, k # b
       PROVE  k \in Unfinished'
  <2>1. k \in 0..(Iterations - 1) /\ (k >= next_block \/ \E u \in Threads : k = running[u])
    BY <1>2 DEF Unfinished, Range, TypeOK
  <2>2. CASE k >= next_block
    BY <1>1, <1>14, <2>1, <2>2 DEF Unfinished
  <2>3. CASE \E u \in Threads : k = running[u]
    <3>1. PICK u \in Threads : k = running[u]
      BY <2>3
    <3>2. k = running'[u] /\ DOMAIN running' = Threads
      BY <1>1, <1>2, <1>7, <1>16, <3>1 DEF TypeOK, b
    <3> QED BY <1>14, <2>1, <3>2 DEF Unfinished, Range
  <2> QED BY <2>1, <2>2, <2>3
<1>17. TailInv'
  <2> SUFFICES ASSUME NEW w \in {1, 2}, NEW k \in 1..NumBlocks(bitvectors'[w].num)
               PROVE  \/ TailIsClear(bitvectors'[w].blocks[k])
                      \/ Call.op = "BitVector" /\ w = v /\ (k - 1) \in Unfinished'
    BY <1>1, <1>14 DEF TailInv, TailIsClear
  <2>1. k \in 1..NumBlocks(bitvectors[w].num)
    BY <1>12
  <2>2. \/ TailIsClear(bitvectors[w].blocks[k])
        \/ Call.op = "BitVector" /\ w = v /\ (k - 1) \in Unfinished
    BY <1>2, <2>1 DEF TailInv
  <2>3. CASE w # v
    BY <1>11, <2>2, <2>3
  <2>4. CASE w = v /\ k = b + 1
    BY <1>6, <1>10, <1>11, <2>4 DEF TailIsClear
  <2>5. CASE w = v /\ k # b + 1
    <3>1. k - 1 # b /\ k \in 1..n
      BY <1>3, <1>4, <2>1, <2>5
    <3>2. /\ bitvectors'[w].blocks[k].num = bv.blocks[k].num
          /\ bitvectors'[w].blocks[k].data = bv.blocks[k].data
      BY <1>10, <1>11, <2>5, <3>1
    <3>3. CASE TailIsClear(bitvectors[w].blocks[k])
      BY <2>5, <3>2, <3>3 DEF TailIsClear
    <3>4. CASE Call.op = "BitVector" /\ w = v /\ (k - 1) \in Unfinished
      BY <1>16, <3>1, <3>4
    <3> QED BY <2>2, <3>3, <3>4
  <2> QED BY <2>3, <2>4, <2>5
<1> QED BY <1>1, <1>5, <1>13, <1>15, <1>17 DEF ClientInv, LoadInv

LEMMA EndLoopStep ==
  ASSUME ClientInv, EndLoop
  PROVE  ClientInv'
<1>1. /\ pc = "loop" /\ next_block >= Iterations /\ \A t \in Threads : running[t] = None
      /\ Returns /\ UNCHANGED <<columns, bitvectors, file_pos, next_block, running, load, failed>>
  BY DEF EndLoop, store, loop
<1>2. TypeOK /\ TailInv /\ ~failed /\ Iterations \in Nat
  BY <1>1, InLoop DEF ClientInv
<1>3. Unfinished = {}
  BY <1>1, <1>2 DEF Unfinished, Range, TypeOK, None
<1>4. \A v \in {1, 2} : \A b \in 1..NumBlocks(bitvectors[v].num) : TailIsClear(bitvectors[v].blocks[b])
  BY <1>2, <1>3 DEF TailInv
<1> QED BY <1>1, <1>2, <1>4, CallReturns DEF TypeOK, Returns

----------------------------------------------------------------------------
(* The iterator reads only.                                                *)
LEMMA NewIteratorStep ==
  ASSUME ClientInv, NewIterator
  PROVE  ClientInv'
<1>1. /\ Calls({"Iterate"}) /\ pc' = "Next"
      /\ UNCHANGED <<script, ip, columns, bitvectors, file_pos, next_block, running, load, failed>>
  BY DEF NewIterator, store, loop
<1>2. /\ Call.op = "Iterate" /\ ip <= Len(script) /\ pc = "call"
  BY <1>1 DEF Calls
<1>3. Call' = Call
  BY <1>1 DEF Call
<1>4. TypeOK' /\ CallInv' /\ LoadInv'
  BY <1>1, <1>2, <1>3 DEF ClientInv, TypeOK, CallInv, LoadInv
<1>5. TailInv'
  BY <1>1, <1>2 DEF ClientInv, TailInv, TailIsClear
<1> QED BY <1>1, <1>4, <1>5 DEF ClientInv

LEMMA IterateStep ==
  ASSUME ClientInv, Iterate
  PROVE  ClientInv'
<1>1. /\ pc \in {"Next", "seek"}
      /\ UNCHANGED <<columns, bitvectors, file_pos, next_block, running, load, failed>>
      /\ \/ Returns
         \/ UNCHANGED <<script, ip>> /\ pc' \in {"Next", "seek"}
  BY DEF Iterate, NextPops, NextBlock, NoBlockLeft, SkipZeroWord, PushWord, store, loop
<1>2. /\ TypeOK /\ ~failed /\ Call.op = "Iterate" /\ ip <= Len(script)
      /\ \A t \in Threads : running[t] = None
      /\ \A v \in {1, 2} : \A b \in 1..NumBlocks(bitvectors[v].num) :
           TailIsClear(bitvectors[v].blocks[b])
  BY <1>1 DEF ClientInv, CallInv, TailInv
<1>3. CASE Returns
  BY <1>1, <1>2, <1>3, CallReturns DEF TypeOK, Returns
<1>4. CASE UNCHANGED <<script, ip>> /\ pc' \in {"Next", "seek"}
  <2>1. Call' = Call
    BY <1>4 DEF Call
  <2>2. TypeOK' /\ CallInv' /\ LoadInv'
    BY <1>1, <1>2, <1>4, <2>1 DEF TypeOK, CallInv, LoadInv
  <2>3. TailInv'
    BY <1>1, <1>2 DEF TailInv, TailIsClear
  <2> QED BY <1>1, <1>2, <2>2, <2>3 DEF ClientInv
<1> QED BY <1>1, <1>3, <1>4

----------------------------------------------------------------------------
LEMMA ClientStarts ==
  ASSUME Init
  PROVE  ClientInv
<1>1. NumBlocks(0) = 0
  BY DEF NumBlocks
<1>2. \A c \in {1, 2} : IsColumn(columns[c]) /\ columns[c].num_tuples = 0
  <2> TAKE c \in {1, 2}
  <2> DEFINE T == [1..0 -> [num_tuples : 1..kNumTuplesPerBlock,
                            data : [Positions -> StoredCode(columns[c])]]]
  <2>1. columns[c] = [type |-> "kNaive", bit_width |-> 1, num_tuples |-> 0, blocks |-> <<>>]
    BY DEF Init
  <2>2. <<>> \in T
    OBVIOUS
  <2> HIDE DEF T
  <2>3. columns[c] \in [type : ColumnType, bit_width : 1..32, num_tuples : Nat, blocks : T]
    BY <2>1, <2>2 DEF ColumnType
  <2>4. columns[c].num_tuples = 0
    BY <2>1
  <2> QED BY <1>1, <2>3, <2>4 DEF IsColumn, T
<1>3. \A v \in {1, 2} : IsBitVector(bitvectors[v]) /\ bitvectors[v].num = 0
  <2> TAKE v \in {1, 2}
  <2> DEFINE T == [1..0 -> [num : 1..kNumTuplesPerBlock,
                            data : UNION {Words(n) : n \in 1..kNumTuplesPerBlock}]]
  <2>1. bitvectors[v] = [num |-> 0, blocks |-> <<>>]
    BY DEF Init
  <2>2. <<>> \in T
    OBVIOUS
  <2> HIDE DEF T
  <2>3. bitvectors[v] \in [num : Nat, blocks : T] /\ bitvectors[v].num = 0
    BY <2>1, <2>2
  <2> QED BY <1>1, <2>3 DEF IsBitVector, T
<1>4. TypeOK
  <2>1. script \in Scripts /\ ip \in Nat \ {0} /\ pc \in {"call", "load", "loop", "Next", "seek"}
    BY DEF Init
  <2>2. DOMAIN columns = {1, 2} /\ DOMAIN bitvectors = {1, 2} /\ DOMAIN running = Threads
    BY DEF Init
  <2>3. file_pos \in Nat /\ next_block \in Nat /\ failed \in BOOLEAN
    BY DEF Init
  <2>4. load \in [block_id : Nat, pos_in_block : Nat, data_ptr : Nat]
    BY DEF Init
  <2> QED BY <1>2, <1>3, <2>1, <2>2, <2>3, <2>4 DEF TypeOK
<1>5. CallInv /\ LoadInv /\ ~failed
  BY DEF Init, CallInv, LoadInv
<1>6. TailInv
  BY <1>1, <1>3 DEF TailInv
<1> QED BY <1>4, <1>5, <1>6 DEF ClientInv

LEMMA ClientStep ==
  ASSUME ClientInv, ClientKeepsContract, [Next]_vars
  PROVE  ClientInv'
<1>1. CASE Column
  BY <1>1, ColumnStep
<1>2. CASE Resize
  BY <1>2, ResizeStep
<1>3. CASE SetTuple_
  BY <1>3, SetTupleStep
<1>4. CASE LoadTextFile
  BY <1>4, LoadTextFileStep
<1>5. CASE SerToFile
  BY <1>5, SerToFileStep
<1>6. CASE DeserFromFile
  BY <1>6, DeserFromFileStep
<1>7. CASE BulkLoadArray
  BY <1>7, BulkLoadArrayStep
<1>8. CASE LoadBlock
  BY <1>8, LoadBlockStep
<1>9. CASE EndLoad
  BY <1>9, EndLoadStep
<1>10. CASE SetBit_
  BY <1>10, SetBitStep
<1>11. CASE StartLoop
  BY <1>11, StartLoopStep
<1>12. CASE EndLoop
  BY <1>12, EndLoopStep
<1>13. ASSUME NEW t \in Threads, TakeBlock(t) \/ RunBlock(t)
       PROVE  ClientInv'
  BY <1>13, TakeBlockStep, RunBlockStep
<1>14. CASE NewIterator
  BY <1>14, NewIteratorStep
<1>15. CASE Iterate
  BY <1>15, IterateStep
<1>16. CASE UNCHANGED vars
  <2>1. /\ Call' = Call /\ SameSizes' = SameSizes /\ Iterations' = Iterations
        /\ Unfinished' = Unfinished
    BY <1>16 DEF vars, store, loop, Call, SameSizes, Iterations, Unfinished, Range
  <2>2. TypeOK' /\ CallInv' /\ LoadInv' /\ ~failed'
    BY <1>16, <2>1 DEF vars, store, loop, ClientInv, TypeOK, CallInv, LoadInv
  <2>3. TailInv'
    BY <1>16, <2>1 DEF vars, store, ClientInv, TailInv, TailIsClear
  <2> QED BY <2>2, <2>3 DEF ClientInv
<1> QED BY <1>1, <1>2, <1>3, <1>4, <1>5, <1>6, <1>7, <1>8, <1>9, <1>10, <1>11, <1>12, <1>13,
           <1>14, <1>15, <1>16 DEF Next

(* What a client that keeps the contract can rely on: ClientInv is         *)
(* inductive, of any script, any number of threads, and any sizes of words *)
(* and blocks.                                                             *)
THEOREM ClientIsSafe == Spec /\ []ClientKeepsContract => []ClientInv
<1>1. Init => ClientInv
  BY ClientStarts
<1>2. ClientInv /\ ClientKeepsContract /\ [Next]_vars => ClientInv'
  BY ClientStep
<1> QED BY <1>1, <1>2, PTL DEF Spec

(* No assertion of column.cpp or byteslice_column_block.cpp fails.         *)
THEOREM NoAssertionFails == Spec /\ []ClientKeepsContract => []AssertionsHold
<1>1. ClientInv => AssertionsHold
  BY DEF ClientInv, AssertionsHold
<1> QED BY <1>1, ClientIsSafe, PTL

(* No bit vector has a bit behind its last tuple when a call counts them,  *)
(* iterates over them or scans into them.                                  *)
THEOREM NoTailIsLeft == Spec /\ []ClientKeepsContract => []TailsAreClear
<1>1. ClientInv => TailsAreClear
  <2> SUFFICES ASSUME ClientInv, NEW v \in DOMAIN bitvectors,
                      NEW b \in DOMAIN bitvectors[v].blocks,
                      ~(pc = "loop" /\ v = Call.bv /\ (b - 1) \in Unfinished)
               PROVE  TailIsClear(bitvectors[v].blocks[b])
    BY DEF TailsAreClear, TailIsClear
  <2>1. v \in {1, 2} /\ IsBitVector(bitvectors[v])
    BY DEF ClientInv, TypeOK
  <2>2. b \in 1..NumBlocks(bitvectors[v].num)
    BY <2>1, VectorFields
  <2> QED BY <2>1, <2>2 DEF ClientInv, TailInv
<1> QED BY <1>1, ClientIsSafe, PTL
=============================================================================
