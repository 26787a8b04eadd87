------------------------------ MODULE BitVectors ------------------------------
(***************************************************************************)
(* The calls that make, write and count bit vectors: bitvector.cpp, and    *)
(* the two Scans of column.cpp.  Most of them are parallel loops over      *)
(* blocks.                                                                 *)
(***************************************************************************)
EXTENDS Columns

SetBit_ ==
  /\ Calls({"SetBit", "UnsetBit"})
  /\ bitvectors' = [bitvectors EXCEPT ![Call.bv].blocks[block_id(Call.pos) + 1].data =
                      IF Call.op = "SetBit" THEN SetBit(@, pos_in_block(Call.pos))
                                            ELSE UnsetBit(@, pos_in_block(Call.pos))]
  /\ Returns /\ InStep
  /\ UNCHANGED <<columns, file, file_pos, failed>>

(* Mutant: a bit vector is as long as its blocks.                          *)
Allocated_whole_blocks(num, full) ==
  [num |-> NumBlocks(num) * kNumTuplesPerBlock,
   blocks |-> [b \in 1..NumBlocks(num) |->
                 [num |-> kNumTuplesPerBlock, data |-> SetZeros(kNumTuplesPerBlock)]]]

(* A new bit vector of num bits before SetOnes: its memory is what it was. *)
Allocated(num, full) ==
  [num |-> num,
   blocks |-> [b \in 1..NumBlocks(num) |->
                 LET size == BlockSize(num, b - 1) IN
                 [num |-> size, data |-> IF full THEN [w \in WordIds(size) |-> WordBits]
                                                 ELSE SetZeros(size)]]]

(* The assertions of a call, before its loop. *)
SameSizes ==
  LET bv == bitvectors[Call.bv] IN
  CASE Call.op = "Scan" ->
         LET column == columns[Call.column] IN
         /\ column.num_tuples = bv.num
         /\ Call.right # 0 => /\ columns[Call.right].type = column.type
                              /\ columns[Call.right].bit_width = column.bit_width
                              /\ columns[Call.right].num_tuples = column.num_tuples
    [] Call.op \in {"And", "Or"} -> bitvectors[Call.other].num = bv.num
    [] OTHER -> TRUE

StartLoop ==
  /\ Calls({"BitVector", "Scan", "And", "Or", "SetOnes", "SetZeros", "CountOnes"})
  /\ IF Call.op = "BitVector"
     THEN \E full \in BOOLEAN :
            bitvectors' = [bitvectors EXCEPT ![Call.bv] =
                             Allocated(columns[Call.column].num_tuples, full)]
     ELSE UNCHANGED bitvectors
  /\ failed' = ~SameSizes
  /\ next_block' = 0
  /\ ones' = [t \in Threads |-> 0]
  /\ result' = <<>>
  /\ pc' = "loop"
  /\ UNCHANGED <<script, ip, columns, file, file_pos, running, load, itor>>

(* blocks_.size(): of the column in a Scan, of the bit vector otherwise.   *)
Iterations ==
  IF Call.op = "Scan" THEN Len(columns[Call.column].blocks)
                      ELSE Len(bitvectors[Call.bv].blocks)

TakeBlock(t) ==
  /\ pc = "loop" /\ ~failed
  /\ running[t] = None
  /\ next_block < Iterations
  /\ running' = [running EXCEPT ![t] = next_block]
  /\ next_block' = next_block + 1
  /\ UNCHANGED <<script, ip, pc, store, ones, load, itor, result, failed>>

(* What each position of block b is compared with. *)
RightCodes(b) ==
  LET column == columns[Call.column] IN
  [p \in Positions |->
     IF Call.right = 0 THEN Literal(column, Call.literal)
     ELSE Code(column, columns[Call.right].blocks[b + 1].data[p])]

(* The words of block b of the call's bit vector when the loop is over it. *)
BlockResult(b) ==
  LET block == bitvectors[Call.bv].blocks[b + 1]
      Other == bitvectors[Call.other].blocks[b + 1].data
  IN CASE Call.op = "Scan" ->
            ScanBlock(columns[Call.column], columns[Call.column].blocks[b + 1],
                      RightCodes(b), Call.cmp, Call.bit_opt, block.data)
       [] Call.op = "And" -> AndBlock(block.data, Other, block.num)
       [] Call.op = "Or" -> OrBlock(block.data, Other, block.num)
       [] Call.op \in {"BitVector", "SetOnes"} -> SetOnes(block.num)
       [] Call.op = "SetZeros" -> SetZeros(block.num)
       [] Call.op = "CountOnes" -> block.data

(* The assertions of the block's Scan. *)
BlockSizesAgree(b) ==
  Call.op = "Scan" =>
    LET size == columns[Call.column].blocks[b + 1].num_tuples IN
    /\ bitvectors[Call.bv].blocks[b + 1].num = size
    /\ Call.right # 0 => columns[Call.right].blocks[b + 1].num_tuples = size

RunBlock(t) ==
  LET b == running[t] IN
  /\ pc = "loop" /\ ~failed
  /\ b # None
  /\ failed' = ~BlockSizesAgree(b)
  /\ bitvectors' = IF failed' THEN bitvectors
                   ELSE [bitvectors EXCEPT ![Call.bv].blocks[b + 1].data = BlockResult(b)]
  /\ ones' = IF Call.op = "CountOnes"
             THEN [ones EXCEPT ![t] = @ + CountOnes(bitvectors[Call.bv].blocks[b + 1].data)]
             ELSE ones
  /\ running' = [running EXCEPT ![t] = None]
  /\ UNCHANGED <<script, ip, pc, columns, file, file_pos, next_block, load, itor, result>>

(* The barrier of the loop, and the reduction of the counts. *)
EndLoop ==
  /\ pc = "loop" /\ ~failed
  /\ next_block >= Iterations
  /\ \A t \in Threads : running[t] = None
  /\ result' = IF Call.op = "CountOnes" THEN <<FoldFunction(+, 0, ones)>> ELSE result
  /\ Returns
  /\ UNCHANGED <<store, loop, load, itor, failed>>
=============================================================================
