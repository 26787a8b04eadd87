------------------------------- MODULE Columns -------------------------------
(***************************************************************************)
(* Columns and bit vectors of many blocks (column.cpp, bitvector.cpp), and *)
(* the iterator over a bit vector (bitvector_iterator.h).                  *)
(*                                                                         *)
(* One client makes the calls of a script, one after another.  A call that *)
(* goes over all the blocks is an OpenMP parallel loop with a dynamic      *)
(* schedule: every thread takes the next block when it has finished one,   *)
(* and the call returns when all of them wait at the end of the loop.      *)
(***************************************************************************)
EXTENDS ColumnBlocks, Functions, FiniteSetsExt, TLC

CONSTANTS Scripts,      \* The sequences of calls to make.
          Threads       \* The OpenMP threads.

(* The calls that take a column, and those that take a bit vector.         *)
ColumnCalls ==
  {"Column", "Resize", "SetTuple", "LoadTextFile", "BulkLoadArray", "SerToFile",
   "DeserFromFile", "BitVector", "Scan"}
BitVectorCalls ==
  {"BitVector", "Scan", "And", "Or", "SetOnes", "SetZeros", "CountOnes", "SetBit",
   "UnsetBit", "Iterate"}

(* What the compiler asks of a call's arguments. *)
IsCall(call) ==
  /\ call.op \in ColumnCalls \cup BitVectorCalls
  /\ call.op \in ColumnCalls => call.column \in {1, 2}
  /\ call.op \in BitVectorCalls => call.bv \in {1, 2}
  /\ call.op = "Column" => call.type \in ColumnType /\ call.bit_width \in 1..32
  /\ call.op \in {"Column", "Resize"} => call.num \in Nat
  /\ call.op \in {"SetTuple", "BulkLoadArray", "SetBit", "UnsetBit"} => call.pos \in Nat
  /\ call.op = "SetTuple" => call.value \in Nat
  /\ call.op \in {"LoadTextFile", "BulkLoadArray"} => call.codes \in Seq(Nat)
  /\ call.op = "Scan" => /\ call.right \in 0..2
                        /\ call.cmp \in {"kEqual", "kInequal", "kLess", "kLessEqual", "kGreater",
                                        "kGreaterEqual"}
                        /\ call.bit_opt \in {"kSet", "kAnd", "kOr"}
                        /\ call.literal \in Nat
  /\ call.op \in {"And", "Or"} => call.other \in {1, 2}

ASSUME ScriptsAssumption ==
  \A s \in Scripts : /\ s \in Seq({s[k] : k \in DOMAIN s})
                     /\ \A k \in DOMAIN s : IsCall(s[k])

ASSUME ThreadsAssumption == IsFiniteSet(Threads)

VARIABLES script,       \* The calls; never written.
          ip,           \* The call in progress or next.
          pc,           \* Where the call in progress is.
          columns,      \* type, bit_width, num_tuples and blocks of each column.
          bitvectors,   \* num and blocks of each bit vector.
          file,         \* The blocks written to the file.
          file_pos,     \* How many of them have been read.
          next_block,   \* The next iteration of the parallel loop,
          running,      \*   the one that each thread executes, or None,
          ones,         \*   and each thread's share of the count.
          load,         \* The local variables of BulkLoadArray.
          itor,         \* The iterator.
          result,       \* What the call has returned.
          failed        \* Whether an assertion has failed or a block is missing.

store == <<columns, bitvectors, file, file_pos>>
loop == <<next_block, running, ones>>
vars == <<script, ip, pc, store, loop, load, itor, result, failed>>

None == -1

Call == script[ip]
Min2(a, b) == IF a < b THEN a ELSE b

(* Block b of num tuples holds as many as a block can, the last the rest. *)
BlockSize(num, b) == Min2(kNumTuplesPerBlock, num - b * kNumTuplesPerBlock)
NumBlocks(num) == IF num = 0 THEN 0 ELSE CEIL(num, kNumTuplesPerBlock)

block_id(pos) == pos \div kNumTuplesPerBlock
pos_in_block(pos) == pos % kNumTuplesPerBlock

GetTuple_(column, id) ==
  Code(column, column.blocks[block_id(id) + 1].data[pos_in_block(id)])

IsSet(bitvector, pos) ==
  GetBit(bitvector.blocks[block_id(pos) + 1].data, pos_in_block(pos))

----------------------------------------------------------------------------
Init ==
  /\ script \in Scripts
  /\ ip = 1
  /\ pc = "call"
  /\ columns = [c \in {1, 2} |-> [type |-> "kNaive", bit_width |-> 1, num_tuples |-> 0, blocks |-> <<>>]]
  /\ bitvectors = [v \in {1, 2} |-> [num |-> 0, blocks |-> <<>>]]
  /\ file = <<>>
  /\ file_pos = 0
  /\ next_block = 0
  /\ running = [t \in Threads |-> None]
  /\ ones = [t \in Threads |-> 0]
  /\ load = [block_id |-> 0, pos_in_block |-> 0, data_ptr |-> 0]
  /\ itor = [cur_block_id |-> 0, cur_word_id |-> 0, block_offset |-> 0, stack |-> <<>>]
  /\ result = <<>>
  /\ failed = FALSE

Calls(ops) == pc = "call" /\ ip <= Len(script) /\ ~failed /\ Call.op \in ops

Returns == ip' = ip + 1 /\ pc' = "call" /\ UNCHANGED script

InStep == UNCHANGED <<pc, loop, load, itor, result>>

----------------------------------------------------------------------------
(* Calls on a column *)

Column ==
  /\ Calls({"Column"})
  /\ \E fresh \in FreshData(Call) :
       columns' = [columns EXCEPT ![Call.column] =
         [type |-> Call.type, bit_width |-> Call.bit_width, num_tuples |-> Call.num,
          blocks |-> [b \in 1..NumBlocks(Call.num) |->
                        [num_tuples |-> BlockSize(Call.num, b - 1), data |-> fresh]]]]
  /\ Returns /\ InStep
  /\ UNCHANGED <<bitvectors, file, file_pos, failed>>

(* Mutant: the last block keeps its size when blocks are appended.         *)
ResizedBlocks_not_filled(blocks, num, fresh) ==
  LET new_num_blocks == CEIL(num, kNumTuplesPerBlock)
      old_num_blocks == Len(blocks)
      last == num % kNumTuplesPerBlock
      grown == [b \in 1..new_num_blocks |->
                  IF b <= old_num_blocks THEN blocks[b]
                  ELSE [num_tuples |-> kNumTuplesPerBlock, data |-> fresh]]
  IN IF last = 0 THEN grown ELSE [grown EXCEPT ![Len(grown)].num_tuples = last]

(***************************************************************************)
(* Growing fills the last block and appends full ones.  Shrinking removes  *)
(* blocks from the last down to new_num_blocks + 1, which leaves one more  *)
(* than that is.  Then the last block gets the rest, if there is a rest.   *)
(* To grow from no blocks would be to fill one that there is not: of that  *)
(* nothing is claimed (ResizesRight).                                      *)
(***************************************************************************)
ResizedBlocks(blocks, num, fresh) ==
  LET new_num_blocks == CEIL(num, kNumTuplesPerBlock)
      old_num_blocks == Len(blocks)
      last == num % kNumTuplesPerBlock
      grown == [b \in 1..new_num_blocks |->
                  IF b > old_num_blocks THEN [num_tuples |-> kNumTuplesPerBlock, data |-> fresh]
                  ELSE IF b = old_num_blocks THEN [blocks[b] EXCEPT !.num_tuples = kNumTuplesPerBlock]
                  ELSE blocks[b]]
      changed == IF new_num_blocks > old_num_blocks THEN grown
                 ELSE IF new_num_blocks < old_num_blocks THEN SubSeq(blocks, 1, new_num_blocks + 1)
                 ELSE blocks
  IN IF last = 0 THEN changed ELSE [changed EXCEPT ![Len(changed)].num_tuples = last]

Resize ==
  /\ Calls({"Resize"})
  /\ \E fresh \in FreshData(columns[Call.column]) :
       columns' = [columns EXCEPT ![Call.column].num_tuples = Call.num,
                                  ![Call.column].blocks = ResizedBlocks(@, Call.num, fresh)]
  /\ failed' = (Len(columns'[Call.column].blocks) # CEIL(Call.num, kNumTuplesPerBlock))
  /\ Returns /\ InStep
  /\ UNCHANGED <<bitvectors, file, file_pos>>

(* The column with the code value at a position of block b. *)
Written(column, b, p, value) ==
  [column EXCEPT !.blocks[b + 1].data[p] = Stored(column, value)]

SetTuple_ ==
  /\ Calls({"SetTuple"})
  /\ columns' = [columns EXCEPT ![Call.column] =
                   Written(@, block_id(Call.pos), pos_in_block(Call.pos), Call.value)]
  /\ Returns /\ InStep
  /\ UNCHANGED <<bitvectors, file, file_pos, failed>>

(* Reads until the column is full or the text ends, one SetTuple each. *)
LoadTextFile ==
  LET column == columns[Call.column]
      read == Min2(column.num_tuples, Len(Call.codes))
      At(b, p) == (b - 1) * kNumTuplesPerBlock + p
      data(b) == [p \in Positions |-> IF At(b, p) < read THEN Stored(column, Call.codes[At(b, p) + 1])
                                                        ELSE column.blocks[b].data[p]]
  IN
  /\ Calls({"LoadTextFile"})
  /\ columns' = [columns EXCEPT ![Call.column].blocks =
                   [b \in DOMAIN @ |-> [column.blocks[b] EXCEPT !.data = data(b)]]]
  /\ Returns /\ InStep
  /\ UNCHANGED <<bitvectors, file, file_pos, failed>>

SerToFile ==
  /\ Calls({"SerToFile"})
  /\ file' = file \o columns[Call.column].blocks
  /\ Returns /\ InStep
  /\ UNCHANGED <<columns, bitvectors, file_pos, failed>>

(* The blocks of the column take the next ones of the file. *)
DeserFromFile ==
  /\ Calls({"DeserFromFile"})
  /\ columns' = [columns EXCEPT ![Call.column].blocks =
                   [b \in DOMAIN @ |-> file[file_pos + b]]]
  /\ file_pos' = file_pos + Len(columns[Call.column].blocks)
  /\ Returns /\ InStep
  /\ UNCHANGED <<bitvectors, file, failed>>

----------------------------------------------------------------------------
(* BulkLoadArray, a block at a time *)

BulkLoadArray ==
  /\ Calls({"BulkLoadArray"})
  /\ failed' = (Call.pos + Len(Call.codes) > columns[Call.column].num_tuples)
  /\ load' = [block_id |-> block_id(Call.pos), pos_in_block |-> pos_in_block(Call.pos),
              data_ptr |-> 0]
  /\ result' = <<>>
  /\ pc' = "load"
  /\ UNCHANGED <<script, ip, store, loop, itor>>

(***************************************************************************)
(* The difference in size is unsigned: it would wrap if the block had less *)
(* than pos_in_block tuples, and the block's assertion would fail.  Behind *)
(* the last block there is none to load.                                   *)
(***************************************************************************)
LoadBlock ==
  LET column == columns[Call.column]
      block == column.blocks[load.block_id + 1]
      num_remain_tuples == Len(Call.codes) - load.data_ptr
      size == Min2(block.num_tuples - load.pos_in_block, num_remain_tuples)
      data == [p \in Positions |->
                 IF p \in load.pos_in_block..(load.pos_in_block + size - 1)
                 THEN Stored(column, Call.codes[load.data_ptr + p - load.pos_in_block + 1])
                 ELSE block.data[p]]
  IN
  /\ pc = "load" /\ ~failed
  /\ num_remain_tuples > 0
  /\ failed' = \/ load.pos_in_block > block.num_tuples
               \/ size < num_remain_tuples /\ load.block_id + 1 = Len(column.blocks)
  /\ columns' = [columns EXCEPT ![Call.column].blocks[load.block_id + 1].data = data]
  /\ load' = [block_id |-> load.block_id + 1, pos_in_block |-> 0,
              data_ptr |-> load.data_ptr + size]
  /\ UNCHANGED <<script, ip, pc, bitvectors, file, file_pos, loop, itor, result>>

EndLoad ==
  /\ pc = "load" /\ ~failed
  /\ load.data_ptr = Len(Call.codes)
  /\ Returns
  /\ UNCHANGED <<store, loop, load, itor, result, failed>>
=============================================================================
