------------------------ MODULE ColumnClientInvariant ------------------------
(***************************************************************************)
(* An inductive invariant of ColumnClient, of clients that keep to what    *)
(* the functions ask of them.  Its idea: how many tuples a block has       *)
(* follows from its number and the size of its column, or bit vector, so   *)
(* that blocks of one number fit whatever has been resized and loaded; and *)
(* a bit vector's tails are clear except while its memory is still that of *)
(* its allocation.                                                         *)
(***************************************************************************)
EXTENDS ColumnClient

(* What a block of a column keeps of a code. *)
StoredCode(column) ==
  IF column.type = "kNaive" THEN Nat ELSE [1..kNumBytesPerCode(column.bit_width) -> ByteUnit]

IsColumn(column) ==
  /\ column \in
       [type : ColumnType, bit_width : 1..32, num_tuples : Nat,
        blocks : [1..NumBlocks(column.num_tuples) ->
                    [num_tuples : 1..kNumTuplesPerBlock, data : [Positions -> StoredCode(column)]]]]
  /\ \A b \in 1..NumBlocks(column.num_tuples) :
       column.blocks[b].num_tuples = BlockSize(column.num_tuples, b - 1)

Words(num) == [WordIds(num) -> SUBSET WordBits]

IsBitVector(bv) ==
  /\ bv \in [num : Nat,
             blocks : [1..NumBlocks(bv.num) ->
                         [num : 1..kNumTuplesPerBlock,
                          data : UNION {Words(n) : n \in 1..kNumTuplesPerBlock}]]]
  /\ \A b \in 1..NumBlocks(bv.num) :
       /\ bv.blocks[b].num = BlockSize(bv.num, b - 1)
       /\ bv.blocks[b].data \in Words(bv.blocks[b].num)

----------------------------------------------------------------------------
(***************************************************************************)
(* What the code asks of a caller, and for the most part asserts.  Of      *)
(* Resize it asks nothing, but is right only for these: when the column    *)
(* has tuples, for the code takes block old_num_blocks - 1 to fill it up,  *)
(* and gets more blocks, or keeps them and does not fill the last one.     *)
(***************************************************************************)
ResizesRight ==
  LET column == columns[Call.column]
      new_num_blocks == CEIL(Call.num, kNumTuplesPerBlock)
  IN /\ column.num_tuples > 0
     /\ Call.num > 0
     /\ \/ new_num_blocks > Len(column.blocks)
        \/ /\ new_num_blocks = Len(column.blocks)
           /\ Call.num % kNumTuplesPerBlock # 0 \/ Call.num = column.num_tuples

ReadsItsBlocks ==
  LET column == columns[Call.column] IN
  /\ file_pos + Len(column.blocks) <= Len(file)
  /\ \A b \in DOMAIN column.blocks :
       file[file_pos + b] \in [num_tuples : {column.blocks[b].num_tuples},
                               data : [Positions -> StoredCode(column)]]

IsAllowed ==
  CASE Call.op = "Resize" -> ResizesRight
    [] Call.op = "SetTuple" -> Call.pos < columns[Call.column].num_tuples
    [] Call.op = "BulkLoadArray" ->
         Call.pos + Len(Call.codes) <= columns[Call.column].num_tuples
    [] Call.op = "DeserFromFile" -> ReadsItsBlocks
    [] Call.op \in {"SetBit", "UnsetBit"} -> Call.pos < bitvectors[Call.bv].num
    [] Call.op \in {"Scan", "And", "Or"} -> SameSizes
    [] OTHER -> TRUE

(* The client's calls are ones the code is made for.                       *)
ClientKeepsContract == pc = "call" /\ ip <= Len(script) => IsAllowed

----------------------------------------------------------------------------
TypeOK ==
  /\ script \in Scripts
  /\ ip \in Nat \ {0}
  /\ pc \in {"call", "load", "loop", "Next", "seek"}
  /\ DOMAIN columns = {1, 2} /\ \A c \in {1, 2} : IsColumn(columns[c])
  /\ DOMAIN bitvectors = {1, 2} /\ \A v \in {1, 2} : IsBitVector(bitvectors[v])
  /\ file_pos \in Nat
  /\ next_block \in Nat
  /\ DOMAIN running = Threads
  /\ load \in [block_id : Nat, pos_in_block : Nat, data_ptr : Nat]
  /\ failed \in BOOLEAN

(* The calls that are a parallel loop over the blocks. *)
LoopCalls == {"BitVector", "Scan", "And", "Or", "SetOnes", "SetZeros", "CountOnes"}

(* A call in progress.  A thread runs a block that has been taken.         *)
CallInv ==
  /\ pc # "call" => ip <= Len(script)
  /\ pc = "load" => Call.op = "BulkLoadArray"
  /\ pc = "loop" => Call.op \in LoopCalls
  /\ pc \in {"Next", "seek"} => Call.op = "Iterate"
  /\ pc = "loop" => SameSizes
  /\ pc # "loop" => \A t \in Threads : running[t] = None
  /\ pc = "loop" => \A t \in Threads : running[t] = None \/ running[t] \in 0..(Iterations - 1)

(* BulkLoadArray is at the position of the next code.                      *)
LoadInv ==
  pc = "load" =>
    /\ Call.pos + Len(Call.codes) <= columns[Call.column].num_tuples
    /\ load.data_ptr <= Len(Call.codes)
    /\ load.data_ptr < Len(Call.codes) =>
         /\ load.pos_in_block < kNumTuplesPerBlock
         /\ load.block_id * kNumTuplesPerBlock + load.pos_in_block = Call.pos + load.data_ptr

TailIsClear(block) ==
  \A w \in WordIds(block.num) : \A bit \in block.data[w] : w * kNumWordBits + bit < block.num

(* Only the memory of a bit vector that is being allocated may hold        *)
(* anything.                                                               *)
TailInv ==
  \A v \in {1, 2} : \A b \in 1..NumBlocks(bitvectors[v].num) :
    \/ TailIsClear(bitvectors[v].blocks[b])
    \/ pc = "loop" /\ Call.op = "BitVector" /\ v = Call.bv /\ (b - 1) \in Unfinished

ClientInv == TypeOK /\ CallInv /\ LoadInv /\ TailInv /\ ~failed

----------------------------------------------------------------------------
(***************************************************************************)
(* What a client of a ColumnStore keeps to besides: codes and literals fit *)
(* their column, which the code cuts them to; a column is made once; the   *)
(* file is one of columns like the first; an iterator is over a bit vector *)
(* that has a block.                                                       *)
(***************************************************************************)
Fits(column, value) == value < 2^column.bit_width

LikeFirst(column) == column.type = columns[1].type /\ column.bit_width = columns[1].bit_width

FitsStore ==
  CASE Call.op = "Column" ->
         columns[Call.column].num_tuples = 0 /\ (Call.column = 1 => file = <<>>)
    [] Call.op = "SetTuple" -> Fits(columns[Call.column], Call.value)
    [] Call.op \in {"LoadTextFile", "BulkLoadArray"} ->
         \A k \in DOMAIN Call.codes : Fits(columns[Call.column], Call.codes[k])
    [] Call.op \in {"SerToFile", "DeserFromFile"} -> LikeFirst(columns[Call.column])
    [] Call.op = "Scan" -> Call.right = 0 => Fits(columns[Call.column], Call.literal)
    [] Call.op = "Iterate" -> bitvectors[Call.bv].num > 0
    [] OTHER -> TRUE

(* The client's calls are ones the code is made for, and ones that a       *)
(* ColumnStore has.                                                        *)
ClientFitsStore == pc = "call" /\ ip <= Len(script) => IsAllowed /\ FitsStore

----------------------------------------------------------------------------
(* Every block that has been taken is run by one thread.                   *)
RunInv ==
  pc = "loop" =>
    \A t \in Threads :
      running[t] # None => /\ running[t] < next_block
                           /\ \A u \in Threads : running[u] = running[t] => u = t

(* The threads have counted what is set in the blocks they have finished.  *)
CountInv ==
  /\ ones \in [Threads -> Nat]
  /\ pc = "loop" /\ Call.op = "CountOnes" =>
       FoldFunction(+, 0, ones) = Cardinality(Selected(bitvectors[Call.bv]) \ Undone)

(* The first position of the word that the iterator considers next.        *)
Cursor == itor.block_offset + itor.cur_word_id * kNumWordBits

(* What the next calls of Next pop: the top of the stack has been returned.*)
Waiting == {itor.stack[k] : k \in 1..(Len(itor.stack) - 1)}

(* What is set before the cursor has been returned or waits on the stack,  *)
(* the first on its top.                                                   *)
IteratorInv ==
  /\ DOMAIN itor = {"cur_block_id", "cur_word_id", "block_offset", "stack"}
  /\ pc \in {"Next", "seek"} =>
    LET bv == bitvectors[Call.bv] IN
    /\ itor.cur_block_id \in 0..(Len(bv.blocks) - 1)
    /\ itor.cur_word_id \in 0..num_word_units(IteratedBlock.num)
    /\ itor.block_offset = itor.cur_block_id * kNumTuplesPerBlock
    /\ itor.stack \in Seq(Int) /\ result \in Seq(Nat)
    /\ IF pc = "seek" THEN itor.stack = <<>> ELSE itor.stack # <<>>
    /\ \A j, k \in 1..(Len(itor.stack) - 1) : j < k => itor.stack[k] < itor.stack[j]
    /\ \A x \in Range(result) : \A y \in Waiting : x < y
    /\ Range(result) \cup Waiting = {x \in Selected(bv) : x < Cursor}

(* The file holds blocks like those of the first column.                   *)
FileInv ==
  /\ file \in Seq([num_tuples : 1..kNumTuplesPerBlock,
                    data : [Positions -> StoredCode(columns[1])]])
  /\ file_pos <= Len(file)

(* The calls in progress fit as they did when they began. *)
StoreInv ==
  ClientInv /\ (pc # "call" => FitsStore) /\ RunInv /\ CountInv /\ IteratorInv /\ FileInv
=============================================================================
