----------------------------- MODULE ColumnClient -----------------------------
(***************************************************************************)
(* A client of ByteSlice: columns, bit vectors and iterators together, and *)
(* what they promise it.                                                   *)
(***************************************************************************)
EXTENDS BitVectors, BitVectorIterator, SequencesExt

Iterate == NextPops \/ NextBlock \/ NoBlockLeft \/ SkipZeroWord \/ PushWord

Next ==
  \/ Column \/ Resize \/ SetTuple_ \/ LoadTextFile \/ SerToFile \/ DeserFromFile
  \/ BulkLoadArray \/ LoadBlock \/ EndLoad
  \/ SetBit_ \/ StartLoop \/ EndLoop
  \/ \E t \in Threads : TakeBlock(t) \/ RunBlock(t)
  \/ NewIterator \/ Iterate

Spec == Init /\ [][Next]_vars

(* The client goes on to its last call, and the threads to the barrier.     *)
FairSpec == Spec /\ WF_vars(Next)

----------------------------------------------------------------------------
(* No assertion of column.cpp or byteslice_column_block.cpp fails, and     *)
(* BulkLoadArray does not run out of blocks: the blocks of a column have   *)
(* the sizes of the blocks of a bit vector or of another column of as many *)
(* tuples, whatever calls have made and resized them.                      *)
AssertionsHold == ~failed

(* The blocks that the loop in progress has still to finish. *)
Unfinished == {b \in 0..(Iterations - 1) : b >= next_block \/ b \in Range(running)}

(* Between calls no bit vector has a bit behind its last tuple, which a    *)
(* naive scan relies on: CountOnes and the iterator take whole words.      *)
TailsAreClear ==
  \A v \in DOMAIN bitvectors :
    \A b \in DOMAIN bitvectors[v].blocks :
      LET block == bitvectors[v].blocks[b] IN
      ~(pc = "loop" /\ v = Call.bv /\ (b - 1) \in Unfinished) =>
        \A w \in WordIds(block.num) :
          \A bit \in block.data[w] : w * kNumWordBits + bit < block.num

(***************************************************************************)
(* To the client, columns are functions and bit vectors sets: blocks,      *)
(* words, tails, the order in which the threads take the blocks, and how   *)
(* the codes are stored do not show, in what is kept or what is returned.  *)
(***************************************************************************)
BlockPositions(b) ==
  {b * kNumTuplesPerBlock + p : p \in 0..(bitvectors[Call.bv].blocks[b + 1].num - 1)}

Undone ==
  CASE pc = "loop" -> UNION {BlockPositions(b) : b \in Unfinished}
    [] pc = "load" -> (Call.pos + load.data_ptr)..(Call.pos + Len(Call.codes) - 1)
    [] OTHER -> {}

ColumnCodes(column) == [x \in 0..(column.num_tuples - 1) |-> GetTuple_(column, x)]

Selected(bv) == {x \in 0..(bv.num - 1) : IsSet(bv, x)}

(* The codes of each block of the file, which is a file of columns like    *)
(* the first.                                                              *)
FileCodes ==
  [b \in DOMAIN file |-> [p \in 1..file[b].num_tuples |-> Code(columns[1], file[b].data[p - 1])]]

AllValues == [c \in DOMAIN columns |-> ColumnCodes(columns[c])]
AllNums == [v \in DOMAIN bitvectors |-> bitvectors[v].num]
AllSelected == [v \in DOMAIN bitvectors |-> Selected(bitvectors[v])]
AllWritten == FlattenSeq(FileCodes)
AllRead == Len(FlattenSeq(SubSeq(FileCodes, 1, file_pos)))

Store ==
  INSTANCE ColumnStore WITH
    busy <- pc # "call", undone <- Undone, values <- AllValues, num <- AllNums,
    selected <- AllSelected, file <- AllWritten, file_pos <- AllRead

ImplementsColumnStore == Store!Spec

(* Every call returns: the loops reach their barrier, BulkLoadArray and    *)
(* the iterator their end.                                                 *)
EveryCallReturns == <>(pc = "call" /\ ip > Len(script))
=============================================================================
