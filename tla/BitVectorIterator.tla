-------------------------- MODULE BitVectorIterator --------------------------
(***************************************************************************)
(* A client that makes an iterator over a bit vector and calls Next until  *)
(* it returns false, taking the position after each call that does not     *)
(* (bitvector_iterator.h).                                                 *)
(*                                                                         *)
(* The iterator keeps the positions of one word on a stack, the next one   *)
(* on its top, and the cursor at the word to consider next.                *)
(***************************************************************************)
EXTENDS Columns

IteratedBlock == bitvectors[Call.bv].blocks[itor.cur_block_id + 1]

(* The constructor: stack_top_ is 1, for the first Next to pop. *)
NewIterator ==
  /\ Calls({"Iterate"})
  /\ itor' = [cur_block_id |-> 0, cur_word_id |-> 0, block_offset |-> 0, stack |-> <<None>>]
  /\ result' = <<>>
  /\ pc' = "Next"
  /\ UNCHANGED <<script, ip, store, loop, load, failed>>

(* Next pops; if the stack is empty then, it looks for a word. *)
NextPops ==
  LET stack == SubSeq(itor.stack, 1, Len(itor.stack) - 1) IN
  /\ pc = "Next"
  /\ itor' = [itor EXCEPT !.stack = stack]
  /\ IF stack = <<>> THEN pc' = "seek" /\ UNCHANGED result
     ELSE pc' = pc /\ result' = Append(result, stack[Len(stack)])
  /\ UNCHANGED <<script, ip, store, loop, load, failed>>

WordsExhausted == itor.cur_word_id >= num_word_units(IteratedBlock.num)

(* Mutant: the words of the next block are counted from the first.         *)
NextOffset_kept(block_offset, num) == block_offset

NextOffset(block_offset, num) == block_offset + num

NextBlock ==
  /\ pc = "seek" /\ WordsExhausted
  /\ itor.cur_block_id + 1 < Len(bitvectors[Call.bv].blocks)
  /\ itor' = [itor EXCEPT !.cur_word_id = 0, !.cur_block_id = @ + 1,
                          !.block_offset = NextOffset(@, IteratedBlock.num)]
  /\ UNCHANGED <<script, ip, pc, store, loop, load, result, failed>>

(* Next returns false. *)
NoBlockLeft ==
  /\ pc = "seek" /\ WordsExhausted
  /\ itor.cur_block_id + 1 >= Len(bitvectors[Call.bv].blocks)
  /\ itor' = [itor EXCEPT !.cur_word_id = 0, !.cur_block_id = @ + 1,
                          !.block_offset = NextOffset(@, IteratedBlock.num)]
  /\ Returns
  /\ UNCHANGED <<store, loop, load, result, failed>>

(* Mutant: a word of zeros is looked at again.                             *)
ConsideredWord_again(word, id) == IF word = {} THEN id ELSE id + 1

(* The cursor after a word. *)
ConsideredWord(word, id) == id + 1

(* Mutant: the smaller positions are pushed first.                         *)
Pushed_forwards(word, offset) ==
  [k \in 1..Cardinality(word) |->
     offset + CHOOSE bit \in word :
                Cardinality({b \in word : b <= bit}) = k]

(* The larger positions of the word are pushed first. *)
Pushed(word, offset) ==
  [k \in 1..Cardinality(word) |->
     offset + CHOOSE bit \in word :
                Cardinality({b \in word : b >= bit}) = k]

SkipZeroWord ==
  LET word == IteratedBlock.data[itor.cur_word_id] IN
  /\ pc = "seek" /\ ~WordsExhausted
  /\ word = {}
  /\ itor' = [itor EXCEPT !.cur_word_id = ConsideredWord(word, @)]
  /\ UNCHANGED <<script, ip, pc, store, loop, load, result, failed>>

PushWord ==
  LET word == IteratedBlock.data[itor.cur_word_id]
      offset == itor.block_offset + itor.cur_word_id * kNumWordBits
      stack == Pushed(word, offset)
  IN
  /\ pc = "seek" /\ ~WordsExhausted
  /\ word # {}
  /\ itor' = [itor EXCEPT !.cur_word_id = ConsideredWord(word, @), !.stack = stack]
  /\ result' = Append(result, stack[Len(stack)])
  /\ pc' = "Next"
  /\ UNCHANGED <<script, ip, store, loop, load, failed>>
=============================================================================
