--------------------------- MODULE BitVectorBlock ---------------------------
(***************************************************************************)
(* A block of a ByteSlice bit vector (bitvector_block.h, .cpp): num bits   *)
(* in words of kNumWordBits, as many words as fill whole AVX2 registers.   *)
(* A word is the set of its bits that are one, bit 0 the least significant *)
(* one.                                                                    *)
(***************************************************************************)
EXTENDS Integers, FiniteSets

CONSTANTS kNumWordBits,         \* 64 in the code.
          WordsPerAvxUnit       \* kNumAvxBits / kNumWordBits, 4 in the code.

ASSUME WordsAssumption ==
  /\ kNumWordBits \in Nat \ {0}
  /\ WordsPerAvxUnit \in Nat \ {0}

kNumAvxBits == WordsPerAvxUnit * kNumWordBits

(* The macro, of an x that is not zero. *)
CEIL(x, y) == (x - 1) \div y + 1

num_word_units(num) == CEIL(num, kNumAvxBits) * WordsPerAvxUnit

WordBits == 0..(kNumWordBits - 1)
WordIds(num) == 0..(num_word_units(num) - 1)

GetBit(data, pos) == (pos % kNumWordBits) \in data[pos \div kNumWordBits]

SetBit(data, pos) ==
  [data EXCEPT ![pos \div kNumWordBits] = @ \cup {pos % kNumWordBits}]

UnsetBit(data, pos) ==
  [data EXCEPT ![pos \div kNumWordBits] = @ \ {pos % kNumWordBits}]

(* Mutant: a partial word is left for the next call. *)
ClearTail_words_only(data, num) ==
  LET num_empty == kNumAvxBits - (num % kNumAvxBits)
      i == num_word_units(num) - 1 - (num_empty \div kNumWordBits)
  IN IF num_empty = kNumAvxBits THEN data
     ELSE [w \in DOMAIN data |-> IF w > i THEN {} ELSE data[w]]

(***************************************************************************)
(* Zero the whole words behind the last bit, from the end, then the end of *)
(* the word i it stands in.                                                *)
(***************************************************************************)
ClearTail(data, num) ==
  LET num_empty == kNumAvxBits - (num % kNumAvxBits)
      i == num_word_units(num) - 1 - (num_empty \div kNumWordBits)
      kept == kNumWordBits - (num_empty % kNumWordBits)
  IN IF num_empty = kNumAvxBits THEN data
     ELSE [w \in DOMAIN data |->
             {b \in data[w] : w < i \/ (w = i /\ b < kept)}]

SetOnes(num) == ClearTail([w \in WordIds(num) |-> WordBits], num)

SetZeros(num) == [w \in WordIds(num) |-> {}]

AndBlock(data, other, num) == ClearTail([w \in DOMAIN data |-> data[w] \cap other[w]], num)

OrBlock(data, other, num) == ClearTail([w \in DOMAIN data |-> data[w] \cup other[w]], num)

(* Mutant: kAnd stores the verdict without the bits of the word.           *)
JoinWord_and_overwrites(bit_opt, word, old) ==
  IF bit_opt = "kOr" THEN word \cup old ELSE word

(* A scan puts the verdicts of a word into the word it finds. *)
JoinWord(bit_opt, word, old) ==
  CASE bit_opt = "kSet" -> word
    [] bit_opt = "kAnd" -> word \cap old
    [] bit_opt = "kOr" -> word \cup old

Ones(data) == {p \in (DOMAIN data) \X WordBits : p[2] \in data[p[1]]}

CountOnes(data) == Cardinality(Ones(data))
=============================================================================
