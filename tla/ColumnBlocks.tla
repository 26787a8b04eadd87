----------------------------- MODULE ColumnBlocks -----------------------------
(***************************************************************************)
(* The blocks of a ByteSlice column (column_block.h): what a block stores  *)
(* of a code, and what a scan of it writes into a bit vector block.  There *)
(* are two kinds: a naive block keeps codes in an array of integers, a     *)
(* byte-slice block in byte slices.                                        *)
(*                                                                         *)
(* A scan is one step here: blocks share nothing, and BlockScan shows that *)
(* the words of a block come out as ScanBlock says.                        *)
(***************************************************************************)
EXTENDS BitVectorBlock, ByteSlices

CONSTANT kNumTuplesPerBlock     \* 2^30 in the code.

ASSUME BlockAssumption ==
  /\ kNumTuplesPerBlock \in Nat \ {0}
  /\ kNumTuplesPerBlock % kNumAvxBits = 0

ColumnType == {"kNaive", "kByteSlicePadRight"}

Positions == 0..(kNumTuplesPerBlock - 1)

(* static_cast<DTYPE>: the array of a naive column has 8, 16 or 32 bits.   *)
AsDtype(width, value) ==
  CASE kNumBytesPerCode(width) = 1 -> value % 256
    [] kNumBytesPerCode(width) = 2 -> value % 65536
    [] OTHER -> value

(* A column is described by its type and bit_width. *)
Stored(column, value) ==
  IF column.type = "kNaive" THEN AsDtype(column.bit_width, value)
                            ELSE SetTuple(value, column.bit_width)

Code(column, stored) ==
  IF column.type = "kNaive" THEN stored ELSE GetTuple(stored, column.bit_width)

(* The literal a scan compares with. *)
Literal(column, value) ==
  IF column.type = "kNaive" THEN AsDtype(column.bit_width, value)
                            ELSE value % 2^column.bit_width

(***************************************************************************)
(* What a new block may hold: a naive block is cleared, the memory of byte *)
(* slices is what it was.                                                  *)
(***************************************************************************)
FreshData(column) ==
  LET bytes == 1..kNumBytesPerCode(column.bit_width) IN
  IF column.type = "kNaive" THEN {[p \in Positions |-> 0]}
  ELSE {[p \in Positions |-> [b \in bytes |-> u]] : u \in {0, 255}}

Satisfies(cmp, code, right) ==
  CASE cmp = "kEqual" -> code = right
    [] cmp = "kInequal" -> code # right
    [] cmp = "kLess" -> code < right
    [] cmp = "kLessEqual" -> code <= right
    [] cmp = "kGreater" -> code > right
    [] cmp = "kGreaterEqual" -> code >= right

(* Mutant: a byte-slice scan leaves the verdicts behind the last tuple.    *)
ScanBlock_tail_left(column, block, right, cmp, bit_opt, data) ==
  [w \in DOMAIN data |->
     LET verdicts == {b \in WordBits :
                        Satisfies(cmp, Code(column, block.data[w * kNumWordBits + b]),
                                  right[w * kNumWordBits + b])}
     IN IF w * kNumWordBits < block.num_tuples
        THEN JoinWord(bit_opt, verdicts, data[w]) ELSE data[w]]

(***************************************************************************)
(* Scan a block against right, the code to compare each position with,     *)
(* into the words data of a bit vector block.  A naive scan stops at the   *)
(* last tuple and clears nothing behind it; a byte-slice scan compares all *)
(* of the last word and clears the tail.                                   *)
(***************************************************************************)
ScanBlock(column, block, right, cmp, bit_opt, data) ==
  LET Compared(p) == column.type = "kNaive" => p < block.num_tuples
      verdicts(w) ==
        {b \in WordBits :
           LET p == w * kNumWordBits + b IN
           Compared(p) /\ Satisfies(cmp, Code(column, block.data[p]), right[p])}
      scanned == [w \in DOMAIN data |->
                    IF w * kNumWordBits < block.num_tuples
                    THEN JoinWord(bit_opt, verdicts(w), data[w]) ELSE data[w]]
  IN IF column.type = "kNaive" THEN scanned ELSE ClearTail(scanned, block.num_tuples)
=============================================================================
