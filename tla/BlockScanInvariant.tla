------------------------- MODULE BlockScanInvariant -------------------------
(***************************************************************************)
(* An inductive invariant of BlockScan.  Its idea: after so many byte      *)
(* slices the masks of a chunk are exact, they say how the codes compare   *)
(* with the right operand on those bytes.  A scan that stops earlier than  *)
(* at the last byte does so when no wanted lane agrees so far, and then    *)
(* those bytes order the codes.  A lane that is not wanted may get any     *)
(* verdict, because its bit does not depend on it.                         *)
(***************************************************************************)
EXTENDS BlockScan

LeftByte(op, b, x) == data[<<op.column, b>>][x]

RightByte(op, b, x) ==
  IF op.right = 0 THEN mask_literal(op, b) ELSE data[<<op.right, b>>][x]

(***************************************************************************)
(* The first byte in which the code of x and the right operand differ is   *)
(* among so many, and is lower, or higher, in the code.                    *)
(***************************************************************************)
LowerSoFar(op, bytes, x) ==
  \E b \in 1..bytes : AgreesSoFar(op, b - 1, x) /\ LeftByte(op, b, x) < RightByte(op, b, x)

HigherSoFar(op, bytes, x) ==
  \E b \in 1..bytes : AgreesSoFar(op, b - 1, x) /\ LeftByte(op, b, x) > RightByte(op, b, x)

(* The bit of x depends on the verdict of the scan in progress.            *)
Wanted(x) ==
  /\ Op.bit_opt = "kAnd" => GetBit(bvblock[Op.bv], x)
  /\ Op.bit_opt = "kOr" => ~GetBit(bvblock[Op.bv], x)

(* The position of bit b of the word in progress.                          *)
WordPosition(b) == bv_word_id * kNumWordBits + b

----------------------------------------------------------------------------
TypeOK ==
  /\ program \in Programs
  /\ codes \in Tables(program)
  /\ pc \in {"next", "chunk", "slice", "result", "word", "tail"}
  /\ ip \in 1..(Len(program.ops) + 1)
  /\ bv_word_id \in Nat
  /\ i \in Nat
  /\ byte_id \in Nat \ {0}
  /\ input_mask \subseteq Lane
  /\ m \in [less : SUBSET Lane, greater : SUBSET Lane, equal : SUBSET Lane]
  /\ bitvector_word \subseteq WordBits
  /\ bvblock \in [1..program.vectors -> [WordIds(num_tuples) -> SUBSET WordBits]]

(* The slices are those of the codes.                                      *)
DataInv == data = [s \in Slices |-> StoredSlice(s[1], s[2])]

InWord == pc \in {"chunk", "slice", "result", "word"}

PositionInv ==
  /\ pc # "next" => ip <= Len(program.ops) /\ Op.op = "Scan"
  /\ InWord => bv_word_id * kNumWordBits < num_tuples
  /\ pc \in {"chunk", "slice", "result"} => i < kNumWordBits /\ i % kNumLanes = 0
  /\ pc = "word" => i = kNumWordBits
  /\ pc = "tail" => bv_word_id * kNumWordBits >= num_tuples

(* The masks are exact after byte_id - 1 bytes, but for an m_equal that is *)
(* left alone where no result reads it.                                    *)
MaskInv ==
  pc \in {"slice", "result"} =>
    LET n == byte_id - 1 IN
    /\ input_mask = InputMask(Op.bit_opt)
    /\ n <= NumBytes(Op)
    /\ \A l \in Lane :
         /\ Op.cmp \in {"kLess", "kLessEqual"} =>
              (l \in m.less <=> LowerSoFar(Op, n, Position(l)))
         /\ Op.cmp \in {"kGreater", "kGreaterEqual"} =>
              (l \in m.greater <=> HigherSoFar(Op, n, Position(l)))
         /\ n < Op.last \/ Op.cmp \notin {"kLess", "kGreater"} =>
              (l \in m.equal <=> AgreesSoFar(Op, n, Position(l)))

(* A slice is loaded for a lane; a result is read when no lane needs one.  *)
LoadInv ==
  /\ pc = "slice" => byte_id <= NumBytes(Op) /\ input_mask \cap m.equal # {}
  /\ pc = "result" =>
       \/ byte_id = NumBytes(Op) + 1
       \/ \A l \in input_mask : ~AgreesSoFar(Op, byte_id - 1, Position(l))

(* The bits collected for the word in progress are the verdicts on the     *)
(* codes, wherever they matter.                                            *)
CollectsVerdicts ==
  InWord =>
    /\ \A b \in bitvector_word : b < i
    /\ \A b \in WordBits :
         b < i /\ Wanted(WordPosition(b)) =>
           (b \in bitvector_word <=> Satisfies(Op, WordPosition(b)))

(* Behind the last tuple a block holds no bit when a scan or a combination *)
(* that clears is complete.                                                *)
TailInv ==
  (pc = "next" /\ ip > 1 /\ program.ops[ip - 1].clears) =>
    \A w \in WordIds(num_tuples) : \A b \in bvblock[program.ops[ip - 1].bv][w] :
      w * kNumWordBits + b < num_tuples

Inv ==
  /\ TypeOK /\ DataInv /\ PositionInv /\ MaskInv /\ LoadInv /\ CollectsVerdicts /\ TailInv

(***************************************************************************)
(* The part of it that a program can get wrong, which TLC evaluates: the   *)
(* scans of byteslice_column_block.cpp are exact on the bytes they have    *)
(* compared, load a slice for an open lane, stop when there is none, keep  *)
(* the right verdict and clear the tail.                                   *)
(***************************************************************************)
ScanInv ==
  PositionInv /\ MaskInv /\ LoadInv /\ CollectsVerdicts /\ TailInv
=============================================================================
