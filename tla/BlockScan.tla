------------------------------ MODULE BlockScan ------------------------------
(***************************************************************************)
(* Scans of a ByteSlice column block (byteslice_column_block.cpp) into bit *)
(* vector blocks.  A query's execution model is a sequence of scans, each  *)
(* set, and-ed or or-ed into a bit vector, and of And and Or of two bit    *)
(* vectors.                                                                *)
(*                                                                         *)
(* A scan goes over the tuples a word of the bit vector at a time, and a   *)
(* word in chunks of one AVX2 register.  For a chunk it takes the lanes    *)
(* that can still change the bit vector (input_mask), leaves the chunk     *)
(* alone if there is none, and loads the next byte slice while one of them *)
(* is equal so far.                                                        *)
(***************************************************************************)
EXTENDS SimdMasks, BitVectorBlock, ByteSlices, Sequences

CONSTANTS Programs,     \* The sequences of operations to run.
          Tables(_),    \* The codes of the columns a program is run on.
          kNumLanes     \* The lanes of a register, kNumAvxBits / 8.

ASSUME LanesAssumption ==
  /\ kNumLanes \in Nat \ {0}
  /\ Lane = 0..(kNumLanes - 1)
  /\ kNumWordBits % kNumLanes = 0

VARIABLES program,          \* The execution model; fixed by the call.
          codes,            \* The code of column c at x is codes[x][c]; never written.
          data,             \* data_[b - 1][x] of column c is data[<<c, b>>][x]; never written.
          pc,               \* Where the scan is.
          ip,               \* The operation in progress or next.
          bv_word_id, i,    \* The word and, in it, the chunk in progress.
          byte_id,          \* The byte slice to load next.
          input_mask,       \* The lanes that can still change the bit vector.
          m,                \* m_less, m_greater, m_equal.
          bitvector_word,   \* The bits collected for the word in progress.
          bvblock           \* The bit vector blocks.

input == <<program, codes, data>>
locals == <<byte_id, input_mask, m>>
vars == <<input, pc, ip, bv_word_id, i, locals, bitvector_word, bvblock>>

(***************************************************************************)
(* A program has program.num tuples in columns of program.width[c] bits,   *)
(* and program.vectors bit vector blocks.  A scan compares a column by cmp *)
(* with the literal value or, unless right is 0, with column right.        *)
(***************************************************************************)
num_tuples == program.num
Op == program.ops[ip]
NumBytes(op) == kNumBytesPerCode(program.width[op.column])

(* The positions a scan loads: words to the last, however few tuples it has. *)
Loaded(num) == 0..(CEIL(num, kNumWordBits) * kNumWordBits - 1)

Columns == 1..Len(program.width)
Slices == UNION {{<<c, b>> : b \in 1..kNumBytesPerCode(program.width[c])} : c \in Columns}

kCodeMask(width) == 2^width - 1

(***************************************************************************)
(* What a driver makes of it: columns of at most 32 bits, whose codes fit; *)
(* a column is compared with one of its own width, and the last slice of   *)
(* its codes is the one told to be the last, or there is none so far.      *)
(***************************************************************************)
IsOperation(p, op) ==
  /\ op.bv \in 1..p.vectors
  /\ op.clears \in BOOLEAN
  /\ \/ /\ op.op = "Scan"
        /\ op.cmp \in Comparator
        /\ op.bit_opt \in {"kSet", "kAnd", "kOr"}
        /\ op.column \in 1..Len(p.width)
        /\ op.right \in 0..Len(p.width)
        /\ op.right # 0 => p.width[op.right] = p.width[op.column]
        /\ op.value \in Nat
        /\ op.last \in Nat /\ op.last >= kNumBytesPerCode(p.width[op.column])
     \/ /\ op.op \in {"And", "Or"}
        /\ op.other \in 1..p.vectors

IsProgram(p) ==
  /\ p.num \in Nat \ {0}
  /\ p.vectors \in Nat
  /\ Len(p.width) \in Nat
  /\ \A c \in 1..Len(p.width) : p.width[c] \in 1..32
  /\ Len(p.ops) \in Nat /\ DOMAIN p.ops = 1..Len(p.ops)
  /\ \A j \in 1..Len(p.ops) : IsOperation(p, p.ops[j])

ASSUME ProgramsAssumption ==
  \A p \in Programs :
    /\ IsProgram(p)
    /\ \A table \in Tables(p), x \in Loaded(p.num), c \in 1..Len(p.width) :
         table[x][c] \in 0..kCodeMask(p.width[c])

StoredSlice(c, b) ==
  [x \in Loaded(num_tuples) |-> AsSigned(SetTuple(codes[x][c], program.width[c])[b])]

(* mask_literal[b - 1]: the literal cut to the width of the column, padded *)
(* and flipped as a code is.                                               *)
mask_literal(op, b) ==
  LET width == program.width[op.column]
      masked == op.value % (kCodeMask(width) + 1)
  IN AsSigned(SetTuple(masked, width)[b])

Position(l) == bv_word_id * kNumWordBits + i + l

Load(op, b) == [l \in Lane |-> data[<<op.column, b>>][Position(l)]]

LoadRight(op, b) ==
  [l \in Lane |-> IF op.right = 0 THEN mask_literal(op, b)
                                  ELSE data[<<op.right, b>>][Position(l)]]

(* The bits of the word in progress that belong to the chunk, by lane. *)
WordChunk == {l \in Lane : i + l \in bvblock[Op.bv][bv_word_id]}

----------------------------------------------------------------------------
(* Mutant: the last byte slice of kLessEqual leaves m_equal as it is.      *)
ScanKernel2_stale_equal(cmp, last, x, y, k) ==
  [k EXCEPT
    !.less = IF cmp \in {"kLess", "kLessEqual"}
             THEN @ \cup (k.equal \cap avx_cmplt(x, y)) ELSE @,
    !.greater = IF cmp \in {"kGreater", "kGreaterEqual"}
                THEN @ \cup (k.equal \cap avx_cmpgt(x, y)) ELSE @,
    !.equal = IF last /\ cmp \in {"kLess", "kLessEqual", "kGreater"} THEN @
              ELSE @ \cap avx_cmpeq(x, y)]

(***************************************************************************)
(* ScanKernel2: only the ordering mask of the comparator is kept, and the  *)
(* last byte slice leaves m_equal alone where no result reads it.          *)
(***************************************************************************)
ScanKernel2(cmp, last, x, y, k) ==
  [k EXCEPT
    !.less = IF cmp \in {"kLess", "kLessEqual"}
             THEN @ \cup (k.equal \cap avx_cmplt(x, y)) ELSE @,
    !.greater = IF cmp \in {"kGreater", "kGreaterEqual"}
                THEN @ \cup (k.equal \cap avx_cmpgt(x, y)) ELSE @,
    !.equal = IF last /\ cmp \in {"kLess", "kGreater"} THEN @
              ELSE @ \cap avx_cmpeq(x, y)]

(* The lanes whose bit the comparison can still change. *)
InputMask(bit_opt) ==
  CASE bit_opt = "kSet" -> Lane
    [] bit_opt = "kAnd" -> WordChunk
    [] bit_opt = "kOr" -> avx_not(WordChunk)

(* Mutant: a slice is loaded while any lane is equal, wanted or not.       *)
SliceWanted_any(k) == k.equal # {}

(* Mutant: _mm256_testc_si256, which complements m_equal, ends the scan.   *)
SliceWanted_testc(k) == input_mask \ k.equal # {}

(* A kSet scan has no input mask. *)
SliceWanted(k) ==
  IF Op.bit_opt = "kSet" THEN k.equal # {} ELSE input_mask \cap k.equal # {}

----------------------------------------------------------------------------
(***************************************************************************)
(* A BitVectorBlock is allocated and not initialised: Memory stands for    *)
(* what the memory held.                                                   *)
(***************************************************************************)
Memory(num) ==
  {[w \in WordIds(num) |-> {}], [w \in WordIds(num) |-> WordBits]}

Init ==
  /\ program \in Programs
  /\ codes \in Tables(program)
  /\ data = [s \in Slices |-> StoredSlice(s[1], s[2])]
  /\ pc = "next"
  /\ ip = 1
  /\ bv_word_id = 0
  /\ i = 0
  /\ byte_id = 1
  /\ input_mask = {}
  /\ m = [less |-> {}, greater |-> {}, equal |-> {}]
  /\ bitvector_word = {}
  /\ bvblock \in [1..program.vectors -> Memory(program.num)]

StartScan ==
  /\ pc = "next"
  /\ ip <= Len(program.ops)
  /\ Op.op = "Scan"
  /\ bv_word_id' = 0
  /\ i' = 0
  /\ bitvector_word' = {}
  /\ pc' = "chunk"
  /\ UNCHANGED <<input, ip, locals, bvblock>>

StartChunk ==
  /\ pc = "chunk"
  /\ m' = [less |-> {}, greater |-> {}, equal |-> Lane]
  /\ input_mask' = InputMask(Op.bit_opt)
  /\ byte_id' = 1
  /\ pc' = IF input_mask' # {} THEN "slice" ELSE "result"
  /\ UNCHANGED <<input, ip, bv_word_id, i, bitvector_word, bvblock>>

ScanSlice ==
  /\ pc = "slice"
  /\ m' = ScanKernel2(Op.cmp, byte_id = Op.last, Load(Op, byte_id), LoadRight(Op, byte_id), m)
  /\ byte_id' = byte_id + 1
  /\ pc' = IF byte_id < NumBytes(Op) /\ SliceWanted(m') THEN "slice" ELSE "result"
  /\ UNCHANGED <<input, ip, bv_word_id, i, input_mask, bitvector_word, bvblock>>

MoveMask ==
  /\ pc = "result"
  /\ bitvector_word' =
       bitvector_word \cup {i + l : l \in computeMask_one_predicate(Op.cmp, m)}
  /\ i' = i + kNumLanes
  /\ pc' = IF i + kNumLanes < kNumWordBits THEN "chunk" ELSE "word"
  /\ UNCHANGED <<input, ip, bv_word_id, locals, bvblock>>

StoreWord ==
  /\ pc = "word"
  /\ bvblock' = [bvblock EXCEPT ![Op.bv][bv_word_id] =
                   JoinWord(Op.bit_opt, bitvector_word, @)]
  /\ bv_word_id' = bv_word_id + 1
  /\ i' = 0
  /\ bitvector_word' = {}
  /\ pc' = IF (bv_word_id + 1) * kNumWordBits < num_tuples THEN "chunk" ELSE "tail"
  /\ UNCHANGED <<input, ip, locals>>

EndScan ==
  /\ pc = "tail"
  /\ bvblock' = [bvblock EXCEPT ![Op.bv] = IF Op.clears THEN ClearTail(@, num_tuples) ELSE @]
  /\ ip' = ip + 1
  /\ pc' = "next"
  /\ UNCHANGED <<input, bv_word_id, i, locals, bitvector_word>>

CombineBlocks ==
  /\ pc = "next"
  /\ ip <= Len(program.ops)
  /\ Op.op \in {"And", "Or"}
  /\ bvblock' = [bvblock EXCEPT ![Op.bv] =
                   IF Op.op = "And" THEN AndBlock(@, bvblock[Op.other], num_tuples)
                                    ELSE OrBlock(@, bvblock[Op.other], num_tuples)]
  /\ ip' = ip + 1
  /\ UNCHANGED <<input, pc, bv_word_id, i, locals, bitvector_word>>

Next ==
  \/ StartScan \/ StartChunk \/ ScanSlice \/ MoveMask \/ StoreWord \/ EndScan
  \/ CombineBlocks

Spec == Init /\ [][Next]_vars

Finished == pc = "next" /\ ip > Len(program.ops)

----------------------------------------------------------------------------
(***************************************************************************)
(* The reference: the comparison on whole codes, with the literal cut to   *)
(* the width of the column.                                                *)
(***************************************************************************)
RightCode(op, x) ==
  IF op.right = 0 THEN op.value % (kCodeMask(program.width[op.column]) + 1)
                  ELSE codes[x][op.right]

Satisfies(op, x) ==
  LET code == codes[x][op.column]
      right == RightCode(op, x)
  IN CASE op.cmp = "kEqual" -> code = right
       [] op.cmp = "kInequal" -> code # right
       [] op.cmp = "kLess" -> code < right
       [] op.cmp = "kLessEqual" -> code <= right
       [] op.cmp = "kGreater" -> code > right
       [] op.cmp = "kGreaterEqual" -> code >= right

TupleIds == 0..(num_tuples - 1)

(* Every scan joins its comparison's verdict on the codes into the bits of *)
(* its block and touches no other bit, however few byte slices and chunks  *)
(* it loads, and whatever the block's memory and the slices behind the     *)
(* last tuple held.                                                        *)
Promised ==
  INSTANCE WordwiseScan WITH
    ops <- program.ops,
    num <- num_tuples,
    qualifying <- [o \in DOMAIN program.ops |->
                     {x \in TupleIds : program.ops[o].op = "Scan"
                                       /\ Satisfies(program.ops[o], x)}],
    bits <- [v \in DOMAIN bvblock |-> {x \in TupleIds : GetBit(bvblock[v], x)}],
    done <- ip - 1,
    words <- IF pc = "next" THEN 0 ELSE bv_word_id

ImplementsWordwiseScan == Promised!Spec

(* Behind the last tuple a block holds no bit when an operation on it is   *)
(* complete: CountOnes and BitVectorIterator take all the words of it.     *)
TailIsClear ==
  (pc = "next" /\ ip > 1 /\ program.ops[ip - 1].clears) =>
    LET written == bvblock[program.ops[ip - 1].bv] IN
    CountOnes(written) = Cardinality({x \in TupleIds : GetBit(written, x)})

(* The first so many bytes of x's code are those of the right operand.     *)
AgreesSoFar(op, bytes, x) ==
  \A b \in 1..bytes :
    data[<<op.column, b>>][x] =
      IF op.right = 0 THEN mask_literal(op, b) ELSE data[<<op.right, b>>][x]

(* Early stop saves its loads: a byte slice is loaded only if one of its   *)
(* lanes has a bit that the comparison can still change, and a code that   *)
(* agrees with the right operand on every earlier byte.                    *)
LoadsOnlyWhatMatters ==
  [][ScanSlice =>
       \E l \in Lane :
         /\ AgreesSoFar(Op, byte_id - 1, Position(l))
         /\ Op.bit_opt = "kAnd" => GetBit(bvblock[Op.bv], Position(l))
         /\ Op.bit_opt = "kOr" => ~GetBit(bvblock[Op.bv], Position(l))]_vars
=============================================================================
