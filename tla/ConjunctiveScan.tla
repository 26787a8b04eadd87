-------------------------- MODULE ConjunctiveScan --------------------------
(***************************************************************************)
(* The scan kernels of complex_predicates: one pass over several           *)
(* byte-sliced columns that evaluates a tree of predicates, each comparing *)
(* a column with a literal or with another column.                         *)
(*                                                                         *)
(* The tuples are taken 64 at a time, one word of the bit vector, and the  *)
(* word in chunks of one AVX2 register.  For a chunk the kernel compares   *)
(* the first byte slice of every predicate, aggregates the verdicts up the *)
(* tree, leaves the lanes the aggregate has decided alone (early stop      *)
(* across columns), refines the predicates with their later byte slices    *)
(* while a lane is still equal (early stop within a column), and folds the *)
(* result masks up the same tree into the word.                            *)
(*                                                                         *)
(* What differs between the kernels is a plan: the template parameters and *)
(* the shape of the generated code.                                        *)
(***************************************************************************)
EXTENDS SimdMasks, Sequences

CONSTANTS Plans,          \* The kernels to run, each with its code widths.
          Byte,           \* The values of one byte of a code.
          LiteralByte,    \* The values of one byte of a literal.
          NumWords,       \* The words of the bit vector.
          NumChunks,      \* The registers that fill one word (2 in the code).
          LAST_BYTE       \* The byte slice computeKernel treats as last (4).

(***************************************************************************)
(* A plan k has k.n predicates; predicate p compares column k.column[p],   *)
(* of k.bytes[p] byte slices, by k.cmp[p] with column k.right[p], or with  *)
(* a literal if that is 0.  k.prog is the predicate tree                   *)
(* in the order of the calls: node k.n + j joins nodes k.prog[j].a and     *)
(* k.prog[j].b by k.prog[j].op.  With k.prunes the refinement stands under *)
(* if (!avx_iszero(agg_equal)), after m_equal = avx_and(m_equal,agg_equal) *)
(* for the predicates of k.zeroed.  k.groups are the blocks of the         *)
(* refinement, in order: a group's predicates read the same byte slice.    *)
(* They refine by k.refineCmp[p], with success and fail if k.judges.       *)
(***************************************************************************)
IsTree(k) ==
  \A j \in 1..Len(k.prog) :
    /\ k.prog[j].op \in Bitwise
    /\ k.prog[j].a \in 1..(k.n + j - 1)
    /\ k.prog[j].b \in 1..(k.n + j - 1)

IsRefinement(k) ==
  /\ \A g \in 1..Len(k.groups) : \A p, q \in k.groups[g] :
       k.bytes[p] = k.bytes[q]
  /\ \A g, h \in 1..Len(k.groups) :
       g # h => k.groups[g] \cap k.groups[h] = {}
  /\ \A p \in 1..k.n : k.bytes[p] > 1 => \E g \in 1..Len(k.groups) : p \in k.groups[g]
  /\ \A p \in 1..k.n : k.refineCmp[p] \in Ordering <=> k.cmp[p] \in Ordering
  /\ ~k.judges => \A p \in 1..k.n : k.refineCmp[p] = k.cmp[p]

IsPlan(k) ==
  /\ k.n \in Nat \ {0}
  /\ k.cmp \in [1..k.n -> Comparator]
  /\ k.column \in [1..k.n -> Nat \ {0}]
  /\ k.right \in [1..k.n -> Nat]
  /\ k.bytes \in [1..k.n -> 1..LAST_BYTE]
  /\ k.refineCmp \in [1..k.n -> Comparator]
  /\ k.groups \in Seq(SUBSET (1..k.n))
  /\ Len(k.groups) \in Nat \ {0}
  /\ k.zeroed \subseteq 1..k.n
  /\ k.prunes \in BOOLEAN
  /\ k.judges \in BOOLEAN
  /\ Len(k.prog) \in Nat \ {0}
  /\ IsTree(k)
  /\ IsRefinement(k)

ASSUME PlansAssumption == \A k \in Plans : IsPlan(k)

ASSUME BytesAssumption == Byte \subseteq Int /\ LiteralByte \subseteq Int

ASSUME SizesAssumption ==
  /\ NumWords \in Nat
  /\ NumChunks \in Nat \ {0}
  /\ LAST_BYTE \in Nat \ {0}

VARIABLES plan,             \* The kernel; fixed by the call.
          data,             \* data_c[k - 1] of column c is data[<<c, k>>]; never written.
          literal,          \* mask_literal_p[k - 1] is literal[<<p, k>>]; never written.
          pc,               \* The stage of the chunk the kernel is in.
          bv_word_id,       \* The word in progress.
          chunk,            \* The chunk of the word in progress.
          index,            \* The predicate, call or group a stage has come to.
          byte,             \* The byte slice refine has come to.
          mask,             \* m_less_p, m_greater_p, ... of every predicate p.
          agg,              \* agg_equal, agg_success, agg_fail of every inner node.
          result,           \* m_result of every node.
          bitvector_word,   \* The bits collected for the word in progress.
          bitmap            \* The bit vector.

input == <<plan, data, literal>>
position == <<bv_word_id, chunk>>
vars == <<input, pc, position, index, byte, mask, agg, result, bitvector_word, bitmap>>

Pred == 1..plan.n
Calls == 1..Len(plan.prog)
Root == plan.n + Len(plan.prog)
Node == 1..Root
Bit == (1..NumChunks) \X Lane
Tuple == (1..NumWords) \X Bit

(***************************************************************************)
(* The slices a plan reads.  Predicates over the same column share them.   *)
(***************************************************************************)
Slices(k) ==
  UNION {{<<c, b>> : c \in {k.column[p], k.right[p]} \ {0}, b \in 1..k.bytes[p]} : p \in 1..k.n}

LiteralSlices(k) ==
  UNION {{<<p, b>> : b \in 1..k.bytes[p]} : p \in {q \in 1..k.n : k.right[q] = 0}}

----------------------------------------------------------------------------
(***************************************************************************)
(* The reference: what the predicates mean, on whole codes.  x is a tuple. *)
(***************************************************************************)
CodeByte(p, b, x) == data[<<plan.column[p], b>>][x]

RightByte(p, b, x) ==
  IF plan.right[p] = 0 THEN literal[<<p, b>>] ELSE data[<<plan.right[p], b>>][x]

PrefixEqual(p, b, x) == \A i \in 1..b : CodeByte(p, i, x) = RightByte(p, i, x)

PrefixLess(p, b, x) ==
  \E i \in 1..b : CodeByte(p, i, x) < RightByte(p, i, x) /\ PrefixEqual(p, i - 1, x)

PrefixGreater(p, b, x) ==
  \E i \in 1..b : CodeByte(p, i, x) > RightByte(p, i, x) /\ PrefixEqual(p, i - 1, x)

Holds(p, x) ==
  LET b == plan.bytes[p] IN
  CASE plan.cmp[p] = "kEqual" -> PrefixEqual(p, b, x)
    [] plan.cmp[p] = "kInequal" -> ~PrefixEqual(p, b, x)
    [] plan.cmp[p] = "kLess" -> PrefixLess(p, b, x)
    [] plan.cmp[p] = "kLessEqual" -> PrefixLess(p, b, x) \/ PrefixEqual(p, b, x)
    [] plan.cmp[p] = "kGreater" -> PrefixGreater(p, b, x)
    [] plan.cmp[p] = "kGreaterEqual" -> PrefixGreater(p, b, x) \/ PrefixEqual(p, b, x)

(***************************************************************************)
(* A valuation is the set of the nodes it makes true.  It follows the tree *)
(* up to call j if every inner node it reaches has the value of its        *)
(* operands joined.                                                        *)
(***************************************************************************)
FollowsTree(t, j) ==
  \A i \in 1..j :
    LET call == plan.prog[i] IN
    plan.n + i \in t <=> IF call.op = "kAnd" THEN call.a \in t /\ call.b \in t
                                              ELSE call.a \in t \/ call.b \in t

IsTruth(t, j, x) == FollowsTree(t, j) /\ \A p \in Pred : p \in t <=> Holds(p, x)

Qualifies(x) == \E t \in SUBSET Node : IsTruth(t, Len(plan.prog), x) /\ Root \in t

----------------------------------------------------------------------------
(***************************************************************************)
(* The kernel.                                                             *)
(***************************************************************************)
Current(l) == <<bv_word_id, <<chunk, l>>>>

Load(p, b) == [l \in Lane |-> CodeByte(p, b, Current(l))]
LoadRight(p, b) == [l \in Lane |-> RightByte(p, b, Current(l))]

Verdict(r) ==
  IF r \in Pred
  THEN [equal |-> mask[r].equal, success |-> mask[r].success, fail |-> mask[r].fail]
  ELSE agg[r]

agg_equal == agg[Root].equal

Refined(p) ==
  IF plan.judges
  THEN computeKernelWithMask(plan.refineCmp[p], Load(p, byte), LoadRight(p, byte), mask[p])
  ELSE computeKernel(plan.refineCmp[p], byte = LAST_BYTE, Load(p, byte),
                     LoadRight(p, byte), mask[p])

(* Mutant: the loop runs once too often.                                   *)
AdvanceTooFar(last, stage) ==
  IF index <= last THEN index' = index + 1 /\ pc' = pc
                   ELSE index' = 1 /\ pc' = stage

(***************************************************************************)
(* The next round of the stage's loop, or the next stage after the last.   *)
(***************************************************************************)
Advance(last, stage) ==
  IF index < last THEN index' = index + 1 /\ pc' = pc
                  ELSE index' = 1 /\ pc' = stage

(***************************************************************************)
(* The kernel is entered at the first word.  Locals and the bit vector     *)
(* hold whatever the memory held before: all zeros and all ones stand for  *)
(* it.                                                                     *)
(***************************************************************************)
Enter ==
  /\ pc = IF NumWords > 0 THEN "first" ELSE "done"
  /\ bv_word_id = 1
  /\ chunk = 1
  /\ index = 1
  /\ byte = 2
  /\ \E junk \in {{}, Lane} :
       /\ mask = [p \in Pred |-> [less |-> junk, greater |-> junk, equal |-> junk,
                                  success |-> junk, fail |-> junk]]
       /\ agg = [r \in Node \ Pred |-> [equal |-> junk, success |-> junk, fail |-> junk]]
       /\ result = [r \in Node |-> junk]
       /\ bitmap = [w \in 1..NumWords |-> (1..NumChunks) \X junk]
  /\ bitvector_word = {}

Init ==
  /\ plan \in Plans
  /\ data \in [Slices(plan) -> [Tuple -> Byte]]
  /\ literal \in [LiteralSlices(plan) -> LiteralByte]
  /\ Enter

FirstByte ==
  /\ pc = "first"
  /\ mask' = [mask EXCEPT ![index] =
       computeKernelWithMask_FIRST(plan.cmp[index], Load(index, 1), LoadRight(index, 1), @)]
  /\ Advance(plan.n, "aggregate")
  /\ UNCHANGED <<input, position, byte, agg, result, bitvector_word, bitmap>>

Aggregate ==
  /\ pc = "aggregate"
  /\ LET call == plan.prog[index] IN
     agg' = [agg EXCEPT ![plan.n + index] =
               computeForEarlyStop(call.op, Verdict(call.a), Verdict(call.b))]
  /\ Advance(Len(plan.prog), "prune")
  /\ UNCHANGED <<input, position, byte, mask, result, bitvector_word, bitmap>>

SkipRefinement ==
  /\ pc = "prune"
  /\ plan.prunes
  /\ agg_equal = {}
  /\ pc' = "final"
  /\ UNCHANGED <<input, position, index, byte, mask, agg, result, bitvector_word, bitmap>>

(* Mutant: the lanes the tree has decided stay in m_equal.                 *)
EnterRefinementUnmasked ==
  /\ pc = "prune"
  /\ plan.prunes => agg_equal # {}
  /\ pc' = "refine"
  /\ UNCHANGED <<input, position, index, byte, mask, agg, result, bitvector_word, bitmap>>

EnterRefinement ==
  /\ pc = "prune"
  /\ plan.prunes => agg_equal # {}
  /\ pc' = "refine"
  /\ mask' = [p \in Pred |-> IF plan.prunes /\ p \in plan.zeroed
                             THEN [mask[p] EXCEPT !.equal = @ \cap agg_equal]
                             ELSE mask[p]]
  /\ UNCHANGED <<input, position, index, byte, agg, result, bitvector_word, bitmap>>

(***************************************************************************)
(* The group's next byte slice is wanted while it exists and a lane of one *)
(* of its predicates is still equal.                                       *)
(***************************************************************************)
SliceWanted ==
  \E p \in plan.groups[index] : byte <= plan.bytes[p] /\ mask[p].equal # {}

RefineByte ==
  /\ pc = "refine"
  /\ SliceWanted
  /\ mask' = [p \in Pred |-> IF p \in plan.groups[index] THEN Refined(p) ELSE mask[p]]
  /\ byte' = byte + 1
  /\ UNCHANGED <<input, pc, position, index, agg, result, bitvector_word, bitmap>>

NextGroup ==
  /\ pc = "refine"
  /\ ~SliceWanted
  /\ byte' = 2
  /\ Advance(Len(plan.groups), "final")
  /\ UNCHANGED <<input, position, mask, agg, result, bitvector_word, bitmap>>

PredicateMask ==
  /\ pc = "final"
  /\ result' = [result EXCEPT ![index] =
                  computeMask_one_predicate(plan.cmp[index], mask[index])]
  /\ Advance(plan.n, "combine")
  /\ UNCHANGED <<input, position, byte, mask, agg, bitvector_word, bitmap>>

Combine ==
  /\ pc = "combine"
  /\ LET call == plan.prog[index] IN
     result' = [result EXCEPT ![plan.n + index] =
                  computeConjunctivePredicates(call.op, result[call.a], result[call.b])]
  /\ Advance(Len(plan.prog), "movemask")
  /\ UNCHANGED <<input, position, byte, mask, agg, bitvector_word, bitmap>>

(* Mutant: a chunk's bits replace those of the chunk before.               *)
MoveMaskOverwrites ==
  /\ pc = "movemask"
  /\ bitvector_word' = {chunk} \X result[Root]
  /\ IF chunk < NumChunks THEN chunk' = chunk + 1 /\ pc' = "first"
                          ELSE chunk' = 1 /\ pc' = "store"
  /\ UNCHANGED <<input, bv_word_id, index, byte, mask, agg, result, bitmap>>

(* Mutant: the loop over the chunks does not count.                        *)
MoveMaskStays ==
  /\ pc = "movemask"
  /\ bitvector_word' = bitvector_word \cup ({chunk} \X result[Root])
  /\ IF chunk < NumChunks THEN chunk' = chunk /\ pc' = "first"
                          ELSE chunk' = 1 /\ pc' = "store"
  /\ UNCHANGED <<input, bv_word_id, index, byte, mask, agg, result, bitmap>>

MoveMask ==
  /\ pc = "movemask"
  /\ bitvector_word' = bitvector_word \cup ({chunk} \X result[Root])
  /\ IF chunk < NumChunks THEN chunk' = chunk + 1 /\ pc' = "first"
                          ELSE chunk' = 1 /\ pc' = "store"
  /\ UNCHANGED <<input, bv_word_id, index, byte, mask, agg, result, bitmap>>

StoreWord ==
  /\ pc = "store"
  /\ bitmap' = [bitmap EXCEPT ![bv_word_id] = bitvector_word]
  /\ bitvector_word' = {}
  /\ bv_word_id' = bv_word_id + 1
  /\ pc' = IF bv_word_id < NumWords THEN "first" ELSE "done"
  /\ UNCHANGED <<input, chunk, index, byte, mask, agg, result>>

Next ==
  \/ FirstByte \/ Aggregate \/ SkipRefinement \/ EnterRefinement \/ RefineByte
  \/ NextGroup \/ PredicateMask \/ Combine \/ MoveMask \/ StoreWord

Spec == Init /\ [][Next]_vars

(***************************************************************************)
(* The thread that runs the kernel is scheduled again and again.           *)
(***************************************************************************)
FairSpec == Spec /\ WF_vars(Next)

----------------------------------------------------------------------------
Stage == {"first", "aggregate", "prune", "refine", "final", "combine", "movemask",
          "store", "done"}

Rounds ==
  CASE pc \in {"first", "final"} -> plan.n
    [] pc \in {"aggregate", "combine"} -> Len(plan.prog)
    [] pc = "refine" -> Len(plan.groups)
    [] OTHER -> 1

(* Every variable keeps its type: the loop counters stay within their     *)
(* loops, the masks within the register, the bits within the word.        *)
TypeOK ==
  /\ plan \in Plans
  /\ data \in [Slices(plan) -> [Tuple -> Byte]]
  /\ literal \in [LiteralSlices(plan) -> LiteralByte]
  /\ pc \in Stage
  /\ bv_word_id \in 1..(NumWords + 1)
  /\ pc # "done" => bv_word_id \in 1..NumWords
  /\ chunk \in 1..NumChunks
  /\ index \in 1..Rounds
  /\ byte \in Nat \ {0, 1}
  /\ mask \in [Pred -> Masks]
  /\ agg \in [Node \ Pred -> Verdicts]
  /\ result \in [Node -> SUBSET Lane]
  /\ bitvector_word \in SUBSET Bit
  /\ bitmap \in [1..NumWords -> SUBSET Bit]

(* The stored words are right: however early the kernel stopped looking at *)
(* byte slices, a stored bit is set exactly when its tuple satisfies the   *)
(* predicate tree on its whole codes.                                      *)
StoredBitsCorrect ==
  \A w \in 1..(bv_word_id - 1) : bitmap[w] = {b \in Bit : Qualifies(<<w, b>>)}

(* Early stop across columns is sound: from the first byte slices alone,   *)
(* the aggregate only decides lanes whose value no later byte can change,  *)
(* and every lane it drops from agg_equal it has decided.                  *)
EarlyStopSound ==
  pc = "prune" =>
    \A l \in Lane :
      /\ l \in agg[Root].success => Qualifies(Current(l))
      /\ l \in agg[Root].fail => ~Qualifies(Current(l))
      /\ l \notin agg_equal => l \in agg[Root].success \cup agg[Root].fail

(***************************************************************************)
(* A tuple is open if its first bytes do not settle the tree: the          *)
(* predicates whose first byte equals the right operand's could still make it    *)
(* true and could still make it false.                                     *)
(***************************************************************************)
AgreesOnFirstBytes(t, x) ==
  \A p \in Pred : PrefixEqual(p, 1, x) \/ (p \in t <=> Holds(p, x))

CanBe(value, x) ==
  \E t \in SUBSET Node :
    FollowsTree(t, Len(plan.prog)) /\ AgreesOnFirstBytes(t, x) /\ (Root \in t) = value

Open(x) == CanBe(TRUE, x) /\ CanBe(FALSE, x)

(* Early stop saves its work: a pruning kernel loads a later byte slice    *)
(* only for a chunk with an open tuple whose code equals the literal on    *)
(* every earlier byte.                                                     *)
LoadsOnlyWhatIsOpen ==
  [][RefineByte /\ plan.prunes /\ plan.zeroed = Pred =>
       \E l \in Lane, p \in plan.groups[index] :
         Open(Current(l)) /\ PrefixEqual(p, byte - 1, Current(l))]_vars

(* The scan ends: no word, chunk or byte slice is gone over for ever.      *)
Terminates == <>(pc = "done")

(* The kernel implements the scan that stores each word at once.           *)
Abstract ==
  INSTANCE SelectionScan WITH Position <- Bit,
    qualifying <- {x \in Tuple : Qualifies(x)},
    stored <- bv_word_id - 1

ImplementsSelection == Abstract!Spec
=============================================================================
