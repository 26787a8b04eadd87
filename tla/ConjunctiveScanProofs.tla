----------------------- MODULE ConjunctiveScanProofs -----------------------
(***************************************************************************)
(* Proofs about ConjunctiveScan, for every set of plans, every width of    *)
(* register and of code, and every content of the columns: the variables   *)
(* keep their types, Inv is inductive, and the scan stores the right bits. *)
(***************************************************************************)
EXTENDS ConjunctiveScanInvariant, TLAPS

----------------------------------------------------------------------------
(* A plan's fields have the types IsPlan gives them.                       *)
LEMMA PlanFields ==
  ASSUME TypeOK
  PROVE  /\ IsPlan(plan)
         /\ plan.n \in Nat \ {0}
         /\ Len(plan.prog) \in Nat \ {0}
         /\ Len(plan.groups) \in Nat \ {0}
         /\ Root \in Node /\ Root \notin Pred /\ Root \in Nat
         /\ Pred \subseteq Node
         /\ plan.cmp \in [Pred -> Comparator]
         /\ plan.refineCmp \in [Pred -> Comparator]
         /\ plan.bytes \in [Pred -> Nat \ {0}]
         /\ plan.judges \in BOOLEAN /\ plan.prunes \in BOOLEAN
<1>1. IsPlan(plan)
  BY PlansAssumption DEF TypeOK
<1>2. plan.n \in Nat \ {0} /\ Len(plan.prog) \in Nat \ {0}
  BY <1>1 DEF IsPlan
<1> QED BY <1>1, <1>2 DEF IsPlan, Root, Node, Pred

(* The nodes a call joins come before the node it defines.                 *)
LEMMA CallNodes ==
  ASSUME TypeOK, NEW j \in Calls
  PROVE  /\ plan.prog[j].op \in Bitwise
         /\ plan.prog[j].a \in Node /\ plan.prog[j].a < plan.n + j
         /\ plan.prog[j].b \in Node /\ plan.prog[j].b < plan.n + j
         /\ plan.n + j \in Node \ Pred
<1>1. /\ plan.prog[j].op \in Bitwise
      /\ plan.prog[j].a \in 1..(plan.n + j - 1)
      /\ plan.prog[j].b \in 1..(plan.n + j - 1)
  BY PlanFields DEF IsPlan, IsTree, Calls
<1>2. /\ plan.n \in Nat \ {0} /\ Len(plan.prog) \in Nat \ {0}
      /\ j \in Nat \ {0} /\ j <= Len(plan.prog)
  BY PlanFields DEF Calls
<1>3. plan.n + j \in Node \ Pred
  BY <1>2 DEF Node, Root, Pred
<1>4. \A r \in 1..(plan.n + j - 1) : r \in Node /\ r < plan.n + j
  BY <1>2 DEF Node, Root
<1> QED BY <1>1, <1>3, <1>4

(* The kernels map masks of a predicate to masks of a predicate.           *)
LEMMA KernelTypes ==
  ASSUME NEW m \in Masks, NEW cmp \in Comparator, NEW x, NEW y, NEW last \in BOOLEAN
  PROVE  /\ Judged(cmp, m) \in Masks
         /\ computeKernelWithMask_FIRST(cmp, x, y, m) \in Masks
         /\ computeKernelWithMask(cmp, x, y, m) \in Masks
         /\ computeKernel(cmp, last, x, y, m) \in Masks
         /\ computeMask_one_predicate(cmp, m) \in SUBSET Lane
<1>1. \A k \in Masks : Succeeds(cmp, k) \in SUBSET Lane /\ Fails(cmp, k) \in SUBSET Lane
  BY DEF Succeeds, Fails, Masks, avx_not, Comparator, Ordering
<1>2. \A k \in Masks : Judged(cmp, k) \in Masks
  BY <1>1 DEF Judged, Masks
<1>3. computeKernelWithMask_FIRST(cmp, x, y, m) \in Masks
  <2> DEFINE k == [m EXCEPT
                    !.less = IF cmp \in Ordering THEN avx_cmplt(x, y) ELSE @,
                    !.greater = IF cmp \in Ordering THEN avx_cmpgt(x, y) ELSE @,
                    !.equal = avx_cmpeq(x, y)]
  <2>1. k \in Masks
    BY DEF Masks, avx_cmplt, avx_cmpgt, avx_cmpeq
  <2>2. computeKernelWithMask_FIRST(cmp, x, y, m) = Judged(cmp, k)
    BY DEF computeKernelWithMask_FIRST
  <2> QED BY <1>2, <2>1, <2>2
<1>4. computeKernelWithMask(cmp, x, y, m) \in Masks
  <2> DEFINE k == [m EXCEPT
         !.less = IF cmp \in Ordering THEN @ \cup (m.equal \cap avx_cmplt(x, y)) ELSE @,
         !.greater = IF cmp \in Ordering THEN @ \cup (m.equal \cap avx_cmpgt(x, y)) ELSE @,
         !.equal = @ \cap avx_cmpeq(x, y)]
  <2>1. k \in Masks
    BY DEF Masks, avx_cmplt, avx_cmpgt, avx_cmpeq
  <2>2. computeKernelWithMask(cmp, x, y, m) = Judged(cmp, k)
    BY DEF computeKernelWithMask
  <2> QED BY <1>2, <2>1, <2>2
<1>5. computeKernel(cmp, last, x, y, m) \in Masks
  BY DEF computeKernel, Masks, avx_cmplt, avx_cmpgt, avx_cmpeq
<1>6. computeMask_one_predicate(cmp, m) \in SUBSET Lane
  BY DEF computeMask_one_predicate, Masks, avx_not, Comparator, Ordering
<1> QED BY <1>2, <1>3, <1>4, <1>5, <1>6

(* A predicate's verdict is its masks', an inner node's the aggregate's.   *)
LEMMA VerdictType ==
  ASSUME TypeOK, NEW r \in Node
  PROVE  Verdict(r) \in Verdicts
  BY DEF TypeOK, Verdict, Masks, Verdicts

(* Verdicts join to verdicts.                                              *)
LEMMA EarlyStopType ==
  ASSUME NEW op \in Bitwise, NEW v \in Verdicts, NEW w \in Verdicts
  PROVE  computeForEarlyStop(op, v, w) \in Verdicts
  BY DEF computeForEarlyStop, Verdicts, avx_andnot, avx_not, Bitwise

(* A later byte slice keeps masks masks.                                   *)
LEMMA RefinedType ==
  ASSUME TypeOK, NEW p \in Pred
  PROVE  Refined(p) \in Masks
<1>1. mask[p] \in Masks /\ plan.refineCmp[p] \in Comparator /\ (byte = LAST_BYTE) \in BOOLEAN
  BY PlanFields DEF TypeOK
<1> QED BY <1>1, KernelTypes DEF Refined

----------------------------------------------------------------------------
(* The initial states have the types.                                      *)
LEMMA TypeInit ==
  ASSUME Init
  PROVE  TypeOK
<1>1. IsPlan(plan) /\ plan.n \in Nat \ {0} /\ Len(plan.prog) \in Nat \ {0}
  BY PlansAssumption DEF Init, Enter, IsPlan
<1>2. PICK junk \in {{}, Lane} :
         /\ mask = [p \in Pred |-> [less |-> junk, greater |-> junk, equal |-> junk,
                                    success |-> junk, fail |-> junk]]
         /\ agg = [r \in Node \ Pred |-> [equal |-> junk, success |-> junk, fail |-> junk]]
         /\ result = [r \in Node |-> junk]
         /\ bitmap = [w \in 1..NumWords |-> (1..NumChunks) \X junk]
  BY DEF Init, Enter
<1>3. junk \in SUBSET Lane
  BY <1>2
<1>4. mask \in [Pred -> Masks] /\ agg \in [Node \ Pred -> Verdicts]
  BY <1>2, <1>3 DEF Masks, Verdicts
<1>5. result \in [Node -> SUBSET Lane] /\ bitmap \in [1..NumWords -> SUBSET Bit]
  BY <1>2, <1>3 DEF Bit
<1>6. index \in 1..Rounds /\ pc \in Stage /\ (pc # "done" => bv_word_id \in 1..NumWords)
  BY <1>1, SizesAssumption DEF Init, Enter, Rounds, Stage
<1>7. /\ plan \in Plans /\ byte \in Nat \ {0, 1} /\ bitvector_word \in SUBSET Bit
      /\ bv_word_id \in 1..(NumWords + 1) /\ chunk \in 1..NumChunks
      /\ data \in [Slices(plan) -> [Tuple -> Byte]]
      /\ literal \in [LiteralSlices(plan) -> LiteralByte]
  BY SizesAssumption DEF Init, Enter
<1> QED BY <1>4, <1>5, <1>6, <1>7 DEF TypeOK

(* Every step keeps them, whatever the loop it is in.                      *)
LEMMA TypeStep ==
  ASSUME TypeOK, [Next]_vars
  PROVE  TypeOK'
<1> USE DEF vars, input, position
<1>0. ASSUME UNCHANGED input PROVE Pred' = Pred /\ Node' = Node /\ Root' = Root
  BY <1>0 DEF Pred, Node, Root
<1>1. CASE FirstByte
  <2>1. index \in Pred /\ mask[index] \in Masks /\ plan.cmp[index] \in Comparator
    BY <1>1, PlanFields DEF FirstByte, TypeOK, Rounds, Pred
  <2>2. mask' \in [Pred -> Masks]
    BY <1>1, <2>1, KernelTypes DEF FirstByte, TypeOK
  <2>3. index' \in 1..Rounds' /\ pc' \in Stage /\ pc' # "done"
    BY <1>1, PlanFields DEF FirstByte, Advance, Rounds, Stage, TypeOK
  <2> QED BY <1>0, <1>1, <2>2, <2>3 DEF FirstByte, TypeOK
<1>2. CASE Aggregate
  <2>1. index \in Calls
    BY <1>2, PlanFields DEF Aggregate, TypeOK, Rounds, Calls
  <2> DEFINE call == plan.prog[index]
             v == computeForEarlyStop(call.op, Verdict(call.a), Verdict(call.b))
  <2>2. v \in Verdicts /\ plan.n + index \in Node \ Pred
    BY <2>1, CallNodes, VerdictType, EarlyStopType
  <2>3. agg' \in [Node \ Pred -> Verdicts]
    BY <1>2, <2>2 DEF Aggregate, TypeOK
  <2>4. index' \in 1..Rounds' /\ pc' \in Stage /\ pc' # "done"
    BY <1>2, PlanFields DEF Aggregate, Advance, Rounds, Stage, TypeOK
  <2> QED BY <1>0, <1>2, <2>3, <2>4 DEF Aggregate, TypeOK
<1>3. CASE SkipRefinement
  <2>1. index' \in 1..Rounds' /\ pc' \in Stage
    BY <1>3, PlanFields DEF SkipRefinement, Rounds, Stage, TypeOK
  <2> QED BY <1>0, <1>3, <2>1 DEF SkipRefinement, TypeOK
<1>4. CASE EnterRefinement
  <2>1. \A p \in Pred : [mask[p] EXCEPT !.equal = @ \cap agg_equal] \in Masks
    BY DEF TypeOK, Masks
  <2>2. mask' \in [Pred -> Masks]
    BY <1>4, <2>1 DEF EnterRefinement, TypeOK
  <2>3. index' \in 1..Rounds' /\ pc' \in Stage
    BY <1>4, PlanFields DEF EnterRefinement, Rounds, Stage, TypeOK
  <2> QED BY <1>0, <1>4, <2>2, <2>3 DEF EnterRefinement, TypeOK
<1>5. CASE RefineByte
  <2>1. mask' \in [Pred -> Masks]
    BY <1>5, RefinedType DEF RefineByte, TypeOK
  <2>2. index' \in 1..Rounds' /\ byte' \in Nat \ {0, 1}
    BY <1>5 DEF RefineByte, Rounds, TypeOK
  <2> QED BY <1>0, <1>5, <2>1, <2>2 DEF RefineByte, TypeOK
<1>6. CASE NextGroup
  <2>1. index' \in 1..Rounds' /\ pc' \in Stage /\ pc' # "done"
    BY <1>6, PlanFields DEF NextGroup, Advance, Rounds, Stage, TypeOK
  <2> QED BY <1>0, <1>6, <2>1 DEF NextGroup, TypeOK
<1>7. CASE PredicateMask
  <2>1. index \in Pred /\ mask[index] \in Masks /\ plan.cmp[index] \in Comparator
    BY <1>7, PlanFields DEF PredicateMask, TypeOK, Rounds, Pred
  <2>2. result' \in [Node -> SUBSET Lane]
    BY <1>7, <2>1, KernelTypes DEF PredicateMask, TypeOK
  <2>3. index' \in 1..Rounds' /\ pc' \in Stage /\ pc' # "done"
    BY <1>7, PlanFields DEF PredicateMask, Advance, Rounds, Stage, TypeOK
  <2> QED BY <1>0, <1>7, <2>2, <2>3 DEF PredicateMask, TypeOK
<1>8. CASE Combine
  <2>1. index \in Calls
    BY <1>8, PlanFields DEF Combine, TypeOK, Rounds, Calls
  <2>2. result[plan.prog[index].a] \in SUBSET Lane /\ result[plan.prog[index].b] \in SUBSET Lane
    BY <2>1, CallNodes DEF TypeOK
  <2>3. result' \in [Node -> SUBSET Lane]
    BY <1>8, <2>2 DEF Combine, TypeOK, computeConjunctivePredicates
  <2>4. index' \in 1..Rounds' /\ pc' \in Stage /\ pc' # "done"
    BY <1>8, PlanFields DEF Combine, Advance, Rounds, Stage, TypeOK
  <2> QED BY <1>0, <1>8, <2>3, <2>4 DEF Combine, TypeOK
<1>9. CASE MoveMask
  <2>1. result[Root] \in SUBSET Lane
    BY PlanFields DEF TypeOK
  <2>2. bitvector_word' \in SUBSET Bit
    BY <1>9, <2>1 DEF MoveMask, TypeOK, Bit
  <2>3. chunk' \in 1..NumChunks /\ index' \in 1..Rounds' /\ pc' \in Stage /\ pc' # "done"
    BY <1>9, PlanFields, SizesAssumption DEF MoveMask, Rounds, Stage, TypeOK
  <2> QED BY <1>0, <1>9, <2>2, <2>3 DEF MoveMask, TypeOK
<1>10. CASE StoreWord
  <2>1. /\ bv_word_id' \in 1..(NumWords + 1) /\ pc' \in Stage
        /\ pc' # "done" => bv_word_id' \in 1..NumWords
    BY <1>10, SizesAssumption DEF StoreWord, Stage, TypeOK
  <2>2. index' \in 1..Rounds' /\ bitmap' \in [1..NumWords -> SUBSET Bit]
    BY <1>10, PlanFields DEF StoreWord, Rounds, TypeOK
  <2> QED BY <1>0, <1>10, <2>1, <2>2 DEF StoreWord, TypeOK
<1>11. CASE UNCHANGED vars
  BY <1>11 DEF TypeOK, Rounds, Pred, Node, Root
<1> QED BY <1>1, <1>2, <1>3, <1>4, <1>5, <1>6, <1>7, <1>8, <1>9, <1>10, <1>11 DEF Next

(* Every variable keeps its type: in particular the loop counters stay     *)
(* within their loops, for every plan and every size of the bit vector.    *)
THEOREM TypeCorrect == Spec => []TypeOK
<1>1. Init => TypeOK
  BY TypeInit
<1>2. TypeOK /\ [Next]_vars => TypeOK'
  BY TypeStep
<1> QED BY <1>1, <1>2, PTL DEF Spec

----------------------------------------------------------------------------
(***************************************************************************)
(* Codes and their prefixes.                                               *)
(***************************************************************************)

(* Every byte a plan compares is a number.                                 *)
LEMMA BytesAreInts ==
  ASSUME TypeOK, NEW p \in Pred, NEW b \in 1..plan.bytes[p], NEW x \in Tuple
  PROVE  CodeByte(p, b, x) \in Int /\ RightByte(p, b, x) \in Int
<1>1. plan.column[p] \in Nat \ {0} /\ plan.right[p] \in Nat /\ p \in 1..plan.n
  BY PlanFields DEF IsPlan, Pred
<1>2. <<plan.column[p], b>> \in Slices(plan)
  BY <1>1 DEF Slices
<1>3. data[<<plan.column[p], b>>] \in [Tuple -> Byte]
  BY <1>2 DEF TypeOK
<1>4. CASE plan.right[p] = 0
  <2>1. <<p, b>> \in LiteralSlices(plan)
    BY <1>1, <1>4 DEF LiteralSlices
  <2>2. literal[<<p, b>>] \in LiteralByte
    BY <2>1 DEF TypeOK
  <2> QED BY <1>3, <1>4, <2>2, BytesAssumption DEF CodeByte, RightByte
<1>5. CASE plan.right[p] # 0
  <2>1. <<plan.right[p], b>> \in Slices(plan)
    BY <1>1, <1>5 DEF Slices
  <2>2. data[<<plan.right[p], b>>] \in [Tuple -> Byte]
    BY <2>1 DEF TypeOK
  <2> QED BY <1>3, <1>5, <2>2, BytesAssumption DEF CodeByte, RightByte
<1> QED BY <1>4, <1>5

(* The prefix of one byte.                                                 *)
LEMMA PrefixFirst ==
  ASSUME NEW p, NEW x
  PROVE  /\ PrefixEqual(p, 1, x) <=> CodeByte(p, 1, x) = RightByte(p, 1, x)
         /\ PrefixLess(p, 1, x) <=> CodeByte(p, 1, x) < RightByte(p, 1, x)
         /\ PrefixGreater(p, 1, x) <=> CodeByte(p, 1, x) > RightByte(p, 1, x)
<1>1. PrefixEqual(p, 0, x)
  BY DEF PrefixEqual
<1> QED BY <1>1 DEF PrefixEqual, PrefixLess, PrefixGreater

(* One byte more.                                                          *)
LEMMA PrefixNext ==
  ASSUME NEW p, NEW x, NEW b \in Nat
  PROVE  /\ PrefixEqual(p, b + 1, x) <=>
              PrefixEqual(p, b, x) /\ CodeByte(p, b + 1, x) = RightByte(p, b + 1, x)
         /\ PrefixLess(p, b + 1, x) <=>
              \/ PrefixLess(p, b, x)
              \/ PrefixEqual(p, b, x) /\ CodeByte(p, b + 1, x) < RightByte(p, b + 1, x)
         /\ PrefixGreater(p, b + 1, x) <=>
              \/ PrefixGreater(p, b, x)
              \/ PrefixEqual(p, b, x) /\ CodeByte(p, b + 1, x) > RightByte(p, b + 1, x)
<1>1. \A i : i \in 1..(b + 1) <=> i \in 1..b \/ i = b + 1
  OBVIOUS
<1>2. (b + 1) - 1 = b
  OBVIOUS
<1>3. PrefixEqual(p, b + 1, x) <=>
        PrefixEqual(p, b, x) /\ CodeByte(p, b + 1, x) = RightByte(p, b + 1, x)
  BY <1>1 DEF PrefixEqual
<1>4. PrefixLess(p, b + 1, x) <=>
        \/ PrefixLess(p, b, x)
        \/ PrefixEqual(p, b, x) /\ CodeByte(p, b + 1, x) < RightByte(p, b + 1, x)
  BY <1>1, <1>2 DEF PrefixLess
<1>5. PrefixGreater(p, b + 1, x) <=>
        \/ PrefixGreater(p, b, x)
        \/ PrefixEqual(p, b, x) /\ CodeByte(p, b + 1, x) > RightByte(p, b + 1, x)
  BY <1>1, <1>2 DEF PrefixGreater
<1> QED BY <1>3, <1>4, <1>5

(* A prefix that differs from the literal's decides the code.              *)
LEMMA PrefixDecides ==
  ASSUME NEW p, NEW x, NEW d \in Nat \ {0}, NEW b \in Nat, d <= b
  PROVE  /\ PrefixEqual(p, b, x) => PrefixEqual(p, d, x)
         /\ PrefixLess(p, d, x) => PrefixLess(p, b, x)
         /\ PrefixGreater(p, d, x) => PrefixGreater(p, b, x)
         /\ ~PrefixEqual(p, d, x) =>
              /\ PrefixLess(p, b, x) <=> PrefixLess(p, d, x)
              /\ PrefixGreater(p, b, x) <=> PrefixGreater(p, d, x)
<1>1. \A i \in 1..d : i \in 1..b
  OBVIOUS
<1>2. \A e \in Nat : d <= e /\ PrefixEqual(p, e, x) => PrefixEqual(p, d, x)
  BY DEF PrefixEqual
<1>3. ASSUME ~PrefixEqual(p, d, x), NEW i \in 1..b, PrefixEqual(p, i - 1, x)
      PROVE  i \in 1..d
  BY <1>2, <1>3
<1> QED BY <1>1, <1>2, <1>3 DEF PrefixLess, PrefixGreater

(* The bytes before the last one decide a code only one way.               *)
LEMMA FirstByteExclusive ==
  ASSUME TypeOK, NEW p \in Pred, NEW x \in Tuple
  PROVE  /\ PrefixEqual(p, 1, x) \/ PrefixLess(p, 1, x) \/ PrefixGreater(p, 1, x)
         /\ ~(PrefixLess(p, 1, x) /\ PrefixGreater(p, 1, x))
         /\ PrefixLess(p, 1, x) \/ PrefixGreater(p, 1, x) => ~PrefixEqual(p, 1, x)
<1>1. 1 \in 1..plan.bytes[p]
  BY PlanFields
<1>2. CodeByte(p, 1, x) \in Int /\ RightByte(p, 1, x) \in Int
  BY <1>1, BytesAreInts
<1> QED BY <1>2, PrefixFirst

(* What the first byte settles is so.                                      *)
LEMMA SettledHolds ==
  ASSUME TypeOK, NEW p \in Pred, NEW x \in Tuple
  PROVE  /\ SettledTrue(p, x) => Holds(p, x)
         /\ SettledFalse(p, x) => ~Holds(p, x)
<1> DEFINE b == plan.bytes[p]
<1>1. b \in Nat \ {0} /\ plan.cmp[p] \in Comparator
  BY PlanFields
<1>2. /\ PrefixEqual(p, b, x) => PrefixEqual(p, 1, x)
      /\ PrefixLess(p, 1, x) => PrefixLess(p, b, x)
      /\ PrefixGreater(p, 1, x) => PrefixGreater(p, b, x)
      /\ ~PrefixEqual(p, 1, x) =>
              /\ PrefixLess(p, b, x) <=> PrefixLess(p, 1, x)
              /\ PrefixGreater(p, b, x) <=> PrefixGreater(p, 1, x)
  BY <1>1, PrefixDecides
<1>3. DecidedTrue(p, x) => Holds(p, x)
  BY <1>1, <1>2, FirstByteExclusive DEF DecidedTrue, Holds, Comparator, Ordering
<1>4. DecidedFalse(p, x) => ~Holds(p, x)
  BY <1>1, <1>2, FirstByteExclusive DEF DecidedFalse, Holds, Comparator, Ordering
<1> QED BY <1>3, <1>4 DEF SettledTrue, SettledFalse

----------------------------------------------------------------------------
(***************************************************************************)
(* Lanes and their masks.                                                  *)
(***************************************************************************)

(* The lanes of the register stand for tuples of the table.                *)
LEMMA CurrentTuple ==
  ASSUME TypeOK, pc # "done", NEW l \in Lane
  PROVE  Current(l) \in Tuple
  BY DEF TypeOK, Current, Tuple, Bit

(* A loaded lane holds the byte of its tuple.                              *)
LEMMA LoadedByte ==
  ASSUME NEW p, NEW b, NEW l \in Lane
  PROVE  /\ Load(p, b)[l] = CodeByte(p, b, Current(l))
         /\ LoadRight(p, b)[l] = RightByte(p, b, Current(l))
  BY DEF Load, LoadRight

(* Masks that are exact on the whole code give the result.                 *)
LEMMA ExactIsDone ==
  ASSUME TypeOK, NEW p \in Pred, NEW l \in Lane, Exact(p, plan.bytes[p], l)
  PROVE  Done(p, l)
<1>1. plan.cmp[p] \in Comparator /\ mask[p] \in Masks
  BY PlanFields DEF TypeOK
<1> QED BY <1>1 DEF Exact, Done, Holds, computeMask_one_predicate, avx_not, Masks,
             Comparator, Ordering

(* So do masks that are exact on a prefix and show a difference.           *)
LEMMA DifferentIsDone ==
  ASSUME TypeOK, NEW p \in Pred, NEW l \in Lane, NEW d \in 1..plan.bytes[p],
         Exact(p, d, l), l \notin mask[p].equal
  PROVE  Done(p, l)
<1>1. d \in Nat \ {0} /\ plan.bytes[p] \in Nat /\ d <= plan.bytes[p]
  BY PlanFields
<1>2. Exact(p, plan.bytes[p], l)
  BY <1>1, PrefixDecides DEF Exact
<1> QED BY <1>2, ExactIsDone

(* What the first byte settled is in the result mask.                      *)
LEMMA CoherentResult ==
  ASSUME TypeOK, NEW p \in Pred, NEW l \in Lane, Coherent(p, l), Current(l) \in Tuple
  PROVE  /\ SettledTrue(p, Current(l)) =>
              l \in computeMask_one_predicate(plan.cmp[p], mask[p])
         /\ SettledFalse(p, Current(l)) =>
              l \notin computeMask_one_predicate(plan.cmp[p], mask[p])
<1>1. plan.cmp[p] \in Comparator /\ mask[p] \in Masks
  BY PlanFields DEF TypeOK
<1>2. /\ DecidedTrue(p, Current(l)) =>
            l \in computeMask_one_predicate(plan.cmp[p], mask[p])
      /\ DecidedFalse(p, Current(l)) =>
            l \notin computeMask_one_predicate(plan.cmp[p], mask[p])
  BY <1>1, FirstByteExclusive DEF Coherent, DecidedTrue, DecidedFalse,
     computeMask_one_predicate, avx_not, Masks, Comparator, Ordering
<1>3. Untouched(p) => Done(p, l)
  BY ExactIsDone DEF Coherent, Untouched
<1> QED BY <1>2, <1>3 DEF SettledTrue, SettledFalse, Done

(* Masks that are exact on the first byte are coherent.                    *)
LEMMA ExactIsCoherent ==
  ASSUME TypeOK, NEW p \in Pred, NEW l \in Lane, Exact(p, 1, l), Current(l) \in Tuple
  PROVE  Coherent(p, l)
  BY FirstByteExclusive DEF Exact, Coherent

(***************************************************************************)
(* What a later byte slice does to the masks k becomes of m: the equal     *)
(* lanes that differ leave the equality mask, and only they may enter an   *)
(* ordering mask; a complete step enters them all.                         *)
(***************************************************************************)
Narrows(cmp, x, y, m, k) ==
  /\ k.equal \subseteq m.equal
  /\ cmp \in Ordering =>
       /\ m.less \subseteq k.less /\ k.less \subseteq m.less \cup (m.equal \cap avx_cmplt(x, y))
       /\ m.greater \subseteq k.greater
       /\ k.greater \subseteq m.greater \cup (m.equal \cap avx_cmpgt(x, y))

Completes(cmp, x, y, m, k) ==
  /\ k.equal = m.equal \cap avx_cmpeq(x, y)
  /\ cmp \in Ordering =>
       /\ k.less = m.less \cup (m.equal \cap avx_cmplt(x, y))
       /\ k.greater = m.greater \cup (m.equal \cap avx_cmpgt(x, y))

(* The result of a step that may leave out masks is that of a complete one. *)
SameResult(cmp, x, y, m, k) ==
  \A full \in Masks :
    Completes(cmp, x, y, m, full) =>
      computeMask_one_predicate(cmp, k) = computeMask_one_predicate(cmp, full)

(* What both kernels of the refinement do, whatever their comparator.      *)
LEMMA RefinedNarrows ==
  ASSUME TypeOK, NEW p \in Pred, ~plan.judges => plan.refineCmp[p] = plan.cmp[p],
         plan.refineCmp[p] \in Ordering <=> plan.cmp[p] \in Ordering
  PROVE  /\ Narrows(plan.cmp[p], Load(p, byte), LoadRight(p, byte), mask[p], Refined(p))
         /\ plan.judges \/ byte # LAST_BYTE =>
              Completes(plan.cmp[p], Load(p, byte), LoadRight(p, byte), mask[p], Refined(p))
         /\ SameResult(plan.cmp[p], Load(p, byte), LoadRight(p, byte), mask[p], Refined(p))
<1> DEFINE cmp == plan.cmp[p]
           x == Load(p, byte)
           y == LoadRight(p, byte)
           m == mask[p]
           k == Refined(p)
<1>1. m \in Masks /\ cmp \in Comparator /\ plan.refineCmp[p] \in Comparator
  BY PlanFields DEF TypeOK
<1>2. CASE plan.judges
  <2> DEFINE q == [m EXCEPT
         !.less = IF plan.refineCmp[p] \in Ordering
                  THEN @ \cup (m.equal \cap avx_cmplt(x, y)) ELSE @,
         !.greater = IF plan.refineCmp[p] \in Ordering
                     THEN @ \cup (m.equal \cap avx_cmpgt(x, y)) ELSE @,
         !.equal = @ \cap avx_cmpeq(x, y)]
  <2>1. k = Judged(plan.refineCmp[p], q)
    BY <1>2 DEF Refined, computeKernelWithMask
  <2>2. q \in Masks
    BY <1>1 DEF Masks, avx_cmplt, avx_cmpgt, avx_cmpeq
  <2>3. k.equal = q.equal /\ k.less = q.less /\ k.greater = q.greater
    BY <2>1, <2>2 DEF Judged, Masks
  <2>4. Completes(cmp, x, y, m, k)
    BY <1>1, <2>3 DEF Completes, Masks
  <2>5. Narrows(cmp, x, y, m, k)
    BY <2>4 DEF Narrows, Completes
  <2>6. SameResult(cmp, x, y, m, k)
    BY <1>1, <2>4 DEF SameResult, Completes, computeMask_one_predicate, avx_not,
       Comparator, Ordering
  <2> QED BY <2>4, <2>5, <2>6
<1>3. CASE ~plan.judges
  <2>1. k = computeKernel(cmp, byte = LAST_BYTE, x, y, m)
    BY <1>3 DEF Refined
  <2>2. /\ k.less = IF cmp \in {"kLess", "kLessEqual"} \/ (cmp \in Ordering /\ byte # LAST_BYTE)
                    THEN m.less \cup (m.equal \cap avx_cmplt(x, y)) ELSE m.less
        /\ k.greater = IF cmp \in {"kGreater", "kGreaterEqual"}
                          \/ (cmp \in Ordering /\ byte # LAST_BYTE)
                       THEN m.greater \cup (m.equal \cap avx_cmpgt(x, y)) ELSE m.greater
        /\ k.equal = IF byte = LAST_BYTE /\ cmp \in {"kLess", "kGreater"} THEN m.equal
                     ELSE m.equal \cap avx_cmpeq(x, y)
    BY <1>1, <2>1 DEF computeKernel, Masks
  <2>3. byte # LAST_BYTE => Completes(cmp, x, y, m, k)
    BY <2>2 DEF Completes, Ordering
  <2>4. Narrows(cmp, x, y, m, k)
    BY <2>2 DEF Narrows, Ordering
  <2>5. SameResult(cmp, x, y, m, k)
    BY <1>1, <2>2 DEF SameResult, Completes, computeMask_one_predicate, avx_not,
       Comparator, Ordering
  <2> QED BY <1>3, <2>3, <2>4, <2>5
<1> QED BY <1>2, <1>3

----------------------------------------------------------------------------
(***************************************************************************)
(* What a step leaves alone.                                               *)
(***************************************************************************)

(* The reference depends on the inputs only.                               *)
LEMMA SameInput ==
  ASSUME UNCHANGED input
  PROVE  /\ Pred' = Pred /\ Node' = Node /\ Root' = Root /\ Calls' = Calls
         /\ \A p, b, x : PrefixEqual(p, b, x)' <=> PrefixEqual(p, b, x)
         /\ \A p, b, x : PrefixLess(p, b, x)' <=> PrefixLess(p, b, x)
         /\ \A p, b, x : PrefixGreater(p, b, x)' <=> PrefixGreater(p, b, x)
         /\ \A p, x : Holds(p, x)' <=> Holds(p, x)
         /\ \A p : Untouched(p)' <=> Untouched(p)
         /\ \A p, x : SettledTrue(p, x)' <=> SettledTrue(p, x)
         /\ \A p, x : SettledFalse(p, x)' <=> SettledFalse(p, x)
         /\ \A t, j : FollowsTree(t, j)' <=> FollowsTree(t, j)
         /\ \A t, j, x : IsTruth(t, j, x)' <=> IsTruth(t, j, x)
         /\ \A u, x : Outcome(u, x)' <=> Outcome(u, x)
         /\ \A x : Settled(x)' <=> Settled(x)
         /\ \A r : Determines(r)' <=> Determines(r)
         /\ \A x : Qualifies(x)' <=> Qualifies(x)
<1> USE DEF input
<1>1. Pred' = Pred /\ Node' = Node /\ Root' = Root /\ Calls' = Calls
  BY DEF Pred, Node, Root, Calls
<1>2. \A p, b, x : PrefixEqual(p, b, x)' <=> PrefixEqual(p, b, x)
  BY DEF PrefixEqual, CodeByte, RightByte
<1>3. \A p, b, x : PrefixLess(p, b, x)' <=> PrefixLess(p, b, x)
  BY <1>2 DEF PrefixLess, CodeByte, RightByte
<1>4. \A p, b, x : PrefixGreater(p, b, x)' <=> PrefixGreater(p, b, x)
  BY <1>2 DEF PrefixGreater, CodeByte, RightByte
<1>5. \A p, x : Holds(p, x)' <=> Holds(p, x)
  BY <1>2, <1>3, <1>4 DEF Holds
<1>6. \A p, x : SettledTrue(p, x)' <=> SettledTrue(p, x)
  BY <1>2, <1>3, <1>4, <1>5 DEF SettledTrue, DecidedTrue, Untouched
<1>7. \A p, x : SettledFalse(p, x)' <=> SettledFalse(p, x)
  BY <1>2, <1>3, <1>4, <1>5 DEF SettledFalse, DecidedFalse, Untouched
<1>8. \A t, j : FollowsTree(t, j)' <=> FollowsTree(t, j)
  BY DEF FollowsTree
<1>9. \A t, j, x : IsTruth(t, j, x)' <=> IsTruth(t, j, x)
  BY <1>1, <1>5, <1>8 DEF IsTruth
<1>10. \A u, x : Outcome(u, x)' <=> Outcome(u, x)
  BY <1>1, <1>6, <1>7, <1>8 DEF Outcome
<1>11. \A x : Settled(x)' <=> Settled(x)
  BY <1>1, <1>10 DEF Settled
<1>12. \A r : Determines(r)' <=> Determines(r)
  BY <1>1, <1>8 DEF Determines
<1>13. \A x : Qualifies(x)' <=> Qualifies(x)
  BY <1>1, <1>9 DEF Qualifies
<1>14. \A p : Untouched(p)' <=> Untouched(p)
  BY DEF Untouched
<1> QED BY <1>14, <1>1, <1>2, <1>3, <1>4, <1>5, <1>6, <1>7, <1>8, <1>9, <1>10, <1>11, <1>12, <1>13

(* A lane stands for the same tuple throughout a chunk.                    *)
LEMMA SamePosition ==
  ASSUME UNCHANGED position
  PROVE  \A l : Current(l)' = Current(l)
  BY DEF Current, position

(* What is said of a predicate's masks stays so while they stay.           *)
LEMMA SameMask ==
  ASSUME UNCHANGED input, UNCHANGED position, NEW p, mask'[p] = mask[p]
  PROVE  /\ \A b, l : Exact(p, b, l)' <=> Exact(p, b, l)
         /\ \A l : Done(p, l)' <=> Done(p, l)
         /\ \A l : Coherent(p, l)' <=> Coherent(p, l)
<1>1. plan' = plan
  BY DEF input
<1>2. \A b, l : Exact(p, b, l)' <=> Exact(p, b, l)
  BY <1>1, SameInput, SamePosition DEF Exact
<1>3. \A l : Done(p, l)' <=> Done(p, l)
  BY <1>1, SameInput, SamePosition DEF Done
<1>4. \A l : Coherent(p, l)' <=> Coherent(p, l)
  BY <1>1, <1>2, SameInput, SamePosition DEF Coherent
<1> QED BY <1>2, <1>3, <1>4

(* The aggregate decides which lanes are live.                             *)
LEMMA SameLive ==
  ASSUME UNCHANGED input, UNCHANGED agg
  PROVE  agg_equal' = agg_equal /\ \A l : Live(l)' <=> Live(l)
  BY SameInput DEF agg_equal, Live, input

(* Stored words and the bits of the chunks before are about other tuples.  *)
LEMMA SameWord ==
  ASSUME WordInv, StoredBitsCorrect, UNCHANGED input, UNCHANGED position,
         UNCHANGED <<bitvector_word, bitmap>>,
         pc \notin {"store", "done"}, pc' \notin {"store", "done"}
  PROVE  WordInv' /\ StoredBitsCorrect'
<1>1. Bit' = Bit
  BY DEF Bit
<1>2. StoredBitsCorrect'
  BY <1>1, SameInput DEF StoredBitsCorrect, position
<1>3. WordInv'
  BY <1>1, SameInput DEF WordInv, position
<1> QED BY <1>2, <1>3

----------------------------------------------------------------------------
(***************************************************************************)
(* The steps, one lemma per action.                                        *)
(***************************************************************************)

(* The first byte slice leaves exact masks and the verdict they imply.     *)
LEMMA FirstByteExact ==
  ASSUME TypeOK, pc = "first", FirstByte, NEW p, p = index
  PROVE  /\ \A l \in Lane : Exact(p, 1, l)'
         /\ mask'[p].success = Succeeds(plan.cmp[p], mask'[p])
         /\ mask'[p].fail = Fails(plan.cmp[p], mask'[p])
<1> DEFINE cmp == plan.cmp[p]
           x == Load(p, 1)
           y == LoadRight(p, 1)
           m == mask[p]
           k == [m EXCEPT
                  !.less = IF cmp \in Ordering THEN avx_cmplt(x, y) ELSE @,
                  !.greater = IF cmp \in Ordering THEN avx_cmpgt(x, y) ELSE @,
                  !.equal = avx_cmpeq(x, y)]
<1>1. p \in Pred /\ m \in Masks /\ cmp \in Comparator
  BY PlanFields DEF TypeOK, Rounds, Pred
<1>2. mask'[p] = Judged(cmp, k)
  BY <1>1 DEF FirstByte, TypeOK, computeKernelWithMask_FIRST
<1>3. k \in Masks
  BY <1>1 DEF Masks, avx_cmplt, avx_cmpgt, avx_cmpeq
<1> DEFINE q == Judged(cmp, k)
<1>4. /\ q.less = k.less /\ q.greater = k.greater /\ q.equal = k.equal
      /\ q.success = Succeeds(cmp, k) /\ q.fail = Fails(cmp, k)
  BY <1>3 DEF Judged, Masks
<1>5. q.success = Succeeds(cmp, q) /\ q.fail = Fails(cmp, q)
  <2> HIDE DEF k, q
  <2> QED BY <1>4, <1>1 DEF Succeeds, Fails, Comparator, Ordering
<1>6. ASSUME NEW l \in Lane
      PROVE  /\ l \in k.equal <=> PrefixEqual(p, 1, Current(l))
             /\ cmp \in Ordering =>
                  /\ l \in k.less <=> PrefixLess(p, 1, Current(l))
                  /\ l \in k.greater <=> PrefixGreater(p, 1, Current(l))
  <2>1. /\ k.equal = avx_cmpeq(x, y)
        /\ cmp \in Ordering => k.less = avx_cmplt(x, y) /\ k.greater = avx_cmpgt(x, y)
    BY <1>1 DEF Masks
  <2>2. x[l] = CodeByte(p, 1, Current(l)) /\ y[l] = RightByte(p, 1, Current(l))
    BY LoadedByte
  <2> HIDE DEF x, y, k
  <2> QED BY <2>1, <2>2, PrefixFirst DEF avx_cmpeq, avx_cmplt, avx_cmpgt
<1>7. UNCHANGED input /\ UNCHANGED position /\ p \in Pred /\ plan' = plan
  BY <1>1 DEF FirstByte, input
<1>8. \A l \in Lane :
        /\ l \in mask'[p].equal <=> PrefixEqual(p, 1, Current(l))
        /\ cmp \in Ordering =>
             /\ l \in mask'[p].less <=> PrefixLess(p, 1, Current(l))
             /\ l \in mask'[p].greater <=> PrefixGreater(p, 1, Current(l))
  <2> HIDE DEF k
  <2> QED BY <1>2, <1>4, <1>6
<1>9. \A l \in Lane : Exact(p, 1, l)'
  <2> HIDE DEF k, m, x, y
  <2> QED BY <1>7, <1>8, SameInput, SamePosition DEF Exact
<1> QED BY <1>2, <1>5, <1>9

LEMMA FirstByteStep ==
  ASSUME Inv, FirstByte
  PROVE  Inv'
<1>1. /\ TypeOK /\ pc = "first" /\ UNCHANGED input /\ UNCHANGED position /\ byte = 2
      /\ index \in Pred /\ index \in Nat /\ plan.n \in Nat /\ Pred = 1..plan.n
  BY PlanFields DEF Inv, FirstByte, TypeOK, Rounds, Pred, ByteInv
<1>2. TypeOK'
  BY <1>1, TypeStep DEF Next, FirstByte
<1>3. \/ index < plan.n /\ pc' = "first" /\ index' = index + 1
      \/ index = plan.n /\ pc' = "aggregate" /\ index' = 1
  BY <1>1 DEF FirstByte, Advance
<1>4. FirstInv'
  <2> SUFFICES ASSUME NEW p \in Pred, pc' = "first" => p < index'
               PROVE  /\ \A l \in Lane : Exact(p, 1, l)'
                      /\ mask'[p].success = Succeeds(plan.cmp[p], mask'[p])
                      /\ mask'[p].fail = Fails(plan.cmp[p], mask'[p])
    BY <1>1, SameInput DEF FirstInv, input
  <2>1. CASE p = index
    BY <1>1, <2>1, FirstByteExact
  <2>2. CASE p # index
    <3>1. p < index
      BY <1>1, <1>3, <2>2
    <3>2. mask'[p] = mask[p]
      BY <1>1, <2>2 DEF FirstByte, TypeOK
    <3>3. /\ \A l \in Lane : Exact(p, 1, l)
          /\ mask[p].success = Succeeds(plan.cmp[p], mask[p])
          /\ mask[p].fail = Fails(plan.cmp[p], mask[p])
      BY <1>1, <3>1 DEF Inv, FirstInv
    <3> QED BY <1>1, <3>2, <3>3, SameMask
  <2> QED BY <2>1, <2>2
<1>5. AggregateInv'
  <2> SUFFICES ASSUME pc' = "aggregate", NEW r \in Node \ Pred, r < plan.n + index'
               PROVE  FALSE
    BY <1>3, SameInput, <1>1 DEF AggregateInv, input
  <2>1. r \in Nat /\ r < plan.n + 1
    BY <1>3 DEF Node
  <2> QED BY <1>1, <2>1 DEF Node
<1>6. TruthInv'
  <2> SUFFICES ASSUME pc' = "aggregate"
               PROVE  /\ Determines(plan.n)
                      /\ \A l \in Lane : \E t \in SUBSET Node : IsTruth(t, 0, Current(l))
    <3>1. pc' = "aggregate" => index' - 1 = 0 /\ plan'.n + (index' - 1) = plan.n /\ plan' = plan
      BY <1>1, <1>3 DEF input
    <3> QED BY <1>1, <1>3, <3>1, SameInput, SamePosition DEF TruthInv
  <2>1. Determines(plan.n)
    BY <1>1 DEF Determines, Node
  <2>2. ASSUME NEW x PROVE IsTruth({p \in Pred : Holds(p, x)}, 0, x)
    BY DEF IsTruth, FollowsTree
  <2>3. \A x : {p \in Pred : Holds(p, x)} \in SUBSET Node
    BY <1>1, PlanFields
  <2> QED BY <2>1, <2>2, <2>3
<1>7. WordInv' /\ StoredBitsCorrect'
  BY <1>1, <1>3, SameWord DEF Inv, FirstByte
<1>8. ByteInv' /\ SettledInv' /\ CoherentInv' /\ RefineInv' /\ FinalInv'
  BY <1>1, <1>3 DEF FirstByte, ByteInv, SettledInv, CoherentInv, RefineInv, FinalInv
<1> QED BY <1>2, <1>4, <1>5, <1>6, <1>7, <1>8 DEF Inv

(* The verdict of a predicate is sound after its first byte.               *)
LEMMA LeafSound ==
  ASSUME TypeOK, NEW p \in Pred, NEW l \in Lane, Exact(p, 1, l), Current(l) \in Tuple,
         mask[p].success = Succeeds(plan.cmp[p], mask[p]),
         mask[p].fail = Fails(plan.cmp[p], mask[p])
  PROVE  Sound(p, l)
<1>1. plan.cmp[p] \in Comparator /\ mask[p] \in Masks
  BY PlanFields DEF TypeOK
<1>2. /\ Verdict(p).equal = mask[p].equal
      /\ Verdict(p).success = Succeeds(plan.cmp[p], mask[p])
      /\ Verdict(p).fail = Fails(plan.cmp[p], mask[p])
  BY DEF Verdict
<1>3. /\ l \in Verdict(p).success <=> DecidedTrue(p, Current(l))
      /\ l \in Verdict(p).fail <=> DecidedFalse(p, Current(l))
  BY <1>1, <1>2 DEF Exact, Succeeds, Fails, DecidedTrue, DecidedFalse, avx_not,
     Masks, Comparator, Ordering
<1>4. l \notin Verdict(p).equal =>
        DecidedTrue(p, Current(l)) \/ DecidedFalse(p, Current(l))
  BY <1>1, <1>2, FirstByteExclusive DEF Exact, DecidedTrue, DecidedFalse, Comparator, Ordering
<1> QED BY <1>3, <1>4 DEF Sound, Outcome, SettledTrue, SettledFalse

(* So is the verdict of a node that joins two sound ones.                  *)
LEMMA JoinSound ==
  ASSUME TypeOK, NEW l \in Lane, NEW j \in Calls,
         Sound(plan.prog[j].a, l), Sound(plan.prog[j].b, l),
         NEW v, v = computeForEarlyStop(plan.prog[j].op, Verdict(plan.prog[j].a),
                                        Verdict(plan.prog[j].b))
  PROVE  /\ l \notin v.equal => l \in v.success \cup v.fail
         /\ \A u \in SUBSET Node :
              Outcome(u, Current(l)) =>
                /\ l \in v.success => plan.n + j \in u
                /\ l \in v.fail => plan.n + j \notin u
<1> DEFINE a == plan.prog[j].a
           b == plan.prog[j].b
           op == plan.prog[j].op
<1>1. op \in Bitwise /\ a \in Node /\ b \in Node
  BY CallNodes
<1>2. Verdict(a) \in Verdicts /\ Verdict(b) \in Verdicts
  BY <1>1, VerdictType
<1>3. /\ op = "kAnd" =>
           /\ l \in v.equal <=> \/ l \notin Verdict(a).fail /\ l \in Verdict(b).equal
                                \/ l \notin Verdict(b).fail /\ l \in Verdict(a).equal
           /\ l \in v.success <=> l \in Verdict(a).success /\ l \in Verdict(b).success
           /\ l \in v.fail <=> l \in Verdict(a).fail \/ l \in Verdict(b).fail
      /\ op = "kOr" =>
           /\ l \in v.equal <=> \/ l \notin Verdict(a).success /\ l \in Verdict(b).equal
                                \/ l \notin Verdict(b).success /\ l \in Verdict(a).equal
           /\ l \in v.success <=> l \in Verdict(a).success \/ l \in Verdict(b).success
           /\ l \in v.fail <=> l \in Verdict(a).fail /\ l \in Verdict(b).fail
  BY <1>1, <1>2 DEF computeForEarlyStop, avx_andnot, avx_not, Bitwise, Verdicts
<1>4. ASSUME NEW u \in SUBSET Node, Outcome(u, Current(l))
      PROVE  /\ op = "kAnd" => (plan.n + j \in u <=> a \in u /\ b \in u)
             /\ op = "kOr" => (plan.n + j \in u <=> a \in u \/ b \in u)
  BY <1>4 DEF Outcome, FollowsTree, Calls
<1>5. /\ l \notin Verdict(a).equal => l \in Verdict(a).success \cup Verdict(a).fail
      /\ l \notin Verdict(b).equal => l \in Verdict(b).success \cup Verdict(b).fail
  BY DEF Sound
<1>6. l \notin v.equal => l \in v.success \cup v.fail
  <2> HIDE DEF a, b, op
  <2> QED BY <1>1, <1>3, <1>5 DEF Bitwise
<1>7. ASSUME NEW u \in SUBSET Node, Outcome(u, Current(l))
      PROVE  /\ l \in v.success => plan.n + j \in u
             /\ l \in v.fail => plan.n + j \notin u
  <2>1. /\ l \in Verdict(a).success => a \in u
        /\ l \in Verdict(a).fail => a \notin u
        /\ l \in Verdict(b).success => b \in u
        /\ l \in Verdict(b).fail => b \notin u
    BY <1>7 DEF Sound
  <2> HIDE DEF a, b, op
  <2> QED BY <1>1, <1>3, <1>4, <1>7, <2>1 DEF Bitwise
<1> QED BY <1>6, <1>7

(* A truth of the nodes before call j extends to the node of call j.       *)
LEMMA TruthExtends ==
  ASSUME TypeOK, NEW j \in Calls, NEW x, NEW t \in SUBSET Node, IsTruth(t, j - 1, x)
  PROVE  \E s \in SUBSET Node : IsTruth(s, j, x)
<1> DEFINE a == plan.prog[j].a
           b == plan.prog[j].b
           value == IF plan.prog[j].op = "kAnd" THEN a \in t /\ b \in t ELSE a \in t \/ b \in t
           s == (t \ {plan.n + j}) \cup {r \in {plan.n + j} : value}
<1>1. j \in Nat \ {0} /\ plan.n \in Nat \ {0} /\ j <= Len(plan.prog) /\ Len(plan.prog) \in Nat
  BY PlanFields DEF Calls
<1>2. plan.n + j \in Node \ Pred /\ a \in Nat /\ b \in Nat /\ a < plan.n + j /\ b < plan.n + j
  BY CallNodes, <1>1 DEF Node
<1>3. s \in SUBSET Node
  BY <1>2
<1>4. /\ plan.n + j \in s <=> value
      /\ \A r : r # plan.n + j => (r \in s <=> r \in t)
  OBVIOUS
<1> HIDE DEF s
<1>5. a # plan.n + j /\ b # plan.n + j
  BY <1>1, <1>2
<1>6. ASSUME NEW i \in 1..j
      PROVE  plan.n + i \in s <=>
               IF plan.prog[i].op = "kAnd" THEN plan.prog[i].a \in s /\ plan.prog[i].b \in s
                                           ELSE plan.prog[i].a \in s \/ plan.prog[i].b \in s
  <2>1. CASE i = j
    BY <2>1, <1>4, <1>5
  <2>2. CASE i # j
    <3>1. i \in 1..(j - 1) /\ i \in Calls /\ plan.n + i # plan.n + j
      BY <1>1, <2>2 DEF Calls
    <3>2. plan.prog[i].a < plan.n + i /\ plan.prog[i].b < plan.n + i
          /\ plan.prog[i].a \in Nat /\ plan.prog[i].b \in Nat
      BY <3>1, CallNodes DEF Node
    <3>3. plan.prog[i].a # plan.n + j /\ plan.prog[i].b # plan.n + j
      BY <1>1, <3>1, <3>2
    <3>4. plan.n + i \in t <=>
            IF plan.prog[i].op = "kAnd" THEN plan.prog[i].a \in t /\ plan.prog[i].b \in t
                                        ELSE plan.prog[i].a \in t \/ plan.prog[i].b \in t
      BY <3>1 DEF IsTruth, FollowsTree
    <3> QED BY <3>1, <3>3, <3>4, <1>4
  <2> QED BY <2>1, <2>2
<1>7. \A p \in Pred : p \in s <=> Holds(p, x)
  BY <1>2, <1>4 DEF IsTruth
<1> QED BY <1>3, <1>6, <1>7 DEF IsTruth, FollowsTree

(* The tree determines one node more.                                      *)
LEMMA DeterminesNext ==
  ASSUME TypeOK, NEW j \in Calls, Determines(plan.n + (j - 1))
  PROVE  Determines(plan.n + j)
<1>1. j \in Nat \ {0} /\ plan.n \in Nat \ {0}
  BY PlanFields DEF Calls
<1> SUFFICES ASSUME NEW u \in SUBSET Node, NEW v \in SUBSET Node,
                    FollowsTree(u, Len(plan.prog)), FollowsTree(v, Len(plan.prog)),
                    \A p \in Pred : p \in u <=> p \in v,
                    NEW q \in Node, q <= plan.n + j
             PROVE  q \in u <=> q \in v
  BY DEF Determines
<1>2. \A r \in Node : r <= plan.n + (j - 1) => (r \in u <=> r \in v)
  BY DEF Determines
<1>3. CASE q # plan.n + j
  BY <1>1, <1>2, <1>3 DEF Node
<1>4. CASE q = plan.n + j
  <2>1. /\ plan.prog[j].a \in Node /\ plan.prog[j].a <= plan.n + (j - 1)
        /\ plan.prog[j].b \in Node /\ plan.prog[j].b <= plan.n + (j - 1)
    BY <1>1, CallNodes DEF Node
  <2> QED BY <1>2, <1>4, <2>1 DEF FollowsTree, Calls
<1> QED BY <1>3, <1>4

(* A node's verdict stays sound while it stays.                            *)
LEMMA SameVerdict ==
  ASSUME UNCHANGED input, UNCHANGED position, NEW r, Verdict(r)' = Verdict(r)
  PROVE  \A l : Sound(r, l)' <=> Sound(r, l)
  BY SameInput, SamePosition DEF Sound

(* One call of the aggregate: the new verdict contradicts no outcome.      *)
LEMMA AggregateStep ==
  ASSUME Inv, Aggregate
  PROVE  Inv'
<1>1. /\ TypeOK /\ pc = "aggregate" /\ UNCHANGED input /\ UNCHANGED position /\ byte = 2
      /\ index \in Calls /\ index \in Nat \ {0} /\ plan.n \in Nat \ {0} /\ Pred = 1..plan.n
      /\ Len(plan.prog) \in Nat \ {0} /\ plan' = plan /\ mask' = mask
  BY PlanFields DEF Inv, Aggregate, TypeOK, Rounds, Pred, Calls, ByteInv, input
<1>2. TypeOK'
  BY <1>1, TypeStep DEF Next, Aggregate
<1>3. \/ index < Len(plan.prog) /\ pc' = "aggregate" /\ index' = index + 1
      \/ index = Len(plan.prog) /\ pc' = "prune" /\ index' = 1
  BY <1>1 DEF Aggregate, Advance, Calls
<1> DEFINE a == plan.prog[index].a
           b == plan.prog[index].b
           v == computeForEarlyStop(plan.prog[index].op, Verdict(a), Verdict(b))
<1>4. /\ a \in Node /\ a < plan.n + index /\ b \in Node /\ b < plan.n + index
      /\ plan.n + index \in Node \ Pred
  BY <1>1, CallNodes
<1>5. /\ agg'[plan.n + index] = v
      /\ \A r \in Node \ Pred : r # plan.n + index => agg'[r] = agg[r]
  BY <1>1, <1>4 DEF Aggregate, TypeOK
<1>6. ASSUME NEW r \in Node, r < plan.n + index, NEW l \in Lane
      PROVE  Sound(r, l)
  <2>1. CASE r \in Pred
    <3>1. Exact(r, 1, l) /\ Current(l) \in Tuple
      BY <1>1, <2>1, CurrentTuple DEF Inv, FirstInv
    <3>2. /\ mask[r].success = Succeeds(plan.cmp[r], mask[r])
          /\ mask[r].fail = Fails(plan.cmp[r], mask[r])
      BY <1>1, <2>1 DEF Inv, FirstInv
    <3> QED BY <1>1, <2>1, <3>1, <3>2, LeafSound
  <2>2. CASE r \notin Pred
    BY <1>1, <1>6, <2>2 DEF Inv, AggregateInv
  <2> QED BY <2>1, <2>2
<1>7. FirstInv'
  <2> SUFFICES ASSUME NEW p \in Pred
               PROVE  /\ \A l \in Lane : Exact(p, 1, l)'
                      /\ mask'[p].success = Succeeds(plan.cmp[p], mask'[p])
                      /\ mask'[p].fail = Fails(plan.cmp[p], mask'[p])
    BY <1>1, SameInput DEF FirstInv
  <2>1. /\ \A l \in Lane : Exact(p, 1, l)
        /\ mask[p].success = Succeeds(plan.cmp[p], mask[p])
        /\ mask[p].fail = Fails(plan.cmp[p], mask[p])
    BY <1>1 DEF Inv, FirstInv
  <2> QED BY <1>1, <2>1, SameMask
<1>8. AggregateInv'
  <2> SUFFICES ASSUME NEW r \in Node \ Pred, r <= plan.n + index, NEW l \in Lane
               PROVE  Sound(r, l)'
    <3>1. \A r \in Node : r \in Nat
      BY DEF Node
    <3>2. \A r \in Node \ Pred : (pc' = "aggregate" => r < plan.n + index') => r <= plan.n + index
      BY <1>1, <1>3, <3>1 DEF Node, Root
    <3> QED BY <1>1, <3>2, SameInput DEF AggregateInv
  <2>1. CASE r = plan.n + index
    <3>1. Sound(a, l) /\ Sound(b, l)
      BY <1>4, <1>6
    <3>2. /\ l \notin v.equal => l \in v.success \cup v.fail
          /\ \A u \in SUBSET Node :
               Outcome(u, Current(l)) =>
                 /\ l \in v.success => plan.n + index \in u
                 /\ l \in v.fail => plan.n + index \notin u
      BY <1>1, <3>1, JoinSound
    <3>3. Verdict(r)' = v
      BY <1>4, <1>5, <2>1, SameInput, <1>1 DEF Verdict
    <3> HIDE DEF v
    <3> QED BY <1>1, <2>1, <3>2, <3>3, SameInput, SamePosition DEF Sound
  <2>2. CASE r # plan.n + index
    <3>1. r < plan.n + index
      BY <1>1, <2>2 DEF Node
    <3>2. Verdict(r)' = Verdict(r)
      BY <1>1, <1>5, <2>2, SameInput DEF Verdict
    <3> QED BY <1>1, <1>6, <3>1, <3>2, SameVerdict
  <2> QED BY <2>1, <2>2
<1>9. TruthInv'
  <2> SUFFICES /\ Determines(plan.n + index)
               /\ \A l \in Lane : \E t \in SUBSET Node : IsTruth(t, index, Current(l))
    <3>1. (IF pc' = "aggregate" THEN index' - 1 ELSE Len(plan.prog)) = index
      BY <1>1, <1>3
    <3> QED BY <1>1, <3>1, SameInput, SamePosition DEF TruthInv
  <2>1. /\ Determines(plan.n + (index - 1))
        /\ \A l \in Lane : \E t \in SUBSET Node : IsTruth(t, index - 1, Current(l))
    BY <1>1 DEF Inv, TruthInv
  <2> QED BY <1>1, <2>1, DeterminesNext, TruthExtends
<1>10. WordInv' /\ StoredBitsCorrect'
  BY <1>1, <1>3, SameWord DEF Inv, Aggregate
<1>11. ByteInv' /\ SettledInv' /\ CoherentInv' /\ RefineInv' /\ FinalInv'
  BY <1>1, <1>3 DEF Aggregate, ByteInv, SettledInv, CoherentInv, RefineInv, FinalInv
<1> QED BY <1>2, <1>7, <1>8, <1>9, <1>10, <1>11 DEF Inv

(* What is said of a predicate's masks on a lane depends on that lane only. *)
LEMMA SameLane ==
  ASSUME TypeOK, UNCHANGED input, UNCHANGED position, NEW p \in Pred, NEW l \in Lane,
         l \in mask'[p].equal <=> l \in mask[p].equal,
         mask'[p].less = mask[p].less, mask'[p].greater = mask[p].greater
  PROVE  /\ \A b : Exact(p, b, l)' <=> Exact(p, b, l)
         /\ Done(p, l)' <=> Done(p, l)
         /\ Coherent(p, l)' <=> Coherent(p, l)
<1>1. plan' = plan /\ plan.cmp[p] \in Comparator
  BY PlanFields DEF input
<1>2. \A b : Exact(p, b, l)' <=> Exact(p, b, l)
  BY <1>1, SameInput, SamePosition DEF Exact
<1>3. l \in computeMask_one_predicate(plan.cmp[p], mask'[p]) <=>
      l \in computeMask_one_predicate(plan.cmp[p], mask[p])
  BY <1>1 DEF computeMask_one_predicate, avx_not, Comparator, Ordering
<1>4. Done(p, l)' <=> Done(p, l)
  BY <1>1, <1>3, SameInput, SamePosition DEF Done
<1>5. Coherent(p, l)' <=> Coherent(p, l)
  BY <1>1, <1>2, SameInput, SamePosition DEF Coherent
<1> QED BY <1>2, <1>4, <1>5

(* A lane the aggregate no longer holds equal has its root settled.        *)
LEMMA RootSettles ==
  ASSUME TypeOK, NEW l \in Lane, Sound(Root, l), l \notin agg_equal
  PROVE  Settled(Current(l))
<1>1. Verdict(Root) = agg[Root]
  BY PlanFields DEF Verdict
<1> QED BY <1>1 DEF Sound, Settled, agg_equal

(***************************************************************************)
(* What the stages after the aggregate need of it: exact masks, and every  *)
(* lane it drops settled.                                                  *)
(***************************************************************************)
ReadyToRefine ==
  /\ TypeOK /\ ByteInv /\ TruthInv /\ WordInv /\ StoredBitsCorrect
  /\ \A l \in Lane : l \in agg_equal \/ Settled(Current(l))
  /\ \A p \in Pred, l \in Lane : Exact(p, 1, l)

(* The aggregate provides it.                                              *)
LEMMA AggregateIsReady ==
  ASSUME Inv, pc = "prune"
  PROVE  ReadyToRefine
<1>1. \A l \in Lane : Sound(Root, l)
  BY PlanFields DEF Inv, AggregateInv
<1>2. \A l \in Lane : l \in agg_equal \/ Settled(Current(l))
  BY <1>1, RootSettles DEF Inv
<1> QED BY <1>2 DEF Inv, FirstInv, ReadyToRefine

(* Skipping the refinement leaves every lane to what the first byte says.  *)
LEMMA SkipRefinementStep ==
  ASSUME ReadyToRefine, SkipRefinement
  PROVE  Inv'
<1>1. /\ TypeOK /\ pc = "prune" /\ pc' = "final" /\ index = 1 /\ index' = 1 /\ byte = 2
      /\ UNCHANGED input /\ UNCHANGED position /\ UNCHANGED agg /\ UNCHANGED mask
      /\ plan' = plan /\ plan.prunes /\ agg_equal = {} /\ Pred = 1..plan.n
  BY DEF ReadyToRefine, SkipRefinement, TypeOK, Rounds, Pred, ByteInv, input
<1>2. TypeOK'
  BY <1>1, TypeStep DEF Next
<1>3. \A l \in Lane : ~Live(l) /\ ~Live(l)' /\ Current(l) \in Tuple
  BY <1>1, SameLive, CurrentTuple DEF Live
<1>4. SettledInv'
  <2>1. \A l \in Lane : Settled(Current(l))
    BY <1>1 DEF ReadyToRefine
  <2> QED BY <1>1, <2>1, SameInput, SamePosition DEF SettledInv
<1>5. CoherentInv'
  <2>1. \A p \in Pred, l \in Lane : Coherent(p, l)
    BY <1>1, <1>3, ExactIsCoherent DEF ReadyToRefine
  <2> QED BY <1>1, <2>1, SameInput, SameMask DEF CoherentInv
<1>6. FinalInv'
  BY <1>1, <1>3, SameInput DEF FinalInv, Pred
<1>7. TruthInv'
  BY <1>1, SameInput, SamePosition DEF ReadyToRefine, TruthInv
<1>8. WordInv' /\ StoredBitsCorrect'
  BY <1>1, SameWord DEF ReadyToRefine, SkipRefinement
<1>9. ByteInv' /\ FirstInv' /\ AggregateInv' /\ RefineInv'
  BY <1>1 DEF SkipRefinement, ByteInv, FirstInv, AggregateInv, RefineInv
<1> QED BY <1>2, <1>4, <1>5, <1>6, <1>7, <1>8, <1>9 DEF Inv

(* Masking the decided lanes out of the equality masks changes nothing for *)
(* the live lanes, and what it drops is settled.                           *)
LEMMA EnterRefinementStep ==
  ASSUME ReadyToRefine, EnterRefinement
  PROVE  Inv'
<1>1. /\ TypeOK /\ pc = "prune" /\ pc' = "refine" /\ index = 1 /\ index' = 1
      /\ byte = 2 /\ byte' = 2 /\ UNCHANGED input /\ UNCHANGED position /\ UNCHANGED agg
      /\ plan' = plan
  BY DEF ReadyToRefine, EnterRefinement, TypeOK, Rounds, ByteInv, input
<1>2. TypeOK'
  BY <1>1, TypeStep DEF Next
<1>3. ASSUME NEW p \in Pred
      PROVE  /\ \/ mask'[p].equal = mask[p].equal
                \/ plan.prunes /\ mask'[p].equal = mask[p].equal \cap agg_equal
             /\ mask'[p].less = mask[p].less
             /\ mask'[p].greater = mask[p].greater
  <2>1. mask[p] \in Masks
    BY <1>1 DEF TypeOK
  <2>2. mask'[p] = IF plan.prunes /\ p \in plan.zeroed
                   THEN [mask[p] EXCEPT !.equal = @ \cap agg_equal] ELSE mask[p]
    BY DEF EnterRefinement
  <2> QED BY <2>1, <2>2 DEF Masks
<1>4. \A p \in Pred, l \in Lane : Exact(p, 1, l) /\ Current(l) \in Tuple
  BY <1>1, CurrentTuple DEF ReadyToRefine
<1>5. SettledInv'
  <2>1. \A l \in Lane : Live(l) \/ Settled(Current(l))
    BY DEF ReadyToRefine, Live
  <2> QED BY <1>1, <2>1, SameInput, SamePosition, SameLive DEF SettledInv
<1>6. CoherentInv'
  <2> SUFFICES ASSUME NEW p \in Pred, NEW l \in Lane
               PROVE  Coherent(p, l)'
    BY <1>1, SameInput DEF CoherentInv
  <2>1. Coherent(p, l)
    BY <1>1, <1>4, ExactIsCoherent
  <2>2. ~Untouched(p) => Coherent(p, l)'
    BY <1>1, <1>3, <2>1, SameInput, SamePosition DEF Coherent
  <2>3. Untouched(p) => mask'[p] = mask[p]
    BY DEF EnterRefinement, Untouched
  <2>4. Untouched(p) => Coherent(p, l)'
    BY <1>1, <2>1, <2>3, SameMask
  <2> QED BY <2>2, <2>4
<1>7. RefineInv'
  <2> SUFFICES ASSUME NEW p \in Pred, NEW l \in Lane, Live(l)
               PROVE  IF Finished(p)' THEN Done(p, l)' ELSE Exact(p, Depth(p), l)'
    BY <1>1, SameInput, SameLive DEF RefineInv
  <2>1. l \in mask'[p].equal <=> l \in mask[p].equal
    BY <1>3 DEF Live
  <2>2. plan.bytes[p] \in Nat \ {0}
    BY <1>1, PlanFields
  <2>3. Finished(p)' <=> plan.bytes[p] = 1
    BY <1>1, <2>2 DEF Finished
  <2>4. Depth(p)' = 1
    BY <1>1 DEF Depth
  <2>5. Done(p, l)' <=> Done(p, l)
    BY <1>1, <1>3, <2>1, SameLane
  <2>6. Exact(p, 1, l)'
    BY <1>1, <1>3, <1>4, <2>1, SameLane
  <2>7. Exact(p, Depth(p), l)'
    BY <2>4, <2>6 DEF Exact
  <2>8. plan.bytes[p] = 1 => Done(p, l)
    BY <1>1, <1>4, ExactIsDone
  <2> QED BY <2>3, <2>5, <2>7, <2>8
<1>8. TruthInv'
  BY <1>1, SameInput, SamePosition DEF ReadyToRefine, TruthInv
<1>9. WordInv' /\ StoredBitsCorrect'
  BY <1>1, SameWord DEF ReadyToRefine, EnterRefinement
<1>10. ByteInv' /\ FirstInv' /\ AggregateInv' /\ FinalInv'
  BY <1>1 DEF EnterRefinement, ByteInv, FirstInv, AggregateInv, FinalInv
<1> QED BY <1>2, <1>5, <1>6, <1>7, <1>8, <1>9, <1>10 DEF Inv

(* A complete step takes masks that are exact on a prefix to masks that are *)
(* exact on one byte more.                                                 *)
LEMMA CompletesExact ==
  ASSUME NEW p, NEW l \in Lane, byte \in Nat \ {0, 1}, Exact(p, byte - 1, l), NEW k,
         Completes(plan.cmp[p], Load(p, byte), LoadRight(p, byte), mask[p], k)
  PROVE  /\ l \in k.equal <=> PrefixEqual(p, byte, Current(l))
         /\ plan.cmp[p] \in Ordering =>
              /\ l \in k.less <=> PrefixLess(p, byte, Current(l))
              /\ l \in k.greater <=> PrefixGreater(p, byte, Current(l))
<1> DEFINE x == Load(p, byte)
           y == LoadRight(p, byte)
           b == byte - 1
<1>1. b \in Nat /\ b + 1 = byte
  OBVIOUS
<1>2. x[l] = CodeByte(p, byte, Current(l)) /\ y[l] = RightByte(p, byte, Current(l))
  BY LoadedByte
<1>3. /\ PrefixEqual(p, byte, Current(l)) <=> PrefixEqual(p, b, Current(l)) /\ x[l] = y[l]
      /\ PrefixLess(p, byte, Current(l)) <=>
           PrefixLess(p, b, Current(l)) \/ (PrefixEqual(p, b, Current(l)) /\ x[l] < y[l])
      /\ PrefixGreater(p, byte, Current(l)) <=>
           PrefixGreater(p, b, Current(l)) \/ (PrefixEqual(p, b, Current(l)) /\ x[l] > y[l])
  <2> HIDE DEF b, x, y
  <2>1. /\ PrefixEqual(p, b + 1, Current(l)) <=>
             PrefixEqual(p, b, Current(l)) /\ CodeByte(p, b + 1, Current(l)) = RightByte(p, b + 1, Current(l))
        /\ PrefixLess(p, b + 1, Current(l)) <=>
             \/ PrefixLess(p, b, Current(l))
             \/ PrefixEqual(p, b, Current(l)) /\ CodeByte(p, b + 1, Current(l)) < RightByte(p, b + 1, Current(l))
        /\ PrefixGreater(p, b + 1, Current(l)) <=>
             \/ PrefixGreater(p, b, Current(l))
             \/ PrefixEqual(p, b, Current(l)) /\ CodeByte(p, b + 1, Current(l)) > RightByte(p, b + 1, Current(l))
    BY <1>1, PrefixNext
  <2> QED BY <1>1, <1>2, <2>1
<1>4. /\ l \in mask[p].equal <=> PrefixEqual(p, b, Current(l))
      /\ plan.cmp[p] \in Ordering =>
           /\ l \in mask[p].less <=> PrefixLess(p, b, Current(l))
           /\ l \in mask[p].greater <=> PrefixGreater(p, b, Current(l))
  BY DEF Exact
<1> HIDE DEF x, y, b
<1>5. /\ k.equal = mask[p].equal \cap avx_cmpeq(x, y)
      /\ plan.cmp[p] \in Ordering =>
           /\ k.less = mask[p].less \cup (mask[p].equal \cap avx_cmplt(x, y))
           /\ k.greater = mask[p].greater \cup (mask[p].equal \cap avx_cmpgt(x, y))
  BY DEF Completes, x, y
<1> QED BY <1>3, <1>4, <1>5 DEF avx_cmpeq, avx_cmplt, avx_cmpgt

(* Any masks that are exact on the whole code give the result.             *)
LEMMA WholeCode ==
  ASSUME TypeOK, NEW p \in Pred, NEW l \in Lane, NEW k,
         l \in k.equal <=> PrefixEqual(p, plan.bytes[p], Current(l)),
         plan.cmp[p] \in Ordering =>
           /\ l \in k.less <=> PrefixLess(p, plan.bytes[p], Current(l))
           /\ l \in k.greater <=> PrefixGreater(p, plan.bytes[p], Current(l))
  PROVE  l \in computeMask_one_predicate(plan.cmp[p], k) <=> Holds(p, Current(l))
<1>1. plan.cmp[p] \in Comparator
  BY PlanFields
<1> QED BY <1>1 DEF Holds, computeMask_one_predicate, avx_not, Comparator, Ordering

(* A group's predicates are refined together and by no other group.        *)
LEMMA GroupFacts ==
  ASSUME TypeOK, pc = "refine"
  PROVE  /\ index \in 1..Len(plan.groups) /\ plan.groups[index] \subseteq Pred
         /\ \A p \in Pred : /\ ~plan.judges => plan.refineCmp[p] = plan.cmp[p]
                            /\ plan.refineCmp[p] \in Ordering <=> plan.cmp[p] \in Ordering
         /\ \A p, q \in plan.groups[index] : plan.bytes[p] = plan.bytes[q]
         /\ \A p \in plan.groups[index] : \A g \in 1..(index - 1) : p \notin plan.groups[g]
         /\ \A p \in Pred :
              plan.bytes[p] > 1 => \E g \in 1..Len(plan.groups) : p \in plan.groups[g]
         /\ \A p \in Pred : plan.bytes[p] \in 1..LAST_BYTE
<1>1. IsPlan(plan) /\ IsRefinement(plan) /\ Len(plan.groups) \in Nat \ {0}
      /\ index \in 1..Len(plan.groups)
  BY PlansAssumption DEF TypeOK, IsPlan, Rounds
<1>2. plan.groups \in Seq(SUBSET (1..plan.n)) /\ plan.bytes \in [1..plan.n -> 1..LAST_BYTE]
  BY <1>1 DEF IsPlan
<1>3. plan.groups[index] \subseteq Pred
  BY <1>1, <1>2 DEF Pred
<1>4. \A g \in 1..(index - 1) : g \in 1..Len(plan.groups) /\ g # index
  BY <1>1
<1>5. \A p \in plan.groups[index] : \A g \in 1..(index - 1) : p \notin plan.groups[g]
  BY <1>1, <1>4 DEF IsRefinement
<1> QED BY <1>1, <1>2, <1>3, <1>5 DEF IsRefinement, Pred

(* One byte slice of a group: live lanes stay exact, and are done with the *)
(* last byte although the kernel leaves masks out; no lane forgets what    *)
(* its first byte settled.                                                 *)
LEMMA RefineByteStep ==
  ASSUME Inv, RefineByte
  PROVE  Inv'
<1>1. /\ TypeOK /\ pc = "refine" /\ pc' = "refine" /\ index' = index
      /\ byte \in Nat \ {0, 1} /\ byte' = byte + 1
      /\ UNCHANGED input /\ UNCHANGED position /\ UNCHANGED agg /\ plan' = plan
  BY DEF Inv, RefineByte, TypeOK, input
<1>2. TypeOK'
  BY <1>1, TypeStep DEF Next
<1> DEFINE G == plan.groups[index]
<1>3. /\ G \subseteq Pred
      /\ \A p \in Pred : mask'[p] = IF p \in G THEN Refined(p) ELSE mask[p]
  BY <1>1, GroupFacts DEF RefineByte
<1>4. \A p \in G : byte <= plan.bytes[p] /\ plan.bytes[p] \in 1..LAST_BYTE
  <2>1. PICK q \in G : byte <= plan.bytes[q]
    BY DEF RefineByte, SliceWanted
  <2> QED BY <1>1, <2>1, GroupFacts
<1>5. ASSUME NEW p \in G
      PROVE  /\ Narrows(plan.cmp[p], Load(p, byte), LoadRight(p, byte), mask[p], mask'[p])
             /\ byte # LAST_BYTE =>
                  Completes(plan.cmp[p], Load(p, byte), LoadRight(p, byte), mask[p], mask'[p])
             /\ SameResult(plan.cmp[p], Load(p, byte), LoadRight(p, byte), mask[p], mask'[p])
  <2>1. p \in Pred /\ mask'[p] = Refined(p)
    BY <1>3
  <2>2. /\ ~plan.judges => plan.refineCmp[p] = plan.cmp[p]
        /\ plan.refineCmp[p] \in Ordering <=> plan.cmp[p] \in Ordering
    BY <1>1, <2>1, GroupFacts
  <2> QED BY <1>1, <2>1, <2>2, RefinedNarrows
<1>6. CoherentInv'
  <2> SUFFICES ASSUME NEW p \in Pred, NEW l \in Lane
               PROVE  Coherent(p, l)'
    BY <1>1, SameInput DEF CoherentInv
  <2>1. Coherent(p, l) /\ Current(l) \in Tuple
    BY <1>1, CurrentTuple DEF Inv, CoherentInv
  <2>2. CASE p \in G
    <3>1. PrefixLess(p, 1, Current(l)) \/ PrefixGreater(p, 1, Current(l)) =>
            ~PrefixEqual(p, 1, Current(l))
      BY <1>1, <2>1, FirstByteExclusive
    <3>2. /\ mask'[p].equal \subseteq mask[p].equal
          /\ plan.cmp[p] \in Ordering =>
               /\ mask[p].less \subseteq mask'[p].less
               /\ mask'[p].less \subseteq mask[p].less \cup mask[p].equal
               /\ mask[p].greater \subseteq mask'[p].greater
               /\ mask'[p].greater \subseteq mask[p].greater \cup mask[p].equal
      BY <1>5, <2>2 DEF Narrows
    <3>3. ~Untouched(p)
      BY <1>1, <1>4, <2>2 DEF Untouched
    <3> QED BY <1>1, <2>1, <3>1, <3>2, <3>3, SameInput, SamePosition DEF Coherent
  <2>3. CASE p \notin G
    BY <1>1, <1>3, <2>1, <2>3, SameMask
  <2> QED BY <2>2, <2>3
<1>7. RefineInv'
  <2> SUFFICES ASSUME NEW p \in Pred, NEW l \in Lane, Live(l)
               PROVE  IF Finished(p)' THEN Done(p, l)' ELSE Exact(p, Depth(p), l)'
    BY <1>1, SameInput, SameLive DEF RefineInv
  <2>1. IF Finished(p) THEN Done(p, l) ELSE Exact(p, Depth(p), l)
    BY <1>1 DEF Inv, RefineInv
  <2>2. CASE p \notin G
    <3>1. Finished(p)' <=> Finished(p)
      BY <1>1, <2>2 DEF Finished
    <3>2. Depth(p) = 1 /\ Depth(p)' = 1
      BY <1>1, <2>2 DEF Depth
    <3>3. mask'[p] = mask[p]
      BY <1>3, <2>2
    <3>4. Exact(p, 1, l)' <=> Exact(p, 1, l)
      BY <1>1, <3>3, SameMask
    <3>5. Exact(p, Depth(p), l)' <=> Exact(p, 1, l)'
      BY <3>2 DEF Exact
    <3> QED BY <1>1, <2>1, <3>1, <3>2, <3>3, <3>4, <3>5, SameMask
  <2>3. CASE p \in G
    <3>1. /\ byte <= plan.bytes[p] /\ plan.bytes[p] \in 1..LAST_BYTE
          /\ \A g \in 1..(index - 1) : p \notin plan.groups[g]
      BY <1>1, <1>4, <2>3, GroupFacts
    <3>2. ~Finished(p) /\ Depth(p) = byte - 1
      BY <1>1, <2>3, <3>1 DEF Finished, Depth
    <3>3. Exact(p, byte - 1, l)
      BY <2>1, <3>2
    <3>4. Finished(p)' <=> byte = plan.bytes[p]
      BY <1>1, <2>3, <3>1 DEF Finished
    <3>5. Depth(p)' = byte
      BY <1>1, <2>3 DEF Depth
    <3>6. CASE byte < plan.bytes[p]
      <4>1. byte # LAST_BYTE
        BY <1>1, <3>1, <3>6, SizesAssumption
      <4>2. /\ l \in mask'[p].equal <=> PrefixEqual(p, byte, Current(l))
            /\ plan.cmp[p] \in Ordering =>
                 /\ l \in mask'[p].less <=> PrefixLess(p, byte, Current(l))
                 /\ l \in mask'[p].greater <=> PrefixGreater(p, byte, Current(l))
        BY <1>1, <1>5, <2>3, <3>3, <4>1, CompletesExact
      <4>3. Exact(p, Depth(p), l)'
        BY <1>1, <3>5, <4>2, SameInput, SamePosition DEF Exact
      <4> QED BY <3>1, <3>4, <3>6, <4>3, <1>1
    <3>7. CASE byte = plan.bytes[p]
      <4> DEFINE x == Load(p, byte)
                 y == LoadRight(p, byte)
                 full == [mask[p] EXCEPT !.less = @ \cup (mask[p].equal \cap avx_cmplt(x, y)),
                                         !.greater = @ \cup (mask[p].equal \cap avx_cmpgt(x, y)),
                                         !.equal = @ \cap avx_cmpeq(x, y)]
      <4>1. mask[p] \in Masks
        BY <1>1 DEF TypeOK
      <4>2. full \in Masks /\ Completes(plan.cmp[p], x, y, mask[p], full)
        BY <4>1 DEF Masks, Completes, avx_cmplt, avx_cmpgt, avx_cmpeq
      <4> HIDE DEF full
      <4>3. /\ l \in full.equal <=> PrefixEqual(p, byte, Current(l))
            /\ plan.cmp[p] \in Ordering =>
                 /\ l \in full.less <=> PrefixLess(p, byte, Current(l))
                 /\ l \in full.greater <=> PrefixGreater(p, byte, Current(l))
        BY <1>1, <3>3, <4>2, CompletesExact
      <4>4. l \in computeMask_one_predicate(plan.cmp[p], full) <=> Holds(p, Current(l))
        BY <1>1, <3>7, <4>3, WholeCode
      <4>5. computeMask_one_predicate(plan.cmp[p], mask'[p]) =
              computeMask_one_predicate(plan.cmp[p], full)
        BY <1>5, <2>3, <4>2 DEF SameResult
      <4>6. Done(p, l)'
        BY <1>1, <4>4, <4>5, SameInput, SamePosition DEF Done
      <4> QED BY <3>4, <3>7, <4>6
    <3> QED BY <1>1, <3>1, <3>6, <3>7
  <2> QED BY <2>2, <2>3
<1>8. SettledInv'
  BY <1>1, SameInput, SamePosition, SameLive DEF Inv, SettledInv
<1>9. TruthInv'
  BY <1>1, SameInput, SamePosition DEF Inv, TruthInv
<1>10. WordInv' /\ StoredBitsCorrect'
  BY <1>1, SameWord DEF Inv, RefineByte
<1>11. ByteInv' /\ FirstInv' /\ AggregateInv' /\ FinalInv'
  BY <1>1 DEF ByteInv, FirstInv, AggregateInv, FinalInv
<1> QED BY <1>2, <1>6, <1>7, <1>8, <1>9, <1>10, <1>11 DEF Inv

(* Leaving a group: its live lanes are done, for want of a byte or of a    *)
(* lane that is still equal.                                               *)
LEMMA NextGroupStep ==
  ASSUME Inv, NextGroup
  PROVE  Inv'
<1>1. /\ TypeOK /\ pc = "refine" /\ byte \in Nat \ {0, 1} /\ byte' = 2
      /\ UNCHANGED input /\ UNCHANGED position /\ UNCHANGED agg /\ UNCHANGED mask
      /\ plan' = plan /\ ~SliceWanted
      /\ index \in 1..Len(plan.groups) /\ Len(plan.groups) \in Nat \ {0}
  BY PlanFields DEF Inv, NextGroup, TypeOK, Rounds, input
<1>2. TypeOK'
  BY <1>1, TypeStep DEF Next
<1>3. \/ index < Len(plan.groups) /\ pc' = "refine" /\ index' = index + 1
      \/ index = Len(plan.groups) /\ pc' = "final" /\ index' = 1
  BY <1>1 DEF NextGroup, Advance
<1>4. ASSUME NEW p \in Pred, NEW l \in Lane, Live(l),
             \E g \in 1..index : p \in plan.groups[g]
      PROVE  Done(p, l)
  <2>1. IF Finished(p) THEN Done(p, l) ELSE Exact(p, Depth(p), l)
    BY <1>1, <1>4 DEF Inv, RefineInv
  <2>2. CASE ~Finished(p)
    <3>1. p \in plan.groups[index] /\ byte <= plan.bytes[p] /\ plan.bytes[p] \in Nat
      BY <1>1, <1>4, <2>2, PlanFields DEF Finished
    <3>2. mask[p].equal = {}
      BY <1>1, <3>1 DEF SliceWanted
    <3>3. Depth(p) = byte - 1 /\ byte - 1 \in 1..plan.bytes[p]
      BY <1>1, <3>1 DEF Depth
    <3>4. Exact(p, byte - 1, l)
      BY <2>1, <2>2, <3>3
    <3> QED BY <1>1, <3>2, <3>3, <3>4, DifferentIsDone
  <2> QED BY <2>1, <2>2
<1>5. ASSUME NEW p \in Pred, NEW l \in Lane, Live(l),
             ~\E g \in 1..index : p \in plan.groups[g]
      PROVE  IF plan.bytes[p] = 1 THEN Done(p, l) ELSE Exact(p, 1, l)
  <2>1. IF Finished(p) THEN Done(p, l) ELSE Exact(p, Depth(p), l)
    BY <1>1, <1>5 DEF Inv, RefineInv
  <2>2. p \notin plan.groups[index] /\ ~\E g \in 1..(index - 1) : p \in plan.groups[g]
    BY <1>1, <1>5
  <2>3. (Finished(p) <=> plan.bytes[p] = 1) /\ Depth(p) = 1
    BY <2>2 DEF Finished, Depth
  <2> QED BY <2>1, <2>3
<1>6. RefineInv'
  <2> SUFFICES ASSUME pc' = "refine", NEW p \in Pred, NEW l \in Lane, Live(l)
               PROVE  IF Finished(p)' THEN Done(p, l)' ELSE Exact(p, Depth(p), l)'
    BY <1>1, SameInput, SameLive DEF RefineInv
  <2>1. index' = index + 1 /\ index' - 1 = index
    BY <1>1, <1>3
  <2>2. Finished(p)' <=> plan.bytes[p] = 1 \/ \E g \in 1..index : p \in plan.groups[g]
    <3>1. plan.bytes[p] \in Nat \ {0} /\ (2 > plan.bytes[p] <=> plan.bytes[p] = 1)
      BY <1>1, PlanFields
    <3> QED BY <1>1, <2>1, <3>1 DEF Finished
  <2>3. Depth(p)' = 1
    BY <1>1 DEF Depth
  <2>4. Exact(p, Depth(p), l)' <=> Exact(p, 1, l)
    <3>1. Exact(p, Depth(p), l)' <=> Exact(p, 1, l)'
      BY <2>3 DEF Exact
    <3> QED BY <1>1, <3>1, SameMask
  <2>5. Done(p, l)' <=> Done(p, l)
    BY <1>1, SameMask
  <2> QED BY <1>4, <1>5, <2>2, <2>4, <2>5
<1>7. FinalInv'
  <2> SUFFICES ASSUME pc' = "final"
               PROVE  FinalInv'
    BY <1>3 DEF FinalInv
  <2>1. index' = 1 /\ index = Len(plan.groups) /\ Pred = 1..plan.n
    BY <1>1, <1>3 DEF Pred
  <2>2. \A p \in Pred, l \in Lane : Live(l) => Done(p, l)
    <3> SUFFICES ASSUME NEW p \in Pred, NEW l \in Lane, Live(l)
                 PROVE  Done(p, l)
      OBVIOUS
    <3>1. CASE \E g \in 1..index : p \in plan.groups[g]
      BY <1>4, <3>1
    <3>2. CASE ~\E g \in 1..index : p \in plan.groups[g]
      <4>1. plan.bytes[p] > 1 => \E g \in 1..index : p \in plan.groups[g]
        BY <1>1, <2>1, GroupFacts
      <4>2. plan.bytes[p] \in Nat \ {0}
        BY <1>1, PlanFields
      <4>3. plan.bytes[p] = 1
        BY <3>2, <4>1, <4>2
      <4> QED BY <1>5, <3>2, <4>3
    <3> QED BY <3>1, <3>2
  <2>3. \A p \in Pred, l \in Lane : Live(l)' => Done(p, l)'
    BY <1>1, <2>2, SameMask, SameLive
  <2>4. \A p \in Pred : ~(p < index')
    BY <2>1
  <2> QED BY <1>1, <2>3, <2>4, SameInput DEF FinalInv
<1>8. CoherentInv'
  <2>1. \A p \in Pred, l \in Lane : Coherent(p, l)
    BY <1>1 DEF Inv, CoherentInv
  <2> QED BY <1>1, <2>1, SameInput, SameMask DEF CoherentInv
<1>9. SettledInv'
  BY <1>1, <1>3, SameInput, SamePosition, SameLive DEF Inv, SettledInv
<1>10. TruthInv'
  BY <1>1, <1>3, SameInput, SamePosition DEF Inv, TruthInv
<1>11. WordInv' /\ StoredBitsCorrect'
  BY <1>1, <1>3, SameWord DEF Inv, NextGroup
<1>12. ByteInv' /\ FirstInv' /\ AggregateInv'
  BY <1>1, <1>3 DEF ByteInv, FirstInv, AggregateInv
<1> QED BY <1>2, <1>6, <1>7, <1>8, <1>9, <1>10, <1>11, <1>12 DEF Inv

(* What is said of a predicate's result stays so while it stays.           *)
LEMMA SameResultSound ==
  ASSUME UNCHANGED input, UNCHANGED position, UNCHANGED agg, NEW p, result'[p] = result[p]
  PROVE  \A l : ResultSound(p, l)' <=> ResultSound(p, l)
  BY SameInput, SamePosition, SameLive DEF ResultSound

(* One predicate's result mask.                                            *)
LEMMA PredicateMaskStep ==
  ASSUME Inv, PredicateMask
  PROVE  Inv'
<1>1. /\ TypeOK /\ pc = "final" /\ byte = 2 /\ byte' = 2 /\ index \in Pred /\ index \in Nat
      /\ UNCHANGED input /\ UNCHANGED position /\ UNCHANGED agg /\ UNCHANGED mask
      /\ plan' = plan /\ plan.n \in Nat /\ Pred = 1..plan.n
  BY PlanFields DEF Inv, PredicateMask, TypeOK, Rounds, Pred, ByteInv, input
<1>2. TypeOK'
  BY <1>1, TypeStep DEF Next
<1>3. \/ index < plan.n /\ pc' = "final" /\ index' = index + 1
      \/ index = plan.n /\ pc' = "combine" /\ index' = 1
  BY <1>1 DEF PredicateMask, Advance
<1>4. ASSUME NEW p \in Pred, p <= index, NEW l \in Lane
      PROVE  ResultSound(p, l)'
  <2>1. CASE p = index
    <3>1. p \in Node
      BY <1>1, PlanFields
    <3>2. result'[p] = computeMask_one_predicate(plan.cmp[p], mask[p])
      BY <1>1, <2>1, <3>1 DEF PredicateMask, TypeOK
    <3>3. (Live(l) => Done(p, l)) /\ Coherent(p, l) /\ Current(l) \in Tuple
      BY <1>1, CurrentTuple DEF Inv, FinalInv, CoherentInv
    <3>4. /\ SettledTrue(p, Current(l)) => l \in result'[p]
          /\ SettledFalse(p, Current(l)) => l \notin result'[p]
      BY <1>1, <3>2, <3>3, CoherentResult
    <3>5. Live(l) => (l \in result'[p] <=> Holds(p, Current(l)))
      BY <3>2, <3>3 DEF Done
    <3> QED BY <1>1, <3>4, <3>5, SameInput, SamePosition, SameLive DEF ResultSound
  <2>2. CASE p # index
    <3>1. p < index
      BY <1>1, <1>4, <2>2
    <3>2. ResultSound(p, l)
      BY <1>1, <3>1 DEF Inv, FinalInv
    <3>3. result'[p] = result[p]
      BY <1>1, <2>2, PlanFields DEF PredicateMask, TypeOK
    <3> QED BY <1>1, <3>2, <3>3, SameResultSound
  <2> QED BY <2>1, <2>2
<1>5. FinalInv'
  <2>1. \A p \in Pred, l \in Lane : Live(l)' => Done(p, l)'
    <3>1. \A p \in Pred, l \in Lane : Live(l) => Done(p, l)
      BY <1>1 DEF Inv, FinalInv
    <3> QED BY <1>1, <3>1, SameMask, SameLive
  <2>2. \A p \in Pred : (pc' = "final" => p < index') => p <= index
    BY <1>1, <1>3
  <2>3. pc' = "combine" => 1..(index' - 1) = {}
    BY <1>1, <1>3
  <2>4. \A l \in Lane : pc' = "combine" => FollowsTree(Outputs(l), index - 1)'
    BY <2>3 DEF FollowsTree
  <2> QED BY <1>1, <1>3, <1>4, <2>1, <2>2, <2>4, SameInput DEF FinalInv
<1>6. CoherentInv'
  <2>1. \A p \in Pred, l \in Lane : Coherent(p, l)
    BY <1>1 DEF Inv, CoherentInv
  <2> QED BY <1>1, <2>1, SameInput, SameMask DEF CoherentInv
<1>7. SettledInv'
  BY <1>1, <1>3, SameInput, SamePosition, SameLive DEF Inv, SettledInv
<1>8. TruthInv'
  BY <1>1, <1>3, SameInput, SamePosition DEF Inv, TruthInv
<1>9. WordInv' /\ StoredBitsCorrect'
  BY <1>1, <1>3, SameWord DEF Inv, PredicateMask
<1>10. ByteInv' /\ FirstInv' /\ AggregateInv' /\ RefineInv'
  BY <1>1, <1>3 DEF ByteInv, FirstInv, AggregateInv, RefineInv
<1> QED BY <1>2, <1>5, <1>6, <1>7, <1>8, <1>9, <1>10 DEF Inv

(* One call of the combination: the results follow the tree one node more. *)
LEMMA CombineStep ==
  ASSUME Inv, Combine
  PROVE  Inv'
<1>1. /\ TypeOK /\ pc = "combine" /\ byte = 2 /\ byte' = 2 /\ index \in Calls
      /\ index \in Nat \ {0} /\ UNCHANGED input /\ UNCHANGED position /\ UNCHANGED agg
      /\ plan' = plan /\ plan.n \in Nat \ {0} /\ Pred = 1..plan.n
      /\ Len(plan.prog) \in Nat \ {0}
  BY PlanFields DEF Inv, Combine, TypeOK, Rounds, Pred, Calls, ByteInv, input
<1>2. TypeOK'
  BY <1>1, TypeStep DEF Next
<1>3. \/ index < Len(plan.prog) /\ pc' = "combine" /\ index' = index + 1
      \/ index = Len(plan.prog) /\ pc' = "movemask" /\ index' = 1
  BY <1>1 DEF Combine, Advance, Calls
<1>4. (IF pc' = "combine" THEN index' - 1 ELSE Len(plan.prog)) = index
  BY <1>1, <1>3
<1> DEFINE call == plan.prog[index]
<1>5. /\ result'[plan.n + index] =
           computeConjunctivePredicates(call.op, result[call.a], result[call.b])
      /\ \A r \in Node : r # plan.n + index => result'[r] = result[r]
      /\ plan.n + index \in Node \ Pred
  BY <1>1, CallNodes DEF Combine, TypeOK
<1>6. ASSUME NEW l \in Lane
      PROVE  FollowsTree(Outputs(l)', index)
  <2> DEFINE t == Outputs(l)
             s == {r \in Node : l \in result'[r]}
  <2>1. FollowsTree(t, index - 1)
    BY <1>1 DEF Inv, FinalInv
  <2>2. s = Outputs(l)'
    BY <1>1, SameInput DEF Outputs
  <2>3. \A r \in Node : r # plan.n + index => (r \in s <=> r \in t)
    BY <1>5 DEF Outputs
  <2>4. ASSUME NEW i \in 1..index
        PROVE  plan.n + i \in s <=>
                 IF plan.prog[i].op = "kAnd" THEN plan.prog[i].a \in s /\ plan.prog[i].b \in s
                                             ELSE plan.prog[i].a \in s \/ plan.prog[i].b \in s
    <3>1. i \in Calls /\ i \in Nat
      BY <1>1 DEF Calls
    <3>2. /\ plan.prog[i].a \in Node /\ plan.prog[i].a < plan.n + i
          /\ plan.prog[i].b \in Node /\ plan.prog[i].b < plan.n + i
          /\ plan.n + i \in Node
      BY <1>1, <3>1, CallNodes
    <3>3. plan.prog[i].a # plan.n + index /\ plan.prog[i].b # plan.n + index
      BY <1>1, <3>1, <3>2 DEF Node
    <3>4. CASE i = index
      <4>1. /\ plan.prog[i].a \in s <=> l \in result[plan.prog[i].a]
            /\ plan.prog[i].b \in s <=> l \in result[plan.prog[i].b]
        BY <2>3, <3>2, <3>3 DEF Outputs
      <4>2. plan.n + i \in s <=> l \in computeConjunctivePredicates(
              plan.prog[i].op, result[plan.prog[i].a], result[plan.prog[i].b])
        BY <1>5, <3>2, <3>4
      <4> QED BY <4>1, <4>2 DEF computeConjunctivePredicates
    <3>5. CASE i # index
      <4>1. i \in 1..(index - 1) /\ plan.n + i # plan.n + index
        BY <1>1, <3>5
      <4>2. plan.n + i \in t <=>
              IF plan.prog[i].op = "kAnd" THEN plan.prog[i].a \in t /\ plan.prog[i].b \in t
                                          ELSE plan.prog[i].a \in t \/ plan.prog[i].b \in t
        BY <2>1, <4>1 DEF FollowsTree
      <4> HIDE DEF s, t
      <4> QED BY <2>3, <3>2, <3>3, <4>1, <4>2
    <3> QED BY <3>4, <3>5
  <2>5. FollowsTree(s, index)
    <3> HIDE DEF s
    <3> QED BY <2>4 DEF FollowsTree
  <2> QED BY <2>2, <2>5
<1>7. FinalInv'
  <2>1. ASSUME NEW p \in Pred, NEW l \in Lane
        PROVE  ResultSound(p, l)'
    <3>1. ResultSound(p, l)
      BY <1>1 DEF Inv, FinalInv
    <3>2. result'[p] = result[p]
      BY <1>1, <1>5, PlanFields
    <3> QED BY <1>1, <3>1, <3>2, SameResultSound
  <2>2. \A l \in Lane :
          FollowsTree(Outputs(l), IF pc = "combine" THEN index - 1 ELSE Len(plan.prog))'
    BY <1>1, <1>4, <1>6 DEF FollowsTree
  <2> QED BY <1>1, <1>3, <2>1, <2>2, SameInput DEF FinalInv
<1>8. SettledInv'
  BY <1>1, <1>3, SameInput, SamePosition, SameLive DEF Inv, SettledInv
<1>9. TruthInv'
  BY <1>1, <1>3, SameInput, SamePosition DEF Inv, TruthInv
<1>10. WordInv' /\ StoredBitsCorrect'
  BY <1>1, <1>3, SameWord DEF Inv, Combine
<1>11. ByteInv' /\ FirstInv' /\ AggregateInv' /\ RefineInv' /\ CoherentInv'
  BY <1>1, <1>3 DEF ByteInv, FirstInv, AggregateInv, RefineInv, CoherentInv
<1> QED BY <1>2, <1>7, <1>8, <1>9, <1>10, <1>11 DEF Inv

(* The truth of a tuple is an outcome its first bytes allow.               *)
LEMMA TruthIsOutcome ==
  ASSUME TypeOK, NEW x \in Tuple, NEW t \in SUBSET Node, IsTruth(t, Len(plan.prog), x)
  PROVE  Outcome(t, x)
  BY SettledHolds DEF IsTruth, Outcome

(* The tree has one truth: a tuple qualifies if its root is in it.         *)
LEMMA TruthDecides ==
  ASSUME TypeOK, Determines(Root), NEW x, NEW t \in SUBSET Node,
         IsTruth(t, Len(plan.prog), x)
  PROVE  Qualifies(x) <=> Root \in t
<1>1. Root \in Node /\ Root <= Root
  BY PlanFields
<1>2. ASSUME NEW u \in SUBSET Node, IsTruth(u, Len(plan.prog), x)
      PROVE  Root \in u <=> Root \in t
  BY <1>1, <1>2 DEF Determines, IsTruth
<1> QED BY <1>2 DEF Qualifies

(* The result of the root is right on every lane: on a live one because    *)
(* its predicates' results are, on another because no outcome differs.     *)
LEMMA RootResult ==
  ASSUME Inv, pc = "movemask", NEW l \in Lane
  PROVE  l \in result[Root] <=> Qualifies(Current(l))
<1> DEFINE O == Outputs(l)
           x == Current(l)
<1>1. /\ TypeOK /\ x \in Tuple /\ O \in SUBSET Node /\ FollowsTree(O, Len(plan.prog))
      /\ \A p \in Pred : ResultSound(p, l)
      /\ Live(l) \/ Settled(x)
      /\ Pred \subseteq Node /\ Root \in Node /\ Root <= Root
  BY CurrentTuple, PlanFields DEF Inv, FinalInv, SettledInv, Outputs
<1>2. Determines(Root) /\ \E t \in SUBSET Node : IsTruth(t, Len(plan.prog), x)
  BY DEF Inv, TruthInv, Root
<1>3. PICK t \in SUBSET Node : IsTruth(t, Len(plan.prog), x)
  BY <1>2
<1>4. Root \in O <=> l \in result[Root]
  BY <1>1 DEF Outputs
<1>5. \A p \in Pred : p \in O <=> l \in result[p]
  BY <1>1 DEF Outputs
<1> HIDE DEF O, x
<1>6. CASE Live(l)
  <2>1. \A p \in Pred : p \in O <=> p \in t
    BY <1>1, <1>3, <1>5, <1>6 DEF ResultSound, IsTruth, x
  <2>2. Root \in O <=> Root \in t
    BY <1>1, <1>2, <1>3, <2>1 DEF Determines, IsTruth
  <2> QED BY <1>1, <1>2, <1>3, <1>4, <2>2, TruthDecides DEF x
<1>7. CASE Settled(x)
  <2>1. Outcome(O, x)
    BY <1>1, <1>5 DEF ResultSound, Outcome, x
  <2>2. Outcome(t, x)
    BY <1>1, <1>3, TruthIsOutcome
  <2>3. Root \in O <=> Root \in t
    BY <1>1, <1>7, <2>1, <2>2 DEF Settled
  <2> QED BY <1>1, <1>2, <1>3, <1>4, <2>3, TruthDecides DEF x
<1> QED BY <1>1, <1>6, <1>7

(* A chunk's bits join those of the chunks before it.                      *)
LEMMA MoveMaskStep ==
  ASSUME Inv, MoveMask
  PROVE  Inv'
<1>1. /\ TypeOK /\ pc = "movemask" /\ byte = 2 /\ byte' = 2 /\ index = 1 /\ index' = 1
      /\ UNCHANGED input /\ bv_word_id' = bv_word_id /\ UNCHANGED bitmap
      /\ chunk \in 1..NumChunks
      /\ bitvector_word = {b \in Bit : b[1] < chunk /\ Qualifies(<<bv_word_id, b>>)}
  BY DEF Inv, MoveMask, TypeOK, Rounds, ByteInv, WordInv
<1>2. TypeOK'
  BY <1>1, TypeStep DEF Next
<1>3. \/ chunk < NumChunks /\ chunk' = chunk + 1 /\ pc' = "first"
      \/ chunk = NumChunks /\ chunk' = 1 /\ pc' = "store"
  BY <1>1, SizesAssumption DEF MoveMask
<1>4. bitvector_word' = {b \in Bit : b[1] <= chunk /\ Qualifies(<<bv_word_id, b>>)}
  <2>1. bitvector_word' = bitvector_word \cup ({chunk} \X result[Root])
    BY DEF MoveMask
  <2>2. result[Root] \in SUBSET Lane
    BY <1>1, PlanFields DEF TypeOK
  <2>3. \A l \in Lane : l \in result[Root] <=> Qualifies(<<bv_word_id, <<chunk, l>>>>)
    BY <1>1, RootResult DEF Current
  <2>4. \A b \in Bit : \E c \in 1..NumChunks, l \in Lane : b = <<c, l>> /\ b[1] = c
    BY DEF Bit
  <2>5. ASSUME NEW b \in Bit
        PROVE  b \in bitvector_word' <=> b[1] <= chunk /\ Qualifies(<<bv_word_id, b>>)
    <3>1. PICK c \in 1..NumChunks, l \in Lane : b = <<c, l>> /\ b[1] = c
      BY <2>4
    <3>2. b \in {chunk} \X result[Root] <=> c = chunk /\ l \in result[Root]
      BY <3>1
    <3>3. b \in bitvector_word <=> c < chunk /\ Qualifies(<<bv_word_id, b>>)
      BY <1>1, <3>1
    <3>4. c = chunk => (l \in result[Root] <=> Qualifies(<<bv_word_id, b>>))
      BY <2>3, <3>1
    <3>5. c <= chunk <=> c < chunk \/ c = chunk
      BY <1>1
    <3> QED BY <2>1, <3>1, <3>2, <3>3, <3>4, <3>5
  <2>6. bitvector_word' \subseteq Bit
    BY <1>1, <2>1, <2>2 DEF Bit
  <2> QED BY <2>5, <2>6
<1>5. WordInv'
  <2>1. Bit' = Bit /\ \A b \in Bit : b[1] \in 1..NumChunks
    BY DEF Bit
  <2>2. CASE pc' = "first"
    <3>1. \A b \in Bit : b[1] <= chunk <=> b[1] < chunk'
      BY <1>1, <1>3, <2>1, <2>2
    <3>2. bitvector_word' = {b \in Bit : b[1] < chunk' /\ Qualifies(<<bv_word_id, b>>)}
      BY <1>4, <3>1
    <3> QED BY <1>1, <2>1, <2>2, <3>2, SameInput DEF WordInv
  <2>3. CASE pc' = "store"
    <3>1. \A b \in Bit : b[1] <= chunk
      BY <1>3, <2>1, <2>3, SizesAssumption
    <3>2. bitvector_word' = {b \in Bit : Qualifies(<<bv_word_id, b>>)}
      BY <1>4, <3>1
    <3>3. chunk' = 1
      BY <1>3, <2>3
    <3> QED BY <1>1, <2>1, <2>3, <3>2, <3>3, SameInput DEF WordInv
  <2> QED BY <1>3, <2>2, <2>3
<1>6. StoredBitsCorrect'
  <2>1. Bit' = Bit
    BY DEF Bit
  <2> QED BY <1>1, <2>1, SameInput DEF Inv, StoredBitsCorrect
<1>7. FirstInv'
  BY <1>1, <1>3, SameInput DEF FirstInv, Pred
<1>8. /\ ByteInv' /\ AggregateInv' /\ TruthInv' /\ SettledInv' /\ CoherentInv'
      /\ RefineInv' /\ FinalInv'
  BY <1>1, <1>3 DEF ByteInv, AggregateInv, TruthInv, SettledInv, CoherentInv, RefineInv, FinalInv
<1> QED BY <1>2, <1>5, <1>6, <1>7, <1>8 DEF Inv

(* A word that is stored is right, and the next one starts empty.          *)
LEMMA StoreWordStep ==
  ASSUME Inv, StoreWord
  PROVE  Inv'
<1>1. /\ TypeOK /\ pc = "store" /\ byte = 2 /\ byte' = 2 /\ index = 1 /\ index' = 1
      /\ chunk = 1 /\ chunk' = 1 /\ UNCHANGED input
      /\ bv_word_id \in 1..NumWords /\ bv_word_id' = bv_word_id + 1
      /\ bitvector_word = {b \in Bit : Qualifies(<<bv_word_id, b>>)}
      /\ bitvector_word' = {} /\ pc' \in {"first", "done"}
      /\ bitmap' = [bitmap EXCEPT ![bv_word_id] = bitvector_word]
  BY DEF Inv, StoreWord, TypeOK, Rounds, ByteInv, WordInv
<1>2. TypeOK'
  BY <1>1, TypeStep DEF Next
<1>3. Bit' = Bit /\ \A b \in Bit : ~(b[1] < 1)
  BY DEF Bit
<1>4. StoredBitsCorrect'
  <2> SUFFICES ASSUME NEW w \in 1..bv_word_id
               PROVE  bitmap'[w] = {b \in Bit : Qualifies(<<w, b>>)}
    <3>1. (bv_word_id + 1) - 1 = bv_word_id
      BY <1>1
    <3> QED BY <1>1, <1>3, <3>1, SameInput DEF StoredBitsCorrect
  <2>0. w \in 1..NumWords
    BY <1>1, SizesAssumption
  <2>1. bitmap \in [1..NumWords -> SUBSET Bit] /\ w \in 1..NumWords
    BY <1>1, <2>0 DEF TypeOK
  <2>2. CASE w = bv_word_id
    BY <1>1, <2>1, <2>2
  <2>3. CASE w # bv_word_id
    <3>1. w \in 1..(bv_word_id - 1) /\ bitmap'[w] = bitmap[w]
      BY <1>1, <2>1, <2>3
    <3> QED BY <3>1 DEF Inv, StoredBitsCorrect
  <2> QED BY <2>2, <2>3
<1>5. WordInv'
  BY <1>1, <1>3 DEF WordInv
<1>6. FirstInv'
  BY <1>1, SameInput DEF FirstInv, Pred
<1>7. /\ ByteInv' /\ AggregateInv' /\ TruthInv' /\ SettledInv' /\ CoherentInv'
      /\ RefineInv' /\ FinalInv'
  BY <1>1 DEF ByteInv, AggregateInv, TruthInv, SettledInv, CoherentInv, RefineInv, FinalInv
<1> QED BY <1>2, <1>4, <1>5, <1>6, <1>7 DEF Inv

(* The invariant holds when the kernel is called.                          *)
LEMMA InvInit ==
  ASSUME Init
  PROVE  Inv
<1>1. TypeOK
  BY TypeInit
<1>2. /\ pc \in {"first", "done"} /\ index = 1 /\ byte = 2 /\ chunk = 1 /\ bv_word_id = 1
      /\ bitvector_word = {}
  BY DEF Init, Enter
<1>3. \A b \in Bit : ~(b[1] < 1)
  BY DEF Bit
<1>4. WordInv /\ StoredBitsCorrect
  BY <1>2, <1>3 DEF WordInv, StoredBitsCorrect
<1>5. /\ ByteInv /\ FirstInv /\ AggregateInv /\ TruthInv /\ SettledInv /\ CoherentInv
      /\ RefineInv /\ FinalInv
  BY <1>2 DEF ByteInv, FirstInv, AggregateInv, TruthInv, SettledInv, CoherentInv,
     RefineInv, FinalInv, Pred
<1> QED BY <1>1, <1>4, <1>5 DEF Inv

(* A step that changes nothing keeps it.                                   *)
LEMMA InvStutter ==
  ASSUME Inv, UNCHANGED vars
  PROVE  Inv'
<1>1. /\ UNCHANGED input /\ UNCHANGED position /\ UNCHANGED agg /\ UNCHANGED mask
      /\ UNCHANGED result /\ UNCHANGED <<pc, index, byte, bitvector_word, bitmap>>
      /\ plan' = plan /\ chunk' = chunk /\ bv_word_id' = bv_word_id
  BY DEF vars, input, position
<1>2. TypeOK'
  BY TypeStep DEF Inv
<1>3. \A p, b, l : Exact(p, b, l)' <=> Exact(p, b, l)
  BY <1>1, SameMask
<1>4. \A p, l : (Done(p, l)' <=> Done(p, l)) /\ (Coherent(p, l)' <=> Coherent(p, l))
  BY <1>1, SameMask
<1>5. FirstInv'
  BY <1>1, <1>3, SameInput DEF Inv, FirstInv
<1>6. AggregateInv'
  <2>1. \A r : Verdict(r)' = Verdict(r)
    BY <1>1, SameInput DEF Verdict
  <2>2. \A r, l : Sound(r, l)' <=> Sound(r, l)
    BY <1>1, <2>1, SameVerdict
  <2> QED BY <1>1, <2>2, SameInput DEF Inv, AggregateInv
<1>7. TruthInv' /\ SettledInv'
  BY <1>1, SameInput, SamePosition, SameLive DEF Inv, TruthInv, SettledInv
<1>8. CoherentInv'
  BY <1>1, <1>4, SameInput DEF Inv, CoherentInv
<1>9. RefineInv'
  <2>1. \A p : (Finished(p)' <=> Finished(p)) /\ Depth(p)' = Depth(p)
    BY <1>1 DEF Finished, Depth
  <2>2. \A p, l : Exact(p, Depth(p), l)' <=> Exact(p, Depth(p), l)
    BY <1>1, <2>1, SameInput, SamePosition DEF Exact
  <2> QED BY <1>1, <1>4, <2>1, <2>2, SameInput, SameLive DEF Inv, RefineInv
<1>10. FinalInv'
  <2>1. \A p, l : ResultSound(p, l)' <=> ResultSound(p, l)
    BY <1>1, SameResultSound
  <2>2. \A l : Outputs(l)' = Outputs(l)
    BY <1>1, SameInput DEF Outputs
  <2>3. \A l : FollowsTree(Outputs(l), IF pc = "combine" THEN index - 1 ELSE Len(plan.prog))'
               <=> FollowsTree(Outputs(l), IF pc = "combine" THEN index - 1 ELSE Len(plan.prog))
    BY <1>1, <2>2 DEF FollowsTree
  <2> QED BY <1>1, <1>4, <2>1, <2>3, SameInput, SameLive DEF Inv, FinalInv
<1>11. ByteInv' /\ WordInv' /\ StoredBitsCorrect'
  <2>1. Bit' = Bit
    BY DEF Bit
  <2> QED BY <1>1, <2>1, SameInput DEF Inv, ByteInv, WordInv, StoredBitsCorrect
<1> QED BY <1>2, <1>5, <1>6, <1>7, <1>8, <1>9, <1>10, <1>11 DEF Inv

(* Every step keeps the invariant.                                         *)
LEMMA InvStep ==
  ASSUME Inv, [Next]_vars
  PROVE  Inv'
<1>1. CASE FirstByte
  BY <1>1, FirstByteStep
<1>2. CASE Aggregate
  BY <1>2, AggregateStep
<1>3. CASE SkipRefinement
  BY <1>3, AggregateIsReady, SkipRefinementStep DEF SkipRefinement
<1>4. CASE EnterRefinement
  BY <1>4, AggregateIsReady, EnterRefinementStep DEF EnterRefinement
<1>5. CASE RefineByte
  BY <1>5, RefineByteStep
<1>6. CASE NextGroup
  BY <1>6, NextGroupStep
<1>7. CASE PredicateMask
  BY <1>7, PredicateMaskStep
<1>8. CASE Combine
  BY <1>8, CombineStep
<1>9. CASE MoveMask
  BY <1>9, MoveMaskStep
<1>10. CASE StoreWord
  BY <1>10, StoreWordStep
<1>11. CASE UNCHANGED vars
  BY <1>11, InvStutter
<1> QED BY <1>1, <1>2, <1>3, <1>4, <1>5, <1>6, <1>7, <1>8, <1>9, <1>10, <1>11 DEF Next

----------------------------------------------------------------------------
(* The invariant holds throughout every scan.                              *)
THEOREM InvCorrect == Spec => []Inv
<1>1. Init => Inv
  BY InvInit
<1>2. Inv /\ [Next]_vars => Inv'
  BY InvStep
<1> QED BY <1>1, <1>2, PTL DEF Spec

(* Every word a kernel has stored has a one exactly at the tuples whose    *)
(* whole codes satisfy the predicate tree: neither early stop ever changes *)
(* a bit, whatever the predicates, their comparators and the tree.         *)
THEOREM ScanCorrect == Spec => []StoredBitsCorrect
<1>1. Inv => StoredBitsCorrect
  BY DEF Inv
<1> QED BY <1>1, InvCorrect, PTL

(* What the aggregate of the first byte slices decides of a tuple is so,   *)
(* and it drops no tuple that it has not decided.                          *)
THEOREM EarlyStopCorrect == Spec => []EarlyStopSound
<1>1. ASSUME Inv PROVE EarlyStopSound
  <2> SUFFICES ASSUME pc = "prune", NEW l \in Lane
               PROVE  /\ l \in agg[Root].success => Qualifies(Current(l))
                      /\ l \in agg[Root].fail => ~Qualifies(Current(l))
                      /\ l \notin agg_equal => l \in agg[Root].success \cup agg[Root].fail
    BY DEF EarlyStopSound
  <2>1. /\ TypeOK /\ Current(l) \in Tuple /\ Root \in Node \ Pred
        /\ Verdict(Root) = agg[Root]
    BY <1>1, CurrentTuple, PlanFields DEF Inv, Verdict
  <2>2. Sound(Root, l)
    BY <1>1, <2>1 DEF Inv, AggregateInv
  <2>3. Determines(Root) /\ \E t \in SUBSET Node : IsTruth(t, Len(plan.prog), Current(l))
    BY <1>1 DEF Inv, TruthInv, Root
  <2>4. PICK t \in SUBSET Node : IsTruth(t, Len(plan.prog), Current(l))
    BY <2>3
  <2>5. Outcome(t, Current(l)) /\ (Qualifies(Current(l)) <=> Root \in t)
    BY <2>1, <2>3, <2>4, TruthIsOutcome, TruthDecides
  <2> QED BY <2>1, <2>2, <2>5 DEF Sound, agg_equal
<1> QED BY <1>1, InvCorrect, PTL

----------------------------------------------------------------------------
(***************************************************************************)
(* The kernel implements the scan that stores each word at once.           *)
(***************************************************************************)

(* A kernel that is called is a selection that has stored nothing.         *)
LEMMA SelectionInit ==
  ASSUME Init
  PROVE  Abstract!Init
<1>1. TypeOK /\ bv_word_id = 1
  BY TypeInit DEF Init, Enter
<1>2. bitmap \in [1..NumWords -> SUBSET Bit]
  BY <1>1 DEF TypeOK
<1>3. bv_word_id - 1 = 0
  BY <1>1
<1>4. {x \in Tuple : Qualifies(x)} \in SUBSET ((1..NumWords) \X Bit)
  BY DEF Tuple
<1> QED BY <1>2, <1>3, <1>4 DEF Abstract!Init

(* Storing a word of bits is the selection's step; the rest is stuttering. *)
LEMMA SelectionStep ==
  ASSUME Inv, [Next]_vars
  PROVE  [Abstract!Next]_(Abstract!vars)
<1> DEFINE Q == {x \in Tuple : Qualifies(x)}
<1>1. ASSUME UNCHANGED input
      PROVE  Q' = Q
  <2>1. Tuple' = Tuple
    BY DEF Tuple, Bit
  <2> QED BY <1>1, <2>1, SameInput
<1>2. CASE StoreWord
  <2>1. /\ bv_word_id \in 1..NumWords /\ bv_word_id' = bv_word_id + 1
        /\ bitmap' = [bitmap EXCEPT ![bv_word_id] = bitvector_word]
        /\ bitvector_word = {b \in Bit : Qualifies(<<bv_word_id, b>>)}
        /\ UNCHANGED input
    BY <1>2 DEF StoreWord, Inv, TypeOK, WordInv
  <2>2. /\ bv_word_id - 1 < NumWords /\ (bv_word_id - 1) + 1 = bv_word_id
        /\ (bv_word_id + 1) - 1 = (bv_word_id - 1) + 1
    BY <2>1, SizesAssumption
  <2>3. {b \in Bit : <<bv_word_id, b>> \in Q} = {b \in Bit : Qualifies(<<bv_word_id, b>>)}
    BY <2>1 DEF Tuple
  <2>4. Q' = Q
    BY <1>1, <2>1
  <2> HIDE DEF Q
  <2> QED BY <2>1, <2>2, <2>3, <2>4 DEF Abstract!Next, Abstract!StoreWord, Q
<1>3. CASE UNCHANGED <<input, bv_word_id, bitmap>>
  <2>1. Q' = Q
    BY <1>1, <1>3
  <2> HIDE DEF Q
  <2> QED BY <1>3, <2>1 DEF Abstract!vars, Q
<1>4. [Next]_vars /\ ~StoreWord /\ ~MoveMask => UNCHANGED <<input, bv_word_id, bitmap>>
  BY DEF Next, vars, position, FirstByte, Aggregate, SkipRefinement, EnterRefinement,
     RefineByte, NextGroup, PredicateMask, Combine
<1>5. MoveMask => UNCHANGED <<input, bv_word_id, bitmap>>
  BY DEF MoveMask
<1> QED BY <1>2, <1>3, <1>4, <1>5

(* Every kernel is a scan that stores, word after word, the qualifying     *)
(* tuples of the word.                                                     *)
THEOREM ScanImplementsSelection == Spec => ImplementsSelection
<1>1. Init => Abstract!Init
  BY SelectionInit
<1>2. Inv /\ [Next]_vars => [Abstract!Next]_(Abstract!vars)
  BY SelectionStep
<1> QED BY <1>1, <1>2, InvCorrect, PTL DEF Spec, ImplementsSelection, Abstract!Spec

----------------------------------------------------------------------------
(***************************************************************************)
(* Early stop saves its work: the aggregate of the first byte slices       *)
(* leaves a tuple open only if they do, and a pruning kernel compares a    *)
(* later byte slice only where an open tuple agrees on the bytes before it. *)
(***************************************************************************)

(* What the first bytes leave open depends on the inputs only.             *)
LEMMA SameBounds ==
  ASSUME UNCHANGED input
  PROVE  /\ \A t, x : Lowest(t, x)' <=> Lowest(t, x)
         /\ \A t, x : Highest(t, x)' <=> Highest(t, x)
         /\ \A x : Open(x)' <=> Open(x)
<1>1. plan' = plan
  BY DEF input
<1>2. \A t, x : Lowest(t, x)' <=> Lowest(t, x)
  BY SameInput DEF Lowest
<1>3. \A t, x : Highest(t, x)' <=> Highest(t, x)
  BY SameInput DEF Highest
<1>4. \A t, x : AgreesOnFirstBytes(t, x)' <=> AgreesOnFirstBytes(t, x)
  BY SameInput DEF AgreesOnFirstBytes
<1>5. \A v, x : CanBe(v, x)' <=> CanBe(v, x)
  BY <1>1, <1>4, SameInput DEF CanBe
<1> QED BY <1>2, <1>3, <1>5 DEF Open

(* After the first byte the verdict of a predicate is its value, unless    *)
(* that byte agrees.                                                       *)
LEMMA LeafBracketed ==
  ASSUME TypeOK, NEW p \in Pred, NEW l \in Lane, Exact(p, 1, l), Current(l) \in Tuple,
         mask[p].success = Succeeds(plan.cmp[p], mask[p]),
         mask[p].fail = Fails(plan.cmp[p], mask[p]),
         NEW low, NEW high, Lowest(low, Current(l)), Highest(high, Current(l))
  PROVE  Bracketed(p, l, low, high)
<1> DEFINE x == Current(l)
<1>1. plan.cmp[p] \in Comparator /\ mask[p] \in Masks
  BY PlanFields DEF TypeOK
<1>2. /\ Verdict(p).equal = mask[p].equal
      /\ Verdict(p).success = Succeeds(plan.cmp[p], mask[p])
      /\ Verdict(p).fail = Fails(plan.cmp[p], mask[p])
  BY DEF Verdict
<1>3. /\ l \in Verdict(p).success <=> DecidedTrue(p, x)
      /\ l \in Verdict(p).fail <=> DecidedFalse(p, x)
  BY <1>1, <1>2 DEF Exact, Succeeds, Fails, DecidedTrue, DecidedFalse, avx_not,
     Masks, Comparator, Ordering
<1>4. l \in Verdict(p).equal <=> PrefixEqual(p, 1, x)
  BY <1>2 DEF Exact
<1>5. /\ DecidedTrue(p, x) \/ DecidedFalse(p, x) <=> ~PrefixEqual(p, 1, x)
      /\ DecidedTrue(p, x) => Holds(p, x)
      /\ DecidedFalse(p, x) => ~Holds(p, x)
  <2>1. DecidedTrue(p, x) \/ DecidedFalse(p, x) <=> ~PrefixEqual(p, 1, x)
    BY <1>1, FirstByteExclusive DEF DecidedTrue, DecidedFalse, Comparator, Ordering
  <2> QED BY <2>1, SettledHolds DEF SettledTrue, SettledFalse
<1>6. /\ p \in low <=> ~PrefixEqual(p, 1, x) /\ Holds(p, x)
      /\ p \in high <=> PrefixEqual(p, 1, x) \/ Holds(p, x)
  BY DEF Lowest, Highest
<1> HIDE DEF x
<1> QED BY <1>3, <1>4, <1>5, <1>6 DEF Bracketed

(* The verdict of a node that joins two verdicts is the two valuations'    *)
(* value of the node.                                                      *)
LEMMA JoinBracketed ==
  ASSUME TypeOK, NEW l \in Lane, NEW j \in Calls, NEW low, NEW high,
         Bracketed(plan.prog[j].a, l, low, high), Bracketed(plan.prog[j].b, l, low, high),
         FollowsTree(low, j), FollowsTree(high, j),
         NEW v, v = computeForEarlyStop(plan.prog[j].op, Verdict(plan.prog[j].a),
                                        Verdict(plan.prog[j].b))
  PROVE  /\ plan.n + j \in low => plan.n + j \in high
         /\ l \in v.success <=> plan.n + j \in low
         /\ l \in v.fail <=> plan.n + j \notin high
         /\ l \in v.equal <=> plan.n + j \notin low /\ plan.n + j \in high
<1> DEFINE a == plan.prog[j].a
           b == plan.prog[j].b
           op == plan.prog[j].op
           r == plan.n + j
<1>1. op \in Bitwise /\ a \in Node /\ b \in Node /\ j \in 1..j
  BY CallNodes, PlanFields DEF Calls
<1>2. Verdict(a) \in Verdicts /\ Verdict(b) \in Verdicts
  BY <1>1, VerdictType
<1>3. /\ op = "kAnd" =>
           /\ l \in v.equal <=> \/ l \notin Verdict(a).fail /\ l \in Verdict(b).equal
                                \/ l \notin Verdict(b).fail /\ l \in Verdict(a).equal
           /\ l \in v.success <=> l \in Verdict(a).success /\ l \in Verdict(b).success
           /\ l \in v.fail <=> l \in Verdict(a).fail \/ l \in Verdict(b).fail
      /\ op = "kOr" =>
           /\ l \in v.equal <=> \/ l \notin Verdict(a).success /\ l \in Verdict(b).equal
                                \/ l \notin Verdict(b).success /\ l \in Verdict(a).equal
           /\ l \in v.success <=> l \in Verdict(a).success \/ l \in Verdict(b).success
           /\ l \in v.fail <=> l \in Verdict(a).fail /\ l \in Verdict(b).fail
  BY <1>1, <1>2 DEF computeForEarlyStop, avx_andnot, avx_not, Bitwise, Verdicts
<1>4. /\ r \in low <=> IF op = "kAnd" THEN a \in low /\ b \in low ELSE a \in low \/ b \in low
      /\ r \in high <=> IF op = "kAnd" THEN a \in high /\ b \in high ELSE a \in high \/ b \in high
  BY <1>1 DEF FollowsTree
<1>5. /\ a \in low => a \in high
      /\ l \in Verdict(a).success <=> a \in low
      /\ l \in Verdict(a).fail <=> a \notin high
      /\ l \in Verdict(a).equal <=> a \notin low /\ a \in high
      /\ b \in low => b \in high
      /\ l \in Verdict(b).success <=> b \in low
      /\ l \in Verdict(b).fail <=> b \notin high
      /\ l \in Verdict(b).equal <=> b \notin low /\ b \in high
  BY DEF Bracketed
<1>6. op = "kAnd" \/ op = "kOr"
  BY <1>1 DEF Bitwise
<1> HIDE DEF a, b, op, r
<1>7. /\ r \in low => r \in high
      /\ l \in v.success <=> r \in low
      /\ l \in v.fail <=> r \notin high
      /\ l \in v.equal <=> r \notin low /\ r \in high
  BY <1>3, <1>4, <1>5, <1>6
<1> QED BY <1>7 DEF r

(* A valuation of the nodes before call j extends to the node of call j.   *)
LEMMA ValuationExtends ==
  ASSUME TypeOK, NEW j \in Calls, NEW t \in SUBSET Node, FollowsTree(t, j - 1)
  PROVE  \E s \in SUBSET Node :
           FollowsTree(s, j) /\ \A r : r # plan.n + j => (r \in s <=> r \in t)
<1> DEFINE a == plan.prog[j].a
           b == plan.prog[j].b
           value == IF plan.prog[j].op = "kAnd" THEN a \in t /\ b \in t ELSE a \in t \/ b \in t
           s == (t \ {plan.n + j}) \cup {r \in {plan.n + j} : value}
<1>1. j \in Nat \ {0} /\ plan.n \in Nat \ {0} /\ j <= Len(plan.prog) /\ Len(plan.prog) \in Nat
  BY PlanFields DEF Calls
<1>2. plan.n + j \in Node \ Pred /\ a \in Nat /\ b \in Nat /\ a < plan.n + j /\ b < plan.n + j
  BY CallNodes, <1>1 DEF Node
<1>3. s \in SUBSET Node
  BY <1>2
<1>4. /\ plan.n + j \in s <=> value
      /\ \A r : r # plan.n + j => (r \in s <=> r \in t)
  OBVIOUS
<1> HIDE DEF s
<1>5. a # plan.n + j /\ b # plan.n + j
  BY <1>1, <1>2
<1>6. ASSUME NEW i \in 1..j
      PROVE  plan.n + i \in s <=>
               IF plan.prog[i].op = "kAnd" THEN plan.prog[i].a \in s /\ plan.prog[i].b \in s
                                           ELSE plan.prog[i].a \in s \/ plan.prog[i].b \in s
  <2>1. CASE i = j
    BY <2>1, <1>4, <1>5
  <2>2. CASE i # j
    <3>1. i \in 1..(j - 1) /\ i \in Calls /\ plan.n + i # plan.n + j
      BY <1>1, <2>2 DEF Calls
    <3>2. plan.prog[i].a < plan.n + i /\ plan.prog[i].b < plan.n + i
          /\ plan.prog[i].a \in Nat /\ plan.prog[i].b \in Nat
      BY <3>1, CallNodes DEF Node
    <3>3. plan.prog[i].a # plan.n + j /\ plan.prog[i].b # plan.n + j
      BY <1>1, <3>1, <3>2
    <3>4. plan.n + i \in t <=>
            IF plan.prog[i].op = "kAnd" THEN plan.prog[i].a \in t /\ plan.prog[i].b \in t
                                        ELSE plan.prog[i].a \in t \/ plan.prog[i].b \in t
      BY <3>1 DEF FollowsTree
    <3> QED BY <3>1, <3>3, <3>4, <1>4
  <2> QED BY <2>1, <2>2
<1> QED BY <1>3, <1>4, <1>6 DEF FollowsTree

----------------------------------------------------------------------------
(***************************************************************************)
(* The steps.                                                              *)
(***************************************************************************)

(* What the stages after the aggregate need, and the others do not.        *)
LEMMA NoOpenLanes ==
  ASSUME pc' \notin {"aggregate", "prune", "refine"}
  PROVE  OpenLanesInv'
  BY DEF OpenLanesInv, BoundsInv, OpenInv, NarrowedInv

(* Before the first call of the aggregate there is no verdict to bound.    *)
LEMMA FirstByteBounds ==
  ASSUME Inv, FirstByte
  PROVE  OpenLanesInv'
<1>1. /\ TypeOK /\ pc = "first" /\ UNCHANGED input /\ UNCHANGED position
      /\ index \in Pred /\ index \in Nat /\ plan.n \in Nat /\ Pred = 1..plan.n /\ Pred \subseteq Node
  BY PlanFields DEF Inv, FirstByte, TypeOK, Rounds, Pred
<1>2. \/ pc' = "first"
      \/ pc' = "aggregate" /\ index' = 1
  BY <1>1 DEF FirstByte, Advance
<1> SUFFICES ASSUME pc' = "aggregate", index' = 1
             PROVE  BoundsInv'
  BY <1>2, NoOpenLanes DEF OpenLanesInv, OpenInv, NarrowedInv
<1>3. (IF pc' = "aggregate" THEN index' - 1 ELSE Len(plan'.prog)) = 0 /\ \A i : i \notin 1..0
  OBVIOUS
<1>4. ASSUME NEW l \in Lane
      PROVE  \E low \in SUBSET Node :
               /\ Lowest(low, Current(l)) /\ FollowsTree(low, 0)
               /\ \E high \in SUBSET Node : Highest(high, Current(l)) /\ FollowsTree(high, 0)
  <2> DEFINE x == Current(l)
             low == {p \in Pred : ~PrefixEqual(p, 1, x) /\ Holds(p, x)}
             high == {p \in Pred : PrefixEqual(p, 1, x) \/ Holds(p, x)}
  <2>1. low \in SUBSET Node /\ Lowest(low, x) /\ FollowsTree(low, 0)
    BY <1>1 DEF Lowest, FollowsTree
  <2>2. high \in SUBSET Node /\ Highest(high, x) /\ FollowsTree(high, 0)
    BY <1>1 DEF Highest, FollowsTree
  <2> HIDE DEF low, high, x
  <2> QED BY <2>1, <2>2 DEF x
<1> QED BY <1>1, <1>3, <1>4, SameInput, SamePosition, SameBounds DEF BoundsInv

(* One call of the aggregate bounds one node more.                         *)
LEMMA AggregateBounds ==
  ASSUME Inv, OpenLanesInv, Aggregate
  PROVE  OpenLanesInv'
<1>1. /\ TypeOK /\ pc = "aggregate" /\ UNCHANGED input /\ UNCHANGED position
      /\ index \in Calls /\ index \in Nat \ {0} /\ plan.n \in Nat \ {0} /\ Pred = 1..plan.n
      /\ Len(plan.prog) \in Nat \ {0} /\ plan' = plan /\ mask' = mask
  BY PlanFields DEF Inv, Aggregate, TypeOK, Rounds, Pred, Calls, input
<1>2. \/ index < Len(plan.prog) /\ pc' = "aggregate" /\ index' = index + 1
      \/ index = Len(plan.prog) /\ pc' = "prune" /\ index' = 1
  BY <1>1 DEF Aggregate, Advance, Calls
<1> DEFINE a == plan.prog[index].a
           b == plan.prog[index].b
           v == computeForEarlyStop(plan.prog[index].op, Verdict(a), Verdict(b))
<1>3. /\ a \in Node /\ a < plan.n + index /\ b \in Node /\ b < plan.n + index
      /\ plan.n + index \in Node \ Pred
  BY <1>1, CallNodes
<1>4. /\ agg'[plan.n + index] = v
      /\ \A r \in Node \ Pred : r # plan.n + index => agg'[r] = agg[r]
  BY <1>1, <1>3 DEF Aggregate, TypeOK
<1>5. \A r : r = plan.n + index => Verdict(r)' = v
  <2> HIDE DEF v
  <2> QED BY <1>1, <1>3, <1>4, SameInput DEF Verdict
<1>6. ASSUME NEW l \in Lane
      PROVE  \E low \in SUBSET Node :
               /\ Lowest(low, Current(l)) /\ FollowsTree(low, index)
               /\ \E high \in SUBSET Node :
                    /\ Highest(high, Current(l)) /\ FollowsTree(high, index)
                    /\ \A i \in 1..index : \A r :
                         r = plan.n + i => Bracketed(r, l, low, high)'
  <2>1. PICK low0 \in SUBSET Node :
          /\ Lowest(low0, Current(l)) /\ FollowsTree(low0, index - 1)
          /\ \E high \in SUBSET Node :
               /\ Highest(high, Current(l)) /\ FollowsTree(high, index - 1)
               /\ \A i \in 1..(index - 1) : Bracketed(plan.n + i, l, low0, high)
    BY <1>1 DEF OpenLanesInv, BoundsInv
  <2>2. PICK high0 \in SUBSET Node :
          /\ Highest(high0, Current(l)) /\ FollowsTree(high0, index - 1)
          /\ \A i \in 1..(index - 1) : Bracketed(plan.n + i, l, low0, high0)
    BY <2>1
  <2>3. PICK low \in SUBSET Node :
          FollowsTree(low, index) /\ \A r : r # plan.n + index => (r \in low <=> r \in low0)
    BY <1>1, <2>1, ValuationExtends
  <2>4. PICK high \in SUBSET Node :
          FollowsTree(high, index) /\ \A r : r # plan.n + index => (r \in high <=> r \in high0)
    BY <1>1, <2>2, ValuationExtends
  <2>5. Lowest(low, Current(l)) /\ Highest(high, Current(l))
    BY <1>3, <2>1, <2>2, <2>3, <2>4 DEF Lowest, Highest
  <2>6. ASSUME NEW r \in Node, r < plan.n + index
        PROVE  Bracketed(r, l, low, high)
    <3>1. CASE r \in Pred
      <4>1. Exact(r, 1, l) /\ Current(l) \in Tuple
        BY <1>1, <3>1, CurrentTuple DEF Inv, FirstInv
      <4>2. /\ mask[r].success = Succeeds(plan.cmp[r], mask[r])
            /\ mask[r].fail = Fails(plan.cmp[r], mask[r])
        BY <1>1, <3>1 DEF Inv, FirstInv
      <4> QED BY <1>1, <2>5, <3>1, <4>1, <4>2, LeafBracketed
    <3>2. CASE r \notin Pred
      <4>1. r \in Nat /\ r > plan.n
        BY <1>1, <3>2 DEF Node
      <4>2. r - plan.n \in 1..(index - 1) /\ r = plan.n + (r - plan.n)
        BY <1>1, <2>6, <4>1
      <4>3. Bracketed(plan.n + (r - plan.n), l, low0, high0)
        BY <2>2, <4>2
      <4>4. Bracketed(r, l, low0, high0)
        BY <4>2, <4>3
      <4>5. r # plan.n + index
        BY <1>1, <2>6, <4>1
      <4> QED BY <2>3, <2>4, <4>4, <4>5 DEF Bracketed
    <3> QED BY <3>1, <3>2
  <2>7. ASSUME NEW i \in 1..index, NEW r, r = plan.n + i
        PROVE  Bracketed(r, l, low, high)'
    <3>1. CASE i = index
      <4>1. Bracketed(a, l, low, high) /\ Bracketed(b, l, low, high)
        BY <1>3, <2>6
      <4>2. /\ plan.n + index \in low => plan.n + index \in high
            /\ l \in v.success <=> plan.n + index \in low
            /\ l \in v.fail <=> plan.n + index \notin high
            /\ l \in v.equal <=> plan.n + index \notin low /\ plan.n + index \in high
        BY <1>1, <2>3, <2>4, <4>1, JoinBracketed
      <4>3. Verdict(r)' = v
        BY <1>1, <1>5, <2>7, <3>1
      <4> HIDE DEF v
      <4> QED BY <1>1, <2>7, <3>1, <4>2, <4>3 DEF Bracketed
    <3>2. CASE i # index
      <4>1. r < plan.n + index /\ r > plan.n /\ r \in Nat
        BY <1>1, <2>7, <3>2
      <4>2. r \in Node \ Pred /\ r # plan.n + index
        BY <1>1, <4>1 DEF Node, Root, Calls
      <4>3. Bracketed(r, l, low, high)
        BY <2>6, <4>1, <4>2
      <4>4. Verdict(r)' = Verdict(r)
        BY <1>1, <1>4, <4>2, SameInput DEF Verdict
      <4> QED BY <1>1, <4>3, <4>4 DEF Bracketed
    <3> QED BY <3>1, <3>2
  <2> QED BY <2>3, <2>4, <2>5, <2>7
<1>7. BoundsInv'
  <2>1. (IF pc' = "aggregate" THEN index' - 1 ELSE Len(plan'.prog)) = index
    BY <1>1, <1>2
  <2>2. \A l \in Lane :
          \E low \in SUBSET Node :
            /\ Lowest(low, Current(l)) /\ FollowsTree(low, index)
            /\ \E high \in SUBSET Node :
                 /\ Highest(high, Current(l)) /\ FollowsTree(high, index)
                 /\ \A i \in 1..index : Bracketed(plan.n + i, l, low, high)'
    BY <1>1, <1>6
  <2> QED BY <1>1, <2>1, <2>2, SameInput, SamePosition, SameBounds DEF BoundsInv
<1> QED BY <1>2, <1>7 DEF OpenLanesInv, OpenInv, NarrowedInv

(* A lane the aggregate still holds equal is open: of the two valuations   *)
(* one has the root and the other has not.                                 *)
LEMMA EqualLanesAreOpen ==
  ASSUME Inv, OpenLanesInv, pc = "prune", NEW l \in agg_equal
  PROVE  Open(Current(l))
<1> DEFINE x == Current(l)
<1>1. /\ TypeOK /\ Root \in Node \ Pred /\ Len(plan.prog) \in Nat \ {0}
      /\ Root = plan.n + Len(plan.prog) /\ Len(plan.prog) \in 1..Len(plan.prog)
  BY PlanFields DEF Inv, Root
<1>2. l \in Lane /\ l \in Verdict(Root).equal
  <2>1. agg[Root] \in Verdicts
    BY <1>1 DEF TypeOK
  <2> QED BY <1>1, <2>1 DEF agg_equal, Verdict, Verdicts
<1>3. PICK low \in SUBSET Node :
        /\ Lowest(low, x) /\ FollowsTree(low, Len(plan.prog))
        /\ \E high \in SUBSET Node :
             /\ Highest(high, x) /\ FollowsTree(high, Len(plan.prog))
             /\ \A i \in 1..Len(plan.prog) : Bracketed(plan.n + i, l, low, high)
  BY <1>2 DEF OpenLanesInv, BoundsInv
<1>4. PICK high \in SUBSET Node :
        /\ Highest(high, x) /\ FollowsTree(high, Len(plan.prog))
        /\ \A i \in 1..Len(plan.prog) : Bracketed(plan.n + i, l, low, high)
  BY <1>3
<1>5. Root \notin low /\ Root \in high
  BY <1>1, <1>2, <1>4 DEF Bracketed
<1>6. AgreesOnFirstBytes(low, x) /\ AgreesOnFirstBytes(high, x)
  BY <1>3, <1>4 DEF Lowest, Highest, AgreesOnFirstBytes
<1>7. (Root \in low) = FALSE /\ (Root \in high) = TRUE
  BY <1>5
<1>8. CanBe(FALSE, x)
  BY <1>3, <1>6, <1>7 DEF CanBe
<1>9. CanBe(TRUE, x)
  BY <1>4, <1>6, <1>7 DEF CanBe
<1> QED BY <1>8, <1>9 DEF Open

(* The refinement starts with the lanes the aggregate holds equal.         *)
LEMMA EnterRefinementOpens ==
  ASSUME Inv, OpenLanesInv, EnterRefinement
  PROVE  OpenLanesInv'
<1>1. /\ TypeOK /\ pc = "prune" /\ pc' = "refine" /\ UNCHANGED input /\ UNCHANGED position
      /\ UNCHANGED agg /\ plan' = plan
  BY DEF Inv, EnterRefinement, input
<1>2. BoundsInv'
  BY <1>1 DEF BoundsInv
<1>3. OpenInv'
  <2>1. \A l \in agg_equal : Open(Current(l))
    BY <1>1, EqualLanesAreOpen
  <2> QED BY <1>1, <2>1, SameLive, SamePosition, SameBounds DEF OpenInv
<1>4. NarrowedInv'
  <2>1. ASSUME plan.prunes, plan.zeroed = Pred, NEW p \in Pred
        PROVE  mask'[p].equal \subseteq agg_equal
    <3>1. mask[p] \in Masks
      BY <1>1 DEF TypeOK
    <3>2. mask'[p] = [mask[p] EXCEPT !.equal = @ \cap agg_equal]
      BY <2>1 DEF EnterRefinement
    <3> QED BY <3>1, <3>2 DEF Masks
  <2> QED BY <1>1, <2>1, SameLive, SameInput DEF NarrowedInv
<1> QED BY <1>2, <1>3, <1>4 DEF OpenLanesInv

(* A later byte slice leaves no lane equal that was not.                   *)
LEMMA RefineByteNarrows ==
  ASSUME Inv, OpenLanesInv, RefineByte
  PROVE  OpenLanesInv'
<1>1. /\ TypeOK /\ pc = "refine" /\ pc' = "refine" /\ UNCHANGED input /\ UNCHANGED position
      /\ UNCHANGED agg /\ plan' = plan
  BY DEF Inv, RefineByte, input
<1>2. BoundsInv'
  BY <1>1 DEF BoundsInv
<1>3. OpenInv'
  BY <1>1, SameLive, SamePosition, SameBounds DEF OpenLanesInv, OpenInv
<1>4. ASSUME NEW p \in Pred
      PROVE  mask'[p].equal \subseteq mask[p].equal
  <2>1. mask'[p] = IF p \in plan.groups[index] THEN Refined(p) ELSE mask[p]
    BY <1>4 DEF RefineByte
  <2>2. CASE p \in plan.groups[index]
    <3>1. /\ ~plan.judges => plan.refineCmp[p] = plan.cmp[p]
          /\ plan.refineCmp[p] \in Ordering <=> plan.cmp[p] \in Ordering
      BY <1>1, GroupFacts
    <3>2. Narrows(plan.cmp[p], Load(p, byte), LoadRight(p, byte), mask[p], Refined(p))
      BY <1>1, <3>1, RefinedNarrows
    <3> QED BY <2>1, <2>2, <3>2 DEF Narrows
  <2> QED BY <2>1, <2>2
<1>5. NarrowedInv'
  BY <1>1, <1>4, SameLive, SameInput DEF OpenLanesInv, NarrowedInv
<1> QED BY <1>2, <1>3, <1>5 DEF OpenLanesInv

(* The groups share their open lanes.                                      *)
LEMMA NextGroupNarrows ==
  ASSUME Inv, OpenLanesInv, NextGroup
  PROVE  OpenLanesInv'
<1>1. /\ pc = "refine" /\ pc' \in {"refine", "final"} /\ UNCHANGED input /\ UNCHANGED position
      /\ UNCHANGED agg /\ UNCHANGED mask /\ plan' = plan
  BY DEF NextGroup, Advance, input
<1> QED BY <1>1, SameLive, SameInput, SamePosition, SameBounds
        DEF OpenLanesInv, BoundsInv, OpenInv, NarrowedInv

(* A step that changes nothing.                                            *)
LEMMA StutterOpen ==
  ASSUME OpenLanesInv, UNCHANGED vars
  PROVE  OpenLanesInv'
<1>1. /\ UNCHANGED input /\ UNCHANGED position /\ UNCHANGED agg /\ UNCHANGED mask
      /\ UNCHANGED <<pc, index>> /\ plan' = plan
  BY DEF vars, input
<1>2. \A r : Verdict(r)' = Verdict(r)
  BY <1>1, SameInput DEF Verdict
<1>3. \A r, l, low, high : Bracketed(r, l, low, high)' <=> Bracketed(r, l, low, high)
  BY <1>2 DEF Bracketed
<1>4. BoundsInv'
  BY <1>1, <1>3, SameInput, SamePosition, SameBounds DEF OpenLanesInv, BoundsInv
<1>5. OpenInv' /\ NarrowedInv'
  BY <1>1, SameLive, SameInput, SamePosition, SameBounds DEF OpenLanesInv, OpenInv, NarrowedInv
<1> QED BY <1>4, <1>5 DEF OpenLanesInv

(* Every step keeps it.                                                    *)
LEMMA OpenStep ==
  ASSUME Inv, OpenLanesInv, [Next]_vars
  PROVE  OpenLanesInv'
<1>1. CASE FirstByte
  BY <1>1, FirstByteBounds
<1>2. CASE Aggregate
  BY <1>2, AggregateBounds
<1>3. CASE SkipRefinement
  BY <1>3, NoOpenLanes DEF SkipRefinement
<1>4. CASE EnterRefinement
  BY <1>4, EnterRefinementOpens
<1>5. CASE RefineByte
  BY <1>5, RefineByteNarrows
<1>6. CASE NextGroup
  BY <1>6, NextGroupNarrows
<1>7. CASE PredicateMask
  BY <1>7, NoOpenLanes DEF PredicateMask, Advance
<1>8. CASE Combine
  BY <1>8, NoOpenLanes DEF Combine, Advance
<1>9. CASE MoveMask
  BY <1>9, NoOpenLanes DEF MoveMask
<1>10. CASE StoreWord
  BY <1>10, NoOpenLanes DEF StoreWord
<1>11. CASE UNCHANGED vars
  BY <1>11, StutterOpen
<1> QED BY <1>1, <1>2, <1>3, <1>4, <1>5, <1>6, <1>7, <1>8, <1>9, <1>10, <1>11 DEF Next

----------------------------------------------------------------------------
(* The aggregate decides every tuple that the first bytes decide, and a    *)
(* refinement is about the others only.                                    *)
THEOREM OpenLanesCorrect == Spec => []OpenLanesInv
<1>1. Init => OpenLanesInv
  BY DEF Init, Enter, OpenLanesInv, BoundsInv, OpenInv, NarrowedInv
<1>2. Inv /\ OpenLanesInv /\ [Next]_vars => OpenLanesInv'
  BY OpenStep
<1> QED BY <1>1, <1>2, InvCorrect, PTL DEF Spec

(* Early stop saves its work: a pruning kernel that masks all its          *)
(* predicates loads a later byte slice only for an open tuple that agrees  *)
(* with the right operand on every byte before it.                         *)
THEOREM EarlyStopLoadsLess == Spec => LoadsOnlyWhatIsOpen
<1> DEFINE Needed == \E l \in Lane, p \in plan.groups[index] :
                       Open(Current(l)) /\ PrefixEqual(p, byte - 1, Current(l))
<1>1. ASSUME Inv, OpenLanesInv, RefineByte, plan.prunes, plan.zeroed = Pred
      PROVE  Needed
  <2>1. TypeOK /\ pc = "refine" /\ byte \in Nat \ {0, 1}
    BY <1>1 DEF Inv, TypeOK, RefineByte
  <2>2. PICK p \in plan.groups[index] : byte <= plan.bytes[p] /\ mask[p].equal # {}
    BY <1>1 DEF RefineByte, SliceWanted
  <2>3. /\ p \in Pred /\ plan.bytes[p] \in 1..LAST_BYTE
        /\ \A g \in 1..(index - 1) : p \notin plan.groups[g]
    BY <2>1, <2>2, GroupFacts
  <2>4. mask[p] \in Masks
    BY <2>1, <2>3 DEF TypeOK
  <2>5. PICK l \in Lane : l \in mask[p].equal
    BY <2>2, <2>4 DEF Masks
  <2>6. l \in agg_equal
    BY <1>1, <2>1, <2>3, <2>5 DEF OpenLanesInv, NarrowedInv
  <2>7. Open(Current(l))
    BY <1>1, <2>1, <2>6 DEF OpenLanesInv, OpenInv
  <2>8. ~Finished(p) /\ Depth(p) = byte - 1
    BY <2>1, <2>2, <2>3, SizesAssumption DEF Finished, Depth
  <2>9. Exact(p, byte - 1, l)
    BY <1>1, <2>1, <2>3, <2>6, <2>8 DEF Inv, RefineInv, Live
  <2>10. PrefixEqual(p, byte - 1, Current(l))
    BY <2>5, <2>9 DEF Exact
  <2> QED BY <2>2, <2>7, <2>10
<1>2. Inv /\ OpenLanesInv /\ [Next]_vars =>
        [RefineByte /\ plan.prunes /\ plan.zeroed = Pred => Needed]_vars
  BY <1>1
<1> QED BY <1>2, InvCorrect, OpenLanesCorrect, PTL DEF Spec, LoadsOnlyWhatIsOpen
=============================================================================
