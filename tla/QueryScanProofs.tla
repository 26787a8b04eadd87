-------------------------- MODULE QueryScanProofs --------------------------
(***************************************************************************)
(* The kernels of the TPC-H queries, for every table whose codes fit the   *)
(* widths of their columns: the aggregate keeps every lane it has not      *)
(* settled, later byte slices are loaded for open tuples only, and the bit *)
(* vector is what the driver recomputes from the codes.                    *)
(***************************************************************************)
EXTENDS QueryScanInvariant, ConjunctiveScanProofs, StorageProofs

----------------------------------------------------------------------------
(***************************************************************************)
(* The tree gives every valuation of the predicates one value at each      *)
(* node.  Both halves by the smallest node that would break them.          *)
(***************************************************************************)

(* Every valuation of the predicates extends to the tree.                  *)
LEMMA TreeExtends ==
  ASSUME TypeOK, NEW j \in 0..Len(plan.prog), NEW s \in SUBSET Pred
  PROVE  \E t \in SUBSET Node : FollowsTree(t, j) /\ \A p \in Pred : p \in t <=> p \in s
<1> DEFINE Extends(i) ==
             \E t \in SUBSET Node : FollowsTree(t, i) /\ \A p \in Pred : p \in t <=> p \in s
           Bad == {i \in 0..Len(plan.prog) : ~Extends(i)}
<1>1. Len(plan.prog) \in Nat \ {0} /\ Pred \subseteq Node
  BY PlanFields
<1>2. Extends(0)
  <2>1. s \in SUBSET Node /\ FollowsTree(s, 0)
    BY <1>1 DEF FollowsTree
  <2> QED BY <2>1
<1>3. ASSUME NEW i \in Calls, Extends(i - 1)
      PROVE  Extends(i)
  <2>1. PICK t \in SUBSET Node : FollowsTree(t, i - 1) /\ \A p \in Pred : p \in t <=> p \in s
    BY <1>3
  <2>2. PICK u \in SUBSET Node :
          FollowsTree(u, i) /\ \A r : r # plan.n + i => (r \in u <=> r \in t)
    BY <2>1, ValuationExtends
  <2>3. \A p \in Pred : p # plan.n + i
    BY CallNodes
  <2> QED BY <2>1, <2>2, <2>3
<1>4. Bad = {}
  <2> SUFFICES ASSUME Bad # {} PROVE FALSE
    OBVIOUS
  <2> HIDE DEF Extends
  <2>1. PICK i \in Bad : \A m \in Bad : i <= m
    <3>1. Bad \subseteq Nat
      BY <1>1
    <3> HIDE DEF Bad
    <3> QED BY <3>1, Smallest
  <2>2. i \in Calls /\ i - 1 \in 0..Len(plan.prog) /\ ~(i <= i - 1)
    BY <1>1, <1>2, <2>1 DEF Calls
  <2>3. Extends(i - 1)
    BY <2>1, <2>2
  <2> QED BY <1>3, <2>1, <2>2, <2>3
<1> QED BY <1>4

(* The predicates determine the whole tree.                                *)
LEMMA TreeDetermines ==
  ASSUME TypeOK, NEW j \in 0..Len(plan.prog)
  PROVE  Determines(plan.n + j)
<1> DEFINE Bad == {i \in 0..Len(plan.prog) : ~Determines(plan.n + i)}
<1>1. Len(plan.prog) \in Nat \ {0} /\ plan.n \in Nat \ {0} /\ plan.n + 0 = plan.n
  BY PlanFields
<1>2. Determines(plan.n + 0)
  <2>1. \A q \in Node : q <= plan.n => q \in Pred
    BY <1>1 DEF Node, Pred
  <2> QED BY <1>1, <2>1 DEF Determines
<1>3. Bad = {}
  <2> SUFFICES ASSUME Bad # {} PROVE FALSE
    OBVIOUS
  <2>1. PICK i \in Bad : \A m \in Bad : i <= m
    <3>1. Bad \subseteq Nat
      BY <1>1
    <3> HIDE DEF Bad
    <3> QED BY <3>1, Smallest
  <2>2. i \in Calls /\ i - 1 \in 0..Len(plan.prog) /\ ~(i <= i - 1)
    BY <1>1, <1>2, <2>1 DEF Calls
  <2>3. Determines(plan.n + (i - 1))
    BY <2>1, <2>2
  <2> QED BY <2>1, <2>2, <2>3, DeterminesNext
<1> QED BY <1>3

(* So every tuple has a truth, at every stage.                             *)
LEMMA TruthAlways ==
  ASSUME TypeOK
  PROVE  TruthInv
<1> SUFFICES ASSUME pc \notin {"first", "store", "done"}
             PROVE  TruthInv
  BY DEF TruthInv
<1> DEFINE j == IF pc = "aggregate" THEN index - 1 ELSE Len(plan.prog)
<1>1. j \in 0..Len(plan.prog)
  BY PlanFields DEF TypeOK, Rounds
<1> HIDE DEF j
<1>2. Determines(plan.n + j)
  BY <1>1, TreeDetermines
<1>3. ASSUME NEW l \in Lane
      PROVE  \E t \in SUBSET Node : IsTruth(t, j, Current(l))
  <2> DEFINE s == {p \in Pred : Holds(p, Current(l))}
  <2>1. s \in SUBSET Pred /\ \A p \in Pred : p \in s <=> Holds(p, Current(l))
    OBVIOUS
  <2> HIDE DEF s
  <2>2. PICK t \in SUBSET Node : FollowsTree(t, j) /\ \A p \in Pred : p \in t <=> p \in s
    BY <1>1, <2>1, TreeExtends
  <2> QED BY <2>1, <2>2 DEF IsTruth
<1> QED BY <1>2, <1>3 DEF TruthInv, j

----------------------------------------------------------------------------
(***************************************************************************)
(* The slices the driver and the kernel prepare.                           *)
(***************************************************************************)

(* A stored slice is the driver's slice of the code.                       *)
LEMMA StoredSlices ==
  ASSUME NEW k \in Plans, NEW table \in Tables(k), NEW p \in 1..k.n,
         NEW c \in {k.column[p], k.right[p]} \ {0}, NEW b \in 1..k.bytes[p], NEW x \in Tuple
  PROVE  /\ k.width[c] \in 1..32 /\ k.bytes[p] = kNumBytesPerCode(k.width[c])
         /\ table[x][c] \in CodesOf(k.width[c])
         /\ AsSigned(SetTuple(table[x][c], k.width[c])[b])
              = SignedSlices(table[x][c], k.width[c])[b]
         /\ AsSigned(SetTuple(table[x][c], k.width[c])[b]) \in SignedByte
<1>1. IsQuery(k)
  BY QueriesAssumption
<1>2. k.width[c] = k.width[k.column[p]] /\ k.width[c] \in 1..32
  BY <1>1 DEF IsQuery
<1>3. k.bytes[p] = kNumBytesPerCode(k.width[c])
  BY <1>1, <1>2 DEF IsQuery
<1>4. table[x][c] \in CodesOf(k.width[c])
  BY TablesAssumption DEF IsCode, CodesOf
<1> DEFINE w == k.width[c]
           u == table[x][c]
<1>5. w \in 1..32 /\ u \in CodesOf(w) /\ b \in 1..kNumBytesPerCode(w)
  BY <1>2, <1>3, <1>4
<1> HIDE DEF w, u
<1>6. /\ Bytes(PaddedCode(u, w), kNumBytesPerCode(w))[b] \in ByteUnit
      /\ SignedSlices(u, w)[b] = Bytes(PaddedCode(u, w), kNumBytesPerCode(w))[b] - 128
  BY <1>5, StoredBytes
<1>7. AsSigned(SetTuple(u, w)[b]) = SignedSlices(u, w)[b]
  BY <1>5 DEF SignedSlices
<1>8. AsSigned(SetTuple(u, w)[b]) \in SignedByte
  BY <1>6, <1>7 DEF ByteUnit, SignedByte
<1> QED BY <1>2, <1>3, <1>4, <1>7, <1>8 DEF w, u

(* A byte of a literal is a byte, flipped as the kernel has it.            *)
LEMMA LiteralBytes ==
  ASSUME NEW k \in Plans, NEW p \in 1..k.n, k.right[p] = 0, NEW b \in 1..k.bytes[p]
  PROVE  LET w == k.width[k.column[p]]
             unit == ByteOf(Padded(k.value[p], kNumPaddingBits(w)), k.bytes[p], b)
         IN /\ w \in 1..32 /\ k.bytes[p] = kNumBytesPerCode(w) /\ k.value[p] \in CodesOf(w)
            /\ AsSigned(FLIP(unit)) = SignedSlices(k.value[p], w)[b]
            /\ AsSigned(FLIP(unit)) \in SignedByte /\ AsSigned(unit) \in SignedByte
<1> DEFINE w == k.width[k.column[p]]
           v == k.value[p]
<1>1. w \in 1..32 /\ k.bytes[p] = kNumBytesPerCode(w) /\ v \in CodesOf(w)
  BY QueriesAssumption DEF IsQuery, IsCode, CodesOf
<1> HIDE DEF w, v
<1> DEFINE unit == ByteOf(Padded(v, kNumPaddingBits(w)), kNumBytesPerCode(w), b)
<1>2. b \in 1..kNumBytesPerCode(w)
  BY <1>1
<1>3. Bytes(PaddedCode(v, w), kNumBytesPerCode(w))[b] = unit
  BY <1>2 DEF Bytes, PaddedCode
<1>4. unit \in ByteUnit /\ SignedSlices(v, w)[b] = unit - 128
  BY <1>1, <1>2, <1>3, StoredBytes
<1> HIDE DEF unit
<1>5. /\ AsSigned(FLIP(unit)) = unit - 128
      /\ AsSigned(FLIP(unit)) \in SignedByte /\ AsSigned(unit) \in SignedByte
  BY <1>4, SMT DEF AsSigned, FLIP, ByteUnit, SignedByte
<1> QED BY <1>1, <1>4, <1>5 DEF w, v, unit

(* What the driver and the kernel prepare are inputs of ConjunctiveScan.   *)
LEMMA QueryInputs ==
  ASSUME QueryInit
  PROVE  Init
<1>1. plan \in Plans /\ codes \in Tables(plan) /\ Enter
  BY DEF QueryInit
<1>2. IsPlan(plan)
  BY <1>1, PlansAssumption
<1>3. data \in [Slices(plan) -> [Tuple -> Byte]]
  <2>1. ASSUME NEW s \in Slices(plan)
        PROVE  StoredSlice(s[1], s[2]) \in [Tuple -> Byte]
    <3>1. PICK p \in 1..plan.n : \E c \in {plan.column[p], plan.right[p]} \ {0},
                                    b \in 1..plan.bytes[p] : s = <<c, b>>
      BY <2>1, SMT DEF Slices
    <3>2. PICK c \in {plan.column[p], plan.right[p]} \ {0}, b \in 1..plan.bytes[p] :
            s = <<c, b>>
      BY <3>1
    <3>3. s[1] = c /\ s[2] = b
      BY <3>2
    <3>4. \A x \in Tuple : AsSigned(SetTuple(codes[x][c], plan.width[c])[b]) \in Byte
      BY <1>1, StoredSlices, SignedBytesAssumption
    <3> QED BY <3>3, <3>4 DEF StoredSlice
  <2> QED BY <2>1 DEF QueryInit
<1>4. literal \in [LiteralSlices(plan) -> LiteralByte]
  <2>1. ASSUME NEW s \in LiteralSlices(plan)
        PROVE  PreparedLiteral(s[1], s[2]) \in LiteralByte
    <3>1. PICK p \in {q \in 1..plan.n : plan.right[q] = 0} :
                                    \E b \in 1..plan.bytes[p] : s = <<p, b>>
      BY <2>1, Zenon DEF LiteralSlices
    <3>2. PICK b \in 1..plan.bytes[p] : s = <<p, b>>
      BY <3>1
    <3>3. s[1] = p /\ s[2] = b
      BY <3>2
    <3>4. PreparedLiteral(p, b) \in SignedByte
      BY <1>1, LiteralBytes DEF PreparedLiteral
    <3> QED BY <3>3, <3>4, SignedBytesAssumption
  <2> QED BY <2>1 DEF QueryInit
<1> QED BY <1>1, <1>3, <1>4 DEF Init

(* A query starts as a scan does.                                          *)
LEMMA QueryInvInit ==
  ASSUME QueryInit
  PROVE  QueryInv
<1>1. Inv
  BY QueryInputs, InvInit
<1>2. /\ pc = IF NumWords > 0 THEN "first" ELSE "done"
      /\ bv_word_id = 1 /\ index = 1
  BY DEF QueryInit, Enter
<1>3. QueryFirstInv /\ EarlyInv /\ QueryOpenInv
  BY <1>1, <1>2 DEF Inv, FirstInv, QueryFirstInv, EarlyInv, QueryOpenInv
<1>4. PathInv
  BY <1>2, SizesAssumption DEF PathInv
<1>5. InputInv
  BY DEF QueryInit, InputInv
<1> QED BY <1>1, <1>3, <1>4, <1>5 DEF Inv, QueryInv

----------------------------------------------------------------------------
(***************************************************************************)
(* The first byte slice.                                                   *)
(***************************************************************************)

(* The masks of the first byte slice, by either kernel: all but success.   *)
LEMMA FirstKernelMasks ==
  ASSUME TypeOK, NEW p \in Pred
  PROVE  LET k == FirstKernel(p) IN
         /\ k \in Masks
         /\ k.equal = avx_cmpeq(Load(p, 1), LoadRight(p, 1))
         /\ plan.cmp[p] \in Ordering =>
              /\ k.less = avx_cmplt(Load(p, 1), LoadRight(p, 1))
              /\ k.greater = avx_cmpgt(Load(p, 1), LoadRight(p, 1))
         /\ k.fail = Fails(plan.cmp[p], k)
<1> DEFINE cmp == plan.cmp[p]
           x == Load(p, 1)
           y == LoadRight(p, 1)
           m == mask[p]
           raw == [m EXCEPT
                    !.less = IF cmp \in Ordering THEN avx_cmplt(x, y) ELSE @,
                    !.greater = IF cmp \in Ordering THEN avx_cmpgt(x, y) ELSE @,
                    !.equal = avx_cmpeq(x, y)]
           first == Judged(cmp, raw)
           last == [first EXCEPT !.success = IF cmp \in {"kLess", "kLessEqual", "kGreaterEqual"}
                                             THEN @ \cup first.equal ELSE @]
<1>1. m \in Masks /\ cmp \in Comparator
  BY PlanFields DEF TypeOK
<1>2. FirstKernel(p) = first \/ FirstKernel(p) = last
  BY DEF FirstKernel, computeKernelWithMask_FIRST, computeKernelWithMask_LAST
<1>3. /\ raw \in Masks /\ raw.equal = avx_cmpeq(x, y)
      /\ cmp \in Ordering => raw.less = avx_cmplt(x, y) /\ raw.greater = avx_cmpgt(x, y)
  BY <1>1 DEF Masks, avx_cmplt, avx_cmpgt, avx_cmpeq
<1> HIDE DEF raw, x, y, m
<1>4. first \in Masks
  <2>1. Succeeds(cmp, raw) \in SUBSET Lane /\ Fails(cmp, raw) \in SUBSET Lane
    BY <1>1, <1>3 DEF Succeeds, Fails, Masks, avx_not, Comparator, Ordering
  <2> QED BY <1>3, <2>1 DEF Judged, Masks
<1>5. /\ first.less = raw.less /\ first.greater = raw.greater /\ first.equal = raw.equal
      /\ first.fail = Fails(cmp, raw)
  BY <1>3 DEF Judged, Masks
<1> HIDE DEF first
<1>6. /\ last \in Masks /\ last.less = first.less /\ last.greater = first.greater
      /\ last.equal = first.equal /\ last.fail = first.fail
  BY <1>4 DEF Masks
<1> HIDE DEF last
<1>7. Fails(cmp, first) = Fails(cmp, raw) /\ Fails(cmp, last) = Fails(cmp, raw)
  BY <1>1, <1>5, <1>6 DEF Fails, Comparator, Ordering
<1> QED BY <1>2, <1>3, <1>4, <1>5, <1>6, <1>7 DEF x, y

(* So they are exact, and their fail is what equal, less and greater say.  *)
LEMMA QueryFirstByteExact ==
  ASSUME TypeOK, QueryFirstByte, NEW p, p = index
  PROVE  /\ p \in Pred /\ mask'[p] \in Masks
         /\ \A l \in Lane : Exact(p, 1, l)'
         /\ mask'[p].fail = Fails(plan.cmp[p], mask'[p])
<1>1. /\ p \in Pred /\ plan' = plan /\ UNCHANGED input /\ UNCHANGED position
  BY PlanFields DEF QueryFirstByte, TypeOK, Rounds, Pred, input
<1>2. mask'[p] = FirstKernel(p)
  BY <1>1 DEF QueryFirstByte, TypeOK
<1> DEFINE k == FirstKernel(p)
<1>3. /\ k \in Masks
      /\ k.equal = avx_cmpeq(Load(p, 1), LoadRight(p, 1))
      /\ plan.cmp[p] \in Ordering =>
           /\ k.less = avx_cmplt(Load(p, 1), LoadRight(p, 1))
           /\ k.greater = avx_cmpgt(Load(p, 1), LoadRight(p, 1))
      /\ k.fail = Fails(plan.cmp[p], k)
  BY <1>1, FirstKernelMasks
<1> HIDE DEF k
<1>4. ASSUME NEW l \in Lane
      PROVE  /\ l \in k.equal <=> PrefixEqual(p, 1, Current(l))
             /\ plan.cmp[p] \in Ordering =>
                  /\ l \in k.less <=> PrefixLess(p, 1, Current(l))
                  /\ l \in k.greater <=> PrefixGreater(p, 1, Current(l))
  <2>1. /\ Load(p, 1)[l] = CodeByte(p, 1, Current(l))
        /\ LoadRight(p, 1)[l] = RightByte(p, 1, Current(l))
    BY LoadedByte
  <2> QED BY <1>3, <2>1, PrefixFirst DEF avx_cmpeq, avx_cmplt, avx_cmpgt
<1>5. \A l \in Lane : Exact(p, 1, l)'
  BY <1>1, <1>2, <1>4, SameInput, SamePosition DEF Exact, k
<1> QED BY <1>1, <1>2, <1>3, <1>5 DEF k

(* What is said of the codes and the slices stays so.                      *)
LEMMA SameQueryInput ==
  ASSUME InputInv, UNCHANGED input, UNCHANGED codes
  PROVE  InputInv'
<1>1. plan' = plan /\ data' = data /\ literal' = literal /\ codes' = codes
  BY DEF input
<1>2. Slices(plan)' = Slices(plan) /\ LiteralSlices(plan)' = LiteralSlices(plan)
  BY <1>1
<1>3. \A c, b : StoredSlice(c, b)' = StoredSlice(c, b)
  BY <1>1 DEF StoredSlice
<1>4. \A p, b : PreparedLiteral(p, b)' = PreparedLiteral(p, b)
  BY <1>1 DEF PreparedLiteral
<1>5. data' = [s \in Slices(plan) |-> StoredSlice(s[1], s[2])']
  BY <1>1, <1>3 DEF InputInv
<1>6. literal' = [s \in LiteralSlices(plan) |-> PreparedLiteral(s[1], s[2])']
  BY <1>1, <1>4 DEF InputInv
<1> QED BY <1>1, <1>2, <1>5, <1>6 DEF InputInv

(* Masks that are exact on a code of one byte are done with it.            *)
LEMMA ExactOfOneByte ==
  ASSUME TypeOK, UNCHANGED input, UNCHANGED position, NEW p \in Pred, NEW l \in Lane,
         Current(l) \in Tuple, Exact(p, 1, l)'
  PROVE  /\ Coherent(p, l)'
         /\ plan.bytes[p] = 1 => Done(p, l)'
<1>1. plan' = plan
  BY DEF input
<1>2. /\ l \in mask'[p].equal <=> PrefixEqual(p, 1, Current(l))
      /\ plan.cmp[p] \in Ordering =>
           /\ l \in mask'[p].less <=> PrefixLess(p, 1, Current(l))
           /\ l \in mask'[p].greater <=> PrefixGreater(p, 1, Current(l))
  BY <1>1, SameInput, SamePosition DEF Exact
<1>3. Coherent(p, l)'
  BY <1>1, <1>2, FirstByteExclusive, SameInput, SamePosition DEF Coherent
<1>4. ASSUME plan.bytes[p] = 1
      PROVE  Done(p, l)'
  <2>1. l \in computeMask_one_predicate(plan.cmp[p], mask'[p]) <=> Holds(p, Current(l))
    BY <1>2, <1>4, WholeCode
  <2> QED BY <1>1, <2>1, SameInput, SamePosition DEF Done
<1> QED BY <1>3, <1>4

(* One predicate's first byte slice; a kernel of one-byte columns goes on  *)
(* to the result masks after the last.                                     *)
LEMMA QueryFirstByteStep ==
  ASSUME QueryInv, QueryFirstByte
  PROVE  QueryInv'
<1>1. /\ TypeOK /\ pc = "first" /\ UNCHANGED input /\ UNCHANGED position /\ plan' = plan
      /\ index \in Pred /\ index \in Nat /\ plan.n \in Nat /\ Pred = 1..plan.n
      /\ byte = 2 /\ byte' = 2
  BY PlanFields DEF QueryInv, QueryFirstByte, TypeOK, Rounds, Pred, ByteInv, input
<1>2. \/ index < plan.n /\ pc' = "first" /\ index' = index + 1
      \/ index = plan.n /\ plan.prunes /\ pc' = "aggregate" /\ index' = 1
      \/ index = plan.n /\ ~plan.prunes /\ pc' = "final" /\ index' = 1
  BY <1>1, PlanFields DEF QueryFirstByte, Advance
<1>3. ASSUME NEW p \in Pred, p <= index
      PROVE  /\ \A l \in Lane : Exact(p, 1, l)'
             /\ mask'[p].fail = Fails(plan.cmp[p], mask'[p])
  <2>1. CASE p = index
    BY <1>1, <2>1, QueryFirstByteExact
  <2>2. CASE p # index
    <3>1. p < index
      BY <1>1, <1>3, <2>2
    <3>2. mask'[p] = mask[p]
      BY <1>1, <2>2 DEF QueryFirstByte, TypeOK
    <3>3. (\A l \in Lane : Exact(p, 1, l)) /\ mask[p].fail = Fails(plan.cmp[p], mask[p])
      BY <1>1, <3>1 DEF QueryInv, QueryFirstInv
    <3> QED BY <1>1, <3>2, <3>3, SameMask
  <2> QED BY <2>1, <2>2
<1>4. TypeOK'
  <2>1. Pred' = Pred /\ Node' = Node
    BY <1>1, SameInput
  <2>2. mask' \in [Pred -> Masks]
    BY <1>1, QueryFirstByteExact DEF QueryFirstByte, TypeOK
  <2>3. index' \in 1..Rounds' /\ pc' \in Stage /\ pc' # "done"
    BY <1>1, <1>2, PlanFields DEF Rounds, Stage
  <2> QED BY <1>1, <2>1, <2>2, <2>3 DEF QueryFirstByte, TypeOK, input, position
<1>5. QueryFirstInv'
  <2>1. \A p \in Pred : pc' # "final" /\ (pc' = "first" => p < index') => p <= index
    BY <1>1, <1>2
  <2> QED BY <1>1, <1>3, <2>1, SameInput DEF QueryFirstInv
<1>6. EarlyInv'
  BY <1>1, <1>2, SameInput DEF EarlyInv, Calls
<1>7. PathInv' /\ QueryOpenInv'
  BY <1>1, <1>2 DEF PathInv, QueryOpenInv
<1>8. pc' = "final" => \A p \in Pred, l \in Lane : Coherent(p, l)' /\ Done(p, l)'
  <2> SUFFICES ASSUME pc' = "final", NEW p \in Pred, NEW l \in Lane
               PROVE  Coherent(p, l)' /\ Done(p, l)'
    OBVIOUS
  <2>1. Exact(p, 1, l)'
    BY <1>1, <1>2, <1>3
  <2>2. plan.bytes[p] = 1
    BY <1>1, <1>2, QueriesAssumption DEF TypeOK, IsQuery, Pred
  <2> QED BY <1>1, <2>1, <2>2, ExactOfOneByte, CurrentTuple
<1>9. CoherentInv' /\ FinalInv'
  <2>1. pc' = "final" => \A p \in Pred : ~(p < index')
    BY <1>1, <1>2
  <2> QED BY <1>1, <1>2, <1>8, <2>1, SameInput DEF CoherentInv, FinalInv
<1>10. SettledInv'
  BY <1>1, <1>2 DEF SettledInv, Live
<1>11. WordInv' /\ StoredBitsCorrect'
  BY <1>1, <1>2, SameWord DEF QueryInv, QueryFirstByte
<1>12. InputInv'
  BY <1>1, SameQueryInput DEF QueryInv, QueryFirstByte
<1>13. ByteInv' /\ RefineInv'
  BY <1>1, <1>2 DEF ByteInv, RefineInv
<1> QED BY <1>4, <1>5, <1>6, <1>7, <1>9, <1>10, <1>11, <1>12, <1>13 DEF QueryInv

----------------------------------------------------------------------------
(***************************************************************************)
(* The aggregate.                                                          *)
(***************************************************************************)

(* What the first bytes bound depends on the inputs only.                  *)
LEMMA SameQueryBounds ==
  ASSUME UNCHANGED input
  PROVE  /\ \A t, x : IsLowest(t, x)' <=> IsLowest(t, x)
         /\ \A t, x : IsHighest(t, x)' <=> IsHighest(t, x)
<1>1. plan' = plan
  BY DEF input
<1> QED BY <1>1, SameInput, SameBounds DEF IsLowest, IsHighest

(* What is said of a node stays so while its verdict stays.                *)
LEMMA SameQueryVerdict ==
  ASSUME UNCHANGED input, UNCHANGED position, NEW r, Verdict(r)' = Verdict(r)
  PROVE  \A l : /\ StopsRight(r, l)' <=> StopsRight(r, l)
                /\ MasksRight(r, l)' <=> MasksRight(r, l)
                /\ RootRight(r, l)' <=> RootRight(r, l)
<1>1. \A l : StopsRight(r, l)' <=> StopsRight(r, l)
  BY SameInput, SamePosition, SameQueryBounds DEF StopsRight
<1>2. \A l : MasksRight(r, l)' <=> MasksRight(r, l)
  BY SameInput, SamePosition, SameQueryBounds DEF MasksRight
<1>3. \A l : RootRight(r, l)' <=> RootRight(r, l)
  BY SameInput, SamePosition, SameQueryBounds DEF RootRight
<1> QED BY <1>1, <1>2, <1>3

(* The verdict of a predicate after its first byte.                        *)
LEMMA LeafStops ==
  ASSUME TypeOK, NEW p \in Pred, NEW l \in Lane, Exact(p, 1, l), Current(l) \in Tuple,
         mask[p].fail = Fails(plan.cmp[p], mask[p])
  PROVE  StopsRight(p, l)
<1> DEFINE x == Current(l)
<1>1. plan.cmp[p] \in Comparator /\ mask[p] \in Masks
  BY PlanFields DEF TypeOK
<1>2. Verdict(p).equal = mask[p].equal /\ Verdict(p).fail = Fails(plan.cmp[p], mask[p])
  BY DEF Verdict
<1>3. /\ l \in Verdict(p).equal <=> PrefixEqual(p, 1, x)
      /\ l \in Verdict(p).fail <=> DecidedFalse(p, x)
  BY <1>1, <1>2 DEF Exact, Fails, DecidedFalse, avx_not, Masks, Comparator, Ordering
<1>4. DecidedTrue(p, x) \/ DecidedFalse(p, x) <=> ~PrefixEqual(p, 1, x)
  BY <1>1, FirstByteExclusive DEF DecidedTrue, DecidedFalse, Comparator, Ordering
<1>5. (DecidedTrue(p, x) => Holds(p, x)) /\ (DecidedFalse(p, x) => ~Holds(p, x))
  BY SettledHolds DEF SettledTrue, SettledFalse
<1>6. ASSUME NEW u \in SUBSET Node, Outcome(u, x)
      PROVE  (DecidedTrue(p, x) => p \in u) /\ (DecidedFalse(p, x) => p \notin u)
  BY <1>6 DEF Outcome, SettledTrue, SettledFalse
<1>7. ASSUME NEW low, NEW high, IsLowest(low, x), IsHighest(high, x)
      PROVE  /\ p \in low <=> ~PrefixEqual(p, 1, x) /\ Holds(p, x)
             /\ p \in high <=> PrefixEqual(p, 1, x) \/ Holds(p, x)
  BY <1>7 DEF IsLowest, IsHighest, Lowest, Highest
<1> HIDE DEF x
<1>8. ASSUME NEW u \in SUBSET Node, Outcome(u, x)
      PROVE  /\ l \in Verdict(p).fail => p \notin u
             /\ l \in Verdict(p).equal \/ l \in Verdict(p).fail \/ p \in u
  BY <1>3, <1>4, <1>6, <1>8
<1>9. ASSUME NEW low \in SUBSET Node, NEW high \in SUBSET Node,
             IsLowest(low, x), IsHighest(high, x)
      PROVE  /\ l \in Verdict(p).fail <=> p \notin high
             /\ l \in Verdict(p).equal => p \in high /\ p \notin low
  BY <1>3, <1>4, <1>5, <1>7, <1>9
<1> QED BY <1>8, <1>9 DEF StopsRight, x

(* The equality mask of a predicate that the refinement leaves alone.      *)
LEMMA LeafMasks ==
  ASSUME TypeOK, NEW p \in Pred, NEW l \in Lane, Exact(p, 1, l),
         plan.cmp[p] = "kEqual", Untouched(p)
  PROVE  MasksRight(p, l)
<1> DEFINE x == Current(l)
<1>1. l \in Verdict(p).equal <=> PrefixEqual(p, 1, x)
  BY DEF Verdict, Exact
<1>2. Holds(p, x) <=> PrefixEqual(p, 1, x)
  BY DEF Holds, Untouched
<1>3. ASSUME NEW u \in SUBSET Node, Outcome(u, x)
      PROVE  p \in u <=> Holds(p, x)
  BY <1>3 DEF Outcome, SettledTrue, SettledFalse
<1>4. ASSUME NEW high, IsHighest(high, x)
      PROVE  PrefixEqual(p, 1, x) => p \in high
  BY <1>4 DEF IsHighest, Highest
<1> HIDE DEF x
<1> QED BY <1>1, <1>2, <1>3, <1>4 DEF MasksRight, x

(* An outcome, and each of the bounds, has the value of a call's operands  *)
(* joined.                                                                 *)
LEMMA CallValue ==
  ASSUME TypeOK, NEW j \in Calls, NEW t, FollowsTree(t, Len(plan.prog))
  PROVE  /\ plan.prog[j].op = "kAnd" =>
              (plan.n + j \in t <=> plan.prog[j].a \in t /\ plan.prog[j].b \in t)
         /\ plan.prog[j].op # "kAnd" =>
              (plan.n + j \in t <=> plan.prog[j].a \in t \/ plan.prog[j].b \in t)
  BY DEF FollowsTree, Calls

(* A conjunction of verdicts.                                              *)
LEMMA JoinStops ==
  ASSUME TypeOK, NEW j \in Calls, NEW l \in Lane, plan.prog[j].op = "kAnd",
         StopsRight(plan.prog[j].a, l), StopsRight(plan.prog[j].b, l),
         NEW v, v = computeForEarlyStop("kAnd", Verdict(plan.prog[j].a),
                                        Verdict(plan.prog[j].b))
  PROVE  /\ \A u \in SUBSET Node :
              Outcome(u, Current(l)) =>
                /\ l \in v.fail => plan.n + j \notin u
                /\ l \in v.equal \/ l \in v.fail \/ plan.n + j \in u
         /\ \A low, high \in SUBSET Node :
              IsLowest(low, Current(l)) /\ IsHighest(high, Current(l)) =>
                /\ l \in v.fail <=> plan.n + j \notin high
                /\ l \in v.equal => plan.n + j \in high /\ plan.n + j \notin low
<1> DEFINE a == plan.prog[j].a
           b == plan.prog[j].b
           r == plan.n + j
           x == Current(l)
<1>1. /\ l \in v.fail <=> l \in Verdict(a).fail \/ l \in Verdict(b).fail
      /\ l \in v.equal <=> \/ l \notin Verdict(a).fail /\ l \in Verdict(b).equal
                           \/ l \notin Verdict(b).fail /\ l \in Verdict(a).equal
  BY DEF computeForEarlyStop, avx_andnot, avx_not
<1>2. \A t : FollowsTree(t, Len(plan.prog)) => (r \in t <=> a \in t /\ b \in t)
  BY CallValue
<1>3. \A u : Outcome(u, x) => FollowsTree(u, Len(plan.prog))
  BY DEF Outcome
<1>4. \A t : IsLowest(t, x) \/ IsHighest(t, x) => FollowsTree(t, Len(plan.prog))
  BY DEF IsLowest, IsHighest
<1>5. StopsRight(a, l) /\ StopsRight(b, l)
  OBVIOUS
<1>6. ASSUME NEW u \in SUBSET Node, Outcome(u, x)
      PROVE  /\ l \in v.fail => r \notin u
             /\ l \in v.equal \/ l \in v.fail \/ r \in u
  <2>1. /\ l \in Verdict(a).fail => a \notin u
        /\ l \in Verdict(a).equal \/ l \in Verdict(a).fail \/ a \in u
        /\ l \in Verdict(b).fail => b \notin u
        /\ l \in Verdict(b).equal \/ l \in Verdict(b).fail \/ b \in u
    BY <1>5, <1>6 DEF StopsRight
  <2> HIDE DEF a, b, r, x
  <2> QED BY <1>1, <1>2, <1>3, <1>6, <2>1
<1>7. ASSUME NEW low \in SUBSET Node, NEW high \in SUBSET Node,
             IsLowest(low, x), IsHighest(high, x)
      PROVE  /\ l \in v.fail <=> r \notin high
             /\ l \in v.equal => r \in high /\ r \notin low
  <2>1. /\ l \in Verdict(a).fail <=> a \notin high
        /\ l \in Verdict(a).equal => a \in high /\ a \notin low
        /\ l \in Verdict(b).fail <=> b \notin high
        /\ l \in Verdict(b).equal => b \in high /\ b \notin low
    BY <1>5, <1>7 DEF StopsRight
  <2> HIDE DEF a, b, r, x
  <2> QED BY <1>1, <1>2, <1>4, <1>7, <2>1
<1> QED BY <1>6, <1>7

(* Equality masks joined on their own.                                     *)
LEMMA JoinMasks ==
  ASSUME TypeOK, NEW j \in Calls, NEW l \in Lane,
         MasksRight(plan.prog[j].a, l), MasksRight(plan.prog[j].b, l),
         NEW m, m = computeConjunctivePredicates(plan.prog[j].op, Verdict(plan.prog[j].a).equal,
                                                 Verdict(plan.prog[j].b).equal)
  PROVE  /\ \A u \in SUBSET Node : Outcome(u, Current(l)) => (l \in m <=> plan.n + j \in u)
         /\ \A high \in SUBSET Node :
              IsHighest(high, Current(l)) => (l \in m => plan.n + j \in high)
<1> DEFINE a == plan.prog[j].a
           b == plan.prog[j].b
           op == plan.prog[j].op
           r == plan.n + j
           x == Current(l)
<1>1. /\ op = "kAnd" => (l \in m <=> l \in Verdict(a).equal /\ l \in Verdict(b).equal)
      /\ op # "kAnd" => (l \in m <=> l \in Verdict(a).equal \/ l \in Verdict(b).equal)
  BY DEF computeConjunctivePredicates
<1>2. \A t : FollowsTree(t, Len(plan.prog)) =>
               /\ op = "kAnd" => (r \in t <=> a \in t /\ b \in t)
               /\ op # "kAnd" => (r \in t <=> a \in t \/ b \in t)
  BY CallValue
<1>3. /\ \A u : Outcome(u, x) => FollowsTree(u, Len(plan.prog))
      /\ \A t : IsHighest(t, x) => FollowsTree(t, Len(plan.prog))
  BY DEF Outcome, IsHighest
<1>4. /\ \A u \in SUBSET Node : Outcome(u, x) => (l \in Verdict(a).equal <=> a \in u)
      /\ \A u \in SUBSET Node : Outcome(u, x) => (l \in Verdict(b).equal <=> b \in u)
      /\ \A high \in SUBSET Node : IsHighest(high, x) => (l \in Verdict(a).equal => a \in high)
      /\ \A high \in SUBSET Node : IsHighest(high, x) => (l \in Verdict(b).equal => b \in high)
  BY DEF MasksRight
<1> HIDE DEF a, b, op, r, x
<1>5. /\ \A u \in SUBSET Node : Outcome(u, x) => (l \in m <=> r \in u)
      /\ \A high \in SUBSET Node : IsHighest(high, x) => (l \in m => r \in high)
  BY <1>1, <1>2, <1>3, <1>4
<1> QED BY <1>5 DEF r, x

(* The aggregate's equal lanes cut down to those of a joined mask, as the  *)
(* last call does.                                                         *)
LEMMA FilterRoot ==
  ASSUME TypeOK, NEW j \in Calls, NEW l \in Lane, plan.prog[j].op = "kAnd",
         StopsRight(plan.prog[j].a, l), MasksRight(plan.prog[j].b, l),
         NEW m, m = Verdict(plan.prog[j].a).equal \cap Verdict(plan.prog[j].b).equal
  PROVE  /\ \/ l \in m
            \/ \A u, v \in SUBSET Node :
                 Outcome(u, Current(l)) /\ Outcome(v, Current(l)) =>
                   (plan.n + j \in u <=> plan.n + j \in v)
         /\ \A low, high \in SUBSET Node :
              IsLowest(low, Current(l)) /\ IsHighest(high, Current(l)) =>
                (l \in m => plan.n + j \in high /\ plan.n + j \notin low)
<1> DEFINE a == plan.prog[j].a
           b == plan.prog[j].b
           r == plan.n + j
           x == Current(l)
<1>1. \A t : FollowsTree(t, Len(plan.prog)) => (r \in t <=> a \in t /\ b \in t)
  BY CallValue
<1>2. /\ \A u : Outcome(u, x) => FollowsTree(u, Len(plan.prog))
      /\ \A t : IsHighest(t, x) \/ IsLowest(t, x) => FollowsTree(t, Len(plan.prog))
  BY DEF Outcome, IsHighest, IsLowest
<1>3. \A u \in SUBSET Node :
        Outcome(u, x) =>
          /\ l \in Verdict(a).fail => a \notin u
          /\ l \in Verdict(a).equal \/ l \in Verdict(a).fail \/ a \in u
          /\ l \in Verdict(b).equal <=> b \in u
  BY DEF StopsRight, MasksRight
<1>4. \A low, high \in SUBSET Node :
        IsLowest(low, x) /\ IsHighest(high, x) =>
          /\ l \in Verdict(a).equal => a \in high /\ a \notin low
          /\ l \in Verdict(b).equal => b \in high
  BY DEF StopsRight, MasksRight
<1>5. l \in m <=> l \in Verdict(a).equal /\ l \in Verdict(b).equal
  OBVIOUS
<1> HIDE DEF a, b, r, x
<1>6. ASSUME l \notin m, NEW u \in SUBSET Node, NEW v \in SUBSET Node,
             Outcome(u, x), Outcome(v, x)
      PROVE  r \in u <=> r \in v
  <2>1. (r \in u <=> a \in u /\ b \in u) /\ (r \in v <=> a \in v /\ b \in v)
    BY <1>1, <1>2, <1>6
  <2>2. /\ l \in Verdict(a).fail => a \notin u /\ a \notin v
        /\ l \in Verdict(a).equal \/ l \in Verdict(a).fail \/ (a \in u /\ a \in v)
        /\ l \in Verdict(b).equal <=> b \in u
        /\ l \in Verdict(b).equal <=> b \in v
    BY <1>3, <1>6
  <2> QED BY <1>5, <1>6, <2>1, <2>2
<1>7. ASSUME NEW low \in SUBSET Node, NEW high \in SUBSET Node,
             IsLowest(low, x), IsHighest(high, x), l \in m
      PROVE  r \in high /\ r \notin low
  BY <1>1, <1>2, <1>4, <1>5, <1>7
<1> QED BY <1>6, <1>7 DEF r, x

(* What is known of an operand that aggregates.                            *)
LEMMA OperandStops ==
  ASSUME QueryInv, pc = "aggregate", NEW r \in Node, r < plan.n + index, Aggregates(plan, r),
         NEW l \in Lane
  PROVE  StopsRight(r, l)
<1>1. TypeOK /\ plan.n \in Nat \ {0} /\ index \in Nat \ {0} /\ Pred = 1..plan.n
      /\ index \in Calls /\ Len(plan.prog) \in Nat
  BY PlanFields DEF QueryInv, TypeOK, Rounds, Pred, Calls
<1>2. CASE r \in Pred
  <2>1. Exact(r, 1, l) /\ mask[r].fail = Fails(plan.cmp[r], mask[r]) /\ Current(l) \in Tuple
    BY <1>1, <1>2, CurrentTuple DEF QueryInv, QueryFirstInv
  <2> QED BY <1>1, <1>2, <2>1, LeafStops
<1>3. CASE r \notin Pred
  <2>1. r \in Nat /\ r > plan.n
    BY <1>1, <1>3 DEF Node
  <2>2. r - plan.n \in Calls /\ r - plan.n < index /\ plan.n + (r - plan.n) = r
    BY <1>1, <2>1 DEF Calls
  <2>3. plan.early[r - plan.n] = "stop"
    BY <1>1, <1>3 DEF Aggregates
  <2>4. StopsRight(plan.n + (r - plan.n), l)
    BY <2>2, <2>3 DEF QueryInv, EarlyInv
  <2> QED BY <2>2, <2>4
<1> QED BY <1>2, <1>3

(* And of one whose mask is joined.                                        *)
LEMMA OperandMasks ==
  ASSUME QueryInv, pc = "aggregate", NEW r \in Node, r < plan.n + index, JoinsMasks(plan, r),
         NEW l \in Lane
  PROVE  MasksRight(r, l)
<1>1. TypeOK /\ plan.n \in Nat \ {0} /\ index \in Nat \ {0} /\ Pred = 1..plan.n
      /\ index \in Calls /\ Len(plan.prog) \in Nat
  BY PlanFields DEF QueryInv, TypeOK, Rounds, Pred, Calls
<1>2. CASE r \in Pred
  <2>1. Exact(r, 1, l)
    BY <1>1, <1>2 DEF QueryInv, QueryFirstInv
  <2>2. plan.cmp[r] = "kEqual" /\ Untouched(r)
    BY <1>1, <1>2 DEF JoinsMasks, Untouched
  <2> QED BY <1>1, <1>2, <2>1, <2>2, LeafMasks
<1>3. CASE r \notin Pred
  <2>1. r \in Nat /\ r > plan.n
    BY <1>1, <1>3 DEF Node
  <2>2. r - plan.n \in Calls /\ r - plan.n < index /\ plan.n + (r - plan.n) = r
    BY <1>1, <2>1 DEF Calls
  <2>3. plan.early[r - plan.n] = "mask"
    BY <1>1, <1>3 DEF JoinsMasks
  <2>4. MasksRight(plan.n + (r - plan.n), l)
    BY <2>2, <2>3 DEF QueryInv, EarlyInv
  <2> QED BY <2>2, <2>4
<1> QED BY <1>2, <1>3

(* The verdict a call leaves is typed, and right of its node.              *)
LEMMA CallRight ==
  ASSUME QueryInv, pc = "aggregate", plan.prunes, NEW r, r = plan.n + index,
         NEW v, v = JoinedVerdict(plan.prog[index], plan.early[index]),
         Verdict(r)' = v, UNCHANGED input, UNCHANGED position
  PROVE  /\ v \in Verdicts
         /\ \A l \in Lane :
              /\ plan.early[index] = "stop" => StopsRight(r, l)'
              /\ plan.early[index] = "mask" => MasksRight(r, l)'
              /\ index = Len(plan.prog) => RootRight(r, l)'
<1> DEFINE call == plan.prog[index]
           a == plan.prog[index].a
           b == plan.prog[index].b
           Frame(t, x) == /\ Outcome(t, x)' <=> Outcome(t, x)
                          /\ IsLowest(t, x)' <=> IsLowest(t, x)
                          /\ IsHighest(t, x)' <=> IsHighest(t, x)
<1>1. TypeOK /\ index \in Calls /\ index \in Nat /\ Len(plan.prog) \in Nat /\ IsEarlyCall(plan, index)
  BY PlanFields, QueriesAssumption DEF QueryInv, TypeOK, Rounds, Calls, IsQuery
<1>2. /\ a \in Node /\ a < plan.n + index /\ b \in Node /\ b < plan.n + index
      /\ call.op \in Bitwise
  BY <1>1, CallNodes
<1>3. Verdict(a) \in Verdicts /\ Verdict(b) \in Verdicts
  BY <1>1, <1>2, VerdictType
<1>4. /\ Node' = Node
      /\ \A t, x : Frame(t, x)
      /\ \A l : Current(l)' = Current(l)
  BY SameInput, SamePosition, SameQueryBounds
<1> HIDE DEF Frame
<1>5. CASE plan.early[index] = "stop"
  <2>1. call.op = "kAnd" /\ Aggregates(plan, a) /\ Aggregates(plan, b)
    BY <1>1, <1>5 DEF IsEarlyCall
  <2>2. v = computeForEarlyStop("kAnd", Verdict(a), Verdict(b))
    BY <1>5, <2>1 DEF JoinedVerdict
  <2>3. v \in Verdicts
    BY <1>3, <2>2, EarlyStopType DEF Bitwise
  <2>4. ASSUME NEW l \in Lane
        PROVE  StopsRight(r, l)' /\ RootRight(r, l)'
    <3>1. StopsRight(a, l) /\ StopsRight(b, l)
      BY <1>2, <2>1, OperandStops
    <3>2. /\ \A u \in SUBSET Node :
               Outcome(u, Current(l)) =>
                 /\ l \in v.fail => r \notin u
                 /\ l \in v.equal \/ l \in v.fail \/ r \in u
          /\ \A low, high \in SUBSET Node :
               IsLowest(low, Current(l)) /\ IsHighest(high, Current(l)) =>
                 /\ l \in v.fail <=> r \notin high
                 /\ l \in v.equal => r \in high /\ r \notin low
      BY <1>1, <2>1, <2>2, <3>1, JoinStops
    <3>3. StopsRight(r, l)'
      BY <1>4, <3>2 DEF StopsRight, Frame
    <3>4. RootRight(r, l)'
      BY <1>4, <3>2 DEF RootRight, Frame
    <3> QED BY <3>3, <3>4
  <2> QED BY <1>5, <2>3, <2>4
<1>6. CASE plan.early[index] = "mask"
  <2>1. index < Len(plan.prog) /\ JoinsMasks(plan, a) /\ JoinsMasks(plan, b)
    BY <1>1, <1>6 DEF IsEarlyCall
  <2> DEFINE m == computeConjunctivePredicates(call.op, Verdict(a).equal, Verdict(b).equal)
  <2>2. v = [Verdict(a) EXCEPT !.equal = m] /\ m \in SUBSET Lane
    BY <1>3, <1>6 DEF JoinedVerdict, computeConjunctivePredicates, Verdicts
  <2>3. v \in Verdicts /\ v.equal = m
    BY <1>3, <2>2 DEF Verdicts
  <2>4. ASSUME NEW l \in Lane
        PROVE  MasksRight(r, l)'
    <3>1. MasksRight(a, l) /\ MasksRight(b, l)
      BY <1>2, <2>1, OperandMasks
    <3>2. /\ \A u \in SUBSET Node : Outcome(u, Current(l)) => (l \in m <=> r \in u)
          /\ \A high \in SUBSET Node : IsHighest(high, Current(l)) => (l \in m => r \in high)
      BY <1>1, <3>1, JoinMasks
    <3> HIDE DEF m
    <3> QED BY <1>4, <2>3, <3>2 DEF MasksRight, Frame
  <2> QED BY <1>1, <1>6, <2>1, <2>3, <2>4
<1>7. CASE plan.early[index] = "filter"
  <2>1. call.op = "kAnd" /\ Aggregates(plan, a) /\ JoinsMasks(plan, b)
    BY <1>1, <1>7 DEF IsEarlyCall
  <2>0. PICK m : m = Verdict(a).equal \cap Verdict(b).equal
    OBVIOUS
  <2>2. v = [Verdict(a) EXCEPT !.equal = m] /\ m \in SUBSET Lane
    BY <1>3, <1>7, <2>0, <2>1 DEF JoinedVerdict, computeConjunctivePredicates, Verdicts
  <2>3. v \in Verdicts /\ v.equal = m
    BY <1>3, <2>2 DEF Verdicts
  <2>4. ASSUME NEW l \in Lane
        PROVE  RootRight(r, l)'
    <3>1. StopsRight(a, l) /\ MasksRight(b, l)
      BY <1>2, <2>1, OperandStops, OperandMasks
    <3>2. /\ \/ l \in m
             \/ \A u, w \in SUBSET Node :
                  Outcome(u, Current(l)) /\ Outcome(w, Current(l)) =>
                    (plan.n + index \in u <=> plan.n + index \in w)
          /\ \A low, high \in SUBSET Node :
               IsLowest(low, Current(l)) /\ IsHighest(high, Current(l)) =>
                 (l \in m => plan.n + index \in high /\ plan.n + index \notin low)
      BY <1>1, <2>0, <2>1, <3>1, FilterRoot
    <3> QED BY <1>4, <2>3, <3>2 DEF RootRight, Frame
  <2> QED BY <1>7, <2>3, <2>4
<1> QED BY <1>1, <1>5, <1>6, <1>7 DEF IsEarlyCall

(* One call of the aggregate: its node is right, and so are those before.  *)
LEMMA QueryAggregateStep ==
  ASSUME QueryInv, QueryAggregate
  PROVE  QueryInv'
<1>1. /\ TypeOK /\ pc = "aggregate" /\ UNCHANGED input /\ UNCHANGED position /\ byte = 2
      /\ index \in Calls /\ index \in Nat \ {0} /\ plan.n \in Nat \ {0} /\ Pred = 1..plan.n
      /\ Len(plan.prog) \in Nat \ {0} /\ plan' = plan /\ mask' = mask /\ byte' = 2
      /\ plan.prunes
  BY PlanFields DEF QueryInv, QueryAggregate, TypeOK, Rounds, Pred, Calls, ByteInv, input, PathInv
<1>2. \/ index < Len(plan.prog) /\ pc' = "aggregate" /\ index' = index + 1
      \/ index = Len(plan.prog) /\ pc' = "prune" /\ index' = 1
  BY <1>1 DEF QueryAggregate, Advance, Calls
<1> DEFINE r == plan.n + index
           v == JoinedVerdict(plan.prog[index], plan.early[index])
<1>3. r \in Node \ Pred
  BY <1>1, CallNodes
<1>4. agg'[r] = v /\ \A q \in Node \ Pred : q # r => agg'[q] = agg[q]
  <2> HIDE DEF v
  <2> QED BY <1>1, <1>3 DEF QueryAggregate, TypeOK, v
<1>5. \A q : q = r => Verdict(q)' = v
  <2> HIDE DEF v
  <2> QED BY <1>1, <1>3, <1>4, SameInput DEF Verdict
<1>6. /\ v \in Verdicts
      /\ \A l \in Lane : \A q : q = r =>
           /\ plan.early[index] = "stop" => StopsRight(q, l)'
           /\ plan.early[index] = "mask" => MasksRight(q, l)'
           /\ index = Len(plan.prog) => RootRight(q, l)'
  <2> DEFINE w == v
  <2> HIDE DEF w
  <2>1. ASSUME NEW q, q = r
        PROVE  /\ v \in Verdicts
               /\ \A l \in Lane :
                    /\ plan.early[index] = "stop" => StopsRight(q, l)'
                    /\ plan.early[index] = "mask" => MasksRight(q, l)'
                    /\ index = Len(plan.prog) => RootRight(q, l)'
    <3>1. Verdict(q)' = v
      BY <1>5, <2>1
    <3> QED BY <1>1, <2>1, <3>1, CallRight
  <2> HIDE DEF v, r
  <2> QED BY <2>1
<1>7. TypeOK'
  <2>1. Pred' = Pred /\ Node' = Node
    BY <1>1, SameInput
  <2>2. agg' \in [Node \ Pred -> Verdicts]
    <3> HIDE DEF v
    <3> QED BY <1>1, <1>3, <1>6 DEF QueryAggregate, TypeOK, v
  <2>3. index' \in 1..Rounds' /\ pc' \in Stage /\ pc' # "done"
    BY <1>1, <1>2, PlanFields DEF Rounds, Stage
  <2> QED BY <1>1, <2>1, <2>2, <2>3 DEF QueryAggregate, TypeOK, input, position
<1>8. QueryFirstInv'
  <2> SUFFICES ASSUME NEW p \in Pred
               PROVE  /\ \A l \in Lane : Exact(p, 1, l)'
                      /\ mask'[p].fail = Fails(plan.cmp[p], mask'[p])
    BY <1>1, SameInput DEF QueryFirstInv
  <2>1. (\A l \in Lane : Exact(p, 1, l)) /\ mask[p].fail = Fails(plan.cmp[p], mask[p])
    BY <1>1 DEF QueryInv, QueryFirstInv
  <2> QED BY <1>1, <2>1, SameMask
<1>9. EarlyInv'
  <2>1. \A j \in Calls : (pc' = "aggregate" => j < index') => j <= index
    BY <1>1, <1>2 DEF Calls
  <2>2. ASSUME NEW j \in Calls, j <= index, NEW l \in Lane, NEW q, q = plan.n + j
        PROVE  /\ plan.early[j] = "stop" => StopsRight(q, l)'
               /\ plan.early[j] = "mask" => MasksRight(q, l)'
               /\ j = Len(plan.prog) => RootRight(q, l)'
    <3>1. CASE j = index
      BY <1>6, <2>2, <3>1
    <3>2. CASE j # index
      <4>1. j < index /\ q # r
        BY <1>1, <2>2, <3>2 DEF Calls
      <4>2. q \in Node \ Pred
        BY <1>1, <2>2, CallNodes
      <4>3. Verdict(q)' = Verdict(q)
        BY <1>1, <1>4, <4>1, <4>2, SameInput DEF Verdict
      <4>4. /\ plan.early[j] = "stop" => StopsRight(q, l)
            /\ plan.early[j] = "mask" => MasksRight(q, l)
            /\ j = Len(plan.prog) => RootRight(q, l)
        BY <1>1, <2>2, <4>1 DEF QueryInv, EarlyInv
      <4> QED BY <1>1, <4>3, <4>4, SameQueryVerdict
    <3> QED BY <3>1, <3>2
  <2> HIDE DEF r, v
  <2>3. \A j \in Calls : (pc' = "aggregate" => j < index') =>
          \A l \in Lane :
            /\ plan.early[j] = "stop" => StopsRight(plan.n + j, l)'
            /\ plan.early[j] = "mask" => MasksRight(plan.n + j, l)'
            /\ j = Len(plan.prog) => RootRight(plan.n + j, l)'
    BY <1>1, <2>1, <2>2
  <2> QED BY <1>1, <2>3, SameInput DEF EarlyInv
<1>10. WordInv' /\ StoredBitsCorrect'
  BY <1>1, <1>2, SameWord DEF QueryInv, QueryAggregate
<1>11. InputInv'
  BY <1>1, SameQueryInput DEF QueryInv, QueryAggregate
<1>12. /\ ByteInv' /\ QueryOpenInv' /\ PathInv' /\ SettledInv' /\ CoherentInv' /\ RefineInv'
       /\ FinalInv'
  BY <1>1, <1>2 DEF ByteInv, QueryOpenInv, PathInv, SettledInv, CoherentInv, RefineInv, FinalInv
<1> QED BY <1>7, <1>8, <1>9, <1>10, <1>11, <1>12 DEF QueryInv

----------------------------------------------------------------------------
(***************************************************************************)
(* Open tuples.                                                            *)
(***************************************************************************)

(* What Valuations enumerates.                                             *)
LEMMA ValuationsAre ==
  ASSUME TypeOK, NEW free \in SUBSET Pred, NEW x, NEW t
  PROVE  t \in Valuations(free, x) <=>
           /\ t \in SUBSET Node /\ FollowsTree(t, Len(plan.prog))
           /\ \A p \in Pred \ free : p \in t <=> Holds(p, x)
<1> DEFINE held == {p \in Pred \ free : Holds(p, x)}
           Sums == {held \cup s \cup inner : s \in SUBSET free, inner \in SUBSET (Node \ Pred)}
<1>1. Pred \subseteq Node
  BY PlanFields
<1>2. Valuations(free, x) = {u \in Sums : FollowsTree(u, Len(plan.prog))}
  BY DEF Valuations
<1>3. ASSUME t \in Sums
      PROVE  t \in SUBSET Node /\ \A p \in Pred \ free : p \in t <=> Holds(p, x)
  <2> HIDE DEF held
  <2>1. PICK s \in SUBSET free, inner \in SUBSET (Node \ Pred) : t = held \cup s \cup inner
    BY <1>3, SMT
  <2>2. held \in SUBSET Node /\ \A p \in Pred \ free : p \in held <=> Holds(p, x)
    BY <1>1 DEF held
  <2> QED BY <1>1, <2>1, <2>2
<1>4. ASSUME t \in SUBSET Node, \A p \in Pred \ free : p \in t <=> Holds(p, x)
      PROVE  t \in Sums
  <2>1. t = held \cup (t \cap free) \cup (t \ Pred)
    <3>1. \A q \in t : q \in Node
      BY <1>4
    <3>2. \A q : q \in held <=> q \in Pred \ free /\ q \in t
      BY <1>4
    <3> HIDE DEF held
    <3>3. \A q : q \in t <=> q \in held \cup (t \cap free) \cup (t \ Pred)
      BY <3>2
    <3> QED BY <3>3
  <2>2. t \cap free \in SUBSET free /\ t \ Pred \in SUBSET (Node \ Pred)
    BY <1>4
  <2> HIDE DEF held
  <2>3. \E s \in SUBSET free : \E inner \in SUBSET (Node \ Pred) : t = held \cup s \cup inner
    <3> USE <2>2
    <3> WITNESS t \cap free \in SUBSET free
    <3> WITNESS t \ Pred \in SUBSET (Node \ Pred)
    <3> QED BY <2>1
  <2> QED BY <2>3, SMT
<1> HIDE DEF Sums
<1> QED BY <1>2, <1>3, <1>4

(* They are of the inputs only.                                            *)
LEMMA SameOpen ==
  ASSUME UNCHANGED input
  PROVE  \A x : LeavesOpen(EqualSoFar(x), x)' <=> LeavesOpen(EqualSoFar(x), x)
<1>1. plan' = plan
  BY DEF input
<1>2. \A x : EqualSoFar(x)' = EqualSoFar(x)
  BY SameInput DEF EqualSoFar
<1>3. ASSUME NEW free, NEW x
      PROVE  Valuations(free, x)' = Valuations(free, x)
  <2> DEFINE Held == {p \in Pred \ free : Holds(p, x)}
             Sums(held, inside) == {held \cup s \cup inner : s \in SUBSET free,
                                                           inner \in SUBSET inside}
  <2>1. Held' = Held
    BY SameInput
  <2>2. (Node \ Pred)' = Node \ Pred
    BY SameInput
  <2>3. Valuations(free, x)
          = {t \in Sums(Held, Node \ Pred) : FollowsTree(t, Len(plan.prog))}
    BY DEF Valuations
  <2>4. Valuations(free, x)'
          = {t \in Sums(Held', (Node \ Pred)') : FollowsTree(t, Len(plan.prog))'}
    BY DEF Valuations
  <2>5. \A t : FollowsTree(t, Len(plan.prog))' <=> FollowsTree(t, Len(plan.prog))
    BY <1>1, SameInput
  <2> HIDE DEF Held, Sums
  <2> QED BY <2>1, <2>2, <2>3, <2>4, <2>5
<1>4. \A x : Valuations(EqualSoFar(x), x)' = Valuations(EqualSoFar(x), x)
  BY <1>2, <1>3
<1>5. Root' = Root
  BY SameInput
<1> QED BY <1>4, <1>5 DEF LeavesOpen

(* A valuation that is free only where a later byte may differ is an       *)
(* outcome.                                                                *)
LEMMA UnsettledIsOutcome ==
  ASSUME TypeOK, NEW x \in Tuple, NEW t \in Valuations(Unsettled(x), x)
  PROVE  t \in SUBSET Node /\ Outcome(t, x)
<1>1. Unsettled(x) \in SUBSET Pred
  BY DEF Unsettled, EqualSoFar
<1>2. /\ t \in SUBSET Node /\ FollowsTree(t, Len(plan.prog))
      /\ \A p \in Pred \ Unsettled(x) : p \in t <=> Holds(p, x)
  BY <1>1, ValuationsAre
<1>3. ASSUME NEW p \in Pred
      PROVE  (SettledTrue(p, x) => p \in t) /\ (SettledFalse(p, x) => p \notin t)
  <2>1. CASE p \in Unsettled(x)
    <3>1. PrefixEqual(p, 1, x) /\ ~Untouched(p) /\ plan.cmp[p] \in Comparator
      BY <2>1, PlanFields DEF Unsettled, EqualSoFar, Untouched
    <3>2. ~DecidedTrue(p, x) /\ ~DecidedFalse(p, x)
      BY <3>1, FirstByteExclusive DEF DecidedTrue, DecidedFalse, Comparator, Ordering
    <3> QED BY <3>1, <3>2 DEF SettledTrue, SettledFalse
  <2>2. CASE p \notin Unsettled(x)
    BY <1>2, <2>2, SettledHolds
  <2> QED BY <2>1, <2>2
<1> QED BY <1>2, <1>3 DEF Outcome

(* When the aggregate is complete it has settled what it drops.            *)
LEMMA DroppedAreSettled ==
  ASSUME QueryInv, pc = "prune", NEW l \in Lane \ agg_equal, NEW u \in SUBSET Node,
         NEW v \in SUBSET Node, Outcome(u, Current(l)), Outcome(v, Current(l))
  PROVE  Root \in u <=> Root \in v
<1>1. /\ TypeOK /\ Len(plan.prog) \in Calls /\ Root = plan.n + Len(plan.prog)
      /\ Root \notin Pred
  BY PlanFields DEF QueryInv, Calls, Root
<1>2. RootRight(Root, l)
  BY <1>1 DEF QueryInv, EarlyInv
<1>3. l \notin Verdict(Root).equal
  BY <1>1 DEF Verdict, agg_equal
<1> QED BY <1>2, <1>3 DEF RootRight

(* And what it keeps is open.                                              *)
LEMMA KeptAreOpen ==
  ASSUME QueryInv, pc = "prune", NEW l \in agg_equal
  PROVE  LeavesOpen(EqualSoFar(Current(l)), Current(l))
<1> DEFINE x == Current(l)
           n == Len(plan.prog)
<1>1. /\ TypeOK /\ n \in Calls /\ n \in 0..n /\ Root = plan.n + n
      /\ Root \in Node \ Pred
  BY PlanFields DEF QueryInv, Calls, Root
<1>2. l \in Lane /\ l \in Verdict(Root).equal
  <2>1. agg[Root] \in Verdicts
    BY <1>1 DEF TypeOK
  <2> QED BY <1>1, <2>1 DEF agg_equal, Verdict, Verdicts
<1>3. RootRight(Root, l)
  BY <1>1, <1>2 DEF QueryInv, EarlyInv
<1>4. EqualSoFar(x) \in SUBSET Pred /\ \A p \in Pred : p \in EqualSoFar(x) <=> PrefixEqual(p, 1, x)
  BY DEF EqualSoFar
<1>5. PICK low \in SUBSET Node :
        FollowsTree(low, n) /\ \A p \in Pred : p \in low <=> ~PrefixEqual(p, 1, x) /\ Holds(p, x)
  <2> DEFINE s == {p \in Pred : ~PrefixEqual(p, 1, x) /\ Holds(p, x)}
  <2>1. s \in SUBSET Pred
    OBVIOUS
  <2>2. \E t \in SUBSET Node : FollowsTree(t, n) /\ \A p \in Pred : p \in t <=> p \in s
    <3> HIDE DEF s
    <3> QED BY <1>1, <2>1, TreeExtends
  <2> QED BY <2>2
<1>6. PICK high \in SUBSET Node :
        FollowsTree(high, n) /\ \A p \in Pred : p \in high <=> PrefixEqual(p, 1, x) \/ Holds(p, x)
  <2> DEFINE s == {p \in Pred : PrefixEqual(p, 1, x) \/ Holds(p, x)}
  <2>1. s \in SUBSET Pred
    OBVIOUS
  <2>2. \E t \in SUBSET Node : FollowsTree(t, n) /\ \A p \in Pred : p \in t <=> p \in s
    <3> HIDE DEF s
    <3> QED BY <1>1, <2>1, TreeExtends
  <2> QED BY <2>2
<1> HIDE DEF x
<1>7. IsLowest(low, x) /\ IsHighest(high, x)
  BY <1>5, <1>6 DEF IsLowest, IsHighest, Lowest, Highest
<1>8. Root \in high /\ Root \notin low
  BY <1>2, <1>3, <1>7 DEF RootRight, x
<1>9. low \in Valuations(EqualSoFar(x), x) /\ high \in Valuations(EqualSoFar(x), x)
  BY <1>1, <1>4, <1>5, <1>6, ValuationsAre
<1> QED BY <1>8, <1>9 DEF LeavesOpen, x

(* So the refinement finds what it needs.                                  *)
LEMMA QueryIsReady ==
  ASSUME QueryInv, pc = "prune"
  PROVE  ReadyToRefine
<1>1. TypeOK /\ TruthInv /\ ByteInv /\ WordInv /\ StoredBitsCorrect
  BY TruthAlways DEF QueryInv
<1>2. \A l \in Lane : l \in agg_equal \/ Settled(Current(l))
  BY DroppedAreSettled DEF Settled
<1>3. \A p \in Pred, l \in Lane : Exact(p, 1, l)
  BY DEF QueryInv, QueryFirstInv
<1> QED BY <1>1, <1>2, <1>3 DEF ReadyToRefine

(***************************************************************************)
(* The rest of the kernel.                                                 *)
(***************************************************************************)

(* From the refinement on the invariant is that of ConjunctiveScan.        *)
LEMMA KernelInv ==
  ASSUME QueryInv, pc \notin {"first", "aggregate", "prune"}
  PROVE  Inv
<1>1. TruthInv
  BY TruthAlways DEF QueryInv
<1>2. FirstInv /\ AggregateInv
  BY DEF FirstInv, AggregateInv
<1> QED BY <1>1, <1>2 DEF QueryInv, Inv

(* And back, at the end of a stage.                                        *)
LEMMA BackToQuery ==
  ASSUME QueryInv, Inv', UNCHANGED input, UNCHANGED codes,
         pc' \notin {"aggregate", "prune"}, QueryOpenInv', PathInv'
  PROVE  QueryInv'
<1>1. InputInv'
  BY SameQueryInput DEF QueryInv
<1>2. QueryFirstInv'
  BY DEF Inv, FirstInv, QueryFirstInv
<1>3. EarlyInv'
  BY DEF EarlyInv
<1> QED BY <1>1, <1>2, <1>3 DEF QueryInv, Inv

(* A kernel that skips the refinement is ready to fold its masks.          *)
LEMMA QuerySkipStep ==
  ASSUME QueryInv, SkipRefinement, UNCHANGED codes
  PROVE  QueryInv'
<1>1. pc = "prune" /\ pc' = "final" /\ UNCHANGED input
  BY DEF SkipRefinement
<1>2. Inv'
  BY <1>1, QueryIsReady, SkipRefinementStep
<1>3. QueryOpenInv' /\ PathInv'
  BY <1>1 DEF QueryOpenInv, PathInv
<1> QED BY <1>1, <1>2, <1>3, BackToQuery

(* One that enters it looks at open tuples only.                           *)
LEMMA QueryEnterStep ==
  ASSUME QueryInv, EnterRefinement, UNCHANGED codes
  PROVE  QueryInv'
<1>1. /\ TypeOK /\ pc = "prune" /\ pc' = "refine" /\ UNCHANGED input /\ UNCHANGED position
      /\ UNCHANGED agg /\ plan' = plan /\ plan.prunes
  BY DEF QueryInv, PathInv, EnterRefinement, input
<1>2. Inv'
  BY <1>1, QueryIsReady, EnterRefinementStep
<1>3. QueryOpenInv'
  <2>1. ASSUME NEW p \in plan.zeroed
        PROVE  mask'[p].equal \subseteq agg_equal
    <3>1. p \in Pred /\ mask[p] \in Masks
      BY <1>1, <2>1, PlanFields DEF TypeOK, IsPlan, Pred
    <3>2. mask'[p] = [mask[p] EXCEPT !.equal = @ \cap agg_equal]
      BY <1>1, <2>1, <3>1 DEF EnterRefinement
    <3> QED BY <3>1, <3>2 DEF Masks
  <2>2. \A l \in agg_equal : LeavesOpen(EqualSoFar(Current(l)), Current(l))
    BY <1>1, KeptAreOpen
  <2>3. \A l \in agg_equal : LeavesOpen(EqualSoFar(Current(l)), Current(l))'
    BY <1>1, <2>2, SameOpen, SamePosition
  <2> QED BY <1>1, <2>1, <2>3, SameLive DEF QueryOpenInv
<1>4. PathInv'
  BY <1>1 DEF PathInv
<1> QED BY <1>1, <1>2, <1>3, <1>4, BackToQuery

(* A later byte leaves no lane equal that was not.                         *)
LEMMA QueryRefineStep ==
  ASSUME QueryInv, RefineByte, UNCHANGED codes
  PROVE  QueryInv'
<1>1. /\ TypeOK /\ pc = "refine" /\ pc' = "refine" /\ UNCHANGED input /\ UNCHANGED position
      /\ UNCHANGED agg /\ plan' = plan /\ plan.prunes
  BY DEF QueryInv, PathInv, RefineByte, input
<1>2. Inv'
  BY <1>1, KernelInv, RefineByteStep
<1>3. ASSUME NEW p \in Pred
      PROVE  mask'[p].equal \subseteq mask[p].equal
  <2>1. mask'[p] = IF p \in plan.groups[index] THEN Refined(p) ELSE mask[p]
    BY <1>3 DEF RefineByte
  <2>2. CASE p \in plan.groups[index]
    <3>1. /\ ~plan.judges => plan.refineCmp[p] = plan.cmp[p]
          /\ plan.refineCmp[p] \in Ordering <=> plan.cmp[p] \in Ordering
      BY <1>1, <1>3, GroupFacts
    <3>2. Narrows(plan.cmp[p], Load(p, byte), LoadRight(p, byte), mask[p], Refined(p))
      BY <1>1, <1>3, <3>1, RefinedNarrows
    <3> QED BY <2>1, <2>2, <3>2 DEF Narrows
  <2> QED BY <2>1, <2>2
<1>4. QueryOpenInv'
  <2>1. plan.zeroed \subseteq Pred
    BY <1>1, PlanFields DEF IsPlan, Pred
  <2>2. \A l \in agg_equal : LeavesOpen(EqualSoFar(Current(l)), Current(l))'
    BY <1>1, SameOpen, SamePosition DEF QueryInv, QueryOpenInv
  <2>3. \A p \in plan.zeroed : mask'[p].equal \subseteq agg_equal
    BY <1>1, <1>3, <2>1 DEF QueryInv, QueryOpenInv
  <2> QED BY <1>1, <2>2, <2>3, SameLive DEF QueryOpenInv
<1>5. PathInv'
  BY <1>1 DEF PathInv
<1> QED BY <1>1, <1>2, <1>4, <1>5, BackToQuery

(* The groups share the open lanes.                                        *)
LEMMA QueryNextGroupStep ==
  ASSUME QueryInv, NextGroup, UNCHANGED codes
  PROVE  QueryInv'
<1>1. /\ pc = "refine" /\ pc' \in {"refine", "final"} /\ UNCHANGED input
      /\ UNCHANGED position /\ UNCHANGED agg /\ UNCHANGED mask /\ plan' = plan /\ plan.prunes
  BY DEF QueryInv, PathInv, NextGroup, Advance, input
<1>2. Inv'
  BY <1>1, KernelInv, NextGroupStep
<1>3. QueryOpenInv'
  <2>1. \A l \in agg_equal : LeavesOpen(EqualSoFar(Current(l)), Current(l))'
    BY <1>1, SameOpen, SamePosition DEF QueryInv, QueryOpenInv
  <2>2. \A p \in plan.zeroed : mask[p].equal \subseteq agg_equal
    BY <1>1 DEF QueryInv, QueryOpenInv
  <2> QED BY <1>1, <2>1, <2>2, SameLive DEF QueryOpenInv
<1>4. PathInv'
  BY <1>1 DEF PathInv
<1> QED BY <1>1, <1>2, <1>3, <1>4, BackToQuery

(* Folding the masks and storing the word is the kernel's.                 *)
LEMMA QueryFoldStep ==
  ASSUME QueryInv, PredicateMask \/ Combine \/ MoveMask \/ StoreWord, UNCHANGED codes
  PROVE  QueryInv'
<1>1. /\ pc \notin {"first", "aggregate", "prune"} /\ UNCHANGED input
      /\ pc' \notin {"aggregate", "prune", "refine"}
  BY DEF PredicateMask, Combine, MoveMask, StoreWord, Advance
<1>2. Inv'
  BY <1>1, KernelInv, PredicateMaskStep, CombineStep, MoveMaskStep, StoreWordStep
<1>3. QueryOpenInv'
  BY <1>1 DEF QueryOpenInv
<1>4. PathInv'
  <2>1. CASE StoreWord
    <3>1. bv_word_id \in 1..NumWords
      BY <2>1 DEF StoreWord, QueryInv, TypeOK
    <3> QED BY <1>1, <2>1, <3>1, SizesAssumption DEF StoreWord, PathInv
  <2>2. CASE ~StoreWord
    BY <1>1, <2>2 DEF PathInv, PredicateMask, Combine, MoveMask, Advance
  <2> QED BY <2>1, <2>2
<1> QED BY <1>1, <1>2, <1>3, <1>4, BackToQuery

(* A step that changes nothing.                                            *)
LEMMA QueryStutter ==
  ASSUME QueryInv, UNCHANGED queryVars
  PROVE  QueryInv'
<1>1. /\ TypeOK /\ UNCHANGED vars /\ UNCHANGED codes /\ UNCHANGED input
      /\ UNCHANGED position /\ UNCHANGED <<pc, index, byte, mask, agg, bitvector_word, bitmap>>
      /\ plan' = plan /\ bv_word_id' = bv_word_id
  BY DEF QueryInv, queryVars, vars, input, position
<1>2. CASE pc \in {"first", "aggregate", "prune"}
  <2>1. TypeOK'
    BY <1>1, TypeStep
  <2>2. QueryFirstInv'
    <3>1. \A p, l : Exact(p, 1, l)' <=> Exact(p, 1, l)
      BY <1>1, SameMask
    <3> QED BY <1>1, <3>1, SameInput DEF QueryInv, QueryFirstInv
  <2>3. EarlyInv'
    <3>1. \A r : Verdict(r)' = Verdict(r)
      BY <1>1, SameInput DEF Verdict
    <3>2. \A r, l : /\ StopsRight(r, l)' <=> StopsRight(r, l)
                    /\ MasksRight(r, l)' <=> MasksRight(r, l)
                    /\ RootRight(r, l)' <=> RootRight(r, l)
      BY <1>1, <3>1, SameQueryVerdict
    <3> QED BY <1>1, <3>2, SameInput DEF QueryInv, EarlyInv
  <2>4. WordInv' /\ StoredBitsCorrect'
    BY <1>1, <1>2, SameWord DEF QueryInv
  <2>5. InputInv'
    BY <1>1, SameQueryInput DEF QueryInv
  <2>6. ByteInv' /\ PathInv'
    BY <1>1 DEF QueryInv, ByteInv, PathInv
  <2>7. QueryOpenInv' /\ SettledInv' /\ CoherentInv' /\ RefineInv' /\ FinalInv'
    BY <1>1, <1>2 DEF QueryOpenInv, SettledInv, CoherentInv, RefineInv, FinalInv
  <2> QED BY <2>1, <2>2, <2>3, <2>4, <2>5, <2>6, <2>7 DEF QueryInv
<1>3. CASE pc \notin {"first", "aggregate", "prune"}
  <2>1. Inv'
    BY <1>1, <1>3, KernelInv, InvStutter
  <2>2. QueryOpenInv'
    <3>1. pc = "refine" => \A l \in agg_equal : LeavesOpen(EqualSoFar(Current(l)), Current(l))'
      BY <1>1, SameOpen, SamePosition DEF QueryInv, QueryOpenInv
    <3>2. pc = "refine" => \A p \in plan.zeroed : mask[p].equal \subseteq agg_equal
      BY DEF QueryInv, QueryOpenInv
    <3> QED BY <1>1, <3>1, <3>2, SameLive DEF QueryOpenInv
  <2>3. PathInv'
    BY <1>1 DEF QueryInv, PathInv
  <2> QED BY <1>1, <1>3, <2>1, <2>2, <2>3, BackToQuery
<1> QED BY <1>2, <1>3

----------------------------------------------------------------------------
(* The masks of a query's kernel are right at every stage, whatever the    *)
(* kernel, its literals and the table.                                     *)
THEOREM QueryInvCorrect == QuerySpec => []QueryInv
<1>1. QueryInit => QueryInv
  BY QueryInvInit
<1>2. ASSUME QueryInv, [QueryNext]_queryVars
      PROVE  QueryInv'
  <2>1. CASE QueryFirstByte
    BY <1>2, <2>1, QueryFirstByteStep
  <2>2. CASE QueryAggregate
    BY <1>2, <2>2, QueryAggregateStep
  <2>3. CASE KernelStep
    <3>1. UNCHANGED codes
      BY <2>3 DEF KernelStep
    <3>2. CASE SkipRefinement
      BY <1>2, <3>1, <3>2, QuerySkipStep
    <3>3. CASE EnterRefinement
      BY <1>2, <3>1, <3>3, QueryEnterStep
    <3>4. CASE RefineByte
      BY <1>2, <3>1, <3>4, QueryRefineStep
    <3>5. CASE NextGroup
      BY <1>2, <3>1, <3>5, QueryNextGroupStep
    <3>6. CASE PredicateMask \/ Combine \/ MoveMask \/ StoreWord
      BY <1>2, <3>1, <3>6, QueryFoldStep
    <3> QED BY <2>3, <3>2, <3>3, <3>4, <3>5, <3>6 DEF KernelStep
  <2>4. CASE UNCHANGED queryVars
    BY <1>2, <2>4, QueryStutter
  <2> QED BY <1>2, <2>1, <2>2, <2>3, <2>4 DEF QueryNext
<1> QED BY <1>1, <1>2, PTL DEF QuerySpec

(* The aggregate of the first byte slices, tmp_result included, drops a    *)
(* tuple only when no later byte can change its bit.                       *)
THEOREM DroppedTuplesAreSettled == QuerySpec => []DroppedLanesAreSettled
<1>1. ASSUME QueryInv PROVE DroppedLanesAreSettled
  <2> SUFFICES ASSUME pc = "prune", NEW l \in Lane \ agg_equal,
                      NEW t \in Valuations(Unsettled(Current(l)), Current(l)), Root \in t,
                      NEW u \in Valuations(Unsettled(Current(l)), Current(l)), Root \notin u
               PROVE  FALSE
    BY DEF DroppedLanesAreSettled, LeavesOpen
  <2>1. TypeOK /\ Current(l) \in Tuple
    BY <1>1, CurrentTuple DEF QueryInv
  <2>2. /\ t \in SUBSET Node /\ Outcome(t, Current(l))
        /\ u \in SUBSET Node /\ Outcome(u, Current(l))
    BY <2>1, UnsettledIsOutcome
  <2> QED BY <1>1, <2>2, DroppedAreSettled
<1> QED BY <1>1, QueryInvCorrect, PTL

(* A later byte slice is loaded only for a tuple that the first bytes      *)
(* leave open and that agrees with its predicate on every byte before.     *)
THEOREM QueriesLoadWhatIsOpen == QuerySpec => QueryLoadsOnlyWhatIsOpen
<1> DEFINE Needed == \E l \in Lane, p \in plan.groups[index] :
                       /\ LeavesOpen(EqualSoFar(Current(l)), Current(l))
                       /\ PrefixEqual(p, byte - 1, Current(l))
<1>1. ASSUME QueryInv, RefineByte
      PROVE  Needed
  <2>1. TypeOK /\ pc = "refine" /\ byte \in Nat \ {0, 1}
    BY <1>1 DEF QueryInv, TypeOK, RefineByte
  <2>2. PICK p \in plan.groups[index] : byte <= plan.bytes[p] /\ mask[p].equal # {}
    BY <1>1 DEF RefineByte, SliceWanted
  <2>3. /\ p \in Pred /\ plan.bytes[p] \in 1..LAST_BYTE
        /\ \A g \in 1..(index - 1) : p \notin plan.groups[g]
    BY <2>1, <2>2, GroupFacts
  <2>4. p \in plan.zeroed
    <3>1. IsQuery(plan) /\ index \in 1..Len(plan.groups)
      BY <2>1, QueriesAssumption, GroupFacts DEF TypeOK
    <3> QED BY <2>2, <3>1 DEF IsQuery
  <2>5. mask[p] \in Masks
    BY <2>1, <2>3 DEF TypeOK
  <2>6. PICK l \in Lane : l \in mask[p].equal
    BY <2>2, <2>5 DEF Masks
  <2>7. l \in agg_equal /\ LeavesOpen(EqualSoFar(Current(l)), Current(l))
    BY <1>1, <2>1, <2>4, <2>6 DEF QueryInv, QueryOpenInv
  <2>8. ~Finished(p) /\ Depth(p) = byte - 1
    BY <2>1, <2>2, <2>3, SizesAssumption DEF Finished, Depth
  <2>9. Exact(p, byte - 1, l)
    BY <1>1, <2>1, <2>3, <2>7, <2>8 DEF QueryInv, RefineInv, Live
  <2>10. PrefixEqual(p, byte - 1, Current(l))
    BY <2>6, <2>9 DEF Exact
  <2> QED BY <2>2, <2>7, <2>10
<1>2. QueryInv /\ [QueryNext]_queryVars => [RefineByte => Needed]_queryVars
  BY <1>1
<1> QED BY <1>2, QueryInvCorrect, PTL DEF QuerySpec, QueryLoadsOnlyWhatIsOpen

----------------------------------------------------------------------------
(***************************************************************************)
(* The drivers' test of a kernel that flips its literals.                  *)
(***************************************************************************)

(* The codes a predicate compares, and what the comparison says of them.   *)
LeftCode(k, p, c) == c[k.column[p]]
RightCode(k, p, c) == IF k.right[p] = 0 THEN k.value[p] ELSE c[k.right[p]]

Meets(k, p, c) ==
  LET u == LeftCode(k, p, c)
      v == RightCode(k, p, c)
  IN CASE k.cmp[p] = "kEqual" -> u = v
       [] k.cmp[p] = "kInequal" -> u # v
       [] k.cmp[p] = "kLess" -> u < v
       [] k.cmp[p] = "kLessEqual" -> u <= v
       [] k.cmp[p] = "kGreater" -> u > v
       [] k.cmp[p] = "kGreaterEqual" -> u >= v

(* The bytes a kernel compares are the slices of the codes.                *)
LEMMA BytesOfCodes ==
  ASSUME TypeOK, InputInv, plan.flips, NEW p \in Pred, NEW x \in Tuple
  PROVE  LET w == plan.width[plan.column[p]]
             u == LeftCode(plan, p, codes[x])
             v == RightCode(plan, p, codes[x])
         IN /\ w \in 1..32 /\ plan.bytes[p] = kNumBytesPerCode(w)
            /\ u \in CodesOf(w) /\ v \in CodesOf(w)
            /\ \A b \in 1..plan.bytes[p] :
                 /\ CodeByte(p, b, x) = SignedSlices(u, w)[b]
                 /\ RightByte(p, b, x) = SignedSlices(v, w)[b]
<1> DEFINE w == plan.width[plan.column[p]]
           u == LeftCode(plan, p, codes[x])
           v == RightCode(plan, p, codes[x])
<1>1. /\ plan \in Plans /\ codes \in Tables(plan) /\ p \in 1..plan.n
      /\ plan.column[p] \in {plan.column[p], plan.right[p]} \ {0}
      /\ plan.bytes[p] \in Nat \ {0}
  BY PlanFields DEF TypeOK, InputInv, IsPlan, Pred
<1>2. ASSUME NEW b \in 1..plan.bytes[p], NEW c \in {plan.column[p], plan.right[p]} \ {0}
      PROVE  /\ plan.width[c] \in 1..32 /\ plan.bytes[p] = kNumBytesPerCode(plan.width[c])
             /\ codes[x][c] \in CodesOf(plan.width[c])
             /\ data[<<c, b>>][x] = SignedSlices(codes[x][c], plan.width[c])[b]
  <2>1. <<c, b>> \in Slices(plan)
    BY <1>1, SMT DEF Slices
  <2>2. data[<<c, b>>] = StoredSlice(c, b)
    BY <2>1 DEF InputInv
  <2>3. data[<<c, b>>][x] = AsSigned(SetTuple(codes[x][c], plan.width[c])[b])
    BY <2>2 DEF StoredSlice
  <2> QED BY <1>1, <2>3, StoredSlices
<1>3. 1 \in 1..plan.bytes[p]
  BY <1>1
<1>4. w \in 1..32 /\ plan.bytes[p] = kNumBytesPerCode(w) /\ u \in CodesOf(w)
  BY <1>1, <1>2, <1>3 DEF LeftCode
<1>5. \A b \in 1..plan.bytes[p] : CodeByte(p, b, x) = SignedSlices(u, w)[b]
  BY <1>1, <1>2 DEF CodeByte, LeftCode
<1>6. CASE plan.right[p] = 0
  <2>1. v = plan.value[p]
    BY <1>6 DEF RightCode
  <2>2. ASSUME NEW b \in 1..plan.bytes[p]
        PROVE  v \in CodesOf(w) /\ RightByte(p, b, x) = SignedSlices(v, w)[b]
    <3>1. <<p, b>> \in LiteralSlices(plan)
      BY <1>1, <1>6, SMT DEF LiteralSlices
    <3>2. literal[<<p, b>>] = PreparedLiteral(p, b)
      BY <3>1 DEF InputInv
    <3>3. RightByte(p, b, x) = PreparedLiteral(p, b)
      BY <1>6, <3>2 DEF RightByte
    <3> QED BY <1>1, <1>6, <2>1, <3>3, LiteralBytes DEF PreparedLiteral
  <2> QED BY <1>3, <1>4, <1>5, <2>2
<1>7. CASE plan.right[p] # 0
  <2>1. plan.right[p] \in {plan.column[p], plan.right[p]} \ {0}
    BY <1>7
  <2>2. plan.width[plan.right[p]] = w
    BY <1>1, <1>7, QueriesAssumption DEF IsQuery
  <2>3. v = codes[x][plan.right[p]]
    BY <1>7 DEF RightCode
  <2>4. ASSUME NEW b \in 1..plan.bytes[p]
        PROVE  v \in CodesOf(w) /\ RightByte(p, b, x) = SignedSlices(v, w)[b]
    BY <1>2, <1>7, <2>1, <2>2, <2>3 DEF RightByte
  <2> QED BY <1>3, <1>4, <1>5, <2>4
<1> QED BY <1>6, <1>7

(* So a predicate holds if its comparison of the codes does.               *)
LEMMA HoldsOnCodes ==
  ASSUME TypeOK, InputInv, plan.flips, NEW p \in Pred, NEW x \in Tuple
  PROVE  Holds(p, x) <=> Meets(plan, p, codes[x])
<1> DEFINE w == plan.width[plan.column[p]]
           u == LeftCode(plan, p, codes[x])
           v == RightCode(plan, p, codes[x])
           n == plan.bytes[p]
<1>1. /\ w \in 1..32 /\ n = kNumBytesPerCode(w) /\ u \in CodesOf(w) /\ v \in CodesOf(w)
      /\ \A b \in 1..n : /\ CodeByte(p, b, x) = SignedSlices(u, w)[b]
                         /\ RightByte(p, b, x) = SignedSlices(v, w)[b]
  BY BytesOfCodes
<1>2. n \in Nat /\ plan.cmp[p] \in Comparator
  BY PlanFields
<1> HIDE DEF w, u, v
<1>3. \A b \in 0..n : /\ PrefixEqual(p, b, x)
                           <=> SamePrefix(SignedSlices(u, w), SignedSlices(v, w), b)
                      /\ PrefixEqual(p, b, x)
                           <=> SamePrefix(SignedSlices(v, w), SignedSlices(u, w), b)
  BY <1>1, <1>2 DEF PrefixEqual, SamePrefix
<1>4. PrefixLess(p, n, x) <=> LowerPrefix(SignedSlices(u, w), SignedSlices(v, w), n)
  BY <1>1, <1>2, <1>3 DEF PrefixLess, LowerPrefix
<1>5. PrefixGreater(p, n, x) <=> LowerPrefix(SignedSlices(v, w), SignedSlices(u, w), n)
  BY <1>1, <1>2, <1>3 DEF PrefixGreater, LowerPrefix
<1>6. /\ u = v <=> PrefixEqual(p, n, x)
      /\ u < v <=> PrefixLess(p, n, x)
      /\ v < u <=> PrefixGreater(p, n, x)
  BY <1>1, <1>2, <1>3, <1>4, <1>5, SliceOrder
<1>7. u \in Int /\ v \in Int
  BY <1>1 DEF CodesOf
<1> QED BY <1>2, <1>6, <1>7 DEF Holds, Meets, Comparator, Ordering, u, v

(* What a comparison says, by its comparator.                              *)
LEMMA MeetsCases ==
  ASSUME NEW k, NEW p, NEW c
  PROVE  LET u == LeftCode(k, p, c)
             v == RightCode(k, p, c)
         IN /\ k.cmp[p] = "kEqual" => (Meets(k, p, c) <=> u = v)
            /\ k.cmp[p] = "kLess" => (Meets(k, p, c) <=> u < v)
            /\ k.cmp[p] = "kLessEqual" => (Meets(k, p, c) <=> u <= v)
            /\ k.cmp[p] = "kGreater" => (Meets(k, p, c) <=> u > v)
            /\ k.cmp[p] = "kGreaterEqual" => (Meets(k, p, c) <=> u >= v)
  BY DEF Meets

(* FollowsTree of a kernel that is given.                                  *)
FollowsCalls(k, t) ==
  \A i \in 1..Len(k.prog) :
    k.n + i \in t <=> IF k.prog[i].op = "kAnd" THEN k.prog[i].a \in t /\ k.prog[i].b \in t
                                               ELSE k.prog[i].a \in t \/ k.prog[i].b \in t

(* The kernel's tree and its driver's expression agree on all codes.       *)
AnswersQuery(k) ==
  \A c, t :
    FollowsCalls(k, t) /\ (\A p \in 1..k.n : p \in t <=> Meets(k, p, c)) =>
      (k.n + Len(k.prog) \in t <=> real(k, c))

(* Q1, Q14 and Q15: a date in a range.                                     *)
LEMMA AnswerDateRange ==
  ASSUME NEW name, NEW low, NEW high, name \in {"Q1", "Q14", "Q15"}
  PROVE  AnswersQuery(DateRange(name, low, high))
<1> DEFINE k == DateRange(name, low, high)
<1>1. k.n = 2 /\ Len(k.prog) = 1 /\ k.query = name
  BY DEF DateRange, Query
<1>2. k.prog[1] = And(1, 2)
  BY DEF DateRange, Query
<1>3. /\ k.cmp[1] = "kGreater" /\ k.column[1] = 1 /\ k.right[1] = 0
      /\ k.cmp[2] = "kLess" /\ k.column[2] = 1 /\ k.right[2] = 0
  BY DEF DateRange, Query, Compare
<1> HIDE DEF k
<1>4. SUFFICES ASSUME NEW c, NEW t, FollowsCalls(k, t),
                      \A p \in 1..k.n : p \in t <=> Meets(k, p, c)
               PROVE  k.n + Len(k.prog) \in t <=> real(k, c)
  BY DEF AnswersQuery, k
<1>5. /\ 1 \in t <=> c[1] > k.value[1]
      /\ 2 \in t <=> c[1] < k.value[2]
  <2>1. \A p \in 1..2 : p \in t <=> Meets(k, p, c)
    BY <1>1, <1>4
  <2>2. /\ LeftCode(k, 1, c) = c[1] /\ RightCode(k, 1, c) = k.value[1]
        /\ LeftCode(k, 2, c) = c[1] /\ RightCode(k, 2, c) = k.value[2]
    BY <1>3 DEF LeftCode, RightCode
  <2> QED BY <1>3, <2>1, <2>2, MeetsCases
<1>6. 3 \in t <=> 1 \in t /\ 2 \in t
  BY <1>1, <1>2, <1>4 DEF FollowsCalls, And
<1>7. real(k, c) <=> real_Q1(k, c)
  BY <1>1 DEF real
<1> QED BY <1>1, <1>5, <1>6, <1>7 DEF real_Q1

(* Q3: a segment, and two dates.                                           *)
LEMMA AnswerQ3 ==
  AnswersQuery(Q3)
<1> DEFINE k == Q3
<1>1. k.n = 3 /\ Len(k.prog) = 2 /\ k.query = "Q3"
  BY DEF Q3, Query
<1>2. /\ k.prog[1] = And(1, 2) /\ k.prog[2] = And(4, 3)
  BY DEF Q3, Query
<1>3. /\ k.cmp[1] = "kEqual" /\ k.column[1] = 1 /\ k.right[1] = 0
      /\ k.cmp[2] = "kLess" /\ k.column[2] = 2 /\ k.right[2] = 0
      /\ k.cmp[3] = "kGreater" /\ k.column[3] = 3 /\ k.right[3] = 0
  BY DEF Q3, Query, Compare
<1> HIDE DEF k
<1>4. SUFFICES ASSUME NEW c, NEW t, FollowsCalls(k, t),
                      \A p \in 1..k.n : p \in t <=> Meets(k, p, c)
               PROVE  k.n + Len(k.prog) \in t <=> real(k, c)
  BY DEF AnswersQuery, k
<1>5. /\ 1 \in t <=> c[1] = k.value[1]
      /\ 2 \in t <=> c[2] < k.value[2]
      /\ 3 \in t <=> c[3] > k.value[3]
  <2>1. \A p \in 1..3 : p \in t <=> Meets(k, p, c)
    BY <1>1, <1>4
  <2>2. /\ LeftCode(k, 1, c) = c[1] /\ RightCode(k, 1, c) = k.value[1]
        /\ LeftCode(k, 2, c) = c[2] /\ RightCode(k, 2, c) = k.value[2]
        /\ LeftCode(k, 3, c) = c[3] /\ RightCode(k, 3, c) = k.value[3]
    BY <1>3 DEF LeftCode, RightCode
  <2> QED BY <1>3, <2>1, <2>2, MeetsCases
<1>6. /\ 4 \in t <=> 1 \in t /\ 2 \in t
      /\ 5 \in t <=> 4 \in t /\ 3 \in t
  BY <1>1, <1>2, <1>4 DEF FollowsCalls, And
<1>7. real(k, c) <=> real_Q3(k, c)
  BY <1>1 DEF real
<1> QED BY <1>1, <1>5, <1>6, <1>7 DEF real_Q3

(* Q5 and Q10: a key, and a date in a range.                               *)
LEMMA AnswerKeyAndDateRange ==
  ASSUME NEW name, NEW key, NEW low, NEW high, name \in {"Q5", "Q10"}
  PROVE  AnswersQuery(KeyAndDateRange(name, key, low, high))
<1> DEFINE k == KeyAndDateRange(name, key, low, high)
<1>1. k.n = 3 /\ Len(k.prog) = 2 /\ k.query = name
  BY DEF KeyAndDateRange, Query
<1>2. /\ k.prog[1] = And(1, 2) /\ k.prog[2] = And(4, 3)
  BY DEF KeyAndDateRange, Query
<1>3. /\ k.cmp[1] = "kEqual" /\ k.column[1] = 1 /\ k.right[1] = 0
      /\ k.cmp[2] = "kGreaterEqual" /\ k.column[2] = 2 /\ k.right[2] = 0
      /\ k.cmp[3] = "kLess" /\ k.column[3] = 2 /\ k.right[3] = 0
  BY DEF KeyAndDateRange, Query, Compare
<1> HIDE DEF k
<1>4. SUFFICES ASSUME NEW c, NEW t, FollowsCalls(k, t),
                      \A p \in 1..k.n : p \in t <=> Meets(k, p, c)
               PROVE  k.n + Len(k.prog) \in t <=> real(k, c)
  BY DEF AnswersQuery, k
<1>5. /\ 1 \in t <=> c[1] = k.value[1]
      /\ 2 \in t <=> c[2] >= k.value[2]
      /\ 3 \in t <=> c[2] < k.value[3]
  <2>1. \A p \in 1..3 : p \in t <=> Meets(k, p, c)
    BY <1>1, <1>4
  <2>2. /\ LeftCode(k, 1, c) = c[1] /\ RightCode(k, 1, c) = k.value[1]
        /\ LeftCode(k, 2, c) = c[2] /\ RightCode(k, 2, c) = k.value[2]
        /\ LeftCode(k, 3, c) = c[2] /\ RightCode(k, 3, c) = k.value[3]
    BY <1>3 DEF LeftCode, RightCode
  <2> QED BY <1>3, <2>1, <2>2, MeetsCases
<1>6. /\ 4 \in t <=> 1 \in t /\ 2 \in t
      /\ 5 \in t <=> 4 \in t /\ 3 \in t
  BY <1>1, <1>2, <1>4 DEF FollowsCalls, And
<1>7. real(k, c) <=> real_Q5(k, c)
  BY <1>1 DEF real
<1> QED BY <1>1, <1>5, <1>6, <1>7 DEF real_Q5

(* Q6: a date and a discount in ranges, and a bounded quantity.            *)
LEMMA AnswerQ6 ==
  AnswersQuery(Q6)
<1> DEFINE k == Q6
<1>1. k.n = 5 /\ Len(k.prog) = 4 /\ k.query = "Q6"
  BY DEF Q6, Q6_predicates, Q6_result, Query
<1>2. /\ k.prog[1] = And(1, 2) /\ k.prog[2] = And(3, 4) /\ k.prog[3] = And(6, 5)
      /\ k.prog[4] = And(8, 7)
  BY DEF Q6, Q6_predicates, Q6_result, Query
<1>3. /\ k.cmp[1] = "kGreaterEqual" /\ k.column[1] = 1 /\ k.right[1] = 0
      /\ k.cmp[2] = "kLess" /\ k.column[2] = 1 /\ k.right[2] = 0
      /\ k.cmp[3] = "kGreaterEqual" /\ k.column[3] = 2 /\ k.right[3] = 0
      /\ k.cmp[4] = "kLessEqual" /\ k.column[4] = 2 /\ k.right[4] = 0
      /\ k.cmp[5] = "kLess" /\ k.column[5] = 3 /\ k.right[5] = 0
  BY DEF Q6, Q6_predicates, Q6_result, Query, Compare
<1> HIDE DEF k
<1>4. SUFFICES ASSUME NEW c, NEW t, FollowsCalls(k, t),
                      \A p \in 1..k.n : p \in t <=> Meets(k, p, c)
               PROVE  k.n + Len(k.prog) \in t <=> real(k, c)
  BY DEF AnswersQuery, k
<1>5. /\ 1 \in t <=> c[1] >= k.value[1]
      /\ 2 \in t <=> c[1] < k.value[2]
      /\ 3 \in t <=> c[2] >= k.value[3]
      /\ 4 \in t <=> c[2] <= k.value[4]
      /\ 5 \in t <=> c[3] < k.value[5]
  <2>1. \A p \in 1..5 : p \in t <=> Meets(k, p, c)
    BY <1>1, <1>4
  <2>2. /\ LeftCode(k, 1, c) = c[1] /\ RightCode(k, 1, c) = k.value[1]
        /\ LeftCode(k, 2, c) = c[1] /\ RightCode(k, 2, c) = k.value[2]
        /\ LeftCode(k, 3, c) = c[2] /\ RightCode(k, 3, c) = k.value[3]
        /\ LeftCode(k, 4, c) = c[2] /\ RightCode(k, 4, c) = k.value[4]
        /\ LeftCode(k, 5, c) = c[3] /\ RightCode(k, 5, c) = k.value[5]
    BY <1>3 DEF LeftCode, RightCode
  <2> QED BY <1>3, <2>1, <2>2, MeetsCases
<1>6. /\ 6 \in t <=> 1 \in t /\ 2 \in t
      /\ 7 \in t <=> 3 \in t /\ 4 \in t
      /\ 8 \in t <=> 6 \in t /\ 5 \in t
      /\ 9 \in t <=> 8 \in t /\ 7 \in t
  BY <1>1, <1>2, <1>4 DEF FollowsCalls, And
<1>7. real(k, c) <=> real_Q6(k, c)
  BY <1>1 DEF real
<1> QED BY <1>1, <1>5, <1>6, <1>7 DEF real_Q6

(* Q7: two nations either way round, and a date in a range.                *)
LEMMA AnswerQ7 ==
  AnswersQuery(Q7)
<1> DEFINE k == Q7
<1>1. k.n = 6 /\ Len(k.prog) = 5 /\ k.query = "Q7"
  BY DEF Q7, Q7_predicates, Q7_result, Query
<1>2. /\ k.prog[1] = And(1, 2) /\ k.prog[2] = And(3, 4) /\ k.prog[3] = Or(7, 8)
      /\ k.prog[4] = And(6, 5) /\ k.prog[5] = And(10, 9)
  BY DEF Q7, Q7_predicates, Q7_result, Query
<1>3. /\ k.cmp[1] = "kEqual" /\ k.column[1] = 1 /\ k.right[1] = 0
      /\ k.cmp[2] = "kEqual" /\ k.column[2] = 2 /\ k.right[2] = 0
      /\ k.cmp[3] = "kEqual" /\ k.column[3] = 1 /\ k.right[3] = 0
      /\ k.cmp[4] = "kEqual" /\ k.column[4] = 2 /\ k.right[4] = 0
      /\ k.cmp[5] = "kGreaterEqual" /\ k.column[5] = 3 /\ k.right[5] = 0
      /\ k.cmp[6] = "kLessEqual" /\ k.column[6] = 3 /\ k.right[6] = 0
  BY DEF Q7, Q7_predicates, Q7_result, Query, Compare
<1> HIDE DEF k
<1>4. SUFFICES ASSUME NEW c, NEW t, FollowsCalls(k, t),
                      \A p \in 1..k.n : p \in t <=> Meets(k, p, c)
               PROVE  k.n + Len(k.prog) \in t <=> real(k, c)
  BY DEF AnswersQuery, k
<1>5. /\ 1 \in t <=> c[1] = k.value[1]
      /\ 2 \in t <=> c[2] = k.value[2]
      /\ 3 \in t <=> c[1] = k.value[3]
      /\ 4 \in t <=> c[2] = k.value[4]
      /\ 5 \in t <=> c[3] >= k.value[5]
      /\ 6 \in t <=> c[3] <= k.value[6]
  <2>1. \A p \in 1..6 : p \in t <=> Meets(k, p, c)
    BY <1>1, <1>4
  <2>2. /\ LeftCode(k, 1, c) = c[1] /\ RightCode(k, 1, c) = k.value[1]
        /\ LeftCode(k, 2, c) = c[2] /\ RightCode(k, 2, c) = k.value[2]
        /\ LeftCode(k, 3, c) = c[1] /\ RightCode(k, 3, c) = k.value[3]
        /\ LeftCode(k, 4, c) = c[2] /\ RightCode(k, 4, c) = k.value[4]
        /\ LeftCode(k, 5, c) = c[3] /\ RightCode(k, 5, c) = k.value[5]
        /\ LeftCode(k, 6, c) = c[3] /\ RightCode(k, 6, c) = k.value[6]
    BY <1>3 DEF LeftCode, RightCode
  <2> QED BY <1>3, <2>1, <2>2, MeetsCases
<1>6. /\ 7 \in t <=> 1 \in t /\ 2 \in t
      /\ 8 \in t <=> 3 \in t /\ 4 \in t
      /\ 9 \in t <=> 7 \in t \/ 8 \in t
      /\ 10 \in t <=> 6 \in t /\ 5 \in t
      /\ 11 \in t <=> 10 \in t /\ 9 \in t
  BY <1>1, <1>2, <1>4 DEF FollowsCalls, And, Or
<1>7. real(k, c) <=> real_Q7(k, c)
  BY <1>1 DEF real
<1>8. k.value[3] = k.value[2] /\ k.value[4] = k.value[1]
  BY DEF k, Q7, Q7_predicates, Q7_result, Query, Compare
<1> QED BY <1>1, <1>5, <1>6, <1>7, <1>8 DEF real_Q7, Within

(* Q8: a region and a type, and a date in a range.                         *)
LEMMA AnswerQ8 ==
  AnswersQuery(Q8)
<1> DEFINE k == Q8
<1>1. k.n = 4 /\ Len(k.prog) = 3 /\ k.query = "Q8"
  BY DEF Q8, Query
<1>2. /\ k.prog[1] = And(1, 2) /\ k.prog[2] = And(3, 4) /\ k.prog[3] = And(5, 6)
  BY DEF Q8, Query
<1>3. /\ k.cmp[1] = "kEqual" /\ k.column[1] = 1 /\ k.right[1] = 0
      /\ k.cmp[2] = "kGreaterEqual" /\ k.column[2] = 2 /\ k.right[2] = 0
      /\ k.cmp[3] = "kLessEqual" /\ k.column[3] = 2 /\ k.right[3] = 0
      /\ k.cmp[4] = "kEqual" /\ k.column[4] = 3 /\ k.right[4] = 0
  BY DEF Q8, Query, Compare
<1> HIDE DEF k
<1>4. SUFFICES ASSUME NEW c, NEW t, FollowsCalls(k, t),
                      \A p \in 1..k.n : p \in t <=> Meets(k, p, c)
               PROVE  k.n + Len(k.prog) \in t <=> real(k, c)
  BY DEF AnswersQuery, k
<1>5. /\ 1 \in t <=> c[1] = k.value[1]
      /\ 2 \in t <=> c[2] >= k.value[2]
      /\ 3 \in t <=> c[2] <= k.value[3]
      /\ 4 \in t <=> c[3] = k.value[4]
  <2>1. \A p \in 1..4 : p \in t <=> Meets(k, p, c)
    BY <1>1, <1>4
  <2>2. /\ LeftCode(k, 1, c) = c[1] /\ RightCode(k, 1, c) = k.value[1]
        /\ LeftCode(k, 2, c) = c[2] /\ RightCode(k, 2, c) = k.value[2]
        /\ LeftCode(k, 3, c) = c[2] /\ RightCode(k, 3, c) = k.value[3]
        /\ LeftCode(k, 4, c) = c[3] /\ RightCode(k, 4, c) = k.value[4]
    BY <1>3 DEF LeftCode, RightCode
  <2> QED BY <1>3, <2>1, <2>2, MeetsCases
<1>6. /\ 5 \in t <=> 1 \in t /\ 2 \in t
      /\ 6 \in t <=> 3 \in t /\ 4 \in t
      /\ 7 \in t <=> 5 \in t /\ 6 \in t
  BY <1>1, <1>2, <1>4 DEF FollowsCalls, And
<1>7. real(k, c) <=> real_Q8(k, c)
  BY <1>1 DEF real
<1> QED BY <1>1, <1>5, <1>6, <1>7 DEF real_Q8, Within

(* Q12: one of two ship modes, dates in order, and one in a range.         *)
LEMMA AnswerQ12 ==
  AnswersQuery(Q12)
<1> DEFINE k == Q12
<1>1. k.n = 6 /\ Len(k.prog) = 5 /\ k.query = "Q12"
  BY DEF Q12, Q12_predicates, Q12_refined, Q12_result, Query
<1>2. /\ k.prog[1] = Or(1, 2) /\ k.prog[2] = And(6, 3) /\ k.prog[3] = And(4, 5)
      /\ k.prog[4] = And(8, 9) /\ k.prog[5] = And(10, 7)
  BY DEF Q12, Q12_predicates, Q12_refined, Q12_result, Query
<1>3. /\ k.cmp[1] = "kEqual" /\ k.column[1] = 1 /\ k.right[1] = 0
      /\ k.cmp[2] = "kEqual" /\ k.column[2] = 1 /\ k.right[2] = 0
      /\ k.cmp[3] = "kLess" /\ k.column[3] = 2 /\ k.right[3] = 3
      /\ k.cmp[4] = "kLess" /\ k.column[4] = 4 /\ k.right[4] = 2
      /\ k.cmp[5] = "kGreaterEqual" /\ k.column[5] = 3 /\ k.right[5] = 0
      /\ k.cmp[6] = "kLess" /\ k.column[6] = 3 /\ k.right[6] = 0
  BY DEF Q12, Q12_predicates, Q12_refined, Q12_result, Query, Compare, CompareColumns
<1> HIDE DEF k
<1>4. SUFFICES ASSUME NEW c, NEW t, FollowsCalls(k, t),
                      \A p \in 1..k.n : p \in t <=> Meets(k, p, c)
               PROVE  k.n + Len(k.prog) \in t <=> real(k, c)
  BY DEF AnswersQuery, k
<1>5. /\ 1 \in t <=> c[1] = k.value[1]
      /\ 2 \in t <=> c[1] = k.value[2]
      /\ 3 \in t <=> c[2] < c[3]
      /\ 4 \in t <=> c[4] < c[2]
      /\ 5 \in t <=> c[3] >= k.value[5]
      /\ 6 \in t <=> c[3] < k.value[6]
  <2>1. \A p \in 1..6 : p \in t <=> Meets(k, p, c)
    BY <1>1, <1>4
  <2>2. /\ LeftCode(k, 1, c) = c[1] /\ RightCode(k, 1, c) = k.value[1]
        /\ LeftCode(k, 2, c) = c[1] /\ RightCode(k, 2, c) = k.value[2]
        /\ LeftCode(k, 3, c) = c[2] /\ RightCode(k, 3, c) = c[3]
        /\ LeftCode(k, 4, c) = c[4] /\ RightCode(k, 4, c) = c[2]
        /\ LeftCode(k, 5, c) = c[3] /\ RightCode(k, 5, c) = k.value[5]
        /\ LeftCode(k, 6, c) = c[3] /\ RightCode(k, 6, c) = k.value[6]
    BY <1>3 DEF LeftCode, RightCode
  <2> QED BY <1>3, <2>1, <2>2, MeetsCases
<1>6. /\ 7 \in t <=> 1 \in t \/ 2 \in t
      /\ 8 \in t <=> 6 \in t /\ 3 \in t
      /\ 9 \in t <=> 4 \in t /\ 5 \in t
      /\ 10 \in t <=> 8 \in t /\ 9 \in t
      /\ 11 \in t <=> 10 \in t /\ 7 \in t
  BY <1>1, <1>2, <1>4 DEF FollowsCalls, And, Or
<1>7. real(k, c) <=> real_Q12(k, c)
  BY <1>1 DEF real
<1>8. In(c[1], k, {1, 2}) <=> c[1] = k.value[1] \/ c[1] = k.value[2]
  BY DEF In
<1> QED BY <1>1, <1>5, <1>6, <1>7, <1>8 DEF real_Q12

(* Q17: a brand and a container, and a bounded quantity.                   *)
LEMMA AnswerQ17 ==
  AnswersQuery(Q17)
<1> DEFINE k == Q17
<1>1. k.n = 3 /\ Len(k.prog) = 2 /\ k.query = "Q17"
  BY DEF Q17, OneByteQuery, Query
<1>2. /\ k.prog[1] = And(1, 2) /\ k.prog[2] = And(4, 3)
  BY DEF Q17, OneByteQuery, Query
<1>3. /\ k.cmp[1] = "kEqual" /\ k.column[1] = 1 /\ k.right[1] = 0
      /\ k.cmp[2] = "kEqual" /\ k.column[2] = 2 /\ k.right[2] = 0
      /\ k.cmp[3] = "kLess" /\ k.column[3] = 3 /\ k.right[3] = 0
  BY DEF Q17, OneByteQuery, Query, Compare
<1> HIDE DEF k
<1>4. SUFFICES ASSUME NEW c, NEW t, FollowsCalls(k, t),
                      \A p \in 1..k.n : p \in t <=> Meets(k, p, c)
               PROVE  k.n + Len(k.prog) \in t <=> real(k, c)
  BY DEF AnswersQuery, k
<1>5. /\ 1 \in t <=> c[1] = k.value[1]
      /\ 2 \in t <=> c[2] = k.value[2]
      /\ 3 \in t <=> c[3] < k.value[3]
  <2>1. \A p \in 1..3 : p \in t <=> Meets(k, p, c)
    BY <1>1, <1>4
  <2>2. /\ LeftCode(k, 1, c) = c[1] /\ RightCode(k, 1, c) = k.value[1]
        /\ LeftCode(k, 2, c) = c[2] /\ RightCode(k, 2, c) = k.value[2]
        /\ LeftCode(k, 3, c) = c[3] /\ RightCode(k, 3, c) = k.value[3]
    BY <1>3 DEF LeftCode, RightCode
  <2> QED BY <1>3, <2>1, <2>2, MeetsCases
<1>6. /\ 4 \in t <=> 1 \in t /\ 2 \in t
      /\ 5 \in t <=> 4 \in t /\ 3 \in t
  BY <1>1, <1>2, <1>4 DEF FollowsCalls, And
<1>7. real(k, c) <=> real_Q17(k, c)
  BY <1>1 DEF real
<1> QED BY <1>1, <1>5, <1>6, <1>7 DEF real_Q17

(* So they do for every kernel that flips its literals.                    *)
LEMMA EveryQueryAnswers ==
  ASSUME NEW k \in FlippingQueries
  PROVE  k.flips /\ AnswersQuery(k)
<1>1. CASE k \in {Q1, Q14, Q15}
  <2>1. AnswersQuery(k)
    BY <1>1, AnswerDateRange DEF Q1, Q14, Q15
  <2>2. k.flips
    BY <1>1 DEF Q1, Q14, Q15, DateRange, Query
  <2> QED BY <2>1, <2>2
<1>2. CASE k \in {Q5, Q10}
  <2>1. AnswersQuery(k)
    BY <1>2, AnswerKeyAndDateRange DEF Q5, Q10
  <2>2. k.flips
    BY <1>2 DEF Q5, Q10, KeyAndDateRange, Query
  <2> QED BY <2>1, <2>2
<1>3. CASE k = Q3
  BY <1>3, AnswerQ3 DEF Q3, Query
<1>4. CASE k = Q6
  BY <1>4, AnswerQ6 DEF Q6, Q6_predicates, Q6_result, Query
<1>5. CASE k = Q7
  BY <1>5, AnswerQ7 DEF Q7, Q7_predicates, Q7_result, Query
<1>6. CASE k = Q8
  BY <1>6, AnswerQ8 DEF Q8, Query
<1>7. CASE k = Q12
  BY <1>7, AnswerQ12 DEF Q12, Q12_predicates, Q12_refined, Q12_result, Query
<1>8. CASE k = Q17
  BY <1>8, AnswerQ17 DEF Q17, OneByteQuery, Query
<1> QED BY <1>1, <1>2, <1>3, <1>4, <1>5, <1>6, <1>7, <1>8 DEF FlippingQueries

(* A qualifying tuple is one whose codes the driver's expression accepts.  *)
LEMMA QualifiesOnCodes ==
  ASSUME TypeOK, InputInv, plan \in FlippingQueries, NEW x \in Tuple
  PROVE  Qualifies(x) <=> real(plan, codes[x])
<1>1. plan.flips /\ AnswersQuery(plan)
  BY EveryQueryAnswers
<1>2. /\ Len(plan.prog) \in 0..Len(plan.prog) /\ Root = plan.n + Len(plan.prog)
      /\ Pred = 1..plan.n
  BY PlanFields DEF Root, Pred
<1>3. PICK t \in SUBSET Node :
        FollowsTree(t, Len(plan.prog)) /\ \A p \in Pred : p \in t <=> Holds(p, x)
  <2> DEFINE s == {p \in Pred : Holds(p, x)}
  <2>1. s \in SUBSET Pred
    OBVIOUS
  <2>2. \E t \in SUBSET Node : FollowsTree(t, Len(plan.prog)) /\ \A p \in Pred : p \in t <=> p \in s
    <3> HIDE DEF s
    <3> QED BY <1>2, <2>1, TreeExtends
  <2> QED BY <2>2
<1>4. Qualifies(x) <=> Root \in t
  <2>1. Determines(Root)
    BY <1>2, TreeDetermines
  <2> QED BY <1>3, <2>1, TruthDecides DEF IsTruth
<1>5. \A p \in 1..plan.n : p \in t <=> Meets(plan, p, codes[x])
  BY <1>1, <1>2, <1>3, HoldsOnCodes
<1>6. FollowsCalls(plan, t)
  BY <1>3 DEF FollowsTree, FollowsCalls
<1> QED BY <1>1, <1>2, <1>4, <1>5, <1>6 DEF AnswersQuery

(* Every driver's test passes on any table: the bit vector of a kernel     *)
(* that flips its literals holds exactly the tuples whose codes satisfy    *)
(* the query.                                                              *)
THEOREM KernelsAnswerQueries ==
  ASSUME Plans \subseteq FlippingQueries
  PROVE  QuerySpec => []SelfCheckPasses
<1>1. ASSUME QueryInv PROVE SelfCheckPasses
  <2> SUFFICES ASSUME pc = "done", NEW x \in Tuple
               PROVE  x[2] \in bitmap[x[1]] <=> real(plan, codes[x])
    BY DEF SelfCheckPasses
  <2>1. TypeOK /\ InputInv /\ StoredBitsCorrect /\ bv_word_id > NumWords
    BY <1>1 DEF QueryInv, PathInv
  <2>2. PICK w \in 1..NumWords, b \in Bit : x = <<w, b>>
    BY DEF Tuple
  <2>3. w \in 1..(bv_word_id - 1)
    BY <2>1, <2>2, SizesAssumption DEF TypeOK
  <2>4. x[2] \in bitmap[x[1]] <=> Qualifies(x)
    BY <2>1, <2>2, <2>3 DEF StoredBitsCorrect
  <2>5. plan \in FlippingQueries
    BY <2>1 DEF TypeOK
  <2> QED BY <2>1, <2>4, <2>5, QualifiesOnCodes
<1> QED BY <1>1, QueryInvCorrect, PTL
=============================================================================
