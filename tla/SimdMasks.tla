----------------------------- MODULE SimdMasks -----------------------------
(***************************************************************************)
(* The mask algebra of complex_predicates/avx-utility.h.                   *)
(*                                                                         *)
(* A 256-bit register that holds one mask byte per lane (0x00 or 0xff) is  *)
(* the set of the lanes whose byte is 0xff: avx_and is \cap, avx_or is     *)
(* \cup, avx_not is the complement in Lane, avx_iszero(m) is m = {} and    *)
(* _mm256_movemask_epi8 is the set itself.                                 *)
(***************************************************************************)
EXTENDS Integers

CONSTANT Lane           \* The lanes of one AVX2 register (32 in the code).

Ordering == {"kLess", "kLessEqual", "kGreater", "kGreaterEqual"}

Comparator == Ordering \cup {"kEqual", "kInequal"}

Bitwise == {"kAnd", "kOr"}

avx_not(m) == Lane \ m

avx_andnot(m, n) == avx_not(m) \cap n

(***************************************************************************)
(* The five registers kept for one predicate, and the three kept for a     *)
(* node of the predicate tree.                                             *)
(***************************************************************************)
Masks == [less : SUBSET Lane, greater : SUBSET Lane, equal : SUBSET Lane,
          success : SUBSET Lane, fail : SUBSET Lane]

Verdicts == [equal : SUBSET Lane, success : SUBSET Lane, fail : SUBSET Lane]

(***************************************************************************)
(* Two registers of bytes compared lane by lane: x[l] is the byte of lane l *)
(* of a byte slice, y[l] that of the literal or of the other column.       *)
(***************************************************************************)
avx_cmplt(x, y) == {l \in Lane : x[l] < y[l]}

avx_cmpgt(x, y) == {l \in Lane : x[l] > y[l]}

avx_cmpeq(x, y) == {l \in Lane : x[l] = y[l]}

(***************************************************************************)
(* What the masks of a predicate say of it: the lanes known to satisfy it  *)
(* and those known not to.  A lane whose code equals the literal so far    *)
(* may still satisfy kEqual and may still fail kInequal.                   *)
(***************************************************************************)
Succeeds(cmp, m) ==
  CASE cmp = "kEqual" -> {}
    [] cmp = "kInequal" -> avx_not(m.equal)
    [] cmp \in {"kLess", "kLessEqual"} -> m.less
    [] cmp \in {"kGreater", "kGreaterEqual"} -> m.greater

Fails(cmp, m) ==
  CASE cmp = "kEqual" -> avx_not(m.equal)
    [] cmp = "kInequal" -> {}
    [] cmp \in {"kLess", "kLessEqual"} -> m.greater
    [] cmp \in {"kGreater", "kGreaterEqual"} -> m.less

Judged(cmp, m) == [m EXCEPT !.success = Succeeds(cmp, m), !.fail = Fails(cmp, m)]

(***************************************************************************)
(* computeKernelWithMask_FIRST: the first byte slice.  The ordering masks  *)
(* of kEqual and kInequal are left as they were.                           *)
(***************************************************************************)
computeKernelWithMask_FIRST(cmp, x, y, m) ==
  Judged(cmp, [m EXCEPT
    !.less = IF cmp \in Ordering THEN avx_cmplt(x, y) ELSE @,
    !.greater = IF cmp \in Ordering THEN avx_cmpgt(x, y) ELSE @,
    !.equal = avx_cmpeq(x, y)])

(* Mutant: no lane is equal any more behind the only byte slice.           *)
computeKernelWithMask_LAST_settled(cmp, x, y, m) ==
  LET k == computeKernelWithMask_FIRST(cmp, x, y, m) IN
  [k EXCEPT !.success = IF cmp \in {"kLess", "kLessEqual", "kGreaterEqual"}
                        THEN @ \cup k.equal ELSE @,
            !.equal = {}]

(***************************************************************************)
(* computeKernelWithMask_LAST: the only byte slice of a predicate.  An     *)
(* equal lane succeeds where equality does; kLess falls through to the     *)
(* case of kLessEqual, so its equal lanes succeed as well.                 *)
(***************************************************************************)
computeKernelWithMask_LAST(cmp, x, y, m) ==
  LET k == computeKernelWithMask_FIRST(cmp, x, y, m) IN
  [k EXCEPT !.success = IF cmp \in {"kLess", "kLessEqual", "kGreaterEqual"}
                        THEN @ \cup k.equal ELSE @]

(* Mutant: the comparison is not restricted to the lanes equal so far.     *)
computeKernelWithMask_unmasked(cmp, x, y, m) ==
  Judged(cmp, [m EXCEPT
    !.less = IF cmp \in Ordering THEN @ \cup avx_cmplt(x, y) ELSE @,
    !.greater = IF cmp \in Ordering THEN @ \cup avx_cmpgt(x, y) ELSE @,
    !.equal = @ \cap avx_cmpeq(x, y)])

(***************************************************************************)
(* computeKernelWithMask: a later byte slice decides only the lanes that   *)
(* are equal so far.                                                       *)
(***************************************************************************)
computeKernelWithMask(cmp, x, y, m) ==
  Judged(cmp, [m EXCEPT
    !.less = IF cmp \in Ordering THEN @ \cup (m.equal \cap avx_cmplt(x, y)) ELSE @,
    !.greater = IF cmp \in Ordering THEN @ \cup (m.equal \cap avx_cmpgt(x, y)) ELSE @,
    !.equal = @ \cap avx_cmpeq(x, y)])

(* Mutant: the last byte updates the mask the result is not read from.     *)
computeKernel_crossed(cmp, last, x, y, m) ==
  [m EXCEPT
    !.less = IF cmp \in {"kGreater", "kGreaterEqual"} \/ (cmp \in Ordering /\ ~last)
             THEN @ \cup (m.equal \cap avx_cmplt(x, y)) ELSE @,
    !.greater = IF cmp \in {"kLess", "kLessEqual"} \/ (cmp \in Ordering /\ ~last)
                THEN @ \cup (m.equal \cap avx_cmpgt(x, y)) ELSE @,
    !.equal = IF last /\ cmp \in {"kLess", "kGreater"} THEN @
              ELSE @ \cap avx_cmpeq(x, y)]

(***************************************************************************)
(* computeKernel<CMP, LAST_BYTE>: the same without success and fail; on    *)
(* the last byte only the masks that CMP's result is read from.            *)
(***************************************************************************)
computeKernel(cmp, last, x, y, m) ==
  [m EXCEPT
    !.less = IF cmp \in {"kLess", "kLessEqual"} \/ (cmp \in Ordering /\ ~last)
             THEN @ \cup (m.equal \cap avx_cmplt(x, y)) ELSE @,
    !.greater = IF cmp \in {"kGreater", "kGreaterEqual"} \/ (cmp \in Ordering /\ ~last)
                THEN @ \cup (m.equal \cap avx_cmpgt(x, y)) ELSE @,
    !.equal = IF last /\ cmp \in {"kLess", "kGreater"} THEN @
              ELSE @ \cap avx_cmpeq(x, y)]

(* Mutant: kAnd keeps only the lanes both operands leave open.             *)
computeForEarlyStop_both_open(op, v, w) ==
  CASE op = "kAnd" ->
         [equal |-> v.equal \cap w.equal,
          success |-> v.success \cap w.success,
          fail |-> v.fail \cup w.fail]
    [] op = "kOr" ->
         [equal |-> avx_andnot(v.success, w.equal) \cup avx_andnot(w.success, v.equal),
          success |-> v.success \cup w.success,
          fail |-> v.fail \cap w.fail]

(* Mutant: kOr fails as soon as one operand does.                          *)
computeForEarlyStop_or_fails_early(op, v, w) ==
  CASE op = "kAnd" ->
         [equal |-> avx_andnot(v.fail, w.equal) \cup avx_andnot(w.fail, v.equal),
          success |-> v.success \cap w.success,
          fail |-> v.fail \cup w.fail]
    [] op = "kOr" ->
         [equal |-> avx_andnot(v.success, w.equal) \cup avx_andnot(w.success, v.equal),
          success |-> v.success \cup w.success,
          fail |-> v.fail \cup w.fail]

(* Mutant: a lane that one operand decides stays equal for the other.      *)
computeForEarlyStop_unfiltered(op, v, w) ==
  CASE op = "kAnd" ->
         [equal |-> v.equal \cup w.equal,
          success |-> v.success \cap w.success,
          fail |-> v.fail \cup w.fail]
    [] op = "kOr" ->
         [equal |-> v.equal \cup w.equal,
          success |-> v.success \cup w.success,
          fail |-> v.fail \cap w.fail]

(***************************************************************************)
(* computeForEarlyStop: the verdict of two operands joined by op.          *)
(***************************************************************************)
computeForEarlyStop(op, v, w) ==
  CASE op = "kAnd" ->
         [equal |-> avx_andnot(v.fail, w.equal) \cup avx_andnot(w.fail, v.equal),
          success |-> v.success \cap w.success,
          fail |-> v.fail \cup w.fail]
    [] op = "kOr" ->
         [equal |-> avx_andnot(v.success, w.equal) \cup avx_andnot(w.success, v.equal),
          success |-> v.success \cup w.success,
          fail |-> v.fail \cap w.fail]

(***************************************************************************)
(* computeMask_one_predicate and computeConjunctivePredicates: the result  *)
(* mask of a predicate and of two operands.                                *)
(***************************************************************************)
computeMask_one_predicate(cmp, m) ==
  CASE cmp = "kEqual" -> m.equal
    [] cmp = "kInequal" -> avx_not(m.equal)
    [] cmp = "kLess" -> m.less
    [] cmp = "kLessEqual" -> m.less \cup m.equal
    [] cmp = "kGreater" -> m.greater
    [] cmp = "kGreaterEqual" -> m.greater \cup m.equal

computeConjunctivePredicates(op, m, n) == IF op = "kAnd" THEN m \cap n ELSE m \cup n
=============================================================================
