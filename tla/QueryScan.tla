----------------------------- MODULE QueryScan -----------------------------
(***************************************************************************)
(* The kernels of the TPC-H queries on the columns their drivers fill: a   *)
(* driver reads the codes of every column, slices them with SetTuple, runs *)
(* the kernel, and compares every bit with the predicate on the codes it   *)
(* kept.                                                                   *)
(*                                                                         *)
(* The kernels run as those of ConjunctiveScan, but for the first byte     *)
(* slice of the one-byte columns and for the aggregation.                  *)
(***************************************************************************)
EXTENDS ConjunctiveScan, QueryKernels, FiniteSets

CONSTANT Tables(_)      \* The tables a kernel is run on: codes of each tuple's columns.

(***************************************************************************)
(* What the text of every kernel and driver satisfies.  A predicate's byte *)
(* slices are those of its columns, and only a predicate of one is         *)
(* computed by computeKernelWithMask_LAST.  The calls of a kernel that     *)
(* prunes are as follows: those that aggregate are conjunctions of         *)
(* predicates and of such calls; those that only join masks, of equalities *)
(* that the refinement leaves alone and of such calls; and what takes a    *)
(* mask from the aggregate is the last one.                                *)
(***************************************************************************)
Aggregates(k, r) == r \in 1..k.n \/ k.early[r - k.n] = "stop"

JoinsMasks(k, r) ==
  IF r \in 1..k.n THEN k.cmp[r] = "kEqual" /\ k.bytes[r] = 1 /\ r \notin k.zeroed
                   ELSE k.early[r - k.n] = "mask"

IsEarlyCall(k, j) ==
  LET call == k.prog[j] IN
  \/ /\ k.early[j] = "stop"
     /\ call.op = "kAnd" /\ Aggregates(k, call.a) /\ Aggregates(k, call.b)
  \/ /\ k.early[j] = "mask"
     /\ j < Len(k.prog) /\ JoinsMasks(k, call.a) /\ JoinsMasks(k, call.b)
  \/ /\ k.early[j] = "filter"
     /\ j = Len(k.prog)
     /\ call.op = "kAnd" /\ Aggregates(k, call.a) /\ JoinsMasks(k, call.b)

IsCode(value, width) == value \in 0..(2^width - 1)

IsQuery(k) ==
  /\ \A p \in 1..k.n :
       /\ k.width[k.column[p]] \in 1..32
       /\ k.bytes[p] = kNumBytesPerCode(k.width[k.column[p]])
       /\ IF k.right[p] = 0 THEN IsCode(k.value[p], k.width[k.column[p]])
                            ELSE k.width[k.right[p]] = k.width[k.column[p]]
  /\ k.judges
  /\ \A p \in k.last : k.bytes[p] = 1
  /\ \A g \in 1..Len(k.groups) : k.groups[g] \subseteq k.zeroed
  /\ IF k.prunes THEN \A j \in 1..Len(k.prog) : IsEarlyCall(k, j)
                 ELSE \A p \in 1..k.n : k.bytes[p] = 1

ASSUME QueriesAssumption == \A k \in Plans : IsQuery(k)

(* The codes of a column fit its width. *)
ASSUME TablesAssumption ==
  \A k \in Plans : \A table \in Tables(k) :
    \A x \in Tuple, p \in 1..k.n : \A c \in {k.column[p], k.right[p]} \ {0} :
      IsCode(table[x][c], k.width[c])

ASSUME SignedBytesAssumption == SignedByte \subseteq Byte /\ SignedByte \subseteq LiteralByte

VARIABLE codes          \* original_c[x] is codes[x][c]; never written.

queryVars == <<vars, codes>>

(***************************************************************************)
(* The byte slices the driver and the kernel prepare.                      *)
(***************************************************************************)
StoredSlice(c, b) == [x \in Tuple |-> AsSigned(SetTuple(codes[x][c], plan.width[c])[b])]

PreparedLiteral(p, b) ==
  LET width == plan.width[plan.column[p]]
      unit == ByteOf(Padded(plan.value[p], kNumPaddingBits(width)), plan.bytes[p], b)
  IN AsSigned(IF plan.flips THEN FLIP(unit) ELSE unit)

QueryInit ==
  /\ plan \in Plans
  /\ codes \in Tables(plan)
  /\ data = [s \in Slices(plan) |-> StoredSlice(s[1], s[2])]
  /\ literal = [s \in LiteralSlices(plan) |-> PreparedLiteral(s[1], s[2])]
  /\ Enter

----------------------------------------------------------------------------
FirstKernel(p) ==
  IF p \in plan.last
  THEN computeKernelWithMask_LAST(plan.cmp[p], Load(p, 1), LoadRight(p, 1), mask[p])
  ELSE computeKernelWithMask_FIRST(plan.cmp[p], Load(p, 1), LoadRight(p, 1), mask[p])

QueryFirstByte ==
  /\ pc = "first"
  /\ mask' = [mask EXCEPT ![index] = FirstKernel(index)]
  /\ Advance(plan.n, IF plan.prunes THEN "aggregate" ELSE "final")
  /\ UNCHANGED <<input, position, byte, agg, result, bitvector_word, bitmap, codes>>

(* Mutant: tmp_result is left out of the aggregate. *)
JoinedVerdict_unfiltered(call, early) ==
  LET v == Verdict(call.a)
      w == Verdict(call.b)
  IN CASE early = "stop" -> computeForEarlyStop(call.op, v, w)
       [] early = "mask" ->
            [v EXCEPT !.equal = computeConjunctivePredicates(call.op, v.equal, w.equal)]
       [] early = "filter" -> v

(* Mutant: tmp_result requires all of its predicates. *)
JoinedVerdict_all(call, early) ==
  LET v == Verdict(call.a)
      w == Verdict(call.b)
  IN CASE early = "stop" -> computeForEarlyStop(call.op, v, w)
       [] early \in {"mask", "filter"} -> [v EXCEPT !.equal = v.equal \cap w.equal]

(***************************************************************************)
(* The registers of an inner node: the verdict of its operands, or, of a   *)
(* mask that is only combined, the mask.                                   *)
(***************************************************************************)
JoinedVerdict(call, early) ==
  LET v == Verdict(call.a)
      w == Verdict(call.b)
      both == computeConjunctivePredicates(call.op, v.equal, w.equal)
  IN CASE early = "stop" -> computeForEarlyStop(call.op, v, w)
       [] early \in {"mask", "filter"} -> [v EXCEPT !.equal = both]

QueryAggregate ==
  /\ pc = "aggregate"
  /\ agg' = [agg EXCEPT ![plan.n + index] =
               JoinedVerdict(plan.prog[index], plan.early[index])]
  /\ Advance(Len(plan.prog), "prune")
  /\ UNCHANGED <<input, position, byte, mask, result, bitvector_word, bitmap, codes>>

(* The rest of the kernel is that of ConjunctiveScan. *)
KernelStep ==
  /\ \/ SkipRefinement \/ EnterRefinement \/ RefineByte \/ NextGroup
     \/ PredicateMask \/ Combine \/ MoveMask \/ StoreWord
  /\ UNCHANGED codes

QueryNext == QueryFirstByte \/ QueryAggregate \/ KernelStep

QuerySpec == QueryInit /\ [][QueryNext]_queryVars

----------------------------------------------------------------------------
(* The driver's test of the bit vector: it prints a line for the first     *)
(* tuple whose bit is not the predicate on its codes, and finds none.      *)
SelfCheckPasses ==
  pc = "done" =>
    \A x \in Tuple : x[2] \in bitmap[x[1]] <=> real(plan, codes[x])

(***************************************************************************)
(* The valuations that follow the tree and are right of every predicate    *)
(* that is not free.  They leave a tuple open if they differ on the root.  *)
(***************************************************************************)
Valuations(free, x) ==
  LET held == {p \in Pred \ free : Holds(p, x)} IN
  {t \in {held \cup s \cup inner : s \in SUBSET free, inner \in SUBSET (Node \ Pred)} :
     FollowsTree(t, Len(plan.prog))}

LeavesOpen(free, x) ==
  /\ \E t \in Valuations(free, x) : Root \in t
  /\ \E t \in Valuations(free, x) : Root \notin t

EqualSoFar(x) == {p \in Pred : PrefixEqual(p, 1, x)}

(* A predicate of one byte slice is settled by it, equal or not. *)
Unsettled(x) == {p \in EqualSoFar(x) : plan.bytes[p] > 1}

(* The aggregate keeps every lane the first bytes leave open, tmp_result   *)
(* included: a lane that is dropped has its value whatever the later bytes *)
(* are.                                                                    *)
DroppedLanesAreSettled ==
  pc = "prune" =>
    \A l \in Lane \ agg_equal :
      ~LeavesOpen(Unsettled(Current(l)), Current(l))

(* A later byte slice is loaded only for a tuple that the comparisons of   *)
(* its first bytes leave open and that agrees with the predicate on every  *)
(* earlier byte.                                                           *)
QueryLoadsOnlyWhatIsOpen ==
  [][RefineByte =>
       \E l \in Lane, p \in plan.groups[index] :
         /\ LeavesOpen(EqualSoFar(Current(l)), Current(l))
         /\ PrefixEqual(p, byte - 1, Current(l))]_queryVars
=============================================================================
