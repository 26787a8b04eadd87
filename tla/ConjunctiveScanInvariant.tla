---------------------- MODULE ConjunctiveScanInvariant ----------------------
(***************************************************************************)
(* An inductive invariant of ConjunctiveScan that implies the scan stores  *)
(* the right bits.  Its idea: what the first byte of a predicate settles   *)
(* stays settled whatever becomes of the masks, so the result masks of a   *)
(* lane that is no longer looked at are one of the outcomes the first      *)
(* bytes allow, and the aggregate has dropped the lane because they all    *)
(* give the root the same value.                                           *)
(***************************************************************************)
EXTENDS ConjunctiveScan

(***************************************************************************)
(* The masks of an untouched predicate stay as the first byte leaves them: *)
(* it has no other byte, and the aggregate is not cut out of them.         *)
(***************************************************************************)
Untouched(p) == plan.bytes[p] = 1 /\ p \notin plan.zeroed

(***************************************************************************)
(* What the first byte settles of predicate p on tuple x: everything, of   *)
(* an untouched predicate; otherwise what it decides alone.                *)
(***************************************************************************)
DecidedTrue(p, x) ==
  CASE plan.cmp[p] = "kEqual" -> FALSE
    [] plan.cmp[p] = "kInequal" -> ~PrefixEqual(p, 1, x)
    [] plan.cmp[p] \in {"kLess", "kLessEqual"} -> PrefixLess(p, 1, x)
    [] plan.cmp[p] \in {"kGreater", "kGreaterEqual"} -> PrefixGreater(p, 1, x)

DecidedFalse(p, x) ==
  CASE plan.cmp[p] = "kEqual" -> ~PrefixEqual(p, 1, x)
    [] plan.cmp[p] = "kInequal" -> FALSE
    [] plan.cmp[p] \in {"kLess", "kLessEqual"} -> PrefixGreater(p, 1, x)
    [] plan.cmp[p] \in {"kGreater", "kGreaterEqual"} -> PrefixLess(p, 1, x)

SettledTrue(p, x) == DecidedTrue(p, x) \/ (Untouched(p) /\ Holds(p, x))
SettledFalse(p, x) == DecidedFalse(p, x) \/ (Untouched(p) /\ ~Holds(p, x))

(***************************************************************************)
(* A valuation the first bytes allow, and a tuple whose root they settle.  *)
(***************************************************************************)
Outcome(u, x) ==
  /\ FollowsTree(u, Len(plan.prog))
  /\ \A p \in Pred : (SettledTrue(p, x) => p \in u) /\ (SettledFalse(p, x) => p \notin u)

Settled(x) ==
  \A u, v \in SUBSET Node : Outcome(u, x) /\ Outcome(v, x) => (Root \in u <=> Root \in v)

(***************************************************************************)
(* The tree determines the nodes up to r from the predicates.              *)
(***************************************************************************)
Determines(r) ==
  \A u, v \in SUBSET Node :
    /\ FollowsTree(u, Len(plan.prog))
    /\ FollowsTree(v, Len(plan.prog))
    /\ \A p \in Pred : p \in u <=> p \in v
    => \A q \in Node : q <= r => (q \in u <=> q \in v)

----------------------------------------------------------------------------
(***************************************************************************)
(* The masks of p are exact on lane l after b bytes: the lane is in the    *)
(* mask of the outcome of the comparison.                                  *)
(***************************************************************************)
Exact(p, b, l) ==
  /\ l \in mask[p].equal <=> PrefixEqual(p, b, Current(l))
  /\ plan.cmp[p] \in Ordering =>
       /\ l \in mask[p].less <=> PrefixLess(p, b, Current(l))
       /\ l \in mask[p].greater <=> PrefixGreater(p, b, Current(l))

(* The masks give p's result on lane l. *)
Done(p, l) ==
  l \in computeMask_one_predicate(plan.cmp[p], mask[p]) <=> Holds(p, Current(l))

(* What the first byte settled of p is still in the masks. *)
Coherent(p, l) ==
  /\ ~PrefixEqual(p, 1, Current(l)) => l \notin mask[p].equal
  /\ plan.cmp[p] \in Ordering =>
       /\ PrefixLess(p, 1, Current(l)) => l \in mask[p].less /\ l \notin mask[p].greater
       /\ PrefixGreater(p, 1, Current(l)) => l \in mask[p].greater /\ l \notin mask[p].less
  /\ Untouched(p) => Exact(p, 1, l)

(* The verdict of node r on lane l is one that no outcome contradicts. *)
Sound(r, l) ==
  /\ l \notin Verdict(r).equal => l \in Verdict(r).success \cup Verdict(r).fail
  /\ \A u \in SUBSET Node :
       Outcome(u, Current(l)) =>
         /\ l \in Verdict(r).success => r \in u
         /\ l \in Verdict(r).fail => r \notin u

(* The lanes the refinement is still about. *)
Live(l) == plan.prunes => l \in agg_equal

(* The predicates the refinement has done with. *)
Finished(p) ==
  \/ plan.bytes[p] = 1
  \/ \E g \in 1..(index - 1) : p \in plan.groups[g]
  \/ p \in plan.groups[index] /\ byte > plan.bytes[p]

Depth(p) == IF p \in plan.groups[index] THEN byte - 1 ELSE 1

(* The result of predicate p on lane l: right if the lane is live, and     *)
(* never against the first byte.                                           *)
ResultSound(p, l) ==
  /\ Live(l) => (l \in result[p] <=> Holds(p, Current(l)))
  /\ SettledTrue(p, Current(l)) => l \in result[p]
  /\ SettledFalse(p, Current(l)) => l \notin result[p]

Outputs(l) == {r \in Node : l \in result[r]}

----------------------------------------------------------------------------
ByteInv == pc # "refine" => byte = 2

FirstInv ==
  pc \in {"first", "aggregate", "prune"} =>
    \A p \in Pred : (pc = "first" => p < index) =>
      /\ \A l \in Lane : Exact(p, 1, l)
      /\ mask[p].success = Succeeds(plan.cmp[p], mask[p])
      /\ mask[p].fail = Fails(plan.cmp[p], mask[p])

AggregateInv ==
  pc \in {"aggregate", "prune"} =>
    \A r \in Node \ Pred : (pc = "aggregate" => r < plan.n + index) =>
      \A l \in Lane : Sound(r, l)

TruthInv ==
  pc \notin {"first", "store", "done"} =>
    LET j == IF pc = "aggregate" THEN index - 1 ELSE Len(plan.prog) IN
    /\ Determines(plan.n + j)
    /\ \A l \in Lane : \E t \in SUBSET Node : IsTruth(t, j, Current(l))

SettledInv ==
  pc \in {"refine", "final", "combine", "movemask"} =>
    \A l \in Lane : Live(l) \/ Settled(Current(l))

CoherentInv ==
  pc \in {"refine", "final"} => \A p \in Pred, l \in Lane : Coherent(p, l)

RefineInv ==
  pc = "refine" =>
    \A p \in Pred, l \in Lane :
      Live(l) => IF Finished(p) THEN Done(p, l) ELSE Exact(p, Depth(p), l)

FinalInv ==
  /\ pc = "final" => \A p \in Pred, l \in Lane : Live(l) => Done(p, l)
  /\ pc \in {"final", "combine", "movemask"} =>
       \A p \in Pred, l \in Lane : (pc = "final" => p < index) => ResultSound(p, l)
  /\ pc \in {"combine", "movemask"} =>
       \A l \in Lane :
         FollowsTree(Outputs(l), IF pc = "combine" THEN index - 1 ELSE Len(plan.prog))

WordInv ==
  /\ pc \notin {"store", "done"} =>
       bitvector_word = {b \in Bit : b[1] < chunk /\ Qualifies(<<bv_word_id, b>>)}
  /\ pc = "store" => bitvector_word = {b \in Bit : Qualifies(<<bv_word_id, b>>)}
  /\ pc = "store" => chunk = 1

(* At every stage of a chunk the masks hold what the stages to come need:   *)
(* exact masks where a lane is live, masks that do not contradict the first *)
(* byte where it is not, sound verdicts, and finished words that are right. *)
Inv ==
  /\ TypeOK /\ ByteInv /\ FirstInv /\ AggregateInv /\ TruthInv /\ SettledInv
  /\ CoherentInv /\ RefineInv /\ FinalInv /\ WordInv /\ StoredBitsCorrect
----------------------------------------------------------------------------
(***************************************************************************)
(* The aggregate is as good as it can be: it leaves a lane open only if    *)
(* the first bytes do.  The tree is monotone, so it is enough to look at   *)
(* the valuation in which every predicate that agrees on its first byte    *)
(* fails, and at the one in which all of these hold.                       *)
(***************************************************************************)
Lowest(t, x) == \A p \in Pred : p \in t <=> ~PrefixEqual(p, 1, x) /\ Holds(p, x)

Highest(t, x) == \A p \in Pred : p \in t <=> PrefixEqual(p, 1, x) \/ Holds(p, x)

(* The verdict of node r on lane l is what the two valuations say of it.   *)
Bracketed(r, l, low, high) ==
  /\ r \in low => r \in high
  /\ l \in Verdict(r).success <=> r \in low
  /\ l \in Verdict(r).fail <=> r \notin high
  /\ l \in Verdict(r).equal <=> r \notin low /\ r \in high

BoundsInv ==
  pc \in {"aggregate", "prune"} =>
    LET j == IF pc = "aggregate" THEN index - 1 ELSE Len(plan.prog) IN
    \A l \in Lane :
      \E low \in SUBSET Node :
        /\ Lowest(low, Current(l)) /\ FollowsTree(low, j)
        /\ \E high \in SUBSET Node :
             /\ Highest(high, Current(l)) /\ FollowsTree(high, j)
             /\ \A i \in 1..j : Bracketed(plan.n + i, l, low, high)

(* The refinement of a pruning kernel is about open tuples only.           *)
OpenInv == pc = "refine" /\ plan.prunes => \A l \in agg_equal : Open(Current(l))

NarrowedInv ==
  pc = "refine" /\ plan.prunes /\ plan.zeroed = Pred =>
    \A p \in Pred : mask[p].equal \subseteq agg_equal

(* The aggregate of the first byte slices leaves a tuple open exactly if   *)
(* they do, and later byte slices are compared for open tuples only.       *)
OpenLanesInv == BoundsInv /\ OpenInv /\ NarrowedInv
=============================================================================
