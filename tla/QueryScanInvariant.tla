------------------------- MODULE QueryScanInvariant -------------------------
(***************************************************************************)
(* An inductive invariant of QueryScan.  From the refinement on it is that *)
(* of ConjunctiveScan; what differs is the aggregate, where                *)
(* computeKernelWithMask_LAST leaves a success mask that no call reads,    *)
(* and tmp_result is a mask of equalities that has no success and no fail. *)
(***************************************************************************)
EXTENDS QueryScan, ConjunctiveScanInvariant

(* The slices of the codes and of the literals, which nothing writes.      *)
InputInv ==
  /\ codes \in Tables(plan)
  /\ data = [s \in Slices(plan) |-> StoredSlice(s[1], s[2])]
  /\ literal = [s \in LiteralSlices(plan) |-> PreparedLiteral(s[1], s[2])]

QueryFirstInv ==
  pc \in {"first", "aggregate", "prune"} =>
    \A p \in Pred : (pc = "first" => p < index) =>
      /\ \A l \in Lane : Exact(p, 1, l)
      /\ mask[p].fail = Fails(plan.cmp[p], mask[p])

(***************************************************************************)
(* The valuations in which every predicate that agrees on its first byte   *)
(* fails, and in which all of these hold.                                  *)
(***************************************************************************)
IsLowest(t, x) == Lowest(t, x) /\ FollowsTree(t, Len(plan.prog))
IsHighest(t, x) == Highest(t, x) /\ FollowsTree(t, Len(plan.prog))

(***************************************************************************)
(* What the early stop says of node r on lane l: of a node that            *)
(* aggregates, that it fails, or is open, or else holds; of a node that    *)
(* joins masks, its value; of the root, that it is settled or open.        *)
(***************************************************************************)
StopsRight(r, l) ==
  /\ \A u \in SUBSET Node :
       Outcome(u, Current(l)) =>
         /\ l \in Verdict(r).fail => r \notin u
         /\ l \in Verdict(r).equal \/ l \in Verdict(r).fail \/ r \in u
  /\ \A low, high \in SUBSET Node :
       IsLowest(low, Current(l)) /\ IsHighest(high, Current(l)) =>
         /\ l \in Verdict(r).fail <=> r \notin high
         /\ l \in Verdict(r).equal => r \in high /\ r \notin low

MasksRight(r, l) ==
  /\ \A u \in SUBSET Node : Outcome(u, Current(l)) => (l \in Verdict(r).equal <=> r \in u)
  /\ \A high \in SUBSET Node :
       IsHighest(high, Current(l)) => (l \in Verdict(r).equal => r \in high)

RootRight(r, l) ==
  /\ \/ l \in Verdict(r).equal
     \/ \A u, v \in SUBSET Node :
          Outcome(u, Current(l)) /\ Outcome(v, Current(l)) => (r \in u <=> r \in v)
  /\ \A low, high \in SUBSET Node :
       IsLowest(low, Current(l)) /\ IsHighest(high, Current(l)) =>
         (l \in Verdict(r).equal => r \in high /\ r \notin low)

EarlyInv ==
  pc \in {"aggregate", "prune"} =>
    \A j \in Calls : (pc = "aggregate" => j < index) =>
      \A l \in Lane :
        /\ plan.early[j] = "stop" => StopsRight(plan.n + j, l)
        /\ plan.early[j] = "mask" => MasksRight(plan.n + j, l)
        /\ j = Len(plan.prog) => RootRight(plan.n + j, l)

(* The refinement is about open tuples only.                               *)
QueryOpenInv ==
  pc = "refine" =>
    /\ \A l \in agg_equal : LeavesOpen(EqualSoFar(Current(l)), Current(l))
    /\ \A p \in plan.zeroed : mask[p].equal \subseteq agg_equal

(* A kernel of one-byte columns has no aggregate; a kernel that has        *)
(* returned has stored every word.                                         *)
PathInv ==
  /\ pc \in {"aggregate", "prune", "refine"} => plan.prunes
  /\ pc = "done" => bv_word_id > NumWords

(* At every stage of a chunk the masks hold what the stages to come need.   *)
QueryInv ==
  /\ TypeOK /\ ByteInv /\ InputInv /\ QueryFirstInv /\ EarlyInv /\ QueryOpenInv /\ PathInv
  /\ SettledInv /\ CoherentInv /\ RefineInv /\ FinalInv /\ WordInv /\ StoredBitsCorrect
=============================================================================
