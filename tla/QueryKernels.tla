---------------------------- MODULE QueryKernels ----------------------------
(***************************************************************************)
(* The kernels of Q1.cpp to Q19.cpp, the scans of the TPC-H queries, as    *)
(* plans of QueryScan, with the column widths and the literals that their  *)
(* drivers fix, and the check that each driver makes of its bit vector.    *)
(***************************************************************************)
EXTENDS ByteSlices, ScanKernels

(* A predicate on column c: with literal v, or with column d. *)
Compare(cmp, c, v) == [cmp |-> cmp, column |-> c, right |-> 0, value |-> v]
CompareColumns(cmp, c, d) == [cmp |-> cmp, column |-> c, right |-> d, value |-> 0]

(***************************************************************************)
(* A plan of ConjunctiveScan with more fields: the widths of the columns,  *)
(* the literals, whether the kernel flips the literals' bytes (flips), the *)
(* predicates it evaluates by computeKernelWithMask_LAST (last), and how a *)
(* call of the tree takes part in the early stop (early): it aggregates    *)
(* the verdicts of its operands ("stop"), or it only joins their equal     *)
(* masks ("mask": tmp_result), or it takes such a mask from the aggregate  *)
(* ("filter").  A kernel that does not prune aggregates nothing.           *)
(***************************************************************************)
Query(name, width, preds, groups, prog) ==
  LET n == Len(preds)
      cmp == [p \in 1..n |-> preds[p].cmp]
  IN [query |-> name, width |-> width, n |-> n, cmp |-> cmp,
      column |-> [p \in 1..n |-> preds[p].column],
      right |-> [p \in 1..n |-> preds[p].right],
      value |-> [p \in 1..n |-> preds[p].value],
      bytes |-> [p \in 1..n |-> kNumBytesPerCode(width[preds[p].column])],
      refineCmp |-> cmp, groups |-> groups,
      zeroed |-> UNION {groups[g] : g \in 1..Len(groups)},
      prunes |-> TRUE, judges |-> TRUE, prog |-> prog,
      flips |-> TRUE, last |-> {}, early |-> [j \in 1..Len(prog) |-> "stop"]]

(* Nothing but first bytes: no early stop and no refinement. *)
OneByteQuery(name, width, preds, prog) ==
  [Query(name, width, preds, <<{}>>, prog) EXCEPT !.prunes = FALSE]

----------------------------------------------------------------------------
DateRange(name, low, high) ==
  Query(name, <<12>>, <<Compare("kGreater", 1, low), Compare("kLess", 1, high)>>,
        <<{1, 2}>>, <<And(1, 2)>>)

Q1 == DateRange("Q1", 3229, 3319)
Q14 == DateRange("Q14", 2109, 2140)
Q15 == DateRange("Q15", 2233, 2326)

Q3 ==
  Query("Q3", <<3, 12, 12>>,
        <<Compare("kEqual", 1, 2), Compare("kLess", 2, 1923), Compare("kGreater", 3, 1953)>>,
        <<{2}, {3}>>, <<And(1, 2), And(4, 3)>>)

KeyAndDateRange(name, key, low, high) ==
  Query(name, <<3, 12>>,
        <<Compare("kEqual", 1, key), Compare("kGreaterEqual", 2, low),
          Compare("kLess", 2, high)>>,
        <<{2, 3}>>, <<And(1, 2), And(4, 3)>>)

Q5 == KeyAndDateRange("Q5", 2, 1923, 1953)
Q10 == KeyAndDateRange("Q10", 3, 1396, 1488)

Q6_predicates ==
  <<Compare("kGreaterEqual", 1, 1488), Compare("kLess", 1, 1860),
    Compare("kGreaterEqual", 2, 5), Compare("kLessEqual", 2, 7), Compare("kLess", 3, 24)>>

Q6_result == <<And(1, 2), And(3, 4), And(6, 5), And(8, 7)>>

Q6 ==
  [Query("Q6", <<12, 8, 8>>, Q6_predicates, <<{1, 2}>>, Q6_result) EXCEPT !.last = {3, 4, 5}]

Q8 ==
  [Query("Q8", <<8, 12, 8>>,
         <<Compare("kEqual", 1, 2), Compare("kGreaterEqual", 2, 1861),
           Compare("kLessEqual", 2, 2604), Compare("kEqual", 3, 4)>>,
         <<{2, 3}>>, <<And(1, 2), And(3, 4), And(5, 6)>>)
     EXCEPT !.last = {1, 4}]

(* Either nation may be the supplier's: tmp_result is node 9. *)
Q7_predicates ==
  <<Compare("kEqual", 1, 9), Compare("kEqual", 2, 8),
    Compare("kEqual", 1, 8), Compare("kEqual", 2, 9),
    Compare("kGreaterEqual", 3, 1861), Compare("kLessEqual", 3, 2604)>>

Q7_result == <<And(1, 2), And(3, 4), Or(7, 8), And(6, 5), And(10, 9)>>

Q7 ==
  [Query("Q7", <<8, 8, 12>>, Q7_predicates, <<{5, 6}>>, Q7_result)
     EXCEPT !.early = <<"mask", "mask", "mask", "stop", "filter">>]

(* The ship mode is one of two: tmp_result is node 7. *)
Q12_predicates ==
  <<Compare("kEqual", 1, 3), Compare("kEqual", 1, 6),
    CompareColumns("kLess", 2, 3), CompareColumns("kLess", 4, 2),
    Compare("kGreaterEqual", 3, 1488), Compare("kLess", 3, 1861)>>

Q12_refined == <<{3}, {4}, {5, 6}>>

Q12_result == <<Or(1, 2), And(6, 3), And(4, 5), And(8, 9), And(10, 7)>>

Q12 ==
  [Query("Q12", <<8, 12, 12, 12>>, Q12_predicates, Q12_refined, Q12_result)
     EXCEPT !.early = <<"mask", "stop", "stop", "stop", "filter">>]

Q17 ==
  OneByteQuery("Q17", <<8, 8, 8>>,
               <<Compare("kEqual", 1, 8), Compare("kEqual", 2, 18), Compare("kLess", 3, 6)>>,
               <<And(1, 2), And(4, 3)>>)

(***************************************************************************)
(* Q19 joins three sets of a brand, four containers, a quantity range and  *)
(* a size range; its literals go into the registers as they are.           *)
(***************************************************************************)
EqualToAny(c, values) == [i \in 1..Len(values) |-> Compare("kEqual", c, values[i])]
Between(c, low, high) == <<Compare("kGreaterEqual", c, low), Compare("kLessEqual", c, high)>>

Q19_brand == EqualToAny(1, <<2, 8, 14>>)

Q19_container ==
  EqualToAny(2, <<28, 26, 31, 32>>) \o EqualToAny(2, <<17, 18, 23, 24>>)
    \o EqualToAny(2, <<12, 10, 15, 16>>)

Q19_quantity == Between(3, 1, 11) \o Between(3, 11, 21) \o Between(3, 21, 31)

Q19_size == Between(4, 1, 5) \o Between(4, 1, 10) \o Between(4, 1, 15)

Q19_delivery == EqualToAny(5, <<1, 5>>) \o EqualToAny(6, <<2>>)

(* The results of each column, joined as soon as they are computed. *)
Q19_columns ==
  <<Or(4, 5), Or(6, 7), Or(31, 32), Or(8, 9), Or(10, 11), Or(34, 35),
    Or(12, 13), Or(14, 15), Or(37, 38), And(16, 17), And(18, 19), And(20, 21),
    And(22, 23), And(24, 25), And(26, 27), Or(28, 29)>>

Q19_result ==
  <<And(1, 33), And(40, 43), And(47, 48), And(2, 36), And(41, 44), And(50, 51),
    And(3, 39), And(42, 45), And(53, 54), Or(49, 52), Or(56, 55), And(46, 30),
    And(57, 58)>>

Q19 ==
  [OneByteQuery("Q19", [c \in 1..6 |-> 8],
                Q19_brand \o Q19_container \o Q19_quantity \o Q19_size \o Q19_delivery,
                Q19_columns \o Q19_result)
     EXCEPT !.flips = FALSE]

FlippingQueries == {Q1, Q14, Q15, Q3, Q5, Q10, Q6, Q7, Q8, Q12, Q17}

----------------------------------------------------------------------------
(***************************************************************************)
(* What a driver recomputes for every tuple from the codes it read         *)
(* (original_c[ii] is c[c]) and compares with the tuple's bit.             *)
(***************************************************************************)
In(v, k, preds) == \E p \in preds : v = k.value[p]
Within(v, k, low, high) == v >= k.value[low] /\ v <= k.value[high]

real_Q1(k, c) == c[1] > k.value[1] /\ c[1] < k.value[2]

real_Q3(k, c) == c[1] = k.value[1] /\ c[2] < k.value[2] /\ c[3] > k.value[3]

real_Q5(k, c) == c[1] = k.value[1] /\ c[2] >= k.value[2] /\ c[2] < k.value[3]

real_Q6(k, c) ==
  /\ c[1] >= k.value[1] /\ c[1] < k.value[2]
  /\ c[2] >= k.value[3] /\ c[2] <= k.value[4]
  /\ c[3] < k.value[5]

real_Q7(k, c) ==
  /\ \/ c[2] = k.value[1] /\ c[1] = k.value[2]
     \/ c[2] = k.value[2] /\ c[1] = k.value[1]
  /\ Within(c[3], k, 5, 6)

real_Q8(k, c) == c[1] = k.value[1] /\ Within(c[2], k, 2, 3) /\ c[3] = k.value[4]

real_Q12(k, c) ==
  /\ In(c[1], k, {1, 2})
  /\ c[2] < c[3] /\ c[4] < c[2]
  /\ c[3] >= k.value[5] /\ c[3] < k.value[6]

real_Q17(k, c) == c[1] = k.value[1] /\ c[2] = k.value[2] /\ c[3] < k.value[3]

real_Q19(k, c) ==
  /\ \E s \in 0..2 :
       /\ c[1] = k.value[1 + s]
       /\ In(c[2], k, (4 + 4 * s)..(7 + 4 * s))
       /\ Within(c[3], k, 16 + 2 * s, 17 + 2 * s)
       /\ Within(c[4], k, 22 + 2 * s, 23 + 2 * s)
  /\ In(c[5], k, {28, 29})
  /\ c[6] = k.value[30]

real(k, c) ==
  CASE k.query \in {"Q1", "Q14", "Q15"} -> real_Q1(k, c)
    [] k.query = "Q3" -> real_Q3(k, c)
    [] k.query \in {"Q5", "Q10"} -> real_Q5(k, c)
    [] k.query = "Q6" -> real_Q6(k, c)
    [] k.query = "Q7" -> real_Q7(k, c)
    [] k.query = "Q8" -> real_Q8(k, c)
    [] k.query = "Q12" -> real_Q12(k, c)
    [] k.query = "Q17" -> real_Q17(k, c)
    [] k.query = "Q19" -> real_Q19(k, c)
=============================================================================
