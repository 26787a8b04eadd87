---------------------------- MODULE BlockQueries ----------------------------
(***************************************************************************)
(* The programs that are run as sequences of scans of ByteSlice column     *)
(* blocks: the execution models of ByteSlice's Q1.cpp to Q19.cpp and of    *)
(* its *_byteslice_column_block_test.cpp, and the single-column kernels of *)
(* complex_predicates.  The columns, literals and predicates of a query    *)
(* are those of QueryKernels; an execution model only orders their scans.  *)
(***************************************************************************)
EXTENDS BlockScan, QueryKernels

(* The scan of predicate p of kernel k into bit vector v. *)
Scan(k, p, v, bit_opt) ==
  [op |-> "Scan", cmp |-> k.cmp[p], column |-> k.column[p], right |-> k.right[p],
   value |-> k.value[p], bv |-> v, bit_opt |-> bit_opt,
   last |-> k.bytes[p], clears |-> TRUE]

Combined(op, v, other) == [op |-> op, bv |-> v, other |-> other, clears |-> TRUE]

(* The operations of k on so many tuples and bit vectors; the answer is in *)
(* bit vector 1.                                                           *)
Program(k, num, vectors, ops) ==
  [kernel |-> k, width |-> k.width, num |-> num, vectors |-> vectors, ops |-> ops]

(* The first predicate of a set is set, the others are and-ed to it. *)
Conjunction(k, order, v) ==
  [j \in 1..Len(order) |-> Scan(k, order[j], v, IF j = 1 THEN "kSet" ELSE "kAnd")]

AllOrders(n) == {o \in [1..n -> 1..n] : \A j, h \in 1..n : j # h => o[j] # o[h]}

(* Execution models 0, 1, 2, ... of a query that is a conjunction. *)
Orders ==
  [Q1 |-> AllOrders(2), Q14 |-> AllOrders(2), Q15 |-> AllOrders(2),
   Q3 |-> AllOrders(3), Q5 |-> AllOrders(3), Q10 |-> AllOrders(3), Q17 |-> AllOrders(3),
   Q6 |-> {<<1, 2, 3, 4, 5>>, <<1, 2, 5, 3, 4>>, <<3, 4, 1, 2, 5>>, <<3, 4, 5, 1, 2>>,
           <<5, 3, 4, 1, 2>>, <<5, 1, 2, 3, 4>>, <<2, 1, 3, 4, 5>>, <<2, 1, 5, 3, 4>>,
           <<4, 3, 1, 2, 5>>, <<4, 3, 5, 1, 2>>, <<5, 4, 3, 1, 2>>, <<5, 2, 1, 3, 4>>},
   Q8 |-> {<<1, 2, 3, 4>>, <<1, 4, 2, 3>>, <<4, 1, 2, 3>>, <<4, 2, 3, 1>>,
           <<2, 3, 4, 1>>, <<2, 3, 1, 4>>, <<3, 2, 4, 1>>, <<3, 2, 1, 4>>}]

ConjunctiveModels(k, num) ==
  {Program(k, num, 1, Conjunction(k, order, 1)) : order \in Orders[k.query]}

(* ByteSlice's Q5 asks for another region and year than complex_predicates'. *)
Q5_byteslice == KeyAndDateRange("Q5", 3, 1488, 1860)

----------------------------------------------------------------------------
(* The two nation pairs, in bit vectors 1 and 2, joined in 1. *)
NationPairs ==
  Conjunction(Q7, <<1, 2>>, 1) \o Conjunction(Q7, <<3, 4>>, 2) \o <<Combined("Or", 1, 2)>>

(* Execution models 0 and 1 and-scan the dates into the joined pairs. *)
Q7_models(num) ==
  {Program(Q7, num, 2, NationPairs \o <<Scan(Q7, d[1], 1, "kAnd"), Scan(Q7, d[2], 1, "kAnd")>>) :
     d \in {<<5, 6>>, <<6, 5>>}}

(* Execution models 2 and 3 scan the dates into bit vector 2 and or it. *)
Q7_or_models(num) ==
  {Program(Q7, num, 2, NationPairs \o Conjunction(Q7, d, 2) \o <<Combined("Or", 1, 2)>>) :
     d \in {<<5, 6>>, <<6, 5>>}}

(* The orders in which Q12 scans the dates. *)
DateOrders == {<<3, 4, 5, 6>>, <<5, 6, 3, 4>>, <<6, 5, 3, 4>>, <<4, 3, 5, 6>>}

ShipModes(v) == <<Scan(Q12, 1, v, "kSet"), Scan(Q12, 2, v, "kOr")>>

AndScans(k, order, v) == [j \in 1..Len(order) |-> Scan(k, order[j], v, "kAnd")]

(* Execution models 0 to 3. *)
Q12_models(num) ==
  {Program(Q12, num, 2, ShipModes(1) \o AndScans(Q12, order, 1)) : order \in DateOrders}

(* Execution models 4 to 7 and-scan the dates into a bit vector that was   *)
(* never set, and or the ship modes to it.                                 *)
Q12_or_models(num) ==
  {Program(Q12, num, 2, ShipModes(2) \o AndScans(Q12, order, 1) \o <<Combined("Or", 1, 2)>>) :
     order \in DateOrders}

(* Set s of brand, containers, quantities and sizes, in bit vector v. *)
Q19_set(s, v) ==
  <<Scan(Q19, 4 + 4 * s, v, "kSet"), Scan(Q19, 5 + 4 * s, v, "kOr"),
    Scan(Q19, 6 + 4 * s, v, "kOr"), Scan(Q19, 7 + 4 * s, v, "kOr")>>
  \o AndScans(Q19, <<1 + s, 16 + 2 * s, 17 + 2 * s, 22 + 2 * s, 23 + 2 * s>>, v)

Q19_model(num) ==
  Program(Q19, num, 4,
    Q19_set(0, 2) \o Q19_set(1, 3) \o Q19_set(2, 4)
      \o <<Scan(Q19, 28, 1, "kSet"), Scan(Q19, 29, 1, "kOr"), Scan(Q19, 30, 1, "kAnd"),
           Combined("Or", 2, 3), Combined("Or", 2, 4), Combined("And", 1, 2)>>)

----------------------------------------------------------------------------
(***************************************************************************)
(* The test drivers: conjunctions of kGreater and kLess in turn, and       *)
(* column_c, which joins two of them.                                      *)
(***************************************************************************)
TestKernel(width, values) ==
  Query("test", [c \in 1..Len(values) |-> width],
        [p \in 1..Len(values) |->
           Compare(IF p % 2 = 1 THEN "kGreater" ELSE "kLess", p, values[p])],
        <<{}>>, <<>>)

ColumnTest(width, values, num) ==
  LET k == TestKernel(width, values)
  IN Program(k, num, 1, Conjunction(k, [p \in 1..Len(values) |-> p], 1))

ColumnCTest(width, values, num) ==
  LET k == [TestKernel(width, values) EXCEPT !.query = "test_c"]
  IN Program(k, num, 2, Conjunction(k, <<1, 2>>, 1) \o Conjunction(k, <<3, 4>>, 2)
                          \o <<Combined("Or", 1, 2)>>)

(***************************************************************************)
(* The four variants of column_cmp_with_literal, and two_column_cmp: a     *)
(* kLess scan that leaves m_equal alone on the fourth slice only, and does *)
(* not clear the tail.                                                     *)
(***************************************************************************)
SingleColumnKernel(width, pred, num) ==
  LET k == Query("test_less", <<width, width>>, <<pred>>, <<{}>>, <<>>)
  IN Program(k, num, 1, <<[Scan(k, 1, 1, "kSet") EXCEPT !.last = 4, !.clears = FALSE]>>)

column_cmp_with_literal(width, v, num) ==
  SingleColumnKernel(width, Compare("kLess", 1, v), num)

column_cmp_with_literal_nP_nS(width, v, num) == column_cmp_with_literal(width, v, num)
column_cmp_with_literal_nP_S(width, v, num) == column_cmp_with_literal(width, v, num)
column_cmp_with_literal_P_nS(width, v, num) == column_cmp_with_literal(width, v, num)
column_cmp_with_literal_P_S(width, v, num) == column_cmp_with_literal(width, v, num)

two_column_cmp(width, num) ==
  SingleColumnKernel(width, CompareColumns("kLess", 1, 2), num)

----------------------------------------------------------------------------
TestConjunct(k, c, p) == IF p % 2 = 1 THEN c[p] > k.value[p] ELSE c[p] < k.value[p]

(* What the drivers recompute from the codes they kept. *)
real_test(k, c) == \A p \in 1..k.n : TestConjunct(k, c, p)

real_test_c(k, c) ==
  \/ TestConjunct(k, c, 1) /\ TestConjunct(k, c, 2)
  \/ TestConjunct(k, c, 3) /\ TestConjunct(k, c, 4)

real_less(k, c) == c[1] < IF k.right[1] = 0 THEN k.value[1] ELSE c[2]

Expected(k, c) ==
  CASE k.query = "test" -> real_test(k, c)
    [] k.query = "test_c" -> real_test_c(k, c)
    [] k.query = "test_less" -> real_less(k, c)
    [] OTHER -> real(k, c)

(* The drivers' test of the bit vector: when the scans of an execution     *)
(* model are done, the bit of every tuple is the query's predicate on the  *)
(* codes of the tuple.                                                     *)
EveryModelAnswersTheQuery ==
  Finished /\ program.kernel.query # "pair" =>
    \A x \in TupleIds : GetBit(bvblock[1], x) <=> Expected(program.kernel, codes[x])
=============================================================================
