-------------------------- MODULE MCConjunctiveScan --------------------------
(***************************************************************************)
(* Instances of ConjunctiveScan for TLC.  A literal byte of 1 among the    *)
(* byte values 0, 1, 2 makes every slice come out less, equal and greater. *)
(***************************************************************************)
EXTENDS ConjunctiveScanInvariant, ScanKernels, TLC

(* Codes of two slices on two columns. *)
TwoColumnPlans ==
  {two_columns_cmp_with_literal_nP_nS(<<2, 2>>), two_columns_cmp_with_literal_nP_S(<<2, 2>>),
   two_columns_cmp_with_literal_P_nS(<<2, 2>>), two_columns_cmp_with_literal_P_S(<<2, 2>>),
   haihang_nP_nS(<<2, 2>>), haihang_nP_S(<<2, 2>>), haihang_P_nS(<<2, 2>>),
   haihang_P_S(<<2, 2>>)}

(* Codes of four slices, the most a 32-bit code has, and of three. *)
WideCodePlans ==
  {two_columns_cmp_with_literal_nP_nS(<<4, 3>>), two_columns_cmp_with_literal_nP_nS(<<3, 4>>),
   two_columns_cmp_with_literal_P_S(<<3, 4>>)}

(* The deeper trees, with and without PRUNING_ENABLE where the code has it. *)
WideTreePlans ==
  {three_columns_cmp_with_literal_nP_nS(<<2, 1, 2>>),
   three_columns_cmp_with_literal_nP_S(<<2, 1, 2>>),
   three_columns_cmp_with_literal_P_nS(<<2, 1, 2>>),
   three_columns_cmp_with_literal_P_S(<<2, 1, 2>>),
   five_columns_cmp_with_literal_nP_nS(<<1, 1, 1, 1, 2>>)}
  \cup UNION {
   {four_columns_cmp_with_literal_nP_nS(<<2, 1, 2, 1>>, pruning),
    four_columns_cmp_with_literal_nP_S(<<2, 1, 2, 1>>, pruning),
    four_columns_cmp_with_literal_P_nS(<<2, 1, 2, 1>>, pruning),
    four_columns_cmp_with_literal_P_S(<<2, 1, 2, 1>>, pruning),
    four_columns_c_cmp_with_literal_nP_nS(<<2, 2, 2, 1>>, pruning),
    four_columns_c_cmp_with_literal_nP_S(<<2, 2, 2, 1>>, pruning),
    four_columns_c_cmp_with_literal_P_nS(<<2, 2, 2, 1>>, pruning),
    four_columns_c_cmp_with_literal_P_S(<<2, 2, 2, 1>>, pruning)} : pruning \in BOOLEAN}

(***************************************************************************)
(* The comparators are macros of the column files: every pair of them,     *)
(* joined either way, in both kernels of the refinement.                   *)
(***************************************************************************)
AllComparatorPlans ==
  {[two_columns_cmp_with_literal_nP_S(<<2, 1>>) EXCEPT !.cmp = cmp, !.refineCmp = cmp, !.judges = judges,
                                !.prog = <<[op |-> op, a |-> 1, b |-> 2]>>] :
     cmp \in [1..2 -> Comparator], judges \in BOOLEAN, op \in Bitwise}

WidePlans == WideCodePlans \cup WideTreePlans \cup AllComparatorPlans

(* Codes of one slice, for the loops over words and chunks. *)
OneBytePlans == {two_columns_cmp_with_literal_nP_nS(<<1, 1>>)}

TernaryByte == 0..2
MiddleByte == {1}

(***************************************************************************)
(* The two-column kernels start with every content of both lanes, the wide *)
(* ones with every content of one, and the same in the other.              *)
(***************************************************************************)
AllLanes(k) == [Slices(k) -> [Tuple -> Byte]]
EqualLanes(k) == {[s \in Slices(k) |-> [x \in Tuple |-> d[s]]] : d \in [Slices(k) -> Byte]}

MixedInit ==
  /\ plan \in Plans
  /\ \/ plan \in TwoColumnPlans /\ data \in AllLanes(plan)
     \/ plan \in WidePlans /\ data \in EqualLanes(plan)
  /\ literal \in [LiteralSlices(plan) -> LiteralByte]
  /\ Enter

MixedSpec == MixedInit /\ [][Next]_vars

AllPlans == TwoColumnPlans \cup WidePlans

(* The lanes of a register are treated alike.                              *)
SymmetricLanes == Permutations(Lane)

(***************************************************************************)
(* The loops over words and chunks.  Of codes of one slice they start with *)
(* every content of a column 1, and of a column 2 that never equals its    *)
(* literal, the same in both lanes.  Of codes of two slices, the lanes and *)
(* the chunks hold codes shifted against each other: a kernel meets every  *)
(* stage in each chunk, with other masks left behind by the one before,    *)
(* and lanes that are open beside lanes that are not.                      *)
(***************************************************************************)
LoopPlans == OneBytePlans \cup TwoColumnPlans

OneByteContents(k) ==
  {[s \in Slices(k) |-> [x \in Tuple |-> d[s][<<x[1], x[2][1]>>]]] :
     d \in {e \in [Slices(k) -> [(1..NumWords) \X (1..NumChunks) -> Byte]] :
              \A y \in DOMAIN e[<<2, 1>>] : e[<<2, 1>>][y] # 1}}

FirstLane == CHOOSE l \in Lane : TRUE

ShiftedContents(k) ==
  {[s \in Slices(k) |->
      [x \in Tuple |-> (d[s] + x[1] + 2 * x[2][1] + (IF x[2][2] = FirstLane THEN 0 ELSE s[1])) % 3]] :
     d \in [Slices(k) -> Byte]}

LoopInit ==
  /\ plan \in Plans
  /\ \/ plan \in OneBytePlans /\ data \in OneByteContents(plan)
     \/ plan \in TwoColumnPlans /\ data \in ShiftedContents(plan)
  /\ literal \in [LiteralSlices(plan) -> LiteralByte]
  /\ Enter

LoopSpec == LoopInit /\ [][Next]_vars /\ WF_vars(Next)
=============================================================================
