----------------------------- MODULE MCHarness -----------------------------
(***************************************************************************)
(* Harness with the driver programs, for TLC.                              *)
(***************************************************************************)
EXTENDS Harness, DriverPrograms, TLC

(* Driver d, told to run the rounds from first to last.                    *)
Started(d, first, last) == d @@ [p_s_model_start |-> first, p_s_model_end |-> last]

ColumnDrivers ==
  {TwoColumns, TwoColumnsSkewed, ThreeColumns, FourColumns, FiveColumns, OneColumn, Haihang}

QueryDrivers == {Q1, Q3, Q5, Q6, Q7, Q8, Q10, Q12, Q14, Q15, Q17, Q19}

BlockDrivers ==
  {BlockQ1, BlockQ3, BlockQ5, BlockQ6, BlockQ7, BlockQ8, BlockQ10, BlockQ12, BlockQ14,
   BlockQ15, BlockQ17, BlockQ19, BlockTwoColumns, BlockThreeColumns, BlockFourColumns,
   BlockFourColumnsComplex, BlockOneColumn, BlockHaihang}

(* The column drivers run their first three kernels, the others any one.   *)
EveryDriver ==
  {Started(d, 0, IF 2 \in d.models THEN 2 ELSE 0) : d \in ColumnDrivers}
    \cup UNION {{Started(d, m, m) : m \in d.models} : d \in QueryDrivers \cup BlockDrivers}

OneRound == {Started(TwoColumns, 0, 0)}

(* Rounds 3 and 4, the second of which main's comment offers.              *)
OtherModels == {Started(TwoColumns, 3, 4)}
=============================================================================
