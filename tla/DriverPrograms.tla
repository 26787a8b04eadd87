--------------------------- MODULE DriverPrograms ---------------------------
(***************************************************************************)
(* The driver programs, as Harness runs them: one definition for the       *)
(* function run of each.  What a driver's kernels compute, and what its    *)
(* self-check compares, is said in ScanKernels, QueryKernels and           *)
(* BlockQueries; here is which kernels it has branches for, and how its    *)
(* threads start and end.                                                  *)
(***************************************************************************)
EXTENDS Naturals

(***************************************************************************)
(* The drivers of the column kernels run the kernels p_s_model_start to    *)
(* p_s_model_end, one per round, on columns their threads generate; a      *)
(* thread that cannot allocate its columns returns.                        *)
(***************************************************************************)
ColumnDriver(models) ==
  [models |-> models, alone |-> FALSE, reads |-> FALSE, throws |-> FALSE]

TwoColumns == ColumnDriver(0..3)
TwoColumnsSkewed == ColumnDriver(0..3)
ThreeColumns == ColumnDriver(0..3)
FourColumns == ColumnDriver(0..7)
FiveColumns == ColumnDriver({0})
OneColumn == ColumnDriver(0..3)
Haihang == ColumnDriver(0..3)

(***************************************************************************)
(* The drivers of the TPC-H queries have one kernel, in one round; their   *)
(* threads read the columns from tables, and exit the process when one is  *)
(* missing.                                                                *)
(***************************************************************************)
QueryDriver ==
  [models |-> {0}, alone |-> FALSE, reads |-> TRUE, throws |-> FALSE]

Q1 == QueryDriver
Q3 == QueryDriver
Q5 == QueryDriver
Q6 == QueryDriver
Q7 == QueryDriver
Q8 == QueryDriver
Q10 == QueryDriver
Q12 == QueryDriver
Q14 == QueryDriver
Q15 == QueryDriver
Q17 == QueryDriver
Q19 == QueryDriver

(***************************************************************************)
(* The drivers of ByteSlice run one execution model, in one round.  Only   *)
(* thread 0 checks its bits, before a fifth barrier; a failed allocation   *)
(* is an exception or a failed assertion.                                  *)
(***************************************************************************)
BlockDriver(models, reads) ==
  [models |-> models, alone |-> TRUE, reads |-> reads, throws |-> TRUE]

BlockQ1 == BlockDriver(0..1, TRUE)
BlockQ3 == BlockDriver(0..5, TRUE)
BlockQ5 == BlockDriver(0..5, TRUE)
BlockQ6 == BlockDriver(0..11, TRUE)
BlockQ7 == BlockDriver(0..3, TRUE)
BlockQ8 == BlockDriver(0..7, TRUE)
BlockQ10 == BlockDriver(0..5, TRUE)
BlockQ12 == BlockDriver(0..7, TRUE)
BlockQ14 == BlockDriver(0..1, TRUE)
BlockQ15 == BlockDriver(0..1, TRUE)
BlockQ17 == BlockDriver(0..5, TRUE)
BlockQ19 == BlockDriver({0}, TRUE)
BlockTwoColumns == BlockDriver({0}, FALSE)
BlockThreeColumns == BlockDriver({0}, FALSE)
BlockFourColumns == BlockDriver({0}, FALSE)
BlockFourColumnsComplex == BlockDriver({0}, FALSE)
BlockOneColumn == BlockDriver({0}, FALSE)
BlockHaihang == BlockDriver({0}, FALSE)
=============================================================================
