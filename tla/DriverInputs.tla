---------------------------- MODULE DriverInputs ----------------------------
(***************************************************************************)
(* The drivers of ColumnFill: for each, what its main cuts into tasks, and *)
(* the columns its run allocates and fills before the first barrier.       *)
(***************************************************************************)
EXTENDS Naturals, Sequences

(***************************************************************************)
(* main: so many tuples, the way they are cut, whether all hardware        *)
(* threads are taken by default, and how many bit widths the command line  *)
(* gives, T1_bit_width first.                                              *)
(***************************************************************************)
Main(tuples, cut, unit, all, widths) ==
  [tuples |-> tuples, cut |-> cut, unit |-> unit, all |-> all, widths |-> widths]

(* The program of a main and the columns of its run.                       *)
Driver(main, columns) ==
  [tuples |-> main.tuples, cut |-> main.cut, unit |-> main.unit, all |-> main.all,
   rows |-> main.tuples, columns |-> columns]

(* rand32_next(gen) & ((1 << mask) - 1), stored in width bits.             *)
Random(mask, width) == [source |-> "random", mask |-> mask, width |-> width, stops |-> FALSE]

(* A table read to its end.                                                *)
Table(source, width) == [source |-> source, mask |-> width, width |-> width, stops |-> FALSE]
Codes(width) == Table("integer", width)

(* A table read to its end, or until the task is full.                     *)
UpTo(column) == [column EXCEPT !.stops = TRUE]

----------------------------------------------------------------------------
(***************************************************************************)
(* The drivers of the column kernels.  T[k] is Tk_bit_width.               *)
(***************************************************************************)
ColumnMain(widths) == Main(1000 * 1000 * 1000, "rounded", 64, TRUE, widths)

OneColumn_main == ColumnMain(1)
TwoColumns_main == ColumnMain(2)
TwoColumnsSkewed_main == ColumnMain(2)
ThreeColumns_main == ColumnMain(3)
FourColumns_main == ColumnMain(4)
FiveColumns_main == ColumnMain(5)
Haihang_main == ColumnMain(2)

OneColumn_run(T) == <<Random(T[1], T[1])>>
TwoColumns_run(T) == <<Random(T[1], T[1]), Random(T[2], T[2])>>
(* Column 2 comes from a file of numbers of 17 bits, read tuple by tuple.  *)
TwoColumnsSkewed_run(T) == <<Random(T[1], T[1]), Random(17, T[2])>>
ThreeColumns_run(T) == <<Random(T[1], T[1]), Random(T[2], T[2]), Random(T[3], T[3])>>
(* The columns behind column 3 are drawn by its mask.                      *)
FourColumns_run(T) ==
  <<Random(T[1], T[1]), Random(T[2], T[2]), Random(T[3], T[3]), Random(T[3], T[4])>>
FiveColumns_run(T) ==
  <<Random(T[1], T[1]), Random(T[2], T[2]), Random(T[3], T[3]), Random(T[3], T[4]),
    Random(T[3], T[5])>>
Haihang_run(T) == <<Random(T[1], T[1]), Random(T[2], T[2])>>

----------------------------------------------------------------------------
(***************************************************************************)
(* The drivers of the TPC-H queries.                                       *)
(***************************************************************************)
QueryMain == Main(60490115, "rounded", 64, FALSE, 0)

Q1_main == QueryMain
Q3_main == QueryMain
Q5_main == QueryMain
Q6_main == QueryMain
Q7_main == QueryMain
Q8_main == QueryMain
Q10_main == QueryMain
Q12_main == QueryMain
Q14_main == QueryMain
Q15_main == QueryMain
(* Every thread takes all the tuples, whatever task_len says.              *)
Q17_main == [QueryMain EXCEPT !.tuples = 59987861, !.cut = "whole"]
Q19_main == [QueryMain EXCEPT !.cut = "whole"]

Shipdate == <<Codes(12)>>
KeyAndOrderdate == <<Codes(3), Codes(12)>>
BrandContainerQuantity(quantity) ==
  <<UpTo(Codes(8)), UpTo(Codes(8)), UpTo(Table(quantity, 8))>>

Q1_run == Shipdate
Q3_run == <<Codes(3), Codes(12), Codes(12)>>
Q5_run == KeyAndOrderdate
Q6_run == <<Codes(12), Table("hundredths", 8), Codes(8)>>
Q7_run == <<Codes(8), Codes(8), Codes(12)>>
Q8_run == <<Codes(8), Codes(12), Codes(8)>>
Q10_run == KeyAndOrderdate
Q12_run == <<Codes(8), Codes(12), Codes(12), Codes(12)>>
Q14_run == Shipdate
Q15_run == Shipdate
Q17_run == BrandContainerQuantity("integer")
Q19_run == BrandContainerQuantity("integer") \o <<Codes(8), Codes(8), Codes(8)>>

----------------------------------------------------------------------------
(***************************************************************************)
(* The drivers of ByteSlice.  Those of queries cut the tuples as they are, *)
(* and read l_quantity by "%d" into a float.                               *)
(***************************************************************************)
BlockQueryMain == Main(60490115, "equal", 1, FALSE, 0)

BlockQ1_main == BlockQueryMain
BlockQ3_main == BlockQueryMain
BlockQ5_main == BlockQueryMain
BlockQ6_main == BlockQueryMain
BlockQ7_main == BlockQueryMain
BlockQ8_main == BlockQueryMain
BlockQ10_main == BlockQueryMain
BlockQ12_main == BlockQueryMain
BlockQ14_main == BlockQueryMain
BlockQ15_main == BlockQueryMain
BlockQ17_main == BlockQueryMain
BlockQ19_main == BlockQueryMain

BlockQ1_run == Shipdate
BlockQ3_run == <<Codes(3), Codes(12), Codes(12)>>
BlockQ5_run == KeyAndOrderdate
BlockQ6_run == <<Codes(12), Table("hundredths", 8), Table("bits", 8)>>
BlockQ7_run == <<Codes(8), Codes(8), Codes(12)>>
BlockQ8_run == <<Codes(8), Codes(12), Codes(8)>>
BlockQ10_run == KeyAndOrderdate
BlockQ12_run == <<Codes(8), Codes(12), Codes(12), Codes(12)>>
BlockQ14_run == Shipdate
BlockQ15_run == Shipdate
BlockQ17_run == BrandContainerQuantity("bits")
BlockQ19_run ==
  <<Codes(8), Codes(8), Table("bits", 8), Codes(8), Codes(8), Codes(8)>>

(***************************************************************************)
(* The block tests cut whole units of 128, and have one width.             *)
(***************************************************************************)
BIT_WIDTH_BYTESLICE == 17

BlockTestMain == Main(1000 * 1000 * 1000, "equal", 128, TRUE, 0)

BlockOneColumn_main == BlockTestMain
BlockTwoColumns_main == BlockTestMain
BlockThreeColumns_main == BlockTestMain
BlockFourColumns_main == BlockTestMain
BlockFourColumnsComplex_main == BlockTestMain
BlockHaihang_main == [BlockTestMain EXCEPT !.tuples = 1000 * 1000 * 100]

RandomBlocks(n) == [k \in 1..n |-> Random(BIT_WIDTH_BYTESLICE, BIT_WIDTH_BYTESLICE)]

BlockOneColumn_run == RandomBlocks(1)
BlockTwoColumns_run == RandomBlocks(2)
BlockThreeColumns_run == RandomBlocks(3)
BlockFourColumns_run == RandomBlocks(4)
BlockFourColumnsComplex_run == RandomBlocks(4)
BlockHaihang_run == RandomBlocks(2)
=============================================================================
