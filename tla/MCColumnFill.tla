---------------------------- MODULE MCColumnFill ----------------------------
(***************************************************************************)
(* ColumnFill with the drivers of DriverInputs, for TLC.                   *)
(***************************************************************************)
EXTENDS ColumnFill, DriverInputs, InterleavedSlices

(***************************************************************************)
(* The bit widths of the command line: the default, widths of one to three *)
(* bytes (TLC has no wider numbers), and widths that give the columns      *)
(* behind column 3 fewer bits than it.                                     *)
(***************************************************************************)
Default == [k \in 1..5 |-> 17]
Narrow == <<8, 8, 12, 8, 3>>
Widths == {Default, <<9, 3, 8, 8, 24>>, <<24, 16, 2, 23, 10>>, Narrow}

(* The widths main takes from the command line.                            *)
Given(main, T) == SubSeq(T, 1, main.widths)

ColumnDrivers(T) ==
  {<<OneColumn_main, OneColumn_run(Given(OneColumn_main, T))>>,
   <<TwoColumns_main, TwoColumns_run(Given(TwoColumns_main, T))>>,
   <<TwoColumnsSkewed_main, TwoColumnsSkewed_run(Given(TwoColumnsSkewed_main, T))>>,
   <<ThreeColumns_main, ThreeColumns_run(Given(ThreeColumns_main, T))>>,
   <<FourColumns_main, FourColumns_run(Given(FourColumns_main, T))>>,
   <<FiveColumns_main, FiveColumns_run(Given(FiveColumns_main, T))>>,
   <<Haihang_main, Haihang_run(Given(Haihang_main, T))>>}

QueryDrivers ==
  {<<Q1_main, Q1_run>>, <<Q3_main, Q3_run>>, <<Q5_main, Q5_run>>, <<Q6_main, Q6_run>>,
   <<Q7_main, Q7_run>>, <<Q8_main, Q8_run>>, <<Q10_main, Q10_run>>, <<Q12_main, Q12_run>>,
   <<Q14_main, Q14_run>>, <<Q15_main, Q15_run>>, <<Q17_main, Q17_run>>, <<Q19_main, Q19_run>>}

BlockDrivers ==
  {<<BlockQ1_main, BlockQ1_run>>, <<BlockQ3_main, BlockQ3_run>>,
   <<BlockQ5_main, BlockQ5_run>>, <<BlockQ6_main, BlockQ6_run>>,
   <<BlockQ7_main, BlockQ7_run>>, <<BlockQ8_main, BlockQ8_run>>,
   <<BlockQ10_main, BlockQ10_run>>, <<BlockQ12_main, BlockQ12_run>>,
   <<BlockQ14_main, BlockQ14_run>>, <<BlockQ15_main, BlockQ15_run>>,
   <<BlockQ17_main, BlockQ17_run>>, <<BlockQ19_main, BlockQ19_run>>,
   <<BlockOneColumn_main, BlockOneColumn_run>>, <<BlockTwoColumns_main, BlockTwoColumns_run>>,
   <<BlockThreeColumns_main, BlockThreeColumns_run>>,
   <<BlockFourColumns_main, BlockFourColumns_run>>,
   <<BlockFourColumnsComplex_main, BlockFourColumnsComplex_run>>,
   <<BlockHaihang_main, BlockHaihang_run>>}

Programs ==
  UNION {ColumnDrivers(T) : T \in Widths} \cup QueryDrivers \cup BlockDrivers

(***************************************************************************)
(* A program as it is, whose tasks are only counted, and cut down to few   *)
(* tuples and small units, where TLC also follows how columns are filled.  *)
(* A table of which only a part is read has one row more than is read.     *)
(***************************************************************************)
FewTuples == {3, 4}
SmallUnit(unit) == CASE unit = 1 -> 1 [] unit = 64 -> 2 [] unit = 128 -> 4

Small(p, n) ==
  [Driver(p[1], p[2]) EXCEPT
     !.tuples = n, !.unit = SmallUnit(@),
     !.rows = IF \A k \in 1..Len(p[2]) : p[2][k].stops THEN n + 1 ELSE n]

AllDrivers ==
  {Driver(p[1], p[2]) : p \in Programs} \cup {Small(p, n) : p \in Programs, n \in FewTuples}

(* Numbers of one byte to four, and the discounts that are not exact.      *)
SmallWords == {0, 6, 8, 200, 2555, 100000, 2000000000}

(***************************************************************************)
(* The interleaved layouts of file_tool.cpp, at positions of two runs: the *)
(* bytes of three and of four columns have indices of their own, and what  *)
(* SetTuple_2 sets of two columns of as many bytes is what GetTuple_2 gets.*)
(***************************************************************************)
Places(slide_size, bytes, b) ==
  {<<c, pos, Index(slide_size, bytes, b, c, pos)>> :
     c \in Sharing(bytes, b), pos \in {0, 1, slide_size - 1, slide_size, slide_size + 1}}

ASSUME LayoutAssumption ==
  \A n \in {3, 4} : \A bytes \in {l \in Layout(n) : Ascending(l)}, b \in 1..4 :
     \A p, q \in Places(16, bytes, b) : p[3] = q[3] => p = q

Cleared == [b \in 1..4 |-> [x \in 0..127 |-> 0]]

ASSUME InterleavedAssumption ==
  \A width \in {<<9, 12>>, <<3, 8>>, <<17, 24>>}, pos \in {0, 31, 32, 63} :
     LET values == <<5, 2^width[2] - 1>>
         after == SetTuple_2(Cleared, pos, values, width)
     IN \A c \in 1..2 : GetTuple_2(after, pos, c - 1, width[c]) = values[c]
=============================================================================
