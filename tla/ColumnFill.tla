----------------------------- MODULE ColumnFill -----------------------------
(***************************************************************************)
(* What the driver programs run their kernels on: main cuts the tuples     *)
(* into one task per thread, and each thread allocates columns for its     *)
(* task and fills them, with random codes or from the tables.  The threads *)
(* share no column, so one of them, any one, is followed here.             *)
(***************************************************************************)
EXTENDS ByteSlices

CONSTANTS Drivers,          \* The drivers, each with its table.
          ThreadCounts,     \* The values of thread_num.
          Words,            \* What rand32_next returns, and what the tables hold.
          Modulus,          \* The lengths are counted modulo this (2^64).
          MaxRows           \* Bound: longer tasks and tables are cut, not filled.

(***************************************************************************)
(* Driver d has d.tuples tuples, cut into tasks as d.cut says, by d.unit;  *)
(* by default it runs with all hardware threads if d.all, or with one.     *)
(* Column k holds codes of d.columns[k].width bits; from "random" they are *)
(* drawn with d.columns[k].mask bits, from another source read from a      *)
(* table of d.rows rows, up to the end of the task if d.columns[k].stops,  *)
(* or else of the table.                                                   *)
(***************************************************************************)
Source == {"random", "integer", "hundredths", "bits"}

Column(d) == 1..Len(d.columns)

IsDriver(d) ==
  /\ d.tuples \in Nat /\ d.tuples < Modulus
  /\ d.cut \in {"rounded", "whole", "equal"}
  /\ d.unit \in Nat \ {0}
  /\ d.all \in BOOLEAN
  /\ d.rows \in Nat
  /\ Len(d.columns) \in Nat \ {0}
  /\ \A k \in Column(d) :
       /\ d.columns[k].source \in Source
       /\ d.columns[k].width \in 1..32
       /\ d.columns[k].mask \in 1..31
       /\ d.columns[k].stops \in BOOLEAN
       /\ d.columns[k].source # "random" =>
            /\ d.rows >= d.tuples
            /\ ~d.all
            /\ d.cut = "equal" => d.unit = 1
            /\ ~d.columns[k].stops => d.rows = d.tuples
       /\ d.columns[k].source = "random" <=> d.columns[1].source = "random"

ASSUME ColumnFillAssumption ==
  /\ ThreadCounts \subseteq Nat \ {0}
  /\ Words \subseteq Nat
  /\ Modulus \in Nat
  /\ MaxRows \in Nat
  /\ \A d \in Drivers : IsDriver(d)

VARIABLES driver,           \* The program that runs; never written.
          threads,          \* thread_num; never written.
          task_len,         \* info[u].T1_len of every thread u; never written.
          thread,           \* The thread that is followed; never written.
          pc,               \* The stage it is in.
          column,           \* The column it has come to.
          i,                \* The position it writes next.
          line,             \* The rows it has read of the column's table.
          filled,           \* The row each position of a column was filled from, or 0.
          latest            \* The code written last, what drew it, and its bytes.

input == <<driver, threads, task_len, thread>>
vars == <<input, pc, column, i, line, filled, latest>>

----------------------------------------------------------------------------
(***************************************************************************)
(* main: the tasks.                                                        *)
(***************************************************************************)
RoundedUp(n, unit) == ((n + unit - 1) \div unit) * unit
RoundedDown(n, unit) == (n \div unit) * unit

(* Mutant: the last task is as long as the others. *)
compute_task_len_forgets_the_rest(size, n, unit) ==
  [u \in 0..(n - 1) |-> IF n = 1 THEN size ELSE RoundedUp(size \div n, unit)]

compute_task_len_for_each_thread(size, n, unit) ==
  LET size_for_each_thread == RoundedUp(size \div n, unit) IN
  [u \in 0..(n - 1) |->
     IF n = 1 THEN size
     ELSE IF u < n - 1 THEN size_for_each_thread
     ELSE (size - size_for_each_thread * (n - 1)) % Modulus]

TaskLengths(d, n) ==
  CASE d.cut = "rounded" -> compute_task_len_for_each_thread(d.tuples, n, d.unit)
    [] d.cut = "whole" -> [u \in 0..(n - 1) |-> d.tuples]
    [] d.cut = "equal" -> [u \in 0..(n - 1) |-> RoundedDown(d.tuples \div n, d.unit)]

----------------------------------------------------------------------------
(***************************************************************************)
(* run: the columns of the thread.                                         *)
(***************************************************************************)
T1_len == task_len[thread]

(* The tuples original_k has memory for: T1_len_aligned, or, in ByteSlice, *)
(* no more than the task has.                                              *)
Room == IF driver.cut = "equal" THEN T1_len ELSE RoundedUp(T1_len, driver.unit)

(***************************************************************************)
(* (uint32_t) (tmp_f * 100.0), where tmp_f is the float nearest to h       *)
(* hundredths: m / 2^k, with 24 bits in m.  The product is exact.          *)
(***************************************************************************)
InHundredths(h) ==
  IF h = 0 THEN 0
  ELSE LET k == CHOOSE e \in 0..30 : h * 2^e \in (100 * 2^23)..(100 * 2^24 - 1)
           m == (h * 2^k + 50) \div 100
       IN (m * 100) \div 2^k

(***************************************************************************)
(* The code a number of the table becomes.  Read by "%d" into a float, it  *)
(* is the bits of one so small that its integer part is 0.                 *)
(***************************************************************************)
Converted(source, v) ==
  CASE source = "integer" -> v
    [] source = "hundredths" -> InHundredths(v)
    [] source = "bits" -> 0

(* The numbers a table holds fit the column; a discount is at most 0.10.   *)
TableValues(c) ==
  {v \in Words : v < 2^c.width /\ (c.source = "hundredths" => v <= 10)}

Init ==
  /\ driver \in Drivers
  /\ threads \in ThreadCounts
  /\ task_len = TaskLengths(driver, threads)
  /\ thread \in 0..(threads - 1)
  /\ pc = "fill"
  /\ column = 1
  /\ i = 0
  /\ line = 0
  /\ filled = [k \in Column(driver) |-> [p \in 0..(MaxRows - 1) |-> 0]]
  /\ latest = [original |-> 0, mask |-> 8, width |-> 8, data |-> SetTuple(0, 8)]

(* The bound on what is filled.                                            *)
Filling == pc = "fill" /\ T1_len <= MaxRows /\ driver.rows <= MaxRows

Current == driver.columns[column]

(* Mutant: the padding is that of the column whose mask draws the code.    *)
Write_padded_for_the_mask(code, row) ==
  /\ filled' = [filled EXCEPT ![column] = [@ EXCEPT ![i] = row]]
  /\ latest' = [original |-> code, mask |-> Current.mask, width |-> Current.width,
                data |-> LET bytes == kNumBytesPerCode(Current.width)
                             padded == Padded(code, kNumPaddingBits(Current.mask))
                         IN [k \in 1..bytes |-> FLIP(ByteOf(padded, bytes, k))]]

(* original_k[i] = code; SetTuple(data_k, i, code, ...)                    *)
Write(code, row) ==
  /\ filled' = [filled EXCEPT ![column] = [@ EXCEPT ![i] = row]]
  /\ latest' = [original |-> code, mask |-> Current.mask, width |-> Current.width,
                data |-> SetTuple(code, Current.width)]

(***************************************************************************)
(* The random columns are filled tuple by tuple.                           *)
(***************************************************************************)
DrawCode ==
  /\ Filling
  /\ Current.source = "random"
  /\ i < T1_len
  /\ \E word \in Words : Write(word % 2^Current.mask, i + 1)
  /\ IF column < Len(driver.columns) THEN column' = column + 1 /\ i' = i
                                     ELSE column' = 1 /\ i' = i + 1
  /\ UNCHANGED <<input, pc, line>>

EndDrawing ==
  /\ Filling
  /\ Current.source = "random"
  /\ i = T1_len
  /\ pc' = "filled"
  /\ UNCHANGED <<input, column, i, line, filled, latest>>

(* Mutant: a column is read to the end of its table.                       *)
TaskIsFull_never == FALSE

TaskIsFull == Current.stops /\ i = T1_len

(***************************************************************************)
(* The table columns are filled one after another.  What is undefined, a   *)
(* write behind the memory of original_k, ends the model.                  *)
(***************************************************************************)
ReadCode ==
  /\ Filling
  /\ Current.source # "random"
  /\ line < driver.rows
  /\ ~TaskIsFull
  /\ IF i < Room
     THEN /\ \E v \in TableValues(Current) : Write(Converted(Current.source, v), line + 1)
          /\ i' = i + 1
          /\ line' = line + 1
          /\ pc' = pc
     ELSE pc' = "overrun" /\ UNCHANGED <<i, line, filled, latest>>
  /\ UNCHANGED <<input, column>>

(* Mutant: i goes on from the column before.                               *)
CloseTable_same_position ==
  /\ Filling
  /\ Current.source # "random"
  /\ line = driver.rows \/ TaskIsFull
  /\ IF column < Len(driver.columns) THEN column' = column + 1 /\ pc' = pc
                                     ELSE column' = column /\ pc' = "filled"
  /\ line' = 0
  /\ UNCHANGED <<input, i, filled, latest>>

(* Mutant: there is one table too many.                                    *)
CloseTable_too_many ==
  /\ Filling
  /\ Current.source # "random"
  /\ line = driver.rows \/ TaskIsFull
  /\ IF column <= Len(driver.columns) THEN column' = column + 1 /\ pc' = "filled"
                                      ELSE column' = column /\ pc' = pc
  /\ i' = 0
  /\ line' = 0
  /\ UNCHANGED <<input, filled, latest>>

CloseTable ==
  /\ Filling
  /\ Current.source # "random"
  /\ line = driver.rows \/ TaskIsFull
  /\ IF column < Len(driver.columns) THEN column' = column + 1 /\ pc' = pc
                                     ELSE column' = column /\ pc' = "filled"
  /\ i' = 0
  /\ line' = 0
  /\ UNCHANGED <<input, filled, latest>>

Next == DrawCode \/ EndDrawing \/ ReadCode \/ CloseTable

Spec == Init /\ [][Next]_vars

----------------------------------------------------------------------------
(* Every variable keeps its type: the columns and positions stay those of  *)
(* the driver and its table.                                               *)
TypeOK ==
  /\ driver \in Drivers
  /\ threads \in ThreadCounts
  /\ thread \in 0..(threads - 1)
  /\ task_len \in [0..(threads - 1) -> Nat]
  /\ pc \in {"fill", "filled", "overrun"}
  /\ column \in Column(driver)
  /\ i \in Nat
  /\ line \in 0..driver.rows
  /\ filled \in [Column(driver) -> [0..(MaxRows - 1) -> Nat]]

(***************************************************************************)
(* There are so many tuples that rounding the other tasks up leaves some   *)
(* of them for the last one.                                               *)
(***************************************************************************)
EnoughTuples == (driver.unit - 1) * (threads - 1) <= driver.tuples \div threads

(***************************************************************************)
(* The tasks cover the tuples: cut by compute_task_len_for_each_thread     *)
(* they are whole units in all but the last, and add up to the table, or   *)
(* would, did unsigned arithmetic not wrap round where the others take     *)
(* more than there is.  With EnoughTuples it does not, and the last is at  *)
(* most a tuple per thread longer.  Cut equally they leave less than a     *)
(* unit per thread out, and are whole units, as the block tests assert.    *)
(***************************************************************************)
TasksCoverTheTable ==
  LET L == task_len[0]
      last == task_len[threads - 1]
      others == (threads - 1) * L
  IN /\ driver.cut = "rounded" =>
          /\ \A u \in 0..(threads - 2) : task_len[u] = L /\ L % driver.unit = 0
          /\ (others + last) % Modulus = driver.tuples
          /\ others <= driver.tuples => others + last = driver.tuples
          /\ EnoughTuples => others <= driver.tuples /\ last < L + threads
     /\ driver.cut = "equal" =>
          /\ \A u \in 0..(threads - 1) : task_len[u] = L
          /\ L % driver.unit = 0
          /\ threads * L <= driver.tuples
          /\ driver.tuples < threads * (L + driver.unit)

(* With the threads a driver takes by default it writes no position its    *)
(* columns do not have.                                                    *)
FillStaysInside == pc = "overrun" => threads > 1 /\ ~driver.all

(* When a thread has filled its columns for a task no longer than the      *)
(* table, no position that the kernel and the check will read is left out, *)
(* and what stands at a position comes from the same tuple in each column. *)
RowsAreWhole ==
  pc = "filled" /\ T1_len <= driver.tuples =>
    \A k \in Column(driver), p \in 0..(T1_len - 1) : filled[k][p] = p + 1

(***************************************************************************)
(* A column keeps as many bits of a code as it has, the lowest, and so all *)
(* of a code of a table, or of one drawn with no more bits than that.  The *)
(* check reads original_k, which keeps them all, the kernel the column.    *)
(***************************************************************************)
ColumnsKeepTheirBits ==
  LET stored == GetTuple(latest.data, latest.width)
  IN /\ stored = latest.original % 2^latest.width
     /\ latest.mask <= latest.width => stored = latest.original
=============================================================================
