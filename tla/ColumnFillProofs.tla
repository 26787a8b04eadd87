-------------------------- MODULE ColumnFillProofs --------------------------
(***************************************************************************)
(* Proofs about ColumnFill.  The tasks are arithmetic on what main starts  *)
(* with; of the filling, the invariant is that the positions before i of   *)
(* the column in progress, and all positions of those before it, hold      *)
(* their rows, and that position and line advance together.                *)
(***************************************************************************)
EXTENDS ColumnFill, StorageProofs

LEMMA Quotient ==
  ASSUME NEW a \in Nat, NEW b \in Nat \ {0}
  PROVE  /\ a \div b \in Nat
         /\ b * (a \div b) <= a
         /\ a < b * (a \div b) + b
  OBVIOUS

LEMMA Multiple ==
  ASSUME NEW k \in Nat, NEW b \in Nat \ {0}
  PROVE  (k * b) % b = 0
  OBVIOUS

LEMMA MultiplyLess ==
  ASSUME NEW n \in Nat, NEW a \in Nat, NEW b \in Nat, a <= b
  PROVE  n * a <= n * b
  OBVIOUS

(* Subtraction modulo m and the addition that undoes it.                   *)
LEMMA Wrapped ==
  ASSUME NEW o \in Nat, NEW m \in Nat \ {0}, NEW t \in 0..(m - 1)
  PROVE  (o + ((t - o) % m)) % m = t
<1> DEFINE d == t - o
           k == d \div m
           r == d % m
<1>1. d \in Int
  OBVIOUS
<1> HIDE DEF d
<1>2. k \in Int /\ r \in 0..(m - 1) /\ d = m * k + r
  BY <1>1
<1> HIDE DEF k, r
<1>3. o + r = t - m * k
  BY <1>1, <1>2 DEF d
<1>4. m * k <= t
  BY <1>2, <1>3
<1>5. k <= 0
  <2>1. k >= 1 => m * k >= m
    BY <1>2
  <2> QED BY <1>2, <1>4, <2>1
<1>6. o + r = (0 - k) * m + t
  BY <1>2, <1>3
<1>7. IsDivision(o + r, m, 0 - k, t)
  BY <1>2, <1>5, <1>6 DEF IsDivision
<1> QED BY <1>2, <1>7, UniqueDivision DEF r, d

LEMMA Up ==
  ASSUME NEW n \in Nat, NEW unit \in Nat \ {0}
  PROVE  /\ RoundedUp(n, unit) \in Nat
         /\ n <= RoundedUp(n, unit)
         /\ RoundedUp(n, unit) <= n + unit - 1
         /\ RoundedUp(n, unit) % unit = 0
<1> DEFINE q == (n + unit - 1) \div unit
<1>1. q \in Nat /\ unit * q <= n + unit - 1 /\ n + unit - 1 < unit * q + unit
  <2>1. n + unit - 1 \in Nat
    OBVIOUS
  <2> QED
    BY <2>1, Quotient
<1>2. q * unit = unit * q /\ q * unit \in Nat
  BY <1>1
<1>3. (q * unit) % unit = 0
  BY <1>1, Multiple
<1> QED
  BY <1>1, <1>2, <1>3 DEF RoundedUp

LEMMA Down ==
  ASSUME NEW n \in Nat, NEW unit \in Nat \ {0}
  PROVE  /\ RoundedDown(n, unit) \in Nat
         /\ RoundedDown(n, unit) <= n
         /\ n < RoundedDown(n, unit) + unit
         /\ RoundedDown(n, unit) % unit = 0
<1> DEFINE q == n \div unit
<1>1. q \in Nat /\ unit * q <= n /\ n < unit * q + unit
  BY Quotient
<1>2. q * unit = unit * q /\ q * unit \in Nat
  BY <1>1
<1>3. (q * unit) % unit = 0
  BY <1>1, Multiple
<1> QED
  BY <1>1, <1>2, <1>3 DEF RoundedDown

LEMMA DownByOne ==
  ASSUME NEW n \in Nat
  PROVE  RoundedDown(n, 1) = n
BY DEF RoundedDown

(***************************************************************************)
(* The others leave the last task what the sizes say.                      *)
(***************************************************************************)
LEMMA LastTask ==
  ASSUME NEW size \in Nat, NEW n \in Nat \ {0}, NEW unit \in Nat \ {0},
         (unit - 1) * (n - 1) <= size \div n
  PROVE  LET L == RoundedUp(size \div n, unit) IN
         /\ L * (n - 1) \in Nat
         /\ L * (n - 1) <= size
         /\ size - L * (n - 1) < L + n
<1> DEFINE q == size \div n
           L == RoundedUp(q, unit)
<1>1. q \in Nat /\ n * q <= size /\ size < n * q + n
  BY Quotient
<1>2. L \in Nat /\ q <= L /\ L <= q + unit - 1
  BY <1>1, Up
<1> HIDE DEF q, L
<1>3. L * (n - 1) <= (q + unit - 1) * (n - 1)
  <2>1. n - 1 \in Nat /\ q + unit - 1 \in Nat
    BY <1>1
  <2>2. (n - 1) * L <= (n - 1) * (q + unit - 1)
    BY <1>2, <2>1, MultiplyLess
  <2> QED
    BY <2>1, <2>2, <1>2
<1>4. (q + unit - 1) * (n - 1) = q * (n - 1) + (unit - 1) * (n - 1)
  BY <1>1
<1>5. q * (n - 1) = n * q - q
  BY <1>1
<1>6. L * (n - 1) \in Nat
  BY <1>2
<1>7. q * (n - 1) <= L * (n - 1)
  <2>1. n - 1 \in Nat
    OBVIOUS
  <2>2. (n - 1) * q <= (n - 1) * L
    BY <1>1, <1>2, <2>1, MultiplyLess
  <2> QED
    BY <2>1, <2>2, <1>1, <1>2
<1>8. (unit - 1) * (n - 1) <= q
  BY DEF q
<1>9. n * q \in Nat /\ (unit - 1) * (n - 1) \in Nat
  BY <1>1
<1>10. L * (n - 1) <= size
  BY <1>1, <1>3, <1>4, <1>5, <1>6, <1>8, <1>9
<1>11. size - L * (n - 1) < L + n
  BY <1>1, <1>2, <1>5, <1>6, <1>7, <1>9
<1> QED
  BY <1>6, <1>10, <1>11 DEF L, q

----------------------------------------------------------------------------
(***************************************************************************)
(* What main starts a thread with.                                         *)
(***************************************************************************)
InputOK ==
  /\ driver \in Drivers
  /\ threads \in ThreadCounts
  /\ task_len = TaskLengths(driver, threads)
  /\ thread \in 0..(threads - 1)

LEMMA InputFacts ==
  ASSUME InputOK
  PROVE  /\ IsDriver(driver)
         /\ threads \in Nat \ {0}
         /\ Modulus \in Nat \ {0}
         /\ driver.tuples \in Nat
         /\ driver.unit \in Nat \ {0}
         /\ driver.rows \in Nat
         /\ Len(driver.columns) \in Nat \ {0}
BY ColumnFillAssumption DEF InputOK, IsDriver

LEMMA RoundedTasks ==
  ASSUME InputOK, driver.cut = "rounded"
  PROVE  /\ task_len \in [0..(threads - 1) -> Nat]
         /\ threads = 1 => task_len[0] = driver.tuples
         /\ LET L == task_len[0]
                last == task_len[threads - 1]
                others == (threads - 1) * L
            IN /\ \A u \in 0..(threads - 2) : task_len[u] = L /\ L % driver.unit = 0
               /\ (others + last) % Modulus = driver.tuples
               /\ others <= driver.tuples => others + last = driver.tuples
               /\ EnoughTuples => others <= driver.tuples /\ last < L + threads
<1> DEFINE q == driver.tuples \div threads
           S == RoundedUp(q, driver.unit)
           others == (threads - 1) * task_len[0]
           last == task_len[threads - 1]
<1>1. /\ threads \in Nat \ {0} /\ driver.tuples \in Nat /\ driver.unit \in Nat \ {0}
      /\ Modulus \in Nat \ {0} /\ driver.tuples < Modulus
  BY InputFacts DEF IsDriver
<1>2. task_len = [u \in 0..(threads - 1) |->
                    IF threads = 1 THEN driver.tuples
                    ELSE IF u < threads - 1 THEN S
                    ELSE (driver.tuples - S * (threads - 1)) % Modulus]
  BY DEF InputOK, TaskLengths, compute_task_len_for_each_thread
<1>3. q \in Nat /\ S \in Nat /\ S % driver.unit = 0
  BY <1>1, Quotient, Up
<1>4. S * (threads - 1) \in Int
  BY <1>1, <1>3
<1> HIDE DEF q, S
<1>5. (driver.tuples - S * (threads - 1)) % Modulus \in Nat
  BY <1>1, <1>4
<1>6. task_len \in [0..(threads - 1) -> Nat]
  BY <1>1, <1>2, <1>3, <1>5
<1>7. threads = 1 => task_len[0] = driver.tuples
  BY <1>1, <1>2
<1>8. ASSUME threads = 1
      PROVE  /\ \A u \in 0..(threads - 2) : task_len[u] = task_len[0] /\ task_len[0] % driver.unit = 0
             /\ (others + last) % Modulus = driver.tuples
             /\ others <= driver.tuples => others + last = driver.tuples
             /\ EnoughTuples => others <= driver.tuples /\ last < task_len[0] + threads
  <2>1. others = 0 /\ last = driver.tuples
    BY <1>1, <1>7, <1>8
  <2>2. driver.tuples % Modulus = driver.tuples
    BY <1>1
  <2> QED BY <1>1, <1>7, <1>8, <2>1, <2>2
<1>9. ASSUME threads # 1
      PROVE  /\ \A u \in 0..(threads - 2) : task_len[u] = task_len[0] /\ task_len[0] % driver.unit = 0
             /\ (others + last) % Modulus = driver.tuples
             /\ others <= driver.tuples => others + last = driver.tuples
             /\ EnoughTuples => others <= driver.tuples /\ last < task_len[0] + threads
  <2> DEFINE o == S * (threads - 1)
             t == driver.tuples
             M == Modulus
  <2>1. \A u \in 0..(threads - 2) : task_len[u] = S
    BY <1>1, <1>2, <1>9
  <2>2. 0 \in 0..(threads - 2)
    BY <1>1, <1>9
  <2>3. task_len[0] = S
    BY <2>1, <2>2
  <2>4. others = o /\ o \in Nat
    <3>1. (threads - 1) * S = S * (threads - 1) /\ S * (threads - 1) \in Nat
      BY <1>1, <1>3
    <3> QED BY <2>3, <3>1
  <2>5. last = (t - o) % M
    <3>1. threads - 1 \in 0..(threads - 1) /\ ~(threads - 1 < threads - 1)
      BY <1>1
    <3> QED BY <1>2, <1>9, <3>1
  <2>6. EnoughTuples => o <= t /\ t - o < S + threads
    BY <1>1, LastTask DEF EnoughTuples, S, q
  <2>7. t \in Nat /\ M \in Nat \ {0} /\ t < M
    BY <1>1
  <2> HIDE DEF o, t, M, others, last
  <2>8. (o + ((t - o) % M)) % M = t
    <3>1. t \in 0..(M - 1)
      BY <2>7
    <3> QED BY <2>4, <2>7, <3>1, Wrapped
  <2>9. o <= t => (t - o) % M = t - o
    <3>1. o <= t => t - o \in Nat /\ t - o < M
      BY <2>4, <2>7
    <3> QED BY <2>7, <3>1
  <2>10. (others + last) % M = t
    BY <2>4, <2>5, <2>8
  <2>11. others <= t => others + last = t
    BY <2>4, <2>5, <2>7, <2>9
  <2>12. ASSUME EnoughTuples
         PROVE  others <= t /\ last < S + threads
    <3>1. o <= t /\ t - o < S + threads
      BY <2>6, <2>12
    <3> QED BY <2>4, <2>5, <2>9, <3>1
  <2> QED
    BY <1>3, <2>1, <2>3, <2>10, <2>11, <2>12 DEF t, M, others, last
<1> QED
  BY <1>6, <1>7, <1>8, <1>9

LEMMA EqualTasks ==
  ASSUME InputOK, driver.cut = "equal"
  PROVE  /\ task_len \in [0..(threads - 1) -> Nat]
         /\ threads = 1 /\ driver.unit = 1 => task_len[0] = driver.tuples
         /\ LET L == task_len[0]
            IN /\ \A u \in 0..(threads - 1) : task_len[u] = L
               /\ L % driver.unit = 0
               /\ threads * L <= driver.tuples
               /\ driver.tuples < threads * (L + driver.unit)
<1> DEFINE q == driver.tuples \div threads
           S == RoundedDown(q, driver.unit)
<1>1. threads \in Nat \ {0} /\ driver.tuples \in Nat /\ driver.unit \in Nat \ {0}
  BY InputFacts
<1>2. task_len = [u \in 0..(threads - 1) |-> S]
  BY DEF InputOK, TaskLengths
<1>3. /\ q \in Nat /\ threads * q <= driver.tuples
      /\ driver.tuples < threads * q + threads
  BY <1>1, Quotient
<1>4. S \in Nat /\ S <= q /\ q < S + driver.unit /\ S % driver.unit = 0
  BY <1>1, <1>3, Down
<1>5. threads = 1 /\ driver.unit = 1 => S = driver.tuples
  <2> SUFFICES ASSUME threads = 1, driver.unit = 1
               PROVE  S = driver.tuples
    OBVIOUS
  <2>1. S = q
    BY <1>3, DownByOne
  <2>2. q = driver.tuples
    BY <1>1
  <2> QED
    BY <2>1, <2>2
<1> HIDE DEF q, S
<1>6. 0 \in 0..(threads - 1)
  BY <1>1
<1>7. task_len[0] = S
  BY <1>2, <1>6
<1>8. threads * S <= threads * q
  BY <1>1, <1>3, <1>4, MultiplyLess
<1>9. threads * (q + 1) <= threads * (S + driver.unit)
  <2>1. q + 1 \in Nat /\ S + driver.unit \in Nat /\ q + 1 <= S + driver.unit
    BY <1>1, <1>3, <1>4
  <2> QED
    BY <1>1, <2>1, MultiplyLess
<1>10. threads * (q + 1) = threads * q + threads
  BY <1>1, <1>3
<1>11. threads * S \in Nat /\ threads * q \in Nat /\ threads * (S + driver.unit) \in Nat
  BY <1>1, <1>3, <1>4
<1>12. task_len \in [0..(threads - 1) -> Nat]
  BY <1>2, <1>4
<1>13. threads = 1 /\ driver.unit = 1 => task_len[0] = driver.tuples
  BY <1>5, <1>7
<1>14. \A u \in 0..(threads - 1) : task_len[u] = task_len[0]
  BY <1>2, <1>7
<1>15. threads * task_len[0] <= driver.tuples
  BY <1>1, <1>3, <1>7, <1>8, <1>11
<1>16. driver.tuples < threads * (task_len[0] + driver.unit)
  BY <1>1, <1>3, <1>7, <1>9, <1>10, <1>11
<1> QED
  BY <1>4, <1>7, <1>12, <1>13, <1>14, <1>15, <1>16

LEMMA WholeTasks ==
  ASSUME InputOK, driver.cut = "whole"
  PROVE  /\ task_len \in [0..(threads - 1) -> Nat]
         /\ threads = 1 => task_len[0] = driver.tuples
<1>1. threads \in Nat \ {0} /\ driver.tuples \in Nat
  BY InputFacts
<1>2. task_len = [u \in 0..(threads - 1) |-> driver.tuples]
  BY DEF InputOK, TaskLengths
<1> QED
  BY <1>1, <1>2

(***************************************************************************)
(* The task of the thread.  Alone it takes all tuples, where the columns   *)
(* come from tables.                                                       *)
(***************************************************************************)
LEMMA ThreadTask ==
  ASSUME InputOK
  PROVE  /\ task_len \in [0..(threads - 1) -> Nat]
         /\ T1_len \in Nat
         /\ Room \in Nat /\ T1_len <= Room
         /\ threads = 1 /\ (driver.cut = "equal" => driver.unit = 1) => T1_len = driver.tuples
<1>1. driver.cut \in {"rounded", "whole", "equal"} /\ driver.unit \in Nat \ {0}
  BY InputFacts DEF IsDriver
<1>2. task_len \in [0..(threads - 1) -> Nat]
  BY <1>1, RoundedTasks, EqualTasks, WholeTasks
<1>3. thread \in 0..(threads - 1) /\ threads \in Nat \ {0}
  BY InputFacts DEF InputOK
<1>4. T1_len \in Nat
  BY <1>2, <1>3 DEF T1_len
<1>5. Room \in Nat /\ T1_len <= Room
  <2>1. RoundedUp(T1_len, driver.unit) \in Nat /\ T1_len <= RoundedUp(T1_len, driver.unit)
    BY <1>1, <1>4, Up
  <2> QED
    BY <1>4, <2>1 DEF Room
<1>6. threads = 1 => thread = 0
  BY <1>3
<1>7. ASSUME threads = 1, driver.cut = "equal" => driver.unit = 1
      PROVE  T1_len = driver.tuples
  <2>1. task_len[0] = driver.tuples
    BY <1>1, <1>7, RoundedTasks, EqualTasks, WholeTasks
  <2> QED
    BY <1>6, <1>7, <2>1 DEF T1_len
<1> QED
  BY <1>2, <1>4, <1>5, <1>7

LEMMA TasksCover ==
  ASSUME InputOK
  PROVE  TasksCoverTheTable
BY RoundedTasks, EqualTasks DEF TasksCoverTheTable

----------------------------------------------------------------------------
(***************************************************************************)
(* The positions of column k that hold their rows.                         *)
(***************************************************************************)
FromTable == driver.columns[1].source # "random"

Held(k) ==
  IF FromTable
  THEN IF pc = "filled" \/ k < column THEN T1_len ELSE IF k = column THEN i ELSE 0
  ELSE IF k < column THEN i + 1 ELSE i

(***************************************************************************)
(* The invariant of the filling.  A random row is begun only when there is *)
(* room for all of it; a table's line is the position it goes to.          *)
(***************************************************************************)
RowInv ==
  T1_len <= driver.tuples =>
    \A k \in Column(driver) : \A p \in 0..(Held(k) - 1) : p < T1_len => filled[k][p] = p + 1

PositionInv ==
  /\ FromTable => line = i
  /\ FromTable /\ Current.stops => i <= T1_len
  /\ ~FromTable => i <= T1_len /\ (column > 1 => i < T1_len)
  /\ ~FromTable /\ pc = "filled" => i = T1_len

IInv ==
  /\ InputOK
  /\ TypeOK
  /\ PositionInv
  /\ RowInv
  /\ FillStaysInside

LEMMA ColumnFacts ==
  ASSUME InputOK, NEW k \in Column(driver)
  PROVE  /\ driver.columns[k].source # "random" <=> FromTable
         /\ FromTable =>
              /\ driver.rows >= driver.tuples
              /\ ~driver.all
              /\ driver.cut = "equal" => driver.unit = 1
              /\ ~driver.columns[k].stops => driver.rows = driver.tuples
BY InputFacts DEF IsDriver, FromTable

LEMMA Initial ==
  ASSUME Init
  PROVE  IInv
<1>1. InputOK
  BY DEF Init, InputOK
<1>2. /\ threads \in Nat \ {0} /\ driver.rows \in Nat /\ Len(driver.columns) \in Nat \ {0}
      /\ T1_len \in Nat /\ task_len \in [0..(threads - 1) -> Nat]
  BY <1>1, InputFacts, ThreadTask
<1>3. TypeOK
  BY <1>1, <1>2 DEF Init, InputOK, TypeOK, Column
<1>4. PositionInv
  BY <1>2 DEF Init, PositionInv
<1>5. \A k \in Column(driver) : Held(k) = 0
  BY <1>2 DEF Init, Held, Column
<1>6. RowInv
  BY <1>5 DEF RowInv
<1>7. FillStaysInside
  BY DEF Init, FillStaysInside
<1> QED
  BY <1>1, <1>3, <1>4, <1>6, <1>7 DEF IInv

(***************************************************************************)
(* What a write at position i leaves in the columns.                       *)
(***************************************************************************)
LEMMA Written ==
  ASSUME TypeOK, NEW code, NEW row \in Nat, Write(code, row), i \in 0..(MaxRows - 1)
  PROVE  /\ filled' \in [Column(driver) -> [0..(MaxRows - 1) -> Nat]]
         /\ filled'[column][i] = row
         /\ \A k \in Column(driver) : \A p \in 0..(MaxRows - 1) :
              k # column \/ p # i => filled'[k][p] = filled[k][p]
BY DEF TypeOK, Write

LEMMA DrawCodeStep ==
  ASSUME IInv, DrawCode
  PROVE  IInv'
<1> DEFINE last == Len(driver.columns)
<1>1. /\ InputOK /\ TypeOK /\ PositionInv /\ RowInv /\ FillStaysInside
      /\ driver' = driver /\ threads' = threads /\ task_len' = task_len /\ thread' = thread
      /\ pc' = pc /\ line' = line /\ pc = "fill" /\ T1_len' = T1_len
  BY DEF IInv, DrawCode, input, Filling, T1_len
<1>2. /\ InputOK' /\ T1_len \in Nat /\ last \in Nat \ {0} /\ driver.rows \in Nat /\ MaxRows \in Nat
  BY <1>1, ThreadTask, InputFacts, ColumnFillAssumption DEF InputOK
<1>3. column \in 1..last /\ i \in Nat
  BY <1>1 DEF TypeOK, Column
<1>4. i < T1_len /\ T1_len <= MaxRows
  BY DEF DrawCode, Filling
<1>5. i \in 0..(MaxRows - 1)
  BY <1>2, <1>3, <1>4
<1>6. ~FromTable /\ ~FromTable'
  <2>1. Current.source = "random"
    BY DEF DrawCode
  <2>2. column \in Column(driver)
    BY <1>1 DEF TypeOK
  <2> QED
    BY <1>1, <2>1, <2>2, ColumnFacts DEF Current, FromTable
<1>7. PICK word \in Words : Write(word % 2^Current.mask, i + 1)
  BY DEF DrawCode
<1>8. /\ filled' \in [Column(driver) -> [0..(MaxRows - 1) -> Nat]]
      /\ filled'[column][i] = i + 1
      /\ \A k \in Column(driver) : \A p \in 0..(MaxRows - 1) :
           k # column \/ p # i => filled'[k][p] = filled[k][p]
  BY <1>1, <1>3, <1>5, <1>7, Written
<1>9. \/ column < last /\ column' = column + 1 /\ i' = i
      \/ column = last /\ column' = 1 /\ i' = i + 1
  BY <1>3 DEF DrawCode
<1>10. TypeOK'
  <2>1. column' \in Column(driver) /\ i' \in Nat
    BY <1>2, <1>3, <1>9 DEF Column
  <2> QED
    BY <1>1, <1>8, <2>1 DEF TypeOK
<1>11. PositionInv'
  BY <1>1, <1>2, <1>3, <1>4, <1>6, <1>9 DEF PositionInv
<1>12. RowInv'
  <2> SUFFICES ASSUME T1_len <= driver.tuples, NEW k \in Column(driver),
                      NEW p \in 0..(Held(k)' - 1), p < T1_len
               PROVE  filled'[k][p] = p + 1
    BY <1>1 DEF RowInv, Column
  <2>1. k \in 1..last
    BY DEF Column
  <2>2. Held(k) = (IF k < column THEN i + 1 ELSE i) /\ Held(k)' = (IF k < column' THEN i' + 1 ELSE i')
    BY <1>6 DEF Held
  <2>3. p \in 0..(MaxRows - 1)
    BY <1>2, <1>3, <1>4, <1>9, <2>1, <2>2
  <2>4. CASE k = column /\ p = i
    BY <1>8, <2>4
  <2>5. CASE k # column \/ p # i
    <3>1. p \in 0..(Held(k) - 1)
      BY <1>3, <1>9, <2>1, <2>2, <2>5
    <3>2. filled[k][p] = p + 1
      BY <1>1, <3>1 DEF RowInv
    <3> QED
      BY <1>8, <2>3, <2>5, <3>2
  <2> QED
    BY <2>4, <2>5
<1>13. FillStaysInside'
  BY <1>1 DEF FillStaysInside
<1> QED
  BY <1>2, <1>10, <1>11, <1>12, <1>13 DEF IInv

LEMMA EndDrawingStep ==
  ASSUME IInv, EndDrawing
  PROVE  IInv'
<1>1. /\ InputOK /\ TypeOK /\ PositionInv /\ RowInv
      /\ driver' = driver /\ threads' = threads /\ task_len' = task_len /\ thread' = thread
      /\ column' = column /\ i' = i /\ line' = line /\ filled' = filled
      /\ pc' = "filled" /\ T1_len' = T1_len /\ i = T1_len
  BY DEF IInv, EndDrawing, input, T1_len
<1>2. InputOK' /\ T1_len \in Nat
  BY <1>1, ThreadTask DEF InputOK
<1>3. ~FromTable /\ ~FromTable'
  <2>1. Current.source = "random" /\ column \in Column(driver)
    BY <1>1 DEF EndDrawing, TypeOK
  <2> QED
    BY <1>1, <2>1, ColumnFacts DEF Current, FromTable
<1>4. TypeOK'
  BY <1>1 DEF TypeOK
<1>5. PositionInv'
  BY <1>1, <1>2, <1>3 DEF PositionInv
<1>6. \A k \in Column(driver) : Held(k)' = Held(k)
  BY <1>1, <1>3 DEF Held
<1>7. RowInv'
  BY <1>1, <1>6 DEF RowInv, Column
<1>8. FillStaysInside'
  BY <1>1 DEF FillStaysInside
<1> QED
  BY <1>2, <1>4, <1>5, <1>7, <1>8 DEF IInv

LEMMA ReadCodeStep ==
  ASSUME IInv, ReadCode
  PROVE  IInv'
<1>1. /\ InputOK /\ TypeOK /\ PositionInv /\ RowInv /\ FillStaysInside
      /\ driver' = driver /\ threads' = threads /\ task_len' = task_len /\ thread' = thread
      /\ column' = column /\ pc = "fill" /\ T1_len' = T1_len
  BY DEF IInv, ReadCode, input, Filling, T1_len
<1>2. /\ InputOK' /\ T1_len \in Nat /\ Room \in Nat /\ T1_len <= Room
      /\ driver.rows \in Nat /\ driver.tuples \in Nat /\ MaxRows \in Nat
      /\ threads \in Nat \ {0}
  BY <1>1, ThreadTask, InputFacts, ColumnFillAssumption DEF InputOK
<1>3. column \in Column(driver) /\ i \in Nat /\ line \in 0..driver.rows
  BY <1>1 DEF TypeOK
<1>4. FromTable /\ FromTable'
  BY <1>1, <1>3, ColumnFacts DEF ReadCode, Current, FromTable
<1>5. /\ line = i /\ line < driver.rows /\ driver.rows <= MaxRows
      /\ Current.stops => i < T1_len
  BY <1>1, <1>2, <1>3, <1>4 DEF PositionInv, ReadCode, TaskIsFull, Filling
<1>6. Current' = Current
  BY <1>1 DEF Current
<1>7. CASE i < Room
  <2>1. /\ i' = i + 1 /\ line' = line + 1 /\ pc' = "fill"
        /\ \E v \in TableValues(Current) : Write(Converted(Current.source, v), line + 1)
    BY <1>1, <1>7 DEF ReadCode
  <2>2. PICK v \in TableValues(Current) : Write(Converted(Current.source, v), line + 1)
    BY <2>1
  <2>3. i \in 0..(MaxRows - 1) /\ line + 1 \in Nat
    BY <1>2, <1>3, <1>5
  <2>4. /\ filled' \in [Column(driver) -> [0..(MaxRows - 1) -> Nat]]
        /\ filled'[column][i] = line + 1
        /\ \A k \in Column(driver) : \A p \in 0..(MaxRows - 1) :
             k # column \/ p # i => filled'[k][p] = filled[k][p]
    BY <1>1, <2>2, <2>3, Written
  <2>5. TypeOK'
    BY <1>1, <1>2, <1>3, <1>5, <2>1, <2>4 DEF TypeOK
  <2>6. PositionInv'
    <3>1. line' = i'
      BY <1>5, <2>1
    <3>2. Current.stops => i' <= T1_len'
      BY <1>1, <1>2, <1>3, <1>5, <2>1
    <3> QED
      BY <1>4, <1>6, <3>1, <3>2 DEF PositionInv
  <2>7. RowInv'
    <3> SUFFICES ASSUME T1_len <= driver.tuples, NEW k \in Column(driver),
                        NEW p \in 0..(Held(k)' - 1), p < T1_len
                 PROVE  filled'[k][p] = p + 1
      BY <1>1 DEF RowInv, Column
    <3>1. Held(k)' = (IF k < column THEN T1_len ELSE IF k = column THEN i + 1 ELSE 0)
      BY <1>1, <1>4, <2>1 DEF Held
    <3>2. Held(k) = (IF k < column THEN T1_len ELSE IF k = column THEN i ELSE 0)
      BY <1>1, <1>4 DEF Held
    <3>3. k \in Nat /\ column \in Nat
      BY <1>1, InputFacts, <1>3 DEF Column
    <3>4. CASE k = column /\ p = i
      BY <1>5, <2>4, <3>4
    <3>5. CASE k # column \/ p # i
      <4>1. p \in 0..(Held(k) - 1)
        BY <1>3, <3>1, <3>2, <3>3, <3>5
      <4>2. filled[k][p] = p + 1
        BY <1>1, <4>1 DEF RowInv
      <4>3. p \in 0..(MaxRows - 1)
        <5>1. T1_len <= MaxRows
          BY DEF ReadCode, Filling
        <5> QED
          BY <1>2, <4>1, <5>1, <3>2, <1>3
      <4> QED
        BY <2>4, <3>5, <4>2, <4>3
    <3> QED
      BY <3>4, <3>5
  <2>8. FillStaysInside'
    BY <2>1 DEF FillStaysInside
  <2> QED
    BY <1>2, <2>5, <2>6, <2>7, <2>8 DEF IInv
<1>8. CASE ~(i < Room)
  <2>1. pc' = "overrun" /\ i' = i /\ line' = line /\ filled' = filled
    BY <1>8 DEF ReadCode
  <2>2. threads # 1
    <3> SUFFICES ASSUME threads = 1
                 PROVE  FALSE
      OBVIOUS
    <3>1. T1_len = driver.tuples
      BY <1>1, <1>3, <1>4, ColumnFacts, ThreadTask
    <3>2. ~Current.stops
      BY <1>2, <1>3, <1>5, <1>8
    <3>3. driver.rows = driver.tuples
      BY <1>1, <1>3, <1>4, <3>2, ColumnFacts DEF Current
    <3> QED
      BY <1>2, <1>3, <1>5, <1>8, <3>1, <3>3
  <2>3. ~driver.all
    BY <1>1, <1>3, <1>4, ColumnFacts
  <2>4. FillStaysInside'
    BY <1>1, <1>2, <2>2, <2>3 DEF FillStaysInside
  <2>5. TypeOK'
    BY <1>1, <2>1 DEF TypeOK
  <2>6. PositionInv'
    BY <1>1, <1>4, <1>6, <2>1 DEF PositionInv
  <2>7. \A k \in Column(driver) : Held(k)' = Held(k)
    BY <1>1, <1>4, <2>1 DEF Held
  <2>8. RowInv'
    BY <1>1, <2>1, <2>7 DEF RowInv, Column
  <2> QED
    BY <1>2, <2>4, <2>5, <2>6, <2>8 DEF IInv
<1> QED
  BY <1>7, <1>8

LEMMA CloseTableStep ==
  ASSUME IInv, CloseTable
  PROVE  IInv'
<1> DEFINE last == Len(driver.columns)
<1>1. /\ InputOK /\ TypeOK /\ PositionInv /\ RowInv
      /\ driver' = driver /\ threads' = threads /\ task_len' = task_len /\ thread' = thread
      /\ i' = 0 /\ line' = 0 /\ filled' = filled /\ pc = "fill" /\ T1_len' = T1_len
  BY DEF IInv, CloseTable, input, Filling, T1_len
<1>2. /\ InputOK' /\ T1_len \in Nat /\ last \in Nat \ {0}
      /\ driver.rows \in Nat /\ driver.tuples \in Nat
  BY <1>1, ThreadTask, InputFacts DEF InputOK
<1>3. column \in 1..last /\ i \in Nat
  BY <1>1 DEF TypeOK, Column
<1>4. FromTable /\ FromTable'
  <2>1. column \in Column(driver)
    BY <1>1 DEF TypeOK
  <2> QED
    BY <1>1, <2>1, ColumnFacts DEF CloseTable, Current, FromTable
<1>5. \/ column < last /\ column' = column + 1 /\ pc' = "fill"
      \/ column = last /\ column' = column /\ pc' = "filled"
  BY <1>1, <1>3 DEF CloseTable
<1>6. T1_len <= driver.tuples => T1_len <= i
  <2>1. driver.rows >= driver.tuples
    BY <1>1, <1>3, <1>4, ColumnFacts DEF Column
  <2>2. line = i /\ (line = driver.rows \/ i = T1_len)
    BY <1>1, <1>4 DEF PositionInv, CloseTable, TaskIsFull
  <2> QED
    BY <1>2, <1>3, <2>1, <2>2
<1>7. TypeOK'
  <2>1. column' \in Column(driver) /\ 0 \in 0..driver.rows
    BY <1>2, <1>3, <1>5 DEF Column
  <2> QED
    BY <1>1, <1>5, <2>1 DEF TypeOK
<1>8. PositionInv'
  BY <1>1, <1>2, <1>4 DEF PositionInv
<1>9. RowInv'
  <2> SUFFICES ASSUME T1_len <= driver.tuples, NEW k \in Column(driver),
                      NEW p \in 0..(Held(k)' - 1), p < T1_len
               PROVE  filled[k][p] = p + 1
    BY <1>1 DEF RowInv, Column
  <2>1. k \in 1..last
    BY DEF Column
  <2>2. Held(k)' = (IF pc' = "filled" \/ k < column' THEN T1_len ELSE IF k = column' THEN 0 ELSE 0)
    BY <1>1, <1>4 DEF Held
  <2>3. Held(k) = (IF k < column THEN T1_len ELSE IF k = column THEN i ELSE 0)
    BY <1>1, <1>4 DEF Held
  <2>4. k <= column
    BY <1>3, <1>5, <2>1, <2>2
  <2>5. p \in 0..(Held(k) - 1)
    BY <1>2, <1>3, <1>6, <2>1, <2>2, <2>3, <2>4
  <2> QED
    BY <1>1, <2>5 DEF RowInv
<1>10. FillStaysInside'
  BY <1>5 DEF FillStaysInside
<1> QED
  BY <1>2, <1>7, <1>8, <1>9, <1>10 DEF IInv

LEMMA Stutter ==
  ASSUME IInv, UNCHANGED vars
  PROVE  IInv'
<1>1. /\ driver' = driver /\ threads' = threads /\ task_len' = task_len /\ thread' = thread
      /\ pc' = pc /\ column' = column /\ i' = i /\ line' = line /\ filled' = filled
  BY DEF vars, input
<1>2. T1_len' = T1_len /\ FromTable' = FromTable
  BY <1>1 DEF T1_len, FromTable
<1>3. InputOK' /\ TypeOK' /\ FillStaysInside'
  BY <1>1 DEF IInv, InputOK, TypeOK, FillStaysInside
<1>4. PositionInv'
  BY <1>1, <1>2 DEF IInv, PositionInv, Current
<1>5. \A k \in Column(driver) : Held(k)' = Held(k)
  BY <1>1, <1>2 DEF Held
<1>6. RowInv'
  BY <1>1, <1>2, <1>5 DEF IInv, RowInv, Column
<1> QED
  BY <1>3, <1>4, <1>6 DEF IInv

LEMMA Invariance == Spec => []IInv
<1>1. Init => IInv
  BY Initial
<1>2. IInv /\ [Next]_vars => IInv'
  BY DrawCodeStep, EndDrawingStep, ReadCodeStep, CloseTableStep, Stutter DEF Next
<1> QED
  BY <1>1, <1>2, PTL DEF Spec

----------------------------------------------------------------------------
(* Every variable of the filling of the columns keeps its type.            *)
THEOREM TypeCorrect == Spec => []TypeOK
<1>1. IInv => TypeOK
  BY DEF IInv
<1> QED
  BY <1>1, Invariance, PTL

(* The tasks main cuts, with compute_task_len_for_each_thread or equally,  *)
(* cover the table.                                                        *)
THEOREM TasksAreComplete == Spec => []TasksCoverTheTable
<1>1. IInv => TasksCoverTheTable
  BY TasksCover DEF IInv
<1> QED
  BY <1>1, Invariance, PTL

(* A thread of a driver that runs with the threads it takes by default     *)
(* fills no position behind its columns, whatever the tables hold.         *)
THEOREM NoOverrunByDefault == Spec => []FillStaysInside
<1>1. IInv => FillStaysInside
  BY DEF IInv
<1> QED
  BY <1>1, Invariance, PTL

(* A thread that has filled its columns has filled all of its task, each   *)
(* position in every column from the same tuple.                           *)
THEOREM RowsAreComplete == Spec => []RowsAreWhole
<1>1. ASSUME IInv, pc = "filled", T1_len <= driver.tuples,
             NEW k \in Column(driver), NEW p \in 0..(T1_len - 1)
      PROVE  filled[k][p] = p + 1
  <2>1. T1_len \in Nat /\ p < T1_len
    BY <1>1, ThreadTask DEF IInv
  <2>2. p \in 0..(Held(k) - 1)
    BY <1>1, <2>1 DEF IInv, PositionInv, Held
  <2> QED
    BY <1>1, <2>1, <2>2 DEF IInv, RowInv
<1>2. IInv => RowsAreWhole
  BY <1>1 DEF RowsAreWhole
<1> QED
  BY <1>2, Invariance, PTL

----------------------------------------------------------------------------
(***************************************************************************)
(* The codes that are written.                                             *)
(***************************************************************************)

(* A discount of up to 0.10 becomes no more than its hundredths: rounding  *)
(* to a float can only lose what truncation then takes for a hundredth.    *)
LEMMA HundredthsFit ==
  ASSUME NEW h \in 0..10
  PROVE  InHundredths(h) \in 0..h
<1> DEFINE Exponent(n, e) == n * 2^e \in (100 * 2^23)..(100 * 2^24 - 1)
           k == CHOOSE e \in 0..30 : Exponent(h, e)
           m == (h * 2^k + 50) \div 100
<1>1. CASE h = 0
  <2>1. InHundredths(h) = 0
    BY <1>1, Zenon DEF InHundredths
  <2> QED BY <1>1, <2>1
<1>2. CASE h # 0
  <2>1. /\ Exponent(1, 30) /\ Exponent(2, 29) /\ Exponent(3, 29) /\ Exponent(4, 28) /\ Exponent(5, 28)
      /\ Exponent(6, 28) /\ Exponent(7, 27) /\ Exponent(8, 27) /\ Exponent(9, 27) /\ Exponent(10, 27)
    BY PowersOfTwo, SMT
  <2>2. \E e \in 0..30 : Exponent(h, e)
    <3> HIDE DEF Exponent
    <3>1. h = 1 \/ h = 2 \/ h = 3 \/ h = 4 \/ h = 5 \/ h = 6 \/ h = 7 \/ h = 8 \/ h = 9 \/ h = 10
      BY <1>2
    <3> QED BY <2>1, <3>1, SMT
  <2>3. k \in 0..30 /\ Exponent(h, k)
    BY <2>2
  <2>4. InHundredths(h) = (m * 100) \div 2^k
    BY <1>2 DEF InHundredths
  <2> HIDE DEF k
  <2>5. 2^k \in Int
    BY <2>3
  <2> DEFINE p == 2^k
  <2>6. h * p >= 838860800 /\ p \in Int
    BY <2>3, <2>5, PowersOfTwo, SMT
  <2>7. p >= 83886080
    <3> HIDE DEF p
    <3> QED BY <2>6, SMT
  <2>8. (h * p + 50) \div 100 \in Nat /\ ((h * p + 50) \div 100) * 100 <= h * p + 50
    <3> HIDE DEF p
    <3> QED BY <2>6, SMT
  <2>9. ((((h * p + 50) \div 100) * 100) \div p) \in 0..h
    <3> DEFINE q == ((h * p + 50) \div 100) * 100
    <3>1. q \in Nat /\ q < (h + 1) * p /\ p \in Nat \ {0}
      <4> HIDE DEF p
      <4> QED BY <2>6, <2>7, <2>8, SMT
    <3> HIDE DEF q, p
    <3>2. q \div p \in Nat /\ p * (q \div p) <= q
      BY <3>1, Quotient
    <3>3. q \div p <= h
      BY <3>1, <3>2, SMT
    <3> QED BY <3>2, <3>3, SMT DEF q
  <2> QED BY <2>4, <2>9, SMT
<1> QED BY <1>1, <1>2

(***************************************************************************)
(* What a step writes.  It is a code of the column unless it was drawn     *)
(* with more bits, as columns 4 and 5 are if column 3 is the wider one.    *)
(***************************************************************************)
LatestInv ==
  /\ latest.width \in 1..32
  /\ latest.original \in Nat
  /\ latest.mask <= latest.width => latest.original \in CodesOf(latest.width)
  /\ latest.data = SetTuple(latest.original, latest.width)

LEMMA LatestWritten ==
  ASSUME IInv, NEW code \in Nat, Current.mask <= Current.width => code \in CodesOf(Current.width),
         NEW row, Write(code, row)
  PROVE  LatestInv'
<1>1. Current.width \in 1..32
  BY InputFacts DEF IInv, TypeOK, IsDriver, Current
<1>2. latest' = [original |-> code, mask |-> Current.mask, width |-> Current.width,
                 data |-> SetTuple(code, Current.width)]
  BY DEF Write
<1> QED BY <1>1, <1>2 DEF LatestInv

LEMMA LatestStep ==
  ASSUME IInv, LatestInv, [Next]_vars
  PROVE  LatestInv'
<1>1. CASE DrawCode
  <2>1. /\ Current.source = "random" /\ column \in Column(driver) /\ IsDriver(driver)
        /\ driver \in Drivers
    BY <1>1, InputFacts DEF DrawCode, IInv, TypeOK
  <2>2. Current.width \in 1..32 /\ Current.mask \in 1..32
    <3>1. Current.width \in 1..32 /\ Current.mask \in 1..31
      BY <2>1 DEF IsDriver, Current
    <3> QED BY <3>1
  <2>3. PICK word \in Words : Write(word % 2^Current.mask, i + 1)
    BY <1>1 DEF DrawCode
  <2> DEFINE a == 2^Current.mask
             b == 2^Current.width
             code == word % a
  <2>4. word \in Nat /\ a \in Nat \ {0} /\ b \in Nat \ {0}
    BY <2>2, <2>3, Widths, ColumnFillAssumption
  <2>5. Current.mask <= Current.width => a <= b
    BY <2>2, NarrowCodes
  <2> HIDE DEF a, b
  <2>6. code \in Nat /\ code < a
    BY <2>4
  <2>7. Current.mask <= Current.width => code \in CodesOf(Current.width)
    <3> HIDE DEF code
    <3>1. Current.mask <= Current.width => code \in 0..(b - 1)
      BY <2>4, <2>5, <2>6
    <3> QED BY <3>1 DEF b, CodesOf
  <2>8. Write(code, i + 1)
    BY <2>3 DEF a
  <2> HIDE DEF code
  <2> QED BY <2>6, <2>7, <2>8, LatestWritten
<1>2. CASE ReadCode
  <2>1. CASE i < Room
    <3>1. /\ Current.source # "random" /\ column \in Column(driver) /\ IsDriver(driver)
      BY <1>2, InputFacts DEF ReadCode, IInv, TypeOK
    <3>2. Current.width \in 1..32 /\ Current.source \in {"integer", "hundredths", "bits"}
      BY <3>1 DEF IsDriver, Current, Source
    <3>3. PICK v \in TableValues(Current) : Write(Converted(Current.source, v), line + 1)
      BY <1>2, <2>1 DEF ReadCode
    <3>4. /\ v \in Nat /\ v < 2^Current.width /\ 2^Current.width \in Nat \ {0}
          /\ Current.source = "hundredths" => v <= 10
      BY <3>2, <3>3, Widths, ColumnFillAssumption DEF TableValues
    <3>5. Converted(Current.source, v) \in 0..v
      <4>1. CASE Current.source = "integer"
        BY <3>4, <4>1 DEF Converted
      <4>2. CASE Current.source = "hundredths"
        <5>1. v \in 0..10
          BY <3>4, <4>2
        <5> QED BY <4>2, <5>1, HundredthsFit DEF Converted
      <4>3. CASE Current.source = "bits"
        BY <3>4, <4>3 DEF Converted
      <4> QED BY <3>2, <4>1, <4>2, <4>3
    <3>6. Converted(Current.source, v) \in CodesOf(Current.width)
      <4> DEFINE b == 2^Current.width
      <4>1. b \in Nat /\ v < b
        BY <3>4
      <4> HIDE DEF b
      <4>2. Converted(Current.source, v) \in 0..(b - 1)
        BY <3>4, <3>5, <4>1, SMT
      <4> QED BY <4>2 DEF b, CodesOf
    <3>7. Converted(Current.source, v) \in Nat
      BY <3>4, <3>5
    <3> QED BY <3>3, <3>6, <3>7, LatestWritten
  <2>2. CASE ~(i < Room)
    BY <1>2, <2>2 DEF ReadCode, LatestInv
  <2> QED BY <2>1, <2>2
<1>3. CASE EndDrawing \/ CloseTable \/ UNCHANGED vars
  BY <1>3 DEF EndDrawing, CloseTable, vars, LatestInv
<1> QED BY <1>1, <1>2, <1>3 DEF Next

(***************************************************************************)
(* What a thread has put into a column is what it has put aside for the    *)
(* check, or, of a number with more bits than the column has, its lowest   *)
(* bits: for every driver, width and code, from a generator or a table.    *)
(***************************************************************************)
THEOREM ColumnsKeepTheirCodes == Spec => []ColumnsKeepTheirBits
<1>1. Init => LatestInv
  <2>1. 0 \in CodesOf(8)
    BY PowersOfTwo, SMT DEF CodesOf
  <2> QED BY <2>1 DEF Init, LatestInv
<1>2. IInv /\ LatestInv /\ [Next]_vars => LatestInv'
  BY LatestStep
<1>3. ASSUME LatestInv
      PROVE  ColumnsKeepTheirBits
  <2>1. GetTuple(latest.data, latest.width) = latest.original % 2^latest.width
    BY <1>3, LowestBitsKept DEF LatestInv
  <2>2. ASSUME latest.mask <= latest.width
        PROVE  GetTuple(latest.data, latest.width) = latest.original
    BY <1>3, <2>2, RoundTrip DEF LatestInv
  <2> QED BY <2>1, <2>2 DEF ColumnsKeepTheirBits
<1> QED BY <1>1, <1>2, <1>3, Invariance, PTL DEF Spec
=============================================================================
