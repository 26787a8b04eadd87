# TLA+ models of cpu-conjunctive-predicates

The repository evaluates conjunctive (and some disjunctive) predicates of the
form *column op literal* on columns stored in the ByteSlice layout, with AVX2.
This directory holds models of that code in TLA+, TLC configurations that check
them on small instances, and TLAPS proofs about them.

## The system

| Part | Code | State it keeps | Operations | Modules |
|---|---|---|---|---|
| SIMD mask kernels | `complex_predicates/avx-utility.h` | none: functions on the mask registers `less`, `greater`, `equal`, `success`, `fail` | `computeKernel*`, `computeForEarlyStop`, `computeMask_one_predicate`, `computeConjunctivePredicates`, `computeFinalMask` | SimdMasks |
| Multi-column scan kernels | `complex_predicates/{2,3,4,5}_column_compare_with_literal.cpp`, `haihang.cpp` | the loop counters, the masks of every predicate, the aggregate, `bitvector_word`, the bit vector | one function per (tree, prefetching, streaming store) | ConjunctiveScan, ScanKernels |
| TPC-H query kernels | `complex_predicates/Q*.cpp` | as above, with shared columns and pre-filters | one kernel per query | QueryKernels, QueryScan |
| Single-column kernels | `complex_predicates/column_compare*.cpp` | as above, one predicate | five variants | BlockQueries |
| Byte-slice layout | `complex_predicates/file_tool.*`, `byteslice_column_block.h` | the byte slices | `SetTuple`, `GetTuple`, `FLIP`; `SetTuple_2` to `SetTuple_4`, `GetTuple_2` | ByteSlices, InterleavedSlices |
| Benchmark harness | `main` and `run` of 37 programs: `complex_predicates/*_test.cpp`, both sets of `Q*.cpp`, `ByteSlice-master/src/*_test.cpp` | threads, 20 barriers, `times`, counters on or off | `main` (cut the table, create, join), `run` (allocate, generate or read, measure, check) | Harness, DriverPrograms, ColumnFill, DriverInputs |
| Thread and memory tools | `thread_tool.cpp`, `memory_tool.cpp`, `huge_page.cpp`, `cpu_mapping.cpp` | none | `compute_task_len_for_each_thread`, allocation, binding | ColumnFill |
| ByteSlice block scans | `ByteSlice-master/src/byteslice_column_block.cpp`, `bitvector_block.*` | the block's slices, the words of a bit-vector block | `Scan` by literal and by block, `And`, `Or`, `SetOnes`, `CountOnes`, `ClearTail` | BitVectorBlock, BlockScan |
| ByteSlice queries | `ByteSlice-master/src/Q*.cpp`, `*_block_test.cpp` | one to three bit-vector blocks | the execution models | BlockQueries |
| ByteSlice columns and bit vectors | `column.cpp`, `*_column_block.*`, `bitvector*.{h,cpp}` | blocks of tuples, blocks of words; an iterator with a stack | `Resize`, `SetTuple`, `LoadTextFile`, `BulkLoadArray`, `SerToFile`, `Scan`, `And`, `Or`, `Next` | ColumnBlocks, Columns, BitVectors, BitVectorIterator, ColumnClient |
| ByteSlice files | `sequential_binary_file.cpp` | an open file | `Open`, `Close`, `Read`, `Append` | in Columns, as a sequence |
| Counters, generators, micro-benchmarks | `perf_counters.cpp`, `genzipf.cpp`, `rand_tool.cpp`, `impact_*.cpp` | | not modelled | |

`main` cuts the table into tasks and starts the threads; a thread fills its own
slices through `SetTuple`, and in every round calls one scan kernel between the
barriers, which calls the mask kernels and writes the thread's own bit vector.
The drivers of the queries do the same with the widths and literals of one TPC-H
query, in one round, on columns read from tables; those of ByteSlice have one barrier more,
and only their thread 0 checks its bits.
The ByteSlice library has the same scan with one column at a time: a `Column`
scans its blocks in parallel, each into the bit-vector block of the same number,
set, and-ed or or-ed. Its queries call the block scans directly, each in several
execution models that must agree.

What is hard:

* *Early stop across columns.* After the first byte slices the kernel drops the
  lanes its aggregate calls decided, by cutting them out of `m_equal`, and skips
  the refinement when no lane is left. From there on the masks of a dropped lane
  are meaningless, yet the final mask is computed from them. It is right only
  because the predicates that settled the tree at the first byte are exact and
  the others cannot change the root.
* *Early stop within a column.* Later slices are loaded only while a lane is
  equal, and the fourth slice leaves out masks. A slice not loaded must not
  matter.
* *Variants.* Every kernel exists in four or eight copies, with differences that
  are meant to be irrelevant and one or two that look like slips (the comparator
  column 2 is refined with in `..._P_S`). A query has up to twelve execution models.
* *Signs.* AVX2 compares bytes as signed; codes and literals have to be padded and
  flipped, both, for the order of the bytes to be that of the codes.
* *Joining.* A scan that is and-ed (or-ed) skips what is already clear (set), per
  lane and per chunk, and must leave those bits alone.
* *Threads.* Rounds are separated by barriers, counters and times are shared,
  and a thread that gives up never reaches the barrier. The blocks of a column
  are scanned by whichever thread is free.
* *Sizes.* The last word, the last block, the last task; memory behind the last
  tuple, bit vectors that are allocated and not cleared, and columns as long as the task that are
  filled from tables as long as the whole.

PROJECT.json lists the hazards one by one, each at its line, with the properties
that cover it.

## What is modelled

**SimdMasks** is the mask algebra. A register with a byte 0x00 or 0xff per lane is
the set of its 0xff lanes, so each operator is the C++ function with `avx_and` read
as intersection. `Succeeds` and `Fails` are what the functions write to
`mask_success` and `mask_fail`; `computeMask_one_predicate` stands for its own
function and for the same table inside `computeFinalMask`.

**ConjunctiveScan** is the state machine of one call of a scan kernel. The code
repeats one skeleton in every kernel; what varies is a *plan* (predicates, columns,
comparators, the tree as the list of calls, the groups of the refinement, whether
the aggregate guards it). Each action is a stage of the loop body, in the order of the
code:

| Action | Code |
|---|---|
| `FirstByte` | `computeKernelWithMask_FIRST` of one predicate |
| `Aggregate` | one `computeForEarlyStop` |
| `SkipRefinement`, `EnterRefinement` | `if (!avx_iszero(agg_equal))` and the `m_equal = avx_and(m_equal, agg_equal)` under it |
| `RefineByte`, `NextGroup` | one level of the nested `if`s of a column; leaving them |
| `PredicateMask`, `Combine` | `computeFinalMask`, or `computeMask_one_predicate` and `computeConjunctivePredicates` |
| `MoveMask` | `bitvector_word \|= mmask << i` and the next chunk |
| `StoreWord` | `bitmap[bv_word_id] = x` and the next word |

The masks are locals that are not initialized and the bit vector is written without
being read; `Init` lets them be all zeros or all ones. The masks are not reset between chunks, so that what
a chunk finds in them is what the chunk before left. Columns and literals are the
flipped bytes the kernels compare, any bytes.

The reference the properties compare with is stated on whole codes: `Holds` is the
lexicographic comparison of a code's bytes with the literal's and `IsTruth` the
meaning of the tree.

**ScanKernels** gives the plan of every kernel of the five files, stage by stage as its text goes: the comparators and
calls of the first bytes (`X_first`), the comparators of the refinement (`X_refined`), and those of the result
(`X_final`). ConjunctiveScan has one tree for the first and the last stage; `StagesAssumption`, which TLC evaluates,
says that they agree in every kernel up to the order of operands. **SelectionScan** is
what a scan promises: one right word after another.

**ByteSlices** is the storage of one code: how many bytes it takes, the padding that
moves it to their top, `SetTuple`, `GetTuple`, the flip of the top bit, and a byte as the
signed value `avx_cmplt` sees. **InterleavedSlices** is the layout of `SetTuple_2`, `SetTuple_3` and `SetTuple_4`, which keep several
columns in the same slices; nothing in the repository calls them yet.

**QueryScan** runs the kernels of Q1 to Q19 on what their drivers prepare: codes, not bytes, sliced by
`SetTuple`, and literals flipped or not as the kernel does. It is ConjunctiveScan
with two actions of its own: `QueryFirstByte`, where a one-byte column goes through
`computeKernelWithMask_LAST`, and `QueryAggregate`, where the `tmp_result` mask of some
queries is joined without a verdict and then filters the aggregate. **QueryKernels** has
one plan per query (fields `last`, `early`, `flips`) and `real`, the predicate with which
the driver checks the bits.

**BitVectorBlock** is the words of one block of a bit vector and their operations,
`ClearTail` word by word as the code has it. **BlockScan** is the state machine of a
sequence of scans of a column block, a *program*:

| Action | Code |
|---|---|
| `StartScan` | the call; the dispatch on comparator and `Bitwise` |
| `StartChunk` | the initial masks; `input_mask` from the word that is there, and the test that skips the chunk |
| `ScanSlice` | one level of the nested `if`s: a load and `ScanKernel2` |
| `MoveMask` | the comparator's result mask, `bitvector_word \|= ...` |
| `StoreWord` | `SetWord` of the word joined by `Bitwise` |
| `EndScan` | `ClearTail`, where the scan has one |
| `CombineBlocks` | `And`, `Or` of two bit-vector blocks |

A bit-vector block begins with all zeros or all ones, because its memory is not
initialised. Programs are the sequences the code has: **BlockQueries** lists every execution model of
the ByteSlice queries, the block tests and the single-column kernels of
`complex_predicates`, with the check the driver makes.
**WordwiseScan** is what such a sequence promises: each scan joins the verdict on
whole codes into its block's bits, a word at a time, and changes no other bit.

**Columns**, **BitVectors** and **BitVectorIterator** are the library one level up, with
**ColumnBlocks** for the two kinds of blocks. A client (**ColumnClient**) makes the calls of a script:

| Action | Code |
|---|---|
| `Column`, `Resize`, `SetTuple_`, `LoadTextFile`, `SerToFile`, `DeserFromFile` | the functions of `column.cpp`, one step each |
| `BulkLoadArray`, `LoadBlock`, `EndLoad` | the loop over the blocks, a block per step, with its assertions |
| `StartLoop`, `TakeBlock(t)`, `RunBlock(t)`, `EndLoop` | `#pragma omp parallel for schedule(dynamic)` in `Column::Scan` and in the functions of `bitvector.cpp`: a thread takes the next block when it has finished one; the barrier; `CountOnes` adds up the threads' shares |
| `SetBit_` | `SetBit`, `UnsetBit` |
| `NewIterator`, `NextPops`, `NextBlock`, `NoBlockLeft`, `SkipZeroWord`, `PushWord` | `BitVectorIterator::Next`: pop, or go on word by word until one is not zero, and push its ones |

The scan of one block is one step here, since blocks share nothing and
`ImplementsWordwiseScan` shows what the scan of one does; a block is
written into only by the thread that took it. An assertion that fails sets `failed`.
**ColumnStore** is what the client is promised: a column is a function of positions, a
bit vector a set of positions, a file the codes written; blocks, words, tails and threads
do not show. A scan, in it, settles the positions it has not yet settled in any order. **ColumnClient**
says what the store is in it: `Undone` are the positions of the blocks no thread has finished, `AllValues`
what `GetTuple` returns, `AllWritten` the codes of the file's blocks in a row.

**Harness** is `main` and `run` of every driver program, which are one text with four
differences; line numbers are those of `2_column_compare_with_literal_test.cpp`. `main` has
its two loops over the threads, and every thread the stage it is in (`pc`).
The barriers of a round are used again in the next one, as in the code. The variable
`driver` says which program runs: the kernels it has branches for, the rounds asked for, whether
only thread 0 checks (and a fifth barrier follows), whether threads read tables, and
whether a failed allocation ends the thread or the process.

**DriverPrograms** says so of each of the 37 programs, in three families:

| Family | Rounds | Allocation fails | Table missing | Checks |
|---|---|---|---|---|
| column drivers, `complex_predicates/*_test.cpp` | `p_s_model_start` to `p_s_model_end` | `return NULL` | reads none | every thread |
| query drivers, `complex_predicates/Q*.cpp` | one | `return NULL` | `exit(1)` | every thread |
| block drivers, `ByteSlice-master/src` | one, of `execution_model` | an assertion or exception | `exit(1)`, in `Q*.cpp` | thread 0, then the fifth barrier |

| Action | Code |
|---|---|
| `Create`, `Join`, `Destroy` | the loops with `pthread_create` and `pthread_join`; the end of `main` |
| `Allocate` | the calls of `malloc_memory`, each with its `return NULL`, or of `alloc` and `new` |
| `Generate` | filling the columns or reading them, clearing the bit vector, the head of the round loop |
| `Wait` | `pthread_barrier_wait`: the last thread to arrive lets all go; thread 0 goes on to the counters, the others past them |
| `StartCounters`, `StopCounters` | thread 0's calls of the PCM functions |
| `RunKernel` | the `if` over `p_s_model`; a value without a branch runs nothing |
| `RecordTime` | `d->times[0][d->thread] = t1` |
| `Check` | the self-check |
| `AddTime`, `PrintTime` | thread 0's loop over the times, one read per step; the `printf` |
| `NextRound` | the end of the loop over `p_s_model` |

A time is represented by the round it was taken in and a bit vector by the kernel
that wrote it, because what can go wrong is that they are of another round; their
values are not modelled. `main` is one actor; a thread's stages interleave freely with
those of the others between the barriers.

**MeasuredRounds** is what the harness promises of a measurement: every thread runs the
round's kernel once while the counters count, and they are stopped after the last.
`Harness` implements it; `ran` is read off the threads' stages.

**ColumnFill** is what a driver does before the first barrier, on the data: `main` cuts the tuples
into tasks, and a thread fills its columns. The threads share none of them, so one thread, any, is followed,
to a position at a time:

| Action | Code |
|---|---|
| `Init` | the sizes in `main`, with `compute_task_len_for_each_thread` or the division that stands for it |
| `DrawCode`, `EndDrawing` | the loop over `i` with `rand32_next`, one code per step, and its end |
| `ReadCode` | one round of `while (fscanf(...) > 0)`: the code kept in `original_k[i]` and `SetTuple` |
| `CloseTable` | end of file, or `if (i == T1_len) break`; `fclose`, and `i = 0` for the next table |

`filled` says which row every position was filled from, and `latest` what was stored last: its code, and its
bytes as `SetTuple` makes them. A position the columns have no memory for ends the model (`pc = "overrun"`), because what the
write does is undefined. A table's numbers are converted as the code does: `InHundredths` is the product of a float and
100.0, truncated, and a number read by `%d` into a float is 0 when it is truncated.
**DriverInputs** has two definitions for each of the 37 programs: `X_main`, the table it cuts and how, and `X_run`,
its columns, where they come from, the mask they are drawn with and the width they are stored in.

| Family | Tuples | Tasks | Threads by default | Columns |
|---|---|---|---|---|
| column drivers | 10^9 | `compute_task_len_for_each_thread` | all | random |
| query drivers | 60490115 | the same; Q17, Q19: all tuples in each | 1 | tables, to their end; Q17, Q19: to the end of the task |
| ByteSlice's queries | 60490115 | `tuples / threads` | 1 | the same; only Q17 stops |
| ByteSlice's tests | 10^9, 10^8 | `(tuples / threads) & 0xffffff80` | all | random, of 17 bits |

## The runs

| Run | Bounds | Shows |
|---|---|---|
| `scans` | all 8 two-column kernels, 2 slices each, every content of 2 lanes; codes of 3 and 4 slices, every pair of comparators, And and Or, three-, four- and five-column trees, with and without PRUNING_ENABLE, on 2 equal lanes | `StoredBitsCorrect`, `EarlyStopSound`, `LoadsOnlyWhatIsOpen`, `TypeOK` |
| `word_loop` | 2 words of 2 chunks of 2 lanes, 1-slice codes and all 8 two-column kernels | the inductive invariants `Inv` and `OpenLanesInv` hold at every stage, the scan implements `SelectionScan` and terminates |
| `harness` | 4 threads, every driver, rounds 0 to 2 or any one execution model, any allocation may fail, any table be missing | `OnlyKernelsCounted`, `SumOfThisRound`, `BitsOfThisRound`, `NoPartialMeasurement`, `ImplementsMeasuredRounds`, `MainReturnsOrOneGivesUp`, `TypeOK` |
| `harness_alloc_fails` | 3 threads, round 0 | `MainReturns` is violated |
| `harness_other_models` | 2 threads, rounds 3 and 4 | `BitsOfThisRound` is violated |
| `inputs` | every driver with its own sizes and 1, 2, 3, 4 or 64 threads, and cut down to 3 or 4 tuples | `TasksCoverTheTable`, `FillStaysInside`, `RowsAreWhole`, `ColumnsKeepTheirBits`, `TypeOK` |
| `queries` | 11 query kernels, 2 lanes, codes around every literal | `SelfCheckPasses`, `DroppedLanesAreSettled`, `QueryLoadsOnlyWhatIsOpen` |
| `query_19` | Q19's kernel, 1 lane | `SelfCheckPasses` is violated |
| `block_queries` | every execution model but those of the next run, and pairs of scans by every comparator and `Bitwise`; blocks of 1 to 9 tuples | `EveryModelAnswersTheQuery`, `TailIsClear`, `ScanInv`, `ImplementsWordwiseScan`, `LoadsOnlyWhatMatters` |
| `block_queries_or` | models 2 and 3 of Q7, 4 to 7 of Q12 | `EveryModelAnswersTheQuery` is violated |
| `columns` | scripts of up to 17 calls, columns of 1 to 10 tuples in blocks of 4, 2 threads | `AssertionsHold`, `TailsAreClear`, `ClientFitsStore`, the inductive invariants `ClientInv` and `StoreInv`, `ImplementsColumnStore`, `EveryCallReturns` |
| `resize` | one `Resize` from any to any size of 1 to 10 | `AssertionsHold` is violated |

*Bounds of the scan.* A slice takes the values 0, 1, 2 against a literal byte 1: the
code only compares bytes, so every outcome of every comparison occurs. Two lanes are
enough for what lanes share, which is only the tests for an empty mask: a lane is kept
in the refinement by another one. Where the tree or the length of
the codes is the question, both lanes hold the same. Nothing in the model tells the lanes apart, so `scans`
takes them as a symmetric set. In `word_loop` the chunks hold codes shifted against each other, so that a chunk meets
other masks than its own from the one before; its two temporal properties allow no symmetry.
The code's register has 32 lanes and its word two chunks; the proofs are for any.

*Bounds of the queries.* Widths and literals are the program's. The codes of the first lane
are, in every column, each literal and its two neighbours, 0, the middle and the largest code: between
two of these no comparison of the query changes. The other lane holds a tuple that is
equal to a literal in every column, or below all of them: it keeps the refinement going, or does not.
Q19 has its flipped and unflipped bytes in question, which one byte per column shows.

*Bounds of the blocks.* A word has two registers of two lanes, and an AVX unit two
words, so that `ClearTail` has a partial word, whole words and none to clear, and a
block can end in any of the lanes. Two rows alternate, so that the lanes of every
register part. Widths 8, 12, 20 and 29 take one to four bytes, the first
without padding. A query's rows are its answer with one column moved across
a literal: a wrong way to join shows on one of them.

*Bounds of the columns.* One to three blocks, the last full or not, with a resize that
stays in a block, fills one, or appends one or two. Two threads take blocks in every order.
The scripts keep to what the code asks of a caller: they fill every
position before a scan or a `Ser` reads it, combine bit vectors of columns of one size, and
stop at the `Next` that returns false; `Resize` is checked beyond that only in `resize`.

*Bounds of the inputs.* With a driver's own sizes only the tasks are computed (`MaxRows`); how columns are filled is
followed on 3 and 4 tuples, with the units 64 and 128 cut down to 2 and 4, so that a task ends inside, at and
before the end of a unit, and is longer than, equal to or shorter than the others or empty. With 64 threads the units are larger
than the tasks. TLC has integers of 32 bits, so lengths are counted modulo 2^30
instead of 2^64, which only the length of a last task that wraps can tell (three threads of the small units take
more than there is), and codes have up to 24 bits; the proofs
have any modulus. `Words` holds numbers of one to four bytes, and the discounts a float does not hold. The widths of
the column drivers are the default, 17, two sets that mix one to three bytes, and one that gives the columns behind
column 3 fewer bits than it, of one and of two bytes.

*Bounds of the harness.* Four threads are thread 0, which does more than the others,
and three of the others, one of which can be ahead of another. Three rounds have a
first, a last and one between; no variable relates rounds further apart than one.
Every driver starts, a column driver with three rounds where it has the kernels, the others with every
one of their execution models.
`CHECK_DEADLOCK FALSE` is set where the program ends or, in `harness*`, really may stop;
that it ends is a property of the run wherever something could keep it from ending.

*Fairness* is assumed for `Terminates`, `MainReturns*` and `EveryCallReturns` only: weak fairness of the
kernel's next step, of `main`, of each thread of the harness, and of the client together with its
OpenMP threads, which is that the operating system
goes on scheduling a thread that can run. A thread at a barrier and a `main` in
`pthread_join` cannot, and nothing is assumed of a failed allocation.

Each property has a mutant of the model (a definition marked *Mutant*) that breaks it.

## What the violated runs show

* `harness_alloc_fails`: when `malloc_memory` returns NULL, `run` returns before the
  first barrier. The barrier is initialized for all threads, so the others wait there for
  ever and `main`, having joined the threads before it, hangs in `pthread_join`. What holds instead is
  `MainReturnsOrOneGivesUp` (or the process ends), and `NoPartialMeasurement`: nothing wrong is ever printed.
* `harness_other_models`: `main`'s comment lists prefetching variants beyond model 3,
  whose branches are commented out. Such a round runs no kernel, prints the time of
  nothing, and its self-check accepts the bits the round before left, because
  the bit vector is cleared only once. `BitsAreOfThisRound` (below) shows that rounds
  without a branch are the only ones.
* `query_19`: the kernel puts its literals into registers as they are
  (`Q19.cpp:139-172`), while the codes' top bits are flipped. The run finds a table the driver's own check
  complains about. The ByteSlice version of Q19 goes through
  `Scan`, which flips, and is in `block_queries`.
* `block_queries_or`: models 2 and 3 of Q7 and 4 to 7 of Q12 join the parts of a
  conjunction with `Or`; those of Q12 begin with `kAnd` into a bit vector
  nobody has set. All other models agree with the query.
* `resize`: a `Resize` to fewer blocks stops one block too early (`column.cpp:85`) and fails its own
  assertion. `columns` shows that growing, and shrinking that removes no block, are right.

Some oddities no property is about, or only with a bound:

* `GetTuple_2` reads byte b of a column from where both columns have one. Where only one has, `SetTuple_2` stored it elsewhere
  (`file_tool.cpp:150`), and the tuple read is another one. Nothing calls either.
* `(uint32_t) (tmp_f*100.0)` of the float 0.06 is 5 and of 0.08 is 7 (`Q6.cpp:616`). ByteSlice's Q6, Q17 and Q19
  read `l_quantity` with `%d` into a float, so every quantity is 0. Kernel and check see the same code.
* The four- and five-column drivers draw column 4 (and 5) by the mask of column 3 but store it in its
  own width (`4_column_compare_with_literal_test.cpp:240`), and take the widths from the command line. When column 3 is the
  wider one, the slices lose bits that `original_4` keeps, and the driver's check compares other codes than the kernel.
  `ColumnsKeepTheirBits` says what a column then holds, the lowest bits of the code, and where it holds it whole; `inputs`
  and the theorem include this case.
* A query driver started with several threads reads the whole table into each task's columns (`Q5.cpp:444`);
  `FillStaysInside` says what holds: with the default of one thread it fits.

One is harmless: `two_columns_cmp_with_literal_P_S` refines column 2 with column
1's comparator. The success and fail masks come out the wrong way round, and nothing
reads them any more; the plan has the slip and `StoredBitsCorrect` holds.

## What is proved

For every value of the constants, under the assumptions the modules name. Of the scans of
the multi-column kernels (**ConjunctiveScanProofs**):

| Theorem | Statement |
|---|---|
| `TypeCorrect`, `InvCorrect` | `Spec => []TypeOK`, `Spec => []Inv`: the invariant below |
| `ScanCorrect` | `Spec => []StoredBitsCorrect` |
| `EarlyStopCorrect` | `Spec => []EarlyStopSound` |
| `ScanImplementsSelection` | `Spec => ImplementsSelection` |
| `OpenLanesCorrect` | `Spec => []OpenLanesInv`: the aggregate leaves open what the first bytes do, no more and no less |
| `EarlyStopLoadsLess` | `Spec => LoadsOnlyWhatIsOpen` |

Of the layout (**StorageProofs**) and of the query kernels on it (**QueryScanProofs**):

| Theorem | Statement |
|---|---|
| `SliceOrder` | the stored slices of two codes of one width, 1 to 32, compare as signed bytes like the codes |
| `RoundTrip` | `GetTuple(SetTuple(u, width), width) = u` |
| `NoByteIsShared` | for any number of columns and positions, no two bytes of the interleaved layouts have one index |
| `InterleavedRoundTrip` | `GetTuple_2` returns what `SetTuple_2` stored, where both columns have as many bytes |
| `QueryInvCorrect` | `QuerySpec => []QueryInv`: the invariant below |
| `DroppedTuplesAreSettled` | `QuerySpec => []DroppedLanesAreSettled` |
| `QueriesLoadWhatIsOpen` | `QuerySpec => QueryLoadsOnlyWhatIsOpen` |
| `KernelsAnswerQueries` | if all kernels flip their literals (all but Q19's do), `QuerySpec => []SelfCheckPasses` |

Of the block scans and the execution models (**BlockQueriesProofs**):

| Theorem | Statement |
|---|---|
| `TypeCorrect`, `InvCorrect` | `Spec => []TypeOK`, `Spec => []Inv` of **BlockScanInvariant** |
| `ScanIsExact`, `VerdictsAreRight` | `Spec => []ScanInv`, `Spec => []CollectsVerdicts` |
| `TailStaysClear` | `Spec => []TailIsClear` |
| `EarlyStopSavesLoads` | `Spec => LoadsOnlyWhatMatters` |
| `ScansKeepTheirPromise` | `Spec => ImplementsWordwiseScan` |
| `HistoryCorrect` | `Spec => []HistoryInv`: every bit is what the operations so far make of it |
| `ModelsAnswerTheirQueries` | for the execution models of `IsExecutionModel`, `Spec => []EveryModelAnswersTheQuery` |

Of columns and bit vectors (**ColumnClientProofs**, **ColumnStoreProofs**), of a client that keeps its side of the contract:

| Theorem | Statement |
|---|---|
| `ClientIsSafe` | `Spec /\ []ClientKeepsContract => []ClientInv`: the invariant below |
| `NoAssertionFails` | `Spec /\ []ClientKeepsContract => []AssertionsHold` |
| `NoTailIsLeft` | `Spec /\ []ClientKeepsContract => []TailsAreClear` |
| `StoreIsKept` | `Spec /\ []ClientFitsStore => []StoreInv`: the invariant of the refinement |
| `ClientImplementsStore` | `Spec /\ []ClientFitsStore => ImplementsColumnStore` |

Of the drivers (**HarnessProofs**, **ColumnFillProofs**):

| Theorem | Statement |
|---|---|
| `HarnessProofs!TypeCorrect` | `Spec => []TypeOK` |
| `OnlyKernelsAreCounted`, `SumIsOfThisRound`, `NothingPartlyMeasured` | the three safety properties |
| `BitsAreOfThisRound` | if every round of every driver has a branch, `Spec => []BitsOfThisRound` |
| `HarnessImplementsMeasuredRounds` | `Spec => ImplementsMeasuredRounds` |
| `ColumnFillProofs!TypeCorrect` | `Spec => []TypeOK` |
| `TasksAreComplete` | `Spec => []TasksCoverTheTable` |
| `RowsAreComplete` | `Spec => []RowsAreWhole` |
| `NoOverrunByDefault` | `Spec => []FillStaysInside` |
| `ColumnsKeepTheirCodes` | `Spec => []ColumnsKeepTheirBits` |

*Assumptions.* `PlansAssumption` is what the source text of every kernel satisfies: the
operands of a call are computed before it, predicates over one column that are refined
together have one width, every column of more than one slice is refined, and where the
refinement computes success and fail it may name another comparator but of the same
kind. TLC evaluates it for the plans of `ScanKernels`. `BytesAssumption` says that bytes
and literals are integers, `SizesAssumption` and `HarnessAssumption` that sizes are.
`ColumnFillAssumption` says what every driver of `DriverInputs` satisfies (`IsDriver`): all columns are random or none is, a
driver that reads tables takes one thread by default, and a table read to its end has as many rows as main has tuples.
`ScriptsAssumption` says that a script's calls have operands of their types, `BlockAssumption` that a block is a number of AVX units,
`ThreadsAssumption` that there are finitely many OpenMP threads, whose counts are added up.
`QueriesAssumption` and `TablesAssumption` say that widths are 1 to 32, that codes and literals
fit them, and what the text of every query's kernel satisfies (`IsQuery`); `ProgramsAssumption` the same of
the programs of block scans. TLC evaluates both for the queries and programs it runs.
The drivers and the number of threads, rounds, lanes, chunks, words, tuples, columns and slices is arbitrary.

Some theorems have a hypothesis of their own, each to leave out what a run or the code shows to fail. `Plans \subseteq
FlippingQueries` leaves out Q19 (`query_19`). `IsExecutionModel` lists the execution models of all queries, with any literals that
fit the columns, but for the `Or` models of Q7 and Q12 (`block_queries_or`). `ClientKeepsContract` says that
every call a client makes is allowed (`IsAllowed`): positions are inside, the operands of a scan, an `And` or an `Or` have one
size, a column is loaded from the blocks of a column of its kind and size, and `Resize` is of a column that has tuples (the code takes
its last block, `column.cpp:77`) and adds blocks or keeps them without filling the last
(`resize` shows the assertion that fails when it removes one, and at `column.cpp:92` a last block that becomes full keeps the number
of tuples it had). The code asserts the first two.
`ClientFitsStore` asks for this and for what a **ColumnStore** speaks of (`FitsStore`): codes, and the literals of scans by literal, fit
the column's width (`SetTuple` and `Scan` cut them to it, so that other ones are other codes); a column is made once; what is written to the file
or read from it is a column of the type and width of the first, since blocks in a file do not say what they are of; and the bit vector of an iterator has a block
(the first `Next` looks at block 0 without asking). The contracts are on the calls, in the state
in which they are made: no theorem assumes anything of what a call does. Run `columns` checks that its scripts keep both.

*Why the scan's invariant is needed.* `StoredBitsCorrect` speaks of stored words only,
and what one would like to say of the masks in between, that they are the result of
comparing a prefix, is false: a lane dropped by the aggregate has its `equal` bit cut,
and the refinement goes on over it. `Inv` (module **ConjunctiveScanInvariant**) says two
things instead. Of a *live* lane the masks are exact for the bytes read. Of any lane
they are *coherent* with the first byte: whatever the refinement does, a lane whose
first byte was less (greater) keeps its mark. So the result masks of a dropped
lane are one of the outcomes the first bytes allow, and `SettledInv` says that all
outcomes give the root the same value: dropping the lane was justified. The proof
(**ConjunctiveScanProofs**) has a lemma per mask function of SimdMasks, a lemma per
action, and two lemmas about trees: the values of the predicates determine those of the
inner nodes, and every valuation of the predicates extends to the nodes. Induction on
the tree is done by the program itself: `Aggregate` and `Combine` go through the calls
one by one, and the invariant grows with them.

*Why the loads need another.* That no slice is loaded in vain needs the converse: what is not settled is
still open. A tree of first bytes is monotone, and takes its least (greatest) value where
every predicate that agrees so far fails (holds). `BoundsInv` says that the verdict of an aggregate is right in both
valuations, so that `OpenLanesInv` follows at the root.

*The order of the slices.* `SliceOrder` is what makes comparing bytes comparing codes. With the lemmas that padding
and flipping are monotone, and that bytes are the digits of a code, it follows from the order of lexicographic
comparison of up to four digits. Together with `StoredBitsCorrect` for the refinement and the meaning of every
query's tree, it gives `SelfCheckPasses`: the bit is the tree of comparisons of slices, these are comparisons of codes, and the tree
is what the driver recomputes.

*The queries' invariant.* `QueryInv` is `Inv` but for the aggregate, where two things differ. A column of one byte has gone through
`computeKernelWithMask_LAST`, so that its predicate is decided, and its equal mask means nothing. And `tmp_result`
is a mask of equalities, no verdict, so that a node of the aggregate is of one of two kinds
(`StopsRight`, `MasksRight`), and the root filters by both (`RootRight`).

*The blocks' invariant.* A block scan has no lanes dropped without reason, so `MaskInv` is simple: after some bytes the masks are exact for
the bytes compared. The subtle parts are what need not hold: the fourth slice leaves out masks that no result reads, and a lane that
is not wanted, because `And` finds its bit clear or `Or` finds it set, may have any verdict (`CollectsVerdicts`). `LoadInv` ties
the early exit to the masks. For `ImplementsWordwiseScan` each action is mapped: `StoreWord` writes a word
(`JoinWord` of verdicts that are right where wanted is `JoinWord` of right verdicts), `ClearTail` changes no tuple's bit (lemmas
about quotients of sizes), all others stutter.

*Why columns and bit vectors fit.* `Column::Scan` asserts that both columns and the bit vector have one size, and a block's
scan that the blocks do. That the second follows from the first needs an invariant through every `Resize`, load and file:
`TypeOK` says that the number of tuples of block b follows from b and the size of its column (`BlockSize`).
The loop's threads may be anywhere: `CallInv` says that a thread runs a block that has been taken. `TailInv` says that
tails are clear but for the blocks of a `BitVector` that its loop has not finished; each function keeps it for another reason
(`And` and `Or` of clear tails, the naive scan that writes only tuples, the byte-slice scan and `SetOnes` by `ClearTail`, whose loop is the
subject of lemma `ClearedTail`). `LoadInv` is where `BulkLoadArray` stands between its blocks.

*Why the store needs more.* `StoreInv` adds to `ClientInv` what is true in the middle of a call. In a loop, that the threads run different
blocks, all of them taken (`RunInv`): so what is undone after `RunBlock` is what was before but for one block, and no other bit has changed. In a
`CountOnes`, that the threads' shares add up to the number of positions selected in the finished blocks (`CountInv`). In an iteration, that what has
been returned and what waits on the stack is exactly what is selected before the cursor, the stack in order and behind everything
returned (`IteratorInv`), so that what `Next` returns is the least position left. That the calls in progress fit as when they began, and that the file
holds blocks of one kind (`FileInv`).

The proof (**ColumnStoreProofs**) has a lemma per action, `...Maps`, that names the step of the store it is, or says that it is none:
`StartLoop`, `BulkLoadArray` and `NewIterator` are `Begin`; `RunBlock` and `LoadBlock` are `Work`, on the positions of a block; `EndLoop`, `EndLoad` and `NoBlockLeft` are
`Return`; `NextPops`, unless the stack is empty then, and `PushWord` are `NextPosition`; `TakeBlock`, `NextBlock` and `SkipZeroWord` do not show.
Sums and concatenations over blocks are folds and recursive functions, for which the prover has no induction. A sum over a set of threads is instead the number of
pairs of a thread and one of its ones (`SumOfFunction`, by the smallest set of threads for which it would not be), and the function by which
`FlattenSeq` is defined is shown to exist and to be the only one in the same way (`JoinsExist`, `SameJoins`). From these follow that blocks written
behind others add their codes behind theirs (`FlattenConcat`), and that the blocks of a column in a row are its codes (`FlattenColumn`).

*Why execution models need a history.* Whether a model answers its query depends on all its scans, and a state shows their
result only. `HistoryInv` says that for every tuple there is a history: for each operation done, in which vectors
the tuple's bit was set after it. `Makes` says the same of a list of operations and composes over
concatenation; one lemma for each kind of list (a chain of `kAnd` scans, a vector per column and-ed in the end, a pair of
scans) and one for each query's predicate give the answer.

*Why the harness's invariant is needed.* Each property relates what one thread does to
what the others cannot be doing. `Lockstep` says that all threads have passed the same
number of barriers; with `BarrierInv` (who waits at a barrier is at it) it is kept by
`Wait`. The fourth barrier counts for two where there is no fifth, so that one count does for
all drivers. A barrier's number gives the round except between the last barrier of one round and the
first of the next, where thread 0 may still sum times while another has begun the next round;
`TimesInv` says that such a thread's time is still that of the round before.

*Why the tasks are complete.* `TasksCoverTheTable` is a statement about the division in `Init`. Rounding each of the other
tasks up to a unit can take more than there is, and then the subtraction for the last one wraps: the lengths still add up to the table
modulo `Modulus` (lemma `Wrapped`), which is all that holds of them. Lemma `LastTask` shows that `EnoughTuples`,
`(unit - 1) * (threads - 1) <= tuples \div threads`, rules that out. The query drivers have
enough tuples for 980 threads, the column drivers for more.

*Why the filling needs an invariant.* A position is filled by the code that advances `i`, and `RowsAreWhole` speaks of
all of them at the end. `PositionInv` says that `i` and `line` advance together and stay in the task, or in the table if
the column has no end of task; `RowInv` that the positions before `i` of the current column, and
every position of the columns before it, hold their rows. For random columns, which are filled side by side, it says
so of the columns before the current one up to and including `i`. `FillStaysInside` is part of the invariant.

*Why columns keep their bits.* `ColumnsKeepTheirBits` has no hypothesis on widths and masks. What is stored may be no code of the
column: `LowestBitsKept` writes it as a multiple of 2^width and a rest, and the multiple, padded, is one of 256^bytes, which
is in none of the bytes `SetTuple` takes (`HigherBytes`). The rest is a code, for which `RoundTrip` holds. That a code is
whole where the mask is no wider than the column is in `LatestInv`; for tables it needs that `InHundredths` does not exceed its argument.

## What is only model-checked

* `ClientFitsStore` of `columns`: it is of the scripts, and the hypothesis of the theorems about columns.
* `Terminates`, `MainReturnsOrOneGivesUp`, `EveryCallReturns`: the prover does not handle fairness.
* The properties of the violated runs, which are false.

## What is not modelled, and why

* The drivers of `4_column_compare_full_width.cpp` and `4_column_complex_compare_with_literal.cpp`, which no Makefile builds.
* The scan of `ByteSlice-master/src/haihang_test.cpp`, by `kInequal`, against its check, by `>`: the check is of another
  query. Its threads are modelled.
* `Column::Destroy`, `Resize` of or to no tuples, `BitVectorIterator::Next` after the end, and the
  handle of a binary file: no program of the repository gets there. `kByteSlicePadLeft`: `CreateNewBlock` does not make it.
* Of `thread_tool.cpp` and its neighbours: CPU affinity, clocks and
  page sizes, the operating system's.
* The readers' stops at a number out of range, and the end of the file
  `TwoColumnsSkewed` draws column 2 from: tables and that file are taken to be complete.
* The literal's computation in `float`, random data, the command line: data.
* `4_column_complex_compare_with_literal.cpp` names `Bitwise::KOR`, which is not
  declared, and does not compile.
* NEARLYSTOP and COUNTER_ENABLE, which no build defines.
* Micro-benchmarks, scripts, table generation.
* Intel's PCM (`cpucounters.*`, `pcm*`, `types.h`, `pci.*`, `msr.*`, in several copies: a quarter of the
  repository's lines), vendored; the copies of the programs under `backup/`; compiler tests CMake generated. None is
  logic of this program, which is why the share of modelled lines stays well below that of its own code.

## Plan

Done: the scan kernels, the harness and every driver, their tasks and columns, the layouts, the query kernels, the block scans, the execution
models, columns, bit vectors and the iterator; proofs of every safety property of the passing runs, the four refinements among them, but
for the contract of the scripts. Left:

1. **BinaryFile**: `Open`, `Close`, and the handle that stays.
2. `BlockScan` inside the loop of `Columns`, so that the threads' steps within their blocks interleave too. Now `RunBlock` is one step, by the
   argument above: blocks share nothing.
