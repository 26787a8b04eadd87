---------------------------- MODULE ScanKernels ----------------------------
(***************************************************************************)
(* The kernels of complex_predicates as plans of ConjunctiveScan.          *)
(*                                                                         *)
(* In a kernel's name P says that it prefetches and S that it stores the   *)
(* word with a streaming store; neither changes what is computed, so the   *)
(* variants of a kernel differ below only where their code differs.        *)
(* bytes gives the byte slices of each column (kNumBytesPerCode_p).        *)
(***************************************************************************)
EXTENDS Integers, Sequences

And(a, b) == [op |-> "kAnd", a |-> a, b |-> b]
Or(a, b) == [op |-> "kOr", a |-> a, b |-> b]

(* FIRST_COMPARISON_TYPE, SECOND_COMPARISON_TYPE and so on, in every file. *)
ComparisonType == <<"kGreater", "kLess", "kGreater", "kLess", "kGreater">>

(***************************************************************************)
(* A kernel's text has three stages.  In the first and the final one it    *)
(* names a comparator for each column and joins the columns by calls:      *)
(* computeForEarlyStop of the first bytes, computeFinalMask or             *)
(* computeConjunctivePredicates of the results.  Between them it refines   *)
(* the columns in turn, in a block and by a comparator each.               *)
(***************************************************************************)
KernelStage(types, calls) == [types |-> types, calls |-> calls]

Kernel(bytes, first, refined) ==
  LET n == Len(bytes)
      Comparators(types) == [p \in 1..n |-> ComparisonType[types[p]]]
  IN [n |-> n, cmp |-> Comparators(first.types), column |-> [p \in 1..n |-> p],
      right |-> [p \in 1..n |-> 0], bytes |-> bytes,
      refineCmp |-> Comparators(refined), groups |-> [p \in 1..n |-> {p}], zeroed |-> 1..n,
      prunes |-> TRUE, judges |-> TRUE, prog |-> first.calls]

----------------------------------------------------------------------------
(* Refined by computeKernel, which leaves success and fail alone. *)
two_columns_cmp_with_literal_nP_nS_first == KernelStage(<<1, 2>>, <<And(1, 2)>>)
two_columns_cmp_with_literal_nP_nS_refined == <<1, 2>>
two_columns_cmp_with_literal_nP_nS_final == KernelStage(<<1, 2>>, <<And(1, 2)>>)
two_columns_cmp_with_literal_nP_nS(bytes) ==
  [Kernel(bytes, two_columns_cmp_with_literal_nP_nS_first, two_columns_cmp_with_literal_nP_nS_refined)
     EXCEPT !.judges = FALSE]

two_columns_cmp_with_literal_nP_S_first == KernelStage(<<1, 2>>, <<And(1, 2)>>)
two_columns_cmp_with_literal_nP_S_refined == <<1, 2>>
two_columns_cmp_with_literal_nP_S_final == KernelStage(<<1, 2>>, <<And(1, 2)>>)
two_columns_cmp_with_literal_nP_S(bytes) ==
  Kernel(bytes, two_columns_cmp_with_literal_nP_S_first, two_columns_cmp_with_literal_nP_S_refined)

two_columns_cmp_with_literal_P_nS_first == KernelStage(<<1, 2>>, <<And(1, 2)>>)
two_columns_cmp_with_literal_P_nS_refined == <<1, 2>>
two_columns_cmp_with_literal_P_nS_final == KernelStage(<<1, 2>>, <<And(1, 2)>>)
two_columns_cmp_with_literal_P_nS(bytes) ==
  Kernel(bytes, two_columns_cmp_with_literal_P_nS_first, two_columns_cmp_with_literal_P_nS_refined)

two_columns_cmp_with_literal_P_S_first == KernelStage(<<1, 2>>, <<And(1, 2)>>)
(* Column 2 is refined with column 1's comparator. *)
two_columns_cmp_with_literal_P_S_refined == <<1, 1>>
two_columns_cmp_with_literal_P_S_final == KernelStage(<<1, 2>>, <<And(1, 2)>>)
two_columns_cmp_with_literal_P_S(bytes) ==
  Kernel(bytes, two_columns_cmp_with_literal_P_S_first, two_columns_cmp_with_literal_P_S_refined)

----------------------------------------------------------------------------
haihang_nP_nS_first == KernelStage(<<1, 2>>, <<And(1, 2)>>)
haihang_nP_nS_refined == <<1, 2>>
haihang_nP_nS_final == KernelStage(<<1, 2>>, <<And(1, 2)>>)
haihang_nP_nS(bytes) ==
  Kernel(bytes, haihang_nP_nS_first, haihang_nP_nS_refined)

haihang_nP_S_first == KernelStage(<<1, 2>>, <<And(1, 2)>>)
haihang_nP_S_refined == <<1, 2>>
haihang_nP_S_final == KernelStage(<<1, 2>>, <<And(1, 2)>>)
haihang_nP_S(bytes) ==
  Kernel(bytes, haihang_nP_S_first, haihang_nP_S_refined)

haihang_P_nS_first == KernelStage(<<1, 2>>, <<And(1, 2)>>)
haihang_P_nS_refined == <<1, 2>>
haihang_P_nS_final == KernelStage(<<1, 2>>, <<And(1, 2)>>)
haihang_P_nS(bytes) ==
  Kernel(bytes, haihang_P_nS_first, haihang_P_nS_refined)

haihang_P_S_first == KernelStage(<<1, 2>>, <<And(1, 2)>>)
(* Column 2 is refined with column 1's comparator. *)
haihang_P_S_refined == <<1, 1>>
haihang_P_S_final == KernelStage(<<1, 2>>, <<And(1, 2)>>)
haihang_P_S(bytes) ==
  Kernel(bytes, haihang_P_S_first, haihang_P_S_refined)

----------------------------------------------------------------------------
three_columns_cmp_with_literal_nP_nS_first == KernelStage(<<1, 2, 3>>, <<And(1, 2), And(4, 3)>>)
three_columns_cmp_with_literal_nP_nS_refined == <<1, 2, 3>>
three_columns_cmp_with_literal_nP_nS_final == KernelStage(<<1, 2, 3>>, <<And(1, 2), And(4, 3)>>)
three_columns_cmp_with_literal_nP_nS(bytes) ==
  Kernel(bytes, three_columns_cmp_with_literal_nP_nS_first, three_columns_cmp_with_literal_nP_nS_refined)

three_columns_cmp_with_literal_nP_S_first == KernelStage(<<1, 2, 3>>, <<And(1, 2), And(4, 3)>>)
three_columns_cmp_with_literal_nP_S_refined == <<1, 2, 3>>
three_columns_cmp_with_literal_nP_S_final == KernelStage(<<1, 2, 3>>, <<And(1, 2), And(4, 3)>>)
three_columns_cmp_with_literal_nP_S(bytes) ==
  Kernel(bytes, three_columns_cmp_with_literal_nP_S_first, three_columns_cmp_with_literal_nP_S_refined)

three_columns_cmp_with_literal_P_nS_first == KernelStage(<<1, 2, 3>>, <<And(1, 2), And(4, 3)>>)
three_columns_cmp_with_literal_P_nS_refined == <<1, 2, 3>>
three_columns_cmp_with_literal_P_nS_final == KernelStage(<<1, 2, 3>>, <<And(1, 2), And(4, 3)>>)
three_columns_cmp_with_literal_P_nS(bytes) ==
  Kernel(bytes, three_columns_cmp_with_literal_P_nS_first, three_columns_cmp_with_literal_P_nS_refined)

three_columns_cmp_with_literal_P_S_first == KernelStage(<<1, 2, 3>>, <<And(1, 2), And(4, 3)>>)
three_columns_cmp_with_literal_P_S_refined == <<1, 2, 3>>
three_columns_cmp_with_literal_P_S_final == KernelStage(<<1, 2, 3>>, <<And(1, 2), And(4, 3)>>)
three_columns_cmp_with_literal_P_S(bytes) ==
  Kernel(bytes, three_columns_cmp_with_literal_P_S_first, three_columns_cmp_with_literal_P_S_refined)

----------------------------------------------------------------------------
(* The early stop across columns is compiled in by PRUNING_ENABLE, which   *)
(* config.h leaves out.                                                    *)
four_columns_cmp_with_literal_nP_nS_first == KernelStage(<<1, 2, 3, 4>>, <<And(1, 2), And(3, 4), And(5, 6)>>)
four_columns_cmp_with_literal_nP_nS_refined == <<1, 2, 3, 4>>
four_columns_cmp_with_literal_nP_nS_final == KernelStage(<<1, 2, 3, 4>>, <<And(1, 2), And(3, 4), And(5, 6)>>)
four_columns_cmp_with_literal_nP_nS(bytes, pruning_enable) ==
  [Kernel(bytes, four_columns_cmp_with_literal_nP_nS_first, four_columns_cmp_with_literal_nP_nS_refined)
     EXCEPT !.prunes = pruning_enable]

four_columns_cmp_with_literal_nP_S_first == KernelStage(<<1, 2, 3, 4>>, <<And(1, 2), And(3, 4), And(5, 6)>>)
four_columns_cmp_with_literal_nP_S_refined == <<1, 2, 3, 4>>
four_columns_cmp_with_literal_nP_S_final == KernelStage(<<1, 2, 3, 4>>, <<And(1, 2), And(3, 4), And(5, 6)>>)
four_columns_cmp_with_literal_nP_S(bytes, pruning_enable) ==
  [Kernel(bytes, four_columns_cmp_with_literal_nP_S_first, four_columns_cmp_with_literal_nP_S_refined)
     EXCEPT !.prunes = pruning_enable]

four_columns_cmp_with_literal_P_nS_first == KernelStage(<<1, 2, 3, 4>>, <<And(1, 2), And(3, 4), And(5, 6)>>)
four_columns_cmp_with_literal_P_nS_refined == <<1, 2, 3, 4>>
four_columns_cmp_with_literal_P_nS_final == KernelStage(<<1, 2, 3, 4>>, <<And(1, 2), And(3, 4), And(5, 6)>>)
four_columns_cmp_with_literal_P_nS(bytes, pruning_enable) ==
  [Kernel(bytes, four_columns_cmp_with_literal_P_nS_first, four_columns_cmp_with_literal_P_nS_refined)
     EXCEPT !.prunes = pruning_enable]

four_columns_cmp_with_literal_P_S_first == KernelStage(<<1, 2, 3, 4>>, <<And(1, 2), And(3, 4), And(5, 6)>>)
four_columns_cmp_with_literal_P_S_refined == <<1, 2, 3, 4>>
four_columns_cmp_with_literal_P_S_final == KernelStage(<<1, 2, 3, 4>>, <<And(1, 2), And(3, 4), And(5, 6)>>)
four_columns_cmp_with_literal_P_S(bytes, pruning_enable) ==
  [Kernel(bytes, four_columns_cmp_with_literal_P_S_first, four_columns_cmp_with_literal_P_S_refined)
     EXCEPT !.prunes = pruning_enable]

----------------------------------------------------------------------------
four_columns_c_cmp_with_literal_nP_nS_first == KernelStage(<<1, 2, 3, 4>>, <<And(1, 2), And(3, 4), Or(5, 6)>>)
four_columns_c_cmp_with_literal_nP_nS_refined == <<1, 2, 3, 4>>
four_columns_c_cmp_with_literal_nP_nS_final == KernelStage(<<1, 2, 3, 4>>, <<And(1, 2), And(3, 4), Or(5, 6)>>)
four_columns_c_cmp_with_literal_nP_nS(bytes, pruning_enable) ==
  [Kernel(bytes, four_columns_c_cmp_with_literal_nP_nS_first, four_columns_c_cmp_with_literal_nP_nS_refined)
     EXCEPT !.prunes = pruning_enable]

four_columns_c_cmp_with_literal_nP_S_first == KernelStage(<<1, 2, 3, 4>>, <<And(1, 2), And(3, 4), Or(5, 6)>>)
four_columns_c_cmp_with_literal_nP_S_refined == <<1, 2, 3, 4>>
four_columns_c_cmp_with_literal_nP_S_final == KernelStage(<<1, 2, 3, 4>>, <<And(1, 2), And(3, 4), Or(5, 6)>>)
four_columns_c_cmp_with_literal_nP_S(bytes, pruning_enable) ==
  [Kernel(bytes, four_columns_c_cmp_with_literal_nP_S_first, four_columns_c_cmp_with_literal_nP_S_refined)
     EXCEPT !.prunes = pruning_enable]

four_columns_c_cmp_with_literal_P_nS_first == KernelStage(<<1, 2, 3, 4>>, <<And(1, 2), And(3, 4), Or(5, 6)>>)
four_columns_c_cmp_with_literal_P_nS_refined == <<1, 2, 3, 4>>
four_columns_c_cmp_with_literal_P_nS_final == KernelStage(<<1, 2, 3, 4>>, <<And(1, 2), And(3, 4), Or(5, 6)>>)
four_columns_c_cmp_with_literal_P_nS(bytes, pruning_enable) ==
  [Kernel(bytes, four_columns_c_cmp_with_literal_P_nS_first, four_columns_c_cmp_with_literal_P_nS_refined)
     EXCEPT !.prunes = pruning_enable]

four_columns_c_cmp_with_literal_P_S_first == KernelStage(<<1, 2, 3, 4>>, <<And(1, 2), And(3, 4), Or(5, 6)>>)
four_columns_c_cmp_with_literal_P_S_refined == <<1, 2, 3, 4>>
four_columns_c_cmp_with_literal_P_S_final == KernelStage(<<1, 2, 3, 4>>, <<And(1, 2), And(3, 4), Or(5, 6)>>)
four_columns_c_cmp_with_literal_P_S(bytes, pruning_enable) ==
  [Kernel(bytes, four_columns_c_cmp_with_literal_P_S_first, four_columns_c_cmp_with_literal_P_S_refined)
     EXCEPT !.prunes = pruning_enable]

----------------------------------------------------------------------------
five_columns_cmp_with_literal_nP_nS_first == KernelStage(<<1, 2, 3, 4, 5>>, <<And(1, 2), And(3, 4), And(6, 5), And(8, 7)>>)
five_columns_cmp_with_literal_nP_nS_refined == <<1, 2, 3, 4, 5>>
five_columns_cmp_with_literal_nP_nS_final == KernelStage(<<1, 2, 3, 4, 5>>, <<And(1, 2), And(3, 4), And(5, 6), And(8, 7)>>)
five_columns_cmp_with_literal_nP_nS(bytes) ==
  Kernel(bytes, five_columns_cmp_with_literal_nP_nS_first, five_columns_cmp_with_literal_nP_nS_refined)

----------------------------------------------------------------------------
(***************************************************************************)
(* A plan has one tree and one comparator per column, because the first    *)
(* and the final stage of a kernel agree, but for the order of operands.   *)
(***************************************************************************)
Agree(first, final) ==
  /\ first.types = final.types
  /\ Len(first.calls) = Len(final.calls)
  /\ \A i \in 1..Len(first.calls) :
       /\ first.calls[i].op = final.calls[i].op
       /\ {first.calls[i].a, first.calls[i].b} = {final.calls[i].a, final.calls[i].b}

ASSUME StagesAssumption ==
  /\ Agree(two_columns_cmp_with_literal_nP_nS_first, two_columns_cmp_with_literal_nP_nS_final)
  /\ Agree(two_columns_cmp_with_literal_nP_S_first, two_columns_cmp_with_literal_nP_S_final)
  /\ Agree(two_columns_cmp_with_literal_P_nS_first, two_columns_cmp_with_literal_P_nS_final)
  /\ Agree(two_columns_cmp_with_literal_P_S_first, two_columns_cmp_with_literal_P_S_final)
  /\ Agree(haihang_nP_nS_first, haihang_nP_nS_final)
  /\ Agree(haihang_nP_S_first, haihang_nP_S_final)
  /\ Agree(haihang_P_nS_first, haihang_P_nS_final)
  /\ Agree(haihang_P_S_first, haihang_P_S_final)
  /\ Agree(three_columns_cmp_with_literal_nP_nS_first, three_columns_cmp_with_literal_nP_nS_final)
  /\ Agree(three_columns_cmp_with_literal_nP_S_first, three_columns_cmp_with_literal_nP_S_final)
  /\ Agree(three_columns_cmp_with_literal_P_nS_first, three_columns_cmp_with_literal_P_nS_final)
  /\ Agree(three_columns_cmp_with_literal_P_S_first, three_columns_cmp_with_literal_P_S_final)
  /\ Agree(four_columns_cmp_with_literal_nP_nS_first, four_columns_cmp_with_literal_nP_nS_final)
  /\ Agree(four_columns_cmp_with_literal_nP_S_first, four_columns_cmp_with_literal_nP_S_final)
  /\ Agree(four_columns_cmp_with_literal_P_nS_first, four_columns_cmp_with_literal_P_nS_final)
  /\ Agree(four_columns_cmp_with_literal_P_S_first, four_columns_cmp_with_literal_P_S_final)
  /\ Agree(four_columns_c_cmp_with_literal_nP_nS_first, four_columns_c_cmp_with_literal_nP_nS_final)
  /\ Agree(four_columns_c_cmp_with_literal_nP_S_first, four_columns_c_cmp_with_literal_nP_S_final)
  /\ Agree(four_columns_c_cmp_with_literal_P_nS_first, four_columns_c_cmp_with_literal_P_nS_final)
  /\ Agree(four_columns_c_cmp_with_literal_P_S_first, four_columns_c_cmp_with_literal_P_S_final)
  /\ Agree(five_columns_cmp_with_literal_nP_nS_first, five_columns_cmp_with_literal_nP_nS_final)
=============================================================================
