--------------------------- MODULE MeasuredRounds ---------------------------
(***************************************************************************)
(* What the benchmark promises of a measurement: the kernels are run in    *)
(* rounds, every thread runs the round's kernel once while the counters    *)
(* count, and the counters are stopped when the last thread has finished.  *)
(***************************************************************************)
EXTENDS Integers

CONSTANT Thread         \* The threads.

VARIABLES first_round,  \* The first round,
          last_round,   \*   and the last one; never written.
          round,        \* The round that is measured, or comes next.
          counting,     \* The counters count.
          ran           \* The threads that have run the round's kernel.

rounds == <<first_round, last_round>>
vars == <<rounds, round, counting, ran>>

Init ==
  /\ round = first_round
  /\ counting = FALSE
  /\ ran = {}

Start ==
  /\ ~counting
  /\ round <= last_round
  /\ counting' = TRUE
  /\ UNCHANGED <<rounds, round, ran>>

RunKernel(t) ==
  /\ counting
  /\ t \notin ran
  /\ ran' = ran \cup {t}
  /\ UNCHANGED <<rounds, round, counting>>

Stop ==
  /\ counting
  /\ ran = Thread
  /\ counting' = FALSE
  /\ ran' = {}
  /\ round' = round + 1
  /\ UNCHANGED rounds

Next == Start \/ Stop \/ \E t \in Thread : RunKernel(t)

Spec == Init /\ [][Next]_vars
=============================================================================
