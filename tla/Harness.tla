------------------------------ MODULE Harness ------------------------------
(***************************************************************************)
(* The driver programs (main and run of the *_test.cpp and Q*.cpp files):  *)
(* main creates the threads and joins them; a thread allocates and fills   *)
(* its own columns and then, round after round, runs one scan kernel on    *)
(* them.  Four barriers divide a round: thread 0 starts the counters       *)
(* between the first and the second and stops them after the third, every  *)
(* thread leaves its time before the fourth, and after it checks its bits; *)
(* thread 0 adds up the times.  In the drivers of ByteSlice only thread 0  *)
(* checks its bits, and a fifth barrier follows.                           *)
(***************************************************************************)
EXTENDS Integers

CONSTANTS NumThreads,       \* thread_num
          Drivers,          \* The drivers, with the rounds to run.
          MayFail           \* An allocation may fail, a table may be missing.

(***************************************************************************)
(* A driver has branches for the kernels in models, and runs those from    *)
(* p_s_model_start to p_s_model_end.  alone says that only thread 0 checks *)
(* its bits, reads that the threads read tables, and throws that a failed  *)
(* allocation ends the process instead of the thread.                      *)
(***************************************************************************)
ASSUME HarnessAssumption ==
  /\ NumThreads \in Nat \ {0}
  /\ \A d \in Drivers :
       /\ d.models \subseteq Nat
       /\ d.p_s_model_start \in Nat
       /\ d.p_s_model_end \in Nat
       /\ d.alone \in BOOLEAN
       /\ d.reads \in BOOLEAN
       /\ d.throws \in BOOLEAN
  /\ MayFail \in BOOLEAN

VARIABLES driver,           \* The program that runs; never written.
          main,             \* The stage main is in.
          t,                \* The thread main's loop has come to.
          pc,               \* The stage each thread is in.
          p_s_model,        \* The kernel of each thread's round.
          barrier,          \* The threads that wait at each barrier.
          counting,         \* The PCM counters count.
          times,            \* times[0]: the round whose time each thread has left.
          bitvector,        \* The kernel whose bits each thread's bit vector holds.
          sum,              \* The times thread 0 has added, of which rounds.
          term              \* The thread whose time it adds next.

vars == <<driver, main, t, pc, p_s_model, barrier, counting, times, bitvector, sum, term>>

Thread == 0..(NumThreads - 1)

(* A value that is no round's: a time not written, a bit vector of zeros.  *)
None == -1

Barrier == {"first", "second", "third", "fourth", "fifth"}

(* A thread ends in pthread_exit, or returns when an allocation fails.     *)
Ended == {"exited", "returned"}

(***************************************************************************)
(* The head of the loop over the rounds.                                   *)
(***************************************************************************)
LoopHead(m) == IF m <= driver.p_s_model_end THEN "first" ELSE "exited"

(* Mutant: every thread goes straight on to the second barrier.            *)
After_late_start(b, u) ==
  CASE b = "first" -> "second"
    [] b = "second" -> IF u = 0 THEN "start" ELSE "kernel"
    [] b = "third" -> IF u = 0 THEN "stop" ELSE "record"
    [] b = "fourth" -> IF driver.alone /\ u # 0 THEN "fifth" ELSE "check"
    [] b = "fifth" -> IF u = 0 THEN "sum" ELSE "next"

(***************************************************************************)
(* What follows barrier b in thread u.                                     *)
(***************************************************************************)
After(b, u) ==
  CASE b = "first" -> IF u = 0 THEN "start" ELSE "second"
    [] b = "second" -> "kernel"
    [] b = "third" -> IF u = 0 THEN "stop" ELSE "record"
    [] b = "fourth" -> IF driver.alone /\ u # 0 THEN "fifth" ELSE "check"
    [] b = "fifth" -> IF u = 0 THEN "sum" ELSE "next"

----------------------------------------------------------------------------
Init ==
  /\ driver \in Drivers
  /\ main = "create"
  /\ t = 0
  /\ pc = [u \in Thread |-> "unborn"]
  /\ p_s_model = [u \in Thread |-> driver.p_s_model_start]
  /\ barrier = [b \in Barrier |-> {}]
  /\ counting = FALSE
  /\ times = [u \in Thread |-> None]
  /\ bitvector = [u \in Thread |-> None]
  /\ sum = [u \in Thread |-> None]
  /\ term = 0

(***************************************************************************)
(* main.                                                                   *)
(***************************************************************************)

(* Mutant: the loop counts one thread too many.                            *)
MainLoop_too_far(stage) ==
  IF t < NumThreads THEN t' = t + 1 /\ main' = main
                    ELSE t' = 0 /\ main' = stage

MainLoop(stage) ==
  IF t + 1 < NumThreads THEN t' = t + 1 /\ main' = main
                        ELSE t' = 0 /\ main' = stage

Create ==
  /\ main = "create"
  /\ pc' = [pc EXCEPT ![t] = "allocate"]
  /\ MainLoop("join")
  /\ UNCHANGED <<driver, p_s_model, barrier, counting, times, bitvector, sum, term>>

Join ==
  /\ main = "join"
  /\ pc[t] \in Ended
  /\ MainLoop("destroy")
  /\ UNCHANGED <<driver, pc, p_s_model, barrier, counting, times, bitvector, sum, term>>

Destroy ==
  /\ main = "destroy"
  /\ main' = "returned"
  /\ UNCHANGED <<driver, t, pc, p_s_model, barrier, counting, times, bitvector, sum, term>>

(***************************************************************************)
(* run, in thread u.                                                       *)
(***************************************************************************)
Allocate(u) ==
  /\ pc[u] = "allocate"
  /\ \/ pc' = [pc EXCEPT ![u] = "generate"] /\ main' = main
     \/ MayFail /\ ~driver.throws /\ pc' = [pc EXCEPT ![u] = "returned"] /\ main' = main
     \/ MayFail /\ driver.throws /\ main' = "aborted" /\ pc' = pc
  /\ UNCHANGED <<driver, t, p_s_model, barrier, counting, times, bitvector, sum, term>>

Generate(u) ==
  /\ pc[u] = "generate"
  /\ \/ /\ bitvector' = [bitvector EXCEPT ![u] = None]
        /\ p_s_model' = [p_s_model EXCEPT ![u] = driver.p_s_model_start]
        /\ pc' = [pc EXCEPT ![u] = LoopHead(driver.p_s_model_start)]
        /\ main' = main
     \/ /\ MayFail /\ driver.reads
        /\ main' = "aborted"
        /\ UNCHANGED <<pc, p_s_model, bitvector>>
  /\ UNCHANGED <<driver, t, barrier, counting, times, sum, term>>

(* Mutant: the barrier does not count the threads that have given up.      *)
Wait_short(u) ==
  LET b == pc[u]
      waiting == barrier[b] \cup {u} IN
  /\ b \in Barrier
  /\ u \notin barrier[b]
  /\ IF waiting \cup {v \in Thread : pc[v] = "returned"} = Thread
     THEN /\ barrier' = [barrier EXCEPT ![b] = {}]
          /\ pc' = [v \in Thread |-> IF v \in waiting THEN After(b, v) ELSE pc[v]]
     ELSE /\ barrier' = [barrier EXCEPT ![b] = waiting]
          /\ pc' = pc
  /\ UNCHANGED <<driver, main, t, p_s_model, counting, times, bitvector, sum, term>>

(***************************************************************************)
(* pthread_barrier_wait: the last thread to arrive lets all of them go.    *)
(***************************************************************************)
Wait(u) ==
  LET b == pc[u]
      waiting == barrier[b] \cup {u} IN
  /\ b \in Barrier
  /\ u \notin barrier[b]
  /\ IF waiting = Thread
     THEN /\ barrier' = [barrier EXCEPT ![b] = {}]
          /\ pc' = [v \in Thread |-> After(b, v)]
     ELSE /\ barrier' = [barrier EXCEPT ![b] = waiting]
          /\ pc' = pc
  /\ UNCHANGED <<driver, main, t, p_s_model, counting, times, bitvector, sum, term>>

StartCounters(u) ==
  /\ pc[u] = "start"
  /\ counting' = TRUE
  /\ pc' = [pc EXCEPT ![u] = "second"]
  /\ UNCHANGED <<driver, main, t, p_s_model, barrier, times, bitvector, sum, term>>

(* Mutant: the branch of a kernel is missing.                              *)
RunKernel_missing(u) ==
  /\ pc[u] = "kernel"
  /\ bitvector' = [bitvector EXCEPT ![u] = IF p_s_model[u] \in driver.models \ {1}
                                           THEN p_s_model[u] ELSE @]
  /\ pc' = [pc EXCEPT ![u] = "third"]
  /\ UNCHANGED <<driver, main, t, p_s_model, barrier, counting, times, sum, term>>

RunKernel(u) ==
  /\ pc[u] = "kernel"
  /\ bitvector' = [bitvector EXCEPT ![u] = IF p_s_model[u] \in driver.models
                                           THEN p_s_model[u] ELSE @]
  /\ pc' = [pc EXCEPT ![u] = "third"]
  /\ UNCHANGED <<driver, main, t, p_s_model, barrier, counting, times, sum, term>>

(* Mutant: PCM_stop is not called.                                         *)
StopCounters_forgotten(u) ==
  /\ pc[u] = "stop"
  /\ pc' = [pc EXCEPT ![u] = "record"]
  /\ UNCHANGED <<driver, main, t, p_s_model, barrier, counting, times, bitvector, sum, term>>

StopCounters(u) ==
  /\ pc[u] = "stop"
  /\ counting' = FALSE
  /\ pc' = [pc EXCEPT ![u] = "record"]
  /\ UNCHANGED <<driver, main, t, p_s_model, barrier, times, bitvector, sum, term>>

(* Mutant: there is no fourth barrier.                                     *)
RecordTime_unguarded(u) ==
  /\ pc[u] = "record"
  /\ times' = [times EXCEPT ![u] = p_s_model[u]]
  /\ pc' = [pc EXCEPT ![u] = "check"]
  /\ UNCHANGED <<driver, main, t, p_s_model, barrier, counting, bitvector, sum, term>>

RecordTime(u) ==
  /\ pc[u] = "record"
  /\ times' = [times EXCEPT ![u] = p_s_model[u]]
  /\ pc' = [pc EXCEPT ![u] = "fourth"]
  /\ UNCHANGED <<driver, main, t, p_s_model, barrier, counting, bitvector, sum, term>>

Check(u) ==
  /\ pc[u] = "check"
  /\ pc' = [pc EXCEPT ![u] = IF driver.alone THEN "fifth" ELSE IF u = 0 THEN "sum" ELSE "next"]
  /\ UNCHANGED <<driver, main, t, p_s_model, barrier, counting, times, bitvector, sum, term>>

AddTime(u) ==
  /\ pc[u] = "sum"
  /\ sum' = [sum EXCEPT ![term] = times[term]]
  /\ IF term + 1 < NumThreads THEN term' = term + 1 /\ pc' = pc
                              ELSE term' = 0 /\ pc' = [pc EXCEPT ![u] = "print"]
  /\ UNCHANGED <<driver, main, t, p_s_model, barrier, counting, times, bitvector>>

PrintTime(u) ==
  /\ pc[u] = "print"
  /\ sum' = [v \in Thread |-> None]
  /\ pc' = [pc EXCEPT ![u] = "next"]
  /\ UNCHANGED <<driver, main, t, p_s_model, barrier, counting, times, bitvector, term>>

(* Mutant: p_s_model is not increased.                                     *)
NextRound_same(u) ==
  /\ pc[u] = "next"
  /\ pc' = [pc EXCEPT ![u] = LoopHead(p_s_model[u])]
  /\ UNCHANGED <<driver, main, t, p_s_model, barrier, counting, times, bitvector, sum, term>>

(***************************************************************************)
(* The end of the round.                                                   *)
(***************************************************************************)
NextRound(u) ==
  /\ pc[u] = "next"
  /\ p_s_model' = [p_s_model EXCEPT ![u] = @ + 1]
  /\ pc' = [pc EXCEPT ![u] = LoopHead(p_s_model[u] + 1)]
  /\ UNCHANGED <<driver, main, t, barrier, counting, times, bitvector, sum, term>>

(***************************************************************************)
(* Nothing runs in a process that has been ended.                          *)
(***************************************************************************)
Alive == main # "aborted"

Run(u) ==
  /\ Alive
  /\ \/ Allocate(u) \/ Generate(u) \/ Wait(u) \/ StartCounters(u) \/ RunKernel(u)
     \/ StopCounters(u) \/ RecordTime(u) \/ Check(u) \/ AddTime(u) \/ PrintTime(u)
     \/ NextRound(u)

Main == Create \/ Join \/ Destroy

Next == Main \/ \E u \in Thread : Run(u)

Spec == Init /\ [][Next]_vars

(***************************************************************************)
(* The operating system runs every thread that can go on.                  *)
(***************************************************************************)
FairSpec == Spec /\ WF_vars(Main) /\ \A u \in Thread : WF_vars(Run(u))

----------------------------------------------------------------------------
Stage ==
  Barrier \cup Ended \cup {"unborn", "allocate", "generate", "start", "kernel", "stop",
                           "record", "check", "sum", "print", "next"}

(* Every variable keeps its type: the counters of main's loops and of the  *)
(* sum stay within the threads, the rounds within the models asked for.    *)
TypeOK ==
  /\ driver \in Drivers
  /\ main \in {"create", "join", "destroy", "returned", "aborted"}
  /\ t \in Thread
  /\ pc \in [Thread -> Stage]
  /\ p_s_model \in [Thread -> Nat]
  /\ barrier \in [Barrier -> SUBSET Thread]
  /\ counting \in BOOLEAN
  /\ times \in [Thread -> Nat \cup {None}]
  /\ bitvector \in [Thread -> Nat \cup {None}]
  /\ sum \in [Thread -> Nat \cup {None}]
  /\ term \in Thread

(* Nothing but the kernels is counted: while the counters count, no thread *)
(* generates data, checks its bits or adds up times, whose memory accesses *)
(* would be taken for the kernel's.                                        *)
OnlyKernelsCounted ==
  counting => \A u \in Thread :
    pc[u] \in {"second", "kernel", "third", "stop", "record", "fourth"}

(* The sum thread 0 prints is made of the times of this very round, of     *)
(* every thread: none is missing, left over or already overwritten.        *)
SumOfThisRound ==
  \A u \in Thread : pc[u] = "print" => sum = [v \in Thread |-> p_s_model[u]]

(* The bits a thread checks are those the kernel of this round has written. *)
BitsOfThisRound ==
  \A u \in Thread : pc[u] = "check" => bitvector[u] = p_s_model[u]

(* A thread that gives up keeps every other from measuring: what is printed *)
(* is never about fewer threads than it is divided by.                     *)
NoPartialMeasurement ==
  \A u \in Thread : pc[u] = "returned" =>
    \A v \in Thread : pc[v] \in {"unborn", "allocate", "generate", "first", "exited", "returned"}
                     /\ p_s_model[v] = driver.p_s_model_start

(* main comes to its end: no thread is left behind at a barrier.           *)
MainReturns == <>(main = "returned")

(* Without a failed allocation it does, or the process is ended: every     *)
(* round ends for every thread, and every thread that main joins ends.     *)
MainReturnsOrOneGivesUp ==
  <>(main \in {"returned", "aborted"} \/ \E u \in Thread : pc[u] = "returned")

(***************************************************************************)
(* The rounds are measured as MeasuredRounds says.                         *)
(***************************************************************************)
Measured == {"record", "fourth", "check", "fifth", "sum", "print", "next"}

Rounds ==
  INSTANCE MeasuredRounds WITH
    first_round <- driver.p_s_model_start,
    last_round <- driver.p_s_model_end,
    round <- p_s_model[0] + (IF pc[0] \in Measured THEN 1 ELSE 0),
    ran <- IF counting
           THEN {u \in Thread : pc[u] \in {"third", "stop", "record", "fourth"}} ELSE {}

ImplementsMeasuredRounds == Rounds!Spec
=============================================================================
