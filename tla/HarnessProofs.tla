--------------------------- MODULE HarnessProofs ---------------------------
(***************************************************************************)
(* Proofs about Harness, for every number of threads, of rounds, and every *)
(* driver.  The argument: a barrier lets all threads go at once, so that   *)
(* all have passed the same number of barriers; the stage of one thread    *)
(* tells what the others can be doing.                                     *)
(***************************************************************************)
EXTENDS Harness, TLAPS

(***************************************************************************)
(* The barriers a thread has passed; a fourth that is the last counts for  *)
(* two.                                                                    *)
(***************************************************************************)
Segment(s) ==
  IF s \in {"start", "second"} THEN 1
  ELSE IF s \in {"kernel", "third"} THEN 2
  ELSE IF s \in {"stop", "record", "fourth"} THEN 3
  ELSE IF s = "fifth" \/ (driver.alone /\ s = "check") THEN 4
  ELSE IF s \in {"check", "sum", "print", "next"} THEN 5
  ELSE 0

Passed(u) == 5 * (p_s_model[u] - driver.p_s_model_start) + Segment(pc[u])

CreateInv == main = "create" => \A u \in Thread : u >= t => pc[u] = "unborn"

Lockstep == \A u, v \in Thread : Passed(u) = Passed(v)

RoundInv ==
  \A u \in Thread :
    /\ p_s_model[u] >= driver.p_s_model_start
    /\ pc[u] \in {"unborn", "allocate", "generate", "returned"} =>
         p_s_model[u] = driver.p_s_model_start
    /\ pc[u] \notin {"unborn", "allocate", "generate", "returned", "exited"} =>
         p_s_model[u] <= driver.p_s_model_end

BarrierInv == \A b \in Barrier : \A u \in barrier[b] : pc[u] = b

FirstThread ==
  \A u \in Thread :
    /\ pc[u] \in {"start", "stop", "sum", "print"} => u = 0
    /\ driver.alone /\ pc[u] = "check" => u = 0
    /\ pc[u] = "fifth" => driver.alone

CountingInv == counting <=> pc[0] \in {"second", "kernel", "third", "stop"}

TimesInv ==
  \A u \in Thread :
    /\ pc[u] \in {"fourth", "check", "fifth", "sum", "print", "next"} => times[u] = p_s_model[u]
    /\ pc[u] \in {"first", "exited"} /\ p_s_model[u] > driver.p_s_model_start =>
         times[u] = p_s_model[u] - 1

SumInv ==
  /\ pc[0] = "sum" => \A v \in Thread : v < term => sum[v] = p_s_model[0]
  /\ pc[0] = "print" => \A v \in Thread : sum[v] = p_s_model[0]
  /\ pc[0] # "sum" => term = 0

Inv ==
  /\ TypeOK /\ CreateInv /\ Lockstep /\ RoundInv /\ BarrierInv /\ FirstThread
  /\ CountingInv /\ TimesInv /\ SumInv

----------------------------------------------------------------------------
(* There is a thread 0.                                                    *)
LEMMA Threads == 0 \in Thread /\ NumThreads \in Nat \ {0} /\ Thread \subseteq Nat
  BY HarnessAssumption DEF Thread

(* What the driver says.                                                   *)
LEMMA DriverTypes ==
  ASSUME driver \in Drivers
  PROVE  /\ driver.p_s_model_start \in Nat /\ driver.p_s_model_end \in Nat
         /\ driver.alone \in BOOLEAN
  BY HarnessAssumption

(* A stage that keeps its segment and its round keeps what has been passed. *)
LEMMA SamePassed ==
  ASSUME TypeOK, Lockstep, NEW u \in Thread, NEW s, pc' = [pc EXCEPT ![u] = s],
         Segment(s) = Segment(pc[u]), UNCHANGED <<driver, p_s_model>>
  PROVE  Lockstep'
<1>1. \A v \in Thread : Segment(pc[v])' = Segment(pc[v])
  BY DEF TypeOK, Segment
<1>2. \A v \in Thread : Passed(v)' = Passed(v)
  BY <1>1 DEF Passed
<1> QED BY <1>2 DEF Lockstep

(* The initial states satisfy the invariant.                               *)
LEMMA InvInit ==
  ASSUME Init
  PROVE  Inv
<1>1. TypeOK
  BY Threads, DriverTypes DEF Init, TypeOK, Stage, Barrier, None
<1>2. Lockstep
  BY DEF Init, Lockstep, Passed
<1>3. CreateInv /\ RoundInv /\ BarrierInv /\ FirstThread /\ CountingInv /\ TimesInv /\ SumInv
  BY Threads, DriverTypes DEF Init, CreateInv, RoundInv, BarrierInv, FirstThread, CountingInv,
     TimesInv, SumInv
<1> QED BY <1>1, <1>2, <1>3 DEF Inv

(***************************************************************************)
(* The steps, one lemma per action.                                        *)
(***************************************************************************)

(* Creating a thread wakes one that has passed nothing.                    *)
LEMMA CreateStep ==
  ASSUME Inv, Create
  PROVE  Inv'
<1>1. /\ TypeOK /\ t \in Thread /\ main = "create" /\ pc[t] = "unborn"
      /\ UNCHANGED <<driver, p_s_model, barrier, counting, times, bitvector, sum, term>>
      /\ pc' = [pc EXCEPT ![t] = "allocate"]
  BY DEF Create, Inv, TypeOK, CreateInv, Thread
<1>2. \/ t + 1 \in Thread /\ t' = t + 1 /\ main' = main
      \/ t' = 0 /\ main' = "join"
  <2>1. t + 1 < NumThreads => t + 1 \in Thread
    BY <1>1, Threads DEF Thread
  <2>2. \/ t + 1 < NumThreads /\ t' = t + 1 /\ main' = main
        \/ t' = 0 /\ main' = "join"
    BY <1>1 DEF Create, MainLoop
  <2> QED BY <2>1, <2>2
<1>3. \A v \in Thread : pc'[v] = IF v = t THEN "allocate" ELSE pc[v]
  BY <1>1 DEF TypeOK
<1>4. TypeOK'
  BY <1>1, <1>2, Threads DEF TypeOK, Stage
<1>5. CreateInv'
  <2>1. \A u \in Thread : u >= t + 1 => u >= t /\ u # t
    BY <1>1, Threads
  <2> QED BY <1>1, <1>2, <1>3, <2>1 DEF Inv, CreateInv
<1>6. Lockstep'
  BY <1>1, SamePassed DEF Inv, Segment
<1>7. RoundInv' /\ FirstThread' /\ TimesInv' /\ CountingInv' /\ SumInv' /\ BarrierInv'
  BY <1>1, <1>3, Threads DEF Inv, RoundInv, FirstThread, TimesInv, CountingInv, SumInv,
     BarrierInv, Barrier, TypeOK
<1> QED BY <1>4, <1>5, <1>6, <1>7 DEF Inv

(* The rest of main leaves the threads alone.                              *)
LEMMA JoinStep ==
  ASSUME Inv, Join \/ Destroy
  PROVE  Inv'
<1>1. /\ UNCHANGED <<driver, pc, p_s_model, barrier, counting, times, bitvector, sum, term>>
      /\ t' \in Thread /\ main' \in {"join", "destroy", "returned"}
  BY Threads DEF Join, Destroy, MainLoop, Inv, TypeOK, Thread
<1> QED BY <1>1 DEF Inv, TypeOK, CreateInv, Lockstep, Passed, Segment, RoundInv, BarrierInv,
             FirstThread, CountingInv, TimesInv, SumInv

(* A process that is ended is left as it is.                               *)
LEMMA AbortStep ==
  ASSUME Inv, main' = "aborted",
         UNCHANGED <<driver, t, pc, p_s_model, barrier, counting, times, bitvector, sum, term>>
  PROVE  Inv'
BY DEF Inv, TypeOK, CreateInv, Lockstep, Passed, Segment, RoundInv, BarrierInv,
       FirstThread, CountingInv, TimesInv, SumInv

(***************************************************************************)
(* A step of thread u alone that neither enters nor leaves a barrier, a    *)
(* segment or the counters.                                                *)
(***************************************************************************)
Alone(u, from, to) ==
  /\ pc[u] = from /\ pc' = [pc EXCEPT ![u] = to]
  /\ Segment(from) = Segment(to)
  /\ from \notin Barrier /\ to \in Stage
  /\ UNCHANGED <<driver, main, t, p_s_model, barrier>>

(* What such a step keeps.                                                 *)
LEMMA AloneStep ==
  ASSUME Inv, NEW u \in Thread, NEW from, NEW to, Alone(u, from, to)
  PROVE  /\ \A v \in Thread : pc'[v] = IF v = u THEN to ELSE pc[v]
         /\ pc' \in [Thread -> Stage]
         /\ Lockstep'
         /\ BarrierInv'
         /\ from # "unborn" => CreateInv'
<1>1. \A v \in Thread : pc'[v] = IF v = u THEN to ELSE pc[v]
  BY DEF Inv, TypeOK, Alone
<1>2. pc' \in [Thread -> Stage]
  BY DEF Inv, TypeOK, Alone
<1>3. Lockstep'
  BY SamePassed DEF Inv, Alone
<1>4. BarrierInv'
  BY <1>1 DEF Inv, TypeOK, BarrierInv, Alone
<1>5. from # "unborn" => CreateInv'
  BY <1>1 DEF Inv, CreateInv, Alone
<1> QED BY <1>1, <1>2, <1>3, <1>4, <1>5

LEMMA AllocateStep ==
  ASSUME Inv, NEW u \in Thread, Allocate(u)
  PROVE  Inv'
<1>1. CASE main' = "aborted" /\ pc' = pc
  BY <1>1, AbortStep DEF Allocate
<1>2. ASSUME NEW to \in {"generate", "returned"},
             pc' = [pc EXCEPT ![u] = to], main' = main
      PROVE  Inv'
  <2>1. Alone(u, "allocate", to)
    BY <1>2 DEF Allocate, Alone, Segment, Barrier, Stage, Ended
  <2>2. /\ pc[u] = "allocate"
        /\ UNCHANGED <<driver, main, t, p_s_model, barrier, counting, times, bitvector, sum, term>>
    BY <1>2 DEF Allocate
  <2>3. /\ \A v \in Thread : pc'[v] = IF v = u THEN to ELSE pc[v]
        /\ pc' \in [Thread -> Stage] /\ Lockstep' /\ BarrierInv' /\ CreateInv'
    BY <2>1, AloneStep
  <2>4. TypeOK'
    BY <2>2, <2>3 DEF Inv, TypeOK
  <2>5. RoundInv' /\ FirstThread' /\ TimesInv' /\ CountingInv' /\ SumInv'
    BY <2>2, <2>3, Threads DEF Inv, RoundInv, FirstThread, TimesInv, CountingInv, SumInv
  <2> QED BY <2>3, <2>4, <2>5 DEF Inv
<1> QED BY <1>1, <1>2 DEF Allocate

LEMMA StartCountersStep ==
  ASSUME Inv, NEW u \in Thread, StartCounters(u)
  PROVE  Inv'
<1>1. Alone(u, "start", "second")
  BY DEF StartCounters, Alone, Segment, Barrier, Stage
<1>2. /\ pc[u] = "start" /\ u = 0 /\ counting' = TRUE
      /\ UNCHANGED <<driver, main, t, p_s_model, barrier, times, bitvector, sum, term>>
  BY DEF StartCounters, Inv, FirstThread
<1>3. /\ \A v \in Thread : pc'[v] = IF v = u THEN "second" ELSE pc[v]
      /\ pc' \in [Thread -> Stage] /\ Lockstep' /\ BarrierInv' /\ CreateInv'
  BY <1>1, AloneStep
<1>4. TypeOK'
  BY <1>2, <1>3 DEF Inv, TypeOK
<1>5. RoundInv' /\ FirstThread' /\ TimesInv' /\ CountingInv' /\ SumInv'
  BY <1>2, <1>3, Threads DEF Inv, RoundInv, FirstThread, TimesInv, CountingInv, SumInv
<1> QED BY <1>3, <1>4, <1>5 DEF Inv

LEMMA RunKernelStep ==
  ASSUME Inv, NEW u \in Thread, RunKernel(u)
  PROVE  Inv'
<1>1. Alone(u, "kernel", "third")
  BY DEF RunKernel, Alone, Segment, Barrier, Stage
<1>2. /\ pc[u] = "kernel"
      /\ UNCHANGED <<driver, main, t, p_s_model, barrier, counting, times, sum, term>>
      /\ bitvector' = [bitvector EXCEPT ![u] = IF p_s_model[u] \in driver.models
                                               THEN p_s_model[u] ELSE @]
  BY DEF RunKernel
<1>3. /\ \A v \in Thread : pc'[v] = IF v = u THEN "third" ELSE pc[v]
      /\ pc' \in [Thread -> Stage] /\ Lockstep' /\ BarrierInv' /\ CreateInv'
  BY <1>1, AloneStep
<1>4. TypeOK'
  BY <1>2, <1>3 DEF Inv, TypeOK
<1>5. RoundInv' /\ FirstThread' /\ TimesInv' /\ CountingInv' /\ SumInv'
  BY <1>2, <1>3, Threads DEF Inv, RoundInv, FirstThread, TimesInv, CountingInv, SumInv
<1> QED BY <1>3, <1>4, <1>5 DEF Inv

LEMMA StopCountersStep ==
  ASSUME Inv, NEW u \in Thread, StopCounters(u)
  PROVE  Inv'
<1>1. Alone(u, "stop", "record")
  BY DEF StopCounters, Alone, Segment, Barrier, Stage
<1>2. /\ pc[u] = "stop" /\ u = 0 /\ counting' = FALSE
      /\ UNCHANGED <<driver, main, t, p_s_model, barrier, times, bitvector, sum, term>>
  BY DEF StopCounters, Inv, FirstThread
<1>3. /\ \A v \in Thread : pc'[v] = IF v = u THEN "record" ELSE pc[v]
      /\ pc' \in [Thread -> Stage] /\ Lockstep' /\ BarrierInv' /\ CreateInv'
  BY <1>1, AloneStep
<1>4. TypeOK'
  BY <1>2, <1>3 DEF Inv, TypeOK
<1>5. RoundInv' /\ FirstThread' /\ TimesInv' /\ CountingInv' /\ SumInv'
  BY <1>2, <1>3, Threads DEF Inv, RoundInv, FirstThread, TimesInv, CountingInv, SumInv
<1> QED BY <1>3, <1>4, <1>5 DEF Inv

LEMMA RecordTimeStep ==
  ASSUME Inv, NEW u \in Thread, RecordTime(u)
  PROVE  Inv'
<1>1. Alone(u, "record", "fourth")
  BY DEF RecordTime, Alone, Segment, Barrier, Stage
<1>2. /\ pc[u] = "record" /\ times' = [times EXCEPT ![u] = p_s_model[u]]
      /\ UNCHANGED <<driver, main, t, p_s_model, barrier, counting, bitvector, sum, term>>
  BY DEF RecordTime
<1>3. /\ \A v \in Thread : pc'[v] = IF v = u THEN "fourth" ELSE pc[v]
      /\ pc' \in [Thread -> Stage] /\ Lockstep' /\ BarrierInv' /\ CreateInv'
  BY <1>1, AloneStep
<1>4. TypeOK'
  BY <1>2, <1>3 DEF Inv, TypeOK
<1>5. RoundInv' /\ FirstThread' /\ CountingInv' /\ SumInv'
  BY <1>2, <1>3, Threads DEF Inv, RoundInv, FirstThread, CountingInv, SumInv
<1>6. TimesInv'
  <2>1. \A v \in Thread : times'[v] = IF v = u THEN p_s_model[u] ELSE times[v]
    BY <1>2 DEF Inv, TypeOK
  <2> QED BY <1>2, <1>3, <2>1 DEF Inv, TimesInv
<1> QED BY <1>3, <1>4, <1>5, <1>6 DEF Inv

LEMMA GenerateStep ==
  ASSUME Inv, NEW u \in Thread, Generate(u)
  PROVE  Inv'
<1>1. CASE main' = "aborted" /\ UNCHANGED <<pc, p_s_model, bitvector>>
  BY <1>1, AbortStep DEF Generate
<1>2. CASE /\ bitvector' = [bitvector EXCEPT ![u] = None]
           /\ p_s_model' = [p_s_model EXCEPT ![u] = driver.p_s_model_start]
           /\ pc' = [pc EXCEPT ![u] = LoopHead(driver.p_s_model_start)]
           /\ main' = main
  <2> DEFINE to == LoopHead(driver.p_s_model_start)
  <2>1. /\ pc[u] = "generate" /\ p_s_model[u] = driver.p_s_model_start
        /\ pc' = [pc EXCEPT ![u] = to]
        /\ UNCHANGED <<driver, main, t, barrier, counting, times, sum, term>>
    BY <1>2 DEF Generate, Inv, RoundInv
  <2>2. p_s_model' = p_s_model
    BY <1>2, <2>1 DEF Inv, TypeOK
  <2>3. \/ to = "first" /\ driver.p_s_model_start <= driver.p_s_model_end
        \/ to = "exited"
    BY DEF LoopHead
  <2> HIDE DEF to
  <2>4. Alone(u, "generate", to)
    BY <2>1, <2>2, <2>3 DEF Alone, Segment, Barrier, Ended, Stage
  <2>5. /\ \A v \in Thread : pc'[v] = IF v = u THEN to ELSE pc[v]
        /\ pc' \in [Thread -> Stage] /\ Lockstep' /\ BarrierInv' /\ CreateInv'
    BY <2>4, AloneStep
  <2>6. TypeOK'
    BY <1>2, <2>1, <2>2, <2>5 DEF Inv, TypeOK
  <2>7. RoundInv'
    BY <2>1, <2>2, <2>3, <2>5 DEF Inv, RoundInv
  <2>8. FirstThread' /\ TimesInv' /\ CountingInv' /\ SumInv'
    BY <2>1, <2>2, <2>3, <2>5, Threads, DriverTypes
       DEF Inv, TypeOK, FirstThread, TimesInv, CountingInv, SumInv
  <2> QED BY <2>5, <2>6, <2>7, <2>8 DEF Inv
<1> QED BY <1>1, <1>2 DEF Generate

(***************************************************************************)
(* The last thread to arrive at barrier b lets all of them go.             *)
(***************************************************************************)
Release(b) ==
  /\ b \in Barrier
  /\ \A v \in Thread : pc[v] = b
  /\ barrier' = [barrier EXCEPT ![b] = {}]
  /\ pc' = [v \in Thread |-> After(b, v)]
  /\ UNCHANGED <<driver, main, t, p_s_model, counting, times, bitvector, sum, term>>

(* A thread at a barrier waits, or all are there and go on.                *)
LEMMA WaitCases ==
  ASSUME Inv, NEW u \in Thread, Wait(u)
  PROVE  \/ Release(pc[u])
         \/ /\ pc[u] \in Barrier
            /\ barrier' = [barrier EXCEPT ![pc[u]] = @ \cup {u}]
            /\ UNCHANGED <<driver, main, t, pc, p_s_model, counting, times, bitvector, sum, term>>
<1>1. CASE barrier[pc[u]] \cup {u} = Thread
  <2>1. \A v \in Thread : v \in barrier[pc[u]] \/ v = u
    BY <1>1
  <2>2. \A v \in Thread : pc[v] = pc[u]
    BY <2>1 DEF Wait, Inv, BarrierInv
  <2> QED BY <1>1, <2>2 DEF Wait, Release
<1>2. CASE barrier[pc[u]] \cup {u} # Thread
  BY <1>2 DEF Wait
<1> QED BY <1>1, <1>2

(* A barrier is passed by all at once.                                     *)
LEMMA ReleaseStep ==
  ASSUME Inv, NEW b, Release(b)
  PROVE  Inv'
<1>1. /\ b \in Barrier
      /\ \A v \in Thread : pc[v] = b /\ pc'[v] = After(b, v)
      /\ barrier' = [barrier EXCEPT ![b] = {}]
      /\ pc' = [v \in Thread |-> After(b, v)]
      /\ UNCHANGED <<driver, main, t, p_s_model, counting, times, bitvector, sum, term>>
  BY DEF Release
<1>2. \A v \in Thread : After(b, v) \in Stage
  BY <1>1 DEF After, Barrier, Stage
<1>3. TypeOK'
  BY <1>1, <1>2 DEF Inv, TypeOK
<1>4. CreateInv'
  BY <1>1 DEF Inv, CreateInv, TypeOK, Thread, Barrier
<1>5. Lockstep'
  <2> DEFINE k == IF b = "fourth" /\ ~driver.alone THEN 2 ELSE 1
  <2>1. \A v \in Thread : Segment(pc[v]) = Segment(b) /\ Segment(pc[v])' = Segment(b) + k
    BY <1>1 DEF Segment, After, Barrier
  <2>2. \A v \in Thread : p_s_model[v] \in Int /\ p_s_model'[v] = p_s_model[v]
    BY <1>1 DEF Inv, TypeOK
  <2>3. Segment(b) \in Int /\ k \in Int /\ driver.p_s_model_start \in Int /\ driver' = driver
    BY <1>1, DriverTypes DEF Segment, Inv, TypeOK
  <2> HIDE DEF k
  <2>4. \A v \in Thread : Passed(v)' = Passed(v) + k
    BY <2>1, <2>2, <2>3 DEF Passed
  <2> QED BY <2>4 DEF Inv, Lockstep
<1>6. RoundInv'
  BY <1>1 DEF Inv, RoundInv, After, Barrier
<1>7. FirstThread'
  BY <1>1 DEF Inv, FirstThread, After, Barrier
<1>8. CountingInv'
  BY <1>1, Threads DEF Inv, CountingInv, After, Barrier
<1>9. TimesInv'
  BY <1>1 DEF Inv, TimesInv, After, Barrier
<1>10. SumInv'
  BY <1>1, Threads DEF Inv, SumInv, After, Barrier
<1>11. BarrierInv'
  <2>1. \A c \in Barrier : \A v \in barrier'[c] : c # b /\ v \in barrier[c] /\ v \in Thread
    BY <1>1 DEF Inv, TypeOK
  <2> QED BY <1>1, <2>1 DEF Inv, BarrierInv
<1> QED BY <1>3, <1>4, <1>5, <1>6, <1>7, <1>8, <1>9, <1>10, <1>11 DEF Inv

LEMMA WaitStep ==
  ASSUME Inv, NEW u \in Thread, Wait(u)
  PROVE  Inv'
<1>1. CASE Release(pc[u])
  BY <1>1, ReleaseStep
<1>2. CASE /\ pc[u] \in Barrier
           /\ barrier' = [barrier EXCEPT ![pc[u]] = @ \cup {u}]
           /\ UNCHANGED <<driver, main, t, pc, p_s_model, counting, times, bitvector, sum, term>>
  <2>1. barrier' \in [Barrier -> SUBSET Thread]
    BY <1>2 DEF Inv, TypeOK
  <2>2. BarrierInv'
    BY <1>2 DEF Inv, TypeOK, BarrierInv
  <2> QED BY <1>2, <2>1, <2>2 DEF Inv, TypeOK, CreateInv, Lockstep, Passed, Segment,
             RoundInv, FirstThread, CountingInv, TimesInv, SumInv
<1> QED BY <1>1, <1>2, WaitCases

(* Thread u, the last stage of its round behind it, begins the next.       *)
LEMMA NextRoundStep ==
  ASSUME Inv, NEW u \in Thread, NextRound(u)
  PROVE  Inv'
<1> DEFINE to == LoopHead(p_s_model[u] + 1)
<1>1. /\ pc[u] = "next"
      /\ p_s_model' = [p_s_model EXCEPT ![u] = @ + 1] /\ pc' = [pc EXCEPT ![u] = to]
      /\ UNCHANGED <<driver, main, t, barrier, counting, times, bitvector, sum, term>>
  BY DEF NextRound
<1>2. \/ to = "first" /\ p_s_model[u] + 1 <= driver.p_s_model_end
      \/ to = "exited"
  BY DEF LoopHead
<1> HIDE DEF to
<1>3. TypeOK'
  BY <1>1, <1>2 DEF Inv, TypeOK, Stage, Barrier, Ended
<1>4. /\ \A v \in Thread : pc'[v] = IF v = u THEN to ELSE pc[v]
      /\ \A v \in Thread : p_s_model'[v] = IF v = u THEN p_s_model[u] + 1 ELSE p_s_model[v]
  BY <1>1 DEF Inv, TypeOK
<1>5. /\ \A v \in Thread : p_s_model[v] \in Nat /\ p_s_model[v] >= driver.p_s_model_start
      /\ driver.p_s_model_start \in Nat /\ driver.p_s_model_end \in Nat
  BY DriverTypes DEF Inv, TypeOK, RoundInv
<1>6. Lockstep'
  <2>1. Segment(pc[u]) = 5 /\ Segment(pc[u])' = 0
    BY <1>1, <1>2, <1>4 DEF Segment
  <2>2. Passed(u)' = Passed(u)
    BY <1>1, <1>4, <1>5, <2>1 DEF Passed
  <2>3. \A v \in Thread : v # u => Passed(v)' = Passed(v)
    BY <1>1, <1>4 DEF Passed, Segment
  <2> QED BY <2>2, <2>3 DEF Inv, Lockstep
<1>7. RoundInv'
  BY <1>1, <1>2, <1>4, <1>5 DEF Inv, RoundInv
<1>8. BarrierInv'
  BY <1>1, <1>4 DEF Inv, TypeOK, BarrierInv, Barrier
<1>9. CreateInv' /\ FirstThread' /\ CountingInv'
  BY <1>1, <1>2, <1>4, Threads DEF Inv, CreateInv, FirstThread, CountingInv
<1>10. TimesInv'
  BY <1>1, <1>2, <1>4, <1>5 DEF Inv, TimesInv
<1>11. SumInv'
  BY <1>1, <1>2, <1>4, Threads DEF Inv, SumInv
<1> QED BY <1>3, <1>6, <1>7, <1>8, <1>9, <1>10, <1>11 DEF Inv

LEMMA CheckStep ==
  ASSUME Inv, NEW u \in Thread, Check(u)
  PROVE  Inv'
<1> DEFINE to == IF driver.alone THEN "fifth" ELSE IF u = 0 THEN "sum" ELSE "next"
<1>1. /\ pc[u] = "check" /\ pc' = [pc EXCEPT ![u] = to]
      /\ UNCHANGED <<driver, main, t, p_s_model, barrier, counting, times, bitvector, sum, term>>
  BY DEF Check
<1>2. \/ to = "fifth" /\ driver.alone
      \/ to = "sum" /\ u = 0 /\ ~driver.alone
      \/ to = "next" /\ u # 0 /\ ~driver.alone
  OBVIOUS
<1> HIDE DEF to
<1>3. Alone(u, "check", to)
  BY <1>1, <1>2 DEF Alone, Segment, Barrier, Stage
<1>4. /\ \A v \in Thread : pc'[v] = IF v = u THEN to ELSE pc[v]
      /\ pc' \in [Thread -> Stage] /\ Lockstep' /\ BarrierInv' /\ CreateInv'
  BY <1>3, AloneStep
<1>5. TypeOK'
  BY <1>1, <1>4 DEF Inv, TypeOK
<1>6. RoundInv' /\ FirstThread' /\ TimesInv' /\ CountingInv'
  BY <1>1, <1>2, <1>4, Threads DEF Inv, RoundInv, FirstThread, TimesInv, CountingInv
<1>7. SumInv'
  BY <1>1, <1>2, <1>4, Threads DEF Inv, SumInv, Thread
<1> QED BY <1>4, <1>5, <1>6, <1>7 DEF Inv

(* While thread 0 adds up, the time of every thread is of its round.       *)
LEMMA TimesAdded ==
  ASSUME Inv, pc[0] \in {"sum", "print"}, NEW v \in Thread
  PROVE  times[v] = p_s_model[0]
<1> DEFINE m(w) == p_s_model[w] - driver.p_s_model_start
<1>1. /\ m(v) \in Int /\ m(0) \in Int /\ Segment(pc[0]) = 5
      /\ Segment(pc[v]) \in 0..5
      /\ 5 * m(v) + Segment(pc[v]) = 5 * m(0) + 5
  BY Threads, DriverTypes DEF Inv, TypeOK, Lockstep, Passed, Segment
<1>2. \/ Segment(pc[v]) = 5 /\ m(v) = m(0)
      \/ Segment(pc[v]) = 0 /\ m(v) = m(0) + 1
  <2>1. \A a, b \in Int : \A s \in 0..5 : 5 * a + s = 5 * b + 5 =>
          \/ s = 5 /\ a = b
          \/ s = 0 /\ a = b + 1
    OBVIOUS
  <2> HIDE DEF m
  <2> QED BY <1>1, <2>1
<1>3. m(0) >= 0 /\ p_s_model[v] \in Nat /\ p_s_model[0] \in Nat
  BY Threads, DriverTypes DEF Inv, TypeOK, RoundInv
<1>4. CASE Segment(pc[v]) = 5 /\ m(v) = m(0)
  <2>1. pc[v] \in {"check", "sum", "print", "next"}
    BY <1>4 DEF Segment
  <2>2. p_s_model[v] = p_s_model[0]
    BY <1>3, <1>4, DriverTypes DEF Inv, TypeOK
  <2> QED BY <2>1, <2>2 DEF Inv, TimesInv
<1>5. CASE Segment(pc[v]) = 0 /\ m(v) = m(0) + 1
  <2>1. p_s_model[v] = p_s_model[0] + 1 /\ p_s_model[v] > driver.p_s_model_start
    BY <1>3, <1>5, DriverTypes DEF Inv, TypeOK
  <2>2. pc[v] \notin {"unborn", "allocate", "generate", "returned"}
    BY <2>1, DriverTypes DEF Inv, TypeOK, RoundInv
  <2>3. pc[v] \in {"first", "exited"}
    BY <1>5, <2>2 DEF Inv, TypeOK, Stage, Barrier, Ended, Segment
  <2> QED BY <1>3, <2>1, <2>3 DEF Inv, TimesInv
<1> QED BY <1>2, <1>4, <1>5

LEMMA AddTimeStep ==
  ASSUME Inv, NEW u \in Thread, AddTime(u)
  PROVE  Inv'
<1>1. /\ pc[u] = "sum" /\ u = 0 /\ term \in Thread
      /\ sum' = [sum EXCEPT ![term] = times[term]]
      /\ UNCHANGED <<driver, main, t, p_s_model, barrier, counting, times, bitvector>>
  BY DEF AddTime, Inv, TypeOK, FirstThread
<1>2. times[term] = p_s_model[0] /\ p_s_model[0] \in Nat
  BY <1>1, TimesAdded DEF Inv, TypeOK
<1>3. \A v \in Thread : sum'[v] = IF v = term THEN p_s_model[0] ELSE sum[v]
  BY <1>1, <1>2 DEF Inv, TypeOK
<1>4. sum' \in [Thread -> Nat \cup {None}]
  BY <1>1, <1>2 DEF Inv, TypeOK
<1>5. CASE term + 1 < NumThreads
  <2>1. term' = term + 1 /\ pc' = pc /\ term' \in Thread
    BY <1>1, <1>5, Threads DEF AddTime, Thread
  <2>2. \A v \in Thread : v < term' => v < term \/ v = term
    BY <1>1, <2>1 DEF Thread
  <2>3. SumInv'
    BY <1>1, <1>3, <2>1, <2>2 DEF Inv, SumInv
  <2>4. TypeOK'
    BY <1>1, <1>4, <2>1 DEF Inv, TypeOK
  <2> QED BY <1>1, <2>1, <2>3, <2>4 DEF Inv, CreateInv, Lockstep, Passed, Segment,
             RoundInv, BarrierInv, FirstThread, CountingInv, TimesInv
<1>6. CASE ~(term + 1 < NumThreads)
  <2>1. term' = 0 /\ pc' = [pc EXCEPT ![u] = "print"]
    BY <1>6 DEF AddTime
  <2>2. Alone(u, "sum", "print")
    BY <1>1, <2>1 DEF Alone, Segment, Barrier, Stage
  <2>3. /\ \A v \in Thread : pc'[v] = IF v = u THEN "print" ELSE pc[v]
        /\ pc' \in [Thread -> Stage] /\ Lockstep' /\ BarrierInv' /\ CreateInv'
    BY <2>2, AloneStep
  <2>4. TypeOK'
    BY <1>1, <1>4, <2>1, <2>3, Threads DEF Inv, TypeOK
  <2>5. \A v \in Thread : v < term \/ v = term
    BY <1>1, <1>6, Threads DEF Thread
  <2>6. SumInv'
    BY <1>1, <1>3, <2>1, <2>3, <2>5, Threads DEF Inv, SumInv
  <2>7. RoundInv' /\ FirstThread' /\ TimesInv' /\ CountingInv'
    BY <1>1, <2>3, Threads DEF Inv, RoundInv, FirstThread, TimesInv, CountingInv
  <2> QED BY <2>3, <2>4, <2>6, <2>7 DEF Inv
<1> QED BY <1>5, <1>6

LEMMA PrintTimeStep ==
  ASSUME Inv, NEW u \in Thread, PrintTime(u)
  PROVE  Inv'
<1>1. Alone(u, "print", "next")
  BY DEF PrintTime, Alone, Segment, Barrier, Stage
<1>2. /\ pc[u] = "print" /\ u = 0 /\ sum' = [v \in Thread |-> None]
      /\ UNCHANGED <<driver, main, t, p_s_model, barrier, counting, times, bitvector, term>>
  BY DEF PrintTime, Inv, FirstThread
<1>3. /\ \A v \in Thread : pc'[v] = IF v = u THEN "next" ELSE pc[v]
      /\ pc' \in [Thread -> Stage] /\ Lockstep' /\ BarrierInv' /\ CreateInv'
  BY <1>1, AloneStep
<1>4. TypeOK'
  BY <1>2, <1>3 DEF Inv, TypeOK
<1>5. RoundInv' /\ FirstThread' /\ TimesInv' /\ CountingInv' /\ SumInv'
  BY <1>2, <1>3, Threads DEF Inv, RoundInv, FirstThread, TimesInv, CountingInv, SumInv
<1> QED BY <1>3, <1>4, <1>5 DEF Inv

(* The invariant is inductive.                                             *)
LEMMA InvStep ==
  ASSUME Inv, [Next]_vars
  PROVE  Inv'
<1>1. CASE Main
  BY <1>1, CreateStep, JoinStep DEF Main
<1>2. ASSUME NEW u \in Thread, Run(u) PROVE Inv'
  BY <1>2, AllocateStep, GenerateStep, WaitStep, StartCountersStep, RunKernelStep,
     StopCountersStep, RecordTimeStep, CheckStep, AddTimeStep, PrintTimeStep,
     NextRoundStep DEF Run
<1>3. CASE UNCHANGED vars
  BY <1>3 DEF vars, Inv, TypeOK, CreateInv, Lockstep, Passed, Segment, RoundInv, BarrierInv,
     FirstThread, CountingInv, TimesInv, SumInv
<1> QED BY <1>1, <1>2, <1>3 DEF Next

(* What every reachable state satisfies.                                   *)
THEOREM InvCorrect == Spec => []Inv
<1> QED BY InvInit, InvStep, PTL DEF Spec

(* Every variable of the harness keeps its type.                           *)
THEOREM TypeCorrect == Spec => []TypeOK
<1>1. Inv => TypeOK
  BY DEF Inv
<1> QED BY <1>1, InvCorrect, PTL

----------------------------------------------------------------------------
(* Within a round, between its first barrier and its fourth, all threads   *)
(* are in the same segment of the same round.                              *)
LEMMA SameSegment ==
  ASSUME Inv, NEW u \in Thread, NEW v \in Thread, Segment(pc[u]) \in 1..3
  PROVE  Segment(pc[v]) = Segment(pc[u]) /\ p_s_model[v] = p_s_model[u]
<1>1. \A a, b, z \in Int : \A r \in 0..5 : \A s \in 1..3 :
        5 * (a - z) + r = 5 * (b - z) + s => r = s /\ a = b
  OBVIOUS
<1>2. p_s_model[v] \in Int /\ p_s_model[u] \in Int /\ driver.p_s_model_start \in Int
  BY DriverTypes DEF Inv, TypeOK
<1>3. Segment(pc[v]) \in 0..5
  BY DEF Segment
<1>4. 5 * (p_s_model[v] - driver.p_s_model_start) + Segment(pc[v])
        = 5 * (p_s_model[u] - driver.p_s_model_start) + Segment(pc[u])
  BY DEF Inv, Lockstep, Passed
<1> QED BY <1>1, <1>2, <1>3, <1>4

(* While the counters count, no thread does anything but run a kernel,     *)
(* wait for the others or leave its time: the counted memory traffic is    *)
(* the kernels'.                                                           *)
THEOREM OnlyKernelsAreCounted == Spec => []OnlyKernelsCounted
<1>1. ASSUME Inv, counting, NEW u \in Thread
      PROVE  pc[u] \in {"second", "kernel", "third", "stop", "record", "fourth"}
  <2>1. pc[0] \in {"second", "kernel", "third", "stop"}
    BY <1>1 DEF Inv, CountingInv
  <2>2. Segment(pc[0]) \in 1..3
    BY <2>1 DEF Segment
  <2>3. Segment(pc[u]) \in 1..3
    BY <1>1, <2>2, SameSegment, Threads
  <2>4. pc[u] # "start"
    BY <1>1, <2>1 DEF Inv, FirstThread
  <2> QED BY <2>3, <2>4 DEF Segment
<1>2. Inv => OnlyKernelsCounted
  BY <1>1 DEF OnlyKernelsCounted
<1> QED BY <1>2, InvCorrect, PTL

(* The sum thread 0 prints is that of the times every thread has left in   *)
(* this round.                                                             *)
THEOREM SumIsOfThisRound == Spec => []SumOfThisRound
<1>1. ASSUME Inv, NEW u \in Thread, pc[u] = "print"
      PROVE  sum = [v \in Thread |-> p_s_model[u]]
  <2>1. u = 0
    BY <1>1 DEF Inv, FirstThread
  <2>2. \A v \in Thread : sum[v] = p_s_model[u]
    BY <1>1, <2>1 DEF Inv, SumInv
  <2> QED BY <1>1, <2>2 DEF Inv, TypeOK
<1>2. Inv => SumOfThisRound
  BY <1>1 DEF SumOfThisRound
<1> QED BY <1>2, InvCorrect, PTL

(* A thread that could not allocate its columns keeps every other thread   *)
(* before the first barrier of the first round.                            *)
THEOREM NothingPartlyMeasured == Spec => []NoPartialMeasurement
<1>1. ASSUME Inv, NEW u \in Thread, pc[u] = "returned", NEW v \in Thread
      PROVE  /\ pc[v] \in {"unborn", "allocate", "generate", "first", "exited", "returned"}
             /\ p_s_model[v] = driver.p_s_model_start
  <2>1. p_s_model[u] = driver.p_s_model_start /\ Segment(pc[u]) = 0
    BY <1>1 DEF Inv, RoundInv, Segment
  <2>2. /\ p_s_model[v] \in Nat /\ p_s_model[v] >= driver.p_s_model_start
        /\ Segment(pc[v]) \in 0..5
    BY <1>1 DEF Inv, TypeOK, RoundInv, Segment
  <2>3. 5 * (p_s_model[v] - driver.p_s_model_start) + Segment(pc[v]) = 0
    <3>1. Passed(u) = 0
      BY <1>1, <2>1, DriverTypes DEF Inv, TypeOK, Passed
    <3>2. Passed(v) = Passed(u)
      BY <1>1 DEF Inv, Lockstep
    <3> QED BY <3>1, <3>2 DEF Passed
  <2>4. \A a, z \in Nat : \A r \in 0..5 :
          a >= z /\ 5 * (a - z) + r = 0 => a = z /\ r = 0
    OBVIOUS
  <2>5. p_s_model[v] = driver.p_s_model_start /\ Segment(pc[v]) = 0
    BY <1>1, <2>2, <2>3, <2>4, DriverTypes DEF Inv, TypeOK
  <2> QED BY <1>1, <2>5 DEF Inv, TypeOK, Stage, Barrier, Ended, Segment
<1>2. Inv => NoPartialMeasurement
  BY <1>1 DEF NoPartialMeasurement
<1> QED BY <1>2, InvCorrect, PTL

----------------------------------------------------------------------------
(* The bits a thread holds from its kernel on are of this round, if the    *)
(* loop has a branch for every round's kernel.                             *)
BitsInv ==
  \A u \in Thread : pc[u] \in {"third", "stop", "record", "fourth", "check"} =>
    bitvector[u] = p_s_model[u]

EveryRoundHasAKernel ==
  \A d \in Drivers : d.p_s_model_start..d.p_s_model_end \subseteq d.models

(* A step of the harness keeps them.                                       *)
LEMMA BitsStep ==
  ASSUME Inv, BitsInv, EveryRoundHasAKernel, [Next]_vars
  PROVE  BitsInv'
<1>1. CASE Main
  BY <1>1 DEF Main, Create, Join, Destroy, Inv, TypeOK, BitsInv
<1>2. ASSUME NEW u \in Thread, Allocate(u) \/ StartCounters(u) \/ StopCounters(u)
                               \/ RecordTime(u) \/ AddTime(u) \/ Check(u) \/ PrintTime(u)
      PROVE  BitsInv'
  BY <1>2 DEF Inv, TypeOK, BitsInv, Allocate, StartCounters, StopCounters,
     RecordTime, AddTime, Check, PrintTime
<1>3. ASSUME NEW u \in Thread, Generate(u) PROVE BitsInv'
  BY <1>3 DEF Inv, TypeOK, BitsInv, Generate, LoopHead
<1>4. ASSUME NEW u \in Thread, Wait(u) PROVE BitsInv'
  <2>1. CASE Release(pc[u])
    BY <2>1 DEF Release, After, Barrier, BitsInv
  <2>2. CASE UNCHANGED <<pc, p_s_model, bitvector>>
    BY <2>2 DEF BitsInv
  <2> QED BY <1>4, <2>1, <2>2, WaitCases
<1>5. ASSUME NEW u \in Thread, RunKernel(u) PROVE BitsInv'
  <2>1. p_s_model[u] \in driver.models
    BY <1>5, DriverTypes DEF RunKernel, Inv, TypeOK, RoundInv, EveryRoundHasAKernel
  <2> QED BY <1>5, <2>1 DEF RunKernel, Inv, TypeOK, BitsInv
<1>6. ASSUME NEW u \in Thread, NextRound(u) PROVE BitsInv'
  BY <1>6 DEF NextRound, LoopHead, Inv, TypeOK, BitsInv
<1>7. CASE UNCHANGED vars
  BY <1>7 DEF vars, BitsInv
<1> QED BY <1>1, <1>2, <1>3, <1>4, <1>5, <1>6, <1>7 DEF Next, Run

(* Every round that has a kernel checks the bits that kernel has written;  *)
(* the rounds past the last branch are the only ones that check others.    *)
THEOREM BitsAreOfThisRound ==
  ASSUME EveryRoundHasAKernel
  PROVE  Spec => []BitsOfThisRound
<1>1. Init => BitsInv
  BY DEF Init, BitsInv
<1>2. Inv /\ BitsInv /\ [Next]_vars => BitsInv'
  BY BitsStep
<1>3. BitsInv => BitsOfThisRound
  BY DEF BitsInv, BitsOfThisRound
<1> QED BY <1>1, <1>2, <1>3, InvCorrect, PTL DEF Spec

----------------------------------------------------------------------------
(* The harness implements MeasuredRounds.                                  *)
Ran == IF counting
       THEN {u \in Thread : pc[u] \in {"third", "stop", "record", "fourth"}} ELSE {}

Round == p_s_model[0] + (IF pc[0] \in Measured THEN 1 ELSE 0)

(* A step that leaves the counters, the threads that have run the kernel   *)
(* and the round of thread 0 alone is a stutter of MeasuredRounds.         *)
LEMMA StutterStep ==
  ASSUME UNCHANGED <<driver, counting>>, UNCHANGED p_s_model[0],
         pc'[0] \in Measured <=> pc[0] \in Measured,
         counting => \A v \in Thread :
           pc'[v] \in {"third", "stop", "record", "fourth"}
             <=> pc[v] \in {"third", "stop", "record", "fourth"}
  PROVE  UNCHANGED <<driver, Round, counting, Ran>>
<1>1. Round' = Round
  BY DEF Round
<1>2. Ran' = Ran
  BY DEF Ran
<1> QED BY <1>1, <1>2

(* A barrier is passed unnoticed.                                          *)
LEMMA WaitStutters ==
  ASSUME Inv, NEW u \in Thread, Wait(u)
  PROVE  UNCHANGED <<driver, Round, counting, Ran>>
<1>1. CASE Release(pc[u])
  <2>1. pc[0] \in {"first", "fourth"} => ~counting
    BY DEF Inv, CountingInv
  <2>2. pc'[0] \in Measured <=> pc[0] \in Measured
    BY <1>1, Threads DEF Release, After, Barrier, Measured
  <2>3. counting => \A v \in Thread :
           pc'[v] \in {"third", "stop", "record", "fourth"}
             <=> pc[v] \in {"third", "stop", "record", "fourth"}
    BY <1>1, <2>1, Threads DEF Release, After, Barrier
  <2>4. UNCHANGED <<driver, counting, p_s_model>>
    BY <1>1 DEF Release
  <2> QED BY <2>2, <2>3, <2>4, StutterStep
<1>2. CASE UNCHANGED <<driver, pc, p_s_model, counting>>
  BY <1>2, StutterStep
<1> QED BY <1>1, <1>2, WaitCases

(* The counters are started before any thread has run the kernel.          *)
LEMMA StartCountersStarts ==
  ASSUME Inv, NEW u \in Thread, StartCounters(u)
  PROVE  /\ ~counting /\ counting' /\ Round <= driver.p_s_model_end
         /\ Ran = {} /\ UNCHANGED <<driver, Round, Ran>>
<1>1. u = 0 /\ pc[0] = "start" /\ ~counting /\ counting' = TRUE /\ driver' = driver
  BY DEF StartCounters, Inv, FirstThread, CountingInv
<1>2. \A v \in Thread : pc'[v] = IF v = 0 THEN "second" ELSE pc[v]
  BY <1>1 DEF StartCounters, Inv, TypeOK
<1>3. \A v \in Thread : Segment(pc[v]) = 1
  BY <1>1, SameSegment DEF Segment
<1>4. \A v \in Thread : pc'[v] \notin {"third", "stop", "record", "fourth"}
  BY <1>2, <1>3 DEF Segment
<1>5. Ran = {} /\ Ran' = {}
  BY <1>1, <1>4 DEF Ran
<1>6. Round = p_s_model[0] /\ Round' = p_s_model[0]
  BY <1>1, <1>2, Threads DEF Round, Measured, StartCounters, Inv, TypeOK
<1>7. p_s_model[0] <= driver.p_s_model_end
  BY <1>1, Threads DEF Inv, RoundInv
<1> QED BY <1>1, <1>5, <1>6, <1>7

(* A kernel runs once in its round, while the counters count.              *)
LEMMA RunKernelRuns ==
  ASSUME Inv, NEW u \in Thread, RunKernel(u)
  PROVE  counting /\ u \notin Ran /\ Ran' = Ran \cup {u} 
         /\ UNCHANGED <<driver, Round, counting>>
<1>1. pc[u] = "kernel" /\ UNCHANGED <<driver, p_s_model, counting>>
  BY DEF RunKernel
<1>2. \A v \in Thread : pc'[v] = IF v = u THEN "third" ELSE pc[v]
  BY DEF RunKernel, Inv, TypeOK
<1>3. Segment(pc[0]) = 2
  BY <1>1, SameSegment, Threads DEF Segment
<1>4. pc[0] \in {"kernel", "third"}
  BY <1>3 DEF Segment
<1>5. counting
  BY <1>4 DEF Inv, CountingInv
<1>6. Round' = Round
  BY <1>1, <1>2, <1>4, Threads DEF Round, Measured
<1>7. u \notin Ran /\ Ran' = Ran \cup {u}
  BY <1>1, <1>2, <1>5 DEF Ran
<1> QED BY <1>1, <1>5, <1>6, <1>7

(* The counters are stopped after the last thread has run its kernel.      *)
LEMMA StopCountersStops ==
  ASSUME Inv, NEW u \in Thread, StopCounters(u)
  PROVE  /\ counting /\ Ran = Thread /\ ~counting' /\ Ran' = {} /\ Round' = Round + 1
         /\ UNCHANGED driver
<1>1. u = 0 /\ pc[0] = "stop" /\ counting /\ counting' = FALSE /\ driver' = driver
  BY DEF StopCounters, Inv, FirstThread, CountingInv
<1>2. \A v \in Thread : Segment(pc[v]) = 3
  BY <1>1, SameSegment DEF Segment
<1>3. \A v \in Thread : pc[v] \in {"third", "stop", "record", "fourth"}
  BY <1>2 DEF Segment
<1>4. Ran = Thread /\ Ran' = {}
  BY <1>1, <1>3 DEF Ran
<1>5. pc'[0] = "record" /\ p_s_model'[0] = p_s_model[0] /\ p_s_model[0] \in Nat
  BY <1>1, Threads DEF StopCounters, Inv, TypeOK
<1>6. Round = p_s_model[0] + 0 /\ Round' = p_s_model[0] + 1
  BY <1>1, <1>5 DEF Round, Measured
<1> QED BY <1>1, <1>4, <1>5, <1>6

(* No thread is between the first barrier and the fourth when one checks   *)
(* its bits or prints; the rest of a round is unnoticed.                   *)
LEMMA RestStutters ==
  ASSUME Inv, NEW u \in Thread,
         \/ Allocate(u) \/ Generate(u) \/ RecordTime(u)
         \/ Check(u) \/ AddTime(u) \/ PrintTime(u)
  PROVE  UNCHANGED <<driver, Round, counting, Ran>>
<1>1. UNCHANGED <<driver, counting>> /\ 0 \in Thread
  BY Threads DEF Allocate, Generate, RecordTime, Check, AddTime, PrintTime
<1>2. p_s_model'[0] = p_s_model[0]
  BY <1>1 DEF Inv, TypeOK, RoundInv, Allocate, Generate, RecordTime, Check, AddTime, PrintTime
<1>3. pc'[0] \in Measured <=> pc[0] \in Measured
  BY <1>1 DEF Inv, TypeOK, Measured, Allocate, Generate, RecordTime, Check, AddTime, PrintTime,
     LoopHead, FirstThread
<1>4. \A v \in Thread : pc'[v] \in {"third", "stop", "record", "fourth"}
             <=> pc[v] \in {"third", "stop", "record", "fourth"}
  BY DEF Inv, TypeOK, Allocate, Generate, RecordTime, Check, AddTime, PrintTime, LoopHead
<1> QED BY <1>1, <1>2, <1>3, <1>4, StutterStep

(* A thread's next round is the one after that it has measured.            *)
LEMMA NextRoundStutters ==
  ASSUME Inv, NEW u \in Thread, NextRound(u)
  PROVE  UNCHANGED <<driver, Round, counting, Ran>>
<1> DEFINE to == LoopHead(p_s_model[u] + 1)
<1>1. pc[u] = "next" /\ UNCHANGED <<driver, counting>> /\ to \in {"first", "exited"}
  BY DEF NextRound, LoopHead
<1>2. /\ \A v \in Thread : pc'[v] = IF v = u THEN to ELSE pc[v]
      /\ \A v \in Thread : p_s_model'[v] = IF v = u THEN p_s_model[u] + 1 ELSE p_s_model[v]
      /\ \A v \in Thread : p_s_model[v] \in Nat
  BY DEF NextRound, Inv, TypeOK
<1> HIDE DEF to
<1>3. Round' = Round
  BY <1>1, <1>2, Threads DEF Round, Measured
<1>4. Ran' = Ran
  BY <1>1, <1>2 DEF Ran
<1> QED BY <1>1, <1>3, <1>4

(* The steps of main are unnoticed.                                        *)
LEMMA MainStutters ==
  ASSUME Inv, Main
  PROVE  UNCHANGED <<driver, Round, counting, Ran>>
<1>1. CASE Create
  <2>1. /\ pc[t] = "unborn" /\ t \in Thread
        /\ \A v \in Thread : pc'[v] = IF v = t THEN "allocate" ELSE pc[v]
        /\ UNCHANGED <<driver, p_s_model, counting>>
    BY <1>1, Threads DEF Create, Inv, TypeOK, CreateInv
  <2> QED BY <2>1, Threads, StutterStep DEF Measured
<1>2. CASE Join \/ Destroy
  BY <1>2, StutterStep DEF Join, Destroy
<1> QED BY <1>1, <1>2 DEF Main

(* Every run of the harness measures its rounds as MeasuredRounds says:    *)
(* the counters count exactly one run of the round's kernel by every       *)
(* thread, and are stopped only when the last of them has ended.           *)
THEOREM HarnessImplementsMeasuredRounds == Spec => ImplementsMeasuredRounds
<1>1. Init => Rounds!Init
  BY Threads, DriverTypes DEF Init, Rounds!Init, Measured
<1>2. Inv /\ [Next]_vars => [Rounds!Next]_Rounds!vars
  <2> SUFFICES ASSUME Inv, [Next]_vars
               PROVE  [Rounds!Next]_Rounds!vars
    OBVIOUS
  <2>1. UNCHANGED <<driver, Round, counting, Ran>> => UNCHANGED Rounds!vars
    BY DEF Rounds!vars, Rounds!rounds, Round, Ran
  <2>2. CASE Main
    BY <2>1, <2>2, MainStutters
  <2>3. ASSUME NEW u \in Thread, StartCounters(u) PROVE Rounds!Start
    BY <2>3, StartCountersStarts DEF Rounds!Start, Rounds!rounds, Round, Ran
  <2>4. ASSUME NEW u \in Thread, RunKernel(u) PROVE Rounds!RunKernel(u)
    BY <2>4, RunKernelRuns DEF Rounds!RunKernel, Rounds!rounds, Round, Ran
  <2>5. ASSUME NEW u \in Thread, StopCounters(u) PROVE Rounds!Stop
    BY <2>5, StopCountersStops DEF Rounds!Stop, Rounds!rounds, Round, Ran
  <2>6. ASSUME NEW u \in Thread, Run(u) PROVE [Rounds!Next]_Rounds!vars
    BY <2>1, <2>3, <2>4, <2>5, <2>6, WaitStutters, RestStutters, NextRoundStutters
       DEF Run, Rounds!Next
  <2>7. CASE UNCHANGED vars
    BY <2>7 DEF vars, Rounds!vars, Rounds!rounds
  <2> QED BY <2>2, <2>6, <2>7 DEF Next
<1> QED BY <1>1, <1>2, InvCorrect, PTL DEF Spec, ImplementsMeasuredRounds, Rounds!Spec
=============================================================================
