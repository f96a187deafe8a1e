------------------------- MODULE WorkerPoolProofs -------------------------
(* Theorems about WorkerPool, for every set of workers and every number of *)
(* calls of run().                                                         *)
EXTENDS WorkerPool, FiniteSetTheorems, TLAPS

---------------------------------------------------------------------------
(* The inductive invariant.                                                *)

Open == {"notify", "task", "wait", "waiting"}

(* A worker never is ahead of the generation, and one that runs the task   *)
(* or is to count itself out has taken the task of this very generation.   *)
WorkersInv ==
  \A t \in Workers :
    /\ seen[t] <= generation
    /\ worker[t] \in {"run", "count"} =>
         seen[t] = generation /\ job[t] = generation

(* Within run() task_ is its task; outside of it no worker has anything    *)
(* left to do, so that none reads task_ or counts itself out.              *)
RoundInv ==
  IF caller \in Open THEN task = generation /\ generation # 0
                     ELSE Outstanding = {}

IInv ==
  /\ TypeOK
  /\ RunningCountsOutstanding
  /\ WorkersInv
  /\ RoundInv

(* Sets of workers are finite, and have no member exactly if they count *)
(* none.                                                                *)
LEMMA WorkersFinite ==
  /\ IsFiniteSet(Workers) /\ Cardinality(Workers) \in Nat
  /\ \A S \in SUBSET Workers :
       /\ IsFiniteSet(S)
       /\ Cardinality(S) \in 0 .. Cardinality(Workers)
       /\ Cardinality(S) = 0 <=> S = {}
<1>1. IsFiniteSet(Workers) /\ Cardinality(Workers) \in Nat
  BY WorkersAssumption, FS_CardinalityType
<1>2. ASSUME NEW S \in SUBSET Workers
      PROVE  /\ IsFiniteSet(S)
             /\ Cardinality(S) \in 0 .. Cardinality(Workers)
             /\ Cardinality(S) = 0 <=> S = {}
  <2>1. IsFiniteSet(S) /\ Cardinality(S) <= Cardinality(Workers)
    BY <1>1, FS_Subset
  <2>2. Cardinality(S) \in Nat
    BY <2>1, FS_CardinalityType
  <2>3. Cardinality(S) = 0 <=> S = {}
    BY <2>1, FS_EmptySet
  <2> QED BY <1>1, <2>1, <2>2, <2>3
<1> QED BY <1>1, <1>2

(* Only workers are outstanding. *)
LEMMA OutstandingInWorkers == Outstanding \in SUBSET Workers
BY DEF Outstanding

(* The invariant holds initially. *)
LEMMA InitIInv == Init => IInv
<1> SUFFICES ASSUME Init PROVE IInv
  OBVIOUS
<1>1. Outstanding = {}
  BY DEF Init, Outstanding
<1>2. RunningCountsOutstanding
  BY <1>1, FS_EmptySet DEF Init, RunningCountsOutstanding
<1>3. TypeOK
  BY WorkersFinite DEF Init, TypeOK, CallerStates, WorkerStates
<1>4. WorkersInv /\ RoundInv
  BY <1>1 DEF Init, WorkersInv, RoundInv, Open
<1> QED BY <1>2, <1>3, <1>4 DEF IInv
---------------------------------------------------------------------------
(* What the steps do to the workers that are outstanding: run() makes all  *)
(* of them so, counting itself out takes one worker off, and no other step *)
(* changes who is.                                                         *)

(* A notification of start_ changes nothing but whether workers sleep.     *)
LEMMA NotifyAllKeeps ==
  ASSUME TypeOK, NotifyAll, UNCHANGED <<generation, seen>>
  PROVE  /\ Outstanding' = Outstanding
         /\ worker' \in [Workers -> WorkerStates]
         /\ \A t \in Workers : \A s \in {"run", "count"} :
              worker'[t] = s <=> worker[t] = s
<1>1. worker' \in [Workers -> WorkerStates]
  BY DEF TypeOK, NotifyAll, WorkerStates
<1>2. \A t \in Workers : \A s \in {"run", "count"} :
        worker'[t] = s <=> worker[t] = s
  BY DEF NotifyAll
<1> QED BY <1>1, <1>2 DEF Outstanding

(* The caller's steps in `run` keep the invariant, *)
LEMMA RunIInv ==
  ASSUME IInv, RunPublish \/ Run
  PROVE  IInv'
<1> USE WorkersFinite, OutstandingInWorkers
    DEF IInv, TypeOK, CallerStates, RunningCountsOutstanding, WorkersInv,
        RoundInv, Open
<1>1. CASE RunPublish
  <2>1. /\ generation' = generation + 1 /\ task' = generation'
        /\ running' = Cardinality(Workers)
        /\ caller' = "notify"
        /\ UNCHANGED <<stop, worker, seen, job>>
    BY <1>1 DEF RunPublish
  <2>2. \A t \in Workers : seen[t] \in Nat /\ seen[t] <= generation
    OBVIOUS
  <2>3. \A t \in Workers : worker[t] \notin {"run", "count"}
    BY <1>1 DEF RunPublish, Outstanding
  <2>4. Outstanding' = Workers
    <3>1. \A t \in Workers : seen'[t] # generation'
      BY <2>1, <2>2
    <3> QED BY <3>1 DEF Outstanding
  <2>5. RunningCountsOutstanding'
    BY <2>1, <2>4
  <2>6. WorkersInv'
    BY <2>1, <2>2, <2>3
  <2>7. TypeOK' /\ RoundInv'
    BY <2>1
  <2> QED BY <2>5, <2>6, <2>7
<1>2. CASE RunNotify
  BY <1>2, NotifyAllKeeps DEF RunNotify
<1>3. CASE RunTask0 \/ RunBlock
  BY <1>3 DEF RunTask0, RunBlock, Outstanding
<1>4. CASE RunReturn
  <2>1. Outstanding = {} /\ Outstanding' = {}
    BY <1>4 DEF RunReturn, Outstanding
  <2> QED BY <1>4, <2>1, FS_EmptySet DEF RunReturn
<1> QED BY <1>1, <1>2, <1>3, <1>4 DEF Run

(* those of the workers do, *)
LEMMA LoopIInv ==
  ASSUME IInv, NEW t \in Workers, Loop(t)
  PROVE  IInv'
<1> USE WorkersFinite, OutstandingInWorkers
    DEF IInv, TypeOK, WorkerStates, RunningCountsOutstanding, WorkersInv,
        RoundInv, Open
<1>1. CASE WorkerBlock(t) \/ WorkerExit(t) \/ WorkerRun(t)
  <2>1. Outstanding' = Outstanding
    BY <1>1 DEF WorkerBlock, WorkerExit, WorkerRun, Outstanding
  <2>2. TypeOK' /\ WorkersInv'
    BY <1>1 DEF WorkerBlock, WorkerExit, WorkerRun
  <2> QED BY <1>1, <2>1, <2>2 DEF WorkerBlock, WorkerExit, WorkerRun
<1>2. CASE WorkerTake(t)
  <2>1. Outstanding' = Outstanding
    BY <1>2 DEF WorkerTake, Outstanding
  <2>2. t \in Outstanding
    BY <1>2 DEF WorkerTake, Outstanding
  <2>3. caller \in Open /\ task = generation
    BY <2>2
  <2>4. TypeOK' /\ WorkersInv'
    BY <1>2, <2>3 DEF WorkerTake
  <2> QED BY <1>2, <2>1, <2>4 DEF WorkerTake
<1>3. CASE WorkerCount(t)
  <2>1. worker' = [worker EXCEPT ![t] =
                     IF running' = 0 THEN "notify" ELSE "check"]
        /\ running' = running - 1
        /\ worker[t] = "count"
        /\ UNCHANGED <<task, generation, stop, caller, seen, job>>
    BY <1>3 DEF WorkerCount
  <2>2. t \in Outstanding /\ seen[t] = generation
    BY <2>1 DEF Outstanding
  <2>3. Outstanding' = Outstanding \ {t}
    BY <2>1, <2>2 DEF Outstanding
  <2>4. Cardinality(Outstanding \ {t}) = Cardinality(Outstanding) - 1
    BY <2>2, FS_RemoveElement
  <2>5. running \in Nat /\ running # 0
    BY <2>2
  <2>6. TypeOK' /\ WorkersInv'
    BY <2>1, <2>5
  <2> QED BY <2>1, <2>2, <2>3, <2>4, <2>6
<1>4. CASE WorkerNotify(t)
  <2>1. Outstanding' = Outstanding
    BY <1>4 DEF WorkerNotify, Outstanding
  <2>2. TypeOK' /\ WorkersInv'
    BY <1>4 DEF WorkerNotify, CallerStates
  <2> QED BY <1>4, <2>1, <2>2 DEF WorkerNotify
<1> QED BY <1>1, <1>2, <1>3, <1>4 DEF Loop

(* and those of the destructor and spurious wake-ups. *)
LEMMA DestroyIInv ==
  ASSUME IInv, DestroyStop \/ Destroy \/ SpuriousWake
  PROVE  IInv'
<1> USE DEF IInv, TypeOK, CallerStates, WorkerStates, RunningCountsOutstanding,
            WorkersInv, RoundInv, Open
<1>1. CASE DestroyStop \/ DestroyJoin
  BY <1>1 DEF DestroyStop, DestroyJoin, Outstanding
<1>2. CASE DestroyNotify
  BY <1>2, NotifyAllKeeps DEF DestroyNotify
<1>3. CASE SpuriousWake
  <2>1. Outstanding' = Outstanding
    BY <1>3 DEF SpuriousWake, Outstanding
  <2>2. TypeOK' /\ WorkersInv'
    BY <1>3 DEF SpuriousWake
  <2> QED BY <1>3, <2>1, <2>2 DEF SpuriousWake
<1> QED BY <1>1, <1>2, <1>3 DEF Destroy

(* Every step keeps it. *)
LEMMA NextIInv ==
  ASSUME IInv, [Next]_vars
  PROVE  IInv'
<1>1. CASE UNCHANGED vars
  BY <1>1 DEF vars, IInv, TypeOK, RunningCountsOutstanding, WorkersInv,
              RoundInv, Outstanding
<1> QED BY <1>1, RunIInv, LoopIInv, DestroyIInv DEF Next, Gone

(* The invariant holds in every reachable state. *)
LEMMA Inductive == Spec => []IInv
BY InitIInv, NextIInv, PTL DEF Spec
---------------------------------------------------------------------------
(* running_ stays between zero and the number of workers: it never wraps.  *)
THEOREM TypeCorrect == Spec => []TypeOK
<1>1. IInv => TypeOK
  BY DEF IInv
<1> QED BY <1>1, Inductive, PTL

(* running_ is at every moment the number of workers that still have to    *)
(* count themselves out of the generation.                                 *)
THEOREM RunningIsExact == Spec => []RunningCountsOutstanding
<1>1. IInv => RunningCountsOutstanding
  BY DEF IInv
<1> QED BY <1>1, Inductive, PTL

(* No worker runs a task after the run() that owns it has returned, nor    *)
(* the task of another run().                                              *)
THEOREM TaskStandsWhileItRuns == Spec => []TaskOutlivesWorkers
<1>1. IInv => TaskOutlivesWorkers
  <2> SUFFICES ASSUME IInv, NEW t \in Workers, worker[t] = "run"
               PROVE  /\ job[t] = generation
                      /\ task = job[t]
                      /\ caller \in Open
    BY DEF TaskOutlivesWorkers, Open
  <2>1. t \in Outstanding
    BY DEF Outstanding
  <2> QED BY <2>1 DEF IInv, WorkersInv, RoundInv
<1> QED BY <1>1, Inductive, PTL
---------------------------------------------------------------------------
(* The pool implements ForkJoin.                                           *)

(* The abstract phase, from the caller's state. *)
LEMMA PhaseOf ==
  ASSUME caller \in CallerStates
  PROVE  AbstractPhase = IF caller \in Open THEN "open"
                         ELSE IF caller = "idle" THEN "idle" ELSE "closed"
BY DEF AbstractPhase, CallerStates, Open

(* The same of the next state. *)
LEMMA PhaseOfNext ==
  ASSUME caller' \in CallerStates
  PROVE  AbstractPhase' = IF caller' \in Open THEN "open"
                          ELSE IF caller' = "idle" THEN "idle" ELSE "closed"
BY DEF AbstractPhase, CallerStates, Open

(* Who has run the task of the round in progress. *)
LEMMA DoneOf ==
  ASSUME caller \in CallerStates
  PROVE  AbstractDone =
           IF caller \notin Open THEN {}
           ELSE {t \in Workers : seen[t] = generation /\ worker[t] # "run"}
                \cup (IF caller \in {"wait", "waiting"} THEN {Caller} ELSE {})
BY PhaseOf DEF AbstractDone

(* The threads done with the task after a step. *)
LEMMA DoneOfNext ==
  ASSUME caller' \in CallerStates
  PROVE  AbstractDone' =
           IF caller' \notin Open THEN {}
           ELSE {t \in Workers : seen'[t] = generation' /\ worker'[t] # "run"}
                \cup (IF caller' \in {"wait", "waiting"} THEN {Caller} ELSE {})
BY PhaseOfNext DEF AbstractDone

(* A step of run(): it opens the round, takes the caller's part in it, or  *)
(* closes it.                                                              *)
LEMMA RunRefines ==
  ASSUME IInv, IInv', RunPublish \/ Run
  PROVE  [ForkJoinPool!Next]_ForkJoinPool!vars
<1> USE DEF Open, ForkJoinPool!vars
<1>0. caller \in CallerStates /\ caller' \in CallerStates
  BY DEF IInv, TypeOK
<1>1. CASE RunPublish
  <2>1. AbstractPhase = "idle" /\ AbstractPhase' = "open"
    BY <1>0, <1>1, PhaseOf, PhaseOfNext DEF RunPublish
  <2>2. \A t \in Workers : seen'[t] # generation'
    BY <1>1 DEF RunPublish, IInv, TypeOK, WorkersInv
  <2>3. AbstractDone = {} /\ AbstractDone' = {}
    BY <1>0, <1>1, <2>2, DoneOf, DoneOfNext DEF RunPublish
  <2> QED BY <2>1, <2>3 DEF ForkJoinPool!Next, ForkJoinPool!Open
<1>2. CASE RunNotify
  <2>1. AbstractPhase' = AbstractPhase
    BY <1>0, <1>2, PhaseOf, PhaseOfNext DEF RunNotify
  <2>2. \A t \in Workers : worker'[t] = "run" <=> worker[t] = "run"
    BY <1>2 DEF RunNotify, NotifyAll
  <2>3. AbstractDone' = AbstractDone
    BY <1>0, <1>2, <2>2, DoneOf, DoneOfNext DEF RunNotify
  <2> QED BY <2>1, <2>3
<1>3. CASE RunTask0
  <2>1. AbstractPhase = "open" /\ AbstractPhase' = "open"
    BY <1>0, <1>3, PhaseOf, PhaseOfNext DEF RunTask0
  <2>2. Caller \notin AbstractDone
    BY <1>0, <1>3, DoneOf, WorkersAssumption DEF RunTask0
  <2>3. AbstractDone' = AbstractDone \cup {Caller}
    BY <1>0, <1>3, DoneOf, DoneOfNext DEF RunTask0
  <2> QED BY <2>1, <2>2, <2>3 DEF ForkJoinPool!Next, ForkJoinPool!RunTask
<1>4. CASE RunBlock
  <2>1. AbstractPhase' = AbstractPhase
    BY <1>0, <1>4, PhaseOf, PhaseOfNext DEF RunBlock
  <2>2. AbstractDone' = AbstractDone
    BY <1>0, <1>4, DoneOf, DoneOfNext DEF RunBlock
  <2> QED BY <2>1, <2>2
<1>5. CASE RunReturn
  <2>1. AbstractPhase = "open" /\ AbstractPhase' = "idle"
    BY <1>0, <1>5, PhaseOf, PhaseOfNext DEF RunReturn
  <2>2. Outstanding = {}
    BY <1>5, WorkersFinite, OutstandingInWorkers
    DEF RunReturn, IInv, RunningCountsOutstanding
  <2>3. \A t \in Workers : seen[t] = generation /\ worker[t] # "run"
    BY <2>2 DEF Outstanding
  <2>4. AbstractDone = Workers \cup {Caller}
    BY <1>0, <1>5, <2>3, DoneOf DEF RunReturn
  <2>5. AbstractDone' = {}
    BY <1>0, <1>5, DoneOfNext DEF RunReturn
  <2> QED BY <2>1, <2>4, <2>5 DEF ForkJoinPool!Next, ForkJoinPool!Return
<1> QED BY <1>1, <1>2, <1>3, <1>4, <1>5 DEF Run

(* A step of a worker: running the task is its part in the round, and the  *)
(* steps around it do not show.                                            *)
LEMMA LoopRefines ==
  ASSUME IInv, IInv', NEW t \in Workers, Loop(t)
  PROVE  [ForkJoinPool!Next]_ForkJoinPool!vars
<1> USE DEF Open, ForkJoinPool!vars
<1>0. /\ caller \in CallerStates /\ caller' \in CallerStates
      /\ worker \in [Workers -> WorkerStates] /\ seen \in [Workers -> Nat]
  BY DEF IInv, TypeOK
<1>1. CASE WorkerRun(t)
  <2>1. t \in Outstanding /\ seen[t] = generation
    BY <1>1 DEF WorkerRun, Outstanding, IInv, WorkersInv
  <2>2. AbstractPhase = "open" /\ AbstractPhase' = "open"
    BY <1>0, <1>1, <2>1, PhaseOf, PhaseOfNext
    DEF WorkerRun, IInv, RoundInv
  <2>3. t \notin AbstractDone
    BY <1>0, <1>1, DoneOf, WorkersAssumption DEF WorkerRun
  <2>4. AbstractDone' = AbstractDone \cup {t}
    <3>1. caller \in Open /\ caller' = caller
      BY <1>1, <2>1 DEF WorkerRun, IInv, RoundInv
    <3>2. {u \in Workers : seen'[u] = generation' /\ worker'[u] # "run"}
            = {u \in Workers : seen[u] = generation /\ worker[u] # "run"}
              \cup {t}
      BY <1>0, <1>1, <2>1 DEF WorkerRun
    <3> QED BY <1>0, <3>1, <3>2, DoneOf, DoneOfNext
  <2> QED BY <2>2, <2>3, <2>4 DEF ForkJoinPool!Next, ForkJoinPool!RunTask
<1>2. ASSUME \/ caller' = caller
             \/ caller = "waiting" /\ caller' = "wait",
             \A u \in Workers :
               (seen'[u] = generation' /\ worker'[u] # "run")
                 <=> (seen[u] = generation /\ worker[u] # "run")
      PROVE  UNCHANGED <<AbstractPhase, AbstractDone>>
  <2>1. AbstractPhase' = AbstractPhase
    BY <1>0, <1>2, PhaseOf, PhaseOfNext
  <2>2. AbstractDone' = AbstractDone
    BY <1>0, <1>2, DoneOf, DoneOfNext
  <2> QED BY <2>1, <2>2
<1>3. CASE WorkerBlock(t) \/ WorkerExit(t) \/ WorkerCount(t) \/ WorkerNotify(t)
  BY <1>0, <1>2, <1>3
  DEF WorkerBlock, WorkerExit, WorkerCount, WorkerNotify, WorkerStates
<1>4. CASE WorkerTake(t)
  BY <1>0, <1>2, <1>4 DEF WorkerTake, WorkerStates
<1> QED BY <1>1, <1>3, <1>4 DEF Loop

(* A step of the destructor, or a wake-up nobody asked for. *)
LEMMA DestroyRefines ==
  ASSUME IInv, IInv', DestroyStop \/ Destroy \/ SpuriousWake
  PROVE  [ForkJoinPool!Next]_ForkJoinPool!vars
<1> USE DEF Open, ForkJoinPool!vars
<1>0. /\ caller \in CallerStates /\ caller' \in CallerStates
      /\ worker \in [Workers -> WorkerStates]
  BY DEF IInv, TypeOK
<1>1. CASE DestroyStop
  <2>1. AbstractPhase = "idle" /\ AbstractPhase' = "closed"
    BY <1>0, <1>1, PhaseOf, PhaseOfNext DEF DestroyStop
  <2>2. AbstractDone = {} /\ AbstractDone' = {}
    BY <1>0, <1>1, DoneOf, DoneOfNext DEF DestroyStop
  <2> QED BY <2>1, <2>2 DEF ForkJoinPool!Next, ForkJoinPool!Close
<1>2. CASE Destroy
  <2>1. AbstractPhase = "closed" /\ AbstractPhase' = "closed"
    BY <1>0, <1>2, PhaseOf, PhaseOfNext DEF Destroy, DestroyNotify, DestroyJoin
  <2>2. AbstractDone = {} /\ AbstractDone' = {}
    BY <1>0, <1>2, DoneOf, DoneOfNext DEF Destroy, DestroyNotify, DestroyJoin
  <2> QED BY <2>1, <2>2
<1>3. CASE SpuriousWake
  <2>1. /\ \/ caller' = caller
           \/ caller = "waiting" /\ caller' = "wait"
        /\ UNCHANGED <<generation, seen>>
        /\ \A u \in Workers : worker'[u] = "run" <=> worker[u] = "run"
    BY <1>0, <1>3 DEF SpuriousWake
  <2>2. AbstractPhase' = AbstractPhase
    BY <1>0, <2>1, PhaseOf, PhaseOfNext
  <2>3. AbstractDone' = AbstractDone
    BY <1>0, <2>1, DoneOf, DoneOfNext
  <2> QED BY <2>2, <2>3
<1> QED BY <1>1, <1>2, <1>3

(* A step of the pool is a step of the fork and join or none. *)
LEMMA NextRefines ==
  ASSUME IInv, IInv', [Next]_vars
  PROVE  [ForkJoinPool!Next]_ForkJoinPool!vars
<1>1. CASE UNCHANGED vars
  <2>1. AbstractPhase' = AbstractPhase
    BY <1>1 DEF vars, AbstractPhase
  <2>2. AbstractDone' = AbstractDone
    BY <1>1, <2>1 DEF vars, AbstractDone
  <2> QED BY <2>1, <2>2 DEF ForkJoinPool!vars
<1> QED BY <1>1, RunRefines, LoopRefines, DestroyRefines DEF Next, Gone

(* Every thread runs each task at most once, run() returns only when all   *)
(* have run it, and no two rounds overlap: every behaviour of the pool,    *)
(* its fairness left aside, is one of ForkJoin.                            *)
THEOREM PoolIsForkJoin ==
  Spec => ForkJoinPool!Init /\ [][ForkJoinPool!Next]_ForkJoinPool!vars
<1>1. Init => ForkJoinPool!Init
  BY DEF Init, ForkJoinPool!Init, AbstractPhase, AbstractDone
<1>2. IInv /\ IInv' /\ [Next]_vars => [ForkJoinPool!Next]_ForkJoinPool!vars
  BY NextRefines
<1> QED BY <1>1, <1>2, Inductive, PTL DEF Spec
===========================================================================
