---------------------------- MODULE WorkerPool ----------------------------
(***************************************************************************)
(* src/src/worker_pool.cc: the threads that run one task at a time.  The   *)
(* caller of run() is thread 0, the others sleep between tasks.            *)
(*                                                                         *)
(* A step is a critical section of mutex_, a run of the task, or a         *)
(* notification.  Waiters of start_ are "asleep", the waiter of done_ is   *)
(* "waiting"; notified, they evaluate their predicate again.               *)
(***************************************************************************)
EXTENDS Integers, FiniteSets

CONSTANTS
  Workers,   (* the threads of the pool, all but the caller                *)
  MaxRuns,   (* BOUND: calls of run() in the life of the pool              *)
  Caller     (* the thread that calls run()                                *)

ASSUME WorkersAssumption == IsFiniteSet(Workers) /\ Caller \notin Workers
ASSUME MaxRunsAssumption == MaxRuns \in Nat

VARIABLES
  (* under mutex_ *)
  task,            (* task_: the number of the call of run() whose task it *)
                   (* points to, 0 is nullptr                              *)
  running, generation, stop,
  caller,          (* the control state of the calling thread              *)
  worker,          (* loop(t): the control state of each worker,           *)
  seen, job        (* and its locals                                       *)

vars == <<task, running, generation, stop, caller, worker, seen, job>>

Init ==
  /\ task = 0 /\ running = 0 /\ generation = 0 /\ stop = FALSE
  /\ caller = "idle"
  /\ worker = [t \in Workers |-> "check"]
  /\ seen   = [t \in Workers |-> 0]
  /\ job    = [t \in Workers |-> 0]

NotifyAll ==
  worker' = [t \in Workers |-> IF worker[t] = "asleep" THEN "check" ELSE worker[t]]

---------------------------------------------------------------------------
(* run().  The task lives on the caller's stack: it is gone when run()     *)
(* returns, and generation + 1 names the next one.                         *)

(* Mutant: the calling thread is counted too. *)
RunPublish_CountsCaller ==
  /\ caller = "idle"
  /\ generation < MaxRuns
  /\ task' = generation + 1
  /\ running' = Cardinality(Workers) + 1
  /\ generation' = generation + 1
  /\ caller' = "notify"
  /\ UNCHANGED <<stop, worker, seen, job>>

RunPublish ==
  /\ caller = "idle"
  /\ generation < MaxRuns
  /\ task' = generation + 1
  /\ running' = Cardinality(Workers)
  /\ generation' = generation + 1
  /\ caller' = "notify"
  /\ UNCHANGED <<stop, worker, seen, job>>

RunNotify ==
  /\ caller = "notify"
  /\ NotifyAll
  /\ caller' = "task"
  /\ UNCHANGED <<task, running, generation, stop, seen, job>>

RunTask0 ==
  /\ caller = "task"
  /\ caller' = "wait"
  /\ UNCHANGED <<task, running, generation, stop, worker, seen, job>>

RunBlock ==
  /\ caller = "wait"
  /\ running # 0
  /\ caller' = "waiting"
  /\ UNCHANGED <<task, running, generation, stop, worker, seen, job>>

(* Mutant: run() does not wait for the workers. *)
RunReturn_Early ==
  /\ caller = "wait"
  /\ task' = 0
  /\ caller' = "idle"
  /\ UNCHANGED <<running, generation, stop, worker, seen, job>>

RunReturn ==
  /\ caller = "wait"
  /\ running = 0
  /\ task' = 0
  /\ caller' = "idle"
  /\ UNCHANGED <<running, generation, stop, worker, seen, job>>

---------------------------------------------------------------------------
(* loop(t).                                                                *)

WorkerBlock(t) ==
  /\ worker[t] = "check"
  /\ ~stop /\ generation = seen[t]
  /\ worker' = [worker EXCEPT ![t] = "asleep"]
  /\ UNCHANGED <<task, running, generation, stop, caller, seen, job>>

WorkerExit(t) ==
  /\ worker[t] = "check"
  /\ stop
  /\ worker' = [worker EXCEPT ![t] = "exited"]
  /\ UNCHANGED <<task, running, generation, stop, caller, seen, job>>

(* Mutant: a worker that wakes takes the task it has already run. *)
WorkerTake_Again(t) ==
  /\ worker[t] = "check"
  /\ ~stop /\ generation # 0
  /\ seen' = [seen EXCEPT ![t] = generation]
  /\ job'  = [job EXCEPT ![t] = task]
  /\ worker' = [worker EXCEPT ![t] = "run"]
  /\ UNCHANGED <<task, running, generation, stop, caller>>

WorkerTake(t) ==
  /\ worker[t] = "check"
  /\ ~stop /\ generation # seen[t]
  /\ seen' = [seen EXCEPT ![t] = generation]
  /\ job'  = [job EXCEPT ![t] = task]
  /\ worker' = [worker EXCEPT ![t] = "run"]
  /\ UNCHANGED <<task, running, generation, stop, caller>>

WorkerRun(t) ==
  /\ worker[t] = "run"
  /\ worker' = [worker EXCEPT ![t] = "count"]
  /\ UNCHANGED <<task, running, generation, stop, caller, seen, job>>

(* Mutant: the last worker notifies nobody. *)
WorkerCount_NoNotify(t) ==
  /\ worker[t] = "count"
  /\ running' = running - 1
  /\ worker' = [worker EXCEPT ![t] = "check"]
  /\ UNCHANGED <<task, generation, stop, caller, seen, job>>

WorkerCount(t) ==
  /\ worker[t] = "count"
  /\ running' = running - 1
  /\ worker' = [worker EXCEPT ![t] = IF running' = 0 THEN "notify" ELSE "check"]
  /\ UNCHANGED <<task, generation, stop, caller, seen, job>>

(* done_.notify_one(), after mutex_ is released: by then run() may have    *)
(* returned and even be waiting in its next call.                          *)
WorkerNotify(t) ==
  /\ worker[t] = "notify"
  /\ caller' = IF caller = "waiting" THEN "wait" ELSE caller
  /\ worker' = [worker EXCEPT ![t] = "check"]
  /\ UNCHANGED <<task, running, generation, stop, seen, job>>

---------------------------------------------------------------------------
(* ~WorkerPool().                                                          *)

DestroyStop ==
  /\ caller = "idle"
  /\ stop' = TRUE
  /\ caller' = "stopping"
  /\ UNCHANGED <<task, running, generation, worker, seen, job>>

(* Mutant: the sleeping workers are not told of stop_. *)
DestroyNotify_Missing ==
  /\ caller = "stopping"
  /\ caller' = "joining"
  /\ UNCHANGED <<task, running, generation, stop, worker, seen, job>>

DestroyNotify ==
  /\ caller = "stopping"
  /\ NotifyAll
  /\ caller' = "joining"
  /\ UNCHANGED <<task, running, generation, stop, seen, job>>

DestroyJoin ==
  /\ caller = "joining"
  /\ \A t \in Workers : worker[t] = "exited"
  /\ caller' = "destroyed"
  /\ UNCHANGED <<task, running, generation, stop, worker, seen, job>>

---------------------------------------------------------------------------
(* A condition variable may wake a waiter without a notification. *)
SpuriousWake ==
  \/ /\ caller = "waiting"
     /\ caller' = "wait"
     /\ UNCHANGED <<task, running, generation, stop, worker, seen, job>>
  \/ \E t \in Workers :
       /\ worker[t] = "asleep"
       /\ worker' = [worker EXCEPT ![t] = "check"]
       /\ UNCHANGED <<task, running, generation, stop, caller, seen, job>>

Run == RunNotify \/ RunTask0 \/ RunBlock \/ RunReturn

Destroy == DestroyNotify \/ DestroyJoin

Loop(t) ==
  \/ WorkerBlock(t) \/ WorkerExit(t) \/ WorkerTake(t)
  \/ WorkerRun(t) \/ WorkerCount(t) \/ WorkerNotify(t)

Gone == caller = "destroyed" /\ UNCHANGED vars

Next ==
  \/ RunPublish \/ Run
  \/ DestroyStop \/ Destroy
  \/ \E t \in Workers : Loop(t)
  \/ SpuriousWake
  \/ Gone

Spec == Init /\ [][Next]_vars

(* Threads are scheduled and the tasks return; nobody has to call run(). *)
Fairness ==
  /\ WF_vars(Run)
  /\ WF_vars(Destroy)
  /\ \A t \in Workers : WF_vars(Loop(t))

FairSpec == Spec /\ Fairness

---------------------------------------------------------------------------
(* Properties.                                                             *)

CallerStates == {"idle", "notify", "task", "wait", "waiting", "stopping",
                 "joining", "destroyed"}

WorkerStates == {"check", "asleep", "run", "count", "notify", "exited"}

(* The types of the pool's fields and of the threads' states: running_, an  *)
(* unsigned count, stays within the number of workers.                     *)
TypeOK ==
  /\ task \in Nat /\ generation \in Nat /\ stop \in BOOLEAN
  /\ running \in 0 .. Cardinality(Workers)
  /\ caller \in CallerStates
  /\ worker \in [Workers -> WorkerStates]
  /\ seen \in [Workers -> Nat]
  /\ job \in [Workers -> Nat]

(* The workers that have not yet counted themselves out of the generation. *)
Outstanding ==
  {t \in Workers : seen[t] # generation \/ worker[t] \in {"run", "count"}}

(* running_ counts the workers that still have to take the task, run it or *)
(* count themselves out, so that it never wraps below zero and reaches     *)
(* zero once per generation.                                               *)
RunningCountsOutstanding == running = Cardinality(Outstanding)

(* A worker runs the task of the run() in progress, never the null pointer *)
(* or the task of a run() that has returned, which no longer exists.       *)
TaskOutlivesWorkers ==
  \A t \in Workers : worker[t] = "run" =>
    /\ job[t] = generation
    /\ task = job[t]
    /\ caller \in {"notify", "task", "wait", "waiting"}

(* The destructor joins every worker. *)
DestroyReturns == caller = "stopping" ~> caller = "destroyed"

AbstractPhase ==
  CASE caller \in {"notify", "task", "wait", "waiting"}    -> "open"
    [] caller = "idle"                                     -> "idle"
    [] caller \in {"stopping", "joining", "destroyed"}     -> "closed"

AbstractDone ==
  IF AbstractPhase # "open" THEN {}
  ELSE {t \in Workers : seen[t] = generation /\ worker[t] # "run"}
       \cup (IF caller \in {"wait", "waiting"} THEN {Caller} ELSE {})

ForkJoinPool == INSTANCE ForkJoin WITH
  Threads <- Workers \cup {Caller},
  phase   <- AbstractPhase,
  done    <- AbstractDone

(* Every thread runs each task exactly once and run() returns when all     *)
(* have: the pool behaves as module ForkJoin, fairness included.           *)
ImplementsForkJoin == ForkJoinPool!Spec
===========================================================================
