----------------------------- MODULE ForkJoin -----------------------------
(***************************************************************************)
(* What WorkerPool::run promises (src/src/worker_pool.h): "Runs task(t)    *)
(* for every t in [0, size()) ... and returns when all have returned."     *)
(* One round at a time, every thread takes part in it exactly once, and    *)
(* the pool is taken down between rounds.                                  *)
(***************************************************************************)
EXTENDS Naturals

CONSTANT Threads

VARIABLES
  phase,   (* "idle", "open" while a round runs, "closed"                  *)
  done     (* the threads that have run the round's task                   *)

vars == <<phase, done>>

Init == phase = "idle" /\ done = {}

Open ==
  /\ phase = "idle"
  /\ phase' = "open"
  /\ UNCHANGED done

RunTask(t) ==
  /\ phase = "open"
  /\ t \notin done
  /\ done' = done \cup {t}
  /\ UNCHANGED phase

Return ==
  /\ phase = "open"
  /\ done = Threads
  /\ phase' = "idle"
  /\ done' = {}

Close ==
  /\ phase = "idle"
  /\ phase' = "closed"
  /\ UNCHANGED done

Next == Open \/ (\E t \in Threads : RunTask(t)) \/ Return \/ Close

(* Every round comes to its end. *)
Fairness ==
  /\ \A t \in Threads : WF_vars(RunTask(t))
  /\ WF_vars(Return)

Spec == Init /\ [][Next]_vars /\ Fairness
===========================================================================
