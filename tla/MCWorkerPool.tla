--------------------------- MODULE MCWorkerPool ---------------------------
(* Instances of WorkerPool for TLC. *)
EXTENDS WorkerPool

CONSTANTS w1, w2, w3

MCWorkers == {w1, w2, w3}
===========================================================================
