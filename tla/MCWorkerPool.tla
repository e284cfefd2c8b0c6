---------------------------- MODULE MCWorkerPool ----------------------------
(***************************************************************************)
(* Small instances of WorkerPool for TLC: two workers and two submitters   *)
(* with three tasks, so that the buffer is full, empty and closed with a   *)
(* task in it while each of them is at each of its steps.                  *)
(***************************************************************************)
EXTENDS WorkerPool
=============================================================================
