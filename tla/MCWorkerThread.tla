---------------------------- MODULE MCWorkerThread ---------------------------
(* Instances of WorkerThread for TLC. *)
EXTENDS WorkerThread
==============================================================================
