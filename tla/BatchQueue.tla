----------------------------- MODULE BatchQueue ------------------------------
(***************************************************************************)
(* What the executor promises about dispatched batches                     *)
(* (src/executor/executor.h): execute_batch refuses a batch or queues it,  *)
(* queued batches are executed in FIFO order, and each has one completion. *)
(* Engine uses the worker in this form; WorkerThread implements it.        *)
(***************************************************************************)
EXTENDS Naturals, Sequences

CONSTANT Batches       \* batches are numbered 1 .. Batches in order of dispatch

VARIABLES dispatched,  \* execute_batch calls that have returned or queued
          pending,     \* the batches accepted and not yet completed
          completed    \* the batches completed, in order

vars == <<dispatched, pending, completed>>

Init == dispatched = 0 /\ pending = <<>> /\ completed = <<>>

Accept == /\ dispatched < Batches
          /\ dispatched' = dispatched + 1
          /\ pending' = Append(pending, dispatched + 1)
          /\ UNCHANGED completed

Refuse == /\ dispatched < Batches
          /\ dispatched' = dispatched + 1
          /\ UNCHANGED <<pending, completed>>

Complete == /\ pending # <<>>
            /\ pending' = Tail(pending)
            /\ completed' = Append(completed, Head(pending))
            /\ UNCHANGED dispatched

Next == Accept \/ Refuse \/ Complete

Spec == Init /\ [][Next]_vars
==============================================================================
