------------------------- MODULE WorkerThreadProofs --------------------------
(***************************************************************************)
(* Proofs about WorkerThread, for any number of batches and for a shutdown *)
(* at any time: its invariants, and that it implements BatchQueue.         *)
(***************************************************************************)
EXTENDS WorkerThread, SequenceTheorems, TLAPS

(* The state after Worker::init satisfies the invariant. *)
LEMMA InitThreadInv == Init => ThreadInv
<1> SUFFICES ASSUME Init PROVE ThreadInv
  OBVIOUS
<1>1. <<>> \in Seq(1 .. Batches)
  BY EmptySeq
<1>2. failed \in SUBSET (1 .. Batches) /\ refused \in SUBSET (1 .. Batches)
  BY DEF Init
<1>3. dispatched \in 0 .. Batches
  BY ThreadAssumption DEF Init
<1>4. TypeOK
  BY <1>1, <1>2, <1>3 DEF Init, TypeOK
<1> QED
  BY <1>4 DEF Init, ThreadInv, NoBatchLeftAsleep, ExitLeavesNothing

(* Every step of the three threads keeps the invariant. *)
LEMMA NextThreadInv == ThreadInv /\ [Next]_vars => ThreadInv'
<1> SUFFICES ASSUME ThreadInv, [Next]_vars PROVE ThreadInv'
  OBVIOUS
<1> USE ThreadAssumption DEF ThreadInv, TypeOK, NoBatchLeftAsleep, ExitLeavesNothing
<1>1. CASE EnqueueLock
  BY <1>1 DEF EnqueueLock, Lock
<1>2. CASE EnqueuePush
  <2>1. dispatched + 1 \in 1 .. Batches
    BY <1>2 DEF EnqueuePush
  <2>2. queue' \in Seq(1 .. Batches)
    <3>1. queue' = Append(queue, dispatched + 1) \/ queue' = queue
      BY <1>2 DEF EnqueuePush
    <3>2. Append(queue, dispatched + 1) \in Seq(1 .. Batches)
      BY <2>1, AppendProperties
    <3> QED
      BY <3>1, <3>2
  <2>3. refused' \in SUBSET (1 .. Batches)
    BY <1>2, <2>1 DEF EnqueuePush
  <2>4. dispatched' \in 0 .. Batches
    BY <1>2, <2>1 DEF EnqueuePush
  <2> QED
    BY <1>2, <2>2, <2>3, <2>4 DEF EnqueuePush, Unlock
<1>3. CASE EnqueueNotify
  BY <1>3 DEF EnqueueNotify
<1>4. CASE WorkerLock
  BY <1>4 DEF WorkerLock, Lock
<1>5. CASE WorkerTest
  BY <1>5 DEF WorkerTest
<1>6. CASE WorkerBlock
  BY <1>6 DEF WorkerBlock, Unlock
<1>7. CASE WorkerTake
  BY <1>7 DEF WorkerTake, Unlock
<1>8. CASE WorkerProcess
  <2>1. /\ Head(local) \in 1 .. Batches /\ local' \in Seq(1 .. Batches)
        /\ completed' \in Seq(1 .. Batches)
    BY <1>8 DEF WorkerProcess
  <2>2. failed' \in SUBSET (1 .. Batches)
    BY <1>8, <2>1 DEF WorkerProcess
  <2> QED
    BY <1>8, <2>1, <2>2 DEF WorkerProcess
<1>9. CASE WorkerAgain
  BY <1>9 DEF WorkerAgain
<1>10. CASE WorkerWakes
  BY <1>10 DEF WorkerWakes
<1>11. CASE ShutdownStore
  BY <1>11 DEF ShutdownStore
<1>12. CASE ShutdownNotify
  BY <1>12 DEF ShutdownNotify
<1>13. CASE ShutdownJoin
  BY <1>13 DEF ShutdownJoin
<1>14. CASE UNCHANGED vars
  BY <1>14 DEF vars
<1> QED
  BY <1>1, <1>2, <1>3, <1>4, <1>5, <1>6, <1>7, <1>8, <1>9, <1>10, <1>11, <1>12,
     <1>13, <1>14 DEF Next, SchedulerThread, WorkerSteps, MainThread

(* ThreadInv holds in every reachable state. *)
THEOREM ThreadInvariant == Spec => []ThreadInv
  BY InitThreadInv, NextThreadInv, PTL DEF Spec

(* No batch waits in the queue of a worker that nobody is about to wake:   *)
(* enqueue_execute_batch and cv_.wait never miss each other.               *)
THEOREM NoBatchLeftAsleepTheorem == Spec => []NoBatchLeftAsleep
<1>1. ThreadInv => NoBatchLeftAsleep
  BY DEF ThreadInv
<1> QED
  BY <1>1, ThreadInvariant, PTL

(* worker_loop ends with both queues empty, whenever shutdown comes.       *)
THEOREM ExitLeavesNothingTheorem == Spec => []ExitLeavesNothing
<1>1. ThreadInv => ExitLeavesNothing
  BY DEF ThreadInv
<1> QED
  BY <1>1, ThreadInvariant, PTL

-----------------------------------------------------------------------------
(* Every step of the threads is a step of the FIFO queue of                *)
(* BatchQueue or leaves it alone.                                          *)
LEMMA StepImplements == ThreadInv /\ [Next]_vars => [Executor!Next]_(Executor!vars)
<1> SUFFICES ASSUME ThreadInv, [Next]_vars
             PROVE  [Executor!Next]_(Executor!vars)
  OBVIOUS
<1> USE DEF Executor!vars
<1>0. queue \in Seq(1 .. Batches) /\ local \in Seq(1 .. Batches) /\ dispatched \in Nat
  BY ThreadAssumption DEF ThreadInv, TypeOK
<1>1. CASE EnqueuePush
  <2>1. CASE running
    <3>1. local' \o queue' = Append(local \o queue, dispatched + 1)
      BY <1>0, <1>1, <2>1, SMTT(30) DEF EnqueuePush
    <3>2. dispatched < Batches
      BY <1>1 DEF EnqueuePush, ThreadInv
    <3> QED
      BY <1>1, <2>1, <3>1, <3>2 DEF EnqueuePush, Executor!Next, Executor!Accept
  <2>2. CASE ~running
    <3>1. dispatched < Batches
      BY <1>1 DEF EnqueuePush, ThreadInv
    <3> QED
      BY <1>1, <2>2, <3>1 DEF EnqueuePush, Executor!Next, Executor!Refuse
  <2> QED
    BY <2>1, <2>2
<1>2. CASE WorkerTake
  <2>1. local = <<>>
    BY <1>2 DEF WorkerTake, ThreadInv
  <2>2. local' \o queue' = local \o queue
    BY <1>0, <1>2, <2>1 DEF WorkerTake
  <2> QED
    BY <1>2, <2>2 DEF WorkerTake
<1>3. CASE WorkerProcess
  <2>1. local # <<>> /\ local' = Tail(local) /\ queue' = queue
    BY <1>3 DEF WorkerProcess
  <2>2. /\ local \o queue # <<>>
        /\ Head(local \o queue) = Head(local)
        /\ Tail(local \o queue) = Tail(local) \o queue
    BY <1>0, <2>1
  <2> QED
    BY <1>3, <2>1, <2>2 DEF WorkerProcess, Executor!Next, Executor!Complete
<1>4. CASE UNCHANGED <<queue, local, dispatched, completed>>
  BY <1>4
<1> QED
  BY <1>1, <1>2, <1>3, <1>4 DEF Next, SchedulerThread, WorkerSteps, MainThread,
     EnqueueLock, EnqueueNotify, WorkerLock, WorkerTest, WorkerBlock, WorkerAgain,
     WorkerWakes, ShutdownStore, ShutdownNotify, ShutdownJoin, vars

(* The mutex, the condition variable and the two queues of the worker make *)
(* the FIFO executor that EngineCore relies on: a batch that               *)
(* execute_batch accepted is neither lost, doubled nor overtaken.          *)
THEOREM ImplementsExecutorTheorem == Spec => ImplementsExecutor
<1>1. Init => Executor!Init
  BY DEF Init, Executor!Init
<1> QED
  BY <1>1, StepImplements, ThreadInvariant, PTL DEF Spec, ImplementsExecutor, Executor!Spec
==============================================================================
