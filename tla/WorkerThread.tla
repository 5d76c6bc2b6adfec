---------------------------- MODULE WorkerThread -----------------------------
(***************************************************************************)
(* The worker thread, its mutex and its condition variable                 *)
(* (src/worker/worker.cpp: enqueue_execute_batch, worker_loop,             *)
(* process_command, resolve, shutdown), one step per access to what the    *)
(* threads share.  Batches are numbers; Worker says what running one does. *)
(*                                                                         *)
(* The scheduler thread dispatches; main calls shutdown, after the         *)
(* scheduler has collected everything when Drained holds (main.cpp does),  *)
(* at any time otherwise (the destructor).                                 *)
(***************************************************************************)
EXTENDS Naturals, Sequences, FiniteSets

CONSTANTS Batches,     \* bound: batches dispatched
          Drained      \* whether shutdown waits for the scheduler to stop

ASSUME ThreadAssumption == Batches \in Nat /\ Drained \in BOOLEAN

VARIABLES running,     \* running_ (atomic)
          mutex,       \* the thread that holds queue_mutex_, or "none"
          asleep,      \* whether the worker sleeps in cv_.wait
          queue,       \* queue_
          local,       \* local_queue of worker_loop
          completed,   \* batches resolved, in order
          failed,      \* those of them resolved with ServerShuttingDown
          dispatched,  \* number of batches dispatched
          refused,     \* those refused
          sched,       \* where the scheduler thread is
          worker,      \* where the worker thread is
          main         \* where main is

vars == <<running, mutex, asleep, queue, local, completed, failed, dispatched,
          refused, sched, worker, main>>

(* The state after Worker::init. *)
Init == /\ running = TRUE /\ mutex = "none" /\ asleep = FALSE
        /\ queue = <<>> /\ local = <<>>
        /\ completed = <<>> /\ failed = {}
        /\ dispatched = 0 /\ refused = {}
        /\ sched = "ready" /\ worker = "lock" /\ main = "serve"

Lock(thread) == mutex = "none" /\ mutex' = thread
Unlock == mutex' = "none"

-----------------------------------------------------------------------------
(* enqueue_execute_batch on the scheduler thread. *)

EnqueueLock ==
  /\ sched = "ready" /\ dispatched < Batches
  /\ Lock("sched")
  /\ sched' = "locked"
  /\ UNCHANGED <<running, asleep, queue, local, completed, failed, dispatched,
                 refused, worker, main>>

EnqueuePush ==
  /\ sched = "locked"
  /\ dispatched' = dispatched + 1
  /\ IF running
     THEN queue' = Append(queue, dispatched + 1) /\ refused' = refused
          /\ sched' = "notify"
     ELSE refused' = refused \union {dispatched + 1} /\ queue' = queue
          /\ sched' = "ready"
  /\ Unlock
  /\ UNCHANGED <<running, asleep, local, completed, failed, worker, main>>

(* Faulty variant: the worker is not notified. *)
EnqueueForgetsNotify ==
  /\ sched = "notify"
  /\ sched' = "ready"
  /\ UNCHANGED <<running, mutex, asleep, queue, local, completed, failed,
                 dispatched, refused, worker, main>>

EnqueueNotify ==
  /\ sched = "notify"
  /\ asleep' = FALSE
  /\ sched' = "ready"
  /\ UNCHANGED <<running, mutex, queue, local, completed, failed, dispatched,
                 refused, worker, main>>

-----------------------------------------------------------------------------
(* worker_loop. *)

(* The lock is taken before the first test of the predicate and again when *)
(* cv_.wait wakes up.                                                      *)
WorkerLock ==
  /\ worker \in {"lock", "waiting"} /\ ~asleep
  /\ Lock("worker")
  /\ worker' = "test"
  /\ UNCHANGED <<running, asleep, queue, local, completed, failed, dispatched,
                 refused, sched, main>>

(* The predicate of cv_.wait. *)
WorkerTest ==
  /\ worker = "test"
  /\ worker' = IF queue # <<>> \/ ~running THEN "take" ELSE "block"
  /\ UNCHANGED <<running, mutex, asleep, queue, local, completed, failed,
                 dispatched, refused, sched, main>>

(* The wait itself: the mutex is given up and the thread sleeps in one step. *)
WorkerBlock ==
  /\ worker = "block"
  /\ asleep' = TRUE
  /\ Unlock
  /\ worker' = "waiting"
  /\ UNCHANGED <<running, queue, local, completed, failed, dispatched, refused,
                 sched, main>>

(* A spurious wakeup of cv_.wait, which may happen and need not. *)
WorkerWakes ==
  /\ worker = "waiting" /\ asleep
  /\ asleep' = FALSE
  /\ UNCHANGED <<running, mutex, queue, local, completed, failed, dispatched,
                 refused, sched, worker, main>>

(* Faulty variants: the loop ends with batches in the queue; the queue     *)
(* that was moved away is not cleared.                                     *)
WorkerTakeEndsEarly ==
  /\ worker = "take"
  /\ IF ~running
     THEN worker' = "exited" /\ UNCHANGED <<queue, local>>
     ELSE worker' = "process" /\ local' = queue /\ queue' = <<>>
  /\ Unlock
  /\ UNCHANGED <<running, asleep, completed, failed, dispatched, refused, sched,
                 main>>

WorkerTakeCopies ==
  /\ worker = "take"
  /\ IF ~running /\ queue = <<>>
     THEN worker' = "exited" /\ UNCHANGED <<queue, local>>
     ELSE worker' = "process" /\ local' = queue /\ UNCHANGED queue
  /\ Unlock
  /\ UNCHANGED <<running, asleep, completed, failed, dispatched, refused, sched,
                 main>>

WorkerTake ==
  /\ worker = "take"
  /\ IF ~running /\ queue = <<>>
     THEN worker' = "exited" /\ UNCHANGED <<queue, local>>
     ELSE worker' = "process" /\ local' = queue /\ queue' = <<>>
  /\ Unlock
  /\ UNCHANGED <<running, asleep, completed, failed, dispatched, refused, sched,
                 main>>

(* process_command and resolve for the next batch of local_queue. *)
WorkerProcess ==
  /\ worker = "process" /\ local # <<>>
  /\ completed' = Append(completed, Head(local))
  /\ failed' = IF running THEN failed ELSE failed \union {Head(local)}
  /\ local' = Tail(local)
  /\ UNCHANGED <<running, mutex, asleep, queue, dispatched, refused, sched,
                 worker, main>>

WorkerAgain ==
  /\ worker = "process" /\ local = <<>>
  /\ worker' = "lock"
  /\ UNCHANGED <<running, mutex, asleep, queue, local, completed, failed,
                 dispatched, refused, sched, main>>

-----------------------------------------------------------------------------
(* shutdown on the main thread, which does not take the mutex. *)

Collected == /\ sched = "ready" /\ dispatched = Batches
             /\ Len(completed) + Cardinality(refused) = Batches

ShutdownStore ==
  /\ main = "serve" /\ (Drained => Collected)
  /\ running' = FALSE
  /\ main' = "notify"
  /\ UNCHANGED <<mutex, asleep, queue, local, completed, failed, dispatched,
                 refused, sched, worker>>

ShutdownNotify ==
  /\ main = "notify"
  /\ asleep' = FALSE
  /\ main' = "join"
  /\ UNCHANGED <<running, mutex, queue, local, completed, failed, dispatched,
                 refused, sched, worker>>

ShutdownJoin ==
  /\ main = "join" /\ worker = "exited"
  /\ main' = "done"
  /\ UNCHANGED <<running, mutex, asleep, queue, local, completed, failed,
                 dispatched, refused, sched, worker>>

-----------------------------------------------------------------------------
SchedulerThread == EnqueueLock \/ EnqueuePush \/ EnqueueNotify
WorkerSteps == \/ WorkerLock \/ WorkerTest \/ WorkerBlock
               \/ WorkerTake \/ WorkerProcess \/ WorkerAgain
MainThread == ShutdownStore \/ ShutdownNotify \/ ShutdownJoin

Next == SchedulerThread \/ WorkerSteps \/ WorkerWakes \/ MainThread

Spec == Init /\ [][Next]_vars

(* Threads that can run do run, and one that keeps asking for the mutex    *)
(* gets it.  A spurious wakeup is not to be counted on, and whether main   *)
(* shuts down at all is the operator's choice.                             *)
FairSpec == /\ Spec
            /\ SF_vars(EnqueueLock) /\ WF_vars(EnqueuePush \/ EnqueueNotify)
            /\ SF_vars(WorkerLock)
            /\ WF_vars(WorkerTest \/ WorkerBlock \/ WorkerTake
                         \/ WorkerProcess \/ WorkerAgain)
            /\ WF_vars(ShutdownNotify \/ ShutdownJoin)

-----------------------------------------------------------------------------
TypeOK == /\ running \in BOOLEAN /\ asleep \in BOOLEAN
          /\ mutex \in {"none", "sched", "worker"}
          /\ queue \in Seq(1 .. Batches) /\ local \in Seq(1 .. Batches)
          /\ completed \in Seq(1 .. Batches) /\ dispatched \in 0 .. Batches
          /\ failed \in SUBSET (1 .. Batches) /\ refused \in SUBSET (1 .. Batches)
          /\ sched \in {"ready", "locked", "notify"}
          /\ worker \in {"lock", "test", "block", "waiting", "take", "process",
                         "exited"}
          /\ main \in {"serve", "notify", "join", "done"}

(* A sleeping worker has nothing to do, or a notification is on its way:   *)
(* the push is under the mutex, so no batch is left in the queue of a      *)
(* worker that nobody will wake.                                           *)
NoBatchLeftAsleep == asleep /\ queue # <<>> => sched = "notify"

(* When the worker has left its loop every accepted batch has its          *)
(* completion: none is left in queue_ or in local_queue, and none can be   *)
(* added later.                                                            *)
ExitLeavesNothing ==
  worker = "exited" => /\ queue = <<>> /\ local = <<>>
                       /\ ~running

(* The inductive invariant: the mutex is held exactly in the critical      *)
(* sections, a worker about to block has seen an empty queue that nobody   *)
(* else can have filled since, and local_queue is used while processing.   *)
ThreadInv ==
  /\ TypeOK
  /\ mutex = "sched" <=> sched = "locked"
  /\ sched = "locked" => dispatched < Batches
  /\ mutex = "worker" <=> worker \in {"test", "block", "take"}
  /\ asleep => worker = "waiting"
  /\ worker = "block" => queue = <<>>
  /\ local # <<>> => worker = "process"
  /\ NoBatchLeftAsleep
  /\ ExitLeavesNothing

(* The thread implements the FIFO queue that the executor promises.        *)
Executor == INSTANCE BatchQueue WITH pending <- local \o queue
ImplementsExecutor == Executor!Spec

(* Every batch that was accepted gets its completion, whenever shutdown    *)
(* comes: collect_batch does not wait for ever.                            *)
AcceptedCompletes == \A b \in 1 .. Batches :
  (dispatched >= b /\ b \notin refused)
    ~> (\E i \in DOMAIN completed : completed[i] = b)

(* README.md:74 promises a "Graceful shutdown with two-phase drain": the   *)
(* join in Worker::shutdown returns.                                       *)
ShutdownReturns == (main = "notify") ~> (main = "done")
==============================================================================
