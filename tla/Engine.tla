------------------------------- MODULE Engine --------------------------------
(***************************************************************************)
(* The engine: EngineCore::run on the scheduler thread, the worker thread, *)
(* and the calls that the HTTP thread and main make.                       *)
(*                                                                         *)
(* The scheduler thread is one io_context: the coroutine EngineCore::run   *)
(* and the posted handlers of submit, cancel and shutdown take turns.  The *)
(* coroutine suspends in two places only, the idle timer of wait_for_work  *)
(* and the channel of collect_batch; a posted handler runs there and after *)
(* it ended.  pc is where the coroutine is:                                *)
(*   unstarted  Scheduler::start was not called                            *)
(*   run        the test of the outer loop                                 *)
(*   fill       the test of the loop that fills in_flight_                 *)
(*   admit      the test of the admission loop of schedule_step            *)
(*   turn       the body of that loop                                      *)
(*   dispatch   schedule_step has returned its batch                       *)
(*   rest       in_flight_ is empty and nothing was built                  *)
(*   idle       suspended on the idle timer; woken: the timer was cancelled*)
(*   collect    suspended on the oldest batch                              *)
(*   drain      the loop of drain_in_flight; drain_collect: suspended there*)
(*   done       run has returned                                           *)
(* Other threads write accepting_ at any time, so each read of it by the   *)
(* coroutine is a step of its own.                                         *)
(***************************************************************************)
EXTENDS Scheduler, Worker

CONSTANTS MaxConcurrent,  \* EngineConfig::max_concurrent_batches
          Quitters,       \* requests whose client may disconnect
          Stops,          \* whether main ever shuts the scheduler down
          MaxFaults,      \* bound: failures of the backend and the executor
          MaxSeqId        \* bound: sequence ids given out

ASSUME EngineAssumption ==
  /\ MaxConcurrent \in Nat \ {0}
  /\ Quitters \subseteq Request
  /\ Stops \in BOOLEAN /\ HasState \in BOOLEAN
  /\ MaxFaults \in Nat /\ MaxSeqId \in Nat
  /\ MaxStates = MaxSequences

VARIABLES s,          \* the Scheduler's state
          w,          \* the Worker's state
          pc,         \* where the coroutine EngineCore::run is
          in_flight,  \* in_flight_: the batches dispatched, oldest first
          current,    \* the batch that collect_oldest waits for, or <<>>
          queue,      \* Worker::queue_ and its local_queue: batches to run
          results,    \* completions of the batches, in the same order
          posts,      \* handlers posted to scheduler_io, oldest first
          accepting,  \* accepting_
          stopping,   \* shutdown_requested_
          stopped,    \* shutdown_done_sent_
          client,     \* client[r]: "new", "sent", "cancelled"
          faults,     \* failures so far
          crashed     \* an assertion of the worker failed

loop == <<s, pc, in_flight, current>>
calls == <<posts, accepting, stopping, client>>
vars == <<s, w, pc, in_flight, current, queue, results, posts, accepting,
          stopping, stopped, client, faults, crashed>>

Init == /\ s = InitScheduler
        /\ w = InitWorker
        /\ pc = "unstarted"
        /\ in_flight = <<>> /\ current = <<>>
        /\ queue = <<>> /\ results = <<>>
        /\ posts = <<>>
        /\ accepting = FALSE /\ stopping = FALSE /\ stopped = FALSE
        /\ client = [r \in Request |-> "new"]
        /\ faults = 0
        /\ crashed = FALSE

-----------------------------------------------------------------------------
(* Calls from other threads. *)

(* Scheduler::start, called once by main before anything else. *)
Start == /\ pc = "unstarted" /\ ~stopping
         /\ accepting' = TRUE
         /\ pc' = "run"
         /\ UNCHANGED <<s, w, in_flight, current, queue, results, posts,
                        stopping, stopped, client, faults, crashed>>

(* Scheduler::submit on the HTTP thread. *)
Submit(r) ==
  /\ client[r] = "new" /\ pc # "unstarted"
  /\ client' = [client EXCEPT ![r] = "sent"]
  /\ IF accepting
     THEN posts' = Append(posts, [call |-> "submit", r |-> r]) /\ s' = s
     ELSE s' = SendEvent(s, r, ErrorEvent("ServerShuttingDown")) /\ posts' = posts
  /\ UNCHANGED <<w, pc, in_flight, current, queue, results, accepting,
                 stopping, stopped, faults, crashed>>

(* The client disconnects: the connection calls Scheduler::cancel ... *)
Cancel(r) ==
  /\ r \in Quitters /\ client[r] = "sent"
  /\ client' = [client EXCEPT ![r] = "cancelled"]
  /\ posts' = Append(posts, [call |-> "cancel", r |-> r])
  /\ UNCHANGED <<loop, w, queue, results, accepting, stopping, stopped,
                 faults, crashed>>

(* ... and its coroutine ends, which destroys the token channel. *)
Hangup(r) ==
  /\ client[r] = "cancelled" /\ r \in s.open
  /\ s' = [s EXCEPT !.open = @ \ {r}]
  /\ UNCHANGED <<w, pc, in_flight, current, queue, results, calls, stopped,
                 faults, crashed>>

(* Scheduler::shutdown_async on the main thread. *)
Shutdown ==
  /\ Stops /\ pc # "unstarted" /\ ~stopping
  /\ stopping' = TRUE
  /\ accepting' = FALSE
  /\ posts' = Append(posts, [call |-> "shutdown", was_running |-> accepting])
  /\ UNCHANGED <<loop, w, queue, results, stopped, client, faults, crashed>>

-----------------------------------------------------------------------------
(* Handlers posted to scheduler_io. *)

Suspended == pc \in {"idle", "woken", "collect", "drain_collect", "done"}

(* wake_on_scheduler_thread *)
Wake == pc' = IF pc = "idle" THEN "woken" ELSE pc

(* Faulty variant: the waiting request does not wake the loop. *)
HandleSubmitSilently(r) ==
  /\ s' = IF accepting THEN SubmitOnSchedulerThread(s, r)
                       ELSE SendEvent(s, r, ErrorEvent("ServerShuttingDown"))
  /\ pc' = pc

HandleSubmit(r) ==
  LET t == SubmitOnSchedulerThread(s, r)
  IN  IF accepting
      THEN /\ s' = t
           /\ IF t.waiting # s.waiting THEN Wake ELSE pc' = pc
      ELSE /\ s' = SendEvent(s, r, ErrorEvent("ServerShuttingDown"))
           /\ pc' = pc

HandleCancel(r) == s' = CancelOnSchedulerThread(s, r) /\ Wake

(* Faulty variant: the shutdown does not wake the loop. *)
HandleShutdownSilently(was_running) ==
  /\ s' = FailAllWaiting(s, "ServerShuttingDown")
  /\ pc' = pc
  /\ stopped' = (stopped \/ ~was_running)

HandleShutdown(was_running) ==
  /\ s' = FailAllWaiting(s, "ServerShuttingDown")
  /\ Wake
  /\ stopped' = (stopped \/ ~was_running)

HandlePost ==
  /\ Suspended /\ posts # <<>>
  /\ posts' = Tail(posts)
  /\ LET p == Head(posts)
     IN  \/ p.call = "submit"   /\ HandleSubmit(p.r) /\ stopped' = stopped
         \/ p.call = "cancel"   /\ HandleCancel(p.r) /\ stopped' = stopped
         \/ p.call = "shutdown" /\ HandleShutdown(p.was_running)
  /\ UNCHANGED <<w, in_flight, current, queue, results, accepting, stopping,
                 client, faults, crashed>>

-----------------------------------------------------------------------------
(* EngineCore::run. *)

other == <<posts, accepting, stopping, client, crashed>>

RunTest ==
  /\ pc = "run"
  /\ IF accepting
     THEN pc' = "fill" /\ s' = s
     ELSE pc' = "drain" /\ s' = FailAllWaiting(s, "ServerShuttingDown")
  /\ UNCHANGED <<w, in_flight, current, queue, results, stopped, faults, other>>

(* collect_oldest up to its suspension. *)
AwaitOldest(at) ==
  /\ current' = Head(in_flight)
  /\ in_flight' = Tail(in_flight)
  /\ pc' = at

RoomInFlight == Len(in_flight) < MaxConcurrent

FillTest ==
  /\ pc = "fill"
  /\ IF RoomInFlight
     THEN s' = BeginStep(s) /\ pc' = "admit" /\ UNCHANGED <<in_flight, current>>
     ELSE AwaitOldest("collect") /\ s' = s
  /\ UNCHANGED <<w, queue, results, stopped, faults, other>>

AdmitTest ==
  /\ pc = "admit"
  /\ pc' = IF AdmissionOpen(s, accepting) THEN "turn" ELSE "dispatch"
  /\ UNCHANGED <<s, w, in_flight, current, queue, results, stopped, faults, other>>

Admission ==
  /\ pc = "turn" /\ s.next <= MaxSeqId
  /\ LET t == AdmitTurn(s, accepting)
     IN  s' = t.s /\ pc' = IF t.ok THEN "admit" ELSE "dispatch"
  /\ UNCHANGED <<w, in_flight, current, queue, results, stopped, faults, other>>

(* An empty batch ends the filling: collect, or rest when nothing flies. *)
NothingBuilt ==
  /\ pc = "dispatch" /\ BuiltItems(s) = <<>>
  /\ s' = [s EXCEPT !.items = <<>>, !.budget = 0]
  /\ IF in_flight = <<>> THEN pc' = "rest" /\ UNCHANGED <<in_flight, current>>
                         ELSE AwaitOldest("collect")
  /\ UNCHANGED <<w, queue, results, stopped, faults, other>>

Dispatch ==
  /\ pc = "dispatch" /\ BuiltItems(s) # <<>>
  /\ in_flight' = Append(in_flight, BuiltItems(s))
  /\ queue' = Append(queue, BuiltItems(s))
  /\ s' = [s EXCEPT !.items = <<>>, !.budget = 0]
  /\ pc' = "fill"
  /\ UNCHANGED <<w, current, results, stopped, faults, other>>

(* cleanup_terminal_requests, with the executor's release_sequence. *)
Cleanup(t) == /\ s' = CleanupTerminalRequests(t)
              /\ w' = ReleaseSequences(w, CleanupReleases(t))

(* The executor refuses the batch. *)
DispatchFails ==
  /\ pc = "dispatch" /\ BuiltItems(s) # <<>>
  /\ faults < MaxFaults /\ faults' = faults + 1
  /\ Cleanup([FailBatch(s, BuiltItems(s), "ServerShuttingDown")
                EXCEPT !.items = <<>>, !.budget = 0])
  /\ pc' = "fill"
  /\ UNCHANGED <<in_flight, current, queue, results, stopped, other>>

(* Nothing in flight: clean up, make room for an admission, or sleep. *)
Rest ==
  /\ pc = "rest"
  /\ LET t == CleanupTerminalRequests(s)
         stuck == ~t.paused /\ (t.waiting # <<>> \/ HasSchedulableWork(t))
         sleep == accepting /\ ~HasSchedulableWork(t)
                            /\ (t.paused \/ t.waiting = <<>>)
     IN  /\ s' = IF stuck THEN PreemptOneForAdmission(t) ELSE t
         /\ pc' = IF ~stuck /\ sleep THEN "idle" ELSE "run"
  /\ w' = ReleaseSequences(w, CleanupReleases(s))
  /\ UNCHANGED <<in_flight, current, queue, results, stopped, faults, other>>

Resume == /\ pc = "woken"
          /\ pc' = "run"
          /\ UNCHANGED <<s, w, in_flight, current, queue, results, stopped,
                         faults, other>>

(* The state after the oldest batch's completion was applied. *)
Applied(out) == IF out.ok THEN UpdateFromOutput(s, current, out.results)
                          ELSE FailBatch(s, current, out.error)

Collect ==
  /\ pc = "collect" /\ results # <<>>
  /\ Cleanup(Applied(Head(results)))
  /\ results' = Tail(results)
  /\ current' = <<>>
  /\ pc' = "run"
  /\ UNCHANGED <<in_flight, queue, stopped, faults, other>>

DrainTest ==
  /\ pc = "drain" /\ in_flight # <<>>
  /\ AwaitOldest("drain_collect")
  /\ UNCHANGED <<s, w, queue, results, stopped, faults, other>>

DrainCollect ==
  /\ pc = "drain_collect" /\ results # <<>>
  /\ s' = Applied(Head(results))
  /\ results' = Tail(results)
  /\ current' = <<>>
  /\ pc' = "drain"
  /\ UNCHANGED <<w, in_flight, queue, stopped, faults, other>>

Finish ==
  /\ pc = "drain" /\ in_flight = <<>>
  /\ s' = CleanupAllRunning(s, "ServerShuttingDown")
  /\ stopped' = TRUE
  /\ pc' = "done"
  /\ UNCHANGED <<w, in_flight, current, queue, results, faults, other>>

-----------------------------------------------------------------------------
(* The worker thread runs the oldest batch; the backend may fail. *)
RunBatch(fault) ==
  /\ queue # <<>>
  /\ ~Unbound(w, Head(queue))
  /\ LET r == ProcessBatch(w, Head(queue), fault)
     IN  w' = r.w /\ results' = Append(results, r.out)
  /\ queue' = Tail(queue)
  /\ UNCHANGED <<loop, calls, stopped, crashed>>

WorkerStep  == RunBatch(FALSE) /\ UNCHANGED faults
WorkerFault == /\ faults < MaxFaults /\ faults' = faults + 1
               /\ RunBatch(TRUE)

(* The assertion of resolve_batch ends the process. *)
WorkerCrash == /\ queue # <<>> /\ Unbound(w, Head(queue))
               /\ crashed' = TRUE
               /\ UNCHANGED <<loop, w, queue, results, calls, stopped, faults>>

-----------------------------------------------------------------------------
SchedulerStep == \/ RunTest \/ FillTest \/ AdmitTest \/ Admission
                 \/ NothingBuilt \/ Dispatch \/ Rest \/ Resume
                 \/ Collect \/ DrainTest \/ DrainCollect \/ Finish

Next == /\ ~crashed
        /\ \/ Start \/ Shutdown
           \/ \E r \in Request : Submit(r) \/ Cancel(r) \/ Hangup(r)
           \/ HandlePost \/ SchedulerStep \/ DispatchFails
           \/ WorkerStep \/ WorkerFault \/ WorkerCrash

Spec == Init /\ [][Next]_vars

(* Fairness.  Each condition names the part of the state that only the     *)
(* steps in question change: pc moves with every step of the coroutine,    *)
(* posts shrinks when a handler runs, queue when the worker runs a batch.  *)
PC == {"unstarted", "run", "fill", "admit", "turn", "dispatch", "rest", "idle",
       "woken", "collect", "drain", "drain_collect", "done"}

SchedulerReady ==
  /\ ~crashed /\ pc \notin {"idle", "done"}
  /\ pc \in {"collect", "drain_collect"} => results # <<>>
  /\ pc = "turn" => s.next <= MaxSeqId

CoroutineMoves == SchedulerReady /\ pc' \in PC \ {pc}
HandlerRuns == ~crashed /\ Suspended /\ posts # <<>> /\ posts' = Tail(posts)
BatchRuns == /\ ~crashed /\ queue # <<>> /\ ~Unbound(w, Head(queue))
             /\ queue' = Tail(queue)
BatchAborts == ~crashed /\ queue # <<>> /\ Unbound(w, Head(queue)) /\ crashed' = TRUE

(* Both threads keep running, main's call of start included.  An           *)
(* io_context runs its handlers in the order they were posted, with the    *)
(* completion that resumes the coroutine among them, so a handler that can *)
(* run again and again does run.  Clients and main's shutdown owe nothing. *)
FairSpec == /\ Spec
            /\ WF_pc(CoroutineMoves)
            /\ SF_posts(HandlerRuns)
            /\ WF_queue(BatchRuns) /\ WF_crashed(BatchAborts)

-----------------------------------------------------------------------------
(* The batches whose result has not been retired, the one that is being    *)
(* built included, and the work items of one sequence in them.             *)
Outstanding == (IF current = <<>> THEN <<>> ELSE <<current>>)
                 \o in_flight \o <<s.items>>
Work(id) == {e \in {<<b, i>> : b \in DOMAIN Outstanding,
                              i \in UNION {DOMAIN Outstanding[c] :
                                            c \in DOMAIN Outstanding}} :
               /\ e[2] \in DOMAIN Outstanding[e[1]]
               /\ Outstanding[e[1]][e[2]].id = id}
Item(e) == Outstanding[e[1]][e[2]]
AllWork == UNION {Work(id) : id \in 1 .. MaxSeqId}

Ended(r) == \E i \in DOMAIN s.events[r] : s.events[r][i].finished
Positions == s.waiting \o s.skip \o s.running

TypeOK ==
  /\ s.reg \subseteq Request /\ s.status \in [Request -> RequestStatus]
  /\ s.open \subseteq Request /\ s.next \in 1 .. MaxSeqId + 1
  /\ DOMAIN s.by_seq \subseteq 1 .. MaxSeqId /\ s.pool.ref \in [Block -> Nat]
  /\ \A r \in Request : /\ s.seq[r].phase \in GenerationPhase
                        /\ Range(s.seq[r].table) \subseteq Block
  /\ w.failed \subseteq 1 .. MaxSeqId /\ DOMAIN w.states \subseteq 1 .. MaxSeqId
  /\ pc \in PC
  /\ Len(in_flight) <= MaxConcurrent /\ faults \in 0 .. MaxFaults
  /\ client \in [Request -> {"new", "sent", "cancelled"}]
  /\ {accepting, stopping, stopped, crashed} \subseteq BOOLEAN

(* A registered request is in exactly one of waiting_, skip_ and running_, *)
(* once; it has scheduling state outside waiting_ only; and by_seq_id_ is  *)
(* exactly the running sequences.  All moves between the indexes (admit,   *)
(* suspend, evict, preempt, cleanup, shutdown) keep it that way.           *)
OnePosition ==
  /\ IsInjective(Positions)
  /\ Range(Positions) = s.reg
  /\ {r \in Request : Scheduled(s, r)} = Range(s.skip) \union Range(s.running)
  /\ \A r \in Range(s.running) : s.by_seq[s.seq[r].id] = r
  /\ DOMAIN s.by_seq = {s.seq[r].id : r \in Range(s.running)}

(* The reservations of a sequence are what its outstanding work items      *)
(* consume: leases, prompt tokens, KV tokens and samples (retire_work and  *)
(* fail_batch return exactly what build_state_work took, on stale results, *)
(* failures and cancellations too).                                        *)
ReservationsMatch ==
  \A r \in s.reg :
    LET q    == s.seq[r]
        work == Work(q.id)
        tokens(S) == FoldFunctionOnSet(LAMBDA e, acc : e + acc, 0,
                       [e \in work |-> Len(Item(e).tokens)], S)
    IN  /\ q.leases = Cardinality(work)
        /\ q.res_gen = Cardinality({e \in work : Item(e).sample})
        /\ q.res_kv = tokens({e \in work : Item(e).write})
        /\ q.res_prompt = tokens({e \in work : Item(e).kind = "Prefill"})

(* The blocks a dispatched batch reads and writes stay with its sequence   *)
(* until the batch is retired: its sequence is still running and its table *)
(* still starts with the snapshot that the item carries, whatever was      *)
(* cancelled, failed, suspended or evicted since.                          *)
InFlightKeepsBlocks ==
  \A e \in AllWork : /\ Item(e).id \in DOMAIN s.by_seq
                     /\ StartsWith(s.seq[s.by_seq[Item(e).id]].table,
                                   Item(e).table)

(* A batch still to be run writes only into blocks that one sequence holds *)
(* and that no prefix lookup can find.                                     *)
WritesArePrivate ==
  \A i \in DOMAIN queue : \A j \in DOMAIN queue[i] :
    \A pos \in WritePositions(queue[i][j]) :
      LET b == SlotBlock(queue[i][j], pos)
      IN  s.pool.ref[b] = 1 /\ ~CacheContains(s.pool, b)

(* The KV a sequence has and has reserved fits in its block table, and its *)
(* tokens, with those that batches in flight will sample, fit in the       *)
(* context limit of its request: several decodes in flight do not overrun  *)
(* it.  (A prompt that fills the limit still gets its first token.)        *)
ContextFits ==
  \A r \in Range(s.running) \union Range(s.skip) :
    /\ NextPosition(s.seq[r]) <= Len(s.seq[r].table) * BlockSize
    /\ Committed(s, r) + s.seq[r].res_gen
         <= Max({ContextLimit(r), Len(Prompt[r]) + 1})

(* Every reference of a block is a table entry of a scheduled request, and *)
(* a block without references is free or idle in the cache.                *)
BlocksAccounted ==
  /\ \A b \in Block : s.pool.ref[b] =
       Cardinality({r \in Request : b \in Range(s.seq[r].table)})
  /\ Range(s.pool.free) = {b \in Block : /\ s.pool.ref[b] = 0
                                          /\ ~CacheContains(s.pool, b)}

(* A channel gets at most one terminal event and nothing after it; and a   *)
(* request that was taken off the scheduler has got it, unless its client  *)
(* gave up first.                                                          *)
OneTerminalEvent ==
  \A r \in Request :
    /\ \A i \in DOMAIN s.events[r] :
         s.events[r][i].finished => i = Len(s.events[r])
    /\ (/\ client[r] = "sent" /\ r \notin s.reg
        /\ \A i \in DOMAIN posts : posts[i].call = "submit" => posts[i].r # r)
       => Ended(r)

(* The tokens streamed to a client are the greedy continuation of its own  *)
(* prompt, however its work was batched, pipelined and shared.             *)
GreedyOutput ==
  \A r \in Request : \A i \in DOMAIN s.events[r] :
    s.events[r][i].token # NoToken =>
      s.events[r][i].token =
        NextToken(Prompt[r] \o [j \in 1 .. i - 1 |-> s.events[r][j].token])

(* A cached block holds the KV of the very prefix it is found under.       *)
CacheHoldsItsPrefix ==
  \A b \in {c \in Block : CacheContains(s.pool, c)} :
    LET key == KeyOf(s.pool, b)
    IN  \A i \in 0 .. BlockSize - 1 :
          w.kv[b][i] = SubSeq(key, 1, Len(key) - BlockSize + i + 1)

(* wait_for_work sleeps only when no request is left: the 24 hour timer is *)
(* never what a request waits for.                                         *)
SleepsOnlyWhenEmpty == pc = "idle" => s.reg = {}

(* The pause of admissions that a suspension sets always has a running     *)
(* sequence whose completion ends it.                                      *)
PauseCanEnd == s.paused /\ pc # "done" => s.running # <<>>

(* resolve_batch always finds the token it binds (the assertion            *)
(* "late-bound token must have been produced by an earlier batch").        *)
LateBindingSucceeds == queue # <<>> => ~Unbound(w, Head(queue))

(* "late-bound token must have been produced by an earlier batch"          *)
(* (worker.cpp:266), "the token may come from any earlier completed batch" *)
(* (worker.cpp:262), "across batches and preemption" (worker.cpp:261): the *)
(* token bound to a decode is the one sampled after the tokens before it.  *)
BindsSampledToken ==
  queue # <<>> => \A i \in Live(w, Head(queue)) :
    LET item == Head(queue)[i]
    IN  item.bind /\ item.id \in DOMAIN w.latest =>
          w.latest[item.id] = NextToken(Before(w, item))

(* When the shutdown future is set nothing of a request is left: no entry  *)
(* in an index, no scheduling state, no batch at the worker, no result.    *)
ShutdownReleasesRequests ==
  stopped => /\ s.reg = {} /\ Positions = <<>> /\ DOMAIN s.by_seq = {}
             /\ in_flight = <<>> /\ queue = <<>> /\ results = <<>>

(* main.cpp:205 shuts the executor down "after all sequences have been     *)
(* released": no GDN state is active once the scheduler has stopped.       *)
ShutdownReleasesStates == stopped => DOMAIN w.states = {}

(* The blocks that no request holds and that are never free again: an      *)
(* allocation that ran short took them (allocate_kv_blocks).               *)
LostBlocks ==
  {b \in Block : s.pool.ref[b] > Cardinality({r \in Request : b \in Range(s.seq[r].table)})}

(* A registered request needs more blocks than the pool still has: for its *)
(* prompt, or for the tokens it may yet generate within its context limit. *)
MostTokens(r) ==
  Max({Len(Prompt[r]), Min({ContextLimit(r), Len(Prompt[r]) + MaxTokens[r]}) - 1})
Starved == \E r \in s.reg : BlocksFor(MostTokens(r)) > MaxBlocks - Cardinality(LostBlocks)

(* Every request a client waits for is answered with a terminal event, or  *)
(* the client gives up, also when the pool is short of blocks, requests    *)
(* are suspended and replayed, and admissions wait.  The exceptions are    *)
(* that the assertion of resolve_batch ends the process, here and below    *)
(* (LateBindingSucceeds), and that the pool stays too small for a request: *)
(* admit_one_waiting puts it back and EngineCore::run retries for ever.    *)
RequestsEnd == \A r \in Request :
  client[r] = "sent" ~> (Ended(r) \/ client[r] = "cancelled" \/ crashed \/ []Starved)

(* A cancelled request gives its place and its blocks back, unless the     *)
(* loop retries for ever: it then never lets the posted cancel run.        *)
CancelledLeave == \A r \in Request :
  client[r] = "cancelled" ~> (r \notin s.reg \/ crashed \/ []Starved)

(* shutdown_async's future is eventually set, also when a request starves: *)
(* the loop reads accepting_ before each retry.                            *)
ShutdownEnds == stopping ~> (stopped \/ crashed)
=============================================================================
