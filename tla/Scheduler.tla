------------------------------ MODULE Scheduler ------------------------------
(***************************************************************************)
(* Scheduler (src/scheduler/scheduler.cpp): the policy and the state of    *)
(* requests, as operators from one value s of that state to the next.  All *)
(* of them run on the scheduler thread; Engine says when.                  *)
(*                                                                         *)
(* s is a record                                                           *)
(*   reg       requests_: the registered requests                          *)
(*   status    RequestStatus of each request                               *)
(*   prompt    prompt_tokens, rewritten when a request is suspended        *)
(*   gen       generated_tokens                                            *)
(*   seq       scheduling state (SequenceSchedulingState) or NoSeq         *)
(*   waiting, skip, running   the three indexes, in order                  *)
(*   by_seq    by_seq_id_: sequence id -> request                          *)
(*   paused    admission_paused_                                           *)
(*   shortage  block_shortage_pending_                                     *)
(*   next      next_seq_id_                                                *)
(*   pool      block_pool_ and block_cache_                                *)
(*   items, budget   the BatchBuildContext of the step being built         *)
(*   open      requests whose token channel still has its receiver         *)
(*   events    what was sent to each token channel, in order               *)
(***************************************************************************)
EXTENDS Integers, KVBlocks

CONSTANTS Request,         \* request ids
          Prompt,          \* Prompt[r]: tokens of the prompt
          MaxTokens,       \* MaxTokens[r]: SamplingParams::max_tokens
          MaxContext,      \* MaxContext[r]: max_context_len (0 = default)
          DefaultContext,  \* EngineConfig::default_max_context_len
          MaxSequences,    \* EngineConfig::max_sequences
          MaxRunning,      \* EngineConfig::max_running_requests
          MaxPending,      \* EngineConfig::max_pending_requests
          TokenBudget,     \* EngineConfig::max_token_budget
          MaxSeqPrefill    \* EngineConfig::max_seq_prefill_tokens (0 = off)

(* EngineConfig::validate, and the shape of the requests. *)
ASSUME ConfigAssumption ==
  /\ {MaxSequences, MaxRunning, MaxPending, TokenBudget, DefaultContext}
       \subseteq Nat \ {0}
  /\ MaxRunning <= MaxSequences
  /\ MaxSeqPrefill \in Nat
  /\ DefaultContext <= MaxBlocks * BlockSize
  /\ DOMAIN Prompt = Request
  /\ MaxTokens \in [Request -> Nat] /\ MaxContext \in [Request -> Nat]

NoToken == 0
GenerationPhase == {"Prefill", "ReplayPrefill", "Bootstrap", "Decode"}
RequestStatus == {"Active", "Finished", "Cancelled", "Failed"}

(* A request that has not been admitted; sequence ids start at 1. *)
NoSeq == [id |-> 0, leases |-> 0, res_prompt |-> 0, res_gen |-> 0,
          res_kv |-> 0, phase |-> "Prefill", cursor |-> 0,
          gen_in_prompt |-> 0, table |-> <<>>, frontier |-> 0,
          parent |-> <<>>, pending |-> <<>>]

InitScheduler ==
  [reg |-> {}, status |-> [r \in Request |-> "Active"],
   prompt |-> [r \in Request |-> <<>>], gen |-> [r \in Request |-> <<>>],
   seq |-> [r \in Request |-> NoSeq],
   waiting |-> <<>>, skip |-> <<>>, running |-> <<>>, by_seq |-> <<>>,
   paused |-> FALSE, shortage |-> FALSE, next |-> 1, pool |-> InitPool,
   items |-> <<>>, budget |-> 0, open |-> Request,
   events |-> [r \in Request |-> <<>>]]

Scheduled(s, r) == s.seq[r].id # 0
IsSchedulable(s, r) == s.status[r] = "Active" /\ Scheduled(s, r)
IsPrefillPhase(phase) == phase \in {"Prefill", "ReplayPrefill"}
ContextLimit(r) == IF MaxContext[r] = 0 THEN DefaultContext ELSE MaxContext[r]

(* kv_token_count of a work item. *)
KVTokens(item) == IF item.write THEN Len(item.tokens) ELSE 0

-----------------------------------------------------------------------------
(* Events to the token channels. *)

TokenEvent(t, fin) == [token |-> t, finished |-> fin, error |-> "None"]
FinishedEvent == TokenEvent(NoToken, TRUE)
ErrorEvent(err) == [token |-> NoToken, finished |-> TRUE, error |-> err]

(* send_event posts to the channel unless its receiver is gone. *)
SendEvent(s, r, e) ==
  IF r \in s.open THEN [s EXCEPT !.events[r] = Append(@, e)] ELSE s

(* The same event to the channels of R. *)
SendEvents(s, R, e) ==
  [s EXCEPT !.events = [r \in Request |->
               IF r \in R \intersect s.open THEN Append(@[r], e) ELSE @[r]]]

SendTokenEvent(s, r) ==
  LET e == TokenEvent(Back(s.gen[r]), s.status[r] = "Finished")
  IN  IF r \notin s.open /\ s.status[r] = "Active"
      THEN [s EXCEPT !.status[r] = "Cancelled"]
      ELSE SendEvent(s, r, e)

SendTerminalEvent(s, r) ==
  SendEvent([s EXCEPT !.status[r] = "Finished"], r, FinishedEvent)

SendErrorEvent(s, r, err) ==
  SendEvent([s EXCEPT !.status[r] = "Failed"], r, ErrorEvent(err))

-----------------------------------------------------------------------------
(* Registration, cancellation and removal. *)

SubmitOnSchedulerThread(s, r) ==
  IF r \in s.reg THEN SendEvent(s, r, ErrorEvent("InvalidArgument"))
  ELSE IF Len(s.waiting) >= MaxPending
       THEN SendEvent(s, r, ErrorEvent("RequestQueueFull"))
       ELSE [s EXCEPT !.reg = @ \union {r}, !.prompt[r] = Prompt[r],
                      !.waiting = Append(@, r)]

CancelOnSchedulerThread(s, r) ==
  IF r \in s.reg /\ s.status[r] = "Active"
  THEN [s EXCEPT !.status[r] = "Cancelled"] ELSE s

ReleaseSchedulingBlocks(s, r) ==
  IF ~Scheduled(s, r) THEN s
  ELSE [s EXCEPT
         !.by_seq = Without(@, {s.seq[r].id}),
         !.pool   = ReleaseRequestBlocks(@, s.seq[r].table),
         !.seq[r] = NoSeq]

(* release_scheduling_blocks and erase_request for the different requests  *)
(* rs, in order: the tokens of a forgotten request are forgotten too.      *)
Drop(s, rs) ==
  LET R == Range(rs)
      after[i \in 0 .. Len(rs)] ==
        IF i = 0 THEN s.pool
        ELSE ReleaseRequestBlocks(after[i - 1], s.seq[rs[i]].table)
      drop(f, none) == [r \in Request |-> IF r \in R THEN none ELSE f[r]]
  IN  [s EXCEPT !.reg = @ \ R, !.pool = after[Len(rs)],
                !.by_seq = Without(@, {s.seq[r].id : r \in R}),
                !.prompt = drop(@, <<>>), !.gen = drop(@, <<>>),
                !.seq = drop(@, NoSeq)]

(* The prompt of a suspended request is what it has in its KV blocks: the  *)
(* last generated token was sampled and not yet fed back.                  *)
PrepareForWait(s, r) ==
  IF s.gen[r] = <<>> THEN s
  ELSE [s EXCEPT !.prompt[r] = Prompt[r] \o PopBack(s.gen[r])]

(* Faulty variant: the request also stays in running_. *)
ReleaseAndCopyToWait(s, r) ==
  [ReleaseSchedulingBlocks(PrepareForWait(s, r), r) EXCEPT !.waiting = <<r>> \o @]

(* release_and_move_to_wait.  (The code reads `request` through the list   *)
(* node it has just erased; the node's bytes are still intact there.)      *)
ReleaseAndMoveToWait(s, r) ==
  [ReleaseSchedulingBlocks(PrepareForWait(s, r), r) EXCEPT
     !.running = Erase(@, r),
     !.waiting = <<r>> \o @]

-----------------------------------------------------------------------------
(* Making room. *)

(* Faulty variant: a sequence with batches in flight may be suspended. *)
SuspendableInFlight(s, prefill) ==
  {i \in DOMAIN s.running :
     LET r == s.running[i]
     IN  IsSchedulable(s, r) /\ IsPrefillPhase(s.seq[r].phase) = prefill}

(* The suspension candidates of one phase class: idle and active. *)
Suspendable(s, prefill) ==
  {i \in DOMAIN s.running :
     LET r == s.running[i]
     IN  /\ IsSchedulable(s, r)
         /\ IsPrefillPhase(s.seq[r].phase) = prefill
         /\ s.seq[r].leases = 0}

(* Fewest blocks first; among equals the one that was admitted last. *)
FindSmallest(s, candidates) ==
  CHOOSE i \in candidates : \A j \in candidates :
    LET blocks(k) == Len(s.seq[s.running[k]].table)
    IN  blocks(i) < blocks(j) \/ (blocks(i) = blocks(j) /\ i >= j)

(* Faulty variant: admission is paused with nothing left running too. *)
PauseAlways(s) == TRUE

(* Suspension pauses admissions while another sequence runs. *)
PauseAfterSuspend(s) == s.running # <<>>

SuspendOneRunning(s) ==
  LET candidates == IF Suspendable(s, TRUE) # {} THEN Suspendable(s, TRUE)
                                                 ELSE Suspendable(s, FALSE)
      t == ReleaseAndMoveToWait(s, s.running[FindSmallest(s, candidates)])
  IN  IF candidates = {} THEN s ELSE [t EXCEPT !.paused = PauseAfterSuspend(t)]

EvictOneSkipped(s) ==
  LET r == Head(s.skip)
      t == ReleaseSchedulingBlocks(PrepareForWait(s, r), r)
  IN  [(IF Scheduled(s, r) THEN t ELSE s) EXCEPT
         !.skip = Tail(@), !.waiting = <<r>> \o @]

(* A KV shortage: free a skipped sequence, else suspend a running one. *)
MakeRoom(s) == IF s.skip # <<>> THEN EvictOneSkipped(s) ELSE SuspendOneRunning(s)

(* preempt_one_for_admission: the last idle running sequence moves to skip *)
(* with its blocks.                                                        *)
PreemptOneForAdmission(s) ==
  LET idle == {i \in DOMAIN s.running : /\ IsSchedulable(s, s.running[i])
                                        /\ s.seq[s.running[i]].leases = 0}
      r == s.running[CHOOSE i \in idle : \A j \in idle : j <= i]
  IN  IF idle = {} THEN s
      ELSE [s EXCEPT !.by_seq = Without(@, {s.seq[r].id}),
                     !.running = Erase(@, r),
                     !.skip = <<r>> \o @]

-----------------------------------------------------------------------------
(* Building a batch.  A work item carries a snapshot of the block table;   *)
(* `write` tells whether it writes KV, `bind` whether the worker fills in  *)
(* its input token (late_bind), `sample` whether it samples a token.       *)

(* The position of the next token: after the KV that is there and the KV   *)
(* that batches in flight will write.                                      *)
NextPosition(q) == q.frontier + q.res_kv

(* Append an item and reserve what it will produce. *)
Reserve(s, r, item, prompt) ==
  [s EXCEPT !.items  = Append(@, item),
            !.budget = @ - Len(item.tokens),
            !.seq[r].res_prompt = @ + prompt,
            !.seq[r].res_kv     = @ + KVTokens(item),
            !.seq[r].res_gen    = @ + (IF item.sample THEN 1 ELSE 0),
            !.seq[r].leases     = @ + 1]

BuildPrefill(s, r) ==
  LET q     == s.seq[r]
      plen  == Len(s.prompt[r])
      start == q.cursor + q.res_prompt
      cap   == IF MaxSeqPrefill > 0 THEN MaxSeqPrefill ELSE plen
      len   == Min({plen - start, cap, s.budget})
      final == start + len >= plen
      replay == q.phase = "ReplayPrefill" /\ s.gen[r] # <<>>
      item  == [kind |-> "Prefill", id |-> q.id, start |-> start,
                sample |-> final /\ ~replay, context |-> NextPosition(q),
                tokens |-> SubSeq(s.prompt[r], start + 1, start + len),
                table |-> q.table, write |-> TRUE, bind |-> FALSE]
  IN  IF start >= plen THEN s ELSE Reserve(s, r, item, len)

(* The tokens a request has, without and with those of batches in flight. *)
Committed(s, r) == Len(s.prompt[r]) + Len(s.gen[r]) - s.seq[r].gen_in_prompt

(* Faulty variant: samples of batches in flight do not count. *)
ContextFullIgnoringFlight(s, r) == Committed(s, r) >= ContextLimit(r)

ContextFull(s, r) == Committed(s, r) + s.seq[r].res_gen >= ContextLimit(r)

BuildDecode(s, r) ==
  LET q         == s.seq[r]
      bootstrap == q.phase = "Bootstrap"
      context   == NextPosition(q)
      missing   == BlocksFor(context + (IF bootstrap THEN 0 ELSE 1)) - Len(q.table)
      alloc     == IF missing > 0 THEN AllocateKVBlocks(s.pool, missing)
                                  ELSE [ok |-> TRUE, table |-> <<>>, pool |-> s.pool]
      t         == [s EXCEPT !.pool = alloc.pool, !.seq[r].table = @ \o alloc.table]
      item      == [kind |-> "Decode", id |-> q.id, start |-> 0, sample |-> TRUE,
                    context |-> context,
                    tokens |-> <<IF bootstrap THEN Back(s.prompt[r]) ELSE NoToken>>,
                    table |-> t.seq[r].table, write |-> ~bootstrap,
                    bind |-> ~bootstrap]
  IN  IF \/ Len(s.gen[r]) + q.res_gen >= MaxTokens[r]
         \/ bootstrap /\ q.res_gen > 0
      THEN s
      ELSE IF ContextFull(s, r)
      THEN IF q.res_gen = 0 THEN SendTerminalEvent(s, r) ELSE s
      ELSE IF ~alloc.ok
      THEN [s EXCEPT !.pool = alloc.pool, !.shortage = TRUE]
      ELSE Reserve(t, r, item, 0)

BuildStateWork(s, r) ==
  IF ~IsSchedulable(s, r) \/ s.budget <= 0 THEN s
  ELSE IF Len(s.gen[r]) >= MaxTokens[r] THEN SendTerminalEvent(s, r)
  ELSE IF IsPrefillPhase(s.seq[r].phase) THEN BuildPrefill(s, r)
  ELSE BuildDecode(s, r)

(* Work for the running sequences, in order: the state after each of them. *)
Building(s) ==
  LET after[i \in 0 .. Len(s.running)] ==
        IF i = 0 THEN s ELSE BuildStateWork(after[i - 1], s.running[i])
  IN  after

(* The start of schedule_step: a fresh BatchBuildContext, a shortage that  *)
(* an earlier step met, and work for every running sequence.               *)
BeginStep(s) ==
  LET fresh == [s EXCEPT !.items = <<>>, !.budget = TokenBudget,
                         !.shortage = FALSE]
      base  == IF s.shortage THEN MakeRoom(fresh) ELSE fresh
  IN  Building(base)[Len(base.running)]

-----------------------------------------------------------------------------
(* Admission.  Each returns the new state and whether the loop goes on.    *)

Slots(s) == s.budget > 0 /\ Len(s.running) < MaxRunning

(* Drop a request that is not admitted, with an optional event. *)
Reject(s, r, event) ==
  [ok |-> TRUE,
   s  |-> Drop(SendEvent(s, r, event), <<r>>)]

AdmitOneSkipped(s, accepting) ==
  LET r == Head(s.skip)
      t == [s EXCEPT !.skip = Tail(@)]
  IN  IF ~Slots(s) \/ s.skip = <<>> THEN [ok |-> FALSE, s |-> s]
      ELSE IF s.status[r] = "Cancelled" THEN Reject(t, r, ErrorEvent("RequestCancelled"))
      ELSE IF MaxTokens[r] <= 0 THEN Reject(t, r, FinishedEvent)
      ELSE IF ~Scheduled(s, r)
      THEN [ok |-> FALSE, s |-> [t EXCEPT !.waiting = <<r>> \o @]]
      ELSE IF ~accepting THEN Reject(t, r, ErrorEvent("ServerShuttingDown"))
      ELSE IF Len(s.gen[r]) >= MaxTokens[r]
      THEN Reject([t EXCEPT !.status[r] = "Finished"], r, FinishedEvent)
      ELSE [ok |-> TRUE,
            s  |-> BuildStateWork(
                     [t EXCEPT !.by_seq = Insert(@, s.seq[r].id, r),
                               !.running = Append(@, r)], r)]

(* The phase in which an admitted sequence starts, from the tokens that    *)
(* the prefix cache already covers.                                        *)
StartPhase(hit, plen, fresh) ==
  IF hit > 0 /\ hit < plen THEN IF fresh THEN "Prefill" ELSE "ReplayPrefill"
  ELSE IF hit >= plen      THEN IF fresh THEN "Bootstrap" ELSE "Decode"
  ELSE "Prefill"

AdmitOneWaiting(s, accepting) ==
  LET r      == Head(s.waiting)
      t      == [s EXCEPT !.waiting = Tail(@)]
      plen   == Len(s.prompt[r])
      lookup == LookupPrefixCache(s.pool, s.prompt[r])
      alloc  == AllocateKVBlocks(lookup.pool, BlocksFor(plen) - Len(lookup.table))
      table  == lookup.table \o alloc.table
      hit    == Len(lookup.table) * BlockSize
      short  == MakeRoom([t EXCEPT !.pool =
                            ReleaseRequestBlocks(alloc.pool, lookup.table)])
      seq    == [NoSeq EXCEPT
                  !.id = s.next, !.table = table, !.frontier = hit,
                  !.parent = lookup.parent, !.cursor = Min({hit, plen}),
                  !.phase = StartPhase(hit, plen, s.gen[r] = <<>>),
                  !.gen_in_prompt = Max({0, Len(s.gen[r]) - 1})]
  IN  IF \/ ~Slots(s) \/ s.waiting = <<>>
         \/ Len(s.running) + Len(s.skip) >= MaxSequences
      THEN [ok |-> FALSE, s |-> s]
      ELSE IF s.status[r] = "Cancelled" THEN Reject(t, r, ErrorEvent("RequestCancelled"))
      ELSE IF MaxTokens[r] <= 0 THEN Reject(t, r, FinishedEvent)
      ELSE IF \/ plen = 0 \/ plen > ContextLimit(r)
              \/ ContextLimit(r) > MaxBlocks * BlockSize
      THEN Reject(t, r, ErrorEvent("InvalidArgument"))
      ELSE IF ~alloc.ok
      THEN [ok |-> FALSE,
            s  |-> [short EXCEPT !.shortage = FALSE, !.waiting = <<r>> \o @]]
      ELSE IF ~accepting
      THEN Reject([t EXCEPT !.pool = ReleaseRequestBlocks(alloc.pool, table)],
                  r, ErrorEvent("ServerShuttingDown"))
      ELSE [ok |-> TRUE,
            s  |-> BuildStateWork(
                     [t EXCEPT !.pool = alloc.pool, !.next = @ + 1,
                               !.seq[r] = seq,
                               !.by_seq = Insert(@, s.next, r),
                               !.running = Append(@, r)], r)]

(* The condition of the admission loop, and one turn of it. *)
AdmissionOpen(s, accepting) ==
  accepting /\ ~s.paused /\ Slots(s) /\ (s.skip # <<>> \/ s.waiting # <<>>)

AdmitTurn(s, accepting) ==
  LET skipped == AdmitOneSkipped(s, accepting)
  IN  IF skipped.ok THEN skipped
      ELSE AdmitOneWaiting(skipped.s, accepting)

(* The end of schedule_step: no work of a suspended sequence is dispatched. *)
BuiltItems(s) ==
  IF s.paused
  THEN Keep(s.items, {i \in Range(s.items) : i.id \in DOMAIN s.by_seq})
  ELSE s.items

-----------------------------------------------------------------------------
(* Retiring results.  A result of the worker names its item's sequence and *)
(* carries the sampled token (<<>> or one), eos and stale.                 *)

(* Faulty variant: the reserved sample stays. *)
RetireKeepsSample(s, r, item) ==
  [s EXCEPT !.seq[r].leases = Max({@ - 1, 0}),
            !.seq[r].res_prompt =
              Max({@ - (IF item.kind = "Prefill" THEN Len(item.tokens) ELSE 0), 0}),
            !.seq[r].res_kv = Max({@ - KVTokens(item), 0})]

(* Every reservation of the item is returned, and none goes below zero. *)
RetireReservation(s, r, item) ==
  [s EXCEPT !.seq[r].leases = Max({@ - 1, 0}),
            !.seq[r].res_prompt =
              Max({@ - (IF item.kind = "Prefill" THEN Len(item.tokens) ELSE 0), 0}),
            !.seq[r].res_gen = Max({@ - (IF item.sample THEN 1 ELSE 0), 0}),
            !.seq[r].res_kv = Max({@ - KVTokens(item), 0})]

(* Faulty variant: the placeholder of a decode item is taken for its token. *)
WrittenPlaceholder(s, r, item) == item.tokens

(* The tokens an item wrote: its own, or for a decode the token that was   *)
(* the last generated one before this result.                              *)
WrittenTokens(s, r, item) ==
  IF item.kind = "Prefill" THEN item.tokens
  ELSE IF s.gen[r] = <<>> THEN <<>> ELSE <<Back(s.gen[r])>>

(* Collect written tokens and publish every full block of them: the block  *)
(* hash chains from parent_hash, the block id comes from the position.     *)
PublishWritten(s, r, item) ==
  LET q       == s.seq[r]
      pending == q.pending \o WrittenTokens(s, r, item)
      first   == (item.context - Len(q.pending)) \div BlockSize
      full    == Len(pending) \div BlockSize
      key(n)  == q.parent \o SubSeq(pending, 1, n * BlockSize)
      after[n \in 0 .. full] ==
        IF n = 0 THEN s.pool
        ELSE PublishFullBlock(after[n - 1], key(n), q.table[first + n])
  IN  IF ~item.write THEN s
      ELSE [s EXCEPT
             !.pool = after[full],
             !.seq[r].parent = key(full),
             !.seq[r].pending = SubSeq(pending, full * BlockSize + 1, Len(pending))]

(* The new token, the end of the request, and the event for it. *)
AcceptToken(s, r, res) ==
  LET gen  == s.gen[r] \o res.sampled
      done == res.eos \/ Len(gen) >= MaxTokens[r]
      q    == [s EXCEPT !.gen[r] = gen,
                        !.seq[r].phase = IF @ = "Bootstrap" /\ res.sampled # <<>>
                                         THEN "Decode" ELSE @,
                        !.status[r] = IF done THEN "Finished" ELSE @]
  IN  IF res.sampled # <<>> THEN SendTokenEvent(q, r)
      ELSE IF done THEN SendTerminalEvent(q, r) ELSE q

RetireWork(s, item, res) ==
  LET r     == s.by_seq[item.id]
      t     == RetireReservation(s, r, item)
      q     == t.seq[r]
      prefill == item.kind = "Prefill"
      cursor == q.cursor + (IF prefill THEN Len(item.tokens) ELSE 0)
      final == cursor >= Len(s.prompt[r])
      u     == [t EXCEPT
                 !.seq[r].cursor = cursor,
                 !.seq[r].frontier = Max({@, item.context + KVTokens(item)}),
                 !.seq[r].phase = IF prefill /\ final THEN "Decode" ELSE @]
  IN  IF item.id \notin DOMAIN s.by_seq THEN s
      ELSE IF res.stale \/ ~IsSchedulable(t, r) THEN t
      ELSE IF prefill /\ ~final THEN u
      ELSE AcceptToken(PublishWritten(u, r, item), r, res)

(* update_from_output: results[i] is the result of items[i].  The state    *)
(* after each of them, and after all.                                      *)
Retiring(s, items, results) ==
  LET after[i \in 0 .. Len(items)] ==
        IF i = 0 THEN s ELSE RetireWork(after[i - 1], items[i], results[i])
  IN  after

UpdateFromOutput(s, items, results) == Retiring(s, items, results)[Len(items)]

(* Faulty variant: a request that has already ended fails again. *)
FailAny(s, item, err) ==
  LET r == s.by_seq[item.id]
  IN  IF item.id \notin DOMAIN s.by_seq THEN s
      ELSE SendErrorEvent(RetireReservation(s, r, item), r, err)

FailOne(s, item, err) ==
  LET r == s.by_seq[item.id]
      t == RetireReservation(s, r, item)
  IN  IF item.id \notin DOMAIN s.by_seq THEN s
      ELSE IF t.status[r] = "Active" THEN SendErrorEvent(t, r, err) ELSE t

Failing(s, items, err) ==
  LET after[i \in 0 .. Len(items)] ==
        IF i = 0 THEN s ELSE FailOne(after[i - 1], items[i], err)
  IN  after

FailBatch(s, items, err) == Failing(s, items, err)[Len(items)]

-----------------------------------------------------------------------------
(* Cleanup. *)

(* Faulty variant: a cancelled request does not leave. *)
TerminalNotCancelled(s, r) ==
  Scheduled(s, r) /\ s.status[r] \in {"Finished", "Failed"} /\ s.seq[r].leases = 0

(* A terminal request leaves its index once it has no execution lease; the *)
(* two queues do not ask for the lease.                                    *)
TerminalRunning(s, r) ==
  Scheduled(s, r) /\ s.status[r] # "Active" /\ s.seq[r].leases = 0

(* Admissions resume when a running sequence has left. *)
PauseAfterCleanup(paused, ended) == paused /\ ended = <<>>

CleanupTerminalRequests(s) ==
  LET terminal == {r \in Request : TerminalRunning(s, r)}
      active   == {r \in Request : s.status[r] = "Active"}
      ended    == Keep(s.running, terminal)
      queued   == Keep(s.skip \o s.waiting, Request \ active)
  IN  [Drop(s, ended \o queued) EXCEPT
         !.running = Keep(@, Request \ terminal),
         !.paused  = PauseAfterCleanup(@, ended),
         !.skip    = Keep(@, active),
         !.waiting = Keep(@, active)]

(* The sequences whose GDN state this cleanup gives back                   *)
(* (executor_.release_sequence).                                           *)
CleanupReleases(s) ==
  {s.seq[r].id : r \in {q \in Range(s.running) : TerminalRunning(s, q)}
                      \union {q \in Range(s.skip \o s.waiting) :
                                /\ s.status[q] # "Active"
                                /\ Scheduled(s, q) /\ s.seq[q].leases = 0}}

FailAllWaiting(s, err) ==
  LET queued == s.waiting \o s.skip
  IN  [Drop(SendEvents(s, Range(queued), ErrorEvent(err)), queued) EXCEPT
         !.waiting = <<>>, !.skip = <<>>]

(* Faulty variant: only the active requests are removed. *)
CleanupActiveOnly(s, err) ==
  LET active == {r \in Range(s.running) : s.status[r] = "Active"}
      t      == [s EXCEPT !.status = [r \in Request |->
                            IF r \in active THEN "Failed" ELSE @[r]]]
  IN  [Drop(SendEvents(t, active, ErrorEvent(err)), Keep(s.running, active)) EXCEPT
         !.running = Keep(@, Request \ active)]

CleanupAllRunning(s, err) ==
  LET active == {r \in Range(s.running) : s.status[r] = "Active"}
      t      == [s EXCEPT !.status = [r \in Request |->
                            IF r \in active THEN "Failed" ELSE @[r]]]
  IN  [Drop(SendEvents(t, active, ErrorEvent(err)), s.running) EXCEPT !.running = <<>>]

-----------------------------------------------------------------------------
(* What the engine loop asks before it sleeps. *)

HasSchedulableWork(s) ==
  \/ s.skip # <<>> /\ Len(s.running) < MaxRunning
  \/ \E r \in Range(s.running) :
       LET q == s.seq[r]
       IN  /\ IsSchedulable(s, r)
           /\ IF IsPrefillPhase(q.phase)
              THEN q.cursor + q.res_prompt < Len(s.prompt[r])
              ELSE /\ Len(s.gen[r]) + q.res_gen < MaxTokens[r]
                   /\ q.phase = "Bootstrap" => q.res_gen = 0
=============================================================================
