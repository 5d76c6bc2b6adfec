------------------------------- MODULE Worker --------------------------------
(***************************************************************************)
(* The execution of a batch by the worker thread (src/worker/worker.cpp,   *)
(* src/worker/model_runner.h): late binding, active GDN states, the slots  *)
(* a batch writes, sampling, and what the worker remembers between batches.*)
(*                                                                         *)
(* A worker is a record                                                    *)
(*   latest  latest_tokens_: sequence id -> last token of the sequence     *)
(*   failed  failed_sequences_                                             *)
(*   states  StatePool::active_by_seq_: sequence id -> the tokens its      *)
(*           recurrent state has absorbed                                  *)
(*   kv      the KV storage.  The KV of a token depends on every token     *)
(*           before it, so a slot holds the tokens up to its own.          *)
(***************************************************************************)
EXTENDS Integers, KVBlocks

CONSTANTS NextToken(_),   \* greedy sampling: tokens so far -> next token
          EosToken,       \* SamplingParams::eos_token_id
          HasState,       \* the model has recurrent layers (a StatePool)
          MaxStates       \* max_active of the StatePool

InitWorker ==
  [latest |-> <<>>, failed |-> {}, states |-> <<>>,
   kv |-> [b \in Block |-> [i \in 0 .. BlockSize - 1 |-> <<>>]]]

(* StatePool::release_active, for a set of sequences. *)
ReleaseSequences(w, ids) ==
  [w EXCEPT !.states = Without(@, ids)]

(* resolve_batch: the items whose sequence has not failed. *)
Stale(w, item) == item.id \in w.failed
Live(w, items) == {i \in DOMAIN items : ~Stale(w, items[i])}

(* A late-bound item of a sequence without a latest token: the assertion   *)
(* of resolve_batch fails.                                                 *)
Unbound(w, items) ==
  \E i \in Live(w, items) : items[i].bind /\ items[i].id \notin DOMAIN w.latest

Inputs(w, item) == IF item.bind THEN <<w.latest[item.id]>> ELSE item.tokens

(* acquire_active for the items in order, until the pool is exhausted; a   *)
(* fresh state is zeroed.                                                  *)
AcquireStates(w, items) ==
  LET acquire(acc, i) ==
        IF \/ ~acc.ok \/ i \notin Live(w, items)
           \/ items[i].id \in DOMAIN acc.states
        THEN acc
        ELSE IF Cardinality(DOMAIN acc.states) = MaxStates
             THEN [acc EXCEPT !.ok = FALSE]
             ELSE [acc EXCEPT !.states = Insert(@, items[i].id, <<>>)]
      after[i \in 0 .. Len(items)] ==
        IF i = 0 THEN [ok |-> TRUE, states |-> w.states]
        ELSE acquire(after[i - 1], i)
  IN  after[Len(items)]

-----------------------------------------------------------------------------
(* The slots of positions in a block table (BatchTranslator::translate). *)
SlotBlock(item, pos) == item.table[pos \div BlockSize + 1]
SlotOffset(pos) == pos % BlockSize

(* The tokens whose KV an item finds before its own: what the slot of the  *)
(* last earlier position holds.                                            *)
Before(w, item) ==
  IF item.context = 0 THEN <<>>
  ELSE w.kv[SlotBlock(item, item.context - 1)][SlotOffset(item.context - 1)]

(* All tokens the last query row of the item attends to.  A bootstrap item *)
(* repeats the last prompt token, whose KV is already there.               *)
Attended(w, item) ==
  IF item.write THEN Before(w, item) \o Inputs(w, item) ELSE Before(w, item)

(* Faulty variant: a bootstrap item writes the KV of its token again. *)
WriteAlways(item) ==
  IF item.write THEN item.context .. item.context + Len(item.tokens) - 1
                ELSE {item.context - 1}

WritePositions(item) ==
  IF item.write THEN item.context .. item.context + Len(item.tokens) - 1 ELSE {}

(* The KV after an item wrote its slots. *)
WriteKV(w, item) ==
  LET all == Attended(w, item)
      upto(pos) == SubSeq(all, 1, Len(Before(w, item)) + pos - item.context + 1)
  IN  [w EXCEPT !.kv = [b \in Block |-> [i \in 0 .. BlockSize - 1 |->
         IF \E pos \in WritePositions(item) :
               SlotBlock(item, pos) = b /\ SlotOffset(pos) = i
         THEN upto(CHOOSE pos \in WritePositions(item) :
                     SlotBlock(item, pos) = b /\ SlotOffset(pos) = i)
         ELSE @[b][i]]]]

(* ModelRunner::inference for one item, and the token it leaves behind. *)
Sampled(w, item) == IF item.sample THEN <<NextToken(Attended(w, item))>> ELSE <<>>

Result(w, item) ==
  IF Stale(w, item) THEN [sampled |-> <<>>, eos |-> FALSE, stale |-> TRUE]
  ELSE [sampled |-> Sampled(w, item), eos |-> Sampled(w, item) = <<EosToken>>,
        stale |-> FALSE]

(* Faulty variant: the first token of a sequence is never replaced. *)
RememberFirst(latest, id, t) ==
  IF id \in DOMAIN latest THEN latest ELSE Insert(latest, id, t)

(* latest_tokens_[seq_id] = token *)
Remember(latest, id, t) == Insert(latest, id, t)

Execute(w, item) ==
  [WriteKV(w, item) EXCEPT
     !.states = IF item.id \in DOMAIN @
                THEN [@ EXCEPT ![item.id] = @ \o Inputs(w, item)] ELSE @,
     !.latest = Remember(@, item.id, IF item.sample THEN Sampled(w, item)[1]
                                     ELSE Back(Inputs(w, item)))]

-----------------------------------------------------------------------------
(* process_batch.  The items of a batch belong to different sequences, so  *)
(* their order does not matter.  A failure, of the state pool or of the    *)
(* backend (fault), marks every live sequence of the batch as failed.      *)
Failure(w, items, states, err) ==
  [w |-> [w EXCEPT !.failed = @ \union {items[i].id : i \in Live(w, items)},
                   !.states = states],
   out |-> [ok |-> FALSE, error |-> err, results |-> <<>>]]

ProcessBatch(w, items, fault) ==
  LET acquired == IF HasState THEN AcquireStates(w, items)
                              ELSE [ok |-> TRUE, states |-> w.states]
      ready    == [w EXCEPT !.states = acquired.states]
      after[i \in 0 .. Len(items)] ==
        IF i = 0 THEN ready
        ELSE IF Stale(w, items[i]) THEN after[i - 1]
        ELSE Execute(after[i - 1], items[i])
      out      == [ok |-> TRUE, error |-> "None",
                   results |-> [i \in DOMAIN items |-> Result(ready, items[i])]]
  IN  IF Live(w, items) = {} THEN [w |-> w, out |-> out]
      ELSE IF ~acquired.ok
      THEN Failure(w, items, acquired.states, "MaxSequencesReached")
      ELSE IF fault THEN Failure(w, items, acquired.states, "InternalError")
      ELSE [w |-> after[Len(items)], out |-> out]
=============================================================================
