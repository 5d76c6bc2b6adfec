# Verification of ccInfer

ccInfer is an LLM inference server in C++: an HTTP front end, a scheduler that
batches requests continuously, a worker thread that runs the batches on a GPU, a
paged KV cache with prefix sharing, and recurrent (GDN) states for hybrid
models. This directory holds TLA+ models of its control, the TLC configurations
that check them on small instances and proofs that TLAPS checks for every
instance. Source paths below are relative to the repository (`src/...`);
`PROJECT.json` maps every definition to the lines it stands for.

## The system and its parts

| Part | Source | Modules | State |
|---|---|---|---|
| Block pool | `block/block_pool` | `KVBlocks`, `KVOwnership`, `BlockManager` | modelled |
| Prefix cache | `cache/block_cache`, `cache/prefix_cache` | `KVBlocks`, `BlockManager` | modelled |
| Scheduler | `scheduler/scheduler` | `Scheduler`, `Engine` | modelled |
| Engine core | `engine/engine_core` | `Engine` | modelled |
| Worker: running a batch | `worker/worker`, `worker/model_runner.h` | `Worker`, `Engine`, `Forward` | modelled |
| Worker: thread, executor | `worker/worker`, `executor/` | `WorkerThread`, `BatchQueue` | modelled |
| HTTP server | `http/http_server` | `HttpServer`, `HttpRequest` | control and reading of requests; texts of replies not |
| State pool, state cache | `state/state_pool`, `cache/state_cache` | `StateCache` | modelled |
| Tokenizer | `tokenizer/byte_level_bpe_tokenizer` | `Tokenizer` | algorithm modelled |
| Checkpoints, model configuration | `checkpoint/`, `config/model_config` | `Checkpoint` | modelled |
| Models, KV storage, Q8_0 | `model/`, `block/block_storage`, `quant/` | `Checkpoint`, `Forward` | weights and the Qwen3 forward pass; kernels abstract |
| Start and stop | `main.cpp`, `config/engine_config` | in the modules above | load, shutdown order, `validate` |
| Tensors, backend, GGUF tokenizer metadata | `runtime/`, `backend/`, `tokenizer/gguf_tokenizer` | - | see "Not modelled" |

Three threads matter. The *HTTP thread* runs the `http_io` context: accept loop
and one coroutine per connection. `Scheduler::submit` and `cancel` only post
handlers to the *scheduler thread*, where the coroutine `EngineCore::run` builds
batches, dispatches up to `max_concurrent_batches` of them and collects the
oldest. The *worker thread* takes batches from a queue under a mutex, binds late
tokens, runs the model and posts the completion back to the scheduler thread.
Tokens go to the HTTP thread as handlers that `send_event` posts. `main` shuts
down HTTP, scheduler and executor in this order.

## Modules

**`KVBlocks`** has the pool and the cache index as operators on a record (free
list in order, reference counts, `by_hash` with its buckets, idle LRU):
`LookupPrefixCache`, `PublishFullBlock`, `EvictOne`, `AllocateKVBlocks` (with the
failure of `allocate_blocks` after it has taken some blocks),
`ReleaseRequestBlocks`. A chain hash folds the whole prefix, so the prefix itself
is the key: hash collisions are outside the model.

**`BlockManager`** drives them with sequences that are admitted, retire their prompt
in chunks of any length and their decoded tokens one by one, publish, grow and leave.
`parent`, `pending` and `frontier` are `parent_hash`, `pending_hash_tokens` and
`executed_frontier`; one round of the publishing loop of `retire_work` is one step. **`KVOwnership`** is the abstract specification: who owns a block, as
sets, without orders. `BlockManager` implements it (`ImplementsOwnership`, proved).
**`Collections`** has the maps, filters and loops with a `seen` set that `KVBlocks`,
`StateCache` and `HttpServer` share.

**`Scheduler`** has every method of the class that changes state as an operator
from one scheduler record to the next (submission, cancellation, admission with
prefix hits, building of prefill, bootstrap and decode work, suspension, eviction
of skipped sequences, retirement of results, failure of a batch, cleanup,
shutdown). **`Worker`** does the same for running a batch: failed sequences, late
binding, active states, slots written, sampling. The KV of a token depends on
every token before it, so a KV slot *holds* the tokens up to its own, and
sampling is a constant function of the attended tokens: a wrong slot, a stale
block or a wrong token shows up as a wrong output.

**`Engine`** composes the two: the coroutine with its two suspension points
(`wait_for_work`, `collect_batch`), posted handlers that run only there, the
worker's queue, clients that disconnect, faults of backend and executor, and
`main`'s shutdown. Each read of `accepting_` is a step of its own because other
threads write it at any time; what the coroutine does between two such reads is
one step, since nothing else runs on its thread.

**`WorkerThread`** refines the worker's queue to single accesses of mutex,
condition variable and `running_`. **`BatchQueue`** is the FIFO executor that
`Engine` assumes; `WorkerThread` implements it (`ImplementsExecutor`, proved).

**`HttpServer`** models accept loop, connection coroutines, the token stream and
shutdown. An asynchronous operation completes in one step and its coroutine is
resumed in a later one, and other handlers run between. No order is assumed
between I/O completions and posted handlers (asio promises none); posted events
are FIFO among themselves. The scheduler is seen through its promise: events
until the request ends or its cancellation arrives, which may be later than the
cancel itself, as it is posted to the other thread. A channel is the events it
holds followed by those whose `async_send` waits for room, which is all that its
capacity (16) decides.

**`HttpRequest`** is one connection of `HttpServer` seen from closer: `read_line`
and `read_body` over a stream that is cut into reads anywhere, the headers, the
routes, and `parse_chat_request`. A byte is a symbol: the text of a line is one,
CR and LF are symbols of their own. The JSON document of a body is chosen, with
each field missing, invalid or valid, when the whole body is there.

**`Checkpoint`** loads a model: the safetensors header and `config.json`, or the
GGUF file entry by entry, by the byte counts of the formats; `ModelConfig` with its
defaults and `validate`; the tensors that `Qwen3Weights::load` and
`Qwen35Weights::load` ask for, with their names, shapes, types, the split of fused
rows and the decoding of Q8_0 blocks to bfloat16 bit by bit. `Damaged` gives the
files that may be on disk instead of a sound one. The Qwen3 loader copies the bytes
of the shape whatever the length of the entry is; past the end of the file it reads
zeros or faults (`SafetensorsRead`, `ReadFaults`), and either may happen. An
architecture in GGUF that is not a string throws, and nobody catches it (`Crash`). The registry knows Qwen3 only, so
the server refuses a GGUF file; `Qwen35Weights::load` is called by tests, and the
model reaches it as the caller `loader`.

**`Forward`** goes on with a loaded Qwen3 model: `BatchTranslator::translate`,
`Qwen3Model::forward` with its two hidden buffers and their views, the slot and block
views of `BlockStorage`, greedy sampling, and failures between the kernels. Its
kernels are mixing functions modulo a prime: a wrong operand, row, position or order
shows in the result. The reference, computed from the file's model on the whole
sequence at once, uses no batches, blocks or buffers. Sequences get all of their
blocks at admission. This is what lets `Worker` take a batch as one step that
samples from the tokens attended to.

**`StateCache`** models `StatePool` and the snapshot cache, with memsets and
device copies that fail half-way. In the server `StateCache` is constructed and
not called; it is checked against its interface and its unit tests.

**`Tokenizer`** models both loaders, the byte map with its UTF-8 coding, the
pre-tokenizer loop of `encode` (one action per branch), byte-pair merging and
`decode`. Strings are sequences of bytes.

A `MC...` module gives constants their values for TLC; operators marked *Faulty
variant* are plausible mistakes, used to confirm that the property named for them
in `PROJECT.json` notices them. They are in no specification.

## Runs

Runs that pass:

| Run | Distinct states | What it shows |
|---|---|---|
| `block_manager` | 261 thousand | 3 blocks of 2 tokens, 2 sequences: `OwnershipInv` (reference counts match holders, free and lost blocks are used by nobody, nothing vanishes); free list, LRU and index agree; the blocks of a prefix hit keep their entry and key while they are held; refinement of `KVOwnership` |
| `engine` | 467 thousand | Three requests, two with a shared prefix, two batches in flight, a client that leaves, a fault, a shutdown at any time: reservations equal outstanding work, writes are private, context limits, block accounting, one terminal event, greedy output, cache contents, no sleep with work left, nothing left after shutdown |
| `engine_tight` | 106 thousand | The same control over three blocks that failed allocations may drain, with a prompt in chunks, suspensions and replayed prefills: one position per request, blocks in flight stay put, a pause can always end; requests are answered and cancelled ones leave unless the pool stays too small, shutdown ends |
| `worker_thread` | 928 | `ThreadInv`, no lost, doubled or reordered batch, completion of whatever was accepted |
| `http` | 861 thousand | No request left running for nobody, the drain is complete, no event lost or overtaken, closed connections end |
| `http_request` | 35 thousand | However a request is cut into reads, it gets the answer it calls for; what is submitted the runner supports; every request is answered |
| `model` | 217 thousand | A model that becomes ready is the one the checkpoint was made from, and which defects of a file keep it from becoming one; cached keys and values and sampled tokens are the reference's, in any mix of prefills, decodes, bootstraps, shared blocks and failed batches |
| `state_cache` | 290 thousand | Each state in one place, snapshots hold the prefix they are found under, a sequence's state changes only in its own batches and restores |
| `tokenizer` | 226 thousand | Every text of up to 5 characters and every single byte: decode undoes encode, segments meet where the rules of the comment cut (with one exception), one-pass merging equals pair-by-pair merging |

Runs that end in a violation, each against a statement of the repository:

| Run | Statement | What the code does |
|---|---|---|
| `late_binding` | assertion `worker.cpp:265` | A resumed sequence whose prompt is fully cached decodes before the worker has a token for its new id |
| `chunked_cache` | `test_prefix_cache_e2e.cpp:47` | Chunks but the last do not enter the hash chain: a block is published under a wrong prefix, and a later prompt gets wrong output |
| `lost_wakeup` | `README.md:74` graceful shutdown | `Worker::shutdown` stores and notifies without the mutex; the worker may fall asleep after both and the join never returns |

Further configurations reproduce smaller disagreements; they are listed with the
hazards and are not among the runs:

| Configuration | Property | Statement | What the code does |
|---|---|---|---|
| `MCBlockManagerLeak` | `RefsAreRequestRefs` | `block.h:29` "request / sequence refs only" | A failed `allocate_blocks` keeps what it took: references without a request |
| `MCBlockManagerRetain` | `RetainedAreReferenced` | assertion `block_pool.cpp:58` | A hit on an idle block is retained with `ref_count` 0 |
| `MCEngineResumed` | `BindsSampledToken` | `worker.cpp:261-266` | A replayed prefill leaves the last replayed token to be bound, not the last sampled one |
| `MCEngineStates` | `ShutdownReleasesStates` | `main.cpp:205` | Sequences running at shutdown keep their GDN state |
| `MCHttpServerLate` | `ShutdownClosesSockets` | `main.cpp:202` | A connection accepted just before the shutdown handler is served with its socket open |
| `MCHttpServerCallback` | `NoCallbackAfterDrain` | `main.cpp:203` | A posted event outlives the HTTP drain and calls `scheduler.cancel`, which is harmless |
| `MCTokenizerAccent` | `SpecialTokensPreserved` | `byte_level_bpe_tokenizer.cpp:583` | A special token's character from U+00A1 to U+0143 is decoded as a mapped byte |
| `MCTokenizerRules` | `RulesToTheLetter` | `byte_level_bpe_tokenizer.cpp:450-455` | Of several spaces before a newline the last is cut off when a word follows the newlines |

`GreedyOutput` is checked in `engine`, where no sequence is suspended and no
prompt is chunked; `MCEngineResumed` and `chunked_cache` show what happens
otherwise, and `engine_tight`, where both happen, does not state it. Likewise
`BlocksAccounted` belongs to pools that do not run short (`MCBlockManagerLeak`);
`KVOwnership` carries the blocks so lost in `lost`. The liveness properties of
`engine_tight` hold unless the assertion of `resolve_batch` ends the process, which
`late_binding` shows to be possible; `crashed` is an alternative in each of them.
`RequestsEnd` and `CancelledLeave` have a second one, `[]Starved`: when allocations
that ran short have taken blocks that a waiting request needs, `admit_one_waiting`
puts it back and `EngineCore::run` tries again, for ever and without suspending, so
that a posted cancel never runs. Without that alternative both fail. `ShutdownEnds`
needs none: the loop reads `accepting_` before each retry.

`AnswerIgnoresReads` excludes two cuts by name. A read that ends between the CR and
the LF of the blank line leaves a line that is not empty, so the headers do not end
(`read_line` cuts off a CR only if it came with its LF); and next to the header
limit the CR of a cut line counts. `RequestIsAnswered` excludes the first.
An empty request line ends the connection without an answer.

`LoadsTheModel` says what becomes of each defect. A file that is cut short, lacks a
tensor or a key, or has one of another shape or type is refused, but for these, which
the load does not notice (`Unnoticed`): a predictor tensor is cut short or the GGUF
vocabulary is missing, neither of which the load uses; entries of `model.safetensors`
end before their shapes do, while the bytes are there; a `q_norm` or `k_norm` is
missing, and the model is served without that norm; the last entry and the file end
before its shape, and the process faults or serves other numbers in that tensor. The
properties of `Forward` are about the model so loaded and leave the last case out.

`HitsStayCached` is about the blocks a lookup found. The keys under which a sequence
publishes its own blocks may be wrong after a prompt in chunks (`chunked_cache`), and
no property of `block_manager` says otherwise.

### Bounds

- *Blocks of two tokens, prompts of one to four*: partial, exactly full and
  several full blocks, a prompt that is one cached block, a shared prefix.
- *Two batches in flight, two or three requests*: a later batch overtaken by the
  end, failure or cancellation of its sequence; a third request that waits.
- *`MaxSeqId`* caps the sequence ids given out. A run that reached it would stop
  there and fail its liveness properties; `engine_tight` does not, and allows
  several resumptions.
- *`MaxFaults`*: one failing dispatch or batch anywhere in `engine`, none in
  `engine_tight`.
- *`NextToken`* changes with every earlier token and its place, so an output
  computed from other tokens differs.
- *`WorkerThread`, 3 batches*: one processed, one queued, one arriving.
- *`HttpServer`, 2 connections, 2 events, 1 accept error*: a stream with a token
  and a last event, one client that stays (`Reliable`) and one that leaves.
- *`HttpRequest`, `kMaxHeaderSize` 12*: headers below, at and above the limit;
  bodies with line ends and with bytes beyond `Content-Length`; every sampling
  parameter at and next to its limits.
- *`Checkpoint`*: two layers for Qwen3; for Qwen3.5 three, of both kinds, and a
  predictor layer; a GGUF file cut at forty places, each needed tensor missing, of
  another shape and of another type, each key missing, of another type and zero; a
  safetensors file without a norm, with short entries, or too short for its last one;
  scales that are subnormal, and floats on a tie or just below a power of two.
- *`Forward`*: two sequences, one with the other's first block as its whole prompt,
  four blocks of two tokens, two new tokens each, batches of one or two items.
- *`StateCache`*: three sequences for two states, two snapshots.
- *`Tokenizer`*: two letters that merge, one unknown, space, tab, newline and the
  start of two special tokens of which one is a prefix of the other; the GGUF
  vocabulary has no unknown token (encode fails), the JSON one has.

Deadlock checking is off where the system may stop: everything answered, or shut
down. `BlockManager` and `StateCache` never stop and are checked for it.

### Fairness

`Engine`: the coroutine moves when it can, posted handlers run when the
coroutine is suspended again and again (the io_context runs handlers in order),
the worker runs queued batches, or aborts on one it cannot bind. Clients and `main`
owe nothing. `WorkerThread`: threads that can run do, and one that keeps asking for
the mutex gets it; no spurious wakeup is assumed. `HttpServer`: what can be resumed is resumed, posted
handlers run; the network owes nothing. `HttpRequest`: the coroutine is resumed,
and bytes that were sent arrive, unless the client leaves.

## Proofs

`KVOwnershipProofs` (for any set `Block` and any finite set `Owner`;
`OwnershipAssumption`). The inductive invariant `OwnershipInv` adds to the
reference counts that free blocks are unused, lost blocks unreachable and that
nothing vanishes; a count alone is not inductive, because an allocation sets it to
1 and is right only if the block taken has no holder, which `TakeableIsUnused`
derives from the other conjuncts. One lemma per action; those on cardinalities
(`OneMoreHolder`, `OneHolderLess`) carry the counting. From it follow `RefCounts`,
`FreeIsUnused`, `NothingVanishes` and the action properties
`SharedOnlyThroughCache` and `HeldStaysCached`. `block_manager` checks the same
`OwnershipInv` on the concrete pool, and that the pool implements the specification
the theorems are about; `BlockManagerProofs` proves both.

`BlockManagerProofs` (for any number and size of blocks, any set of prompts that are
not empty, any finite set of sequences; `PoolAssumption`, `PromptsAssumption`,
`OwnershipAssumption`). `BlockInv` has two halves. `Tables` is about the lists: a pool
whose free list, idle LRU and buckets agree, tables without duplicates and as long as
their tokens need, no more pending tokens than retired ones, and the blocks of each
prefix hit in the bucket of the prompt up to their place (`HitsNamed`). It is
shown action by action, and in the same cases that each action is a step of
`KVOwnership`. The other half, `OwnershipInv`, is then not proved again: it is
instantiated from `KVOwnershipProofs` through that refinement. Each half needs the
other: a block taken from the free list may become private because nobody holds it,
and the mapped step exists because the lists have no duplicates. `HitsStayCached`
follows from `HitsNamed`, which survives evictions because only blocks without a
reference are evicted, and a hit that is held has one.
`KVBlockLemmas` says what `LookupPrefixCache`, `PublishFullBlock`, `EvictOne`,
`AllocateKVBlocks` and `ReleaseRequestBlocks` do to the sets of free, idle and cached
blocks, and that they keep the lists in agreement.

`StateCacheProofs` (any numbers of states and snapshots, any sequences and tokens).
`StateInv` joins the accounting of the states with what the snapshots hold. Each needs
the other: a copy leaves the other snapshots alone because no state is on a free list
and in an entry at once. From it follow `StatesAccounted`, `SnapshotsHoldTheirPrefix`
and the action property `StatesAreIsolated`.

`HttpServerProofs` (any connections, events and accept errors). `HttpInv` relates the
accept loop, `active_conns_` and the promise, and adds that an event marked last, in a
channel, in a posted handler or in the hands of `handle_chat`, belongs to a request
that has ended: that is why the coroutine may leave without a cancel after writing it.
From it follow `NoOrphanRequest`, `DrainIsComplete` and `StreamInOrder`.

`CollectionLemmas` has the facts about maps and sequences that these proofs share.
The loops of the code that the models write as recursive functions (`Keep`, `Distinct`,
`Evicting`) are reasoned about by induction: the provers cannot instantiate the
library's induction theorems, so `NatSetInduction` and `IntervalInduction` restate
induction over a *set* of numbers, and `ChainExists` gives the recursive function.

`WorkerThreadProofs` (for any number of batches; `ThreadAssumption`). `ThreadInv`
says that the mutex is held exactly in the critical sections, that a worker about
to block has seen an empty queue which nobody can have filled since, and that
`local_queue` is empty outside processing. From it follow `NoBatchLeftAsleep`,
`ExitLeavesNothing` and `ImplementsExecutor`: every step is a step of
`BatchQueue` on `local \o queue`, or stutters.

The inductive invariants are themselves checked by TLC on the instances of the runs.

Model-checked only: everything about `Scheduler`, `Engine`, `Worker`,
`HttpRequest`, `Tokenizer`, `Checkpoint` and `Forward`, and all liveness (fairness and
`ENABLED` are beyond the prover). `ApplyBpe` and `DecodeStream` are RECURSIVE operators,
which the prover does not take.

## Not modelled

- *The arithmetic of the kernels* (`backend/`, `facade/`), the table of `RopeCache`
  and device memory: floating-point results are not something TLC can compare, and
  `Forward` needs only which operands meet. `forward` asserts that positions stay
  below the rows of that table, while the scheduler takes a request's limit from
  the request or the pool: listed as a hazard without a property.
- *A forward pass of Qwen3.5*: the source has its weights and states, no pass.
- *`float_to_half` and the Q8_0 encoder*: only tests call them.
- *GGUF tokenizer metadata*: strings copied once at start-up into the vocabulary
  that `Tokenizer` takes as a constant.
- *Views and strides of tensors* and the overflow checks of the storage sizes:
  64-bit products far above what an instance can reach.
- *JSON and SSE texts, metrics and `capacity()`*, which only read or format.
- *`main`* as one module: option parsing and the signal handler hold no state; its
  three shutdown steps are in the modules of the parts they stop.
- Hash collisions, and integer overflow of ids (64 bits).

The reference into an erased list node in `release_and_move_to_wait` is listed as a
hazard without a property. `capacity()`
reads on the HTTP thread what the scheduler thread writes; its values feed no
decision. `latest_tokens_` and `failed_sequences_` grow with every sequence, which a
bounded model cannot show.
