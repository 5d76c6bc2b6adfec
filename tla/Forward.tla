------------------------------- MODULE Forward -------------------------------
(***************************************************************************)
(* What a batch computes once a Qwen3 model is ready: its translation into *)
(* arrays (src/worker/worker.cpp, BatchTranslator::translate), the forward *)
(* pass with its buffers (src/model/qwen3/qwen3_model.cpp), the KV storage *)
(* and its views (src/block/block_storage.cpp), and the sampling           *)
(* (src/worker/model_runner.h).  Module Worker takes all of this as one    *)
(* step that samples from the tokens attended to; this module shows that   *)
(* a batch does compute that.                                              *)
(*                                                                         *)
(* A sequence is a prompt, a block table and the number of its tokens in   *)
(* the cache; an item is [seq, prefill, tokens, context, write, sample,    *)
(* table].  Rows, items and positions in a sequence count from 1 where     *)
(* they index a sequence; token positions, slots and blocks count from 0.  *)
(* An activation is one number for a row of hidden, one per row of a head  *)
(* in q, k and v.  The kernels of ccop are mixing functions modulo a       *)
(* prime: a wrong operand, row, position or order shows in the result.     *)
(***************************************************************************)
EXTENDS Checkpoint

CONSTANTS Prompts,     \* a sequence of token ids for each request
          MaxNew,      \* the tokens a request asks for
          MaxBlocks,   \* EngineConfig::max_blocks
          BlockSize    \* EngineConfig::kv_block_size

ASSUME ForwardAssumption == {MaxNew, MaxBlocks, BlockSize} \subseteq Nat \ {0}

VARIABLES seqs,    \* the sequences of the scheduler
          kv,      \* BlockStorage: the buffers k_data_ and v_data_
          batch,   \* the items in execution and their PhysicalBatch
          bufs,    \* the contents of the two hidden buffers
          refs,    \* which buffer hidden, next_hidden and their flat views use
          layer,   \* l
          step,    \* where forward is
          expect   \* history: what each sequence should be and have cached

forwardVars == <<seqs, kv, batch, bufs, refs, layer, step, expect>>
vars == <<loadVars, forwardVars>>

Seqs == DOMAIN Prompts

-----------------------------------------------------------------------------
(* The kernels. *)

Mix(a, b) == ((a * 131) + (b * 17) + 11) % 8191
MixAll(a, xs) ==
  LET mixed[i \in 0 .. Len(xs)] == IF i = 0 THEN a ELSE Mix(mixed[i - 1], xs[i])
  IN  mixed[Len(xs)]

RmsNorm(w, x) == Mix(w + 1, x)
Gemm(w, x) == Mix(w + 2, x)
SiluMul(g, u) == Mix(g + 3, u)
ElementAdd(x, y) == (x + y) % 8191

HeadDim == config.head_dim
QDim == config.n_q_heads * HeadDim
KVDim == config.n_kv_heads * HeadDim
HeadOf(i) == (i - 1) \div HeadDim
RowInHead(i) == ((i - 1) % HeadDim) + 1
HeadSlice(xs, h) == SubSeq(xs, (h * HeadDim) + 1, (h + 1) * HeadDim)

(* rms_norm over the heads, rope with the position of the token *)
NormHeads(w, xs) == [i \in DOMAIN xs |-> RmsNorm(w[RowInHead(i)], xs[i])]
Rope(xs, pos) == [i \in DOMAIN xs |-> Mix(xs[i], 1000 + (10 * pos) + RowInHead(i))]

(* A query head attends to the key head of its group, position by position. *)
Attend(q, ks, vs) ==
  [i \in DOMAIN q |->
     LET g == HeadOf(i) \div (config.n_q_heads \div config.n_kv_heads)
         mixed[p \in 0 .. Len(ks)] ==
           IF p = 0 THEN MixAll(0, HeadSlice(q, HeadOf(i)))
           ELSE MixAll(mixed[p - 1], Append(HeadSlice(ks[p], g),
                                            vs[p][(g * HeadDim) + RowInHead(i)]))
     IN  mixed[Len(ks)]]

(* greedy_sample: the first of the largest logits *)
ArgMax(xs) == CHOOSE i \in DOMAIN xs : \A j \in DOMAIN xs :
                xs[j] < xs[i] \/ (xs[j] = xs[i] /\ i <= j)
Logits(lm_head, x) == [t \in DOMAIN lm_head |-> Gemm(lm_head[t], x)]

-----------------------------------------------------------------------------
(* BlockStorage: the buffers of all layers, one after the other. *)

LayerStride == MaxBlocks * BlockSize
Cells == 0 .. config.n_layers * LayerStride - 1

(* k_layer_tensor and k_block_tensor view the same buffer: by slots, for   *)
(* write_kv_cache, and by blocks, for the attention.                       *)
SlotCell(l, slot) == (l * LayerStride) + slot
BlockCell(l, b, i) == (l * LayerStride) + (b * BlockSize) + i

ZeroStorage ==
  LET zero == [c \in Cells |-> [i \in 1 .. KVDim |-> 0]] IN [k |-> zero, v |-> zero]

-----------------------------------------------------------------------------
(* BatchTranslator::translate. *)

(* Faulty variant: an item that writes nothing is placed after the last    *)
(* cached token.                                                           *)
PositionAfterContext(item) == item.context

(* A bootstrap item repeats the last token of its context. *)
FirstPosition(item) == IF item.write THEN item.context ELSE Max({0, item.context - 1})

SlotOf(item, pos) ==
  (item.table[(pos \div BlockSize) + 1] * BlockSize) + (pos % BlockSize)

AddItem(b, item) ==
  LET offset == Len(b.token_ids)
      tokens == Len(item.tokens)
      pos == [t \in 1 .. tokens |-> FirstPosition(item) + t - 1]
  IN  [token_ids |-> b.token_ids \o item.tokens,
       positions |-> b.positions \o pos,
       slots |-> b.slots \o [t \in 1 .. tokens |->
                               IF item.write THEN SlotOf(item, pos[t]) ELSE -1],
       block_table |-> Append(b.block_table, item.table),
       query_start |-> Append(b.query_start, offset + tokens),
       context_lens |-> Append(b.context_lens,
                               item.context + IF item.write THEN tokens ELSE 0),
       logits_indices |-> Append(b.logits_indices,
                                 IF item.sample THEN Len(b.logits_rows) + 1 ELSE -1),
       logits_rows |-> IF item.sample THEN Append(b.logits_rows, offset + tokens)
                       ELSE b.logits_rows,
       prefill |-> b.prefill \/ item.prefill]

NoBatch == [token_ids |-> <<>>, positions |-> <<>>, slots |-> <<>>, block_table |-> <<>>,
            query_start |-> <<0>>, context_lens |-> <<>>, logits_indices |-> <<>>,
            logits_rows |-> <<>>, prefill |-> FALSE]
Translate(items) == FoldLeft(LAMBDA b, item : AddItem(b, item), NoBatch, items)

-----------------------------------------------------------------------------
(* Qwen3Model::forward. *)

W(field) == loaded[<<layer, field>>]
HasNorm(field) == <<layer, field>> \in DOMAIN loaded
Rows == DOMAIN batch.phys.token_ids
Hidden == bufs[refs.hidden]

(* Faulty variant: the views are not swapped with their buffers. *)
ResidualKeepsViews(out) ==
  LET written == [bufs EXCEPT ![refs.next_hidden] = out]
  IN  /\ bufs' = [written EXCEPT ![refs.next_hidden_flat] =
                    [r \in Rows |-> ElementAdd(@[r], written[refs.hidden_flat][r])]]
      /\ refs' = [refs EXCEPT !.hidden = refs.next_hidden, !.next_hidden = refs.hidden]

(* The gemm into next_hidden, the element_add of the flat views, and both  *)
(* swaps.                                                                  *)
Residual(out) ==
  LET written == [bufs EXCEPT ![refs.next_hidden] = out]
  IN  /\ bufs' = [written EXCEPT ![refs.next_hidden_flat] =
                    [r \in Rows |-> ElementAdd(@[r], written[refs.hidden_flat][r])]]
      /\ refs' = [hidden |-> refs.next_hidden, next_hidden |-> refs.hidden,
                  hidden_flat |-> refs.next_hidden_flat,
                  next_hidden_flat |-> refs.hidden_flat]

(* rms_norm, the qkv gemm, split_qkv, the norms of the heads, and rope *)
Projected(r) ==
  LET normed == RmsNorm(W("rms_attn")[1], Hidden[r])
      qkv == [i \in DOMAIN W("qkv") |-> Gemm(W("qkv")[i], normed)]
      q == SubSeq(qkv, 1, QDim)
      k == SubSeq(qkv, QDim + 1, QDim + KVDim)
      pos == batch.phys.positions[r]
  IN  [q |-> Rope(IF HasNorm("q_norm") THEN NormHeads(W("q_norm"), q) ELSE q, pos),
       k |-> Rope(IF HasNorm("k_norm") THEN NormHeads(W("k_norm"), k) ELSE k, pos),
       v |-> SubSeq(qkv, QDim + KVDim + 1, QDim + 2 * KVDim)]

(* write_kv_cache: a row with slot -1 is skipped *)
Written(buffer, rows) ==
  [c \in Cells |->
     LET from == {r \in Rows : batch.phys.slots[r] >= 0
                               /\ SlotCell(layer, batch.phys.slots[r]) = c}
     IN  IF from = {} THEN buffer[c] ELSE rows[Max(from)]]

(* decode_attention and prefill_attention: the keys that row r of item i   *)
(* attends to, found through the block table.                              *)
Context(i, r) ==
  IF batch.phys.prefill
  THEN batch.phys.context_lens[i] - (batch.phys.query_start[i + 1] - r)
  ELSE batch.phys.context_lens[i]
Gathered(buffer, i, r) ==
  [p \in 1 .. Context(i, r) |->
     buffer[BlockCell(layer, batch.phys.block_table[i][((p - 1) \div BlockSize) + 1],
                      (p - 1) % BlockSize)]]
ItemOf(r) == CHOOSE i \in DOMAIN batch.items :
               batch.phys.query_start[i] < r /\ r <= batch.phys.query_start[i + 1]

Projections == [r \in Rows |-> Projected(r)]
KVAfter(rows) ==
  [k |-> Written(kv.k, [r \in Rows |-> rows[r].k]), v |-> Written(kv.v, [r \in Rows |-> rows[r].v])]

Attention ==
  /\ step = "attention"
  /\ kv' = KVAfter(Projections)
  /\ Residual([r \in Rows |->
       MixAll(W("o")[1], Attend(Projected(r).q, Gathered(kv'.k, ItemOf(r), r),
                                Gathered(kv'.v, ItemOf(r), r)))])
  /\ step' = "ffn"
  /\ UNCHANGED <<loadVars, seqs, batch, layer, expect>>

FeedForward ==
  /\ step = "ffn"
  /\ Residual([r \in Rows |->
       LET normed == RmsNorm(W("rms_ffn")[1], Hidden[r])
       IN  Gemm(W("down")[1], SiluMul(Gemm(W("gate")[1], normed), Gemm(W("up")[1], normed)))])
  /\ layer' = layer + 1
  /\ step' = IF layer + 1 = config.n_layers THEN "sample" ELSE "attention"
  /\ UNCHANGED <<loadVars, seqs, kv, batch, expect>>

-----------------------------------------------------------------------------
(* What the tokens of a sequence should give: the model of the file, less  *)
(* the norms it lacks, applied to the whole sequence at once, without      *)
(* batches, blocks or buffers.                                             *)

Of(l, field) == file.model[<<l, field>>].data
Heads(l, field, norm, x, pos) ==
  LET rows == [i \in DOMAIN Of(l, field) |-> Gemm(Of(l, field)[i], RmsNorm(Of(l, "rms_attn")[1], x))]
  IN  Rope(IF <<l, norm>> \in DOMAIN file.model \ file.lacks THEN NormHeads(Of(l, norm), rows) ELSE rows, pos)
KeysOf(l, xs) == [p \in DOMAIN xs |-> Heads(l, "k", "k_norm", xs[p], p - 1)]
ValuesOf(l, xs) ==
  [p \in DOMAIN xs |-> [i \in DOMAIN Of(l, "v") |->
                          Gemm(Of(l, "v")[i], RmsNorm(Of(l, "rms_attn")[1], xs[p]))]]

LayerOf(l, xs) ==
  LET ks == KeysOf(l, xs)
      vs == ValuesOf(l, xs)
      attended == [p \in DOMAIN xs |->
                     ElementAdd(MixAll(Of(l, "o")[1],
                                       Attend(Heads(l, "q", "q_norm", xs[p], p - 1),
                                              SubSeq(ks, 1, p), SubSeq(vs, 1, p))), xs[p])]
      fed(x) == LET normed == RmsNorm(Of(l, "rms_ffn")[1], x)
                IN  ElementAdd(Gemm(Of(l, "down")[1],
                                    SiluMul(Gemm(Of(l, "gate")[1], normed),
                                            Gemm(Of(l, "up")[1], normed))), x)
  IN  [p \in DOMAIN xs |-> fed(attended[p])]

Embedded(tokens) == [p \in DOMAIN tokens |-> file.model[<<"embed">>].data[tokens[p]]]
NextOf(xs) ==
  ArgMax(Logits(file.model[<<"lm_head">>].data,
                RmsNorm(file.model[<<"rms_final">>].data[1], Last(xs))))

(* The reference is computed before the first request, a layer at a time:  *)
(* inputs are those of the layers so far, and the output of the last.      *)
Complete(e, s) == Len(e.tokens) = Len(Prompts[s]) + MaxNew /\ Len(e.inputs) = config.n_layers
Predicted == \A s \in Seqs : Complete(expect[s], s)
Predict ==
  /\ stage = "ready" /\ caller = "worker" /\ ~Predicted
  /\ LET s == CHOOSE t \in Seqs : ~Complete(expect[t], t)
         e == expect[s]
     IN  expect' = [expect EXCEPT ![s] =
           IF e.inputs = <<>>
           THEN [tokens |-> Prompts[s], inputs |-> <<Embedded(Prompts[s])>>]
           ELSE IF Len(e.inputs) <= config.n_layers
           THEN [e EXCEPT !.inputs = Append(@, LayerOf(Len(@) - 1, Last(@)))]
           ELSE LET tokens == Append(e.tokens, NextOf(Last(e.inputs)))
                IN  [tokens |-> tokens, inputs |-> <<Embedded(tokens)>>]]
  /\ UNCHANGED <<loadVars, seqs, kv, batch, bufs, refs, layer, step>>

-----------------------------------------------------------------------------
(* The sequences, as the scheduler hands them to the worker. *)

InUse == UNION {Range(seqs[s].table) : s \in Seqs}
Blocks == 0 .. MaxBlocks - 1
BlocksFor(n) == (n + BlockSize - 1) \div BlockSize
Generated(s) == Len(seqs[s].tokens) - Len(Prompts[s])

(* The blocks of another sequence that s may share: full, computed, and of *)
(* the same tokens.                                                        *)
Sharable(s, o) ==
  {n \in 0 .. Len(Prompts[s]) \div BlockSize :
     /\ n * BlockSize <= seqs[o].context
     /\ SubSeq(seqs[o].tokens, 1, n * BlockSize) = SubSeq(Prompts[s], 1, n * BlockSize)}

(* A sequence is admitted with all the blocks it will need; the scheduler  *)
(* takes those of generated tokens one by one (module Scheduler).          *)
Arrive(s) ==
  /\ stage = "ready" /\ caller = "worker" /\ Predicted
  /\ seqs[s].phase = "new"
  /\ \E o \in Seqs \ {s} :
       \E n \in IF seqs[o].phase = "live" THEN Sharable(s, o) ELSE {0} :
         LET need == BlocksFor(Len(Prompts[s]) + MaxNew - 1) - n
         IN  \E own \in SUBSET (Blocks \ InUse) :
               /\ Cardinality(own) = need
               /\ seqs' = [seqs EXCEPT ![s] =
                    [phase |-> "live", tokens |-> Prompts[s], context |-> n * BlockSize,
                     table |-> SubSeq(seqs[o].table, 1, n)
                                 \o Reverse(SetToSortSeq(own, LAMBDA a, b : a < b))]]
  /\ UNCHANGED <<loadVars, kv, batch, bufs, refs, layer, step, expect>>

(* The work a sequence can be scheduled for: a chunk of its prompt, its    *)
(* last token, or, when all of its prompt was in the cache, a bootstrap.   *)
ItemsFor(s) ==
  LET q == seqs[s]
      item(tokens, prefill, write, sample) ==
        [seq |-> s, tokens |-> tokens, prefill |-> prefill, write |-> write,
         sample |-> sample, context |-> q.context, table |-> q.table]
  IN  IF q.context < Len(Prompts[s])
      THEN {item(SubSeq(q.tokens, q.context + 1, end), TRUE, TRUE, end = Len(Prompts[s])) :
              end \in q.context + 1 .. Len(Prompts[s])}
      ELSE {item(<<Last(q.tokens)>>, FALSE, q.context < Len(q.tokens), TRUE)}

(* A batch of one or two items enters the forward pass: translate, embed *)
Launch(items) ==
  /\ step = "idle"
  /\ batch' = [items |-> items, phys |-> Translate(items)]
  /\ bufs' = [a |-> [r \in DOMAIN batch'.phys.token_ids |->
                       loaded[<<"embed">>][batch'.phys.token_ids[r]]],
              b |-> [r \in DOMAIN batch'.phys.token_ids |-> 0]]
  /\ step' = "attention"
  /\ UNCHANGED <<loadVars, seqs, kv, refs, layer, expect>>

LaunchAny ==
  \E s \in Seqs, t \in Seqs :
    /\ seqs[s].phase = "live" /\ seqs[t].phase = "live"
    /\ \E first \in ItemsFor(s), second \in ItemsFor(t) :
         Launch(IF s = t THEN <<first>> ELSE <<first, second>>)

NoItems == [items |-> <<>>, phys |-> NoBatch]
NoBuffers == [a |-> <<>>, b |-> <<>>]
FirstRefs == [hidden |-> "a", next_hidden |-> "b", hidden_flat |-> "a", next_hidden_flat |-> "b"]
Released == step' = "idle" /\ batch' = NoItems /\ bufs' = NoBuffers /\ refs' = FirstRefs /\ layer' = 0

Over(s) == [s EXCEPT !.phase = "gone", !.table = <<>>]

(* The final norm, the logits of the rows asked for, greedy_sample, and    *)
(* what the scheduler makes of the results.                                *)
Sample ==
  /\ step = "sample"
  /\ LET logits == [n \in DOMAIN batch.phys.logits_rows |->
                      Logits(loaded[<<"lm_head">>],
                             RmsNorm(loaded[<<"rms_final">>][1],
                                     Hidden[batch.phys.logits_rows[n]]))]
         after(i) ==
           LET item == batch.items[i]
               q == seqs[item.seq]
               tokens == IF item.sample
                         THEN Append(q.tokens, ArgMax(logits[batch.phys.logits_indices[i]]))
                         ELSE q.tokens
               next == [q EXCEPT !.tokens = tokens, !.context = batch.phys.context_lens[i]]
           IN  IF Len(tokens) - Len(Prompts[item.seq]) = MaxNew THEN Over(next) ELSE next
     IN  seqs' = [s \in Seqs |->
                    IF \E i \in DOMAIN batch.items : batch.items[i].seq = s
                    THEN after(CHOOSE i \in DOMAIN batch.items : batch.items[i].seq = s)
                    ELSE seqs[s]]
  /\ Released
  /\ UNCHANGED <<loadVars, kv, expect>>

(* An allocation, a kernel or a copy fails: before the layer writes to the *)
(* cache, or after.  The sequences of the batch are given up.              *)
Fail ==
  /\ step # "idle"
  /\ kv' \in {kv} \union IF step = "attention" THEN {KVAfter(Projections)} ELSE {}
  /\ seqs' = [s \in Seqs |-> IF \E i \in DOMAIN batch.items : batch.items[i].seq = s
                             THEN Over(seqs[s]) ELSE seqs[s]]
  /\ Released
  /\ UNCHANGED <<loadVars, expect>>

-----------------------------------------------------------------------------
ForwardInit ==
  /\ seqs = [s \in Seqs |-> [phase |-> "new", tokens |-> <<>>, context |-> 0, table |-> <<>>]]
  /\ kv = [k |-> <<>>, v |-> <<>>]
  /\ batch = NoItems /\ bufs = NoBuffers /\ refs = FirstRefs
  /\ layer = 0 /\ step = "idle"
  /\ expect = [s \in Seqs |-> [tokens |-> <<>>, inputs |-> <<>>]]

(* The storage is created, and zeroed, with the caches. *)
Load ==
  /\ LoadNext
  /\ kv' = IF stage' = "ready" THEN ZeroStorage ELSE kv
  /\ UNCHANGED <<seqs, batch, bufs, refs, layer, step, expect>>

ModelInit == Init /\ ForwardInit
ModelNext ==
  \/ Load
  \/ Predict
  \/ \E s \in Seqs : Arrive(s)
  \/ LaunchAny
  \/ Attention
  \/ FeedForward
  \/ Sample
  \/ Fail
ModelSpec == ModelInit /\ [][ModelNext]_vars

(* Every cached position of a live sequence holds, in every layer, the key *)
(* and the value that the model of the checkpoint gives to that token:     *)
(* whatever batches computed it, whichever blocks it is in, and also when  *)
(* another sequence computed it or a batch failed half way.  A checkpoint  *)
(* that ends inside its last tensor is left out: its numbers are not known. *)
CacheHoldsReference ==
  \A s \in Seqs : seqs[s].phase = "live" /\ file.defect # "overrun" =>
    \A p \in 1 .. seqs[s].context, m \in 1 .. config.n_layers :
      LET c == BlockCell(m - 1, seqs[s].table[((p - 1) \div BlockSize) + 1], (p - 1) % BlockSize)
      IN  /\ kv.k[c] = KeysOf(m - 1, expect[s].inputs[m])[p]
          /\ kv.v[c] = ValuesOf(m - 1, expect[s].inputs[m])[p]

(* The tokens sampled for a sequence are the ones the model of the         *)
(* checkpoint continues its prompt with, also for a prompt that was wholly *)
(* cached and in a batch of prefills and decodes (the same checkpoint is   *)
(* left out).                                                              *)
SampledIsReference ==
  file.defect # "overrun" => \A s \in Seqs : IsPrefix(seqs[s].tokens, expect[s].tokens)

==============================================================================
