---------------------------- MODULE BlockManager ----------------------------
(***************************************************************************)
(* The block pool and the prefix cache driven by sequences the way the     *)
(* scheduler drives them: look up the prompt and allocate the rest, retire *)
(* the prompt in chunks of any length and the decoded tokens one by one,   *)
(* publish full blocks, grow by one block, give the table back.  The       *)
(* scheduling around these calls is in Scheduler.                          *)
(***************************************************************************)
EXTENDS KVBlocks, Owners

CONSTANTS Prompts,    \* the prompts a sequence may be admitted with
          Token,      \* the tokens it may generate
          MaxTable    \* bound: longest table a sequence grows to

(* BlockCache::lookup_prefix_cache asserts that it is called with tokens,  *)
(* which are the prompt of the sequence (block_cache.cpp:26).              *)
ASSUME PromptsAssumption ==
  \A prompt \in Prompts : prompt \in Seq(Token) /\ prompt # <<>>

VARIABLES pool,       \* BlockPool and BlockCache
          table,      \* table[o]: the block table of o, <<>> if not admitted
          tokens,     \* tokens[o]: the tokens o has blocks for
          prompt_len, \* prompt_len[o]: how many of them are the prompt of o
          frontier,   \* frontier[o]: executed_frontier, the tokens retired so far
          parent,     \* parent[o]: parent_hash, the key of the last block published
          pending,    \* pending[o]: pending_hash_tokens
          hit         \* history: hit[o] is the number of blocks the lookup found

vars == <<pool, table, tokens, prompt_len, frontier, parent, pending, hit>>

Init == /\ pool = InitPool
        /\ table = [o \in Owner |-> <<>>]
        /\ tokens = [o \in Owner |-> <<>>]
        /\ prompt_len = [o \in Owner |-> 0]
        /\ frontier = [o \in Owner |-> 0]
        /\ parent = [o \in Owner |-> <<>>]
        /\ pending = [o \in Owner |-> <<>>]
        /\ hit = [o \in Owner |-> 0]

-----------------------------------------------------------------------------
(* The publishing loop of retire_work has ended: the scheduler is one      *)
(* thread, nothing else happens between two rounds of the loop.            *)
LoopEnded == \A o \in Owner : Len(pending[o]) < BlockSize

(* The block part of admit_one_waiting. *)
Admit(o, prompt) ==
  LET lookup  == LookupPrefixCache(pool, prompt)
      missing == BlocksFor(Len(prompt)) - Len(lookup.table)
      alloc   == AllocateKVBlocks(lookup.pool, missing)
  IN  /\ LoopEnded
      /\ table[o] = <<>>
      /\ IF alloc.ok
         THEN /\ pool' = alloc.pool
              /\ table' = [table EXCEPT ![o] = lookup.table \o alloc.table]
              /\ tokens' = [tokens EXCEPT ![o] = prompt]
              /\ prompt_len' = [prompt_len EXCEPT ![o] = Len(prompt)]
              /\ frontier' = [frontier EXCEPT ![o] = Len(lookup.table) * BlockSize]
              /\ parent' = [parent EXCEPT ![o] = lookup.parent]
              /\ hit' = [hit EXCEPT ![o] = Len(lookup.table)]
              /\ UNCHANGED pending
         ELSE /\ pool' = ReleaseRequestBlocks(alloc.pool, lookup.table)
              /\ UNCHANGED <<table, tokens, prompt_len, frontier, parent, pending, hit>>

(* A decode step is built: one more token, and one more block when the     *)
(* last is full, also while earlier decodes are still in flight.           *)
Decode(o, t) ==
  LET missing == BlocksFor(Len(tokens[o]) + 1) - Len(table[o])
      alloc   == AllocateKVBlocks(pool, missing)
  IN  /\ LoopEnded
      /\ table[o] # <<>>
      /\ frontier[o] >= prompt_len[o]
      /\ Len(table[o]) + missing <= MaxTable
      /\ alloc.ok
      /\ pool' = alloc.pool
      /\ table' = [table EXCEPT ![o] = @ \o alloc.table]
      /\ tokens' = [tokens EXCEPT ![o] = Append(@, t)]
      /\ UNCHANGED <<prompt_len, frontier, parent, pending, hit>>

(* retire_work for a chunk of n tokens of the prompt, or a decoded token.  *)
(* Only the tokens of the last chunk and the decoded ones join the tokens  *)
(* to publish: a chunk before the last returns early.                      *)
Retire(o, n) ==
  LET after == frontier[o] + n
  IN  /\ LoopEnded
      /\ after <= Len(tokens[o])
      /\ IF frontier[o] < prompt_len[o] THEN after <= prompt_len[o] ELSE n = 1
      /\ frontier' = [frontier EXCEPT ![o] = after]
      /\ pending' = IF after < prompt_len[o] THEN pending
                    ELSE [pending EXCEPT ![o] = @ \o SubSeq(tokens[o], frontier[o] + 1, after)]
      /\ UNCHANGED <<pool, table, tokens, prompt_len, parent, hit>>

(* One round of the loop of retire_work: the next full block is published  *)
(* under the key of the one before it and the oldest pending tokens.       *)
Publish(o) ==
  LET n   == (frontier[o] - Len(pending[o])) \div BlockSize + 1
      key == parent[o] \o SubSeq(pending[o], 1, BlockSize)
  IN  /\ Len(pending[o]) >= BlockSize
      /\ pool' = PublishFullBlock(pool, key, table[o][n])
      /\ parent' = [parent EXCEPT ![o] = key]
      /\ pending' = [pending EXCEPT ![o] = SubSeq(@, BlockSize + 1, Len(@))]
      /\ UNCHANGED <<table, tokens, prompt_len, frontier, hit>>

(* release_scheduling_blocks *)
Release(o) ==
  /\ LoopEnded
  /\ table[o] # <<>>
  /\ pool' = ReleaseRequestBlocks(pool, table[o])
  /\ table' = [table EXCEPT ![o] = <<>>]
  /\ tokens' = [tokens EXCEPT ![o] = <<>>]
  /\ prompt_len' = [prompt_len EXCEPT ![o] = 0]
  /\ frontier' = [frontier EXCEPT ![o] = 0]
  /\ parent' = [parent EXCEPT ![o] = <<>>]
  /\ pending' = [pending EXCEPT ![o] = <<>>]
  /\ hit' = [hit EXCEPT ![o] = 0]

Next ==
  \/ \E o \in Owner, prompt \in Prompts : Admit(o, prompt)
  \/ \E o \in Owner, t \in Token : Decode(o, t)
  \/ \E o \in Owner : \E n \in 1 .. Len(tokens[o]) : Retire(o, n)
  \/ \E o \in Owner : Publish(o)
  \/ \E o \in Owner : Release(o)

Spec == Init /\ [][Next]_vars

-----------------------------------------------------------------------------
Holders(b) == {o \in Owner : b \in Range(table[o])}
Cached == CachedBlocks(pool)

(* The free list, the idle LRU and every bucket of the cache index name a  *)
(* block at most once and agree with each other: the idle LRU is exactly   *)
(* the cached blocks without references, a block has one cache entry, and  *)
(* no bucket of the index is left empty (the asserts of mark_idle,         *)
(* evict_one, erase_entry, allocate and recycle).                          *)
IndexConsistent == IndexOK(pool)

(* What a lookup found stays what the prompt asked for: the blocks of the  *)
(* prefix hit keep their cache entry and its key, the tokens of the prompt *)
(* up to the block, as long as the sequence holds them, whatever the other *)
(* sequences publish, evict, recycle and publish again in between.  (The   *)
(* blocks a sequence publishes itself may carry a key of other tokens,     *)
(* when its prompt was prefilled in several chunks.)                       *)
HitsStayCached ==
  \A o \in Owner : \A i \in 1 .. hit[o] :
    /\ table[o][i] \in Cached
    /\ KeyOf(pool, table[o][i]) = SubSeq(tokens[o], 1, i * BlockSize)

(* block.h:29 has ref_count count "request / sequence refs only": a block  *)
(* nobody holds has no reference.  allocate_blocks breaks it when it fails *)
(* after it took some blocks.                                              *)
RefsAreRequestRefs == \A b \in Block : pool.ref[b] = Cardinality(Holders(b))

(* BlockPool::retain_request asserts `b.ref_count > 0`: the blocks that a   *)
(* lookup of a prompt would retain are referenced already.                 *)
RetainedAreReferenced ==
  \A prompt \in Prompts :
    \A b \in Range(LookupPrefixCache(pool, prompt).table) : pool.ref[b] > 0

(* BlockManager implements the ownership specification. *)
Ownership == INSTANCE KVOwnership WITH
  free   <- Range(pool.free),
  ref    <- pool.ref,
  cached <- Cached,
  holds  <- [o \in Owner |-> Range(table[o])],
  lost   <- {b \in Block : pool.ref[b] > Cardinality(Holders(b))}

(* On the pool and the tables themselves: the references of a block are    *)
(* the tables that name it and the allocations that were never returned; a *)
(* free block is in no table and in no entry; every block is free, cached  *)
(* or referenced (the invariant that KVOwnershipProofs proves of Spec).    *)
OwnershipInv == Ownership!OwnershipInv

(* Every call of the block pool and of the cache, with the free list and   *)
(* the LRU in order, is a step that the ownership specification allows.    *)
ImplementsOwnership == Ownership!Spec
=============================================================================
