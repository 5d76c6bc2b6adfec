------------------------------ MODULE KVBlocks ------------------------------
(***************************************************************************)
(* The KV block pool, the prefix cache over it, and the scheduler's        *)
(* allocation and release of block tables, as operators from one value of  *)
(* the pool to the next (src/block/block_pool.cpp,                         *)
(* src/cache/block_cache.cpp, src/scheduler/scheduler.cpp).                *)
(*                                                                         *)
(* A pool is a record                                                      *)
(*   free     the free list, oldest first                                  *)
(*   ref      the ref_count of every block                                 *)
(*   by_hash  the cache index: prefix key -> bucket of blocks (a deque)    *)
(*   idle     the idle LRU: cached blocks nobody references, oldest first  *)
(*                                                                         *)
(* A block is Free iff it is in free; every other block is InUse.  A chain *)
(* hash is a fold over the tokens of the whole prefix, so a prefix key is  *)
(* the prefix itself (no collisions), and the root hash 0 is <<>>.         *)
(***************************************************************************)
EXTENDS Naturals, FiniteSets, Sequences, Collections

CONSTANTS MaxBlocks,  \* EngineConfig::max_blocks
          BlockSize   \* EngineConfig::kv_block_size

ASSUME PoolAssumption == /\ MaxBlocks \in Nat \ {0}
                         /\ BlockSize \in Nat \ {0}

Block == 0 .. MaxBlocks - 1

(* BlockPool::init: every block on the free list, in order of its id. *)
InitPool == [free    |-> [i \in 1 .. MaxBlocks |-> i - 1],
             ref     |-> [b \in Block |-> 0],
             by_hash |-> <<>>,
             idle    |-> <<>>]

(* Number of blocks that n tokens occupy. *)
BlocksFor(n) == (n + BlockSize - 1) \div BlockSize

-----------------------------------------------------------------------------
(* The cache index. *)

(* BlockCache::contains *)
CacheContains(p, b) == \E k \in DOMAIN p.by_hash : b \in Range(p.by_hash[k])

CachedBlocks(p) == {b \in Block : CacheContains(p, b)}

(* The prefix key under which a cached block is published. *)
KeyOf(p, b) == CHOOSE k \in DOMAIN p.by_hash : b \in Range(p.by_hash[k])

(* The free list, the idle LRU and the index agree with each other.        *)
IndexOK(p) ==
  /\ IsInjective(p.free)
  /\ IsInjective(p.idle)
  /\ Range(p.idle) = {b \in CachedBlocks(p) : p.ref[b] = 0}
  /\ \A k \in DOMAIN p.by_hash :
       /\ p.by_hash[k] # <<>>
       /\ IsInjective(p.by_hash[k])
       /\ \A j \in DOMAIN p.by_hash \ {k} :
            Range(p.by_hash[k]) \intersect Range(p.by_hash[j]) = {}

(* PrefixCache::chain_hashes: one key per full block of the tokens. *)
ChainHashes(tokens) ==
  [i \in 1 .. Len(tokens) \div BlockSize |-> SubSeq(tokens, 1, i * BlockSize)]

(* The entry leaves its bucket by a swap with the last one; an empty       *)
(* bucket leaves the index.                                                *)
EraseEntry(p, b) ==
  LET key    == KeyOf(p, b)
      bucket == p.by_hash[key]
      pos    == CHOOSE i \in DOMAIN bucket : bucket[i] = b
      rest   == PopBack([bucket EXCEPT ![pos] = Back(bucket)])
  IN  [p EXCEPT !.idle = Erase(@, b),
                !.by_hash = IF rest = <<>>
                            THEN Without(@, {key})
                            ELSE [@ EXCEPT ![key] = rest]]

(* BlockCache::evict_one, BlockPool::recycle included: with an empty LRU   *)
(* it has nothing to do.                                                   *)
EvictOne(p) ==
  IF p.idle = <<>> THEN p
  ELSE LET victim == Head(p.idle)
       IN  [EraseEntry(p, victim) EXCEPT !.free = Append(@, victim)]

(* Faulty variants: the hits stay on the idle LRU; the hits that were on   *)
(* the idle LRU are not retained.                                          *)
RetainOnIdle(p, hits) ==
  [p EXCEPT !.ref = [b \in Block |-> IF b \in Range(hits) THEN @[b] + 1 ELSE @[b]]]

RetainBusyOnly(p, hits) ==
  [p EXCEPT !.ref  = [b \in Block |-> IF b \in Range(hits) \ Range(p.idle)
                                      THEN @[b] + 1 ELSE @[b]],
            !.idle = Keep(@, Block \ Range(hits))]

(* BlockPool::retain_request of every hit, which leaves the idle LRU. *)
RetainRequest(p, hits) ==
  [p EXCEPT !.ref  = [b \in Block |-> IF b \in Range(hits) THEN @[b] + 1 ELSE @[b]],
            !.idle = Keep(@, Block \ Range(hits))]

(* BlockCache::lookup_prefix_cache: the longest run of cached full blocks  *)
(* of the prompt, each retained once.                                      *)
LookupPrefixCache(p, tokens) ==
  LET keys == ChainHashes(tokens)
      n    == CHOOSE m \in 0 .. Len(keys) :
                /\ \A i \in 1 .. m : keys[i] \in DOMAIN p.by_hash
                /\ m < Len(keys) => keys[m + 1] \notin DOMAIN p.by_hash
      hits == [i \in 1 .. n |-> Head(p.by_hash[keys[i]])]
  IN  [table  |-> hits,
       parent |-> IF n = 0 THEN <<>> ELSE keys[n],
       pool   |-> RetainRequest(p, hits)]

(* BlockCache::publish_full_block: first publication of a block wins. *)
PublishFullBlock(p, key, b) ==
  IF CacheContains(p, b) THEN p
  ELSE IF key \in DOMAIN p.by_hash THEN [p EXCEPT !.by_hash[key] = Append(@, b)]
  ELSE [p EXCEPT !.by_hash = Insert(@, key, <<b>>)]

-----------------------------------------------------------------------------
(* Allocation and release of tables. *)

(* Faulty variant: one idle block too many is evicted. *)
EvictionsOneMore(p, n) ==
  Min({IF n >= Len(p.free) THEN n + 1 - Len(p.free) ELSE 0, Len(p.idle)})

(* How many idle blocks are evicted before n blocks are taken. *)
Evictions(p, n) ==
  Min({IF n > Len(p.free) THEN n - Len(p.free) ELSE 0, Len(p.idle)})

(* The pool after each of k calls of evict_one. *)
Evicting(p, k) ==
  LET after[i \in 0 .. k] == IF i = 0 THEN p ELSE EvictOne(after[i - 1])
  IN  after

(* Scheduler::allocate_kv_blocks: evict while the free list is too short   *)
(* and something is idle, then BlockPool::allocate_blocks takes blocks one *)
(* by one.  A shortage is reported after the free list has been emptied:   *)
(* the blocks already taken keep their reference and nobody holds them.    *)
AllocateKVBlocks(p, n) ==
  LET k     == Evictions(p, n)
      q     == Evicting(p, k)[k]
      taken == SubSeq(q.free, 1, Min({n, Len(q.free)}))
  IN  [ok    |-> Len(taken) = n,
       table |-> taken,
       pool  |-> [q EXCEPT
                   !.free = SubSeq(@, Len(taken) + 1, Len(@)),
                   !.ref  = [b \in Block |-> IF b \in Range(taken)
                                             THEN 1 ELSE @[b]]]]

(* Scheduler::release_request_blocks: drop one reference per table entry;  *)
(* what nobody references any more goes idle if cached, else is recycled.  *)
ReleaseRequestBlocks(p, table) ==
  LET ref  == [b \in Block |-> p.ref[b] -
                 Cardinality({i \in DOMAIN table : table[i] = b})]
      zero == Keep(Distinct(table), {b \in Block : ref[b] = 0})
  IN  [p EXCEPT !.ref  = ref,
                !.idle = @ \o Keep(zero, CachedBlocks(p)),
                !.free = @ \o Keep(zero, Block \ CachedBlocks(p))]
=============================================================================
