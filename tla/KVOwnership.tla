---------------------------- MODULE KVOwnership -----------------------------
(***************************************************************************)
(* Who owns a KV block: the promise of the block pool, the prefix cache    *)
(* and the scheduler's allocation, without the order of the free list and  *)
(* of the idle LRU.  BlockManager implements it.                           *)
(*                                                                         *)
(* Owners are admitted sequences.  Blocks that a failed allocation took    *)
(* and never returned (BlockPool::allocate_blocks returns an error without *)
(* giving back what it took) are lost: referenced, and held by no owner.   *)
(***************************************************************************)
EXTENDS Naturals, FiniteSets, Owners

CONSTANT Block     \* the blocks of the pool

VARIABLES free,    \* the blocks of the free list
          ref,     \* ref[b]: the request references of block b
          cached,  \* the blocks that have a cache entry
          holds,   \* holds[o]: the blocks of o's block table
          lost     \* the blocks lost by failed allocations

vars == <<free, ref, cached, holds, lost>>

Init == /\ free   = Block
        /\ ref    = [b \in Block |-> 0]
        /\ cached = {}
        /\ holds  = [o \in Owner |-> {}]
        /\ lost   = {}

(* The blocks of the idle LRU. *)
Idle == {b \in cached : ref[b] = 0}

-----------------------------------------------------------------------------
(* Admission: the prefix hits are retained, idle blocks are evicted only   *)
(* while the free list is short, the missing blocks are taken off it.      *)
Admit(o, hit, evict, taken) ==
  /\ holds[o] = {}
  /\ hit \union taken # {}
  /\ evict # {} => taken = free \union evict
  /\ free'   = (free \union evict) \ taken
  /\ cached' = cached \ evict
  /\ ref'    = [b \in Block |-> IF b \in hit THEN ref[b] + 1
                                ELSE IF b \in taken THEN 1 ELSE ref[b]]
  /\ holds'  = [holds EXCEPT ![o] = hit \union taken]
  /\ UNCHANGED lost

(* An admission that runs short: everything idle apart from the hits is    *)
(* evicted, everything free is taken, the error returns only the hits.     *)
AdmitShort(hit) ==
  /\ free'   = {}
  /\ cached' = cached \ (Idle \ hit)
  /\ ref'    = [b \in Block |-> IF b \in free \union (Idle \ hit)
                                THEN 1 ELSE ref[b]]
  /\ lost'   = lost \union free \union (Idle \ hit)
  /\ UNCHANGED holds

(* A decode step that needs one more block. *)
Grow(o, b) ==
  /\ holds[o] # {}
  /\ b \in free \union Idle
  /\ b \in Idle => free = {}
  /\ free'   = free \ {b}
  /\ cached' = cached \ {b}
  /\ ref'    = [ref EXCEPT ![b] = 1]
  /\ holds'  = [holds EXCEPT ![o] = @ \union {b}]
  /\ UNCHANGED lost

(* A full block of a running sequence enters the cache. *)
Publish(o, b) ==
  /\ b \in holds[o]
  /\ cached' = cached \union {b}
  /\ UNCHANGED <<free, ref, holds, lost>>

(* The sequence gives its table back: what nobody references any more goes *)
(* idle when it is cached and is recycled otherwise.                       *)
Release(o) ==
  /\ ref'   = [b \in Block |-> IF b \in holds[o] THEN ref[b] - 1 ELSE ref[b]]
  /\ free'  = free \union {b \in holds[o] : ref[b] = 1 /\ b \notin cached}
  /\ holds' = [holds EXCEPT ![o] = {}]
  /\ UNCHANGED <<cached, lost>>

Next ==
  \/ \E o \in Owner, hit \in SUBSET cached : \E evict \in SUBSET (Idle \ hit) :
       \E taken \in SUBSET (free \union evict) : Admit(o, hit, evict, taken)
  \/ \E hit \in SUBSET cached : AdmitShort(hit)
  \/ \E o \in Owner, b \in Block : Grow(o, b)
  \/ \E o \in Owner, b \in Block : Publish(o, b)
  \/ \E o \in Owner : Release(o)

Spec == Init /\ [][Next]_vars

-----------------------------------------------------------------------------
(* Type invariant. *)
TypeOK == /\ free \in SUBSET Block
          /\ ref \in [Block -> Nat]
          /\ cached \in SUBSET Block
          /\ holds \in [Owner -> SUBSET Block]
          /\ lost \in SUBSET Block

Holders(b) == {o \in Owner : b \in holds[o]}

(* ref_count is the number of sequences whose table names the block, plus  *)
(* one when an unreturned allocation still counts: retain_request,         *)
(* release_request and allocate never get out of step with the tables.     *)
RefCounts == \A b \in Block :
  ref[b] = Cardinality(Holders(b)) + (IF b \in lost THEN 1 ELSE 0)

(* A block on the free list is in no table, in no cache entry and not      *)
(* lost: allocate never hands out a block whose KV somebody still reads.   *)
FreeIsUnused == \A b \in free :
  /\ Holders(b) = {}
  /\ b \notin cached
  /\ b \notin lost

(* A lost block is in no table and in no cache entry.                      *)
LostIsUnreachable == \A b \in lost : Holders(b) = {} /\ b \notin cached

(* Every block is free, cached or referenced: release_request_blocks and   *)
(* evict_one never drop a block that nothing can bring back.               *)
NothingVanishes == \A b \in Block : b \in free \/ b \in cached \/ ref[b] > 0

(* The inductive invariant. *)
OwnershipInv == /\ TypeOK
                /\ RefCounts
                /\ FreeIsUnused
                /\ LostIsUnreachable
                /\ NothingVanishes

(* A step gives a sequence a block that another one holds only through the *)
(* prefix cache: two sequences never share a block that is still written.  *)
SharedOnlyThroughCache ==
  [][\A o \in Owner : \A b \in holds'[o] \ holds[o] :
        Holders(b) # {} => b \in cached]_vars

(* A block that a sequence holds keeps its cache entry: evict_one never    *)
(* takes a block in use, whatever the admissions of other sequences do.    *)
HeldStaysCached ==
  [][\A b \in cached : Holders(b) # {} => b \in cached']_vars
=============================================================================
