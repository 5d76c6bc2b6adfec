----------------------------- MODULE StateCache ------------------------------
(***************************************************************************)
(* The GDN (recurrent) states of sequences: StatePool                      *)
(* (src/state/state_pool.cpp) and the snapshot cache over it               *)
(* (src/cache/state_cache.cpp), driven by the worker.                      *)
(*                                                                         *)
(* State ids below MaxActive are mutable, the others are snapshots.  A     *)
(* state is what it has absorbed: a sequence of tokens, which is also the  *)
(* prefix key of a snapshot of it.  A device copy or a memset that fails   *)
(* may have written a part already: the content is then Torn.              *)
(***************************************************************************)
EXTENDS Naturals, Sequences, Collections

CONSTANTS Sequence,       \* sequence ids
          Token,          \* tokens a state absorbs
          MaxActive,      \* max_active_
          MaxSnapshots,   \* max_snapshots_
          FrontierDepth,  \* frontier_depth_: how many blocks have snapshots
          MaxLen,         \* bound: tokens a state absorbs
          Torn            \* content after a failed copy

ASSUME StatesAssumption ==
  /\ MaxActive \in Nat \ {0} /\ MaxSnapshots \in Nat
  /\ FrontierDepth \in Nat /\ MaxLen \in Nat

VARIABLES mutable_free,   \* mutable_free_list_, oldest first
          snapshot_free,  \* snapshot_free_list_, oldest first
          active,         \* active_by_seq_: sequence -> mutable state
          entries,        \* by_hash_ and entries_: prefix -> snapshot state
          lru,            \* lru_: prefixes, least recently used first
          content         \* content of every state in StateStorage

vars == <<mutable_free, snapshot_free, active, entries, lru, content>>

States == 0 .. MaxActive + MaxSnapshots - 1

(* StatePool::create *)
Init == /\ mutable_free = [i \in 1 .. MaxActive |-> i - 1]
        /\ snapshot_free = [i \in 1 .. MaxSnapshots |-> MaxActive + i - 1]
        /\ active = <<>> /\ entries = <<>> /\ lru = <<>>
        /\ content = [i \in States |-> <<>>]

-----------------------------------------------------------------------------
(* StatePool: active states. *)

(* acquire_active of a sequence without a state (with one it does nothing, *)
(* and without a free one it fails): the state is zeroed ...               *)
AcquireActive(q) ==
  /\ q \notin DOMAIN active /\ mutable_free # <<>>
  /\ active' = Insert(active, q, Head(mutable_free))
  /\ mutable_free' = Tail(mutable_free)
  /\ content' = [content EXCEPT ![Head(mutable_free)] = <<>>]
  /\ UNCHANGED <<snapshot_free, entries, lru>>

(* ... or that fails, and the state goes to the end of the free list.      *)
AcquireFails(q) ==
  /\ q \notin DOMAIN active /\ mutable_free # <<>>
  /\ mutable_free' = Append(Tail(mutable_free), Head(mutable_free))
  /\ content' = [content EXCEPT ![Head(mutable_free)] = Torn]
  /\ UNCHANGED <<snapshot_free, active, entries, lru>>

(* Faulty variant: the sequence keeps the state that is free again. *)
ReleaseKeepsOwner(q) ==
  /\ q \in DOMAIN active /\ active[q] \notin Range(mutable_free)
  /\ mutable_free' = Append(mutable_free, active[q])
  /\ UNCHANGED <<snapshot_free, active, entries, lru, content>>

ReleaseActive(q) ==
  /\ q \in DOMAIN active
  /\ active' = Without(active, {q})
  /\ mutable_free' = Append(mutable_free, active[q])
  /\ UNCHANGED <<snapshot_free, entries, lru, content>>

(* A batch runs: the state of its sequence absorbs a token. *)
Absorb(q, t) ==
  /\ q \in DOMAIN active
  /\ content[active[q]] # Torn /\ Len(content[active[q]]) < MaxLen
  /\ content' = [content EXCEPT ![active[q]] = Append(@, t)]
  /\ UNCHANGED <<mutable_free, snapshot_free, active, entries, lru>>

-----------------------------------------------------------------------------
(* StateCache. *)

(* Faulty variant: the snapshot state is not given back. *)
EvictLeaks ==
  [free |-> snapshot_free, entries |-> Without(entries, {Head(lru)}),
   lru |-> Tail(lru)]

(* evict_one of a non-empty LRU: the entry goes, its snapshot is freed. *)
EvictOne ==
  [free |-> Append(snapshot_free, entries[Head(lru)]),
   entries |-> Without(entries, {Head(lru)}),
   lru |-> Tail(lru)]

(* The cache in which snapshot() places its entry. *)
Room == IF snapshot_free = <<>> THEN EvictOne
        ELSE [free |-> snapshot_free, entries |-> entries, lru |-> lru]

(* The conditions under which snapshot() gets to the copy: a frontier      *)
(* block in range, a new prefix, and a snapshot that is free or evictable. *)
(* The caller names the prefix that the active state has absorbed.         *)
CanSnapshot(q, block) ==
  /\ q \in DOMAIN active /\ content[active[q]] # Torn
  /\ block < FrontierDepth
  /\ content[active[q]] \notin DOMAIN entries
  /\ snapshot_free # <<>> \/ lru # <<>>

Snapshot(q, block) ==
  /\ CanSnapshot(q, block)
  /\ LET key == content[active[q]]
         id  == Head(Room.free)
     IN  /\ snapshot_free' = Tail(Room.free)
         /\ entries' = Insert(Room.entries, key, id)
         /\ lru' = Append(Room.lru, key)
         /\ content' = [content EXCEPT ![id] = content[active[q]]]
  /\ UNCHANGED <<mutable_free, active>>

(* Faulty variant: the entry of a failed copy is registered. *)
SnapshotKeepsEntry(q, block) ==
  /\ CanSnapshot(q, block)
  /\ LET id == Head(Room.free)
     IN  /\ snapshot_free' = Tail(Room.free)
         /\ entries' = Insert(Room.entries, content[active[q]], id)
         /\ lru' = Append(Room.lru, content[active[q]])
         /\ content' = [content EXCEPT ![id] = Torn]
  /\ UNCHANGED <<mutable_free, active>>

(* The copy fails: the snapshot is released, what was evicted stays out. *)
SnapshotFails(q, block) ==
  /\ CanSnapshot(q, block)
  /\ LET id == Head(Room.free)
     IN  /\ snapshot_free' = Append(Tail(Room.free), id)
         /\ entries' = Room.entries /\ lru' = Room.lru
         /\ content' = [content EXCEPT ![id] = Torn]
  /\ UNCHANGED <<mutable_free, active>>

(* restore() of a cached prefix: the entry becomes the most recently used  *)
(* one whether or not the copy succeeds.                                   *)
RestoreTo(q, key, value) ==
  /\ q \in DOMAIN active /\ key \in DOMAIN entries
  /\ lru' = Append(Erase(lru, key), key)
  /\ content' = [content EXCEPT ![active[q]] = value]
  /\ UNCHANGED <<mutable_free, snapshot_free, active, entries>>

(* A restore that succeeds, and one whose copy fails. *)
RestoreSnapshot(q, key) == RestoreTo(q, key, content[entries[key]])
RestoreFails(q, key) == RestoreTo(q, key, Torn)

Evict == /\ lru # <<>>
         /\ snapshot_free' = EvictOne.free
         /\ entries' = EvictOne.entries
         /\ lru' = EvictOne.lru
         /\ UNCHANGED <<mutable_free, active, content>>

-----------------------------------------------------------------------------
Next == \/ Evict
        \/ \E q \in Sequence :
             \/ AcquireActive(q) \/ AcquireFails(q) \/ ReleaseActive(q)
             \/ \E t \in Token : Absorb(q, t)
             \/ \E block \in 0 .. FrontierDepth :
                  Snapshot(q, block) \/ SnapshotFails(q, block)
             \/ \E key \in DOMAIN entries :
                  RestoreSnapshot(q, key) \/ RestoreFails(q, key)

Spec == Init /\ [][Next]_vars

-----------------------------------------------------------------------------
(* Every state is in one place.  A mutable one is on its free list or owned *)
(* by one sequence; a snapshot is on its free list or belongs to one entry; *)
(* and every entry is on the LRU once, so that it can be evicted.           *)
StatesAccounted ==
  /\ IsInjective(mutable_free) /\ IsInjective(snapshot_free) /\ IsInjective(lru)
  /\ IsInjective(active) /\ IsInjective(entries)
  /\ Range(mutable_free) \intersect Range(active) = {}
  /\ Range(snapshot_free) \intersect Range(entries) = {}
  /\ Range(mutable_free) \union Range(active) = 0 .. MaxActive - 1
  /\ Range(snapshot_free) \union Range(entries) = States \ (0 .. MaxActive - 1)
  /\ Range(lru) = DOMAIN entries

(* A snapshot that the cache hands out is the state of the prefix it is    *)
(* found under, although copies fail and snapshots are recycled.           *)
SnapshotsHoldTheirPrefix ==
  \A key \in DOMAIN entries : content[entries[key]] = key

(* The state of a sequence is its own.  What it has absorbed changes only  *)
(* in a step of the sequence itself, a batch or a restore, which changes   *)
(* this one state, of this one sequence, and no snapshot: whatever other   *)
(* sequences acquire, release, snapshot or evict, and whichever of their   *)
(* copies fail half done, its state stays what it was.                     *)
StatesAreIsolated ==
  [][\A q \in DOMAIN active :
       content'[active[q]] # content[active[q]] =>
         /\ UNCHANGED <<mutable_free, snapshot_free, active, entries>>
         /\ \A i \in States \ {active[q]} : content'[i] = content[i]
         /\ \A p \in DOMAIN active \ {q} : active[p] # active[q]]_vars
==============================================================================
