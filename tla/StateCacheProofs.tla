-------------------------- MODULE StateCacheProofs ---------------------------
(***************************************************************************)
(* Proofs about the pool of recurrent states and the snapshot cache, for   *)
(* every number of mutable states and snapshots, every set of sequences    *)
(* and tokens, and prefixes of every length: no state is lost or owned     *)
(* twice, a snapshot is the state of its prefix, and no sequence changes   *)
(* the state of another one.                                               *)
(*                                                                         *)
(* The inductive invariant is the conjunction of the two invariants with   *)
(* the types of the lists.  Each needs the other: a copy leaves the other  *)
(* snapshots alone because no state is on a free list and in an entry at   *)
(* once, and mutable and snapshot states are different.                    *)
(***************************************************************************)
EXTENDS StateCache, CollectionLemmas

MutableState  == 0 .. MaxActive - 1
SnapshotState == States \ MutableState

TypeOK == /\ mutable_free \in Seq(MutableState)
          /\ snapshot_free \in Seq(SnapshotState)
          /\ lru \in Seq(Seq(Token))
          /\ content \in [States -> Seq(Token) \union {Torn}]

StateInv == TypeOK /\ StatesAccounted /\ SnapshotsHoldTheirPrefix

(* The accounting of the mutable states and of the snapshots, on values of *)
(* the lists and of the maps.                                              *)
ActiveOK(free, act) ==
  /\ free \in Seq(MutableState)
  /\ IsInjective(free) /\ IsInjective(act)
  /\ Range(free) \intersect Range(act) = {}
  /\ Range(free) \union Range(act) = MutableState

CacheOK(free, ents, used) ==
  /\ free \in Seq(SnapshotState) /\ used \in Seq(Seq(Token))
  /\ IsInjective(free) /\ IsInjective(used) /\ IsInjective(ents)
  /\ Range(free) \intersect Range(ents) = {}
  /\ Range(free) \union Range(ents) = SnapshotState
  /\ Range(used) = DOMAIN ents

(* The inductive invariant in these terms. *)
LEMMA StateInvDef ==
  StateInv <=> /\ ActiveOK(mutable_free, active)
               /\ CacheOK(snapshot_free, entries, lru)
               /\ content \in [States -> Seq(Token) \union {Torn}]
               /\ SnapshotsHoldTheirPrefix
BY DEF StateInv, TypeOK, StatesAccounted, ActiveOK, CacheOK,
       MutableState, SnapshotState

(* The conjuncts from which the next state satisfies the invariant. *)
LEMMA StateInvNext ==
  /\ ActiveOK(mutable_free', active')
  /\ CacheOK(snapshot_free', entries', lru')
  /\ content' \in [States -> Seq(Token) \union {Torn}]
  /\ SnapshotsHoldTheirPrefix'
  => StateInv'
BY DEF StateInv, TypeOK, StatesAccounted, ActiveOK, CacheOK,
       MutableState, SnapshotState

-----------------------------------------------------------------------------
(* StatePool::create puts every state on its free list. *)
LEMMA InitStates == Init => StateInv
<1> SUFFICES ASSUME Init PROVE StateInv
  OBVIOUS
<1> USE StatesAssumption
<1>1. /\ MutableState \subseteq States
      /\ SnapshotState = MaxActive .. MaxActive + MaxSnapshots - 1
  BY DEF MutableState, SnapshotState, States
<1>2. IsInjective(<<>>) /\ Range(<<>>) = {} /\ DOMAIN <<>> = {}
  BY DEF IsInjective, Range
<1>3. ActiveOK(mutable_free, active)
  <2>1. mutable_free \in Seq(MutableState) /\ IsInjective(mutable_free)
    BY DEF Init, IsInjective, MutableState
  <2>2. Range(mutable_free) = MutableState
    <3>1. ASSUME NEW i \in MutableState PROVE i \in Range(mutable_free)
      <4>1. i + 1 \in 1 .. MaxActive /\ (i + 1) - 1 = i
        BY DEF MutableState
      <4> QED
        BY <4>1 DEF Init, Range
    <3> QED
      BY <2>1, <3>1, RangeOfSeq
  <2> QED
    BY <1>2, <2>1, <2>2 DEF ActiveOK, Init
<1>4. CacheOK(snapshot_free, entries, lru)
  <2>1. snapshot_free \in Seq(SnapshotState) /\ IsInjective(snapshot_free)
    BY <1>1 DEF Init, IsInjective
  <2>2. Range(snapshot_free) = SnapshotState
    <3>1. ASSUME NEW i \in SnapshotState PROVE i \in Range(snapshot_free)
      <4>1. i - MaxActive + 1 \in 1 .. MaxSnapshots
            /\ MaxActive + (i - MaxActive + 1) - 1 = i
        BY <1>1
      <4> QED
        BY <4>1 DEF Init, Range
    <3> QED
      BY <2>1, <3>1, RangeOfSeq
  <2>3. <<>> \in Seq(Seq(Token))
    OBVIOUS
  <2> QED
    BY <1>2, <2>1, <2>2, <2>3 DEF CacheOK, Init
<1>5. content \in [States -> Seq(Token) \union {Torn}]
  BY DEF Init
<1>6. SnapshotsHoldTheirPrefix
  BY <1>2 DEF Init, SnapshotsHoldTheirPrefix
<1> QED
  BY <1>3, <1>4, <1>5, <1>6, StateInvDef

-----------------------------------------------------------------------------
(* The snapshot cache. *)

(* evict_one leaves the cache accounted for, with a free snapshot and the  *)
(* other entries as they were.                                             *)
LEMMA EvictOneKeeps ==
  ASSUME CacheOK(snapshot_free, entries, lru), lru # <<>>
  PROVE  /\ CacheOK(EvictOne.free, EvictOne.entries, EvictOne.lru)
         /\ EvictOne.free # <<>>
         /\ \A k \in DOMAIN EvictOne.entries :
              k \in DOMAIN entries /\ EvictOne.entries[k] = entries[k]
<1> DEFINE key == Head(lru)
           id  == entries[key]
<1>1. key \in DOMAIN entries
  BY HeadTailRange DEF CacheOK
<1>2. id \in Range(entries) /\ id \in SnapshotState /\ id \notin Range(snapshot_free)
  BY <1>1 DEF CacheOK, Range
<1>3. /\ Append(snapshot_free, id) \in Seq(SnapshotState)
      /\ Append(snapshot_free, id) # <<>>
      /\ Range(Append(snapshot_free, id)) = Range(snapshot_free) \union {id}
      /\ IsInjective(Append(snapshot_free, id))
  BY <1>2, AppendRange, AppendProperties DEF CacheOK
<1>4. /\ DOMAIN Without(entries, {key}) = DOMAIN entries \ {key}
      /\ \A k \in DOMAIN entries \ {key} : Without(entries, {key})[k] = entries[k]
      /\ IsInjective(Without(entries, {key}))
      /\ Range(Without(entries, {key})) = Range(entries) \ {id}
  BY <1>1, WithoutProperties DEF CacheOK
<1>5. /\ Tail(lru) \in Seq(Seq(Token)) /\ IsInjective(Tail(lru))
      /\ Range(Tail(lru)) = Range(lru) \ {key}
  BY HeadTailRange DEF CacheOK
<1>6. /\ EvictOne.free = Append(snapshot_free, id)
      /\ EvictOne.entries = Without(entries, {key})
      /\ EvictOne.lru = Tail(lru)
  BY DEF EvictOne
<1> DEFINE free == Append(snapshot_free, id)
           left == Without(entries, {key})
<1> HIDE DEF key, id, free, left
<1>7. Range(free) \intersect Range(left) = {}
  BY <1>3, <1>4 DEF CacheOK, free, left
<1>8. Range(free) \union Range(left) = SnapshotState
  BY <1>2, <1>3, <1>4 DEF CacheOK, free, left
<1>9. CacheOK(free, left, Tail(lru))
  BY <1>3, <1>4, <1>5, <1>7, <1>8 DEF CacheOK, free, left
<1> QED
  BY <1>3, <1>4, <1>6, <1>9 DEF free, left

(* The cache in which a snapshot is placed has a free snapshot state. *)
LEMMA RoomKeeps ==
  ASSUME CacheOK(snapshot_free, entries, lru), snapshot_free # <<>> \/ lru # <<>>
  PROVE  /\ CacheOK(Room.free, Room.entries, Room.lru)
         /\ Room.free # <<>>
         /\ \A k \in DOMAIN Room.entries :
              k \in DOMAIN entries /\ Room.entries[k] = entries[k]
<1>1. CASE snapshot_free = <<>>
  <2>1. Room = EvictOne
    BY <1>1 DEF Room
  <2> QED
    BY <1>1, <2>1, EvictOneKeeps
<1>2. CASE snapshot_free # <<>>
  <2>1. Room.free = snapshot_free /\ Room.entries = entries /\ Room.lru = lru
    BY <1>2 DEF Room
  <2> QED
    BY <1>2, <2>1
<1> QED
  BY <1>1, <1>2

-----------------------------------------------------------------------------
(* Where the states are. *)
LEMMA ActiveStates ==
  ASSUME StateInv
  PROVE  /\ MutableState \subseteq States /\ SnapshotState \subseteq States
         /\ MutableState \intersect SnapshotState = {}
         /\ \A q \in DOMAIN active : active[q] \in MutableState
         /\ \A k \in DOMAIN entries : entries[k] \in SnapshotState /\ k \in Seq(Token)
<1>1. MutableState \subseteq States
  BY StatesAssumption DEF MutableState, States
<1>2. ActiveOK(mutable_free, active) /\ CacheOK(snapshot_free, entries, lru)
  BY StateInvDef
<1>3. \A q \in DOMAIN active : active[q] \in MutableState
  BY <1>2 DEF ActiveOK, Range
<1>4. \A k \in DOMAIN entries : entries[k] \in SnapshotState
  BY <1>2 DEF CacheOK, Range
<1>5. DOMAIN entries \subseteq Seq(Token)
  BY <1>2, RangeOfSeq DEF CacheOK
<1> QED
  BY <1>1, <1>3, <1>4, <1>5 DEF SnapshotState

(* Writing a mutable state, or a snapshot that no entry names, leaves the  *)
(* entries what they were.                                                 *)
LEMMA WriteElsewhere ==
  ASSUME StateInv, NEW id \in States, NEW value \in Seq(Token) \union {Torn},
         NEW ents,
         \A k \in DOMAIN ents :
            k \in DOMAIN entries /\ ents[k] = entries[k] /\ ents[k] # id
  PROVE  /\ [content EXCEPT ![id] = value] \in [States -> Seq(Token) \union {Torn}]
         /\ \A k \in DOMAIN ents : [content EXCEPT ![id] = value][ents[k]] = k
<1>1. content \in [States -> Seq(Token) \union {Torn}] /\ SnapshotsHoldTheirPrefix
  BY StateInvDef
<1>2. ASSUME NEW k \in DOMAIN ents
      PROVE  [content EXCEPT ![id] = value][ents[k]] = k
  <2>1. ents[k] \in States /\ ents[k] # id
    BY ActiveStates
  <2>2. content[ents[k]] = k
    BY <1>1 DEF SnapshotsHoldTheirPrefix
  <2> QED
    BY <1>1, <2>1, <2>2
<1> QED
  BY <1>1, <1>2

(* StateCache::snapshot, with the eviction that may precede it. *)
LEMMA SnapshotPreserves ==
  ASSUME StateInv, NEW q \in Sequence, NEW block \in 0 .. FrontierDepth,
         Snapshot(q, block)
  PROVE  StateInv'
<1> DEFINE key  == content[active[q]]
           id   == Head(Room.free)
           ents == Room.entries
<1>1. /\ q \in DOMAIN active /\ key # Torn /\ key \notin DOMAIN entries
      /\ snapshot_free # <<>> \/ lru # <<>>
  BY DEF Snapshot, CanSnapshot
<1>2. /\ snapshot_free' = Tail(Room.free) /\ entries' = Insert(ents, key, id)
      /\ lru' = Append(Room.lru, key)
      /\ content' = [content EXCEPT ![id] = key]
      /\ mutable_free' = mutable_free /\ active' = active
  BY DEF Snapshot
<1>3. /\ ActiveOK(mutable_free, active) /\ CacheOK(snapshot_free, entries, lru)
      /\ content \in [States -> Seq(Token) \union {Torn}]
  BY StateInvDef
<1>4. /\ CacheOK(Room.free, ents, Room.lru) /\ Room.free # <<>>
      /\ \A k \in DOMAIN ents : k \in DOMAIN entries /\ ents[k] = entries[k]
  BY <1>1, <1>3, RoomKeeps
<1>5. key \in Seq(Token)
  BY <1>1, <1>3, ActiveStates
<1> HIDE DEF key, ents
<1>6. /\ id \in SnapshotState /\ Tail(Room.free) \in Seq(SnapshotState)
      /\ id \notin Range(Tail(Room.free)) /\ IsInjective(Tail(Room.free))
      /\ Range(Tail(Room.free)) = Range(Room.free) \ {id}
      /\ id \in Range(Room.free)
  BY <1>4, HeadTailRange DEF CacheOK
<1> HIDE DEF id
<1>7. id \notin Range(ents)
  BY <1>4, <1>6 DEF CacheOK
<1>8. key \notin DOMAIN ents /\ key \notin Range(Room.lru)
  BY <1>1, <1>4 DEF CacheOK
<1>9. /\ DOMAIN Insert(ents, key, id) = DOMAIN ents \union {key}
      /\ Insert(ents, key, id)[key] = id
      /\ \A k \in DOMAIN ents : Insert(ents, key, id)[k] = ents[k]
      /\ Range(Insert(ents, key, id)) = Range(ents) \union {id}
      /\ IsInjective(Insert(ents, key, id))
  <2>1. IsInjective(ents)
    BY <1>4 DEF CacheOK
  <2> QED
    BY <1>7, <1>8, <2>1 DEF Insert, Range, IsInjective
<1>10. /\ Append(Room.lru, key) \in Seq(Seq(Token))
       /\ Range(Append(Room.lru, key)) = Range(Room.lru) \union {key}
       /\ IsInjective(Append(Room.lru, key))
  BY <1>4, <1>5, <1>8, AppendRange DEF CacheOK
<1>11. CacheOK(snapshot_free', entries', lru')
  <2>1. Range(snapshot_free') \intersect Range(entries') = {}
    BY <1>2, <1>4, <1>6, <1>9 DEF CacheOK
  <2>2. Range(snapshot_free') \union Range(entries') = SnapshotState
    BY <1>2, <1>4, <1>6, <1>9 DEF CacheOK
  <2>3. Range(lru') = DOMAIN entries'
    BY <1>2, <1>4, <1>9, <1>10 DEF CacheOK
  <2> QED
    BY <1>2, <1>6, <1>9, <1>10, <2>1, <2>2, <2>3 DEF CacheOK
<1>12. id \in States /\ \A k \in DOMAIN ents : ents[k] # id
  BY <1>6, <1>7, ActiveStates DEF Range
<1>13. /\ content' \in [States -> Seq(Token) \union {Torn}]
       /\ \A k \in DOMAIN ents : content'[ents[k]] = k
  BY <1>2, <1>4, <1>5, <1>12, WriteElsewhere
<1>14. content'[id] = key
  BY <1>2, <1>3, <1>12
<1>15. SnapshotsHoldTheirPrefix'
  BY <1>2, <1>9, <1>13, <1>14 DEF SnapshotsHoldTheirPrefix
<1> QED
  BY <1>2, <1>3, <1>11, <1>13, <1>15, StateInvNext

(* A snapshot whose copy fails: the state returns to the free list. *)
LEMMA SnapshotFailsPreserves ==
  ASSUME StateInv, NEW q \in Sequence, NEW block \in 0 .. FrontierDepth,
         SnapshotFails(q, block)
  PROVE  StateInv'
<1> DEFINE id   == Head(Room.free)
           ents == Room.entries
<1>1. /\ snapshot_free' = Append(Tail(Room.free), id)
      /\ entries' = ents /\ lru' = Room.lru
      /\ content' = [content EXCEPT ![id] = Torn]
      /\ mutable_free' = mutable_free /\ active' = active
  BY DEF SnapshotFails
<1>2. ActiveOK(mutable_free, active) /\ CacheOK(snapshot_free, entries, lru)
  BY StateInvDef
<1>3. /\ CacheOK(Room.free, ents, Room.lru) /\ Room.free # <<>>
      /\ \A k \in DOMAIN ents : k \in DOMAIN entries /\ ents[k] = entries[k]
  BY <1>2, RoomKeeps DEF SnapshotFails, CanSnapshot
<1> HIDE DEF ents
<1>4. /\ id \in SnapshotState /\ Tail(Room.free) \in Seq(SnapshotState)
      /\ id \notin Range(Tail(Room.free)) /\ IsInjective(Tail(Room.free))
      /\ Range(Room.free) = Range(Tail(Room.free)) \union {id}
      /\ id \in Range(Room.free)
  BY <1>3, HeadTailRange DEF CacheOK
<1> HIDE DEF id
<1>5. /\ snapshot_free' \in Seq(SnapshotState) /\ IsInjective(snapshot_free')
      /\ Range(snapshot_free') = Range(Room.free)
  <2> DEFINE rest == Tail(Room.free)
  <2>1. /\ rest \in Seq(SnapshotState) /\ id \in SnapshotState
        /\ id \notin Range(rest) /\ IsInjective(rest)
    BY <1>4
  <2> HIDE DEF rest
  <2>2. /\ Append(rest, id) \in Seq(SnapshotState) /\ IsInjective(Append(rest, id))
        /\ Range(Append(rest, id)) = Range(rest) \union {id}
    BY <2>1, AppendRange
  <2> QED
    BY <1>1, <1>4, <2>2 DEF rest
<1>6. CacheOK(snapshot_free', entries', lru')
  BY <1>1, <1>3, <1>5 DEF CacheOK
<1>7. id \in States /\ \A k \in DOMAIN ents : ents[k] # id
  <2>1. id \notin Range(ents)
    BY <1>3, <1>4 DEF CacheOK
  <2> QED
    BY <1>4, <2>1, ActiveStates DEF Range
<1>8. /\ content' \in [States -> Seq(Token) \union {Torn}]
      /\ \A k \in DOMAIN ents : content'[ents[k]] = k
  <2>1. PICK d : d = id /\ d \in States
    BY <1>7
  <2>2. \A k \in DOMAIN ents : k \in DOMAIN entries /\ ents[k] = entries[k] /\ ents[k] # d
    BY <1>3, <1>7, <2>1
  <2>3. PICK c, t : c = [content EXCEPT ![d] = t] /\ t = Torn
    OBVIOUS
  <2>4. /\ c \in [States -> Seq(Token) \union {Torn}]
        /\ \A k \in DOMAIN ents : c[ents[k]] = k
    BY <2>1, <2>2, <2>3, WriteElsewhere
  <2> QED
    BY <1>1, <2>1, <2>3, <2>4
<1>9. SnapshotsHoldTheirPrefix'
  BY <1>1, <1>8 DEF SnapshotsHoldTheirPrefix
<1> QED
  BY <1>1, <1>2, <1>6, <1>8, <1>9, StateInvNext

(* A restore writes the active state and moves its entry to the end of the *)
(* LRU, whatever the copy leaves in the state.                             *)
LEMMA RestorePreserves ==
  ASSUME StateInv, NEW q, NEW key, NEW value \in Seq(Token) \union {Torn},
         RestoreTo(q, key, value)
  PROVE  StateInv'
<1>1. /\ q \in DOMAIN active /\ key \in DOMAIN entries
      /\ lru' = Append(Erase(lru, key), key)
      /\ content' = [content EXCEPT ![active[q]] = value]
      /\ mutable_free' = mutable_free /\ active' = active
      /\ snapshot_free' = snapshot_free /\ entries' = entries
  BY DEF RestoreTo
<1>2. ActiveOK(mutable_free, active) /\ CacheOK(snapshot_free, entries, lru)
  BY StateInvDef
<1>3. /\ Erase(lru, key) \in Seq(Seq(Token))
      /\ IsInjective(Erase(lru, key))
      /\ Range(Erase(lru, key)) = Range(lru) \ {key}
  BY <1>1, <1>2, EraseProperties DEF CacheOK
<1>4. key \in Seq(Token) /\ key \in Range(lru)
  BY <1>1, <1>2, ActiveStates DEF CacheOK
<1>5. lru' \in Seq(Seq(Token)) /\ IsInjective(lru') /\ Range(lru') = Range(lru)
  <2> DEFINE rest == Erase(lru, key)
  <2>1. key \notin Range(rest)
    BY <1>3
  <2> HIDE DEF rest
  <2>2. /\ Append(rest, key) \in Seq(Seq(Token)) /\ IsInjective(Append(rest, key))
        /\ Range(Append(rest, key)) = Range(rest) \union {key}
    BY <1>3, <1>4, <2>1, AppendRange DEF rest
  <2> QED
    BY <1>1, <1>3, <1>4, <2>2 DEF rest
<1>6. CacheOK(snapshot_free', entries', lru')
  BY <1>1, <1>2, <1>5 DEF CacheOK
<1>7. active[q] \in States /\ \A k \in DOMAIN entries : entries[k] # active[q]
  BY <1>1, ActiveStates
<1>8. /\ content' \in [States -> Seq(Token) \union {Torn}]
      /\ \A k \in DOMAIN entries : content'[entries[k]] = k
  BY <1>1, <1>7, WriteElsewhere
<1>9. SnapshotsHoldTheirPrefix'
  BY <1>1, <1>8 DEF SnapshotsHoldTheirPrefix
<1> QED
  BY <1>1, <1>2, <1>6, <1>8, <1>9, StateInvNext

(* StateCache::evict_one called from outside. *)
LEMMA EvictPreserves ==
  ASSUME StateInv, Evict
  PROVE  StateInv'
<1>1. /\ lru # <<>> /\ snapshot_free' = EvictOne.free
      /\ entries' = EvictOne.entries /\ lru' = EvictOne.lru
      /\ mutable_free' = mutable_free /\ active' = active /\ content' = content
  BY DEF Evict
<1>2. /\ ActiveOK(mutable_free, active) /\ CacheOK(snapshot_free, entries, lru)
      /\ content \in [States -> Seq(Token) \union {Torn}]
      /\ SnapshotsHoldTheirPrefix
  BY StateInvDef
<1>3. /\ CacheOK(snapshot_free', entries', lru')
      /\ \A k \in DOMAIN entries' : k \in DOMAIN entries /\ entries'[k] = entries[k]
  BY <1>1, <1>2, EvictOneKeeps
<1>4. SnapshotsHoldTheirPrefix'
  BY <1>1, <1>2, <1>3 DEF SnapshotsHoldTheirPrefix
<1> QED
  BY <1>1, <1>2, <1>3, <1>4, StateInvNext

-----------------------------------------------------------------------------
(* The pool of mutable states. *)

(* The oldest free mutable state. *)
LEMMA FreeMutable ==
  ASSUME StateInv, mutable_free # <<>>
  PROVE  /\ Head(mutable_free) \in MutableState
         /\ Head(mutable_free) \in Range(mutable_free)
         /\ Head(mutable_free) \notin Range(Tail(mutable_free))
         /\ Tail(mutable_free) \in Seq(MutableState)
         /\ IsInjective(Tail(mutable_free))
         /\ Range(Tail(mutable_free)) = Range(mutable_free) \ {Head(mutable_free)}
BY StateInvDef, HeadTailRange DEF ActiveOK

(* Writing a mutable state does not touch the cache. *)
LEMMA WriteMutable ==
  ASSUME StateInv, NEW id \in MutableState, NEW value \in Seq(Token) \union {Torn},
         content' = [content EXCEPT ![id] = value],
         UNCHANGED <<snapshot_free, entries, lru>>,
         ActiveOK(mutable_free', active')
  PROVE  StateInv'
<1>1. CacheOK(snapshot_free', entries', lru')
  BY StateInvDef
<1>2. id \in States /\ \A k \in DOMAIN entries : entries[k] # id
  BY ActiveStates
<1>3. /\ content' \in [States -> Seq(Token) \union {Torn}]
      /\ \A k \in DOMAIN entries : content'[entries[k]] = k
  BY <1>2, WriteElsewhere
<1>4. SnapshotsHoldTheirPrefix'
  BY <1>3 DEF SnapshotsHoldTheirPrefix
<1> QED
  BY <1>1, <1>3, <1>4, StateInvNext

(* StatePool::acquire_active. *)
LEMMA AcquireActivePreserves ==
  ASSUME StateInv, NEW q \in Sequence, AcquireActive(q)
  PROVE  StateInv'
<1> DEFINE id == Head(mutable_free)
<1>1. /\ q \notin DOMAIN active /\ mutable_free # <<>>
      /\ active' = Insert(active, q, id)
      /\ mutable_free' = Tail(mutable_free)
      /\ content' = [content EXCEPT ![id] = <<>>]
      /\ UNCHANGED <<snapshot_free, entries, lru>>
  BY DEF AcquireActive
<1>2. ActiveOK(mutable_free, active)
  BY StateInvDef
<1>3. /\ id \in MutableState /\ id \in Range(mutable_free)
      /\ id \notin Range(mutable_free') /\ mutable_free' \in Seq(MutableState)
      /\ IsInjective(mutable_free')
      /\ Range(mutable_free') = Range(mutable_free) \ {id}
  BY <1>1, FreeMutable
<1> HIDE DEF id
<1>4. id \notin Range(active) /\ IsInjective(active)
  BY <1>2, <1>3 DEF ActiveOK
<1>5. Range(active') = Range(active) \union {id} /\ IsInjective(active')
  <2>1. q \notin DOMAIN active /\ active' = Insert(active, q, id)
    BY <1>1
  <2>2. /\ Range(Insert(active, q, id)) = Range(active) \union {id}
        /\ IsInjective(Insert(active, q, id))
    <3>1. Range(Insert(active, q, id)) = Range(active) \union {id}
      BY <2>1 DEF Insert, Range
    <3>2. IsInjective(active) /\ id \notin Range(active) => IsInjective(Insert(active, q, id))
      BY <2>1, InsertProperties
    <3> QED
      BY <1>4, <3>1, <3>2
  <2> QED
    BY <2>1, <2>2
<1>6. ActiveOK(mutable_free', active')
  BY <1>2, <1>3, <1>4, <1>5 DEF ActiveOK
<1>7. <<>> \in Seq(Token)
  OBVIOUS
<1> QED
  BY <1>1, <1>3, <1>6, <1>7, WriteMutable

(* acquire_active whose zeroing fails: the state goes to the end of the    *)
(* free list.                                                              *)
LEMMA AcquireFailsPreserves ==
  ASSUME StateInv, NEW q \in Sequence, AcquireFails(q)
  PROVE  StateInv'
<1> DEFINE id == Head(mutable_free)
           rest == Tail(mutable_free)
<1>1. /\ mutable_free # <<>> /\ active' = active
      /\ mutable_free' = Append(rest, id)
      /\ content' = [content EXCEPT ![id] = Torn]
      /\ UNCHANGED <<snapshot_free, entries, lru>>
  BY DEF AcquireFails
<1>2. ActiveOK(mutable_free, active)
  BY StateInvDef
<1>3. /\ id \in MutableState /\ id \in Range(mutable_free) /\ id \notin Range(rest)
      /\ rest \in Seq(MutableState) /\ IsInjective(rest)
      /\ Range(rest) = Range(mutable_free) \ {id}
  BY <1>1, FreeMutable
<1> HIDE DEF id, rest
<1>4. /\ Append(rest, id) \in Seq(MutableState) /\ IsInjective(Append(rest, id))
      /\ Range(Append(rest, id)) = Range(rest) \union {id}
  BY <1>3, AppendRange
<1>5. ActiveOK(mutable_free', active')
  BY <1>1, <1>2, <1>3, <1>4 DEF ActiveOK
<1> QED
  BY <1>1, <1>3, <1>5, WriteMutable

(* StatePool::release_active. *)
LEMMA ReleaseActivePreserves ==
  ASSUME StateInv, NEW q \in Sequence, ReleaseActive(q)
  PROVE  StateInv'
<1> DEFINE id == active[q]
<1>1. /\ q \in DOMAIN active /\ active' = Without(active, {q})
      /\ mutable_free' = Append(mutable_free, id)
      /\ UNCHANGED <<snapshot_free, entries, lru, content>>
  BY DEF ReleaseActive
<1>2. /\ ActiveOK(mutable_free, active) /\ CacheOK(snapshot_free, entries, lru)
      /\ content \in [States -> Seq(Token) \union {Torn}]
      /\ SnapshotsHoldTheirPrefix
  BY StateInvDef
<1>3. id \in MutableState /\ id \in Range(active) /\ id \notin Range(mutable_free)
  BY <1>1, <1>2, ActiveStates DEF ActiveOK, Range
<1>4. IsInjective(active') /\ Range(active') = Range(active) \ {id}
  BY <1>1, <1>2, WithoutProperties DEF ActiveOK
<1> HIDE DEF id
<1>5. /\ mutable_free' \in Seq(MutableState) /\ IsInjective(mutable_free')
      /\ Range(mutable_free') = Range(mutable_free) \union {id}
  BY <1>1, <1>2, <1>3, AppendRange DEF ActiveOK
<1>6. ActiveOK(mutable_free', active')
  BY <1>2, <1>3, <1>4, <1>5 DEF ActiveOK
<1>7. SnapshotsHoldTheirPrefix'
  BY <1>1, <1>2 DEF SnapshotsHoldTheirPrefix
<1> QED
  BY <1>1, <1>2, <1>6, <1>7, StateInvNext

(* A batch advances the state of a sequence. *)
LEMMA AbsorbPreserves ==
  ASSUME StateInv, NEW q \in Sequence, NEW t \in Token, Absorb(q, t)
  PROVE  StateInv'
<1> DEFINE id == active[q]
<1>1. /\ q \in DOMAIN active /\ content[id] # Torn
      /\ content' = [content EXCEPT ![id] = Append(content[id], t)]
      /\ UNCHANGED <<mutable_free, active>>
      /\ UNCHANGED <<snapshot_free, entries, lru>>
  BY DEF Absorb
<1>2. /\ ActiveOK(mutable_free, active)
      /\ content \in [States -> Seq(Token) \union {Torn}]
  BY StateInvDef
<1>3. id \in MutableState /\ id \in States
  BY <1>1, ActiveStates
<1>4. content[id] \in Seq(Token)
  BY <1>1, <1>2, <1>3
<1>5. Append(content[id], t) \in Seq(Token)
  BY <1>4
<1>6. ActiveOK(mutable_free', active')
  BY <1>1, <1>2
<1> QED
  BY <1>1, <1>3, <1>5, <1>6, WriteMutable

-----------------------------------------------------------------------------
(* Every step of the state pool and of the snapshot cache keeps the        *)
(* invariant.                                                              *)
LEMMA NextStates == StateInv /\ [Next]_vars => StateInv'
<1> SUFFICES ASSUME StateInv, [Next]_vars PROVE StateInv'
  OBVIOUS
<1>1. CASE UNCHANGED vars
  BY <1>1 DEF vars, StateInv, TypeOK, StatesAccounted, SnapshotsHoldTheirPrefix
<1>2. CASE Evict
  BY <1>2, EvictPreserves
<1>3. ASSUME NEW q \in Sequence,
             AcquireActive(q) \/ AcquireFails(q) \/ ReleaseActive(q)
      PROVE  StateInv'
  BY <1>3, AcquireActivePreserves, AcquireFailsPreserves, ReleaseActivePreserves
<1>4. ASSUME NEW q \in Sequence, NEW t \in Token, Absorb(q, t)
      PROVE  StateInv'
  BY <1>4, AbsorbPreserves
<1>5. ASSUME NEW q \in Sequence, NEW block \in 0 .. FrontierDepth,
             Snapshot(q, block) \/ SnapshotFails(q, block)
      PROVE  StateInv'
  BY <1>5, SnapshotPreserves, SnapshotFailsPreserves
<1>6. ASSUME NEW q \in Sequence, NEW key \in DOMAIN entries,
             RestoreSnapshot(q, key) \/ RestoreFails(q, key)
      PROVE  StateInv'
  <2>1. content[entries[key]] \in Seq(Token) \union {Torn}
    BY StateInvDef, ActiveStates
  <2> QED
    BY <1>6, <2>1, RestorePreserves DEF RestoreSnapshot, RestoreFails
<1> QED
  BY <1>1, <1>2, <1>3, <1>4, <1>5, <1>6 DEF Next

(* The inductive invariant of StatePool and StateCache. *)
THEOREM StateInvariant == Spec => []StateInv
BY InitStates, NextStates, PTL DEF Spec

(* No state is lost or in two places: StatePool's free lists, its active   *)
(* states, the entries of StateCache and its LRU always fit together, also *)
(* when memsets and copies fail and entries are evicted.                   *)
THEOREM StatesAccountedTheorem == Spec => []StatesAccounted
<1>1. StateInv => StatesAccounted
  BY DEF StateInv
<1> QED
  BY <1>1, StateInvariant, PTL

(* restore() copies the state of exactly the prefix it was asked for.      *)
THEOREM SnapshotsHoldTheirPrefixTheorem == Spec => []SnapshotsHoldTheirPrefix
<1>1. StateInv => SnapshotsHoldTheirPrefix
  BY DEF StateInv
<1> QED
  BY <1>1, StateInvariant, PTL

(* A step that writes a state which no sequence owns, or none, changes the *)
(* state of no sequence.                                                   *)
LEMMA OthersWritten ==
  ASSUME StateInv, NEW id, NEW value,
         content' = content \/ content' = [content EXCEPT ![id] = value],
         \A q \in DOMAIN active : active[q] # id
  PROVE  \A q \in DOMAIN active : content'[active[q]] = content[active[q]]
BY ActiveStates, StateInvDef

(* A sequence's own step writes its state alone. *)
LEMMA OwnWritten ==
  ASSUME StateInv, NEW o \in DOMAIN active, NEW value,
         content' = [content EXCEPT ![active[o]] = value],
         NEW q \in DOMAIN active, content'[active[q]] # content[active[q]]
  PROVE  /\ \A i \in States \ {active[q]} : content'[i] = content[i]
         /\ \A p \in DOMAIN active \ {q} : active[p] # active[q]
<1>1. content \in [States -> Seq(Token) \union {Torn}] /\ IsInjective(active)
  BY StateInvDef DEF ActiveOK
<1>2. active[q] = active[o]
  BY <1>1, ActiveStates
<1>3. q = o
  BY <1>1, <1>2 DEF IsInjective
<1> QED
  BY <1>1, <1>2, <1>3 DEF IsInjective

(* No call of StatePool or StateCache for one sequence, successful or not, *)
(* changes the state of another.                                           *)
THEOREM StatesAreIsolatedTheorem == Spec => StatesAreIsolated
<1> DEFINE Own(q) == /\ UNCHANGED <<mutable_free, snapshot_free, active, entries>>
                     /\ \A i \in States \ {active[q]} : content'[i] = content[i]
                     /\ \A p \in DOMAIN active \ {q} : active[p] # active[q]
           Step == \A q \in DOMAIN active :
                     content'[active[q]] # content[active[q]] => Own(q)
<1>1. StateInv /\ [Next]_vars => [Step]_vars
  <2> SUFFICES ASSUME StateInv, Next PROVE Step
    OBVIOUS
  <2>1. ASSUME NEW o \in Sequence, AcquireActive(o) \/ AcquireFails(o) PROVE Step
    <3>1. mutable_free # <<>>
      BY <2>1 DEF AcquireActive, AcquireFails
    <3>2. \A q \in DOMAIN active : active[q] # Head(mutable_free)
      BY <3>1, FreeMutable, StateInvDef DEF ActiveOK, Range
    <3>3. PICK value : content' = [content EXCEPT ![Head(mutable_free)] = value]
      BY <2>1 DEF AcquireActive, AcquireFails
    <3>4. PICK id : id = Head(mutable_free)
      OBVIOUS
    <3>5. /\ content' = [content EXCEPT ![id] = value]
          /\ \A q \in DOMAIN active : active[q] # id
      BY <3>2, <3>3, <3>4
    <3> QED
      BY <3>5, OthersWritten
  <2>2. ASSUME NEW o \in Sequence, NEW block \in 0 .. FrontierDepth,
               Snapshot(o, block) \/ SnapshotFails(o, block)
        PROVE  Step
    <3>1. PICK id, value : id = Head(Room.free) /\ content' = [content EXCEPT ![id] = value]
      BY <2>2 DEF Snapshot, SnapshotFails
    <3>2. snapshot_free # <<>> \/ lru # <<>>
      BY <2>2 DEF Snapshot, SnapshotFails, CanSnapshot
    <3>3. CacheOK(Room.free, Room.entries, Room.lru) /\ Room.free # <<>>
      BY <3>2, RoomKeeps, StateInvDef
    <3>4. id \in SnapshotState
      BY <3>1, <3>3 DEF CacheOK
    <3>5. \A q \in DOMAIN active : active[q] # id
      BY <3>4, ActiveStates
    <3> QED
      BY <3>1, <3>5, OthersWritten
  <2>3. ASSUME NEW o \in DOMAIN active, NEW value,
               content' = [content EXCEPT ![active[o]] = value],
               UNCHANGED <<mutable_free, snapshot_free, active, entries>>
        PROVE  Step
    BY <2>3, OwnWritten
  <2>4. ASSUME NEW o \in Sequence, NEW t \in Token, Absorb(o, t) PROVE Step
    BY <2>3, <2>4 DEF Absorb
  <2>5. ASSUME NEW o \in Sequence, NEW key \in DOMAIN entries,
               RestoreSnapshot(o, key) \/ RestoreFails(o, key)
        PROVE  Step
    BY <2>3, <2>5 DEF RestoreSnapshot, RestoreFails, RestoreTo
  <2>6. CASE content' = content
    BY <2>6
  <2>7. Evict \/ (\E o \in Sequence : ReleaseActive(o)) => content' = content
    BY DEF Evict, ReleaseActive
  <2> HIDE DEF Step
  <2> QED
    BY <2>1, <2>2, <2>4, <2>5, <2>6, <2>7 DEF Next
<1> QED
  BY <1>1, StateInvariant, PTL DEF Spec, StatesAreIsolated
==============================================================================
