------------------------- MODULE KVOwnershipProofs --------------------------
(***************************************************************************)
(* Proofs about KVOwnership, for any set of blocks and any finite set of   *)
(* sequences.  OwnershipInv is inductive; the action properties follow     *)
(* from it.                                                                *)
(***************************************************************************)
EXTENDS KVOwnership, FiniteSetTheorems, TLAPS

-----------------------------------------------------------------------------
(* Facts about the sequences that hold a block. *)

(* The holders of a block are finitely many, so they can be counted.       *)
LEMMA HoldersFinite ==
  ASSUME NEW b PROVE IsFiniteSet(Holders(b)) /\ Cardinality(Holders(b)) \in Nat
<1>1. Holders(b) \subseteq Owner
  BY DEF Holders
<1>2. IsFiniteSet(Holders(b))
  BY <1>1, OwnershipAssumption, FS_Subset
<1> QED
  BY <1>2, FS_CardinalityType

(* A block without references is in no block table and is not lost.        *)
LEMMA ZeroRefs ==
  ASSUME RefCounts, NEW b \in Block, ref[b] = 0
  PROVE  Holders(b) = {} /\ b \notin lost
<1>1. Cardinality(Holders(b)) + (IF b \in lost THEN 1 ELSE 0) = 0
  BY DEF RefCounts
<1>2. Cardinality(Holders(b)) \in Nat
  BY HoldersFinite
<1>3. b \notin lost /\ Cardinality(Holders(b)) = 0
  BY <1>1, <1>2
<1> QED
  BY <1>3, HoldersFinite, FS_EmptySet

(* One more sequence holds the block: the count grows by one.              *)
LEMMA OneMoreHolder ==
  ASSUME NEW b, NEW o \in Owner, b \notin holds[o],
         Holders(b)' = Holders(b) \union {o}
  PROVE  Cardinality(Holders(b)') = Cardinality(Holders(b)) + 1
<1>1. o \notin Holders(b)
  BY DEF Holders
<1> QED
  BY <1>1, HoldersFinite, FS_AddElement

(* One sequence fewer holds the block: the count shrinks by one.           *)
LEMMA OneHolderLess ==
  ASSUME NEW b, NEW o \in Owner, b \in holds[o],
         Holders(b)' = Holders(b) \ {o}
  PROVE  Cardinality(Holders(b)') = Cardinality(Holders(b)) - 1
<1>1. o \in Holders(b)
  BY DEF Holders
<1> QED
  BY <1>1, HoldersFinite, FS_RemoveElement

(* The blocks that an admission or a decode step may take are in no table  *)
(* and not lost.                                                           *)
LEMMA TakeableIsUnused ==
  ASSUME OwnershipInv, NEW b \in free \union Idle
  PROVE  b \in Block /\ Holders(b) = {} /\ b \notin lost
<1>1. CASE b \in free
  BY <1>1 DEF OwnershipInv, FreeIsUnused, TypeOK
<1>2. CASE b \in Idle
  BY <1>2, ZeroRefs DEF OwnershipInv, Idle, TypeOK
<1> QED
  BY <1>1, <1>2

-----------------------------------------------------------------------------
(* Init establishes the invariant. *)
LEMMA InitOwnership == Init => OwnershipInv
<1> SUFFICES ASSUME Init PROVE OwnershipInv
  OBVIOUS
<1>1. \A b \in Block : Holders(b) = {}
  BY DEF Init, Holders
<1>2. TypeOK
  BY DEF Init, TypeOK
<1>3. RefCounts
  BY <1>1, FS_EmptySet DEF Init, RefCounts
<1>4. FreeIsUnused
  BY <1>1 DEF Init, FreeIsUnused
<1> QED
  BY <1>2, <1>3, <1>4 DEF Init, OwnershipInv, LostIsUnreachable, NothingVanishes

-----------------------------------------------------------------------------
(* Each action preserves the invariant. *)

(* Admission: the hits gain a holder, the blocks taken had none.           *)
LEMMA AdmitPreserves ==
  ASSUME OwnershipInv, NEW o \in Owner, NEW hit \in SUBSET cached,
         NEW evict \in SUBSET (Idle \ hit),
         NEW taken \in SUBSET (free \union evict), Admit(o, hit, evict, taken)
  PROVE  OwnershipInv'
<1> USE DEF OwnershipInv
<1>1. /\ cached \subseteq Block /\ free \subseteq Block /\ Idle \subseteq Block
      /\ taken \subseteq Block /\ hit \subseteq Block
  BY DEF TypeOK, Idle
<1>2. \A b \in taken : Holders(b) = {} /\ b \notin lost
  BY TakeableIsUnused
<1>3. hit \intersect taken = {}
  BY DEF FreeIsUnused
<1>4. TypeOK'
  BY <1>1 DEF Admit, TypeOK
<1>5. \A b \in Block : Holders(b)' =
        IF b \in hit \union taken THEN Holders(b) \union {o} ELSE Holders(b)
  BY DEF Admit, Holders, TypeOK
<1>6. RefCounts'
  <2> SUFFICES ASSUME NEW b \in Block
               PROVE  ref'[b] = Cardinality(Holders(b)') +
                                (IF b \in lost' THEN 1 ELSE 0)
    BY DEF RefCounts
  <2>1. /\ ref[b] = Cardinality(Holders(b)) + (IF b \in lost THEN 1 ELSE 0)
        /\ Cardinality(Holders(b)) \in Nat /\ lost' = lost /\ b \notin holds[o]
    BY HoldersFinite DEF RefCounts, Admit
  <2>2. CASE b \in hit
    <3>1. ref'[b] = ref[b] + 1
      BY <2>2 DEF Admit
    <3>2. Cardinality(Holders(b)') = Cardinality(Holders(b)) + 1
      BY <1>5, <2>1, <2>2, OneMoreHolder
    <3> QED
      BY <2>1, <3>1, <3>2
  <2>3. CASE b \in taken
    <3>1. ref'[b] = 1
      BY <1>3, <2>3 DEF Admit
    <3>2. Cardinality(Holders(b)') = Cardinality(Holders(b)) + 1
      BY <1>5, <2>1, <2>3, OneMoreHolder
    <3>3. Cardinality(Holders(b)) = 0 /\ b \notin lost
      BY <1>2, <2>3, FS_EmptySet
    <3> QED
      BY <2>1, <3>1, <3>2, <3>3
  <2>4. CASE b \notin hit \union taken
    <3>1. ref'[b] = ref[b] /\ Holders(b)' = Holders(b)
      BY <1>5, <2>4 DEF Admit
    <3> QED
      BY <2>1, <3>1
  <2> QED
    BY <2>2, <2>3, <2>4
<1>7. FreeIsUnused'
  <2> SUFFICES ASSUME NEW b \in free'
               PROVE  Holders(b)' = {} /\ b \notin cached' /\ b \notin lost'
    BY DEF FreeIsUnused
  <2>1. b \in free \union evict /\ b \notin taken
    BY DEF Admit
  <2>2. b \in Block /\ Holders(b) = {} /\ b \notin lost
    BY <2>1, TakeableIsUnused
  <2>3. b \notin hit /\ b \notin cached'
    BY <2>1 DEF Admit, FreeIsUnused
  <2> QED
    BY <1>5, <2>1, <2>2, <2>3 DEF Admit
<1>8. LostIsUnreachable'
  <2> SUFFICES ASSUME NEW b \in lost'
               PROVE  Holders(b)' = {} /\ b \notin cached'
    BY DEF LostIsUnreachable
  <2>1. b \in Block /\ b \in lost /\ Holders(b) = {} /\ b \notin cached
    BY DEF Admit, LostIsUnreachable, TypeOK
  <2>2. b \notin hit \union taken
    BY <1>2, <2>1
  <2> QED
    BY <1>5, <2>1, <2>2 DEF Admit
<1>9. NothingVanishes'
  <2> SUFFICES ASSUME NEW b \in Block
               PROVE  b \in free' \/ b \in cached' \/ ref'[b] > 0
    BY DEF NothingVanishes
  <2>1. ref[b] \in Nat /\ (b \in free \/ b \in cached \/ ref[b] > 0)
    BY DEF NothingVanishes, TypeOK
  <2> QED
    BY <2>1 DEF Admit
<1> QED
  BY <1>4, <1>6, <1>7, <1>8, <1>9

(* A short admission: what it takes had no holder and becomes lost.        *)
LEMMA AdmitShortPreserves ==
  ASSUME OwnershipInv, NEW hit \in SUBSET cached, AdmitShort(hit)
  PROVE  OwnershipInv'
<1> USE DEF OwnershipInv
<1> DEFINE gone == free \union (Idle \ hit)
<1>1. gone \subseteq Block /\ \A b \in gone : Holders(b) = {} /\ b \notin lost
  BY TakeableIsUnused DEF TypeOK, Idle
<1>2. /\ free' = {} /\ cached' = cached \ (Idle \ hit) /\ lost' = lost \union gone
      /\ ref' = [b \in Block |-> IF b \in gone THEN 1 ELSE ref[b]]
  BY DEF AdmitShort
<1>3. \A b : Holders(b)' = Holders(b)
  BY DEF AdmitShort, Holders
<1> HIDE DEF gone
<1>4. TypeOK'
  BY <1>1, <1>2 DEF AdmitShort, TypeOK
<1>5. RefCounts'
  <2> SUFFICES ASSUME NEW b \in Block
               PROVE  ref'[b] = Cardinality(Holders(b)) +
                                (IF b \in lost' THEN 1 ELSE 0)
    BY <1>3 DEF RefCounts
  <2>1. ref[b] = Cardinality(Holders(b)) + (IF b \in lost THEN 1 ELSE 0)
    BY DEF RefCounts
  <2>2. CASE b \in gone
    <3>1. Cardinality(Holders(b)) = 0
      BY <1>1, <2>2, FS_EmptySet
    <3> QED
      BY <1>2, <2>2, <3>1
  <2>3. CASE b \notin gone
    BY <1>2, <2>1, <2>3
  <2> QED
    BY <2>2, <2>3
<1>6. FreeIsUnused'
  BY <1>2 DEF FreeIsUnused
<1>7. LostIsUnreachable'
  <2> SUFFICES ASSUME NEW b \in lost'
               PROVE  Holders(b) = {} /\ b \notin cached'
    BY <1>3 DEF LostIsUnreachable
  <2>1. CASE b \in lost
    BY <1>2, <2>1 DEF LostIsUnreachable
  <2>2. CASE b \in gone
    BY <1>1, <1>2, <2>2 DEF gone, FreeIsUnused
  <2> QED
    BY <1>2, <2>1, <2>2
<1>8. NothingVanishes'
  <2> SUFFICES ASSUME NEW b \in Block
               PROVE  b \in cached' \/ ref'[b] > 0
    BY DEF NothingVanishes
  <2>1. ref[b] \in Nat /\ (b \in free \/ b \in cached \/ ref[b] > 0)
    BY DEF NothingVanishes, TypeOK
  <2> QED
    BY <1>2, <2>1 DEF gone
<1> QED
  BY <1>4, <1>5, <1>6, <1>7, <1>8

(* A decode step: the block taken had no holder and gets one.              *)
LEMMA GrowPreserves ==
  ASSUME OwnershipInv, NEW o \in Owner, NEW c \in Block, Grow(o, c)
  PROVE  OwnershipInv'
<1> USE DEF OwnershipInv
<1>1. Holders(c) = {} /\ c \notin lost /\ c \notin holds[o]
  BY TakeableIsUnused DEF Grow, Holders
<1>2. TypeOK'
  BY DEF Grow, TypeOK
<1>3. \A b \in Block : Holders(b)' =
        IF b = c THEN Holders(b) \union {o} ELSE Holders(b)
  BY DEF Grow, Holders, TypeOK
<1>4. RefCounts'
  <2> SUFFICES ASSUME NEW b \in Block
               PROVE  ref'[b] = Cardinality(Holders(b)') +
                                (IF b \in lost' THEN 1 ELSE 0)
    BY DEF RefCounts
  <2>1. CASE b = c
    <3>1. Cardinality(Holders(b)') = Cardinality(Holders(b)) + 1
      BY <1>1, <1>3, <2>1, OneMoreHolder
    <3>2. Cardinality(Holders(b)) = 0
      BY <1>1, <2>1, FS_EmptySet
    <3>3. ref'[b] = 1 /\ b \notin lost'
      BY <1>1, <2>1 DEF Grow, TypeOK
    <3> QED
      BY <3>1, <3>2, <3>3
  <2>2. CASE b # c
    BY <1>3, <2>2 DEF Grow, RefCounts, TypeOK
  <2> QED
    BY <2>1, <2>2
<1>5. FreeIsUnused'
  BY <1>3 DEF Grow, FreeIsUnused, TypeOK
<1>6. LostIsUnreachable'
  BY <1>1, <1>3 DEF Grow, LostIsUnreachable, TypeOK
<1>7. NothingVanishes'
  BY DEF Grow, NothingVanishes, TypeOK
<1> QED
  BY <1>2, <1>4, <1>5, <1>6, <1>7

(* A publication: the block has a holder, so it is neither free nor lost.  *)
LEMMA PublishPreserves ==
  ASSUME OwnershipInv, NEW o \in Owner, NEW c \in Block, Publish(o, c)
  PROVE  OwnershipInv'
<1> USE DEF OwnershipInv
<1>1. Holders(c) # {}
  BY DEF Publish, Holders
<1>2. \A b : Holders(b)' = Holders(b)
  BY DEF Publish, Holders
<1>3. TypeOK'
  BY DEF Publish, TypeOK
<1>4. RefCounts'
  BY <1>2 DEF Publish, RefCounts
<1>5. FreeIsUnused'
  BY <1>1, <1>2 DEF Publish, FreeIsUnused
<1>6. LostIsUnreachable'
  BY <1>1, <1>2 DEF Publish, LostIsUnreachable
<1>7. NothingVanishes'
  BY DEF Publish, NothingVanishes
<1> QED
  BY <1>3, <1>4, <1>5, <1>6, <1>7

(* A release: each block of the table loses one holder and one reference,  *)
(* and what is freed had no other holder.                                  *)
LEMMA ReleasePreserves ==
  ASSUME OwnershipInv, NEW o \in Owner, Release(o)
  PROVE  OwnershipInv'
<1> USE DEF OwnershipInv
<1>1. \A b \in Block : Holders(b)' =
        IF b \in holds[o] THEN Holders(b) \ {o} ELSE Holders(b)
  BY DEF Release, Holders, TypeOK
<1>2. ASSUME NEW b \in holds[o]
      PROVE  /\ b \in Block /\ b \notin lost /\ b \notin free
             /\ ref[b] = Cardinality(Holders(b)) /\ ref[b] \in Nat
             /\ Cardinality(Holders(b)') = ref[b] - 1
             /\ ref'[b] = ref[b] - 1 /\ ref'[b] \in Nat
  <2>1. b \in Block /\ o \in Holders(b)
    BY DEF Holders, TypeOK
  <2>2. b \notin lost /\ b \notin free
    BY <2>1 DEF LostIsUnreachable, FreeIsUnused
  <2>3. ref[b] = Cardinality(Holders(b)) /\ ref[b] \in Nat
    BY <2>1, <2>2, HoldersFinite DEF RefCounts, TypeOK
  <2>4. Cardinality(Holders(b)') = ref[b] - 1
    BY <1>1, <2>1, <2>3, OneHolderLess
  <2>5. ref[b] # 0
    BY <2>1, ZeroRefs
  <2>6. ref'[b] = ref[b] - 1
    BY <2>1 DEF Release
  <2> QED
    BY <2>1, <2>2, <2>3, <2>4, <2>5, <2>6
<1>3. TypeOK'
  <2>1. ref' \in [Block -> Nat]
    BY <1>2 DEF Release, TypeOK
  <2> QED
    BY <2>1 DEF Release, TypeOK
<1>4. RefCounts'
  <2> SUFFICES ASSUME NEW b \in Block
               PROVE  ref'[b] = Cardinality(Holders(b)') +
                                (IF b \in lost' THEN 1 ELSE 0)
    BY DEF RefCounts
  <2>1. CASE b \in holds[o]
    <3>1. b \notin lost'
      BY <1>2, <2>1 DEF Release
    <3> QED
      BY <1>2, <2>1, <3>1
  <2>2. CASE b \notin holds[o]
    BY <1>1, <2>2 DEF Release, RefCounts
  <2> QED
    BY <2>1, <2>2
<1>5. FreeIsUnused'
  <2> SUFFICES ASSUME NEW b \in free'
               PROVE  Holders(b)' = {} /\ b \notin cached' /\ b \notin lost'
    BY DEF FreeIsUnused
  <2>1. CASE b \in free
    BY <1>1, <2>1 DEF Release, FreeIsUnused, TypeOK
  <2>2. CASE b \in holds[o] /\ ref[b] = 1 /\ b \notin cached
    <3>1. Cardinality(Holders(b)') = 0 /\ b \notin lost /\ b \in Block
      BY <1>2, <2>2
    <3>2. Holders(b)' \subseteq Holders(b)
      BY <1>1, <3>1
    <3>3. IsFiniteSet(Holders(b)')
      BY <3>2, HoldersFinite, FS_Subset
    <3>4. Holders(b)' = {}
      BY <3>1, <3>3, FS_EmptySet
    <3> QED
      BY <2>2, <3>1, <3>4 DEF Release
  <2> QED
    BY <2>1, <2>2 DEF Release
<1>6. LostIsUnreachable'
  BY <1>1 DEF Release, LostIsUnreachable, TypeOK
<1>7. NothingVanishes'
  <2> SUFFICES ASSUME NEW b \in Block
               PROVE  b \in free' \/ b \in cached' \/ ref'[b] > 0
    BY DEF NothingVanishes
  <2>1. CASE b \in holds[o]
    <3>1. ref[b] # 0 /\ ref[b] \in Nat /\ ref'[b] = ref[b] - 1
      BY <1>2, <2>1
    <3>2. ref[b] = 1 /\ b \notin cached => b \in free'
      BY <2>1 DEF Release
    <3> QED
      BY <3>1, <3>2 DEF Release
  <2>2. CASE b \notin holds[o]
    BY <2>2 DEF Release, NothingVanishes
  <2> QED
    BY <2>1, <2>2
<1> QED
  BY <1>3, <1>4, <1>5, <1>6, <1>7

-----------------------------------------------------------------------------
(* Every step of the pool, the cache and the scheduler's allocation keeps  *)
(* the invariant.                                                          *)
LEMMA NextOwnership == OwnershipInv /\ [Next]_vars => OwnershipInv'
<1> SUFFICES ASSUME OwnershipInv, [Next]_vars PROVE OwnershipInv'
  OBVIOUS
<1>1. CASE UNCHANGED vars
  <2>1. \A b : Holders(b)' = Holders(b)
    BY <1>1 DEF vars, Holders
  <2> QED
    BY <1>1, <2>1 DEF vars, OwnershipInv, TypeOK, RefCounts, FreeIsUnused,
                      LostIsUnreachable, NothingVanishes
<1>2. CASE \E o \in Owner, hit \in SUBSET cached :
             \E evict \in SUBSET (Idle \ hit) :
               \E taken \in SUBSET (free \union evict) : Admit(o, hit, evict, taken)
  BY <1>2, AdmitPreserves
<1>3. CASE \E hit \in SUBSET cached : AdmitShort(hit)
  BY <1>3, AdmitShortPreserves
<1>4. CASE \E o \in Owner, b \in Block : Grow(o, b)
  BY <1>4, GrowPreserves
<1>5. CASE \E o \in Owner, b \in Block : Publish(o, b)
  BY <1>5, PublishPreserves
<1>6. CASE \E o \in Owner : Release(o)
  BY <1>6, ReleasePreserves
<1> QED
  BY <1>1, <1>2, <1>3, <1>4, <1>5, <1>6 DEF Next

(* The ownership invariant holds of every behaviour of the block pool, the *)
(* prefix cache and the scheduler's allocation.                            *)
THEOREM OwnershipInvariant == Spec => []OwnershipInv
<1>1. OwnershipInv /\ [Next]_vars => OwnershipInv'
  BY NextOwnership
<1> QED
  BY <1>1, InitOwnership, PTL DEF Spec

(* ref_count never gets out of step with the block tables.                 *)
THEOREM RefCountsTheorem == Spec => []RefCounts
<1>1. OwnershipInv => RefCounts
  BY DEF OwnershipInv
<1> QED
  BY <1>1, OwnershipInvariant, PTL

(* BlockPool::allocate never hands out a block that a table, a cache entry *)
(* or a lost allocation still names.                                       *)
THEOREM FreeIsUnusedTheorem == Spec => []FreeIsUnused
<1>1. OwnershipInv => FreeIsUnused
  BY DEF OwnershipInv
<1> QED
  BY <1>1, OwnershipInvariant, PTL

(* No block drops out of free list, cache and tables at once.              *)
THEOREM NothingVanishesTheorem == Spec => []NothingVanishes
<1>1. OwnershipInv => NothingVanishes
  BY DEF OwnershipInv
<1> QED
  BY <1>1, OwnershipInvariant, PTL

(* Two sequences come to share a block only through the prefix cache: a    *)
(* block that is handed out has no holder unless it is a prefix hit.       *)
THEOREM SharedOnlyThroughCacheTheorem == Spec => SharedOnlyThroughCache
<1> DEFINE Step == \A o \in Owner : \A b \in holds'[o] \ holds[o] :
                     Holders(b) # {} => b \in cached
<1>1. OwnershipInv /\ [Next]_vars => [Step]_vars
  <2> SUFFICES ASSUME OwnershipInv, Next PROVE Step
    OBVIOUS
  <2>1. ASSUME NEW p \in Owner, NEW hit \in SUBSET cached,
               NEW evict \in SUBSET (Idle \ hit),
               NEW taken \in SUBSET (free \union evict),
               Admit(p, hit, evict, taken)
        PROVE  Step
    BY <2>1, TakeableIsUnused DEF Admit, OwnershipInv, TypeOK
  <2>2. ASSUME NEW hit \in SUBSET cached, AdmitShort(hit) PROVE Step
    BY <2>2 DEF AdmitShort
  <2>3. ASSUME NEW p \in Owner, NEW c \in Block, Grow(p, c) PROVE Step
    BY <2>3, TakeableIsUnused DEF Grow, OwnershipInv, TypeOK
  <2>4. ASSUME NEW p \in Owner, NEW c \in Block, Publish(p, c) PROVE Step
    BY <2>4 DEF Publish
  <2>5. ASSUME NEW p \in Owner, Release(p) PROVE Step
    BY <2>5 DEF Release, OwnershipInv, TypeOK
  <2> QED
    BY <2>1, <2>2, <2>3, <2>4, <2>5 DEF Next
<1> QED
  BY <1>1, OwnershipInvariant, PTL DEF Spec, SharedOnlyThroughCache

(* evict_one never takes the cache entry of a block in use.                *)
THEOREM HeldStaysCachedTheorem == Spec => HeldStaysCached
<1> DEFINE Step == \A b \in cached : Holders(b) # {} => b \in cached'
<1>1. OwnershipInv /\ [Next]_vars => [Step]_vars
  <2> SUFFICES ASSUME OwnershipInv, Next,
                      NEW b \in cached, Holders(b) # {}
               PROVE  b \in cached'
    OBVIOUS
  <2>1. b \notin free \union Idle
    BY TakeableIsUnused
  <2> QED
    BY <2>1 DEF Next, Admit, AdmitShort, Grow, Publish, Release
<1> QED
  BY <1>1, OwnershipInvariant, PTL DEF Spec, HeldStaysCached
=============================================================================
