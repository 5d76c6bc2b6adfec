------------------------- MODULE BlockManagerProofs -------------------------
(***************************************************************************)
(* Proofs about BlockManager, for any number of blocks, any block size,    *)
(* any prompts and any finite set of sequences: BlockManager implements    *)
(* KVOwnership, its index stays consistent, and the blocks of a prefix hit *)
(* stay cached for the tokens of the prompt.                               *)
(*                                                                         *)
(* The invariant has two parts.  Tables is about the lists, the tables and *)
(* the tokens and is shown here, action by action; OwnershipInv is about   *)
(* the sets of blocks and the references and comes from KVOwnershipProofs, *)
(* since each action maps to a step of KVOwnership.                        *)
(***************************************************************************)
EXTENDS BlockManager, KVBlockLemmas, TLAPS

(* Types, tables without duplicates that fit the tokens, and no more       *)
(* tokens to publish than have been retired.                               *)
TablesOK ==
  /\ pool \in Pools(Seq(Token))
  /\ table \in [Owner -> Seq(Block)]
  /\ tokens \in [Owner -> Seq(Token)]
  /\ \A o \in Owner : IsInjective(table[o])
  /\ \A o \in Owner : Len(table[o]) = BlocksFor(Len(tokens[o]))

ChainOK ==
  /\ frontier \in [Owner -> Nat]
  /\ parent \in [Owner -> Seq(Token)]
  /\ pending \in [Owner -> Seq(Token)]
  /\ \A o \in Owner : Len(pending[o]) <= frontier[o] /\ frontier[o] <= Len(tokens[o])

(* The blocks of a prefix hit are cached for the tokens up to their place. *)
HitsOf(o) ==
  \A i \in 1 .. hit[o] :
    /\ i \in 1 .. Len(table[o]) /\ i * BlockSize <= Len(tokens[o])
    /\ table[o][i] \in Named(pool.by_hash, SubSeq(tokens[o], 1, i * BlockSize))

HitsNamed == hit \in [Owner -> Nat] /\ \A o \in Owner : HitsOf(o)

Tables == TablesOK /\ ChainOK /\ HitsNamed

(* The inductive invariant. *)
BlockInv == Tables /\ OwnershipInv

-----------------------------------------------------------------------------
(* The sequences that hold a block, and its references. *)

(* Cardinality is the same operator in the instance of KVOwnership. *)
LEMMA SameCardinality ==
  ASSUME NEW S
  PROVE  Ownership!Cardinality(S) = Cardinality(S)
  BY DEF Ownership!Cardinality, Cardinality

(* The sequences that hold a block can be counted. *)
LEMMA HoldersCounted ==
  ASSUME NEW b
  PROVE  IsFiniteSet(Holders(b)) /\ Cardinality(Holders(b)) \in Nat
<1>1. Holders(b) \subseteq Owner
  BY DEF Holders
<1>2. IsFiniteSet(Holders(b))
  BY <1>1, OwnershipAssumption, FS_Subset
<1> QED
  BY <1>2, FS_CardinalityType

(* Whoever holds a block is among its references.                          *)
LEMMA HeldIsReferenced ==
  ASSUME OwnershipInv, TablesOK
  PROVE  /\ pool.ref \in [Block -> Nat]
         /\ \A b \in Block : Cardinality(Holders(b)) <= pool.ref[b]
         /\ \A b \in Block : pool.ref[b] = 0 => Holders(b) = {}
         /\ \A o \in Owner : \A b \in Range(table[o]) : b \in Block /\ pool.ref[b] # 0
<1>1. pool.ref \in [Block -> Nat]
  BY PoolFacts DEF TablesOK
<1>2. ASSUME NEW b \in Block
      PROVE  Cardinality(Holders(b)) <= pool.ref[b] /\ (pool.ref[b] = 0 => Holders(b) = {})
  <2> DEFINE extra == IF b \in {c \in Block : pool.ref[c] > Cardinality(Holders(c))} THEN 1 ELSE 0
  <2>1. Ownership!Holders(b) = Holders(b)
    BY DEF Ownership!Holders, Holders
  <2>2. pool.ref[b] = Cardinality(Holders(b)) + extra
    BY <2>1, SameCardinality DEF OwnershipInv, Ownership!OwnershipInv, Ownership!RefCounts
  <2>3. extra \in {0, 1}
    OBVIOUS
  <2> HIDE DEF extra
  <2>4. PICK c \in Nat : c = Cardinality(Holders(b))
    BY HoldersCounted
  <2>5. c <= pool.ref[b] /\ (pool.ref[b] = 0 => c = 0)
    BY <2>2, <2>3, <2>4
  <2> QED
    BY <2>4, <2>5, HoldersCounted, FS_EmptySet
<1>3. ASSUME NEW o \in Owner, NEW b \in Range(table[o])
      PROVE  b \in Block /\ pool.ref[b] # 0
  <2>1. b \in Block
    BY DEF TablesOK, Range
  <2>2. o \in Holders(b)
    BY DEF Holders
  <2> QED
    BY <1>2, <2>1, <2>2
<1> QED
  BY <1>1, <1>2, <1>3

(* What is free or idle has no reference.                                  *)
LEMMA TakeableIsUnreferenced ==
  ASSUME TablesOK
  PROVE  /\ Range(pool.free) \subseteq Block /\ Range(pool.idle) \subseteq Block
         /\ \A b \in Range(pool.free) : pool.ref[b] = 0 /\ b \notin Cached
         /\ Range(pool.idle) = {b \in Cached : pool.ref[b] = 0}
<1>1. pool \in Pools(Seq(Token))
  BY DEF TablesOK
<1>2. Cached \subseteq Block
  BY DEF Cached, CachedBlocks
<1> QED
  BY <1>1, <1>2, PoolFacts DEF Cached

(* A sequence keeps its hits in a step that keeps its part of the table    *)
(* and of the tokens and evicts only blocks of no table.                   *)
LEMMA HitsKept ==
  ASSUME TablesOK, HitsNamed, NEW u \in Owner, NEW G,
         \A k : Named(pool.by_hash, k) \ G \subseteq Named(pool.by_hash, k)',
         \A b \in Range(table[u]) : b \notin G,
         hit'[u] = hit[u],
         Len(table'[u]) \in Nat, Len(table[u]) <= Len(table'[u]),
         Len(tokens'[u]) \in Nat, Len(tokens[u]) <= Len(tokens'[u]),
         \A i \in 1 .. Len(table[u]) : table'[u][i] = table[u][i],
         \A m \in 0 .. Len(tokens[u]) : SubSeq(tokens'[u], 1, m) = SubSeq(tokens[u], 1, m)
  PROVE  HitsOf(u)'
<1>1. PICK x \in Seq(Block), y \in Seq(Token) : x = table[u] /\ y = tokens[u]
  BY DEF TablesOK
<1>2. SUFFICES ASSUME NEW i \in 1 .. hit[u]
               PROVE  /\ i \in 1 .. Len(table'[u]) /\ i * BlockSize <= Len(tokens'[u])
                      /\ table'[u][i] \in Named(pool'.by_hash, SubSeq(tokens'[u], 1, i * BlockSize))
  BY DEF HitsOf
<1>3. /\ i \in 1 .. Len(x) /\ i * BlockSize <= Len(y)
      /\ x[i] \in Named(pool.by_hash, SubSeq(y, 1, i * BlockSize))
  BY <1>1 DEF HitsNamed, HitsOf
<1>4. PICK m \in 0 .. Len(y) : m = i * BlockSize
  BY <1>3, PoolAssumption
<1>5. x[i] \notin G
  BY <1>1, <1>3 DEF Range
<1>6. table'[u][i] = x[i] /\ SubSeq(tokens'[u], 1, m) = SubSeq(y, 1, m)
  BY <1>1, <1>3
<1>7. \A k : Named(pool.by_hash, k) \ G \subseteq Named(pool'.by_hash, k)
  BY DEF Named
<1>8. x[i] \in Named(pool'.by_hash, SubSeq(y, 1, m))
  BY <1>3, <1>4, <1>5, <1>7
<1>9. i \in 1 .. Len(table'[u]) /\ i * BlockSize <= Len(tokens'[u])
  BY <1>1, <1>3, PoolAssumption
<1> QED
  BY <1>4, <1>6, <1>8, <1>9

(* The same in a step that leaves the sequence alone. *)
LEMMA HitsUntouched ==
  ASSUME TablesOK, HitsNamed, NEW u \in Owner, NEW G,
         \A k : Named(pool.by_hash, k) \ G \subseteq Named(pool.by_hash, k)',
         \A b \in Range(table[u]) : b \notin G,
         hit'[u] = hit[u], table'[u] = table[u], tokens'[u] = tokens[u]
  PROVE  HitsOf(u)'
<1>1. Len(table[u]) \in Nat /\ Len(tokens[u]) \in Nat
  BY DEF TablesOK
<1>2. /\ Len(table'[u]) \in Nat /\ Len(table[u]) <= Len(table'[u])
      /\ Len(tokens'[u]) \in Nat /\ Len(tokens[u]) <= Len(tokens'[u])
      /\ \A i \in 1 .. Len(table[u]) : table'[u][i] = table[u][i]
      /\ \A m \in 0 .. Len(tokens[u]) : SubSeq(tokens'[u], 1, m) = SubSeq(tokens[u], 1, m)
  BY <1>1
<1> QED
  BY <1>2, HitsKept

-----------------------------------------------------------------------------
(* Init. *)

(* The initial state, which is an initial state of KVOwnership too. *)
LEMMA InitBlock == Init => Tables /\ Ownership!Init
<1> SUFFICES ASSUME Init PROVE Tables /\ Ownership!Init
  OBVIOUS
<1>1. /\ pool \in Pools(Seq(Token)) /\ Range(pool.free) = Block /\ Cached = {}
      /\ \A k : Named(pool.by_hash, k) = {}
  BY InitPoolIsPool DEF Init, Cached
<1>2. pool.ref = [b \in Block |-> 0]
  BY DEF Init, InitPool
<1>3. \A o \in Owner : table[o] = <<>> /\ Range(table[o]) = {}
  BY DEF Init, Range
<1>4. TablesOK
  <2>1. BlocksFor(0) = 0
    BY BlocksForBounds
  <2> QED
    BY <1>1, <2>1 DEF Init, TablesOK, IsInjective
<1>5. ChainOK /\ HitsNamed
  BY DEF Init, ChainOK, HitsNamed, HitsOf
<1>6. \A b : Holders(b) = {}
  BY <1>3 DEF Holders
<1>7. \A b \in Block : ~(pool.ref[b] > Cardinality(Holders(b)))
  BY <1>2, <1>6, FS_EmptySet
<1>8. [o \in Owner |-> Range(table[o])] = [o \in Owner |-> {}]
  BY <1>3
<1>9. Ownership!Init
  BY <1>1, <1>2, <1>7, <1>8 DEF Ownership!Init
<1> QED
  BY <1>4, <1>5, <1>9 DEF Tables

-----------------------------------------------------------------------------
(* Each action is a step of the ownership specification, or leaves its     *)
(* state alone, and preserves Tables.                                      *)

(* The blocks that are lost are the same when every block gained as many   *)
(* references as holders.                                                  *)
Lost == {b \in Block : pool.ref[b] > Cardinality(Holders(b))}

(* A sequence is admitted.                                                 *)
LEMMA AdmittedStep ==
  ASSUME BlockInv, NEW o \in Owner, NEW prompt \in Prompts, NEW l, NEW a, NEW G,
         AdmissionEffect(Token, pool, prompt, l, a, G), table[o] = <<>>, a.ok,
         pool' = a.pool,
         table' = [table EXCEPT ![o] = l.table \o a.table],
         tokens' = [tokens EXCEPT ![o] = prompt],
         frontier' = [frontier EXCEPT ![o] = Len(l.table) * BlockSize],
         parent' = [parent EXCEPT ![o] = l.parent],
         hit' = [hit EXCEPT ![o] = Len(l.table)], UNCHANGED pending
  PROVE  Tables' /\ Ownership!Next
<1> DEFINE hits  == Range(l.table)
           taken == Range(a.table)
           T     == l.table \o a.table
<1>1. /\ l.table \in Seq(Block) /\ IsInjective(l.table) /\ l.parent \in Seq(Token)
      /\ a.table \in Seq(Block) /\ IsInjective(a.table)
      /\ hits \subseteq Cached /\ G \subseteq Range(pool.idle) \ hits
      /\ taken \subseteq Range(pool.free) \union G /\ hits \intersect taken = {}
      /\ \A i \in 1 .. Len(l.table) :
           /\ i * BlockSize <= Len(prompt)
           /\ l.table[i] \in Named(pool.by_hash, SubSeq(prompt, 1, i * BlockSize))
      /\ a.pool \in Pools(Seq(Token))
      /\ Range(a.pool.free) = (Range(pool.free) \union G) \ taken
      /\ a.pool.ref = [b \in Block |-> IF b \in hits THEN pool.ref[b] + 1
                                       ELSE IF b \in taken THEN 1 ELSE pool.ref[b]]
      /\ \A k : Named(a.pool.by_hash, k) = Named(pool.by_hash, k) \ G
      /\ Len(l.table) + Len(a.table) = BlocksFor(Len(prompt))
      /\ G # {} => taken = Range(pool.free) \union G
  BY DEF AdmissionEffect, Cached
<1>2. /\ TablesOK /\ ChainOK /\ HitsNamed /\ OwnershipInv
      /\ prompt \in Seq(Token) /\ prompt # <<>>
      /\ table \in [Owner -> Seq(Block)] /\ tokens \in [Owner -> Seq(Token)]
  BY PromptsAssumption DEF BlockInv, Tables, TablesOK
<1>3. /\ Range(pool.free) \subseteq Block /\ Range(pool.idle) \subseteq Block
      /\ \A b \in Range(pool.free) : pool.ref[b] = 0 /\ b \notin Cached
      /\ Range(pool.idle) = {b \in Cached : pool.ref[b] = 0}
  BY <1>2, TakeableIsUnreferenced
<1>4. /\ pool.ref \in [Block -> Nat]
      /\ \A b \in Block : Cardinality(Holders(b)) <= pool.ref[b]
      /\ \A b \in Block : pool.ref[b] = 0 => Holders(b) = {}
      /\ \A u \in Owner : \A b \in Range(table[u]) : b \in Block /\ pool.ref[b] # 0
  BY <1>2, HeldIsReferenced
<1>5. /\ T \in Seq(Block) /\ IsInjective(T) /\ Range(T) = hits \union taken
      /\ Len(T) = BlocksFor(Len(prompt))
      /\ \A i \in 1 .. Len(l.table) : i \in 1 .. Len(T) /\ T[i] = l.table[i]
  <2>1. PICK x \in Seq(Block), y \in Seq(Block) : x = l.table /\ y = a.table
    BY <1>1
  <2>2. IsInjective(x) /\ IsInjective(y) /\ Range(x) \intersect Range(y) = {}
    BY <1>1, <2>1
  <2>3. x \o y \in Seq(Block) /\ IsInjective(x \o y) /\ Range(x \o y) = Range(x) \union Range(y)
    BY <2>2, ConcatRange
  <2>4. Len(x \o y) = Len(x) + Len(y)
    OBVIOUS
  <2>5. \A i \in 1 .. Len(x) : i \in 1 .. Len(x \o y) /\ (x \o y)[i] = x[i]
    OBVIOUS
  <2>6. Len(x) + Len(y) = BlocksFor(Len(prompt))
    BY <1>1, <2>1
  <2> QED
    BY <2>1, <2>3, <2>4, <2>5, <2>6
<1>6. T # <<>> /\ hits \union taken # {}
  <2>1. PICK n \in Nat : n = Len(prompt) /\ n # 0
    BY <1>2
  <2>2. BlocksFor(n) # 0
    BY <2>1, BlocksForBounds
  <2>3. Len(T) # 0 /\ T \in Seq(Block)
    BY <1>5, <2>1, <2>2
  <2> HIDE DEF T
  <2>4. T # <<>> /\ Range(T) # {}
    <3>1. 1 \in DOMAIN T
      BY <2>3
    <3> QED
      BY <2>3, <3>1 DEF Range
  <2> QED
    BY <1>5, <2>4
<1>a. /\ pool' \in Pools(Seq(Token)) /\ Cached' = Cached \ G
      /\ \A k : Named(pool.by_hash, k)' = Named(pool.by_hash, k) \ G
  <2>1. PICK q : q = pool'
    OBVIOUS
  <2>2. q \in Pools(Seq(Token)) /\ \A k : Named(q.by_hash, k) = Named(pool.by_hash, k) \ G
    BY <1>1, <2>1
  <2>3. CachedBlocks(q) = CachedBlocks(pool) \ G
    BY <2>2, CachedWithout
  <2> QED
    BY <2>1, <2>2, <2>3 DEF Cached, Named, CachedBlocks, CacheContains
<1> HIDE DEF T
<1>7. /\ table' = [table EXCEPT ![o] = T] /\ table'[o] = T
      /\ \A u \in Owner \ {o} : table'[u] = table[u] /\ tokens'[u] = tokens[u]
      /\ tokens'[o] = prompt
  BY <1>2 DEF T
<1>8. TablesOK'
  <2>1. table' \in [Owner -> Seq(Block)]
    BY <1>2, <1>5, <1>7
  <2>2. tokens' \in [Owner -> Seq(Token)]
    BY <1>2
  <2>3. \A u \in Owner : IsInjective(table'[u])
    BY <1>2, <1>5, <1>7 DEF TablesOK
  <2>4. \A u \in Owner : Len(table'[u]) = BlocksFor(Len(tokens'[u]))
    BY <1>2, <1>5, <1>7 DEF TablesOK
  <2> QED
    BY <1>a, <2>1, <2>2, <2>3, <2>4 DEF TablesOK
<1>9. \A u \in Owner : \A b \in Range(table[u]) : b \notin taken /\ b \notin G
  BY <1>1, <1>3, <1>4
<1>10. ChainOK'
  <2>1. PICK h \in Nat, n \in Nat : h = Len(l.table) /\ n = Len(prompt)
    BY <1>1, <1>2
  <2>2. h * BlockSize \in Nat /\ h * BlockSize <= n
    <3>1. CASE h = 0
      BY <2>1, <3>1, PoolAssumption
    <3>2. CASE h # 0
      BY <1>1, <2>1, <3>2, PoolAssumption
    <3> QED
      BY <3>1, <3>2
  <2>3. /\ frontier' = [frontier EXCEPT ![o] = h * BlockSize] /\ pending' = pending
        /\ parent' = [parent EXCEPT ![o] = l.parent]
    BY <2>1
  <2>4. Len(pending[o]) = 0
    <3>1. Len(tokens[o]) = 0
      <4>1. PICK m \in Nat : m = Len(tokens[o])
        BY <1>2
      <4>2. BlocksFor(m) = 0
        BY <1>2, <4>1 DEF TablesOK
      <4> QED
        BY <4>1, <4>2, BlocksForBounds
    <3>2. pending[o] \in Seq(Token) /\ frontier[o] \in Nat
      BY <1>2 DEF ChainOK
    <3> QED
      BY <1>2, <3>1, <3>2 DEF ChainOK
  <2>5. /\ frontier' \in [Owner -> Nat] /\ parent' \in [Owner -> Seq(Token)]
        /\ pending' \in [Owner -> Seq(Token)]
    BY <1>1, <1>2, <2>2, <2>3 DEF ChainOK
  <2>6. ASSUME NEW u \in Owner
        PROVE  Len(pending'[u]) <= frontier'[u] /\ frontier'[u] <= Len(tokens'[u])
    <3>1. CASE u = o
      <4>1. frontier'[u] = h * BlockSize /\ Len(tokens'[u]) = n /\ Len(pending'[u]) = 0
        BY <1>2, <1>7, <2>1, <2>3, <2>4, <3>1 DEF ChainOK
      <4> QED
        BY <2>2, <4>1
    <3>2. CASE u # o
      <4>1. frontier'[u] = frontier[u] /\ tokens'[u] = tokens[u] /\ pending'[u] = pending[u]
        BY <1>2, <1>7, <2>3, <3>2 DEF ChainOK
      <4> QED
        BY <1>2, <4>1 DEF ChainOK
    <3> QED
      BY <3>1, <3>2
  <2> QED
    BY <2>5, <2>6 DEF ChainOK
<1>11. HitsNamed'
  <2>1. hit' \in [Owner -> Nat] /\ hit'[o] = Len(l.table)
    BY <1>1, <1>2 DEF HitsNamed
  <2>2. ASSUME NEW u \in Owner, u # o
        PROVE  HitsOf(u)'
    <3>1. hit'[u] = hit[u] /\ table'[u] = table[u] /\ tokens'[u] = tokens[u]
      BY <1>2, <1>7, <2>2 DEF HitsNamed
    <3>2. \A k : Named(pool.by_hash, k) \ G \subseteq Named(pool.by_hash, k)'
      BY <1>a
    <3>3. \A b \in Range(table[u]) : b \notin G
      BY <1>9
    <3> QED
      BY <1>2, <3>1, <3>2, <3>3, HitsUntouched
  <2>3. HitsOf(o)'
    <3> SUFFICES ASSUME NEW i \in 1 .. Len(l.table)
                 PROVE  /\ i \in 1 .. Len(T) /\ i * BlockSize <= Len(prompt)
                        /\ T[i] \in Named(pool.by_hash, SubSeq(prompt, 1, i * BlockSize))'
      BY <1>7, <2>1 DEF HitsOf, Named
    <3>1. i \in 1 .. Len(T) /\ T[i] = l.table[i]
      BY <1>5
    <3>2. l.table[i] \in Range(l.table)
      BY <1>1 DEF Range
    <3>3. l.table[i] \notin G
      BY <1>1, <3>2
    <3> QED
      BY <1>1, <1>a, <3>1, <3>3
  <2> QED
    BY <2>1, <2>2, <2>3 DEF HitsNamed
<1>12. \A b \in Block : Holders(b)' = IF b \in hits \union taken THEN Holders(b) \union {o}
                                      ELSE Holders(b)
  <2>1. \A u \in Owner, b \in Block : b \in Range(table'[u]) <=>
          IF u = o THEN b \in hits \union taken ELSE b \in Range(table[u])
    BY <1>5, <1>7
  <2>2. \A b : o \notin Holders(b)
    BY <1>2 DEF Holders, Range
  <2> QED
    BY <2>1, <2>2 DEF Holders
<1>13. Lost' = Lost
  <2> SUFFICES ASSUME NEW b \in Block
               PROVE  pool'.ref[b] > Cardinality(Holders(b)') <=>
                      pool.ref[b] > Cardinality(Holders(b))
    BY DEF Lost
  <2>1. PICK r \in Nat, c \in Nat : r = pool.ref[b] /\ c = Cardinality(Holders(b)) /\ c <= r
    BY <1>4, HoldersCounted
  <2>2. o \notin Holders(b)
    BY <1>2 DEF Holders, Range
  <2>3. Cardinality(Holders(b) \union {o}) = c + 1
    BY <2>1, <2>2, HoldersCounted, FS_AddElement
  <2>4. CASE b \in hits
    <3>1. pool'.ref[b] = r + 1 /\ Cardinality(Holders(b)') = c + 1
      BY <1>1, <1>12, <2>1, <2>3, <2>4
    <3> QED
      BY <2>1, <3>1
  <2>5. CASE b \in taken
    <3>1. r = 0
      BY <1>1, <1>3, <2>1, <2>5
    <3>2. pool'.ref[b] = 1 /\ Cardinality(Holders(b)') = c + 1
      BY <1>1, <1>12, <2>3, <2>5
    <3> QED
      BY <2>1, <3>1, <3>2
  <2>6. CASE b \notin hits \union taken
    <3>1. pool'.ref[b] = r /\ Cardinality(Holders(b)') = c
      BY <1>1, <1>12, <2>1, <2>6
    <3> QED
      BY <2>1, <3>1
  <2> QED
    BY <2>4, <2>5, <2>6
<1>14. Ownership!Admit(o, hits, G, taken)
  <2> DEFINE holds == [u \in Owner |-> Range(table[u])]
  <2>1. holds' = [holds EXCEPT ![o] = hits \union taken] /\ holds[o] = {}
    <3>1. \A u \in Owner : Range(table'[u]) = IF u = o THEN hits \union taken ELSE Range(table[u])
      BY <1>5, <1>7
    <3>2. Range(table[o]) = {}
      BY DEF Range
    <3> QED
      BY <3>1, <3>2
  <2>2. Range(pool'.free) = (Range(pool.free) \union G) \ taken
    BY <1>1
  <2>3. pool'.ref = [b \in Block |-> IF b \in hits THEN pool.ref[b] + 1
                                    ELSE IF b \in taken THEN 1 ELSE pool.ref[b]]
    BY <1>1
  <2>4. G # {} => taken = Range(pool.free) \union G
    BY <1>1
  <2> QED
    BY <1>6, <1>13, <1>a, <2>1, <2>2, <2>3, <2>4 DEF Ownership!Admit, Lost
<1>15. hits \in SUBSET Cached /\ taken \in SUBSET (Range(pool.free) \union G)
       /\ G \in SUBSET (Ownership!Idle \ hits)
  BY <1>1, <1>3 DEF Ownership!Idle
<1> QED
  BY <1>8, <1>10, <1>11, <1>14, <1>15 DEF Tables, Ownership!Next

(* An admission runs short of blocks.                                      *)
LEMMA AdmitShortStep ==
  ASSUME BlockInv, NEW prompt \in Prompts, NEW l, NEW a, NEW G,
         AdmissionEffect(Token, pool, prompt, l, a, G), ~a.ok,
         pool' = ReleaseRequestBlocks(a.pool, l.table),
         UNCHANGED <<table, tokens, frontier, parent, pending, hit>>
  PROVE  Tables' /\ Ownership!Next
<1> DEFINE hits  == Range(l.table)
           taken == Range(a.table)
<1>1. /\ hits \subseteq Cached /\ G = Range(pool.idle) \ hits
      /\ taken = Range(pool.free) \union G
  BY DEF AdmissionEffect, Cached
<1>2. /\ TablesOK /\ ChainOK /\ HitsNamed /\ OwnershipInv
      /\ pool \in Pools(Seq(Token))
  BY DEF BlockInv, Tables, TablesOK
<1>3. /\ Range(pool.free) \subseteq Block /\ Range(pool.idle) \subseteq Block
      /\ \A b \in Range(pool.free) : pool.ref[b] = 0 /\ b \notin Cached
      /\ Range(pool.idle) = {b \in Cached : pool.ref[b] = 0}
  BY <1>2, TakeableIsUnreferenced
<1>4. /\ pool.ref \in [Block -> Nat]
      /\ \A b \in Block : pool.ref[b] = 0 => Holders(b) = {}
      /\ \A u \in Owner : \A b \in Range(table[u]) : b \in Block /\ pool.ref[b] # 0
  BY <1>2, HeldIsReferenced
<1>5. /\ pool' \in Pools(Seq(Token)) /\ Range(pool'.free) = {}
      /\ pool'.ref = [b \in Block |-> IF b \in taken THEN 1 ELSE pool.ref[b]]
      /\ Cached' = Cached \ G
      /\ \A k : Named(pool.by_hash, k)' = Named(pool.by_hash, k) \ G
  <2>1. PICK p, q : p = pool /\ q = pool'
    OBVIOUS
  <2>2. /\ q \in Pools(Seq(Token)) /\ Range(q.free) = {}
        /\ q.ref = [b \in Block |-> IF b \in taken THEN 1 ELSE pool.ref[b]]
        /\ \A k : Named(q.by_hash, k) = Named(pool.by_hash, k) \ G
    <3>1. p \in Pools(Seq(Token)) /\ AdmissionEffect(Token, p, prompt, l, a, G)
      BY <1>2, <2>1
    <3>2. q = ReleaseRequestBlocks(a.pool, l.table)
      BY <2>1
    <3>3. LET r == ReleaseRequestBlocks(a.pool, l.table)
          IN  /\ r \in Pools(Seq(Token)) /\ Range(r.free) = {}
              /\ r.ref = [b \in Block |-> IF b \in Range(a.table) THEN 1 ELSE p.ref[b]]
              /\ \A k : Named(r.by_hash, k) = Named(p.by_hash, k) \ G
      BY <3>1, AdmissionReturned
    <3> QED
      BY <2>1, <3>2, <3>3
  <2>3. CachedBlocks(q) = CachedBlocks(pool) \ G
    BY <2>2, CachedWithout
  <2> QED
    BY <2>1, <2>2, <2>3 DEF Cached, Named, CachedBlocks, CacheContains
<1>6. TablesOK'
  BY <1>2, <1>5 DEF TablesOK
<1>7. \A u \in Owner : \A b \in Range(table[u]) : b \notin G
  BY <1>1, <1>3, <1>4
<1>8. ChainOK'
  BY <1>2 DEF ChainOK
<1>9. HitsNamed'
  <2>1. \A k : Named(pool.by_hash, k) \ G \subseteq Named(pool.by_hash, k)'
    BY <1>5
  <2>2. \A u \in Owner : HitsOf(u)'
    BY <1>2, <1>7, <2>1, HitsUntouched
  <2> QED
    BY <1>2, <2>2 DEF HitsNamed
<1>10. taken \subseteq Block /\ \A b \in taken : pool.ref[b] = 0
  BY <1>1, <1>3
<1>11. Lost' = Lost \union taken
  <2> SUFFICES ASSUME NEW b \in Block
               PROVE  pool'.ref[b] > Cardinality(Holders(b)') <=>
                      pool.ref[b] > Cardinality(Holders(b)) \/ b \in taken
    BY <1>10 DEF Lost
  <2>1. Holders(b)' = Holders(b)
    BY DEF Holders
  <2>2. CASE b \in taken
    <3>1. pool'.ref[b] = 1 /\ Cardinality(Holders(b)') = 0
      BY <1>4, <1>5, <1>10, <2>1, <2>2, FS_EmptySet
    <3> QED
      BY <2>2, <3>1
  <2>3. CASE b \notin taken
    BY <1>5, <2>1, <2>3
  <2> QED
    BY <2>2, <2>3
<1>12. Ownership!AdmitShort(hits)
  <2>1. Ownership!Idle \ hits = G
    BY <1>1, <1>3 DEF Ownership!Idle
  <2>2. [u \in Owner |-> Range(table'[u])] = [u \in Owner |-> Range(table[u])]
    OBVIOUS
  <2>3. Range(pool.free) \union G = taken
    BY <1>1
  <2>4. Lost' = (Lost \union Range(pool.free)) \union G
    BY <1>11, <2>3
  <2> HIDE DEF taken, hits
  <2> QED
    BY <1>5, <2>1, <2>2, <2>3, <2>4 DEF Ownership!AdmitShort, Lost
<1> QED
  BY <1>1, <1>6, <1>8, <1>9, <1>12 DEF Tables, Ownership!Next

(* An admission, whether the allocation succeeds or runs short. *)
LEMMA AdmitStep ==
  ASSUME BlockInv, NEW o \in Owner, NEW prompt \in Prompts, Admit(o, prompt)
  PROVE  Tables' /\ Ownership!Next
<1>1. pool \in Pools(Seq(Token)) /\ prompt \in Seq(Token)
  BY PromptsAssumption DEF BlockInv, Tables, TablesOK
<1>2. PICK l : l = LookupPrefixCache(pool, prompt)
  OBVIOUS
<1>3. PICK a : a = AllocateKVBlocks(l.pool, BlocksFor(Len(prompt)) - Len(l.table))
  OBVIOUS
<1>4. PICK G : AdmissionEffect(Token, pool, prompt, l, a, G)
  BY <1>1, <1>2, <1>3, AdmissionProperties
<1>5. CASE a.ok
  <2>1. /\ table[o] = <<>> /\ pool' = a.pool
        /\ table' = [table EXCEPT ![o] = l.table \o a.table]
        /\ tokens' = [tokens EXCEPT ![o] = prompt]
        /\ frontier' = [frontier EXCEPT ![o] = Len(l.table) * BlockSize]
        /\ parent' = [parent EXCEPT ![o] = l.parent]
        /\ hit' = [hit EXCEPT ![o] = Len(l.table)] /\ UNCHANGED pending
    BY <1>2, <1>3, <1>5 DEF Admit
  <2> QED
    BY <1>4, <1>5, <2>1, AdmittedStep
<1>6. CASE ~a.ok
  <2>1. /\ pool' = ReleaseRequestBlocks(a.pool, l.table)
        /\ UNCHANGED <<table, tokens, frontier, parent, pending, hit>>
    BY <1>2, <1>3, <1>6 DEF Admit
  <2> QED
    BY <1>4, <1>6, <2>1, AdmitShortStep
<1> QED
  BY <1>5, <1>6

(* A retirement: without a publication nothing changes for the ownership.  *)
LEMMA RetireStep ==
  ASSUME BlockInv, NEW o \in Owner, NEW n \in 1 .. Len(tokens[o]), Retire(o, n)
  PROVE  Tables' /\ UNCHANGED Ownership!vars
<1>1. TablesOK /\ ChainOK /\ HitsNamed
  BY DEF BlockInv, Tables
<1> DEFINE after == frontier[o] + n
           fresh == SubSeq(tokens[o], frontier[o] + 1, after)
<1>2. /\ after <= Len(tokens[o]) /\ frontier' = [frontier EXCEPT ![o] = after]
      /\ \/ pending' = pending
         \/ pending' = [pending EXCEPT ![o] = pending[o] \o fresh]
      /\ UNCHANGED <<pool, table, tokens, parent, hit>>
  BY DEF Retire
<1>3. /\ tokens[o] \in Seq(Token) /\ Len(tokens[o]) \in Nat /\ frontier[o] \in Nat
      /\ pending[o] \in Seq(Token) /\ Len(pending[o]) \in Nat /\ Len(pending[o]) <= frontier[o]
  BY <1>1 DEF TablesOK, ChainOK
<1>4. fresh \in Seq(Token) /\ Len(fresh) = n
  <2>1. PICK x \in Seq(Token), f \in Nat : x = tokens[o] /\ f = frontier[o]
    BY <1>3
  <2>2. f + n <= Len(x) /\ n \in Nat \ {0}
    BY <1>2, <2>1
  <2>3. SubSeq(x, f + 1, f + n) \in Seq(Token) /\ Len(SubSeq(x, f + 1, f + n)) = n
    BY <2>2, SubSeqProperties
  <2> QED
    BY <2>1, <2>3
<1> HIDE DEF fresh
<1>5. TablesOK' /\ HitsNamed'
  BY <1>1, <1>2 DEF TablesOK, HitsNamed, HitsOf, Named
<1>6. ChainOK'
  <2>1. /\ pending' \in [Owner -> Seq(Token)] /\ Len(pending'[o]) <= Len(pending[o]) + n
        /\ \A u \in Owner \ {o} : pending'[u] = pending[u]
    <3>1. CASE pending' = pending
      BY <1>1, <1>3, <3>1 DEF ChainOK
    <3>2. CASE pending' = [pending EXCEPT ![o] = pending[o] \o fresh]
      <4>1. /\ pending[o] \o fresh \in Seq(Token)
            /\ Len(pending[o] \o fresh) = Len(pending[o]) + n
        BY <1>3, <1>4
      <4> QED
        BY <1>1, <3>2, <4>1 DEF ChainOK
    <3> QED
      BY <1>2, <3>1, <3>2
  <2>2. /\ frontier' \in [Owner -> Nat] /\ frontier'[o] = frontier[o] + n
        /\ \A u \in Owner \ {o} : frontier'[u] = frontier[u]
    BY <1>1, <1>2, <1>3 DEF ChainOK
  <2>3. ASSUME NEW u \in Owner
        PROVE  Len(pending'[u]) <= frontier'[u] /\ frontier'[u] <= Len(tokens'[u])
    <3>1. CASE u = o
      <4>1. Len(pending'[o]) \in Nat
        BY <2>1
      <4> QED
        BY <1>2, <1>3, <2>1, <2>2, <3>1, <4>1
    <3>2. CASE u # o
      BY <1>1, <1>2, <2>1, <2>2, <3>2 DEF ChainOK
    <3> QED
      BY <3>1, <3>2
  <2> QED
    BY <1>1, <1>2, <2>1, <2>2, <2>3 DEF ChainOK
<1>7. UNCHANGED Ownership!vars
  BY <1>2 DEF Ownership!vars, Cached, CachedBlocks, CacheContains, Holders
<1> QED
  BY <1>5, <1>6, <1>7 DEF Tables

(* A full block is published.                                              *)
LEMMA PublishStep ==
  ASSUME BlockInv, NEW o \in Owner, Publish(o)
  PROVE  Tables' /\ Ownership!Next
<1> DEFINE n == (frontier[o] - Len(pending[o])) \div BlockSize + 1
           b == table[o][n]
           key == parent[o] \o SubSeq(pending[o], 1, BlockSize)
           rest == SubSeq(pending[o], BlockSize + 1, Len(pending[o]))
<1>1. /\ TablesOK /\ ChainOK /\ HitsNamed /\ OwnershipInv
      /\ pool \in Pools(Seq(Token)) /\ table[o] \in Seq(Block) /\ tokens[o] \in Seq(Token)
      /\ Len(table[o]) = BlocksFor(Len(tokens[o]))
      /\ parent[o] \in Seq(Token) /\ pending[o] \in Seq(Token) /\ frontier[o] \in Nat
      /\ Len(pending[o]) <= frontier[o] /\ frontier[o] <= Len(tokens[o])
  BY DEF BlockInv, Tables, TablesOK, ChainOK
<1>2. /\ Len(pending[o]) >= BlockSize /\ pool' = PublishFullBlock(pool, key, b)
      /\ parent' = [parent EXCEPT ![o] = key] /\ pending' = [pending EXCEPT ![o] = rest]
      /\ UNCHANGED <<table, tokens, frontier, hit>>
  BY DEF Publish
<1>3. n \in 1 .. Len(table[o])
  <2>1. PICK f \in Nat, p \in Nat, m \in Nat :
          f = frontier[o] /\ p = Len(pending[o]) /\ m = Len(tokens[o])
    BY <1>1
  <2>2. BlockSize <= p /\ p <= f /\ f <= m
    BY <1>1, <1>2, <2>1, PoolAssumption
  <2>3. (f - p) \div BlockSize + 1 \in 1 .. BlocksFor(m)
    BY <2>2, NextFullBlock
  <2> QED
    BY <1>1, <2>1, <2>3
<1> HIDE DEF n
<1>4. /\ b \in Block /\ b \in Range(table[o]) /\ key \in Seq(Token)
      /\ rest \in Seq(Token) /\ Len(rest) <= Len(pending[o])
  <2>1. b \in Block /\ b \in Range(table[o])
    BY <1>1, <1>3 DEF Range
  <2>a. PICK x \in Seq(Token) : x = pending[o]
    BY <1>1
  <2>2. PICK m \in 1 .. Len(x) : m = BlockSize
    BY <1>2, <2>a, PoolAssumption
  <2>3. SubSeq(x, 1, m) \in Seq(Token) /\ SubSeq(x, m + 1, Len(x)) \in Seq(Token)
        /\ Len(SubSeq(x, m + 1, Len(x))) <= Len(x)
    BY SubSeqProperties
  <2> QED
    BY <1>1, <2>1, <2>2, <2>3, <2>a
<1>5. pool.ref[b] # 0
  BY <1>1, <1>4, HeldIsReferenced
<1> HIDE DEF b, key, rest
<1>6. /\ pool' \in Pools(Seq(Token))
      /\ pool'.free = pool.free /\ pool'.ref = pool.ref /\ Cached' = Cached \union {b}
      /\ \A k, c : c \in Named(pool.by_hash, k)' <=>
                     c \in Named(pool.by_hash, k) \/ (k = key /\ c = b /\ b \notin Cached)
  <2>1. PICK p \in Pools(Seq(Token)) : p = pool
    BY <1>1
  <2>7. PICK q : q = pool'
    OBVIOUS
  <2>2. PICK c \in Block, j \in Seq(Token) : c = b /\ j = key
    BY <1>4
  <2>3. q = PublishFullBlock(p, j, c) /\ p.ref[c] # 0
    BY <1>2, <1>5, <2>1, <2>2, <2>7
  <2>4. /\ q \in Pools(Seq(Token)) /\ q.free = p.free /\ q.ref = p.ref
        /\ CachedBlocks(q) = CachedBlocks(p) \union {c}
        /\ \A k, d : d \in Named(q.by_hash, k) <=>
                       d \in Named(p.by_hash, k) \/ (k = j /\ d = c /\ c \notin CachedBlocks(p))
    BY <2>3, PublishProperties
  <2>5. Cached' = CachedBlocks(q) /\ Cached = CachedBlocks(p)
    BY <2>1, <2>7 DEF Cached, CachedBlocks, CacheContains
  <2>6. \A k : Named(pool.by_hash, k)' = Named(q.by_hash, k)
    BY <2>7 DEF Named
  <2> QED
    BY <2>1, <2>2, <2>4, <2>5, <2>6, <2>7
<1>7. TablesOK'
  BY <1>1, <1>2, <1>6 DEF TablesOK
<1>8. ChainOK'
  <2>1. parent' \in [Owner -> Seq(Token)] /\ pending' \in [Owner -> Seq(Token)]
    BY <1>1, <1>2, <1>4 DEF ChainOK
  <2>2. \A u \in Owner : Len(pending'[u]) <= Len(pending[u])
    <3> TAKE u \in Owner
    <3>1. Len(pending[u]) \in Nat
      BY <1>1 DEF ChainOK
    <3>2. pending'[u] = IF u = o THEN rest ELSE pending[u]
      BY <1>1, <1>2 DEF ChainOK
    <3> QED
      BY <1>4, <3>1, <3>2
  <2>3. ASSUME NEW u \in Owner
        PROVE  Len(pending'[u]) <= frontier[u]
    <3>1. Len(pending'[u]) \in Nat /\ Len(pending[u]) \in Nat /\ frontier[u] \in Nat
      BY <1>1, <2>1 DEF ChainOK
    <3> QED
      BY <1>1, <2>2, <3>1 DEF ChainOK
  <2> QED
    BY <1>1, <1>2, <2>1, <2>3 DEF ChainOK
<1>9. HitsNamed'
  <2>3. PICK G : G = {}
    OBVIOUS
  <2>1. /\ \A k : Named(pool.by_hash, k) \ G \subseteq Named(pool.by_hash, k)'
        /\ \A u \in Owner : \A c \in Range(table[u]) : c \notin G
    BY <1>6, <2>3
  <2>2. \A u \in Owner : HitsOf(u)'
    BY <1>1, <1>2, <2>1, HitsUntouched
  <2> QED
    BY <1>1, <1>2, <2>2 DEF HitsNamed
<1>10. Ownership!Publish(o, b)
  <2>1. Lost' = Lost
    BY <1>2, <1>6 DEF Lost, Holders
  <2>2. [u \in Owner |-> Range(table'[u])] = [u \in Owner |-> Range(table[u])]
    BY <1>2
  <2> QED
    BY <1>4, <1>6, <2>1, <2>2 DEF Ownership!Publish, Lost
<1> QED
  BY <1>4, <1>7, <1>8, <1>9, <1>10 DEF Tables, Ownership!Next

(* A decode step: without a new block nothing changes for the ownership.   *)
LEMMA DecodeStep ==
  ASSUME BlockInv, NEW o \in Owner, NEW t \in Token, Decode(o, t)
  PROVE  Tables' /\ (Ownership!Next \/ UNCHANGED Ownership!vars)
<1>1. /\ TablesOK /\ ChainOK /\ HitsNamed /\ OwnershipInv
      /\ pool \in Pools(Seq(Token)) /\ table \in [Owner -> Seq(Block)]
      /\ tokens \in [Owner -> Seq(Token)]
      /\ IsInjective(table[o]) /\ Len(table[o]) = BlocksFor(Len(tokens[o]))
  BY DEF BlockInv, Tables, TablesOK
<1>2. PICK m \in Nat : m = Len(tokens[o])
  BY <1>1
<1> DEFINE n == BlocksFor(m + 1) - Len(table[o])
<1>3. n \in {0, 1} /\ Len(table[o]) \in Nat /\ Len(table[o]) + n = BlocksFor(m + 1)
  <2>1. Len(table[o]) = BlocksFor(m)
    BY <1>1, <1>2
  <2>2. BlocksFor(m) \in Nat /\ BlocksFor(m + 1) \in Nat
    BY BlocksForBounds
  <2>3. BlocksFor(m + 1) - BlocksFor(m) \in {0, 1}
    BY BlocksForBounds
  <2> QED
    BY <2>1, <2>2, <2>3
<1>4. PICK a : a = AllocateKVBlocks(pool, n)
  OBVIOUS
<1>5. /\ table[o] # <<>> /\ a.ok /\ pool' = a.pool
      /\ table' = [table EXCEPT ![o] = table[o] \o a.table]
      /\ tokens' = [tokens EXCEPT ![o] = Append(tokens[o], t)]
      /\ UNCHANGED <<frontier, parent, pending, hit>>
  BY <1>2, <1>4 DEF Decode
<1> HIDE DEF n
<1>6. PICK G : Allocated(Seq(Token), pool, n, a, G)
  BY <1>1, <1>3, <1>4, AllocateProperties
<1> DEFINE taken == Range(a.table)
           T     == table[o] \o a.table
<1>7. /\ a.table \in Seq(Block) /\ IsInjective(a.table) /\ Len(a.table) = n
      /\ G \subseteq Range(pool.idle) /\ taken \subseteq Range(pool.free) \union G
      /\ a.pool \in Pools(Seq(Token))
      /\ Range(a.pool.free) = (Range(pool.free) \union G) \ taken
      /\ a.pool.ref = [b \in Block |-> IF b \in taken THEN 1 ELSE pool.ref[b]]
      /\ \A k : Named(a.pool.by_hash, k) = Named(pool.by_hash, k) \ G
      /\ G # {} => taken = Range(pool.free) \union G
  BY <1>5, <1>6 DEF Allocated
<1>8. /\ Range(pool.free) \subseteq Block /\ Range(pool.idle) \subseteq Block
      /\ \A b \in Range(pool.free) : pool.ref[b] = 0 /\ b \notin Cached
      /\ Range(pool.idle) = {b \in Cached : pool.ref[b] = 0}
  BY <1>1, TakeableIsUnreferenced
<1>9. /\ pool.ref \in [Block -> Nat]
      /\ \A b \in Block : pool.ref[b] = 0 => Holders(b) = {}
      /\ \A u \in Owner : \A b \in Range(table[u]) : b \in Block /\ pool.ref[b] # 0
  BY <1>1, HeldIsReferenced
<1>10. \A u \in Owner : \A b \in Range(table[u]) : b \notin taken /\ b \notin G
  BY <1>7, <1>8, <1>9
<1>11. /\ T \in Seq(Block) /\ IsInjective(T) /\ Range(T) = Range(table[o]) \union taken
       /\ Len(T) = BlocksFor(m + 1)
       /\ \A i \in 1 .. Len(table[o]) : i \in 1 .. Len(T) /\ T[i] = table[o][i]
  <2>1. PICK x \in Seq(Block), y \in Seq(Block) : x = table[o] /\ y = a.table
    BY <1>1, <1>7
  <2>2. IsInjective(x) /\ IsInjective(y) /\ Range(x) \intersect Range(y) = {}
    BY <1>1, <1>7, <1>10, <2>1
  <2>3. x \o y \in Seq(Block) /\ IsInjective(x \o y) /\ Range(x \o y) = Range(x) \union Range(y)
    BY <2>2, ConcatRange
  <2>4. Len(x \o y) = Len(x) + Len(y)
    OBVIOUS
  <2>5. \A i \in 1 .. Len(x) : i \in 1 .. Len(x \o y) /\ (x \o y)[i] = x[i]
    OBVIOUS
  <2>6. Len(x) + Len(y) = BlocksFor(m + 1)
    BY <1>3, <1>7, <2>1
  <2> QED
    BY <2>1, <2>3, <2>4, <2>5, <2>6
<1> HIDE DEF T
<1>12. /\ table' = [table EXCEPT ![o] = T] /\ table'[o] = T
       /\ \A u \in Owner \ {o} : table'[u] = table[u] /\ tokens'[u] = tokens[u]
       /\ tokens'[o] = Append(tokens[o], t) /\ tokens'[o] \in Seq(Token)
       /\ Len(tokens'[o]) = m + 1
  BY <1>1, <1>2, <1>5 DEF T
<1>a. /\ pool' \in Pools(Seq(Token)) /\ Cached' = Cached \ G
      /\ \A k : Named(pool.by_hash, k)' = Named(pool.by_hash, k) \ G
  <2>1. PICK q : q = pool'
    OBVIOUS
  <2>2. q \in Pools(Seq(Token)) /\ \A k : Named(q.by_hash, k) = Named(pool.by_hash, k) \ G
    BY <1>5, <1>7, <2>1
  <2>3. CachedBlocks(q) = CachedBlocks(pool) \ G
    BY <2>2, CachedWithout
  <2> QED
    BY <2>1, <2>2, <2>3 DEF Cached, Named, CachedBlocks, CacheContains
<1>13. TablesOK'
  <2>1. table' \in [Owner -> Seq(Block)] /\ tokens' \in [Owner -> Seq(Token)]
    BY <1>1, <1>5, <1>11, <1>12
  <2>2. \A u \in Owner : IsInjective(table'[u])
    BY <1>1, <1>11, <1>12 DEF TablesOK
  <2>3. \A u \in Owner : Len(table'[u]) = BlocksFor(Len(tokens'[u]))
    BY <1>1, <1>11, <1>12 DEF TablesOK
  <2> QED
    BY <1>a, <2>1, <2>2, <2>3 DEF TablesOK
<1>14. ChainOK'
  <2>1. ASSUME NEW u \in Owner
        PROVE  frontier[u] <= Len(tokens'[u])
    <3>1. frontier[u] \in Nat /\ frontier[u] <= Len(tokens[u])
      BY <1>1 DEF ChainOK
    <3> QED
      BY <1>2, <1>12, <3>1
  <2> QED
    BY <1>1, <1>5, <2>1 DEF ChainOK
<1>15. HitsNamed'
  <2>1. /\ \A k : Named(pool.by_hash, k) \ G \subseteq Named(pool.by_hash, k)'
        /\ \A u \in Owner : \A b \in Range(table[u]) : b \notin G
    BY <1>10, <1>a
  <2>2. ASSUME NEW u \in Owner, u # o
        PROVE  HitsOf(u)'
    <3>1. table'[u] = table[u] /\ tokens'[u] = tokens[u] /\ hit'[u] = hit[u]
      BY <1>5, <1>12, <2>2
    <3> QED
      BY <1>1, <2>1, <3>1, HitsUntouched
  <2>3. HitsOf(o)'
    <3>1. /\ Len(table'[o]) \in Nat /\ Len(table[o]) <= Len(table'[o])
          /\ \A i \in 1 .. Len(table[o]) : table'[o][i] = table[o][i]
      <4>1. Len(T) = Len(table[o]) + n /\ Len(table[o]) \in Nat /\ n \in Nat
        BY <1>3, <1>11
      <4> QED
        BY <1>11, <1>12, <4>1
    <3>2. Len(tokens'[o]) \in Nat /\ Len(tokens[o]) <= Len(tokens'[o])
      BY <1>2, <1>12
    <3>3. \A j \in 0 .. Len(tokens[o]) : SubSeq(tokens'[o], 1, j) = SubSeq(tokens[o], 1, j)
      <4> TAKE j \in 0 .. Len(tokens[o])
      <4>1. tokens[o] \in Seq(Token) /\ j \in Nat /\ j <= Len(tokens[o])
        BY <1>1
      <4> QED
        BY <1>12, <4>1, PrefixOfAppend
    <3>4. hit'[o] = hit[o] /\ \A b \in Range(table[o]) : b \notin G
      BY <1>5, <2>1
    <3> QED
      BY <1>1, <2>1, <3>1, <3>2, <3>3, <3>4, HitsKept
  <2> QED
    BY <1>1, <1>5, <2>2, <2>3 DEF HitsNamed
<1>b. Tables'
  BY <1>13, <1>14, <1>15 DEF Tables
<1> DEFINE holds == [u \in Owner |-> Range(table[u])]
<1>16. \A u \in Owner : Range(table'[u]) = IF u = o THEN Range(table[o]) \union taken
                                           ELSE Range(table[u])
  <2>1. Range(table'[o]) = Range(table[o]) \union taken
    BY <1>11, <1>12
  <2>2. \A u \in Owner \ {o} : Range(table'[u]) = Range(table[u])
    BY <1>12
  <2> HIDE DEF taken
  <2> QED
    BY <2>1, <2>2
<1>17. CASE n = 0
  <2>1. taken = {} /\ G = {}
    <3>1. taken = {}
      BY <1>7, <1>17 DEF Range
    <3> QED
      BY <1>7, <3>1
  <2>2. Range(pool'.free) = Range(pool.free) /\ Cached' = Cached
    BY <1>5, <1>7, <1>a, <2>1
  <2>3. pool'.ref = pool.ref
    BY <1>5, <1>7, <1>9, <2>1
  <2>4. holds' = holds /\ \A b : Holders(b)' = Holders(b)
    BY <1>16, <2>1 DEF Holders
  <2>5. Lost' = Lost
    BY <2>3, <2>4 DEF Lost
  <2>6. UNCHANGED Ownership!vars
    BY <2>2, <2>3, <2>4, <2>5 DEF Ownership!vars, Lost
  <2> QED
    BY <1>b, <2>6
<1>18. CASE n = 1
  <2>1. PICK x \in Block : taken = {x}
    <3>1. PICK y \in Seq(Block) : y = a.table /\ Len(y) = 1
      BY <1>7, <1>18
    <3>2. Range(y) = {y[1]} /\ y[1] \in Block
      BY <3>1 DEF Range
    <3> QED
      BY <3>1, <3>2
  <2>2. x \in Range(pool.free) \union Ownership!Idle /\ pool.ref[x] = 0
    BY <1>7, <1>8, <2>1 DEF Ownership!Idle
  <2>3. x \in Ownership!Idle => Range(pool.free) = {}
    <3> HAVE x \in Ownership!Idle
    <3>1. x \notin Range(pool.free)
      BY <1>8 DEF Ownership!Idle
    <3>2. x \in G
      BY <1>7, <2>1, <3>1
    <3> QED
      BY <1>7, <2>1, <3>1, <3>2
  <2>4. Range(pool'.free) = Range(pool.free) \ {x}
    BY <1>5, <1>7, <2>1
  <2>5. Cached' = Cached \ {x}
    <3>1. CASE G = {}
      BY <1>7, <1>8, <1>a, <2>1, <3>1
    <3>2. CASE G # {}
      <4>1. G = {x}
        BY <1>7, <2>1, <3>2
      <4> QED
        BY <1>a, <4>1
    <3> QED
      BY <3>1, <3>2
  <2>6. pool'.ref = [pool.ref EXCEPT ![x] = 1]
    BY <1>5, <1>7, <1>9, <2>1
  <2>7. holds' = [holds EXCEPT ![o] = holds[o] \union {x}] /\ holds[o] # {}
    <3>1. Range(table[o]) # {}
      <4>1. PICK y \in Seq(Block) : y = table[o] /\ y # <<>>
        BY <1>1, <1>5
      <4>2. 1 \in DOMAIN y
        BY <4>1
      <4> QED
        BY <4>1, <4>2 DEF Range
    <3> QED
      BY <1>16, <2>1, <3>1
  <2>8. \A b \in Block : Holders(b)' = IF b = x THEN {o} ELSE Holders(b)
    <3>1. Holders(x) = {}
      BY <1>9, <2>2
    <3>2. \A b \in Block, u \in Owner : u \in Holders(b)' <=>
            u \in Holders(b) \/ (u = o /\ b = x)
      BY <1>16, <2>1 DEF Holders
    <3>3. \A b \in Block : Holders(b) \subseteq Owner /\ Holders(b)' \subseteq Owner
      BY DEF Holders
    <3> QED
      BY <3>1, <3>2, <3>3
  <2>9. Lost' = Lost
    <3> SUFFICES ASSUME NEW b \in Block
                 PROVE  pool'.ref[b] > Cardinality(Holders(b)') <=>
                        pool.ref[b] > Cardinality(Holders(b))
      BY DEF Lost
    <3>1. CASE b = x
      <4>1. pool'.ref[b] = 1 /\ Cardinality(Holders(b)') = 1
        BY <1>9, <2>6, <2>8, <3>1, FS_Singleton
      <4>2. pool.ref[b] = 0 /\ Cardinality(Holders(b)) = 0
        BY <1>9, <2>2, <3>1, FS_EmptySet
      <4> QED
        BY <4>1, <4>2
    <3>2. CASE b # x
      <4>1. pool'.ref[b] = pool.ref[b] /\ Holders(b)' = Holders(b)
        BY <1>9, <2>6, <2>8, <3>2
      <4> QED
        BY <4>1
    <3> QED
      BY <3>1, <3>2
  <2>10. Ownership!Grow(o, x)
    BY <2>2, <2>3, <2>4, <2>5, <2>6, <2>7, <2>9 DEF Ownership!Grow, Lost
  <2> QED
    BY <1>b, <2>10 DEF Ownership!Next
<1> QED
  BY <1>3, <1>17, <1>18

(* A sequence gives its table back.                                        *)
LEMMA ReleaseStep ==
  ASSUME BlockInv, NEW o \in Owner, Release(o)
  PROVE  Tables' /\ Ownership!Next
<1>1. /\ TablesOK /\ ChainOK /\ HitsNamed /\ OwnershipInv
      /\ pool \in Pools(Seq(Token)) /\ table \in [Owner -> Seq(Block)]
      /\ tokens \in [Owner -> Seq(Token)]
      /\ IsInjective(table[o])
  BY DEF BlockInv, Tables, TablesOK
<1>2. /\ table' = [table EXCEPT ![o] = <<>>] /\ tokens' = [tokens EXCEPT ![o] = <<>>]
      /\ frontier' = [frontier EXCEPT ![o] = 0] /\ parent' = [parent EXCEPT ![o] = <<>>]
      /\ pending' = [pending EXCEPT ![o] = <<>>] /\ hit' = [hit EXCEPT ![o] = 0]
      /\ pool' = ReleaseRequestBlocks(pool, table[o])
  BY DEF Release
<1>3. /\ pool.ref \in [Block -> Nat]
      /\ \A b \in Block : Cardinality(Holders(b)) <= pool.ref[b]
      /\ \A u \in Owner : \A b \in Range(table[u]) : b \in Block /\ pool.ref[b] # 0
  BY <1>1, HeldIsReferenced
<1> DEFINE given == Range(table[o])
<1>4. /\ pool' \in Pools(Seq(Token)) /\ pool'.by_hash = pool.by_hash
      /\ pool'.ref = [b \in Block |-> IF b \in given THEN pool.ref[b] - 1 ELSE pool.ref[b]]
      /\ Range(pool'.free) = Range(pool.free) \union
                             {b \in given : pool.ref[b] = 1 /\ b \notin Cached}
  <2>1. PICK p \in Pools(Seq(Token)), x \in Seq(Block) : p = pool /\ x = table[o]
    BY <1>1
  <2>a. PICK q : q = pool'
    OBVIOUS
  <2>2. /\ q = ReleaseRequestBlocks(p, x) /\ IsInjective(x)
        /\ \A b \in Range(x) : p.ref[b] # 0
    BY <1>1, <1>2, <1>3, <2>1, <2>a
  <2>3. /\ q \in Pools(Seq(Token)) /\ q.by_hash = p.by_hash
        /\ q.ref = [b \in Block |-> IF b \in Range(x) THEN p.ref[b] - 1 ELSE p.ref[b]]
        /\ Range(q.free) = Range(p.free) \union
                           {b \in Range(x) : p.ref[b] = 1 /\ b \notin CachedBlocks(p)}
    <3>1. Released(Seq(Token), p, x, q)
      BY <2>2, ReleaseProperties
    <3> QED
      BY <3>1 DEF Released
  <2> QED
    BY <2>1, <2>3, <2>a DEF Cached
<1>5. Cached' = Cached /\ \A k : Named(pool.by_hash, k)' = Named(pool.by_hash, k)
  BY <1>4 DEF Cached, CachedBlocks, CacheContains, Named
<1>6. /\ table'[o] = <<>> /\ Range(table'[o]) = {} /\ tokens'[o] = <<>>
      /\ \A u \in Owner \ {o} : table'[u] = table[u] /\ tokens'[u] = tokens[u]
  BY <1>1, <1>2 DEF Range
<1>7. TablesOK'
  <2>1. BlocksFor(0) = 0
    BY BlocksForBounds
  <2>2. ASSUME NEW u \in Owner
        PROVE  IsInjective(table'[u]) /\ Len(table'[u]) = BlocksFor(Len(tokens'[u]))
    <3>1. CASE u = o
      <4>1. table'[u] = <<>> /\ tokens'[u] = <<>>
        BY <1>6, <3>1
      <4>2. Len(table'[u]) = 0 /\ Len(tokens'[u]) = 0
        BY <4>1
      <4>3. IsInjective(table'[u])
        BY <4>1 DEF IsInjective
      <4> QED
        BY <2>1, <4>2, <4>3
    <3>2. CASE u # o
      <4>1. table'[u] = table[u] /\ tokens'[u] = tokens[u]
        BY <1>6, <3>2
      <4> QED
        BY <1>1, <4>1 DEF TablesOK
    <3> QED
      BY <3>1, <3>2
  <2>3. table' \in [Owner -> Seq(Block)] /\ tokens' \in [Owner -> Seq(Token)]
    BY <1>1, <1>2
  <2> QED
    BY <1>4, <2>2, <2>3 DEF TablesOK
<1>8. ChainOK'
  <2>1. /\ frontier' \in [Owner -> Nat] /\ parent' \in [Owner -> Seq(Token)]
        /\ pending' \in [Owner -> Seq(Token)]
    BY <1>1, <1>2 DEF ChainOK
  <2>2. ASSUME NEW u \in Owner
        PROVE  Len(pending'[u]) <= frontier'[u] /\ frontier'[u] <= Len(tokens'[u])
    <3>1. CASE u = o
      BY <1>1, <1>2, <1>6, <3>1 DEF ChainOK
    <3>2. CASE u # o
      <4>1. pending'[u] = pending[u] /\ frontier'[u] = frontier[u] /\ tokens'[u] = tokens[u]
        BY <1>1, <1>2, <1>6, <3>2 DEF ChainOK
      <4> QED
        BY <1>1, <4>1 DEF ChainOK
    <3> QED
      BY <3>1, <3>2
  <2> QED
    BY <2>1, <2>2 DEF ChainOK
<1>9. HitsNamed'
  <2>1. hit' \in [Owner -> Nat] /\ hit'[o] = 0
    BY <1>1, <1>2 DEF HitsNamed
  <2>2. ASSUME NEW u \in Owner, u # o
        PROVE  HitsOf(u)'
    <3>1. hit'[u] = hit[u] /\ table'[u] = table[u] /\ tokens'[u] = tokens[u]
      BY <1>1, <1>2, <1>6, <2>2 DEF HitsNamed
    <3>3. PICK G : G = {}
      OBVIOUS
    <3>2. /\ \A k : Named(pool.by_hash, k) \ G \subseteq Named(pool.by_hash, k)'
          /\ \A b \in Range(table[u]) : b \notin G
      BY <1>5, <3>3
    <3> QED
      BY <1>1, <3>1, <3>2, HitsUntouched
  <2>3. HitsOf(o)'
    BY <2>1 DEF HitsOf
  <2> QED
    BY <2>1, <2>2, <2>3 DEF HitsNamed
<1>10. \A b : Holders(b)' = Holders(b) \ {o}
  BY <1>6 DEF Holders
<1>11. Lost' = Lost
  <2> SUFFICES ASSUME NEW b \in Block
               PROVE  pool'.ref[b] > Cardinality(Holders(b)') <=>
                      pool.ref[b] > Cardinality(Holders(b))
    BY DEF Lost
  <2>1. PICK r \in Nat, c \in Nat : r = pool.ref[b] /\ c = Cardinality(Holders(b)) /\ c <= r
    BY <1>3, HoldersCounted
  <2>2. CASE b \in given
    <3>1. o \in Holders(b)
      BY <2>2 DEF Holders
    <3>2. Cardinality(Holders(b) \ {o}) = c - 1
      BY <2>1, <3>1, HoldersCounted, FS_RemoveElement
    <3>3. pool'.ref[b] = r - 1 /\ Cardinality(Holders(b)') = c - 1
      BY <1>4, <1>10, <2>1, <2>2, <3>2
    <3> QED
      BY <2>1, <3>3
  <2>3. CASE b \notin given
    <3>1. Holders(b) \ {o} = Holders(b)
      BY <2>3 DEF Holders
    <3>2. pool'.ref[b] = r /\ Cardinality(Holders(b)') = c
      BY <1>4, <1>10, <2>1, <2>3, <3>1
    <3> QED
      BY <2>1, <3>2
  <2> QED
    BY <2>2, <2>3
<1>12. Ownership!Release(o)
  <2> DEFINE holds == [u \in Owner |-> Range(table[u])]
  <2>1. holds' = [holds EXCEPT ![o] = {}] /\ holds[o] = given
    BY <1>6
  <2> QED
    BY <1>4, <1>5, <1>11, <2>1 DEF Ownership!Release, Lost
<1> QED
  BY <1>7, <1>8, <1>9, <1>12 DEF Tables, Ownership!Next

-----------------------------------------------------------------------------
(* The theorems. *)

(* A step of BlockManager preserves Tables and maps to a step of           *)
(* KVOwnership, or to none.                                                *)
LEMMA NextStep ==
  ASSUME BlockInv, [Next]_vars
  PROVE  Tables' /\ [Ownership!Next]_(Ownership!vars)
<1>1. ASSUME NEW o \in Owner, NEW prompt \in Prompts, Admit(o, prompt)
      PROVE  Tables' /\ Ownership!Next
  BY <1>1, AdmitStep
<1>2. ASSUME NEW o \in Owner, Publish(o) PROVE Tables' /\ Ownership!Next
  BY <1>2, PublishStep
<1>3. ASSUME NEW o \in Owner, NEW t \in Token, Decode(o, t)
      PROVE  Tables' /\ (Ownership!Next \/ UNCHANGED Ownership!vars)
  BY <1>3, DecodeStep
<1>4. ASSUME NEW o \in Owner, Release(o) PROVE Tables' /\ Ownership!Next
  BY <1>4, ReleaseStep
<1>6. ASSUME NEW o \in Owner, NEW n \in 1 .. Len(tokens[o]), Retire(o, n)
      PROVE  Tables' /\ UNCHANGED Ownership!vars
  BY <1>6, RetireStep
<1>5. CASE UNCHANGED vars
  <2>1. UNCHANGED <<pool, table, tokens, frontier, parent, pending, hit>>
    BY <1>5 DEF vars
  <2>2. Tables'
    BY <2>1 DEF BlockInv, Tables, TablesOK, ChainOK, HitsNamed, HitsOf, Named
  <2>3. UNCHANGED Ownership!vars
    BY <2>1 DEF Ownership!vars, Cached, CachedBlocks, CacheContains, Holders
  <2> QED
    BY <2>2, <2>3
<1> QED
  BY <1>1, <1>2, <1>3, <1>4, <1>5, <1>6 DEF Next

(* The theorems about KVOwnership, for the state of BlockManager. *)
OP == INSTANCE KVOwnershipProofs WITH
  free   <- Range(pool.free),
  ref    <- pool.ref,
  cached <- Cached,
  holds  <- [o \in Owner |-> Range(table[o])],
  lost   <- {b \in Block : pool.ref[b] > Cardinality(Holders(b))}

(* The invariant of KVOwnership and its steps, named through either        *)
(* instance.                                                               *)
LEMMA SameOwnershipInv == OP!OwnershipInv <=> OwnershipInv
<1>1. \A S : OP!Cardinality(S) = Ownership!Cardinality(S)
  BY DEF OP!Cardinality, Ownership!Cardinality
<1> QED
  BY <1>1 DEF OwnershipInv, OP!OwnershipInv, Ownership!OwnershipInv,
     OP!TypeOK, Ownership!TypeOK, OP!RefCounts, Ownership!RefCounts,
     OP!FreeIsUnused, Ownership!FreeIsUnused, OP!LostIsUnreachable,
     Ownership!LostIsUnreachable, OP!NothingVanishes, Ownership!NothingVanishes,
     OP!Holders, Ownership!Holders

(* A step of the ownership specification that BlockManager refines is a    *)
(* step of the one that KVOwnershipProofs is about.                        *)
LEMMA SameOwnershipStep == [Ownership!Next]_(Ownership!vars) => [OP!Next]_(OP!vars)
<1>1. Ownership!Next => OP!Next
  BY DEF OP!Next, Ownership!Next, OP!Admit, Ownership!Admit, OP!AdmitShort,
     Ownership!AdmitShort, OP!Idle, Ownership!Idle, OP!Grow, Ownership!Grow,
     OP!Publish, Ownership!Publish, OP!Release, Ownership!Release
<1>2. Ownership!vars = OP!vars /\ (UNCHANGED Ownership!vars => UNCHANGED OP!vars)
  BY DEF Ownership!vars, OP!vars
<1> QED
  BY <1>1, <1>2

(* The assumption of KVOwnershipProofs holds in this instance. *)
LEMMA OwnersFinite == OP!IsFiniteSet(Owner)
  BY OwnershipAssumption DEF IsFiniteSet, OP!IsFiniteSet

(* Every step keeps the invariant: the ownership half comes from           *)
(* KVOwnershipProofs through the refinement.                               *)
LEMMA NextBlock == BlockInv /\ [Next]_vars => BlockInv'
<1> SUFFICES ASSUME BlockInv, [Next]_vars PROVE BlockInv'
  OBVIOUS
<1>1. Tables' /\ [Ownership!Next]_(Ownership!vars)
  BY NextStep
<1>2. OP!OwnershipInv /\ [OP!Next]_(OP!vars)
  BY <1>1, SameOwnershipInv, SameOwnershipStep DEF BlockInv
<1>3. OP!OwnershipInv'
  BY <1>2, OwnersFinite, OP!NextOwnership
<1>4. OwnershipInv'
  BY <1>3, SameOwnershipInv, PTL
<1> QED
  BY <1>1, <1>4 DEF BlockInv

(* The initial state satisfies the invariant. *)
LEMMA InitBlockInv == Init => BlockInv
<1>1. Init => Tables /\ Ownership!Init
  BY InitBlock
<1>2. Ownership!Init => OP!Init
  BY DEF Ownership!Init, OP!Init
<1>3. OP!Init => OP!OwnershipInv
  BY OwnersFinite, OP!InitOwnership
<1> QED
  BY <1>1, <1>2, <1>3, SameOwnershipInv DEF BlockInv

(* The inductive invariant of the block pool, the cache and the tables.    *)
THEOREM BlockInvariant == Spec => []BlockInv
<1>1. Init => BlockInv
  BY InitBlockInv
<1>2. BlockInv /\ [Next]_vars => BlockInv'
  BY NextBlock
<1> QED
  BY <1>1, <1>2, PTL DEF Spec

(* The free list, the idle LRU and the cache index agree in every state    *)
(* that allocations, releases, publications and evictions reach, for any   *)
(* number of blocks: the asserts of mark_idle, evict_one, erase_entry,     *)
(* allocate and recycle hold.                                              *)
THEOREM IndexConsistentTheorem == Spec => []IndexConsistent
<1>1. BlockInv => IndexConsistent
  BY DEF BlockInv, Tables, TablesOK, Pools, IndexConsistent
<1> QED
  BY <1>1, BlockInvariant, PTL

(* References, tables, free list and cache entries of the block pool keep  *)
(* the ownership invariant.                                                *)
THEOREM OwnershipInvTheorem == Spec => []OwnershipInv
<1>1. BlockInv => OwnershipInv
  BY DEF BlockInv
<1> QED
  BY <1>1, BlockInvariant, PTL

(* The blocks that lookup_prefix_cache found for a prompt keep their cache *)
(* entry and its key, the tokens of the prompt up to the block, as long as *)
(* the sequence holds them, whatever the others publish, evict and recycle *)
(* in between.                                                             *)
THEOREM HitsStayCachedTheorem == Spec => []HitsStayCached
<1>1. BlockInv => HitsStayCached
  <2> SUFFICES ASSUME BlockInv, NEW o \in Owner, NEW i \in 1 .. hit[o]
               PROVE  /\ table[o][i] \in Cached
                      /\ KeyOf(pool, table[o][i]) = SubSeq(tokens[o], 1, i * BlockSize)
    BY DEF HitsStayCached
  <2>1. BucketsOK(pool.by_hash) /\ HitsNamed /\ table[o] \in Seq(Block)
    BY PoolFacts DEF BlockInv, Tables, TablesOK
  <2>2. /\ i \in 1 .. Len(table[o])
        /\ table[o][i] \in Named(pool.by_hash, SubSeq(tokens[o], 1, i * BlockSize))
    BY <2>1 DEF HitsNamed, HitsOf
  <2>3. table[o][i] \in Block
    BY <2>1, <2>2
  <2>4. table[o][i] \in Cached
    BY <2>2, <2>3, CachedNamed DEF Cached
  <2> QED
    BY <2>1, <2>2, <2>4, KeyOfNamed
<1> QED
  BY <1>1, BlockInvariant, PTL

(* BlockManager implements KVOwnership: every call of the block pool and   *)
(* of the cache, with its lists in order, is a step that the ownership     *)
(* specification allows.                                                   *)
THEOREM ImplementsOwnershipTheorem == Spec => ImplementsOwnership
<1>1. Init => Ownership!Init
  BY InitBlock
<1>2. BlockInv /\ [Next]_vars => [Ownership!Next]_(Ownership!vars)
  BY NextStep
<1> QED
  BY <1>1, <1>2, BlockInvariant, PTL DEF Spec, ImplementsOwnership, Ownership!Spec
=============================================================================
