---------------------------- MODULE KVBlockLemmas ----------------------------
(***************************************************************************)
(* What the operators of KVBlocks do to a pool, for any number of blocks   *)
(* and any block size: each of them takes a pool whose free list, idle LRU *)
(* and cache index agree to such a pool, and changes the sets of free,     *)
(* idle and cached blocks, the references and the keys as stated.          *)
(***************************************************************************)
EXTENDS KVBlocks, CollectionLemmas, FiniteSetTheorems

(* The cache index: by_hash_ with keys from Key, and the blocks that it    *)
(* names under a key.                                                      *)
Index(Key) == UNION {[D -> Seq(Block)] : D \in SUBSET Key}
Named(h, k) == IF k \in DOMAIN h THEN Range(h[k]) ELSE {}

BucketsOK(h) ==
  \A k \in DOMAIN h :
    /\ h[k] # <<>> /\ IsInjective(h[k])
    /\ \A j \in DOMAIN h \ {k} : Range(h[k]) \intersect Range(h[j]) = {}

(* The pools that the operators are used on. *)
PoolType(Key) == [free : Seq(Block), ref : [Block -> Nat], by_hash : Index(Key),
                  idle : Seq(Block)]

FreeOK(p) == \A b \in Range(p.free) : p.ref[b] = 0 /\ b \notin CachedBlocks(p)

Pools(Key) == {p \in PoolType(Key) : IndexOK(p) /\ FreeOK(p)}

-----------------------------------------------------------------------------
(* The index. *)

(* What membership in the set of cache indexes gives. *)
LEMMA IndexFacts ==
  ASSUME NEW Key, NEW h \in Index(Key)
  PROVE  /\ DOMAIN h \subseteq Key
         /\ \A k \in DOMAIN h : h[k] \in Seq(Block)
         /\ h = [k \in DOMAIN h |-> h[k]]
  BY DEF Index

(* What it takes to be a cache index. *)
LEMMA IndexIntro ==
  ASSUME NEW Key, NEW h, DOMAIN h \subseteq Key, h = [k \in DOMAIN h |-> h[k]],
         \A k \in DOMAIN h : h[k] \in Seq(Block)
  PROVE  h \in Index(Key)
<1>1. h \in [DOMAIN h -> Seq(Block)]
  OBVIOUS
<1> QED
  BY <1>1 DEF Index

(* A block leaves its bucket, and an empty bucket the index (EraseEntry).  *)
Erased(h, key, j) ==
  LET rest == PopBack([h[key] EXCEPT ![j] = Back(h[key])])
  IN  IF rest = <<>> THEN Without(h, {key}) ELSE [h EXCEPT ![key] = rest]

(* Erasing the entry at a place of a bucket removes its block there, and   *)
(* nothing else.                                                           *)
LEMMA EraseFromIndex ==
  ASSUME NEW Key, NEW h \in Index(Key), BucketsOK(h), NEW key \in DOMAIN h,
         NEW j \in DOMAIN h[key]
  PROVE  /\ Erased(h, key, j) \in Index(Key) /\ BucketsOK(Erased(h, key, j))
         /\ \A k : Named(Erased(h, key, j), k) = Named(h, k) \ {h[key][j]}
<1> DEFINE bucket == h[key]
           b == bucket[j]
           rest == PopBack([bucket EXCEPT ![j] = Back(bucket)])
           g == IF rest = <<>> THEN Without(h, {key}) ELSE [h EXCEPT ![key] = rest]
<1>z. Erased(h, key, j) = g
  BY DEF Erased
<1>1. /\ DOMAIN h \subseteq Key /\ \A k \in DOMAIN h : h[k] \in Seq(Block)
      /\ h = [k \in DOMAIN h |-> h[k]]
  BY IndexFacts
<1>2. bucket \in Seq(Block) /\ IsInjective(bucket) /\ j \in 1 .. Len(bucket)
  BY <1>1 DEF BucketsOK
<1>3. \A k \in DOMAIN h \ {key} : b \notin Range(h[k])
  <2>1. b \in Range(bucket)
    BY DEF Range
  <2> QED
    BY <2>1 DEF BucketsOK
<1>4. /\ rest \in Seq(Block) /\ IsInjective(rest)
      /\ Range(rest) = Range(bucket) \ {b}
      /\ rest = <<>> <=> Range(bucket) = {b}
  <2> HIDE DEF bucket
  <2> QED
    BY <1>2, SwapRemoveProperties
<1>a. Named(h, key) = Range(bucket)
  BY DEF Named
<1> HIDE DEF rest, b, bucket
<1>5. CASE rest = <<>>
  <2>1. g = Without(h, {key})
    BY <1>5
  <2>2. DOMAIN g = DOMAIN h \ {key} /\ \A k \in DOMAIN g : g[k] = h[k]
    BY <2>1 DEF Without, Restrict
  <2>3. g = [k \in DOMAIN g |-> g[k]]
    BY <2>1 DEF Without, Restrict
  <2> HIDE DEF g
  <2>4. g \in Index(Key)
    BY <1>1, <2>2, <2>3, IndexIntro
  <2>5. BucketsOK(g)
    BY <2>2 DEF BucketsOK
  <2>6. \A k : Named(g, k) = Named(h, k) \ {b}
    <3> TAKE k
    <3>1. CASE k = key
      BY <1>4, <1>5, <1>a, <2>2, <3>1 DEF Named
    <3>2. CASE k # key
      BY <1>3, <2>2, <3>2 DEF Named
    <3> QED
      BY <3>1, <3>2
  <2> QED
    BY <1>z, <2>4, <2>5, <2>6 DEF b, bucket
<1>6. CASE rest # <<>>
  <2>1. g = [h EXCEPT ![key] = rest]
    BY <1>6
  <2>2. /\ DOMAIN g = DOMAIN h /\ g[key] = rest
        /\ \A k \in DOMAIN h \ {key} : g[k] = h[k]
        /\ g = [k \in DOMAIN g |-> g[k]]
    BY <1>1, <2>1
  <2> HIDE DEF g
  <2>4. g \in Index(Key)
    BY <1>1, <1>4, <2>2, IndexIntro
  <2>5. BucketsOK(g)
    <3>1. Range(rest) \subseteq Range(h[key])
      BY <1>4 DEF bucket
    <3>2. \A k \in DOMAIN g : g[k] # <<>> /\ IsInjective(g[k]) /\ Range(g[k]) \subseteq Range(h[k])
      BY <1>4, <1>6, <2>2, <3>1 DEF BucketsOK
    <3> QED
      BY <2>2, <3>2 DEF BucketsOK
  <2>6. \A k : Named(g, k) = Named(h, k) \ {b}
    <3> TAKE k
    <3>1. CASE k = key
      BY <1>4, <1>a, <2>2, <3>1 DEF Named
    <3>2. CASE k # key
      BY <1>3, <2>2, <3>2 DEF Named
    <3> QED
      BY <3>1, <3>2
  <2> QED
    BY <1>z, <2>4, <2>5, <2>6 DEF b, bucket
<1> QED
  BY <1>5, <1>6

(* A block that no bucket names is pushed to the bucket of a key.          *)
Pushed(h, key, b) ==
  IF key \in DOMAIN h THEN [h EXCEPT ![key] = Append(h[key], b)]
  ELSE Insert(h, key, <<b>>)

(* Adding a block that is in no bucket adds it under its key, and nothing  *)
(* else.                                                                   *)
LEMMA PublishInIndex ==
  ASSUME NEW Key, NEW h \in Index(Key), BucketsOK(h), NEW key \in Key,
         NEW b \in Block, \A k \in DOMAIN h : b \notin Range(h[k])
  PROVE  /\ Pushed(h, key, b) \in Index(Key) /\ BucketsOK(Pushed(h, key, b))
         /\ \A k : Named(Pushed(h, key, b), k) = IF k = key THEN Named(h, k) \union {b}
                                                 ELSE Named(h, k)
<1> DEFINE g == Pushed(h, key, b)
           bucket == IF key \in DOMAIN h THEN Append(h[key], b) ELSE <<b>>
<1>1. /\ DOMAIN h \subseteq Key /\ \A k \in DOMAIN h : h[k] \in Seq(Block)
      /\ h = [k \in DOMAIN h |-> h[k]]
  BY IndexFacts
<1>2. /\ bucket \in Seq(Block) /\ bucket # <<>> /\ IsInjective(bucket)
      /\ Range(bucket) = Named(h, key) \union {b}
  <2>1. CASE key \in DOMAIN h
    <3>1. h[key] \in Seq(Block) /\ IsInjective(h[key]) /\ b \notin Range(h[key])
      BY <1>1, <2>1 DEF BucketsOK
    <3>2. /\ Append(h[key], b) \in Seq(Block) /\ IsInjective(Append(h[key], b))
          /\ Range(Append(h[key], b)) = Range(h[key]) \union {b}
          /\ Append(h[key], b) # <<>>
      BY <3>1, AppendRange
    <3> QED
      BY <2>1, <3>2 DEF Named
  <2>2. CASE key \notin DOMAIN h
    BY <2>2 DEF Named, Range, IsInjective
  <2> QED
    BY <2>1, <2>2
<1>3. /\ DOMAIN g = DOMAIN h \union {key} /\ g[key] = bucket
      /\ \A k \in DOMAIN h \ {key} : g[k] = h[k]
      /\ g = [k \in DOMAIN g |-> g[k]]
  <2>1. CASE key \in DOMAIN h
    BY <1>1, <2>1 DEF Pushed
  <2>2. CASE key \notin DOMAIN h
    BY <1>1, <2>2 DEF Insert, Pushed
  <2> QED
    BY <2>1, <2>2
<1> HIDE DEF g, bucket
<1>4. g \in Index(Key)
  BY <1>1, <1>2, <1>3, IndexIntro
<1>5. BucketsOK(g)
  BY <1>2, <1>3 DEF BucketsOK, Named
<1>6. \A k : Named(g, k) = IF k = key THEN Named(h, k) \union {b} ELSE Named(h, k)
  <2> TAKE k
  <2>1. CASE k = key
    BY <1>2, <1>3, <2>1 DEF Named
  <2>2. CASE k # key
    BY <1>3, <2>2 DEF Named
  <2> QED
    BY <2>1, <2>2
<1> QED
  BY <1>4, <1>5, <1>6 DEF g

-----------------------------------------------------------------------------
(* Pools. *)

(* What membership in the set of sound pools gives. *)
LEMMA PoolFacts ==
  ASSUME NEW Key, NEW p \in Pools(Key)
  PROVE  /\ p.free \in Seq(Block) /\ IsInjective(p.free)
         /\ p.idle \in Seq(Block) /\ IsInjective(p.idle)
         /\ p.ref \in [Block -> Nat]
         /\ p.by_hash \in Index(Key) /\ BucketsOK(p.by_hash)
         /\ Range(p.idle) = {b \in CachedBlocks(p) : p.ref[b] = 0}
         /\ \A b \in Range(p.free) : b \in Block /\ p.ref[b] = 0 /\ b \notin CachedBlocks(p)
         /\ p = [free |-> p.free, ref |-> p.ref, by_hash |-> p.by_hash, idle |-> p.idle]
<1>1. p \in PoolType(Key) /\ IndexOK(p) /\ FreeOK(p)
  BY DEF Pools
<1>2. /\ p.free \in Seq(Block) /\ p.idle \in Seq(Block) /\ p.ref \in [Block -> Nat]
      /\ p.by_hash \in Index(Key)
      /\ p = [free |-> p.free, ref |-> p.ref, by_hash |-> p.by_hash, idle |-> p.idle]
  BY <1>1 DEF PoolType
<1>3. /\ IsInjective(p.free) /\ IsInjective(p.idle)
      /\ Range(p.idle) = {b \in CachedBlocks(p) : p.ref[b] = 0}
      /\ BucketsOK(p.by_hash)
  BY <1>1 DEF IndexOK, BucketsOK
<1>4. \A b \in Range(p.free) : b \in Block
  BY <1>2 DEF Range
<1> QED
  BY <1>1, <1>2, <1>3, <1>4 DEF FreeOK

(* A cached block is one that the index names.                             *)
LEMMA CachedNamed ==
  ASSUME NEW p, NEW b \in Block
  PROVE  b \in CachedBlocks(p) <=> \E k : b \in Named(p.by_hash, k)
  BY DEF CachedBlocks, CacheContains, Named

(* Its key is the only one.                                                *)
LEMMA KeyOfNamed ==
  ASSUME NEW p, BucketsOK(p.by_hash), NEW b
  PROVE  /\ \A k : b \in Named(p.by_hash, k) => KeyOf(p, b) = k
         /\ CacheContains(p, b) => /\ KeyOf(p, b) \in DOMAIN p.by_hash
                                   /\ b \in Range(p.by_hash[KeyOf(p, b)])
                                   /\ b \in Named(p.by_hash, KeyOf(p, b))
<1>1. CacheContains(p, b) => /\ KeyOf(p, b) \in DOMAIN p.by_hash
                             /\ b \in Range(p.by_hash[KeyOf(p, b)])
  BY DEF CacheContains, KeyOf
<1>2. \A k : b \in Named(p.by_hash, k) =>
        k \in DOMAIN p.by_hash /\ b \in Range(p.by_hash[k]) /\ CacheContains(p, b)
  BY DEF Named, CacheContains
<1>3. \A k : b \in Named(p.by_hash, k) => KeyOf(p, b) = k
  BY <1>1, <1>2 DEF BucketsOK
<1>4. CacheContains(p, b) => b \in Named(p.by_hash, KeyOf(p, b))
  BY <1>1 DEF Named
<1> QED
  BY <1>1, <1>3, <1>4

(* How a pool is shown to be one.                                          *)
LEMMA PoolIntro ==
  ASSUME NEW Key, NEW q,
         NEW f \in Seq(Block), IsInjective(f), NEW i \in Seq(Block), IsInjective(i),
         NEW r \in [Block -> Nat], NEW h \in Index(Key), BucketsOK(h),
         q = [free |-> f, ref |-> r, by_hash |-> h, idle |-> i],
         Range(i) = {b \in CachedBlocks(q) : r[b] = 0},
         \A b \in Range(f) : r[b] = 0 /\ b \notin CachedBlocks(q)
  PROVE  q \in Pools(Key)
<1>1. q \in PoolType(Key)
  BY DEF PoolType
<1>2. q.free = f /\ q.ref = r /\ q.by_hash = h /\ q.idle = i
  OBVIOUS
<1>3. IndexOK(q)
  BY <1>2 DEF IndexOK, BucketsOK
<1>4. FreeOK(q)
  BY <1>2 DEF FreeOK
<1> QED
  BY <1>1, <1>3, <1>4 DEF Pools

-----------------------------------------------------------------------------
(* Eviction. *)

(* evict_one moves the oldest idle block to the end of the free list and   *)
(* out of the index.                                                       *)
LEMMA EvictOneProperties ==
  ASSUME NEW Key, NEW p \in Pools(Key), p.idle # <<>>
  PROVE  LET q == EvictOne(p)
             victim == Head(p.idle)
         IN  /\ q \in Pools(Key) /\ q.ref = p.ref
             /\ victim \in Range(p.idle) /\ Range(q.idle) = Range(p.idle) \ {victim}
             /\ Len(q.idle) = Len(p.idle) - 1
             /\ q.free = Append(p.free, victim)
             /\ \A k : Named(q.by_hash, k) = Named(p.by_hash, k) \ {victim}
<1> DEFINE victim == Head(p.idle)
           key    == KeyOf(p, victim)
           bucket == p.by_hash[key]
           pos    == CHOOSE i \in DOMAIN bucket : bucket[i] = victim
           rest   == PopBack([bucket EXCEPT ![pos] = Back(bucket)])
           hash   == IF rest = <<>> THEN Without(p.by_hash, {key})
                     ELSE [p.by_hash EXCEPT ![key] = rest]
           idle   == Erase(p.idle, victim)
           free   == Append(p.free, victim)
           q      == EvictOne(p)
<1>1. /\ p.free \in Seq(Block) /\ IsInjective(p.free)
      /\ p.idle \in Seq(Block) /\ IsInjective(p.idle)
      /\ p.ref \in [Block -> Nat]
      /\ p.by_hash \in Index(Key) /\ BucketsOK(p.by_hash)
      /\ Range(p.idle) = {b \in CachedBlocks(p) : p.ref[b] = 0}
      /\ \A b \in Range(p.free) : b \in Block /\ p.ref[b] = 0 /\ b \notin CachedBlocks(p)
      /\ p = [free |-> p.free, ref |-> p.ref, by_hash |-> p.by_hash, idle |-> p.idle]
  BY PoolFacts
<1>2. victim \in Range(p.idle) /\ victim \in Block
  BY <1>1, HeadTailRange
<1>3. victim \in CachedBlocks(p) /\ p.ref[victim] = 0 /\ CacheContains(p, victim)
  BY <1>1, <1>2 DEF CachedBlocks
<1>4. q = [free |-> free, ref |-> p.ref, by_hash |-> hash, idle |-> idle]
  BY <1>1 DEF EvictOne, EraseEntry
<1>5. key \in DOMAIN p.by_hash /\ victim \in Range(bucket)
  BY <1>1, <1>3, KeyOfNamed
<1>6. pos \in DOMAIN bucket /\ bucket[pos] = victim
  BY <1>5 DEF Range
<1> HIDE DEF key, pos, victim
<1>7. hash \in Index(Key) /\ BucketsOK(hash) /\ \A k : Named(hash, k) = Named(p.by_hash, k) \ {victim}
  <2>1. PICK h \in Index(Key) : h = p.by_hash
    BY <1>1
  <2>2. BucketsOK(h) /\ key \in DOMAIN h /\ pos \in DOMAIN h[key] /\ h[key][pos] = victim
    BY <1>1, <1>5, <1>6, <2>1
  <2>3. /\ Erased(h, key, pos) \in Index(Key) /\ BucketsOK(Erased(h, key, pos))
        /\ \A k : Named(Erased(h, key, pos), k) = Named(h, k) \ {h[key][pos]}
    BY <2>2, EraseFromIndex
  <2>4. Erased(h, key, pos) = hash
    BY <2>1 DEF Erased
  <2> HIDE DEF hash
  <2> QED
    BY <2>1, <2>2, <2>3, <2>4
<1> HIDE DEF hash
<1>8. idle \in Seq(Block) /\ IsInjective(idle) /\ Range(idle) = Range(p.idle) \ {victim}
      /\ Len(idle) = Len(p.idle) - 1
  BY <1>1, <1>2, EraseProperties
<1>9. victim \notin Range(p.free)
  BY <1>1, <1>3
<1>10. free \in Seq(Block) /\ IsInjective(free) /\ Range(free) = Range(p.free) \union {victim}
  BY <1>1, <1>2, <1>9, AppendRange
<1> HIDE DEF idle, free, q
<1>11. /\ q.free = free /\ q.ref = p.ref /\ q.by_hash = hash /\ q.idle = idle
  BY <1>4
<1>12. CachedBlocks(q) = CachedBlocks(p) \ {victim}
  <2>1. \A b \in Block : b \in CachedBlocks(q) <=> \E k : b \in Named(hash, k)
    BY <1>11, CachedNamed
  <2>2. \A b \in Block : b \in CachedBlocks(p) <=> \E k : b \in Named(p.by_hash, k)
    BY CachedNamed
  <2>3. CachedBlocks(p) \subseteq Block /\ CachedBlocks(q) \subseteq Block
    BY DEF CachedBlocks
  <2> QED
    BY <1>7, <2>1, <2>2, <2>3
<1>13. q \in Pools(Key)
  <2>1. Range(idle) = {b \in CachedBlocks(q) : p.ref[b] = 0}
    BY <1>1, <1>8, <1>12
  <2>2. \A b \in Range(free) : p.ref[b] = 0 /\ b \notin CachedBlocks(q)
    BY <1>1, <1>3, <1>10, <1>12
  <2> QED
    BY <1>1, <1>4, <1>7, <1>8, <1>10, <2>1, <2>2, PoolIntro
<1> QED
  BY <1>2, <1>7, <1>8, <1>11, <1>13 DEF q, victim, free

(* The blocks that have left the idle LRU between p and q have moved to    *)
(* the free list and lost their entries.                                   *)
Gone(p, q) == Range(p.idle) \ Range(q.idle)

Evicted(Key, p, q, n) ==
  /\ q \in Pools(Key) /\ q.ref = p.ref
  /\ Range(q.idle) \subseteq Range(p.idle)
  /\ Len(q.idle) = Len(p.idle) - n /\ Len(q.free) = Len(p.free) + n
  /\ Range(q.free) = Range(p.free) \union Gone(p, q)
  /\ \A k : Named(q.by_hash, k) = Named(p.by_hash, k) \ Gone(p, q)

(* One more call of evict_one. *)
LEMMA EvictedOnce ==
  ASSUME NEW Key, NEW p \in Pools(Key), NEW q, NEW n \in Nat, Evicted(Key, p, q, n),
         n < Len(p.idle)
  PROVE  Evicted(Key, p, EvictOne(q), n + 1)
<1> DEFINE r == EvictOne(q)
           v == Head(q.idle)
<1>1. q \in Pools(Key)
  BY DEF Evicted
<1>2. q.idle \in Seq(Block) /\ q.free \in Seq(Block) /\ p.idle \in Seq(Block) /\ p.free \in Seq(Block)
  BY <1>1, PoolFacts
<1>3. q.idle # <<>>
  BY <1>2 DEF Evicted
<1>4. /\ r \in Pools(Key) /\ r.ref = q.ref
      /\ v \in Range(q.idle) /\ Range(r.idle) = Range(q.idle) \ {v}
      /\ Len(r.idle) = Len(q.idle) - 1
      /\ r.free = Append(q.free, v)
      /\ \A k : Named(r.by_hash, k) = Named(q.by_hash, k) \ {v}
  BY <1>1, <1>3, EvictOneProperties
<1> HIDE DEF r, v
<1>5. v \in Block
  BY <1>2, <1>4 DEF Range
<1>6. Range(r.free) = Range(q.free) \union {v} /\ Len(r.free) = Len(q.free) + 1
  BY <1>2, <1>4, <1>5, AppendRange
<1>7. Gone(p, r) = Gone(p, q) \union {v}
  BY <1>4 DEF Gone, Evicted
<1>8. Len(r.idle) = Len(p.idle) - (n + 1) /\ Len(r.free) = Len(p.free) + (n + 1)
  <2>1. Len(q.idle) = Len(p.idle) - n /\ Len(q.free) = Len(p.free) + n
    BY DEF Evicted
  <2>2. PICK a \in Nat, b \in Nat : a = Len(p.idle) /\ b = Len(p.free)
    BY <1>2
  <2>3. Len(r.idle) = Len(q.idle) - 1 /\ Len(r.free) = Len(q.free) + 1
    BY <1>4, <1>6
  <2>4. Len(r.idle) = (a - n) - 1 /\ Len(r.free) = (b + n) + 1
    BY <2>1, <2>2, <2>3
  <2>5. (a - n) - 1 = a - (n + 1) /\ (b + n) + 1 = b + (n + 1)
    OBVIOUS
  <2> QED
    BY <2>2, <2>4, <2>5
<1>9. Range(r.free) = Range(p.free) \union Gone(p, r)
  BY <1>6, <1>7 DEF Evicted
<1>10. \A k : Named(r.by_hash, k) = Named(p.by_hash, k) \ Gone(p, r)
  BY <1>4, <1>7 DEF Evicted
<1>11. r.ref = p.ref /\ Range(r.idle) \subseteq Range(p.idle)
  BY <1>4 DEF Evicted
<1> QED
  BY <1>4, <1>8, <1>9, <1>10, <1>11 DEF Evicted, r

(* The recursive definition of Evicting has a solution, taken one step at  *)
(* a time.                                                                 *)
LEMMA EvictingStep ==
  ASSUME NEW Key, NEW p \in Pools(Key), NEW k \in Nat
  PROVE  /\ Evicting(p, k)[0] = p
         /\ \A i \in 1 .. k : Evicting(p, k)[i] = EvictOne(Evicting(p, k)[i - 1])
<1> DEFINE V == Pools(Key)
           F == [i \in Nat |-> [x \in V |-> EvictOne(x)]]
           P(g) == g = [i \in 0 .. k |-> IF i = 0 THEN p ELSE EvictOne(g[i - 1])]
<1>1. \A x \in V : EvictOne(x) \in V
  <2> TAKE x \in V
  <2>1. CASE x.idle = <<>>
    BY <2>1 DEF EvictOne
  <2>2. CASE x.idle # <<>>
    BY <2>2, EvictOneProperties
  <2> QED
    BY <2>1, <2>2
<1> HIDE DEF V
<1>2. F \in [Nat -> [V -> V]]
  BY <1>1
<1>3. \A x \in V, i \in 1 .. k : F[i][x] = EvictOne(x)
  OBVIOUS
<1> HIDE DEF F
<1>4. p \in V
  BY DEF V
<1>5. PICK g : IsChain(g, V, F, p, k)
  BY <1>2, <1>4, ChainExists
<1>a. Evicting(p, k) = CHOOSE h : P(h)
  BY DEF Evicting, P
<1>6. P(g)
  <2>1. \A i \in 1 .. k : i - 1 \in 0 .. k
    OBVIOUS
  <2>2. \A i \in 1 .. k : g[i] = EvictOne(g[i - 1])
    BY <1>3, <1>5, <2>1 DEF IsChain
  <2>3. \A i \in 0 .. k : i = 0 \/ i \in 1 .. k
    OBVIOUS
  <2>4. \A i \in 0 .. k : g[i] = IF i = 0 THEN p ELSE EvictOne(g[i - 1])
    BY <2>2, <2>3, <1>5 DEF IsChain
  <2>5. g = [i \in 0 .. k |-> g[i]]
    BY <1>5 DEF IsChain
  <2> QED
    BY <2>4, <2>5
<1> HIDE DEF P
<1>7. P(CHOOSE h : P(h))
  BY <1>6
<1> DEFINE E == Evicting(p, k)
<1>8. E = [i \in 0 .. k |-> IF i = 0 THEN p ELSE EvictOne(E[i - 1])]
  BY <1>a, <1>7 DEF P
<1> HIDE DEF E
<1>9. E[0] = p
  BY <1>8
<1>10. ASSUME NEW i \in 1 .. k
       PROVE  E[i] = EvictOne(E[i - 1])
  <2>1. i \in 0 .. k /\ i # 0
    OBVIOUS
  <2> QED
    BY <1>8, <2>1
<1> QED
  BY <1>9, <1>10 DEF E

(* k calls of evict_one with at least k idle blocks.                       *)
LEMMA EvictingProperties ==
  ASSUME NEW Key, NEW p \in Pools(Key), NEW k \in Nat, k <= Len(p.idle)
  PROVE  Evicted(Key, p, Evicting(p, k)[k], k)
<1> DEFINE E == Evicting(p, k)
           U == {i \in 0 .. k : Evicted(Key, p, E[i], i)}
<1>1. E[0] = p /\ \A i \in 1 .. k : E[i] = EvictOne(E[i - 1])
  BY EvictingStep
<1>2. p.idle \in Seq(Block) /\ p.free \in Seq(Block)
  BY PoolFacts
<1>3. 0 \in U
  <2>1. Gone(p, p) = {}
    BY DEF Gone
  <2>2. Evicted(Key, p, p, 0)
    BY <1>2, <2>1 DEF Evicted
  <2> QED
    BY <1>1, <2>2
<1> HIDE DEF E
<1>4. \A i \in 1 .. k : i - 1 \in U => i \in U
  <2> TAKE i \in 1 .. k
  <2> HAVE i - 1 \in U
  <2>1. i - 1 \in Nat /\ i - 1 < Len(p.idle) /\ (i - 1) + 1 = i
    BY <1>2
  <2>2. Evicted(Key, p, E[i - 1], i - 1)
    OBVIOUS
  <2>3. Evicted(Key, p, EvictOne(E[i - 1]), i)
    BY <2>1, <2>2, EvictedOnce
  <2> QED
    BY <1>1, <2>3
<1> HIDE DEF U
<1>5. k \in U
  BY <1>3, <1>4, IntervalInduction
<1> QED
  BY <1>5 DEF U, E

(* The cached blocks when the index has lost the blocks in G.              *)
LEMMA CachedWithout ==
  ASSUME NEW p, NEW q, NEW G, \A k : Named(q.by_hash, k) = Named(p.by_hash, k) \ G
  PROVE  CachedBlocks(q) = CachedBlocks(p) \ G
<1>1. \A b \in Block : b \in CachedBlocks(q) <=> \E k : b \in Named(q.by_hash, k)
  BY CachedNamed
<1>2. \A b \in Block : b \in CachedBlocks(p) <=> \E k : b \in Named(p.by_hash, k)
  BY CachedNamed
<1>3. CachedBlocks(p) \subseteq Block /\ CachedBlocks(q) \subseteq Block
  BY DEF CachedBlocks
<1> QED
  BY <1>1, <1>2, <1>3

-----------------------------------------------------------------------------
(* Lookup and publication. *)

(* The pool q is p after each of the blocks hits got one more reference:   *)
(* they are off the idle LRU.                                              *)
Retained(Key, p, hits, q) ==
  /\ q \in Pools(Key)
  /\ q.free = p.free /\ q.by_hash = p.by_hash
  /\ q.ref = [b \in Block |-> IF b \in Range(hits) THEN p.ref[b] + 1 ELSE p.ref[b]]
  /\ Range(q.idle) = Range(p.idle) \ Range(hits)

(* Retaining cached blocks takes them off the idle LRU and counts one      *)
(* reference each.                                                         *)
LEMMA RetainRequestProperties ==
  ASSUME NEW Key, NEW p \in Pools(Key), NEW hits \in Seq(Block),
         Range(hits) \subseteq CachedBlocks(p)
  PROVE  Retained(Key, p, hits, RetainRequest(p, hits))
<1> DEFINE q == RetainRequest(p, hits)
           ref == [b \in Block |-> IF b \in Range(hits) THEN p.ref[b] + 1 ELSE p.ref[b]]
           idle == Keep(p.idle, Block \ Range(hits))
<1>1. /\ p.free \in Seq(Block) /\ IsInjective(p.free)
      /\ p.idle \in Seq(Block) /\ IsInjective(p.idle)
      /\ p.ref \in [Block -> Nat]
      /\ p.by_hash \in Index(Key) /\ BucketsOK(p.by_hash)
      /\ Range(p.idle) = {b \in CachedBlocks(p) : p.ref[b] = 0}
      /\ \A b \in Range(p.free) : b \in Block /\ p.ref[b] = 0 /\ b \notin CachedBlocks(p)
      /\ p = [free |-> p.free, ref |-> p.ref, by_hash |-> p.by_hash, idle |-> p.idle]
  BY PoolFacts
<1>2. q = [free |-> p.free, ref |-> ref, by_hash |-> p.by_hash, idle |-> idle]
  <2>1. PICK f, c, h, l : p = [free |-> f, ref |-> c, by_hash |-> h, idle |-> l]
    BY <1>1
  <2>2. q = [p EXCEPT !.ref = ref, !.idle = idle]
    BY DEF RetainRequest
  <2> HIDE DEF q, ref, idle
  <2> QED
    BY <2>1, <2>2
<1>3. ref \in [Block -> Nat]
  BY <1>1
<1>4. Range(p.idle) \subseteq Block
  BY <1>1 DEF Range
<1>5. idle \in Seq(Block) /\ IsInjective(idle) /\ Range(idle) = Range(p.idle) \ Range(hits)
  <2>1. /\ idle \in Seq(Block) /\ IsInjective(idle)
        /\ Range(idle) = Range(p.idle) \intersect (Block \ Range(hits))
    BY <1>1, KeepProperties
  <2> QED
    BY <1>4, <2>1
<1>6. CachedBlocks(q) = CachedBlocks(p) /\ CachedBlocks(p) \subseteq Block
  BY <1>2 DEF CachedBlocks, CacheContains
<1>7. \A b \in Block : ref[b] = 0 <=> p.ref[b] = 0 /\ b \notin Range(hits)
  BY <1>1
<1>8. \A b \in Range(p.free) : ref[b] = 0 /\ b \notin CachedBlocks(q)
  BY <1>1, <1>6, <1>7
<1>a. q.free = p.free /\ q.by_hash = p.by_hash /\ q.ref = ref /\ q.idle = idle
  BY <1>2
<1> HIDE DEF ref, idle, q
<1>9. Range(idle) = {b \in CachedBlocks(q) : ref[b] = 0}
  BY <1>1, <1>5, <1>6, <1>7
<1>10. q \in Pools(Key)
  BY <1>1, <1>2, <1>3, <1>5, <1>8, <1>9, PoolIntro
<1> QED
  BY <1>5, <1>10, <1>a DEF q, ref, Retained

(* The loop of lookup_prefix_cache ends at some number of hits.            *)
LEMMA LongestRun ==
  ASSUME NEW N \in Nat, NEW Ok
  PROVE  \E m \in 0 .. N : /\ \A i \in 1 .. m : i \in Ok
                           /\ m < N => m + 1 \notin Ok
<1> DEFINE Stop(m) == (\A i \in 1 .. m : i \in Ok) /\ (m < N => m + 1 \notin Ok)
           U == {m \in 0 .. N : (\A i \in 1 .. m : i \in Ok) \/ \E n \in 0 .. N : Stop(n)}
<1>1. 0 \in U
  OBVIOUS
<1>2. \A i \in 1 .. N : i - 1 \in U => i \in U
  <2> TAKE i \in 1 .. N
  <2> HAVE i - 1 \in U
  <2>1. CASE \E n \in 0 .. N : Stop(n)
    BY <2>1
  <2>2. CASE \A j \in 1 .. i - 1 : j \in Ok
    <3>1. CASE i \in Ok
      <4>1. \A j \in 1 .. i : j \in 1 .. i - 1 \/ j = i
        OBVIOUS
      <4> QED
        BY <2>2, <3>1, <4>1
    <3>2. CASE i \notin Ok
      <4>1. Stop(i - 1) /\ i - 1 \in 0 .. N
        BY <2>2, <3>2
      <4> QED
        BY <4>1
    <3> QED
      BY <3>1, <3>2
  <2> QED
    BY <2>1, <2>2
<1> HIDE DEF U
<1>3. N \in U
  BY <1>1, <1>2, IntervalInduction
<1> QED
  BY <1>3 DEF U

(* lookup_prefix_cache returns different cached blocks, each found under a *)
(* prefix of the tokens, and retains them.                                 *)
LEMMA LookupProperties ==
  ASSUME NEW Tok, NEW p \in Pools(Seq(Tok)), NEW tokens \in Seq(Tok)
  PROVE  LET r == LookupPrefixCache(p, tokens)
         IN  /\ r.pool = RetainRequest(p, r.table) /\ r.parent \in Seq(Tok)
             /\ r.table \in Seq(Block) /\ IsInjective(r.table)
             /\ Range(r.table) \subseteq CachedBlocks(p)
             /\ Len(r.table) \in Nat /\ Len(r.table) <= Len(tokens) \div BlockSize
             /\ \A i \in 1 .. Len(r.table) :
                  /\ i * BlockSize <= Len(tokens)
                  /\ r.table[i] \in Named(p.by_hash, SubSeq(tokens, 1, i * BlockSize))
<1> DEFINE keys == ChainHashes(tokens)
           N == Len(tokens) \div BlockSize
           h == p.by_hash
           P(m) == /\ \A i \in 1 .. m : keys[i] \in DOMAIN h
                   /\ m < Len(keys) => keys[m + 1] \notin DOMAIN h
           n == CHOOSE m \in 0 .. Len(keys) : P(m)
           hits == [i \in 1 .. n |-> Head(h[keys[i]])]
           r == LookupPrefixCache(p, tokens)
<1>1. h \in Index(Seq(Tok)) /\ BucketsOK(h)
  BY PoolFacts
<1>2. N \in Nat /\ \A i \in 1 .. N : i * BlockSize \in 0 .. Len(tokens)
  <2>1. PICK l \in Nat : l = Len(tokens)
    OBVIOUS
  <2>2. l \div BlockSize \in Nat /\ BlockSize * (l \div BlockSize) <= l
    BY PoolAssumption
  <2>3. ASSUME NEW i \in 1 .. l \div BlockSize
        PROVE  i * BlockSize \in 0 .. l
    BY <2>2, PoolAssumption
  <2> QED
    BY <2>1, <2>2, <2>3
<1>3. keys = [i \in 1 .. N |-> SubSeq(tokens, 1, i * BlockSize)]
  BY DEF ChainHashes
<1> HIDE DEF N, keys
<1>4. Len(keys) = N /\ \A i \in 1 .. N : keys[i] = SubSeq(tokens, 1, i * BlockSize)
  BY <1>2, <1>3
<1>5. \A i \in 1 .. N : keys[i] \in Seq(Tok) /\ Len(keys[i]) = i * BlockSize
  <2> TAKE i \in 1 .. N
  <2>1. i * BlockSize \in 0 .. Len(tokens)
    BY <1>2
  <2>2. PICK l \in 0 .. Len(tokens) : l = i * BlockSize
    BY <2>1
  <2>3. SubSeq(tokens, 1, l) \in Seq(Tok) /\ Len(SubSeq(tokens, 1, l)) = l
    BY SplitProperties
  <2> QED
    BY <1>4, <2>2, <2>3
<1>6. n \in 0 .. N /\ P(n)
  <2> DEFINE Ok == {i \in 1 .. N : keys[i] \in DOMAIN h}
  <2>1. PICK m \in 0 .. N : (\A i \in 1 .. m : i \in Ok) /\ (m < N => m + 1 \notin Ok)
    <3> HIDE DEF Ok
    <3> QED
      BY <1>2, LongestRun
  <2>2. P(m)
    BY <1>2, <1>4, <2>1
  <2> QED
    BY <1>4, <2>1, <2>2
<1> HIDE DEF n
<1>7. ASSUME NEW i \in 1 .. n
      PROVE  keys[i] \in DOMAIN h /\ hits[i] \in Block /\ hits[i] \in Range(h[keys[i]])
  <2>1. keys[i] \in DOMAIN h
    BY <1>6
  <2>2. h[keys[i]] \in Seq(Block) /\ h[keys[i]] # <<>>
    BY <1>1, <2>1, IndexFacts DEF BucketsOK
  <2>3. Head(h[keys[i]]) \in Block /\ Head(h[keys[i]]) \in Range(h[keys[i]])
    BY <2>2, HeadTailRange
  <2> QED
    BY <2>1, <2>3
<1>8. /\ r.table = hits
      /\ r.pool = RetainRequest(p, hits)
      /\ r.parent = IF n = 0 THEN <<>> ELSE keys[n]
  BY DEF LookupPrefixCache, keys, n
<1>9. hits \in Seq(Block) /\ Len(hits) = n
  BY <1>6, <1>7
<1>10. \A i \in 1 .. n : hits[i] \in Named(h, SubSeq(tokens, 1, i * BlockSize))
  <2> TAKE i \in 1 .. n
  <2>1. keys[i] = SubSeq(tokens, 1, i * BlockSize)
    BY <1>2, <1>4, <1>6
  <2> QED
    BY <1>7, <2>1 DEF Named
<1>11. \A i \in 1 .. n : i \in 1 .. N
  BY <1>2, <1>6
<1>12. IsInjective(hits)
  <2>1. ASSUME NEW i \in 1 .. n, NEW j \in 1 .. n, hits[i] = hits[j]
        PROVE  i = j
    <3>1. keys[i] = keys[j]
      BY <1>1, <1>7, <2>1 DEF BucketsOK
    <3>2. i * BlockSize = j * BlockSize
      BY <1>5, <1>11, <3>1
    <3> QED
      BY <3>2, PoolAssumption
  <2>2. DOMAIN hits = 1 .. n
    OBVIOUS
  <2> HIDE DEF hits
  <2> QED
    BY <2>1, <2>2 DEF IsInjective
<1>13. Range(hits) \subseteq CachedBlocks(p)
  <2>1. \A i \in 1 .. n : hits[i] \in CachedBlocks(p)
    BY <1>7 DEF CachedBlocks, CacheContains
  <2> QED
    BY <2>1 DEF Range
<1>14. n \in Nat /\ n <= N
  BY <1>2, <1>6
<1>a. (IF n = 0 THEN <<>> ELSE keys[n]) \in Seq(Tok)
  BY <1>2, <1>5, <1>14
<1> HIDE DEF hits, r
<1>15. \A i \in 1 .. n : i * BlockSize <= Len(tokens)
  BY <1>2, <1>11
<1> QED
  BY <1>8, <1>9, <1>10, <1>12, <1>13, <1>14, <1>15, <1>a DEF r, N

(* publish_full_block adds at most the block that it is given to the       *)
(* index.                                                                  *)
LEMMA PublishProperties ==
  ASSUME NEW Key, NEW p \in Pools(Key), NEW key \in Key, NEW b \in Block, p.ref[b] # 0
  PROVE  LET q == PublishFullBlock(p, key, b)
         IN  /\ q \in Pools(Key)
             /\ q.free = p.free /\ q.ref = p.ref /\ q.idle = p.idle
             /\ CachedBlocks(q) = CachedBlocks(p) \union {b}
             /\ b \in CachedBlocks(p) => q = p
             /\ \A k, c : c \in Named(q.by_hash, k) <=>
                            \/ c \in Named(p.by_hash, k)
                            \/ k = key /\ c = b /\ b \notin CachedBlocks(p)
<1> DEFINE q == PublishFullBlock(p, key, b)
<1>1. /\ p.free \in Seq(Block) /\ IsInjective(p.free)
      /\ p.idle \in Seq(Block) /\ IsInjective(p.idle)
      /\ p.ref \in [Block -> Nat]
      /\ p.by_hash \in Index(Key) /\ BucketsOK(p.by_hash)
      /\ Range(p.idle) = {c \in CachedBlocks(p) : p.ref[c] = 0}
      /\ \A c \in Range(p.free) : c \in Block /\ p.ref[c] = 0 /\ c \notin CachedBlocks(p)
      /\ p = [free |-> p.free, ref |-> p.ref, by_hash |-> p.by_hash, idle |-> p.idle]
  BY PoolFacts
<1>2. b \in CachedBlocks(p) <=> CacheContains(p, b)
  BY DEF CachedBlocks
<1>3. CASE b \in CachedBlocks(p)
  <2>1. q = p
    BY <1>2, <1>3 DEF PublishFullBlock
  <2> QED
    BY <1>3, <2>1
<1>4. CASE b \notin CachedBlocks(p)
  <2>1. PICK h \in Index(Key) : h = p.by_hash
    BY <1>1
  <2> DEFINE hash == Pushed(h, key, b)
  <2>2. q = [p EXCEPT !.by_hash = hash]
    <3>1. CASE key \in DOMAIN p.by_hash
      <4>1. q = [p EXCEPT !.by_hash = [p.by_hash EXCEPT ![key] = Append(p.by_hash[key], b)]]
        BY <1>2, <1>4, <3>1 DEF PublishFullBlock
      <4>2. Pushed(p.by_hash, key, b) = [p.by_hash EXCEPT ![key] = Append(p.by_hash[key], b)]
        BY <3>1 DEF Pushed
      <4> QED
        BY <2>1, <4>1, <4>2
    <3>2. CASE key \notin DOMAIN p.by_hash
      <4>1. q = [p EXCEPT !.by_hash = Insert(p.by_hash, key, <<b>>)]
        BY <1>2, <1>4, <3>2 DEF PublishFullBlock
      <4>2. Pushed(p.by_hash, key, b) = Insert(p.by_hash, key, <<b>>)
        BY <3>2 DEF Pushed
      <4> QED
        BY <2>1, <4>1, <4>2
    <3> QED
      BY <3>1, <3>2
  <2>3. BucketsOK(h) /\ \A k \in DOMAIN h : b \notin Range(h[k])
    BY <1>1, <1>2, <1>4, <2>1 DEF CacheContains
  <2>4. /\ hash \in Index(Key) /\ BucketsOK(hash)
        /\ \A k : Named(hash, k) = IF k = key THEN Named(h, k) \union {b} ELSE Named(h, k)
    BY <2>3, PublishInIndex
  <2> HIDE DEF hash, q
  <2>5. q = [free |-> p.free, ref |-> p.ref, by_hash |-> hash, idle |-> p.idle]
    <3>1. PICK f, c, i : p = [free |-> f, ref |-> c, by_hash |-> h, idle |-> i]
      BY <1>1, <2>1
    <3> QED
      BY <2>2, <3>1
  <2>6. q.free = p.free /\ q.ref = p.ref /\ q.idle = p.idle /\ q.by_hash = hash
    BY <2>5
  <2>7. CachedBlocks(q) = CachedBlocks(p) \union {b}
    <3>1. \A c \in Block : c \in CachedBlocks(q) <=> \E k : c \in Named(hash, k)
      BY <2>6, CachedNamed
    <3>2. \A c \in Block : c \in CachedBlocks(p) <=> \E k : c \in Named(h, k)
      BY <2>1, CachedNamed
    <3>3. CachedBlocks(p) \subseteq Block /\ CachedBlocks(q) \subseteq Block
      BY DEF CachedBlocks
    <3>4. \A c : (\E k : c \in Named(hash, k)) <=> (c = b \/ \E k : c \in Named(h, k))
      BY <2>4
    <3> QED
      BY <3>1, <3>2, <3>3, <3>4
  <2>8. Range(p.idle) = {c \in CachedBlocks(q) : p.ref[c] = 0}
    BY <1>1, <2>7
  <2>9. \A c \in Range(p.free) : p.ref[c] = 0 /\ c \notin CachedBlocks(q)
    BY <1>1, <2>7
  <2>10. q \in Pools(Key)
    BY <1>1, <2>4, <2>5, <2>8, <2>9, PoolIntro
  <2> QED
    BY <1>4, <2>1, <2>4, <2>6, <2>7, <2>10 DEF q
<1> QED
  BY <1>3, <1>4

-----------------------------------------------------------------------------
(* Allocation and release. *)

(* How many blocks allocate_kv_blocks evicts and what the free list is     *)
(* then: nothing when it was long enough, up to n blocks when the idle     *)
(* ones suffice, all that is idle otherwise.                               *)
LEMMA EvictingForAllocation ==
  ASSUME NEW Key, NEW p \in Pools(Key), NEW n \in Nat
  PROVE  LET k == Evictions(p, n)
             q == Evicting(p, k)[k]
         IN  /\ Evicted(Key, p, q, k)
             /\ \/ n <= Len(p.free) /\ q = p
                \/ Len(q.free) = n
                \/ Len(q.free) < n /\ Range(q.idle) = {}
<1> DEFINE k == Evictions(p, n)
           q == Evicting(p, k)[k]
<1>1. p.idle \in Seq(Block) /\ p.free \in Seq(Block)
  BY PoolFacts
<1>2. PICK f \in Nat, i \in Nat : f = Len(p.free) /\ i = Len(p.idle)
  BY <1>1
<1> DEFINE short == IF n > f THEN n - f ELSE 0
<1>3. short \in Nat /\ (short = 0 <=> n <= f) /\ (n > f => short + f = n)
  OBVIOUS
<1>4. k = Min({short, i})
  BY <1>2 DEF Evictions
<1> HIDE DEF short, k
<1>5. k = IF short <= i THEN short ELSE i
  BY <1>2, <1>3, <1>4, MinOfTwo
<1>6. k \in Nat /\ k <= i
  BY <1>2, <1>3, <1>5
<1>7. Evicted(Key, p, q, k)
  BY <1>2, <1>6, EvictingProperties
<1>8. CASE n <= f
  <2>1. k = 0
    BY <1>2, <1>3, <1>5, <1>8
  <2>2. q = p
    BY <2>1, EvictingStep
  <2> QED
    BY <1>2, <1>7, <1>8, <2>2 DEF k
<1> HIDE DEF q
<1>a. Len(q.idle) = i - k /\ Len(q.free) = f + k
  BY <1>2, <1>7 DEF Evicted
<1>9. CASE n > f /\ short <= i
  <2>1. Len(q.free) = n
    BY <1>2, <1>3, <1>5, <1>9, <1>a
  <2> QED
    BY <1>7, <2>1 DEF k, q
<1>10. CASE n > f /\ short > i
  <2>1. Len(q.free) < n /\ Len(q.idle) = 0
    <3>1. k = i /\ i + f < n
      BY <1>3, <1>5, <1>10
    <3> QED
      BY <1>a, <3>1
  <2>2. q.idle \in Seq(Block)
    BY <1>7, PoolFacts DEF Evicted
  <2>3. Range(q.idle) = {}
    BY <2>1, <2>2 DEF Range
  <2> QED
    BY <1>7, <2>1, <2>3 DEF k, q
<1>11. n <= f \/ (n > f /\ short <= i) \/ (n > f /\ short > i)
  BY <1>2, <1>3
<1> QED
  BY <1>8, <1>9, <1>10, <1>11

(* What allocate_kv_blocks does to the sets of blocks: G was evicted.      *)
Allocated(Key, p, n, a, G) ==
  /\ a.table \in Seq(Block) /\ IsInjective(a.table)
  /\ G \subseteq Range(p.idle)
  /\ Range(a.table) \subseteq Range(p.free) \union G
  /\ a.pool \in Pools(Key)
  /\ Range(a.pool.free) = (Range(p.free) \union G) \ Range(a.table)
  /\ a.pool.ref = [b \in Block |-> IF b \in Range(a.table) THEN 1 ELSE p.ref[b]]
  /\ \A k : Named(a.pool.by_hash, k) = Named(p.by_hash, k) \ G
  /\ a.ok => Len(a.table) = n
  /\ a.ok /\ G # {} => Range(a.table) = Range(p.free) \union G
  /\ ~a.ok => /\ G = Range(p.idle)
              /\ Range(a.table) = Range(p.free) \union G

(* allocate_kv_blocks: what it takes, what it evicts, and when it runs     *)
(* short.                                                                  *)
LEMMA AllocateProperties ==
  ASSUME NEW Key, NEW p \in Pools(Key), NEW n \in Nat
  PROVE  \E G : Allocated(Key, p, n, AllocateKVBlocks(p, n), G)
<1> DEFINE k     == Evictions(p, n)
           q     == Evicting(p, k)[k]
           m     == Min({n, Len(q.free)})
           taken == SubSeq(q.free, 1, m)
           rest  == SubSeq(q.free, m + 1, Len(q.free))
           ref   == [b \in Block |-> IF b \in Range(taken) THEN 1 ELSE q.ref[b]]
           a     == AllocateKVBlocks(p, n)
           G     == Gone(p, q)
<1>1. /\ Evicted(Key, p, q, k)
      /\ \/ n <= Len(p.free) /\ q = p
         \/ Len(q.free) = n
         \/ Len(q.free) < n /\ Range(q.idle) = {}
  BY EvictingForAllocation
<1>2. /\ a.ok = (Len(taken) = n) /\ a.table = taken
      /\ a.pool = [q EXCEPT !.free = SubSeq(q.free, Len(taken) + 1, Len(q.free)), !.ref = ref]
  BY DEF AllocateKVBlocks
<1> HIDE DEF k, q, a
<1>3. q \in Pools(Key) /\ q.ref = p.ref /\ Range(q.idle) \subseteq Range(p.idle)
      /\ Range(q.free) = Range(p.free) \union G
      /\ \A c : Named(q.by_hash, c) = Named(p.by_hash, c) \ G
  BY <1>1 DEF Evicted
<1>4. /\ q.free \in Seq(Block) /\ IsInjective(q.free)
      /\ q.idle \in Seq(Block) /\ IsInjective(q.idle)
      /\ q.ref \in [Block -> Nat]
      /\ q.by_hash \in Index(Key) /\ BucketsOK(q.by_hash)
      /\ Range(q.idle) = {b \in CachedBlocks(q) : q.ref[b] = 0}
      /\ \A b \in Range(q.free) : b \in Block /\ q.ref[b] = 0 /\ b \notin CachedBlocks(q)
      /\ q = [free |-> q.free, ref |-> q.ref, by_hash |-> q.by_hash, idle |-> q.idle]
  BY <1>3, PoolFacts
<1>5. PICK l \in Nat : l = Len(q.free)
  BY <1>4
<1>6. m \in 0 .. l /\ (n <= l => m = n) /\ (n > l => m = l)
  <2>1. m = IF n <= l THEN n ELSE l
    BY <1>5, MinOfTwo
  <2> QED
    BY <2>1
<1> HIDE DEF m
<1>7. /\ taken \in Seq(Block) /\ Len(taken) = m /\ IsInjective(taken)
      /\ rest \in Seq(Block) /\ Len(rest) = l - m /\ IsInjective(rest)
      /\ Range(q.free) = Range(taken) \union Range(rest)
      /\ Range(taken) \intersect Range(rest) = {}
  <2>1. PICK f \in Seq(Block) : f = q.free /\ IsInjective(f) /\ Len(f) = l
    BY <1>4, <1>5
  <2>2. PICK u, v : u = SubSeq(f, 1, m) /\ v = SubSeq(f, m + 1, Len(f))
    OBVIOUS
  <2>3. m \in 0 .. Len(f)
    BY <1>6, <2>1
  <2>4. /\ u \in Seq(Block) /\ Len(u) = m /\ v \in Seq(Block) /\ Len(v) = Len(f) - m
        /\ Range(f) = Range(u) \union Range(v)
        /\ IsInjective(f) => /\ IsInjective(u) /\ IsInjective(v)
                             /\ Range(u) \intersect Range(v) = {}
    BY <2>2, <2>3, SplitProperties
  <2> QED
    BY <2>1, <2>2, <2>4
<1>8. a.pool = [q EXCEPT !.free = rest, !.ref = ref]
  BY <1>2, <1>7
<1> HIDE DEF taken, rest
<1>9. Range(rest) = Range(q.free) \ Range(taken) /\ (m = l => Range(rest) = {})
  <2>1. m = l => Len(rest) = 0
    BY <1>6, <1>7
  <2>2. Len(rest) = 0 => Range(rest) = {}
    BY <1>7 DEF Range
  <2> QED
    BY <1>7, <2>1, <2>2
<1>10. ref \in [Block -> Nat] /\ \A b \in Block : ref[b] = 0 <=> b \notin Range(taken) /\ q.ref[b] = 0
  BY <1>4
<1>11. ref = [b \in Block |-> IF b \in Range(a.table) THEN 1 ELSE p.ref[b]]
  BY <1>2, <1>3
<1> HIDE DEF ref
<1>12. a.pool = [free |-> rest, ref |-> ref, by_hash |-> q.by_hash, idle |-> q.idle]
  <2>1. PICK f, c, h, i : q = [free |-> f, ref |-> c, by_hash |-> h, idle |-> i]
    BY <1>4
  <2> QED
    BY <1>8, <2>1
<1>13. /\ a.pool.free = rest /\ a.pool.ref = ref /\ a.pool.by_hash = q.by_hash
       /\ a.pool.idle = q.idle
  BY <1>12
<1>14. CachedBlocks(a.pool) = CachedBlocks(q)
  BY <1>13 DEF CachedBlocks, CacheContains
<1>15. a.pool \in Pools(Key)
  <2>1. Range(q.idle) = {b \in CachedBlocks(a.pool) : ref[b] = 0}
    <3>1. \A b \in CachedBlocks(q) : b \in Block /\ b \notin Range(taken)
      BY <1>4, <1>7 DEF CachedBlocks
    <3> QED
      BY <1>4, <1>10, <1>14, <3>1
  <2>2. \A b \in Range(rest) : ref[b] = 0 /\ b \notin CachedBlocks(a.pool)
    BY <1>4, <1>9, <1>10, <1>14
  <2>3. /\ rest \in Seq(Block) /\ IsInjective(rest) /\ q.idle \in Seq(Block)
        /\ IsInjective(q.idle) /\ ref \in [Block -> Nat] /\ q.by_hash \in Index(Key)
        /\ BucketsOK(q.by_hash)
    BY <1>4, <1>7, <1>10
  <2> QED
    BY <1>12, <2>1, <2>2, <2>3, PoolIntro
<1>16. G \subseteq Range(p.idle) /\ (q = p => G = {}) /\ (Range(q.idle) = {} => G = Range(p.idle))
  BY DEF Gone
<1> HIDE DEF G
<1>17. a.ok => Len(a.table) = n
  BY <1>2
<1>18. a.ok /\ G # {} => Range(a.table) = Range(p.free) \union G
  <2> HAVE a.ok /\ G # {}
  <2>1. m = n
    BY <1>2, <1>7
  <2>2. l = n \/ l < n
    BY <1>1, <1>5, <1>16
  <2>3. m = l
    BY <1>6, <2>1, <2>2
  <2> QED
    BY <1>2, <1>3, <1>7, <1>9, <2>3
<1>19. ~a.ok => G = Range(p.idle) /\ Range(a.table) = Range(p.free) \union G
  <2> HAVE ~a.ok
  <2>1. m # n
    BY <1>2, <1>7
  <2>2. l < n /\ m = l
    BY <1>6, <2>1
  <2>3. Range(q.idle) = {}
    BY <1>1, <1>5, <2>2
  <2> QED
    BY <1>2, <1>3, <1>7, <1>9, <1>16, <2>2, <2>3
<1>20. Allocated(Key, p, n, a, G)
  BY <1>2, <1>3, <1>7, <1>9, <1>11, <1>13, <1>15, <1>16, <1>17, <1>18, <1>19 DEF Allocated
<1> QED
  BY <1>20 DEF a

(* q is p after a request gave back the blocks of table: a reference of    *)
(* each is gone, and the ones left without any are free unless cached.     *)
Released(Key, p, table, q) ==
  /\ q \in Pools(Key) /\ q.by_hash = p.by_hash
  /\ q.ref = [b \in Block |-> IF b \in Range(table) THEN p.ref[b] - 1 ELSE p.ref[b]]
  /\ Range(q.free) = Range(p.free) \union
                     {b \in Range(table) : p.ref[b] = 1 /\ b \notin CachedBlocks(p)}

(* release_request_blocks of a table that names its blocks once and holds  *)
(* a reference to each.                                                    *)
LEMMA ReleaseProperties ==
  ASSUME NEW Key, NEW p \in Pools(Key), NEW table \in Seq(Block), IsInjective(table),
         \A b \in Range(table) : p.ref[b] # 0
  PROVE  Released(Key, p, table, ReleaseRequestBlocks(p, table))
<1> DEFINE q == ReleaseRequestBlocks(p, table)
           ref == [b \in Block |-> p.ref[b] - Cardinality({i \in DOMAIN table : table[i] = b})]
           zero == Keep(Distinct(table), {b \in Block : ref[b] = 0})
           toIdle == Keep(zero, CachedBlocks(p))
           toFree == Keep(zero, Block \ CachedBlocks(p))
<1>1. /\ p.free \in Seq(Block) /\ IsInjective(p.free)
      /\ p.idle \in Seq(Block) /\ IsInjective(p.idle)
      /\ p.ref \in [Block -> Nat]
      /\ p.by_hash \in Index(Key) /\ BucketsOK(p.by_hash)
      /\ Range(p.idle) = {b \in CachedBlocks(p) : p.ref[b] = 0}
      /\ \A b \in Range(p.free) : b \in Block /\ p.ref[b] = 0 /\ b \notin CachedBlocks(p)
      /\ p = [free |-> p.free, ref |-> p.ref, by_hash |-> p.by_hash, idle |-> p.idle]
  BY PoolFacts
<1>2. q = [p EXCEPT !.ref = ref, !.idle = p.idle \o toIdle, !.free = p.free \o toFree]
  BY DEF ReleaseRequestBlocks
<1>3. \A b \in Block : Cardinality({i \in DOMAIN table : table[i] = b}) =
                         IF b \in Range(table) THEN 1 ELSE 0
  <2> TAKE b \in Block
  <2> DEFINE S == {i \in DOMAIN table : table[i] = b}
  <2>1. CASE b \in Range(table)
    <3>1. PICK i \in DOMAIN table : table[i] = b
      BY <2>1 DEF Range
    <3>2. S = {i}
      BY <3>1 DEF IsInjective
    <3> QED
      BY <2>1, <3>2, FS_Singleton
  <2>2. CASE b \notin Range(table)
    <3>1. S = {}
      BY <2>2 DEF Range
    <3> QED
      BY <2>2, <3>1, FS_EmptySet
  <2> QED
    BY <2>1, <2>2
<1>4. Range(table) \subseteq Block
  BY DEF Range
<1>5. ref = [b \in Block |-> IF b \in Range(table) THEN p.ref[b] - 1 ELSE p.ref[b]]
  <2>1. \A b \in Block : p.ref[b] - Cardinality({i \in DOMAIN table : table[i] = b}) =
                           IF b \in Range(table) THEN p.ref[b] - 1 ELSE p.ref[b]
    <3> TAKE b \in Block
    <3>1. PICK r \in Nat : r = p.ref[b]
      BY <1>1
    <3>2. Cardinality({i \in DOMAIN table : table[i] = b}) = IF b \in Range(table) THEN 1 ELSE 0
      BY <1>3
    <3> QED
      BY <3>1, <3>2
  <2> QED
    BY <2>1
<1> HIDE DEF ref
<1>6. ref \in [Block -> Nat]
  BY <1>1, <1>4, <1>5
<1>7. \A b \in Block : ref[b] = 0 <=> \/ b \in Range(table) /\ p.ref[b] = 1
                                      \/ b \notin Range(table) /\ p.ref[b] = 0
  BY <1>1, <1>5
<1>8. /\ Distinct(table) \in Seq(Block) /\ IsInjective(Distinct(table))
      /\ Range(Distinct(table)) = Range(table)
  BY DistinctProperties
<1>9. /\ zero \in Seq(Block) /\ IsInjective(zero)
      /\ Range(zero) = Range(table) \intersect {b \in Block : ref[b] = 0}
  BY <1>8, KeepProperties
<1>10. Range(zero) = {b \in Range(table) : p.ref[b] = 1}
  BY <1>4, <1>7, <1>9
<1> HIDE DEF zero
<1>11. /\ toIdle \in Seq(Block) /\ IsInjective(toIdle)
       /\ Range(toIdle) = Range(zero) \intersect CachedBlocks(p)
  BY <1>9, KeepProperties
<1>12. /\ toFree \in Seq(Block) /\ IsInjective(toFree)
       /\ Range(toFree) = Range(zero) \intersect (Block \ CachedBlocks(p))
  BY <1>9, KeepProperties
<1> HIDE DEF toIdle, toFree, q
<1>13. /\ Range(p.idle) \intersect Range(toIdle) = {}
       /\ Range(p.free) \intersect Range(toFree) = {}
  BY <1>1, <1>10, <1>11, <1>12
<1> DEFINE idle == p.idle \o toIdle
           free == p.free \o toFree
<1>14. /\ idle \in Seq(Block) /\ IsInjective(idle)
       /\ Range(idle) = Range(p.idle) \union Range(toIdle)
  BY <1>1, <1>11, <1>13, ConcatRange
<1>15. /\ free \in Seq(Block) /\ IsInjective(free)
       /\ Range(free) = Range(p.free) \union Range(toFree)
  BY <1>1, <1>12, <1>13, ConcatRange
<1> HIDE DEF idle, free
<1>16. q = [free |-> free, ref |-> ref, by_hash |-> p.by_hash, idle |-> idle]
  <2>1. PICK f, c, h, i : p = [free |-> f, ref |-> c, by_hash |-> h, idle |-> i]
    BY <1>1
  <2>2. q = [p EXCEPT !.ref = ref, !.idle = idle, !.free = free]
    BY <1>2 DEF idle, free
  <2> QED
    BY <2>1, <2>2
<1>17. q.free = free /\ q.ref = ref /\ q.by_hash = p.by_hash /\ q.idle = idle
  BY <1>16
<1>18. CachedBlocks(q) = CachedBlocks(p) /\ CachedBlocks(p) \subseteq Block
  BY <1>17 DEF CachedBlocks, CacheContains
<1>19. Range(idle) = {b \in CachedBlocks(q) : ref[b] = 0}
  BY <1>1, <1>7, <1>10, <1>11, <1>14, <1>18
<1>20. Range(free) = Range(p.free) \union
                     {b \in Range(table) : p.ref[b] = 1 /\ b \notin CachedBlocks(p)}
  BY <1>4, <1>10, <1>12, <1>15
<1>21. \A b \in Range(free) : ref[b] = 0 /\ b \notin CachedBlocks(q)
  BY <1>1, <1>4, <1>7, <1>18, <1>20
<1>22. q \in Pools(Key)
  <2>1. /\ free \in Seq(Block) /\ IsInjective(free) /\ idle \in Seq(Block)
        /\ IsInjective(idle) /\ p.by_hash \in Index(Key) /\ BucketsOK(p.by_hash)
    BY <1>1, <1>14, <1>15
  <2> QED
    BY <1>6, <1>16, <1>19, <1>21, <2>1, PoolIntro
<1> QED
  BY <1>5, <1>17, <1>20, <1>22 DEF q, Released

-----------------------------------------------------------------------------
(* Arithmetic of blocks. *)

(* How many blocks a number of tokens takes, and when one more token takes *)
(* one block more.                                                         *)
LEMMA BlocksForBounds ==
  ASSUME NEW n \in Nat
  PROVE  /\ BlocksFor(n) \in Nat
         /\ BlocksFor(n) = 0 <=> n = 0
         /\ BlocksFor(n + 1) - BlocksFor(n) \in {0, 1}
         /\ \A m \in Nat : m * BlockSize <= n => m <= BlocksFor(n)
         /\ n \div BlockSize <= BlocksFor(n)
<1> DEFINE s == BlockSize
           q == (n + s - 1) \div s
           r == (n + 1 + s - 1) \div s
<1>1. s \in Nat \ {0}
  BY PoolAssumption
<1>2. BlocksFor(n) = q /\ BlocksFor(n + 1) = r
  BY DEF BlocksFor
<1> HIDE DEF s
<1>3. q \in Nat /\ s * q <= n + s - 1 /\ n + s - 1 < s * q + s
  BY <1>1
<1>4. r \in Nat /\ s * r <= n + 1 + s - 1 /\ n + 1 + s - 1 < s * r + s
  BY <1>1
<1>5. n \div s \in Nat /\ s * (n \div s) <= n
  BY <1>1
<1> HIDE DEF q, r
<1>6. q = 0 <=> n = 0
  BY <1>1, <1>3
<1>7. r - q \in {0, 1}
  <2>1. q <= r
    BY <1>1, <1>3, <1>4
  <2>2. r <= q + 1
    BY <1>1, <1>3, <1>4
  <2> QED
    BY <1>3, <1>4, <2>1, <2>2
<1>8. \A m \in Nat : m * s <= n => m <= q
  BY <1>1, <1>3
<1>9. n \div s <= q
  <2>1. (n \div s) * s = s * (n \div s)
    BY <1>1, <1>5
  <2> QED
    BY <1>5, <1>8, <2>1
<1> QED
  BY <1>2, <1>3, <1>6, <1>7, <1>8, <1>9 DEF s

(* The block that f retired tokens fill next, p of them not yet published, *)
(* is one of the blocks of n tokens.                                       *)
LEMMA NextFullBlock ==
  ASSUME NEW f \in Nat, NEW p \in Nat, NEW n \in Nat,
         BlockSize <= p, p <= f, f <= n
  PROVE  (f - p) \div BlockSize + 1 \in 1 .. BlocksFor(n)
<1>1. PICK s \in Nat \ {0} : s = BlockSize
  BY PoolAssumption
<1>2. PICK d \in Nat : d = f - p
  OBVIOUS
<1>3. PICK q \in Nat : q = d \div s /\ s * q <= d
  BY <1>1, <1>2
<1>4. (q + 1) * s <= n
  <2>1. (q + 1) * s = s * q + s
    BY <1>1, <1>3
  <2> QED
    BY <1>1, <1>2, <1>3, <2>1
<1>5. BlocksFor(n) \in Nat /\ q + 1 <= BlocksFor(n)
  <2>1. PICK m \in Nat : m = q + 1
    BY <1>3
  <2>2. m * BlockSize <= n
    BY <1>1, <1>4, <2>1
  <2> QED
    BY <2>1, <2>2, BlocksForBounds
<1> QED
  BY <1>1, <1>2, <1>3, <1>5

(* One more token does not change the prefixes.                            *)
LEMMA PrefixOfAppend ==
  ASSUME NEW T, NEW s \in Seq(T), NEW t \in T, NEW m \in Nat, m <= Len(s)
  PROVE  SubSeq(Append(s, t), 1, m) = SubSeq(s, 1, m)
  BY SubSeqProperties

-----------------------------------------------------------------------------
(* An admission, on the pool alone: l is the result of the lookup, a that  *)
(* of the allocation of what is missing, G the blocks that it evicted.     *)
AdmissionEffect(Tok, p, prompt, l, a, G) ==
  LET hits  == Range(l.table)
      taken == Range(a.table)
  IN  /\ l.table \in Seq(Block) /\ IsInjective(l.table) /\ l.parent \in Seq(Tok)
      /\ a.table \in Seq(Block) /\ IsInjective(a.table)
      /\ hits \subseteq CachedBlocks(p) /\ G \subseteq Range(p.idle) \ hits
      /\ taken \subseteq Range(p.free) \union G /\ hits \intersect taken = {}
      /\ \A i \in 1 .. Len(l.table) :
           /\ i * BlockSize <= Len(prompt)
           /\ l.table[i] \in Named(p.by_hash, SubSeq(prompt, 1, i * BlockSize))
      /\ a.pool \in Pools(Seq(Tok))
      /\ Range(a.pool.free) = (Range(p.free) \union G) \ taken
      /\ a.pool.ref = [b \in Block |-> IF b \in hits THEN p.ref[b] + 1
                                       ELSE IF b \in taken THEN 1 ELSE p.ref[b]]
      /\ \A k : Named(a.pool.by_hash, k) = Named(p.by_hash, k) \ G
      /\ a.ok => Len(l.table) + Len(a.table) = BlocksFor(Len(prompt))
      /\ a.ok /\ G # {} => taken = Range(p.free) \union G
      /\ ~a.ok => G = Range(p.idle) \ hits /\ taken = Range(p.free) \union G

(* What admit_one_waiting gets from the lookup and the allocation          *)
(* together.                                                               *)
LEMMA AdmissionProperties ==
  ASSUME NEW Tok, NEW p \in Pools(Seq(Tok)), NEW prompt \in Seq(Tok)
  PROVE  LET l == LookupPrefixCache(p, prompt)
             a == AllocateKVBlocks(l.pool, BlocksFor(Len(prompt)) - Len(l.table))
         IN  \E G : AdmissionEffect(Tok, p, prompt, l, a, G)
<1> DEFINE l == LookupPrefixCache(p, prompt)
           n == BlocksFor(Len(prompt)) - Len(l.table)
           a == AllocateKVBlocks(l.pool, n)
           hits  == Range(l.table)
           taken == Range(a.table)
<1>1. /\ l.pool = RetainRequest(p, l.table) /\ l.parent \in Seq(Tok)
      /\ l.table \in Seq(Block) /\ IsInjective(l.table) /\ hits \subseteq CachedBlocks(p)
      /\ Len(l.table) \in Nat /\ Len(l.table) <= Len(prompt) \div BlockSize
      /\ \A i \in 1 .. Len(l.table) :
           /\ i * BlockSize <= Len(prompt)
           /\ l.table[i] \in Named(p.by_hash, SubSeq(prompt, 1, i * BlockSize))
  BY LookupProperties
<1> HIDE DEF l
<1>2. /\ l.pool \in Pools(Seq(Tok)) /\ l.pool.free = p.free /\ l.pool.by_hash = p.by_hash
      /\ l.pool.ref = [b \in Block |-> IF b \in hits THEN p.ref[b] + 1 ELSE p.ref[b]]
      /\ Range(l.pool.idle) = Range(p.idle) \ hits
  <2>1. PICK t \in Seq(Block) : t = l.table
    BY <1>1
  <2>2. Range(t) \subseteq CachedBlocks(p) /\ l.pool = RetainRequest(p, t)
    BY <1>1, <2>1
  <2>3. Retained(Seq(Tok), p, t, l.pool)
    <3> HIDE DEF n, a, hits, taken
    <3> QED
      BY <2>2, RetainRequestProperties
  <2> QED
    BY <2>1, <2>3 DEF Retained
<1>3. n \in Nat /\ Len(l.table) + n = BlocksFor(Len(prompt))
  <2>1. PICK k \in Nat, h \in Nat : k = Len(prompt) /\ h = Len(l.table)
    BY <1>1
  <2>2. h <= k \div BlockSize
    BY <1>1, <2>1
  <2>3. BlocksFor(k) \in Nat /\ k \div BlockSize <= BlocksFor(k) /\ k \div BlockSize \in Nat
    <3>1. k \div BlockSize \in Nat
      BY PoolAssumption
    <3> QED
      BY <3>1, BlocksForBounds
  <2> QED
    BY <2>1, <2>2, <2>3
<1> HIDE DEF n
<1>4. PICK G : Allocated(Seq(Tok), l.pool, n, a, G)
  BY <1>2, <1>3, AllocateProperties
<1> HIDE DEF a
<1>5. /\ a.table \in Seq(Block) /\ IsInjective(a.table)
      /\ G \subseteq Range(p.idle) \ hits
      /\ taken \subseteq Range(p.free) \union G
      /\ a.pool \in Pools(Seq(Tok))
      /\ Range(a.pool.free) = (Range(p.free) \union G) \ taken
      /\ a.pool.ref = [b \in Block |-> IF b \in taken THEN 1 ELSE l.pool.ref[b]]
      /\ \A k : Named(a.pool.by_hash, k) = Named(p.by_hash, k) \ G
      /\ a.ok => Len(a.table) = n
      /\ a.ok /\ G # {} => taken = Range(p.free) \union G
      /\ ~a.ok => G = Range(p.idle) \ hits /\ taken = Range(p.free) \union G
  BY <1>2, <1>4 DEF Allocated
<1>6. hits \intersect taken = {}
  BY <1>1, <1>5, PoolFacts
<1>7. a.pool.ref = [b \in Block |-> IF b \in hits THEN p.ref[b] + 1
                                    ELSE IF b \in taken THEN 1 ELSE p.ref[b]]
  <2> HIDE DEF hits, taken
  <2> QED
    BY <1>2, <1>5, <1>6
<1>8. AdmissionEffect(Tok, p, prompt, l, a, G)
  BY <1>1, <1>3, <1>5, <1>6, <1>7 DEF AdmissionEffect
<1> QED
  BY <1>8 DEF a, n, l

(* The admission that fails gives the hits back.                           *)
LEMMA AdmissionReturned ==
  ASSUME NEW Tok, NEW p \in Pools(Seq(Tok)), NEW prompt, NEW l, NEW a, NEW G,
         AdmissionEffect(Tok, p, prompt, l, a, G), ~a.ok
  PROVE  LET q == ReleaseRequestBlocks(a.pool, l.table)
         IN  /\ q \in Pools(Seq(Tok)) /\ Range(q.free) = {}
             /\ q.ref = [b \in Block |-> IF b \in Range(a.table) THEN 1 ELSE p.ref[b]]
             /\ \A k : Named(q.by_hash, k) = Named(p.by_hash, k) \ G
<1> DEFINE q == ReleaseRequestBlocks(a.pool, l.table)
           hits  == Range(l.table)
           taken == Range(a.table)
<1>1. /\ l.table \in Seq(Block) /\ IsInjective(l.table)
      /\ hits \subseteq CachedBlocks(p) /\ hits \intersect G = {}
      /\ hits \intersect taken = {}
      /\ a.pool \in Pools(Seq(Tok))
      /\ Range(a.pool.free) = {}
      /\ a.pool.ref = [b \in Block |-> IF b \in hits THEN p.ref[b] + 1
                                       ELSE IF b \in taken THEN 1 ELSE p.ref[b]]
      /\ \A k : Named(a.pool.by_hash, k) = Named(p.by_hash, k) \ G
  BY DEF AdmissionEffect
<1>2. p.ref \in [Block -> Nat] /\ hits \subseteq Block
  BY <1>1, PoolFacts DEF Range
<1>3. \A b \in hits : a.pool.ref[b] = p.ref[b] + 1 /\ a.pool.ref[b] # 0
  BY <1>1, <1>2
<1>4. /\ q \in Pools(Seq(Tok)) /\ q.by_hash = a.pool.by_hash
      /\ q.ref = [b \in Block |-> IF b \in hits THEN a.pool.ref[b] - 1 ELSE a.pool.ref[b]]
      /\ Range(q.free) = Range(a.pool.free) \union
                         {b \in hits : a.pool.ref[b] = 1 /\ b \notin CachedBlocks(a.pool)}
  <2>1. PICK t \in Seq(Block), r \in Pools(Seq(Tok)) : t = l.table /\ r = a.pool
    BY <1>1
  <2>2. IsInjective(t) /\ \A b \in Range(t) : r.ref[b] # 0
    BY <1>1, <1>3, <2>1
  <2>3. q = ReleaseRequestBlocks(r, t)
    BY <2>1
  <2> HIDE DEF q
  <2>4. /\ q \in Pools(Seq(Tok)) /\ q.by_hash = r.by_hash
        /\ q.ref = [b \in Block |-> IF b \in Range(t) THEN r.ref[b] - 1 ELSE r.ref[b]]
        /\ Range(q.free) = Range(r.free) \union
                           {b \in Range(t) : r.ref[b] = 1 /\ b \notin CachedBlocks(r)}
    <3>1. Released(Seq(Tok), r, t, q)
      BY <2>2, <2>3, ReleaseProperties
    <3> QED
      BY <3>1 DEF Released
  <2> QED
    BY <2>1, <2>4
<1> HIDE DEF q
<1>5. CachedBlocks(a.pool) = CachedBlocks(p) \ G
  BY <1>1, CachedWithout
<1>6. Range(q.free) = {}
  BY <1>1, <1>4, <1>5
<1>7. \A b \in Block : q.ref[b] = IF b \in taken THEN 1 ELSE p.ref[b]
  <2> HIDE DEF hits, taken
  <2> TAKE b \in Block
  <2>1. CASE b \in hits
    <3>1. PICK c \in Nat : c = p.ref[b]
      BY <1>2
    <3>2. q.ref[b] = (c + 1) - 1 /\ b \notin taken
      BY <1>1, <1>3, <1>4, <2>1, <3>1
    <3> QED
      BY <3>1, <3>2
  <2>2. CASE b \notin hits
    BY <1>1, <1>4, <2>2
  <2> QED
    BY <2>1, <2>2
<1>8. q.ref = [b \in Block |-> IF b \in taken THEN 1 ELSE p.ref[b]]
  BY <1>4, <1>7
<1> QED
  BY <1>1, <1>4, <1>6, <1>8 DEF q

(* BlockPool::init leaves a sound pool with every block free. *)
LEMMA InitPoolIsPool ==
  ASSUME NEW Key
  PROVE  /\ InitPool \in Pools(Key) /\ Range(InitPool.free) = Block
         /\ CachedBlocks(InitPool) = {}
         /\ \A k : Named(InitPool.by_hash, k) = {}
<1> DEFINE free == [i \in 1 .. MaxBlocks |-> i - 1]
           ref == [b \in Block |-> 0]
<1>1. InitPool = [free |-> free, ref |-> ref, by_hash |-> <<>>, idle |-> <<>>]
  BY DEF InitPool
<1>2. free \in Seq(Block) /\ IsInjective(free)
  <2>1. \A i \in 1 .. MaxBlocks : i - 1 \in Block
    BY PoolAssumption DEF Block
  <2> QED
    BY <2>1, PoolAssumption DEF IsInjective
<1>3. Range(free) = Block
  <2>1. \A b \in Block : b + 1 \in 1 .. MaxBlocks /\ free[b + 1] = b
    BY PoolAssumption DEF Block
  <2>2. \A i \in 1 .. MaxBlocks : free[i] \in Block
    BY PoolAssumption DEF Block
  <2> QED
    BY <2>1, <2>2 DEF Range
<1>4. /\ InitPool.free = free /\ InitPool.ref = ref /\ InitPool.by_hash = <<>>
      /\ InitPool.idle = <<>>
  BY <1>1
<1> HIDE DEF free
<1>5. DOMAIN <<>> = {}
  OBVIOUS
<1>6. CachedBlocks(InitPool) = {} /\ \A k : Named(InitPool.by_hash, k) = {}
  BY <1>4, <1>5 DEF CachedBlocks, CacheContains, Named
<1>7. <<>> \in Index(Key) /\ BucketsOK(<<>>)
  <2>1. <<>> = [k \in DOMAIN <<>> |-> <<>>[k]]
    OBVIOUS
  <2>2. <<>> \in [{} -> Seq(Block)]
    BY <1>5, <2>1
  <2>3. <<>> \in Index(Key)
    BY <2>2 DEF Index
  <2> QED
    BY <1>5, <2>3 DEF BucketsOK
<1>8. <<>> \in Seq(Block) /\ IsInjective(<<>>) /\ Range(<<>>) = {}
  BY <1>5 DEF IsInjective, Range
<1>9. ref \in [Block -> Nat] /\ \A b \in Block : ref[b] = 0
  OBVIOUS
<1> HIDE DEF ref
<1>10. InitPool \in Pools(Key)
  <2>1. PICK h \in Index(Key) : h = <<>>
    BY <1>7
  <2>2. PICK e \in Seq(Block) : e = <<>>
    BY <1>8
  <2>3. PICK q : q = InitPool
    OBVIOUS
  <2>4. q = [free |-> free, ref |-> ref, by_hash |-> h, idle |-> e]
    BY <1>1, <2>1, <2>2, <2>3
  <2>5. /\ Range(e) = {b \in CachedBlocks(q) : ref[b] = 0}
        /\ \A b \in Range(free) : ref[b] = 0 /\ b \notin CachedBlocks(q)
    BY <1>3, <1>6, <1>8, <1>9, <2>2, <2>3
  <2>6. BucketsOK(h) /\ IsInjective(e)
    BY <1>7, <1>8, <2>1, <2>2
  <2>7. q \in Pools(Key)
    BY <1>2, <1>9, <2>4, <2>5, <2>6, PoolIntro
  <2> QED
    BY <2>3, <2>7
<1> QED
  BY <1>3, <1>4, <1>6, <1>10
==============================================================================
