-------------------------- MODULE CollectionLemmas --------------------------
(***************************************************************************)
(* Facts about the containers of Collections and about sequences that the  *)
(* proofs of the components rest on.                                       *)
(*                                                                         *)
(* Induction is over sets of numbers: a set that contains 0 and the        *)
(* successor of each of its members contains every natural number.  The    *)
(* predicate of an induction is the set of the numbers that satisfy it.    *)
(***************************************************************************)
EXTENDS Collections, SequenceTheorems, WellFoundedInduction, TLAPS

-----------------------------------------------------------------------------
(* Induction and recursion over the naturals. *)

(* Every set closed under successor that contains 0 contains Nat: the least *)
(* number outside it would have a predecessor outside it.                  *)
LEMMA NatSetInduction ==
  ASSUME NEW T, 0 \in T, \A n \in Nat : n \in T => n+1 \in T
  PROVE  Nat \subseteq T
 <1>. DEFINE C == Nat \ T
 <1>. DEFINE R == OpToRel(<, Nat)
 <1>1. SUFFICES ASSUME C # {} PROVE FALSE
   OBVIOUS
 <1>2. \E x \in C : \A y \in C : ~ (<<y,x>> \in R)
    <2> HIDE DEF R
    <2>1. IsWellFoundedOn(R, Nat)
      BY NatLessThanWellFounded DEF R
    <2>2. C \subseteq Nat
      OBVIOUS
    <2> HIDE DEF C
    <2> QED
      BY <1>1, <2>1, <2>2, WFMin
 <1>3. PICK x \in C : \A y \in C : ~(<<y,x>> \in R)
   BY <1>2
 <1>4. x \in Nat /\ x # 0 /\ x-1 \in Nat
   OBVIOUS
 <1>5. x-1 \in C
   OBVIOUS
 <1>6. <<x-1, x>> \in R
   BY <1>4 DEF OpToRel
 <1> QED
   BY <1>3, <1>5, <1>6

(* Induction up to a bound.                                                *)
LEMMA IntervalInduction ==
  ASSUME NEW n \in Nat, NEW T, 0 \in T, \A i \in 1 .. n : i - 1 \in T => i \in T
  PROVE  n \in T /\ 0 .. n \subseteq T
<1> DEFINE U == {i \in Nat : i <= n => i \in T}
<1>1. 0 \in U
  OBVIOUS
<1>2. ASSUME NEW i \in Nat, i \in U PROVE i + 1 \in U
  BY <1>2
<1> HIDE DEF U
<1>3. Nat \subseteq U
  BY <1>1, <1>2, NatSetInduction
<1> QED
  BY <1>3 DEF U

(* g is the sequence of values that repeated steps F[1], F[2], ... reach    *)
(* from base: what a loop of n iterations computes.                        *)
IsChain(g, V, F, base, n) ==
  /\ g \in [0 .. n -> V]
  /\ g[0] = base
  /\ \A i \in 1 .. n : g[i] = F[i][g[i-1]]

(* A loop whose steps stay in V computes n values of V.                    *)
LEMMA ChainExists ==
  ASSUME NEW V, NEW F \in [Nat -> [V -> V]], NEW base \in V, NEW n \in Nat
  PROVE  \E g : IsChain(g, V, F, base, n)
<1> DEFINE Good(g, m) == IsChain(g, V, F, base, m)
           T == {m \in Nat : \E g : Good(g, m)}
<1>1. 0 \in T
  <2>1. Good([i \in 0 .. 0 |-> base], 0)
    BY DEF IsChain
  <2> QED
    BY <2>1
<1>2. ASSUME NEW m \in Nat, m \in T PROVE m + 1 \in T
  <2>1. PICK g : Good(g, m)
    BY <1>2
  <2> DEFINE next == F[m+1][g[m]]
             h == [i \in 0 .. m+1 |-> IF i = m+1 THEN next ELSE g[i]]
  <2>2. next \in V
    BY <2>1 DEF IsChain
  <2> HIDE DEF next
  <2>3. h \in [0 .. m+1 -> V]
    BY <2>1, <2>2 DEF IsChain
  <2>4. h[0] = base
    BY <2>1 DEF IsChain
  <2>5. h[m+1] = F[m+1][h[m]]
    BY <2>1 DEF next, IsChain
  <2>6. ASSUME NEW i \in 1 .. m PROVE h[i] = F[i][h[i-1]]
    <3>1. i \in 0 .. m+1 /\ i # m+1 /\ i-1 \in 0 .. m+1 /\ i-1 # m+1
      OBVIOUS
    <3>2. h[i] = g[i] /\ h[i-1] = g[i-1]
      BY <3>1
    <3> QED
      BY <2>1, <3>2 DEF IsChain
  <2>7. \A i \in 1 .. m+1 : i = m+1 \/ i \in 1 .. m
    OBVIOUS
  <2>8. Good(h, m+1)
    <3> HIDE DEF h
    <3> QED
      BY <2>3, <2>4, <2>5, <2>6, <2>7 DEF IsChain
  <2>9. \E k : Good(k, m+1)
    BY <2>8
  <2> HIDE DEF Good
  <2> QED
    BY <2>9
<1> HIDE DEF T
<1>3. Nat \subseteq T
  BY <1>1, <1>2, NatSetInduction
<1> QED
  BY <1>3 DEF T

-----------------------------------------------------------------------------
(* Sequences. *)

(* push_back of an element that is not in the list.                        *)
LEMMA AppendRange ==
  ASSUME NEW T, NEW s \in Seq(T), NEW x \in T
  PROVE  /\ Append(s, x) \in Seq(T)
         /\ Range(Append(s, x)) = Range(s) \union {x}
         /\ IsInjective(s) /\ x \notin Range(s) => IsInjective(Append(s, x))
  BY SMTT(30) DEF Range, IsInjective

(* pop_front.                                                              *)
LEMMA HeadTailRange ==
  ASSUME NEW T, NEW s \in Seq(T), s # <<>>
  PROVE  /\ Head(s) \in Range(s) /\ Head(s) \in T
         /\ Tail(s) \in Seq(T)
         /\ Range(s) = Range(Tail(s)) \union {Head(s)}
         /\ IsInjective(s) => /\ IsInjective(Tail(s))
                              /\ Head(s) \notin Range(Tail(s))
                              /\ Range(Tail(s)) = Range(s) \ {Head(s)}
<1>1. /\ Len(s) \in Nat \ {0} /\ DOMAIN s = 1 .. Len(s) /\ Head(s) = s[1]
      /\ Tail(s) \in Seq(T) /\ DOMAIN Tail(s) = 1 .. Len(s) - 1
      /\ \A i \in 1 .. Len(s) - 1 : Tail(s)[i] = s[i + 1]
  OBVIOUS
<1>2. Head(s) \in Range(s) /\ Head(s) \in T
  BY <1>1 DEF Range
<1>3. Range(s) = Range(Tail(s)) \union {Head(s)}
  <2>1. ASSUME NEW x \in Range(s) PROVE x \in Range(Tail(s)) \union {Head(s)}
    <3>1. PICK i \in 1 .. Len(s) : x = s[i]
      BY <1>1 DEF Range
    <3>2. CASE i = 1
      BY <1>1, <3>1, <3>2
    <3>3. CASE i # 1
      <4>1. i - 1 \in 1 .. Len(s) - 1 /\ (i - 1) + 1 = i
        BY <1>1, <3>3
      <4>2. Tail(s)[i - 1] = x
        BY <1>1, <3>1, <4>1
      <4> QED
        BY <1>1, <4>1, <4>2 DEF Range
    <3> QED
      BY <3>2, <3>3
  <2>2. ASSUME NEW x \in Range(Tail(s)) PROVE x \in Range(s)
    BY <1>1 DEF Range
  <2> QED
    BY <1>2, <2>1, <2>2
<1>4. ASSUME IsInjective(s) PROVE IsInjective(Tail(s)) /\ Head(s) \notin Range(Tail(s))
  BY <1>1, <1>4 DEF Range, IsInjective
<1> QED
  BY <1>1, <1>2, <1>3, <1>4

(* Two lists without common elements, one after the other.                 *)
LEMMA ConcatRange ==
  ASSUME NEW T, NEW s \in Seq(T), NEW t \in Seq(T)
  PROVE  /\ s \o t \in Seq(T)
         /\ Range(s \o t) = Range(s) \union Range(t)
         /\ IsInjective(s) /\ IsInjective(t) /\ Range(s) \intersect Range(t) = {}
              => IsInjective(s \o t)
<1>1. s \o t \in Seq(T) /\ Range(s \o t) = Range(s) \union Range(t)
  BY RangeConcatenation
<1>2. /\ DOMAIN s = 1 .. Len(s) /\ DOMAIN t = 1 .. Len(t)
      /\ DOMAIN (s \o t) = 1 .. Len(s) + Len(t)
      /\ Len(s) \in Nat /\ Len(t) \in Nat
      /\ \A i \in 1 .. Len(s) + Len(t) :
           (s \o t)[i] = IF i <= Len(s) THEN s[i] ELSE t[i - Len(s)]
  BY ConcatProperties
<1>3. ASSUME IsInjective(s), IsInjective(t), Range(s) \intersect Range(t) = {},
             NEW i \in 1 .. Len(s) + Len(t), NEW k \in 1 .. Len(s) + Len(t),
             (s \o t)[i] = (s \o t)[k]
      PROVE  i = k
  <2>1. CASE i <= Len(s) /\ k <= Len(s)
    BY <1>2, <1>3, <2>1 DEF IsInjective
  <2>2. CASE i > Len(s) /\ k > Len(s)
    <3>1. i - Len(s) \in DOMAIN t /\ k - Len(s) \in DOMAIN t
      BY <1>2, <2>2
    <3>2. t[i - Len(s)] = t[k - Len(s)]
      BY <1>2, <1>3, <2>2
    <3>3. i - Len(s) = k - Len(s)
      BY <1>3, <3>1, <3>2 DEF IsInjective
    <3> QED
      BY <1>2, <3>3
  <2>3. ASSUME NEW m \in 1 .. Len(s) + Len(t)
        PROVE  IF m <= Len(s) THEN (s \o t)[m] \in Range(s) ELSE (s \o t)[m] \in Range(t)
    <3>1. m <= Len(s) => m \in DOMAIN s
      BY <1>2
    <3>2. ~(m <= Len(s)) => m - Len(s) \in DOMAIN t
      BY <1>2
    <3> QED
      BY <1>2, <3>1, <3>2 DEF Range
  <2> QED
    BY <1>2, <1>3, <2>1, <2>2, <2>3
<1>4. IsInjective(s) /\ IsInjective(t) /\ Range(s) \intersect Range(t) = {}
              => IsInjective(s \o t)
  BY <1>2, <1>3 DEF IsInjective
<1> QED
  BY <1>1, <1>4

(* In a list without duplicates the first occurrence is the only one.      *)
LEMMA EraseIsEraseAt ==
  ASSUME NEW T, NEW s \in Seq(T), NEW j \in 1 .. Len(s), IsInjective(s)
  PROVE  Erase(s, s[j]) = EraseAt(s, j)
<1>1. (CHOOSE i \in DOMAIN s : s[i] = s[j]) = j
  BY DEF IsInjective
<1> QED
  BY <1>1 DEF Erase

(* Erasing the element at a position.                                      *)
LEMMA EraseAtProperties ==
  ASSUME NEW T, NEW s \in Seq(T), NEW j \in 1 .. Len(s)
  PROVE  /\ EraseAt(s, j) \in Seq(T)
         /\ Len(EraseAt(s, j)) = Len(s) - 1
         /\ \A i \in 1 .. Len(s) - 1 :
              EraseAt(s, j)[i] = IF i < j THEN s[i] ELSE s[i + 1]
<1> DEFINE a == SubSeq(s, 1, j - 1)
           b == SubSeq(s, j + 1, Len(s))
<1>0. Len(s) \in Nat /\ \A i \in 1 .. Len(s) : s[i] \in T
  OBVIOUS
<1>1. a \in Seq(T) /\ Len(a) = j - 1 /\ \A i \in 1 .. j - 1 : a[i] = s[i]
  BY <1>0, SubSeqProperties
<1>2. b \in Seq(T) /\ Len(b) = Len(s) - j /\ \A i \in 1 .. Len(s) - j : b[i] = s[j + i]
  <2>1. \A i \in j + 1 .. Len(s) : s[i] \in T
    BY <1>0
  <2>2. Len(b) = (IF j + 1 <= Len(s) THEN Len(s) - (j + 1) + 1 ELSE 0) /\ b \in Seq(T)
    BY <1>0, <2>1, SubSeqProperties
  <2>3. \A i \in 1 .. Len(s) - (j + 1) + 1 : b[i] = s[(j + 1) + i - 1]
    BY <1>0, <2>1, SubSeqProperties
  <2> HIDE DEF b
  <2> QED
    BY <1>0, <2>2, <2>3
<1> HIDE DEF a, b
<1>3. /\ a \o b \in Seq(T) /\ Len(a \o b) = Len(s) - 1
      /\ \A i \in 1 .. Len(s) - 1 :
           (a \o b)[i] = IF i <= j - 1 THEN a[i] ELSE b[i - (j - 1)]
  BY <1>0, <1>1, <1>2, ConcatProperties
<1>4. ASSUME NEW i \in 1 .. Len(s) - 1
      PROVE  (a \o b)[i] = IF i < j THEN s[i] ELSE s[i + 1]
  <2>1. CASE i < j
    BY <1>0, <1>1, <1>3, <2>1
  <2>2. CASE ~(i < j)
    <3>1. i - (j - 1) \in 1 .. Len(s) - j /\ j + (i - (j - 1)) = i + 1 /\ ~(i <= j - 1)
      BY <1>0, <2>2
    <3>2. (a \o b)[i] = b[i - (j - 1)]
      BY <1>3, <3>1
    <3>3. b[i - (j - 1)] = s[i + 1]
      BY <1>2, <3>1
    <3> QED
      BY <2>2, <3>2, <3>3
  <2> QED
    BY <2>1, <2>2
<1> QED
  BY <1>3, <1>4 DEF EraseAt, a, b

(* Erasing an element of a list without duplicates leaves the others.      *)
LEMMA EraseProperties ==
  ASSUME NEW T, NEW s \in Seq(T), IsInjective(s), NEW x \in Range(s)
  PROVE  /\ Erase(s, x) \in Seq(T)
         /\ IsInjective(Erase(s, x))
         /\ Range(Erase(s, x)) = Range(s) \ {x}
         /\ Len(Erase(s, x)) = Len(s) - 1
<1>1. Len(s) \in Nat /\ DOMAIN s = 1 .. Len(s)
  OBVIOUS
<1>2. PICK j \in 1 .. Len(s) : s[j] = x
  BY <1>1 DEF Range
<1> DEFINE r == Erase(s, x)
<1>3. r = EraseAt(s, j)
  BY <1>2, EraseIsEraseAt
<1>4. /\ r \in Seq(T) /\ Len(r) = Len(s) - 1
      /\ \A i \in 1 .. Len(s) - 1 : r[i] = IF i < j THEN s[i] ELSE s[i + 1]
  BY <1>3, EraseAtProperties
<1>5. DOMAIN r = 1 .. Len(s) - 1
  BY <1>4
<1> HIDE DEF r
<1>6. IsInjective(r)
  <2> SUFFICES ASSUME NEW i \in 1 .. Len(s) - 1, NEW k \in 1 .. Len(s) - 1, r[i] = r[k]
               PROVE  i = k
    BY <1>5 DEF IsInjective
  <2> DEFINE at(m) == IF m < j THEN m ELSE m + 1
  <2>1. at(i) \in 1 .. Len(s) /\ at(k) \in 1 .. Len(s)
    BY <1>1
  <2>2. s[at(i)] = s[at(k)]
    BY <1>4
  <2>3. at(i) = at(k)
    <3> HIDE DEF at
    <3> QED
      BY <1>1, <2>1, <2>2 DEF IsInjective
  <2> QED
    BY <2>3
<1>7. ASSUME NEW y \in Range(r) PROVE y \in Range(s) /\ y # x
  <2>1. PICK i \in 1 .. Len(s) - 1 : y = r[i]
    BY <1>5 DEF Range
  <2> QED
    BY <1>1, <1>2, <1>4, <2>1, SMTT(30) DEF Range, IsInjective
<1>8. ASSUME NEW y \in Range(s), y # x PROVE y \in Range(r)
  <2>1. PICK i \in 1 .. Len(s) : y = s[i]
    BY <1>1 DEF Range
  <2>2. CASE i < j
    <3>1. i \in 1 .. Len(s) - 1
      BY <1>1, <2>2
    <3>2. r[i] = y
      BY <1>4, <2>1, <2>2, <3>1
    <3> QED
      BY <1>5, <3>1, <3>2 DEF Range
  <2>3. CASE i > j
    <3>1. i - 1 \in 1 .. Len(s) - 1 /\ ~(i - 1 < j) /\ (i - 1) + 1 = i
      BY <1>1, <2>3
    <3>2. r[i - 1] = y
      BY <1>4, <2>1, <3>1
    <3> QED
      BY <1>5, <3>1, <3>2 DEF Range
  <2> QED
    BY <1>1, <1>2, <1>8, <2>1, <2>2, <2>3
<1> QED
  BY <1>4, <1>6, <1>7, <1>8 DEF r

(* Erasing the element at a position by a swap with the last one.          *)
LEMMA SwapRemoveProperties ==
  ASSUME NEW T, NEW s \in Seq(T), NEW j \in 1 .. Len(s), IsInjective(s)
  PROVE  LET r == PopBack([s EXCEPT ![j] = Back(s)])
         IN  /\ r \in Seq(T) /\ IsInjective(r) /\ Range(r) = Range(s) \ {s[j]}
             /\ r = <<>> <=> Range(s) = {s[j]}
<1> DEFINE n == Len(s)
           at(i) == IF i = j THEN n ELSE i
           t == [s EXCEPT ![j] = Back(s)]
           r == PopBack(t)
<1>1. n \in Nat /\ DOMAIN s = 1 .. n /\ n >= 1 /\ \A i \in 1 .. n : s[i] \in T
  OBVIOUS
<1>2. t \in Seq(T) /\ Len(t) = n /\ \A i \in 1 .. n : t[i] = s[at(i)]
  BY <1>1 DEF Back
<1> HIDE DEF t
<1>3. r \in Seq(T) /\ Len(r) = n - 1 /\ DOMAIN r = 1 .. n - 1
      /\ \A i \in 1 .. n - 1 : r[i] = t[i]
  BY <1>1, <1>2 DEF PopBack
<1>a. n \in Nat /\ j \in 1 .. n /\ n >= 1
  BY <1>1
<1> HIDE DEF r, n
<1>4. \A i \in 1 .. n - 1 : i \in 1 .. n /\ at(i) \in 1 .. n /\ at(i) # j /\ r[i] = s[at(i)]
  BY <1>1, <1>2, <1>3
<1>5. \A i, k \in 1 .. n : s[i] = s[k] => i = k
  BY <1>1 DEF IsInjective
<1>6. IsInjective(r)
  <2> SUFFICES ASSUME NEW i \in 1 .. n - 1, NEW k \in 1 .. n - 1, r[i] = r[k] PROVE i = k
    BY <1>3 DEF IsInjective
  <2>1. at(i) = at(k)
    BY <1>4, <1>5
  <2> QED
    BY <2>1, <1>1
<1>7. ASSUME NEW x \in Range(r) PROVE x \in Range(s) /\ x # s[j]
  <2>1. PICK i \in 1 .. n - 1 : x = r[i]
    BY <1>3 DEF Range
  <2>2. x = s[at(i)] /\ at(i) \in 1 .. n /\ at(i) # j
    BY <1>4, <2>1
  <2> QED
    BY <1>1, <1>5, <2>2 DEF Range
<1>8. ASSUME NEW x \in Range(s), x # s[j] PROVE x \in Range(r)
  <2>1. PICK k \in 1 .. n : x = s[k]
    BY <1>1 DEF Range
  <2>2. k # j
    BY <1>8, <2>1
  <2>3. CASE k = n
    <3>1. j \in 1 .. n - 1 /\ at(j) = k
      BY <1>a, <2>2, <2>3
    <3>2. r[j] = x
      BY <1>4, <2>1, <3>1
    <3> QED
      BY <1>3, <3>1, <3>2 DEF Range
  <2>4. CASE k # n
    <3>1. k \in 1 .. n - 1 /\ at(k) = k
      BY <1>a, <2>2, <2>4
    <3>2. r[k] = x
      BY <1>4, <2>1, <3>1
    <3> QED
      BY <1>3, <3>1, <3>2 DEF Range
  <2> QED
    BY <2>3, <2>4
<1>9. Range(r) = Range(s) \ {s[j]}
  BY <1>7, <1>8
<1>10. r = <<>> <=> Range(r) = {}
  <2>1. r = <<>> => Range(r) = {}
    BY DEF Range
  <2>2. r # <<>> => r[1] \in Range(r)
    BY <1>3 DEF Range
  <2> QED
    BY <2>1, <2>2
<1>11. s[j] \in Range(s)
  BY <1>1 DEF Range
<1>12. r = <<>> <=> Range(s) = {s[j]}
  BY <1>9, <1>10, <1>11
<1> QED
  BY <1>3, <1>6, <1>9, <1>12 DEF r, t, n

(* A sequence cut in two.                                                  *)
LEMMA SplitProperties ==
  ASSUME NEW T, NEW s \in Seq(T), NEW k \in 0 .. Len(s)
  PROVE  LET a == SubSeq(s, 1, k)
             b == SubSeq(s, k + 1, Len(s))
         IN  /\ a \in Seq(T) /\ Len(a) = k
             /\ b \in Seq(T) /\ Len(b) = Len(s) - k
             /\ Range(s) = Range(a) \union Range(b)
             /\ IsInjective(s) => /\ IsInjective(a) /\ IsInjective(b)
                                  /\ Range(a) \intersect Range(b) = {}
<1> DEFINE n == Len(s)
           a == SubSeq(s, 1, k)
           b == SubSeq(s, k + 1, n)
<1>1. n \in Nat /\ k \in Nat /\ k <= n /\ DOMAIN s = 1 .. n
  OBVIOUS
<1>2. a \in Seq(T) /\ Len(a) = k /\ DOMAIN a = 1 .. k /\ \A i \in 1 .. k : a[i] = s[i]
  BY <1>1
<1>3. /\ b \in Seq(T) /\ Len(b) = n - k /\ DOMAIN b = 1 .. n - k
      /\ \A i \in 1 .. n - k : b[i] = s[i + k]
  <2>1. /\ b \in Seq(T) /\ Len(b) = n - k
        /\ \A i \in 1 .. n - k : b[i] = s[(k + 1) + i - 1]
    <3>1. k + 1 \in Int /\ n \in Int /\ \A i \in k + 1 .. n : s[i] \in T
      BY <1>1
    <3>2. PICK m \in Int : m = k + 1
      BY <3>1
    <3>3. /\ SubSeq(s, m, n) \in Seq(T)
          /\ Len(SubSeq(s, m, n)) = IF m <= n THEN n - m + 1 ELSE 0
          /\ \A i \in 1 .. n - m + 1 : SubSeq(s, m, n)[i] = s[m + i - 1]
      BY <3>1, <3>2, SubSeqProperties
    <3>4. n - m + 1 = n - k /\ (m <= n <=> n - k > 0) /\ n - k \in Nat
      BY <1>1, <3>2
    <3>5. b = SubSeq(s, m, n)
      BY <3>2
    <3> HIDE DEF b, n
    <3>6. b \in Seq(T) /\ Len(b) = n - k
      BY <3>3, <3>4, <3>5
    <3>7. \A i \in 1 .. n - k : b[i] = s[m + i - 1]
      BY <3>3, <3>4, <3>5
    <3> QED
      BY <3>2, <3>6, <3>7
  <2>2. \A i \in 1 .. n - k : (k + 1) + i - 1 = i + k
    BY <1>1
  <2> QED
    BY <2>1, <2>2
<1> HIDE DEF a, b, n
<1>4. \A i \in 1 .. n : i \in 1 .. k \/ (i - k \in 1 .. n - k /\ (i - k) + k = i)
  BY <1>1
<1>5. \A i \in 1 .. k : i \in 1 .. n
  BY <1>1
<1>6. \A i \in 1 .. n - k : i + k \in 1 .. n /\ i + k > k
  BY <1>1
<1>7. Range(a) \subseteq Range(s) /\ Range(b) \subseteq Range(s)
  <2>1. \A i \in DOMAIN a : a[i] \in Range(s)
    BY <1>1, <1>2, <1>5 DEF Range
  <2>2. \A i \in DOMAIN b : b[i] \in Range(s)
    BY <1>1, <1>3, <1>6 DEF Range
  <2> QED
    BY <2>1, <2>2 DEF Range
<1>8. ASSUME NEW x \in Range(s) PROVE x \in Range(a) \/ x \in Range(b)
  <2>1. PICK i \in 1 .. n : x = s[i]
    BY <1>1 DEF Range
  <2>2. CASE i \in 1 .. k
    BY <1>2, <2>1, <2>2 DEF Range
  <2>3. CASE i - k \in 1 .. n - k /\ (i - k) + k = i
    <3>1. b[i - k] = s[i]
      BY <1>3, <2>3
    <3> QED
      BY <1>3, <2>1, <2>3, <3>1 DEF Range
  <2> QED
    BY <1>4, <2>2, <2>3
<1>9. ASSUME IsInjective(s)
      PROVE  /\ IsInjective(a) /\ IsInjective(b) /\ Range(a) \intersect Range(b) = {}
  <2>1. \A i, j \in 1 .. n : s[i] = s[j] => i = j
    BY <1>1, <1>9 DEF IsInjective
  <2>2. IsInjective(a)
    BY <1>2, <1>5, <2>1 DEF IsInjective
  <2>3. IsInjective(b)
    <3> SUFFICES ASSUME NEW i \in 1 .. n - k, NEW j \in 1 .. n - k, b[i] = b[j]
                 PROVE  i = j
      BY <1>3 DEF IsInjective
    <3>1. i + k = j + k
      BY <1>3, <1>6, <2>1
    <3> QED
      BY <3>1, <1>1
  <2>4. ASSUME NEW x, x \in Range(a), x \in Range(b) PROVE FALSE
    <3>1. PICK i \in 1 .. k : x = s[i]
      BY <1>2, <2>4 DEF Range
    <3>2. PICK j \in 1 .. n - k : x = s[j + k]
      BY <1>3, <2>4 DEF Range
    <3>3. i = j + k
      BY <1>5, <1>6, <2>1, <3>1, <3>2
    <3> QED
      BY <1>1, <3>3
  <2> QED
    BY <2>2, <2>3, <2>4
<1> QED
  BY <1>2, <1>3, <1>7, <1>8, <1>9 DEF a, b, n

(* std::min.                                                               *)
LEMMA MinOfTwo ==
  ASSUME NEW a \in Nat, NEW b \in Nat
  PROVE  Min({a, b}) = IF a <= b THEN a ELSE b
<1>1. CASE a <= b
  BY <1>1 DEF Min
<1>2. CASE ~(a <= b)
  BY <1>2 DEF Min
<1> QED
  BY <1>1, <1>2

-----------------------------------------------------------------------------
(* Keep. *)

(* The recursive definition of KeepPrefixes has a solution, which it        *)
(* denotes.                                                                *)
LEMMA KeepPrefixesDef ==
  ASSUME NEW T, NEW s \in Seq(T), NEW S
  PROVE  KeepPrefixes(s, S) = [i \in 0 .. Len(s) |-> IF i = 0 THEN <<>>
        ELSE IF s[i] \in S THEN Append(KeepPrefixes(s, S)[i - 1], s[i])
        ELSE KeepPrefixes(s, S)[i - 1]]
<1> DEFINE V == Seq(T)
           F == [i \in Nat |-> [x \in V |-> IF i \in 1 .. Len(s) /\ s[i] \in S
                                            THEN Append(x, s[i]) ELSE x]]
           P(g) == g = [i \in 0 .. Len(s) |-> IF i = 0 THEN <<>>
        ELSE IF s[i] \in S THEN Append(g[i - 1], s[i])
        ELSE g[i - 1]]
<1>1. F \in [Nat -> [V -> V]]
  OBVIOUS
<1>2. \A x \in V, i \in 1 .. Len(s) : F[i][x] = IF s[i] \in S THEN Append(x, s[i]) ELSE x
  OBVIOUS
<1>3. <<>> \in V /\ Len(s) \in Nat
  OBVIOUS
<1> HIDE DEF F, V
<1>4. PICK g : IsChain(g, V, F, <<>>, Len(s))
  BY <1>1, <1>3, ChainExists
<1>5. P(g)
  <2>1. \A i \in 1 .. Len(s) : i - 1 \in 0 .. Len(s)
    BY <1>3
  <2>2. \A i \in 1 .. Len(s) : g[i] = IF s[i] \in S THEN Append(g[i-1], s[i]) ELSE g[i-1]
    BY <1>2, <1>4, <2>1 DEF IsChain
  <2>3. \A i \in 0 .. Len(s) : i = 0 \/ i \in 1 .. Len(s)
    BY <1>3
  <2>4. \A i \in 0 .. Len(s) : g[i] = IF i = 0 THEN <<>> ELSE IF s[i] \in S THEN Append(g[i - 1], s[i]) ELSE g[i - 1]
    BY <2>2, <2>3, <1>4 DEF IsChain
  <2>5. g = [i \in 0 .. Len(s) |-> g[i]]
    BY <1>4 DEF IsChain
  <2> QED
    BY <2>4, <2>5
<1> HIDE DEF P
<1>6. P(CHOOSE h : P(h))
  BY <1>5
<1>7. KeepPrefixes(s, S) = CHOOSE h : P(h)
  BY DEF KeepPrefixes, P
<1>8. P(KeepPrefixes(s, S))
  BY <1>6, <1>7
<1> QED
  BY <1>8 DEF P

(* Before the first element nothing is kept.                               *)
LEMMA KeepPrefixesStart ==
  ASSUME NEW T, NEW s \in Seq(T), NEW S
  PROVE  KeepPrefixes(s, S)[0] = <<>>
<1> DEFINE K == KeepPrefixes(s, S)
<1>1. K = [i \in 0 .. Len(s) |->
             IF i = 0 THEN <<>>
             ELSE IF s[i] \in S THEN Append(K[i - 1], s[i]) ELSE K[i - 1]]
  BY KeepPrefixesDef
<1>2. Len(s) \in Nat
  OBVIOUS
<1> HIDE DEF K
<1>3. K[0] = <<>>
  BY <1>1, <1>2
<1> QED
  BY <1>3 DEF K

(* One step of KeepPrefixes at a time.                                     *)
LEMMA KeepPrefixesStep ==
  ASSUME NEW T, NEW s \in Seq(T), NEW S
  PROVE  /\ KeepPrefixes(s, S)[0] = <<>>
         /\ \A i \in 1 .. Len(s) :
              KeepPrefixes(s, S)[i] = IF s[i] \in S
                                      THEN Append(KeepPrefixes(s, S)[i - 1], s[i])
                                      ELSE KeepPrefixes(s, S)[i - 1]
<1> DEFINE K == KeepPrefixes(s, S)
<1>1. K = [i \in 0 .. Len(s) |->
             IF i = 0 THEN <<>>
             ELSE IF s[i] \in S THEN Append(K[i - 1], s[i]) ELSE K[i - 1]]
  BY KeepPrefixesDef
<1>2. Len(s) \in Nat
  OBVIOUS
<1> HIDE DEF K
<1>3. K[0] = <<>>
  BY <1>1, <1>2
<1>4. ASSUME NEW i \in 1 .. Len(s)
      PROVE  K[i] = IF s[i] \in S THEN Append(K[i - 1], s[i]) ELSE K[i - 1]
  <2>1. i \in 0 .. Len(s) /\ i # 0
    BY <1>2
  <2> QED
    BY <1>1, <2>1
<1> QED
  BY <1>3, <1>4 DEF K

(* Erasing what is not in S leaves exactly the elements in S, and each of   *)
(* them once if it was there once.                                         *)
LEMMA KeepProperties ==
  ASSUME NEW T, NEW s \in Seq(T), NEW S
  PROVE  /\ Keep(s, S) \in Seq(T)
         /\ Range(Keep(s, S)) = Range(s) \intersect S
         /\ IsInjective(s) => IsInjective(Keep(s, S))
<1> DEFINE K == KeepPrefixes(s, S)
           Seen(i) == {s[j] : j \in 1 .. i}
           Good(i) == /\ K[i] \in Seq(T)
                      /\ Range(K[i]) = Seen(i) \intersect S
                      /\ IsInjective(s) => IsInjective(K[i])
           U == {i \in 0 .. Len(s) : Good(i)}
<1>1. /\ K[0] = <<>>
      /\ \A i \in 1 .. Len(s) :
            K[i] = IF s[i] \in S THEN Append(K[i - 1], s[i]) ELSE K[i - 1]
  BY KeepPrefixesStep
<1>2. Len(s) \in Nat
  OBVIOUS
<1> HIDE DEF K
<1>3. 0 \in U
  <2>1. Range(<<>>) = {} /\ IsInjective(<<>>) /\ <<>> \in Seq(T)
    BY DEF Range, IsInjective
  <2>2. Seen(0) = {}
    OBVIOUS
  <2>3. Good(0)
    BY <1>1, <2>1, <2>2
  <2>4. 0 \in 0 .. Len(s)
    BY <1>2
  <2> HIDE DEF Good
  <2> QED
    BY <2>3, <2>4
<1>4. ASSUME NEW i \in 1 .. Len(s), i - 1 \in U PROVE i \in U
  <2>1. Good(i - 1) /\ i \in 0 .. Len(s)
    BY <1>2, <1>4
  <2>2. s[i] \in T
    OBVIOUS
  <2>3. Seen(i) = Seen(i - 1) \union {s[i]}
    BY <1>2
  <2>4. IsInjective(s) => s[i] \notin Seen(i - 1)
    BY <1>2 DEF IsInjective
  <2>5. CASE s[i] \notin S
    BY <1>1, <2>1, <2>3, <2>5
  <2>6. CASE s[i] \in S
    <3> DEFINE k == K[i - 1]
    <3>1. K[i] = Append(k, s[i]) /\ k \in Seq(T)
      BY <1>1, <2>1, <2>6
    <3>2. Range(k) = Seen(i - 1) \intersect S
      BY <2>1
    <3>3. IsInjective(s) => IsInjective(k) /\ s[i] \notin Range(k)
      BY <2>1, <2>4, <3>2
    <3> HIDE DEF k, Seen
    <3>4. Range(Append(k, s[i])) = Range(k) \union {s[i]}
      BY <2>2, <3>1 DEF Range
    <3>5. IsInjective(s) => IsInjective(Append(k, s[i]))
      BY <2>2, <3>1, <3>3 DEF Range, IsInjective
    <3>6. Append(k, s[i]) \in Seq(T)
      BY <2>2, <3>1
    <3> QED
      BY <2>1, <2>3, <2>6, <3>1, <3>2, <3>4, <3>5, <3>6
  <2> QED
    BY <2>5, <2>6
<1>5. Len(s) \in U
  <2> HIDE DEF U
  <2> QED
    BY <1>2, <1>3, <1>4, IntervalInduction
<1>6. Good(Len(s))
  <2> HIDE DEF Good
  <2> QED
    BY <1>5
<1>7. Seen(Len(s)) = Range(s)
  BY DEF Range
<1> QED
  BY <1>6, <1>7 DEF Keep, K

(* Nothing is kept of nothing.                                             *)
LEMMA KeepEmpty == \A S : Keep(<<>>, S) = <<>>
<1> TAKE S
<1>1. PICK s : s = <<>>
  OBVIOUS
<1>2. s \in Seq({}) /\ Len(s) = 0
  BY <1>1
<1>3. KeepPrefixes(s, S)[0] = <<>>
  BY <1>2, KeepPrefixesStart
<1> QED
  BY <1>1, <1>2, <1>3 DEF Keep

(* What is pushed at the end is kept at the end.                           *)
LEMMA KeepAppend ==
  ASSUME NEW T, NEW s \in Seq(T), NEW x \in T, NEW S
  PROVE  Keep(Append(s, x), S) = IF x \in S THEN Append(Keep(s, S), x) ELSE Keep(s, S)
<1> DEFINE t == Append(s, x)
           K == KeepPrefixes(s, S)
           L == KeepPrefixes(t, S)
           n == Len(s)
           U == {i \in 0 .. n : K[i] = L[i]}
<1>1. /\ t \in Seq(T) /\ n \in Nat /\ Len(t) = n + 1
      /\ t[n + 1] = x /\ \A i \in 1 .. n : t[i] = s[i]
  OBVIOUS
<1> HIDE DEF t
<1>2. /\ K[0] = <<>>
      /\ \A i \in 1 .. n : K[i] = IF s[i] \in S THEN Append(K[i - 1], s[i]) ELSE K[i - 1]
  BY KeepPrefixesStep
<1>3. /\ L[0] = <<>>
      /\ \A i \in 1 .. n + 1 : L[i] = IF t[i] \in S THEN Append(L[i - 1], t[i]) ELSE L[i - 1]
  BY <1>1, KeepPrefixesStep
<1> HIDE DEF K, L, n
<1>4. 0 \in U
  BY <1>1, <1>2, <1>3
<1>5. ASSUME NEW i \in 1 .. n, i - 1 \in U PROVE i \in U
  BY <1>1, <1>2, <1>3, <1>5
<1>7. n \in U
  <2> HIDE DEF U
  <2> QED
    BY <1>1, <1>4, <1>5, IntervalInduction
<1>8. L[n + 1] = IF x \in S THEN Append(L[n], x) ELSE L[n]
  BY <1>1, <1>3
<1> QED
  BY <1>1, <1>7, <1>8 DEF Keep, K, L, n, t

(* The two cases of it.                                                    *)
LEMMA KeepAppendIn ==
  ASSUME NEW T, NEW s \in Seq(T), NEW x \in T, NEW S, x \in S
  PROVE  Keep(Append(s, x), S) = Append(Keep(s, S), x)
<1>1. Keep(Append(s, x), S) = IF x \in S THEN Append(Keep(s, S), x) ELSE Keep(s, S)
  BY KeepAppend
<1> QED
  BY <1>1

LEMMA KeepAppendOut ==
  ASSUME NEW T, NEW s \in Seq(T), NEW x \in T, NEW S, x \notin S
  PROVE  Keep(Append(s, x), S) = Keep(s, S)
<1>1. Keep(Append(s, x), S) = IF x \in S THEN Append(Keep(s, S), x) ELSE Keep(s, S)
  BY KeepAppend
<1> QED
  BY <1>1

(* What is popped at the front was kept at the front.                      *)
LEMMA KeepHead ==
  ASSUME NEW T, NEW s \in Seq(T), s # <<>>, NEW S
  PROVE  Keep(s, S) = IF Head(s) \in S THEN <<Head(s)>> \o Keep(Tail(s), S)
                      ELSE Keep(Tail(s), S)
<1> DEFINE t == Tail(s)
           K == KeepPrefixes(s, S)
           L == KeepPrefixes(t, S)
           n == Len(t)
           first == IF Head(s) \in S THEN <<Head(s)>> ELSE <<>>
           Good(i) == L[i] \in Seq(T) /\ K[i + 1] = first \o L[i]
           U == {i \in 0 .. n : Good(i)}
<1>1. /\ t \in Seq(T) /\ n \in Nat /\ Len(s) = n + 1
      /\ s[1] = Head(s) /\ Head(s) \in T /\ \A i \in 1 .. n : t[i] = s[i + 1] /\ t[i] \in T
  OBVIOUS
<1> HIDE DEF t
<1>2. /\ K[0] = <<>>
      /\ \A i \in 1 .. Len(s) : K[i] = IF s[i] \in S THEN Append(K[i - 1], s[i]) ELSE K[i - 1]
  BY KeepPrefixesStep
<1>3. /\ L[0] = <<>>
      /\ \A i \in 1 .. n : L[i] = IF t[i] \in S THEN Append(L[i - 1], t[i]) ELSE L[i - 1]
  BY <1>1, KeepPrefixesStep
<1> HIDE DEF K, L, n
<1>4. 0 \in U
  <2>0. 1 \in 1 .. Len(s) /\ 1 - 1 = 0 /\ 0 + 1 = 1 /\ 0 \in 0 .. n
    BY <1>1
  <2>1. K[1] = IF s[1] \in S THEN Append(K[0], s[1]) ELSE K[0]
    BY <2>0, <1>2
  <2>2. K[1] = first
    BY <2>1, <1>1, <1>2
  <2>3. first = first \o <<>> /\ <<>> \in Seq(T)
    BY <1>1
  <2> HIDE DEF first
  <2>4. Good(0)
    BY <1>3, <2>0, <2>2, <2>3
  <2> QED
    BY <2>0, <2>4
<1>5. ASSUME NEW i \in 1 .. n, i - 1 \in U PROVE i \in U
  <2>0. i \in 0 .. n /\ (i - 1) + 1 = i
    BY <1>1
  <2>1. L[i - 1] \in Seq(T) /\ K[i] = first \o L[i - 1]
    <3> HIDE DEF first
    <3> QED
      BY <1>5, <2>0
  <2>2. K[i + 1] = IF t[i] \in S THEN Append(K[i], t[i]) ELSE K[i]
    BY <1>1, <1>2
  <2>3. L[i] = IF t[i] \in S THEN Append(L[i - 1], t[i]) ELSE L[i - 1]
    BY <1>3
  <2>4. first \in Seq(T) /\ t[i] \in T
    BY <1>1
  <2> HIDE DEF first
  <2>5. Append(first \o L[i - 1], t[i]) = first \o Append(L[i - 1], t[i])
    <3>1. PICK a \in Seq(T), b \in Seq(T), c \in T :
             a = first /\ b = L[i - 1] /\ c = t[i]
      BY <2>1, <2>4
    <3>2. Append(a \o b, c) = a \o Append(b, c)
      OBVIOUS
    <3> QED
      BY <3>1, <3>2
  <2>6. L[i] \in Seq(T)
    BY <2>1, <2>3, <2>4
  <2>7. Good(i)
    BY <2>1, <2>2, <2>3, <2>5, <2>6
  <2> QED
    BY <2>0, <2>7
<1>7. n \in U
  <2> HIDE DEF U
  <2> QED
    BY <1>1, <1>4, <1>5, IntervalInduction
<1>8. K[n + 1] = first \o L[n] /\ L[n] \in Seq(T)
  BY <1>7
<1>9. <<>> \o L[n] = L[n]
  BY <1>8
<1> QED
  BY <1>1, <1>8, <1>9 DEF Keep, K, L, n, t

-----------------------------------------------------------------------------
(* Distinct. *)

(* The recursive definition of DistinctPrefixes has a solution, taken one   *)
(* step at a time.                                                         *)
LEMMA DistinctPrefixesStep ==
  ASSUME NEW T, NEW s \in Seq(T)
  PROVE  /\ DistinctPrefixes(s)[0] = <<>>
         /\ \A i \in 1 .. Len(s) :
              DistinctPrefixes(s)[i] = IF \E j \in 1 .. i - 1 : s[j] = s[i]
                                       THEN DistinctPrefixes(s)[i - 1]
                                       ELSE Append(DistinctPrefixes(s)[i - 1], s[i])
<1> DEFINE V == Seq(T)
           Again(i) == \E j \in 1 .. i - 1 : s[j] = s[i]
           F == [i \in Nat |-> [x \in V |-> IF i \in 1 .. Len(s) /\ ~Again(i)
                                            THEN Append(x, s[i]) ELSE x]]
           P(g) == g = [i \in 0 .. Len(s) |-> IF i = 0 THEN <<>>
                                              ELSE IF Again(i) THEN g[i - 1]
                                              ELSE Append(g[i - 1], s[i])]
<1>1. F \in [Nat -> [V -> V]]
  OBVIOUS
<1>2. \A x \in V, i \in 1 .. Len(s) : F[i][x] = IF Again(i) THEN x ELSE Append(x, s[i])
  OBVIOUS
<1>3. <<>> \in V /\ Len(s) \in Nat
  OBVIOUS
<1> HIDE DEF F, V
<1>4. PICK g : IsChain(g, V, F, <<>>, Len(s))
  BY <1>1, <1>3, ChainExists
<1>a. DistinctPrefixes(s) = CHOOSE h : P(h)
  BY DEF DistinctPrefixes, P
<1> HIDE DEF Again
<1>5. P(g)
  <2>1. \A i \in 1 .. Len(s) : i - 1 \in 0 .. Len(s)
    BY <1>3
  <2>2. \A i \in 1 .. Len(s) : g[i] = IF Again(i) THEN g[i - 1] ELSE Append(g[i - 1], s[i])
    BY <1>2, <1>4, <2>1 DEF IsChain
  <2>3. \A i \in 0 .. Len(s) : i = 0 \/ i \in 1 .. Len(s)
    BY <1>3
  <2>4. \A i \in 0 .. Len(s) : g[i] = IF i = 0 THEN <<>> ELSE IF Again(i) THEN g[i - 1]
                                      ELSE Append(g[i - 1], s[i])
    BY <2>2, <2>3, <1>4 DEF IsChain
  <2>5. g = [i \in 0 .. Len(s) |-> g[i]]
    BY <1>4 DEF IsChain
  <2> QED
    BY <2>4, <2>5
<1> HIDE DEF P
<1>6. P(CHOOSE h : P(h))
  BY <1>5
<1> DEFINE K == DistinctPrefixes(s)
<1>7. K = [i \in 0 .. Len(s) |-> IF i = 0 THEN <<>> ELSE IF Again(i) THEN K[i - 1]
                                 ELSE Append(K[i - 1], s[i])]
  BY <1>a, <1>6 DEF P
<1> HIDE DEF K
<1>8. K[0] = <<>>
  BY <1>3, <1>7
<1>9. ASSUME NEW i \in 1 .. Len(s)
      PROVE  K[i] = IF Again(i) THEN K[i - 1] ELSE Append(K[i - 1], s[i])
  <2>1. i \in 0 .. Len(s) /\ i # 0
    BY <1>3
  <2> QED
    BY <1>7, <2>1
<1> QED
  BY <1>8, <1>9 DEF K, Again

(* The loop that skips what it has seen meets every element once.          *)
LEMMA DistinctProperties ==
  ASSUME NEW T, NEW s \in Seq(T)
  PROVE  /\ Distinct(s) \in Seq(T)
         /\ Range(Distinct(s)) = Range(s)
         /\ IsInjective(Distinct(s))
<1> DEFINE K == DistinctPrefixes(s)
           Seen(i) == {s[j] : j \in 1 .. i}
           Good(i) == K[i] \in Seq(T) /\ Range(K[i]) = Seen(i) /\ IsInjective(K[i])
           U == {i \in 0 .. Len(s) : Good(i)}
<1>1. /\ K[0] = <<>>
      /\ \A i \in 1 .. Len(s) : K[i] = IF s[i] \in Seen(i - 1) THEN K[i - 1]
                                       ELSE Append(K[i - 1], s[i])
  BY DistinctPrefixesStep
<1>2. Len(s) \in Nat
  OBVIOUS
<1> HIDE DEF K
<1>3. 0 \in U
  <2>1. Range(<<>>) = {} /\ IsInjective(<<>>) /\ <<>> \in Seq(T)
    BY DEF Range, IsInjective
  <2>2. Seen(0) = {}
    OBVIOUS
  <2>3. Good(0)
    BY <1>1, <2>1, <2>2
  <2>4. 0 \in 0 .. Len(s)
    BY <1>2
  <2> HIDE DEF Good
  <2> QED
    BY <2>3, <2>4
<1>4. ASSUME NEW i \in 1 .. Len(s), i - 1 \in U PROVE i \in U
  <2>1. Good(i - 1) /\ i \in 0 .. Len(s)
    BY <1>2, <1>4
  <2>2. s[i] \in T
    OBVIOUS
  <2>3. Seen(i) = Seen(i - 1) \union {s[i]}
    BY <1>2
  <2>5. CASE s[i] \in Seen(i - 1)
    <3>1. Seen(i) = Seen(i - 1)
      BY <2>3, <2>5
    <3>2. K[i] = K[i - 1]
      BY <1>1, <2>5
    <3> HIDE DEF Seen
    <3> QED
      BY <2>1, <3>1, <3>2
  <2>6. CASE s[i] \notin Seen(i - 1)
    <3> DEFINE k == K[i - 1]
    <3>1. K[i] = Append(k, s[i]) /\ k \in Seq(T) /\ Range(k) = Seen(i - 1) /\ IsInjective(k)
      BY <1>1, <2>1, <2>6
    <3> HIDE DEF k, Seen
    <3>2. Range(Append(k, s[i])) = Range(k) \union {s[i]}
      BY <2>2, <3>1, SMTT(30) DEF Range
    <3>3. IsInjective(Append(k, s[i]))
      BY <2>2, <2>6, <3>1 DEF Range, IsInjective
    <3>4. Append(k, s[i]) \in Seq(T)
      BY <2>2, <3>1
    <3> QED
      BY <2>1, <2>3, <3>1, <3>2, <3>3, <3>4
  <2> QED
    BY <2>5, <2>6
<1>5. Len(s) \in U
  <2> HIDE DEF U
  <2> QED
    BY <1>2, <1>3, <1>4, IntervalInduction
<1>6. Good(Len(s))
  <2> HIDE DEF Good
  <2> QED
    BY <1>5
<1>7. Seen(Len(s)) = Range(s)
  BY DEF Range
<1> QED
  BY <1>6, <1>7 DEF Distinct, K

-----------------------
(* Maps. *)

(* A new key in a map.                                                     *)
LEMMA InsertProperties ==
  ASSUME NEW f, NEW key, key \notin DOMAIN f, NEW value
  PROVE  /\ DOMAIN Insert(f, key, value) = DOMAIN f \union {key}
         /\ Insert(f, key, value)[key] = value
         /\ \A k \in DOMAIN f : Insert(f, key, value)[k] = f[k]
         /\ Range(Insert(f, key, value)) = Range(f) \union {value}
         /\ IsInjective(f) /\ value \notin Range(f)
              => IsInjective(Insert(f, key, value))
  BY DEF Insert, Range, IsInjective

(* A key erased from a map.                                                *)
LEMMA WithoutProperties ==
  ASSUME NEW f, NEW key \in DOMAIN f
  PROVE  /\ DOMAIN Without(f, {key}) = DOMAIN f \ {key}
         /\ \A k \in DOMAIN f \ {key} : Without(f, {key})[k] = f[k]
         /\ IsInjective(f) => /\ IsInjective(Without(f, {key}))
                              /\ Range(Without(f, {key})) = Range(f) \ {f[key]}
  BY DEF Without, Restrict, Range, IsInjective
=============================================================================
