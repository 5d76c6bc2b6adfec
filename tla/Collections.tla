----------------------------- MODULE Collections -----------------------------
(***************************************************************************)
(* The containers of the C++ code as the other modules use them: a map is  *)
(* a function on its keys, a list or deque is a sequence.  The operators   *)
(* are written so that CollectionLemmas can prove what they compute.       *)
(***************************************************************************)
EXTENDS Naturals, Sequences, FiniteSetsExt, Functions

(* map.emplace(key, value), and the map without the keys in S. *)
Insert(f, key, value) ==
  [k \in DOMAIN f \union {key} |-> IF k = key THEN value ELSE f[k]]

Without(f, S) == Restrict(f, DOMAIN f \ S)

(* back and pop_back. *)
Back(s) == s[Len(s)]

PopBack(s) == SubSeq(s, 1, Len(s) - 1)

(* t starts with the elements of s. *)
StartsWith(t, s) ==
  Len(s) <= Len(t) /\ \A i \in 1 .. Len(s) : t[i] = s[i]

(* erase at position i, and erase at the position where x is. *)
EraseAt(s, i) == SubSeq(s, 1, i - 1) \o SubSeq(s, i + 1, Len(s))

Erase(s, x) == EraseAt(s, CHOOSE i \in DOMAIN s : s[i] = x)

(* The elements of S among the first i of the sequence s, in their order. *)
KeepPrefixes(s, S) ==
  LET kept[i \in 0 .. Len(s)] ==
        IF i = 0 THEN <<>>
        ELSE IF s[i] \in S THEN Append(kept[i - 1], s[i])
        ELSE kept[i - 1]
  IN  kept

(* The sequence s without the elements that are not in S (erase_if). *)
Keep(s, S) == KeepPrefixes(s, S)[Len(s)]

(* The different elements of the first i of s, in the order in which they  *)
(* occur for the first time, and those of all of s (a loop over s that     *)
(* skips what is in an unordered_set of the elements seen).                *)
DistinctPrefixes(s) ==
  LET seen[i \in 0 .. Len(s)] ==
        IF i = 0 THEN <<>>
        ELSE IF \E j \in 1 .. i - 1 : s[j] = s[i] THEN seen[i - 1]
        ELSE Append(seen[i - 1], s[i])
  IN  seen

Distinct(s) == DistinctPrefixes(s)[Len(s)]
==============================================================================
