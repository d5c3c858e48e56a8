---------------------------- MODULE DictMapProofs ----------------------------
(***************************************************************************)
(* The table of Dict is the map of DictMap, and its iterator returns every *)
(* entry of that map once: for every key set, hash function, array size    *)
(* and number of rehash steps.                                             *)
(*                                                                         *)
(* A chain and an array are read as the sets of their entries.  Every step *)
(* of the code that changes a chain replaces the entries of one key        *)
(* (Replaced), so a step of the table is a step of the map when the key is *)
(* in no other chain, which is what the invariant of DictProofs gives.     *)
(***************************************************************************)
EXTENDS DictProofs, DictIter

\* The entries of one bucket array.
PairsOf(buckets, s) == UNION {ToSet(buckets[i]) : i \in 0..(s - 1)}

\* What a set of entries becomes when the entries of the key x make room for
\* those of N.
Replaced(S, x, N) == {e \in S : e.key # x} \cup N

-----------------------------------------------------------------------------
(* Chains as sets of entries *)

\* An entry is in a chain iff the chain has it at some position.
LEMMA InChain ==
    ASSUME NEW s \in Seq(Entry), NEW e
    PROVE  e \in ToSet(s) <=> \E j \in 1..Len(s) : s[j] = e
<1>1. DOMAIN s = 1..Len(s)
  BY LenProperties
<1> QED
  BY <1>1 DEF ToSet

\* The keys of a chain are the keys of its entries.
LEMMA ChainKeys ==
    ASSUME NEW s \in Seq(Entry), NEW k
    PROVE  /\ Holds(s, k) <=> \E e \in ToSet(s) : e.key = k
           /\ ToSet(s) \subseteq Entry
<1>1. \A j \in 1..Len(s) : s[j] \in Entry
  BY LenProperties
<1> QED
  BY <1>1, InChain DEF Holds

\* A chain of distinct keys has one entry of a key at most.
LEMMA ChainUnique ==
    ASSUME NEW s \in Seq(Entry), Distinct(s),
           NEW e1 \in ToSet(s), NEW e2 \in ToSet(s), e1.key = e2.key
    PROVE  e1 = e2
<1>1. PICK i \in 1..Len(s) : s[i] = e1
  BY InChain
<1>2. PICK j \in 1..Len(s) : s[j] = e2
  BY InChain
<1> QED
  BY <1>1, <1>2 DEF Distinct

\* An entry put at the front of a chain.
LEMMA ConsPairs ==
    ASSUME NEW e \in Entry, NEW s \in Seq(Entry), ~Holds(s, e.key)
    PROVE  ToSet(Cons(e, s)) = Replaced(ToSet(s), e.key, {e})
<1> DEFINE c == Cons(e, s)
<1>1. /\ c \in Seq(Entry)
      /\ Len(c) = Len(s) + 1
      /\ c[1] = e
      /\ \A j \in 1..Len(s) : c[j + 1] = s[j]
      /\ Len(s) \in Nat
  BY ConsFacts, LenProperties
<1> HIDE DEF c
<1>2. \A d \in ToSet(s) : d.key # e.key
  BY ChainKeys
<1>3. ASSUME NEW d
      PROVE  d \in ToSet(c) <=> d = e \/ d \in ToSet(s)
  <2>1. ASSUME d \in ToSet(c) PROVE d = e \/ d \in ToSet(s)
    <3>1. PICK j \in 1..Len(c) : c[j] = d
      BY <1>1, <2>1, InChain
    <3>2. CASE j # 1
      <4>1. j - 1 \in 1..Len(s) /\ (j - 1) + 1 = j
        BY <1>1, <3>2
      <4>2. s[j - 1] = d
        BY <1>1, <3>1, <4>1
      <4> QED
        BY <4>1, <4>2, InChain
    <3> QED
      BY <1>1, <3>1, <3>2
  <2>2. ASSUME d \in ToSet(s) PROVE d \in ToSet(c)
    <3>1. PICK j \in 1..Len(s) : s[j] = d
      BY <2>2, InChain
    <3>2. j + 1 \in 1..Len(c) /\ c[j + 1] = d
      BY <1>1, <3>1
    <3> QED
      BY <1>1, <3>2, InChain
  <2>3. e \in ToSet(c)
    <3>1. 1 \in 1..Len(c)
      BY <1>1
    <3> QED
      BY <1>1, <3>1, InChain
  <2> QED
    BY <2>1, <2>2, <2>3
<1>4. ToSet(c) = Replaced(ToSet(s), e.key, {e})
  BY <1>2, <1>3 DEF Replaced
<1> QED
  BY <1>4 DEF c

\* A chain without its entry at p.
LEMMA RemovePairs ==
    ASSUME NEW s \in Seq(Entry), NEW p \in 1..Len(s), Distinct(s)
    PROVE  ToSet(RemoveAt(s, p)) = Replaced(ToSet(s), s[p].key, {})
<1> DEFINE c == RemoveAt(s, p)
           m == Len(s)
<1>1. /\ c \in Seq(Entry)
      /\ m \in Nat
      /\ Len(c) = m - 1
      /\ \A j \in 1..(m - 1) : c[j] = IF j < p THEN s[j] ELSE s[j + 1]
      /\ p \in 1..m
  BY RemoveFacts, LenProperties
<1>2. \A d : d \in ToSet(c) <=> \E j \in 1..(m - 1) : c[j] = d
  BY <1>1, InChain
<1>3. \A d : d \in ToSet(s) <=> \E j \in 1..m : s[j] = d
  BY InChain
<1>4. \A j \in 1..m : s[j].key = s[p].key => j = p
  BY <1>1 DEF Distinct
<1> HIDE DEF c, m
<1>5. ASSUME NEW d
      PROVE  d \in ToSet(c) <=> d \in ToSet(s) /\ d.key # s[p].key
  <2>1. ASSUME NEW j \in 1..(m - 1), c[j] = d
        PROVE  d \in ToSet(s) /\ d.key # s[p].key
    <3> DEFINE q == IF j < p THEN j ELSE j + 1
    <3>1. q \in 1..m /\ s[q] = d /\ q # p
      BY <1>1, <2>1
    <3> QED
      BY <1>3, <1>4, <3>1
  <2>2. ASSUME NEW j \in 1..m, s[j] = d, d.key # s[p].key
        PROVE  d \in ToSet(c)
    <3> DEFINE q == IF j < p THEN j ELSE j - 1
    <3>1. j # p
      BY <2>2
    <3>2. q \in 1..(m - 1) /\ c[q] = d
      BY <1>1, <2>2, <3>1
    <3> QED
      BY <1>2, <3>2
  <2> QED
    BY <1>2, <1>3, <2>1, <2>2
<1>6. ToSet(c) = Replaced(ToSet(s), s[p].key, {})
  BY <1>5 DEF Replaced
<1> QED
  BY <1>6 DEF c

\* What is left of a chain once its head is taken.
LEMMA TailPairs ==
    ASSUME NEW s \in Seq(Entry), s # <<>>, Distinct(s)
    PROVE  /\ ToSet(Tail(s)) = Replaced(ToSet(s), Head(s).key, {})
           /\ Head(s) \in ToSet(s)
<1>1. /\ Len(s) > 0 /\ Len(s) \in Nat
      /\ Head(s) = s[1]
      /\ Tail(s) \in Seq(Entry)
      /\ Len(Tail(s)) = Len(s) - 1
      /\ \A j \in 1..(Len(s) - 1) : Tail(s)[j] = s[j + 1]
  BY TailFacts, LenProperties
<1>2. 1 \in 1..Len(s)
  BY <1>1
<1>3. /\ RemoveAt(s, 1) \in Seq(Entry)
      /\ Len(RemoveAt(s, 1)) = Len(s) - 1
      /\ \A j \in 1..(Len(s) - 1) : RemoveAt(s, 1)[j] = s[j + 1]
  <2>1. /\ RemoveAt(s, 1) \in Seq(Entry)
        /\ Len(RemoveAt(s, 1)) = Len(s) - 1
        /\ \A j \in 1..(Len(s) - 1) :
              RemoveAt(s, 1)[j] = IF j < 1 THEN s[j] ELSE s[j + 1]
    BY <1>2, RemoveFacts
  <2>2. \A j \in 1..(Len(s) - 1) : ~(j < 1)
    BY <1>1
  <2> QED
    BY <2>1, <2>2
<1>4. RemoveAt(s, 1) = Tail(s)
  BY <1>1, <1>3, SeqEqual
<1>5. Head(s) \in ToSet(s)
  BY <1>1, <1>2, InChain
<1> QED
  BY <1>1, <1>2, <1>4, <1>5, RemovePairs

\* Writing the value of an entry.
LEMMA RewritePairs ==
    ASSUME NEW s \in Seq(Entry), NEW p \in 1..Len(s), NEW v \in Value, Distinct(s)
    PROVE  ToSet([s EXCEPT ![p].value = v]) =
              Replaced(ToSet(s), s[p].key, {[key |-> s[p].key, value |-> v]})
<1> DEFINE c == [s EXCEPT ![p].value = v]
           m == Len(s)
           w == [key |-> s[p].key, value |-> v]
<1>1. /\ m \in Nat
      /\ s \in [1..m -> Entry]
      /\ p \in 1..m
  BY LenProperties
<1>2. c \in Seq(Entry)
  BY RewriteHolds
<1>3. [s[p] EXCEPT !.value = v] = w
  BY <1>1 DEF Entry
<1>4. /\ DOMAIN c = 1..m
      /\ c[p] = w
      /\ \A j \in 1..m : j # p => c[j] = s[j]
  BY <1>1, <1>3
<1>5. \A d : d \in ToSet(c) <=> \E j \in 1..m : c[j] = d
  BY <1>4 DEF ToSet
<1>6. \A d : d \in ToSet(s) <=> \E j \in 1..m : s[j] = d
  BY InChain
<1>7. \A j \in 1..m : s[j].key = s[p].key => j = p
  BY <1>1 DEF Distinct
<1> HIDE DEF c, m, w
<1>8. ToSet(c) = Replaced(ToSet(s), s[p].key, {w})
  BY <1>1, <1>4, <1>5, <1>6, <1>7 DEF Replaced
<1> QED
  BY <1>8 DEF c, w

-----------------------------------------------------------------------------
(* Arrays as sets of entries *)

\* An entry is in an array iff it is in one of its chains.
LEMMA InArray ==
    ASSUME NEW buckets, NEW s, NEW e
    PROVE  e \in PairsOf(buckets, s) <=> \E i \in 0..(s - 1) : e \in ToSet(buckets[i])
  BY DEF PairsOf

\* The keys of an array are the keys of its entries, one entry for each.
LEMMA ArrayKeys ==
    ASSUME NEW s, NEW buckets, TableOK(buckets, s)
    PROVE  /\ PairsOf(buckets, s) \subseteq Entry
           /\ \A e \in PairsOf(buckets, s) : e.key \in KeysOf(buckets, s)
           /\ \A k \in KeysOf(buckets, s) : \E e \in PairsOf(buckets, s) : e.key = k
           /\ \A e1, e2 \in PairsOf(buckets, s) : e1.key = e2.key => e1 = e2
<1>1. \A i \in 0..(s - 1) : buckets[i] \in Seq(Entry) /\ Distinct(buckets[i])
  BY DEF TableOK
<1>2. PairsOf(buckets, s) \subseteq Entry
  BY <1>1, ChainKeys, InArray
<1>3. ASSUME NEW e \in PairsOf(buckets, s)
      PROVE  e.key \in KeysOf(buckets, s)
  <2>1. PICK i \in 0..(s - 1) : e \in ToSet(buckets[i])
    BY InArray
  <2>2. Holds(buckets[i], e.key)
    BY <1>1, <2>1, ChainKeys
  <2>3. e.key \in Key
    BY <1>2 DEF Entry
  <2> QED
    BY <2>2, <2>3 DEF KeysOf
<1>4. ASSUME NEW k \in KeysOf(buckets, s)
      PROVE  \E e \in PairsOf(buckets, s) : e.key = k
  <2>1. PICK i \in 0..(s - 1) : Holds(buckets[i], k)
    BY DEF KeysOf
  <2> QED
    BY <1>1, <2>1, ChainKeys, InArray
<1>5. ASSUME NEW e1 \in PairsOf(buckets, s), NEW e2 \in PairsOf(buckets, s),
             e1.key = e2.key
      PROVE  e1 = e2
  <2>1. PICK i \in 0..(s - 1) : e1 \in ToSet(buckets[i])
    BY InArray
  <2>2. PICK j \in 0..(s - 1) : e2 \in ToSet(buckets[j])
    BY InArray
  <2>3. Holds(buckets[i], e1.key) /\ Holds(buckets[j], e1.key) /\ e1.key \in Key
    BY <1>1, <1>2, <1>5, <2>1, <2>2, ChainKeys DEF Entry
  <2>4. i = j
    BY <2>3 DEF TableOK
  <2> QED
    BY <1>1, <1>5, <2>1, <2>2, <2>4, ChainUnique
<1> QED
  BY <1>2, <1>3, <1>4, <1>5

\* As many entries as keys.
LEMMA ArrayCount ==
    ASSUME NEW s, NEW buckets, TableOK(buckets, s), IsFiniteSet(KeysOf(buckets, s))
    PROVE  /\ IsFiniteSet(PairsOf(buckets, s))
           /\ Cardinality(PairsOf(buckets, s)) = Cardinality(KeysOf(buckets, s))
<1> DEFINE K == KeysOf(buckets, s)
           P == PairsOf(buckets, s)
           f == [k \in K |-> CHOOSE e \in P : e.key = k]
<1>1. /\ \A e \in P : e.key \in K
      /\ \A k \in K : \E e \in P : e.key = k
      /\ \A e1, e2 \in P : e1.key = e2.key => e1 = e2
  BY ArrayKeys
<1> HIDE DEF K, P
<1>2. \A k \in K : f[k] \in P /\ f[k].key = k
  BY <1>1
<1>3. \A e \in P : f[e.key] = e
  BY <1>1, <1>2
<1>4. f \in [K -> P]
  BY <1>2
<1> HIDE DEF f
<1>5. f \in Bijection(K, P)
  BY <1>1, <1>2, <1>3, <1>4 DEF Bijection, Injection, Surjection, IsInjective
<1>6. ExistsBijection(K, P)
  BY <1>5 DEF ExistsBijection
<1>7. IsFiniteSet(P) /\ Cardinality(P) = Cardinality(K)
  BY <1>6, FS_Bijection DEF K
<1> QED
  BY <1>7 DEF K, P

\* An array whose chain of the key x is replaced.
LEMMA ArrayReplaced ==
    ASSUME NEW s, NEW buckets, TableOK(buckets, s), NEW x \in Key,
           NEW i \in 0..(s - 1), Bucket(x, s) = i, NEW c, NEW N,
           ToSet(c) = Replaced(ToSet(buckets[i]), x, N)
    PROVE  PairsOf([buckets EXCEPT ![i] = c], s) = Replaced(PairsOf(buckets, s), x, N)
<1> DEFINE new == [buckets EXCEPT ![i] = c]
<1>1. /\ new[i] = c
      /\ \A h \in 0..(s - 1) : h # i => new[h] = buckets[h]
  BY DEF TableOK
<1>2. ASSUME NEW h \in 0..(s - 1), h # i, NEW e \in ToSet(buckets[h])
      PROVE  e.key # x
  <2>1. buckets[h] \in Seq(Entry)
    BY DEF TableOK
  <2>2. Holds(buckets[h], e.key)
    BY <2>1, ChainKeys
  <2> QED
    BY <1>2, <2>2 DEF TableOK
<1> HIDE DEF new
<1>3. ASSUME NEW e
      PROVE  e \in PairsOf(new, s) <=> e \in Replaced(PairsOf(buckets, s), x, N)
  <2>1. \A h \in 0..(s - 1) : e \in ToSet(new[h]) <=>
           \/ h # i /\ e \in ToSet(buckets[h])
           \/ h = i /\ e \in ToSet(buckets[i]) /\ e.key # x
           \/ h = i /\ e \in N
    BY <1>1 DEF Replaced
  <2>2. (\E h \in 0..(s - 1) : e \in ToSet(new[h])) <=>
           \/ e.key # x /\ \E h \in 0..(s - 1) : e \in ToSet(buckets[h])
           \/ e \in N
    BY <1>2, <2>1
  <2> QED
    BY <2>2, InArray DEF Replaced
<1>4. PairsOf(new, s) = Replaced(PairsOf(buckets, s), x, N)
  BY <1>3
<1> QED
  BY <1>4 DEF new

\* A zeroed array, or none, has no entry.
LEMMA FreshPairs ==
    ASSUME NEW s
    PROVE  PairsOf(FreshTable(s), s) = {}
<1>1. ToSet(<<>>) = {}
  BY EmptySeq DEF ToSet
<1> QED
  BY <1>1 DEF PairsOf, FreshTable

\* The entries of the dictionary are those of its two arrays.
LEMMA PairsSplit == Pairs = PairsOf(table[0], size[0]) \cup PairsOf(table[1], size[1])
  BY DEF Pairs, PairsOf

-----------------------------------------------------------------------------
(* The dictionary as a set of entries *)

\* The entries are those of the keys, one for each, and used counts them.
LEMMA PairsFacts ==
    ASSUME IInv, pc # "dangling"
    PROVE  /\ Pairs \subseteq Entry
           /\ \A k \in Key :
                 (\E e \in Pairs : e.key = k) <=> k \in KeysIn(0) \/ k \in KeysIn(1)
           /\ \A e1, e2 \in Pairs : e1.key = e2.key => e1 = e2
           /\ IsFiniteSet(Pairs)
           /\ Cardinality(Pairs) = used[0] + used[1]
<1> DEFINE P(t) == PairsOf(table[t], size[t])
<1>1. HeapGood(table, size, used)
  BY DEF IInv, HeapOK
<1>2. /\ TableOK(table[0], size[0]) /\ TableOK(table[1], size[1])
      /\ IsFiniteSet(KeysIn(0)) /\ used[0] = Cardinality(KeysIn(0))
      /\ IsFiniteSet(KeysIn(1)) /\ used[1] = Cardinality(KeysIn(1))
      /\ KeysIn(0) \cap KeysIn(1) = {}
  BY <1>1 DEF HeapGood, KeysIn
<1>3. \A t \in {0, 1} :
         /\ P(t) \subseteq Entry
         /\ \A e \in P(t) : e.key \in KeysIn(t)
         /\ \A k \in KeysIn(t) : \E e \in P(t) : e.key = k
         /\ \A e1, e2 \in P(t) : e1.key = e2.key => e1 = e2
         /\ IsFiniteSet(P(t)) /\ Cardinality(P(t)) = Cardinality(KeysIn(t))
  BY <1>2, ArrayKeys, ArrayCount DEF KeysIn
<1>4. Pairs = P(0) \cup P(1)
  BY PairsSplit
<1> HIDE DEF P
<1>5. P(0) \cap P(1) = {}
  BY <1>2, <1>3
<1>6. IsFiniteSet(Pairs) /\ Cardinality(Pairs) = used[0] + used[1]
  <2>1. /\ IsFiniteSet(P(0) \cup P(1))
        /\ Cardinality(P(0) \cup P(1)) =
              Cardinality(P(0)) + Cardinality(P(1)) - Cardinality({})
    BY <1>3, <1>5, FS_Union
  <2>2. Cardinality(P(0)) \in Nat /\ Cardinality(P(1)) \in Nat
    BY <1>3, FS_CardinalityType
  <2> QED
    BY <1>2, <1>3, <1>4, <2>1, <2>2, FS_EmptySet
<1> QED
  BY <1>2, <1>3, <1>4, <1>6

\* A dictionary without an array for ht[0] has none for ht[1] and no entry.
LEMMA NotBacked ==
    ASSUME IInv, ~Backed
    PROVE  Pairs = {} /\ size[1] = 0 /\ used[0] \in Nat /\ used[1] = 0
<1>1. size[0] = 0 /\ size[1] = 0 /\ used[1] = 0 /\ used[0] \in Nat
  BY TypeFacts DEF IInv, RehashFrontier, Backed
<1>2. Pairs = {}
  BY <1>1 DEF Pairs
<1> QED
  BY <1>1, <1>2

\* What the search of a chain finds is what the dictionary stores.
LEMMA SearchPairs ==
    ASSUME IInv, pc # "dangling", Backed, NEW k \in Key
    PROVE  /\ Stored(k) <=> \E e \in Pairs : e.key = k
           /\ \A t \in Searched : \A j \in 1..Len(Chain(k, t)) :
                 Chain(k, t)[j] \in Pairs
<1>1. size[0] # 0
  BY DEF Backed
<1>2. \A t \in Searched : k \in KeysIn(t) <=> Holds(Chain(k, t), k)
  BY <1>1, SearchedFacts
<1>3. Stored(k) => k \in KeysIn(0) \/ k \in KeysIn(1)
  BY <1>2 DEF Stored, Searched
<1>4. ~Stored(k) => k \notin KeysIn(0) /\ k \notin KeysIn(1)
  BY <1>1, NotStored
<1>5. ASSUME NEW t \in Searched, NEW j \in 1..Len(Chain(k, t))
      PROVE  Chain(k, t)[j] \in Pairs
  <2>1. /\ t \in {0, 1}
        /\ Bucket(k, size[t]) \in 0..(size[t] - 1)
        /\ Chain(k, t) \in Seq(Entry)
        /\ Chain(k, t) = table[t][Bucket(k, size[t])]
    BY <1>1, SearchedFacts
  <2>2. Chain(k, t)[j] \in ToSet(table[t][Bucket(k, size[t])])
    BY <2>1, InChain
  <2>3. Chain(k, t)[j] \in PairsOf(table[t], size[t])
    BY <2>1, <2>2, InArray
  <2> QED
    BY <2>1, <2>3, PairsSplit
<1> QED
  BY <1>3, <1>4, <1>5, PairsFacts

\* The chain i of array t, the chain of the key x, becomes c; x is not in the
\* other array.
Swaps(t, u, i, x, c, N) ==
    /\ t \in {0, 1} /\ u \in {0, 1} \ {t}
    /\ i \in 0..(size[t] - 1)
    /\ x \in Key /\ Bucket(x, size[t]) = i /\ x \notin KeysIn(u)
    /\ ToSet(c) = Replaced(ToSet(table[t][i]), x, N)
    /\ table' = [table EXCEPT ![t][i] = c] /\ size' = size

\* Replacing a chain changes the entries of its key and no other.
LEMMA ChainReplaced ==
    ASSUME IInv, pc # "dangling", NEW t, NEW u, NEW i, NEW x, NEW c, NEW N,
           Swaps(t, u, i, x, c, N)
    PROVE  Pairs' = Replaced(Pairs, x, N)
<1> USE DEF Swaps
<1>1. HeapGood(table, size, used) /\ DOMAIN table = {0, 1}
  BY DEF IInv, HeapOK, TypeOK
<1>2. TableOK(table[t], size[t]) /\ TableOK(table[u], size[u])
  BY <1>1 DEF HeapGood
<1>3. /\ table'[t] = [table[t] EXCEPT ![i] = c]
      /\ table'[u] = table[u]
  BY <1>1
<1>4. PairsOf(table'[t], size[t]) = Replaced(PairsOf(table[t], size[t]), x, N)
  BY <1>2, <1>3, ArrayReplaced
<1>5. \A e \in PairsOf(table[u], size[u]) : e.key # x
  BY <1>2, ArrayKeys DEF KeysIn
<1>6. /\ Pairs = PairsOf(table[t], size[t]) \cup PairsOf(table[u], size[u])
      /\ Pairs' = PairsOf(table'[t], size[t]) \cup PairsOf(table'[u], size[u])
  BY PairsSplit DEF Pairs, PairsOf
<1> QED
  BY <1>3, <1>4, <1>5, <1>6 DEF Replaced

-----------------------------------------------------------------------------
(* The steps the caller does not see *)

\* The end of a rehash: nothing is left in ht[0].
LEMMA RehashDonePairs ==
    ASSUME IInv, RehashDone
    PROVE  Pairs' = Pairs /\ Backed' = Backed
<1>1. /\ pc = "rehash" /\ used[0] = 0
      /\ table'[0] = table[1] /\ table'[1] = FreshTable(0)
      /\ size'[0] = size[1] /\ size'[1] = 0
  BY DEF RehashDone, SwapTables
<1>2. /\ TableOK(table[0], size[0])
      /\ IsFiniteSet(KeysOf(table[0], size[0]))
      /\ Cardinality(KeysOf(table[0], size[0])) = 0
  BY <1>1 DEF IInv, HeapOK, HeapGood
<1>3. KeysOf(table[0], size[0]) = {}
  BY <1>2, FS_EmptySet
<1>4. PairsOf(table[0], size[0]) = {}
  BY <1>2, <1>3, ArrayKeys
<1>5. PairsOf(table'[1], size'[1]) = {}
  BY <1>1, FreshPairs
<1>6. Pairs' = PairsOf(table'[0], size'[0]) \cup PairsOf(table'[1], size'[1])
  BY DEF Pairs, PairsOf
<1>7. Backed' = Backed
  <2>1. Rehashing
    BY <1>1 DEF IInv, Control
  <2>2. size[0] # 0 <=> size[1] # 0
    BY <2>1 DEF IInv, RehashFrontier
  <2> QED
    BY <1>1, <2>2 DEF Backed
<1> QED
  BY <1>1, <1>4, <1>5, <1>6, <1>7, PairsSplit

\* Moving an entry takes it out of one array and puts it into the other.
LEMMA MoveEntryPairs ==
    ASSUME IInv, MoveEntry
    PROVE  Pairs' = Pairs
<1> DEFINE chain == table[0][rehashidx]
           e == Head(chain)
           b == Bucket(e.key, size[1])
           rest == Tail(chain)
           front == Cons(e, table[1][b])
<1>1. /\ pc = "move" /\ chain # <<>> /\ size' = size
      /\ table' = [table EXCEPT ![0][rehashidx] = Tail(@), ![1][b] = Cons(e, @)]
  BY DEF MoveEntry, AtEntry, Relink, MovedKey
<1>2. /\ HeapGood(table, size, used)
      /\ rehashidx \in 0..(size[0] - 1)
      /\ size[1] \in Nat \ {0}
      /\ DOMAIN table = {0, 1}
  BY <1>1, TableSizesAssumption
     DEF IInv, HeapOK, Control, TypeOK, Rehashing, RehashFrontier
<1>3. /\ TableOK(table[0], size[0]) /\ TableOK(table[1], size[1])
      /\ KeysIn(0) \cap KeysIn(1) = {}
      /\ chain \in Seq(Entry) /\ Distinct(chain)
      /\ table[0] \in [0..(size[0] - 1) -> Seq(Entry)]
      /\ table[1] \in [0..(size[1] - 1) -> Seq(Entry)]
  BY <1>2 DEF HeapGood, TableOK, KeysIn
<1>4. /\ e \in Entry /\ e \in ToSet(chain)
      /\ ToSet(rest) = Replaced(ToSet(chain), e.key, {})
  BY <1>1, <1>3, TailFacts, TailPairs
<1>5. e.key \in Key /\ b \in 0..(size[1] - 1)
  BY <1>2, <1>4, BucketRange DEF Entry
<1>6. e \in PairsOf(table[0], size[0])
  BY <1>2, <1>4, InArray
<1>7. e.key \in KeysIn(0) /\ e.key \notin KeysIn(1)
  BY <1>3, <1>6, ArrayKeys DEF KeysIn
<1>8. Bucket(e.key, size[0]) = rehashidx
  <2>1. Holds(table[0][rehashidx], e.key)
    BY <1>3, <1>4, ChainKeys
  <2> HIDE DEF e
  <2> QED
    BY <1>2, <1>3, <1>5, <2>1 DEF TableOK
<1>9. /\ table[1][b] \in Seq(Entry)
      /\ ~Holds(table[1][b], e.key)
  BY <1>3, <1>5, <1>7 DEF KeysIn, KeysOf
<1>10. ToSet(front) = Replaced(ToSet(table[1][b]), e.key, {e})
  BY <1>4, <1>9, ConsPairs
<1>11. table' = [table EXCEPT ![0][rehashidx] = rest, ![1][b] = front]
  BY <1>1
<1>12. Bucket(e.key, size[1]) = b
  OBVIOUS
<1> HIDE DEF rest, front, b
<1>13. /\ table'[0] = [table[0] EXCEPT ![rehashidx] = rest]
       /\ table'[1] = [table[1] EXCEPT ![b] = front]
  BY <1>2, <1>11
<1>14. /\ PairsOf(table'[0], size[0]) = Replaced(PairsOf(table[0], size[0]), e.key, {})
       /\ PairsOf(table'[1], size[1]) = Replaced(PairsOf(table[1], size[1]), e.key, {e})
  <2> HIDE DEF e
  <2>1. PairsOf(table'[0], size[0]) = Replaced(PairsOf(table[0], size[0]), e.key, {})
    BY <1>2, <1>3, <1>4, <1>5, <1>8, <1>13, ArrayReplaced
  <2>2. PairsOf(table'[1], size[1]) = Replaced(PairsOf(table[1], size[1]), e.key, {e})
    BY <1>3, <1>5, <1>10, <1>12, <1>13, ArrayReplaced
  <2> QED
    BY <2>1, <2>2
<1>15. Pairs' = PairsOf(table'[0], size[0]) \cup PairsOf(table'[1], size[1])
  BY <1>1 DEF Pairs, PairsOf
<1>16. \A d \in PairsOf(table[0], size[0]) : d.key = e.key => d = e
  BY <1>3, <1>6, ArrayKeys
<1>17. \A d \in PairsOf(table[1], size[1]) : d.key # e.key
  BY <1>3, <1>7, ArrayKeys DEF KeysIn
<1> HIDE DEF e
<1> QED
  BY <1>6, <1>14, <1>15, <1>16, <1>17, PairsSplit DEF Replaced

\* dictExpand adds an array without entries, or gives a cleared dictionary one.
LEMMA ExpandPairs ==
    ASSUME IInv, ~Rehashing, NEW s, Expand(s)
    PROVE  Pairs' = Pairs /\ Backed'
<1> DEFINE t == IF size[0] = 0 THEN 0 ELSE 1
<1>1. PICK p \in TableSizes :
          /\ table' = [table EXCEPT ![t] = FreshTable(p)]
          /\ size' = [size EXCEPT ![t] = p]
  BY DEF Expand
<1>2. /\ p \in Nat /\ p # 0 /\ DOMAIN table = {0, 1} /\ size \in [{0, 1} -> Nat]
      /\ size[1] = 0
  BY TypeFacts, TableSizesAssumption DEF IInv, RehashFrontier
<1>3. Pairs' = PairsOf(table'[0], size'[0]) \cup PairsOf(table'[1], size'[1])
  BY DEF Pairs, PairsOf
<1>4. \A buckets : PairsOf(buckets, 0) = {}
  BY DEF PairsOf
<1>5. PairsOf(FreshTable(p), p) = {}
  BY FreshPairs
<1>6. CASE size[0] = 0
  BY <1>1, <1>2, <1>3, <1>4, <1>5, <1>6, PairsSplit DEF Backed
<1>7. CASE size[0] # 0
  BY <1>1, <1>2, <1>3, <1>4, <1>5, <1>7, PairsSplit DEF Backed
<1> QED
  BY <1>6, <1>7

\* What a step that is not the caller's keeps.
Unseen == Pairs' = Pairs /\ Backed' = Backed /\ call' = call /\ ret' = ret

\* dictRehash, whole, is invisible; so is an expansion.
LEMMA UnseenSteps ==
    ASSUME IInv, IInv',
           \/ RehashPause \/ RehashDone \/ RehashBucket \/ MoveEntry
           \/ BucketDone \/ ExpandIfNeeded
    PROVE  Unseen /\ pc \in Running /\ pc' \in Running
<1>1. CASE RehashPause
  BY <1>1 DEF RehashPause, Unseen, Pairs, Backed, Running, IInv, Control, TypeOK
<1>2. CASE RehashDone
  <2>1. call' = call /\ ret' = ret /\ pc = "rehash" /\ pc' = cont
    BY <1>2 DEF RehashDone, SwapTables
  <2> QED
    BY <1>2, <2>1, RehashDonePairs DEF Unseen, Running, IInv, Control, TypeOK
<1>3. CASE RehashBucket
  BY <1>3 DEF RehashBucket, Unseen, Pairs, Backed, Running, IInv, NoOverrun
<1>4. CASE MoveEntry
  <2>1. UNCHANGED <<size, pc, call, ret>> /\ pc = "move"
    BY <1>4 DEF MoveEntry, AtEntry, Relink
  <2> QED
    BY <1>4, <2>1, MoveEntryPairs DEF Unseen, Backed, Running
<1>5. CASE BucketDone
  BY <1>5 DEF BucketDone, Unseen, Pairs, Backed, Running
<1>6. CASE ExpandIfNeeded
  <2>1. pc = "expand" /\ pc' = "insert" /\ call' = call /\ ret' = ret
    BY <1>6 DEF ExpandIfNeeded
  <2>2. CASE UNCHANGED <<table, size, used, rehashidx>>
    BY <2>1, <2>2 DEF Unseen, Pairs, Backed, Running
  <2>3. CASE NeedsExpand /\ Expand(used[0] * 2)
    <3>1. ~Rehashing /\ used[0] > size[0]
      BY <2>3 DEF NeedsExpand
    <3>2. size[0] # 0
      <4> SUFFICES ASSUME size[0] = 0 PROVE FALSE
        OBVIOUS
      <4>1. used[0] = Cardinality(KeysOf(table[0], size[0]))
        BY <2>1 DEF IInv, HeapOK, HeapGood
      <4>2. KeysOf(table[0], size[0]) = {}
        BY DEF KeysOf
      <4> QED
        BY <3>1, <4>1, <4>2, FS_EmptySet
    <3> QED
      BY <2>1, <2>3, <3>1, <3>2, ExpandPairs DEF Unseen, Running, Backed
  <2> QED
    BY <1>6, <2>2, <2>3 DEF ExpandIfNeeded
<1> QED
  BY <1>1, <1>2, <1>3, <1>4, <1>5, <1>6

-----------------------------------------------------------------------------
(* The steps of the abstract map *)

\* The phase the caller sees.
LEMMA PhaseFacts ==
    ASSUME pc \in {"idle"} \cup Running \cup Stopped
    PROVE  /\ Phase = "idle" <=> pc = "idle"
           /\ Phase = "busy" <=> pc \in Running
           /\ Phase = "released" <=> pc = "released"
           /\ Phase = "undefined" <=> pc \in Faults
  BY DEF Phase, Running, Stopped, Faults

\* The key a rewrite goes back for with dictFind is stored, so that the write
\* through the entry it finds has an entry.
Hits ==
    call.op = "rewrite" /\ At \in {"sized", "search"} =>
        \E e \in Pairs : e.key = call.key

\* A call is in the middle of its work.
LEMMA BusyFacts ==
    ASSUME IInv, pc \in Running
    PROVE  /\ pc # "dangling" /\ Phase = "busy"
           /\ At \in {"expand", "insert", "sized", "search", "unlink"}
           /\ call.key \in Key
           /\ call.op \in {"add", "rewrite", "find", "delete"}
           /\ call.op \in {"add", "rewrite"} => call.val \in Value
           /\ At \in {"expand", "insert"} => call.op \in {"add", "rewrite"}
           /\ At \in {"sized", "search"} => call.op \in {"find", "rewrite"}
           /\ At = "unlink" => call.op = "delete"
<1>1. pc # "dangling" /\ At \in {"expand", "insert", "sized", "search", "unlink"}
  BY DEF Running, At, IInv, TypeOK, Control
<1>2. Phase = "busy"
  BY PhaseFacts DEF IInv, TypeOK
<1>3. call # NoCall
  BY <1>1 DEF IInv, Control, NoCall
<1>4. /\ call \in [op : {"add", "rewrite"}, key : Key, val : Value] \cup
                  [op : {"find", "delete"}, key : Key, val : {NULL}]
  BY <1>3 DEF IInv, TypeOK
<1> QED
  BY <1>1, <1>2, <1>4 DEF IInv, Control

\* The two ways a step of the map ends a call.
Returned(r) == call' = NoCall /\ ret' = r /\ Backed' = Backed /\ Phase' = "idle"
\* A return that leaves the counters is one of them.
LEMMA ReturnFacts ==
    ASSUME NEW r, Return(r), size' = size
    PROVE  Returned(r) /\ pc' = "idle"
  BY DEF Return, Returned, Backed, Phase, Faults

\* dictAdd and dictRewrite of a new key.
LEMMA InsertNewStep ==
    ASSUME IInv, InsertNew
    PROVE  Map!Next
<1> DEFINE t == InsertTable
           u == IF Rehashing THEN 0 ELSE 1
           x == call.key
           e == [key |-> call.key, value |-> call.val]
           b == Bucket(x, size[t])
           c == Cons(e, table[t][b])
<1>1. /\ pc = "insert" /\ \A a \in Searched : size[a] # 0
      /\ ~Stored(x)
      /\ table' = [table EXCEPT ![t][b] = Cons(e, @)]
      /\ Return(DICT_OK) /\ size' = size
  BY DEF InsertNew
<1>2. /\ pc # "dangling" /\ Phase = "busy" /\ x \in Key /\ call.val \in Value
      /\ call.op \in {"add", "rewrite"}
  BY <1>1, BusyFacts DEF Running, At
<1>3. Backed /\ size[0] # 0 /\ t \in Searched /\ t \in {0, 1} /\ u \in {0, 1} \ {t}
  BY <1>1 DEF Searched, Backed, InsertTable
<1>4. \A d \in Pairs : d.key # x
  BY <1>1, <1>2, <1>3, SearchPairs
<1>5. x \notin KeysIn(0) /\ x \notin KeysIn(1)
  BY <1>2, <1>4, PairsFacts
<1>6. /\ b \in 0..(size[t] - 1)
      /\ table[t][b] \in Seq(Entry)
      /\ ~Holds(table[t][b], x)
  BY <1>2, <1>3, <1>5, SearchedFacts
<1>7. e \in Entry /\ e.key = x
  BY <1>2 DEF Entry
<1>8. ToSet(c) = Replaced(ToSet(table[t][b]), x, {e})
  BY <1>6, <1>7, ConsPairs
<1>9. table' = [table EXCEPT ![t][b] = c] /\ Bucket(x, size[t]) = b
  BY <1>1
<1>10. x \notin KeysIn(u)
  BY <1>3, <1>5
<1>11. Returned(DICT_OK)
  BY <1>1, ReturnFacts
<1> HIDE DEF t, u, x, e, b, c
<1>12. Pairs' = Replaced(Pairs, x, {e})
  <2>1. Swaps(t, u, b, x, c, {e})
    BY <1>1, <1>2, <1>3, <1>6, <1>8, <1>9, <1>10 DEF Swaps
  <2> QED
    BY <1>2, <2>1, ChainReplaced
<1>13. Pairs' = Pairs \cup {e} /\ Map!With(x) = {} /\ Map!Without(x) = Pairs
  BY <1>4, <1>12 DEF Replaced, Map!With, Map!Without
<1>14. Map!Respond(DICT_OK)
  BY <1>11 DEF Map!Respond, Returned, Map!NoCall, NoCall
<1>15. Map!DICT_OK = DICT_OK
  BY DEF Map!DICT_OK, DICT_OK
<1>16. CASE call.op = "add"
  BY <1>2, <1>3, <1>13, <1>14, <1>15, <1>16 DEF Map!Next, Map!Return, Map!Add, x, e
<1>17. CASE call.op = "rewrite"
  BY <1>2, <1>3, <1>13, <1>14, <1>15, <1>17 DEF Map!Next, Map!Return, Map!Rewrite, x, e
<1> QED
  BY <1>2, <1>16, <1>17

\* dictAdd of a key that is there; the rewrite of it goes on.
LEMMA InsertExistingStep ==
    ASSUME IInv, IInv', InsertExisting
    PROVE  /\ Map!Next \/ (Unseen /\ pc' \in Running /\ pc \in Running)
           /\ Hits'
<1>1. /\ pc = "insert" /\ \A a \in Searched : size[a] # 0
      /\ Stored(call.key)
      /\ UNCHANGED <<table, size, used, rehashidx>>
  BY DEF InsertExisting
<1>2. /\ pc # "dangling" /\ Phase = "busy" /\ call.key \in Key
  BY <1>1, BusyFacts DEF Running
<1>3. Backed
  BY <1>1 DEF Searched, Backed
<1>4. \E d \in Pairs : d.key = call.key
  BY <1>1, <1>2, <1>3, SearchPairs
<1>5. Pairs' = Pairs /\ Backed' = Backed
  BY <1>1 DEF Pairs, Backed
<1>6. CASE call.op = "add" /\ Return(DICT_ERROR)
  <2>1. Returned(DICT_ERROR) /\ pc' = "idle"
    BY <1>1, <1>6, ReturnFacts
  <2>2. Map!Respond(DICT_ERROR) /\ Map!DICT_ERROR = DICT_ERROR
    BY <2>1 DEF Map!Respond, Returned, Map!NoCall, NoCall, Map!DICT_ERROR, DICT_ERROR
  <2>3. Map!With(call.key) # {}
    BY <1>4 DEF Map!With
  <2>4. Map!Next
    BY <1>2, <1>3, <1>5, <1>6, <2>2, <2>3 DEF Map!Next, Map!Return, Map!Add
  <2> QED
    <3>1. call'.op = "none"
      BY <2>1 DEF Returned, NoCall
    <3> QED
      BY <2>4, <3>1 DEF Hits
<1>7. CASE call.op = "rewrite" /\ StepRehashThen("sized") /\ UNCHANGED <<call, ret>>
  BY <1>1, <1>4, <1>5, <1>7 DEF StepRehashThen, Unseen, Running, Hits
<1> QED
  BY <1>6, <1>7 DEF InsertExisting

\* The NULL dereference of an insertion after dictClear.
LEMMA InsertFaultStep ==
    ASSUME IInv, InsertFault
    PROVE  Map!Next
<1>1. /\ pc = "insert" /\ \E t \in Searched : size[t] = 0
      /\ pc' = "null_deref"
      /\ UNCHANGED <<table, size, call, ret>>
  BY DEF InsertFault
<1>2. Phase = "busy" /\ call.op \in {"add", "rewrite"}
  BY <1>1, BusyFacts DEF Running, At
<1>3. ~Backed
  BY <1>1 DEF IInv, RehashFrontier, Searched, Backed
<1>4. Phase' = "undefined" /\ Pairs' = Pairs /\ Backed' = Backed
  BY <1>1 DEF Phase, Faults, Pairs, Backed
<1>5. Pairs \in SUBSET Entry /\ Map!Entry = Entry
  BY <1>1, PairsFacts DEF Map!Entry, Entry
<1> QED
  BY <1>1, <1>2, <1>3, <1>4, <1>5 DEF Map!Next, Map!Return, Map!Undefined

\* A dictFind that finds nothing: a rewrite never gets here.
LEMMA FindMissStep ==
    ASSUME IInv, Hits, FindMiss, pc \in {"sized", "search"},
           \A e \in Pairs : e.key # call.key
    PROVE  Map!Next /\ pc' = "idle" /\ call' = NoCall
<1>1. /\ pc \in Running /\ pc # "dangling" /\ Phase = "busy"
      /\ call.op = "find"
  BY BusyFacts DEF Running, At, Hits
<1>2. /\ pc' = "idle" /\ call' = NoCall /\ ret' = NULL
      /\ Pairs' = Pairs /\ Backed' = Backed
  BY <1>1 DEF FindMiss, Pairs, Backed
<1>3. Map!Respond(NULL) /\ Map!With(call.key) = {}
  BY <1>2 DEF Map!Respond, Map!With, Phase, Faults, Map!NoCall, NoCall
<1> QED
  BY <1>1, <1>2, <1>3 DEF Map!Next, Map!Return, Map!Find

\* dictFind's check of ht[0].
LEMMA FindSizedStep ==
    ASSUME IInv, Hits, FindSized
    PROVE  /\ Map!Next \/ (Unseen /\ pc' \in Running /\ pc \in Running)
           /\ Hits'
<1>1. pc = "sized"
  BY DEF FindSized
<1>2. CASE size[0] = 0 /\ FindMiss
  <2>1. \A e \in Pairs : e.key # call.key
    BY <1>2, NotBacked DEF Backed
  <2>2. Map!Next /\ pc' = "idle" /\ call' = NoCall
    BY <1>1, <1>2, <2>1, FindMissStep
  <2> QED
    <3>1. call'.op = "none"
      BY <2>2 DEF NoCall
    <3> QED
      BY <2>2, <3>1 DEF Hits
<1>3. CASE StepRehashThen("search") /\ UNCHANGED <<table, size, used, rehashidx, call, ret>>
  <2>1. Unseen /\ pc' \in Running /\ pc \in Running
    BY <1>1, <1>3 DEF StepRehashThen, Unseen, Pairs, Backed, Running
  <2> QED
    BY <1>1, <1>3, <2>1 DEF Unseen, Hits, At
<1> QED
  BY <1>2, <1>3 DEF FindSized

\* The search of dictFind, and the write of dictRewrite.
LEMMA FindSearchStep ==
    ASSUME IInv, Hits, FindSearch
    PROVE  Map!Next /\ pc' = "idle" /\ call' = NoCall
<1> DEFINE x == call.key
<1>1. /\ pc = "search" /\ Backed /\ size[0] # 0
  BY DEF FindSearch, IInv, Control, At, Backed
<1>2. /\ pc # "dangling" /\ Phase = "busy" /\ x \in Key
      /\ call.op \in {"add", "rewrite"} => call.val \in Value
  BY <1>1, BusyFacts DEF Running
<1>3. CASE ~Stored(x) /\ FindMiss
  BY <1>1, <1>2, <1>3, SearchPairs, FindMissStep
<1>4. ASSUME NEW t \in Searched, NEW j \in 1..Len(Chain(x, t)), FirstHit(x, t, j),
             call.op = "find", Return(Chain(x, t)[j].value),
             UNCHANGED <<table, size>>
      PROVE  Map!Next /\ pc' = "idle" /\ call' = NoCall
  <2> DEFINE e == Chain(x, t)[j]
  <2>1. e.key = x /\ e \in Pairs
    BY <1>1, <1>2, <1>4, HitFacts, SearchPairs
  <2>2. Returned(e.value) /\ pc' = "idle"
    BY <1>4, ReturnFacts
  <2>3. Pairs' = Pairs
    BY <1>4 DEF Pairs
  <2> HIDE DEF e
  <2>4. e \in Map!With(x)
    BY <2>1 DEF Map!With
  <2>5. Map!Respond(e.value)
    BY <2>2 DEF Map!Respond, Returned, Map!NoCall, NoCall
  <2>6. Map!Find
    BY <1>4, <2>3, <2>4, <2>5 DEF Map!Find
  <2> QED
    BY <1>2, <2>2, <2>6 DEF Map!Next, Map!Return, Returned
<1>5. ASSUME NEW t \in Searched, NEW j \in 1..Len(Chain(x, t)), FirstHit(x, t, j),
             call.op = "rewrite", Return(DICT_ERROR),
             table' = [table EXCEPT ![t][Bucket(x, size[t])][j].value = call.val],
             size' = size
      PROVE  Map!Next /\ pc' = "idle" /\ call' = NoCall
  <2> DEFINE b == Bucket(x, size[t])
             old == Chain(x, t)
             c == [old EXCEPT ![j].value = call.val]
             u == IF t = 0 THEN 1 ELSE 0
             e == [key |-> call.key, value |-> call.val]
  <2>1. /\ t \in {0, 1} /\ u \in {0, 1} \ {t}
        /\ b \in 0..(size[t] - 1)
        /\ TableOK(table[t], size[t])
        /\ old \in Seq(Entry) /\ Distinct(old) /\ old = table[t][b]
        /\ x \in KeysIn(t) <=> Holds(old, x)
        /\ DOMAIN table = {0, 1}
        /\ table[t] \in [0..(size[t] - 1) -> Seq(Entry)]
    BY <1>1, <1>2, SearchedFacts DEF IInv, TypeOK
  <2>2. old[j].key = x /\ Holds(old, x)
    BY <1>1, <1>2, <1>5, HitFacts
  <2>3. ToSet(c) = Replaced(ToSet(old), x, {e})
    <3>1. ToSet(c) = Replaced(ToSet(old), old[j].key,
                              {[key |-> old[j].key, value |-> call.val]})
      <4>1. call.val \in Value /\ j \in 1..Len(old)
        BY <1>2, <1>5
      <4> HIDE DEF old
      <4> QED
        BY <2>1, <4>1, RewritePairs
    <3> HIDE DEF c, old
    <3> QED
      BY <2>2, <3>1
  <2>4. table' = [table EXCEPT ![t][b] = c] /\ Bucket(x, size[t]) = b
    BY <1>5, <2>1
  <2>5. x \notin KeysIn(u)
    <3>1. KeysIn(0) \cap KeysIn(1) = {}
      BY <1>2 DEF IInv, HeapOK, HeapGood, KeysIn
    <3> QED
      BY <2>1, <2>2, <3>1
  <2>6. Map!With(x) # {}
    <3>1. old[j] \in Pairs
      BY <1>1, <1>2, <1>5, SearchPairs
    <3> QED
      BY <2>2, <3>1 DEF Map!With
  <2>7. Returned(DICT_ERROR) /\ pc' = "idle"
    BY <1>5, ReturnFacts
  <2> HIDE DEF b, c, u, old, e
  <2>8. Pairs' = Replaced(Pairs, x, {e})
    <3>1. Swaps(t, u, b, x, c, {e})
      BY <1>2, <1>5, <2>1, <2>3, <2>4, <2>5 DEF Swaps
    <3> QED
      BY <1>2, <3>1, ChainReplaced
  <2>9. Map!Respond(DICT_ERROR) /\ Map!DICT_ERROR = DICT_ERROR
    BY <2>7 DEF Map!Respond, Returned, Map!NoCall, NoCall, Map!DICT_ERROR, DICT_ERROR
  <2>10. Pairs' = Map!Without(x) \cup {e}
    BY <2>8 DEF Replaced, Map!Without
  <2>11. Map!Rewrite
    BY <1>1, <1>5, <2>6, <2>9, <2>10 DEF Map!Rewrite, e
  <2> QED
    BY <1>2, <2>7, <2>11 DEF Map!Next, Map!Return, Returned
<1>6. \/ ~Stored(x) /\ FindMiss
      \/ \E t \in Searched : \E j \in 1..Len(Chain(x, t)) :
            /\ FirstHit(x, t, j)
            /\ \/ /\ call.op = "find"
                  /\ Return(Chain(x, t)[j].value)
                  /\ UNCHANGED table
               \/ /\ call.op = "rewrite"
                  /\ table' = [table EXCEPT
                        ![t][Bucket(x, size[t])][j].value = call.val]
                  /\ Return(DICT_ERROR)
            /\ UNCHANGED <<size, used, rehashidx>>
  BY DEF FindSearch
<1> QED
  BY <1>3, <1>4, <1>5, <1>6

\* dictDelete, whatever its search finds.
LEMMA UnlinkStep ==
    ASSUME IInv, IInv', Unlink
    PROVE  Map!Next /\ pc' \in {"idle", "dangling"}
<1> DEFINE x == call.key
<1>1. pc = "unlink" /\ size' = size
  BY DEF Unlink
<1>2. pc # "dangling" /\ Phase = "busy" /\ x \in Key /\ call.op = "delete"
  BY <1>1, BusyFacts DEF Running, At
<1>3. Map!DICT_OK = DICT_OK /\ Map!DICT_ERROR = DICT_ERROR /\ Map!Entry = Entry
  BY DEF Map!DICT_OK, DICT_OK, Map!DICT_ERROR, DICT_ERROR, Map!Entry, Entry
<1>4. CASE DeleteMiss
  <2>1. Pairs' = Pairs /\ Returned(DICT_ERROR) /\ pc' = "idle"
    BY <1>1, <1>4, ReturnFacts DEF DeleteMiss, Pairs
  <2>2. \A d \in Pairs : d.key # x
    BY <1>2, <1>4, SearchPairs, NotBacked DEF DeleteMiss, Backed
  <2>3. Map!With(x) = {} /\ Map!Without(x) = Pairs
    BY <2>2 DEF Map!With, Map!Without
  <2>4. Map!Respond(DICT_ERROR)
    BY <2>1 DEF Map!Respond, Returned, Map!NoCall, NoCall
  <2> QED
    BY <1>2, <1>3, <2>1, <2>3, <2>4 DEF Map!Next, Map!Return, Map!Delete, Returned
<1>5. CASE size[0] # 0 /\ DeleteFound
  <2>a. PICK t \in Searched : \E j \in 1..Len(Chain(x, t)) :
          /\ FirstHit(x, t, j)
          /\ table' = [table EXCEPT ![t][Bucket(x, size[t])] = RemoveAt(@, j)]
          /\ Return(DICT_OK)
    BY <1>5 DEF DeleteFound
  <2>1. PICK j \in 1..Len(Chain(x, t)) :
          /\ FirstHit(x, t, j)
          /\ table' = [table EXCEPT ![t][Bucket(x, size[t])] = RemoveAt(@, j)]
          /\ Return(DICT_OK)
    BY <2>a
  <2> DEFINE b == Bucket(x, size[t])
             old == Chain(x, t)
             c == RemoveAt(old, j)
             u == IF t = 0 THEN 1 ELSE 0
  <2>2. /\ t \in {0, 1} /\ u \in {0, 1} \ {t}
        /\ b \in 0..(size[t] - 1)
        /\ old \in Seq(Entry) /\ Distinct(old) /\ old = table[t][b]
        /\ x \in KeysIn(t) <=> Holds(old, x)
    BY <1>2, <1>5, SearchedFacts
  <2>3. old[j].key = x /\ Holds(old, x)
    BY <1>2, <1>5, <2>1, HitFacts
  <2>4. ToSet(c) = Replaced(ToSet(old), x, {})
    BY <2>2, <2>3, RemovePairs
  <2>5. table' = [table EXCEPT ![t][b] = c] /\ Bucket(x, size[t]) = b
    BY <2>1, <2>2
  <2>6. x \notin KeysIn(u)
    <3>1. KeysIn(0) \cap KeysIn(1) = {}
      BY <1>2 DEF IInv, HeapOK, HeapGood, KeysIn
    <3> QED
      BY <2>2, <2>3, <3>1
  <2>7. Map!With(x) # {}
    <3>1. old[j] \in Pairs
      BY <1>2, <1>5, SearchPairs DEF Backed
    <3> QED
      BY <2>3, <3>1 DEF Map!With
  <2>8. Returned(DICT_OK) /\ pc' = "idle"
    BY <1>1, <2>1, ReturnFacts
  <2> HIDE DEF b, c, u, old
  <2>9. Pairs' = Replaced(Pairs, x, {})
    <3>1. Swaps(t, u, b, x, c, {})
      BY <1>1, <1>2, <2>2, <2>4, <2>5, <2>6 DEF Swaps
    <3> QED
      BY <1>2, <3>1, ChainReplaced
  <2>10. Pairs' = Map!Without(x)
    BY <2>9 DEF Replaced, Map!Without
  <2>11. Map!Respond(DICT_OK)
    BY <2>8 DEF Map!Respond, Returned, Map!NoCall, NoCall
  <2> QED
    BY <1>2, <1>3, <2>7, <2>8, <2>10, <2>11 DEF Map!Next, Map!Return, Map!Delete
<1>6. CASE size[0] # 0 /\ DeleteCrossing
  <2>1. /\ FirstHit(x, 1, 1) /\ pc' = "dangling"
        /\ call' = call /\ ret' = ret
    BY <1>6 DEF DeleteCrossing
  <2>2. 1 \in Searched /\ 1 \in 1..Len(Chain(x, 1)) /\ Chain(x, 1)[1].key = x
    BY <1>2, <1>6, <2>1, HitFacts
  <2>3. Map!With(x) # {}
    <3>1. Chain(x, 1)[1] \in Pairs
      BY <1>2, <1>6, <2>2, SearchPairs DEF Backed
    <3> QED
      BY <2>2, <3>1 DEF Map!With
  <2>4. Pairs' \in SUBSET Entry
    <3>1. \A t \in {0, 1} : table'[t] \in [0..(size'[t] - 1) -> Seq(Entry)]
      BY DEF IInv, TypeOK
    <3>2. \A t \in {0, 1} : \A i \in 0..(size'[t] - 1) : ToSet(table'[t][i]) \subseteq Entry
      BY <3>1, ChainKeys
    <3> QED
      BY <3>2 DEF Pairs
  <2>5. Backed' = Backed /\ Phase' = "undefined"
    BY <1>1, <2>1 DEF Backed, Phase, Faults
  <2>6. Map!Undefined
    BY <1>2, <1>3, <2>1, <2>3, <2>4, <2>5 DEF Map!Undefined
  <2> QED
    BY <1>2, <2>1, <2>6 DEF Map!Next, Map!Return
<1> QED
  BY <1>4, <1>5, <1>6 DEF Unlink

-----------------------------------------------------------------------------
(* The refinement *)

\* Entering a call, and the calls that are over at once.
LEMMA CallerStep ==
    ASSUME IInv, IInv', Caller
    PROVE  Map!Next /\ Hits'
<1>1. pc = "idle" /\ Phase = "idle" /\ cont = "idle" /\ pc # "dangling"
  BY PhaseFacts DEF Caller, DictAdd, DictRewrite, DictFind, DictDelete, Invoke,
     DictResize, DictClear, DictSize, DictRelease, IInv, TypeOK, Control
<1>2. Map!DICT_OK = DICT_OK /\ Map!DICT_ERROR = DICT_ERROR
  BY DEF Map!DICT_OK, DICT_OK, Map!DICT_ERROR, DICT_ERROR
<1>3. CASE \/ \E k \in Key, v \in Value : DictAdd(k, v) \/ DictRewrite(k, v)
           \/ \E k \in Key : DictFind(k) \/ DictDelete(k)
  <2>1. PICK k \in Key, v \in Value \cup {NULL} :
          \/ DictAdd(k, v) /\ v \in Value
          \/ DictRewrite(k, v) /\ v \in Value
          \/ DictFind(k)
          \/ DictDelete(k)
    BY <1>3
  <2>2. /\ call' \in Map!Calls /\ ret' = NULL
        /\ UNCHANGED <<table, size, used, rehashidx>>
    BY <2>1 DEF DictAdd, DictRewrite, DictFind, DictDelete, Invoke, Map!Calls
  <2>3. pc' \in Running
    BY <2>1 DEF DictAdd, DictRewrite, DictFind, DictDelete, StepRehashThen, Running
  <2>4. Phase' = "busy"
    BY <2>3 DEF Phase, Running, Faults
  <2>5. Map!Invoke
    BY <1>1, <2>2, <2>4 DEF Map!Invoke, Pairs, Backed
  <2>6. call'.op = "rewrite" => At' = "expand"
    BY <2>1 DEF DictAdd, DictRewrite, DictFind, DictDelete, Invoke, StepRehashThen, At
  <2> QED
    BY <2>5, <2>6 DEF Map!Next, Hits
<1>4. CASE DictResize \/ DictClear \/ DictSize \/ DictRelease
  <2>1. UNCHANGED call /\ pc' \in {"idle", "released"} /\ UNCHANGED cont
    BY <1>1, <1>4 DEF DictResize, DictClear, DictSize, DictRelease
  <2>2. Hits'
    BY <2>1 DEF Hits, At
  <2>3. CASE DictResize
    <3>1. Phase' = "idle"
      BY <1>1, <2>3 DEF DictResize, Phase
    <3>2. CASE MayExpand(ResizeTarget) /\ Expand(ResizeTarget) /\ ret' = DICT_OK
      <4>1. Pairs' = Pairs /\ Backed'
        BY <1>1, <3>2, ExpandPairs DEF MayExpand
      <4> QED
        BY <1>1, <1>2, <2>1, <2>2, <3>1, <3>2, <4>1 DEF Map!Next, Map!Resize
    <3>3. CASE UNCHANGED <<table, size, used, rehashidx>> /\ ret' = DICT_ERROR
      BY <1>1, <1>2, <2>1, <2>2, <3>1, <3>3 DEF Map!Next, Map!Resize, Pairs, Backed
    <3> QED
      BY <2>3, <3>2, <3>3 DEF DictResize
  <2>4. CASE DictClear \/ DictRelease
    <3>1. size' = [t \in {0, 1} |-> 0]
      BY <2>4 DEF DictClear, DictRelease, NoTables
    <3>2. Pairs' = {} /\ ~Backed'
      BY <3>1 DEF Pairs, Backed
    <3>3. CASE DictClear
      <4>1. Phase' = Phase /\ ret' = DICT_OK
        BY <1>1, <3>3 DEF DictClear, Phase
      <4> QED
        BY <1>1, <1>2, <2>1, <2>2, <3>2, <4>1 DEF Map!Next, Map!Clear
    <3>4. CASE DictRelease
      <4>1. Phase' = "released" /\ ret' = ret
        BY <3>4 DEF DictRelease, Phase, Faults
      <4> QED
        BY <1>1, <1>2, <2>1, <2>2, <3>2, <4>1 DEF Map!Next, Map!Release
    <3> QED
      BY <2>4, <3>3, <3>4
  <2>5. CASE DictSize
    <3>1. Phase' = Phase /\ Pairs' = Pairs /\ Backed' = Backed
      BY <2>5 DEF DictSize, Phase, Pairs, Backed
    <3>2. ret' = Cardinality(Pairs)
      BY <1>1, <2>5, PairsFacts DEF DictSize
    <3>3. Cardinality(Pairs) = Map!Cardinality(Pairs)
      BY DEF Cardinality, Map!Cardinality
    <3> QED
      BY <1>1, <2>1, <2>2, <3>1, <3>2, <3>3 DEF Map!Next, Map!Size
  <2> QED
    BY <1>4, <2>3, <2>4, <2>5
<1> QED
  BY <1>3, <1>4 DEF Caller

\* A step the caller does not see leaves the map where it is.
LEMMA UnseenStutters ==
    ASSUME IInv, IInv', Unseen, pc \in Running, pc' \in Running
    PROVE  UNCHANGED Map!vars
<1>1. Phase = "busy" /\ Phase' = "busy"
  BY DEF Phase, Running, Faults
<1> QED
  BY <1>1 DEF Unseen, Map!vars

\* The steps inside a call.
LEMMA CalleeStep ==
    ASSUME IInv, IInv', Hits, Callee
    PROVE  [Map!Next]_(Map!vars) /\ Hits'
<1>1. CASE \/ RehashPause \/ RehashDone \/ RehashBucket \/ MoveEntry
           \/ BucketDone \/ ExpandIfNeeded
  <2>1. Unseen /\ pc \in Running /\ pc' \in Running
    BY <1>1, UnseenSteps
  <2>2. At' = At \/ At' = "insert"
    BY <1>1 DEF At, RehashPause, RehashDone, SwapTables, RehashBucket, MoveEntry,
       AtEntry, Relink, BucketDone, ExpandIfNeeded, IInv, Control, TypeOK, NoOverrun
  <2>3. Hits'
    BY <2>1, <2>2 DEF Hits, Unseen
  <2> QED
    BY <2>1, <2>3, UnseenStutters
<1>2. CASE InsertExisting
  BY <1>2, InsertExistingStep, UnseenStutters
<1>3. CASE FindSized
  BY <1>3, FindSizedStep, UnseenStutters
<1>4. CASE InsertFault
  <2>1. At' = "null_deref"
    BY <1>4 DEF InsertFault, At
  <2> QED
    BY <1>4, <2>1, InsertFaultStep DEF Hits
<1>5. CASE InsertNew \/ FindSearch \/ Unlink
  <2>1. Map!Next /\ pc' \in {"idle", "dangling"}
    BY <1>5, InsertNewStep, FindSearchStep, UnlinkStep DEF InsertNew, Return
  <2>2. At' \in {"idle", "dangling"}
    BY <2>1 DEF At
  <2> QED
    BY <2>1, <2>2 DEF Hits
<1> QED
  BY <1>1, <1>2, <1>3, <1>4, <1>5 DEF Callee

\* Every step keeps the entry of a rewrite where dictFind will look for it.
LEMMA HitsStep ==
    ASSUME IInv, IInv', Hits, [Next]_vars
    PROVE  [Map!Next]_(Map!vars) /\ Hits'
<1>1. CASE UNCHANGED vars
  BY <1>1 DEF vars, Map!vars, Hits, At, Pairs, Backed, Phase
<1> QED
  BY <1>1, CallerStep, CalleeStep DEF Next

\* The hash table, with its two arrays, its chains and its interrupted rehash,
\* is the map of dict.h: whatever is running inside it, a caller sees one
\* atomic operation of DictMap for each call, for every key set, hash, array
\* size and number of rehash steps.
THEOREM TableIsMap == Spec => ImplementsMap
<1>1. Init => Map!Init /\ Hits
  <2> SUFFICES ASSUME Init PROVE Map!Init /\ Hits
    OBVIOUS
  <2>1. Pairs = {}
    <3>1. PairsOf(table[0], size[0]) = {} /\ PairsOf(table[1], size[1]) = {}
      BY FreshPairs DEF Init
    <3> QED
      BY <3>1, PairsSplit
  <2>2. Backed /\ Phase = "idle"
    BY InitialSizeFacts DEF Init, Backed, Phase, Faults
  <2> QED
    BY <2>1, <2>2 DEF Init, Map!Init, Hits, At, Map!NoCall, NoCall
<1>2. IInv /\ IInv' /\ Hits /\ [Next]_vars => [Map!Next]_(Map!vars) /\ Hits'
  BY HitsStep
<1>3. Spec => Map!Spec
  BY <1>1, <1>2, Invariant, PTL DEF Spec, Map!Spec
<1> QED
  BY <1>3 DEF ImplementsMap

-----------------------------------------------------------------------------
(* The iterator *)

\* The entries v has come to, the chain c and the entries A that are still to
\* come make up the dictionary P, and no entry is in two of them.
Progress(v, c, A, P) ==
    /\ v \in Seq(Entry) /\ Len(v) = Cardinality(ToSet(v))
    /\ c \in Seq(Entry) /\ Distinct(c)
    /\ P = ToSet(v) \cup ToSet(c) \cup A
    /\ ToSet(v) \cap ToSet(c) = {}
    /\ ToSet(v) \cap A = {}
    /\ ToSet(c) \cap A = {}

\* The rest of the chain the iterator is in, and the buckets after bucket i of
\* array t with the array after that one.
Rest == IF current = <<>> THEN <<>> ELSE Tail(current)
BucketsFrom(t, i) == UNION {ToSet(table[t][h]) : h \in i..(size[t] - 1)}
Ahead(t, i) ==
    BucketsFrom(t, i) \cup IF t = 0 THEN PairsOf(table[1], size[1]) ELSE {}

ItInv ==
    /\ itpc \in {"none", "next", "done", "null_deref"}
    /\ itpc # "none" => pc = "idle"
    /\ itpc = "next" =>
          /\ itable \in {0, 1} /\ index \in Nat \cup {-1}
          /\ current \in Seq(Entry)
          /\ current # <<>> => following = Tail(current)
          /\ Progress(visited, Rest, Ahead(itable, index + 1), Pairs)
    /\ IterationComplete
    /\ IterationFaultsOnlyWhenCleared

\* A step of the iterator leaves the dictionary alone, so that its invariant
\* holds while one runs.
LEMMA ItKeepsIInv == IInv /\ [ItNext]_allvars => IInv'
<1>1. [ItNext]_allvars => [Next]_vars
  BY DEF ItNext, allvars, GetDictIterator, Iterate, NextBucket, NextFault,
     NextInChain, NextEnd, DictReleaseIterator
<1> QED
  BY <1>1, NextIInv

\* The invariant of Dict holds of the dictionary an iterator walks through.
LEMMA ItInvariant == ItSpec => []IInv
<1>1. ItInit => IInv
  BY InitIInv DEF ItInit
<1> QED
  BY <1>1, ItKeepsIInv, PTL DEF ItSpec

\* Appending an entry to a sequence of entries.
LEMMA AppendPairs ==
    ASSUME NEW v \in Seq(Entry), NEW e \in Entry
    PROVE  /\ Append(v, e) \in Seq(Entry)
           /\ Len(Append(v, e)) = Len(v) + 1
           /\ ToSet(Append(v, e)) = ToSet(v) \cup {e}
<1> DEFINE w == Append(v, e)
<1>1. /\ w \in Seq(Entry) /\ Len(v) \in Nat
      /\ Len(w) = Len(v) + 1
      /\ \A i \in 1..Len(v) : w[i] = v[i]
      /\ w[Len(v) + 1] = e
  BY AppendProperties, LenProperties
<1> HIDE DEF w
<1>2. ASSUME NEW d
      PROVE  d \in ToSet(w) <=> d \in ToSet(v) \/ d = e
  <2>1. d \in ToSet(w) <=> \E i \in 1..Len(w) : w[i] = d
    BY <1>1, InChain
  <2>2. d \in ToSet(v) <=> \E i \in 1..Len(v) : v[i] = d
    BY InChain
  <2>3. \A i : i \in 1..Len(w) <=> i \in 1..Len(v) \/ i = Len(v) + 1
    BY <1>1
  <2> QED
    BY <1>1, <2>1, <2>2, <2>3
<1>3. ToSet(w) = ToSet(v) \cup {e}
  BY <1>2
<1> QED
  BY <1>1, <1>3 DEF w

\* Reaching a chain visits its head and leaves the rest of it to come.
LEMMA ReachProgress ==
    ASSUME NEW c, NEW A, Progress(visited, c, A, Pairs), Reach(c),
           IInv, pc # "dangling"
    PROVE  /\ Progress(visited', Rest', A, Pairs)
           /\ current' \in Seq(Entry)
           /\ current' # <<>> => following' = Tail(current')
<1>1. CASE c = <<>>
  <2>1. visited' = visited /\ current' = <<>> /\ Rest' = <<>>
    BY <1>1 DEF Reach, Rest
  <2> QED
    BY <1>1, <2>1 DEF Progress
<1>2. CASE c # <<>>
  <2> DEFINE V == ToSet(visited)
             C == ToSet(c)
             e == Head(c)
             T == ToSet(Tail(c))
  <2>1. /\ visited \in Seq(Entry) /\ Len(visited) = Cardinality(V)
        /\ c \in Seq(Entry) /\ Distinct(c)
        /\ Pairs = V \cup C \cup A
        /\ V \cap C = {} /\ V \cap A = {} /\ C \cap A = {}
    BY DEF Progress
  <2>2. /\ e \in Entry /\ e \in C
        /\ Tail(c) \in Seq(Entry) /\ Distinct(Tail(c))
        /\ T = Replaced(C, e.key, {})
    BY <1>2, <2>1, TailFacts, TailHolds, TailPairs
  <2>3. \A d \in C : d.key = e.key => d = e
    BY <2>1, <2>2, ChainUnique
  <2>4. /\ IsFiniteSet(Pairs) /\ Cardinality(Pairs) = used[0] + used[1]
        /\ used[0] \in Nat /\ used[1] \in Nat
    BY PairsFacts, TypeFacts DEF IInv
  <2>5. IsFiniteSet(V) /\ Cardinality(V) <= Cardinality(Pairs)
    BY <2>1, <2>4, FS_Subset
  <2>6. Len(visited) # VisitBound
    <3>1. Cardinality(V) \in Nat
      BY <2>5, FS_CardinalityType
    <3> QED
      BY <2>1, <2>4, <2>5, <3>1 DEF VisitBound
  <2>7. visited' = Append(visited, e) /\ current' = c /\ following' = Tail(c)
    BY <1>2, <2>6 DEF Reach
  <2>8. Rest' = Tail(c)
    BY <1>2, <2>7 DEF Rest
  <2>9. /\ visited' \in Seq(Entry) /\ Len(visited') = Len(visited) + 1
        /\ ToSet(visited') = V \cup {e}
    BY <2>1, <2>2, <2>7, AppendPairs
  <2> HIDE DEF V, C, T, e
  <2>10. T = C \ {e}
    BY <2>2, <2>3 DEF Replaced
  <2>11. Len(visited') = Cardinality(V \cup {e})
    BY <2>1, <2>2, <2>5, <2>9, FS_AddElement
  <2>12. /\ Pairs = ToSet(visited') \cup T \cup A
         /\ ToSet(visited') \cap T = {} /\ ToSet(visited') \cap A = {}
         /\ T \cap A = {}
    BY <2>1, <2>2, <2>9, <2>10
  <2> QED
    BY <1>2, <2>1, <2>2, <2>7, <2>8, <2>9, <2>11, <2>12 DEF Progress, T
<1> QED
  BY <1>1, <1>2

\* The entries of different chains are different.
LEMMA ChainsApart ==
    ASSUME IInv, pc # "dangling",
           NEW t \in {0, 1}, NEW i \in 0..(size[t] - 1), NEW e \in ToSet(table[t][i]),
           NEW u \in {0, 1}, NEW h \in 0..(size[u] - 1), e \in ToSet(table[u][h])
    PROVE  t = u /\ i = h
<1>1. /\ TableOK(table[t], size[t]) /\ TableOK(table[u], size[u])
      /\ KeysIn(0) \cap KeysIn(1) = {}
  BY DEF IInv, HeapOK, HeapGood, KeysIn
<1>2. table[t][i] \in Seq(Entry) /\ table[u][h] \in Seq(Entry)
  BY <1>1 DEF TableOK
<1>3. e \in Entry /\ Holds(table[t][i], e.key) /\ Holds(table[u][h], e.key)
  BY <1>2, ChainKeys
<1>4. e.key \in KeysIn(t) /\ e.key \in KeysIn(u)
  BY <1>3 DEF KeysIn, KeysOf, Entry
<1>5. t = u
  BY <1>1, <1>4
<1>6. Bucket(e.key, size[t]) = i /\ Bucket(e.key, size[u]) = h
  BY <1>1, <1>3 DEF TableOK, Entry
<1> QED
  BY <1>5, <1>6

\* The next bucket is what comes first of what is ahead.
LEMMA NextBucketAhead ==
    ASSUME IInv, pc # "dangling", NEW t \in {0, 1}, NEW i \in 0..(size[t] - 1)
    PROVE  /\ Ahead(t, i) = ToSet(table[t][i]) \cup Ahead(t, i + 1)
           /\ ToSet(table[t][i]) \cap Ahead(t, i + 1) = {}
           /\ table[t][i] \in Seq(Entry) /\ Distinct(table[t][i])
<1>1. size[t] \in Nat /\ TableOK(table[t], size[t])
  BY TypeFacts DEF IInv, HeapOK, HeapGood
<1>2. \A h : h \in i..(size[t] - 1) <=> h = i \/ h \in (i + 1)..(size[t] - 1)
  BY <1>1
<1>3. BucketsFrom(t, i) = ToSet(table[t][i]) \cup BucketsFrom(t, i + 1)
  BY <1>2 DEF BucketsFrom
<1>4. \A h \in (i + 1)..(size[t] - 1) : h \in 0..(size[t] - 1) /\ h # i
  BY <1>1
<1>5. ToSet(table[t][i]) \cap BucketsFrom(t, i + 1) = {}
  <2> SUFFICES ASSUME NEW e \in ToSet(table[t][i]), NEW h \in (i + 1)..(size[t] - 1),
                      e \in ToSet(table[t][h])
               PROVE  FALSE
    BY DEF BucketsFrom
  <2>1. h \in 0..(size[t] - 1) /\ h # i
    BY <1>4
  <2> QED
    BY <2>1, ChainsApart
<1>6. t = 0 => ToSet(table[t][i]) \cap PairsOf(table[1], size[1]) = {}
  BY ChainsApart DEF PairsOf
<1> QED
  BY <1>1, <1>3, <1>5, <1>6 DEF Ahead, TableOK

\* At the end of ht[0], ht[1] is ahead.
LEMMA SecondArrayAhead ==
    ASSUME IInv, NEW i \in Int, i >= size[0]
    PROVE  Ahead(0, i) = Ahead(1, 0)
<1>1. size[0] \in Nat
  BY TypeFacts DEF IInv
<1>2. BucketsFrom(0, i) = {}
  BY <1>1 DEF BucketsFrom
<1> QED
  BY <1>2 DEF Ahead, BucketsFrom, PairsOf

\* At the start, everything is ahead.
LEMMA AllAhead == Ahead(0, 0) = Pairs
  BY PairsSplit DEF Ahead, BucketsFrom, PairsOf

\* Every step of the iterator keeps its invariant.
LEMMA IterateItInv ==
    ASSUME IInv, ItInv, Iterate
    PROVE  ItInv'
<1>1. /\ itpc = "next" /\ pc = "idle" /\ UNCHANGED vars
      /\ itable \in {0, 1} /\ index \in Nat \cup {-1}
      /\ current \in Seq(Entry)
      /\ current # <<>> => following = Tail(current)
      /\ Progress(visited, Rest, Ahead(itable, index + 1), Pairs)
      /\ \A t \in {0, 1} : size[t] \in Nat
  BY TypeFacts DEF Iterate, NextBucket, NextFault, NextInChain, NextEnd, ItInv, IInv
<1>2. /\ pc' = pc /\ Pairs' = Pairs /\ size' = size
      /\ \A t, i : Ahead(t, i)' = Ahead(t, i)
  BY <1>1 DEF vars, Pairs, Ahead, BucketsFrom
<1>3. ASSUME NEW c, NEW t \in {0, 1}, NEW i \in Nat \cup {-1}, Reach(c),
             itpc' = "next", itable' = t, index' = i,
             Progress(visited, c, Ahead(t, i + 1), Pairs)
      PROVE  ItInv'
  <2>1. /\ Progress(visited', Rest', Ahead(t, i + 1), Pairs)
        /\ current' \in Seq(Entry)
        /\ current' # <<>> => following' = Tail(current')
    BY <1>1, <1>3, ReachProgress
  <2>2. Ahead(itable, index + 1)' = Ahead(t, i + 1)
    BY <1>1, <1>3 DEF vars, Ahead, BucketsFrom
  <2> QED
    BY <1>1, <1>2, <1>3, <2>1, <2>2
       DEF ItInv, IterationComplete, IterationFaultsOnlyWhenCleared
<1>4. CASE NextInChain
  BY <1>1, <1>3, <1>4 DEF NextInChain, Rest
<1>5. CASE current = <<>> /\ index + 1 < size[itable] /\ NextBucket
  <2>1. /\ index + 1 \in 0..(size[itable] - 1)
        /\ itpc' = "next" /\ itable' = itable /\ index' = index + 1
        /\ Reach(table[itable][index + 1])
    BY <1>1, <1>5 DEF NextBucket
  <2>2. Progress(visited, table[itable][index + 1], Ahead(itable, (index + 1) + 1), Pairs)
    <3>1. Rest = <<>> /\ ToSet(<<>>) = {}
      BY <1>5, EmptySeq DEF Rest, ToSet
    <3> QED
      BY <1>1, <2>1, <3>1, NextBucketAhead DEF Progress
  <2> QED
    BY <1>1, <1>3, <2>1, <2>2
<1>6. CASE current = <<>> /\ index + 1 >= size[itable] /\ NextBucket
  <2>1. /\ itable = 0 /\ size[1] # 0 /\ itpc' = "next"
        /\ itable' = 1 /\ index' = 0 /\ Reach(table[1][0])
    BY <1>1, <1>6 DEF NextBucket, EnterSecond
  <2>2. Progress(visited, table[1][0], Ahead(1, 0 + 1), Pairs)
    <3>1. Rest = <<>> /\ ToSet(<<>>) = {}
      BY <1>6, EmptySeq DEF Rest, ToSet
    <3>2. Ahead(0, index + 1) = Ahead(1, 0)
      BY <1>1, <1>6, <2>1, SecondArrayAhead
    <3>3. 0 \in 0..(size[1] - 1)
      BY <1>1, <2>1
    <3> QED
      BY <1>1, <2>1, <3>1, <3>2, <3>3, NextBucketAhead DEF Progress
  <2> QED
    BY <1>3, <2>1, <2>2
<1>7. CASE NextFault
  <2>1. /\ itpc' = "null_deref" /\ Rehashing /\ size[1] = 0 /\ rehashidx' = rehashidx
    BY <1>1, <1>7 DEF NextFault, vars
  <2>2. size[0] = 0 /\ rehashidx >= 0
    BY <2>1, TypeFacts DEF IInv, RehashFrontier
  <2> QED
    BY <1>1, <1>2, <2>1, <2>2
       DEF ItInv, IterationComplete, IterationFaultsOnlyWhenCleared
<1>8. CASE NextEnd
  <2>1. /\ itpc' = "done" /\ visited' = visited /\ current = <<>>
        /\ index + 1 >= size[itable] /\ ~(Rehashing /\ itable = 0)
        /\ used' = used
    BY <1>1, <1>8 DEF NextEnd, vars
  <2>2. Ahead(itable, index + 1) = {}
    <3>1. BucketsFrom(itable, index + 1) = {}
      BY <1>1, <2>1 DEF BucketsFrom
    <3>2. itable = 0 => PairsOf(table[1], size[1]) = {}
      BY <2>1 DEF IInv, RehashFrontier, PairsOf
    <3> QED
      BY <3>1, <3>2 DEF Ahead
  <2>3. Rest = <<>> /\ ToSet(<<>>) = {}
    BY <2>1, EmptySeq DEF Rest, ToSet
  <2>4. ToSet(visited) = Pairs /\ Len(visited) = Cardinality(Pairs)
    BY <1>1, <2>2, <2>3 DEF Progress
  <2>5. Len(visited) = used[0] + used[1]
    BY <1>1, <2>4, PairsFacts
  <2> QED
    BY <1>1, <1>2, <2>1, <2>4, <2>5
       DEF ItInv, IterationComplete, IterationFaultsOnlyWhenCleared
<1> QED
  BY <1>4, <1>5, <1>6, <1>7, <1>8, <1>1 DEF Iterate, NextBucket

\* Starting and releasing an iterator, and the calls between iterations.
LEMMA ItNextItInv ==
    ASSUME IInv, ItInv, [ItNext]_allvars
    PROVE  ItInv'
<1>1. CASE UNCHANGED allvars
  BY <1>1 DEF allvars, vars, itvars, ItInv, Progress, Rest, Ahead, BucketsFrom,
     Pairs, IterationComplete, IterationFaultsOnlyWhenCleared
<1>2. CASE itpc = "none" /\ Next /\ UNCHANGED itvars
  BY <1>2 DEF itvars, ItInv, IterationComplete, IterationFaultsOnlyWhenCleared
<1>3. CASE GetDictIterator
  <2>1. /\ itpc' = "next" /\ itable' = 0 /\ index' = -1 /\ current' = <<>>
        /\ visited' = <<>> /\ pc = "idle" /\ UNCHANGED vars
    BY <1>3 DEF GetDictIterator
  <2>2. Pairs' = Pairs /\ pc' = pc
    BY <2>1 DEF Pairs, vars
  <2>3. Rest' = <<>> /\ Ahead(itable, index + 1)' = Ahead(0, 0)
    BY <2>1 DEF Rest, Ahead, BucketsFrom, vars
  <2>4. ToSet(<<>>) = {} /\ <<>> \in Seq(Entry) /\ Distinct(<<>>)
        /\ Len(<<>>) = Cardinality({})
    BY EmptySeq, FS_EmptySet DEF ToSet, Distinct
  <2>5. Progress(<<>>, <<>>, Ahead(0, 0), Pairs)
    BY <2>4, AllAhead DEF Progress
  <2> QED
    BY <2>1, <2>2, <2>3, <2>4, <2>5
       DEF ItInv, IterationComplete, IterationFaultsOnlyWhenCleared
<1>4. CASE DictReleaseIterator
  BY <1>4 DEF DictReleaseIterator, ItInv, IterationComplete,
     IterationFaultsOnlyWhenCleared
<1> QED
  BY <1>1, <1>2, <1>3, <1>4, IterateItInv DEF ItNext

\* What the iterator has visited and what is still ahead of it always make up
\* the dictionary, in whatever state it was taken.
THEOREM IteratorInvariant == ItSpec => []ItInv
<1>1. ItInit => ItInv
  BY DEF ItInit, ItInv, IterationComplete, IterationFaultsOnlyWhenCleared
<1>2. IInv /\ ItInv /\ [ItNext]_allvars => ItInv'
  BY ItNextItInv
<1> QED
  BY <1>1, <1>2, ItInvariant, PTL DEF ItSpec

\* A finished iteration has returned every entry exactly once, also in the
\* middle of a rehash, for every key set, hash and array size.
THEOREM IteratesCompletely == ItSpec => []IterationComplete
<1>1. ItInv => IterationComplete
  BY DEF ItInv
<1> QED
  BY <1>1, IteratorInvariant, PTL

\* An iterator only ever dereferences NULL on a dictionary that dictClear has
\* emptied in the middle of a rehash.
THEOREM IteratorFaults == ItSpec => []IterationFaultsOnlyWhenCleared
<1>1. ItInv => IterationFaultsOnlyWhenCleared
  BY DEF ItInv
<1> QED
  BY <1>1, IteratorInvariant, PTL
=============================================================================
