----------------------------- MODULE DictProofs -----------------------------
(***************************************************************************)
(* Proofs about Dict, for every key set, hash function and array size.     *)
(*                                                                         *)
(* None of the properties is inductive alone: UsedExact needs to know that *)
(* a key is in one array only, and that needs every key to be in the chain *)
(* its hash selects.  IInv conjoins them (HeapOK), with where a call can   *)
(* be (Control) and the frontier of the rehash.  The steps are proved to   *)
(* keep it one action at a time; an action changes at most one chain of    *)
(* each array, so it is an instance of HeapAdd, HeapRemove or HeapRewrite. *)
(***************************************************************************)
EXTENDS Dict, FiniteSetTheorems, SequenceTheorems, TLAPS

\* hash & mask never indexes outside an array of s buckets.
LEMMA BucketRange ==
    ASSUME NEW k \in Key, NEW s \in Nat \ {0}
    PROVE  Bucket(k, s) \in 0..(s - 1)
  BY HashAssumption DEF Bucket

\* An entry put at the front of a chain (dict.cpp:108-110, 245-246).
LEMMA ConsFacts ==
    ASSUME NEW e \in Entry, NEW s \in Seq(Entry)
    PROVE  /\ Cons(e, s) \in Seq(Entry)
           /\ Len(Cons(e, s)) = Len(s) + 1
           /\ Cons(e, s)[1] = e
           /\ \A j \in 1..Len(s) : Cons(e, s)[j + 1] = s[j]
  BY DEF Cons

\* What is left of a chain once its head is taken.
LEMMA TailFacts ==
    ASSUME NEW s \in Seq(Entry), s # <<>>
    PROVE  /\ Head(s) \in Entry
           /\ Head(s) = s[1]
           /\ Tail(s) \in Seq(Entry)
           /\ Len(s) > 0
           /\ Len(Tail(s)) = Len(s) - 1
           /\ \A j \in 1..(Len(s) - 1) : Tail(s)[j] = s[j + 1]
  BY HeadTailProperties, EmptySeq

\* A chain without its j-th entry.
LEMMA RemoveFacts ==
    ASSUME NEW s \in Seq(Entry), NEW j \in 1..Len(s)
    PROVE  /\ RemoveAt(s, j) \in Seq(Entry)
           /\ Len(RemoveAt(s, j)) = Len(s) - 1
           /\ \A i \in 1..(Len(s) - 1) :
                 RemoveAt(s, j)[i] = IF i < j THEN s[i] ELSE s[i + 1]
<1> DEFINE a == SubSeq(s, 1, j - 1)
           b == SubSeq(s, j + 1, Len(s))
<1>1. /\ Len(s) \in Nat
      /\ \A i \in 1..Len(s) : s[i] \in Entry
  BY LenProperties
<1>2. /\ a \in Seq(Entry)
      /\ Len(a) = j - 1
      /\ \A i \in 1..(j - 1) : a[i] = s[i]
  <2>1. \A i \in 1..(j - 1) : s[i] \in Entry
    BY <1>1
  <2> QED
    BY <1>1, <2>1, SubSeqProperties
<1>3. /\ b \in Seq(Entry)
      /\ Len(b) = Len(s) - j
      /\ \A i \in 1..(Len(s) - j) : b[i] = s[j + i]
  <2>1. \A i \in (j + 1)..Len(s) : s[i] \in Entry
    BY <1>1
  <2> QED
    BY <1>1, <2>1, SubSeqProperties
<1>4. /\ a \o b \in Seq(Entry)
      /\ Len(a \o b) = Len(a) + Len(b)
      /\ \A i \in 1..(Len(a) + Len(b)) :
            (a \o b)[i] = IF i <= Len(a) THEN a[i] ELSE b[i - Len(a)]
  BY <1>2, <1>3, ConcatProperties
<1>5. RemoveAt(s, j) = a \o b
  BY DEF RemoveAt
<1> HIDE DEF a, b
<1>6. ASSUME NEW i \in 1..(Len(s) - 1)
      PROVE  (a \o b)[i] = IF i < j THEN s[i] ELSE s[i + 1]
  <2>1. CASE i < j
    BY <1>1, <1>2, <1>3, <1>4, <2>1
  <2>2. CASE ~(i < j)
    <3> DEFINE h == i - Len(a)
    <3> h \in 1..(Len(s) - j) /\ j + h = i + 1
      BY <1>1, <1>2, <2>2
    <3> b[h] = s[i + 1]
      BY <1>3
    <3> (a \o b)[i] = b[h]
      BY <1>1, <1>2, <1>3, <1>4, <2>2
    <3> QED
      BY <2>2
  <2> QED
    BY <2>1, <2>2
<1>7. Len(a \o b) = Len(s) - 1
  BY <1>1, <1>2, <1>3, <1>4
<1> HIDE DEF a, b
<1> QED
  BY <1>4, <1>5, <1>6, <1>7

\* The keys of a chain with a new head.
LEMMA ConsHolds ==
    ASSUME NEW e \in Entry, NEW s \in Seq(Entry)
    PROVE  /\ \A k : Holds(Cons(e, s), k) <=> k = e.key \/ Holds(s, k)
           /\ Distinct(s) /\ ~Holds(s, e.key) => Distinct(Cons(e, s))
<1> DEFINE c == Cons(e, s)
<1>1. /\ Len(s) \in Nat
      /\ Len(c) = Len(s) + 1
      /\ c[1] = e
      /\ \A j \in 1..Len(s) : c[j + 1] = s[j]
  BY ConsFacts, LenProperties
<1> HIDE DEF c
<1>a. ASSUME NEW j \in 1..Len(c), j # 1
      PROVE  j - 1 \in 1..Len(s) /\ c[j] = s[j - 1]
  <2> j - 1 \in 1..Len(s) /\ (j - 1) + 1 = j
    BY <1>1, <1>a
  <2> QED
    BY <1>1
<1>2. \A k : Holds(c, k) <=> k = e.key \/ Holds(s, k)
  <2> TAKE k
  <2>1. Holds(c, k) => k = e.key \/ Holds(s, k)
    BY <1>1, <1>a DEF Holds
  <2>2. k = e.key => Holds(c, k)
    BY <1>1 DEF Holds
  <2>3. Holds(s, k) => Holds(c, k)
    <3> SUFFICES ASSUME NEW j \in 1..Len(s), s[j].key = k
                 PROVE  Holds(c, k)
      BY DEF Holds
    <3> j + 1 \in 1..Len(c) /\ c[j + 1] = s[j]
      BY <1>1
    <3> QED
      BY DEF Holds
  <2> QED
    BY <2>1, <2>2, <2>3
<1>3. ASSUME Distinct(s), ~Holds(s, e.key)
      PROVE  Distinct(c)
  <2>1. \A j \in 1..Len(s) : s[j].key # e.key
    BY <1>3 DEF Holds
  <2> SUFFICES ASSUME NEW j1 \in 1..Len(c), NEW j2 \in 1..Len(c),
                      c[j1].key = c[j2].key
               PROVE  j1 = j2
    BY DEF Distinct
  <2>2. CASE j1 = 1 \/ j2 = 1
    BY <1>1, <1>a, <2>1, <2>2
  <2>3. CASE j1 # 1 /\ j2 # 1
    <3> j1 - 1 = j2 - 1
      BY <1>a, <1>3, <2>3 DEF Distinct
    <3> QED
      BY <1>1
  <2> QED
    BY <2>2, <2>3
<1> QED
  BY <1>2, <1>3 DEF c

\* The keys of a chain without its head.
LEMMA TailHolds ==
    ASSUME NEW s \in Seq(Entry), s # <<>>, Distinct(s)
    PROVE  /\ \A k : Holds(Tail(s), k) <=> Holds(s, k) /\ k # Head(s).key
           /\ Distinct(Tail(s))
           /\ Holds(s, Head(s).key)
<1> DEFINE c == Tail(s)
           m == Len(s)
<1>1. /\ m \in Nat
      /\ Head(s) = s[1]
      /\ m > 0
      /\ Len(c) = m - 1
      /\ \A j \in 1..(m - 1) : c[j] = s[j + 1]
      /\ \A j \in 1..m : j = 1 \/ (j - 1 \in 1..(m - 1) /\ c[j - 1] = s[j])
  BY TailFacts
<1>2. \A j1, j2 \in 1..m : s[j1].key = s[j2].key => j1 = j2
  BY DEF Distinct
<1>3. \A k : Holds(s, k) <=> \E j \in 1..m : s[j].key = k
  BY DEF Holds
<1>4. \A k : Holds(c, k) <=> \E j \in 1..(m - 1) : c[j].key = k
  BY <1>1 DEF Holds
<1> HIDE DEF c, m
<1>5. Holds(s, Head(s).key)
  BY <1>1, <1>3
<1>6. \A k : Holds(c, k) <=> Holds(s, k) /\ k # Head(s).key
  <2> TAKE k
  <2>1. Holds(c, k) => Holds(s, k) /\ k # Head(s).key
    <3> SUFFICES ASSUME NEW j \in 1..(m - 1), c[j].key = k
                 PROVE  Holds(s, k) /\ k # Head(s).key
      BY <1>4
    <3> /\ j + 1 \in 1..m /\ 1 \in 1..m /\ j + 1 # 1
        /\ s[j + 1].key = k
      BY <1>1
    <3> QED
      BY <1>1, <1>2, <1>3
  <2>2. Holds(s, k) /\ k # Head(s).key => Holds(c, k)
    BY <1>1, <1>3, <1>4
  <2> QED
    BY <2>1, <2>2
<1>7. Distinct(c)
  <2> SUFFICES ASSUME NEW j1 \in 1..(m - 1), NEW j2 \in 1..(m - 1),
                      c[j1].key = c[j2].key
               PROVE  j1 = j2
    BY <1>1 DEF Distinct
  <2> /\ j1 + 1 \in 1..m /\ j2 + 1 \in 1..m
      /\ s[j1 + 1].key = s[j2 + 1].key
    BY <1>1
  <2> j1 + 1 = j2 + 1
    BY <1>2
  <2> QED
    OBVIOUS
<1> QED
  BY <1>5, <1>6, <1>7 DEF c

\* Unlinking an entry loses its key and no other.
LEMMA RemoveHolds ==
    ASSUME NEW s \in Seq(Entry), NEW p \in 1..Len(s), Distinct(s)
    PROVE  /\ \A k : Holds(RemoveAt(s, p), k) <=> Holds(s, k) /\ k # s[p].key
           /\ Distinct(RemoveAt(s, p))
<1> DEFINE c == RemoveAt(s, p)
           m == Len(s)
<1>1. /\ m \in Nat
      /\ Len(c) = m - 1
      /\ \A j \in 1..(m - 1) : c[j] = IF j < p THEN s[j] ELSE s[j + 1]
  BY RemoveFacts
<1>2. \A j1, j2 \in 1..m : s[j1].key = s[j2].key => j1 = j2
  BY DEF Distinct
<1>3. \A k : Holds(s, k) <=> \E j \in 1..m : s[j].key = k
  BY DEF Holds
<1>4. \A k : Holds(c, k) <=> \E j \in 1..(m - 1) : c[j].key = k
  BY <1>1 DEF Holds
<1>5. p \in 1..m
  OBVIOUS
<1> HIDE DEF c, m
<1>6. \A k : Holds(c, k) <=> Holds(s, k) /\ k # s[p].key
  <2> TAKE k
  <2>1. Holds(c, k) => Holds(s, k) /\ k # s[p].key
    <3> SUFFICES ASSUME NEW j \in 1..(m - 1), c[j].key = k
                 PROVE  Holds(s, k) /\ k # s[p].key
      BY <1>4
    <3> DEFINE q == IF j < p THEN j ELSE j + 1
    <3> q \in 1..m /\ s[q].key = k /\ q # p
      BY <1>1, <1>5
    <3> QED
      BY <1>2, <1>3, <1>5
  <2>2. Holds(s, k) /\ k # s[p].key => Holds(c, k)
    <3> SUFFICES ASSUME NEW j \in 1..m, s[j].key = k, j # p
                 PROVE  \E q \in 1..(m - 1) : c[q].key = k
      BY <1>3, <1>4, <1>5
    <3> DEFINE q == IF j < p THEN j ELSE j - 1
    <3> q \in 1..(m - 1) /\ c[q].key = k
      BY <1>1, <1>5
    <3> QED
      OBVIOUS
  <2> QED
    BY <2>1, <2>2
<1>7. Distinct(c)
  <2> SUFFICES ASSUME NEW j1 \in 1..(m - 1), NEW j2 \in 1..(m - 1),
                      c[j1].key = c[j2].key
               PROVE  j1 = j2
    BY <1>1 DEF Distinct
  <2> DEFINE q1 == IF j1 < p THEN j1 ELSE j1 + 1
             q2 == IF j2 < p THEN j2 ELSE j2 + 1
  <2> q1 \in 1..m /\ q2 \in 1..m /\ s[q1].key = s[q2].key
    BY <1>1, <1>5
  <2> q1 = q2
    BY <1>2
  <2> QED
    BY <1>5
<1> QED
  BY <1>6, <1>7 DEF c

\* Writing the value of an entry keeps the keys of its chain.
LEMMA RewriteHolds ==
    ASSUME NEW s \in Seq(Entry), NEW p \in 1..Len(s), NEW v \in Value
    PROVE  LET c == [s EXCEPT ![p].value = v]
           IN  /\ c \in Seq(Entry)
               /\ \A k : Holds(c, k) <=> Holds(s, k)
               /\ Distinct(s) => Distinct(c)
<1> DEFINE c == [s EXCEPT ![p].value = v]
           m == Len(s)
<1>1. /\ m \in Nat
      /\ s \in [1..m -> Entry]
  BY LenProperties
<1>2. [s[p] EXCEPT !.value = v] \in Entry /\ [s[p] EXCEPT !.value = v].key = s[p].key
  BY <1>1 DEF Entry
<1>3. c \in [1..m -> Entry]
  BY <1>1, <1>2
<1>4. c \in Seq(Entry) /\ Len(c) = m
  BY <1>1, <1>3, IsASeq, LenProperties
<1>5. \A j \in 1..m : c[j].key = s[j].key
  BY <1>1, <1>2
<1> HIDE DEF c
<1> QED
  BY <1>4, <1>5 DEF Holds, Distinct, c

-----------------------------------------------------------------------------
(* One bucket array *)

TableOK(buckets, s) ==
    /\ buckets \in [0..(s - 1) -> Seq(Entry)]
    /\ \A i \in 0..(s - 1) : Distinct(buckets[i])
    /\ \A i \in 0..(s - 1) : \A k \in Key :
          Holds(buckets[i], k) => Bucket(k, s) = i

\* A zeroed array, or none, holds no key.
LEMMA FreshFacts ==
    ASSUME NEW s \in Nat
    PROVE  /\ TableOK(FreshTable(s), s)
           /\ KeysOf(FreshTable(s), s) = {}
<1>1. \A k : ~Holds(<<>>, k)
  BY EmptySeq DEF Holds
<1>2. Distinct(<<>>) /\ <<>> \in Seq(Entry)
  BY EmptySeq DEF Distinct
<1>3. \A i \in 0..(s - 1) : FreshTable(s)[i] = <<>>
  BY DEF FreshTable
<1>4. FreshTable(s) \in [0..(s - 1) -> Seq(Entry)]
  BY <1>2 DEF FreshTable
<1>5. TableOK(FreshTable(s), s)
  BY <1>1, <1>2, <1>3, <1>4 DEF TableOK
<1>6. KeysOf(FreshTable(s), s) = {}
  BY <1>1, <1>3 DEF KeysOf
<1> QED
  BY <1>5, <1>6

\* Replacing a chain by one of the same bucket keeps an array in order.
LEMMA NewChainOK ==
    ASSUME NEW s \in Nat, NEW buckets, TableOK(buckets, s),
           NEW i \in 0..(s - 1), NEW c \in Seq(Entry), Distinct(c),
           \A k \in Key : Holds(c, k) => Bucket(k, s) = i
    PROVE  TableOK([buckets EXCEPT ![i] = c], s)
  BY DEF TableOK

\* The keys of an array whose chain i keeps its keys.
LEMMA SameKeys ==
    ASSUME NEW s \in Nat, NEW buckets, TableOK(buckets, s),
           NEW i \in 0..(s - 1), NEW c \in Seq(Entry),
           \A k : Holds(c, k) <=> Holds(buckets[i], k)
    PROVE  KeysOf([buckets EXCEPT ![i] = c], s) = KeysOf(buckets, s)
<1> DEFINE new == [buckets EXCEPT ![i] = c]
<1>1. \A h \in 0..(s - 1) : \A k : Holds(new[h], k) <=> Holds(buckets[h], k)
  BY DEF TableOK
<1> QED
  BY <1>1 DEF KeysOf

\* The keys of an array whose chain i gets the key x.
LEMMA OneMoreKey ==
    ASSUME NEW s \in Nat, NEW buckets, TableOK(buckets, s),
           NEW i \in 0..(s - 1), NEW c \in Seq(Entry), NEW x \in Key,
           \A k : Holds(c, k) <=> k = x \/ Holds(buckets[i], k)
    PROVE  KeysOf([buckets EXCEPT ![i] = c], s) = KeysOf(buckets, s) \cup {x}
<1> DEFINE new == [buckets EXCEPT ![i] = c]
<1>1. new[i] = c /\ \A h \in 0..(s - 1) : h # i => new[h] = buckets[h]
  BY DEF TableOK
<1> HIDE DEF new
<1>2. ASSUME NEW k \in Key
      PROVE  (\E h \in 0..(s - 1) : Holds(new[h], k))
                <=> k = x \/ \E h \in 0..(s - 1) : Holds(buckets[h], k)
  BY <1>1
<1>3. KeysOf(new, s) = KeysOf(buckets, s) \cup {x}
  BY <1>2 DEF KeysOf
<1> QED
  BY <1>3 DEF new

\* The keys of an array whose chain i loses the key x.
LEMMA OneLessKey ==
    ASSUME NEW s \in Nat, NEW buckets, TableOK(buckets, s),
           NEW i \in 0..(s - 1), NEW c \in Seq(Entry), NEW x \in Key,
           Bucket(x, s) = i,
           \A k : Holds(c, k) <=> Holds(buckets[i], k) /\ k # x
    PROVE  KeysOf([buckets EXCEPT ![i] = c], s) = KeysOf(buckets, s) \ {x}
<1> DEFINE new == [buckets EXCEPT ![i] = c]
<1>1. new[i] = c /\ \A h \in 0..(s - 1) : h # i => new[h] = buckets[h]
  BY DEF TableOK
<1>2. \A h \in 0..(s - 1) : Holds(buckets[h], x) => h = i
  BY DEF TableOK
<1> HIDE DEF new
<1>3. ASSUME NEW k \in Key
      PROVE  (\E h \in 0..(s - 1) : Holds(new[h], k))
                <=> k # x /\ \E h \in 0..(s - 1) : Holds(buckets[h], k)
  BY <1>1, <1>2
<1>4. KeysOf(new, s) = KeysOf(buckets, s) \ {x}
  BY <1>3 DEF KeysOf
<1> QED
  BY <1>4 DEF new

\* A key is in the array iff it is in the chain its hash selects: what makes
\* the search of a single chain enough.
LEMMA KeyInItsChain ==
    ASSUME NEW s \in Nat \ {0}, NEW buckets, TableOK(buckets, s), NEW k \in Key
    PROVE  k \in KeysOf(buckets, s) <=> Holds(buckets[Bucket(k, s)], k)
  BY BucketRange DEF KeysOf, TableOK

-----------------------------------------------------------------------------
(* Both bucket arrays and their counters *)

HeapGood(tab, sz, us) ==
    /\ \A t \in {0, 1} :
          /\ TableOK(tab[t], sz[t])
          /\ IsFiniteSet(KeysOf(tab[t], sz[t]))
          /\ us[t] = Cardinality(KeysOf(tab[t], sz[t]))
    /\ KeysOf(tab[0], sz[0]) \cap KeysOf(tab[1], sz[1]) = {}

\* Chain i of array t becomes c; us2 are the counters afterwards.
NewChain(tab, sz, us, t, u, i, c, tab2, us2) ==
    /\ sz \in [{0, 1} -> Nat]
    /\ HeapGood(tab, sz, us)
    /\ t \in {0, 1} /\ u \in {0, 1} \ {t}
    /\ i \in 0..(sz[t] - 1)
    /\ c \in Seq(Entry) /\ Distinct(c)
    /\ tab2[t] = [tab[t] EXCEPT ![i] = c] /\ tab2[u] = tab[u]
    /\ us2[u] = us[u]

AddsKey(tab, sz, us, t, u, i, c, x, tab2, us2) ==
    /\ NewChain(tab, sz, us, t, u, i, c, tab2, us2)
    /\ us2[t] = us[t] + 1
    /\ x \in Key /\ Bucket(x, sz[t]) = i
    /\ x \notin KeysOf(tab[0], sz[0]) /\ x \notin KeysOf(tab[1], sz[1])
    /\ \A k : Holds(c, k) <=> k = x \/ Holds(tab[t][i], k)

RemovesKey(tab, sz, us, t, u, i, c, x, tab2, us2) ==
    /\ NewChain(tab, sz, us, t, u, i, c, tab2, us2)
    /\ us2[t] = us[t] - 1
    /\ x \in Key /\ Holds(tab[t][i], x)
    /\ \A k : Holds(c, k) <=> Holds(tab[t][i], k) /\ k # x

KeepsKeys(tab, sz, us, t, u, i, c, tab2, us2) ==
    /\ NewChain(tab, sz, us, t, u, i, c, tab2, us2)
    /\ us2[t] = us[t]
    /\ \A k : Holds(c, k) <=> Holds(tab[t][i], k)

\* A chain gets one key more, and used is incremented.
LEMMA HeapAdd ==
    ASSUME NEW tab, NEW sz, NEW us, NEW t, NEW u, NEW i, NEW c, NEW x,
           NEW tab2, NEW us2, AddsKey(tab, sz, us, t, u, i, c, x, tab2, us2)
    PROVE  HeapGood(tab2, sz, us2)
<1> USE DEF AddsKey, NewChain
<1>1. TableOK(tab[t], sz[t])
  BY DEF HeapGood
<1>2. TableOK(tab2[t], sz[t])
  <2>1. \A k \in Key : Holds(c, k) => Bucket(k, sz[t]) = i
    BY <1>1 DEF TableOK
  <2> QED
    BY <1>1, <2>1, NewChainOK
<1>3. KeysOf(tab2[t], sz[t]) = KeysOf(tab[t], sz[t]) \cup {x}
  BY <1>1, OneMoreKey
<1>4. /\ IsFiniteSet(KeysOf(tab2[t], sz[t]))
      /\ us2[t] = Cardinality(KeysOf(tab2[t], sz[t]))
  <2>1. /\ IsFiniteSet(KeysOf(tab[t], sz[t]))
        /\ us[t] = Cardinality(KeysOf(tab[t], sz[t]))
        /\ x \notin KeysOf(tab[t], sz[t])
    BY DEF HeapGood
  <2> DEFINE K == KeysOf(tab[t], sz[t])
  <2> HIDE DEF K
  <2>2. IsFiniteSet(K \cup {x}) /\ Cardinality(K \cup {x}) = Cardinality(K) + 1
    BY <2>1, FS_AddElement DEF K
  <2> QED
    BY <1>3, <2>1, <2>2 DEF K
<1> QED
  BY <1>2, <1>3, <1>4 DEF HeapGood

\* A chain loses a key, and used is decremented.
LEMMA HeapRemove ==
    ASSUME NEW tab, NEW sz, NEW us, NEW t, NEW u, NEW i, NEW c, NEW x,
           NEW tab2, NEW us2, RemovesKey(tab, sz, us, t, u, i, c, x, tab2, us2)
    PROVE  /\ HeapGood(tab2, sz, us2)
           /\ x \notin KeysOf(tab2[0], sz[0])
           /\ x \notin KeysOf(tab2[1], sz[1])
<1> USE DEF RemovesKey, NewChain
<1>1. TableOK(tab[t], sz[t]) /\ Bucket(x, sz[t]) = i
  BY DEF HeapGood, TableOK
<1>2. TableOK(tab2[t], sz[t])
  <2>1. \A k \in Key : Holds(c, k) => Bucket(k, sz[t]) = i
    BY <1>1 DEF TableOK
  <2> QED
    BY <1>1, <2>1, NewChainOK
<1>3. KeysOf(tab2[t], sz[t]) = KeysOf(tab[t], sz[t]) \ {x}
  BY <1>1, OneLessKey
<1>4. x \in KeysOf(tab[t], sz[t])
  BY DEF KeysOf
<1>5. /\ IsFiniteSet(KeysOf(tab2[t], sz[t]))
      /\ us2[t] = Cardinality(KeysOf(tab2[t], sz[t]))
  BY <1>3, <1>4, FS_RemoveElement DEF HeapGood
<1>6. x \notin KeysOf(tab[u], sz[u])
  BY <1>4 DEF HeapGood
<1> QED
  BY <1>2, <1>3, <1>5, <1>6 DEF HeapGood

\* A chain keeps its keys: a value is rewritten.
LEMMA HeapRewrite ==
    ASSUME NEW tab, NEW sz, NEW us, NEW t, NEW u, NEW i, NEW c,
           NEW tab2, NEW us2, KeepsKeys(tab, sz, us, t, u, i, c, tab2, us2)
    PROVE  HeapGood(tab2, sz, us2)
<1> USE DEF KeepsKeys, NewChain
<1>1. TableOK(tab[t], sz[t])
  BY DEF HeapGood
<1>2. TableOK(tab2[t], sz[t])
  <2>1. \A k \in Key : Holds(c, k) => Bucket(k, sz[t]) = i
    BY <1>1 DEF TableOK
  <2> QED
    BY <1>1, <2>1, NewChainOK
<1>3. KeysOf(tab2[t], sz[t]) = KeysOf(tab[t], sz[t])
  BY <1>1, SameKeys
<1> QED
  BY <1>2, <1>3 DEF HeapGood

\* A zeroed array with its counter at 0 is in order.
LEMMA FreshGood ==
    ASSUME NEW s \in Nat, NEW tab, NEW sz, NEW us, NEW t \in {0, 1},
           sz[t] = s, tab[t] = FreshTable(s), us[t] = 0
    PROVE  /\ TableOK(tab[t], sz[t])
           /\ KeysOf(tab[t], sz[t]) = {}
           /\ IsFiniteSet(KeysOf(tab[t], sz[t]))
           /\ us[t] = Cardinality(KeysOf(tab[t], sz[t]))
  BY FreshFacts, FS_EmptySet

-----------------------------------------------------------------------------
(* The inductive invariant *)

\* Where a call is once the rehash step it is in has returned.
At == IF pc \in {"rehash", "move"} THEN cont ELSE pc

Control ==
    /\ pc \in {"rehash", "move"} <=> cont # "idle"
    /\ pc \in {"rehash", "move"} => Rehashing
    /\ pc = "move" => rehashidx < size[0]
    /\ At \in {"expand", "insert"} => call.op \in {"add", "rewrite"}
    /\ At \in {"sized", "search"} => call.op \in {"find", "rewrite"}
    /\ At = "unlink" => call.op = "delete"
    /\ At = "search" => size[0] # 0

HeapOK == pc # "dangling" => HeapGood(table, size, used)

IInv == TypeOK /\ Control /\ HeapOK /\ RehashFrontier /\ NoOverrun

-----------------------------------------------------------------------------

\* The initial array has buckets.
LEMMA InitialSizeFacts == InitialSize \in Nat \ {0}
  BY InitialSizeAssumption, TableSizesAssumption

\* A size, 0 for a NULL array, is a natural number.
LEMMA SizesAreNat == TableSizes \cup {0} \subseteq Nat
  BY TableSizesAssumption

\* The consequences of the types the steps below use.
LEMMA TypeFacts ==
    ASSUME TypeOK
    PROVE  /\ size \in [{0, 1} -> Nat]
           /\ size[0] \in Nat /\ size[1] \in Nat
           /\ used \in [{0, 1} -> Nat]
           /\ used[0] \in Nat /\ used[1] \in Nat
           /\ DOMAIN table = {0, 1}
           /\ Rehashing => rehashidx \in Nat
           /\ n \in Nat
<1>1. TableSizes \cup {0} \subseteq Nat
  BY SizesAreNat
<1>2. size \in [{0, 1} -> TableSizes \cup {0}]
  BY DEF TypeOK
<1>3. size \in [{0, 1} -> Nat] /\ size[0] \in Nat /\ size[1] \in Nat
  BY <1>1, <1>2
<1>4. n \in Nat
  BY RehashStepsAssumption DEF TypeOK
<1> QED
  BY <1>3, <1>4 DEF TypeOK, Rehashing

\* dictCreate establishes the invariant.
LEMMA InitIInv == Init => IInv
<1> SUFFICES ASSUME Init PROVE IInv
  OBVIOUS
<1> USE InitialSizeFacts DEF Init
<1>1. \A t \in {0, 1} :
         /\ TableOK(table[t], size[t])
         /\ KeysOf(table[t], size[t]) = {}
         /\ IsFiniteSet(KeysOf(table[t], size[t]))
         /\ used[t] = Cardinality(KeysOf(table[t], size[t]))
  <2> TAKE t \in {0, 1}
  <2>1. size[t] \in Nat /\ table[t] = FreshTable(size[t]) /\ used[t] = 0
    OBVIOUS
  <2> QED
    BY <2>1, FreshGood
<1>2. HeapGood(table, size, used)
  BY <1>1 DEF HeapGood
<1>3. TypeOK
  <2>1. size \in [{0, 1} -> TableSizes \cup {0}]
    BY InitialSizeAssumption
  <2>2. \A t \in {0, 1} : table[t] \in [0..(size[t] - 1) -> Seq(Entry)]
    BY <1>1 DEF TableOK
  <2> QED
    BY <2>1, <2>2, RehashStepsAssumption DEF TypeOK
<1>4. Control
  BY DEF Control, At
<1>5. RehashFrontier
  BY DEF RehashFrontier, Rehashing
<1> QED
  BY <1>2, <1>3, <1>4, <1>5 DEF IInv, HeapOK, NoOverrun

\* Entering a call changes none of the arrays.
LEMMA EnterIInv ==
    ASSUME IInv,
           \/ \E k \in Key, v \in Value : DictAdd(k, v) \/ DictRewrite(k, v)
           \/ \E k \in Key : DictFind(k) \/ DictDelete(k)
           \/ DictSize
    PROVE  IInv'
<1> USE DEF IInv
<1>1. UNCHANGED <<table, size, used, rehashidx>> /\ pc = "idle" /\ cont = "idle"
  BY DEF DictAdd, DictRewrite, DictFind, DictDelete, DictSize, Invoke, Control
<1>2. CASE \E k \in Key, v \in Value : DictAdd(k, v) \/ DictRewrite(k, v)
  <2> PICK k \in Key, v \in Value : DictAdd(k, v) \/ DictRewrite(k, v)
    BY <1>2
  <2>1. /\ call' \in [op : {"add", "rewrite"}, key : Key, val : Value]
        /\ ret' = NULL
    BY DEF DictAdd, DictRewrite, Invoke
  <2>2. \/ pc' = "rehash" /\ cont' = "expand" /\ n' = RehashSteps /\ Rehashing
        \/ pc' = "expand" /\ cont' = "idle" /\ n' = n
    BY <1>1 DEF DictAdd, DictRewrite, StepRehashThen, Step
  <2>3. TypeOK'
    BY <1>1, <2>1, <2>2, RehashStepsAssumption DEF TypeOK, Running
  <2>4. Control'
    BY <1>1, <2>1, <2>2 DEF Control, At, Rehashing
  <2>5. HeapOK' /\ RehashFrontier' /\ NoOverrun'
    BY <1>1, <2>2 DEF HeapOK, RehashFrontier, NoOverrun, Rehashing
  <2> QED
    BY <2>3, <2>4, <2>5
<1>3. CASE \E k \in Key : DictFind(k) \/ DictDelete(k)
  <2> PICK k \in Key : DictFind(k) \/ DictDelete(k)
    BY <1>3
  <2>1. /\ call' \in [op : {"find", "delete"}, key : Key, val : {NULL}]
        /\ ret' = NULL
    BY DEF DictFind, DictDelete, Invoke
  <2>2. \E next \in {"sized", "unlink"} :
           /\ call'.op = IF next = "sized" THEN "find" ELSE "delete"
           /\ \/ pc' = "rehash" /\ cont' = next /\ n' = RehashSteps /\ Rehashing
              \/ pc' = next /\ cont' = "idle" /\ n' = n
    BY <1>1 DEF DictFind, DictDelete, StepRehashThen, Invoke, Step
  <2>3. TypeOK'
    BY <1>1, <2>1, <2>2, RehashStepsAssumption DEF TypeOK, Running
  <2>4. Control'
    BY <1>1, <2>1, <2>2 DEF Control, At, Rehashing
  <2>5. HeapOK' /\ RehashFrontier' /\ NoOverrun'
    BY <1>1, <2>2 DEF HeapOK, RehashFrontier, NoOverrun, Rehashing
  <2> QED
    BY <2>3, <2>4, <2>5
<1>4. CASE DictSize
  <2>1. /\ UNCHANGED <<pc, cont, n, call>>
        /\ ret' \in Nat
    BY <1>4 DEF DictSize, TypeOK
  <2> QED
    BY <1>1, <2>1 DEF TypeOK, Control, At, HeapOK, RehashFrontier, NoOverrun, Rehashing
<1> QED
  BY <1>2, <1>3, <1>4

\* _dictClear and dictRelease leave two arrays in order: none.
LEMMA NoTablesGood ==
    ASSUME NoTables
    PROVE  /\ HeapGood(table, size, used)'
           /\ \A t \in {0, 1} : table'[t] \in [0..(size'[t] - 1) -> Seq(Entry)]
<1>1. \A t \in {0, 1} :
         /\ TableOK(table'[t], size'[t])
         /\ KeysOf(table'[t], size'[t]) = {}
         /\ IsFiniteSet(KeysOf(table'[t], size'[t]))
         /\ used'[t] = Cardinality(KeysOf(table'[t], size'[t]))
  <2> TAKE t \in {0, 1}
  <2>1. size'[t] = 0 /\ table'[t] = FreshTable(0) /\ used'[t] = 0
    BY DEF NoTables
  <2> QED
    BY <2>1, FreshGood
<1> QED
  BY <1>1 DEF HeapGood, TableOK

\* dictClear and dictRelease keep the invariant, rehashing or not.
LEMMA ClearIInv ==
    ASSUME IInv, DictClear \/ DictRelease
    PROVE  IInv'
<1> USE DEF IInv
<1>1. NoTables /\ pc = "idle" /\ pc' \in {"idle", "released"}
      /\ UNCHANGED <<rehashidx, cont, n, call>> /\ ret' \in {DICT_OK, ret}
  BY DEF DictClear, DictRelease
<1>2. size' \in [{0, 1} -> TableSizes \cup {0}] /\ size'[0] = 0 /\ size'[1] = 0
      /\ used' \in [{0, 1} -> Nat] /\ used'[1] = 0 /\ DOMAIN table' = {0, 1}
  BY <1>1 DEF NoTables
<1>3. TypeOK'
  BY <1>1, <1>2, NoTablesGood DEF TypeOK, DICT_OK, Stopped
<1>4. Control'
  BY <1>1 DEF Control, At
<1>5. HeapOK'
  BY <1>1, NoTablesGood DEF HeapOK
<1>6. RehashFrontier' /\ NoOverrun'
  BY <1>1, <1>2 DEF RehashFrontier, NoOverrun
<1> QED
  BY <1>3, <1>4, <1>5, <1>6

\* Running out of rehash steps keeps the invariant.
LEMMA RehashPauseIInv ==
    ASSUME IInv, RehashPause
    PROVE  IInv'
<1> USE DEF IInv, RehashPause
<1>1. UNCHANGED <<table, size, used, rehashidx, n, call, ret>>
      /\ pc = "rehash" /\ pc' = cont /\ cont' = "idle"
      /\ cont \in {"expand", "sized", "search", "unlink"}
  BY DEF Control, TypeOK
<1>2. TypeOK'
  BY <1>1 DEF TypeOK, Running
<1>3. Control'
  BY <1>1 DEF Control, At
<1>4. HeapOK' /\ RehashFrontier' /\ NoOverrun'
  BY <1>1 DEF HeapOK, RehashFrontier, NoOverrun, Rehashing
<1> QED
  BY <1>2, <1>3, <1>4

\* Freeing the empty ht[0] and renaming ht[1] keeps the invariant.
LEMMA RehashDoneIInv ==
    ASSUME IInv, RehashDone
    PROVE  IInv'
<1> USE DEF IInv
<1>1. /\ pc = "rehash" /\ pc' = cont /\ cont' = "idle" /\ n' = 0
      /\ rehashidx' = -1
      /\ UNCHANGED <<call, ret>>
      /\ used[0] = 0
      /\ cont \in {"expand", "sized", "search", "unlink"}
      /\ Rehashing
  BY DEF RehashDone, SwapTables, Control, TypeOK
<1>2. /\ DOMAIN table' = {0, 1}
      /\ table'[0] = table[1] /\ table'[1] = FreshTable(0)
      /\ size' \in [{0, 1} -> TableSizes \cup {0}]
      /\ size'[0] = size[1] /\ size'[1] = 0
      /\ used' \in [{0, 1} -> Nat]
      /\ used'[0] = used[1] /\ used'[1] = 0
  BY DEF RehashDone, SwapTables, TypeOK
<1>3. HeapGood(table, size, used)
  BY <1>1 DEF HeapOK
<1>4. /\ TableOK(table'[1], size'[1])
      /\ KeysOf(table'[1], size'[1]) = {}
      /\ IsFiniteSet(KeysOf(table'[1], size'[1]))
      /\ used'[1] = Cardinality(KeysOf(table'[1], size'[1]))
  BY <1>2, FreshGood
<1>5. HeapGood(table', size', used')
  BY <1>2, <1>3, <1>4 DEF HeapGood
<1>6. TypeOK'
  <2>1. \A t \in {0, 1} : table'[t] \in [0..(size'[t] - 1) -> Seq(Entry)]
    BY <1>5 DEF HeapGood, TableOK
  <2> QED
    BY <1>1, <1>2, <2>1, RehashStepsAssumption DEF TypeOK, Running
<1>7. Control'
  <2>1. cont = "search" => size'[0] # 0
    BY <1>1, <1>2 DEF Control, At, RehashFrontier
  <2> QED
    BY <1>1, <2>1 DEF Control, At
<1>8. HeapOK'
  BY <1>5 DEF HeapOK
<1>9. RehashFrontier' /\ NoOverrun'
  BY <1>1, <1>2 DEF RehashFrontier, NoOverrun, Rehashing
<1> QED
  BY <1>6, <1>7, <1>8, <1>9

\* used[0] counts the keys of ht[0] and the buckets below rehashidx have
\* none, so the scan for a bucket with an entry finds one.
LEMMA ScanStops ==
    ASSUME IInv, pc = "rehash", used[0] # 0
    PROVE  \E i \in rehashidx..(size[0] - 1) : table[0][i] # <<>>
<1> USE DEF IInv
<1>1. /\ IsFiniteSet(KeysOf(table[0], size[0]))
      /\ used[0] = Cardinality(KeysOf(table[0], size[0]))
  BY DEF HeapOK, HeapGood
<1>2. KeysOf(table[0], size[0]) # {}
  BY <1>1, FS_EmptySet
<1>3. PICK i \in 0..(size[0] - 1), k \in Key : Holds(table[0][i], k)
  BY <1>2 DEF KeysOf
<1>4. table[0][i] # <<>>
  BY <1>3, EmptySeq DEF Holds
<1>5. size[0] \in Nat /\ rehashidx \in Nat /\ Rehashing /\ size[0] # 0
  BY TypeFacts, <1>3 DEF Control
<1>6. ~(i < rehashidx)
  BY <1>4, <1>5 DEF RehashFrontier
<1> QED
  BY <1>4, <1>5, <1>6

\* The scan for the next bucket keeps the invariant.
LEMMA RehashBucketIInv ==
    ASSUME IInv, RehashBucket
    PROVE  IInv'
<1> USE DEF IInv
<1>1. PICK i \in rehashidx..size[0] :
          /\ i < size[0] => table[0][i] # <<>>
          /\ \A h \in rehashidx..(i - 1) : table[0][h] = <<>>
          /\ rehashidx' = i
          /\ pc' = IF i < size[0] THEN "move" ELSE "overrun"
  BY DEF RehashBucket
<1>2. /\ pc = "rehash" /\ n > 0 /\ used[0] # 0 /\ n' = n - 1
      /\ UNCHANGED <<table, size, used, cont, call, ret>>
      /\ size[0] \in Nat /\ rehashidx \in Nat
  BY TypeFacts DEF RehashBucket, Control
<1>3. i < size[0]
  BY <1>1, <1>2, ScanStops
<1>4. pc' = "move" /\ rehashidx' \in Nat /\ rehashidx' < size[0] /\ size[0] # 0
  BY <1>1, <1>2, <1>3
<1>5. TypeOK'
  <2>1. n' \in 0..RehashSteps
    BY <1>2, RehashStepsAssumption DEF TypeOK
  <2> QED
    BY <1>2, <1>4, <2>1 DEF TypeOK, Running
<1>6. Control'
  BY <1>2, <1>4 DEF Control, At, Rehashing
<1>7. HeapOK' /\ NoOverrun'
  BY <1>2, <1>4 DEF HeapOK, NoOverrun
<1>8. RehashFrontier'
  <2>1. Rehashing /\ Rehashing'
    BY <1>2, <1>4 DEF Rehashing
  <2>2. \A h \in 0..(size[0] - 1) : h < i => table[0][h] = <<>>
    <3> TAKE h \in 0..(size[0] - 1)
    <3>1. CASE h < rehashidx
      BY <1>4, <2>1, <3>1 DEF RehashFrontier
    <3>2. CASE ~(h < rehashidx)
      BY <1>1, <1>2, <3>2
    <3> QED
      BY <3>1, <3>2
  <2> QED
    BY <1>1, <1>2, <1>4, <2>1, <2>2 DEF RehashFrontier
<1> QED
  BY <1>5, <1>6, <1>7, <1>8

\* Leaving an emptied bucket behind keeps the invariant.
LEMMA BucketDoneIInv ==
    ASSUME IInv, BucketDone
    PROVE  IInv'
<1> USE DEF IInv
<1>1. /\ pc = "move" /\ pc' = "rehash" /\ rehashidx' = rehashidx + 1
      /\ table[0][rehashidx] = <<>>
      /\ UNCHANGED <<table, size, used, cont, n, call, ret>>
      /\ rehashidx \in Nat /\ Rehashing /\ size[0] \in Nat /\ rehashidx < size[0]
  BY TypeFacts DEF BucketDone, Control, NextIndex
<1>2. Rehashing' /\ rehashidx' \in Nat
  BY <1>1 DEF Rehashing
<1>3. TypeOK'
  BY <1>1, <1>2 DEF TypeOK, Running
<1>4. Control'
  BY <1>1, <1>2 DEF Control, At
<1>5. HeapOK' /\ NoOverrun'
  BY <1>1 DEF HeapOK, NoOverrun
<1>6. RehashFrontier'
  BY <1>1, <1>2 DEF RehashFrontier
<1> QED
  BY <1>3, <1>4, <1>5, <1>6

\* Moving an entry is a removal from ht[0], then an addition to ht[1].
LEMMA MoveEntryIInv ==
    ASSUME IInv, MoveEntry
    PROVE  IInv'
<1> USE DEF IInv
<1> DEFINE chain == table[0][rehashidx]
           e == Head(chain)
           b == Bucket(e.key, size[1])
           mid == [table EXCEPT ![0][rehashidx] = Tail(@)]
           usedMid == [used EXCEPT ![0] = @ - 1]
<1>1. /\ pc = "move" /\ chain # <<>>
      /\ UNCHANGED <<size, rehashidx, pc, cont, n, call, ret>>
      /\ table' = [table EXCEPT ![0][rehashidx] = Tail(@), ![1][b] = Cons(e, @)]
      /\ used' = [used EXCEPT ![0] = @ - 1, ![1] = @ + 1]
  BY DEF MoveEntry, AtEntry, Relink, MovedKey
<1>2. /\ HeapGood(table, size, used)
      /\ rehashidx \in 0..(size[0] - 1)
      /\ size \in [{0, 1} -> Nat]
      /\ size[1] \in Nat \ {0}
      /\ Rehashing
      /\ DOMAIN table = {0, 1}
      /\ used \in [{0, 1} -> Nat]
  BY <1>1, TableSizesAssumption DEF HeapOK, Control, TypeOK, Rehashing, RehashFrontier
<1>3. chain \in Seq(Entry) /\ Distinct(chain)
      /\ table[0] \in [0..(size[0] - 1) -> Seq(Entry)]
      /\ table[1] \in [0..(size[1] - 1) -> Seq(Entry)]
  BY <1>2 DEF HeapGood, TableOK
<1>4. /\ Tail(chain) \in Seq(Entry)
      /\ Distinct(Tail(chain))
      /\ \A k : Holds(Tail(chain), k) <=> Holds(chain, k) /\ k # e.key
      /\ Holds(chain, e.key)
      /\ e \in Entry
  BY <1>1, <1>3, TailFacts, TailHolds
<1>5. e.key \in Key /\ b \in 0..(size[1] - 1)
  BY <1>2, <1>4, BucketRange DEF Entry
<1> DEFINE x == e.key
           old == table[1][b]
           rest == Tail(chain)
           front == Cons(e, old)
<1>6. /\ table' = [table EXCEPT ![0][rehashidx] = rest, ![1][b] = front]
      /\ mid = [table EXCEPT ![0][rehashidx] = rest]
  BY <1>1
<1> HIDE DEF mid, usedMid, b, e, chain, rest, front
<1>a. /\ mid[0] = [table[0] EXCEPT ![rehashidx] = rest]
      /\ mid[1] = table[1]
      /\ table'[0] = [table[0] EXCEPT ![rehashidx] = rest]
      /\ table'[1] = [table[1] EXCEPT ![b] = front]
  BY <1>2, <1>6
<1>b. /\ usedMid[0] = used[0] - 1
      /\ usedMid[1] = used[1]
      /\ used'[0] = used[0] - 1
      /\ used'[1] = used[1] + 1
  BY <1>1, <1>2 DEF usedMid
<1>f. /\ old \in Seq(Entry) /\ Distinct(old)
      /\ Bucket(x, size[1]) = b
  BY <1>2, <1>5 DEF HeapGood, TableOK, b
<1>g. /\ rest \in Seq(Entry) /\ Distinct(rest) /\ x \in Key
      /\ Holds(table[0][rehashidx], x)
      /\ \A k : Holds(rest, k) <=> Holds(table[0][rehashidx], k) /\ k # x
  BY <1>4, <1>5 DEF rest, chain
<1> HIDE DEF old
<1>h. /\ front \in Seq(Entry)
      /\ ~Holds(old, x) => Distinct(front)
      /\ \A k : Holds(front, k) <=> k = x \/ Holds(old, k)
  BY <1>4, <1>f, ConsFacts, ConsHolds DEF front
<1> HIDE DEF x
<1>7. /\ HeapGood(mid, size, usedMid)
      /\ x \notin KeysOf(mid[0], size[0])
      /\ x \notin KeysOf(mid[1], size[1])
  <2>1. /\ mid[0] = [table[0] EXCEPT ![rehashidx] = rest]
        /\ mid[1] = table[1]
        /\ usedMid[0] = used[0] - 1
        /\ usedMid[1] = used[1]
    BY <1>a, <1>b
  <2> QED
    <3>1. RemovesKey(table, size, used, 0, 1, rehashidx, rest, x, mid, usedMid)
      BY <1>2, <1>g, <2>1 DEF RemovesKey, NewChain
    <3> QED
      BY <3>1, HeapRemove
<1>8. /\ table'[1] = [mid[1] EXCEPT ![b] = front]
      /\ table'[0] = mid[0]
      /\ used'[1] = usedMid[1] + 1
      /\ used'[0] = usedMid[0]
      /\ mid[1][b] = old
  BY <1>a, <1>b DEF old
<1>9. HeapGood(table', size, used')
  <2>1. ~Holds(old, x)
    BY <1>5, <1>7, <1>8, <1>g DEF KeysOf
  <2>2. Distinct(front) /\ \A k : Holds(front, k) <=> k = x \/ Holds(mid[1][b], k)
    BY <1>8, <1>h, <2>1
  <2>3. /\ size \in [{0, 1} -> Nat]
        /\ HeapGood(mid, size, usedMid)
        /\ b \in 0..(size[1] - 1)
        /\ front \in Seq(Entry) /\ x \in Key
        /\ Bucket(x, size[1]) = b
        /\ x \notin KeysOf(mid[0], size[0])
        /\ x \notin KeysOf(mid[1], size[1])
    BY <1>2, <1>5, <1>7, <1>f, <1>g, <1>h
  <2>4. AddsKey(mid, size, usedMid, 1, 0, b, front, x, table', used')
    BY <1>8, <2>2, <2>3 DEF AddsKey, NewChain
  <2> QED
    BY <2>4, HeapAdd
<1>10. TypeOK'
  <2>1. \A t \in {0, 1} : table'[t] \in [0..(size'[t] - 1) -> Seq(Entry)]
    BY <1>1, <1>9 DEF HeapGood, TableOK
  <2>2. used' \in [{0, 1} -> Nat]
    <3>1. \A t \in {0, 1} : used'[t] \in Nat
      BY <1>9, FS_CardinalityType DEF HeapGood
    <3> QED
      BY <1>1, <1>2, <3>1
  <2> QED
    BY <1>1, <2>1, <2>2 DEF TypeOK
<1>11. Control' /\ NoOverrun'
  BY <1>1 DEF Control, At, Rehashing, NoOverrun
<1>12. HeapOK'
  BY <1>1, <1>9 DEF HeapOK
<1>13. RehashFrontier'
  <2>1. \A i \in 0..(size[0] - 1) : i < rehashidx => table'[0][i] = table[0][i]
    BY <1>2, <1>3, <1>a
  <2> QED
    BY <1>1, <1>2, <2>1 DEF RehashFrontier, Rehashing
<1> QED
  BY <1>10, <1>11, <1>12, <1>13

\* dictExpand allocates an empty array and loses nothing.
LEMMA ExpandFacts ==
    ASSUME IInv, pc # "dangling", ~Rehashing, NEW s, Expand(s)
    PROVE  /\ HeapGood(table', size', used')
           /\ size' \in [{0, 1} -> TableSizes \cup {0}]
           /\ used' \in [{0, 1} -> Nat]
           /\ DOMAIN table' = {0, 1}
           /\ \A t \in {0, 1} : table'[t] \in [0..(size'[t] - 1) -> Seq(Entry)]
           /\ rehashidx' \in {-1, 0}
           /\ RehashFrontier'
<1> USE DEF IInv
<1> DEFINE t == IF size[0] = 0 THEN 0 ELSE 1
           u == IF size[0] = 0 THEN 1 ELSE 0
<1>1. PICK p \in TableSizes :
          /\ table' = [table EXCEPT ![t] = FreshTable(p)]
          /\ size' = [size EXCEPT ![t] = p]
          /\ used' = [used EXCEPT ![t] = 0]
          /\ rehashidx' = IF t = 0 THEN rehashidx ELSE 0
  BY DEF Expand, StartIndex
<1>2. /\ HeapGood(table, size, used)
      /\ DOMAIN table = {0, 1}
      /\ size \in [{0, 1} -> TableSizes \cup {0}]
      /\ used \in [{0, 1} -> Nat]
      /\ p \in Nat \ {0}
      /\ rehashidx = -1
      /\ size[1] = 0 /\ used[1] = 0
  BY TableSizesAssumption DEF HeapOK, TypeOK, RehashFrontier, Rehashing
<1>3. /\ t \in {0, 1} /\ u \in {0, 1} /\ {t, u} = {0, 1} /\ t # u
      /\ table'[t] = FreshTable(p) /\ table'[u] = table[u]
      /\ size'[t] = p /\ size'[u] = size[u]
      /\ used'[t] = 0 /\ used'[u] = used[u]
  BY <1>1, <1>2
<1>4. /\ size' \in [{0, 1} -> TableSizes \cup {0}]
      /\ used' \in [{0, 1} -> Nat]
      /\ DOMAIN table' = {0, 1}
      /\ rehashidx' = IF size[0] = 0 THEN -1 ELSE 0
  BY <1>1, <1>2
<1>5. RehashFrontier'
  BY <1>2, <1>3, <1>4 DEF RehashFrontier, Rehashing
<1> HIDE DEF t, u
<1>6. /\ TableOK(table'[t], size'[t])
      /\ KeysOf(table'[t], size'[t]) = {}
      /\ IsFiniteSet(KeysOf(table'[t], size'[t]))
      /\ used'[t] = Cardinality(KeysOf(table'[t], size'[t]))
  BY <1>2, <1>3, FreshGood
<1>7. /\ TableOK(table'[u], size'[u])
      /\ IsFiniteSet(KeysOf(table'[u], size'[u]))
      /\ used'[u] = Cardinality(KeysOf(table'[u], size'[u]))
  BY <1>2, <1>3 DEF HeapGood
<1>8. HeapGood(table', size', used')
  <2>1. \A a \in {0, 1} : a = t \/ a = u
    BY <1>3
  <2>2. KeysOf(table'[0], size'[0]) = {} \/ KeysOf(table'[1], size'[1]) = {}
    BY <1>3, <1>6
  <2> QED
    BY <1>6, <1>7, <2>1, <2>2 DEF HeapGood
<1> QED
  BY <1>4, <1>5, <1>8 DEF HeapGood, TableOK

\* _dictExpandIfNeeded keeps the invariant.
LEMMA ExpandIfNeededIInv ==
    ASSUME IInv, ExpandIfNeeded
    PROVE  IInv'
<1> USE DEF IInv
<1>1. pc = "expand" /\ pc' = "insert" /\ UNCHANGED <<cont, n, call, ret>>
  BY DEF ExpandIfNeeded
<1>2. Control'
  BY <1>1 DEF Control, At
<1>3. CASE UNCHANGED <<table, size, used, rehashidx>>
  BY <1>1, <1>2, <1>3
     DEF TypeOK, Running, HeapOK, RehashFrontier, NoOverrun, Rehashing
<1>4. CASE NeedsExpand /\ Expand(used[0] * 2)
  <2>1. /\ HeapGood(table', size', used')
        /\ size' \in [{0, 1} -> TableSizes \cup {0}]
        /\ used' \in [{0, 1} -> Nat]
        /\ DOMAIN table' = {0, 1}
        /\ \A t \in {0, 1} : table'[t] \in [0..(size'[t] - 1) -> Seq(Entry)]
        /\ rehashidx' \in {-1, 0}
        /\ RehashFrontier'
    BY <1>1, <1>4, ExpandFacts DEF NeedsExpand
  <2>2. TypeOK'
    BY <1>1, <2>1 DEF TypeOK, Running
  <2>3. HeapOK' /\ NoOverrun'
    BY <1>1, <2>1 DEF HeapOK, NoOverrun
  <2> QED
    BY <1>2, <2>1, <2>2, <2>3
<1> QED
  BY <1>3, <1>4 DEF ExpandIfNeeded

\* dictResize keeps the invariant.
LEMMA DictResizeIInv ==
    ASSUME IInv, DictResize
    PROVE  IInv'
<1> USE DEF IInv
<1>1. pc = "idle" /\ UNCHANGED <<pc, cont, n, call>> /\ ret' \in {DICT_OK, DICT_ERROR}
  BY DEF DictResize
<1>2. Control'
  BY <1>1 DEF Control, At
<1>3. ret' \in Nat
  BY <1>1 DEF DICT_OK, DICT_ERROR
<1>4. CASE UNCHANGED <<table, size, used, rehashidx>>
  BY <1>1, <1>2, <1>3, <1>4 DEF TypeOK, HeapOK, RehashFrontier, NoOverrun, Rehashing
<1>5. CASE MayExpand(ResizeTarget) /\ Expand(ResizeTarget)
  <2>1. /\ HeapGood(table', size', used')
        /\ size' \in [{0, 1} -> TableSizes \cup {0}]
        /\ used' \in [{0, 1} -> Nat]
        /\ DOMAIN table' = {0, 1}
        /\ \A t \in {0, 1} : table'[t] \in [0..(size'[t] - 1) -> Seq(Entry)]
        /\ rehashidx' \in {-1, 0}
        /\ RehashFrontier'
    BY <1>1, <1>5, ExpandFacts DEF MayExpand
  <2>2. TypeOK'
    BY <1>1, <1>3, <2>1 DEF TypeOK
  <2>3. HeapOK' /\ NoOverrun'
    BY <1>1, <2>1 DEF HeapOK, NoOverrun
  <2> QED
    BY <1>2, <2>1, <2>2, <2>3
<1> QED
  BY <1>4, <1>5 DEF DictResize

\* The NULL dereference of an insertion after dictClear.
LEMMA InsertFaultIInv ==
    ASSUME IInv, InsertFault
    PROVE  IInv'
<1> USE DEF IInv
<1>1. /\ pc = "insert" /\ pc' = "null_deref"
      /\ UNCHANGED <<table, size, used, rehashidx, cont, n, call, ret>>
  BY DEF InsertFault
<1> QED
  BY <1>1 DEF TypeOK, Stopped, Faults, Control, At, HeapOK, RehashFrontier,
              NoOverrun, Rehashing

\* Finding the key already stored changes no array.
LEMMA InsertExistingIInv ==
    ASSUME IInv, InsertExisting
    PROVE  IInv'
<1> USE DEF IInv
<1>1. pc = "insert" /\ cont = "idle" /\ UNCHANGED <<table, size, used, rehashidx>>
  BY DEF InsertExisting, Control
<1>2. \/ /\ pc' = "idle" /\ cont' = "idle" /\ n' = n
         /\ call' = NoCall /\ ret' = DICT_ERROR
      \/ /\ pc' = "rehash" /\ cont' = "sized" /\ n' = RehashSteps /\ Rehashing
         /\ call.op = "rewrite" /\ UNCHANGED <<call, ret>>
      \/ /\ pc' = "sized" /\ cont' = "idle" /\ n' = n
         /\ call.op = "rewrite" /\ UNCHANGED <<call, ret>>
  BY <1>1 DEF InsertExisting, Return, StepRehashThen, Step
<1>3. TypeOK'
  BY <1>1, <1>2, RehashStepsAssumption DEF TypeOK, Running, DICT_ERROR
<1>4. Control'
  BY <1>1, <1>2 DEF Control, At, Rehashing
<1>5. HeapOK' /\ RehashFrontier' /\ NoOverrun'
  BY <1>1, <1>2 DEF HeapOK, RehashFrontier, NoOverrun, Rehashing
<1> QED
  BY <1>3, <1>4, <1>5

\* A failed dictFind changes no array.
LEMMA FindMissIInv ==
    ASSUME IInv, FindMiss, pc \in {"sized", "search"}
    PROVE  IInv'
<1> USE DEF IInv
<1>1. /\ UNCHANGED <<table, size, used, rehashidx, cont, n>>
      /\ cont = "idle" /\ ret' = NULL
      /\ \/ pc' = "null_deref" /\ call' = call
         \/ pc' = "idle" /\ call' = NoCall
  BY DEF FindMiss, Control
<1>2. TypeOK'
  BY <1>1 DEF TypeOK, Stopped, Faults
<1>3. Control'
  BY <1>1 DEF Control, At
<1>4. HeapOK' /\ RehashFrontier' /\ NoOverrun'
  BY <1>1 DEF HeapOK, RehashFrontier, NoOverrun, Rehashing
<1> QED
  BY <1>2, <1>3, <1>4

\* The size check of dictFind changes no array.
LEMMA FindSizedIInv ==
    ASSUME IInv, FindSized
    PROVE  IInv'
<1> USE DEF IInv
<1>1. CASE size[0] # 0 /\ StepRehashThen("search")
           /\ UNCHANGED <<table, size, used, rehashidx, call, ret>>
  <2>1. pc = "sized" /\ cont = "idle" /\ call.op \in {"find", "rewrite"}
    BY DEF FindSized, Control, At
  <2>2. \/ pc' = "rehash" /\ cont' = "search" /\ n' = RehashSteps /\ Rehashing
        \/ pc' = "search" /\ cont' = "idle" /\ n' = n
    BY <1>1, <2>1 DEF StepRehashThen, Step
  <2>3. TypeOK'
    BY <1>1, <2>2, RehashStepsAssumption DEF TypeOK, Running
  <2>4. Control'
    BY <1>1, <2>1, <2>2 DEF Control, At, Rehashing
  <2>5. HeapOK' /\ RehashFrontier' /\ NoOverrun'
    BY <1>1, <2>1, <2>2 DEF HeapOK, RehashFrontier, NoOverrun, Rehashing
  <2> QED
    BY <2>3, <2>4, <2>5
<1>2. CASE FindMiss
  BY <1>2, FindMissIInv DEF FindSized
<1> QED
  BY <1>1, <1>2 DEF FindSized
-----------------------------------------------------------------------------
(* The searches *)

\* The arrays a search goes through are there, and so are their chains.
LEMMA SearchedFacts ==
    ASSUME IInv, pc # "dangling", size[0] # 0, NEW t \in Searched, NEW k \in Key
    PROVE  /\ t \in {0, 1}
           /\ size[t] \in Nat \ {0}
           /\ TableOK(table[t], size[t])
           /\ Bucket(k, size[t]) \in 0..(size[t] - 1)
           /\ Chain(k, t) \in Seq(Entry)
           /\ Distinct(Chain(k, t))
           /\ Chain(k, t) = table[t][Bucket(k, size[t])]
           /\ k \in KeysIn(t) <=> Holds(Chain(k, t), k)
<1> USE DEF IInv
<1>1. t \in {0, 1} /\ size[t] \in Nat \ {0}
  BY TypeFacts DEF Searched, RehashFrontier
<1>2. TableOK(table[t], size[t])
  BY <1>1 DEF HeapOK, HeapGood
<1>3. Bucket(k, size[t]) \in 0..(size[t] - 1)
  BY <1>1, BucketRange
<1>4. k \in KeysIn(t) <=> Holds(Chain(k, t), k)
  BY <1>1, <1>2, KeyInItsChain DEF KeysIn, Chain
<1> QED
  BY <1>1, <1>2, <1>3, <1>4 DEF TableOK, Chain

\* A failed search means the key is in neither array.
LEMMA NotStored ==
    ASSUME IInv, pc # "dangling", size[0] # 0, NEW k \in Key, ~Stored(k)
    PROVE  k \notin KeysIn(0) /\ k \notin KeysIn(1)
<1>1. \A t \in Searched : k \notin KeysIn(t)
  BY SearchedFacts DEF Stored
<1>2. CASE Rehashing
  BY <1>1, <1>2 DEF Searched
<1>3. CASE ~Rehashing
  <2>1. size[1] = 0
    BY <1>3 DEF IInv, RehashFrontier
  <2>2. KeysIn(1) = {}
    BY <2>1 DEF KeysIn, KeysOf
  <2> QED
    BY <1>1, <1>3, <2>2 DEF Searched
<1> QED
  BY <1>2, <1>3

\* An insertion adds one key, to the array new entries go to.
LEMMA InsertNewIInv ==
    ASSUME IInv, InsertNew
    PROVE  IInv'
<1> USE DEF IInv
<1> DEFINE t == InsertTable
           u == IF Rehashing THEN 0 ELSE 1
           x == call.key
           e == [key |-> call.key, value |-> call.val]
           b == Bucket(x, size[t])
           old == Chain(x, t)
           c == Cons(e, old)
<1>1. /\ pc = "insert" /\ cont = "idle" /\ size[0] # 0
      /\ call.op \in {"add", "rewrite"}
      /\ ~Stored(x)
      /\ pc' = "idle" /\ call' = NoCall /\ ret' = DICT_OK
      /\ UNCHANGED <<size, rehashidx, cont, n>>
  BY DEF InsertNew, Return, Control, At, Searched
<1>2. /\ table' = [table EXCEPT ![t][b] = c]
      /\ used' = [used EXCEPT ![t] = @ + 1]
  BY DEF InsertNew, Chain
<1>3. x \in Key /\ e \in Entry
  BY <1>1 DEF TypeOK, NoCall, Entry
<1>4. /\ t \in Searched /\ t \in {0, 1} /\ u \in {0, 1} \ {t}
  BY DEF Searched, InsertTable
<1>5. /\ TableOK(table[t], size[t])
      /\ b \in 0..(size[t] - 1)
      /\ old \in Seq(Entry) /\ Distinct(old)
      /\ old = table[t][b]
      /\ x \in KeysIn(t) <=> Holds(old, x)
  BY <1>1, <1>3, <1>4, SearchedFacts
<1>6. x \notin KeysIn(0) /\ x \notin KeysIn(1)
  BY <1>1, <1>3, NotStored
<1>7. ~Holds(old, x)
  BY <1>4, <1>5, <1>6
<1>8. /\ c \in Seq(Entry) /\ Distinct(c)
      /\ \A k : Holds(c, k) <=> k = x \/ Holds(old, k)
  BY <1>3, <1>5, <1>7, ConsFacts, ConsHolds
<1>9. /\ HeapGood(table, size, used)
      /\ size \in [{0, 1} -> Nat]
      /\ DOMAIN table = {0, 1}
      /\ used \in [{0, 1} -> Nat]
  BY <1>1, TypeFacts DEF HeapOK
<1> HIDE DEF t, u, x, b, c, old
<1>10. /\ table'[t] = [table[t] EXCEPT ![b] = c] /\ table'[u] = table[u]
       /\ used'[t] = used[t] + 1 /\ used'[u] = used[u]
       /\ DOMAIN table' = {0, 1} /\ DOMAIN used' = {0, 1}
  BY <1>2, <1>4, <1>9
<1>11. HeapGood(table', size, used')
  <2>1. Bucket(x, size[t]) = b
    BY DEF b
  <2>2. AddsKey(table, size, used, t, u, b, c, x, table', used')
    BY <1>3, <1>4, <1>5, <1>6, <1>8, <1>9, <1>10, <2>1
       DEF AddsKey, NewChain, KeysIn, x
  <2> QED
    BY <2>2, HeapAdd
<1>12. TypeOK'
  <2>1. \A a \in {0, 1} : table'[a] \in [0..(size'[a] - 1) -> Seq(Entry)]
    BY <1>1, <1>11 DEF HeapGood, TableOK
  <2>2. used' \in [{0, 1} -> Nat]
    BY <1>2, <1>4, <1>9
  <2> QED
    BY <1>1, <1>10, <2>1, <2>2 DEF TypeOK, DICT_OK
<1>13. Control' /\ NoOverrun' /\ HeapOK'
  BY <1>1, <1>11 DEF Control, At, NoOverrun, HeapOK
<1>14. RehashFrontier'
  <2>1. CASE Rehashing
    <3>1. t = 1 /\ table'[0] = table[0]
      BY <1>4, <1>10, <2>1 DEF t, u, InsertTable
    <3> QED
      BY <1>1, <2>1, <3>1 DEF RehashFrontier, Rehashing
  <2>2. CASE ~Rehashing
    <3>1. used'[1] = used[1]
      BY <1>10, <2>2 DEF u
    <3> QED
      BY <1>1, <2>2, <3>1 DEF RehashFrontier, Rehashing
  <2> QED
    BY <2>1, <2>2
<1> QED
  BY <1>12, <1>13, <1>14
\* What a search that stops at position j of the chain of array t knows.
LEMMA HitFacts ==
    ASSUME IInv, pc # "dangling", size[0] # 0, NEW k \in Key,
           NEW t, NEW j, FirstHit(k, t, j)
    PROVE  /\ t \in Searched
           /\ j \in 1..Len(Chain(k, t))
           /\ Chain(k, t)[j].key = k
           /\ Chain(k, t)[j] \in Entry
           /\ Holds(Chain(k, t), k)
<1>1. t \in Searched /\ j \in 1..Len(Chain(k, t)) /\ Chain(k, t)[j].key = k
  BY DEF FirstHit, FoundAt
<1>2. Chain(k, t) \in Seq(Entry)
  BY <1>1, SearchedFacts
<1>3. Chain(k, t)[j] \in Entry
  BY <1>1, <1>2, LenProperties
<1> QED
  BY <1>1, <1>3 DEF Holds

\* A successful dictFind reads, or rewrites, one value.
LEMMA FindSearchIInv ==
    ASSUME IInv, FindSearch
    PROVE  IInv'
<1> USE DEF IInv
<1> DEFINE x == call.key
<1>1. /\ pc = "search" /\ cont = "idle" /\ size[0] # 0
      /\ call.op \in {"find", "rewrite"}
  BY DEF FindSearch, Control, At
<1>2. x \in Key /\ (call.op = "rewrite" => call.val \in Value)
  BY <1>1 DEF TypeOK, NoCall
<1>3. CASE FindMiss
  BY <1>1, <1>3, FindMissIInv
<1>4. ASSUME NEW t \in Searched, NEW j, FirstHit(x, t, j),
             call.op = "find", Return(Chain(x, t)[j].value),
             UNCHANGED <<table, size, used, rehashidx>>
      PROVE  IInv'
  <2>1. ret' \in Value
    BY <1>1, <1>2, <1>4, HitFacts DEF Return, Entry
  <2>2. pc' = "idle" /\ call' = NoCall /\ UNCHANGED <<cont, n>>
    BY <1>4 DEF Return
  <2>3. TypeOK'
    BY <1>4, <2>1, <2>2 DEF TypeOK
  <2>4. Control'
    BY <1>1, <1>4, <2>2 DEF Control, At
  <2>5. HeapOK' /\ RehashFrontier' /\ NoOverrun'
    BY <1>1, <1>4, <2>2 DEF HeapOK, RehashFrontier, NoOverrun, Rehashing
  <2> QED
    BY <2>3, <2>4, <2>5
<1>5. ASSUME NEW t \in Searched, NEW j, FirstHit(x, t, j),
             call.op = "rewrite", Return(DICT_ERROR),
             table' = [table EXCEPT ![t][Bucket(x, size[t])][j].value = call.val],
             UNCHANGED <<size, used, rehashidx>>
      PROVE  IInv'
  <2> DEFINE b == Bucket(x, size[t])
             old == Chain(x, t)
             c == [old EXCEPT ![j].value = call.val]
             u == IF t = 0 THEN 1 ELSE 0
  <2>1. /\ t \in {0, 1} /\ u \in {0, 1} \ {t}
        /\ b \in 0..(size[t] - 1)
        /\ TableOK(table[t], size[t])
        /\ old \in Seq(Entry) /\ Distinct(old) /\ old = table[t][b]
    BY <1>1, <1>2, SearchedFacts
  <2>2. j \in 1..Len(old)
    BY <1>1, <1>2, <1>5, HitFacts
  <2>3. /\ c \in Seq(Entry) /\ Distinct(c)
        /\ \A k : Holds(c, k) <=> Holds(old, k)
    BY <1>2, <1>5, <2>1, <2>2, RewriteHolds
  <2>4. /\ HeapGood(table, size, used)
        /\ size \in [{0, 1} -> Nat]
        /\ DOMAIN table = {0, 1}
        /\ table[t] \in [0..(size[t] - 1) -> Seq(Entry)]
    BY <1>1, <2>1, TypeFacts DEF HeapOK, TypeOK
  <2>5. table' = [table EXCEPT ![t][b] = c]
    BY <1>5, <2>1, <2>4
  <2> HIDE DEF b, c, u, old
  <2>6. /\ table'[t] = [table[t] EXCEPT ![b] = c] /\ table'[u] = table[u]
        /\ DOMAIN table' = {0, 1}
    BY <2>1, <2>4, <2>5
  <2>7. HeapGood(table', size, used)
    <3>1. KeepsKeys(table, size, used, t, u, b, c, table', used)
      BY <2>1, <2>3, <2>4, <2>6 DEF KeepsKeys, NewChain
    <3> QED
      BY <3>1, HeapRewrite
  <2>8. pc' = "idle" /\ call' = NoCall /\ ret' = DICT_ERROR /\ UNCHANGED <<cont, n>>
    BY <1>5 DEF Return
  <2>9. TypeOK'
    <3>1. \A a \in {0, 1} : table'[a] \in [0..(size[a] - 1) -> Seq(Entry)]
      BY <2>7 DEF HeapGood, TableOK
    <3> QED
      BY <1>5, <2>6, <2>8, <3>1 DEF TypeOK, DICT_ERROR
  <2>10. Control' /\ NoOverrun' /\ HeapOK'
    BY <1>1, <1>5, <2>7, <2>8 DEF Control, At, NoOverrun, HeapOK
  <2>11. RehashFrontier'
    <3>1. ASSUME NEW i \in 0..(size[0] - 1), table[0][i] = <<>>
          PROVE  table'[0][i] = <<>>
      <4>1. CASE t = 0 /\ i = b
        <5>1. old = <<>>
          BY <2>1, <3>1, <4>1
        <5> QED
          BY <2>2, <5>1, EmptySeq
      <4>2. CASE t = 0 /\ i # b
        BY <2>4, <2>6, <3>1, <4>2
      <4>3. CASE t = 1
        BY <2>6, <3>1, <4>3 DEF u
      <4> QED
        BY <2>1, <4>1, <4>2, <4>3
    <3> QED
      BY <1>5, <3>1 DEF RehashFrontier, Rehashing
  <2> QED
    BY <2>9, <2>10, <2>11
<1>6. \/ FindMiss
      \/ \E t \in Searched : \E j \in 1..Len(Chain(x, t)) :
            /\ FirstHit(x, t, j)
            /\ \/ /\ call.op = "find"
                  /\ Return(Chain(x, t)[j].value)
                  /\ UNCHANGED table
               \/ /\ call.op = "rewrite"
                  /\ table' = [table EXCEPT
                        ![t][Bucket(x, size[t])][j].value = call.val]
                  /\ Return(DICT_ERROR)
            /\ UNCHANGED <<size, used, rehashidx>>
  BY DEF FindSearch
<1> HIDE DEF IInv
<1> QED
  BY <1>3, <1>4, <1>5, <1>6

\* dictDelete with a preEn of the right array removes one key.
LEMMA DeleteFoundIInv ==
    ASSUME IInv, pc = "unlink", size[0] # 0, DeleteFound,
           UNCHANGED <<size, rehashidx>>
    PROVE  IInv'
<1> USE DEF IInv
<1> DEFINE x == call.key
<1>1. cont = "idle" /\ call.op = "delete" /\ x \in Key
  BY DEF Control, At, TypeOK, NoCall
<1>a. PICK t \in Searched : \E j \in 1..Len(Chain(x, t)) :
        /\ FirstHit(x, t, j)
        /\ table' = [table EXCEPT ![t][Bucket(x, size[t])] = RemoveAt(@, j)]
        /\ used' = [used EXCEPT ![t] = @ - 1]
        /\ Return(DICT_OK)
  BY DEF DeleteFound, CountOut
<1>2. PICK j \in 1..Len(Chain(x, t)) :
        /\ FirstHit(x, t, j)
        /\ table' = [table EXCEPT ![t][Bucket(x, size[t])] = RemoveAt(@, j)]
        /\ used' = [used EXCEPT ![t] = @ - 1]
        /\ Return(DICT_OK)
  BY <1>a
<1> DEFINE b == Bucket(x, size[t])
           old == Chain(x, t)
           c == RemoveAt(old, j)
           u == IF t = 0 THEN 1 ELSE 0
<1>3. /\ t \in {0, 1} /\ u \in {0, 1} \ {t}
      /\ b \in 0..(size[t] - 1)
      /\ old \in Seq(Entry) /\ Distinct(old) /\ old = table[t][b]
      /\ TableOK(table[t], size[t])
  BY <1>1, SearchedFacts
<1>4. old[j].key = x /\ Holds(old, x)
  BY <1>1, <1>2, HitFacts
<1>5. /\ c \in Seq(Entry) /\ Distinct(c)
      /\ \A k : Holds(c, k) <=> Holds(old, k) /\ k # x
  BY <1>3, <1>4, RemoveFacts, RemoveHolds
<1>6. /\ HeapGood(table, size, used)
      /\ size \in [{0, 1} -> Nat]
      /\ used \in [{0, 1} -> Nat]
      /\ DOMAIN table = {0, 1}
      /\ table[t] \in [0..(size[t] - 1) -> Seq(Entry)]
  BY <1>3, TypeFacts DEF HeapOK, TypeOK
<1>7. table' = [table EXCEPT ![t][b] = c]
  BY <1>2, <1>3
<1> HIDE DEF b, c, u, old, x
<1>8. /\ table'[t] = [table[t] EXCEPT ![b] = c] /\ table'[u] = table[u]
      /\ used'[t] = used[t] - 1 /\ used'[u] = used[u]
      /\ DOMAIN table' = {0, 1} /\ DOMAIN used' = {0, 1}
  BY <1>2, <1>3, <1>6, <1>7
<1>9. HeapGood(table', size, used')
  <2>1. RemovesKey(table, size, used, t, u, b, c, x, table', used')
    BY <1>1, <1>3, <1>4, <1>5, <1>6, <1>8 DEF RemovesKey, NewChain
  <2> QED
    BY <2>1, HeapRemove
<1>10. pc' = "idle" /\ call' = NoCall /\ ret' = DICT_OK /\ UNCHANGED <<cont, n>>
  BY <1>2 DEF Return
<1>11. TypeOK'
  <2>1. \A a \in {0, 1} : table'[a] \in [0..(size[a] - 1) -> Seq(Entry)]
    BY <1>9 DEF HeapGood, TableOK
  <2>2. used' \in [{0, 1} -> Nat]
    <3>1. \A a \in {0, 1} : used'[a] \in Nat
      BY <1>9, FS_CardinalityType DEF HeapGood
    <3> QED
      BY <1>2, <1>6, <3>1
  <2> QED
    BY <1>8, <1>10, <2>1, <2>2 DEF TypeOK, DICT_OK
<1>12. Control' /\ NoOverrun' /\ HeapOK'
  BY <1>1, <1>9, <1>10 DEF Control, At, NoOverrun, HeapOK
<1>13. RehashFrontier'
  <2>1. ASSUME NEW i \in 0..(size[0] - 1), table[0][i] = <<>>
        PROVE  table'[0][i] = <<>>
    <3>1. CASE t = 0 /\ i = b
      BY <1>3, <1>4, <2>1, <3>1, EmptySeq DEF Holds
    <3>2. CASE t = 0 /\ i # b
      BY <1>6, <1>8, <2>1, <3>2
    <3>3. CASE t = 1
      BY <1>8, <2>1, <3>3 DEF u
    <3> QED
      BY <1>3, <3>1, <3>2, <3>3
  <2>2. ~Rehashing => used'[1] = used[1]
    BY <1>2, <1>8 DEF Searched, u
  <2>3. size[0] # 0
    OBVIOUS
  <2> QED
    BY <2>1, <2>2, <2>3 DEF RehashFrontier, Rehashing
<1> QED
  BY <1>11, <1>12, <1>13

\* The stale preEn of dictDelete: the heap is lost, the counters, the
\* frontier and the types are not.
LEMMA DeleteCrossingIInv ==
    ASSUME IInv, pc = "unlink", size[0] # 0, DeleteCrossing,
           UNCHANGED <<size, rehashidx>>
    PROVE  IInv'
<1> USE DEF IInv
<1> DEFINE x == call.key
           b == Bucket(x, size[0])
           c == Chain(x, 0) \o Tail(Chain(x, 1))
<1>1. cont = "idle" /\ call.op = "delete" /\ x \in Key
  BY DEF Control, At, TypeOK, NoCall
<1>2. /\ FirstHit(x, 1, 1)
      /\ Chain(x, 0) # <<>>
      /\ table' = [table EXCEPT ![0][b] = @ \o Tail(Chain(x, 1))]
      /\ used' = [used EXCEPT ![1] = @ - 1]
      /\ pc' = "dangling"
      /\ UNCHANGED <<cont, n, call, ret>>
  BY DEF DeleteCrossing, Crossing, CountOut
<1>3. 1 \in Searched /\ 0 \in Searched /\ Rehashing
  BY <1>2 DEF FirstHit, Searched
<1>4. /\ Chain(x, 0) \in Seq(Entry) /\ Chain(x, 0) = table[0][b]
      /\ b \in 0..(size[0] - 1)
      /\ Chain(x, 1) \in Seq(Entry)
      /\ x \in KeysIn(1) <=> Holds(Chain(x, 1), x)
  BY <1>1, <1>3, SearchedFacts
<1>5. Holds(Chain(x, 1), x)
  BY <1>1, <1>2, HitFacts
<1>6. Chain(x, 1) # <<>>
  BY <1>5, EmptySeq DEF Holds
<1>7. c \in Seq(Entry)
  BY <1>4, <1>6, TailFacts, ConcatProperties
<1>8. used[1] - 1 \in Nat
  <2>1. /\ IsFiniteSet(KeysIn(1)) /\ used[1] = Cardinality(KeysIn(1))
        /\ x \in KeysIn(1)
    BY <1>4, <1>5 DEF HeapOK, HeapGood, KeysIn
  <2>2. Cardinality(KeysIn(1)) \in Nat \ {0}
    BY <2>1, FS_EmptySet, FS_CardinalityType
  <2> QED
    BY <2>1, <2>2
<1>9. /\ table[0] \in [0..(size[0] - 1) -> Seq(Entry)]
      /\ table[1] \in [0..(size[1] - 1) -> Seq(Entry)]
      /\ used \in [{0, 1} -> Nat]
      /\ DOMAIN table = {0, 1}
  BY DEF TypeOK
<1>10. table' = [table EXCEPT ![0][b] = c]
  BY <1>2, <1>4
<1> HIDE DEF b, c, x
<1>11. /\ table'[0] = [table[0] EXCEPT ![b] = c]
       /\ table'[1] = table[1]
       /\ DOMAIN table' = {0, 1}
  BY <1>9, <1>10
<1>12. TypeOK'
  <2>1. table'[0] \in [0..(size[0] - 1) -> Seq(Entry)]
    BY <1>4, <1>7, <1>9, <1>11
  <2>2. \A t \in {0, 1} : table'[t] \in [0..(size[t] - 1) -> Seq(Entry)]
    BY <1>9, <1>11, <2>1
  <2>3. used' \in [{0, 1} -> Nat]
    BY <1>2, <1>8, <1>9
  <2> QED
    BY <1>2, <1>11, <2>2, <2>3 DEF TypeOK, Stopped, Faults
<1>13. Control' /\ NoOverrun' /\ HeapOK'
  BY <1>1, <1>2 DEF Control, At, NoOverrun, HeapOK
<1>14. RehashFrontier'
  <2>1. \A i \in 0..(size[0] - 1) : i # b => table'[0][i] = table[0][i]
    BY <1>9, <1>11
  <2>2. ~(b < rehashidx)
    BY <1>2, <1>3, <1>4 DEF RehashFrontier
  <2>3. size[1] # 0 /\ \A i \in 0..(size[0] - 1) :
            i < rehashidx => table'[0][i] = <<>>
    BY <1>3, <2>1, <2>2 DEF RehashFrontier
  <2>4. size[0] # 0
    OBVIOUS
  <2> QED
    BY <1>3, <2>3, <2>4 DEF RehashFrontier, Rehashing
<1> QED
  BY <1>12, <1>13, <1>14

\* dictDelete, whatever its search finds.
LEMMA UnlinkIInv ==
    ASSUME IInv, Unlink
    PROVE  IInv'
<1>1. pc = "unlink" /\ UNCHANGED <<size, rehashidx>>
  BY DEF Unlink
<1>2. CASE DeleteMiss
  <2> USE DEF IInv
  <2>1. /\ pc' = "idle" /\ call' = NoCall /\ ret' = DICT_ERROR
        /\ UNCHANGED <<table, used, cont, n>>
    BY <1>2 DEF DeleteMiss, Return
  <2>2. TypeOK'
    BY <1>1, <2>1 DEF TypeOK, DICT_ERROR
  <2>3. Control'
    BY <1>1, <2>1 DEF Control, At
  <2>4. HeapOK' /\ RehashFrontier' /\ NoOverrun'
    BY <1>1, <2>1 DEF HeapOK, RehashFrontier, NoOverrun, Rehashing
  <2> QED
    BY <2>2, <2>3, <2>4
<1> QED
  BY <1>1, <1>2, DeleteFoundIInv, DeleteCrossingIInv DEF Unlink

-----------------------------------------------------------------------------
(* The invariant, the theorems *)

\* A step that changes nothing keeps the invariant.
LEMMA StutterIInv ==
    ASSUME IInv, UNCHANGED vars
    PROVE  IInv'
<1> USE DEF IInv, vars
<1>1. TypeOK'
  BY DEF TypeOK
<1>2. Control'
  BY DEF Control, At, Rehashing
<1>3. HeapOK' /\ RehashFrontier' /\ NoOverrun'
  BY DEF HeapOK, RehashFrontier, Rehashing, NoOverrun
<1> QED
  BY <1>1, <1>2, <1>3

\* Every step keeps the invariant.
LEMMA NextIInv == IInv /\ [Next]_vars => IInv'
<1> SUFFICES ASSUME IInv, [Next]_vars
             PROVE  IInv'
  OBVIOUS
<1>1. CASE UNCHANGED vars
  BY <1>1, StutterIInv
<1>2. CASE Caller
  BY <1>2, EnterIInv, ClearIInv, DictResizeIInv DEF Caller
<1>3. CASE Callee
  BY <1>3, RehashPauseIInv, RehashDoneIInv, RehashBucketIInv, MoveEntryIInv,
     BucketDoneIInv, ExpandIfNeededIInv, InsertFaultIInv, InsertExistingIInv,
     InsertNewIInv, FindSizedIInv, FindSearchIInv, UnlinkIInv DEF Callee
<1> QED
  BY <1>1, <1>2, <1>3 DEF Next
\* IInv holds in every reachable state: the counters and the chains of the
\* code agree between any two of its steps, up to the first dangling delete.
THEOREM Invariant == Spec => []IInv
<1>1. Init => IInv
  BY InitIInv
<1>2. IInv /\ [Next]_vars => IInv'
  BY NextIInv
<1> QED
  BY <1>1, <1>2, PTL DEF Spec

\* Every variable keeps its type, whatever the keys, the hash function and
\* the sizes of the arrays: used never goes below zero, a chain is only
\* indexed inside its array.
THEOREM TypeCorrect == Spec => []TypeOK
<1>1. IInv => TypeOK
  BY DEF IInv
<1> QED
  BY <1>1, Invariant, PTL

\* A key is in the chain its hash selects, in both arrays and in the middle of
\* a rehash: the search of a single chain per array finds what is stored.
THEOREM Reachable == Spec => []KeysReachable
<1>1. IInv => KeysReachable
  BY DEF IInv, HeapOK, HeapGood, TableOK, KeysReachable
<1> QED
  BY <1>1, Invariant, PTL

\* No key is stored twice: dictAddRaw's check of both chains is enough, even
\* though it runs after a rehash step that moved some of them.
THEOREM KeysUnique == Spec => []NoDuplicateKeys
<1>1. IInv => NoDuplicateKeys
  BY DEF IInv, HeapOK, HeapGood, TableOK, NoDuplicateKeys, KeysIn
<1> QED
  BY <1>1, Invariant, PTL

\* used counts the keys of each array at every step, so that dictRehash frees
\* ht[0] when, and only when, nothing is left in it.
THEOREM CountersExact == Spec => []UsedExact
<1>1. IInv => UsedExact
  BY DEF IInv, HeapOK, HeapGood, UsedExact, KeysIn
<1> QED
  BY <1>1, Invariant, PTL

\* The buckets a rehash has passed stay empty, and ht[1] exists exactly while
\* it is being filled.
THEOREM Frontier == Spec => []RehashFrontier
<1>1. IInv => RehashFrontier
  BY DEF IInv
<1> QED
  BY <1>1, Invariant, PTL

\* The scan for the next bucket to move, which has no bound in the code,
\* always stops inside the array.
THEOREM ScanStaysInside == Spec => []NoOverrun
<1>1. IInv => NoOverrun
  BY DEF IInv
<1> QED
  BY <1>1, Invariant, PTL

\* A rehash never goes back and never ends before ht[0] is empty.
THEOREM RehashForward == Spec => RehashOnlyForward
<1> DEFINE A == \/ rehashidx' >= rehashidx
                \/ rehashidx' = -1 /\ KeysIn(0) = {}
<1>1. ASSUME IInv, [Next]_vars
      PROVE  [A]_vars
  <2>0. rehashidx \in Nat \cup {-1}
    BY <1>1 DEF IInv, TypeOK
  <2>1. CASE UNCHANGED vars
    BY <2>1
  <2>2. CASE RehashDone
    <3>1. pc = "rehash" /\ used[0] = 0 /\ rehashidx' = -1
      BY <2>2 DEF RehashDone, SwapTables
    <3>2. IsFiniteSet(KeysIn(0)) /\ Cardinality(KeysIn(0)) = 0
      BY <1>1, <3>1 DEF IInv, HeapOK, HeapGood, KeysIn
    <3> QED
      BY <3>1, <3>2, FS_EmptySet
  <2>3. CASE RehashBucket
    <3>1. pc = "rehash"
      BY <2>3 DEF RehashBucket
    <3>2. rehashidx \in Nat /\ size[0] \in Nat
      BY <1>1, <2>0, <3>1, TypeFacts DEF IInv, Control, Rehashing
    <3> QED
      BY <2>3, <3>2 DEF RehashBucket
  <2>4. CASE BucketDone
    BY <2>0, <2>4 DEF BucketDone, NextIndex
  <2>5. CASE ExpandIfNeeded \/ DictResize
    BY <2>0, <2>5
       DEF ExpandIfNeeded, DictResize, Expand, NeedsExpand, MayExpand, Rehashing, StartIndex
  <2>6. CASE UNCHANGED rehashidx
    BY <2>0, <2>6
  <2>7. CASE Caller
    BY <2>5, <2>6, <2>7 DEF Caller, DictAdd, DictRewrite, DictFind, DictDelete,
       Invoke, DictClear, DictSize, DictRelease
  <2>8. RehashPause \/ MoveEntry \/ InsertFault \/ InsertExisting \/ InsertNew
           \/ Unlink => UNCHANGED rehashidx
    BY DEF RehashPause, MoveEntry, Relink, InsertFault, InsertExisting,
       InsertNew, Unlink
  <2>9. FindSized \/ FindSearch => UNCHANGED rehashidx
    BY DEF FindSized, FindSearch, FindMiss
  <2> QED
    BY <1>1, <2>1, <2>2, <2>3, <2>4, <2>5, <2>6, <2>7, <2>8, <2>9 DEF Next, Callee
<1>2. IInv /\ [Next]_vars => [A]_vars
  BY <1>1
<1> HIDE DEF A
<1>3. Spec => [][A]_vars
  BY <1>2, Invariant, PTL DEF Spec
<1> QED
  BY <1>3 DEF A, RehashOnlyForward
-----------------------------------------------------------------------------
(* When a delete is safe *)

SmallTables == \A s \in TableSizes : s < RehashSteps

\* The steps left to a rehash are more than the buckets it has left, so it is
\* over when dictDelete starts its search.
Budget ==
    /\ Rehashing /\ size[0] # 0 => rehashidx <= size[0]
    /\ pc = "rehash" => n + rehashidx > size[0]
    /\ pc = "move" => n + rehashidx >= size[0]
    /\ pc = "unlink" /\ size[0] # 0 => ~Rehashing
    /\ pc # "dangling"

\* A call that starts a rehash step, or needs none, has the budget.
LEMMA StartBudget ==
    ASSUME IInv, Budget, SmallTables, NEW next, next # "dangling",
           StepRehashThen(next), pc \notin {"rehash", "move"},
           next \notin {"rehash", "move"}, UNCHANGED <<size, rehashidx>>
    PROVE  Budget'
<1>1. size[0] < RehashSteps
  <2>1. size[0] \in TableSizes \cup {0}
    BY DEF IInv, TypeOK
  <2> QED
    BY <2>1, RehashStepsAssumption DEF SmallTables
<1>2. Rehashing => rehashidx \in Nat
  BY TypeFacts DEF IInv
<1>3. CASE Rehashing
  <2>1. pc' = "rehash" /\ n' = RehashSteps
    BY <1>3 DEF StepRehashThen, Step
  <2>2. n' + rehashidx' > size'[0]
    BY <1>1, <1>2, <1>3, <2>1, TypeFacts, RehashStepsAssumption DEF IInv
  <2> QED
    BY <2>1, <2>2 DEF Budget, Rehashing
<1>4. CASE ~Rehashing
  BY <1>4 DEF Budget, StepRehashThen, Rehashing, Step
<1> QED
  BY <1>3, <1>4

\* Entering a call keeps the budget.
LEMMA CallerBudget ==
    ASSUME IInv, Budget, SmallTables, Caller
    PROVE  Budget'
<1>1. CASE \E k \in Key, v \in Value : DictAdd(k, v) \/ DictRewrite(k, v)
  BY <1>1, StartBudget DEF DictAdd, DictRewrite, Invoke
<1>2. CASE \E k \in Key : DictFind(k)
  BY <1>2, StartBudget DEF DictFind, Invoke
<1>3. CASE \E k \in Key : DictDelete(k)
  <2>1. CASE size[0] = 0
    BY <1>3, <2>1 DEF DictDelete, Invoke, Budget, Rehashing
  <2>2. CASE size[0] # 0
    BY <1>3, <2>2, StartBudget DEF DictDelete, Invoke
  <2> QED
    BY <2>1, <2>2
<1>4. CASE DictResize
  <2>1. CASE UNCHANGED <<table, size, used, rehashidx>>
    BY <1>4, <2>1 DEF DictResize, Budget, Rehashing
  <2>2. CASE MayExpand(ResizeTarget) /\ Expand(ResizeTarget)
    <3>1. pc # "dangling" /\ ~Rehashing /\ Expand(ResizeTarget)
      BY <1>4, <2>2 DEF MayExpand, DictResize
    <3>2. rehashidx' \in {-1, 0} /\ size' \in [{0, 1} -> TableSizes \cup {0}]
      BY <3>1, ExpandFacts
    <3>3. size'[0] \in Nat
      <4>1. size'[0] \in TableSizes \cup {0}
        BY <3>2
      <4> QED
        BY <4>1, SizesAreNat
    <3> QED
      BY <1>4, <3>2, <3>3 DEF DictResize, Budget, Rehashing
  <2> QED
    BY <1>4, <2>1, <2>2 DEF DictResize
<1>5. CASE DictClear \/ DictRelease
  BY <1>5 DEF DictClear, DictRelease, NoTables, Budget, Rehashing
<1>6. CASE DictSize
  BY <1>6 DEF DictSize, Budget, Rehashing
<1> QED
  BY <1>1, <1>2, <1>3, <1>4, <1>5, <1>6 DEF Caller

\* The steps of dictRehash keep the budget.
LEMMA RehashBudget ==
    ASSUME IInv, IInv', Budget,
           RehashPause \/ RehashDone \/ RehashBucket \/ MoveEntry \/ BucketDone
    PROVE  Budget'
<1>1. /\ size[0] \in Nat /\ n \in Nat /\ pc \in {"rehash", "move"}
      /\ Rehashing /\ rehashidx \in Nat
      /\ cont \in {"expand", "sized", "search", "unlink"}
  BY TypeFacts DEF IInv, Control, TypeOK, RehashPause, RehashDone, SwapTables,
     RehashBucket, MoveEntry, AtEntry, Relink, BucketDone, NextIndex
<1>2. CASE RehashPause
  <2>1. size[0] = 0
    BY <1>1, <1>2 DEF RehashPause, Budget
  <2> QED
    BY <1>1, <1>2, <2>1 DEF RehashPause, Budget
<1>3. CASE RehashDone
  BY <1>1, <1>3 DEF RehashDone, SwapTables, Budget, Rehashing
<1>4. CASE RehashBucket
  <2>1. PICK i \in rehashidx..size[0] :
          /\ rehashidx' = i
          /\ pc' = IF i < size[0] THEN "move" ELSE "overrun"
    BY <1>4 DEF RehashBucket
  <2>2. i < size[0] /\ pc' = "move" /\ n' = n - 1 /\ pc = "rehash"
        /\ size' = size
    BY <1>4, <2>1 DEF RehashBucket, IInv, NoOverrun
  <2> QED
    BY <1>1, <2>1, <2>2 DEF Budget, Rehashing
<1>5. CASE MoveEntry
  BY <1>5 DEF MoveEntry, Relink, Budget, Rehashing
<1>6. CASE BucketDone
  <2>1. rehashidx < size[0]
    BY <1>6 DEF BucketDone, IInv, Control, NextIndex
  <2> QED
    BY <1>1, <1>6, <2>1 DEF BucketDone, Budget, Rehashing, NextIndex
<1> QED
  BY <1>2, <1>3, <1>4, <1>5, <1>6

\* Every step inside a call keeps the budget.
LEMMA CalleeBudget ==
    ASSUME IInv, IInv', Budget, SmallTables, Callee
    PROVE  Budget'
<1>1. CASE RehashPause \/ RehashDone \/ RehashBucket \/ MoveEntry \/ BucketDone
  BY <1>1, RehashBudget
<1>2. CASE ExpandIfNeeded
  <2>1. CASE UNCHANGED <<table, size, used, rehashidx>>
    BY <1>2, <2>1 DEF ExpandIfNeeded, Budget, Rehashing
  <2>2. CASE NeedsExpand /\ Expand(used[0] * 2)
    <3>1. pc # "dangling" /\ ~Rehashing /\ Expand(used[0] * 2)
      BY <1>2, <2>2 DEF NeedsExpand, ExpandIfNeeded
    <3>2. rehashidx' \in {-1, 0} /\ size' \in [{0, 1} -> TableSizes \cup {0}]
      BY <3>1, ExpandFacts
    <3>3. size'[0] \in Nat
      <4>1. size'[0] \in TableSizes \cup {0}
        BY <3>2
      <4> QED
        BY <4>1, SizesAreNat
    <3> QED
      BY <1>2, <3>2, <3>3 DEF ExpandIfNeeded, Budget, Rehashing
  <2> QED
    BY <1>2, <2>1, <2>2 DEF ExpandIfNeeded
<1>3. CASE InsertFault \/ InsertNew
  BY <1>3 DEF InsertFault, InsertNew, Return, Budget, Rehashing
<1>4. CASE InsertExisting
  <2>1. CASE call.op = "add" /\ Return(DICT_ERROR)
    BY <1>4, <2>1 DEF InsertExisting, Return, Budget, Rehashing
  <2>2. CASE StepRehashThen("sized")
    BY <1>4, <2>2, StartBudget DEF InsertExisting
  <2> QED
    BY <1>4, <2>1, <2>2 DEF InsertExisting
<1>5. CASE FindSized
  <2>1. CASE FindMiss
    BY <1>5, <2>1 DEF FindSized, FindMiss, Budget, Rehashing
  <2>2. CASE StepRehashThen("search") /\ UNCHANGED <<size, rehashidx>>
    BY <1>5, <2>2, StartBudget DEF FindSized
  <2> QED
    BY <1>5, <2>1, <2>2 DEF FindSized
<1>6. CASE FindSearch
  BY <1>6 DEF FindSearch, FindMiss, Return, Budget, Rehashing
<1>7. CASE Unlink
  <2>1. pc = "unlink" /\ UNCHANGED <<size, rehashidx>>
    BY <1>7 DEF Unlink
  <2>2. CASE DeleteMiss \/ DeleteFound
    BY <2>1, <2>2 DEF DeleteMiss, DeleteFound, Return, Budget, Rehashing, CountOut
  <2>3. CASE size[0] # 0 /\ DeleteCrossing
    BY <2>1, <2>3 DEF DeleteCrossing, FirstHit, Searched, Budget, CountOut
  <2> QED
    BY <1>7, <2>2, <2>3 DEF Unlink
<1> QED
  BY <1>1, <1>2, <1>3, <1>4, <1>5, <1>6, <1>7 DEF Callee

\* dictDelete never leaves a freed entry behind as long as every array has
\* fewer buckets than a rehash step moves (100 in the code): the rehash is
\* then over before the search starts, and preEn cannot cross the arrays.
THEOREM DeleteSafe == SmallTables => (Spec => []NoDangling)
<1> SUFFICES ASSUME SmallTables
             PROVE  Spec => []NoDangling
  OBVIOUS
<1>1. Init => Budget
  BY DEF Init, Budget, Rehashing
<1>2. IInv /\ IInv' /\ Budget /\ [Next]_vars => Budget'
  <2> SUFFICES ASSUME IInv, IInv', Budget, [Next]_vars
               PROVE  Budget'
    OBVIOUS
  <2>1. CASE UNCHANGED vars
    BY <2>1 DEF vars, Budget, Rehashing
  <2> QED
    BY <2>1, CallerBudget, CalleeBudget DEF Next
<1>3. Budget => NoDangling
  BY DEF Budget, NoDangling
<1> QED
  BY <1>1, <1>2, <1>3, Invariant, PTL DEF Spec
-----------------------------------------------------------------------------
(* How full the arrays get *)

\* What LoadBounded allows in an array of s buckets.
Cap(s) == (ResizeRatio + 1) * s

\* Where the running call has already moved an entry of this rehash, or has
\* just started it.
Stepped ==
    \/ pc \in {"expand", "insert"}
    \/ pc = "rehash" /\ n < RehashSteps
    \/ pc = "move" /\ (n < RehashSteps - 1 \/ table[0][rehashidx] = <<>>)

\* An entry still to be moved counts twice: moving it pays for the entry the
\* same call may insert into ht[1].
Load ==
    IF Rehashing
    THEN /\ used[1] + 2 * used[0] <= Cap(size[1])
         /\ Stepped => used[1] + 2 * used[0] < Cap(size[1])
    ELSE /\ used[0] <= Cap(size[0])
         /\ pc = "insert" /\ size[0] # 0 => used[0] < Cap(size[0])

\* The capacity of an array is at least two entries a bucket.
LEMMA CapFacts ==
    ASSUME NEW s \in Nat
    PROVE  Cap(s) \in Nat /\ Cap(s) >= 2 * s /\ (s = 0 => Cap(s) = 0)
<1>1. ResizeRatio \in Nat /\ ResizeRatio >= 1
  BY ResizeRatioAssumption
<1>2. ResizeRatio * s \in Nat /\ ResizeRatio * s >= s
  BY <1>1
<1>3. Cap(s) = ResizeRatio * s + s
  BY <1>1 DEF Cap
<1>4. s = 0 => ResizeRatio * s = 0
  BY <1>1
<1> QED
  BY <1>2, <1>3, <1>4

\* _dictExpandIfNeeded leaves room for one entry more when it does not expand
\* (dict.cpp:304).
LEMMA RoomForOne ==
    ASSUME NEW u \in Nat, NEW s \in Nat \ {0},
           ~(u > s /\ u \div s > ResizeRatio)
    PROVE  u < Cap(s)
<1>1. s \in Nat /\ s > 0 /\ Cap(s) >= 2 * s
  BY CapFacts
<1>2. CASE u <= s
  <2> HIDE DEF Cap
  <2> QED
    BY <1>1, <1>2, CapFacts
<1>3. CASE u > s
  <2> DEFINE q == u \div s
  <2>1. q \in Int /\ u < s * (q + 1)
    BY <1>1
  <2>2. q <= ResizeRatio /\ ResizeRatio \in Int
    BY <1>3, ResizeRatioAssumption
  <2> HIDE DEF q
  <2>3. s * (q + 1) <= s * (ResizeRatio + 1)
    BY <1>1, <2>1, <2>2
  <2>4. s * (ResizeRatio + 1) = (ResizeRatio + 1) * s
    BY <1>1, <2>2
  <2>5. s * (q + 1) \in Int /\ (ResizeRatio + 1) * s \in Int
    BY <1>1, <2>1, <2>2
  <2> QED
    BY <2>1, <2>3, <2>4, <2>5 DEF Cap
<1> QED
  BY <1>1, <1>2, <1>3

\* A step that changes no counter and claims no room for an insertion.
LEMMA SameLoad ==
    ASSUME Load, UNCHANGED <<size, used, rehashidx>>,
           Rehashing /\ Stepped' => Stepped,
           ~Rehashing => pc' # "insert"
    PROVE  Load'
  BY DEF Load, Rehashing

\* A rehash step starts without credit, or the call goes on without one.
LEMMA StartLoad ==
    ASSUME IInv, Load, UNCHANGED <<size, used, rehashidx>>,
           NEW next, StepRehashThen(next),
           next \in {"expand", "sized", "search", "unlink"}
    PROVE  Load'
<1>1. CASE Rehashing
  <2>1. pc' = "rehash" /\ n' = RehashSteps
    BY <1>1 DEF StepRehashThen, Step
  <2>2. ~Stepped'
    BY <2>1, RehashStepsAssumption DEF Stepped
  <2> QED
    BY <2>1, <2>2, SameLoad
<1>2. CASE ~Rehashing
  <2>1. pc' = next
    BY <1>2 DEF StepRehashThen
  <2> QED
    BY <1>2, <2>1, SameLoad
<1> QED
  BY <1>1, <1>2

\* dictExpand allocates at least s buckets.
LEMMA ExpandLoad ==
    ASSUME IInv, ~Rehashing, NEW s \in Nat, s >= used[0], Expand(s),
           Stepped' => s >= 2 * used[0] /\ size[0] # 0
    PROVE  Load'
<1> USE DEF IInv
<1> DEFINE t == IF size[0] = 0 THEN 0 ELSE 1
<1>1. PICK p \in TableSizes :
          /\ p >= s
          /\ size' = [size EXCEPT ![t] = p]
          /\ used' = [used EXCEPT ![t] = 0]
          /\ rehashidx' = IF t = 0 THEN rehashidx ELSE 0
  BY DEF Expand, StartIndex, IsNextPower
<1>2. p \in Nat /\ p > 0 /\ size \in [{0, 1} -> Nat] /\ used \in [{0, 1} -> Nat]
  BY TypeFacts, TableSizesAssumption
<1>3. Cap(p) \in Nat /\ Cap(p) >= 2 * p
  BY <1>2, CapFacts
<1> HIDE DEF IInv
<1>4. CASE size[0] = 0
  <2>1. used'[0] = 0 /\ ~Rehashing' /\ size'[0] = p /\ pc' # "insert"
    BY <1>1, <1>2, <1>4 DEF Rehashing, Stepped
  <2> QED
    BY <1>2, <1>3, <2>1 DEF Load
<1>5. CASE size[0] # 0
  <2>1. used'[0] = used[0] /\ used'[1] = 0 /\ Rehashing' /\ size'[1] = p
    BY <1>1, <1>2, <1>5 DEF Rehashing
  <2>2. 2 * used[0] <= Cap(p)
    BY <1>1, <1>2, <1>3
  <2>3. Stepped' => 2 * used[0] < Cap(p)
    BY <1>1, <1>2, <1>3, <1>5
  <2>4. 2 * used[0] = 0 + 2 * used[0]
    BY <1>2
  <2> QED
    BY <2>1, <2>2, <2>3, <2>4 DEF Load
<1> QED
  BY <1>4, <1>5

\* The calls keep the load.
LEMMA CallerLoad ==
    ASSUME IInv, Load, Caller
    PROVE  Load'
<1>1. CASE \E k \in Key, v \in Value : DictAdd(k, v) \/ DictRewrite(k, v)
  BY <1>1, StartLoad DEF DictAdd, DictRewrite, Invoke
<1>2. CASE \E k \in Key : DictFind(k)
  BY <1>2, StartLoad DEF DictFind, Invoke
<1>3. CASE \E k \in Key : DictDelete(k)
  <2>1. CASE size[0] = 0
    BY <1>3, <2>1, SameLoad DEF DictDelete, Invoke, Stepped
  <2>2. CASE size[0] # 0
    BY <1>3, <2>2, StartLoad DEF DictDelete, Invoke
  <2> QED
    BY <2>1, <2>2
<1>4. CASE DictResize
  <2>1. CASE UNCHANGED <<table, size, used, rehashidx>>
    BY <1>4, <2>1, SameLoad DEF DictResize, Stepped
  <2>2. CASE MayExpand(ResizeTarget) /\ Expand(ResizeTarget)
    <3>1. ~Rehashing /\ ~Stepped' /\ Expand(ResizeTarget)
      BY <1>4, <2>2 DEF MayExpand, DictResize, Stepped
    <3>2. ResizeTarget \in Nat /\ ResizeTarget >= used[0]
      BY TypeFacts, InitialSizeFacts DEF IInv, ResizeTarget
    <3> QED
      BY <3>1, <3>2, ExpandLoad
  <2> QED
    BY <1>4, <2>1, <2>2 DEF DictResize
<1>5. CASE DictClear \/ DictRelease
  <2>1. /\ size'[0] = 0 /\ size'[1] = 0 /\ used'[0] = 0 /\ used'[1] = 0
        /\ pc' \in {"idle", "released"}
    BY <1>5 DEF DictClear, DictRelease, NoTables
  <2>2. Cap(0) = 0
    BY CapFacts
  <2> QED
    BY <2>1, <2>2 DEF Load, Stepped
<1>6. CASE DictSize
  BY <1>6, SameLoad DEF DictSize, Stepped
<1> QED
  BY <1>1, <1>2, <1>3, <1>4, <1>5, <1>6 DEF Caller

\* Every bucket a rehash step moves pays for an insertion.
LEMMA RehashLoad ==
    ASSUME IInv, Load, IInv',
           RehashPause \/ RehashDone \/ RehashBucket \/ MoveEntry \/ BucketDone
    PROVE  Load'
<1>1. /\ n \in Nat /\ Rehashing /\ pc \in {"rehash", "move"}
      /\ size \in [{0, 1} -> Nat] /\ used \in [{0, 1} -> Nat]
      /\ cont \in {"expand", "sized", "search", "unlink"}
  BY TypeFacts DEF IInv, Control, TypeOK, RehashPause, RehashDone, SwapTables,
     RehashBucket, MoveEntry, AtEntry, Relink, BucketDone
<1>2. CASE RehashPause
  <2>1. n < RehashSteps /\ pc = "rehash"
    BY <1>2, RehashStepsAssumption DEF RehashPause
  <2> QED
    BY <1>1, <1>2, <2>1, SameLoad DEF RehashPause, Stepped
<1>3. CASE RehashDone
  <2>1. used[0] = 0 /\ ~Rehashing' /\ used'[0] = used[1] /\ size'[0] = size[1]
        /\ pc' # "insert"
    BY <1>1, <1>3 DEF RehashDone, SwapTables, Rehashing
  <2>2. used[1] \in Nat
    BY <1>1
  <2> QED
    BY <1>1, <2>1, <2>2 DEF Load
<1>4. CASE RehashBucket
  <2>1. PICK i \in rehashidx..size[0] :
          /\ i < size[0] => table[0][i] # <<>>
          /\ rehashidx' = i
          /\ pc' = IF i < size[0] THEN "move" ELSE "overrun"
    BY <1>4 DEF RehashBucket
  <2>2. /\ pc = "rehash" /\ n > 0 /\ n' = n - 1 /\ UNCHANGED <<table, size, used>>
        /\ Rehashing'
    BY <1>1, <1>4, <2>1, TypeFacts DEF RehashBucket, Rehashing, IInv
  <2>3. Stepped' => Stepped
    <3>1. SUFFICES ASSUME Stepped' PROVE n < RehashSteps
      BY <2>2 DEF Stepped
    <3>2. pc' = "move" /\ table'[0][rehashidx'] # <<>>
      BY <2>1, <2>2, <3>1 DEF Stepped
    <3> QED
      BY <1>1, <2>2, <3>1, <3>2, RehashStepsAssumption DEF Stepped
  <2> QED
    BY <1>1, <2>2, <2>3 DEF Load
<1>5. CASE MoveEntry
  <2>1. /\ UNCHANGED <<size, rehashidx>>
        /\ used'[0] = used[0] - 1 /\ used'[1] = used[1] + 1
    BY <1>1, <1>5 DEF MoveEntry, Relink
  <2>2. used[0] \in Nat /\ used[1] \in Nat /\ Cap(size[1]) \in Nat
    BY <1>1, CapFacts
  <2>3. used'[1] + 2 * used'[0] < Cap(size[1])
    BY <1>1, <2>1, <2>2 DEF Load
  <2>4. Rehashing' /\ Cap(size'[1]) = Cap(size[1])
    BY <1>1, <2>1 DEF Rehashing
  <2> QED
    BY <2>1, <2>2, <2>3, <2>4 DEF Load
<1>6. CASE BucketDone
  <2>1. Stepped /\ UNCHANGED <<size, used>>
    BY <1>6 DEF BucketDone, Stepped
  <2>2. Rehashing'
    BY <1>1, <1>6, TypeFacts DEF BucketDone, NextIndex, Rehashing, IInv
  <2> QED
    BY <1>1, <2>1, <2>2 DEF Load
<1> QED
  BY <1>2, <1>3, <1>4, <1>5, <1>6

\* _dictExpandIfNeeded leaves room for the insertion that follows it.
LEMMA ExpandIfNeededLoad ==
    ASSUME IInv, Load, ExpandIfNeeded
    PROVE  Load'
<1>1. pc = "expand" /\ pc' = "insert"
  BY DEF ExpandIfNeeded
<1>2. /\ size[0] \in Nat /\ used[0] \in Nat
  BY TypeFacts DEF IInv
<1>3. CASE ~NeedsExpand /\ UNCHANGED <<table, size, used, rehashidx>>
  <2>1. CASE Rehashing
    BY <1>1, <1>3, <2>1, SameLoad DEF Stepped
  <2>2. CASE ~Rehashing
    <3>1. size[0] # 0 => used[0] < Cap(size[0])
      BY <1>2, <1>3, <2>2, RoomForOne DEF NeedsExpand
    <3> QED
      BY <1>3, <2>2, <3>1 DEF Load, Rehashing
  <2> QED
    BY <2>1, <2>2
<1>4. CASE NeedsExpand /\ Expand(used[0] * 2)
  <2>1. ~Rehashing /\ used[0] > size[0]
    BY <1>4 DEF NeedsExpand
  <2>2. size[0] # 0
    <3>1. size[0] = 0 => Cap(size[0]) = 0
      BY CapFacts
    <3> QED
      BY <1>2, <2>1, <3>1 DEF Load
  <2>3. used[0] * 2 \in Nat /\ used[0] * 2 >= used[0] /\ used[0] * 2 >= 2 * used[0]
    BY <1>2
  <2> QED
    BY <1>4, <2>1, <2>2, <2>3, ExpandLoad
<1> QED
  BY <1>3, <1>4 DEF ExpandIfNeeded

\* An insertion uses up the room its call has made.
LEMMA InsertNewLoad ==
    ASSUME IInv, Load, InsertNew
    PROVE  Load'
<1>1. /\ pc = "insert" /\ pc' = "idle" /\ UNCHANGED <<size, rehashidx>>
      /\ used' = [used EXCEPT ![InsertTable] = @ + 1]
      /\ \A t \in Searched : size[t] # 0
  BY DEF InsertNew, Return
<1>2. /\ used \in [{0, 1} -> Nat] /\ used[0] \in Nat /\ used[1] \in Nat
      /\ size[0] \in Nat /\ size[1] \in Nat
  BY TypeFacts DEF IInv
<1>3. Cap(size[0]) \in Nat /\ Cap(size[1]) \in Nat
  BY <1>2, CapFacts
<1>4. CASE Rehashing
  <2>1. used'[0] = used[0] /\ used'[1] = used[1] + 1 /\ Rehashing'
    BY <1>1, <1>2, <1>4 DEF InsertTable, Rehashing
  <2>2. used[1] + 2 * used[0] < Cap(size[1])
    BY <1>1, <1>4 DEF Load, Stepped
  <2>3. used'[1] + 2 * used'[0] <= Cap(size[1])
    BY <1>2, <1>3, <2>1, <2>2
  <2> QED
    BY <1>1, <2>1, <2>3 DEF Load, Stepped
<1>5. CASE ~Rehashing
  <2>1. used'[0] = used[0] + 1 /\ ~Rehashing' /\ size[0] # 0
    BY <1>1, <1>2, <1>5 DEF InsertTable, Rehashing, Searched
  <2>2. used[0] < Cap(size[0])
    BY <1>1, <1>5, <2>1 DEF Load
  <2>3. used'[0] <= Cap(size[0])
    BY <1>2, <1>3, <2>1, <2>2
  <2> QED
    BY <1>1, <2>1, <2>3 DEF Load
<1> QED
  BY <1>4, <1>5

\* dictDelete only takes entries away.
LEMMA UnlinkLoad ==
    ASSUME IInv, Load, IInv', Unlink
    PROVE  Load'
<1>1. pc = "unlink" /\ pc' \in {"idle", "dangling"} /\ UNCHANGED <<size, rehashidx>>
  BY DEF Unlink, DeleteFound, DeleteCrossing, DeleteMiss, Return
<1>2. /\ used \in [{0, 1} -> Nat] /\ used[0] \in Nat /\ used[1] \in Nat
      /\ used'[0] \in Nat /\ used'[1] \in Nat
      /\ size[0] \in Nat /\ size[1] \in Nat
  BY TypeFacts DEF IInv, TypeOK
<1>3. Cap(size[0]) \in Nat /\ Cap(size[1]) \in Nat
  BY <1>2, CapFacts
<1>4. used'[0] <= used[0] /\ used'[1] <= used[1]
  <2>1. CASE DeleteMiss
    BY <1>2, <2>1 DEF DeleteMiss
  <2>2. CASE DeleteFound \/ DeleteCrossing
    <3>1. PICK t \in {0, 1} : used' = [used EXCEPT ![t] = @ - 1]
      BY <2>2 DEF DeleteFound, DeleteCrossing, CountOut, Searched
    <3> QED
      BY <1>2, <3>1
  <2> QED
    BY <2>1, <2>2 DEF Unlink
<1>5. CASE Rehashing
  <2>1. used'[1] + 2 * used'[0] <= Cap(size[1])
    BY <1>2, <1>3, <1>4, <1>5 DEF Load
  <2> QED
    BY <1>1, <1>5, <2>1 DEF Load, Stepped, Rehashing
<1>6. CASE ~Rehashing
  <2>1. used'[0] <= Cap(size[0])
    BY <1>2, <1>3, <1>4, <1>6 DEF Load
  <2> QED
    BY <1>1, <1>6, <2>1 DEF Load, Rehashing
<1> QED
  BY <1>5, <1>6

\* Every step inside a call keeps the load.
LEMMA CalleeLoad ==
    ASSUME IInv, IInv', Load, Callee
    PROVE  Load'
<1>1. CASE RehashPause \/ RehashDone \/ RehashBucket \/ MoveEntry \/ BucketDone
  BY <1>1, RehashLoad
<1>2. CASE InsertFault
  BY <1>2, SameLoad DEF InsertFault, Stepped
<1>3. CASE InsertExisting
  <2>1. CASE call.op = "add" /\ Return(DICT_ERROR)
    BY <1>3, <2>1, SameLoad DEF InsertExisting, Return, Stepped
  <2>2. CASE StepRehashThen("sized")
    BY <1>3, <2>2, StartLoad DEF InsertExisting
  <2> QED
    BY <1>3, <2>1, <2>2 DEF InsertExisting
<1>4. CASE FindSized
  <2>1. CASE FindMiss
    BY <1>4, <2>1, SameLoad DEF FindMiss, Stepped
  <2>2. CASE StepRehashThen("search") /\ UNCHANGED <<size, used, rehashidx>>
    BY <1>4, <2>2, StartLoad
  <2> QED
    BY <1>4, <2>1, <2>2 DEF FindSized
<1>5. CASE FindSearch
  <2>1. pc' \in {"idle", "null_deref"} /\ UNCHANGED <<size, used, rehashidx>>
    BY <1>5 DEF FindSearch, FindMiss, Return
  <2> QED
    BY <2>1, SameLoad DEF Stepped
<1> QED
  BY <1>1, <1>2, <1>3, <1>4, <1>5, ExpandIfNeededLoad, InsertNewLoad, UnlinkLoad
     DEF Callee

\* Outside a rehash an array never holds more than ResizeRatio + 1 entries a
\* bucket, for every hash, array size and number of rehash steps: no sequence
\* of additions, deletions, resizes and clears overtakes the rehash it runs
\* beside.
THEOREM LoadStaysBounded == Spec => []LoadBounded
<1>1. Init => Load
  BY CapFacts, InitialSizeFacts DEF Init, Load, Rehashing
<1>2. IInv /\ IInv' /\ Load /\ [Next]_vars => Load'
  <2> SUFFICES ASSUME IInv, IInv', Load, [Next]_vars
               PROVE  Load'
    OBVIOUS
  <2>1. CASE UNCHANGED vars
    BY <2>1 DEF vars, Load, Rehashing, Stepped
  <2> QED
    BY <2>1, CallerLoad, CalleeLoad DEF Next
<1>3. Load => LoadBounded
  BY DEF Load, LoadBounded, Cap
<1> QED
  BY <1>1, <1>2, <1>3, Invariant, PTL DEF Spec
=============================================================================
