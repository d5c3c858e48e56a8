------------------------------ MODULE DListProofs ------------------------------
(***************************************************************************)
(* Proofs about DList, for every set of nodes and values and every order   *)
(* of calls: the fields always link up a sequence of nodes, so that a      *)
(* traversal from either end meets all of them, deletelist frees them all, *)
(* and the pointers implement the sequence of Deque.                       *)
(***************************************************************************)
EXTENDS DList, SequenceTheorems, FiniteSetTheorems, NaturalsInduction,
        WellFoundedInduction, TLAPS

\* The nodes of a sequence, and the fields of a list that links them up.
Nodes(s) == {s[i] : i \in 1..Len(s)}

Links(s) ==
    /\ Len(s) = len
    /\ \A i, j \in 1..Len(s) : s[i] = s[j] => i = j
    /\ \A i \in 1..Len(s) : next[s[i]] = IF i = Len(s) THEN NULL ELSE s[i + 1]
    /\ \A i \in 1..Len(s) : prev[s[i]] = IF i = 1 THEN NULL ELSE s[i - 1]
    /\ head = IF Len(s) = 0 THEN NULL ELSE s[1]
    /\ tail = IF Len(s) = 0 THEN NULL ELSE s[Len(s)]

Holds(s) == s \in Seq(Node) /\ Links(s) /\ live = Nodes(s)

\* deletelist is at the node behind which left - 1 more are allocated.
Deleting(s) ==
    /\ s \in Seq(Node) /\ Links(s)
    /\ left \in 0..Len(s)
    /\ live = {s[i] : i \in (Len(s) - left + 1)..Len(s)}
    /\ left # 0 => cur = s[Len(s) - left + 1]

Typed ==
    /\ next \in [Node -> Node \cup {NULL}]
    /\ prev \in [Node -> Node \cup {NULL}]
    /\ value \in [Node -> Value \cup {NULL}]
    /\ pc \in {"none", "list", "deleting"}

IInv ==
    /\ Typed
    /\ pc = "list" => \E s \in Seq(Node) : Holds(s)
    /\ pc = "list" => IsFiniteSet(live) /\ Cardinality(live) = len
    /\ pc = "deleting" => \E s \in Seq(Node) : Deleting(s)
    /\ pc = "none" => live = {}

-----------------------------------------------------------------------------
(* Sequences *)

\* t is the sequence s of elements of S with x in front.
InFront(t, s, x, S) ==
    /\ t \in Seq(S) /\ Len(s) \in Nat /\ Len(t) = Len(s) + 1
    /\ t[1] = x
    /\ \A i \in 1..Len(s) : t[i + 1] = s[i]
    /\ \A i \in 2..(Len(s) + 1) : t[i] = s[i - 1]

\* An element in front of a sequence.
LEMMA FrontFacts ==
    ASSUME NEW S, NEW s \in Seq(S), NEW x \in S
    PROVE  InFront(Cons(x, s), s, x, S)
<1>1. /\ <<x>> \in Seq(S) /\ Len(<<x>>) = 1 /\ <<x>>[1] = x /\ Len(s) \in Nat
  BY LenProperties, SMT
<1>2. /\ <<x>> \o s \in Seq(S) /\ Len(<<x>> \o s) = Len(s) + 1
      /\ (<<x>> \o s)[1] = x
      /\ \A i \in 2..(Len(s) + 1) : (<<x>> \o s)[i] = s[i - 1]
  BY <1>1, ConcatProperties, SMT
<1>3. \A i \in 1..Len(s) : i + 1 \in 2..(Len(s) + 1) /\ (i + 1) - 1 = i
  BY <1>1
<1>. QED
  BY <1>1, <1>2, <1>3 DEF Cons, InFront

\* An element behind a sequence.
LEMMA BackFacts ==
    ASSUME NEW S, NEW s \in Seq(S), NEW x \in S
    PROVE  /\ Append(s, x) \in Seq(S) /\ Len(s) \in Nat /\ Len(Append(s, x)) = Len(s) + 1
           /\ \A i \in 1..Len(s) : Append(s, x)[i] = s[i]
           /\ Append(s, x)[Len(s) + 1] = x
  BY AppendProperties, LenProperties, SMT

\* A sequence without one of its elements.
LEMMA OutFacts ==
    ASSUME NEW S, NEW s \in Seq(S), NEW k \in 1..Len(s)
    PROVE  /\ RemoveAt(s, k) \in Seq(S) /\ Len(s) \in Nat /\ Len(RemoveAt(s, k)) = Len(s) - 1
           /\ \A i \in 1..(Len(s) - 1) :
                 RemoveAt(s, k)[i] = IF i < k THEN s[i] ELSE s[i + 1]
<1>. DEFINE a == SubSeq(s, 1, k - 1)
            b == SubSeq(s, k + 1, Len(s))
<1>0. Len(s) \in Nat
  BY LenProperties
<1>1. a \in Seq(S) /\ Len(a) = k - 1 /\ \A i \in 1..(k - 1) : a[i] = s[i]
  BY <1>0, SubSeqProperties, SMT
<1>2. b \in Seq(S) /\ Len(b) = Len(s) - k /\ \A i \in 1..(Len(s) - k) : b[i] = s[i + k]
  BY <1>0, SubSeqProperties, SMT
<1>. HIDE DEF a, b
<1>3. /\ a \o b \in Seq(S) /\ Len(a \o b) = Len(s) - 1
      /\ \A i \in 1..Len(a) : (a \o b)[i] = a[i]
      /\ \A i \in (Len(a) + 1)..(Len(a) + Len(b)) : (a \o b)[i] = b[i - Len(a)]
  <2>1. /\ a \o b \in Seq(S) /\ Len(a \o b) = Len(a) + Len(b)
        /\ \A i \in 1..Len(a) : (a \o b)[i] = a[i]
        /\ \A i \in (Len(a) + 1)..(Len(a) + Len(b)) : (a \o b)[i] = b[i - Len(a)]
    <3>1. /\ a \o b \in Seq(S) /\ Len(a \o b) = Len(a) + Len(b)
          /\ \A i \in 1..(Len(a) + Len(b)) :
                (a \o b)[i] = IF i <= Len(a) THEN a[i] ELSE b[i - Len(a)]
      BY <1>1, <1>2, ConcatProperties, Zenon
    <3>. QED
      BY <1>0, <1>1, <1>2, <3>1
  <2>. QED
    BY <1>0, <1>1, <1>2, <2>1
<1>4. ASSUME NEW i \in 1..(Len(s) - 1)
      PROVE  (a \o b)[i] = IF i < k THEN s[i] ELSE s[i + 1]
  <2>1. CASE i < k
    <3>1. i \in 1..Len(a) /\ i \in 1..(k - 1)
      BY <1>0, <1>1, <2>1
    <3>. QED
      BY <1>1, <1>3, <2>1, <3>1
  <2>2. CASE ~(i < k)
    <3>1. /\ i \in (Len(a) + 1)..(Len(a) + Len(b))
          /\ i - Len(a) \in 1..(Len(s) - k) /\ (i - Len(a)) + k = i + 1
      BY <1>0, <1>1, <1>2, <2>2
    <3>. QED
      BY <1>2, <1>3, <2>2, <3>1
  <2>. QED
    BY <2>1, <2>2
<1>. QED
  BY <1>0, <1>3, <1>4 DEF RemoveAt, a, b

-----------------------------------------------------------------------------
(* Traversals *)

\* The order of the naturals is well founded.
LEMMA NaturalsWellFounded ==
    \E R : IsWellFoundedOn(R, Nat) /\ \A x, y \in Nat : y < x => <<y, x>> \in R
<1>1. IsWellFoundedOn(OpToRel(<, Nat), Nat)
  BY NatLessThanWellFounded
<1>2. \A x, y \in Nat : y < x => <<y, x>> \in OpToRel(<, Nat)
  BY DEF OpToRel
<1>. QED
  BY <1>1, <1>2, Zenon

\* Two sequences that begin alike and go on alike are alike: there is no
\* first place where they differ.
LEMMA NoFirstDifference ==
    ASSUME NEW n \in Nat, NEW a, NEW b,
           n >= 1 => a[1] = b[1],
           \A j \in 2..n : a[j - 1] = b[j - 1] => a[j] = b[j]
    PROVE  \A j \in 1..n : a[j] = b[j]
<1>. DEFINE D == {j \in 1..n : a[j] # b[j]}
<1>1. SUFFICES ASSUME D # {} PROVE FALSE
  OBVIOUS
<1>2. PICK R : IsWellFoundedOn(R, Nat) /\ \A x, y \in Nat : y < x => <<y, x>> \in R
  BY NaturalsWellFounded
<1>3. PICK m \in D : \A k \in D : <<k, m>> \notin R
  <2>1. D \subseteq Nat
    OBVIOUS
  <2>. HIDE DEF D
  <2>. QED
    BY <1>1, <1>2, <2>1, WFMin, Zenon
<1>4. m \in 2..n /\ m - 1 \in 1..n /\ m - 1 < m /\ m - 1 \in Nat /\ m \in Nat
  OBVIOUS
<1>5. <<m - 1, m>> \in R
  BY <1>2, <1>4, Zenon
<1>6. m - 1 \notin D
  BY <1>3, <1>5, Zenon
<1>7. a[m - 1] = b[m - 1]
  BY <1>4, <1>6
<1>. QED
  BY <1>4, <1>7

\* The pointer leads from first through the n nodes of s.
Leads(first, pointer, s, n) ==
    /\ \A j \in 1..n : s[j] \in Node
    /\ n >= 1 => first = s[1]
    /\ \A j \in 1..(n - 1) : pointer[s[j]] = s[j + 1]

\* A traversal along the pointer meets the n nodes of s.
Meets(first, pointer, s, n) == \A i \in 1..n : Along(first, pointer, i) = s[i]

\* Following a pointer from one end meets the nodes it leads through.
LEMMA AlongFacts ==
    ASSUME NEW n \in Nat, NEW s, NEW first, NEW pointer, Leads(first, pointer, s, n)
    PROVE  Meets(first, pointer, s, n)
<1>. SUFFICES ASSUME NEW i \in 1..n PROVE Along(first, pointer, i) = s[i]
  BY DEF Meets
<1>. DEFINE g == [j \in 1..i |-> s[j]]
            Follows(f) == f = [j \in 1..i |-> IF j = 1 THEN first
                                ELSE IF f[j - 1] \in Node THEN pointer[f[j - 1]] ELSE NULL]
            at == CHOOSE f : Follows(f)
<1>1. \A j \in 2..i : /\ g[j - 1] = s[j - 1] /\ s[j - 1] \in Node
                      /\ pointer[s[j - 1]] = s[j]
  <2>. TAKE j \in 2..i
  <2>1. j - 1 \in 1..i /\ j - 1 \in 1..n /\ j - 1 \in 1..(n - 1) /\ (j - 1) + 1 = j
    OBVIOUS
  <2>. QED
    BY <2>1 DEF Leads
<1>2. Follows(g)
  <2>1. \A j \in 1..i : s[j] = IF j = 1 THEN first
                        ELSE IF g[j - 1] \in Node THEN pointer[g[j - 1]] ELSE NULL
    <3>. TAKE j \in 1..i
    <3>1. j = 1 \/ j \in 2..i
      OBVIOUS
    <3>2. first = s[1]
      BY DEF Leads
    <3>. HIDE DEF g
    <3>. QED
      BY <1>1, <3>1, <3>2
  <2>2. g = [j \in 1..i |-> s[j]]
    OBVIOUS
  <2>. HIDE DEF g
  <2>. QED
    BY <2>1, <2>2, Zenon
<1>3. Follows(at)
  <2>. HIDE DEF Follows, g
  <2>. QED
    BY <1>2, Zenon
<1>4. Along(first, pointer, i) = at[i]
  BY DEF Along
<1>5. \A j \in 1..i : at[j] = IF j = 1 THEN first
                      ELSE IF at[j - 1] \in Node THEN pointer[at[j - 1]] ELSE NULL
  <2>. HIDE DEF at
  <2>. QED
    BY <1>3
<1>. HIDE DEF at, g, Follows
<1>6. \A j \in 1..i : at[j] = s[j]
  <2>1. i \in Nat /\ (i >= 1 => at[1] = s[1])
    BY <1>5 DEF Leads
  <2>2. \A j \in 2..i : at[j - 1] = s[j - 1] => at[j] = s[j]
    BY <1>1, <1>5
  <2>. QED
    BY <2>1, <2>2, NoFirstDifference
<1>. QED
  BY <1>4, <1>6

\* A list that links up s is traversed as s, and backwards as its reverse.
LEMMA TraversalFacts ==
    ASSUME NEW s \in Seq(Node), Links(s)
    PROVE  Forward = s /\ Backward = Reverse(s)
<1>0. Len(s) = len /\ len \in Nat /\ \A i \in 1..len : s[i] \in Node
  BY ElementOfSeq, LenProperties DEF Links
<1>1. Meets(head, next, s, len)
  <2>1. len >= 1 => head = s[1]
    BY <1>0 DEF Links
  <2>2. \A j \in 1..(len - 1) : next[s[j]] = s[j + 1]
    BY <1>0 DEF Links
  <2>3. Leads(head, next, s, len)
    BY <1>0, <2>1, <2>2 DEF Leads
  <2>. QED
    BY <1>0, <2>3, AlongFacts, Zenon
<1>. DEFINE r == [i \in 1..len |-> s[(len - i) + 1]]
<1>2. Meets(tail, prev, r, len)
  <2>1. \A j \in 1..len : (len - j) + 1 \in 1..len /\ r[j] \in Node
    BY <1>0
  <2>2. len >= 1 => tail = r[1]
    BY <1>0 DEF Links
  <2>3. \A j \in 1..(len - 1) : prev[r[j]] = r[j + 1]
    <3>. TAKE j \in 1..(len - 1)
    <3>1. /\ (len - j) + 1 \in 1..len /\ (len - j) + 1 # 1 /\ ((len - j) + 1) - 1 = (len - (j + 1)) + 1
          /\ j \in 1..len /\ j + 1 \in 1..len
      BY <1>0
    <3>2. prev[s[(len - j) + 1]] = s[((len - j) + 1) - 1]
      BY <1>0, <3>1 DEF Links
    <3>. QED
      BY <3>1, <3>2
  <2>. HIDE DEF r
  <2>4. Leads(tail, prev, r, len)
    BY <2>1, <2>2, <2>3 DEF Leads
  <2>. QED
    BY <1>0, <2>4, AlongFacts, Zenon
<1>3. Forward = s
  <2>1. s = [i \in 1..len |-> s[i]]
    BY <1>0
  <2>. QED
    BY <1>1, <2>1, Zenon DEF Forward, Meets
<1>4. Backward = r
  BY <1>2, Zenon DEF Backward, Meets
<1>. QED
  BY <1>0, <1>3, <1>4, Zenon DEF Reverse
-----------------------------------------------------------------------------
(* The steps *)

\* A node that is not of the list becomes its head.
LEMMA AddHeadLinks ==
    ASSUME Typed, NEW s \in Seq(Node), Holds(s), NEW x \in Node, NEW v \in Value, AddHead(x, v)
    PROVE  Holds(Cons(x, s))'
<1>. DEFINE t == Cons(x, s)
<1>0. /\ t \in Seq(Node) /\ Len(s) \in Nat /\ Len(t) = Len(s) + 1
      /\ t[1] = x
      /\ \A i \in 1..Len(s) : t[i + 1] = s[i]
      /\ \A i \in 2..(Len(s) + 1) : t[i] = s[i - 1]
  <2>1. InFront(t, s, x, Node)
    BY FrontFacts
  <2>. HIDE DEF t
  <2>. QED
    BY <2>1 DEF InFront
<1>. HIDE DEF t
<1>1. /\ Len(s) = len /\ (\A i \in 1..Len(s) : s[i] \in Node)
      /\ x \notin live /\ \A i \in 1..Len(s) : s[i] \in live /\ s[i] # x
  BY ElementOfSeq DEF Holds, Links, Nodes, AddHead, LinkInFront, Allocate
<1>2. /\ live' = live \cup {x} /\ len' = len + 1
      /\ head' = x /\ tail' = IF len = 0 THEN x ELSE tail
  BY DEF AddHead, LinkInFront, Allocate
<1>3. /\ next'[x] = IF len = 0 THEN NULL ELSE head
      /\ \A y \in Node : y # x => next'[y] = next[y]
  BY DEF AddHead, LinkInFront, Typed
<1>4. /\ prev'[x] = NULL
      /\ \A y \in Node : (y # x /\ len # 0 /\ y = head) => prev'[y] = x
      /\ \A y \in Node : (y # x /\ ~(len # 0 /\ y = head)) => prev'[y] = prev[y]
  <2>1. ASSUME NEW y \in Node
        PROVE  prev'[y] = CASE y = x -> NULL
                            [] len # 0 /\ y = head -> x
                            [] OTHER -> prev[y]
    BY Zenon DEF AddHead, LinkInFront
  <2>2. prev'[x] = NULL
    <3>1. len # 0 => head = s[1] /\ 1 \in 1..Len(s)
      BY <1>0, <1>1 DEF Holds, Links
    <3>2. ~(len # 0 /\ x = head)
      BY <1>1, <3>1, Zenon
    <3>. QED
      BY <2>1, <3>2, Zenon
  <2>3. ASSUME NEW y \in Node, y # x, len # 0 /\ y = head PROVE prev'[y] = x
    BY <2>1, <2>3, Zenon
  <2>4. ASSUME NEW y \in Node, y # x, ~(len # 0 /\ y = head) PROVE prev'[y] = prev[y]
    BY <2>1, <2>4, Zenon
  <2>. QED
    BY <2>2, <2>3, <2>4, Zenon
<1>5. \A i \in 1..Len(t) : i = 1 \/ (i \in 2..(Len(s) + 1) /\ i - 1 \in 1..Len(s))
  BY <1>0
<1>6. \A i, j \in 1..Len(t) : t[i] = t[j] => i = j
  BY <1>0, <1>1, <1>5 DEF Holds, Links
<1>7. ASSUME NEW i \in 1..Len(t)
      PROVE  next'[t[i]] = IF i = Len(t) THEN NULL ELSE t[i + 1]
  <2>1. CASE i = 1
    BY <1>0, <1>1, <1>3, <2>1 DEF Holds, Links
  <2>2. CASE i # 1
    <3>. DEFINE j == i - 1
    <3>1. j \in 1..Len(s) /\ t[i] = s[j] /\ i = j + 1
      BY <1>0, <1>5, <2>2
    <3>2. next'[t[i]] = next[s[j]]
      BY <1>1, <1>3, <3>1
    <3>3. next[s[j]] = IF j = Len(s) THEN NULL ELSE s[j + 1]
      BY <3>1 DEF Holds, Links
    <3>4. j # Len(s) => t[i + 1] = s[j + 1]
      <4>1. j # Len(s) => j + 1 \in 1..Len(s)
        BY <1>0, <3>1
      <4>. QED
        BY <1>0, <3>1, <4>1
    <3>. QED
      BY <1>0, <3>1, <3>2, <3>3, <3>4
  <2>. QED
    BY <2>1, <2>2
<1>8. ASSUME NEW i \in 1..Len(t)
      PROVE  prev'[t[i]] = IF i = 1 THEN NULL ELSE t[i - 1]
  <2>1. CASE i = 1
    BY <1>0, <1>4, <2>1
  <2>2. CASE i # 1
    <3>. DEFINE j == i - 1
    <3>1. j \in 1..Len(s) /\ t[i] = s[j] /\ i = j + 1 /\ s[j] \in Node /\ s[j] # x
      BY <1>0, <1>1, <1>5, <2>2
    <3>. HIDE DEF j
    <3>2. CASE j = 1
      <4>1. len # 0 /\ s[j] = head
        BY <1>0, <1>1, <3>1, <3>2 DEF Holds, Links
      <4>2. prev'[s[j]] = x
        BY <1>4, <3>1, <4>1, Zenon
      <4>. QED
        BY <1>0, <2>2, <3>1, <3>2, <4>2
    <3>3. CASE j # 1
      <4>1. s[j] # head
        <5>1. head = s[1] /\ 1 \in 1..Len(s)
          BY <1>0, <3>1 DEF Holds, Links
        <5>. QED
          BY <3>1, <3>3, <5>1 DEF Holds, Links
      <4>2. prev'[s[j]] = prev[s[j]]
        BY <1>4, <3>1, <4>1, Zenon
      <4>3. prev[s[j]] = s[j - 1] /\ j \in 2..(Len(s) + 1)
        BY <1>0, <3>1, <3>3 DEF Holds, Links
      <4>4. t[j] = s[j - 1]
        BY <1>0, <4>3
      <4>. QED
        BY <2>2, <3>1, <4>2, <4>3, <4>4
    <3>. QED
      BY <3>2, <3>3
  <2>. QED
    BY <2>1, <2>2
<1>9. head' = t[1] /\ tail' = t[Len(t)] /\ Len(t) # 0
  BY <1>0, <1>1, <1>2, <1>5 DEF Holds, Links
<1>10. live' = Nodes(t)
  <2>1. Nodes(t) \subseteq live'
    BY <1>0, <1>1, <1>2, <1>5 DEF Nodes
  <2>2. x \in Nodes(t)
    BY <1>0 DEF Nodes
  <2>3. ASSUME NEW i \in 1..Len(s) PROVE s[i] \in Nodes(t)
    <3>1. i + 1 \in 1..Len(t) /\ t[i + 1] = s[i]
      BY <1>0
    <3>. QED
      BY <3>1 DEF Nodes
  <2>. QED
    BY <1>2, <2>1, <2>2, <2>3 DEF Holds, Nodes
<1>11. Links(t)'
  BY <1>0, <1>1, <1>2, <1>6, <1>7, <1>8, <1>9 DEF Links
<1>. QED
  BY <1>0, <1>10, <1>11 DEF Holds, t, Nodes

\* A node that is not of the list becomes its tail.
LEMMA AddTailLinks ==
    ASSUME Typed, NEW s \in Seq(Node), Holds(s), NEW x \in Node, NEW v \in Value, AddTail(x, v)
    PROVE  Holds(Append(s, x))'
<1>. DEFINE t == Append(s, x)
<1>0. /\ t \in Seq(Node) /\ Len(s) \in Nat /\ Len(t) = Len(s) + 1
      /\ \A i \in 1..Len(s) : t[i] = s[i]
      /\ t[Len(s) + 1] = x
  BY BackFacts
<1>. HIDE DEF t
<1>1. /\ Len(s) = len /\ (\A i \in 1..Len(s) : s[i] \in Node)
      /\ x \notin live /\ \A i \in 1..Len(s) : s[i] \in live /\ s[i] # x
  BY ElementOfSeq DEF Holds, Links, Nodes, AddTail, LinkBehind, Allocate
<1>2. /\ live' = live \cup {x} /\ len' = len + 1
      /\ tail' = x /\ head' = IF len = 0 THEN x ELSE head
  BY DEF AddTail, LinkBehind, Allocate
<1>3. /\ prev'[x] = IF len = 0 THEN NULL ELSE tail
      /\ \A y \in Node : y # x => prev'[y] = prev[y]
  BY DEF AddTail, LinkBehind, Typed, LastNode
<1>4. /\ next'[x] = NULL
      /\ \A y \in Node : (y # x /\ len # 0 /\ y = tail) => next'[y] = x
      /\ \A y \in Node : (y # x /\ ~(len # 0 /\ y = tail)) => next'[y] = next[y]
  <2>1. ASSUME NEW y \in Node
        PROVE  next'[y] = CASE y = x -> NULL
                            [] len # 0 /\ y = tail -> x
                            [] OTHER -> next[y]
    BY Zenon DEF AddTail, LinkBehind
  <2>2. next'[x] = NULL
    <3>1. len # 0 => tail = s[Len(s)] /\ Len(s) \in 1..Len(s)
      BY <1>0, <1>1 DEF Holds, Links
    <3>2. ~(len # 0 /\ x = tail)
      BY <1>1, <3>1, Zenon
    <3>. QED
      BY <2>1, <3>2, Zenon
  <2>3. ASSUME NEW y \in Node, y # x, len # 0 /\ y = tail PROVE next'[y] = x
    BY <2>1, <2>3, Zenon
  <2>4. ASSUME NEW y \in Node, y # x, ~(len # 0 /\ y = tail) PROVE next'[y] = next[y]
    BY <2>1, <2>4, Zenon
  <2>. QED
    BY <2>2, <2>3, <2>4, Zenon
<1>5. \A i \in 1..Len(t) : i = Len(t) \/ i \in 1..Len(s)
  BY <1>0
<1>6. \A i, j \in 1..Len(t) : t[i] = t[j] => i = j
  BY <1>0, <1>1, <1>5 DEF Holds, Links
<1>7. ASSUME NEW i \in 1..Len(t)
      PROVE  prev'[t[i]] = IF i = 1 THEN NULL ELSE t[i - 1]
  <2>1. CASE i = Len(t)
    <3>1. t[i] = x
      BY <1>0, <2>1
    <3>2. len # 0 => tail = s[Len(s)] /\ t[i - 1] = s[Len(s)] /\ i # 1
      BY <1>0, <1>1, <2>1 DEF Holds, Links
    <3>. QED
      BY <1>0, <1>1, <1>3, <2>1, <3>1, <3>2
  <2>2. CASE i # Len(t)
    <3>1. i \in 1..Len(s) /\ t[i] = s[i]
      BY <1>0, <1>5, <2>2
    <3>2. prev'[t[i]] = IF i = 1 THEN NULL ELSE s[i - 1]
      BY <1>1, <1>3, <3>1 DEF Holds, Links
    <3>3. i # 1 => i - 1 \in 1..Len(s)
      BY <3>1
    <3>. QED
      BY <1>0, <3>2, <3>3
  <2>. QED
    BY <2>1, <2>2
<1>8. ASSUME NEW i \in 1..Len(t)
      PROVE  next'[t[i]] = IF i = Len(t) THEN NULL ELSE t[i + 1]
  <2>1. CASE i = Len(t)
    BY <1>0, <1>4, <2>1
  <2>2. CASE i # Len(t)
    <3>1. i \in 1..Len(s) /\ t[i] = s[i] /\ s[i] \in Node /\ s[i] # x
      BY <1>0, <1>1, <1>5, <2>2
    <3>2. CASE i = Len(s)
      <4>1. len # 0 /\ s[i] = tail
        BY <1>0, <1>1, <3>1, <3>2 DEF Holds, Links
      <4>2. next'[s[i]] = x
        BY <1>4, <3>1, <4>1, Zenon
      <4>. QED
        BY <1>0, <2>2, <3>1, <3>2, <4>2
    <3>3. CASE i # Len(s)
      <4>1. s[i] # tail
        <5>1. tail = s[Len(s)] /\ Len(s) \in 1..Len(s)
          BY <1>0, <3>1 DEF Holds, Links
        <5>. QED
          BY <3>1, <3>3, <5>1 DEF Holds, Links
      <4>2. next'[s[i]] = next[s[i]]
        BY <1>4, <3>1, <4>1, Zenon
      <4>3. next[s[i]] = s[i + 1] /\ i + 1 \in 1..Len(s)
        BY <1>0, <3>1, <3>3 DEF Holds, Links
      <4>4. t[i + 1] = s[i + 1]
        BY <1>0, <4>3
      <4>. QED
        BY <2>2, <3>1, <4>2, <4>3, <4>4
    <3>. QED
      BY <3>2, <3>3
  <2>. QED
    BY <2>1, <2>2
<1>9. head' = t[1] /\ tail' = t[Len(t)] /\ Len(t) # 0
  <2>1. 1 \in 1..Len(t)
    BY <1>0
  <2>. QED
    BY <1>0, <1>1, <1>2, <1>5, <2>1 DEF Holds, Links
<1>10. live' = Nodes(t)
  <2>1. Nodes(t) \subseteq live'
    BY <1>0, <1>1, <1>2, <1>5 DEF Nodes
  <2>2. x \in Nodes(t)
    BY <1>0 DEF Nodes
  <2>3. ASSUME NEW i \in 1..Len(s) PROVE s[i] \in Nodes(t)
    <3>1. i \in 1..Len(t) /\ t[i] = s[i]
      BY <1>0
    <3>. QED
      BY <3>1 DEF Nodes
  <2>. QED
    BY <1>2, <2>1, <2>2, <2>3 DEF Holds, Nodes
<1>11. Links(t)'
  BY <1>0, <1>1, <1>2, <1>6, <1>7, <1>8, <1>9 DEF Links
<1>. QED
  BY <1>0, <1>10, <1>11 DEF Holds, t, Nodes

\* A node of the list is unlinked.
LEMMA DelNodeLinks ==
    ASSUME Typed, NEW s \in Seq(Node), Holds(s), NEW k \in 1..Len(s), DelNode(s[k])
    PROVE  Holds(RemoveAt(s, k))'
<1>. DEFINE t == RemoveAt(s, k)
            n == Len(s)
<1>0. /\ t \in Seq(Node) /\ n \in Nat /\ Len(t) = n - 1
      /\ \A i \in 1..(n - 1) : t[i] = IF i < k THEN s[i] ELSE s[i + 1]
  BY OutFacts
<1>. HIDE DEF t
<1>1. /\ n = len /\ (\A i \in 1..n : s[i] \in Node)
      /\ \A i, j \in 1..n : s[i] = s[j] => i = j
      /\ \A i \in 1..n : next[s[i]] = IF i = n THEN NULL ELSE s[i + 1]
      /\ \A i \in 1..n : prev[s[i]] = IF i = 1 THEN NULL ELSE s[i - 1]
      /\ head = s[1] /\ tail = s[n]
  BY <1>0, ElementOfSeq DEF Holds, Links
<1>2. \A i \in 1..n : s[i] # NULL
  BY <1>1, NULLAssumption
<1>3. /\ live' = live \ {s[k]} /\ len' = n - 1
  BY <1>1 DEF DelNode
<1>. HIDE DEF n
<1>4. /\ k \in 1..n /\ prev[s[k]] = IF k = 1 THEN NULL ELSE s[k - 1]
      /\ next[s[k]] = IF k = n THEN NULL ELSE s[k + 1]
      /\ k # 1 => k - 1 \in 1..n
      /\ k # n => k + 1 \in 1..n
      /\ prev[s[k]] = NULL <=> k = 1
      /\ next[s[k]] = NULL <=> k = n
  <2>1. k \in 1..n
    BY DEF n
  <2>2. (k # 1 => k - 1 \in 1..n) /\ (k # n => k + 1 \in 1..n)
    BY <1>0, <2>1
  <2>. QED
    BY <1>1, <1>2, <2>1, <2>2
<1>5. \A i \in 1..n : (i # k - 1 \/ k = 1) => next'[s[i]] = next[s[i]]
  BY <1>1, <1>4 DEF DelNode, Typed
<1>6. k # 1 => next'[s[k - 1]] = next[s[k]]
  BY <1>1, <1>4 DEF DelNode, Typed
<1>7. \A i \in 1..n : (i # k + 1 \/ k = n) => prev'[s[i]] = prev[s[i]]
  BY <1>1, <1>4 DEF DelNode, Typed
<1>8. k # n => prev'[s[k + 1]] = prev[s[k]]
  BY <1>1, <1>4 DEF DelNode, Typed
<1>9. /\ head' = IF k = 1 THEN next[s[k]] ELSE head
      /\ tail' = IF k = n THEN prev[s[k]] ELSE tail
  BY <1>4 DEF DelNode, HeadWithout, TailWithout
<1>10. \A i, j \in 1..(n - 1) : t[i] = t[j] => i = j
  <2>. SUFFICES ASSUME NEW i \in 1..(n - 1), NEW j \in 1..(n - 1), t[i] = t[j] PROVE i = j
    OBVIOUS
  <2>1. i \in 1..n /\ j \in 1..n /\ i + 1 \in 1..n /\ j + 1 \in 1..n
    BY <1>0
  <2>2. /\ t[i] = IF i < k THEN s[i] ELSE s[i + 1]
        /\ t[j] = IF j < k THEN s[j] ELSE s[j + 1]
    BY <1>0
  <2>3. CASE i < k /\ j < k
    BY <1>1, <2>1, <2>2, <2>3
  <2>4. CASE i < k /\ ~(j < k)
    <3>1. s[i] = s[j + 1]
      BY <2>2, <2>4
    <3>2. i = j + 1
      BY <1>1, <2>1, <3>1
    <3>. QED
      BY <1>4, <2>4, <3>2
  <2>5. CASE ~(i < k) /\ j < k
    <3>1. s[i + 1] = s[j]
      BY <2>2, <2>5
    <3>2. i + 1 = j
      BY <1>1, <2>1, <3>1
    <3>. QED
      BY <1>4, <2>5, <3>2
  <2>6. CASE ~(i < k) /\ ~(j < k)
    <3>1. s[i + 1] = s[j + 1]
      BY <2>2, <2>6
    <3>2. i + 1 = j + 1
      BY <1>1, <2>1, <3>1
    <3>. QED
      BY <3>2
  <2>. QED
    BY <2>3, <2>4, <2>5, <2>6
<1>11. ASSUME NEW i \in 1..(n - 1)
       PROVE  next'[t[i]] = IF i = n - 1 THEN NULL ELSE t[i + 1]
  <2>0. i \in 1..n /\ i + 1 \in 1..n /\ (i # n - 1 => i + 1 \in 1..(n - 1) /\ i + 2 \in 1..n)
    BY <1>0
  <2>1. CASE i = k - 1
    <3>1. k # 1 /\ t[i] = s[k - 1] /\ (i = n - 1 <=> k = n)
      BY <1>0, <1>4, <2>1
    <3>2. i # n - 1 => t[i + 1] = s[k + 1]
      BY <1>0, <1>4, <2>0, <2>1
    <3>. QED
      BY <1>4, <1>6, <3>1, <3>2
  <2>2. CASE i < k - 1
    <3>1. t[i] = s[i] /\ i # n - 1 /\ i # k - 1 /\ i # n
      BY <1>0, <1>4, <2>0, <2>2
    <3>2. t[i + 1] = s[i + 1]
      BY <1>0, <1>4, <2>0, <2>2, <3>1
    <3>3. next'[s[i]] = s[i + 1]
      BY <1>1, <1>5, <2>0, <3>1
    <3>. QED
      BY <3>1, <3>2, <3>3
  <2>3. CASE i >= k
    <3>1. t[i] = s[i + 1] /\ i + 1 # k - 1
      BY <1>0, <1>4, <2>3
    <3>2. next'[s[i + 1]] = IF i + 1 = n THEN NULL ELSE s[(i + 1) + 1]
      BY <1>1, <1>5, <2>0, <3>1
    <3>3. i # n - 1 => t[i + 1] = s[(i + 1) + 1]
      BY <1>0, <1>4, <2>0, <2>3
    <3>. QED
      BY <1>0, <3>1, <3>2, <3>3
  <2>. QED
    BY <1>4, <2>1, <2>2, <2>3
<1>12. ASSUME NEW i \in 1..(n - 1)
       PROVE  prev'[t[i]] = IF i = 1 THEN NULL ELSE t[i - 1]
  <2>0. i \in 1..n /\ i + 1 \in 1..n /\ (i # 1 => i - 1 \in 1..(n - 1))
    BY <1>0
  <2>1. CASE i = k
    <3>1. k # n /\ t[i] = s[k + 1] /\ (i = 1 <=> k = 1)
      BY <1>0, <1>4, <2>1
    <3>2. i # 1 => t[i - 1] = s[k - 1]
      BY <1>0, <1>4, <2>0, <2>1
    <3>. QED
      BY <1>4, <1>8, <3>1, <3>2
  <2>2. CASE i < k
    <3>1. t[i] = s[i] /\ i # k + 1
      BY <1>0, <1>4, <2>0, <2>2
    <3>2. i # 1 => t[i - 1] = s[i - 1]
      BY <1>0, <1>4, <2>0, <2>2
    <3>3. prev'[s[i]] = IF i = 1 THEN NULL ELSE s[i - 1]
      BY <1>1, <1>7, <2>0, <3>1
    <3>. QED
      BY <3>1, <3>2, <3>3
  <2>3. CASE i > k
    <3>1. t[i] = s[i + 1] /\ i + 1 # k + 1 /\ i # 1 /\ i + 1 # 1 /\ (i + 1) - 1 = i
      BY <1>0, <1>4, <2>3
    <3>2. prev'[s[i + 1]] = s[i]
      BY <1>1, <1>7, <2>0, <3>1
    <3>3. t[i - 1] = s[i]
      <4>1. i - 1 \in 1..(n - 1) /\ ~(i - 1 < k) /\ (i - 1) + 1 = i
        BY <1>4, <2>0, <2>3, <3>1
      <4>. QED
        BY <1>0, <4>1
    <3>. QED
      BY <3>1, <3>2, <3>3
  <2>. QED
    BY <1>4, <2>1, <2>2, <2>3
<1>13. /\ head' = IF n - 1 = 0 THEN NULL ELSE t[1]
       /\ tail' = IF n - 1 = 0 THEN NULL ELSE t[n - 1]
  <2>1. n - 1 # 0 => 1 \in 1..(n - 1) /\ n - 1 \in 1..(n - 1) /\ (n - 1) + 1 = n
    BY <1>0, <1>4
  <2>2. head' = IF n - 1 = 0 THEN NULL ELSE t[1]
    BY <1>0, <1>1, <1>4, <1>9, <2>1
  <2>3. tail' = IF n - 1 = 0 THEN NULL ELSE t[n - 1]
    BY <1>0, <1>1, <1>4, <1>9, <2>1
  <2>. QED
    BY <2>2, <2>3
<1>14. live' = Nodes(t)
  <2>1. live = Nodes(s)
    BY DEF Holds
  <2>2. ASSUME NEW i \in 1..(n - 1) PROVE t[i] \in Nodes(s) /\ t[i] # s[k]
    <3>1. i \in 1..n /\ i + 1 \in 1..n
      BY <1>0
    <3>2. PICK j \in 1..n : t[i] = s[j] /\ j # k
      BY <1>0, <1>4, <3>1
    <3>. QED
      BY <1>1, <1>4, <3>2 DEF Nodes, n
  <2>3. ASSUME NEW j \in 1..n, j # k PROVE s[j] \in Nodes(t)
    <3>1. CASE j < k
      <4>1. j \in 1..(n - 1)
        BY <1>0, <1>4, <3>1
      <4>2. t[j] = s[j]
        BY <1>0, <3>1, <4>1
      <4>. QED
        BY <1>0, <4>1, <4>2 DEF Nodes
    <3>2. CASE j > k
      <4>1. j - 1 \in 1..(n - 1) /\ ~(j - 1 < k) /\ (j - 1) + 1 = j
        BY <1>0, <1>4, <3>2
      <4>2. t[j - 1] = s[j]
        BY <1>0, <4>1
      <4>. QED
        BY <1>0, <4>1, <4>2 DEF Nodes
    <3>. QED
      BY <1>4, <2>3, <3>1, <3>2
  <2>4. Nodes(t) \subseteq live'
    BY <1>0, <1>3, <2>1, <2>2 DEF Nodes
  <2>5. live' \subseteq Nodes(t)
    <3>1. ASSUME NEW y \in live' PROVE y \in Nodes(t)
      <4>1. y \in Nodes(s) /\ y # s[k]
        BY <1>3, <2>1
      <4>2. PICK j \in 1..n : y = s[j]
        BY <4>1 DEF Nodes, n
      <4>. QED
        BY <2>3, <4>1, <4>2
    <3>. QED
      BY <3>1
  <2>. QED
    BY <2>4, <2>5
<1>15. Links(t)'
  BY <1>0, <1>3, <1>10, <1>11, <1>12, <1>13 DEF Links
<1>. QED
  BY <1>0, <1>14, <1>15 DEF Holds, t, Nodes
\* The fields keep their types when a node is put in.
LEMMA AddTyped ==
    ASSUME Typed, NEW s \in Seq(Node), Holds(s), NEW x \in Node, NEW v \in Value,
           AddHead(x, v) \/ AddTail(x, v)
    PROVE  Typed' /\ pc' = "list" /\ live' = live \cup {x} /\ x \notin live /\ len' = len + 1
<1>0. /\ pc = "list" /\ pc' = pc /\ value' = [value EXCEPT ![x] = v]
      /\ live' = live \cup {x} /\ x \notin live /\ len' = len + 1
  BY DEF AddHead, LinkInFront, AddTail, LinkBehind, Allocate
<1>1. value' \in [Node -> Value \cup {NULL}]
  BY <1>0 DEF Typed
<1>2. head \in Node \cup {NULL} /\ tail \in Node \cup {NULL}
  <2>1. Len(s) # 0 => s[1] \in Node /\ s[Len(s)] \in Node
    <3>1. Len(s) # 0 => 1 \in 1..Len(s) /\ Len(s) \in 1..Len(s)
      BY LenProperties
    <3>. QED
      BY <3>1, ElementOfSeq
  <2>. QED
    BY <2>1 DEF Holds, Links
<1>3. CASE AddHead(x, v)
  <2>1. next' \in [Node -> Node \cup {NULL}]
    BY <1>2, <1>3 DEF AddHead, LinkInFront, Typed
  <2>2. ASSUME NEW y \in Node
        PROVE  (CASE y = x -> NULL [] len # 0 /\ y = head -> x [] OTHER -> prev[y])
                    \in Node \cup {NULL}
    <3>1. prev[y] \in Node \cup {NULL} /\ x \in Node \cup {NULL} /\ NULL \in Node \cup {NULL}
      BY DEF Typed
    <3>2. CASE y = x /\ ~(len # 0 /\ y = head)
      BY <3>1, <3>2, Zenon
    <3>3. CASE y # x /\ len # 0 /\ y = head
      BY <3>1, <3>3, Zenon
    <3>4. CASE y # x /\ ~(len # 0 /\ y = head)
      BY <3>1, <3>4, Zenon
    <3>5. ~(y = x /\ len # 0 /\ y = head)
      <4>1. len # 0 => head \in live
        BY LenProperties DEF Holds, Links, Nodes
      <4>. QED
        BY <1>0, <4>1
    <3>. QED
      BY <3>2, <3>3, <3>4, <3>5
  <2>3. prev' \in [Node -> Node \cup {NULL}]
    BY <1>3, <2>2, Zenon DEF AddHead, LinkInFront
  <2>. QED
    BY <1>0, <1>1, <2>1, <2>3 DEF Typed
<1>4. CASE AddTail(x, v)
  <2>1. prev' \in [Node -> Node \cup {NULL}]
    BY <1>2, <1>4 DEF AddTail, LinkBehind, Typed, LastNode
  <2>2. ASSUME NEW y \in Node
        PROVE  (CASE y = x -> NULL [] len # 0 /\ y = tail -> x [] OTHER -> next[y])
                    \in Node \cup {NULL}
    <3>1. next[y] \in Node \cup {NULL} /\ x \in Node \cup {NULL} /\ NULL \in Node \cup {NULL}
      BY DEF Typed
    <3>2. CASE y = x /\ ~(len # 0 /\ y = tail)
      BY <3>1, <3>2, Zenon
    <3>3. CASE y # x /\ len # 0 /\ y = tail
      BY <3>1, <3>3, Zenon
    <3>4. CASE y # x /\ ~(len # 0 /\ y = tail)
      BY <3>1, <3>4, Zenon
    <3>5. ~(y = x /\ len # 0 /\ y = tail)
      <4>1. len # 0 => tail \in live
        BY LenProperties DEF Holds, Links, Nodes
      <4>. QED
        BY <1>0, <4>1
    <3>. QED
      BY <3>2, <3>3, <3>4, <3>5
  <2>3. next' \in [Node -> Node \cup {NULL}]
    BY <1>4, <2>2, Zenon DEF AddTail, LinkBehind
  <2>. QED
    BY <1>0, <1>1, <2>1, <2>3 DEF Typed
<1>. QED
  BY <1>0, <1>3, <1>4

\* The fields keep their types when a node is taken out.
LEMMA DelTyped ==
    ASSUME Typed, NEW x \in Node, DelNode(x)
    PROVE  Typed'
<1>1. prev[x] \in Node \cup {NULL} /\ next[x] \in Node \cup {NULL}
  BY DEF Typed
<1>2. next' \in [Node -> Node \cup {NULL}]
  BY <1>1 DEF DelNode, Typed
<1>3. prev' \in [Node -> Node \cup {NULL}]
  BY <1>1 DEF DelNode, Typed
<1>. QED
  BY <1>2, <1>3 DEF DelNode, Typed

\* The first step of deletelist.
LEMMA DeleteStartKeeps ==
    ASSUME NEW s \in Seq(Node), Holds(s), DeleteStart
    PROVE  Deleting(s)'
<1>0. /\ cur' = head /\ left' = len
      /\ UNCHANGED <<head, tail, len, next, prev, live>>
  BY DEF DeleteStart, fields
<1>1. Len(s) \in Nat /\ Len(s) = len
  BY LenProperties DEF Holds, Links
<1>2. Links(s)'
  BY <1>0 DEF Links, Holds
<1>3. left' \in 0..Len(s) /\ (Len(s) - left') + 1 = 1
  BY <1>0, <1>1
<1>4. live' = {s[i] : i \in (Len(s) - left' + 1)..Len(s)}
  BY <1>0, <1>3 DEF Holds, Nodes
<1>5. left' # 0 => cur' = s[Len(s) - left' + 1]
  BY <1>0, <1>1, <1>3 DEF Holds, Links
<1>. QED
  BY <1>2, <1>3, <1>4, <1>5 DEF Deleting

\* deletelist frees the node it is at, and the next one is allocated.
LEMMA DeleteStepKeeps ==
    ASSUME NEW s \in Seq(Node), Deleting(s), DeleteStep
    PROVE  Deleting(s)' /\ pc' = pc
<1>. DEFINE n == Len(s)
            at == n - left + 1
<1>0. n \in Nat /\ left \in 1..n /\ at \in 1..n /\ cur = s[at]
  BY LenProperties DEF Deleting, DeleteStep
<1>1. live = {s[i] : i \in at..n}
  BY DEF Deleting
<1>2. cur \in live
  BY <1>0, <1>1
<1>3. /\ live' = live \ {cur} /\ cur' = next[cur] /\ left' = left - 1 /\ pc' = pc
      /\ UNCHANGED <<head, tail, len, next, prev>>
  BY <1>2 DEF DeleteStep, fields
<1>4. n - left' + 1 = at + 1 /\ left' \in 0..n
  BY <1>0, <1>3
<1>5. Links(s)'
  BY <1>3 DEF Deleting, Links
<1>6. \A i, j \in 1..n : s[i] = s[j] => i = j
  BY DEF Deleting, Links
<1>7. live' = {s[i] : i \in (at + 1)..n}
  <2>1. \A i \in (at + 1)..n : i \in at..n /\ i \in 1..n /\ i # at
    BY <1>0
  <2>2. \A i \in at..n : i \in 1..n /\ (i # at => i \in (at + 1)..n)
    BY <1>0
  <2>. HIDE DEF at, n
  <2>3. {s[i] : i \in (at + 1)..n} \subseteq live'
    BY <1>0, <1>1, <1>3, <1>6, <2>1
  <2>4. live' \subseteq {s[i] : i \in (at + 1)..n}
    BY <1>0, <1>1, <1>3, <2>2
  <2>. QED
    BY <2>3, <2>4
<1>8. left' # 0 => cur' = s[at + 1]
  <2>1. left' # 0 => at # n
    BY <1>0, <1>3
  <2>2. next[s[at]] = IF at = n THEN NULL ELSE s[at + 1]
    BY <1>0 DEF Deleting, Links
  <2>. QED
    BY <1>0, <1>3, <2>1, <2>2
<1>9. /\ live' = {s[i] : i \in (n - left' + 1)..n}
      /\ left' # 0 => cur' = s[n - left' + 1]
  <2>. HIDE DEF at
  <2>. QED
    BY <1>4, <1>7, <1>8
<1>. QED
  BY <1>3, <1>4, <1>5, <1>9 DEF Deleting

-----------------------------------------------------------------------------

\* Init makes IInv true and every action keeps it.
THEOREM Invariant == Spec => []IInv
<1>1. Init => IInv
  BY DEF Init, IInv, Typed
<1>2. IInv /\ [Next]_vars => IInv'
  <2>. SUFFICES ASSUME IInv, [Next]_vars PROVE IInv'
    OBVIOUS
  <2>0. Typed
    BY DEF IInv
  <2>1. CASE CreatList
    <3>1. /\ pc' = "list" /\ head' = NULL /\ tail' = NULL /\ len' = 0 /\ live' = {}
          /\ UNCHANGED <<next, prev, value>>
      BY <2>1 DEF CreatList, IInv, fields
    <3>2. <<>> \in Seq(Node) /\ Len(<<>>) = 0
      BY EmptySeq
    <3>3. Holds(<<>>)'
      BY <3>1, <3>2 DEF Holds, Links, Nodes
    <3>4. IsFiniteSet(live') /\ Cardinality(live') = len'
      BY <3>1, FS_EmptySet
    <3>. QED
      BY <2>0, <3>1, <3>2, <3>3, <3>4 DEF IInv, Typed
  <2>2. ASSUME NEW x \in Node, NEW v \in Value, AddHead(x, v) \/ AddTail(x, v) PROVE IInv'
    <3>1. PICK s \in Seq(Node) : Holds(s)
      BY <2>2 DEF IInv, AddHead, LinkInFront, AddTail, LinkBehind, Allocate
    <3>2. Typed' /\ pc' = "list" /\ live' = live \cup {x} /\ x \notin live /\ len' = len + 1
      BY <2>0, <2>2, <3>1, AddTyped
    <3>3. \E t \in Seq(Node) : Holds(t)'
      <4>1. CASE AddHead(x, v)
        <5>1. Holds(Cons(x, s))'
          BY <2>0, <3>1, <4>1, AddHeadLinks
        <5>2. Cons(x, s) \in Seq(Node)
          BY FrontFacts DEF InFront
        <5>. QED
          BY <5>1, <5>2
      <4>2. CASE AddTail(x, v)
        <5>1. Holds(Append(s, x))'
          BY <2>0, <3>1, <4>2, AddTailLinks
        <5>2. Append(s, x) \in Seq(Node)
          BY BackFacts
        <5>. QED
          BY <5>1, <5>2
      <4>. QED
        BY <2>2, <4>1, <4>2
    <3>4. IsFiniteSet(live') /\ Cardinality(live') = len'
      <4>1. IsFiniteSet(live) /\ Cardinality(live) = len
        BY <2>2 DEF IInv, AddHead, LinkInFront, AddTail, LinkBehind, Allocate
      <4>. QED
        BY <3>2, <4>1, FS_AddElement
    <3>. QED
      BY <3>2, <3>3, <3>4 DEF IInv
  <2>3. ASSUME NEW x \in Node, DelNode(x) PROVE IInv'
    <3>1. PICK s \in Seq(Node) : Holds(s)
      BY <2>3 DEF IInv, DelNode
    <3>2. PICK k \in 1..Len(s) : x = s[k]
      BY <2>3, <3>1 DEF DelNode, Holds, Nodes
    <3>3. Holds(RemoveAt(s, k))'
      BY <2>0, <2>3, <3>1, <3>2, DelNodeLinks
    <3>4. RemoveAt(s, k) \in Seq(Node)
      BY OutFacts
    <3>5. IsFiniteSet(live') /\ Cardinality(live') = len'
      <4>1. /\ IsFiniteSet(live) /\ Cardinality(live) = len
            /\ live' = live \ {x} /\ x \in live /\ len' = len - 1
        BY <2>3 DEF IInv, DelNode
      <4>. QED
        BY <4>1, FS_RemoveElement
    <3>6. Typed' /\ pc' = "list"
      BY <2>0, <2>3, DelTyped DEF DelNode
    <3>. QED
      BY <3>3, <3>4, <3>5, <3>6 DEF IInv
  <2>4. CASE DeleteStart
    <3>1. PICK s \in Seq(Node) : Holds(s)
      BY <2>4 DEF IInv, DeleteStart
    <3>2. Deleting(s)'
      BY <2>4, <3>1, DeleteStartKeeps
    <3>. QED
      BY <2>0, <2>4, <3>2 DEF IInv, DeleteStart, Typed, fields
  <2>5. CASE DeleteStep
    <3>1. PICK s \in Seq(Node) : Deleting(s)
      BY <2>5 DEF IInv, DeleteStep
    <3>2. Deleting(s)' /\ pc' = "deleting"
      BY <2>5, <3>1, DeleteStepKeeps DEF DeleteStep
    <3>. QED
      BY <2>0, <2>5, <3>2 DEF IInv, DeleteStep, Typed, fields
  <2>6. CASE DeleteDone
    <3>1. PICK s \in Seq(Node) : Deleting(s)
      BY <2>6 DEF IInv, DeleteDone
    <3>2. live = {}
      <4>1. Len(s) \in Nat /\ left = 0
        BY <2>6, LenProperties DEF DeleteDone
      <4>2. (Len(s) - left + 1)..Len(s) = {}
        BY <4>1
      <4>. QED
        BY <3>1, <4>2 DEF Deleting
    <3>. QED
      BY <2>0, <2>6, <3>2 DEF IInv, DeleteDone, Typed, fields
  <2>7. CASE UNCHANGED vars
    <3>1. ASSUME NEW s PROVE (Holds(s) => Holds(s)') /\ (Deleting(s) => Deleting(s)')
      BY <2>7 DEF vars, Holds, Deleting, Links, Nodes
    <3>. QED
      BY <2>7, <3>1 DEF vars, IInv, Typed
  <2>. QED
    BY <2>1, <2>2, <2>3, <2>4, <2>5, <2>6, <2>7 DEF Next
<1>. QED
  BY <1>1, <1>2, PTL DEF Spec

\* A traversal from either end meets every node that is allocated, once, in
\* opposite orders, and len counts them.
THEOREM TraversalsAgree == Spec => []ListSound
<1>1. ASSUME IInv, pc = "list"
      PROVE  /\ ToSet(Forward) = live
             /\ IsInjective(Forward)
             /\ Backward = Reverse(Forward)
             /\ Cardinality(live) = len
             /\ len # 0 => next[tail] = NULL /\ prev[head] = NULL
  <2>1. PICK s \in Seq(Node) : Holds(s)
    BY <1>1 DEF IInv
  <2>2. Forward = s /\ Backward = Reverse(s)
    BY <2>1, TraversalFacts DEF Holds
  <2>3. Len(s) \in Nat /\ DOMAIN s = 1..Len(s)
    BY LenProperties
  <2>4. ToSet(s) = live
    BY <2>1, <2>3, Zenon DEF ToSet, Holds, Nodes
  <2>5. IsInjective(s)
    BY <2>1, <2>3, Zenon DEF IsInjective, Holds, Links
  <2>6. len # 0 => next[tail] = NULL /\ prev[head] = NULL
    <3>1. Len(s) # 0 => 1 \in 1..Len(s) /\ Len(s) \in 1..Len(s)
      BY <2>3
    <3>. QED
      BY <2>1, <3>1 DEF Holds, Links
  <2>7. Cardinality(live) = len
    BY <1>1 DEF IInv
  <2>. QED
    BY <2>2, <2>4, <2>5, <2>6, <2>7
<1>2. IInv => ListSound
  BY <1>1 DEF ListSound
<1>. QED
  BY <1>2, Invariant, PTL

\* deletelist never follows a null or freed pointer and frees every node.
THEOREM DeleteFreesAll == Spec => []AllFreed
<1>1. IInv => AllFreed
  BY DEF IInv, Typed, AllFreed
<1>. QED
  BY <1>1, Invariant, PTL
-----------------------------------------------------------------------------
(* The sequence *)

\* Handles with their values.
Pairing(s, v) == [i \in 1..Len(s) |-> <<s[i], v[s[i]]>>]
Element == Node \X (Value \cup {NULL})

\* The items are the nodes the list links up.
ItemsLinked ==
    /\ \A s \in Seq(Node) :
          (pc = "list" /\ Links(s)) => Items = Pairing(s, value) /\ Length = Len(s)
    /\ pc # "list" => Items = <<>> /\ Length = 0

\* The sequence the pointers stand for.
LEMMA ItemsFacts == ItemsLinked
<1>1. ASSUME NEW s \in Seq(Node), pc = "list", Links(s)
      PROVE  Items = Pairing(s, value) /\ Length = Len(s)
  <2>1. Forward = s /\ Len(s) = len
    BY <1>1, TraversalFacts DEF Links
  <2>. QED
    BY <1>1, <2>1 DEF Items, Length, Pairing
<1>2. pc # "list" => Items = <<>> /\ Length = 0
  BY DEF Items, Length
<1>. QED
  BY <1>1, <1>2 DEF ItemsLinked

\* The elements of a sequence of handles and values.
LEMMA PairingFacts ==
    ASSUME NEW v \in [Node -> Value \cup {NULL}], NEW s \in Seq(Node)
    PROVE  /\ Pairing(s, v) \in Seq(Element)
           /\ Len(Pairing(s, v)) = Len(s) /\ Len(s) \in Nat
           /\ \A i \in 1..Len(s) : Pairing(s, v)[i] = <<s[i], v[s[i]]>> /\ s[i] \in Node
<1>1. Len(s) \in Nat /\ \A i \in 1..Len(s) : s[i] \in Node
  BY LenProperties, ElementOfSeq
<1>2. \A i \in 1..Len(s) : <<s[i], v[s[i]]>> \in Element
  BY <1>1 DEF Element
<1>3. Pairing(s, v) \in Seq(Element) /\ Len(Pairing(s, v)) = Len(s)
  <2>. HIDE DEF Element
  <2>. QED
    BY <1>1, <1>2, SMT DEF Pairing
<1>. QED
  BY <1>1, <1>3 DEF Pairing

\* Two sequences of one length that agree everywhere are one.
LEMMA SameSequence ==
    ASSUME NEW S, NEW a \in Seq(S), NEW b \in Seq(S), Len(a) = Len(b),
           \A i \in 1..Len(a) : a[i] = b[i]
    PROVE  a = b
<1>1. a = [i \in 1..Len(a) |-> a[i]] /\ b = [i \in 1..Len(b) |-> b[i]]
  OBVIOUS
<1>. QED
  BY <1>1

\* AddHead pushes the handle and its value in front.
LEMMA AddHeadPushes ==
    ASSUME IInv, IInv', NEW x \in Node, NEW v \in Value, AddHead(x, v)
    PROVE  /\ \A i \in 1..Len(Items) : Items[i][1] # x
           /\ Items' = Cons(<<x, v>>, Items) /\ Length' = Length + 1
<1>1. PICK s \in Seq(Node) : Holds(s)
  BY DEF IInv, AddHead, LinkInFront, Allocate
<1>. DEFINE t == Cons(x, s)
            p == Pairing(s, value)
            q == Pairing(t, value')
<1>2. /\ pc = "list" /\ pc' = "list" /\ x \notin live
      /\ value \in [Node -> Value \cup {NULL}] /\ value' \in [Node -> Value \cup {NULL}]
      /\ value'[x] = v /\ \A y \in Node : y # x => value'[y] = value[y]
  BY DEF AddHead, LinkInFront, Allocate, IInv, Typed
<1>3. Holds(t)' /\ InFront(t, s, x, Node)
  BY <1>1, AddHeadLinks, FrontFacts DEF IInv
<1>4. Items = p /\ Length = Len(s)
  BY <1>1, <1>2, ItemsFacts DEF Holds, ItemsLinked
<1>5. Items' = q /\ Length' = Len(t)
  <2>1. ItemsLinked'
    BY ItemsFacts, PTL
  <2>2. t \in Seq(Node) /\ Links(t)'
    BY <1>3 DEF Holds, InFront
  <2>. HIDE DEF t
  <2>. QED
    BY <1>2, <2>1, <2>2 DEF ItemsLinked
<1>6. /\ p \in Seq(Element) /\ Len(p) = Len(s) /\ Len(s) \in Nat
      /\ \A i \in 1..Len(s) : p[i] = <<s[i], value[s[i]]>> /\ s[i] \in Node
  BY <1>2, PairingFacts, Zenon
<1>7. /\ q \in Seq(Element) /\ Len(q) = Len(t)
      /\ \A i \in 1..Len(t) : q[i] = <<t[i], value'[t[i]]>>
  <2>1. t \in Seq(Node)
    BY <1>3 DEF InFront
  <2>. HIDE DEF t
  <2>. QED
    BY <1>2, <2>1, PairingFacts, Zenon
<1>8. \A i \in 1..Len(s) : s[i] # x
  BY <1>1, <1>2 DEF Holds, Nodes
<1>. DEFINE c == Cons(<<x, v>>, p)
<1>9. InFront(c, p, <<x, v>>, Element)
  <2>1. <<x, v>> \in Element
    BY DEF Element
  <2>. QED
    BY <1>6, <2>1, FrontFacts
<1>. HIDE DEF t, p, q, c
<1>10. q = c
  <2>1. ASSUME NEW i \in 1..Len(q) PROVE q[i] = c[i]
    <3>1. CASE i = 1
      BY <1>2, <1>3, <1>7, <1>9, <2>1, <3>1 DEF InFront
    <3>2. CASE i # 1
      <4>1. i \in 2..(Len(s) + 1) /\ i - 1 \in 1..Len(s)
        BY <1>3, <1>6, <1>7, <3>2 DEF InFront
      <4>2. q[i] = <<s[i - 1], value'[s[i - 1]]>>
        BY <1>3, <1>7, <4>1 DEF InFront
      <4>3. c[i] = <<s[i - 1], value[s[i - 1]]>>
        BY <1>6, <1>9, <4>1 DEF InFront
      <4>. QED
        BY <1>2, <1>6, <1>8, <4>1, <4>2, <4>3
    <3>. QED
      BY <3>1, <3>2
  <2>2. Len(q) = Len(c) /\ c \in Seq(Element)
    BY <1>3, <1>6, <1>7, <1>9 DEF InFront
  <2>. QED
    BY <1>7, <2>1, <2>2, SameSequence
<1>11. \A i \in 1..Len(Items) : Items[i][1] # x
  BY <1>4, <1>6, <1>8
<1>. QED
  BY <1>3, <1>4, <1>5, <1>10, <1>11 DEF c, InFront

\* AddTail pushes the handle and its value behind.
LEMMA AddTailPushes ==
    ASSUME IInv, IInv', NEW x \in Node, NEW v \in Value, AddTail(x, v)
    PROVE  /\ \A i \in 1..Len(Items) : Items[i][1] # x
           /\ Items' = Append(Items, <<x, v>>) /\ Length' = Length + 1
<1>1. PICK s \in Seq(Node) : Holds(s)
  BY DEF IInv, AddTail, LinkBehind, Allocate
<1>. DEFINE t == Append(s, x)
            p == Pairing(s, value)
            q == Pairing(t, value')
<1>2. /\ pc = "list" /\ pc' = "list" /\ x \notin live
      /\ value \in [Node -> Value \cup {NULL}] /\ value' \in [Node -> Value \cup {NULL}]
      /\ value'[x] = v /\ \A y \in Node : y # x => value'[y] = value[y]
  BY DEF AddTail, LinkBehind, Allocate, IInv, Typed
<1>3. Holds(t)'
  BY <1>1, AddTailLinks DEF IInv
<1>3a. /\ t \in Seq(Node) /\ Len(s) \in Nat /\ Len(t) = Len(s) + 1
       /\ \A i \in 1..Len(s) : t[i] = s[i]
       /\ t[Len(s) + 1] = x
  BY BackFacts
<1>4. Items = p /\ Length = Len(s)
  BY <1>1, <1>2, ItemsFacts DEF Holds, ItemsLinked
<1>5. Items' = q /\ Length' = Len(t)
  <2>1. ItemsLinked'
    BY ItemsFacts, PTL
  <2>2. t \in Seq(Node) /\ Links(t)'
    BY <1>3, <1>3a DEF Holds
  <2>. HIDE DEF t
  <2>. QED
    BY <1>2, <2>1, <2>2 DEF ItemsLinked
<1>6. /\ p \in Seq(Element) /\ Len(p) = Len(s) /\ Len(s) \in Nat
      /\ \A i \in 1..Len(s) : p[i] = <<s[i], value[s[i]]>> /\ s[i] \in Node
  BY <1>2, PairingFacts, Zenon
<1>7. /\ q \in Seq(Element) /\ Len(q) = Len(t)
      /\ \A i \in 1..Len(t) : q[i] = <<t[i], value'[t[i]]>>
  <2>. HIDE DEF t
  <2>. QED
    BY <1>2, <1>3a, PairingFacts, Zenon
<1>8. \A i \in 1..Len(s) : s[i] # x
  BY <1>1, <1>2 DEF Holds, Nodes
<1>. DEFINE c == Append(p, <<x, v>>)
<1>9. /\ c \in Seq(Element) /\ Len(c) = Len(p) + 1
      /\ \A i \in 1..Len(p) : c[i] = p[i]
      /\ c[Len(p) + 1] = <<x, v>>
  <2>1. <<x, v>> \in Element
    BY DEF Element
  <2>. HIDE DEF p
  <2>. QED
    BY <1>6, <2>1, BackFacts
<1>. HIDE DEF t, p, q, c
<1>10. q = c
  <2>1. ASSUME NEW i \in 1..Len(q) PROVE q[i] = c[i]
    <3>1. CASE i = Len(s) + 1
      BY <1>2, <1>3a, <1>6, <1>7, <1>9, <2>1, <3>1
    <3>2. CASE i # Len(s) + 1
      <4>1. i \in 1..Len(s) /\ i \in 1..Len(t)
        BY <1>3a, <1>6, <1>7, <3>2
      <4>2. q[i] = <<s[i], value'[s[i]]>>
        BY <1>3a, <1>7, <4>1
      <4>3. c[i] = <<s[i], value[s[i]]>>
        BY <1>6, <1>9, <4>1
      <4>. QED
        BY <1>2, <1>6, <1>8, <4>1, <4>2, <4>3
    <3>. QED
      BY <3>1, <3>2
  <2>2. Len(q) = Len(c)
    BY <1>3a, <1>6, <1>7, <1>9
  <2>. QED
    BY <1>7, <1>9, <2>1, <2>2, SameSequence
<1>11. \A i \in 1..Len(Items) : Items[i][1] # x
  BY <1>4, <1>6, <1>8
<1>. QED
  BY <1>3a, <1>4, <1>5, <1>10, <1>11 DEF c

\* DelNode takes out the element of its handle.
LEMMA DelNodeTakesOut ==
    ASSUME IInv, IInv', NEW x \in Node, DelNode(x)
    PROVE  \E k \in 1..Len(Items) :
              Items' = RemoveAt(Items, k) /\ Length' = Length - 1 /\ x = Items[k][1]
<1>1. PICK s \in Seq(Node) : Holds(s)
  BY DEF IInv, DelNode
<1>1a. PICK k \in 1..Len(s) : x = s[k]
  BY <1>1 DEF DelNode, Holds, Nodes
<1>. DEFINE t == RemoveAt(s, k)
            p == Pairing(s, value)
            q == Pairing(t, value)
<1>2. /\ pc = "list" /\ pc' = "list"
      /\ value \in [Node -> Value \cup {NULL}] /\ value' = value
  BY DEF DelNode, IInv, Typed
<1>3. Holds(t)'
  BY <1>1, <1>1a, DelNodeLinks DEF IInv
<1>3a. /\ t \in Seq(Node) /\ Len(s) \in Nat /\ Len(t) = Len(s) - 1
       /\ \A i \in 1..(Len(s) - 1) : t[i] = IF i < k THEN s[i] ELSE s[i + 1]
  BY OutFacts
<1>4. Items = p /\ Length = Len(s)
  BY <1>1, <1>2, ItemsFacts DEF Holds, ItemsLinked
<1>5. Items' = q /\ Length' = Len(t)
  <2>1. ItemsLinked'
    BY ItemsFacts, PTL
  <2>2. t \in Seq(Node) /\ Links(t)'
    BY <1>3, <1>3a DEF Holds
  <2>. HIDE DEF t
  <2>. QED
    BY <1>2, <2>1, <2>2 DEF ItemsLinked
<1>6. /\ p \in Seq(Element) /\ Len(p) = Len(s) /\ Len(s) \in Nat
      /\ \A i \in 1..Len(s) : p[i] = <<s[i], value[s[i]]>> /\ s[i] \in Node
  BY <1>2, PairingFacts, Zenon
<1>7. /\ q \in Seq(Element) /\ Len(q) = Len(t)
      /\ \A i \in 1..Len(t) : q[i] = <<t[i], value[t[i]]>>
  <2>. HIDE DEF t
  <2>. QED
    BY <1>2, <1>3a, PairingFacts, Zenon
<1>. DEFINE c == RemoveAt(p, k)
<1>9. /\ c \in Seq(Element) /\ Len(c) = Len(p) - 1
      /\ \A i \in 1..(Len(p) - 1) : c[i] = IF i < k THEN p[i] ELSE p[i + 1]
  <2>1. k \in 1..Len(p)
    BY <1>6
  <2>. HIDE DEF p
  <2>. QED
    BY <1>6, <2>1, OutFacts
<1>. HIDE DEF t, p, q, c
<1>10. q = c
  <2>1. ASSUME NEW i \in 1..Len(q) PROVE q[i] = c[i]
    <3>1. /\ i \in 1..(Len(s) - 1) /\ i \in 1..Len(t) /\ i \in 1..(Len(p) - 1)
          /\ i \in 1..Len(s) /\ i + 1 \in 1..Len(s)
      BY <1>3a, <1>6, <1>7
    <3>2. CASE i < k
      <4>1. t[i] = s[i] /\ c[i] = p[i]
        BY <1>3a, <1>9, <3>1, <3>2
      <4>. QED
        BY <1>6, <1>7, <3>1, <4>1
    <3>3. CASE ~(i < k)
      <4>1. t[i] = s[i + 1] /\ c[i] = p[i + 1]
        BY <1>3a, <1>9, <3>1, <3>3
      <4>. QED
        BY <1>6, <1>7, <3>1, <4>1
    <3>. QED
      BY <3>2, <3>3
  <2>2. Len(q) = Len(c)
    BY <1>3a, <1>6, <1>7, <1>9
  <2>. QED
    BY <1>7, <1>9, <2>1, <2>2, SameSequence
<1>11. k \in 1..Len(Items) /\ Items' = RemoveAt(Items, k) /\ Length' = Length - 1
  BY <1>3a, <1>4, <1>5, <1>6, <1>10 DEF c
<1>12. x = Items[k][1]
  BY <1>1a, <1>4, <1>6
<1>. QED
  BY <1>11, <1>12

\* Every step of the list is one of the sequence, or is not visible in it.
LEMMA StepIsPromised ==
    ASSUME IInv, IInv', [Next]_vars
    PROVE  [Promise!Next]_<<Items, Length, call>>
<1>0. ItemsLinked /\ ItemsLinked'
  BY ItemsFacts, PTL
<1>1. ASSUME Items' = <<>>, Length' = 0, call' = <<"delete">> PROVE Promise!Next
  BY <1>1 DEF Promise!Next, Promise!Delete
<1>2. CASE CreatList
  <2>1. Items = <<>> /\ Length = 0
    BY <1>0, <1>2 DEF CreatList, ItemsLinked
  <2>2. Items' = <<>> /\ Length' = 0
    <3>1. PICK s \in Seq(Node) : Holds(s)'
      BY <1>2 DEF CreatList, IInv
    <3>2. pc' = "list" /\ len' = 0 /\ Len(s) = 0 /\ s = <<>>
      <4>1. Len(s) = len' /\ len' = 0
        BY <1>2, <3>1 DEF CreatList, Holds, Links
      <4>. QED
        BY <1>2, <4>1, EmptySeq DEF CreatList
    <3>3. Items' = Pairing(<<>>, value') /\ Length' = 0
      BY <1>0, <3>1, <3>2 DEF ItemsLinked, Holds
    <3>4. Pairing(<<>>, value') = <<>>
      BY SMT DEF Pairing
    <3>. QED
      BY <3>3, <3>4
  <2>3. call' = call
    BY <1>2 DEF CreatList
  <2>. QED
    BY <2>1, <2>2, <2>3
<1>3. ASSUME NEW x \in Node, NEW v \in Value, AddHead(x, v) \/ AddTail(x, v)
      PROVE  Promise!Next
  <2>1. CASE AddHead(x, v)
    <3>0. Promise!Cons(<<x, v>>, Items) = Cons(<<x, v>>, Items)
      BY DEF Promise!Cons, Cons
    <3>1a. call' = <<"head", x, v>>
      BY <2>1 DEF AddHead
    <3>1. Promise!PushFront(x, v)
      BY <2>1, <3>0, <3>1a, AddHeadPushes DEF Promise!PushFront, Promise!Unused
    <3>. QED
      BY <3>1 DEF Promise!Next
  <2>2. CASE AddTail(x, v)
    <3>0. call' = <<"tail", x, v>>
      BY <2>2 DEF AddTail
    <3>1. Promise!PushBack(x, v)
      BY <2>2, <3>0, AddTailPushes DEF Promise!PushBack, Promise!Unused
    <3>. QED
      BY <3>1 DEF Promise!Next
  <2>. QED
    BY <1>3, <2>1, <2>2
<1>4. ASSUME NEW x \in Node, DelNode(x) PROVE Promise!Next
  <2>0. call' = <<"del", x>>
    BY <1>4 DEF DelNode
  <2>1. PICK k \in 1..Len(Items) :
            Items' = RemoveAt(Items, k) /\ Length' = Length - 1 /\ x = Items[k][1]
    BY <1>4, DelNodeTakesOut
  <2>2. Promise!TakeOut(k)
    <3>1. Promise!RemoveAt(Items, k) = RemoveAt(Items, k)
      BY DEF Promise!RemoveAt, RemoveAt
    <3>. QED
      BY <2>0, <2>1, <3>1 DEF Promise!TakeOut
  <2>. QED
    BY <2>1, <2>2 DEF Promise!Next
<1>5. CASE DeleteStart
  BY <1>0, <1>1, <1>5 DEF DeleteStart, ItemsLinked
<1>6. CASE DeleteStep \/ DeleteDone
  <2>1. pc # "list" /\ pc' # "list" /\ call' = call
    BY <1>6 DEF DeleteStep, DeleteDone
  <2>. QED
    BY <1>0, <2>1 DEF ItemsLinked
<1>7. CASE UNCHANGED vars
  <2>1. Items' = Items /\ Length' = Length /\ call' = call
    BY <1>7 DEF vars, Items, Length, Forward, Along
  <2>. QED
    BY <2>1
<1>. QED
  BY <1>2, <1>3, <1>4, <1>5, <1>6, <1>7 DEF Next

\* The pointers implement the sequence, call by call: what was asked to be
\* added stands at the end that was asked for, a removal takes out the node it
\* was given, and the order of the rest, the handles and the values survive.
THEOREM ListIsDeque == Spec => ImplementsDeque
<1>1. Init => Promise!Init
  BY DEF Init, Promise!Init, Items, Length
<1>2. IInv /\ IInv' /\ [Next]_vars => [Promise!Next]_(Promise!vars)
  BY StepIsPromised DEF Promise!vars
<1>3. Spec => Promise!Spec
  BY <1>1, <1>2, Invariant, PTL DEF Spec, Promise!Spec
<1>. QED
  BY <1>3 DEF ImplementsDeque
=============================================================================
