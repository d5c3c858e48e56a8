----------------------------- MODULE ZiplistProofs -----------------------------
(***************************************************************************)
(* What the header of a ziplist promises, and that what an insertion       *)
(* writes lies in the bytes it reserved and is read back as it was meant:  *)
(* for every number of values of a byte, every four widths of integers,    *)
(* every size of the block, and all texts and lengths below that number    *)
(* to the fourth power.                                                    *)
(*                                                                         *)
(* The recursive functions of ZiplistCodec are reasoned about with sets:   *)
(* the numbers at which a claim holds contain 0 and, with each of them,    *)
(* the next.                                                               *)
(***************************************************************************)
EXTENDS Ziplist, SequenceTheorems, NaturalsInduction, WellFoundedInduction, TLAPS

-----------------------------------------------------------------------------
(* The header of the block *)

Block == [cap : Nat, bytes : Nat, remain : Nat, reallocated : BOOLEAN, moved : BOOLEAN]

Account(z) ==
    ~z.moved => z.bytes + z.remain = IF z.reallocated THEN Grown(z.cap) ELSE z.cap

\* A list in use has a block, and its account is right.
IInv ==
    /\ pc \in {"none", "idle", "cascade", "return"}
    /\ IF pc = "none" THEN zl = NULL ELSE zl \in Block /\ Account(zl)

\* A growth of a fifth is none of a block of less than five bytes.
LEMMA GrownFacts ==
    ASSUME NEW len \in Nat
    PROVE  Grown(len) \in Nat /\ len <= Grown(len)
  BY SMT DEF Grown

\* Every outcome of ziplistResize keeps the account (ziplist.cpp:353-384).
LEMMA ResizeKeeps ==
    ASSUME IInv, pc # "none", NEW len, Resize(len)
    PROVE  zl' \in Block /\ Account(zl')
<1>1. zl \in Block /\ Account(zl) /\ len \in Nat
  BY SizeAssumption, SMT DEF IInv, Resize
<1>2. zl' \in ziplistResize(zl, len)
  BY DEF Resize
<1>3. CASE zl.bytes <= len /\ len - zl.bytes <= zl.remain
  <2>. DEFINE room == zl.remain - (len - zl.bytes)
  <2>1. zl' = [zl EXCEPT !.bytes = len, !.remain = room]
    BY <1>2, <1>3, Zenon DEF ziplistResize, InPlace
  <2>2. zl' = [cap |-> zl.cap, bytes |-> len, remain |-> room,
               reallocated |-> zl.reallocated, moved |-> zl.moved]
    BY <1>1, <2>1, Zenon DEF Block
  <2>3. room \in Nat /\ len + room = zl.bytes + zl.remain
    BY <1>1, <1>3, SMT DEF Block
  <2>4. zl' \in Block
    <3>. HIDE DEF room
    <3>. QED
      BY <1>1, <2>2, <2>3, Zenon DEF Block
  <2>5. /\ zl'.cap = zl.cap /\ zl'.bytes + zl'.remain = zl.bytes + zl.remain
        /\ zl'.reallocated = zl.reallocated /\ zl'.moved = zl.moved
    <3>. HIDE DEF room
    <3>. QED
      BY <2>2, <2>3, Zenon
  <2>. QED
    BY <1>1, <2>4, <2>5, Zenon DEF Account
<1>4. CASE ~(zl.bytes <= len /\ len - zl.bytes <= zl.remain)
  <2>. DEFINE spare == Grown(len) - len
  <2>1. PICK moves \in BOOLEAN :
            zl' = [cap |-> len, bytes |-> IF moves THEN zl.bytes ELSE len,
                   remain |-> spare, reallocated |-> TRUE,
                   moved |-> zl.moved \/ moves]
    BY <1>2, <1>4, Zenon DEF ziplistResize
  <2>2. spare \in Nat /\ len + spare = Grown(len)
    BY <1>1, GrownFacts, SMT
  <2>. HIDE DEF spare
  <2>3. zl' \in Block
    <3>1. (IF moves THEN zl.bytes ELSE len) \in Nat
      BY <1>1, Zenon DEF Block
    <3>2. (zl.moved \/ moves) \in BOOLEAN
      OBVIOUS
    <3>. QED
      BY <1>1, <2>1, <2>2, <3>1, <3>2, Zenon DEF Block
  <2>4. Account(zl')
    <3>1. CASE moves
      BY <2>1, <3>1, Zenon DEF Account
    <3>2. CASE ~moves
      BY <2>1, <2>2, <3>2, Zenon DEF Account
    <3>. QED
      BY <3>1, <3>2
  <2>. QED
    BY <2>3, <2>4
<1>. QED
  BY <1>3, <1>4

\* IInv is inductive.
THEOREM Invariant == Spec => []IInv
<1>1. Init => IInv
  BY DEF Init, IInv
<1>2. IInv /\ [Next]_zvars => IInv'
  <2>. SUFFICES ASSUME IInv, [Next]_zvars PROVE IInv'
    OBVIOUS
  <2>. USE DEF IInv
  <2>1. CASE CreateZiplist
    <3>1. zl' = [cap |-> InitSize, bytes |-> HeaderSize + 1,
                 remain |-> InitSize - HeaderSize - 1,
                 reallocated |-> FALSE, moved |-> FALSE]
      BY <2>1 DEF CreateZiplist
    <3>2. zl' \in Block /\ Account(zl')
      BY <3>1, SizeAssumption, SMT DEF Block, Account
    <3>. QED
      BY <2>1, <3>2 DEF CreateZiplist
  <2>2. CASE ziplistInsert
    <3>1. PICK len, nextdiff, e : pc = "idle" /\ Resize(len) /\ Continue(nextdiff, e)
      BY <2>2, Zenon DEF ziplistInsert
    <3>. QED
      BY <3>1, ResizeKeeps DEF Continue
  <2>3. CASE ziplistDelete
    <3>1. PICK len, nextdiff, e : pc = "idle" /\ Resize(len) /\ Continue(nextdiff, e)
      BY <2>3, Zenon DEF ziplistDelete
    <3>. QED
      BY <3>1, ResizeKeeps DEF Continue
  <2>4. CASE CascadeGrows
    BY <2>4, ResizeKeeps DEF CascadeGrows
  <2>5. CASE CascadeEnds
    BY <2>5 DEF CascadeEnds
  <2>6. CASE Return
    BY <2>6 DEF Return
  <2>7. CASE UNCHANGED zvars
    BY <2>7 DEF zvars
  <2>. QED
    BY <2>1, <2>2, <2>3, <2>4, <2>5, <2>6, <2>7 DEF Next
<1>. QED
  BY <1>1, <1>2, PTL DEF Spec

\* As long as the block has not moved, bytes and remain add up to the block
\* until the first realloc, and to a fifth more than the block after it.
THEOREM RoomAlwaysKnown == Spec => []RoomKnown
<1>1. IInv => RoomKnown
  BY DEF IInv, RoomKnown, Account
<1>. QED
  BY Invariant, <1>1, PTL

-----------------------------------------------------------------------------
(* Induction and recursion on the natural numbers, with sets and functions *)

\* The order of the natural numbers is well-founded.
LEMMA NaturalsWellFounded ==
    \E R : IsWellFoundedOn(R, Nat) /\ \A x, y \in Nat : y < x => <<y, x>> \in R
<1>1. IsWellFoundedOn(OpToRel(<, Nat), Nat)
  BY NatLessThanWellFounded
<1>2. \A x, y \in Nat : y < x => <<y, x>> \in OpToRel(<, Nat)
  BY DEF OpToRel
<1>. QED
  BY <1>1, <1>2, Zenon

\* A set of numbers that is not empty has a least one.
LEMMA Least ==
    ASSUME NEW D, D \subseteq Nat, D # {}
    PROVE  \E m \in D : \A k \in D : m <= k
<1>1. PICK R : IsWellFoundedOn(R, Nat) /\ \A x, y \in Nat : y < x => <<y, x>> \in R
  BY NaturalsWellFounded
<1>2. PICK m \in D : \A k \in D : <<k, m>> \notin R
  BY <1>1, WFMin, Zenon
<1>3. \A k \in D : ~(k < m)
  BY <1>1, <1>2, Zenon
<1>4. \A k \in D : m <= k
  BY <1>3
<1>. QED
  BY <1>4

\* A set with 0 and the successor of each of its numbers has them all.
LEMMA Induction ==
    ASSUME NEW D, 0 \in D, \A n \in D : n \in Nat => n + 1 \in D
    PROVE  Nat \subseteq D
<1>. SUFFICES ASSUME Nat \ D # {} PROVE FALSE
  OBVIOUS
<1>1. PICK m \in Nat \ D : \A k \in Nat \ D : m <= k
  <2>. DEFINE E == Nat \ D
  <2>1. E \subseteq Nat /\ E # {}
    OBVIOUS
  <2>. HIDE DEF E
  <2>2. \E m \in E : \A k \in E : m <= k
    BY <2>1, Least
  <2>. QED
    BY <2>2 DEF E
<1>2. m # 0 /\ m - 1 \in Nat /\ (m - 1) + 1 = m /\ ~(m <= m - 1)
  BY <1>1
<1>3. m - 1 \in D
  BY <1>1, <1>2
<1>. QED
  BY <1>1, <1>2, <1>3

\* The values a recursion defines on 0..k, and on all numbers.
Recurs(f, k, v, step) ==
    f = [n \in 0..k |-> IF n = 0 THEN v ELSE step[<<n - 1, f[n - 1]>>]]
RecursOnNat(f, v, step) ==
    f = [n \in Nat |-> IF n = 0 THEN v ELSE step[<<n - 1, f[n - 1]>>]]

\* A recursion on 0..k defines a function.
LEMMA RecursionExists ==
    ASSUME NEW v, NEW step, NEW k \in Nat
    PROVE  \E f : Recurs(f, k, v, step)
<1>. DEFINE D == {n \in Nat : \E f : Recurs(f, n, v, step)}
<1>1. 0 \in D
  <2>. DEFINE f == [n \in 0..0 |-> v]
  <2>1. \A n \in 0..0 : n = 0
    OBVIOUS
  <2>2. f = [n \in 0..0 |-> IF n = 0 THEN v ELSE step[<<n - 1, f[n - 1]>>]]
    BY <2>1, Zenon
  <2>. HIDE DEF f
  <2>3. Recurs(f, 0, v, step)
    BY <2>2 DEF Recurs
  <2>. QED
    BY <2>3
<1>2. ASSUME NEW n \in D, n \in Nat PROVE n + 1 \in D
  <2>1. PICK f : Recurs(f, n, v, step)
    OBVIOUS
  <2>. DEFINE g == [m \in 0..(n + 1) |-> IF m = 0 THEN v ELSE step[<<m - 1, f[m - 1]>>]]
  <2>2. \A m \in 0..n : g[m] = f[m]
    <3>1. \A m \in 0..n : m \in 0..(n + 1)
      OBVIOUS
    <3>2. \A m \in 0..n : f[m] = IF m = 0 THEN v ELSE step[<<m - 1, f[m - 1]>>]
      BY <2>1, Zenon DEF Recurs
    <3>. QED
      BY <3>1, <3>2, Zenon
  <2>3. \A m \in 0..(n + 1) : m # 0 => m - 1 \in 0..n
    OBVIOUS
  <2>4. g = [m \in 0..(n + 1) |-> IF m = 0 THEN v ELSE step[<<m - 1, g[m - 1]>>]]
    <3>. DEFINE h == [m \in 0..(n + 1) |-> IF m = 0 THEN v ELSE step[<<m - 1, g[m - 1]>>]]
    <3>1. \A m \in 0..(n + 1) : g[m] = h[m]
      <4>. TAKE m \in 0..(n + 1)
      <4>1. CASE m = 0
        BY <4>1, Zenon
      <4>2. CASE m # 0
        <5>1. g[m - 1] = f[m - 1]
          BY <2>2, <2>3, <4>2, Zenon
        <5>. QED
          BY <4>2, <5>1, Zenon
      <4>. QED
        BY <4>1, <4>2
    <3>. QED
      BY <3>1, Zenon
  <2>. HIDE DEF g
  <2>5. Recurs(g, n + 1, v, step)
    BY <2>4 DEF Recurs
  <2>. QED
    BY <2>5
<1>. HIDE DEF D
<1>3. k \in D
  BY <1>1, <1>2, Induction
<1>. QED
  BY <1>3 DEF D

\* What a recursion yields has the type its steps preserve.
LEMMA RecursionType ==
    ASSUME NEW V, NEW v \in V, NEW step \in [Nat \X V -> V], NEW k \in Nat,
           NEW f, Recurs(f, k, v, step)
    PROVE  f \in [0..k -> V]
<1>. DEFINE D == {n \in Nat : n <= k => f[n] \in V}
<1>0. /\ f = [n \in 0..k |-> f[n]]
      /\ \A n \in 0..k : f[n] = IF n = 0 THEN v ELSE step[<<n - 1, f[n - 1]>>]
  BY DEF Recurs
<1>1. 0 \in D
  <2>1. 0 \in 0..k
    OBVIOUS
  <2>2. f[0] = v
    BY <1>0, <2>1, Zenon
  <2>. QED
    BY <2>2
<1>2. ASSUME NEW n \in D, n \in Nat PROVE n + 1 \in D
  <2>. SUFFICES ASSUME n + 1 <= k PROVE f[n + 1] \in V
    OBVIOUS
  <2>1. n <= k /\ f[n] \in V /\ n + 1 \in 0..k /\ n + 1 # 0 /\ (n + 1) - 1 = n
    OBVIOUS
  <2>2. f[n + 1] = step[<<n, f[n]>>]
    BY <1>0, <2>1
  <2>. QED
    BY <2>1, <2>2
<1>. HIDE DEF D
<1>3. \A n \in 0..k : f[n] \in V
  <2>1. Nat \subseteq D
    BY <1>1, <1>2, Induction
  <2>. QED
    BY <2>1 DEF D
<1>. QED
  BY <1>0, <1>3

\* Two recursions with the same steps agree where both are defined.
LEMMA RecursionUnique ==
    ASSUME NEW v, NEW step, NEW k \in Nat, NEW l \in Nat, k <= l,
           NEW f, Recurs(f, k, v, step), NEW g, Recurs(g, l, v, step)
    PROVE  \A n \in 0..k : f[n] = g[n]
<1>. DEFINE D == {n \in Nat : n <= k => f[n] = g[n]}
<1>0. /\ \A n \in 0..k : f[n] = IF n = 0 THEN v ELSE step[<<n - 1, f[n - 1]>>]
      /\ \A n \in 0..l : g[n] = IF n = 0 THEN v ELSE step[<<n - 1, g[n - 1]>>]
  BY Zenon DEF Recurs
<1>1. 0 \in D
  <2>1. 0 \in 0..k /\ 0 \in 0..l
    OBVIOUS
  <2>2. f[0] = v /\ g[0] = v
    BY <1>0, <2>1, Zenon
  <2>. QED
    BY <2>2
<1>2. ASSUME NEW n \in D, n \in Nat PROVE n + 1 \in D
  <2>. SUFFICES ASSUME n + 1 <= k PROVE f[n + 1] = g[n + 1]
    OBVIOUS
  <2>1. /\ n <= k /\ f[n] = g[n] /\ n + 1 \in 0..k /\ n + 1 \in 0..l
        /\ n + 1 # 0 /\ (n + 1) - 1 = n
    OBVIOUS
  <2>2. f[n + 1] = step[<<n, f[n]>>] /\ g[n + 1] = step[<<n, g[n]>>]
    BY <1>0, <2>1
  <2>. QED
    BY <2>1, <2>2
<1>. HIDE DEF D
<1>3. Nat \subseteq D
  BY <1>1, <1>2, Induction
<1>. QED
  BY <1>3 DEF D

\* A recursion on all numbers: at each number, what it yields up to there.
LEMMA RecursionOnNat ==
    ASSUME NEW v, NEW step
    PROVE  \E f : RecursOnNat(f, v, step)
<1>. DEFINE upto(n) == CHOOSE f : Recurs(f, n, v, step)
            f == [n \in Nat |-> upto(n)[n]]
<1>1. \A n \in Nat : Recurs(upto(n), n, v, step)
  BY RecursionExists, Zenon
<1>. HIDE DEF upto
<1>2. ASSUME NEW n \in Nat
      PROVE  f[n] = IF n = 0 THEN v ELSE step[<<n - 1, f[n - 1]>>]
  <2>1. upto(n)[n] = IF n = 0 THEN v ELSE step[<<n - 1, upto(n)[n - 1]>>]
    <3>1. n \in 0..n
      OBVIOUS
    <3>. QED
      BY <1>1, <3>1, Zenon DEF Recurs
  <2>2. ASSUME n # 0 PROVE upto(n)[n - 1] = upto(n - 1)[n - 1]
    <3>1. n - 1 \in Nat /\ n - 1 <= n /\ n - 1 \in 0..(n - 1)
      BY <2>2
    <3>2. Recurs(upto(n - 1), n - 1, v, step) /\ Recurs(upto(n), n, v, step)
      BY <1>1, <3>1
    <3>3. \A m \in 0..(n - 1) : upto(n - 1)[m] = upto(n)[m]
      BY <3>1, <3>2, RecursionUnique
    <3>. QED
      BY <3>1, <3>3
  <2>3. n # 0 => n - 1 \in Nat
    OBVIOUS
  <2>. QED
    BY <2>1, <2>2, <2>3
<1>3. f = [n \in Nat |-> IF n = 0 THEN v ELSE step[<<n - 1, f[n - 1]>>]]
  <2>1. f = [n \in Nat |-> f[n]]
    BY Zenon
  <2>. HIDE DEF f
  <2>. QED
    BY <1>2, <2>1, Zenon
<1>. HIDE DEF f
<1>. QED
  BY <1>3 DEF RecursOnNat

\* A recursion whose steps preserve a type.
Steps(f, V, v, step) ==
    f \in [Nat -> V] /\ f[0] = v /\ \A n \in Nat : f[n + 1] = step[<<n, f[n]>>]

\* Such a recursion defines a function of that type.
LEMMA Recursion ==
    ASSUME NEW V, NEW v \in V, NEW step \in [Nat \X V -> V]
    PROVE  \E f : Steps(f, V, v, step)
<1>1. PICK f : RecursOnNat(f, v, step)
  BY RecursionOnNat, Zenon
<1>2. /\ f = [n \in Nat |-> f[n]]
      /\ \A n \in Nat : f[n] = IF n = 0 THEN v ELSE step[<<n - 1, f[n - 1]>>]
  BY <1>1 DEF RecursOnNat
<1>3. f[0] = v
  BY <1>2, Zenon
<1>4. ASSUME NEW n \in Nat PROVE f[n + 1] = step[<<n, f[n]>>]
  <2>1. n + 1 \in Nat /\ n + 1 # 0 /\ (n + 1) - 1 = n
    OBVIOUS
  <2>2. f[n + 1] = step[<<(n + 1) - 1, f[(n + 1) - 1]>>]
    BY <1>2, <2>1, Zenon
  <2>. QED
    BY <2>1, <2>2
<1>. DEFINE D == {n \in Nat : f[n] \in V}
<1>5. 0 \in D
  BY <1>3
<1>6. ASSUME NEW n \in D, n \in Nat PROVE n + 1 \in D
  <2>1. <<n, f[n]>> \in Nat \X V
    OBVIOUS
  <2>2. step[<<n, f[n]>>] \in V
    BY <2>1
  <2>. QED
    BY <1>4, <2>2
<1>. HIDE DEF D
<1>7. \A n \in Nat : f[n] \in V
  <2>1. Nat \subseteq D
    BY <1>5, <1>6, Induction
  <2>. QED
    BY <2>1 DEF D
<1>. QED
  BY <1>2, <1>3, <1>4, <1>7 DEF Steps

\* The numbers 0..k are in every set that has 0 and, with each of them that is
\* not the last, the next.
LEMMA Climb ==
    ASSUME NEW k \in Nat, NEW D, 0 \in D, \A n \in 0..(k - 1) : n \in D => n + 1 \in D
    PROVE  0..k \subseteq D
<1>. DEFINE E == {n \in Nat : n <= k => n \in D}
<1>1. 0 \in E
  OBVIOUS
<1>2. ASSUME NEW n \in E, n \in Nat PROVE n + 1 \in E
  OBVIOUS
<1>. HIDE DEF E
<1>3. Nat \subseteq E
  BY <1>1, <1>2, Induction
<1>. QED
  BY <1>3 DEF E

-----------------------------------------------------------------------------
(* Division *)

\* Quotient and remainder are determined by the product.
LEMMA DivisionUnique ==
    ASSUME NEW q \in Int, NEW P \in Nat \ {0}, NEW r \in 0..(P - 1)
    PROVE  (P * q + r) \div P = q /\ (P * q + r) % P = r
  OBVIOUS

\* A multiple of the divisor does not change the remainder.
LEMMA Shift ==
    ASSUME NEW x \in Int, NEW q \in Int, NEW P \in Nat \ {0}
    PROVE  (P * q + x) % P = x % P
<1>. DEFINE d == x \div P
            r == x % P
<1>1. d \in Int /\ r \in 0..(P - 1) /\ x = P * d + r
  OBVIOUS
<1>. HIDE DEF d, r
<1>2. P * q + x = P * (q + d) + r /\ q + d \in Int
  BY <1>1
<1>3. (P * (q + d) + r) % P = r
  BY <1>1, <1>2, DivisionUnique
<1>. QED
  BY <1>2, <1>3 DEF r

\* One digit more, in any base.
LEMMA NextDigit ==
    ASSUME NEW v \in Nat, NEW P \in Nat \ {0}, NEW B \in Nat \ {0}
    PROVE  v % (B * P) = (v % P) + P * ((v \div P) % B)
<1>. DEFINE a == v \div P
            r == v % P
            d == a \div B
            m == a % B
            Q == B * P
            t == P * m + r
<1>1. a \in Nat /\ r \in 0..(P - 1) /\ v = P * a + r
  OBVIOUS
<1>. HIDE DEF a, r
<1>2. d \in Nat /\ m \in 0..(B - 1) /\ a = B * d + m
  BY <1>1
<1>. HIDE DEF d, m
<1>3. Q \in Nat \ {0} /\ t \in Nat
  BY <1>1, <1>2
<1>4. t < Q
  <2>1. P * m + P <= Q
    <3>1. m + 1 <= B
      BY <1>2
    <3>2. P * (m + 1) <= P * B
      BY <1>2, <3>1
    <3>. QED
      BY <1>2, <3>2
  <2>. QED
    BY <1>1, <1>2, <2>1
<1>5. v = Q * d + t
  BY <1>1, <1>2
<1>6. v % Q = t
  <2>. HIDE DEF Q, t
  <2>. QED
    BY <1>2, <1>3, <1>4, <1>5, DivisionUnique
<1>. QED
  BY <1>6 DEF Q, t, m, a, r

-----------------------------------------------------------------------------
(* Numbers as bytes *)

\* The number of values of a byte, and its quarter.
LEMMA BaseFacts ==
    /\ Base \in Nat \ {0} /\ Base >= 32
    /\ Quarter \in Nat /\ Quarter >= 8 /\ Base = 4 * Quarter
    /\ Base \div 16 \in Nat /\ Base \div 16 >= 2 /\ Quarter = 4 * (Base \div 16)
  BY BaseAssumption DEF Quarter

\* The powers of the base; all but the first are even.
LEMMA PowerFacts ==
    /\ Power \in [Nat -> Nat \ {0}]
    /\ Power[0] = 1
    /\ \A n \in Nat : Power[n + 1] = Base * Power[n]
<1>. DEFINE V == Nat \ {0}
            step == [x \in Nat \X V |-> Base * x[2]]
            IsPower(f) == f = [n \in Nat |-> IF n = 0 THEN 1 ELSE Base * f[n - 1]]
<1>1. step \in [Nat \X V -> V]
  BY BaseFacts
<1>2. \A n \in Nat, x \in V : step[<<n, x>>] = Base * x
  OBVIOUS
<1>. HIDE DEF step
<1>3. PICK f \in [Nat -> V] : f[0] = 1 /\ \A n \in Nat : f[n + 1] = step[<<n, f[n]>>]
  <2>1. 1 \in V
    OBVIOUS
  <2>2. PICK f : Steps(f, V, 1, step)
    <3>. HIDE DEF V
    <3>. QED
      BY <1>1, <2>1, Recursion, Zenon
  <2>. QED
    BY <2>2 DEF Steps
<1>4. \A n \in Nat : f[n] = IF n = 0 THEN 1 ELSE Base * f[n - 1]
  <2>. SUFFICES ASSUME NEW n \in Nat, n # 0 PROVE f[n] = Base * f[n - 1]
    BY <1>3
  <2>1. n - 1 \in Nat /\ (n - 1) + 1 = n
    OBVIOUS
  <2>2. f[n] = step[<<n - 1, f[n - 1]>>] /\ f[n - 1] \in V
    BY <1>3, <2>1
  <2>. QED
    BY <1>2, <2>1, <2>2
<1>5. IsPower(f)
  <2>1. f = [n \in Nat |-> f[n]]
    OBVIOUS
  <2>. QED
    BY <1>4, <2>1, Zenon
<1>6. Power = CHOOSE g : IsPower(g)
  BY DEF Power
<1>7. IsPower(Power)
  <2>. HIDE DEF IsPower
  <2>. QED
    BY <1>5, <1>6, Zenon
<1>8. \A n \in Nat : Power[n] = IF n = 0 THEN 1 ELSE Base * Power[n - 1]
  BY <1>7, Zenon
<1>9. Power[0] = 1
  BY <1>8
<1>10. ASSUME NEW n \in Nat PROVE Power[n + 1] = Base * Power[n]
  <2>1. n + 1 \in Nat /\ n + 1 # 0 /\ (n + 1) - 1 = n
    OBVIOUS
  <2>2. Power[n + 1] = Base * Power[(n + 1) - 1]
    BY <1>8, <2>1, Zenon
  <2>. QED
    BY <2>1, <2>2
<1>. DEFINE D == {n \in Nat : Power[n] \in V}
<1>11. 0 \in D
  BY <1>9
<1>12. ASSUME NEW n \in D, n \in Nat PROVE n + 1 \in D
  BY <1>10, BaseFacts
<1>. HIDE DEF D
<1>13. \A n \in Nat : Power[n] \in V
  <2>1. Nat \subseteq D
    BY <1>11, <1>12, Induction
  <2>. QED
    BY <2>1 DEF D
<1>14. Power = [n \in Nat |-> Power[n]]
  BY <1>7, Zenon
<1>15. Power \in [Nat -> Nat \ {0}]
  BY <1>13, <1>14
<1>. QED
  BY <1>9, <1>10, <1>15

\* Every power but the first is twice its half.
LEMMA EvenPower ==
    ASSUME NEW n \in Nat \ {0}
    PROVE  Power[n] \in Nat \ {0} /\ Power[n] = 2 * (Power[n] \div 2)
<1>1. n - 1 \in Nat /\ (n - 1) + 1 = n
  OBVIOUS
<1>2. Power[n] = Base * Power[n - 1] /\ Power[n] \in Nat \ {0} /\ Power[n - 1] \in Nat
  BY <1>1, PowerFacts
<1>3. PICK h \in Nat : Base = 2 * h
  <2>1. 2 * Quarter \in Nat /\ Base = 2 * (2 * Quarter)
    BY BaseFacts
  <2>. QED
    BY <2>1
<1>. DEFINE e == h * Power[n - 1]
<1>4. Power[n] = 2 * e /\ e \in Nat
  BY <1>2, <1>3
<1>. HIDE DEF e
<1>. QED
  BY <1>2, <1>4

\* What Value adds up.
LEMMA ValueFacts ==
    ASSUME NEW k \in Nat, NEW b \in Seq(Nat), Len(b) = k
    PROVE  \E low \in [0..k -> Nat] :
              /\ low[0] = 0
              /\ \A n \in 0..(k - 1) : low[n + 1] = low[n] + Power[n] * b[n + 1]
              /\ Value(b) = low[k]
<1>. DEFINE step == [x \in Nat \X Nat |-> x[2] + Power[x[1]] * (IF x[1] < k THEN b[x[1] + 1] ELSE 0)]
            Adds(f) == f = [n \in 0..k |-> IF n = 0 THEN 0 ELSE f[n - 1] + Power[n - 1] * b[n]]
<1>0. \A n \in 1..k : b[n] \in Nat
  BY ElementOfSeq
<1>1. step \in [Nat \X Nat -> Nat]
  <2>. SUFFICES ASSUME NEW x \in Nat \X Nat
                PROVE  x[2] + Power[x[1]] * (IF x[1] < k THEN b[x[1] + 1] ELSE 0) \in Nat
    OBVIOUS
  <2>1. x[1] \in Nat /\ x[2] \in Nat /\ Power[x[1]] \in Nat
    BY PowerFacts
  <2>. DEFINE digit == IF x[1] < k THEN b[x[1] + 1] ELSE 0
              product == Power[x[1]] * digit
  <2>2. digit \in Nat
    BY <1>0, <2>1
  <2>. HIDE DEF digit
  <2>3. product \in Nat
    BY <2>1, <2>2
  <2>. HIDE DEF product
  <2>4. x[2] + product \in Nat
    BY <2>1, <2>3
  <2>. QED
    BY <2>4 DEF product, digit
<1>2. \A n \in 0..(k - 1), x \in Nat : step[<<n, x>>] = x + Power[n] * b[n + 1]
  OBVIOUS
<1>. HIDE DEF step
<1>3. PICK f : Recurs(f, k, 0, step)
  BY RecursionExists, Zenon
<1>4. f \in [0..k -> Nat]
  <2>1. 0 \in Nat
    OBVIOUS
  <2>. QED
    BY <1>1, <1>3, <2>1, RecursionType
<1>5. Adds(f)
  <2>1. \A n \in 0..k : f[n] = IF n = 0 THEN 0 ELSE step[<<n - 1, f[n - 1]>>]
    BY <1>3, Zenon DEF Recurs
  <2>2. \A n \in 0..k : f[n] = IF n = 0 THEN 0 ELSE f[n - 1] + Power[n - 1] * b[n]
    <3>. SUFFICES ASSUME NEW n \in 0..k, n # 0 PROVE f[n] = f[n - 1] + Power[n - 1] * b[n]
      BY <2>1
    <3>1. n - 1 \in 0..(k - 1) /\ (n - 1) + 1 = n /\ n - 1 \in 0..k
      OBVIOUS
    <3>2. f[n - 1] \in Nat /\ f[n] = step[<<n - 1, f[n - 1]>>]
      BY <1>4, <2>1, <3>1
    <3>. QED
      BY <1>2, <3>1, <3>2
  <2>3. f = [n \in 0..k |-> f[n]]
    BY <1>4
  <2>. QED
    BY <2>2, <2>3, Zenon
<1>. DEFINE low == CHOOSE g : Adds(g)
<1>6. Adds(low)
  <2>. HIDE DEF Adds
  <2>. QED
    BY <1>5, Zenon
<1>7. Value(b) = low[k]
  BY DEF Value
<1>. HIDE DEF low
<1>8. \A n \in 0..k : low[n] = IF n = 0 THEN 0 ELSE low[n - 1] + Power[n - 1] * b[n]
  BY <1>6, Zenon
<1>9. low = [n \in 0..k |-> low[n]]
  BY <1>6, Zenon
<1>10. low[0] = 0
  <2>1. 0 \in 0..k
    OBVIOUS
  <2>. QED
    BY <1>8, <2>1, Zenon
<1>11. ASSUME NEW n \in 0..(k - 1) PROVE low[n + 1] = low[n] + Power[n] * b[n + 1]
  <2>1. n + 1 \in 0..k /\ n + 1 # 0 /\ (n + 1) - 1 = n
    OBVIOUS
  <2>2. low[n + 1] = low[(n + 1) - 1] + Power[(n + 1) - 1] * b[n + 1]
    BY <1>8, <2>1, Zenon
  <2>. QED
    BY <2>1, <2>2
<1>. DEFINE D == {n \in 0..k : low[n] \in Nat}
<1>12. 0 \in D
  BY <1>10
<1>13. ASSUME NEW n \in 0..(k - 1), n \in D PROVE n + 1 \in D
  <2>1. /\ low[n] \in Nat /\ Power[n] \in Nat /\ b[n + 1] \in Nat
        /\ low[n + 1] = low[n] + Power[n] * b[n + 1] /\ n + 1 \in 0..k
    <3>1. n \in Nat /\ n + 1 \in 1..k /\ n + 1 \in 0..k
      OBVIOUS
    <3>. QED
      BY <1>0, <1>11, <1>13, <3>1, PowerFacts
  <2>. DEFINE product == Power[n] * b[n + 1]
  <2>2. product \in Nat
    BY <2>1
  <2>. HIDE DEF product
  <2>3. low[n] + product \in Nat
    BY <2>1, <2>2
  <2>. QED
    BY <2>1, <2>3 DEF product
<1>. HIDE DEF D
<1>14. \A n \in 0..k : low[n] \in Nat
  <2>1. 0..k \subseteq D
    BY <1>12, <1>13, Climb
  <2>. QED
    BY <2>1 DEF D
<1>15. low \in [0..k -> Nat]
  BY <1>9, <1>14
<1>. QED
  BY <1>7, <1>10, <1>11, <1>15

\* A number is written in as many bytes as are asked for.
LEMMA LittleEndianFacts ==
    ASSUME NEW v \in Nat, NEW k \in Nat
    PROVE  /\ LittleEndian(v, k) \in Seq(Byte)
           /\ Len(LittleEndian(v, k)) = k
           /\ \A n \in 0..(k - 1) : LittleEndian(v, k)[n + 1] = (v \div Power[n]) % Base
<1>. DEFINE b == [j \in 1..k |-> (v \div Power[j - 1]) % Base]
<1>1. \A j \in 1..k : (v \div Power[j - 1]) % Base \in Byte
  <2>. TAKE j \in 1..k
  <2>1. Power[j - 1] \in Nat \ {0} /\ Base \in Nat \ {0}
    BY PowerFacts, BaseFacts
  <2>2. v \div Power[j - 1] \in Nat
    BY <2>1
  <2>. QED
    BY <2>1, <2>2 DEF Byte
<1>2. b \in [1..k -> Byte]
  BY <1>1
<1>3. b \in Seq(Byte) /\ Len(b) = k
  BY <1>2
<1>4. \A n \in 0..(k - 1) : b[n + 1] = (v \div Power[n]) % Base
  <2>. TAKE n \in 0..(k - 1)
  <2>1. n + 1 \in 1..k /\ (n + 1) - 1 = n
    OBVIOUS
  <2>2. b[n + 1] = (v \div Power[(n + 1) - 1]) % Base
    BY <2>1, Zenon
  <2>. QED
    BY <2>1, <2>2
<1>. QED
  BY <1>3, <1>4, Zenon DEF LittleEndian

\* A byte is a natural number.
LEMMA BytesAreNumbers == Byte \subseteq Nat
  BY DEF Byte

\* A number written in k bytes is read back modulo what they can hold.
LEMMA ReadsBack ==
    ASSUME NEW v \in Nat, NEW k \in Nat
    PROVE  Value(LittleEndian(v, k)) = v % Power[k]
<1>. DEFINE b == LittleEndian(v, k)
<1>1. /\ b \in Seq(Byte) /\ Len(b) = k
      /\ \A n \in 0..(k - 1) : b[n + 1] = (v \div Power[n]) % Base
  BY LittleEndianFacts
<1>. HIDE DEF b
<1>2. b \in Seq(Nat)
  BY <1>1, BytesAreNumbers, SeqMonotonic
<1>3. PICK low \in [0..k -> Nat] :
              /\ low[0] = 0
              /\ \A n \in 0..(k - 1) : low[n + 1] = low[n] + Power[n] * b[n + 1]
              /\ Value(b) = low[k]
  BY <1>1, <1>2, ValueFacts
<1>. DEFINE D == {n \in 0..k : low[n] = v % Power[n]}
<1>4. 0 \in D
  BY <1>3, PowerFacts
<1>5. ASSUME NEW n \in 0..(k - 1), n \in D PROVE n + 1 \in D
  <2>1. /\ low[n] = v % Power[n] /\ Power[n] \in Nat \ {0}
        /\ low[n + 1] = (v % Power[n]) + Power[n] * ((v \div Power[n]) % Base)
    BY <1>1, <1>3, <1>5, PowerFacts
  <2>2. Base \in Nat \ {0} /\ Power[n + 1] = Base * Power[n]
    BY BaseFacts, PowerFacts
  <2>3. v % (Base * Power[n]) = (v % Power[n]) + Power[n] * ((v \div Power[n]) % Base)
    BY <2>1, <2>2, NextDigit
  <2>4. low[n + 1] = v % Power[n + 1] /\ n + 1 \in 0..k
    BY <2>1, <2>2, <2>3
  <2>. QED
    BY <2>4
<1>. HIDE DEF D
<1>6. 0..k \subseteq D
  BY <1>4, <1>5, Climb
<1>7. k \in 0..k
  OBVIOUS
<1>8. low[k] = v % Power[k]
  BY <1>6, <1>7 DEF D
<1>. QED
  BY <1>3, <1>8 DEF b

\* ... so a number they can hold is read back.
LEMMA ReadsBackSmall ==
    ASSUME NEW k \in Nat, NEW v \in 0..(Power[k] - 1)
    PROVE  Value(LittleEndian(v, k)) = v
<1>1. Power[k] \in Nat \ {0} /\ v \in Nat /\ v < Power[k]
  BY PowerFacts
<1>2. v % Power[k] = v
  BY <1>1
<1>. QED
  BY <1>1, <1>2, ReadsBack

-----------------------------------------------------------------------------
(* The fields of an entry *)

\* The integer encodings are different bytes, and none of a string.
LEMMA EncodingFacts ==
    /\ DOMAIN IntEncodings = 1..4
    /\ \A k \in 1..4 : /\ IntEncodings[k] \in Byte /\ ~Zip_Is_Str(IntEncodings[k])
                       /\ IntEncodings[k] # 0
    /\ \A j, k \in 1..4 : IntEncodings[j] = IntEncodings[k] => j = k
<1>. DEFINE six == Base \div 16
<1>1. six \in Nat /\ six >= 2 /\ Quarter = 4 * six /\ Base = 16 * six
  BY BaseFacts
<1>2. /\ IntEncodings[1] = 16 * six - 2 /\ IntEncodings[2] = 12 * six
      /\ IntEncodings[3] = 13 * six /\ IntEncodings[4] = 14 * six
  BY <1>1 DEF IntEncodings, ZIP_INT_8B, ZIP_INT_16B, ZIP_INT_32B, ZIP_INT_64B, ZIP_STR_MASK
<1>3. DOMAIN IntEncodings = 1..4
  BY DEF IntEncodings
<1>4. \A k \in 1..4 : k = 1 \/ k = 2 \/ k = 3 \/ k = 4
  OBVIOUS
<1>. HIDE DEF six
<1>5. ASSUME NEW k \in 1..4
      PROVE  IntEncodings[k] \in Byte /\ ~Zip_Is_Str(IntEncodings[k]) /\ IntEncodings[k] # 0
  BY <1>1, <1>2, <1>4 DEF Byte, Zip_Is_Str, ZIP_STR_MASK
<1>6. ASSUME NEW j \in 1..4, NEW k \in 1..4, IntEncodings[j] = IntEncodings[k] PROVE j = k
  BY <1>1, <1>2, <1>4, <1>6
<1>. QED
  BY <1>3, <1>5, <1>6

\* The encoding of an integer tells its number of bytes.
LEMMA IntSizeFacts ==
    ASSUME NEW k \in 1..4
    PROVE  zipIntSize(IntEncodings[k]) = IntWidth[k] /\ IntWidth[k] \in Nat \ {0}
<1>1. IntEncodings[k] \in Range(IntEncodings)
  BY EncodingFacts DEF Range
<1>2. (CHOOSE j \in 1..4 : IntEncodings[j] = IntEncodings[k]) = k
  BY EncodingFacts
<1>3. IntWidth[k] \in Nat \ {0}
  BY IntWidthAssumption
<1>. QED
  BY <1>1, <1>2, <1>3 DEF zipIntSize

\* What Reverse of the community modules yields.
LEMMA ReverseFacts ==
    ASSUME NEW S, NEW s \in Seq(S)
    PROVE  /\ Reverse(s) \in Seq(S) /\ Len(Reverse(s)) = Len(s)
           /\ \A j \in 1..Len(s) : Reverse(s)[j] = s[Len(s) - j + 1]
<1>. DEFINE r == [j \in 1..Len(s) |-> s[(Len(s) - j) + 1]]
<1>1. Len(s) \in Nat
  BY LenProperties
<1>2. \A j \in 1..Len(s) : s[(Len(s) - j) + 1] \in S
  <2>1. \A j \in 1..Len(s) : (Len(s) - j) + 1 \in 1..Len(s)
    BY <1>1
  <2>. QED
    BY <2>1, ElementOfSeq
<1>3. r \in [1..Len(s) -> S]
  BY <1>2
<1>4. r \in Seq(S) /\ Len(r) = Len(s)
  BY <1>1, <1>3
<1>5. \A j \in 1..Len(s) : r[j] = s[Len(s) - j + 1]
  BY <1>1
<1>6. Reverse(s) = r
  BY DEF Reverse
<1>. QED
  BY <1>4, <1>5, <1>6, Zenon

\* The field of the previous length, in front of anything.
Begins(b, p) == Len(b) \in Nat /\ Len(b) >= Len(p) /\ \A j \in 1..Len(p) : b[j] = p[j]

\* A length of the previous entry is read back from anything that begins with it.
LEMMA PrevFacts ==
    ASSUME NEW len \in 0..(Power[4] - 1)
    PROVE  /\ zipPrevEncodeLength(len) \in Seq(Byte)
           /\ PrevSize(len) \in Nat \ {0}
           /\ PrevSize(len) = IF len < ZIP_BIGLEN THEN 1 ELSE 5
           /\ \A b : Begins(b, zipPrevEncodeLength(len)) =>
                 GetPrevEntryLen(b) = len /\ GetPrevEntryLenSize(b) = PrevSize(len)
<1>0. Power[4] \in Nat /\ ZIP_BIGLEN \in Byte /\ ZIP_BIGLEN < Base
  BY PowerFacts, BaseFacts DEF ZIP_BIGLEN, Byte
<1>1. CASE len < ZIP_BIGLEN
  <2>1. zipPrevEncodeLength(len) = <<len>> /\ len \in Byte
    <3>1. len \in Nat /\ len < Base /\ Base \in Nat
      BY <1>0, <1>1, BaseFacts DEF ZIP_BIGLEN
    <3>2. len \in Byte
      BY <3>1 DEF Byte
    <3>. QED
      BY <1>1, <3>2, Zenon DEF zipPrevEncodeLength
  <2>2. PrevSize(len) = 1 /\ zipPrevEncodeLength(len) \in Seq(Byte)
    BY <2>1 DEF PrevSize
  <2>3. ASSUME NEW b, Begins(b, zipPrevEncodeLength(len))
        PROVE  GetPrevEntryLen(b) = len /\ GetPrevEntryLenSize(b) = 1
    <3>1. b[1] = len
      BY <2>1, <2>3 DEF Begins
    <3>. QED
      BY <1>1, <3>1 DEF GetPrevEntryLen, GetPrevEntryLenSize
  <2>. QED
    BY <1>1, <2>2, <2>3
<1>2. CASE ~(len < ZIP_BIGLEN)
  <2>. DEFINE low == LittleEndian(len, 4)
              head == <<ZIP_BIGLEN>>
              p == head \o low
  <2>1. low \in Seq(Byte) /\ Len(low) = 4
    <3>1. len \in Nat /\ 4 \in Nat
      BY <1>0
    <3>. QED
      BY <3>1, LittleEndianFacts, Zenon
  <2>2. Value(low) = len
    BY ReadsBackSmall
  <2>3. head \in Seq(Byte) /\ Len(head) = 1 /\ head[1] = ZIP_BIGLEN
    BY <1>0
  <2>4. zipPrevEncodeLength(len) = p
    BY <1>2 DEF zipPrevEncodeLength, zipPrevEncodeLengthForceLarge
  <2>. HIDE DEF low, head
  <2>5. /\ p \in Seq(Byte) /\ Len(p) = 5 /\ p[1] = ZIP_BIGLEN
        /\ \A j \in 1..4 : p[j + 1] = low[j]
    <3>1. /\ p \in Seq(Byte) /\ Len(p) = Len(head) + Len(low)
          /\ \A j \in 1..(Len(head) + Len(low)) :
                p[j] = IF j <= Len(head) THEN head[j] ELSE low[j - Len(head)]
      BY <2>1, <2>3, ConcatProperties
    <3>. HIDE DEF p
    <3>2. \A j \in 1..4 : j + 1 \in 1..5 /\ ~(j + 1 <= 1) /\ (j + 1) - 1 = j
      OBVIOUS
    <3>. QED
      BY <2>1, <2>3, <3>1, <3>2
  <2>. HIDE DEF p
  <2>6. PrevSize(len) = 5
    BY <2>4, <2>5 DEF PrevSize
  <2>7. ASSUME NEW b, Begins(b, p)
        PROVE  GetPrevEntryLen(b) = len /\ GetPrevEntryLenSize(b) = 5
    <3>1. b[1] = ZIP_BIGLEN /\ \A j \in 1..4 : b[j + 1] = low[j]
      BY <2>5, <2>7 DEF Begins
    <3>2. \A j \in 2..5 : b[j] \in Byte
      <4>1. \A j \in 2..5 : j - 1 \in 1..4 /\ (j - 1) + 1 = j
        OBVIOUS
      <4>2. \A j \in 1..4 : low[j] \in Byte
        BY <2>1, ElementOfSeq
      <4>. QED
        BY <3>1, <4>1, <4>2
    <3>. DEFINE w == SubSeq(b, 2, 5)
    <3>3. w \in Seq(Byte) /\ Len(w) = 4 /\ \A j \in 1..4 : w[j] = b[j + 1]
      <4>1. /\ w \in Seq(Byte) /\ Len(w) = IF 2 <= 5 THEN 5 - 2 + 1 ELSE 0
            /\ \A j \in 1..(5 - 2 + 1) : w[j] = b[2 + j - 1]
        BY <3>2, SubSeqProperties
      <4>. HIDE DEF w
      <4>2. \A j \in 1..4 : 2 + j - 1 = j + 1
        OBVIOUS
      <4>. QED
        BY <4>1, <4>2
    <3>. HIDE DEF w
    <3>4. w = low
      <4>1. \A j \in 1..Len(w) : w[j] = low[j]
        BY <3>1, <3>3
      <4>. QED
        BY <2>1, <3>3, <4>1, SeqEqual
    <3>5. GetPrevEntryLenSize(b) = 5
      BY <1>0, <3>1 DEF GetPrevEntryLenSize, Byte
    <3>6. GetPrevEntryLen(b) = Value(w)
      BY <3>5 DEF GetPrevEntryLen, w
    <3>. QED
      BY <2>2, <3>4, <3>5, <3>6
  <2>. QED
    BY <1>2, <2>4, <2>5, <2>6, <2>7
<1>. QED
  BY <1>1, <1>2

\* What is read of the encoding of an entry: whether it is a text, and how
\* many bytes the content has.
DecodesTo(code, encoding, n) ==
    LET read == ZIP_DECODE_LENGTH(code)
    IN  /\ Zip_Is_Str(read.encoding) = Zip_Is_Str(encoding)
        /\ read.len = (IF Zip_Is_Str(encoding) THEN n ELSE zipIntSize(encoding))
        /\ read.lensize = Len(code)

\* The two high bits of a first byte, and the six below them.
LEMMA DecodeFacts ==
    /\ 0 \in Byte /\ Zip_Is_Str(0) /\ ZIP_STR_06B = 0
    /\ ZIP_STR_14B = Quarter /\ ZIP_STR_32B = 2 * Quarter /\ ZIP_STR_MASK = 3 * Quarter
    /\ \A r \in 0..(Quarter - 1), c \in 0..2 :
          /\ c * Quarter + r \in Byte
          /\ Zip_Is_Str(c * Quarter + r)
          /\ (c * Quarter + r) % Quarter = r
          /\ (c * Quarter + r) - r = c * Quarter
<1>1. /\ 0 \in Byte /\ Zip_Is_Str(0) /\ ZIP_STR_06B = 0
      /\ ZIP_STR_14B = Quarter /\ ZIP_STR_32B = 2 * Quarter /\ ZIP_STR_MASK = 3 * Quarter
  BY BaseFacts DEF Byte, Zip_Is_Str, ZIP_STR_06B, ZIP_STR_14B, ZIP_STR_32B, ZIP_STR_MASK
<1>2. ASSUME NEW r \in 0..(Quarter - 1), NEW c \in 0..2
      PROVE  /\ c * Quarter + r \in Byte
             /\ Zip_Is_Str(c * Quarter + r)
             /\ (c * Quarter + r) % Quarter = r
             /\ (c * Quarter + r) - r = c * Quarter
  <2>1. c = 0 \/ c = 1 \/ c = 2
    OBVIOUS
  <2>2. /\ c * Quarter + r \in Nat /\ c * Quarter + r < 3 * Quarter
        /\ (c * Quarter + r) - r = c * Quarter
    BY <2>1, BaseFacts
  <2>3. c * Quarter + r \in Byte /\ Zip_Is_Str(c * Quarter + r)
    BY <1>1, <2>2, BaseFacts DEF Byte, Zip_Is_Str
  <2>4. (c * Quarter + r) % Quarter = r
    BY <2>1, BaseFacts
  <2>. QED
    BY <2>2, <2>3, <2>4
<1>. QED
  BY <1>1, <1>2

\* The four forms of the encoding.
LEMMA IntegerCode ==
    ASSUME NEW k \in 1..4, NEW n
    PROVE  /\ zipSetCurrentEncode(IntEncodings[k], n) = <<IntEncodings[k]>>
           /\ DecodesTo(<<IntEncodings[k]>>, IntEncodings[k], n)
<1>. DEFINE e == IntEncodings[k]
            size == zipIntSize(e)
            code == <<e>>
<1>1. e \in Byte /\ ~Zip_Is_Str(e)
  BY EncodingFacts
<1>. HIDE DEF e
<1>2. zipSetCurrentEncode(e, n) = code
  BY <1>1 DEF zipSetCurrentEncode
<1>3. e # ZIP_STR_06B /\ e # ZIP_STR_14B /\ e # ZIP_STR_32B
  BY <1>1, BaseFacts DEF Zip_Is_Str, ZIP_STR_06B, ZIP_STR_14B, ZIP_STR_32B, ZIP_STR_MASK, Byte
<1>4. code[1] = e /\ Len(code) = 1
  OBVIOUS
<1>. HIDE DEF code, size
<1>5. ZIP_DECODE_LENGTH(code) = [encoding |-> e, lensize |-> 1, len |-> size]
  BY <1>1, <1>3, <1>4, Zenon DEF ZIP_DECODE_LENGTH, size
<1>6. DecodesTo(code, e, n)
  BY <1>1, <1>4, <1>5 DEF DecodesTo, size
<1>. QED
  BY <1>2, <1>6 DEF e, code

\* Lengths up to 63 are read back from the byte they are written in.
LEMMA ShortCode ==
    ASSUME NEW n \in 0..(Quarter - 1)
    PROVE  LET code == zipSetCurrentEncode(0, n)
           IN  code \in Seq(Byte) /\ Len(code) = 1 /\ DecodesTo(code, 0, n)
<1>. DEFINE code == <<n>>
<1>1. n \in Byte /\ Zip_Is_Str(n) /\ n % Quarter = n /\ Zip_Is_Str(0) /\ 0 \in Byte
  BY BaseFacts DEF Byte, Zip_Is_Str, ZIP_STR_MASK
<1>2. zipSetCurrentEncode(0, n) = code
  BY <1>1, BaseFacts DEF zipSetCurrentEncode, ZIP_STR_06B
<1>3. code \in Seq(Byte) /\ Len(code) = 1 /\ code[1] = n
  BY <1>1
<1>. HIDE DEF code
<1>4. code[1] - (code[1] % Quarter) = 0 /\ ZIP_STR_06B = 0
  BY <1>1, <1>3, BaseFacts DEF ZIP_STR_06B
<1>5. 0 # ZIP_STR_14B /\ 0 # ZIP_STR_32B
  BY BaseFacts DEF ZIP_STR_14B, ZIP_STR_32B
<1>6. ZIP_DECODE_LENGTH(code) = [encoding |-> 0, lensize |-> 1, len |-> n]
  BY <1>1, <1>3, <1>4, <1>5, Zenon DEF ZIP_DECODE_LENGTH
<1>7. DecodesTo(code, 0, n)
  BY <1>1, <1>3, <1>6 DEF DecodesTo
<1>. QED
  BY <1>2, <1>3, <1>7

\* Lengths of 14 bits are read back from their two bytes.
LEMMA MiddleCode ==
    ASSUME NEW n \in Quarter..(Quarter * Base - 1)
    PROVE  LET code == zipSetCurrentEncode(0, n)
           IN  code \in Seq(Byte) /\ Len(code) = 2 /\ DecodesTo(code, 0, n)
<1>. DEFINE hi == n \div Base
            lo == n % Base
            first == Quarter + hi
            code == <<first, lo>>
<1>0. Quarter * Base \in Nat /\ n \in Nat /\ n < Quarter * Base /\ ~(n <= Quarter - 1)
  BY BaseFacts
<1>1. hi \in 0..(Quarter - 1) /\ lo \in Byte /\ hi * Base + lo = n
  BY <1>0, BaseFacts DEF Byte
<1>2. first \in Byte /\ Zip_Is_Str(first) /\ first % Quarter = hi /\ first - hi = Quarter
  <2>. HIDE DEF hi
  <2>1. 1 * Quarter + hi = Quarter + hi /\ 1 * Quarter = Quarter /\ 1 \in 0..2
    BY <1>1, BaseFacts
  <2>. QED
    BY <1>1, <2>1, DecodeFacts
<1>3. zipSetCurrentEncode(0, n) = code
  BY <1>0, DecodeFacts, Zenon DEF zipSetCurrentEncode
<1>. HIDE DEF first, hi, lo
<1>4. code \in Seq(Byte) /\ Len(code) = 2 /\ code[1] = first /\ code[2] = lo
  BY <1>1, <1>2
<1>. HIDE DEF code
<1>5. code[1] - (code[1] % Quarter) = ZIP_STR_14B /\ ZIP_STR_14B # ZIP_STR_06B
      /\ ZIP_STR_14B # ZIP_STR_32B /\ code[1] % Quarter = hi
  BY <1>2, <1>4, BaseFacts, DecodeFacts
<1>6. ZIP_DECODE_LENGTH(code) = [encoding |-> ZIP_STR_14B, lensize |-> 2, len |-> n]
  BY <1>1, <1>2, <1>4, <1>5, Zenon DEF ZIP_DECODE_LENGTH
<1>7. Zip_Is_Str(ZIP_STR_14B) /\ Zip_Is_Str(0)
  BY BaseFacts, DecodeFacts DEF Zip_Is_Str
<1>8. Zip_Is_Str(0) /\ Zip_Is_Str(ZIP_STR_14B) = Zip_Is_Str(0)
  BY <1>7 DEF Zip_Is_Str
<1>9. DecodesTo(code, 0, n)
  <2>1. Len(code) = 2
    BY <1>4
  <2>. QED
    BY <1>6, <1>8, <2>1 DEF DecodesTo
<1>. QED
  BY <1>3, <1>4, <1>9

\* Longer ones are read back from the four bytes behind the first.
LEMMA LongCode ==
    ASSUME NEW n \in 0..(Power[4] - 1), Quarter * Base <= n
    PROVE  LET code == zipSetCurrentEncode(0, n)
           IN  code \in Seq(Byte) /\ Len(code) = 5 /\ DecodesTo(code, 0, n)
<1>. DEFINE low == LittleEndian(n, 4)
            big == Reverse(low)
            head == <<ZIP_STR_32B>>
            code == head \o big
<1>0. Power[4] \in Nat /\ n \in Nat /\ ~(n <= Quarter - 1) /\ ~(n < Quarter * Base)
  <2>. DEFINE product == Quarter * Base
  <2>1. product \in Nat /\ product >= Quarter
    BY BaseFacts
  <2>2. product <= n
    OBVIOUS
  <2>3. Power[4] \in Nat
    BY PowerFacts
  <2>. HIDE DEF product
  <2>4. n \in Nat /\ ~(n <= Quarter - 1) /\ ~(n < product)
    BY <2>1, <2>2, <2>3, BaseFacts
  <2>. QED
    BY <2>3, <2>4 DEF product
<1>1. low \in Seq(Byte) /\ Len(low) = 4
  <2>1. 4 \in Nat
    OBVIOUS
  <2>. QED
    BY <1>0, <2>1, LittleEndianFacts, Zenon
<1>2. Value(low) = n
  BY ReadsBackSmall
<1>3. ZIP_STR_32B \in Byte /\ Zip_Is_Str(ZIP_STR_32B) /\ ZIP_STR_32B % Quarter = 0
  <2>1. 2 * Quarter + 0 = 2 * Quarter /\ 2 \in 0..2 /\ 0 \in 0..(Quarter - 1)
    BY BaseFacts
  <2>. QED
    BY <2>1, DecodeFacts
<1>4. zipSetCurrentEncode(0, n) = code
  BY <1>0, DecodeFacts, Zenon DEF zipSetCurrentEncode, BigEndian
<1>5. head \in Seq(Byte) /\ Len(head) = 1 /\ head[1] = ZIP_STR_32B
  BY <1>3
<1>. HIDE DEF low, head
<1>6. big \in Seq(Byte) /\ Len(big) = 4 /\ \A j \in 1..4 : big[j] = low[4 - j + 1]
  <2>1. /\ big \in Seq(Byte) /\ Len(big) = Len(low)
        /\ \A j \in 1..Len(low) : big[j] = low[Len(low) - j + 1]
    BY <1>1, ReverseFacts, Zenon
  <2>. HIDE DEF big
  <2>. QED
    BY <1>1, <2>1
<1>. HIDE DEF big
<1>7. /\ code \in Seq(Byte) /\ Len(code) = 5 /\ code[1] = ZIP_STR_32B
      /\ \A j \in 1..4 : code[j + 1] = big[j]
  <2>1. /\ code \in Seq(Byte) /\ Len(code) = Len(head) + Len(big)
        /\ \A j \in 1..(Len(head) + Len(big)) :
              code[j] = IF j <= Len(head) THEN head[j] ELSE big[j - Len(head)]
    <3>1. head \in Seq(Byte) /\ big \in Seq(Byte)
      BY <1>5, <1>6
    <3>. QED
      BY <3>1, ConcatProperties
  <2>. HIDE DEF code
  <2>2. \A j \in 1..4 : j + 1 \in 1..5 /\ ~(j + 1 <= 1) /\ (j + 1) - 1 = j
    OBVIOUS
  <2>. QED
    BY <1>5, <1>6, <2>1, <2>2
<1>. HIDE DEF code
<1>. DEFINE w == SubSeq(code, 2, 5)
<1>8. w \in Seq(Byte) /\ Len(w) = 4 /\ \A j \in 1..4 : w[j] = big[j]
  <2>0. \A j \in 2..5 : code[j] \in Byte
    <3>1. \A j \in 1..Len(code) : code[j] \in Byte
      BY <1>7, ElementOfSeq, Zenon
    <3>. QED
      BY <1>7, <3>1
  <2>1. /\ w \in Seq(Byte) /\ Len(w) = IF 2 <= 5 THEN 5 - 2 + 1 ELSE 0
        /\ \A j \in 1..(5 - 2 + 1) : w[j] = code[2 + j - 1]
    BY <2>0, SubSeqProperties
  <2>. HIDE DEF w
  <2>2. \A j \in 1..4 : 2 + j - 1 = j + 1
    OBVIOUS
  <2>. QED
    BY <1>7, <2>1, <2>2
<1>. HIDE DEF w
<1>9. Reverse(w) = low
  <2>1. Reverse(w) \in Seq(Byte) /\ Len(Reverse(w)) = 4
        /\ \A j \in 1..4 : Reverse(w)[j] = w[4 - j + 1]
    <3>. DEFINE r == Reverse(w)
    <3>1. /\ r \in Seq(Byte) /\ Len(r) = Len(w)
          /\ \A j \in 1..Len(w) : r[j] = w[Len(w) - j + 1]
      BY <1>8, ReverseFacts, Zenon
    <3>. HIDE DEF r
    <3>2. r \in Seq(Byte) /\ Len(r) = 4 /\ \A j \in 1..4 : r[j] = w[4 - j + 1]
      BY <1>8, <3>1
    <3>. QED
      BY <3>2 DEF r
  <2>2. \A j \in 1..4 : Reverse(w)[j] = low[j]
    <3>1. \A j \in 1..4 : 4 - j + 1 \in 1..4 /\ 4 - (4 - j + 1) + 1 = j
      OBVIOUS
    <3>. QED
      BY <1>6, <1>8, <2>1, <3>1
  <2>. QED
    BY <1>1, <2>1, <2>2, SeqEqual
<1>10. code[1] - (code[1] % Quarter) = ZIP_STR_32B /\ ZIP_STR_32B # ZIP_STR_06B
       /\ ZIP_STR_32B # ZIP_STR_14B
  BY <1>3, <1>7, BaseFacts, DecodeFacts
<1>11. ZIP_DECODE_LENGTH(code) = [encoding |-> ZIP_STR_32B, lensize |-> 5, len |-> n]
  BY <1>2, <1>3, <1>7, <1>9, <1>10, Zenon DEF ZIP_DECODE_LENGTH, w
<1>12. Zip_Is_Str(0) /\ Zip_Is_Str(ZIP_STR_32B) = Zip_Is_Str(0)
  BY <1>3, DecodeFacts DEF Zip_Is_Str
<1>13. DecodesTo(code, 0, n)
  BY <1>7, <1>11, <1>12 DEF DecodesTo
<1>. QED
  BY <1>4, <1>7, <1>13

-----------------------------------------------------------------------------
(* Texts that are numbers *)

\* Digits and the sign are bytes, and the sign is no digit.
LEMMA DigitFacts ==
    /\ Zero \in Byte /\ Minus \in Byte /\ Zero \in Digit /\ Minus \notin Digit
    /\ Digit \subseteq Byte
    /\ \A c \in Digit : c - Zero \in 0..9
  BY CharAssumption, BaseFacts DEF Digit, Byte

\* What zipTryIntegerEncoding accepts: digits, perhaps behind a sign.
IsNumber(s, d) ==
    /\ d \in Seq(Digit) /\ Len(d) \in Nat \ {0}
    /\ IF Head(s) = Minus THEN s = <<Minus>> \o d ELSE s = d
    /\ d[1] = Zero => s = <<Zero>>

\* A text that stringtoll accepts is a sign and digits.
LEMMA AcceptedFacts ==
    ASSUME NEW s \in Seq(Byte), s # <<>>, Accepted(s)
    PROVE  IsNumber(s, Digits(s))
<1>. DEFINE d == Digits(s)
<1>0. Len(s) \in Nat \ {0}
  BY EmptySeq
<1>1. CASE s = <<Zero>>
  <2>1. Head(s) = Zero /\ Head(s) # Minus
    BY <1>1, DigitFacts
  <2>2. d = <<Zero>>
    BY <1>1, <2>1 DEF Digits
  <2>3. <<Zero>> \in Seq(Digit) /\ Len(<<Zero>>) = 1
    BY DigitFacts
  <2>. HIDE DEF d
  <2>4. d \in Seq(Digit) /\ Len(d) \in Nat \ {0} /\ s = d
    BY <1>1, <2>2, <2>3
  <2>5. IsNumber(s, d)
    BY <1>1, <2>1, <2>4, Zenon DEF IsNumber
  <2>. QED
    BY <2>5 DEF d
<1>2. CASE IsDigits(d) /\ Head(d) # Zero
  <2>1. d \in Seq(Byte) /\ IF Head(s) = Minus THEN s = <<Minus>> \o d ELSE s = d
    <3>1. CASE Head(s) = Minus
      <4>1. d = Tail(s)
        BY <3>1 DEF Digits
      <4>2. Tail(s) \in Seq(Byte) /\ s = <<Head(s)>> \o Tail(s)
        BY HeadTailProperties
      <4>. QED
        BY <3>1, <4>1, <4>2
    <3>2. CASE Head(s) # Minus
      BY <3>2 DEF Digits
    <3>. QED
      BY <3>1, <3>2
  <2>2. d # <<>> /\ \A j \in DOMAIN d : d[j] \in Digit
    BY <1>2 DEF IsDigits
  <2>. HIDE DEF d
  <2>3. Len(d) \in Nat \ {0} /\ DOMAIN d = 1..Len(d) /\ d = [j \in 1..Len(d) |-> d[j]]
    BY <2>1, <2>2, EmptySeq, LenProperties
  <2>4. d \in Seq(Digit)
    <3>1. d \in [1..Len(d) -> Digit]
      BY <2>2, <2>3
    <3>. QED
      BY <2>3, <3>1, SeqDef
  <2>5. d[1] # Zero
    BY <1>2, <2>3 DEF d
  <2>6. IsNumber(s, d)
    BY <2>1, <2>3, <2>4, <2>5, Zenon DEF IsNumber
  <2>. QED
    BY <2>6 DEF d
<1>. QED
  BY <1>1, <1>2 DEF Accepted

\* What wraps around fits into 64 bits.
LEMMA WrappedFacts ==
    ASSUME NEW x \in Int
    PROVE  Wrapped(x) \in Int /\ Fits(Wrapped(x), IntWidth[4])
<1>. DEFINE P == Power[IntWidth[4]]
            h == P \div 2
            y == x % P
<1>1. IntWidth[4] \in Nat \ {0}
  BY IntWidthAssumption
<1>2. P \in Nat \ {0} /\ P = 2 * h /\ h \in Nat
  BY <1>1, EvenPower
<1>. HIDE DEF P
<1>3. y \in 0..(P - 1)
  BY <1>2
<1>4. Wrapped(x) = IF y < h THEN y ELSE y - P
  BY DEF Wrapped, Signed, P
<1>. HIDE DEF h, y
<1>5. Wrapped(x) \in Int /\ -h <= Wrapped(x) /\ Wrapped(x) < h
  BY <1>2, <1>3, <1>4
<1>. QED
  BY <1>5 DEF Fits, h, P

\* The sums of stringtoll, over the k digits d of s.
Sums(v, s, d, k) ==
    /\ v \in [0..k -> Int]
    /\ v[0] = 0
    /\ \A n \in 0..(k - 1) : v[n + 1] = Wrapped(Wrapped(10 * v[n]) + (d[n + 1] - Zero))
    /\ stringtoll(s) = IF Head(s) = Minus THEN Wrapped(-v[k]) ELSE v[k]

\* The loop of stringtoll has these sums.
LEMMA SumsOfStringtoll ==
    ASSUME NEW s, NEW k \in Nat, NEW d \in Seq(Digit), d = Digits(s), Len(d) = k
    PROVE  \E v : Sums(v, s, d, k)
<1>. DEFINE step == [x \in Nat \X Int |->
                        Wrapped(Wrapped(10 * x[2]) + (IF x[1] < k THEN d[x[1] + 1] - Zero ELSE 0))]
            Adds(f) == f = [n \in 0..k |-> IF n = 0 THEN 0 ELSE
                                Wrapped(Wrapped(10 * f[n - 1]) + (d[n] - Zero))]
<1>0. \A n \in 1..k : d[n] - Zero \in 0..9
  BY ElementOfSeq, DigitFacts
<1>1. step \in [Nat \X Int -> Int]
  <2>. SUFFICES ASSUME NEW x \in Nat \X Int
                PROVE  Wrapped(Wrapped(10 * x[2]) + (IF x[1] < k THEN d[x[1] + 1] - Zero ELSE 0)) \in Int
    OBVIOUS
  <2>1. x[1] \in Nat /\ Wrapped(10 * x[2]) \in Int
    <3>1. x[1] \in Nat /\ 10 * x[2] \in Int
      OBVIOUS
    <3>. QED
      BY <3>1, WrappedFacts
  <2>2. (IF x[1] < k THEN d[x[1] + 1] - Zero ELSE 0) \in Int
    BY <1>0, <2>1
  <2>3. Wrapped(10 * x[2]) + (IF x[1] < k THEN d[x[1] + 1] - Zero ELSE 0) \in Int
    BY <2>1, <2>2
  <2>. QED
    BY <2>3, WrappedFacts
<1>2. \A n \in 0..(k - 1), x \in Int :
          step[<<n, x>>] = Wrapped(Wrapped(10 * x) + (d[n + 1] - Zero))
  OBVIOUS
<1>. HIDE DEF step
<1>3. PICK f : Recurs(f, k, 0, step)
  BY RecursionExists, Zenon
<1>4. f \in [0..k -> Int]
  <2>1. 0 \in Int
    OBVIOUS
  <2>. QED
    BY <1>1, <1>3, <2>1, RecursionType
<1>5. \A n \in 0..k : f[n] = IF n = 0 THEN 0 ELSE Wrapped(Wrapped(10 * f[n - 1]) + (d[n] - Zero))
  <2>1. \A n \in 0..k : f[n] = IF n = 0 THEN 0 ELSE step[<<n - 1, f[n - 1]>>]
    BY <1>3, Zenon DEF Recurs
  <2>. SUFFICES ASSUME NEW n \in 0..k, n # 0
                PROVE  f[n] = Wrapped(Wrapped(10 * f[n - 1]) + (d[n] - Zero))
    BY <2>1, Zenon
  <2>2. n - 1 \in 0..(k - 1) /\ (n - 1) + 1 = n /\ n - 1 \in 0..k
    OBVIOUS
  <2>3. f[n - 1] \in Int /\ f[n] = step[<<n - 1, f[n - 1]>>]
    BY <1>4, <2>1, <2>2
  <2>. QED
    BY <1>2, <2>2, <2>3
<1>6. Adds(f)
  <2>1. f = [n \in 0..k |-> f[n]]
    BY <1>4
  <2>. QED
    BY <1>5, <2>1, Zenon
<1>. DEFINE v == CHOOSE g : Adds(g)
<1>7. Adds(v)
  <2>. HIDE DEF Adds
  <2>. QED
    BY <1>6, Zenon
<1>8. stringtoll(s) = IF Head(s) = Minus THEN Wrapped(-v[k]) ELSE v[k]
  BY DEF stringtoll
<1>. HIDE DEF v
<1>9. \A n \in 0..k : v[n] = IF n = 0 THEN 0 ELSE Wrapped(Wrapped(10 * v[n - 1]) + (d[n] - Zero))
  BY <1>7, Zenon
<1>10. v = [n \in 0..k |-> v[n]]
  BY <1>7, Zenon
<1>. DEFINE D == {n \in 0..k : v[n] = f[n]}
<1>11. 0 \in D
  <2>1. 0 \in 0..k
    OBVIOUS
  <2>. QED
    BY <1>5, <1>9, <2>1, Zenon
<1>12. ASSUME NEW n \in 0..(k - 1), n \in D PROVE n + 1 \in D
  <2>1. n + 1 \in 0..k /\ n + 1 # 0 /\ (n + 1) - 1 = n /\ v[n] = f[n]
    BY <1>12
  <2>2. /\ v[n + 1] = Wrapped(Wrapped(10 * v[(n + 1) - 1]) + (d[n + 1] - Zero))
        /\ f[n + 1] = Wrapped(Wrapped(10 * f[(n + 1) - 1]) + (d[n + 1] - Zero))
    BY <1>5, <1>9, <2>1, Zenon
  <2>3. v[n + 1] = f[n + 1]
    BY <2>1, <2>2, Zenon
  <2>. QED
    BY <2>1, <2>3
<1>. HIDE DEF D
<1>13. \A n \in 0..k : v[n] = f[n]
  <2>1. 0..k \subseteq D
    BY <1>11, <1>12, Climb
  <2>. QED
    BY <2>1 DEF D
<1>14. v \in [0..k -> Int]
  BY <1>4, <1>10, <1>13
<1>15. v[0] = 0
  <2>1. 0 \in 0..k
    OBVIOUS
  <2>. QED
    BY <1>9, <2>1, Zenon
<1>16. ASSUME NEW n \in 0..(k - 1)
       PROVE  v[n + 1] = Wrapped(Wrapped(10 * v[n]) + (d[n + 1] - Zero))
  <2>1. n + 1 \in 0..k /\ n + 1 # 0 /\ (n + 1) - 1 = n
    OBVIOUS
  <2>2. v[n + 1] = Wrapped(Wrapped(10 * v[(n + 1) - 1]) + (d[n + 1] - Zero))
    BY <1>9, <2>1, Zenon
  <2>. QED
    BY <2>1, <2>2, Zenon
<1>17. Sums(v, s, d, k)
  BY <1>8, <1>14, <1>15, <1>16, Zenon DEF Sums
<1>. QED
  BY <1>17

\* stringtoll yields a long long.
LEMMA StringtollFits ==
    ASSUME NEW s \in Seq(Byte), s # <<>>, Accepted(s)
    PROVE  stringtoll(s) \in Int /\ Fits(stringtoll(s), IntWidth[4])
<1>. DEFINE d == Digits(s)
            k == Len(d)
<1>1. d \in Seq(Digit) /\ k \in Nat \ {0} /\ k \in Nat
  BY AcceptedFacts DEF IsNumber
<1>2. d = Digits(s)
  OBVIOUS
<1>. HIDE DEF d
<1>3. PICK v : Sums(v, s, d, k)
  <2>1. Len(d) = k
    OBVIOUS
  <2>. HIDE DEF k
  <2>. QED
    BY <1>1, <1>2, <2>1, SumsOfStringtoll, Zenon
<1>4. v[k] \in Int /\ -v[k] \in Int
  BY <1>1, <1>3 DEF Sums
<1>5. v[k] \in Int /\ Fits(v[k], IntWidth[4])
  <2>1. k - 1 \in 0..(k - 1) /\ (k - 1) + 1 = k /\ k - 1 \in 0..k
    BY <1>1
  <2>2. v[k - 1] \in Int /\ d[k] - Zero \in Int
    <3>1. d[k] \in Digit
      BY <1>1, ElementOfSeq
    <3>2. d[k] - Zero \in 0..9
      BY <3>1, DigitFacts
    <3>3. v[k - 1] \in Int
      BY <1>3, <2>1 DEF Sums
    <3>. QED
      BY <3>2, <3>3
  <2>3. Wrapped(10 * v[k - 1]) \in Int
    <3>1. 10 * v[k - 1] \in Int
      BY <2>2
    <3>. QED
      BY <3>1, WrappedFacts
  <2>4. Wrapped(10 * v[k - 1]) + (d[k] - Zero) \in Int
    BY <2>2, <2>3
  <2>5. v[k] = Wrapped(Wrapped(10 * v[k - 1]) + (d[k] - Zero))
    BY <1>3, <2>1 DEF Sums
  <2>. QED
    BY <2>4, <2>5, WrappedFacts
<1>. QED
  BY <1>3, <1>4, <1>5, WrappedFacts DEF Sums

\* The smallest width that will do.
Narrowest(v, k) == Fits(v, IntWidth[k]) /\ \A j \in 1..(k - 1) : ~Fits(v, IntWidth[j])

\* The encoding chosen for a number is the narrowest that holds it.
LEMMA EncodingOfFacts ==
    ASSUME NEW v, Fits(v, IntWidth[4])
    PROVE  \E k \in 1..4 : EncodingOf(v) = IntEncodings[k] /\ Narrowest(v, k)
<1>1. \E k \in 1..4 : Narrowest(v, k)
  <2>. DEFINE D == {k \in 1..4 : Fits(v, IntWidth[k])}
  <2>1. D \subseteq Nat /\ D # {}
    OBVIOUS
  <2>2. PICK k \in D : \A j \in D : k <= j
    <3>. HIDE DEF D
    <3>. QED
      BY <2>1, Least
  <2>3. \A j \in 1..(k - 1) : j \in 1..4 /\ ~(k <= j)
    OBVIOUS
  <2>. QED
    BY <2>2, <2>3 DEF Narrowest
<1>2. EncodingOf(v) = IntEncodings[CHOOSE k \in 1..4 : Narrowest(v, k)]
  BY Zenon DEF EncodingOf, Narrowest
<1>. QED
  BY <1>1, <1>2

-----------------------------------------------------------------------------
(* The entry an insertion writes *)

\* The content of an entry: the text, or the number it stands for in the
\* smallest width that holds it.
AsText(text) ==
    ~zipTryIntegerEncoding(text) /\ Content[text] = [encoding |-> 0, bytes |-> text]
AsNumber(text, k, v) ==
    /\ k \in 1..4 /\ v \in Int /\ v = stringtoll(text) /\ Narrowest(v, k)
    /\ zipTryIntegerEncoding(text)
    /\ Content[text] = [encoding |-> IntEncodings[k],
                        bytes |-> LittleEndian(v % Power[IntWidth[k]], IntWidth[k])]

\* The content of an entry is the text or its number.
LEMMA ContentFacts ==
    ASSUME NEW text \in Text
    PROVE  /\ text \in Seq(Byte) /\ Len(text) \in 0..(Power[4] - 1)
           /\ AsText(text) \/ \E k, v : AsNumber(text, k, v)
<1>1. text \in Seq(Byte) /\ Len(text) \in 0..(Power[4] - 1)
  <2>1. text \in Seq(Byte) /\ Len(text) + 10 < Power[4]
    BY TextAssumption
  <2>2. Len(text) \in Nat /\ Power[4] \in Nat
    BY <2>1, LenProperties, PowerFacts
  <2>. QED
    BY <2>1, <2>2
<1>2. CASE ~zipTryIntegerEncoding(text)
  BY <1>1, <1>2, Zenon DEF Content, AsText
<1>3. CASE zipTryIntegerEncoding(text)
  <2>. DEFINE v == stringtoll(text)
  <2>1. v \in Int /\ Fits(v, IntWidth[4])
    <3>1. text # <<>> /\ Accepted(text)
      BY <1>3 DEF zipTryIntegerEncoding
    <3>. QED
      BY <1>1, <3>1, StringtollFits
  <2>2. Content[text] = [encoding |-> EncodingOf(v), bytes |-> zipSaveInteger(v, EncodingOf(v))]
    BY <1>3, Zenon DEF Content
  <2>3. v = stringtoll(text)
    OBVIOUS
  <2>. HIDE DEF v
  <2>4. PICK k \in 1..4 : EncodingOf(v) = IntEncodings[k] /\ Narrowest(v, k)
    BY <2>1, EncodingOfFacts
  <2>5. zipIntSize(IntEncodings[k]) = IntWidth[k]
    BY IntSizeFacts
  <2>6. zipSaveInteger(v, EncodingOf(v)) = LittleEndian(v % Power[IntWidth[k]], IntWidth[k])
    BY <2>4, <2>5, Zenon DEF zipSaveInteger
  <2>7. AsNumber(text, k, v)
    BY <1>3, <2>1, <2>2, <2>3, <2>4, <2>6, Zenon DEF AsNumber
  <2>. QED
    BY <1>1, <2>7
<1>. QED
  BY <1>1, <1>2, <1>3

\* The bytes of a number stand for it, modulo their number of values.
LEMMA NumberBytes ==
    ASSUME NEW text, NEW k, NEW v, AsNumber(text, k, v)
    PROVE  /\ Content[text].encoding = IntEncodings[k]
           /\ Content[text].bytes \in Seq(Byte)
           /\ Len(Content[text].bytes) = IntWidth[k] /\ IntWidth[k] \in Nat \ {0}
           /\ Value(Content[text].bytes) = v % Power[IntWidth[k]]
<1>. DEFINE w == IntWidth[k]
            b == LittleEndian(v % Power[w], w)
<1>1. k \in 1..4 /\ v \in Int /\ Content[text] = [encoding |-> IntEncodings[k], bytes |-> b]
  BY Zenon DEF AsNumber
<1>2. w \in Nat \ {0} /\ Power[w] \in Nat \ {0}
  BY <1>1, IntSizeFacts, PowerFacts
<1>. HIDE DEF w
<1>3. v % Power[w] \in Nat /\ v % Power[w] \in 0..(Power[w] - 1) /\ w \in Nat
  BY <1>1, <1>2
<1>4. b \in Seq(Byte) /\ Len(b) = w
  BY <1>3, LittleEndianFacts
<1>5. Value(b) = v % Power[w]
  BY <1>3, ReadsBackSmall
<1>. HIDE DEF b
<1>6. Content[text].encoding = IntEncodings[k] /\ Content[text].bytes = b
  BY <1>1
<1>. QED
  BY <1>2, <1>4, <1>5, <1>6 DEF w

\* The code that is written for the encoding e of a text of n bytes, with the
\* content b: how many bytes it has beside the room reserved for it, and what
\* is read of it.
Coded(text, e, b, n, code, room) ==
    /\ code \in Seq(Byte) /\ Len(code) \in Nat \ {0} /\ room \in Nat
    /\ b \in Seq(Byte) /\ Len(b) \in Nat
    /\ Len(code) > Len(b) <=> text = <<>>
    /\ text = <<>> => Len(code) = 1 /\ Len(b) = 0
    /\ Len(code) = room <=> ~(Zip_Is_Str(e) /\ n = Quarter - 1)
    /\ DecodesTo(code, e, n)

\* The code of every text is as Coded says.
LEMMA CodeFacts ==
    ASSUME NEW text \in Text
    PROVE  LET e == Content[text].encoding
           IN  Coded(text, e, Content[text].bytes, Len(text),
                     zipSetCurrentEncode(e, Len(text)), GetCurrentEncodeLen(e, Len(text)))
<1>. DEFINE c == Content[text]
            n == Len(text)
            code == zipSetCurrentEncode(c.encoding, n)
            room == GetCurrentEncodeLen(c.encoding, n)
<1>0. /\ text \in Seq(Byte) /\ n \in 0..(Power[4] - 1) /\ n \in Nat
      /\ (text = <<>> <=> n = 0)
  <2>1. text \in Seq(Byte) /\ n \in 0..(Power[4] - 1) /\ n \in Nat
    BY ContentFacts, LenProperties
  <2>2. text = <<>> <=> n = 0
    BY <2>1, EmptySeq
  <2>. QED
    BY <2>1, <2>2
<1>1. CASE AsText(text)
  <2>1. c.encoding = 0 /\ c.bytes = text
    BY <1>1 DEF AsText
  <2>2. code = zipSetCurrentEncode(0, n) /\ room = GetCurrentEncodeLen(0, n)
    BY <2>1
  <2>3. Zip_Is_Str(0)
    BY DecodeFacts
  <2>0. n \in Nat /\ (text = <<>> <=> n = 0) /\ text \in Seq(Byte) /\ Len(text) = n
    BY <1>0
  <2>. HIDE DEF c, n, code, room
  <2>. DEFINE product == Quarter * Base
  <2>4. product \in Nat /\ product >= 5 /\ product > Quarter
    BY BaseFacts
  <2>5. room = IF n < Quarter - 1 THEN 1 ELSE IF n < product THEN 2 ELSE 5
    BY <2>2, <2>3 DEF GetCurrentEncodeLen
  <2>. HIDE DEF product
  <2>6. CASE n \in 0..(Quarter - 1)
    <3>1. code \in Seq(Byte) /\ Len(code) = 1 /\ DecodesTo(code, 0, n)
      BY <2>2, <2>6, ShortCode
    <3>2. room \in Nat /\ (Len(code) = room <=> n # Quarter - 1)
      BY <2>4, <2>5, <2>6, <3>1, BaseFacts
    <3>3. Coded(text, 0, text, n, code, room)
      BY <2>0, <2>3, <3>1, <3>2 DEF Coded
    <3>. QED
      BY <2>1, <3>3, Zenon DEF c, n, code, room
  <2>7. CASE n \in Quarter..(product - 1)
    <3>1. code \in Seq(Byte) /\ Len(code) = 2 /\ DecodesTo(code, 0, n)
      BY <2>2, <2>7, MiddleCode DEF product
    <3>2. room \in Nat /\ Len(code) = room /\ n # Quarter - 1 /\ n >= 2
      BY <2>4, <2>5, <2>7, <3>1, BaseFacts
    <3>3. Coded(text, 0, text, n, code, room)
      <4>1. /\ text # <<>> /\ ~(Len(code) > Len(text)) /\ Len(text) \in Nat
            /\ Len(code) \in Nat \ {0}
        BY <2>0, <3>1, <3>2
      <4>2. Len(code) = room <=> ~(Zip_Is_Str(0) /\ n = Quarter - 1)
        BY <3>2
      <4>. QED
        BY <2>0, <3>1, <3>2, <4>1, <4>2, Zenon DEF Coded
    <3>. QED
      BY <2>1, <3>3, Zenon DEF c, n, code, room
  <2>8. CASE product <= n
    <3>1. code \in Seq(Byte) /\ Len(code) = 5 /\ DecodesTo(code, 0, n)
      BY <1>0, <2>2, <2>8, LongCode DEF product, n
    <3>2. room \in Nat /\ Len(code) = room /\ n # Quarter - 1 /\ n >= 5
      BY <1>0, <2>4, <2>5, <2>8, <3>1, BaseFacts DEF n
    <3>3. Coded(text, 0, text, n, code, room)
      <4>1. /\ text # <<>> /\ ~(Len(code) > Len(text)) /\ Len(text) \in Nat
            /\ Len(code) \in Nat \ {0}
        BY <2>0, <3>1, <3>2
      <4>2. Len(code) = room <=> ~(Zip_Is_Str(0) /\ n = Quarter - 1)
        BY <3>2
      <4>. QED
        BY <2>0, <3>1, <3>2, <4>1, <4>2, Zenon DEF Coded
    <3>. QED
      BY <2>1, <3>3, Zenon DEF c, n, code, room
  <2>9. n \in Nat
    BY <1>0 DEF n
  <2>. QED
    BY <2>4, <2>6, <2>7, <2>8, <2>9, BaseFacts
<1>2. CASE \E k, v : AsNumber(text, k, v)
  <2>1. PICK k, v : AsNumber(text, k, v)
    BY <1>2
  <2>2. /\ c.encoding = IntEncodings[k] /\ c.bytes \in Seq(Byte)
        /\ Len(c.bytes) \in Nat \ {0}
    BY <2>1, NumberBytes
  <2>3. k \in 1..4 /\ text # <<>>
    BY <2>1 DEF AsNumber, zipTryIntegerEncoding
  <2>. DEFINE e == IntEncodings[k]
  <2>4. e \in Byte /\ ~Zip_Is_Str(e)
    BY <2>3, EncodingFacts
  <2>5. zipSetCurrentEncode(e, n) = <<e>> /\ DecodesTo(<<e>>, e, n)
    BY <2>3, IntegerCode
  <2>6. c.encoding = e
    BY <2>2
  <2>. HIDE DEF e, c, n
  <2>7. code = <<e>> /\ DecodesTo(code, c.encoding, n)
    BY <2>5, <2>6
  <2>8. room = 1
    BY <2>4, <2>6 DEF GetCurrentEncodeLen
  <2>. HIDE DEF code, room
  <2>9. code \in Seq(Byte) /\ Len(code) = 1
    BY <2>4, <2>7
  <2>10. ~Zip_Is_Str(c.encoding)
    BY <2>4, <2>6
  <2>11. ~(Len(code) > Len(c.bytes)) /\ Len(c.bytes) \in Nat
    BY <2>2, <2>9 DEF c
  <2>12. Coded(text, c.encoding, c.bytes, n, code, room)
    <3>1. c.bytes \in Seq(Byte)
      BY <2>2 DEF c
    <3>. QED
      BY <2>3, <2>7, <2>8, <2>9, <2>10, <2>11, <3>1 DEF Coded
  <2>. QED
    BY <2>12, Zenon DEF c, n, code, room
<1>. QED
  BY <1>1, <1>2, ContentFacts

\* The content covers the code it is written over, unless it is empty.
LEMMA OverFacts ==
    ASSUME NEW text, NEW e, NEW b, NEW n, NEW code, NEW room, Coded(text, e, b, n, code, room)
    PROVE  /\ Over(code, b) \in Seq(Byte)
           /\ Len(Over(code, b)) = Len(b) + (IF text = <<>> THEN 1 ELSE 0)
           /\ text # <<>> => Over(code, b) = b
<1>0. /\ code \in Seq(Byte) /\ Len(code) \in Nat \ {0} /\ b \in Seq(Byte) /\ Len(b) \in Nat
      /\ (text # <<>> => Len(code) <= Len(b)) /\ (text = <<>> => Len(code) = 1 /\ Len(b) = 0)
  BY DEF Coded
<1>. DEFINE rest == SubSeq(code, Len(b) + 1, Len(code))
<1>1. Over(code, b) = b \o rest
  BY DEF Over
<1>2. CASE text # <<>>
  <2>1. Len(b) + 1 \in Int /\ Len(code) \in Int /\ Len(code) < Len(b) + 1
    BY <1>0, <1>2
  <2>2. rest = <<>>
    BY <2>1, SubSeqEmpty
  <2>3. b \o rest = b
    BY <1>0, <2>2, ConcatEmptySeq
  <2>. QED
    BY <1>0, <1>1, <1>2, <2>3
<1>3. CASE text = <<>>
  <2>1. rest \in Seq(Byte) /\ Len(rest) = 1
    <3>1. Len(b) + 1 = 1 /\ 1 \in Nat \ {0} /\ 1 \in Nat /\ 1 <= Len(code) /\ 1 <= 1 + 1
      BY <1>0, <1>3
    <3>2. /\ SubSeq(code, 1, 1) \in Seq(Byte) /\ Len(SubSeq(code, 1, 1)) = 1 - 1 + 1
      <4>1. \A j \in 1..1 : code[j] \in Byte
        BY <1>0, ElementOfSeq
      <4>2. /\ SubSeq(code, 1, 1) \in Seq(Byte)
            /\ Len(SubSeq(code, 1, 1)) = IF 1 <= 1 THEN 1 - 1 + 1 ELSE 0
        BY <4>1, SubSeqProperties
      <4>. QED
        BY <4>2
    <3>3. rest = SubSeq(code, 1, 1)
      <4>1. Len(b) + 1 = 1 /\ Len(code) = 1
        BY <1>0, <1>3
      <4>. QED
        BY <4>1, Zenon
    <3>. QED
      BY <3>2, <3>3
  <2>. HIDE DEF rest
  <2>2. b \o rest \in Seq(Byte) /\ Len(b \o rest) = Len(b) + Len(rest)
    BY <1>0, <2>1, ConcatProperties
  <2>. QED
    BY <1>1, <1>3, <2>1, <2>2
<1>. QED
  BY <1>2, <1>3

\* The parts of what an insertion writes: the length of the previous entry, g
\* bytes nobody has written, and o.
Parts(b, p, g, o) ==
    /\ Len(b) = Len(p) + g + Len(o)
    /\ Begins(b, p)
    /\ \A j \in 1..Len(o) : b[Len(p) + g + j] = o[j]

\* The parts of a sequence put together of three.
LEMMA Concatenated ==
    ASSUME NEW S, NEW p \in Seq(S), NEW gap \in Seq(S), NEW o \in Seq(S)
    PROVE  Parts(p \o gap \o o, p, Len(gap), o)
<1>. DEFINE a == p \o gap
            b == a \o o
<1>0. Len(p) \in Nat /\ Len(gap) \in Nat /\ Len(o) \in Nat
  BY LenProperties
<1>1. /\ a \in Seq(S) /\ Len(a) = Len(p) + Len(gap)
      /\ \A j \in 1..(Len(p) + Len(gap)) : a[j] = IF j <= Len(p) THEN p[j] ELSE gap[j - Len(p)]
  BY ConcatProperties
<1>. HIDE DEF a
<1>2. /\ b \in Seq(S) /\ Len(b) = Len(a) + Len(o)
      /\ \A j \in 1..(Len(a) + Len(o)) : b[j] = IF j <= Len(a) THEN a[j] ELSE o[j - Len(a)]
  <2>1. a \in Seq(S)
    BY <1>1
  <2>. QED
    BY <2>1, ConcatProperties
<1>. HIDE DEF b
<1>3. Len(b) = Len(p) + Len(gap) + Len(o)
  BY <1>0, <1>1, <1>2
<1>4. \A j \in 1..Len(p) : b[j] = p[j]
  BY <1>0, <1>1, <1>2
<1>5. \A j \in 1..Len(o) : b[Len(p) + Len(gap) + j] = o[j]
  <2>. TAKE j \in 1..Len(o)
  <2>1. /\ Len(a) + j \in 1..(Len(a) + Len(o)) /\ ~(Len(a) + j <= Len(a))
        /\ (Len(a) + j) - Len(a) = j /\ Len(p) + Len(gap) + j = Len(a) + j
    BY <1>0, <1>1
  <2>. QED
    BY <1>2, <2>1
<1>6. Parts(b, p, Len(gap), o)
  <2>1. Len(b) \in Nat /\ Len(b) >= Len(p)
    BY <1>0, <1>3
  <2>. QED
    BY <1>3, <1>4, <1>5, <2>1 DEF Parts, Begins
<1>. QED
  BY <1>6 DEF a, b

\* An entry as it is written.
LEMMA WrittenFacts ==
    ASSUME NEW text \in Text, NEW prevlen \in Length
    PROVE  LET c == Content[text]
               code == zipSetCurrentEncode(c.encoding, Len(text))
               room == GetCurrentEncodeLen(c.encoding, Len(text))
           IN  Parts(Written(text, prevlen), zipPrevEncodeLength(prevlen), room,
                     Over(code, c.bytes))
<1>. DEFINE c == Content[text]
            code == zipSetCurrentEncode(c.encoding, Len(text))
            room == GetCurrentEncodeLen(c.encoding, Len(text))
            p == zipPrevEncodeLength(prevlen)
            gap == [j \in 1..room |-> JUNK]
            o == Over(code, c.bytes)
            S == Byte \cup {JUNK}
<1>1. Written(text, prevlen) = p \o gap \o o
  BY Zenon DEF Written
<1>2. room \in Nat /\ o \in Seq(Byte)
  BY CodeFacts, OverFacts, Zenon DEF Coded
<1>3. p \in Seq(Byte)
  <2>1. prevlen \in 0..(Power[4] - 1)
    BY SizeAssumption
  <2>. QED
    BY <2>1, PrevFacts
<1>. HIDE DEF room, o, p
<1>4. gap \in Seq(S) /\ Len(gap) = room
  <2>1. gap \in [1..room -> S]
    OBVIOUS
  <2>. QED
    BY <1>2, <2>1
<1>. HIDE DEF gap
<1>5. o \in Seq(S) /\ p \in Seq(S)
  <2>1. Byte \subseteq S
    OBVIOUS
  <2>. HIDE DEF S
  <2>. QED
    BY <1>2, <1>3, <2>1, SeqMonotonic
<1>6. Parts(p \o gap \o o, p, Len(gap), o)
  <2>. HIDE DEF S
  <2>. QED
    BY <1>4, <1>5, Concatenated, Zenon
<1>. QED
  BY <1>1, <1>4, <1>6, Zenon DEF room, o, p

-----------------------------------------------------------------------------
(* The steps *)

\* What is decoded of the code of a content is what was encoded.
THEOREM EncodingRoundTrip ==
    ASSUME NEW text \in Text
    PROVE  EncodingReadsBack(Content[text].encoding, Len(text))
<1>. DEFINE e == Content[text].encoding
            n == Len(text)
            code == zipSetCurrentEncode(e, n)
            room == GetCurrentEncodeLen(e, n)
<1>1. Coded(text, e, Content[text].bytes, n, code, room)
  BY CodeFacts, Zenon
<1>2. DecodesTo(code, e, n) /\ (Len(code) = room <=> ~(Zip_Is_Str(e) /\ n = Quarter - 1))
  BY <1>1 DEF Coded
<1>. HIDE DEF e, n
<1>3. EncodingReadsBack(e, n)
  BY <1>2, Zenon DEF EncodingReadsBack, DecodesTo
<1>. QED
  BY <1>3 DEF e, n

\* What is reserved for an entry: its length is an unsigned int.
LEMMA ReservedFacts ==
    ASSUME NEW text \in Text, NEW prevlen \in Length
    PROVE  /\ Reserved(text, prevlen) \in 0..(Power[4] - 1)
           /\ Len(Content[text].bytes) \in 0..(Power[4] - 1)
<1>. DEFINE c == Len(Content[text].bytes)
            p == PrevSize(prevlen)
            room == GetCurrentEncodeLen(Content[text].encoding, Len(text))
<1>0. Power[4] \in Nat
  BY PowerFacts
<1>1. c \in Nat /\ c + 10 < Power[4]
  <2>1. CASE AsText(text)
    <3>1. Content[text].bytes = text
      BY <2>1 DEF AsText
    <3>. QED
      BY <3>1, TextAssumption, LenProperties
  <2>2. ASSUME NEW k, NEW v, AsNumber(text, k, v) PROVE c \in Nat /\ c + 10 < Power[4]
    <3>1. c = IntWidth[k] /\ k \in 1..4
      BY <2>2, NumberBytes DEF AsNumber
    <3>2. IntWidth[k] \in Nat /\ IntWidth[4] \in Nat /\ IntWidth[k] <= IntWidth[4]
      <4>1. /\ \A n \in 1..4 : IntWidth[n] \in Nat
            /\ IntWidth[1] < IntWidth[2] /\ IntWidth[2] < IntWidth[3] /\ IntWidth[3] < IntWidth[4]
        BY IntWidthAssumption
      <4>. QED
        BY <3>1, <4>1
    <3>3. IntWidth[4] + 10 < Power[4]
      BY TextAssumption
    <3>. QED
      BY <1>0, <3>1, <3>2, <3>3
  <2>. QED
    BY <2>1, <2>2, ContentFacts
<1>2. p \in {1, 5}
  <2>1. prevlen \in 0..(Power[4] - 1)
    BY SizeAssumption
  <2>. QED
    BY <2>1, PrevFacts
<1>3. room \in {1, 2, 5}
  BY DEF GetCurrentEncodeLen
<1>4. Reserved(text, prevlen) = c + p + room
  BY DEF Reserved
<1>. HIDE DEF c, p, room
<1>5. c \in 0..(Power[4] - 1) /\ c + p + room \in 0..(Power[4] - 1)
  BY <1>0, <1>1, <1>2, <1>3
<1>. QED
  BY <1>4, <1>5 DEF c

\* An entry, written or to be written, is that of a text, a length and the size
\* of a field of the next one.
IsEntry(e) ==
    e # NULL => \E text \in Text, prevlen \in Length, size \in Nat :
                    e = Entry(text, prevlen, size)

EntryInv == IsEntry(entry) /\ IsEntry(todo)

\* EntryInv is inductive.
LEMMA EntriesAreWritten == Spec => []EntryInv
<1>1. Init => EntryInv
  BY DEF Init, EntryInv, IsEntry
<1>2. EntryInv /\ [Next]_zvars => EntryInv'
  <2>. SUFFICES ASSUME EntryInv, [Next]_zvars PROVE EntryInv'
    OBVIOUS
  <2>0. IsEntry(NULL) /\ IsEntry(entry) /\ IsEntry(todo)
    BY DEF EntryInv, IsEntry
  <2>1. ASSUME NEW nextdiff, NEW e, IsEntry(e), Continue(nextdiff, e) PROVE EntryInv'
    <3>1. entry' \in {entry, e} /\ todo' \in {todo, e}
      BY <2>1 DEF Continue
    <3>2. IsEntry(entry') /\ IsEntry(todo')
      BY <2>0, <2>1, <3>1
    <3>. QED
      BY <3>2 DEF EntryInv, IsEntry
  <2>2. CASE CreateZiplist
    BY <2>0, <2>2 DEF CreateZiplist, EntryInv, IsEntry
  <2>3. CASE ziplistInsert
    <3>0. PICK text \in Text, prevlen \in Length :
              \E size \in {0} \cup PrevForms(prevlen) :
                  Continue(NextDiff(text, size), Entry(text, prevlen, size))
      BY <2>3, Zenon DEF ziplistInsert
    <3>1. PICK size \in {0} \cup PrevForms(prevlen) :
              Continue(NextDiff(text, size), Entry(text, prevlen, size))
      BY <3>0
    <3>2. size \in Nat
      BY DEF PrevForms
    <3>3. IsEntry(Entry(text, prevlen, size))
      BY <3>2 DEF IsEntry
    <3>. QED
      BY <2>1, <3>1, <3>3
  <2>4. CASE ziplistDelete
    <3>1. PICK nextdiff : Continue(nextdiff, NULL)
      BY <2>4, Zenon DEF ziplistDelete
    <3>. QED
      BY <2>0, <2>1, <3>1
  <2>5. CASE CascadeGrows
    BY <2>0, <2>5 DEF CascadeGrows, EntryInv, IsEntry
  <2>6. CASE CascadeEnds
    BY <2>0, <2>6 DEF CascadeEnds, EntryInv, IsEntry
  <2>7. CASE Return
    BY <2>0, <2>7 DEF Return, EntryInv, IsEntry
  <2>8. CASE UNCHANGED zvars
    BY <2>0, <2>8 DEF zvars, EntryInv, IsEntry
  <2>. QED
    BY <2>2, <2>3, <2>4, <2>5, <2>6, <2>7, <2>8 DEF Next
<1>. QED
  BY <1>1, <1>2, PTL DEF Spec

\* The fields of an entry.
LEMMA EntryFields ==
    ASSUME NEW text, NEW prevlen, NEW size
    PROVE  LET e == Entry(text, prevlen, size)
           IN  /\ e.text = text /\ e.prevlen = prevlen
               /\ e.encoding = Content[text].encoding
               /\ e.reserved = Reserved(text, prevlen)
               /\ e.bytes = Written(text, prevlen)
               /\ e.next = NextEntry(text, prevlen, size)
  BY DEF Entry

\* The length of an entry's bytes, and where they have its content.
LEMMA EntryBytes ==
    ASSUME NEW text \in Text, NEW prevlen \in Length
    PROVE  LET b == Written(text, prevlen)
               c == Content[text]
               at == PrevSize(prevlen) + GetCurrentEncodeLen(c.encoding, Len(text))
           IN  /\ Len(b) = Reserved(text, prevlen) + (IF text = <<>> THEN 1 ELSE 0)
               /\ at \in Nat /\ Reserved(text, prevlen) = at + Len(c.bytes)
               /\ c.bytes \in Seq(Byte) /\ (text = <<>> => Len(c.bytes) = 0)
               /\ text # <<>> => \A j \in 1..Len(c.bytes) : b[at + j] = c.bytes[j]
<1>. DEFINE c == Content[text]
            code == zipSetCurrentEncode(c.encoding, Len(text))
            room == GetCurrentEncodeLen(c.encoding, Len(text))
            p == zipPrevEncodeLength(prevlen)
            o == Over(code, c.bytes)
            b == Written(text, prevlen)
            more == IF text = <<>> THEN 1 ELSE 0
<1>2. Coded(text, c.encoding, c.bytes, Len(text), code, room)
  BY CodeFacts, Zenon
<1>3. Len(o) = Len(c.bytes) + more /\ (text # <<>> => o = c.bytes)
  BY <1>2, OverFacts, Zenon
<1>4. Parts(b, p, room, o)
  BY WrittenFacts, Zenon
<1>5. /\ room \in Nat /\ Len(c.bytes) \in Nat /\ c.bytes \in Seq(Byte)
      /\ text = <<>> => Len(c.bytes) = 0
  BY <1>2 DEF Coded
<1>6. Reserved(text, prevlen) = Len(c.bytes) + Len(p) + room /\ PrevSize(prevlen) = Len(p)
  BY DEF Reserved, PrevSize
<1>7. Len(p) \in Nat
  <2>1. prevlen \in 0..(Power[4] - 1)
    BY SizeAssumption
  <2>. QED
    BY <2>1, PrevFacts DEF PrevSize
<1>8. Len(b) = Len(p) + room + Len(o) /\ \A j \in 1..Len(o) : b[Len(p) + room + j] = o[j]
  BY <1>4 DEF Parts
<1>10. more \in Nat
  OBVIOUS
<1>. HIDE DEF c, code, room, p, o, b, more
<1>11. Len(b) = Reserved(text, prevlen) + more
  <2>. DEFINE lp == Len(p)
              lc == Len(c.bytes)
              lo == Len(o)
              lb == Len(b)
              res == Reserved(text, prevlen)
  <2>1. /\ lo = lc + more /\ room \in Nat /\ lc \in Nat /\ lp \in Nat /\ more \in Nat
        /\ res = lc + lp + room /\ lb = lp + room + lo
    BY <1>3, <1>5, <1>6, <1>7, <1>8, <1>10, Zenon
  <2>. HIDE DEF lp, lc, lo, lb, res
  <2>2. lb = res + more
    BY <2>1
  <2>. QED
    BY <2>2 DEF lb, res
<1>12. Len(p) + room \in Nat /\ Reserved(text, prevlen) = (Len(p) + room) + Len(c.bytes)
  <2>. DEFINE lp == Len(p)
              lc == Len(c.bytes)
              res == Reserved(text, prevlen)
  <2>1. res = lc + lp + room /\ room \in Nat /\ lc \in Nat /\ lp \in Nat
    BY <1>5, <1>6, <1>7, Zenon
  <2>. HIDE DEF lp, lc, res
  <2>2. lp + room \in Nat /\ res = (lp + room) + lc
    BY <2>1
  <2>. QED
    BY <2>2 DEF lp, lc, res
<1>13. text # <<>> => \A j \in 1..Len(c.bytes) : b[(Len(p) + room) + j] = c.bytes[j]
  BY <1>3, <1>8
<1>. QED
  BY <1>5, <1>6, <1>11, <1>12, <1>13, Zenon DEF c, room, p, b, more

\* The bytes of the next entry's field, beside the room made for them.
LEMMA NextFacts ==
    ASSUME NEW text \in Text, NEW prevlen \in Length, NEW size \in Nat,
           NextEntry(text, prevlen, size) # NULL
    PROVE  LET n == NextEntry(text, prevlen, size)
               r == Reserved(text, prevlen)
               c == Len(Content[text].bytes)
           IN  /\ GetPrevEntryLen(n.bytes) = r
               /\ Len(n.bytes) = n.room
                     + (IF c < ZIP_BIGLEN /\ r >= ZIP_BIGLEN THEN 4 ELSE 0)
<1>. DEFINE r == Reserved(text, prevlen)
            c == Len(Content[text].bytes)
            f == zipPrevEncodeLength(r)
            room == size + NextDiff(text, size)
<1>1. r \in 0..(Power[4] - 1) /\ c \in 0..(Power[4] - 1) /\ Power[4] \in Nat
  BY ReservedFacts, PowerFacts
<1>2. c <= r
  <2>1. /\ r = PrevSize(prevlen) + GetCurrentEncodeLen(Content[text].encoding, Len(text)) + c
        /\ PrevSize(prevlen) + GetCurrentEncodeLen(Content[text].encoding, Len(text)) \in Nat
    BY EntryBytes, Zenon
  <2>. HIDE DEF r, c
  <2>. QED
    BY <1>1, <2>1
<1>3. size # 0 /\ NextEntry(text, prevlen, size) = [room |-> room, bytes |-> f]
  BY DEF NextEntry
<1>4. room = PrevSize(c)
  <2>1. room = size + (PrevSize(c) - size)
    BY <1>3 DEF NextDiff
  <2>2. PrevSize(c) \in Nat
    BY <1>1, PrevFacts
  <2>. QED
    BY <2>1, <2>2
<1>. HIDE DEF r, c, room
<1>5. PrevSize(c) = (IF c < ZIP_BIGLEN THEN 1 ELSE 5)
  BY <1>1, PrevFacts
<1>6. /\ Len(f) = (IF r < ZIP_BIGLEN THEN 1 ELSE 5)
      /\ Len(f) \in Nat
      /\ \A b : Begins(b, f) => GetPrevEntryLen(b) = r
  BY <1>1, PrevFacts DEF PrevSize
<1>. HIDE DEF f
<1>7. GetPrevEntryLen(f) = r
  <2>1. Begins(f, f)
    BY <1>6 DEF Begins
  <2>. QED
    BY <1>6, <2>1
<1>8. Len(f) = room + (IF c < ZIP_BIGLEN /\ r >= ZIP_BIGLEN THEN 4 ELSE 0)
  <2>1. ZIP_BIGLEN \in Nat
    BY BaseFacts DEF ZIP_BIGLEN
  <2>. QED
    BY <1>1, <1>2, <1>4, <1>5, <1>6, <2>1
<1>9. NextEntry(text, prevlen, size).bytes = f /\ NextEntry(text, prevlen, size).room = room
  BY <1>3
<1>. QED
  BY <1>7, <1>8, <1>9, Zenon DEF r, c

\* An insertion writes the bytes it has reserved and no others, but for the
\* empty text, which takes one more, and the next entry's length field, which
\* takes four more if only the bytes in front of the content take the entry past
\* 253 (ziplist.cpp:539-594).
THEOREM InsertionsStayInside == Spec => []WritesStayInEntry
<1>1. EntryInv => WritesStayInEntry
  <2>. SUFFICES ASSUME EntryInv, entry # NULL PROVE WritesStayInEntry
    BY DEF WritesStayInEntry
  <2>1. PICK text \in Text, prevlen \in Length, size \in Nat :
                entry = Entry(text, prevlen, size)
    BY DEF EntryInv, IsEntry
  <2>2. /\ entry.text = text /\ entry.reserved = Reserved(text, prevlen)
        /\ entry.bytes = Written(text, prevlen) /\ entry.next = NextEntry(text, prevlen, size)
    BY <2>1, EntryFields
  <2>3. Len(entry.bytes) = entry.reserved + (IF entry.text = <<>> THEN 1 ELSE 0)
    <3>1. Len(Written(text, prevlen)) =
             Reserved(text, prevlen) + (IF text = <<>> THEN 1 ELSE 0)
      BY EntryBytes, Zenon
    <3>. QED
      BY <2>2, <3>1
  <2>4. entry.next # NULL =>
           Len(entry.next.bytes) = entry.next.room
              + (IF Len(Content[entry.text].bytes) < ZIP_BIGLEN
                     /\ entry.reserved >= ZIP_BIGLEN THEN 4 ELSE 0)
    BY <2>2, NextFacts, Zenon
  <2>. QED
    BY <2>3, <2>4 DEF WritesStayInEntry
<1>. QED
  BY <1>1, EntriesAreWritten, PTL

\* The last bytes of an entry are its content.
LEMMA LastBytes ==
    ASSUME NEW S, NEW c \in Seq(S), NEW b, NEW m \in Nat,
           Len(b) = m + Len(c), \A j \in 1..Len(c) : b[m + j] = c[j]
    PROVE  SubSeq(b, Len(b) - Len(c) + 1, Len(b)) = c
<1>. DEFINE k == Len(c)
            low == m + 1
            high == m + k
            t == SubSeq(b, low, high)
<1>0. k \in Nat /\ Len(b) = high /\ Len(b) - k + 1 = low
  BY LenProperties
<1>1. \A j \in 1..k : b[m + j] = c[j] /\ c[j] \in S
  BY ElementOfSeq
<1>. HIDE DEF k
<1>2. low \in Int /\ high \in Int /\ high - low + 1 = k /\ (low <= high <=> k # 0)
  BY <1>0
<1>3. \A j \in low..high : b[j] \in S
  <2>. TAKE j \in low..high
  <2>1. j - m \in 1..k /\ m + (j - m) = j
    BY <1>0
  <2>. QED
    BY <1>1, <2>1
<1>4. \A j \in 1..k : low + j - 1 = m + j
  BY <1>0
<1>. HIDE DEF low, high
<1>5. /\ t \in Seq(S) /\ Len(t) = (IF low <= high THEN high - low + 1 ELSE 0)
      /\ \A j \in 1..(high - low + 1) : t[j] = b[low + j - 1]
  BY <1>2, <1>3, SubSeqProperties
<1>. HIDE DEF t
<1>6. Len(t) = k /\ \A j \in 1..k : t[j] = c[j]
  BY <1>0, <1>1, <1>2, <1>4, <1>5
<1>7. t = c
  BY <1>5, <1>6, SeqEqual DEF k
<1>. QED
  BY <1>0, <1>7 DEF t, k

\* The lengths an insertion writes, its own and the next entry's, are read back
\* from the bytes as they are left, and so is a text (ziplist.cpp:541-594).
THEOREM EntriesAreReadBack == Spec => []EntryReadBack
<1>1. EntryInv => EntryReadBack
  <2>. SUFFICES ASSUME EntryInv, entry # NULL PROVE EntryReadBack
    BY DEF EntryReadBack
  <2>1. PICK text \in Text, prevlen \in Length, size \in Nat :
                entry = Entry(text, prevlen, size)
    BY DEF EntryInv, IsEntry
  <2>. DEFINE c == Content[text]
              room == GetCurrentEncodeLen(c.encoding, Len(text))
              p == zipPrevEncodeLength(prevlen)
              b == Written(text, prevlen)
              at == PrevSize(prevlen) + room
  <2>2. /\ entry.text = text /\ entry.prevlen = prevlen /\ entry.encoding = c.encoding
        /\ entry.bytes = b /\ entry.reserved = Reserved(text, prevlen)
        /\ entry.next = NextEntry(text, prevlen, size)
    BY <2>1, EntryFields
  <2>3. GetPrevEntryLen(b) = prevlen /\ GetPrevEntryLenSize(b) = PrevSize(prevlen)
    <3>1. Begins(b, p)
      <4>1. Parts(b, p, room, Over(zipSetCurrentEncode(c.encoding, Len(text)), c.bytes))
        BY WrittenFacts, Zenon
      <4>. QED
        BY <4>1, Zenon DEF Parts
    <3>2. prevlen \in 0..(Power[4] - 1)
      BY SizeAssumption
    <3>. HIDE DEF b
    <3>. QED
      BY <3>1, <3>2, PrevFacts
  <2>4. ASSUME Zip_Is_Str(c.encoding)
        PROVE  SubSeq(b, at + 1, Reserved(text, prevlen)) = text
    <3>1. c.bytes = text
      <4>1. ASSUME NEW k, NEW v, AsNumber(text, k, v) PROVE FALSE
        <5>1. k \in 1..4 /\ c.encoding = IntEncodings[k]
          BY <4>1, NumberBytes DEF AsNumber
        <5>. QED
          BY <2>4, <5>1, EncodingFacts
      <4>2. AsText(text)
        BY <4>1, ContentFacts
      <4>. QED
        BY <4>2 DEF AsText
    <3>2. /\ Len(b) = Reserved(text, prevlen) + (IF text = <<>> THEN 1 ELSE 0)
          /\ at \in Nat /\ Reserved(text, prevlen) = at + Len(c.bytes)
          /\ c.bytes \in Seq(Byte)
          /\ text # <<>> => \A j \in 1..Len(c.bytes) : b[at + j] = c.bytes[j]
      BY EntryBytes, Zenon
    <3>. HIDE DEF c, b, at
    <3>3. CASE text = <<>>
      <4>1. Reserved(text, prevlen) = at
        BY <3>1, <3>2, <3>3
      <4>2. SubSeq(b, at + 1, at) = <<>>
        BY <3>2, SubSeqEmpty
      <4>. QED
        BY <3>3, <4>1, <4>2
    <3>4. CASE text # <<>>
      <4>1. text \in Seq(Byte) /\ Len(b) = at + Len(text)
            /\ \A j \in 1..Len(text) : b[at + j] = text[j]
        BY <3>1, <3>2, <3>4, LenProperties
      <4>2. SubSeq(b, Len(b) - Len(text) + 1, Len(b)) = text
        BY <3>2, <4>1, LastBytes
      <4>3. Len(b) - Len(text) + 1 = at + 1 /\ Len(b) = Reserved(text, prevlen)
        BY <3>1, <3>2, <4>1, LenProperties
      <4>. QED
        BY <4>2, <4>3
    <3>. QED
      BY <3>3, <3>4
  <2>5. entry.next # NULL => GetPrevEntryLen(entry.next.bytes) = entry.reserved
    BY <2>2, NextFacts, Zenon
  <2>. HIDE DEF b, room
  <2>6. /\ GetPrevEntryLen(entry.bytes) = entry.prevlen
        /\ GetPrevEntryLenSize(entry.bytes) = PrevSize(entry.prevlen)
    BY <2>2, <2>3
  <2>7. Zip_Is_Str(entry.encoding) =>
           SubSeq(entry.bytes, PrevSize(entry.prevlen)
                     + GetCurrentEncodeLen(entry.encoding, Len(entry.text)) + 1,
                  entry.reserved) = entry.text
    BY <2>2, <2>4, Zenon DEF room
  <2>. QED
    BY <2>5, <2>6, <2>7, Zenon DEF EntryReadBack
<1>. QED
  BY <1>1, EntriesAreWritten, PTL

-----------------------------------------------------------------------------
(* Numbers are read back *)

\* Widths grow with the kind of integer.
LEMMA WidthsGrow ==
    ASSUME NEW j \in 1..4, NEW k \in 1..4, IntWidth[j] < IntWidth[k]
    PROVE  j \in 1..(k - 1)
<1>1. /\ \A n \in 1..4 : IntWidth[n] \in Nat
      /\ IntWidth[1] < IntWidth[2] /\ IntWidth[2] < IntWidth[3] /\ IntWidth[3] < IntWidth[4]
  BY IntWidthAssumption
<1>. QED
  BY <1>1

\* A number that fits into n bytes is what n bytes of it are read as.
LEMMA SignedBack ==
    ASSUME NEW n \in Nat \ {0}, NEW v \in Int, Fits(v, n)
    PROVE  Signed(v % Power[n], n) = v
<1>. DEFINE P == Power[n]
            h == P \div 2
<1>1. P \in Nat \ {0} /\ P = 2 * h
  BY EvenPower
<1>2. -h <= v /\ v < h
  BY DEF Fits
<1>. HIDE DEF P
<1>3. v % P = IF v < 0 THEN v + P ELSE v
  BY <1>1, <1>2
<1>4. (IF v % P < h THEN v % P ELSE (v % P) - P) = v
  BY <1>1, <1>2, <1>3
<1>. QED
  BY <1>4 DEF Signed, P, h

\* What is read back is the number of the text, and no smaller width holds it.
LEMMA NumberOfEntry ==
    ASSUME NEW text \in Text, NEW prevlen \in Length, NEW size, NEW k, NEW v,
           AsNumber(text, k, v)
    PROVE  LET e == Entry(text, prevlen, size)
               w == zipIntSize(e.encoding)
           IN  /\ zipLoadInteger(SubSeq(e.bytes, Len(e.bytes) - w + 1, Len(e.bytes)), e.encoding) = v
               /\ \A j \in 1..4 : IntWidth[j] < w => ~Fits(v, IntWidth[j])
<1>. DEFINE e == Entry(text, prevlen, size)
            w == IntWidth[k]
            c == Content[text]
            enc == IntEncodings[k]
            code == zipSetCurrentEncode(c.encoding, Len(text))
            room == GetCurrentEncodeLen(c.encoding, Len(text))
            p == zipPrevEncodeLength(prevlen)
            b == Written(text, prevlen)
<1>1. /\ k \in 1..4 /\ v \in Int /\ Narrowest(v, k) /\ text # <<>>
  BY DEF AsNumber, zipTryIntegerEncoding
<1>2. /\ c.encoding = enc /\ c.bytes \in Seq(Byte) /\ Len(c.bytes) = w /\ w \in Nat \ {0}
      /\ Value(c.bytes) = v % Power[w]
  BY NumberBytes, Zenon
<1>3. zipIntSize(enc) = w
  BY <1>1, IntSizeFacts
<1>4. e.encoding = enc /\ e.bytes = b
  BY <1>2, EntryFields
<1>5. Parts(b, p, room, c.bytes)
  <2>1. Coded(text, c.encoding, c.bytes, Len(text), code, room)
    BY CodeFacts, Zenon
  <2>2. Over(code, c.bytes) = c.bytes
    BY <1>1, <2>1, OverFacts, Zenon
  <2>3. Parts(b, p, room, Over(code, c.bytes))
    BY WrittenFacts, Zenon
  <2>. QED
    BY <2>2, <2>3, Zenon
<1>6. Len(p) \in Nat /\ room \in Nat
  <2>1. prevlen \in 0..(Power[4] - 1)
    BY SizeAssumption
  <2>2. Len(p) \in Nat
    BY <2>1, PrevFacts DEF PrevSize
  <2>3. room \in Nat
    BY CodeFacts, Zenon DEF Coded
  <2>. QED
    BY <2>2, <2>3
<1>. DEFINE m == Len(p) + room
            last == SubSeq(b, Len(b) - w + 1, Len(b))
<1>7. m \in Nat /\ Len(b) = m + Len(c.bytes) /\ \A j \in 1..Len(c.bytes) : b[m + j] = c.bytes[j]
  BY <1>5, <1>6 DEF Parts
<1>. HIDE DEF m, b, c, w
<1>8. last = c.bytes
  BY <1>2, <1>7, LastBytes
<1>. HIDE DEF last, enc
<1>9. zipLoadInteger(last, enc) = v
  <2>1. SubSeq(last, 1, w) = last
    <3>1. /\ \A j \in 1..w : last[j] \in Byte
          /\ last \in Seq(Byte) /\ Len(last) = w /\ w \in Nat \ {0}
      BY <1>2, <1>8, ElementOfSeq
    <3>. DEFINE t == SubSeq(last, 1, w)
    <3>2. /\ t \in Seq(Byte) /\ Len(t) = (IF 1 <= w THEN w - 1 + 1 ELSE 0)
          /\ \A j \in 1..(w - 1 + 1) : t[j] = last[1 + j - 1]
      BY <3>1, SubSeqProperties
    <3>. HIDE DEF t
    <3>3. Len(t) = w /\ \A j \in 1..w : t[j] = last[j]
      BY <3>1, <3>2
    <3>4. t = last
      BY <3>1, <3>2, <3>3, SeqEqual
    <3>. QED
      BY <3>4 DEF t
  <2>2. Signed(v % Power[w], w) = v
    <3>1. Fits(v, w)
      BY <1>1 DEF Narrowest, w
    <3>. QED
      BY <1>1, <1>2, <3>1, SignedBack
  <2>. QED
    BY <1>2, <1>3, <1>8, <2>1, <2>2, Zenon DEF zipLoadInteger
<1>10. \A j \in 1..4 : IntWidth[j] < w => ~Fits(v, IntWidth[j])
  <2>. SUFFICES ASSUME NEW j \in 1..4, IntWidth[j] < w PROVE ~Fits(v, IntWidth[j])
    OBVIOUS
  <2>1. j \in 1..(k - 1)
    BY <1>1, WidthsGrow DEF w
  <2>. QED
    BY <1>1, <2>1 DEF Narrowest
<1>. QED
  BY <1>3, <1>4, <1>9, <1>10, Zenon DEF last, w

-----------------------------------------------------------------------------
(* A number that wraps around is the same as without, up to the width *)

\* A multiple of P does not change the remainder.
ApartBy(u, z, P, q) == u = P * q + z

\* Numbers a multiple of P apart have the same remainder.
LEMMA RemainderOf ==
    ASSUME NEW P \in Nat \ {0}, NEW q \in Int, NEW z \in Int, NEW u, ApartBy(u, z, P, q)
    PROVE  u % P = z % P
<1>1. (P * q + z) % P = z % P
  BY Shift
<1>. QED
  BY <1>1, Zenon DEF ApartBy

\* Sums, products and opposites of equal remainders have equal remainders.
LEMMA SameRemainder ==
    ASSUME NEW P \in Nat \ {0}, NEW x \in Int, NEW y \in Int, x % P = y % P, NEW c \in Int
    PROVE  (x + c) % P = (y + c) % P /\ (10 * x) % P = (10 * y) % P /\ (-x) % P = (-y) % P
<1>. DEFINE a == x \div P
            b == y \div P
            r == x % P
<1>1. a \in Int /\ b \in Int /\ r \in Int /\ x = P * a + r /\ y = P * b + r
  OBVIOUS
<1>. HIDE DEF a, b, r
<1>3. x + c = P * a + (r + c) /\ y + c = P * b + (r + c) /\ r + c \in Int
  <2>. DEFINE pa == P * a
              pb == P * b
  <2>1. pa \in Int /\ pb \in Int /\ x = pa + r /\ y = pb + r
    BY <1>1
  <2>. HIDE DEF pa, pb
  <2>2. x + c = pa + (r + c) /\ y + c = pb + (r + c) /\ r + c \in Int
    BY <1>1, <2>1
  <2>. QED
    BY <2>2 DEF pa, pb
<1>4. /\ 10 * x = P * (10 * a) + 10 * r /\ 10 * y = P * (10 * b) + 10 * r
      /\ 10 * r \in Int /\ 10 * a \in Int /\ 10 * b \in Int
  <2>1. \A q \in Int : P * (10 * q) = 10 * (P * q) /\ 10 * q \in Int
    OBVIOUS
  <2>. DEFINE pa == P * a
              pb == P * b
  <2>2. pa \in Int /\ pb \in Int /\ x = pa + r /\ y = pb + r
    BY <1>1
  <2>3. P * (10 * a) = 10 * pa /\ P * (10 * b) = 10 * pb
    BY <1>1, <2>1
  <2>. HIDE DEF pa, pb
  <2>4. 10 * x = 10 * pa + 10 * r /\ 10 * y = 10 * pb + 10 * r /\ 10 * r \in Int
    BY <1>1, <2>2
  <2>. QED
    BY <1>1, <2>1, <2>3, <2>4
<1>5. /\ -x = P * (-a) + (-r) /\ -y = P * (-b) + (-r)
      /\ -r \in Int /\ -a \in Int /\ -b \in Int
  <2>1. \A q \in Int : P * (-q) = -(P * q) /\ -q \in Int
    OBVIOUS
  <2>. DEFINE pa == P * a
              pb == P * b
  <2>2. pa \in Int /\ pb \in Int /\ x = pa + r /\ y = pb + r
    BY <1>1
  <2>3. P * (-a) = -pa /\ P * (-b) = -pb
    BY <1>1, <2>1
  <2>. HIDE DEF pa, pb
  <2>4. -x = -pa + (-r) /\ -y = -pb + (-r) /\ -r \in Int
    BY <1>1, <2>2
  <2>. QED
    BY <1>1, <2>1, <2>3, <2>4
<1>6. (x + c) % P = (r + c) % P /\ (y + c) % P = (r + c) % P
  <2>1. ApartBy(x + c, r + c, P, a) /\ ApartBy(y + c, r + c, P, b)
    BY <1>3, Zenon DEF ApartBy
  <2>. QED
    BY <1>1, <1>3, <2>1, RemainderOf
<1>7. (10 * x) % P = (10 * r) % P /\ (10 * y) % P = (10 * r) % P
  <2>1. ApartBy(10 * x, 10 * r, P, 10 * a) /\ ApartBy(10 * y, 10 * r, P, 10 * b)
    BY <1>4, Zenon DEF ApartBy
  <2>. QED
    BY <1>4, <2>1, RemainderOf
<1>8. (-x) % P = (-r) % P /\ (-y) % P = (-r) % P
  <2>1. ApartBy(-x, -r, P, -a) /\ ApartBy(-y, -r, P, -b)
    BY <1>5, Zenon DEF ApartBy
  <2>. QED
    BY <1>5, <2>1, RemainderOf
<1>. QED
  BY <1>6, <1>7, <1>8, Zenon

\* Wrapping around does not change the remainder.
LEMMA WrappedSame ==
    ASSUME NEW x \in Int
    PROVE  Wrapped(x) % Power[IntWidth[4]] = x % Power[IntWidth[4]]
<1>. DEFINE P == Power[IntWidth[4]]
            y == x % P
<1>1. P \in Nat \ {0}
  BY IntWidthAssumption, EvenPower
<1>2. y \in 0..(P - 1) /\ y \in Int /\ y - P = P * (-1) + y
  BY <1>1
<1>3. Wrapped(x) \in {y, y - P}
  BY DEF Wrapped, Signed
<1>4. y % P = y
  <2>. HIDE DEF P, y
  <2>. QED
    BY <1>1, <1>2
<1>5. (P * (-1) + y) % P = y % P
  <2>1. -1 \in Int
    OBVIOUS
  <2>. HIDE DEF P, y
  <2>. QED
    BY <1>1, <1>2, <2>1, Shift
<1>. HIDE DEF y
<1>. QED
  BY <1>2, <1>3, <1>4, <1>5 DEF y

\* Two numbers that fit and have the same remainder are the same.
LEMMA SameIfFits ==
    ASSUME NEW n \in Nat \ {0}, NEW x \in Int, NEW y \in Int, Fits(x, n), Fits(y, n),
           x % Power[n] = y % Power[n]
    PROVE  x = y
<1>1. Signed(x % Power[n], n) = x /\ Signed(y % Power[n], n) = y
  BY SignedBack
<1>. QED
  BY <1>1

\* The sums of Number.
PlainSums(v, s, d, k) ==
    /\ v \in [0..k -> Nat]
    /\ v[0] = 0
    /\ \A n \in 0..(k - 1) : v[n + 1] = 10 * v[n] + (d[n + 1] - Zero)
    /\ Number(s) = IF Head(s) = Minus THEN -v[k] ELSE v[k]

\* The recursion of Number has these sums.
LEMMA SumsOfNumber ==
    ASSUME NEW s, NEW k \in Nat, NEW d \in Seq(Digit), d = Digits(s), Len(d) = k
    PROVE  \E v : PlainSums(v, s, d, k)
<1>. DEFINE step == [x \in Nat \X Nat |->
                        10 * x[2] + (IF x[1] < k THEN d[x[1] + 1] - Zero ELSE 0)]
            Adds(f) == f = [n \in 0..k |-> IF n = 0 THEN 0 ELSE 10 * f[n - 1] + (d[n] - Zero)]
<1>0. \A n \in 1..k : d[n] - Zero \in 0..9
  BY ElementOfSeq, DigitFacts
<1>1. step \in [Nat \X Nat -> Nat]
  <2>. SUFFICES ASSUME NEW x \in Nat \X Nat
                PROVE  10 * x[2] + (IF x[1] < k THEN d[x[1] + 1] - Zero ELSE 0) \in Nat
    OBVIOUS
  <2>1. x[1] \in Nat /\ 10 * x[2] \in Nat
    OBVIOUS
  <2>2. (IF x[1] < k THEN d[x[1] + 1] - Zero ELSE 0) \in Nat
    BY <1>0, <2>1
  <2>. QED
    BY <2>1, <2>2
<1>2. \A n \in 0..(k - 1), x \in Nat : step[<<n, x>>] = 10 * x + (d[n + 1] - Zero)
  OBVIOUS
<1>. HIDE DEF step
<1>3. PICK f : Recurs(f, k, 0, step)
  BY RecursionExists, Zenon
<1>4. f \in [0..k -> Nat]
  <2>1. 0 \in Nat
    OBVIOUS
  <2>. QED
    BY <1>1, <1>3, <2>1, RecursionType
<1>5. \A n \in 0..k : f[n] = IF n = 0 THEN 0 ELSE 10 * f[n - 1] + (d[n] - Zero)
  <2>1. \A n \in 0..k : f[n] = IF n = 0 THEN 0 ELSE step[<<n - 1, f[n - 1]>>]
    BY <1>3, Zenon DEF Recurs
  <2>. SUFFICES ASSUME NEW n \in 0..k, n # 0
                PROVE  f[n] = 10 * f[n - 1] + (d[n] - Zero)
    BY <2>1, Zenon
  <2>2. n - 1 \in 0..(k - 1) /\ (n - 1) + 1 = n /\ n - 1 \in 0..k
    OBVIOUS
  <2>3. f[n - 1] \in Nat /\ f[n] = step[<<n - 1, f[n - 1]>>]
    BY <1>4, <2>1, <2>2
  <2>. QED
    BY <1>2, <2>2, <2>3
<1>6. Adds(f)
  <2>1. f = [n \in 0..k |-> f[n]]
    BY <1>4
  <2>. QED
    BY <1>5, <2>1, Zenon
<1>. DEFINE v == CHOOSE g : Adds(g)
<1>7. Adds(v)
  <2>. HIDE DEF Adds
  <2>. QED
    BY <1>6, Zenon
<1>8. Number(s) = IF Head(s) = Minus THEN -v[k] ELSE v[k]
  BY DEF Number
<1>. HIDE DEF v
<1>9. \A n \in 0..k : v[n] = IF n = 0 THEN 0 ELSE 10 * v[n - 1] + (d[n] - Zero)
  BY <1>7, Zenon
<1>10. v = [n \in 0..k |-> v[n]]
  BY <1>7, Zenon
<1>. DEFINE D == {n \in 0..k : v[n] = f[n]}
<1>11. 0 \in D
  <2>1. 0 \in 0..k
    OBVIOUS
  <2>. QED
    BY <1>5, <1>9, <2>1, Zenon
<1>12. ASSUME NEW n \in 0..(k - 1), n \in D PROVE n + 1 \in D
  <2>1. n + 1 \in 0..k /\ n + 1 # 0 /\ (n + 1) - 1 = n /\ v[n] = f[n]
    BY <1>12
  <2>2. /\ v[n + 1] = 10 * v[(n + 1) - 1] + (d[n + 1] - Zero)
        /\ f[n + 1] = 10 * f[(n + 1) - 1] + (d[n + 1] - Zero)
    BY <1>5, <1>9, <2>1, Zenon
  <2>3. v[n + 1] = f[n + 1]
    BY <2>1, <2>2, Zenon
  <2>. QED
    BY <2>1, <2>3
<1>. HIDE DEF D
<1>13. \A n \in 0..k : v[n] = f[n]
  <2>1. 0..k \subseteq D
    BY <1>11, <1>12, Climb
  <2>. QED
    BY <2>1 DEF D
<1>14. v \in [0..k -> Nat]
  BY <1>4, <1>10, <1>13
<1>15. v[0] = 0
  <2>1. 0 \in 0..k
    OBVIOUS
  <2>. QED
    BY <1>9, <2>1, Zenon
<1>16. ASSUME NEW n \in 0..(k - 1)
       PROVE  v[n + 1] = 10 * v[n] + (d[n + 1] - Zero)
  <2>1. n + 1 \in 0..k /\ n + 1 # 0 /\ (n + 1) - 1 = n
    OBVIOUS
  <2>2. v[n + 1] = 10 * v[(n + 1) - 1] + (d[n + 1] - Zero)
    BY <1>9, <2>1, Zenon
  <2>. QED
    BY <2>1, <2>2, Zenon
<1>17. PlainSums(v, s, d, k)
  BY <1>8, <1>14, <1>15, <1>16, Zenon DEF PlainSums
<1>. QED
  BY <1>17

\* stringtoll makes of a text its number, if 64 bits hold it (ziplist.cpp:145-191).
LEMMA StringtollIsNumber ==
    ASSUME NEW s \in Seq(Byte), s # <<>>, Accepted(s), Fits(Number(s), IntWidth[4])
    PROVE  stringtoll(s) = Number(s)
<1>. DEFINE d == Digits(s)
            k == Len(d)
            w == IntWidth[4]
            P == Power[w]
<1>1. d \in Seq(Digit) /\ k \in Nat \ {0} /\ k \in Nat
  BY AcceptedFacts DEF IsNumber
<1>2. d = Digits(s) /\ Len(d) = k
  OBVIOUS
<1>3. w \in Nat \ {0} /\ P \in Nat \ {0}
  BY IntWidthAssumption, EvenPower
<1>. HIDE DEF d, k
<1>4. PICK f : Sums(f, s, d, k)
  BY <1>1, <1>2, SumsOfStringtoll, Zenon
<1>5. PICK g : PlainSums(g, s, d, k)
  BY <1>1, <1>2, SumsOfNumber, Zenon
<1>6. \A x \in Int : Wrapped(x) % P = x % P /\ Wrapped(x) \in Int
  BY WrappedSame, WrappedFacts
<1>. HIDE DEF P
<1>. DEFINE D == {n \in 0..k : f[n] % P = g[n] % P}
<1>7. 0 \in D
  <2>1. 0 \in 0..k /\ f[0] = g[0]
    BY <1>1, <1>4, <1>5 DEF Sums, PlainSums
  <2>. QED
    BY <2>1
<1>8. ASSUME NEW n \in 0..(k - 1), n \in D PROVE n + 1 \in D
  <2>. DEFINE c == d[n + 1] - Zero
              x == f[n]
              y == g[n]
              z == Wrapped(10 * x)
  <2>1. n + 1 \in 0..k /\ n + 1 \in 1..k /\ n \in 0..k
    BY <1>1
  <2>2. c \in Int
    <3>1. d[n + 1] \in Digit
      BY <1>1, <1>2, <2>1, ElementOfSeq
    <3>2. d[n + 1] - Zero \in 0..9
      BY <3>1, DigitFacts
    <3>. QED
      BY <3>2
  <2>3. x \in Int /\ y \in Int /\ x % P = y % P
    <3>1. x % P = y % P
      BY <1>8
    <3>2. f[n] \in Int
      BY <1>4, <2>1 DEF Sums
    <3>3. g[n] \in Nat
      BY <1>5, <2>1 DEF PlainSums
    <3>. QED
      BY <3>1, <3>2, <3>3
  <2>4. f[n + 1] = Wrapped(z + c) /\ g[n + 1] = 10 * y + c
    BY <1>4, <1>5, Zenon DEF Sums, PlainSums
  <2>. HIDE DEF c, x, y
  <2>5. 10 * x \in Int /\ 10 * y \in Int /\ (10 * x) % P = (10 * y) % P
    <3>1. (10 * x) % P = (10 * y) % P
      BY <1>3, <2>2, <2>3, SameRemainder, Zenon
    <3>. QED
      BY <2>3, <3>1
  <2>6. z \in Int /\ z % P = (10 * y) % P
    BY <1>6, <2>5, Zenon
  <2>. HIDE DEF z
  <2>7. (z + c) % P = (10 * y + c) % P
    BY <1>3, <2>2, <2>5, <2>6, SameRemainder, Zenon
  <2>8. z + c \in Int
    BY <2>2, <2>6
  <2>9. f[n + 1] % P = g[n + 1] % P
    BY <1>6, <2>4, <2>7, <2>8, Zenon
  <2>. QED
    BY <2>1, <2>9
<1>9. f[k] % P = g[k] % P /\ f[k] \in Int /\ g[k] \in Int
  <2>. HIDE DEF D
  <2>1. 0..k \subseteq D
    BY <1>1, <1>7, <1>8, Climb
  <2>2. k \in 0..k
    BY <1>1
  <2>3. k \in D
    BY <2>1, <2>2
  <2>4. f[k] \in Int /\ g[k] \in Nat
    BY <1>4, <1>5, <2>2 DEF Sums, PlainSums
  <2>. QED
    BY <2>3, <2>4 DEF D
<1>10. /\ stringtoll(s) = (IF Head(s) = Minus THEN Wrapped(-f[k]) ELSE f[k])
       /\ Number(s) = (IF Head(s) = Minus THEN -g[k] ELSE g[k])
  BY <1>4, <1>5, Zenon DEF Sums, PlainSums
<1>11. stringtoll(s) % P = Number(s) % P /\ Number(s) \in Int
  <2>1. CASE Head(s) = Minus
    <3>1. stringtoll(s) = Wrapped(-f[k]) /\ Number(s) = -g[k]
      BY <1>10, <2>1, Zenon
    <3>2. -f[k] \in Int /\ -g[k] \in Int
      BY <1>9
    <3>3. (-f[k]) % P = (-g[k]) % P
      <4>1. 0 \in Int
        OBVIOUS
      <4>. QED
        BY <1>3, <1>9, <4>1, SameRemainder
    <3>. QED
      BY <1>6, <3>1, <3>2, <3>3, Zenon
  <2>2. CASE Head(s) # Minus
    BY <1>9, <1>10, <2>2, Zenon
  <2>. QED
    BY <2>1, <2>2
<1>12. stringtoll(s) \in Int /\ Fits(stringtoll(s), w)
  BY StringtollFits
<1>. QED
  BY <1>3, <1>11, <1>12, SameIfFits DEF P

-----------------------------------------------------------------------------
(* Only numerals are stored as numbers *)

\* The numerals of the numbers up to n, without a sign.
NumeralsUpTo(f, n) ==
    f = [m \in 0..n |-> IF m < 10 THEN <<Zero + m>>
                                  ELSE Append(f[m \div 10], Zero + (m % 10))]

\* These numerals exist for every n.
LEMMA NumeralsUpToExists ==
    ASSUME NEW k \in Nat
    PROVE  \E f : NumeralsUpTo(f, k)
<1>. DEFINE D == {n \in Nat : \E f : NumeralsUpTo(f, n)}
<1>1. 0 \in D
  <2>. DEFINE f == [m \in 0..0 |-> <<Zero + m>>]
  <2>1. \A m \in 0..0 : m < 10
    OBVIOUS
  <2>2. f = [m \in 0..0 |-> IF m < 10 THEN <<Zero + m>>
                                      ELSE Append(f[m \div 10], Zero + (m % 10))]
    BY <2>1, Zenon
  <2>. HIDE DEF f
  <2>3. NumeralsUpTo(f, 0)
    BY <2>2 DEF NumeralsUpTo
  <2>. QED
    BY <2>3
<1>2. ASSUME NEW n \in D, n \in Nat PROVE n + 1 \in D
  <2>1. PICK f : NumeralsUpTo(f, n)
    OBVIOUS
  <2>. DEFINE g == [m \in 0..(n + 1) |-> IF m < 10 THEN <<Zero + m>>
                                         ELSE Append(f[m \div 10], Zero + (m % 10))]
  <2>2. \A m \in 0..n : g[m] = f[m]
    <3>1. \A m \in 0..n : m \in 0..(n + 1)
      OBVIOUS
    <3>2. \A m \in 0..n : f[m] = IF m < 10 THEN <<Zero + m>>
                                 ELSE Append(f[m \div 10], Zero + (m % 10))
      BY <2>1, Zenon DEF NumeralsUpTo
    <3>. QED
      BY <3>1, <3>2, Zenon
  <2>3. \A m \in 0..(n + 1) : ~(m < 10) => m \div 10 \in 0..n
    OBVIOUS
  <2>4. g = [m \in 0..(n + 1) |-> IF m < 10 THEN <<Zero + m>>
                                  ELSE Append(g[m \div 10], Zero + (m % 10))]
    <3>. DEFINE h == [m \in 0..(n + 1) |-> IF m < 10 THEN <<Zero + m>>
                                           ELSE Append(g[m \div 10], Zero + (m % 10))]
    <3>1. \A m \in 0..(n + 1) : g[m] = h[m]
      <4>. TAKE m \in 0..(n + 1)
      <4>1. CASE m < 10
        BY <4>1, Zenon
      <4>2. CASE ~(m < 10)
        <5>1. g[m \div 10] = f[m \div 10]
          BY <2>2, <2>3, <4>2, Zenon
        <5>. QED
          BY <4>2, <5>1, Zenon
      <4>. QED
        BY <4>1, <4>2
    <3>. QED
      BY <3>1, Zenon
  <2>. HIDE DEF g
  <2>5. NumeralsUpTo(g, n + 1)
    BY <2>4 DEF NumeralsUpTo
  <2>. QED
    BY <2>5
<1>. HIDE DEF D
<1>3. k \in D
  BY <1>1, <1>2, Induction
<1>. QED
  BY <1>3 DEF D

\* A numeral, through the numerals of the numbers up to its size.
NumeralBy(f, n, size) ==
    /\ NumeralsUpTo(f, size)
    /\ Numeral(n) = IF n < 0 THEN <<Minus>> \o f[size] ELSE f[size]

\* Numeral is made of them.
LEMMA NumeralFacts ==
    ASSUME NEW n \in Int, NEW size \in Nat, size = IF n < 0 THEN -n ELSE n
    PROVE  \E f : NumeralBy(f, n, size)
<1>. DEFINE f == CHOOSE g : NumeralsUpTo(g, size)
<1>1. NumeralsUpTo(f, size)
  BY NumeralsUpToExists, Zenon
<1>2. Numeral(n) = IF n < 0 THEN <<Minus>> \o f[size] ELSE f[size]
  <2>1. f = CHOOSE g : g = [m \in 0..size |-> IF m < 10 THEN <<Zero + m>>
                                  ELSE Append(g[m \div 10], Zero + (m % 10))]
    BY Zenon DEF NumeralsUpTo
  <2>. DEFINE size1 == IF n < 0 THEN -n ELSE n
              f1 == CHOOSE g : g = [m \in 0..size1 |-> IF m < 10 THEN <<Zero + m>>
                                  ELSE Append(g[m \div 10], Zero + (m % 10))]
  <2>2. Numeral(n) = IF n < 0 THEN <<Minus>> \o f1[size1] ELSE f1[size1]
    BY Zenon DEF Numeral
  <2>3. size1 = size
    OBVIOUS
  <2>4. f1 = f
    <3>. HIDE DEF size1, f
    <3>. QED
      BY <2>1, <2>3, Zenon
  <2>. HIDE DEF f1, size1, f
  <2>. QED
    BY <2>2, <2>3, <2>4, Zenon
<1>. HIDE DEF f
<1>. QED
  BY <1>1, <1>2 DEF NumeralBy

NoLeadingZero(d, k) ==
    d \in Seq(Digit) /\ Len(d) = k /\ k \in Nat \ {0} /\ (d[1] = Zero => k = 1)

\* The numeral of the sum of the digits d, without leading zeros, is d.
LEMMA NumeralOfSums ==
    ASSUME NEW s, NEW k, NEW d, NoLeadingZero(d, k),
           NEW v, PlainSums(v, s, d, k), NEW f, NumeralsUpTo(f, v[k])
    PROVE  f[v[k]] = d
<1>. DEFINE N == v[k]
            Same(j) == /\ f[v[j]] \in Seq(Digit) /\ Len(f[v[j]]) = j
                       /\ \A i \in 1..j : f[v[j]][i] = d[i]
            D == {j \in 0..(k - 1) :
                      /\ k # 1 => v[j + 1] >= 1
                      /\ v[j + 1] <= N => Same(j + 1)}
<1>. d \in Seq(Digit) /\ Len(d) = k /\ k \in Nat \ {0} /\ (d[1] = Zero => k = 1)
  BY DEF NoLeadingZero
<1>0. /\ \A j \in 0..k : v[j] \in Nat
      /\ v[0] = 0
      /\ \A j \in 0..(k - 1) : v[j + 1] = 10 * v[j] + (d[j + 1] - Zero)
  BY DEF PlainSums
<1>1. N \in Nat /\ k - 1 \in Nat /\ (k - 1) + 1 = k
  BY <1>0
<1>2. \A j \in 1..k : d[j] \in Digit /\ d[j] - Zero \in 0..9 /\ Zero + (d[j] - Zero) = d[j]
  <2>1. \A j \in 1..k : d[j] \in Digit
    BY ElementOfSeq
  <2>2. \A c \in Digit : c - Zero \in 0..9 /\ Zero + (c - Zero) = c
    BY CharAssumption, BaseFacts DEF Digit
  <2>. QED
    BY <2>1, <2>2
<1>. HIDE DEF N
<1>3. \A m \in 0..N : f[m] = IF m < 10 THEN <<Zero + m>>
                             ELSE Append(f[m \div 10], Zero + (m % 10))
  BY Zenon DEF NumeralsUpTo, N
<1>4. 0 \in D
  <2>1. 0 \in 0..(k - 1) /\ 1 \in 1..k /\ 1 \in 0..k /\ 0 + 1 = 1
    BY <1>1
  <2>2. v[1] = d[1] - Zero /\ v[1] \in 0..9
    <3>1. v[1] = 10 * v[0] + (d[1] - Zero)
      BY <1>0, <2>1, Zenon
    <3>2. v[0] = 0 /\ d[1] - Zero \in 0..9
      BY <1>0, <1>2, <2>1
    <3>. DEFINE e == d[1] - Zero
    <3>. HIDE DEF e
    <3>3. v[1] = e /\ e \in 0..9
      BY <3>1, <3>2 DEF e
    <3>. QED
      BY <3>3 DEF e
  <2>3. k # 1 => v[1] >= 1
    <3>1. k # 1 => d[1] # Zero
      OBVIOUS
    <3>2. d[1] \in Digit
      BY <1>2, <2>1
    <3>3. d[1] \in Int /\ Zero \in Int
      BY <3>2, CharAssumption, BaseFacts DEF Digit
    <3>. QED
      BY <2>2, <3>1, <3>3
  <2>4. ASSUME v[1] <= N PROVE Same(1)
    <3>1. v[1] \in 0..N /\ v[1] < 10
      BY <1>1, <2>2, <2>4
    <3>2. f[v[1]] = <<Zero + v[1]>>
      BY <1>3, <3>1, Zenon
    <3>3. Zero + v[1] = d[1] /\ d[1] \in Digit
      BY <1>2, <2>1, <2>2
    <3>4. f[v[1]] = <<d[1]>>
      BY <3>2, <3>3, Zenon
    <3>. QED
      BY <3>3, <3>4
  <2>. HIDE DEF Same
  <2>. QED
    BY <2>1, <2>3, <2>4, Zenon
<1>5. ASSUME NEW j \in 0..((k - 1) - 1), j \in D PROVE j + 1 \in D
  <2>. DEFINE y == v[j + 1]
              z == v[j + 2]
              c == d[j + 2]
              t == f[y]
  <2>1. /\ j + 1 \in 0..(k - 1) /\ j + 1 \in 0..k /\ j + 2 \in 0..k /\ j + 2 \in 1..k
        /\ (j + 1) + 1 = j + 2 /\ k # 1 /\ j \in Nat /\ j + 1 \in Nat
    BY <1>1
  <2>2. y \in Nat /\ z \in Nat /\ z = 10 * y + (c - Zero) /\ y >= 1
    <3>1. v[j + 1] \in Nat /\ v[j + 2] \in Nat
      BY <1>0, <2>1
    <3>2. v[(j + 1) + 1] = 10 * v[j + 1] + (d[(j + 1) + 1] - Zero)
      BY <1>0, <2>1
    <3>3. v[j + 1] >= 1
      BY <1>5, <2>1
    <3>. QED
      BY <2>1, <3>1, <3>2, <3>3
  <2>3. c \in Digit /\ c - Zero \in 0..9 /\ Zero + (c - Zero) = c
    BY <1>2, <2>1
  <2>. HIDE DEF c
  <2>4. z >= 10 /\ z \div 10 = y /\ z % 10 = c - Zero /\ y <= z
    <3>. HIDE DEF y, z
    <3>1. c - Zero \in 0..9
      BY <2>3
    <3>. DEFINE e == c - Zero
    <3>2. e \in 0..9 /\ z = 10 * y + e
      BY <2>2, <2>3
    <3>. HIDE DEF e
    <3>3. z >= 10 /\ z \div 10 = y /\ z % 10 = e /\ y <= z
      BY <2>2, <3>2
    <3>. QED
      BY <3>3 DEF e
  <2>5. ASSUME z <= N PROVE Same(j + 2)
    <3>1. z \in 0..N /\ ~(z < 10) /\ y <= N
      <4>. HIDE DEF y, z
      <4>. QED
        BY <1>1, <2>2, <2>4, <2>5
    <3>2. t \in Seq(Digit) /\ Len(t) = j + 1 /\ \A i \in 1..(j + 1) : t[i] = d[i]
      BY <1>5, <3>1
    <3>3. f[z] = Append(t, c)
      <4>. HIDE DEF z
      <4>1. f[z] = Append(f[z \div 10], Zero + (z % 10))
        BY <1>3, <3>1, Zenon
      <4>. HIDE DEF y
      <4>. QED
        BY <2>3, <2>4, <4>1, Zenon DEF t
    <3>. HIDE DEF t
    <3>4. /\ Append(t, c) \in Seq(Digit) /\ Len(Append(t, c)) = (j + 1) + 1
          /\ \A i \in 1..(j + 1) : Append(t, c)[i] = t[i]
          /\ Append(t, c)[(j + 1) + 1] = c
      BY <2>3, <3>2, AppendProperties
    <3>5. \A i \in 1..(j + 2) : i \in 1..(j + 1) \/ i = (j + 1) + 1
      BY <2>1
    <3>. DEFINE a == Append(t, c)
    <3>6. a \in Seq(Digit) /\ Len(a) = j + 2 /\ \A i \in 1..(j + 2) : a[i] = d[i]
      <4>1. d[j + 2] = c
        BY DEF c
      <4>. HIDE DEF a
      <4>2. /\ a \in Seq(Digit) /\ Len(a) = (j + 1) + 1 /\ a[(j + 1) + 1] = c
            /\ \A i \in 1..(j + 1) : a[i] = t[i]
        BY <3>4 DEF a
      <4>. QED
        BY <2>1, <3>2, <3>5, <4>1, <4>2
    <3>. HIDE DEF a
    <3>7. f[z] = a
      BY <3>3 DEF a
    <3>. QED
      BY <3>6, <3>7
  <2>. HIDE DEF Same
  <2>6. (k # 1 => v[(j + 1) + 1] >= 1) /\ (v[(j + 1) + 1] <= N => Same((j + 1) + 1))
    <3>1. z >= 1
      <4>. HIDE DEF z
      <4>. QED
        BY <2>2, <2>4
    <3>. QED
      BY <2>1, <2>5, <3>1
  <2>. QED
    BY <2>1, <2>6
<1>6. Same(k)
  <2>. HIDE DEF D, Same
  <2>1. 0..(k - 1) \subseteq D
    BY <1>1, <1>4, <1>5, Climb
  <2>2. k - 1 \in D
    <3>1. k - 1 \in 0..(k - 1)
      BY <1>1
    <3>. QED
      BY <2>1, <3>1
  <2>3. v[(k - 1) + 1] <= N => Same((k - 1) + 1)
    BY <2>2 DEF D
  <2>4. N <= N
    BY <1>1
  <2>. QED
    BY <1>1, <2>3, <2>4 DEF N
<1>. QED
  BY <1>6, SeqEqual

\* A text that is accepted as a number is the numeral of that number.
LEMMA NumeralOfNumber ==
    ASSUME NEW s \in Seq(Byte), s # <<>>, Accepted(s)
    PROVE  Numeral(Number(s)) = s /\ Number(s) \in Int
<1>. DEFINE d == Digits(s)
            k == Len(d)
<1>1. IsNumber(s, d) /\ d \in Seq(Digit) /\ k \in Nat \ {0} /\ k \in Nat
  BY AcceptedFacts DEF IsNumber
<1>2. d = Digits(s) /\ Len(d) = k
  OBVIOUS
<1>. HIDE DEF d, k
<1>3. PICK v : PlainSums(v, s, d, k)
  BY <1>1, <1>2, SumsOfNumber, Zenon
<1>4. d[1] = Zero => k = 1 /\ Head(s) # Minus
  <2>. SUFFICES ASSUME d[1] = Zero PROVE k = 1 /\ Head(s) # Minus
    OBVIOUS
  <2>1. s = <<Zero>>
    BY <1>1 DEF IsNumber
  <2>2. Head(s) = Zero /\ Zero # Minus
    BY <2>1, DigitFacts
  <2>3. d = s
    BY <1>1, <2>2, Zenon DEF IsNumber
  <2>4. Len(s) = 1
    BY <2>1
  <2>5. k = 1
    BY <1>2, <2>3, <2>4, Zenon
  <2>. QED
    BY <2>2, <2>5
<1>5. \A f : NumeralsUpTo(f, v[k]) => f[v[k]] = d
  <2>. SUFFICES ASSUME NEW f, NumeralsUpTo(f, v[k]) PROVE f[v[k]] = d
    OBVIOUS
  <2>1. Len(d) = k /\ (d[1] = Zero => k = 1)
    BY <1>2, <1>4
  <2>2. k \in Nat \ {0} /\ d \in Seq(Digit)
    BY <1>1
  <2>3. NoLeadingZero(d, k)
    BY <2>1, <2>2 DEF NoLeadingZero
  <2>. QED
    BY <1>3, <2>3, NumeralOfSums, Zenon
<1>6. k \in 0..k /\ v[k] \in Nat
  <2>1. k \in 0..k
    BY <1>1
  <2>. QED
    BY <1>3, <2>1 DEF PlainSums
<1>7. Number(s) = (IF Head(s) = Minus THEN -v[k] ELSE v[k])
  BY <1>3, Zenon DEF PlainSums
<1>8. CASE Head(s) # Minus
  <2>1. Number(s) = v[k] /\ s = d
    BY <1>1, <1>7, <1>8, Zenon DEF IsNumber
  <2>. DEFINE n == v[k]
  <2>2. n \in Nat /\ n \in Int /\ ~(n < 0) /\ n = IF n < 0 THEN -n ELSE n
    BY <1>6
  <2>3. PICK f : NumeralBy(f, n, n)
    <3>. HIDE DEF n
    <3>. QED
      BY <2>2, NumeralFacts
  <2>4. NumeralsUpTo(f, v[k]) /\ Numeral(n) = f[v[k]]
    BY <2>2, <2>3, Zenon DEF NumeralBy
  <2>5. f[v[k]] = d
    BY <1>5, <2>4, Zenon
  <2>. QED
    BY <2>1, <2>2, <2>4, <2>5
<1>9. CASE Head(s) = Minus
  <2>. DEFINE m == v[k]
              n == -m
  <2>1. Number(s) = n /\ s = <<Minus>> \o d
    BY <1>1, <1>7, <1>9, Zenon DEF IsNumber
  <2>2. m # 0
    <3>. SUFFICES ASSUME v[k] = 0 PROVE FALSE
      OBVIOUS
    <3>1. PICK f : NumeralsUpTo(f, v[k])
      BY <1>6, NumeralsUpToExists
    <3>2. f[v[k]] = d
      BY <1>5, <3>1, Zenon
    <3>3. f[0] = <<Zero>>
      <4>1. 0 \in 0..0 /\ 0 < 10 /\ Zero + 0 = Zero
        BY CharAssumption, BaseFacts
      <4>2. f[0] = <<Zero + 0>>
        BY <3>1, <4>1, Zenon DEF NumeralsUpTo
      <4>. QED
        BY <4>1, <4>2
    <3>4. d[1] = Zero
      BY <3>2, <3>3
    <3>. QED
      BY <1>4, <1>9, <3>4
  <2>3. m \in Nat /\ n \in Int /\ n < 0 /\ m = IF n < 0 THEN -n ELSE n
    <3>1. m \in Nat
      BY <1>6
    <3>. HIDE DEF m
    <3>. QED
      BY <2>2, <3>1
  <2>4. PICK f : NumeralBy(f, n, m)
    <3>. HIDE DEF n, m
    <3>. QED
      BY <2>3, NumeralFacts
  <2>5. NumeralsUpTo(f, v[k]) /\ Numeral(n) = <<Minus>> \o f[v[k]]
    BY <2>3, <2>4, Zenon DEF NumeralBy
  <2>6. f[v[k]] = d
    BY <1>5, <2>5, Zenon
  <2>. HIDE DEF n
  <2>. QED
    BY <2>1, <2>3, <2>5, <2>6
<1>. QED
  BY <1>8, <1>9

\* A text is stored as a number only if it can be told from every other text
\* by the number that is read back, for every number of 64 bits, and in the
\* smallest width that will do (ziplist.cpp:167-191, 312-337).
THEOREM NumbersAreReadBack == Spec => []NumbersReadBack
<1>1. EntryInv => NumbersReadBack
  <2>. SUFFICES ASSUME EntryInv, entry # NULL, ~Zip_Is_Str(entry.encoding)
                PROVE  NumbersReadBack
    BY DEF NumbersReadBack
  <2>1. PICK text \in Text, prevlen \in Length, size \in Nat :
                entry = Entry(text, prevlen, size)
    BY DEF EntryInv, IsEntry
  <2>2. entry.text = text /\ entry.encoding = Content[text].encoding
    BY <2>1, EntryFields
  <2>3. PICK k, v : AsNumber(text, k, v)
    <3>1. ~AsText(text)
      <4>1. AsText(text) => Content[text].encoding = 0
        BY DEF AsText
      <4>2. Zip_Is_Str(0)
        BY DecodeFacts
      <4>. QED
        BY <2>2, <4>1, <4>2
    <3>. QED
      BY <3>1, ContentFacts
  <2>. DEFINE w == zipIntSize(entry.encoding)
              x == zipLoadInteger(SubSeq(entry.bytes, Len(entry.bytes) - w + 1,
                                         Len(entry.bytes)), entry.encoding)
  <2>4. x = v /\ \A j \in 1..4 : IntWidth[j] < w => ~Fits(v, IntWidth[j])
    BY <2>1, <2>3, NumberOfEntry, Zenon
  <2>5. ASSUME Fits(Number(text), IntWidth[4]) PROVE Numeral(v) = text
    <3>1. text \in Seq(Byte) /\ text # <<>> /\ Accepted(text) /\ v = stringtoll(text)
      BY <2>3, ContentFacts DEF AsNumber, zipTryIntegerEncoding
    <3>2. v = Number(text)
      BY <2>5, <3>1, StringtollIsNumber
    <3>. QED
      BY <3>1, <3>2, NumeralOfNumber
  <2>. HIDE DEF x, w
  <2>6. /\ \A j \in 1..4 : IntWidth[j] < w => ~Fits(x, IntWidth[j])
        /\ Fits(Number(entry.text), IntWidth[4]) => Numeral(x) = entry.text
    BY <2>2, <2>4, <2>5, Zenon
  <2>. QED
    BY <2>6, Zenon DEF NumbersReadBack, x, w
<1>. QED
  BY <1>1, EntriesAreWritten, PTL
=============================================================================
