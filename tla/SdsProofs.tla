------------------------------- MODULE SdsProofs -------------------------------
(***************************************************************************)
(* Proofs about Sds, for texts of any length, any sequence of calls and    *)
(* any SDS_MAX_PREALLOC: as long as realloc has not moved a block its      *)
(* header never promises more than it has, and until a block is overrun    *)
(* its bytes are the text.                                                 *)
(***************************************************************************)
EXTENDS Sds, SequenceTheorems, TLAPS

\* A block with its header: as many bytes as it owns.
Block(s) ==
    /\ s = [cap |-> s.cap, len |-> s.len, free |-> s.free, bytes |-> s.bytes, end |-> s.end,
            moved |-> s.moved]
    /\ s.cap \in Nat /\ s.len \in Nat /\ s.free \in Int /\ s.end \in Nat
    /\ s.moved \in BOOLEAN
    /\ DOMAIN s.bytes = 0..(s.cap - 1)

\* RoomAccounted and HoldsText, of any string and text.
Accounted(s) == /\ ~s.moved => s.free \in Nat /\ s.len + s.free + 1 <= s.cap
                /\ Overrun(s) => s.moved
Holds(s, t) ==
    /\ s.len = Len(t) /\ s.len < s.cap
    /\ \A j \in 0..(s.len - 1) : s.bytes[j] = t[j + 1]
    /\ s.bytes[s.len] = NUL

Good(s, t) == Block(s) /\ Accounted(s) /\ (~Overrun(s) => Holds(s, t))

IInv == text \in Seq(Octet) /\ (str # NULL => Good(str, text))

\* The header accounts for every byte of the block.
Exact(s) == s.len + s.free + 1 = s.cap

-----------------------------------------------------------------------------
(* The parts of a call *)

\* w is s with c written at the byte at.
Wrote(w, s, at, c) ==
    /\ w = [cap |-> s.cap, len |-> s.len, free |-> s.free, bytes |-> w.bytes, end |-> w.end,
            moved |-> s.moved]
    /\ DOMAIN w.bytes = 0..(s.cap - 1)
    /\ \A j \in 0..(s.cap - 1) :
          w.bytes[j] = IF at <= j /\ j < at + Len(c) THEN c[j - at + 1] ELSE s.bytes[j]
    /\ w.end = Larger(s.end, at + Len(c))

\* w holds the text all, up to its NUL.
Whole(w, all) ==
    /\ \A j \in 0..(Len(all) - 1) : w.bytes[j] = all[j + 1]
    /\ w.bytes[Len(all)] = NUL

\* r is what sdsMakeroom may return for s and n.
Made(r, s, n) ==
    /\ Block(r) /\ r.len = s.len /\ r.len < r.cap /\ ~Overrun(r)
    /\ \A j \in 0..s.len : r.bytes[j] = s.bytes[j]
    /\ ~r.moved => r.free \in Nat /\ r.free >= n /\ r.len + r.free + 1 <= r.cap
    /\ r = s \/ r.moved \/ Exact(r)

\* A write leaves the header alone and changes the bytes it covers.
LEMMA WriteFacts ==
    ASSUME NEW s, Block(s), NEW at \in Nat, NEW c, Len(c) \in Nat
    PROVE  Wrote(Write(s, at, c), s, at, c)
<1>. DEFINE bytes == [j \in 0..(s.cap - 1) |-> IF at <= j /\ j < at + Len(c)
                                               THEN c[j - at + 1] ELSE s.bytes[j]]
            end == Larger(s.end, at + Len(c))
<1>1. Write(s, at, c) = [s EXCEPT !.bytes = bytes, !.end = end]
  BY DEF Write, Block
<1>. HIDE DEF end
<1>2. Write(s, at, c) = [cap |-> s.cap, len |-> s.len, free |-> s.free,
                         bytes |-> bytes, end |-> end, moved |-> s.moved]
  <2>. HIDE DEF bytes
  <2>. QED
    BY <1>1 DEF Block
<1>3. Write(s, at, c).bytes = bytes /\ Write(s, at, c).end = end
  <2>. HIDE DEF bytes
  <2>. QED
    BY <1>2
<1>4. DOMAIN bytes = 0..(s.cap - 1)
  OBVIOUS
<1>5. \A j \in 0..(s.cap - 1) : bytes[j] = IF at <= j /\ j < at + Len(c)
                                           THEN c[j - at + 1] ELSE s.bytes[j]
  OBVIOUS
<1>. HIDE DEF bytes
<1>6. Write(s, at, c) = [cap |-> s.cap, len |-> s.len, free |-> s.free,
                  bytes |-> Write(s, at, c).bytes, end |-> Write(s, at, c).end,
                  moved |-> s.moved]
  BY <1>2, <1>3
<1>. QED
  BY <1>3, <1>4, <1>5, <1>6 DEF end, Wrote

\* malloc and realloc keep the header and the bytes that fit.
LEMMA ResizedFacts ==
    ASSUME NEW s, Block(s), NEW n \in Nat
    PROVE  /\ Resized(s, n) =
                 [cap |-> n, len |-> s.len, free |-> s.free,
                  bytes |-> Resized(s, n).bytes, end |-> Resized(s, n).end,
                  moved |-> s.moved]
           /\ DOMAIN Resized(s, n).bytes = 0..(n - 1)
           /\ \A j \in 0..(n - 1) : j < s.cap => Resized(s, n).bytes[j] = s.bytes[j]
           /\ Resized(s, n).end \in Nat /\ Resized(s, n).end <= n
<1>. DEFINE bytes == [j \in 0..(n - 1) |-> IF j \in DOMAIN s.bytes THEN s.bytes[j] ELSE JUNK]
            end == IF s.end > n THEN n ELSE s.end
<1>1. Resized(s, n) = [s EXCEPT !.cap = n, !.bytes = bytes, !.end = end]
  BY DEF Resized
<1>2. end \in Nat /\ end <= n
  BY DEF Block
<1>. HIDE DEF end
<1>3. Resized(s, n) = [cap |-> n, len |-> s.len, free |-> s.free,
                       bytes |-> bytes, end |-> end, moved |-> s.moved]
  <2>. HIDE DEF bytes
  <2>. QED
    BY <1>1 DEF Block
<1>4. Resized(s, n).bytes = bytes /\ Resized(s, n).end = end
  <2>. HIDE DEF bytes
  <2>. QED
    BY <1>3
<1>5. DOMAIN bytes = 0..(n - 1)
  OBVIOUS
<1>6. \A j \in 0..(n - 1) : j < s.cap => bytes[j] = s.bytes[j]
  BY DEF Block
<1>. HIDE DEF bytes
<1>7. Resized(s, n) = [cap |-> n, len |-> s.len, free |-> s.free,
                  bytes |-> Resized(s, n).bytes, end |-> Resized(s, n).end,
                  moved |-> s.moved]
  BY <1>3, <1>4
<1>. QED
  BY <1>2, <1>4, <1>5, <1>6, <1>7

\* sdsMakeroom gives the room it is asked for, unless realloc has moved the
\* block, and keeps the text.
LEMMA RoomFacts ==
    ASSUME NEW s, Block(s), Accounted(s), ~Overrun(s), s.len < s.cap,
           NEW n \in Nat, NEW r \in WithRoom(s, n)
    PROVE  Made(r, s, n)
<1>0. /\ s.cap \in Nat /\ s.len \in Nat /\ s.free \in Int /\ s.end \in Nat
      /\ s.moved \in BOOLEAN
  BY DEF Block
<1>1. CASE HasRoom(s, n)
  <2>1. r = s
    BY <1>1 DEF WithRoom
  <2>2. ~s.moved => s.free \in Nat /\ s.free >= n /\ s.len + s.free + 1 <= s.cap
    BY <1>0, <1>1 DEF HasRoom, Accounted
  <2>. QED
    BY <2>1, <2>2 DEF Made
<1>2. CASE ~HasRoom(s, n)
  <2>. DEFINE newlen == Grown(s.len + n)
              big == Resized(s, newlen + 1)
  <2>1. newlen \in Nat /\ newlen >= s.len + n
    BY <1>0, MaxPreallocAssumption DEF Grown
  <2>2. PICK l \in Int, m \in BOOLEAN :
              r = [big EXCEPT !.free = newlen - l, !.moved = m] /\ (m = FALSE => l = s.len)
    <3>1. \/ r = [big EXCEPT !.free = newlen - s.len, !.moved = FALSE]
          \/ \E l \in Freed \cup {s.len} : r = [big EXCEPT !.free = newlen - l, !.moved = TRUE]
      BY <1>2, Zenon DEF WithRoom, NewFree
    <3>2. \A l \in Freed \cup {s.len} : l \in Int
      <4>1. s.len \in Int
        BY <1>0
      <4>. QED
        BY <4>1, FreedAssumption, Zenon
    <3>. HIDE DEF big, newlen
    <3>3. s.len \in Int /\ TRUE \in BOOLEAN /\ FALSE \in BOOLEAN /\ TRUE # FALSE
      BY <1>0
    <3>. QED
      BY <3>1, <3>2, <3>3, Zenon
  <2>. HIDE DEF newlen
  <2>3. /\ big = [cap |-> newlen + 1, len |-> s.len, free |-> s.free,
                  bytes |-> big.bytes, end |-> big.end, moved |-> s.moved]
        /\ DOMAIN big.bytes = 0..newlen
        /\ \A j \in 0..newlen : j < s.cap => big.bytes[j] = s.bytes[j]
        /\ big.end \in Nat /\ big.end <= newlen + 1
    <3>1. newlen + 1 \in Nat /\ (newlen + 1) - 1 = newlen
      BY <2>1
    <3>. QED
      BY <1>0, <3>1, ResizedFacts
  <2>. HIDE DEF big
  <2>. DEFINE room == newlen - l
  <2>4. r = [cap |-> newlen + 1, len |-> s.len, free |-> room,
             bytes |-> big.bytes, end |-> big.end, moved |-> m]
    <3>1. r = [[big EXCEPT !.free = room] EXCEPT !.moved = m]
      BY <2>2
    <3>. HIDE DEF room
    <3>2. [big EXCEPT !.free = room] = [cap |-> newlen + 1, len |-> s.len, free |-> room,
                  bytes |-> big.bytes, end |-> big.end, moved |-> s.moved]
      BY <2>3
    <3>. QED
      BY <3>1, <3>2
  <2>5. room \in Int /\ (~m => room = newlen - s.len)
    BY <2>1, <2>2
  <2>. HIDE DEF room
  <2>6. /\ r.cap = newlen + 1 /\ r.len = s.len /\ r.free = room /\ r.moved = m
        /\ r.bytes = big.bytes /\ r.end = big.end
    BY <2>4
  <2>7. Block(r)
    <3>1. r = [cap |-> r.cap, len |-> r.len, free |-> r.free,
               bytes |-> r.bytes, end |-> r.end, moved |-> r.moved]
      BY <2>4, <2>6
    <3>2. r.cap \in Nat /\ r.cap - 1 = newlen
      BY <2>1, <2>6
    <3>3. DOMAIN r.bytes = 0..(r.cap - 1)
      BY <2>3, <2>6, <3>2
    <3>. QED
      BY <1>0, <2>3, <2>5, <2>6, <3>1, <3>2, <3>3 DEF Block
  <2>8. \A j \in 0..s.len : r.bytes[j] = s.bytes[j]
    <3>1. \A j \in 0..s.len : j \in 0..newlen /\ j < s.cap
      BY <1>0, <2>1
    <3>. QED
      BY <2>3, <2>6, <3>1
  <2>9. r.len < r.cap /\ ~Overrun(r)
    BY <1>0, <2>1, <2>3, <2>6 DEF Overrun
  <2>10. ~r.moved => r.free \in Nat /\ r.free >= n /\ r.len + r.free + 1 <= r.cap /\ Exact(r)
    BY <1>0, <2>1, <2>5, <2>6 DEF Exact
  <2>. QED
    BY <2>6, <2>7, <2>8, <2>9, <2>10 DEF Made
<1>. QED
  BY <1>1, <1>2

\* A text written with its NUL into a block that has the room for it, at len.
LEMMA WriteText ==
    ASSUME NEW s, Block(s), NEW old \in Seq(Octet), s.len = Len(old),
           \A j \in 0..(s.len - 1) : s.bytes[j] = old[j + 1],
           NEW c \in Seq(Octet), s.len + Len(c) + 1 <= s.cap
    PROVE  Whole(Write(s, s.len, Append(c, NUL)), old \o c)
<1>. DEFINE cn == Append(c, NUL)
            w == Write(s, s.len, cn)
            all == s.len + Len(c)
<1>0. s.len \in Nat /\ s.cap \in Nat /\ s.end \in Nat /\ Len(c) \in Nat /\ all \in Nat
  BY LenProperties DEF Block
<1>1. /\ Len(cn) = Len(c) + 1
      /\ \A j \in 1..Len(c) : cn[j] = c[j]
      /\ cn[Len(c) + 1] = NUL
  BY SMT
<1>. HIDE DEF cn
<1>2. Wrote(w, s, s.len, cn)
  <2>1. Len(cn) \in Nat
    BY <1>0, <1>1
  <2>. QED
    BY <1>0, <2>1, WriteFacts, Zenon
<1>. HIDE DEF w
<1>4. /\ Len(old \o c) = all
      /\ \A j \in 1..Len(old) : (old \o c)[j] = old[j]
      /\ \A j \in (Len(old) + 1)..(Len(old) + Len(c)) : (old \o c)[j] = c[j - Len(old)]
  BY SMT
<1>5. ASSUME NEW j \in 0..(all - 1)
      PROVE  w.bytes[j] = (old \o c)[j + 1]
  <2>1. j \in 0..(s.cap - 1) /\ j \in Nat
    BY <1>0, <1>5
  <2>2. CASE j < s.len
    <3>1. w.bytes[j] = s.bytes[j]
      BY <1>0, <1>2, <2>1, <2>2 DEF Wrote
    <3>2. j \in 0..(s.len - 1) /\ j + 1 \in 1..Len(old)
      BY <1>0, <2>1, <2>2
    <3>. QED
      BY <1>4, <3>1, <3>2
  <2>3. CASE ~(j < s.len)
    <3>1. w.bytes[j] = cn[j - s.len + 1]
      <4>1. s.len <= j /\ j < s.len + Len(cn)
        BY <1>0, <1>1, <1>5, <2>3
      <4>. QED
        BY <1>2, <2>1, <4>1, Zenon DEF Wrote
    <3>2. /\ j - s.len + 1 \in 1..Len(c)
          /\ j + 1 \in (Len(old) + 1)..(Len(old) + Len(c))
          /\ j + 1 - Len(old) = j - s.len + 1
      BY <1>0, <1>5, <2>1, <2>3
    <3>. QED
      BY <1>1, <1>4, <3>1, <3>2
  <2>. QED
    BY <2>2, <2>3
<1>6. w.bytes[all] = NUL
  <2>1. /\ all \in 0..(s.cap - 1) /\ s.len <= all /\ all < s.len + Len(cn)
        /\ all - s.len + 1 = Len(c) + 1
    BY <1>0, <1>1
  <2>. QED
    BY <1>1, <1>2, <2>1 DEF Wrote
<1>. HIDE DEF all
<1>. QED
  BY <1>4, <1>5, <1>6 DEF Whole, w, cn

-----------------------------------------------------------------------------
(* The calls *)

\* sdsnew: as if its text were written into an empty string with the room.
LEMMA NewKeeps ==
    ASSUME NEW c \in Seq(Octet), New(c)
    PROVE  IInv'
<1>. DEFINE raw == Resized(NoBlock, Len(c) + 1)
            block == [raw EXCEPT !.len = Len(c)]
            cn == Append(c, NUL)
            w == Write(block, 0, cn)
<1>0. Len(c) \in Nat
  BY LenProperties
<1>1. Block(NoBlock)
  <2>1. DOMAIN [j \in {} |-> JUNK] = 0..(0 - 1)
    BY SMT
  <2>. QED
    BY <2>1 DEF Block, NoBlock
<1>2. /\ raw = [cap |-> Len(c) + 1, len |-> 0, free |-> 0,
                bytes |-> raw.bytes, end |-> raw.end, moved |-> raw.moved]
      /\ DOMAIN raw.bytes = 0..Len(c)
      /\ raw.end \in Nat /\ raw.end <= Len(c) + 1
      /\ raw.moved = FALSE
  <2>1. /\ NoBlock.len = 0 /\ NoBlock.free = 0 /\ NoBlock.moved = FALSE
        /\ Len(c) + 1 \in Nat /\ (Len(c) + 1) - 1 = Len(c)
    BY <1>0 DEF NoBlock
  <2>. QED
    BY <1>1, <2>1, ResizedFacts
<1>. HIDE DEF raw
<1>3. block = [cap |-> Len(c) + 1, len |-> Len(c), free |-> 0,
               bytes |-> raw.bytes, end |-> raw.end, moved |-> raw.moved]
  <2>. DEFINE n == Len(c)
              room == n + 1
  <2>1. raw = [cap |-> room, len |-> 0, free |-> 0,
               bytes |-> raw.bytes, end |-> raw.end, moved |-> raw.moved]
    BY <1>2
  <2>. HIDE DEF n, room
  <2>2. [raw EXCEPT !.len = n] = [cap |-> room, len |-> n, free |-> 0,
               bytes |-> raw.bytes, end |-> raw.end, moved |-> raw.moved]
    BY <2>1
  <2>. QED
    BY <2>2 DEF n, room
<1>. HIDE DEF block
<1>4. Block(block) /\ block.len = Len(c) /\ block.free = 0 /\ block.cap = Len(c) + 1
      /\ block.end = raw.end /\ block.moved = FALSE
  <2>1. (Len(c) + 1) - 1 = Len(c) /\ Len(c) + 1 \in Nat
    BY <1>0
  <2>2. /\ block.cap = Len(c) + 1 /\ block.len = Len(c) /\ block.free = 0
        /\ block.bytes = raw.bytes /\ block.end = raw.end /\ block.moved = raw.moved
    BY <1>3
  <2>3. block = [cap |-> block.cap, len |-> block.len, free |-> block.free,
                 bytes |-> block.bytes, end |-> block.end, moved |-> block.moved]
    BY <1>3, <2>2
  <2>4. block.moved = FALSE
    BY <1>2, <2>2
  <2>5. DOMAIN block.bytes = 0..(block.cap - 1)
    BY <1>2, <2>1, <2>2
  <2>6. block.cap \in Nat /\ block.len \in Nat /\ block.end \in Nat
    BY <1>0, <1>2, <2>2
  <2>7. block.free \in Int /\ block.moved \in BOOLEAN
    <3>1. block.free \in Int
      BY <2>2
    <3>2. block.moved \in BOOLEAN
      BY <2>4, Zenon
    <3>. QED
      BY <3>1, <3>2
  <2>8. Block(block)
    BY <2>3, <2>5, <2>6, <2>7, Zenon DEF Block
  <2>. QED
    BY <2>2, <2>4, <2>8
<1>5. Len(cn) = Len(c) + 1 /\ (\A j \in 1..Len(c) : cn[j] = c[j]) /\ cn[Len(c) + 1] = NUL
  BY SMT
<1>. HIDE DEF cn
<1>6. Wrote(w, block, 0, cn)
  <2>1. Len(cn) \in Nat /\ 0 \in Nat
    BY <1>0, <1>5
  <2>. QED
    BY <1>4, <2>1, WriteFacts, Zenon
<1>. HIDE DEF w
<1>7. /\ w.cap = Len(c) + 1 /\ w.len = Len(c) /\ w.free = 0 /\ w.moved = FALSE
      /\ w.end \in Nat /\ w.end <= Len(c) + 1
  BY <1>0, <1>2, <1>4, <1>5, <1>6 DEF Larger, Wrote
<1>8. Block(w)
  <2>1. (Len(c) + 1) - 1 = Len(c) /\ Len(c) + 1 \in Nat
    BY <1>0
  <2>. QED
    BY <1>0, <1>4, <1>6, <1>7, <2>1 DEF Block, Wrote
<1>9. Accounted(w)
  BY <1>0, <1>7 DEF Accounted, Overrun
<1>10. Holds(w, c)
  <2>1. \A j \in 0..Len(c) : w.bytes[j] = cn[j + 1]
    BY <1>0, <1>4, <1>5, <1>6 DEF Wrote
  <2>2. \A j \in 0..(Len(c) - 1) : j \in 0..Len(c) /\ j + 1 \in 1..Len(c)
    BY <1>0
  <2>. QED
    BY <1>0, <1>5, <1>7, <2>1, <2>2 DEF Holds
<1>11. str' = w /\ text' = c
  BY DEF New, w, cn, block, raw
<1>. QED
  BY <1>8, <1>9, <1>10, <1>11 DEF IInv, Good

\* A text of bytes nobody chose.
LEMMA ZeroedFacts ==
    ASSUME NEW n \in Nat
    PROVE  Zeroed(n) \in Seq(Octet) /\ Len(Zeroed(n)) = n
<1>1. Zeroed(n) \in [1..n -> Octet]
  BY DEF Zeroed, Octet
<1>. QED
  BY <1>1, SMT

\* fread writes its bytes over the first ones of a text that has as many.
LEMMA FillKeeps ==
    ASSUME IInv, NEW c \in Seq(Char), Fill(c)
    PROVE  IInv'
<1>. DEFINE w == Write(str, 0, c)
            rest == SubSeq(text, Len(c) + 1, Len(text))
            all == c \o rest
<1>0. /\ text \in Seq(Octet) /\ Block(str) /\ Accounted(str) /\ Holds(str, text)
      /\ ~Overrun(str) /\ Len(c) <= str.len /\ str' = w /\ text' = all
  BY DEF Fill, IInv, Good
<1>1. /\ Len(c) \in Nat /\ Len(text) \in Nat /\ str.len = Len(text)
      /\ str.cap \in Nat /\ str.len \in Nat /\ str.end \in Nat /\ str.free \in Int
      /\ str.end <= str.cap /\ str.len < str.cap /\ c \in Seq(Octet)
  BY <1>0, LenProperties, SeqMonotonic DEF Block, Holds, Overrun, Octet
<1>2. Wrote(w, str, 0, c)
  BY <1>0, <1>1, WriteFacts
<1>3. /\ rest \in Seq(Octet) /\ Len(rest) = Len(text) - Len(c)
      /\ \A j \in 1..(Len(text) - Len(c)) : rest[j] = text[Len(c) + j]
  <2>1. \A j \in (Len(c) + 1)..Len(text) : text[j] \in Octet
    BY <1>0, <1>1, ElementOfSeq
  <2>2. Len(c) + 1 \in Int /\ Len(text) \in Int
    BY <1>1
  <2>3. /\ SubSeq(text, Len(c) + 1, Len(text)) \in Seq(Octet)
        /\ Len(SubSeq(text, Len(c) + 1, Len(text))) =
              IF Len(c) + 1 <= Len(text) THEN Len(text) - (Len(c) + 1) + 1 ELSE 0
        /\ \A j \in 1..(Len(text) - (Len(c) + 1) + 1) :
              SubSeq(text, Len(c) + 1, Len(text))[j] = text[(Len(c) + 1) + j - 1]
    BY <2>1, <2>2, SubSeqProperties
  <2>. HIDE DEF rest
  <2>. QED
    BY <1>0, <1>1, <2>3 DEF rest
<1>. HIDE DEF w, rest
<1>4. /\ all \in Seq(Octet) /\ Len(all) = Len(text)
      /\ \A j \in 1..Len(text) : all[j] = IF j <= Len(c) THEN c[j] ELSE text[j]
  <2>1. /\ all \in Seq(Octet) /\ Len(all) = Len(c) + Len(rest)
        /\ \A j \in 1..(Len(c) + Len(rest)) :
              all[j] = IF j <= Len(c) THEN c[j] ELSE rest[j - Len(c)]
    BY <1>1, <1>3, ConcatProperties
  <2>. HIDE DEF all
  <2>2. Len(c) + Len(rest) = Len(text)
    BY <1>0, <1>1, <1>3
  <2>3. ASSUME NEW j \in 1..Len(text), ~(j <= Len(c)) PROVE rest[j - Len(c)] = text[j]
    <3>1. j - Len(c) \in 1..(Len(text) - Len(c)) /\ Len(c) + (j - Len(c)) = j
      BY <1>1, <2>3
    <3>. QED
      BY <1>3, <3>1
  <2>. QED
    BY <2>1, <2>2, <2>3
<1>. HIDE DEF all
<1>5. /\ w.cap = str.cap /\ w.len = str.len /\ w.free = str.free /\ w.moved = str.moved
      /\ DOMAIN w.bytes = 0..(str.cap - 1)
      /\ \A j \in 0..(str.cap - 1) : w.bytes[j] = IF j < Len(c) THEN c[j + 1] ELSE str.bytes[j]
      /\ w.end = Larger(str.end, Len(c))
  BY <1>1, <1>2 DEF Wrote
<1>6. w.end \in Nat /\ w.end <= w.cap
  BY <1>0, <1>1, <1>5 DEF Larger
<1>7. Block(w) /\ Accounted(w) /\ ~Overrun(w)
  BY <1>0, <1>1, <1>2, <1>5, <1>6 DEF Block, Accounted, Overrun, Wrote
<1>8. Holds(w, all)
  <2>1. \A j \in 0..(w.len - 1) : w.bytes[j] = all[j + 1]
    <3>. SUFFICES ASSUME NEW j \in 0..(w.len - 1) PROVE w.bytes[j] = all[j + 1]
      OBVIOUS
    <3>1. j \in 0..(str.cap - 1) /\ j + 1 \in 1..Len(text) /\ j \in 0..(str.len - 1)
      BY <1>1, <1>5
    <3>2. str.bytes[j] = text[j + 1]
      BY <1>0, <3>1 DEF Holds
    <3>. QED
      BY <1>1, <1>4, <1>5, <3>1, <3>2
  <2>2. w.bytes[w.len] = NUL
    <3>1. str.len \in 0..(str.cap - 1) /\ ~(str.len < Len(c))
      BY <1>0, <1>1
    <3>. QED
      BY <1>0, <1>5, <3>1 DEF Holds
  <2>. QED
    BY <1>1, <1>4, <1>5, <2>1, <2>2 DEF Holds
<1>. QED
  BY <1>0, <1>4, <1>7, <1>8 DEF IInv, Good

\* sdscat: room for the text, the text behind the old one, the header.  If the
\* block has moved and its free is wrong, the text may not fit.
LEMMA CatFacts ==
    ASSUME IInv, NEW c \in Seq(Char), Cat(c)
    PROVE  /\ IInv'
           /\ \E r : /\ Made(r, str, Len(c))
                     /\ str'.cap = r.cap /\ str'.len = r.len + Len(c)
                     /\ str'.free = r.free - Len(c) /\ str'.moved = r.moved
<1>. DEFINE n == Len(c)
            cn == Append(c, NUL)
<1>0. /\ n \in Nat /\ text \in Seq(Octet) /\ c \in Seq(Octet)
      /\ Block(str) /\ Accounted(str) /\ ~Overrun(str) /\ Holds(str, text)
      /\ str.len < str.cap /\ str.len \in Nat /\ text' = text \o c
  BY LenProperties, SeqMonotonic DEF IInv, Cat, Good, Octet, Holds, Block
<1>1. PICK s \in WithRoom(str, n) :
        str' = [TakeRoom(Write(s, str.len, cn), n) EXCEPT !.len = str.len + n]
  BY DEF Cat, Terminated
<1>2. Made(s, str, n)
  BY <1>0, <1>1, RoomFacts
<1>3. /\ Block(s) /\ s.len = str.len /\ s.len < s.cap /\ s.end <= s.cap
      /\ \A j \in 0..str.len : s.bytes[j] = str.bytes[j]
      /\ ~s.moved => s.free >= n /\ s.len + s.free + 1 <= s.cap
      /\ s.cap \in Nat /\ s.len \in Nat /\ s.free \in Int /\ s.end \in Nat
  BY <1>2 DEF Made, Block, Overrun
<1>4. Len(cn) = n + 1
  BY <1>0, SMT
<1>. DEFINE w == Write(s, s.len, cn)
            more == s.len + n
            less == s.free - n
            res == [cap |-> s.cap, len |-> more, free |-> less,
                    bytes |-> w.bytes, end |-> w.end, moved |-> s.moved]
<1>5. Wrote(w, s, s.len, cn)
  <2>1. Len(cn) \in Nat
    BY <1>0, <1>4
  <2>. HIDE DEF cn
  <2>. QED
    BY <1>3, <2>1, WriteFacts, Zenon
<1>6. ~(more + 1 > s.cap) => Whole(w, text \o c)
  <2>. SUFFICES ASSUME ~(more + 1 > s.cap) PROVE Whole(w, text \o c)
    OBVIOUS
  <2>1. s.len + n + 1 <= s.cap
    BY <1>0, <1>3
  <2>2. s.len = Len(text) /\ \A j \in 0..(s.len - 1) : s.bytes[j] = text[j + 1]
    BY <1>0, <1>3 DEF Holds
  <2>. QED
    BY <1>0, <1>3, <2>1, <2>2, WriteText
<1>7. str' = [[w EXCEPT !.free = w.free - n] EXCEPT !.len = more]
  BY <1>1, <1>3 DEF TakeRoom
<1>. HIDE DEF w, cn
<1>8. /\ w = [cap |-> s.cap, len |-> s.len, free |-> s.free, bytes |-> w.bytes, end |-> w.end,
              moved |-> s.moved]
      /\ DOMAIN w.bytes = 0..(s.cap - 1)
      /\ w.end = Larger(s.end, s.len + (n + 1))
  BY <1>4, <1>5 DEF Wrote
<1>9. more \in Nat /\ less \in Int
  BY <1>0, <1>3
<1>10. str' = res
  <2>1. w.free - n = less
    BY <1>8
  <2>2. str' = [[w EXCEPT !.free = less] EXCEPT !.len = more]
    BY <1>7, <2>1
  <2>. HIDE DEF less, more, n
  <2>3. [w EXCEPT !.free = less] = [cap |-> s.cap, len |-> s.len, free |-> less,
                                    bytes |-> w.bytes, end |-> w.end, moved |-> s.moved]
    BY <1>8
  <2>. QED
    BY <2>2, <2>3
<1>11. /\ str'.cap = s.cap /\ str'.len = more /\ str'.free = less /\ str'.moved = s.moved
       /\ str'.bytes = w.bytes /\ str'.end = w.end
  <2>. HIDE DEF less, more
  <2>. QED
    BY <1>10
<1>12. str'.end \in Nat /\ (str'.end > str'.cap <=> more + 1 > s.cap)
  BY <1>0, <1>3, <1>8, <1>11 DEF Larger
<1>13. Block(str')
  <2>1. str' = [cap |-> str'.cap, len |-> str'.len, free |-> str'.free,
                bytes |-> str'.bytes, end |-> str'.end, moved |-> str'.moved]
    <3>. HIDE DEF less, more
    <3>. QED
      BY <1>10, <1>11
  <2>2. s.moved \in BOOLEAN
    BY <1>3 DEF Block
  <2>. QED
    BY <1>3, <1>8, <1>9, <1>11, <1>12, <2>1, <2>2 DEF Block
<1>14. Accounted(str')
  <2>1. ~s.moved => less \in Nat /\ more + less + 1 <= s.cap /\ ~(more + 1 > s.cap)
    BY <1>0, <1>3
  <2>. QED
    BY <1>11, <1>12, <2>1 DEF Accounted, Overrun
<1>15. ~Overrun(str') => Holds(str', text \o c)
  <2>. SUFFICES ASSUME ~Overrun(str') PROVE Holds(str', text \o c)
    OBVIOUS
  <2>1. Whole(w, text \o c) /\ more < s.cap
    BY <1>3, <1>6, <1>9, <1>12 DEF Overrun
  <2>2. Len(text \o c) = more
    BY <1>0, <1>3, ConcatProperties DEF Holds
  <2>. QED
    BY <1>11, <2>1, <2>2 DEF Holds, Whole
<1>16. text \o c \in Seq(Octet)
  BY <1>0, ConcatProperties
<1>17. IInv'
  BY <1>0, <1>13, <1>14, <1>15, <1>16 DEF IInv, Good
<1>. QED
  BY <1>2, <1>11, <1>17

\* sdsMakeroom alone.
LEMMA MakeRoomFacts ==
    ASSUME IInv, NEW n \in Nat, MakeRoom(n)
    PROVE  IInv' /\ Made(str', str, n)
<1>0. /\ Block(str) /\ Accounted(str) /\ ~Overrun(str) /\ Holds(str, text)
      /\ str.len < str.cap /\ str.len \in Nat /\ str' \in WithRoom(str, n) /\ text' = text
  BY DEF IInv, MakeRoom, Good, Holds, Block
<1>1. Made(str', str, n)
  BY <1>0, RoomFacts
<1>2. Holds(str', text)
  <2>1. str.len \in 0..str.len /\ \A j \in 0..(str.len - 1) : j \in 0..str.len
    BY <1>0
  <2>. QED
    BY <1>0, <1>1, <2>1 DEF Made, Holds
<1>. QED
  BY <1>0, <1>1, <1>2 DEF IInv, Good, Made, Accounted

\* sdsclear.
LEMMA ClearKeeps ==
    ASSUME IInv, Clear
    PROVE  IInv'
<1>. DEFINE w == Write(str, 0, <<NUL>>)
            res == [cap |-> str.cap, len |-> 0, free |-> str.free,
                    bytes |-> w.bytes, end |-> w.end, moved |-> str.moved]
<1>0. /\ Block(str) /\ Accounted(str) /\ str.end <= str.cap /\ str.len < str.cap
      /\ str.cap \in Nat /\ str.len \in Nat /\ str.free \in Int /\ str.end \in Nat
  BY DEF IInv, Clear, Good, Holds, Block, Overrun
<1>1. Len(<<NUL>>) = 1 /\ <<NUL>>[1] = NUL
  BY SMT
<1>2. Wrote(w, str, 0, <<NUL>>)
  <2>1. Len(<<NUL>>) \in Nat /\ 0 \in Nat
    BY <1>1
  <2>. QED
    BY <1>0, <2>1, WriteFacts, Zenon
<1>3. str' = [w EXCEPT !.len = 0] /\ text' = <<>>
  BY DEF Clear
<1>4. w.end \in Nat /\ w.end <= str.cap
  BY <1>0, <1>1, <1>2 DEF Larger, Wrote
<1>5. w.bytes[0] = NUL
  <2>1. 0 \in 0..(str.cap - 1)
    BY <1>0
  <2>. QED
    BY <1>1, <1>2, <2>1 DEF Wrote
<1>. HIDE DEF w
<1>6. str' = res
  BY <1>2, <1>3 DEF Wrote
<1>7. /\ res.cap = str.cap /\ res.len = 0 /\ res.free = str.free /\ res.moved = str.moved
      /\ res.bytes = w.bytes /\ res.end = w.end
  OBVIOUS
<1>8. Block(res)
  BY <1>0, <1>2, <1>4, <1>7 DEF Block, Wrote
<1>. HIDE DEF res
<1>9. Accounted(res)
  BY <1>0, <1>4, <1>7 DEF Accounted, Overrun
<1>10. Holds(res, <<>>)
  BY <1>0, <1>5, <1>7, EmptySeq DEF Holds
<1>. QED
  BY <1>3, <1>6, <1>8, <1>9, <1>10, EmptySeq DEF IInv, Good

-----------------------------------------------------------------------------

\* Every call keeps the block, its account and the text, until a block that
\* realloc has moved is overrun.
THEOREM Invariant == Spec => []IInv
<1>1. Init => IInv
  BY EmptySeq DEF Init, IInv
<1>2. IInv /\ [\E c \in Seq(Char) : Call(c)]_vars => IInv'
  <2>. SUFFICES ASSUME IInv, [\E c \in Seq(Char) : Call(c)]_vars PROVE IInv'
    OBVIOUS
  <2>1. CASE UNCHANGED vars
    BY <2>1 DEF vars, IInv
  <2>2. ASSUME NEW c \in Seq(Char), Call(c) PROVE IInv'
    <3>0. Len(c) \in Nat /\ c \in Seq(Octet) /\ Zeroed(Len(c)) \in Seq(Octet)
      BY LenProperties, SeqMonotonic, ZeroedFacts DEF Octet
    <3>1. CASE New(c)
      BY <3>0, <3>1, NewKeeps
    <3>2. CASE New(Zeroed(Len(c)))
      BY <3>0, <3>2, NewKeeps
    <3>3. CASE Fill(c)
      BY <3>3, FillKeeps
    <3>4. CASE Cat(c)
      BY <3>4, CatFacts
    <3>5. CASE Clear
      BY <3>5, ClearKeeps
    <3>6. CASE MakeRoom(Len(c))
      BY <3>0, <3>6, MakeRoomFacts
    <3>7. CASE Free
      BY <3>7, EmptySeq DEF Free, IInv
    <3>. QED
      BY <2>2, <3>1, <3>2, <3>3, <3>4, <3>5, <3>6, <3>7 DEF Call
  <2>. QED
    BY <2>1, <2>2
<1>. QED
  BY <1>1, <1>2, PTL DEF Spec

\* A block that stayed in place has the room its header promises, and only one
\* that realloc has moved is ever overrun.
THEOREM RoomIsThere == Spec => []RoomAccounted
<1>1. IInv => RoomAccounted
  BY DEF IInv, Good, Accounted, RoomAccounted
<1>. QED
  BY <1>1, Invariant, PTL

\* Until its block is overrun a string reads as its text, by its length and up
\* to its NUL.
THEOREM TextIsHeld == Spec => []HoldsText
<1>1. ASSUME IInv, str # NULL, ~Overrun(str) PROVE Bytes(0, str.len) = text
  <2>1. /\ text \in Seq(Octet) /\ str.len = Len(text) /\ str.len \in Nat
        /\ \A j \in 0..(str.len - 1) : str.bytes[j] = text[j + 1]
    BY <1>1 DEF IInv, Good, Holds, Block
  <2>2. Bytes(0, str.len) = [j \in 1..Len(text) |-> text[j]]
    <3>1. ASSUME NEW j \in 1..Len(text) PROVE str.bytes[0 + j - 1] = text[j]
      <4>1. 0 + j - 1 \in 0..(str.len - 1) /\ (0 + j - 1) + 1 = j
        BY <2>1
      <4>. QED
        BY <2>1, <4>1
    <3>. QED
      BY <2>1, <3>1, Zenon DEF Bytes
  <2>3. text = [j \in 1..Len(text) |-> text[j]]
    BY <2>1, SMT
  <2>. QED
    BY <2>2, <2>3
<1>2. IInv => HoldsText
  BY <1>1 DEF IInv, Good, Holds, HoldsText
<1>. QED
  BY <1>2, Invariant, PTL

\* A header that accounts for every byte goes on doing so, through any call but
\* sdsclear and a realloc that moves the block.
THEOREM AccountLostOnlyByClearAndMove == Spec => AccountKept
<1>1. ASSUME IInv, [\E c \in Seq(Char) : Call(c)]_vars,
             str # NULL, str' # NULL, str.len + str.free + 1 = str.cap,
             str'.len + str'.free + 1 # str'.cap
      PROVE  text' = <<>> \/ str'.moved
  <2>0. /\ text \in Seq(Octet) /\ Good(str, text) /\ Block(str)
        /\ str.len \in Nat /\ str.free \in Int /\ str.cap \in Nat /\ Exact(str)
    BY <1>1 DEF IInv, Good, Block, Exact
  <2>1. CASE UNCHANGED vars
    BY <1>1, <2>0, <2>1 DEF vars
  <2>2. ASSUME NEW c \in Seq(Char), Call(c) PROVE text' = <<>> \/ str'.moved
    <3>0. Len(c) \in Nat
      BY LenProperties
    <3>1. ASSUME NEW r, Made(r, str, Len(c)) PROVE r.moved \/ Exact(r)
      BY <2>0, <3>1 DEF Made
    <3>2. CASE Cat(c)
      <4>1. PICK r : /\ Made(r, str, Len(c))
                     /\ str'.cap = r.cap /\ str'.len = r.len + Len(c)
                     /\ str'.free = r.free - Len(c) /\ str'.moved = r.moved
        BY <1>1, <3>2, CatFacts
      <4>2. r.cap \in Nat /\ r.len \in Nat /\ r.free \in Int
        BY <4>1 DEF Made, Block
      <4>. QED
        BY <1>1, <3>0, <3>1, <4>1, <4>2 DEF Exact
    <3>3. CASE MakeRoom(Len(c))
      <4>1. Made(str', str, Len(c))
        BY <1>1, <3>0, <3>3, MakeRoomFacts
      <4>. QED
        BY <1>1, <3>1, <4>1 DEF Exact
    <3>4. CASE Fill(c)
      <4>1. Wrote(str', str, 0, c)
        BY <2>0, <3>0, <3>4, WriteFacts DEF Fill
      <4>2. str'.cap = str.cap /\ str'.len = str.len /\ str'.free = str.free
        BY <4>1 DEF Wrote
      <4>. QED
        BY <1>1, <4>2
    <3>. QED
      BY <1>1, <2>2, <3>2, <3>3, <3>4 DEF Call, New, Clear, Free
  <2>. QED
    BY <1>1, <2>1, <2>2
<1>2. IInv /\ [\E c \in Seq(Char) : Call(c)]_vars => AccountKept!1
  BY <1>1
<1>. QED
  BY <1>2, Invariant, PTL DEF Spec, AccountKept
=============================================================================
