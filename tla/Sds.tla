--------------------------------- MODULE Sds ---------------------------------
(***************************************************************************)
(* The growing strings of src/blackdb/sds.cpp, byte by byte: one string,   *)
(* from sdsnew to sdsfree, through any sequence of calls with the C        *)
(* strings of a set.  Showall builds its reply with them, and every key    *)
(* and value of the store is one.                                          *)
(*                                                                         *)
(* cap counts the bytes behind the header that the string owns.  A write   *)
(* is recorded in end even where it would leave them, so that an invariant *)
(* can say that none does.                                                 *)
(***************************************************************************)
EXTENDS Characters, Integers, Sequences

CONSTANTS
    MaxPrealloc,    \* SDS_MAX_PREALLOC
    Freed,          \* what a word of memory that was freed may read as
    Missed          \* bytes at its end that sdsnewlen leaves unset

ASSUME MaxPreallocAssumption == MaxPrealloc \in Nat \ {0}
ASSUME FreedAssumption == Freed \subseteq Int
ASSUME MissedAssumption == Missed \in Nat

VARIABLES
    str,    \* the string: its allocation, the fields of sdsdr and the bytes
    text    \* history: the text it should hold

vars == <<str, text>>

Init == str = NULL /\ text = <<>>

-----------------------------------------------------------------------------

Larger(a, b) == IF a > b THEN a ELSE b

\* What a string may hold: sdsnewlen makes some of bytes nobody chose.
Octet == Char \cup {NUL, JUNK}

\* The characters of c, from the byte at onwards.
Write(s, at, c) ==
    [s EXCEPT !.bytes = [j \in DOMAIN s.bytes |->
                            IF at <= j /\ j < at + Len(c)
                            THEN c[j - at + 1] ELSE s.bytes[j]],
              !.end = Larger(s.end, at + Len(c))]

\* malloc and realloc to n bytes.
Resized(s, n) ==
    [s EXCEPT !.cap = n,
              !.bytes = [j \in 0..(n - 1) |->
                            IF j \in DOMAIN s.bytes THEN s.bytes[j] ELSE JUNK],
              !.end = IF s.end > n THEN n ELSE s.end]

NoBlock == [cap |-> 0, len |-> 0, free |-> 0, bytes |-> [j \in {} |-> JUNK], end |-> 0,
            moved |-> FALSE]

\* A string whose block has been overrun: what any call does next depends on
\* what lay behind it, and nothing is claimed but that it may be given up.
Overrun(s) == s.end > s.cap

\* sdsnewlen, and sdsnew and sdsempty which call it.
New(c) ==
    /\ str = NULL
    /\ LET block == [Resized(NoBlock, Len(c) + 1) EXCEPT !.len = Len(c)]
       IN  str' = Write(block, 0, Append(c, NUL))
    /\ text' = c

\* What memset makes of n bytes if there is no text to copy: it is told the size
\* of a pointer where it needs the size of the header.
Zeroed(n) == [j \in 1..n |-> IF j <= n - Missed THEN NUL ELSE JUNK]

\* rdbLoad reads a string of the file into one it has just made; a file cut
\* short gives it less.
Fill(c) ==
    /\ str # NULL /\ ~Overrun(str) /\ Len(c) <= str.len
    /\ text # <<>> /\ text = Zeroed(str.len)
    /\ str' = Write(str, 0, c)
    /\ text' = c \o SubSeq(text, Len(c) + 1, Len(text))

Grown(n) == IF n < MaxPrealloc THEN 2 * n ELSE n + MaxPrealloc

\* sdsavail is unsigned: a free below 0 is more than any text needs.
HasRoom(s, n) == s.free < 0 \/ s.free >= n

NewFreeAddsRoom(s, newlen, length) == s.free + newlen
NewFree(s, newlen, length) == newlen - length

\* sdsMakeroom, by the blocks it may return; a block may also shrink, after a
\* sdsclear.  The length is read through the pointer it was called with: if
\* realloc has moved the block, that is memory already freed.
WithRoom(s, n) ==
    LET newlen == Grown(s.len + n)
        resized(length, moved) ==
            [Resized(s, newlen + 1) EXCEPT !.free = NewFree(s, newlen, length),
                                           !.moved = moved]
    IN  IF HasRoom(s, n) THEN {s}
        ELSE {resized(s.len, FALSE)} \cup {resized(l, TRUE) : l \in Freed \cup {s.len}}

TakeRoomForgets(s, n) == s
TakeRoomForNul(s, n) == [s EXCEPT !.free = @ - n - 1]
TakeRoom(s, n) == [s EXCEPT !.free = @ - n]

TerminatedNever(c) == c
Terminated(c) == Append(c, NUL)

\* sdscat.
Cat(c) ==
    /\ str # NULL /\ ~Overrun(str)
    /\ \E r \in WithRoom(str, Len(c)) :
          LET s == Write(r, str.len, Terminated(c))
          IN  str' = [TakeRoom(s, Len(c)) EXCEPT !.len = str.len + Len(c)]
    /\ text' = text \o c

\* sdsclear: len is 0 before it is added to free.
Clear ==
    /\ str # NULL /\ ~Overrun(str)
    /\ str' = [Write(str, 0, <<NUL>>) EXCEPT !.len = 0]
    /\ text' = <<>>

MakeRoom(n) ==
    /\ str # NULL /\ ~Overrun(str)
    /\ str' \in WithRoom(str, n)
    /\ UNCHANGED text

Free ==
    /\ str # NULL
    /\ str' = NULL
    /\ text' = <<>>

Call(c) ==
    \/ New(c) \/ New(Zeroed(Len(c))) \/ Fill(c)
    \/ Cat(c) \/ Clear \/ MakeRoom(Len(c)) \/ Free

Spec == Init /\ [][\E c \in Seq(Char) : Call(c)]_vars

-----------------------------------------------------------------------------
(* Properties *)

\* The bytes of the string, once it has a block.
Bytes(from, n) == [j \in 1..n |-> str.bytes[from + j - 1]]

\* A block that stayed where it was when it last grew has the room its header
\* promises, whatever was reserved, used up, lost or given back since; and no
\* write of sdsnewlen, fread, sdscat or sdsclear leaves a block but one that
\* realloc has moved (sds.cpp:30, 63-64, 78, 89-91).
RoomAccounted ==
    str # NULL => /\ ~str.moved => str.len + str.free + 1 <= str.cap
                  /\ Overrun(str) => str.moved

\* Only sdsclear (sds.cpp:50-51), which adds the len it has just set to 0, and
\* a realloc that moves the block (sds.cpp:75-78) lose count of it: from any
\* other call on a string whose header accounts for every byte, it still does.
AccountKept ==
    [][(/\ str # NULL /\ str' # NULL
        /\ str.len + str.free + 1 = str.cap
        /\ str'.len + str'.free + 1 # str'.cap) => text' = <<>> \/ str'.moved]_vars

\* A string reads as its text both ways: sdslen counts it, and the byte behind
\* it ends it for a reader of C strings.  The keys of the hash table are compared
\* by sdslen, replies are sent by strlen (dict.cpp:312-313, Server.cpp:290).
HoldsText ==
    str # NULL /\ ~Overrun(str) =>
        /\ str.len = Len(text)
        /\ Bytes(0, str.len) = text
        /\ str.bytes[str.len] = NUL

\* The comment of sdsMakeroom: a string that is returned as it was has the
\* room, so an append stays inside the block (sds.cpp:58, 63-64, 89-90).
AppendsStayInside == str # NULL => ~Overrun(str)
=============================================================================
