------------------------------- MODULE Ziplist --------------------------------
(***************************************************************************)
(* The compressed list of src/blackdb/ziplist.cpp: one block of memory     *)
(* with a header that says how many bytes are used and how many remain,    *)
(* and the entry an insertion writes.                                      *)
(*                                                                         *)
(* The code finds its entries by bytes that nothing has written (the end   *)
(* marker of an empty list lies in the header, one byte before the place   *)
(* where an insertion looks for it) or that were overwritten (the encoding *)
(* of an entry, by its content).  What it reads of the entries in the list *)
(* is therefore any length; the tail offset and the number of entries,     *)
(* which serve only to find and count them, are left out.                  *)
(*                                                                         *)
(* An operator above another whose name it extends is that operator with a *)
(* bug in it; no formula uses it.                                          *)
(***************************************************************************)
EXTENDS ZiplistCodec

CONSTANTS
    Text,           \* texts that are inserted
    Length,         \* lengths read from the list
    InitSize,       \* ZIP_INIT_SIZE: 512
    HeaderSize,     \* ZIPLIST_HEADER_SIZE: 14
    JUNK,           \* a byte nobody has written
    NULL,
    MaxBytes,       \* bound: bytes of a list
    MaxResizes      \* bound: calls of ziplistResize

\* The length of an entry, with up to 10 bytes in front of its content, is an
\* unsigned int.
ASSUME TextAssumption ==
    /\ Text \subseteq Seq(Byte) /\ \A s \in Text : Len(s) + 10 < Power[4]
    /\ IntWidth[4] + 10 < Power[4]
ASSUME SizeAssumption ==
    /\ Length \subseteq 0..(Power[4] - 1)
    /\ InitSize \in Nat /\ HeaderSize \in Nat /\ HeaderSize < InitSize
    /\ MaxBytes \in Nat /\ MaxResizes \in Nat

VARIABLES
    zl,         \* the block: its size and header, and its past
    pc,         \* "none", "idle", "cascade" or "return"
    curlen,     \* local of ziplistCascadeUpdate
    todo,       \* the entry an insertion will write when the cascade is over
    entry,      \* history: the entry the running insertion has written
    resizes     \* history: number of calls of ziplistResize

zvars == <<zl, pc, curlen, todo, entry, resizes>>

Init ==
    /\ zl = NULL
    /\ pc = "none"
    /\ curlen = 0
    /\ todo = NULL
    /\ entry = NULL
    /\ resizes = 0

\* CreateZiplist.
CreateZiplist ==
    /\ pc = "none"
    /\ zl' = [cap |-> InitSize, bytes |-> HeaderSize + 1,
              remain |-> InitSize - HeaderSize - 1,
              reallocated |-> FALSE, moved |-> FALSE]
    /\ pc' = "idle"
    /\ UNCHANGED <<curlen, todo, entry, resizes>>

-----------------------------------------------------------------------------

\* ZIP_RESIZE_RATE.
Grown(len) == (12 * len) \div 10

InPlaceKeepsRoom(z, len) == [z EXCEPT !.bytes = len]
InPlace(z, len) == [z EXCEPT !.bytes = len, !.remain = @ - (len - z.bytes)]

\* ziplistResize.  A len below the bytes in use makes addlen negative, which
\* is a large size_t: the block is then reallocated to that size too.  Only
\* len bytes are allocated, and if they lie elsewhere the new number of bytes
\* is written into the old block.
ziplistResize(z, len) ==
    IF z.bytes <= len /\ len - z.bytes <= z.remain
    THEN {InPlace(z, len)}
    ELSE {[cap |-> len,
           bytes |-> IF moves THEN z.bytes ELSE len,
           remain |-> Grown(len) - len,
           reallocated |-> TRUE,
           moved |-> z.moved \/ moves] : moves \in BOOLEAN}

PrevSize(len) == Len(zipPrevEncodeLength(len))

\* An entry with the length of its previous one as read: in its short or its
\* forced form.
PrevForms(prevlen) == IF prevlen < ZIP_BIGLEN THEN {1, 5} ELSE {5}

Resize(len) ==
    /\ resizes < MaxResizes
    /\ resizes' = resizes + 1
    /\ len \in (HeaderSize + 1)..MaxBytes
    /\ zl' \in ziplistResize(zl, len)

\* The entry of an insertion.  The pointer is moved behind the room of the
\* encoding before the encoding is written, and the content is written over it.
Over(under, over) == over \o SubSeq(under, Len(over) + 1, Len(under))

Content ==
    [text \in Text |->
        IF zipTryIntegerEncoding(text)
        THEN LET v == stringtoll(text)
             IN  [encoding |-> EncodingOf(v), bytes |-> zipSaveInteger(v, EncodingOf(v))]
        ELSE [encoding |-> 0, bytes |-> text]]

ReservedForContent(text, prevlen) ==
    Len(Content[text].bytes) + PrevSize(prevlen)
Reserved(text, prevlen) ==
    Len(Content[text].bytes) + PrevSize(prevlen)
        + GetCurrentEncodeLen(Content[text].encoding, Len(text))

Written(text, prevlen) ==
    LET c == Content[text]
        gap == [j \in 1..GetCurrentEncodeLen(c.encoding, Len(text)) |-> JUNK]
    IN  zipPrevEncodeLength(prevlen) \o gap
            \o Over(zipSetCurrentEncode(c.encoding, Len(text)), c.bytes)

\* The next entry, if there is one and its length of the previous entry fills
\* size bytes: by how much that field is made larger or smaller, going by the
\* content of the new entry, and what is written into it, the length of the
\* whole of it.
NextDiff(text, size) ==
    IF size = 0 THEN 0 ELSE PrevSize(Len(Content[text].bytes)) - size
NextEntry(text, prevlen, size) ==
    IF size = 0 THEN NULL
    ELSE [room |-> size + NextDiff(text, size),
          bytes |-> zipPrevEncodeLength(Reserved(text, prevlen))]

Entry(text, prevlen, size) ==
    [text |-> text, prevlen |-> prevlen, encoding |-> Content[text].encoding,
     reserved |-> Reserved(text, prevlen), bytes |-> Written(text, prevlen),
     next |-> NextEntry(text, prevlen, size)]

\* What is left of a call once the list has its size: the cascade, if the
\* field of the next entry changes its size, and the write.
Continue(nextdiff, e) ==
    /\ IF nextdiff = 0
       THEN pc' = "return" /\ entry' = e /\ UNCHANGED <<curlen, todo>>
       ELSE pc' = "cascade" /\ curlen' = zl'.bytes /\ todo' = e /\ UNCHANGED entry

\* ziplistPush and ziplistInsert, at the end (size 0) or before an entry.
ziplistInsert ==
    /\ pc = "idle"
    /\ \E text \in Text, prevlen \in Length :
          \E size \in {0} \cup PrevForms(prevlen) :
             /\ Resize(zl.bytes + Reserved(text, prevlen) + NextDiff(text, size))
             /\ Continue(NextDiff(text, size), Entry(text, prevlen, size))

\* ziplistDelete: an entry of totlen bytes, the last one or one before another.
ziplistDelete ==
    /\ pc = "idle"
    /\ \E totlen \in Length \ {0}, prevlen \in Length :
          \E nextdiff \in {0} \cup {PrevSize(prevlen) - size : size \in {1, 5}} :
             /\ Resize(zl.bytes - totlen + nextdiff)
             /\ Continue(nextdiff, NULL)

\* ziplistCascadeUpdate: one more field grows from one byte to five.
CascadeGrows ==
    /\ pc = "cascade"
    /\ Resize(curlen + 4)
    /\ curlen' = curlen + 4
    /\ UNCHANGED <<pc, todo, entry>>

\* The end of the list, or a field that need not grow; the insertion writes.
CascadeEnds ==
    /\ pc = "cascade"
    /\ pc' = "return"
    /\ entry' = todo
    /\ todo' = NULL
    /\ curlen' = 0
    /\ UNCHANGED <<zl, resizes>>

Return ==
    /\ pc = "return"
    /\ pc' = "idle"
    /\ entry' = NULL
    /\ UNCHANGED <<zl, curlen, todo, resizes>>

Next ==
    \/ CreateZiplist \/ ziplistInsert \/ ziplistDelete
    \/ CascadeGrows \/ CascadeEnds \/ Return

Spec == Init /\ [][Next]_zvars

-----------------------------------------------------------------------------
(* Properties *)

\* The header tells the truth about the block until the first realloc; from
\* then on it promises exactly the spare fifth that ziplistResize computes
\* and does not allocate (ziplist.cpp:359-382), unless the block moved and the
\* number of bytes went to the old one.
RoomKnown ==
    (zl # NULL /\ ~zl.moved) =>
        zl.bytes + zl.remain = IF zl.reallocated THEN Grown(zl.cap) ELSE zl.cap

\* What is read of the bytes an insertion has written, from where they are: the
\* length of the previous entry, in as many bytes as were reserved for it, and
\* behind the room of the encoding the text, if it is kept as one; and the next
\* entry reads the length of the new one, unless that is the empty text, whose
\* encoding is written over it (ziplist.cpp:541-544, 559, 587-594).  Nothing is
\* said of the encoding: the content covers it, and zipGetEntry looks for it at
\* the length of the previous entry (ziplist.cpp:125).
EntryReadBack ==
    entry # NULL =>
        LET at == PrevSize(entry.prevlen)
                    + GetCurrentEncodeLen(entry.encoding, Len(entry.text))
        IN  /\ GetPrevEntryLen(entry.bytes) = entry.prevlen
            /\ GetPrevEntryLenSize(entry.bytes) = PrevSize(entry.prevlen)
            /\ Zip_Is_Str(entry.encoding) =>
                  SubSeq(entry.bytes, at + 1, entry.reserved) = entry.text
            /\ (entry.next # NULL /\ entry.text # <<>>) =>
                  GetPrevEntryLen(entry.next.bytes) = entry.reserved

\* An insertion writes the bytes it has reserved and no others, with two
\* exceptions: the encoding of the empty text lands on the byte behind the
\* entry, the next one's first or the end marker (ziplist.cpp:541-594); and if
\* only the bytes in front of the content take an entry past 253, the length
\* that is written into the next entry has four bytes more than the room made
\* for it, which was computed without them (ziplist.cpp:539, 559).
WritesStayInEntry ==
    entry # NULL =>
        /\ Len(entry.bytes) = entry.reserved + (IF entry.text = <<>> THEN 1 ELSE 0)
        /\ entry.next # NULL =>
              Len(entry.next.bytes) = entry.next.room
                + (IF Len(Content[entry.text].bytes) < ZIP_BIGLEN
                       /\ entry.reserved >= ZIP_BIGLEN THEN 4 ELSE 0)

\* The decimal numeral of n.
Numeral(n) ==
    LET size == IF n < 0 THEN -n ELSE n
        digits[m \in 0..size] ==
            IF m < 10 THEN <<Zero + m>> ELSE Append(digits[m \div 10], Zero + (m % 10))
    IN  IF n < 0 THEN <<Minus>> \o digits[size] ELSE digits[size]

\* The number that a numeral stands for.
Number(s) ==
    LET digits == Digits(s)
        v[n \in 0..Len(digits)] == IF n = 0 THEN 0 ELSE 10 * v[n - 1] + (digits[n] - Zero)
    IN  IF Head(s) = Minus THEN -v[Len(digits)] ELSE v[Len(digits)]

\* A text is stored as a number only if it is the numeral of the number that is
\* read back, so that it can be told from every other text; that holds for
\* every number of 64 bits, and the width is the smallest that will do.  A
\* larger number wraps around (ziplist.cpp:167-191, 312-337).
NumbersReadBack ==
    (entry # NULL /\ ~Zip_Is_Str(entry.encoding)) =>
        LET k == zipIntSize(entry.encoding)
            v == zipLoadInteger(SubSeq(entry.bytes, Len(entry.bytes) - k + 1,
                                       Len(entry.bytes)), entry.encoding)
        IN  /\ \A j \in 1..4 : IntWidth[j] < k => ~Fits(v, IntWidth[j])
            /\ Fits(Number(entry.text), IntWidth[4]) => Numeral(v) = entry.text
=============================================================================
