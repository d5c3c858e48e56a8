----------------------------- MODULE ZiplistCodec -----------------------------
(***************************************************************************)
(* How src/blackdb/ziplist.cpp writes the parts of an entry into bytes and *)
(* reads them back: the length of the previous entry, the encoding with    *)
(* the length of a string, and integers in the smallest of four widths.    *)
(*                                                                         *)
(* The constants of ziplist.h are written in terms of the number of values *)
(* of a byte, so that an instance with small bytes has every boundary of   *)
(* the code.                                                               *)
(*                                                                         *)
(* An operator above another whose name it extends is that operator with a *)
(* bug in it; no formula uses it.                                          *)
(***************************************************************************)
EXTENDS Integers, Sequences, SequencesExt

CONSTANTS
    Base,           \* values of a byte: 256
    IntWidth,       \* bytes of the four kinds of integers: <<1, 2, 4, 8>>
    Zero, Minus,    \* the characters 0 and -
    MaxNumeral      \* longest text tried as a number, plus 1: 32

ASSUME BaseAssumption == Base \in Nat /\ Base >= 32 /\ Base % 16 = 0
ASSUME IntWidthAssumption ==
    /\ IntWidth \in [1..4 -> Nat \ {0}]
    /\ \A k \in 1..3 : IntWidth[k] < IntWidth[k + 1]
ASSUME CharAssumption ==
    Zero \in 0..(Base - 10) /\ Minus \in 0..(Base - 1) /\ Minus \notin Zero..(Zero + 9)
ASSUME MaxNumeralAssumption == MaxNumeral \in Nat

Byte == 0..(Base - 1)

ZIP_END == Base - 1                 \* 255
ZIP_BIGLEN == Base - 2              \* 254

Quarter == Base \div 4              \* the two high bits of an encoding
ZIP_STR_06B == 0
ZIP_STR_14B == Quarter
ZIP_STR_32B == 2 * Quarter
ZIP_STR_MASK == 3 * Quarter

ZIP_INT_8B == Base - 2
ZIP_INT_16B == ZIP_STR_MASK
ZIP_INT_32B == ZIP_STR_MASK + (Base \div 16)
ZIP_INT_64B == ZIP_STR_MASK + 2 * (Base \div 16)

IntEncodings == <<ZIP_INT_8B, ZIP_INT_16B, ZIP_INT_32B, ZIP_INT_64B>>

-----------------------------------------------------------------------------
(* Numbers as bytes *)

\* The number of values of n bytes.
Power[n \in Nat] == IF n = 0 THEN 1 ELSE Base * Power[n - 1]

LittleEndian(v, k) == [j \in 1..k |-> (v \div Power[j - 1]) % Base]
BigEndian(v, k) == Reverse(LittleEndian(v, k))

\* The number these bytes stand for, the lowest first.
Value(bytes) ==
    LET low[n \in 0..Len(bytes)] ==
            IF n = 0 THEN 0 ELSE low[n - 1] + Power[n - 1] * bytes[n]
    IN  low[Len(bytes)]

Signed(v, k) == IF v < Power[k] \div 2 THEN v ELSE v - Power[k]
Fits(v, k) == -(Power[k] \div 2) <= v /\ v < Power[k] \div 2

\* Arithmetic in a long long, which wraps around.
Wrapped(v) == Signed(v % Power[IntWidth[4]], IntWidth[4])

-----------------------------------------------------------------------------
(* The length of the previous entry *)

zipPrevEncodeLengthForceLargeBigEndian(len) == <<ZIP_BIGLEN>> \o BigEndian(len, 4)
zipPrevEncodeLengthForceLarge(len) == <<ZIP_BIGLEN>> \o LittleEndian(len, 4)

zipPrevEncodeLength(len) ==
    IF len < ZIP_BIGLEN THEN <<len>> ELSE zipPrevEncodeLengthForceLarge(len)

GetPrevEntryLenSize(p) == IF p[1] < ZIP_BIGLEN THEN 1 ELSE 5

GetPrevEntryLen(p) ==
    IF GetPrevEntryLenSize(p) = 1 THEN p[1] ELSE Value(SubSeq(p, 2, 5))

-----------------------------------------------------------------------------
(* The encoding, with the length of a string *)

Zip_Is_Str(encoding) == encoding < ZIP_STR_MASK

zipIntSize(encoding) ==
    IF encoding \in Range(IntEncodings)
    THEN IntWidth[CHOOSE k \in 1..4 : IntEncodings[k] = encoding]
    ELSE 0

\* What is reserved for it: 63 is taken to need two bytes ...
GetCurrentEncodeLen(encoding, rawlen) ==
    IF ~Zip_Is_Str(encoding) \/ rawlen < Quarter - 1 THEN 1
    ELSE IF rawlen < Quarter * Base THEN 2 ELSE 5

\* ... and what is written: 63 takes one.
zipSetCurrentEncode(encoding, rawlen) ==
    IF ~Zip_Is_Str(encoding) THEN <<encoding>>
    ELSE IF rawlen <= Quarter - 1 THEN <<ZIP_STR_06B + rawlen>>
    ELSE IF rawlen < Quarter * Base
         THEN <<ZIP_STR_14B + (rawlen \div Base), rawlen % Base>>
    ELSE <<ZIP_STR_32B>> \o BigEndian(rawlen, 4)

\* ZIP_ENTRY_ENCODING and ZIP_DECODE_LENGTH.
ZIP_DECODE_LENGTH(p) ==
    LET encoding == IF Zip_Is_Str(p[1]) THEN p[1] - (p[1] % Quarter) ELSE p[1]
        decoded(lensize, len) == [encoding |-> encoding, lensize |-> lensize, len |-> len]
    IN  CASE encoding = ZIP_STR_06B -> decoded(1, p[1] % Quarter)
          [] encoding = ZIP_STR_14B -> decoded(2, (p[1] % Quarter) * Base + p[2])
          [] encoding = ZIP_STR_32B -> decoded(5, Value(Reverse(SubSeq(p, 2, 5))))
          [] OTHER -> decoded(1, zipIntSize(encoding))

\* Of these three alone: what is decoded is what was encoded, and room and code
\* disagree for one length only, 63.  No entry of a list keeps its code.
EncodingReadsBack(encoding, rawlen) ==
    LET code == zipSetCurrentEncode(encoding, rawlen)
        read == ZIP_DECODE_LENGTH(code)
        isStr == Zip_Is_Str(encoding)
    IN  /\ Zip_Is_Str(read.encoding) = isStr
        /\ read.len = IF isStr THEN rawlen ELSE zipIntSize(encoding)
        /\ read.lensize = Len(code)
        /\ Len(code) = GetCurrentEncodeLen(encoding, rawlen)
              <=> ~(isStr /\ rawlen = Quarter - 1)

-----------------------------------------------------------------------------
(* Texts that are numbers *)

Digit == Zero..(Zero + 9)

IsDigits(s) == s # <<>> /\ \A j \in DOMAIN s : s[j] \in Digit

\* What is left of a text behind its sign.
Digits(s) == IF s # <<>> /\ Head(s) = Minus THEN Tail(s) ELSE s

\* stringtoll: what it accepts, and the number it makes of it.  Its tests for
\* an overflow come after the operation, and are never true.
AcceptedLeadingZero(s) == IsDigits(s) \/ (s # <<>> /\ Head(s) = Minus /\ IsDigits(Tail(s)))
Accepted(s) == s = <<Zero>> \/ (IsDigits(Digits(s)) /\ Head(Digits(s)) # Zero)

stringtoll(s) ==
    LET digits == Digits(s)
        v[n \in 0..Len(digits)] ==
            IF n = 0 THEN 0 ELSE Wrapped(Wrapped(10 * v[n - 1]) + (digits[n] - Zero))
    IN  IF Head(s) = Minus THEN Wrapped(-v[Len(digits)]) ELSE v[Len(digits)]

\* The smallest width that holds v; INT8_MIN..INT8_MAX and so on.
EncodingOf(v) ==
    IntEncodings[CHOOSE k \in 1..4 :
        /\ Fits(v, IntWidth[k])
        /\ \A j \in 1..(k - 1) : ~Fits(v, IntWidth[j])]

\* Whether zipTryIntegerEncoding turns s into a number.
zipTryIntegerEncoding(s) == s # <<>> /\ Len(s) < MaxNumeral /\ Accepted(s)

zipSaveInteger(v, encoding) ==
    LET k == zipIntSize(encoding) IN LittleEndian(v % Power[k], k)

zipLoadInteger(p, encoding) ==
    LET k == zipIntSize(encoding) IN Signed(Value(SubSeq(p, 1, k)), k)
=============================================================================
