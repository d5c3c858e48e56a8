------------------------------ MODULE MCZiplist -------------------------------
(* An instance of Ziplist for TLC: bytes of 32 values, integers of 1 to 4    *)
(* bytes, so that every boundary of the code lies within reach.              *)
EXTENDS Ziplist

MCIntWidth == <<1, 2, 3, 4>>

\* Both ends of the ranges of 1, 2, 3 and 4 bytes, and beyond.
Boundary == {0, 15, 16, 511, 512, 16383, 16384, 524287, 524288, 1048577}
Numerals == {Numeral(n) : n \in Boundary} \cup {Numeral(-n) : n \in Boundary}
                \cup {Numeral(-n - 1) : n \in Boundary}
NotNumerals == {<<>>, <<Minus>>, <<Zero, Zero>>, <<Minus, Zero>>, <<Zero + 1, Minus>>,
                <<Minus, Minus, Zero + 1>>}
\* Text of each number of bytes of the encoding, and around each change.
Plain == {[j \in 1..n |-> 0] : n \in {1, 6, 7, 8, 29, 30, 31, 255, 256}}

MCText == Numerals \cup NotNumerals \cup Plain

\* The codec of the encoding, by itself.
ASSUME CodecChecked ==
    \A text \in MCText : EncodingReadsBack(Content[text].encoding, Len(text))
=============================================================================
