------------------------------ MODULE Characters ------------------------------
(* The characters of lines and strings, by what the code tells apart. *)
CONSTANTS
    Letter,         \* characters that are neither blank nor quote
    Blank, Quote,
    NUL,            \* the end of a C string
    JUNK,           \* the content of memory nobody has written
    NULL            \* no string

Char == Letter \cup {Blank, Quote}

ASSUME CharacterAssumption ==
    /\ Blank # Quote /\ Blank \notin Letter /\ Quote \notin Letter
    /\ NUL \notin Char /\ JUNK \notin Char \cup {NUL}
=============================================================================
