SPECIFICATION Spec
CONSTANTS
    Base = 32
    IntWidth <- MCIntWidth
    Zero = 12
    Minus = 11
    MaxNumeral = 32
    Text <- MCText
    Length = {0, 9, 29, 30, 31, 300}
    InitSize = 60
    HeaderSize = 14
    JUNK = JUNK
    NULL = NULL
    MaxBytes = 400
    MaxResizes = 3
INVARIANTS
    RoomKnown
    EntryReadBack
    WritesStayInEntry
    NumbersReadBack
\* The number of resizes is bounded.
CHECK_DEADLOCK FALSE
