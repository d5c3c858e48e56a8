SPECIFICATION TextSpec
CONSTANTS
    Letter = {"s", "g"}
    Blank = " "
    Quote = "q"
    NUL = NUL
    NULL = NULL
    STALE = STALE
    JUNK = JUNK
    Arity <- MCArity
    MaxLine = 7
    MaxPrealloc = 3
    MinFree <- MCMinFree
    Freed = {0, 9}
    Missed = 3
    MaxText = 6
INVARIANTS
    ParsesTheGrammar
    JoinedAgain
    NoStaleArgument
    RoomAccounted
    HoldsText
PROPERTY AccountKept
