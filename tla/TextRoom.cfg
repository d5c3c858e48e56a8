SPECIFICATION TextSpec
CONSTANTS
    Letter = {"s", "g"}
    Blank = " "
    Quote = "q"
    NUL = NUL
    NULL = NULL
    STALE = STALE
    JUNK = JUNK
    Arity <- MCArity
    MaxLine = 3
    MaxPrealloc = 2
    MinFree <- MCMinFree
    Freed = {0}
    Missed = 0
    MaxText = 6
INVARIANT AppendsStayInside
