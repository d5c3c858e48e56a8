SPECIFICATION FairSpec
CONSTANTS
    MaxLines = 4
    Parts = 2
    MANGLED = MANGLED
INVARIANTS
    Lockstep
    SomethingInFlight
    InOrder
PROPERTIES
    NoReplyLost
    PromptReturns
    HandleReleased
\* A conversation ends.
CHECK_DEADLOCK FALSE
