SPECIFICATION ItFairSpec
CONSTANTS
    KeyCount = 5
    Key <- MCKey
    Value = {v1}
    NULL = NULL
    Hash <- SpreadHash
    InitialSize = 2
    ResizeRatio = 1
    RehashSteps = 1
    TableSizes <- MCTableSizes
INVARIANTS
    TypeOK
    KeysReachable
    NoDuplicateKeys
    UsedExact
    RehashFrontier
    NoOverrun
    LoadBounded
    IterationComplete
    IterationFaultsOnlyWhenCleared
PROPERTIES
    RehashOnlyForward
    ImplementsMap
    CallReturns
    RehashFinishes
    IterationEnds
\* Undefined behaviour and dictRelease end a behaviour.
CHECK_DEADLOCK FALSE
