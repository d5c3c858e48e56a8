SPECIFICATION Spec
CONSTANTS
    KeyCount = 5
    Key <- MCKey
    Value = {v1, v2}
    NULL = NULL
    Hash <- SpreadHash
    InitialSize = 2
    ResizeRatio = 1
    RehashSteps = 5
    TableSizes <- MCTableSizes
INVARIANT NoDangling
\* Undefined behaviour and dictRelease end a behaviour.
CHECK_DEADLOCK FALSE
