SPECIFICATION Spec
CONSTANTS
    Node = {x1, x2, x3, x4}
    Value = {v1, v2}
    NULL = NULL
SYMMETRY MCSymmetry
INVARIANTS
    ListSound
    AllFreed
PROPERTY ImplementsDeque
