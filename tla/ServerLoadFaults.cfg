SPECIFICATION Spec
CONSTANTS
    Client = {c1}
    Key = {k1}
    Value = {v1}
    NULL = NULL
    DBCount = 2
    File <- MCFile
    TempName <- MCTempName
    Foreign <- NoForeign
    Garbage = Garbage
    CtrlZ = {}
    WriteErrors = FALSE
PROPERTY LoadNeverFaults
