SPECIFICATION FairSpec
CONSTANTS
    Client = {c1}
    Key = {k1, k2}
    Value = {v1}
    NULL = NULL
    DBCount = 2
    File <- MCFile
    TempName <- MCTempName
    Foreign <- MCForeign
    Garbage = Garbage
    CtrlZ = {k2}
    WriteErrors = TRUE
INVARIANTS
    TypeOK
    DumpMatchesSnapshot
PROPERTIES
    RestoreExact
    CutDumpNeverSucceeds
    
    SaveAndLoadEnd
