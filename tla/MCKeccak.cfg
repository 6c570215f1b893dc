SPECIFICATION PathsSpec
CONSTANTS
    Width = 4
    HasAvx512 = FALSE
    Inputs <- MCInputs
    Batches <- MCBatches
INVARIANTS
    RowTypeOK
    KnownAnswer
    PathsAgree
PROPERTIES
    ImplementsScalar
    EachImplementsScalar
