SPECIFICATION Spec
CONSTANTS
    Rate = 2
    Word = 1
    BufferLen = 3
    Wide = 3
    Narrow = 2
    Batches <- MCBatches
    Cpus <- MCCpus
INVARIANTS
    TypeOK
    ResultsInOrder
    CapturedInTime
    BatchIsSupported
PROPERTY
    Promise
