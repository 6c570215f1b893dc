SPECIFICATION IntegritySpec
CONSTANTS
    Rate = 2
    Word = 1
    BufferLen = 3
    IoBufSize = 3
    MaxFinals = 2
    Streams <- MCStreams
    ImageSizes = {0, 2, 3, 4, 5, 6, 7}
    GenChunk = 4
    Generated <- MCGenerated
INVARIANTS
    TypeOK
    HashedWhatWasRead
PROPERTIES
    DigestOfWholeStream
    OkOnlyAtEnd
    LoopEnds
    StressTestPasses
CHECK_DEADLOCK FALSE
