SPECIFICATION Spec
CONSTANTS
    LaneCount = 2
    BufferLen = 3
    Rate = 2
    MaxEntries = 5
    States <- MCStates
    Strange <- MCStrange
INVARIANTS
    TypeOK
    AcceptsWholeStates
    RestoresWhatWasSaved
    PosBelowRate
