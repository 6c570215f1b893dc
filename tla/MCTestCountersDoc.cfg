SPECIFICATION TestsSpec
CONSTANTS
    HasAvx512f = TRUE
    Others = {"other"}
    Hashed <- MCHashed
INVARIANT
    AssertionsHold
CHECK_DEADLOCK FALSE
