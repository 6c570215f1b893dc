SPECIFICATION TestsSpec
CONSTANTS
    HasAvx512f = TRUE
    Others = {"other"}
    Hashed <- MCHashed
INVARIANTS
    CountsOwnCalls
    FailsOnlyIfErased
    AssertionsHoldSerially
CHECK_DEADLOCK FALSE
