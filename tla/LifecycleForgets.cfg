SPECIFICATION Spec
CONSTANTS
    HardFailures = {"boot", "retry"}
    RequestsOverlap = FALSE
    MaxRequests = 5
    MaxRetries = 2
INVARIANT StartTriedAgain
CHECK_DEADLOCK FALSE
