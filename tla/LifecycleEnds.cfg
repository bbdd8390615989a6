SPECIFICATION Spec
CONSTANTS
    HardFailures = {"boot", "retry"}
    RequestsOverlap = FALSE
    MaxRequests = 5
    MaxRetries = 2
INVARIANT EndsWhenAsked
CHECK_DEADLOCK FALSE
