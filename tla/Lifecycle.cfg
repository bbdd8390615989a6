SPECIFICATION Spec
CONSTANTS
    HardFailures = {"boot", "retry"}
    RequestsOverlap = FALSE
    MaxRequests = 5
    MaxRetries = 3
INVARIANTS
    TimerAwaitsRetry
    OneServer
    KeepsServing
PROPERTIES
    ClosingEnds
CHECK_DEADLOCK FALSE
