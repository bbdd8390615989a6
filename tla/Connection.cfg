SPECIFICATION Spec
CONSTANTS
    Addresses = 2
    Restartable = TRUE
    Streams = {s, t}
    NoStream = none
    MaxRequests = 3
    MaxFailures = 2
INVARIANTS
    TimerWhileWaiting
    KeepsTrying
PROPERTIES
    ComesBack
CHECK_DEADLOCK FALSE
