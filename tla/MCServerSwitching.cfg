SPECIFICATION Spec
CONSTANTS
    p1 = p1
    p2 = p2
    none = none
    noDir = noDir
    Proxies <- MCProxies
    Primary = primary
    NoProxy = none
    Dirs <- MCDirs
    NoDir = noDir
    Names <- MCShortNames
    ClientNames <- MCShortClientNames
    NoName = ""
    ServerName = "srv"
    Configs <- SwitchingConfigs
    StartConfig <- DelayedTapping
    ActivityDuringSaver = FALSE
    LeaveMayFail = FALSE
    MaxTimers = 1
CONSTRAINT OneClosing
SYMMETRY Connections
INVARIANTS
    PendingSwitchHasTarget
PROPERTIES
    LockHoldsCursor
    SwitchClearsAttempt
CHECK_DEADLOCK FALSE
