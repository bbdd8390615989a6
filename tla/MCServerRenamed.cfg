SPECIFICATION Spec
CONSTANTS
    p1 = p1
    p2 = p2
    none = none
    noDir = noDir
    Proxies <- MCProxies
    Primary = primary
    NoProxy = none
    Dirs <- MCDirs
    NoDir = noDir
    Names <- MCNames
    ClientNames <- MCNames
    NoName = ""
    ServerName = "srv"
    Configs <- RenamingConfigs
    StartConfig <- Plain
    ActivityDuringSaver = FALSE
    LeaveMayFail = FALSE
    MaxTimers = 1
INVARIANT
    ListedByCanonicalName
CHECK_DEADLOCK FALSE
