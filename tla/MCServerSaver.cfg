SPECIFICATION Spec
CONSTANTS
    p1 = p1
    p2 = p2
    none = none
    noDir = noDir
    Proxies <- MCProxies
    Primary = primary
    NoProxy = none
    Dirs <- MCDirs
    NoDir = noDir
    Names <- MCNames
    ClientNames <- MCNames
    NoName = ""
    ServerName = "srv"
    Configs <- MembershipConfigs
    StartConfig <- Plain
    ActivityDuringSaver = FALSE
    LeaveMayFail = FALSE
    MaxTimers = 1
INVARIANT
    SaverReachesAll
CHECK_DEADLOCK FALSE
