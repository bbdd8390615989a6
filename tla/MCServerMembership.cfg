SPECIFICATION FairSpec
CONSTANTS
    p1 = p1
    p2 = p2
    none = none
    noDir = noDir
    Proxies <- MCProxies
    Primary = primary
    NoProxy = none
    Dirs <- MCDirs
    NoDir = noDir
    Names <- MCNames
    ClientNames <- MCNames
    NoName = ""
    ServerName = "srv"
    Configs <- MembershipConfigs
    StartConfig <- Plain
    ActivityDuringSaver = FALSE
    LeaveMayFail = FALSE
    MaxTimers = 2
INVARIANTS
    MembershipAgrees
    ProxiesAccounted
    ActiveIsConnected
    EnteredIsActive
    CursorOnActive
    SidesCurrent
PROPERTIES
    OldClientsGo
CHECK_DEADLOCK FALSE
