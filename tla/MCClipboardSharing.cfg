SPECIFICATION Spec
CONSTANTS
    c1 = c1
    c2 = c2
    server = server
    Clients = {c1, c2}
    Primary = server
    Ids = {1, 2}
    Oversize = {}
    Background = {}
    Hasty = {}
    MaxCopies = 3
    MaxSwitches = 4
    MaxDepartures = 0
INVARIANTS
    LastCopyWins
    OwnersAgree
    ContentsFromOwner
SYMMETRY Symmetry
CHECK_DEADLOCK FALSE
