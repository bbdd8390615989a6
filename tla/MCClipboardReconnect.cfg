SPECIFICATION Spec
CONSTANTS
    c1 = c1
    c2 = c2
    server = server
    Clients = {c1, c2}
    Primary = server
    Ids = {1}
    Oversize = {2}
    Background = {}
    Hasty = {"reported"}
    MaxCopies = 3
    MaxSwitches = 3
    MaxDepartures = 1
INVARIANTS
    ExpectedSender
    CleanIsCurrent
SYMMETRY Symmetry
CHECK_DEADLOCK FALSE
