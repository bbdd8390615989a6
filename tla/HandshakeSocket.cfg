SPECIFICATION Spec
CONSTANTS
    Conns = {a}
    MaxSaid = 2
    HastyClients = FALSE
    ArrivesWhileStopping = FALSE
PROPERTIES
    UnneededSocketForgotten
CHECK_DEADLOCK FALSE
