SPECIFICATION Spec
CONSTANTS
    Conns = {a, b}
    MaxSaid = 3
    HastyClients = FALSE
    ArrivesWhileStopping = FALSE
SYMMETRY AnyOrder
INVARIANTS
    OwnedOnce
    NothingDeletedIsCalled
    NothingUnread
    OneAlarm
    DecisionPending
PROPERTIES
    AdmitsInTurn
CHECK_DEADLOCK FALSE
