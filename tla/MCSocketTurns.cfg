SPECIFICATION Spec
CONSTANTS
    loop = loop
    other = other
    listening = listening
    accepted = accepted
    outbound = outbound
    Callers = {loop, other}
    Listener = listening
    Incoming = {}
    Outgoing = {outbound}
    ListenerOwner = loop
    OutgoingOwner <- OwnedByOther
    HasPolled = TRUE
    AcceptFails = TRUE
    MaxActs = 2
PROPERTIES
    CallerGetsList
    FlushEnds
CHECK_DEADLOCK FALSE
