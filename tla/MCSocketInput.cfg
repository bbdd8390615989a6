SPECIFICATION Spec
CONSTANTS
    loop = loop
    other = other
    listening = listening
    accepted = accepted
    outbound = outbound
    Callers = {loop, other}
    Listener = listening
    Incoming = {accepted}
    Outgoing = {outbound}
    ListenerOwner = loop
    OutgoingOwner <- OwnedByOther
    HasPolled = FALSE
    AcceptFails = FALSE
    MaxActs = 3
INVARIANT AllInputAnnounced
CHECK_DEADLOCK FALSE
