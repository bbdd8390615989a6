SPECIFICATION Spec
CONSTANTS
    worker = worker
    press = press
    quit = quit
    stop = stop
    repeating = repeating
    once = once
    Threads = {worker}
    Events = {press, quit, stop}
    Quits = {quit, stop}
    Timers = {repeating, once}
    Duration <- TimerDurations
    OneShot = {once}
    StartRaces = FALSE
    MaxTicks = 3
    MaxDepth = 2
    MaxBuffers = 1
INVARIANT AddedAtEnd
CHECK_DEADLOCK FALSE
