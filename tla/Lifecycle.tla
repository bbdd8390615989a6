----------------------------- MODULE Lifecycle -----------------------------
(***************************************************************************)
(* The life of the server program (class ServerApp): it opens the screen,  *)
(* then listens and serves, tries again later what fails for the moment,   *)
(* stops while the system sleeps, starts anew when it is told to, and ends.*)
(*                                                                         *)
(* Everything runs on the main thread, one event at a time from a queue.   *)
(* To stop, a handler runs an event loop of its own until the clients are  *)
(* gone or three seconds have passed: the events that come meanwhile are   *)
(* handled inside it, and so is the quit event that ends a loop.           *)
(*                                                                         *)
(* The clients of a server are one bit: there are some, or there are none. *)
(***************************************************************************)
EXTENDS Naturals, Sequences, SequencesExt

CONSTANTS
    HardFailures,       \* where opening the screen or the listener may fail for good
    RequestsOverlap,    \* requests come while another is queued or under way
    MaxRequests,        \* bound on what comes from outside
    MaxRetries          \* bound on attempts that fail for the moment

ASSUME LifecycleAssumption ==
    /\ HardFailures \subseteq {"boot", "retry", "resume", "reset"} /\ RequestsOverlap \in BOOLEAN
    /\ MaxRequests \in Nat /\ MaxRetries \in Nat

None == 0                           \* a NULL Server* or ClientListener*
Servers == 1..(MaxRequests + 1)     \* Server objects, in the order they are made

\* EServerState
States == {"uninitialized", "initializing", "initializingToStart", "initialized",
           "starting", "started"}

\* The events of the program; server is the target of disconnected, join and hangup.
Requests == {"suspend", "resume", "reset", "quit", "error"}
Kinds == Requests \cup {"reconnect", "join", "hangup", "disconnected"}
Events == [kind : Kinds, server : Servers \cup {None}]
Event(kind) == [kind |-> kind, server |-> None]

\* A handler in closeServer: the server it closes, whether its timer is still to
\* fire, and what called it.
Frames == [server : Servers, timer : BOOLEAN, then : {"suspend", "reset", "exit"}]

\* What handlers work on.  forgotten is history, for the properties: a start was put
\* off, and what is to be tried again is no longer that start.  made and retries are
\* bookkeeping for the bounds.
Apps == [state    : States,                 \* m_serverState
         timer    : BOOLEAN,                \* m_timer is not NULL
         server   : Servers \cup {None},    \* m_server
         listener : Servers \cup {None},    \* m_listener, numbered as its server
         suspended : BOOLEAN,               \* m_suspended
         queue    : Seq(Events),            \* the events that wait
         alive    : SUBSET Servers,         \* the servers that are not deleted,
         clients  : SUBSET Servers,         \* and those that have clients
         forgotten : BOOLEAN,
         made     : 0..(MaxRequests + 1),
         retries  : 0..MaxRetries]

VARIABLES
    app,        \* see Apps
    frames,     \* the loops inside the main loop, the innermost last
    main,       \* where the program is
    asked,      \* history: it was asked to end, or failed for good
    requests    \* bookkeeping: what came from outside

vars == <<app, frames, main, asked, requests>>

TypeOK ==
    /\ app \in Apps /\ frames \in Seq(Frames)
    /\ main \in {"boot", "looping", "exiting", "exited", "undefined"}
    /\ asked \in BOOLEAN /\ requests \in 0..MaxRequests

Init ==
    /\ app = [state |-> "uninitialized", timer |-> FALSE, server |-> None, listener |-> None,
              suspended |-> FALSE, queue |-> <<>>, alive |-> {}, clients |-> {},
              forgotten |-> FALSE, made |-> 0, retries |-> 0]
    /\ frames = <<>> /\ main = "boot" /\ asked = FALSE /\ requests = 0

-----------------------------------------------------------------------------
(* Opening the screen and the listener *)

Posted(a, e) == [a EXCEPT !.queue = Append(@, e)]

\* An attempt is what it makes of the program, and what it returns.
Attempt(a, ok) == [app |-> a, ok |-> ok]

\* "install a timer and handler to retry later"
PutOff(a, state) ==
    IF a.retries = MaxRetries THEN {}
    ELSE {Attempt([a EXCEPT !.timer = TRUE, !.state = state, !.retries = @ + 1], TRUE)}

\* initServer: a new screen has a new event buffer, and so wipes the queue.
InitServer(a) ==
    IF a.state # "uninitialized" THEN {Attempt(a, TRUE)}
    ELSE {Attempt([a EXCEPT !.state = "initialized", !.queue = <<>>], TRUE)}
         \cup PutOff(a, "initializing") \cup {Attempt(a, FALSE)}

\* The rest of startServer, with the screen there.
Listen(a) ==
    {Attempt([a EXCEPT !.state = "started", !.server = a.made + 1, !.listener = a.made + 1,
                       !.made = @ + 1, !.alive = @ \cup {a.made + 1}], TRUE)}
    \cup PutOff(a, "starting") \cup {Attempt(a, FALSE)}

\* Mutant: a start that waits for the screen is forgotten when the screen is there.
StartForgotten(i) ==
    IF ~i.ok \/ i.app.state = "initializing" THEN {i} ELSE Listen(i.app)

StartAfter(i) ==
    CASE ~i.ok -> {i}
      [] i.ok /\ i.app.state = "initializing" ->
            {[i EXCEPT !.app.state = "initializingToStart"]}
      [] OTHER -> Listen(i.app)

\* startServer: "skip if already started or starting", "initialize if necessary"
StartServer(a) ==
    IF a.state \in {"starting", "started"} THEN {Attempt(a, TRUE)}
    ELSE UNION {StartAfter(i) : i \in InitServer([a EXCEPT !.forgotten = FALSE])}

\* The attempts at a place that are considered: there they may fail for good, or not.
At(place, attempts) == {t \in attempts : t.ok \/ place \in HardFailures}

-----------------------------------------------------------------------------
(* Stopping *)

StopRetryTimer(a) == [a EXCEPT !.timer = FALSE]

\* Server::disconnect: the clients are told to go, or it is said that there are none.
Disconnect(a, s) ==
    IF s \in a.clients THEN a ELSE Posted(a, [kind |-> "disconnected", server |-> s])

\* Mutant: the retry timer goes on when the server is stopped.
StoppedUntimed(a) == IF a.state = "starting" THEN [a EXCEPT !.state = "initialized"] ELSE a

\* stopServer, when there is no server to close
Stopped(a) ==
    IF a.state = "starting" THEN [StopRetryTimer(a) EXCEPT !.state = "initialized"] ELSE a

\* Mutant: the listener stays.
ClosedServer(a, s) ==
    [a EXCEPT !.alive = @ \ {s}, !.clients = @ \ {s}, !.server = None, !.state = "initialized"]

\* stopServer after the loop in closeServer: "done with server", and with the
\* listener that is there now
Closed(a, s) ==
    [a EXCEPT !.alive = @ \ {s}, !.clients = @ \ {s}, !.server = None, !.listener = None,
              !.state = "initialized"]

\* cleanupServer, with the server stopped: deleting the screen wipes the queue.
CleanedUp(a) ==
    [StopRetryTimer(a) EXCEPT !.state = "uninitialized",
                              !.queue = IF a.state = "initialized" THEN <<>> ELSE @]

\* What the handler that stopped the server does next.  resetServer ignores what
\* startServer returns.
Continued(a, then) ==
    CASE then = "suspend" -> {[a EXCEPT !.suspended = TRUE]}
      [] then = "reset" -> {t.app : t \in At("reset", StartServer(CleanedUp(a)))}
      [] then = "exit" -> {CleanedUp(a)}

\* Mutant: nothing limits the wait for the clients.
WaitForClients(s, then) == [server |-> s, timer |-> FALSE, then |-> then]

\* "wait for clients to disconnect for up to timeout seconds"
WaitForClientsUpTo(s, then) == [server |-> s, timer |-> TRUE, then |-> then]

\* A handler stops the server and goes on as "then" says: at once, or once a loop of
\* its own has ended.
Stop(a, then) ==
    IF a.state = "started"
    THEN /\ app' = Disconnect(a, a.server)
         /\ frames' = Append(frames, WaitForClientsUpTo(a.server, then))
    ELSE app' \in Continued(Stopped(a), then) /\ UNCHANGED frames

\* A loop inside the main loop has ended.  If the server was deleted inside it, it is
\* deleted again, and anything may follow.
EndInnerLoop(a) ==
    LET f == Last(frames)
    IN  /\ frames' = Front(frames)
        /\ IF f.server \in a.alive
           THEN /\ app' \in Continued(Closed(a, f.server), f.then)
                /\ main' = IF f.then = "exit" THEN "exited" ELSE main
           ELSE main' = "undefined" /\ app' = a
        /\ UNCHANGED <<asked, requests>>

\* The main loop has ended: mainLoop closes down.
EndMainLoop(a) ==
    /\ Stop(a, "exit")
    /\ main' = IF a.state = "started" THEN "exiting" ELSE "exited"
    /\ UNCHANGED <<asked, requests>>

-----------------------------------------------------------------------------
(* The events *)

\* Handlers that end at once.
Handle(a) == app' \in a /\ UNCHANGED <<frames, main, asked, requests>>

Looping == main \in {"looping", "exiting"}

\* The event that is taken out next, and the program without it.
Comes(kind) == Looping /\ app.queue # <<>> /\ Head(app.queue).kind = kind
Rest == [app EXCEPT !.queue = Tail(@)]
Target == Head(app.queue).server

\* The handlers of the screen are there while it is.
HasScreen(a) == a.state \in {"initialized", "starting", "started"}

\* handleSuspend.  m_suspended is set when the server has stopped.
HandleSuspend ==
    /\ Comes("suspend")
    /\ IF HasScreen(app) /\ ~app.suspended THEN Stop(Rest, "suspend")
                                           ELSE app' = Rest /\ UNCHANGED frames
    /\ UNCHANGED <<main, asked, requests>>

\* What startServer returns is ignored.
Woken(a) == {[t.app EXCEPT !.suspended = FALSE] : t \in At("resume", StartServer(a))}

\* handleResume
HandleResume ==
    /\ Comes("resume")
    /\ Handle(IF HasScreen(app) /\ app.suspended THEN Woken(Rest) ELSE {Rest})

\* resetServer
HandleReset ==
    /\ Comes("reset")
    /\ Stop(Rest, "reset")
    /\ UNCHANGED <<main, asked, requests>>

\* forceReconnect, whose handler is removed after the main loop
HandleReconnect ==
    /\ Comes("reconnect")
    /\ Handle({IF app.server = None \/ main = "exiting" THEN Rest
               ELSE Disconnect(Rest, app.server)})

\* handleScreenError
HandleError ==
    /\ Comes("error")
    /\ Handle({IF HasScreen(app) THEN Posted(Rest, Event("quit")) ELSE Rest})

\* handleClientConnected, of the listener if it is still there
HandleJoin ==
    /\ Comes("join")
    /\ Handle({IF app.listener = Target THEN [Rest EXCEPT !.clients = @ \cup {app.server}]
                                        ELSE Rest})

\* The last client of a server is gone (Server::removeActiveClient, removeOldClient).
HandleHangup ==
    /\ Comes("hangup")
    /\ Handle({IF Target \in app.alive \cap app.clients
               THEN Posted([Rest EXCEPT !.clients = @ \ {Target}],
                           [kind |-> "disconnected", server |-> Target])
               ELSE Rest})

\* handleClientsDisconnected while the server is being closed; before that
\* handleNoClients, which only tells the user.
HandleDisconnected ==
    /\ Comes("disconnected")
    /\ Handle({IF \E i \in DOMAIN frames : frames[i].server = Target
               THEN Posted(Rest, Event("quit")) ELSE Rest})

\* A quit event ends the innermost loop.
HandleQuit ==
    /\ Comes("quit")
    /\ IF frames # <<>> THEN EndInnerLoop(Rest) ELSE EndMainLoop(Rest)

\* The wait for the clients is over; timers fire when no event waits.
ClosingTimerFires ==
    /\ Looping /\ app.queue = <<>>
    /\ \E i \in DOMAIN frames :
         frames[i].timer /\ frames' = [frames EXCEPT ![i].timer = FALSE]
    /\ app' = Posted(app, Event("quit"))
    /\ UNCHANGED <<main, asked, requests>>

\* What retryHandler does once it has tried to open the screen for a start: when that is
\* put off again, the state stays what initServer made it, and the start is forgotten.
RetriedStart(i) ==
    CASE ~i.ok -> {i}
      [] i.ok /\ i.app.state = "initializing" -> {[i EXCEPT !.app.forgotten = TRUE]}
      [] OTHER -> StartServer(i.app)

\* retryHandler, by the state it finds
Retried(a) ==
    CASE a.state = "initializing" -> InitServer([a EXCEPT !.state = "uninitialized"])
      [] a.state = "initializingToStart" ->
            UNION {RetriedStart(i) : i \in InitServer([a EXCEPT !.state = "uninitialized"])}
      [] a.state = "starting" -> StartServer([a EXCEPT !.state = "initialized"])

RetryTimerFires ==
    /\ Looping /\ app.queue = <<>> /\ app.timer
    /\ \E t \in At("retry", Retried(StopRetryTimer(app))) :
         /\ app' = IF t.ok THEN t.app ELSE Posted(t.app, Event("quit"))
         /\ asked' = (asked \/ ~t.ok)
    /\ UNCHANGED <<frames, main, requests>>

\* mainLoop up to its loop: "if this return false then we've failed and we shouldn't
\* retry".
Boot ==
    /\ main = "boot"
    /\ \E t \in At("boot", StartServer(app)) :
         app' = t.app /\ main' = (IF t.ok THEN "looping" ELSE "exited")
    /\ UNCHANGED <<frames, asked, requests>>

-----------------------------------------------------------------------------
(* What comes from outside *)

\* No request waits, and none is under way: the precondition without overlap.
Calm == frames = <<>> /\ \A i \in DOMAIN app.queue : app.queue[i].kind \notin Requests

Arrives(e) ==
    /\ Looping /\ requests < MaxRequests /\ requests' = requests + 1
    /\ app' = Posted(app, e)
    /\ UNCHANGED <<frames, main>>

\* The system goes to sleep or wakes up, the screen fails, or the user asks.
Request(kind) ==
    /\ RequestsOverlap \/ Calm
    /\ kind \in {"suspend", "resume", "error"} => HasScreen(app)
    /\ Arrives(Event(kind))
    /\ asked' = (asked \/ kind \in {"quit", "error"})

ForceReconnect == Arrives(Event("reconnect")) /\ UNCHANGED asked

\* A client has shaken hands with the listener, or the last client hangs up.
ClientComes ==
    /\ app.listener # None
    /\ Arrives([kind |-> "join", server |-> app.listener])
    /\ UNCHANGED asked

ClientsGo ==
    /\ \E s \in app.clients \cap app.alive : Arrives([kind |-> "hangup", server |-> s])
    /\ UNCHANGED asked

-----------------------------------------------------------------------------

Handlers ==
    \/ HandleSuspend \/ HandleResume \/ HandleReset \/ HandleReconnect \/ HandleError
    \/ HandleJoin \/ HandleHangup \/ HandleDisconnected \/ HandleQuit

Next ==
    \/ Boot \/ Handlers \/ ClosingTimerFires \/ RetryTimerFires
    \/ \E kind \in Requests : Request(kind)
    \/ ForceReconnect \/ ClientComes \/ ClientsGo

\* The main thread takes events while there are any, and timers fire in the end.
Fairness == WF_vars(Handlers) /\ WF_vars(ClosingTimerFires) /\ WF_vars(RetryTimerFires)

Spec == Init /\ [][Next]_vars /\ Fairness

-----------------------------------------------------------------------------
(* Properties *)

\* The retry timer is set in the states that wait for it and in no other, whatever
\* stopped or started the server meanwhile (the assertions of ServerApp::retryHandler
\* and initServer on m_timer).
TimerAwaitsRetry ==
    app.timer <=> app.state \in {"initializing", "initializingToStart", "starting"}

\* There is one server with its listener while the program is started, also while it
\* is being closed, and none otherwise: nothing is deleted twice, and nothing is left
\* behind (the assertions of stopServer and cleanupServer).
OneServer ==
    /\ main # "undefined"
    /\ app.alive = (IF app.state = "started" THEN {app.server} ELSE {})
    /\ app.listener = app.server
    /\ app.server = None <=> app.state # "started"

\* Closing ends, whether or not the clients go (ServerApp::closeServer).
ClosingEnds == frames # <<>> ~> frames = <<>>

\* Unless it sleeps, the program serves, or has a timer to try again, or is about to
\* end, whatever failed for the moment and whatever requests came meanwhile; left aside
\* is a start that was put off twice for the screen, until the server is started anew
\* (ServerApp::startServer, retryHandler).
KeepsServing ==
    main = "looping" /\ frames = <<>> /\ ~app.suspended /\ ~app.forgotten =>
        app.state = "started" \/ app.timer \/ app.queue # <<>>

\* ServerApp.cpp:405, "try initializing/starting the server again": however often the
\* screen is not there, the program that was to serve tries again until it does.
StartTriedAgain ==
    main = "looping" /\ frames = <<>> /\ ~app.suspended =>
        app.state = "started" \/ app.timer \/ app.queue # <<>>

\* ServerApp.cpp:289, "wait for clients to disconnect for up to timeout seconds": the
\* quit event that ends the wait ends no other loop, so the program ends only when it
\* was asked to, or failed.
EndsWhenAsked == main \in {"exiting", "exited"} /\ app.made > 0 => asked
=============================================================================
