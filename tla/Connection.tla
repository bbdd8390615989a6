----------------------------- MODULE Connection -----------------------------
(***************************************************************************)
(* How a client program gets its connection to the server and keeps it     *)
(* (classes Client, ServerProxy and ClientApp): it connects, waits two     *)
(* seconds for hello, answers, and is ready when the server has sent its   *)
(* options; when anything fails it tries again a second later, with the    *)
(* next address if there are several.  While the system sleeps there is no *)
(* connection.                                                             *)
(*                                                                         *)
(* Everything runs on the main thread, one event at a time.  Events for a  *)
(* stream that has been deleted stay in the queue, and reach a new stream  *)
(* that was given the same address.                                        *)
(*                                                                         *)
(* Connections are not secured, and the client is not the one that waits.  *)
(***************************************************************************)
EXTENDS Naturals, Sequences

CONSTANTS
    Addresses,      \* how many addresses the server's name stands for
    Restartable,    \* m_restartable
    Streams,        \* where a stream may be in memory; places are used again
    NoStream,       \* NULL
    MaxRequests,    \* bound on how often the system sleeps or wakes up, or the user quits
    MaxFailures     \* bound on how often the server, or the screen, fails for a while

ASSUME ConnectionAssumption ==
    /\ Addresses \in Nat \ {0} /\ Restartable \in BOOLEAN
    /\ NoStream \notin Streams /\ MaxRequests \in Nat /\ MaxFailures \in Nat

\* Hello of a version that fits or not; the options that end the handshake; the
\* refusals (kMsgEBusy and others); kMsgCClose.
Messages == {"hello", "badHello", "options", "refusal", "close"}

\* What the client keeps.
Clients == [
    stream   : Streams \cup {NoStream}, \* m_stream, and its buffer
    wire     : Seq(Messages),   \* what its socket has received
    buffer   : Seq(Messages),
    starting : BOOLEAN,     \* the handlers of setupConnecting are there
    heard    : BOOLEAN,     \* those of setupConnection
    reads    : {"nobody", "client", "proxy"},   \* who handles inputReady
    timer    : BOOLEAN,     \* m_timer
    proxy    : BOOLEAN,     \* m_server
    ready    : BOOLEAN,     \* m_ready
    enabled  : BOOLEAN,     \* the screen is
    suspended : BOOLEAN,    \* m_suspended
    onResume : BOOLEAN]     \* m_connectOnResume

OwnEvents == {"failed", "refused", "disconnected", "suspend", "resume", "quit"}
StreamEvents == {"connected", "connectionFailed", "input", "faked", "shutdown"}

VARIABLES
    client,     \* see Clients
    queue,      \* the events that wait; own events are about no stream
    restarts,   \* the timers of ClientApp that will call startClient
    address,    \* m_lastServerAddressIndex
    screen,     \* m_clientScreen is open
    program,    \* starting, running, or ended
    net,        \* the stream: connecting, open or lost
    told,       \* what the server has said on this stream
    up,         \* the server answers at once
    requests, failures    \* bookkeeping for the bounds

appVars  == <<restarts, address, screen, program>>
netVars  == <<net, told>>
countVars == <<up, requests, failures>>
vars == <<client, queue, appVars, netVars, countVars>>

Event(kind, s) == [kind |-> kind, stream |-> s]
Own(kind) == Event(kind, NoStream)

TypeOK ==
    /\ client \in Clients
    /\ queue \in Seq([kind : OwnEvents \cup StreamEvents, stream : Streams \cup {NoStream}])
    /\ restarts \in Nat /\ address \in 0..(Addresses - 1)
    /\ screen \in BOOLEAN /\ program \in {"starting", "running", "ended"}
    /\ net \in {"none", "connecting", "open", "lost"}
    /\ told \in Seq(Messages)
    /\ up \in BOOLEAN
    /\ requests \in 0..MaxRequests /\ failures \in 0..MaxFailures

NoConnection == [stream |-> NoStream, wire |-> <<>>, buffer |-> <<>>, starting |-> FALSE, heard |-> FALSE,
                 reads |-> "nobody", timer |-> FALSE, proxy |-> FALSE, ready |-> FALSE,
                 enabled |-> FALSE, suspended |-> FALSE, onResume |-> FALSE]

Init ==
    /\ client = NoConnection /\ queue = <<>>
    /\ restarts = 0 /\ address = 0 /\ screen = FALSE /\ program = "starting"
    /\ net = "none" /\ told = <<>> /\ up = TRUE
    /\ requests = 0 /\ failures = 0

-----------------------------------------------------------------------------
(* The client and what it cleans up *)

CleanupTimer(k) == [k EXCEPT !.timer = FALSE]
CleanupConnecting(k) == IF k.stream = NoStream THEN k ELSE [k EXCEPT !.starting = FALSE]

\* The screen is disabled if it was enabled, and the ServerProxy goes.
CleanupScreen(k) ==
    IF ~k.proxy THEN k
    ELSE [k EXCEPT !.proxy = FALSE, !.reads = "nobody", !.ready = FALSE,
                   !.enabled = IF k.ready THEN FALSE ELSE @]

CleanupStream(k) == [k EXCEPT !.stream = NoStream, !.wire = <<>>, !.buffer = <<>>]

CleanupConnection(k) ==
    IF k.stream = NoStream THEN k
    ELSE CleanupStream([k EXCEPT !.heard = FALSE, !.reads = "nobody"])

\* cleanup
Cleanup(k) ==
    CleanupConnection(CleanupConnecting(CleanupScreen(CleanupTimer([k EXCEPT !.onResume = FALSE]))))

\* Mutant: nothing ends the wait.
StartedUntimed(k, s) == [k EXCEPT !.stream = s, !.starting = TRUE]

\* setupConnecting, setupTimer
Started(k, s) == [k EXCEPT !.stream = s, !.starting = TRUE, !.timer = TRUE]

\* handleConnected
Established(k) == [k EXCEPT !.starting = FALSE, !.heard = TRUE, !.reads = "client"]

\* setupScreen and cleanupTimer, after hello
Greeted(k) == CleanupTimer([k EXCEPT !.ready = FALSE, !.proxy = TRUE, !.reads = "proxy"])

\* handshakeComplete
HandshakeComplete(k) == [k EXCEPT !.ready = TRUE, !.enabled = TRUE]

-----------------------------------------------------------------------------
(* Steps *)

\* The client becomes k and its events are posted.  A stream that is deleted while it
\* is connected posts its own disconnected, for nobody.
Becomes(k, rest, kinds) ==
    LET changed == k.stream # client.stream
        stale   == IF changed /\ net = "open" THEN <<Event("shutdown", client.stream)>> ELSE <<>>
    IN  /\ client' = k
        /\ queue' = rest \o stale \o [i \in DOMAIN kinds |-> Own(kinds[i])]
        /\ net' = CASE ~changed -> net
                    [] changed /\ k.stream = NoStream -> "none"
                    [] OTHER -> "connecting"
        /\ told' = IF changed THEN <<>> ELSE told

\* Mutant: a connection that is asked for during the sleep is forgotten.
ConnectAwake(k, rest) ==
    IF k.stream # NoStream \/ k.suspended
    THEN Becomes(k, rest, <<>>)
    ELSE \/ \E s \in Streams : Becomes(Started(k, s), rest, <<>>)
         \/ ~up /\ Becomes(k, rest, <<"failed">>)

\* Client::connect, by a client that is like k.  Making the stream or the connection may
\* fail at once.
Connect(k, rest) ==
    CASE k.stream # NoStream -> Becomes(k, rest, <<>>)
      [] k.stream = NoStream /\ k.suspended -> Becomes([k EXCEPT !.onResume = TRUE], rest, <<>>)
      [] OTHER -> \/ \E s \in Streams : Becomes(Started(k, s), rest, <<>>)
                  \/ ~up /\ Becomes(k, rest, <<"failed">>)

IsNext(kind) == program = "running" /\ queue # <<>> /\ Head(queue).kind = kind
Rest == Tail(queue)
Dropped == Becomes(client, Rest, <<>>)

\* An event for a stream reaches it; an event for an older one reaches nobody, or a new
\* stream in its place.
ForStream(kind) == IsNext(kind) /\ client.stream # NoStream
HandleByNobody ==
    /\ \E kind \in StreamEvents : IsNext(kind)
    /\ Head(queue).stream # client.stream
    /\ Dropped /\ UNCHANGED <<appVars, countVars>>

HandleConnected ==
    /\ ForStream("connected")
    /\ IF client.starting THEN Becomes(Established(client), Rest, <<>>) ELSE Dropped
    /\ UNCHANGED <<appVars, countVars>>

HandleConnectionFailed ==
    /\ ForStream("connectionFailed")
    /\ IF client.starting
       THEN Becomes(CleanupStream(CleanupConnecting(CleanupTimer(client))), Rest, <<"failed">>)
       ELSE Dropped
    /\ UNCHANGED <<appVars, countVars>>

\* Mutant: the timer of the connection runs on.
LostTimed(k) == CleanupConnection(CleanupScreen(k))

\* handleOutputError, handleDisconnected
Lost(k) == CleanupConnection(CleanupScreen(CleanupTimer(k)))

HandleShutdown ==
    /\ ForStream("shutdown")
    /\ IF client.heard THEN Becomes(Lost(client), Rest, <<"disconnected">>) ELSE Dropped
    /\ UNCHANGED <<appVars, countVars>>

\* "make sure we process any remaining messages later"
Faked(k) == IF k.buffer = <<>> THEN <<>> ELSE <<Event("faked", k.stream)>>

\* handleHello, with the message it takes from the buffer
ReadHello(k) ==
    IF k.buffer = <<>> \/ Head(k.buffer) # "hello"
    THEN Becomes(CleanupConnection(CleanupTimer(k)), Append(Rest, Own("failed")), <<>>)
    ELSE LET g == Greeted([k EXCEPT !.buffer = Tail(@)])
         IN  Becomes(g, Rest \o Faked(g), <<>>)

\* handleData of the ServerProxy reads what there is, up to a message that ends the
\* connection.
ReadMessages(k) ==
    LET Ends(i)  == k.buffer[i] \in {"close", "refusal"}
        Seen(i)  == \A j \in 1..(i - 1) : ~Ends(j)
        last     == {i \in DOMAIN k.buffer : Ends(i) /\ Seen(i)}
        complete == \E i \in DOMAIN k.buffer : k.buffer[i] = "options" /\ Seen(i)
        read     == [k EXCEPT !.buffer = <<>>]
    IN  IF last = {}
        THEN Becomes(IF complete THEN HandshakeComplete(read) ELSE read, Rest, <<>>)
        ELSE \E i \in last :
                Becomes(Cleanup(read), Rest,
                        IF k.buffer[i] = "close" THEN <<"disconnected">> ELSE <<"refused">>)

Reading(k) ==
    CASE k.reads = "client" -> ReadHello(k)
      [] k.reads = "proxy"  -> ReadMessages(k)
      [] OTHER              -> Becomes(k, Rest, <<>>)

\* inputReady of the socket: the filter takes what is there, and passes the event on if
\* it had no message before and has one now.
HandleInput ==
    /\ ForStream("input")
    /\ LET k == [client EXCEPT !.buffer = @ \o client.wire, !.wire = <<>>]
       IN  IF client.buffer = <<>> /\ k.buffer # <<>> THEN Reading(k) ELSE Becomes(k, Rest, <<>>)
    /\ UNCHANGED <<appVars, countVars>>

\* The event that handleHello faked goes straight to the reader.
HandleFaked ==
    /\ ForStream("faked") /\ Reading(client)
    /\ UNCHANGED <<appVars, countVars>>

\* handleSuspend: disconnect forgets the note, so it is made afterwards.
Suspended(k) == [Cleanup([k EXCEPT !.suspended = TRUE]) EXCEPT !.onResume = k.proxy]

HandleSuspend ==
    /\ IsNext("suspend")
    /\ IF client.suspended THEN Dropped ELSE Becomes(Suspended(client), Rest, <<"disconnected">>)
    /\ UNCHANGED <<appVars, countVars>>

HandleResume ==
    /\ IsNext("resume")
    /\ LET awake == [client EXCEPT !.suspended = FALSE, !.onResume = FALSE]
       IN  IF client.suspended /\ client.onResume
           THEN Connect(awake, Rest)
           ELSE Becomes([client EXCEPT !.suspended = FALSE], Rest, <<>>)
    /\ UNCHANGED <<appVars, countVars>>

-----------------------------------------------------------------------------
(* The application *)

\* scheduleClientRestart if the program may, or the end of it
RetryOrQuit ==
    IF Restartable
    THEN /\ restarts' = restarts + 1 /\ queue' = Rest
    ELSE /\ queue' = Append(Rest, Own("quit")) /\ UNCHANGED restarts

\* handleClientFailed: the next address, or the first one after a pause.
HandleFailed ==
    /\ IsNext("failed")
    /\ IF address + 1 < Addresses
       THEN /\ address' = address + 1 /\ restarts' = restarts + 1 /\ queue' = Rest
       ELSE /\ address' = 0 /\ RetryOrQuit
    /\ UNCHANGED <<client, screen, program, netVars, countVars>>

\* handleClientRefused, handleClientDisconnected
HandleRefused ==
    /\ IsNext("refused") \/ IsNext("disconnected")
    /\ RetryOrQuit
    /\ UNCHANGED <<client, address, screen, program, netVars, countVars>>

\* The end of mainLoop: stopClient deletes the client and the screen.
HandleQuit ==
    /\ IsNext("quit")
    /\ program' = "ended" /\ screen' = FALSE /\ Becomes(Cleanup(client), Rest, <<>>)
    /\ UNCHANGED <<restarts, address, countVars>>

\* startClient, when the attempt is one of those that are left: the screen is opened
\* first, unless it is there; a screen that is unavailable is tried again.
StartClient(left) ==
    \/ screen' = TRUE /\ Connect(client, queue) /\ restarts' = left /\ UNCHANGED failures
    \/ /\ ~screen /\ failures < MaxFailures /\ Restartable
       /\ failures' = failures + 1 /\ restarts' = left + 1
       /\ UNCHANGED <<client, queue, netVars, screen>>

\* startNode: if it fails for good the program ends.
Start ==
    /\ program = "starting"
    /\ \/ program' = "running" /\ StartClient(restarts)
       \/ program' = "ended" /\ UNCHANGED <<client, queue, restarts, screen, netVars, failures>>
    /\ UNCHANGED <<address, up, requests>>

\* Timers are looked at when no event waits.
Idle == program = "running" /\ queue = <<>>

\* handleClientRestart.  What startClient returns is not looked at: if the screen fails
\* for good the program goes on without a client.
RestartTimerFires ==
    /\ Idle /\ restarts > 0
    /\ \/ StartClient(restarts - 1)
       \/ /\ ~screen /\ restarts' = restarts - 1
          /\ UNCHANGED <<client, queue, screen, netVars, failures>>
    /\ UNCHANGED <<address, program, up, requests>>

\* A server that is up answers in time, but the stream may be lost, or its message may
\* lie in the buffer unannounced: the event of an older stream had it fetched too early.
NothingComes == up => net = "lost" \/ client.buffer # <<>>

\* handleConnectTimeout
ConnectTimesOut ==
    /\ Idle /\ client.timer /\ NothingComes
    /\ Becomes(CleanupConnection(CleanupConnecting(CleanupTimer(client))), <<>>, <<"failed">>)
    /\ UNCHANGED <<appVars, countVars>>

\* handleKeepAliveAlarm: the server is silent.
AlarmFires ==
    /\ Idle /\ client.proxy /\ NothingComes
    /\ Becomes(Cleanup(client), <<>>, <<"failed">>)
    /\ UNCHANGED <<appVars, countVars>>

-----------------------------------------------------------------------------
(* The server and the system *)

Post(e) == queue' = Append(queue, e)

\* The connection is made, or refused.
Accept ==
    /\ net = "connecting" /\ net' = "open"
    /\ Post(Event("connected", client.stream))
    /\ UNCHANGED <<client, appVars, told, countVars>>

Refuse ==
    /\ net = "connecting" /\ ~up /\ net' = "lost"
    /\ Post(Event("connectionFailed", client.stream))
    /\ UNCHANGED <<client, appVars, told, countVars>>

\* The server says hello, and options when it has been told the shape.  While it is not
\* up it may say hello too, but also send anything else, at any time after hello.
MaySay(m) ==
    CASE told = <<>>      -> m = "hello" \/ (m = "badHello" /\ ~up)
      [] told = <<"hello">> -> \/ m = "options" /\ client.proxy
                               \/ m \in {"refusal", "close"} /\ ~up
      [] told = <<"hello", "options">> -> m = "close" /\ ~up
      [] OTHER -> FALSE

Say(m) ==
    /\ net = "open" /\ MaySay(m)
    /\ told' = Append(told, m)
    /\ client' = [client EXCEPT !.wire = Append(@, m)]
    /\ IF client.wire = <<>> THEN Post(Event("input", client.stream)) ELSE UNCHANGED queue
    /\ UNCHANGED <<appVars, net, countVars>>

\* The connection ends: inputShutdown, outputError or disconnected.
Hangup ==
    /\ net = "open" /\ (up => told # <<>> /\ told[Len(told)] \notin {"hello", "options"})
    /\ net' = "lost"
    /\ Post(Event("shutdown", client.stream))
    /\ UNCHANGED <<client, appVars, told, countVars>>

Fail ==
    /\ up /\ failures < MaxFailures
    /\ up' = FALSE /\ failures' = failures + 1
    /\ UNCHANGED <<client, queue, appVars, netVars, requests>>

Recover ==
    /\ ~up /\ up' = TRUE
    /\ UNCHANGED <<client, queue, appVars, netVars, requests, failures>>

Request ==
    /\ program = "running" /\ requests < MaxRequests
    /\ \E kind \in {"suspend", "resume", "quit"} : Post(Own(kind))
    /\ requests' = requests + 1
    /\ UNCHANGED <<client, appVars, netVars, up, failures>>

-----------------------------------------------------------------------------

Handle ==
    \/ HandleByNobody \/ HandleConnected \/ HandleConnectionFailed \/ HandleShutdown
    \/ HandleInput \/ HandleFaked \/ HandleSuspend \/ HandleResume
    \/ HandleFailed \/ HandleRefused \/ HandleQuit

Network == Accept \/ Refuse \/ Hangup \/ \E m \in Messages : Say(m)

Next ==
    \/ Handle \/ Start \/ RestartTimerFires \/ ConnectTimesOut \/ AlarmFires
    \/ Network \/ Fail \/ Recover \/ Request

\* The program takes the next event, and looks at its timers when there is none; what the
\* server and the network begin goes on.
Fairness ==
    /\ WF_vars(Start) /\ WF_vars(Handle) /\ WF_vars(Network)
    /\ WF_vars(RestartTimerFires) /\ WF_vars(ConnectTimesOut) /\ WF_vars(AlarmFires)

Spec == Init /\ [][Next]_vars /\ Fairness

-----------------------------------------------------------------------------
(* Properties *)

\* The two seconds run while the client connects or waits for hello, and at no other time:
\* a timer that is left would end the next connection (setupTimer asserts that there is
\* none), one that is missing would let a silent server hold the client.
TimerWhileWaiting == client.timer <=> client.stream # NoStream /\ ~client.proxy

\* A client that has its screen never gives up by itself: when it is idle and has no
\* stream, a timer will try again, or waking up will (every way to lose the stream posts an
\* event for ClientApp, and Client::connect notes that it was asked during the sleep).
KeepsTrying ==
    Idle /\ screen =>
            \/ client.stream # NoStream
            \/ restarts > 0
            \/ client.suspended /\ client.onResume

\* While the system sleeps there is no connection (Client::connect, handleSuspend), and the
\* screen is enabled just as long as the server is there.
AsleepOrServed ==
    /\ client.suspended => client.stream = NoStream
    /\ client.enabled <=> client.ready
    /\ client.ready => client.proxy /\ client.stream # NoStream

\* When the server stays up and the system awake, a client with a screen is served for good
\* in the end.
ComesBack ==
    <>[](up /\ ~client.suspended /\ program = "running") => <>[](client.ready \/ ~screen)
=============================================================================
