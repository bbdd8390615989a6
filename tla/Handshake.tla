----------------------------- MODULE Handshake -----------------------------
(***************************************************************************)
(* How a connection becomes a client of the server: the listener accepts   *)
(* it (ClientListener), an unknown client says hello and gives the answer  *)
(* 30 seconds (ClientProxyUnknown), a proxy asks for the screen's shape    *)
(* and then reads what the client sends (ClientProxy1_0 to 1_3), and the   *)
(* server adopts the proxy and deletes it in the end (Server).             *)
(*                                                                         *)
(* All of them live on the main thread and call each other through events  *)
(* in a queue.  A socket, a packet filter, an unknown client and a proxy   *)
(* are made for a connection, and each is deleted by its owner of the      *)
(* moment, while events for it may still be in the queue.                  *)
(*                                                                         *)
(* Connections are not secured, and the server is not in client mode.      *)
(***************************************************************************)
EXTENDS Naturals, Sequences, SequencesExt

CONSTANTS
    Conns,              \* what connects, once each
    MaxSaid,            \* bound on the messages of a client
    HastyClients,       \* clients send more than they are asked for, during the handshake
    ArrivesWhileStopping    \* connections arrive while the server stops

\* What events are about that are not about one connection.
Everyone == "all"

ASSUME HandshakeAssumption ==
    /\ Everyone \notin Conns
    /\ MaxSaid \in Nat /\ HastyClients \in BOOLEAN /\ ArrivesWhileStopping \in BOOLEAN

\* A good and a bad answer to hello, a shape, one that has no area, and a message
\* that asks for nothing (kMsgHelloBack, kMsgDInfo, kMsgCNoop).
Messages == {"hello", "badHello", "info", "badInfo", "noop"}

Lives == {"none", "live", "deleted"}

\* The objects of a connection.
Connections == [
    socket   : {"none", "open", "closed", "deleted"},
    listed   : BOOLEAN,             \* it is in m_clientSockets
    accepting : BOOLEAN,            \* the handler of accepted is there
    wire     : Seq(Messages),       \* received by the socket
    stream   : Lives,               \* the PacketStreamFilter, with its buffer
    buffer   : Seq(Messages),
    ended    : BOOLEAN,             \* m_inputShutdown
    unknown  : Lives,               \* the ClientProxyUnknown: m_timer is set,
    timer    : BOOLEAN,
    ready    : BOOLEAN,             \* m_ready,
    owns     : {"nothing", "stream", "proxy"},  \* m_stream or m_proxy
    proxy    : Lives,               \* the ClientProxy: m_parser,
    parser   : {"handshake", "normal"},
    alarm    : BOOLEAN,             \* m_heartbeatTimer is set,
    stray    : BOOLEAN,             \* and a timer it does not know any more
    reads    : {"nobody", "unknown", "proxy"},  \* handles the events of the stream,
    readied  : {"nobody", "unknown"},           \* ready and disconnected of the proxy
    hangup   : {"nobody", "unknown", "listener", "server"},
    place    : {"none", "served", "closing"}]   \* m_clientSet, or m_oldClients

EventKinds == {"connecting", "accepted", "input", "shutdown", "error", "ended", "ready",
               "success", "failure", "disconnected", "connected", "allGone", "quit"}

VARIABLES
    queue,      \* the events that wait; those of the listener and the server are about all
    conn,       \* the objects of each connection
    waiting,    \* m_waitingClients
    phase,      \* whether the server is being stopped
    peer,       \* the other end of each connection: away, there, or gone
    said,       \* what it has sent
    misuse      \* a deleted object was used

vars == <<queue, conn, waiting, phase, peer, said, misuse>>

Event(kind, c) == [kind |-> kind, conn |-> c]

TypeOK ==
    /\ queue \in Seq([kind : EventKinds, conn : Conns \cup {Everyone}])
    /\ conn \in [Conns -> Connections]
    /\ waiting \in Seq(Conns)
    /\ phase \in {"serving", "closing", "stopped"}
    /\ peer \in [Conns -> {"away", "there", "gone"}]
    /\ said \in [Conns -> Seq(Messages)]
    /\ misuse \in {"no", "twice", "dangling"}

Fresh == [socket |-> "none", listed |-> FALSE, accepting |-> FALSE, wire |-> <<>>,
          stream |-> "none", buffer |-> <<>>, ended |-> FALSE,
          unknown |-> "none", timer |-> FALSE, ready |-> FALSE, owns |-> "nothing",
          proxy |-> "none", parser |-> "handshake", alarm |-> FALSE, stray |-> FALSE,
          reads |-> "nobody", readied |-> "nobody", hangup |-> "nobody", place |-> "none"]

Init ==
    /\ queue = <<>> /\ waiting = <<>>
    /\ conn = [c \in Conns |-> Fresh]
    /\ phase = "serving"
    /\ peer = [c \in Conns |-> "away"] /\ said = [c \in Conns |-> <<>>]
    /\ misuse = "no"

-----------------------------------------------------------------------------
(* What objects do to themselves and to what they own *)

\* ~ClientProxy: removeHandlers, and the stream goes with it.
ProxyDeleted(k) ==
    [k EXCEPT !.proxy = "deleted", !.stream = "deleted", !.buffer = <<>>,
              !.alarm = FALSE, !.reads = "nobody"]

\* ClientProxy1_0::disconnect: nothing is heard any more, and the socket is closed.
ProxyDisconnected(k) ==
    [k EXCEPT !.reads = "nobody", !.alarm = FALSE, !.buffer = <<>>, !.wire = <<>>,
              !.socket = "closed"]

\* ClientProxyUnknown::sendFailure.  The handlers on the proxy stay.
Failed(k) ==
    LET d == IF k.owns = "proxy" THEN [ProxyDeleted(k) EXCEPT !.owns = "nothing"] ELSE k
    IN  [d EXCEPT !.ready = FALSE, !.timer = FALSE,
                  !.reads = IF d.owns = "stream" THEN "nobody" ELSE @]

\* ClientProxyUnknown::orphanClientProxy
HasOrphan(k) == k.ready /\ k.owns = "proxy"

\* Mutant: m_proxy is not reset.
OrphanedOwned(k) ==
    IF HasOrphan(k) THEN [k EXCEPT !.readied = "nobody", !.hangup = "nobody"] ELSE k

Orphaned(k) ==
    IF HasOrphan(k) THEN [k EXCEPT !.owns = "nothing", !.readied = "nobody", !.hangup = "nobody"]
    ELSE k

\* Mutant: the handlers on the proxy are not removed.
UnknownDeletedHearing(k) ==
    LET u == [k EXCEPT !.unknown = "deleted", !.timer = FALSE, !.owns = "nothing"]
    IN  CASE k.owns = "stream" -> [u EXCEPT !.stream = "deleted", !.buffer = <<>>, !.reads = "nobody"]
          [] k.owns = "proxy"  -> ProxyDeleted(u)
          [] OTHER -> u

\* ~ClientProxyUnknown: what it owns goes with it.
UnknownDeleted(k) ==
    LET u == [k EXCEPT !.unknown = "deleted", !.timer = FALSE, !.owns = "nothing"]
    IN  CASE k.owns = "stream" -> [u EXCEPT !.stream = "deleted", !.buffer = <<>>, !.reads = "nobody"]
          [] k.owns = "proxy"  -> [ProxyDeleted(u) EXCEPT !.readied = "nobody", !.hangup = "nobody"]
          [] OTHER -> u

\* addHeartbeatTimer sets another timer, whether there is one or not.
AlarmAdded(k) == [k EXCEPT !.alarm = TRUE, !.stray = k.stray \/ k.alarm]

\* resetHeartbeatTimer, and resetOptions and setOptions of the server
AlarmReset(k) == AlarmAdded([k EXCEPT !.alarm = FALSE])

\* Mutant: the options set a new timer and leave the old one.
AlarmSetAgain(k) == AlarmAdded(k)

\* Server::adoptClient sends the options to a client it takes.
OptionsSent(k) == AlarmReset(k)

-----------------------------------------------------------------------------
(* Reading *)

\* One message, by m_parser.  After one it cannot make sense of, the rest of what
\* there is to read is discarded.
ReadOne(k, m) ==
    CASE k.lost -> k
      [] ~k.lost /\ k.parser = "handshake" /\ m = "info" ->
            [AlarmAdded(k) EXCEPT !.parser = "normal", !.asked = "now"]
      [] ~k.lost /\ k.parser = "handshake" /\ m = "badInfo" ->
            [k EXCEPT !.parser = "normal", !.lost = TRUE]
      [] OTHER -> [k EXCEPT !.lost = m \notin {"noop", "info"},
                            !.asked = IF @ = "now" THEN "before" ELSE @]

\* What reading goes by.  asked says whether ready was posted, and if it was for the
\* last message: then the end of the stream, which is posted when that message has been
\* read, comes first.
Noted(k) == [parser |-> k.parser, alarm |-> k.alarm, stray |-> k.stray,
             lost |-> FALSE, asked |-> "no"]

\* handleData of the proxy: everything there is, then the alarm is set anew.
Read(k) ==
    LET upTo[n \in 0..Len(k.buffer)] ==
          IF n = 0 THEN Noted(k) ELSE ReadOne(upTo[n - 1], k.buffer[n])
    IN  upTo[Len(k.buffer)]

ProxyReads(k) ==
    LET r == AlarmReset(Read(k))
    IN  [k EXCEPT !.buffer = <<>>, !.parser = r.parser, !.alarm = r.alarm, !.stray = r.stray]

\* What the filter and the proxy post meanwhile.
PostedReading(k) ==
    LET end   == IF k.ended /\ k.buffer # <<>> THEN <<"ended">> ELSE <<>>
        asked == Read(k).asked
    IN  CASE asked = "no"  -> end
          [] asked = "now" -> end \o <<"ready">>
          [] OTHER         -> <<"ready">> \o end

\* Mutant: an answer to hello ends the waiting.
ProxyMadeUntimed(k) ==
    [k EXCEPT !.proxy = "live", !.owns = "proxy", !.buffer = Tail(@), !.reads = "proxy",
              !.readied = "unknown", !.hangup = "unknown", !.timer = FALSE]

\* initProxy: the new proxy owns the stream, and sets its own handlers.
ProxyMade(k) ==
    [k EXCEPT !.proxy = "live", !.owns = "proxy", !.buffer = Tail(@), !.reads = "proxy",
              !.readied = "unknown", !.hangup = "unknown"]

\* handleData of the unknown client: one message, "hello".
UnknownReads(k) ==
    IF Head(k.buffer) = "hello" THEN ProxyMade(k) ELSE Failed([k EXCEPT !.buffer = Tail(@)])

PostedGreeting(k) ==
    (IF k.ended /\ Len(k.buffer) = 1 THEN <<"ended">> ELSE <<>>)
    \o (IF Head(k.buffer) = "hello" THEN <<>> ELSE <<"failure">>)

\* Mutant: one piece only.
TakenOne(k) == IF k.wire = <<>> THEN k ELSE [k EXCEPT !.buffer = Append(@, Head(k.wire)), !.wire = Tail(@)]

\* PacketStreamFilter::readMore: what the socket has, into the buffer.
Taken(k) == [k EXCEPT !.buffer = @ \o k.wire, !.wire = <<>>]

-----------------------------------------------------------------------------
(* Handlers *)

IsNext(kind, c) == misuse = "no" /\ queue # <<>> /\ Head(queue) = Event(kind, c)

Posting(kinds, c) == [i \in DOMAIN kinds |-> Event(kinds[i], c)]
Handled(posted) == queue' = Tail(queue) \o posted
Becomes(c, k) == conn' = [conn EXCEPT ![c] = k]
OthersUnchanged == UNCHANGED <<waiting, phase, peer, said, misuse>>

\* An event without a handler is dropped.
Dropped == Handled(<<>>) /\ UNCHANGED <<conn, waiting, phase, peer, said, misuse>>

\* handleClientConnecting.  A client that is gone already may be noticed as soon as
\* the socket is made.
HandleConnecting(c) ==
    /\ IsNext("connecting", c)
    /\ IF phase = "stopped" THEN Dropped
       ELSE /\ Becomes(c, [conn[c] EXCEPT !.socket = "open", !.listed = TRUE, !.accepting = TRUE])
            /\ \E kinds \in IF peer[c] = "there" THEN {<<"accepted">>}
                            ELSE {<<"accepted", "shutdown">>, <<"shutdown", "accepted">>} :
                  Handled(Posting(kinds, c))
            /\ OthersUnchanged

\* handleClientAccepted.  The listener does not remove this handler when it stops.
HandleAccepted(c) ==
    /\ IsNext("accepted", c)
    /\ CASE ~conn[c].accepting -> Dropped
         [] conn[c].accepting /\ phase = "stopped" ->
              /\ Handled(<<>>) /\ misuse' = "dangling"
              /\ UNCHANGED <<conn, waiting, phase, peer, said>>
         [] OTHER ->
              /\ Becomes(c, [conn[c] EXCEPT !.accepting = FALSE, !.stream = "live",
                                !.unknown = "live", !.timer = TRUE, !.owns = "stream",
                                !.reads = "unknown"])
              /\ Handled(<<>>) /\ OthersUnchanged

\* inputReady of the socket: the filter passes it on only when it had no message
\* before and has one now.
HandleInput(c) ==
    /\ IsNext("input", c)
    /\ IF conn[c].stream # "live" THEN Dropped
       ELSE LET k      == Taken(conn[c])
                passes == conn[c].buffer = <<>> /\ k.buffer # <<>>
            IN  /\ CASE passes /\ k.reads = "unknown" ->
                            Becomes(c, UnknownReads(k)) /\ Handled(Posting(PostedGreeting(k), c))
                     [] passes /\ k.reads = "proxy" ->
                            Becomes(c, ProxyReads(k)) /\ Handled(Posting(PostedReading(k), c))
                     [] OTHER -> Becomes(c, k) /\ Handled(<<>>)
                /\ OthersUnchanged

\* The stream ends or fails: handleDisconnect and handleWriteError of who reads it.
StreamEnds(c, k) ==
    /\ CASE k.reads = "unknown" -> Becomes(c, Failed(k)) /\ Handled(Posting(<<"failure">>, c))
         [] k.reads = "proxy"   -> Becomes(c, ProxyDisconnected(k))
                                   /\ Handled(Posting(<<"disconnected">>, c))
         [] OTHER               -> Becomes(c, k) /\ Handled(<<>>)
    /\ OthersUnchanged

\* inputShutdown of the socket is held back while there is something to read,
HandleShutdown(c) ==
    /\ IsNext("shutdown", c)
    /\ LET k == [conn[c] EXCEPT !.ended = TRUE]
       IN  CASE k.stream # "live" -> Dropped
             [] k.stream = "live" /\ k.buffer # <<>> ->
                  Becomes(c, k) /\ Handled(<<>>) /\ OthersUnchanged
             [] OTHER -> StreamEnds(c, k)

\* then the filter posts its own.  Errors are passed on.
HandleEnded(c) ==
    /\ IsNext("ended", c) \/ IsNext("error", c)
    /\ IF conn[c].stream # "live" THEN Dropped ELSE StreamEnds(c, conn[c])

\* handleReady, sendSuccess
HandleReady(c) ==
    /\ IsNext("ready", c)
    /\ CASE conn[c].readied = "nobody" -> Dropped
         [] conn[c].readied = "unknown" /\ conn[c].unknown = "deleted" ->
              /\ Handled(<<>>) /\ misuse' = "dangling"
              /\ UNCHANGED <<conn, waiting, phase, peer, said>>
         [] OTHER ->
              /\ Becomes(c, [conn[c] EXCEPT !.ready = TRUE, !.timer = FALSE])
              /\ Handled(Posting(<<"success">>, c)) /\ OthersUnchanged

\* handleUnknownClient: the proxy waits for the server, the unknown client is deleted.
HandleSuccess(c) ==
    /\ IsNext("success", c)
    /\ IF conn[c].unknown # "live" THEN Dropped
       ELSE LET k == UnknownDeleted(Orphaned(conn[c]))
            IN  /\ IF HasOrphan(conn[c])
                   THEN /\ Becomes(c, [k EXCEPT !.hangup = "listener"])
                        /\ waiting' = Append(waiting, c)
                        /\ Handled(<<Event("connected", Everyone)>>)
                   ELSE Becomes(c, k) /\ Handled(<<>>) /\ UNCHANGED waiting
                /\ UNCHANGED <<phase, peer, said, misuse>>

\* handleUnknownClientFailure
HandleFailure(c) ==
    /\ IsNext("failure", c)
    /\ IF conn[c].unknown # "live" THEN Dropped
       ELSE Becomes(c, UnknownDeleted(conn[c])) /\ Handled(<<>>) /\ OthersUnchanged

-----------------------------------------------------------------------------
(* The server *)

Served  == {c \in Conns : conn[c].place = "served"}
Closing == {c \in Conns : conn[c].place = "closing"}

\* removeActiveClient, removeOldClient: it is said when the last one has gone.
GoneFrom(c) ==
    IF Served \cup Closing = {c} THEN <<Event("allGone", Everyone)>> ELSE <<>>

ServerDeletes(k) == ProxyDeleted([k EXCEPT !.place = "none", !.hangup = "nobody"])

\* Mutant: the last one comes first.
LastInLine == Last(waiting)

\* getNextClient
NextInLine == Head(waiting)

\* ServerApp::handleClientConnected: getNextClient, adoptClient; a client with a
\* name that is not known, or taken, is told to go.
HandleConnected ==
    /\ IsNext("connected", Everyone)
    /\ IF waiting = <<>> \/ phase = "stopped" THEN Dropped
       ELSE LET c == NextInLine
                k == [conn[c] EXCEPT !.hangup = "server"]
            IN  /\ \/ Becomes(c, OptionsSent([k EXCEPT !.place = "served"]))
                   \/ Becomes(c, [k EXCEPT !.place = "closing"])
                /\ waiting' = Tail(waiting)
                /\ Handled(<<>>) /\ UNCHANGED <<phase, peer, said, misuse>>

\* disconnected of the proxy.  While it waits the listener deletes it: it takes the
\* filter for the socket, deletes the proxy with the filter, and the filter again.
\* The socket stays in the list.
DeletesTwice == misuse' \in {"no", "twice"}

HandleDisconnected(c) ==
    /\ IsNext("disconnected", c)
    /\ CASE conn[c].hangup = "nobody" -> Dropped
         [] conn[c].hangup = "unknown" /\ conn[c].unknown = "live" ->
              /\ Becomes(c, Failed(conn[c]))
              /\ Handled(Posting(<<"failure">>, c)) /\ OthersUnchanged
         [] conn[c].hangup = "unknown" /\ conn[c].unknown # "live" ->
              /\ Handled(<<>>) /\ misuse' = "dangling"
              /\ UNCHANGED <<conn, waiting, phase, peer, said>>
         [] conn[c].hangup = "listener" ->
              /\ waiting' = RemoveFirst(waiting, c)
              /\ Becomes(c, [ProxyDeleted(conn[c]) EXCEPT !.hangup = "nobody"])
              /\ DeletesTwice
              /\ Handled(<<>>) /\ UNCHANGED <<phase, peer, said>>
         [] OTHER ->
              /\ Becomes(c, ServerDeletes(conn[c]))
              /\ Handled(GoneFrom(c)) /\ OthersUnchanged

\* A reload drops the client: closeClient tells it to go.  A handler of an event that
\* is not modelled; so are the ones below.
Dismiss(c) ==
    /\ misuse = "no" /\ phase = "serving" /\ c \in Served
    /\ Becomes(c, [conn[c] EXCEPT !.place = "closing"])
    /\ UNCHANGED <<queue, waiting, phase, peer, said, misuse>>

\* stopServer, up to the loop in closeServer: Server::disconnect closes all clients.
Stop ==
    /\ misuse = "no" /\ phase = "serving" /\ phase' = "closing"
    /\ ArrivesWhileStopping \/ \A i \in DOMAIN queue : queue[i].kind # "connecting"
    /\ conn' = [c \in Conns |-> IF c \in Served THEN [conn[c] EXCEPT !.place = "closing"] ELSE conn[c]]
    /\ queue' = IF Served \cup Closing = {} THEN Append(queue, Event("allGone", Everyone)) ELSE queue
    /\ UNCHANGED <<waiting, peer, said, misuse>>

\* handleClientsDisconnected, whose handler is there while the server stops
HandleAllGone ==
    /\ IsNext("allGone", Everyone)
    /\ Handled(IF phase = "closing" THEN <<Event("quit", Everyone)>> ELSE <<>>)
    /\ UNCHANGED <<conn, waiting, phase, peer, said, misuse>>

\* The rest of closeServer and ~Server, then closeClientListener: ClientListener::stop.
Stopped(k) ==
    LET s == IF k.place = "none" THEN k ELSE ServerDeletes(k)
        u == IF s.unknown = "live" THEN UnknownDeleted(s) ELSE s
        w == IF u.hangup = "listener" THEN [ProxyDeleted(u) EXCEPT !.hangup = "nobody"] ELSE u
    IN  IF w.listed THEN [w EXCEPT !.socket = "deleted", !.listed = FALSE, !.wire = <<>>] ELSE w

HandleQuit ==
    /\ IsNext("quit", Everyone)
    /\ IF phase # "closing" THEN Dropped
       ELSE /\ conn' = [c \in Conns |-> Stopped(conn[c])]
            /\ waiting' = <<>> /\ phase' = "stopped"
            /\ Handled(<<>>) /\ UNCHANGED <<peer, said, misuse>>

-----------------------------------------------------------------------------
(* Timers, which are looked at when no event waits *)

Idle == misuse = "no" /\ queue = <<>>

\* ClientProxyUnknown::handleTimeout
UnknownTimesOut(c) ==
    /\ Idle /\ conn[c].timer
    /\ Becomes(c, Failed(conn[c]))
    /\ queue' = <<Event("failure", c)>> /\ OthersUnchanged

\* ClientProxy1_0::handleFlatline.  A timer that was left there fires too.
Flatline(c) ==
    /\ Idle /\ conn[c].proxy = "live" /\ conn[c].reads = "proxy"
    /\ conn[c].alarm \/ conn[c].stray
    /\ Becomes(c, ProxyDisconnected(conn[c]))
    /\ queue' = <<Event("disconnected", c)>> /\ OthersUnchanged

\* Server::handleClientCloseTimeout
CloseTimesOut(c) ==
    /\ Idle /\ conn[c].place = "closing"
    /\ Becomes(c, ServerDeletes(conn[c]))
    /\ queue' = GoneFrom(c) /\ OthersUnchanged

\* The three seconds of closeServer
StopTimesOut ==
    /\ Idle /\ phase = "closing"
    /\ queue' = <<Event("quit", Everyone)>>
    /\ UNCHANGED <<conn, waiting, phase, peer, said, misuse>>

-----------------------------------------------------------------------------
(* The clients *)

Arrive(c) ==
    /\ misuse = "no" /\ peer[c] = "away"
    /\ phase = "serving" \/ (phase = "closing" /\ ArrivesWhileStopping)
    /\ peer' = [peer EXCEPT ![c] = "there"]
    /\ queue' = Append(queue, Event("connecting", c))
    /\ UNCHANGED <<conn, waiting, phase, said, misuse>>

\* A client answers hello, then the question for its shape; only then it says more.
MaySay(c, m) ==
    /\ conn[c].unknown # "none"
    /\ CASE said[c] = <<>> -> m \in {"hello", "badHello"}
         [] said[c] = <<"hello">> -> m \in {"info", "badInfo"} \/ (m = "noop" /\ HastyClients)
         [] OTHER -> said[c][1] = "hello" /\ m \in {"info", "noop"}
    /\ said[c] # <<>> => conn[c].proxy # "none" \/ HastyClients

Say(c, m) ==
    /\ misuse = "no" /\ peer[c] = "there" /\ Len(said[c]) < MaxSaid /\ MaySay(c, m)
    /\ said' = [said EXCEPT ![c] = Append(@, m)]
    /\ IF conn[c].socket # "open" THEN UNCHANGED <<queue, conn>>
       ELSE /\ Becomes(c, [conn[c] EXCEPT !.wire = Append(@, m)])
            /\ queue' = IF conn[c].wire = <<>> THEN Append(queue, Event("input", c)) ELSE queue
    /\ UNCHANGED <<waiting, phase, peer, misuse>>

\* It hangs up, or it is out of reach and writing to it fails.
Leave(c) ==
    /\ misuse = "no" /\ peer[c] = "there"
    /\ peer' = [peer EXCEPT ![c] = "gone"]
    /\ IF conn[c].socket # "open" THEN UNCHANGED queue
       ELSE \E kind \in {"shutdown", "error"} : queue' = Append(queue, Event(kind, c))
    /\ UNCHANGED <<conn, waiting, phase, said, misuse>>

-----------------------------------------------------------------------------

HandleEvent ==
    \/ HandleConnected \/ HandleAllGone \/ HandleQuit
    \/ \E c \in Conns :
          \/ HandleConnecting(c) \/ HandleAccepted(c) \/ HandleInput(c) \/ HandleShutdown(c)
          \/ HandleEnded(c) \/ HandleReady(c) \/ HandleSuccess(c) \/ HandleFailure(c)
          \/ HandleDisconnected(c)

Timers(c) == UnknownTimesOut(c) \/ Flatline(c) \/ CloseTimesOut(c)

Next ==
    \/ HandleEvent \/ Stop \/ StopTimesOut
    \/ \E c \in Conns : Timers(c) \/ Dismiss(c) \/ Arrive(c) \/ Leave(c)
                        \/ \E m \in Messages : Say(c, m)

Spec == Init /\ [][Next]_vars

-----------------------------------------------------------------------------
(* Properties *)

Owners(c) ==
    (IF conn[c].owns = "proxy" THEN {"unknown"} ELSE {})
    \cup (IF \E i \in DOMAIN waiting : waiting[i] = c THEN {"listener"} ELSE {})
    \cup (IF conn[c].place = "none" THEN {} ELSE {"server"})

\* A proxy that is there belongs to exactly one of the unknown client, the listener and
\* the server, and it is the owner that hears when it disconnects; a deleted proxy belongs
\* to nobody.  Ownership passes on in orphanClientProxy, handleUnknownClient, getNextClient
\* and adoptClient, and ends in five more places.
OwnedOnce ==
    \A c \in Conns :
        IF conn[c].proxy = "live" THEN Owners(c) = {conn[c].hangup} ELSE Owners(c) = {}

\* No event reaches a deleted unknown client or listener, although sendFailure leaves its
\* handlers on the proxy it deletes (ClientProxyUnknown::sendFailure).
NothingDeletedIsCalled == misuse # "dangling"

\* A client has one alarm: none is left behind that would declare it dead although it
\* talks (addHeartbeatTimer, resetHeartbeatTimer).
OneAlarm == \A c \in Conns : conn[c].proxy = "live" => ~conn[c].stray

\* When no event waits, whoever reads a stream has read all that came: a message that the
\* filter holds is announced, or read together with the one before it (PacketStreamFilter::
\* filterEvent announces only the first of several).
NothingUnread ==
    queue = <<>> => \A c \in Conns :
        conn[c].reads # "nobody" => conn[c].buffer = <<>> /\ conn[c].wire = <<>>

\* No unknown client is forgotten: its 30 seconds run, or what has become of it is queued
\* (every path through ClientProxyUnknown ends in sendSuccess or sendFailure, once).
Queued(kind, c) == \E i \in DOMAIN queue : queue[i] = Event(kind, c)
DecisionPending ==
    \A c \in Conns : conn[c].unknown = "live" =>
        conn[c].timer \/ Queued("success", c) \/ Queued("failure", c)

\* Connections are passed to the server in the order in which they have shaken hands, each
\* once, and never after they were given up.
Stage(c) ==
    LET k == conn[c] IN
    CASE k.unknown = "live" -> "greeting"
      [] k.unknown # "live" /\ k.hangup = "listener" -> "waiting"
      [] k.place = "served"  -> "served"
      [] k.place = "closing" -> "leaving"
      [] k.unknown = "none"  -> "away"
      [] OTHER -> "gone"

Line == INSTANCE Admission WITH stage <- [c \in Conns |-> Stage(c)], line <- waiting
AdmitsInTurn == Line!Spec

\* "pull out the socket before deleting the client so we know which socket we no longer
\* need": when the listener deletes a client that waits, it keeps no socket of it
\* (ClientListener::handleClientDisconnected).
UnneededSocketForgotten ==
    [][\A c \in Conns : conn[c].hangup = "listener" /\ conn'[c].proxy = "deleted"
                            => ~conn'[c].listed]_vars
=============================================================================
