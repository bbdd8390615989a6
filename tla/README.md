# TLA+ models of synergy-core

Synergy shares one keyboard and mouse between computers. The server runs where they are attached (the *primary*
screen); a client on every other computer connects to it; the cursor moves from screen to screen over configured
edges, and the clipboards follow. This directory holds TLA+ modules translated from the C++ sources in
`src/lib`, TLC configurations that check them on small instances, and theorems checked by TLAPS. Paths below are
relative to `src/lib` of the repository; `PROJECT.json` maps every definition to the lines it models.

## Running

    tlc -workers 2 -config MCServerMembership.cfg MCServer.tla     (MCServerSwitching)
    tlc -workers 2 -config MCClipboardSharing.cfg MCClipboard.tla  (MCClipboardReconnect)
    tlc -workers 2 -config MCSocketJobs.cfg MCSocketMultiplexer.tla  (MCSocketTurns)
    tlc -workers 2 -config MCEventQueue.cfg MCEventQueue.tla
    tlc -workers 2 -config Lifecycle.cfg Lifecycle.tla
    tlc -workers 2 -config MCHandshake.cfg MCHandshake.tla
    tlc -workers 2 -config Connection.cfg Connection.tla
    tlapm M.tla    for ServerProofs, ClipboardProofs, ClipboardOwnerProofs, EventQueueProofs,
                   ConnectionProofs, LifecycleProofs, HandshakeProofs, SocketMultiplexerProofs

## The system

Both processes are built the same way: one main thread takes events from an `EventQueue` and runs one handler at
a time; a `SocketMultiplexer` thread does the network input and output and posts events. So handlers are atomic
with respect to each other, except those that run a loop of their own, and what is hard is the *order* of
events: input, timers, data from sockets, disconnections, reloads, the screen saver, and events that are still
queued for an object that is gone.

| Component | State | Operations | Talks to | Model |
|---|---|---|---|---|
| Server: screens and cursor (`server/Server.cpp`, `BaseClientProxy.cpp`, names of `Config.cpp`) | `m_clients`, `m_clientSet`, `m_oldClients` and their timers, `m_active`, `m_activeSaver`, `m_x`/`m_y`, jump positions, switch attempt, options, lock | adopt, disconnect, close timeout, reload, disconnect all, motions, switch wait timeout, hotkeys, lock, screen saver, shape changes | proxies (calls), primary screen (calls, events), ClientListener and ServerApp (calls, events) | `SwitchState`, `Server` |
| Clipboard sharing (`Server.cpp`, `PrimaryClient.cpp`, `ClientProxy1_6.cpp`, `client/Client.cpp`, `client/ServerProxy.cpp`, `synergy/StreamChunker.cpp`) | owner, sequence number and contents on the server; dirty flag per proxy; own, sent and last data per client | grab, update, enter, leave, chunked transfer | messages, event queues of both sides | `Clipboard` |
| Client proxies and handshake (`ClientListener.cpp`, `ClientProxyUnknown.cpp`, `ClientProxy1_*.cpp`) | new and waiting clients, parser state, heartbeat timer, who owns and who listens | accept, hello, version, ready, disconnected, timeouts, stop | Server, event queue, sockets | `Admission`, `Handshake` |
| Client connection (`Client.cpp`, `ServerProxy.cpp`) | stream, timer, ready, suspended | connect, timeout, handshake, suspend, resume, keep-alive | socket, ClientApp | `Connection` |
| Event queue (`base/EventQueue.cpp`, `SimpleEventQueueBuffer.cpp`) | stored events and ids, pending events, buffer, timers, handlers | add, get, loop, adopt a buffer, make and delete timers | every component, several threads | `EventDelivery`, `EventQueue` |
| Multiplexer and sockets (`net/SocketMultiplexer.cpp`, `TCPSocket.cpp`, `TCPListenSocket.cpp`) | job list with two locks, poll entries, unblock pipe; per socket flags and buffers | add and remove jobs, poll, run jobs; bind, accept, connect, read, write, flush, close | calling threads, service thread, event queue (events) | `TCPSocket`, `SocketMultiplexer` |
| Packets (`synergy/PacketStreamFilter.cpp`) | partial packet, end of input | announce, hold back, read | streams | in `Handshake` and `Connection`, without bytes |
| Applications (`synergy/ServerApp.cpp`, `ClientApp.cpp`) | state machine, retry timers, suspended | start, retry, stop, suspend, resume, reset, reconnect, end | all of the above | `Lifecycle` (server), `Connection` (client) |
| Chunks and wire format; layout; keys; primary screen; inverse sockets; files; IPC; platform screens; `arch`, `mt`; GUI; commands | | | | not modelled, see below |

What makes each correct, and what is hard about it:

- **Server.** Two tables and a closing list must agree about who is connected; the active screen must be one of
  them, have been entered, and own the cursor position; a pending switch must have a target and must not survive
  what made it moot. Hard: a client can leave, be dropped by a reload or time out between any two events, in
  particular between starting a timer and its expiry.
- **Clipboards.** What was copied last must be pasted on the active screen, and late messages of an earlier
  owner must not overwrite a newer copy. Hard: grabs are written at once and contents go through an event queue,
  in both directions, while the cursor moves on.
- **Handshake.** Every accepted connection becomes a client once, in turn, or is given up once; each of its
  objects has one owner, who hears of its end. Hard: it passes through three owners by queued events, while
  answers, the end of the stream, two timers and the end of the server come in any order.
- **Client connection.** The timeout runs exactly while it is needed; whatever goes wrong, something will try
  again. Hard: events of an earlier stream reach a new one at its address; sleep overlaps with all.
- **Event queue.** Events are delivered once, as posted, in order; timers are exact. Hard: events are stored
  under ids that are used again, handlers run loops of their own and replace the buffer, and events come from
  several threads before and after the loop starts.
- **Multiplexer, sockets.** Jobs are run with their own poll results; a closed socket is never touched again; a
  socket is always serviced for what it waits for. Hard: the job list is changed by several threads while
  another polls with it locked, and a socket's flags are read without its mutex when a job is made.
- **Applications.** A server object exists exactly in the state that says so, the retry timer runs exactly when
  it is awaited, and a program that is awake serves or tries again. Hard: stopping the server runs a
  loop inside a handler, in which other handlers run.

`PROJECT.json` lists every hazard at its line.

## Modules

**`SwitchState`** holds the switch attempt as a record (`m_switchDir`, `m_switchScreen`, the wait timer, the
taps) and the functions on it: `StopSwitch`, `StartSwitchWait`, `ArmSwitchTwoTap`, `NoSwitch`, `IsSwitchOkay` as
in `Server.cpp`. They are operators from states to states, so that `Server` composes them in the order of the
code. Time is a choice: whether a tap comes soon enough is an argument.

**`Server`** has one action per event handler. Screens are values of `Proxies` (client connections, reused after
a client has been deleted, as addresses are) and `Primary`. A configuration gives canonical names of names and
aliases, links and options. A coordinate is abstracted to the screen it was computed for, which is what the
properties ask of it. `cursor`, `jumpPos` stand for `m_x, m_y` and the jump positions, `entered` for the
screens' own idea of being entered, `sides` for the edges the platform watches. An action that would use a
deleted client sets `crashed`, after which the model stops. Relaying of keys, buttons and clipboards changes
none of this state and is left out. How a connection becomes a client is left to `Handshake`: here `AdoptClient`
may happen at any time.

**`MCServer`** gives instances: a row of three screens, two connections, files that drop, move, rename or delay.
**`ServerProofs`** has the theorems.

**`Clipboard`** has the server and all its clients, with the connections (`down`, `up`) and the event queues
(`queue`, `clientQueue`) between a decision to send contents and their being written. A clipboard's contents are
the number of the copy that made them. The server's part of a clipboard is a record in `board`: owner, sequence
number, `clip` (`m_clipboard`), `data` (`m_clipboardData`), dirty flags and copies of the proxies, and what the
primary's platform shows. `mine` is a client's part. The platform is X11: a copy is reported only if Synergy
held the selection (`held`). A lost connection drops what is under way; the handlers that nobody removes run on
deleted objects, which may end the process (`crashed`) or not. Input of the primary is handled behind the grabs
of the primary that came before it, since both pass the same queue. Two constants say what users do:
`Background` is where something may be copied while the cursor is elsewhere, `Hasty` which copies may be made
while messages are under way: those the platform reports, and those it does not, a second copy in a row.
**`MCClipboard`** gives instances with two interchangeable clients; **`ClipboardProofs`** and
**`ClipboardOwnerProofs`** have the theorems.

**`TCPSocket`** has the state of a socket as a record (the three flags, the two buffers as flags, the events
posted and not handled), `newJob` and the outcomes of `serviceConnecting`, `serviceConnected` and
`serviceListening` as sets. `newJob` is called without the mutex by `write`, `connect` and the constructor, a
data race: `UnlockedJobs` has every job that can be made from old and new values of each flag. `m_flushed` is
true when the output is empty, so it has no field of its own. Of `serviceConnected` the order is kept: the
result of `doRead` replaces that of `doWrite`. `doRead` reads until nothing is left, and an error at any of its
reads ends it: bytes of the reads before stay in the buffer, unannounced (`Unsaid`). `brokeOff` is history: it
says that this has happened to a buffer that was empty, and has not been read since.

**`SocketMultiplexer`** has the threads. A caller's call is a record with the step it takes next: make the job,
take the lock on the lock, write to the unblock pipe, take the list, change it and unlock. `service` is where
the service thread is; it polls and runs jobs with the list locked. Cursor marks in the list are left out, since
`cursor` says where the one loop is; places without a job are in the list, as in the code. The flag of a
condition variable is awaited in a loop that looks again at least every 100 ms, so a wait is a guard. What is
between two of a thread's steps can be seen by no other thread: `run` and the saving of its job are one step,
since the list is locked until the end. The other ends are in `peer`; when one goes, bytes that have arrived from
it may still be read, or be lost with the connection. **`MCSocketMultiplexer`** has an event
loop with a listening and an accepted socket, and a second thread with a connection of its own, as when log
messages are sent to the daemon's clients. **`SocketMultiplexerProofs`** proves what holds of the job list
and of the sockets.

**`EventDelivery`** is what `IEventQueue.h` promises to those that post: a queue. Events that come before the
loop starts wait in a queue of their own, and are let in one at a time.

**`EventQueue`** implements it. Its steps are what one thread does under `m_mutex`, or between two reads of what
another thread writes: `addEvent` tests `m_readyCondVar` and pushes to `m_pending` without a lock, so these are
two steps (`ThreadTestsReady`, `ThreadPushes`), and so are taking an id out of the buffer and looking it up
(`PopId`, `TakeEvent`). `table` and `oldIds` are the stored events and the ids to use again. A handler may post,
make and delete timers, adopt a buffer, and start a loop (`EnterLoop` while handling; `depth` counts them): a
quit event ends the innermost. `clock` is the stopwatch that `hasTimerExpired` takes off all timers at once; the
`age` of a timer is history, as are `posted`, `handled` and `lost`. Handlers and their targets are not here:
`Handshake` and `Connection` have the events that outlive their targets. **`MCEventQueue`** gives durations.

**`Lifecycle`** is `ServerApp`. What handlers work on is a record, `app`, so that `StartServer`, `InitServer`,
`StopServer`, `CleanupServer` are operators on it in the order of their calls. What may fail has a set of
outcomes. `closeServer` runs a loop inside the handler that called it: `frames` holds the handlers that wait in
such loops, each with what it does afterwards. Any quit event ends the innermost loop, that of the timer as well
as the user's. The clients of a server are one bit. Where a server would be deleted twice, `main` becomes
`"undefined"`. `forgotten` is history: `retryHandler` has found the screen missing once more, and with that the
server that was to be started then is no longer in the state (`RetriedStart`); the next `startServer` clears it.
**`LifecycleProofs`** proves its safety properties.

**`Admission`** is what the server may expect of its listener: connections wait in line, and are served in turn.

**`Handshake`** implements it with the objects of a connection (socket, packet filter, unknown client, proxy),
each live or deleted, in a record: who owns what, who handles which event, which timers run. All versions of the
proxy are one, with the messages reduced to answers that are good, bad or ask for nothing. One queue holds the
events of both the sockets and the objects. An event whose handler is a deleted object sets `misuse =
"dangling"`, a second deletion may set `"twice"` (or go unnoticed), and then the model stops. `Stop`,
`HandleQuit` and `StopTimesOut` are the end of the server and of its listener, as `ServerApp` brings it about.
**`MCHandshake`** lets the two connections be exchanged; **`HandshakeProofs`** has the theorems.

**`Connection`** is the client program: `Client`, the part of `ServerProxy` that keeps the connection, and the
restarts of `ClientApp`. The fields of the client are a record. `Streams` are the addresses in memory: a new
stream takes one that is not in use, and events queued for a stream that was deleted reach it. While the server
is `up` it answers; while it is not it may be silent, refuse, hang up, or send anything after hello. `restarts`
counts the one-shot timers of `ClientApp`, since there can be several. **`ConnectionProofs`** and
**`EventQueueProofs`** have the theorems.

How they compose. The event queue is the medium of all other modules: `Handshake`, `Lifecycle`, `Connection` and
`Clipboard` have a queue from whose front events are taken, as `EventDelivery` has once the loop has started,
and timers that fire when it is empty. `Admission` is the border of `Handshake` and `Server`: its `Adopt`,
`Dismiss` and `Quit` are `Server`'s adopting, dropping and losing clients. `Lifecycle` has the server and its
listener as one object each, and the stop of `Handshake` is its `closeServer`.

Operators whose comment says *Mutant* are not used by the specifications: each is a definition with a plausible
mistake, and replacing the definition by it breaks the property `PROJECT.json` names.

## Runs

| Run | Instance | What it shows |
|---|---|---|
| membership | three files, aliases, two connections, no delays | the tables, the closing list and its timers, the active screen, the entered screens, the cursor and the watched edges stay consistent (`MembershipAgrees`, `ProxiesAccounted`, `ActiveIsConnected`, `EnteredIsActive`, `CursorOnActive`, `SidesCurrent`); whoever is told to close goes (`OldClientsGo`) |
| switching | one file with delay and double tap | a pending switch has a target (`PendingSwitchHasTarget`), none survives a switch (`SwitchClearsAttempt`), a locked screen keeps the cursor (`LockHoldsCursor`) |
| sharing | two clipboards, 3 copies, 4 switches, patient users | the last copy is what the active screen ends up with (`LastCopyWins`), owners agree (`OwnersAgree`), contents come from the owner (`ContentsFromOwner`) |
| reconnect | 3 copies (one too large), 3 switches, one lost connection, hasty users whose copies are reported | updates are taken only from the owner (`ExpectedSender`), a clean screen is up to date (`CleanIsCurrent`) |
| sockets | three sockets, two threads, 3 acts | poll results go to their own jobs (`PollMatchesJobs`), a closed socket has no job and is not polled (`ClosedIsForgotten`), no job that is written late loses an interest (`InterestKept`), the listening socket listens again (`ListenerResumes`), input, unless the read of it broke off with an error, and the end of a connection are announced (`InputAnnounced`, `EndAnnounced`) |
| turns | two sockets, two threads, 2 acts | a thread gets the job list when nothing happens on any socket (`CallerGetsList`), flush returns (`FlushEnds`) |
| queue | a thread and the main thread, three events of which two are quits, a repeating and a one-shot timer, 3 ticks, loops two deep, one new buffer | the ids of stored events are accounted for (`IdsAccounted`), events are delivered as promised: the queue implements `EventDelivery` (`DeliversInOrder`), timers are exact (`TimersExact`), what is posted is handled, discarded with a buffer, or left when the program ends (`PostedIsHandled`) |
| lifecycle | 5 requests and 3 failed attempts, which may fail for good at the start or on a retry | the retry timer is there when it is awaited and only then (`TimerAwaitsRetry`), there is one server exactly while the program is started (`OneServer`), something will make the program serve unless it sleeps or has forgotten its start (`KeepsServing`), closing a server ends (`ClosingEnds`) |
| handshake | two connections, each with up to 3 messages | a proxy has one owner, who hears of its end (`OwnedOnce`), no event reaches a deleted unknown client (`NothingDeletedIsCalled`), no message is left unread (`NothingUnread`), one alarm per client (`OneAlarm`), a decision on an unknown client is pending (`DecisionPending`), connections are admitted in turn: the listener implements `Admission` (`AdmitsInTurn`) |
| connection | two addresses, two places for streams, 3 requests, 2 failures | the timeout runs just while the client connects or waits for hello (`TimerWhileWaiting`), an idle client has something that will try again (`KeepsTrying`), it is served again when the server stays up (`ComesBack`) |
| departed, unneeded | | violations: a comment of the code and what the code does, see below |

Bounds. Two client connections are enough for the hazards of `Server`: one leaves while the other is active,
joining or closing, and a connection is reused. `MaxTimers` caps the close timers of one client (2 where
`ProxiesAccounted` shows that there is only one). The switching run has at most one client closing at a time
(`OneClosing`), which only limits how many are in a list that switching does not look at. Rows of three screens
have a middle screen with two neighbours and a screen that is skipped. In `Clipboard` two clients and the
primary give an old owner, a new owner and a third screen; four switches allow leaving and coming back around a
transfer. Chunks are not counted: a transfer is one message, which is right for one connection, since its chunks
are queued together and written in order; what the shared static buffers do across connections is therefore not
covered. `MaxActs` counts writes, closes and what the peers do; connecting, accepting, reading and flushing are
not counted, since a socket is used once. Three acts are what the longest hazard takes on a connected socket:
bytes arrive, there is a write, and the peer shuts down or goes away. Three sockets put a place without a job
between two that are polled.

Three events give an id that is free, one that waits and one that is being handled, so that ids are used again
out of order; two quits end a loop inside a handler and the one outside. Three ticks let a timer of two ticks be
looked at early, on time and late, and one of one tick be looked at a tick or more late. Five requests are a
sleep, a waking up and a reset with a client that comes and hangs up; three failed attempts let two retries of
one start fail, or one before and two after a sleep. Two connections are what it takes for a line that can be
left out of order; three messages are the two of the handshake and one that follows them unasked. Two places for
streams allow an event to reach a new stream in an old place, or to find nobody there; three requests are a
sleep, a waking up and one that comes too early or too late; two failures let the second address fail too. The
runs that stop at their bounds do not check deadlock; in `Server` and `Lifecycle` the system may be idle for
ever.

Preconditions. Each is a constant, and with the other value the model shows what the code then does.

- `ActivityDuringSaver = FALSE` in the server runs: no input reaches the server between the start and the end of
  the screen saver. This is the normal case, since input ends the screen saver, but the code does not enforce
  it, and without it `activeSaver` can outlive its client (a listed hazard). `LeaveMayFail = FALSE` likewise:
  only the platforms' grab failures make it true.
- `Hasty = {}` and an empty `Background` in the sharing run: with a hasty user a message under way may wipe a
  copy just made (nothing in the protocol prevents it), and a copy in the background is lost if the primary did
  not hold the selection. The reconnect run has `Hasty = {"reported"}`; with `"unreported"` it fails, see *second*
  below. With a copy over the size limit the last copy may also lose to an earlier dirty flag;
  then only the properties of the reconnect run hold.
- `HasPolled = TRUE` in the turns run: the service thread has polled before. `getUnblockPipeForThread` stores a
  pipe that it makes for another thread as the caller's own, so until the service thread has made its pipe in
  its first poll the byte that should break it out is lost; with `HasPolled = FALSE` a thread that adds the
  second socket in that moment waits until there is traffic (a listed hazard). The sockets run has `AcceptFails
  = FALSE`, and begins with `HasPolled = FALSE`; in the turns run accepting fails. Nothing writes to a socket
  before it knows that it is connected, as in the client and in the server.
- `StartRaces = FALSE`: no thread is between its look at `m_readyCondVar` and its push to `m_pending` when a
  loop starts. With `TRUE` an event stays in `m_pending` for ever, since a loop empties it only when it starts.
- `RequestsOverlap = FALSE`: a request to sleep, wake up, reset or quit comes when no other is queued or under
  way. With `TRUE` a second quit, or a sleep inside the loop of another stop, ends the wrong loop or deletes a
  server twice. `HardFailures` has no `"resume"` or `"reset"`: a screen that fails for good there leaves the
  program idle.
- `HastyClients = FALSE`: a client says nothing before it is asked for its shape, and its shape once. With
  `TRUE` a message that came with hello stays unread until the next one, and a second shape leaves a second
  alarm. `ArrivesWhileStopping = FALSE`: with `TRUE` the handler of an accepted socket calls a listener that is
  deleted.
- In `Connection` a screen that fails for good on a retry leaves the client program idle: `KeepsTrying` and
  `ComesBack` are about a client that has its screen. `Restartable` is on.
- Connections are not secured, and neither side is in the mode in which the server calls the client.

Fairness. In `Server` only `OldClientsGo` needs it. `HandleClientDisconnected` is weakly fair: its event is in
the queue and the loop dispatches the queue in order. `HandleClientCloseTimeout` is strongly fair, and the
property assumes that the queue is empty again and again: `EventQueue::getEvent` looks at timers only when no
event waits. A flood of events that never lets up starves timers; this is a listed hazard. In
`SocketMultiplexer` a thread that can take a step does (weak fairness: the steps are short sections under a
mutex). The lock on the lock is contended by all threads, and mutexes promise no order; strong fairness says
that a thread that tries again and again gets it. For `FlushEnds` an open peer takes what is sent sooner or
later (`Drain`): against one that never reads, `flush` does block. In `EventQueue` a thread in `addEvent` goes
on, the main thread starts a loop and goes on with it, and handlers return; nobody has to post, and no timer has
to be made. In `Lifecycle` and `Connection` the main thread handles what is in its queue and fires its timers
when that is empty. In both what comes from outside is bounded, so queues do get empty. In `Connection` also the
network goes on with what it has begun and a server that is up answers; `ComesBack` assumes that it stays up and
the system awake. `Handshake` has no liveness property and no fairness.

## Findings

Two runs expect a violation:

- *departed*: `forceLeaveClient` stops a pending switch "to this client" only when that client is the active
  screen, so a delayed switch to a client that leaves stays pending (`server/Server.cpp:2303`).
- *unneeded*: when a client that waits for the server hangs up, `ClientListener::handleClientDisconnected` pulls
  out the socket "so we know which socket we no longer need", but `getStream` gives it the packet filter: the
  set of sockets keeps the socket, and the filter, which the client has deleted, is deleted again
  (`server/ClientListener.cpp:254`).

Other disagreements between the code and what is said of it, each with a configuration that leads to it. They
are beside the runs because a passing run and its properties say more of the same module:

- *aim* (`MCServerAim.cfg`): an attempt can have the target of an earlier try and the position of a later one
  (`Server.cpp:853`).
- *renamed* (`MCServerRenamed.cfg`): a reload that makes a connected client's name an alias of another screen
  does not close it (`Server.cpp:2250`).
- *saver* (`MCServerSaver.cfg`): a client that connects during the screen saver is not told if the screen that
  had the cursor has left (`Server.cpp:347`).
- *background* (`MCClipboardBackground.cfg`): a grab by the primary while a client is active updates every
  clipboard from the primary, also those it does not own, against the assertion in `onClipboardChanged`
  (`Server.cpp:1315`).
- *second* (`MCClipboardSecond.cfg`): the same assertion fails when something is copied twice on a client, the
  second time after it was entered again, while the grab of another client is under way. The platform does not
  report the second copy (`XWindowsScreen.cpp:1364`), the client sends it when it is left, with the sequence
  number of the last entering (`Client.cpp:281`), and that is newer than the grab's.
- *accepting* (`MCSocketAccept.cfg`): when `accept` fails the listening socket stays without a job, so no client
  can connect any more (`TCPListenSocket.cpp:121`).
- *input* (`MCSocketInput.cfg`): `doRead` is to "send input ready if input buffer was empty"
  (`TCPSocket.cpp:355`). When one of its reads has put bytes there and the next one fails, other than by a
  disconnection, it ends before; `serviceConnected` ignores the error, and the buffer is not empty when more
  comes, so the bytes are not announced by any later read either.
- *forgotten* (`LifecycleForgets.cfg`): a retry is to "try initializing/starting the server again"
  (`ServerApp.cpp:405`). When the screen is not there on a retry either, `initServer` makes of
  `kInitializingToStart` a `kInitializing`; the next retry opens the screen and stops there, without a server
  and without a timer.
- *overtaking* (`MCEventQueueOrder.cfg`): `addEvent` "adds event to the end of the queue" (`IEventQueue.h:102`),
  but while a loop lets in the pending events, an event of another thread comes before them.
- *once* (`MCEventQueueOnce.cfg`): the count of a one-shot timer "is always 1" (`IEventQueue.h:132`); it is the
  number of periods that have passed when it is looked at.
- *leftover* (`LifecycleEnds.cfg`): the clients' going and the timer of `closeServer` can both post a quit
  event; the second one ends the main loop of a program that was only to sleep or to start anew
  (`ServerApp.cpp:297`).

## Proofs

Theorems hold for every value of the constants that satisfies the assumptions of the modules. What a theorem
assumes beyond that is in its statement.

| Theorem | Property | Beyond the modules' assumptions |
|---|---|---|
| `ServerProofs!TypeCorrect` | `TypeOK` | |
| `ServerProofs!PendingSwitch` | `PendingSwitchHasTarget` | |
| `ServerProofs!SwitchesClear` | `SwitchClearsAttempt` | no input during the screen saver |
| `ServerProofs!LockHolds` | `LockHoldsCursor` | no input during the screen saver |
| `ServerProofs!MembershipKept` | `MembershipAgrees` | `SteadyNames` |
| `ServerProofs!ProxiesKept` | `ProxiesAccounted` | `SteadyNames` |
| `ServerProofs!SidesKept` | `SidesCurrent` | `SteadyNames` |
| `ServerProofs!FocusKept` | `ActiveIsConnected` | `SteadyNames`, `NoDelay`, no input during the screen saver |
| `ServerProofs!EnteredKept` | `EnteredIsActive` | the same |
| `ServerProofs!CursorKept` | `CursorOnActive` | the same, and no refused leave |
| `ClipboardProofs!Types` | `TypeOK` | |
| `ClipboardProofs!UpdatesFromOwner` | `ExpectedSender` | `Considerate`: nothing is copied in the background, and nothing unreported while messages are under way |
| `ClipboardProofs!CleanStaysCurrent` | `CleanIsCurrent` | the same |
| `ClipboardOwnerProofs!ContentsOfOwner` | `ContentsFromOwner` | `Unhurried`: nothing is copied in the background, and nothing while messages are under way |
| `ClipboardOwnerProofs!OwnersAgreed` | `OwnersAgree` | `Patient`: `Unhurried`, no connection is lost, nothing is too large to send |
| `ClipboardOwnerProofs!LastCopyShown` | `LastCopyWins` | the same |
| `EventQueueProofs!IdsStayAccounted` | `IdsAccounted` | |
| `EventQueueProofs!QueueDelivers` | `DeliversInOrder` | `~StartRaces` |
| `EventQueueProofs!TimersStayExact` | `TimersExact` | |
| `ConnectionProofs!TimerRunsWhileWaiting` | `TimerWhileWaiting` | |
| `ConnectionProofs!NeverGivesUp` | `KeepsTrying` | |
| `ConnectionProofs!SleepsOrServes` | `AsleepOrServed` | |
| `SocketMultiplexerProofs!PollKept` | `PollMatchesJobs` | |
| `SocketMultiplexerProofs!ClosedForgotten` | `ClosedIsForgotten` | |
| `SocketMultiplexerProofs!InterestHolds` | `InterestKept` | |
| `SocketMultiplexerProofs!InputKept` | `InputAnnounced` | |
| `SocketMultiplexerProofs!EndKept` | `EndAnnounced` | |
| `SocketMultiplexerProofs!ListenerKept` | `ListenerResumes` | `~AcceptFails` |
| `LifecycleProofs!TimerKept` | `TimerAwaitsRetry` | |
| `LifecycleProofs!ServingKept` | `KeepsServing` | nothing fails for good on waking up or on a reset |
| `LifecycleProofs!ServerKept` | `OneServer` | `~RequestsOverlap` |
| `HandshakeProofs!HandshakeTypes` | `TypeOK` | |
| `HandshakeProofs!ProxyOwnedOnce` | `OwnedOnce` | |
| `HandshakeProofs!DecisionIsPending` | `DecisionPending` | |
| `HandshakeProofs!NothingDeletedCalled` | `NothingDeletedIsCalled` | `~ArrivesWhileStopping` |
| `HandshakeProofs!AlarmIsOne` | `OneAlarm` | `~HastyClients` |
| `HandshakeProofs!UnreadIsNothing` | `NothingUnread` | `~HastyClients` |
| `HandshakeProofs!AdmittedInTurn` | `AdmitsInTurn` | |

*Server, switching.* `TypeOK` alone is not inductive. `active' \in Screens` after `handleSwitchWaitTimeout`
needs the target of the timer to exist, that is `WellAimed(sw)`; and a close timeout lowers a counter that must
be positive. The invariant `BasicInv` adds both: the switch state is well aimed, and a closing client is alive
with a timer. Lemmas about `SwitchState` (`StopSwitchIdle`, `StopsAimed`, `IsSwitchOkayAimed`) show that its
operators keep a state well aimed; `SwitchScreenType`, `MotionPrimaryType`, `MotionSecondaryType`,
`CloseClientsType` and `LeavingType` carry this through the compound steps; `BasicInvClients` and
`BasicInvInput` treat the actions one by one. The argument makes no use of the preconditions of the runs. For
the two action properties a step is shown to be `Orderly`: what moves the cursor between connected screens goes
through `switchScreen`, which stops the attempt, or through the screen saver. The second case needs
`SaverQuiet`: while the screen saver will return to a client, the cursor is on the primary and no switch is
pending, so that its return finds nothing to clear.

*Server, who is connected.* `MInv` is `BasicInv`, the agreement of the tables in a form that is inductive
(`Members`: the set is what is listed, and each entry is under the name that the present configuration gives it,
`Listed`) and `ProxiesAccounted`. `removeActiveClient` and the reload look names up in the old or in the new
configuration; both find the entry if names keep their canonical names, which is `SteadyNames`. The files of the
membership run have it, those of `MCServerRenamed.cfg` do not, and there the tables do disagree. `FInv` adds
that no wait timer runs (`NoWait`, from `NoDelay`: no configuration delays switching), who may be waiting for
the screen saver to end (`SaverHolds`), and that the active screen is a member (`Focused`). With delays a switch
may aim at a client that has left, which is the finding *departed*: the theorem cannot do without `NoDelay`.

*Clipboards.* `TypeOK` needs that the active screen is connected (`Typed`): contents are sent to it. Handlers that
work on all clipboards append what each of them sends in turn; the sequence is a recursive function (`InTurn`),
and that every part of it is there, and nothing else, is shown by induction on the number of turns
(`InTurnIs`). A lemma on each operation says what the clipboard is after it (`OnClipboardChangedIs`,
`OnClipboardGrabbedIs`, `SwitchScreenIs`, ...), and the steps follow from these.

`ExpectedSender` is about numbers that were taken long before they are compared, so its invariant `IInv` speaks of
all that is under way. A switch numbers a visit of a screen; grabs and contents carry the number of the visit that
they were made in (`Mark`). Two clients never share a number (`Apart`), the latest one belongs to the active screen
(`Timely`), and a client's visits are in order, each over before the next begins (`Course`). A number is `Claimed` by
a client for a clipboard when an update that carries it is out of date, or when the client owns the clipboard and
nobody else can still grab it without making the update out of date (`Alone`). `Fits` says that each update under
way, in the server's queue, on the connection or in the client's own queue, and the one that the client would send
if it were left now, has a claimed number or comes behind a grab that will give it one (`Heard`, `Told`). Two more
facts keep this going when clipboards change hands: a visit that began before a grab elsewhere ends before the
client hears of that grab (`Outlives`), and a client where an application holds the clipboard owns it, or will hear
that it does not (`Keeps`). The grabs of the primary are handled before it is left (`Home`), because they and its
input come through the same queue. Steps of which the others only hear are treated by `CalmStep`, the steps of one
client by `LocalPreserves`, accepted grabs by `GrabbedPreserves`. Both conditions of `Considerate` are needed: without
them there are the findings *background* and *second*.

`CleanIsCurrent` says what holds when nothing is under way, and `Delivered` is what holds all the time: of a client
that is clean and does not own the clipboard, the last transfer in the server's queue that is for it has the server's
contents (`SendsLast`); if there is none, the last grab or contents on its connection leaves it with them
(`CoversLast`); if there is none of these either, it has them, unless an application has taken the clipboard
(`Arrives`). `CleanHome` says the same of the primary, which needs no messages. `Delivered` needs `IInv` in two
places. An update that the server takes in makes all screens dirty but its sender, so the sender must be the owner,
or it would be clean with older contents on their way to it (`ChangedDelivers`). And an application may take a clean
client's clipboard; that the client then owns it or something is still under way is `Keeps`. Each step is one lemma
(`SwitchDelivers`, `GrabbedDelivers`, `SentDelivers`, ...); that events of the queue stay in order while others are
taken off or put behind them is `Brought`, and messages that put something else on the clipboard are `Untouched`.

`ContentsFromOwner` speaks of the server alone, but a client grabs a clipboard before its contents come, and until
then the server may send it those of another screen, which the client would send back as its own. `Signed` says,
of each clipboard, where all that could get there was copied. While nothing is copied before the last copy has
settled, one screen at a time is about to grab a clipboard (`Grabber`), and no other client has anything to say
(`Lone`). What a client has posted, sent, or has on its clipboard while it owns it or is about to, was copied there
(`Own`); a client that is about to grab, and the active one, which may be soon, will get nothing but void contents
(`Spare`, `Shielded`); and while a client is about to take a clipboard from the primary, the server has already
fetched what the primary shows (`Caught`), so leaving the primary in between fetches nothing that would be sent.
That an update comes from the owner is `ExpectedSender` again. Steps of the server that report nothing are
treated by `QuietSigned`, those of one client by `ClientSigned`, through what happens to the contents that are
under way (`Flow`, `Drawn`). The theorem has lost connections and copies that are too large, which the run has
not.

`OwnersAgree` and `LastCopyWins` say what holds when nothing is under way. `Faithful` is what holds all the time:
each clipboard has a screen with its last copy (`Holds`), which changes with the next copy alone. That screen owns
the clipboard or is the only one about to grab it (`Standing`). It is sent nothing, and the active screen has been
sent what the server has, except contents that are still to be replaced by the last copy (`Current`). The primary
shows the copy (`AtHome`). A client shows it and owns the clipboard unless its grab is still to be handled; the server
has the copy, or the client has yet to send it, or it is on its way, and nothing else of the client is (`Ready`); its
grab and the contents behind it will not be taken for outdated (`Dated`). All other clients have given the clipboard
up, or will hear of the grab (`Relinquished`). What a client remembers to have sent is never newer than the last copy
(`Past`), or it would keep a new copy back. The hard steps are the accepted grab, the update and the leaving of a
screen (`GrabbedHolds`, `ChangedHolds`, `SwitchHolds`); with `Signed`, contents that reach the server from the screen
of the last copy are that copy, and with `Caught`, what is fetched from the primary is. When nothing is under way, the
active screen either is the one with the copy, or it is clean and has, by `CleanIsCurrent`, what the server has
(`QuietShows`). `Patient` has two conditions
more than `Unhurried`, those of the run: what is on its way on a lost connection is lost with it, and with it the last
copy; and a copy that is too large is never sent, so the server does not wait for it, as `Ready` says.

*Event queue.* `Account` says of the ids that wait, the free ids and the table that every number below the
number of both is in exactly one list, once; this is what makes the size of the table a fresh id when no old one
is free (`saveEvent`), and a new buffer starts the account anew. The refinement takes each action to an
action of `EventDelivery` or to a stutter; the mapping reads the buffer through the table, so taking an event
out needs that no two ids name the same entry. `TimersExact` is inductive with the type of the timers.

*Multiplexer, the list.* The theorems hold for any number of threads and sockets. `Locks` says who has the list:
the service thread from its polling to its sweeping, a caller while it edits. So the list changes only at the
service thread's own hand while it runs jobs, and `~update` means that its entries are those of the jobs, in
their order (`Matched`). `PollMatchesJobs` counts the jobs that are still to come: running one takes it off the
count and moves the cursor on, also when the job is replaced or removed by what it did (`AheadNext`). What the
recursive function `JobsIn` computes is shown by induction on sets of numbers (`AllNaturals`), which the
provers can do. `Forgotten` begins one step before `ClosedIsForgotten`: `close` has removed the job when the
socket is about to be closed, so it cannot be polled again.

*Multiplexer, the sockets.* `Good` is said of one data socket, its peer, its owner's call, the list and the
entries; most steps concern one socket and leave `Good` of the others alone. The race on the flags is harmless
because, once the socket has been connected, its flags only go down while its owner is in a call (`Shrunk`):
whatever mixture of old and new values `newJob` reads, the job covers what the socket wants now (`JobCovers`).
Before that no other thread touches the socket, since it has no job in the list. The mixture can make a
*connecting* job for a socket whose connection is over; `Suits` shows that its peer is gone, so running it will
not bring the socket back. `RunBecomes` has all outcomes of running a job, and that the job saved afterwards
covers what is wanted then. `InputAnnounced` leaves out bytes whose read broke off, the disagreement *input*;
they stay until their owner reads or closes. The listening socket needs `~AcceptFails`, which is the
disagreement *accepting*.

*Connection.* `Sound` says how the fields of a client belong together, `Fit` adds that there is no stream during
sleep, and each helper of the client is shown to keep or to establish it. `KeepsTrying` is about moments when
the queue is empty; the invariant behind it is `Pursued`: at any time a running client with a screen has a
stream, a restart timer, a note to connect on waking up, or an event in its queue that is answered by one of
these (`Owed`). Events of streams that are gone need no treatment of their own: they are handled like any other,
by whoever is registered there.

*Life cycle.* `Sane` says which screen, server, listener and timer a program has in each state (`Served`,
`Waits`); it holds in every case, and with it the retry timer is accounted for. A lemma on each helper says
which of these it takes to which, and each handler is a path through them. `KeepsServing` needs `Serving`: where
the program neither serves nor waits, a quit is queued; `Fresh` says that a program that has not booted has
nothing queued. The hard failures that `handleResume` and `resetServer` ignore are the exception, which is the
assumption, and a start that is `forgotten`, which the property names: it is the disagreement *forgotten*.
`OneServer` is the delicate one, since `closeServer` handles events while its caller waits with a pointer to the
server. `Single` says why nothing can come between: a request that is handled outside the inner loops waits
alone in the queue, there is at most one such loop, and it waits for the server that is there. When requests
overlap the server may be deleted twice, and the theorem cannot do without its assumption.

*Handshake.* The invariant is said of one connection at a time, since the connections only meet in the queue and
in the line. `Fit` has which states of the stream, the unknown client and the proxy go together, and who owns
and hears whom; a lemma on each step of an object (`FailedFits`, `OrphanFits`, `TakenFits`, ...) shows that it
keeps them. `Mail` has what may be queued for a connection in which state, and in what order: no success after
a failure, nothing ready after its disconnection. Without the order the invariant would not be inductive, since
`handleUnknownClient` trusts that the proxy it is given has not gone meanwhile. `Lined` says that the line has
just those that the listener hears, each once. `OwnedOnce` and `DecisionPending` follow. That nothing deleted is
called needs `Shut` besides, which accounts for the events of the listener through the stop of the server. For
the alarms and the unread messages `Polite` says what a client that only answers may have sent: one message is
under way at most until its shape has been taken, so the filter, which announces the first of what it holds, has
no second one to forget. `Read` is a recursive function on the messages, and what it leads to is shown by
induction on how many have been read (`ReadIsSound`). The refinement maps each connection to its stage from the
owner of its proxy (`Stages`) and takes each handler to one step of `Admission` or to a stutter; the line of
`Admission` is `waiting`, so that a step of the line is one of the sequence.

Only model-checked: liveness and everything with ENABLED, which the proof system does not reach; and what
`FirstConnected` and `MapToNeighbor` compute by recursion, of which the proofs use only where the result lies. No
module uses RECURSIVE operators.

## Not modelled

- *Chunks and wire format* (`ClipboardChunk.cpp`, `FileChunk.cpp`, `ProtocolUtil.cpp`): transfers are one
  message. The static size shared by all proxies is a listed hazard.
- *Layout* (links and intervals of `Config.cpp`, coordinates of `Server.cpp`): arithmetic on the arguments of
  one call, without state of its own. `Server` has links without coordinates and without cycles.
- *Keys* (`InputFilter.cpp`, `KeyState.cpp`, broadcasting): `Server` has the effect of the hotkeys that lock and
  switch. The press on one screen with the release on another is a listed hazard.
- *Primary client and screen, platform screens*: calls to X11, Win32 and Quartz; what the other modules need of
  them is in those modules.
- *Inverse sockets*: the same events as `TCPSocket`, with the roles exchanged. *TLS*: handshakes inside
  `SSL_accept`, `SSL_connect`.
- *Files and drag and drop, IPC, `arch`, `mt`, commands, GUI*: threads that send, wrappers and user interface.
  The repository's `.ts` files are Qt translation catalogues of the GUI, XML without program logic, so no
  definition stands for any of their lines.

In the components that are modelled in part, `PROJECT.json` says what is left out. What would come next:
an abstract clipboard (one owner, one contents, delivered on
entering) that `Clipboard` implements for patient users; a model of keys down per screen under switching,
locking and broadcasting; chunks of two transfers at once.
