------------------------------- MODULE Server -------------------------------
(***************************************************************************)
(* The server's core (class Server, src/lib/server/Server.cpp): which      *)
(* client screens are connected, which one has the cursor, and when the    *)
(* cursor moves to another one.                                            *)
(*                                                                         *)
(* Every action is one event handler; the event loop runs one at a time.   *)
(* Coordinates are abstracted to the screen they were computed for, a      *)
(* configuration to its names, its links per direction and the options     *)
(* below, and the relaying of keys, buttons and clipboards is left out     *)
(* (it changes none of this state).  Drag and drop is off, the default.    *)
(*                                                                         *)
(* A handler that dereferences a client the server has deleted sets        *)
(* crashed, after which nothing is modelled.                               *)
(***************************************************************************)
EXTENDS SwitchState, FiniteSets, Integers, Functions

CONSTANTS
    Names,      \* screen names: canonical names and aliases
    NoName,     \* the empty string
    ServerName, \* the name of the primary screen
    ClientNames,\* the names clients present in their handshakes
    Configs,    \* the configurations the server may be given
    StartConfig,\* the one it starts with
    ActivityDuringSaver,
                \* whether input, or a new shape of the primary, may reach the
                \* server while the screen saver runs (input normally stops it)
    LeaveMayFail,
                \* whether the platform may refuse to leave the primary screen
    MaxTimers   \* bound: close timers one client object may have running

\* Options of a configuration file that matter here.  "corners" is read where
\* it is used; the others are copied into the server by processOptions.
CopiedOptions == {"delay", "twoTap", "needsModifiers", "relative", "disableLock"}
OptionNames == CopiedOptions \cup {"corners"}

ConfigType ==
    [canon   : [Names -> Names \cup {NoName}],
     links   : [Dirs -> [Names -> Names \cup {NoName}]],
     options : [OptionNames -> {"absent", "off", "on"}]]

ASSUME ConfigsAssumption ==
    /\ Configs \subseteq ConfigType
    /\ StartConfig \in Configs
    /\ NoName \notin Names
    /\ ServerName \in Names
    /\ ClientNames \subseteq Names
    /\ StartConfig.canon[ServerName] # NoName

ASSUME SwitchesAssumption ==
    /\ ActivityDuringSaver \in BOOLEAN
    /\ LeaveMayFail \in BOOLEAN
    /\ MaxTimers \in Nat \ {0}

VARIABLES
    \* clients
    clients,     \* m_clients: name -> client, NoProxy where there is none
    clientSet,   \* m_clientSet
    oldClients,  \* keys of m_oldClients: told to close, not gone yet
    closeTimers, \* per proxy, close timers running (handleClientCloseTimeout)
    alive,       \* proxies that have been adopted and not deleted
    name,        \* the name each proxy gave in its handshake, NoName once deleted
    dropped,     \* proxies whose disconnected event is in the event queue
    drain,       \* "idle", "awaited" (disconnect() was called), "announced"
    \* focus
    active,      \* m_active
    activeSaver, \* m_activeSaver
    cursor,      \* the screen m_x, m_y were computed for
    jumpPos,     \* per screen, the screen its jump position was computed for
    entered,     \* screens that were entered and not left
    sides,       \* edges the platform watches (reconfigure)
    saver,       \* whether the screen saver runs on the primary
    saverTold,   \* screens told that it does
    \* switching
    sw,          \* the switch state, see SwitchState
    opts,        \* the options in force
    config,      \* *m_config
    locked,      \* m_lockedToScreen
    crashed      \* a deleted client was used

clientVars == <<clients, clientSet, oldClients, closeTimers, alive, name, dropped, drain>>
focusVars  == <<active, activeSaver, cursor, jumpPos, entered, sides, saver, saverTold>>
switchVars == <<sw, opts, config, locked>>
vars == <<clientVars, focusVars, switchVars, crashed>>

-----------------------------------------------------------------------------
(* Names and neighbours *)

Connected == {clients[n] : n \in Names} \ {NoProxy}

WireName(p) == IF p = Primary THEN ServerName ELSE name[p]

\* getName, under configuration c.
GetNameIn(c, p) ==
    IF c.canon[WireName(p)] = NoName THEN WireName(p) ELSE c.canon[WireName(p)]

GetName(p) == GetNameIn(config, p)

\* Config::getNeighbor: what lies behind edge d of screen n.
Link(n, d) ==
    IF config.canon[n] = NoName THEN NoName ELSE config.links[d][config.canon[n]]

\* Server::getNeighbor: the nearest connected screen behind edge d, over the
\* screens in between that are not connected.
FirstConnected(n, d) ==
    LET Walk[k \in 0..Cardinality(Names)] ==
          [m \in Names |->
             IF k = 0 \/ Link(m, d) = NoName \/ clients[Link(m, d)] # NoProxy
             THEN Link(m, d)
             ELSE Walk[k - 1][Link(m, d)]]
    IN  Walk[Cardinality(Names)][n]

GetNeighbor(p, d) ==
    LET n == FirstConnected(GetName(p), d)
    IN  IF n \in Names THEN clients[n] ELSE NoProxy

\* mapToNeighbor from a secondary screen: a large motion may carry the cursor
\* over connected screens that are smaller than the motion.
MapToNeighbor(p, d) ==
    IF GetNeighbor(p, d) = NoProxy THEN {NoProxy}
    ELSE LET Far[k \in 1..Cardinality(Names)] ==
               IF k = 1 THEN GetNeighbor(p, d)
               ELSE IF Far[k - 1] = NoProxy THEN NoProxy
               ELSE GetNeighbor(Far[k - 1], d)
         IN  {Far[k] : k \in 1..Cardinality(Names)} \cap Connected

\* getActivePrimarySides.
ActivePrimarySides(c, lock) ==
    IF lock THEN {}
    ELSE {d \in Dirs : /\ c.canon[ServerName] # NoName
                       /\ c.links[d][c.canon[ServerName]] # NoName}

\* What reconfigure tells the platform.  Mutant: it is told before the change.
ReconfigureEarly(c, lock) == sides' = ActivePrimarySides(config, locked)

Reconfigure(c, lock) == sides' = ActivePrimarySides(c, lock)

\* Mutant: the lock hotkey is forgotten.
IsHeldToScreen(held) == ~opts["disableLock"] /\ held

IsLockedToScreen(held) == ~opts["disableLock"] /\ (locked \/ held)

\* processOptions: an option the configuration does not mention keeps its
\* value, except for the modifiers, which are reset.
OptionsAfter(c) ==
    [o \in CopiedOptions |->
        IF c.options[o] = "absent"
        THEN o # "needsModifiers" /\ opts[o]
        ELSE c.options[o] = "on"]

SwitchStateAfter(c, s) ==
    LET waited == IF c.options["delay"] = "absent" THEN s ELSE StopSwitchWait(s)
    IN  IF c.options["twoTap"] = "absent" THEN waited ELSE StopSwitchTwoTap(waited)

-----------------------------------------------------------------------------
(* Objects the server holds pointers to *)

Live == alive \cup {Primary}

Intact ==
    /\ active \in Live
    /\ activeSaver \in Live \cup {NoProxy}
    /\ Connected \subseteq Live

\* Events of the window system and hotkeys, while they can occur.
InputArrives == ActivityDuringSaver \/ ~saver

\* Timers are only looked at when the event queue is empty.
QueueEmpty == dropped = {}

-----------------------------------------------------------------------------
(* Moving the cursor *)

\* Mutant: only the wait timer of the attempt is stopped.
SwitchScreenStillTapped(dst, at, s, refused) ==
    /\ sw' = StopSwitchWait(s)
    /\ cursor' = at
    /\ IF active = dst \/ (refused /\ active = Primary)
       THEN UNCHANGED <<active, entered>>
       ELSE /\ active' = dst
            /\ entered' = (entered \ {active}) \cup {dst}

\* switchScreen(dst, ...) at a position computed for screen at, from switch
\* state s.  The position is recorded before the active screen is left, and
\* only the primary can refuse to be left.
SwitchScreen(dst, at, s, refused) ==
    /\ sw' = StopSwitch(s)
    /\ cursor' = at
    /\ IF active = dst \/ (refused /\ active = Primary)
       THEN UNCHANGED <<active, entered>>
       ELSE /\ active' = dst
            /\ entered' = (entered \ {active}) \cup {dst}

Refusals == IF LeaveMayFail THEN BOOLEAN ELSE {FALSE}

\* jumpToScreen
JumpToScreen(dst) ==
    /\ jumpPos' = [jumpPos EXCEPT ![active] = cursor]
    /\ \E refused \in Refusals : SwitchScreen(dst, jumpPos'[dst], sw, refused)

Cornered == config.options["corners"] = "on"

\* onMouseMovePrimary: the cursor is at edges dirh and dirv (NoDir if at none),
\* the horizontal one is tried first.
OnMouseMovePrimary(dirh, dirv, env, late, inward, refused) ==
    LET Try(s, d) == IsSwitchOkay(s, GetNeighbor(Primary, d), d,
                                  opts, Cornered, locked, env)
        h == IF dirh = NoDir THEN [sw |-> sw, ok |-> FALSE] ELSE Try(sw, dirh)
        v == IF dirv = NoDir THEN [sw |-> h.sw, ok |-> FALSE] ELSE Try(h.sw, dirv)
    IN  IF dirh = NoDir /\ dirv = NoDir
        THEN /\ sw' = NoSwitch(sw, late, inward)
             /\ cursor' = Primary
             /\ UNCHANGED <<active, entered>>
        ELSE IF h.ok
        THEN SwitchScreen(GetNeighbor(Primary, dirh), GetNeighbor(Primary, dirh),
                          h.sw, refused)
        ELSE IF v.ok
        THEN SwitchScreen(GetNeighbor(Primary, dirv), GetNeighbor(Primary, dirv),
                          v.sw, refused)
        ELSE /\ sw' = v.sw
             /\ cursor' = Primary
             /\ UNCHANGED <<active, entered>>

\* onMouseMoveSecondary: the cursor stays on the active screen (dir is NoDir;
\* offEdge: it has moved away from the edge a switch was tried on), or pushes
\* against edge dir, behind which dst lies.
OnMouseMoveSecondary(dir, dst, env, late, inward, offEdge) ==
    IF opts["relative"] /\ locked
    THEN UNCHANGED <<sw, cursor, active, entered>>
    ELSE IF dir = NoDir
    THEN /\ sw' = IF sw.screen # NoProxy /\ offEdge
                  THEN NoSwitch(sw, late, inward) ELSE sw
         /\ cursor' = active
         /\ UNCHANGED <<active, entered>>
    ELSE LET try == IsSwitchOkay(sw, dst, dir, opts, Cornered, locked, env)
         IN  IF try.ok
             THEN SwitchScreen(dst, dst, try.sw, FALSE)
             ELSE /\ sw' = try.sw
                  /\ cursor' = active
                  /\ UNCHANGED <<active, entered>>

\* stopRelativeMoves warps the cursor to the centre of the active screen.
CursorAfterRelativeMoves(wasRelative, who, at) ==
    IF wasRelative /\ who # Primary THEN who ELSE at

-----------------------------------------------------------------------------
(* Clients coming and going *)

Running == ~crashed /\ Intact

\* The screen forceLeaveClient compares with: the one the cursor will return to
\* when the screen saver stops, or else the active one.
Focus == IF activeSaver # NoProxy THEN activeSaver ELSE active

SwitchStateAfterLeaving(gone) ==
    IF Focus \in gone /\ Focus = sw.screen THEN StopSwitch(sw) ELSE sw

\* Mutant: the position on the lost screen is kept.
CursorStaysAfterLeaving(gone) == cursor

CursorAfterLeaving(gone) == IF Focus \in gone THEN Primary ELSE cursor

\* Mutant: the primary is not entered.
EnteredUnchanged(gone) == entered

\* The primary is entered again, unless the screen saver has done so already; a
\* client that is gone is not told to leave.
EnteredAfterLeaving(gone) ==
    IF Focus \in gone /\ activeSaver = NoProxy
    THEN entered \cup {Primary} ELSE entered

\* Mutant: the screen to return to after the screen saver is kept.
ForceLeaveKeepingSaver(gone) ==
    /\ active' = IF Focus \in gone THEN Primary ELSE active
    /\ UNCHANGED activeSaver

\* forceLeaveClient for each client in gone, without its effect on sw, cursor,
\* entered and sides.
ForceLeave(gone) ==
    /\ active' = IF Focus \in gone THEN Primary ELSE active
    /\ activeSaver' = IF activeSaver \in gone THEN NoProxy ELSE activeSaver

\* Mutant: the entries are erased under the names the clients presented.
RemoveClientsByWireName(gone, c) ==
    /\ clients' = [n \in Names |->
                     IF \E p \in gone \cap clientSet : WireName(p) = n
                     THEN NoProxy ELSE clients[n]]
    /\ clientSet' = clientSet \ gone

\* removeClient for each client in gone, under configuration c: the entries are
\* erased under the names c gives the clients.
RemoveClients(gone, c) ==
    /\ clients' = [n \in Names |->
                     IF \E p \in gone \cap clientSet : GetNameIn(c, p) = n
                     THEN NoProxy ELSE clients[n]]
    /\ clientSet' = clientSet \ gone

\* Mutant: no timer.
CloseClientsUntimed(gone, c) ==
    /\ RemoveClients(gone, c)
    /\ oldClients' = oldClients \cup gone
    /\ UNCHANGED closeTimers
    /\ ForceLeave(gone)

\* closeClient for each client in gone: a timer, and on to the old clients.
CloseClients(gone, c) ==
    /\ \A p \in gone : closeTimers[p] < MaxTimers
    /\ RemoveClients(gone, c)
    /\ oldClients' = oldClients \cup gone
    /\ closeTimers' = [p \in Proxies |->
                         closeTimers[p] + (IF p \in gone THEN 1 ELSE 0)]
    /\ ForceLeave(gone)

\* removeOldClient.  Mutant: the timer is not deleted.
RemoveOldClientOnly(p) ==
    /\ oldClients' = oldClients \ {p}
    /\ UNCHANGED closeTimers

RemoveOldClient(p) ==
    /\ oldClients' = oldClients \ {p}
    /\ closeTimers' = IF p \in oldClients
                      THEN [closeTimers EXCEPT ![p] = @ - 1] ELSE closeTimers

\* Only the primary is left, and no old client.
Alone(cs, old) == Cardinality({n \in Names : cs[n] # NoProxy}) = 1 /\ old = {}

\* The server posts its disconnected event.
Announce == drain' = IF drain = "awaited" THEN "announced" ELSE drain

\* adoptClient: a client has finished its handshake under name w.
AdoptClient(p, w) ==
    LET n == IF config.canon[w] = NoName THEN w ELSE config.canon[w]
    IN  /\ Running
        /\ p \notin alive
        /\ alive' = alive \cup {p}
        /\ name' = [name EXCEPT ![p] = w]
        /\ Reconfigure(config, locked)
        /\ \/ /\ config.canon[w] # NoName /\ clients[n] = NoProxy
              /\ clients' = [clients EXCEPT ![n] = p]
              /\ clientSet' = clientSet \cup {p}
              /\ jumpPos' = [jumpPos EXCEPT ![p] = p]
              /\ saverTold' = IF activeSaver # NoProxy
                              THEN saverTold \cup {p} ELSE saverTold
              /\ UNCHANGED <<oldClients, closeTimers>>
           \/ /\ config.canon[w] = NoName \/ clients[n] # NoProxy
              /\ closeTimers[p] < MaxTimers
              /\ oldClients' = oldClients \cup {p}
              /\ closeTimers' = [closeTimers EXCEPT ![p] = @ + 1]
              /\ UNCHANGED <<clients, clientSet, jumpPos, saverTold>>
        /\ UNCHANGED <<dropped, drain, active, activeSaver, cursor, entered,
                       saver, switchVars, crashed>>

\* A client's connection ends or falls silent: its proxy stops listening to it
\* and queues its disconnected event.
ClientProxyDisconnect(p) ==
    /\ Running
    /\ p \in alive \ dropped
    /\ dropped' = dropped \cup {p}
    /\ UNCHANGED <<clients, clientSet, oldClients, closeTimers, alive, name,
                   drain, focusVars, switchVars, crashed>>

\* handleClientDisconnected: removeActiveClient, removeOldClient, delete.
HandleClientDisconnected(p) ==
    LET member == p \in clientSet
        old    == p \in oldClients
    IN  /\ Running
        /\ p \in dropped
        /\ IF member
           THEN /\ RemoveClients({p}, config)
                /\ ForceLeave({p})
                /\ entered' = EnteredAfterLeaving({p}) \ {p}
                /\ sw' = SwitchStateAfterLeaving({p})
                /\ cursor' = CursorAfterLeaving({p})
                /\ Reconfigure(config, locked)
           ELSE /\ entered' = entered \ {p}
                /\ UNCHANGED <<clients, clientSet, active, activeSaver, sw,
                               cursor, sides>>
        /\ RemoveOldClient(p)
        /\ IF (member \/ old) /\ Alone(clients', oldClients')
           THEN Announce ELSE UNCHANGED drain
        /\ alive' = alive \ {p}
        /\ name' = [name EXCEPT ![p] = NoName]
        /\ dropped' = dropped \ {p}
        /\ saverTold' = saverTold \ {p}
        /\ UNCHANGED <<jumpPos, saver, opts, config, locked, crashed>>

\* handleClientCloseTimeout: the client did not close in time.
HandleClientCloseTimeout(p) ==
    /\ Running
    /\ QueueEmpty
    /\ closeTimers[p] > 0
    /\ closeTimers' = [closeTimers EXCEPT ![p] = @ - 1]
    /\ IF p \in alive
       THEN /\ oldClients' = oldClients \ {p}
            /\ IF p \in oldClients /\ Alone(clients, oldClients')
               THEN Announce ELSE UNCHANGED drain
            /\ alive' = alive \ {p}
            /\ name' = [name EXCEPT ![p] = NoName]
            /\ entered' = entered \ {p}
            /\ UNCHANGED crashed
       ELSE /\ crashed' = TRUE
            /\ UNCHANGED <<oldClients, drain, alive, name, entered>>
    /\ UNCHANGED <<clients, clientSet, dropped, active, activeSaver, cursor,
                   jumpPos, saverTold, sides, saver, switchVars>>

\* ServerApp::reloadConfig and setConfig.  The file is read into the object
\* m_config points to before setConfig can refuse it.
ReloadConfig(c) ==
    LET gone == {clients[n] : n \in {m \in Names : c.canon[m] # m}}
                  \ {Primary, NoProxy}
    IN  /\ Running
        /\ config' = c
        /\ IF c.canon[ServerName] = NoName
           THEN UNCHANGED <<clientVars, focusVars, sw, opts>>
           ELSE /\ CloseClients(gone, c)
                /\ entered' = EnteredAfterLeaving(gone)
                /\ opts' = OptionsAfter(c)
                /\ sw' = SwitchStateAfter(c, SwitchStateAfterLeaving(gone))
                /\ cursor' = CursorAfterRelativeMoves(
                               opts["relative"] /\ ~opts'["relative"],
                               active', CursorAfterLeaving(gone))
                /\ Reconfigure(c, locked)
                /\ saverTold' = saverTold \ gone
                /\ UNCHANGED <<alive, name, dropped, drain, jumpPos, saver>>
        /\ UNCHANGED <<locked, crashed>>

\* disconnect, called to force reconnection and before the server is closed.
Disconnect ==
    LET gone == Connected \ {Primary}
    IN  /\ Running
        /\ IF Alone(clients, oldClients)
           THEN /\ drain' = "announced"
                /\ UNCHANGED <<clients, clientSet, oldClients, closeTimers,
                               active, activeSaver, entered, sw, cursor, sides,
                               saverTold>>
           ELSE /\ drain' = "awaited"
                /\ CloseClients(gone, config)
                /\ entered' = EnteredAfterLeaving(gone)
                /\ sw' = SwitchStateAfterLeaving(gone)
                /\ cursor' = CursorAfterLeaving(gone)
                /\ IF gone = {} THEN UNCHANGED sides
                                ELSE Reconfigure(config, locked)
                /\ saverTold' = saverTold \ gone
        /\ UNCHANGED <<alive, name, dropped, jumpPos, saver, opts, config,
                       locked, crashed>>

-----------------------------------------------------------------------------
(* Input events *)

\* What a motion does not change.
MotionFrame == UNCHANGED <<clientVars, activeSaver, sides, saver, saverTold,
                           opts, config, locked, crashed>>

\* The cursor is at no edge, at one, or in a corner.
HandleMotionPrimaryEvent ==
    /\ Running /\ InputArrives
    /\ active = Primary
    /\ \E dirh \in (Dirs \cap {"left", "right"}) \cup {NoDir},
          dirv \in (Dirs \cap {"top", "bottom"}) \cup {NoDir},
          env \in Readings(opts, Cornered), late, inward \in Vary(sw.engaged),
          refused \in Refusals :
         OnMouseMovePrimary(dirh, dirv, env, late, inward, refused)
    /\ UNCHANGED jumpPos
    /\ MotionFrame

HandleMotionSecondaryEvent ==
    /\ Running /\ InputArrives
    /\ active # Primary
    /\ \E dir \in Dirs \cup {NoDir}, env \in Readings(opts, Cornered),
          late, inward \in Vary(sw.engaged), offEdge \in Vary(sw.screen # NoProxy) :
         \E dst \in IF dir = NoDir THEN {NoProxy} ELSE MapToNeighbor(active, dir) :
           OnMouseMoveSecondary(dir, dst, env, late, inward, offEdge)
    /\ UNCHANGED jumpPos
    /\ MotionFrame

\* handleShapeChanged: a connected screen reports its shape and cursor; that of
\* the primary is followed by a motion there, or by one of (0,0).
HandleShapeChanged(p) ==
    /\ Running /\ (p = Primary => InputArrives)
    /\ p \in clientSet
    /\ jumpPos' = [jumpPos EXCEPT ![p] = p]
    /\ IF p # Primary
       THEN /\ cursor' = IF p = active THEN p ELSE cursor
            /\ UNCHANGED <<sw, active, entered>>
       ELSE IF active = Primary
       THEN \E dirh \in (Dirs \cap {"left", "right"}) \cup {NoDir},
               dirv \in (Dirs \cap {"top", "bottom"}) \cup {NoDir},
               env \in Readings(opts, Cornered), late, inward \in Vary(sw.engaged),
          refused \in Refusals :
              OnMouseMovePrimary(dirh, dirv, env, late, inward, refused)
       ELSE \E late, inward \in Vary(sw.engaged), offEdge \in Vary(sw.screen # NoProxy) :
              OnMouseMoveSecondary(NoDir, NoProxy,
                [fast |-> FALSE, held |-> FALSE, corner |-> FALSE, mods |-> FALSE],
                late, inward, offEdge)
    /\ MotionFrame

\* handleSwitchWaitTimeout: the cursor has stayed at the edge long enough.
HandleSwitchWaitTimeout ==
    /\ Running
    /\ QueueEmpty
    /\ sw.wait
    /\ \E held \in BOOLEAN, refused \in Refusals :
         IF IsLockedToScreen(held)
         THEN /\ sw' = StopSwitch(sw)
              /\ UNCHANGED <<cursor, active, entered, crashed>>
         ELSE IF sw.screen \in Live
         THEN /\ SwitchScreen(sw.screen, sw.waitFor, sw, refused)
              /\ UNCHANGED crashed
         ELSE /\ crashed' = TRUE
              /\ UNCHANGED <<sw, cursor, active, entered>>
    /\ UNCHANGED <<clientVars, activeSaver, jumpPos, sides, saver, saverTold,
                   opts, config, locked>>

\* handleSwitchToScreenEvent, of a hotkey.
HandleSwitchToScreenEvent(n) ==
    /\ Running /\ InputArrives
    /\ clients[n] # NoProxy
    /\ JumpToScreen(clients[n])
    /\ MotionFrame

\* handleSwitchInDirectionEvent, of a hotkey.
HandleSwitchInDirectionEvent(d) ==
    /\ Running /\ InputArrives
    /\ GetNeighbor(active, d) # NoProxy
    /\ JumpToScreen(GetNeighbor(active, d))
    /\ MotionFrame

\* handleLockCursorToScreenEvent, of a hotkey (Scroll Lock by default); only a
\* change of the state has an effect.
HandleLockCursorToScreenEvent ==
    /\ Running /\ InputArrives
    /\ locked' = ~locked
    /\ Reconfigure(config, locked')
    /\ cursor' = CursorAfterRelativeMoves(~locked' /\ opts["relative"], active, cursor)
    /\ UNCHANGED <<clientVars, active, activeSaver, jumpPos, entered, saver,
                   saverTold, sw, opts, config, crashed>>

\* onScreensaver(true): the cursor goes to the primary for the duration.
ScreensaverActivated ==
    /\ Running
    /\ ~saver
    /\ saver' = TRUE
    /\ activeSaver' = active
    /\ IF active # Primary
       THEN SwitchScreen(Primary, Primary, sw, FALSE)
       ELSE UNCHANGED <<sw, cursor, active, entered>>
    /\ saverTold' = saverTold \cup Connected
    /\ UNCHANGED <<clientVars, jumpPos, sides, opts, config, locked, crashed>>

\* onScreensaver(false): and back, to a position of that screen.
ScreensaverDeactivated ==
    /\ Running
    /\ saver
    /\ saver' = FALSE
    /\ activeSaver' = NoProxy
    /\ IF activeSaver \notin {NoProxy, Primary}
       THEN \E refused \in Refusals :
              SwitchScreen(activeSaver, activeSaver, sw, refused)
       ELSE UNCHANGED <<sw, cursor, active, entered>>
    /\ saverTold' = saverTold \ Connected
    /\ UNCHANGED <<clientVars, jumpPos, sides, opts, config, locked, crashed>>

\* A handler follows a pointer to a deleted client.
UseDestroyed ==
    /\ ~crashed /\ ~Intact
    /\ crashed' = TRUE
    /\ UNCHANGED <<clientVars, focusVars, switchVars>>

-----------------------------------------------------------------------------
Init ==
    /\ clients = [n \in Names |->
                    IF n = StartConfig.canon[ServerName] THEN Primary ELSE NoProxy]
    /\ clientSet = {Primary}
    /\ oldClients = {}
    /\ closeTimers = [p \in Proxies |-> 0]
    /\ alive = {}
    /\ name = [p \in Proxies |-> NoName]
    /\ dropped = {}
    /\ drain = "idle"
    /\ active = Primary
    /\ activeSaver = NoProxy
    /\ cursor = Primary
    /\ jumpPos = [p \in Screens |-> p]
    /\ entered = {Primary}
    /\ sides = ActivePrimarySides(StartConfig, FALSE)
    /\ saver = FALSE
    /\ saverTold = {}
    /\ sw = Idle
    /\ opts = [o \in CopiedOptions |-> StartConfig.options[o] = "on"]
    /\ config = StartConfig
    /\ locked \in BOOLEAN
    /\ crashed = FALSE

Next ==
    \/ \E p \in Proxies, w \in ClientNames : AdoptClient(p, w)
    \/ \E p \in Proxies : \/ ClientProxyDisconnect(p)
                          \/ HandleClientDisconnected(p)
                          \/ HandleClientCloseTimeout(p)
    \/ \E c \in Configs : ReloadConfig(c)
    \/ Disconnect
    \/ HandleMotionPrimaryEvent
    \/ HandleMotionSecondaryEvent
    \/ \E p \in Screens : HandleShapeChanged(p)
    \/ HandleSwitchWaitTimeout
    \/ \E n \in Names : HandleSwitchToScreenEvent(n)
    \/ \E d \in Dirs : HandleSwitchInDirectionEvent(d)
    \/ HandleLockCursorToScreenEvent
    \/ ScreensaverActivated
    \/ ScreensaverDeactivated
    \/ UseDestroyed

Spec == Init /\ [][Next]_vars

\* The event loop dispatches what is queued; it looks at the timers whenever the
\* queue is empty, before it waits for anything else, so a timer that finds the
\* queue empty again and again does expire.
Fairness ==
    \A p \in Proxies : /\ WF_vars(HandleClientDisconnected(p))
                       /\ SF_vars(HandleClientCloseTimeout(p))

FairSpec == Spec /\ Fairness

-----------------------------------------------------------------------------
(* Properties *)

\* The type of every variable.
TypeOK ==
    /\ clients \in [Names -> Screens \cup {NoProxy}]
    /\ clientSet \subseteq Screens
    /\ oldClients \subseteq Proxies
    /\ closeTimers \in [Proxies -> 0..MaxTimers]
    /\ alive \subseteq Proxies
    /\ name \in [Proxies -> Names \cup {NoName}]
    /\ dropped \subseteq Proxies
    /\ drain \in {"idle", "awaited", "announced"}
    /\ active \in Screens
    /\ activeSaver \in Screens \cup {NoProxy}
    /\ cursor \in Screens
    /\ jumpPos \in [Screens -> Screens]
    /\ entered \subseteq Screens
    /\ sides \subseteq Dirs
    /\ saver \in BOOLEAN
    /\ saverTold \subseteq Screens
    /\ sw \in SwitchStates
    /\ opts \in [CopiedOptions -> BOOLEAN]
    /\ config \in Configs
    /\ locked \in BOOLEAN
    /\ crashed \in BOOLEAN

\* A wait timer or a first tap never outlives its target: handleSwitchWaitTimeout
\* passes m_switchScreen to switchScreen without a test for NULL, and stopSwitch
\* stops the timer only if there is a target.
PendingSwitchHasTarget == WellAimed(sw)

\* m_clientSet and m_clients hold the same clients, each under the name getName
\* gives it now, although they are updated by pointer and by name.
MembershipAgrees ==
    /\ clientSet = Connected
    /\ \A n \in Names : clients[n] # NoProxy => GetName(clients[n]) = n

\* Every client object the server owns is either connected or waiting to close,
\* never both, and exactly the closing ones have a (single) close timer: none is
\* leaked, none can be deleted twice.
ProxiesAccounted ==
    /\ alive = (clientSet \ {Primary}) \cup oldClients
    /\ clientSet \cap oldClients = {}
    /\ dropped \subseteq alive
    /\ \A p \in Proxies : closeTimers[p] = IF p \in oldClients THEN 1 ELSE 0

\* The cursor is on a connected screen, and will return to one when the screen
\* saver stops: whoever leaves is jumped off (forceLeaveClient).
ActiveIsConnected ==
    /\ active \in clientSet
    /\ activeSaver \in clientSet \cup {NoProxy}

\* Of the connected screens exactly the active one has been entered: enter and
\* leave alternate on each (Screen asserts it), across switches, forced leaves,
\* refused leaves and the screen saver.
EnteredIsActive == entered \cap clientSet = {active}

\* m_x, m_y are coordinates of the active screen and each screen's jump position
\* is one of its own, so that a later jump lands inside it.
CursorOnActive ==
    /\ cursor = active
    /\ \A p \in clientSet : jumpPos[p] = p

\* The platform watches an edge of an unlocked primary exactly if the configuration
\* has a link behind it, connected or not, after any order of locks, unlocks and
\* reloads of files that declare the server's screen: setConfig refuses others, but
\* by then they are read into the configuration, and the edges stay as they were.
SidesCurrent == ~locked => sides = ActivePrimarySides(config, FALSE)

\* A switch between connected screens leaves no attempt behind: no timer or tap
\* of the old screen's edge acts on the new one.
SwitchClearsAttempt ==
    [][active' # active /\ active \in clientSet' => sw' = Idle]_vars

\* The cursor of a locked screen goes away only by a hotkey, for the screen saver
\* or because the screen does: neither a motion nor a delayed switch that was
\* started before it was locked takes it.
LockHoldsCursor ==
    [][(/\ locked /\ ~opts["disableLock"]
        /\ active' # active /\ active \in clientSet')
       => \/ \E n \in Names : HandleSwitchToScreenEvent(n)
          \/ \E d \in Dirs : HandleSwitchInDirectionEvent(d)
          \/ saver' # saver]_vars

\* Provided the event queue is empty again and again, a client that was told to
\* close is gone eventually, whether it answers or not.
OldClientsGo ==
    []<>QueueEmpty =>
      \A p \in Proxies : p \in oldClients ~> p \notin oldClients

(* What comments of the code say, and the code does not do *)

\* "stop waiting to switch to this client" (forceLeaveClient): no switch is
\* waiting to go to a screen that is no longer connected.
SwitchTargetConnected == sw.screen # NoProxy => sw.screen \in clientSet

\* "all tests are always trying to reach the same screen in the same direction"
\* (m_switchDir, m_switchScreen): the delayed switch goes to the screen that its
\* position was computed for.
WaitAimsAtTarget == sw.wait => sw.waitFor = sw.screen

\* Clients "who's canonical name is changing" are closed (closeClients): after
\* any reload a connected client is listed under its canonical name.
ListedByCanonicalName ==
    \A p \in clientSet : clients[GetName(p)] = p

\* "activate screen saver on new client if active on the primary screen"
\* (adoptClient): while the screen saver runs every connected screen was told.
SaverReachesAll == saver => clientSet \subseteq saverTold
=============================================================================
