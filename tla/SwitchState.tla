---------------------------- MODULE SwitchState ----------------------------
(***************************************************************************)
(* The state of a pending screen switch (class Server, Server.cpp) and the *)
(* operations on it, as functions from one value of that state to the      *)
(* next.  The cursor is on the active screen and pushes against one of its *)
(* edges; the options of the configuration may require the user to stay    *)
(* there for a while (switchDelay) or to tap the edge twice                *)
(* (switchDoubleTap) before the cursor goes over to the neighbour.         *)
(*                                                                         *)
(* Coordinates are abstracted to the screen they were computed for: the    *)
(* position saved for a delayed switch is "a position of waitFor".  The    *)
(* two stopwatches are readings taken from the environment.                *)
(***************************************************************************)
CONSTANTS
    Proxies,    \* connections to secondary screens (ClientProxy objects)
    Primary,    \* the PrimaryClient
    NoProxy,    \* a NULL BaseClientProxy*
    Dirs,       \* EDirection without kNoDirection
    NoDir       \* kNoDirection

ASSUME ScreensDistinct ==
    /\ Primary \notin Proxies
    /\ NoProxy \notin Proxies \cup {Primary}
    /\ NoDir \notin Dirs

Screens == Proxies \cup {Primary}

\* The switch state: the target of the attempt (m_switchScreen, m_switchDir),
\* whether m_switchWaitTimer is set and the screen m_switchWaitX/Y lie on, and
\* the double tap flags (m_switchTwoTapEngaged, m_switchTwoTapArmed).
SwitchStates ==
    [screen  : Screens \cup {NoProxy},
     dir     : Dirs \cup {NoDir},
     wait    : BOOLEAN,
     waitFor : Screens \cup {NoProxy},
     engaged : BOOLEAN,
     armed   : BOOLEAN]

Idle ==
    [screen |-> NoProxy, dir |-> NoDir, wait |-> FALSE,
     waitFor |-> NoProxy, engaged |-> FALSE, armed |-> FALSE]

\* What the environment reports while an edge is being tested: the second tap
\* came within the delay, the platform says the cursor is locked (a button is
\* held), the cursor is in a locked corner, the needed modifiers are down.  What
\* the options make irrelevant is not varied.
Vary(relevant) == IF relevant THEN BOOLEAN ELSE {FALSE}

Readings(opts, cornered) ==
    [fast   : Vary(opts["twoTap"]),
     held   : Vary(~opts["disableLock"]),
     corner : Vary(cornered),
     mods   : Vary(opts["needsModifiers"])]

StopSwitchWait(s) == [s EXCEPT !.wait = FALSE, !.waitFor = NoProxy]

StartSwitchWait(s, dst) == [s EXCEPT !.wait = TRUE, !.waitFor = dst]

StopSwitchTwoTap(s) == [s EXCEPT !.engaged = FALSE, !.armed = FALSE]

StartSwitchTwoTap(s) == [s EXCEPT !.engaged = TRUE, !.armed = FALSE]

\* Mutant: the wait timer is not stopped.
StopSwitchLeavingTimer(s) ==
    IF s.screen = NoProxy
    THEN s
    ELSE StopSwitchTwoTap([s EXCEPT !.screen = NoProxy, !.dir = NoDir])

\* The switch state is only cleared when there is a target.
StopSwitch(s) ==
    IF s.screen = NoProxy
    THEN s
    ELSE StopSwitchTwoTap(StopSwitchWait([s EXCEPT !.screen = NoProxy,
                                                   !.dir = NoDir]))

\* late: the double tap delay is over; inward: the cursor has left the tap
\* zone, moving away from the edge.
ArmSwitchTwoTap(s, late, inward) ==
    IF ~s.engaged THEN s
    ELSE IF late THEN StopSwitchTwoTap(s)
    ELSE IF s.armed \/ s.dir = NoDir THEN s
    ELSE [s EXCEPT !.armed = inward]

NoSwitch(s, late, inward) == StopSwitchWait(ArmSwitchTwoTap(s, late, inward))

\* A push against edge dir, behind which dst lies, belongs to the attempt under way or
\* begins another.
AimAt(s, dst, dir) ==
    IF dir # s.dir \/ s.screen = NoProxy THEN [s EXCEPT !.screen = dst, !.dir = dir] ELSE s

SecondTap(s, dir, env) == dir = s.dir /\ s.engaged /\ s.armed /\ env.fast

\* The push is only remembered, as the first of two taps or until the wait is over.
FirstTap(opts, second) == opts["twoTap"] /\ ~second
WaitsFirst(opts, second) == opts["delay"] /\ ~(opts["twoTap"] /\ second)

Prepared(s, dst, dir, opts, second) ==
    LET aimed == AimAt(s, dst, dir)
        tapped == IF FirstTap(opts, second) THEN StartSwitchTwoTap(aimed) ELSE aimed
    IN  IF WaitsFirst(opts, second) /\ (dir # s.dir \/ ~tapped.wait)
        THEN StartSwitchWait(tapped, dst)
        ELSE tapped

\* Nothing is remembered: a locked corner, and, unless the push is for later, a lock or
\* missing modifiers.
Prevented(opts, cornered, locked, env, later) ==
    \/ cornered /\ env.corner
    \/ /\ ~later
       /\ \/ ~opts["disableLock"] /\ (locked \/ env.held)
          \/ opts["needsModifiers"] /\ ~env.mods

\* isSwitchOkay: whether pushing against edge dir, behind which dst lies, takes
\* the cursor there now, and what is remembered for a later switch.  opts holds
\* the options in force, cornered the "no switch from corners" option, and
\* locked m_lockedToScreen.
IsSwitchOkay(s, dst, dir, opts, cornered, locked, env) ==
    LET second == SecondTap(s, dir, env)
        later == FirstTap(opts, second) \/ WaitsFirst(opts, second)
        blocked == Prevented(opts, cornered, locked, env, later)
        prepared == Prepared(s, dst, dir, opts, second)
    IN  IF dst = NoProxy
        THEN [sw |-> StopSwitch(s), ok |-> FALSE]
        ELSE [sw |-> IF blocked THEN StopSwitch(prepared) ELSE prepared,
              ok |-> ~later /\ ~blocked]

\* The invariant of the switch state: a timer or a tap always has a target to
\* lead to, and a target always has the direction it was found in.
WellAimed(s) ==
    /\ s.screen = NoProxy <=> s.dir = NoDir
    /\ s.wait \/ s.engaged => s.screen # NoProxy
    /\ s.armed => s.engaged
    /\ s.wait <=> s.waitFor # NoProxy
=============================================================================
