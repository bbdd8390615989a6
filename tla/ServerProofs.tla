---------------------------- MODULE ServerProofs ----------------------------
(***************************************************************************)
(* Theorems about Server: its types, the switch attempt and the lock; then *)
(* which clients are connected, and which screen has the cursor.           *)
(* They hold for any connections, names, directions and configurations,    *)
(* under what is assumed where it is needed.                               *)
(***************************************************************************)
EXTENDS Server, TLAPS

-----------------------------------------------------------------------------
(* Lemmas about the switch state *)

Aimed(s) == s \in SwitchStates /\ WellAimed(s)

\* Idle is a switch state.
LEMMA IdleAimed == Aimed(Idle)
  BY ScreensDistinct DEF Aimed, Idle, SwitchStates, WellAimed, Screens

\* stopSwitch clears a well aimed switch state completely, although it does
\* nothing when there is no target.
LEMMA StopSwitchIdle ==
  ASSUME NEW s, Aimed(s)
  PROVE  StopSwitch(s) = Idle
  BY ScreensDistinct DEF Aimed, Idle, SwitchStates, WellAimed, Screens, StopSwitch,
     StopSwitchWait, StopSwitchTwoTap

\* Stopping the wait or the taps, or doing both half way, keeps a switch state
\* well aimed.
LEMMA StopsAimed ==
  ASSUME NEW s, Aimed(s), NEW late \in BOOLEAN, NEW inward \in BOOLEAN
  PROVE  /\ Aimed(StopSwitchWait(s))
         /\ Aimed(StopSwitchTwoTap(s))
         /\ Aimed(ArmSwitchTwoTap(s, late, inward))
         /\ Aimed(NoSwitch(s, late, inward))
  <1>1. \A t : Aimed(t) => Aimed(StopSwitchWait(t))
    BY ScreensDistinct DEF Aimed, SwitchStates, WellAimed, StopSwitchWait
  <1>2. \A t : Aimed(t) => Aimed(StopSwitchTwoTap(t))
    BY ScreensDistinct DEF Aimed, SwitchStates, WellAimed, StopSwitchTwoTap
  <1>3. Aimed(ArmSwitchTwoTap(s, late, inward))
    BY <1>2, ScreensDistinct DEF Aimed, SwitchStates, WellAimed, ArmSwitchTwoTap
  <1>4. QED
    BY <1>1, <1>2, <1>3 DEF NoSwitch

\* What a push prepares is well aimed: a wait and a tap begin with a target.
LEMMA PreparedAimed ==
  ASSUME NEW s, Aimed(s), NEW dst \in Screens, NEW dir \in Dirs, NEW o, NEW second
  PROVE  Aimed(Prepared(s, dst, dir, o, second))
  <1> DEFINE aimed == AimAt(s, dst, dir)
             tapped == IF FirstTap(o, second) THEN StartSwitchTwoTap(aimed) ELSE aimed
  <1>1. Aimed(aimed) /\ aimed.screen # NoProxy
    BY ScreensDistinct DEF Aimed, SwitchStates, WellAimed, Screens, AimAt
  <1> HIDE DEF aimed
  <1>2. Aimed(tapped) /\ tapped.screen # NoProxy
    BY <1>1 DEF Aimed, SwitchStates, WellAimed, StartSwitchTwoTap
  <1>3. Prepared(s, dst, dir, o, second) \in {tapped, StartSwitchWait(tapped, dst)}
    BY DEF Prepared, aimed
  <1> HIDE DEF tapped
  <1>4. Aimed(StartSwitchWait(tapped, dst))
    BY <1>2, ScreensDistinct DEF Aimed, SwitchStates, WellAimed, StartSwitchWait, Screens
  <1>5. QED
    BY <1>2, <1>3, <1>4

\* isSwitchOkay keeps the switch state well aimed and never lets the cursor go
\* where there is no screen.
LEMMA IsSwitchOkayAimed ==
  ASSUME NEW s, Aimed(s), NEW dst \in Screens \cup {NoProxy}, NEW dir \in Dirs,
         NEW o, NEW cornered, NEW lock, NEW env
  PROVE  LET r == IsSwitchOkay(s, dst, dir, o, cornered, lock, env)
         IN  Aimed(r.sw) /\ (r.ok => dst \in Screens)
  <1> DEFINE second == SecondTap(s, dir, env)
             later == FirstTap(o, second) \/ WaitsFirst(o, second)
             blocked == Prevented(o, cornered, lock, env, later)
             prepared == Prepared(s, dst, dir, o, second)
  <1>1. CASE dst = NoProxy
    BY <1>1, StopSwitchIdle, IdleAimed DEF IsSwitchOkay
  <1>2. CASE dst # NoProxy
    <2>1. Aimed(prepared)
      BY <1>2, PreparedAimed
    <2>2. IsSwitchOkay(s, dst, dir, o, cornered, lock, env)
            = [sw |-> IF blocked THEN StopSwitch(prepared) ELSE prepared,
               ok |-> ~later /\ ~blocked]
      BY <1>2 DEF IsSwitchOkay
    <2> HIDE DEF blocked, later, prepared
    <2>3. Aimed(IF blocked THEN StopSwitch(prepared) ELSE prepared)
      BY <2>1, StopSwitchIdle, IdleAimed
    <2>4. QED
      BY <1>2, <2>2, <2>3
  <1>3. QED
    BY <1>1, <1>2

\* A reload may stop the wait and the taps, which keeps the state well aimed.
LEMMA SwitchStateAfterAimed ==
  ASSUME NEW s, Aimed(s), NEW c
  PROVE  Aimed(SwitchStateAfter(c, s))
  BY StopsAimed DEF SwitchStateAfter

-----------------------------------------------------------------------------
(* The inductive invariant behind type correctness *)

\* A client on the closing list exists and has a timer to take it off.
TimersCover == \A p \in oldClients : p \in alive /\ closeTimers[p] > 0

BasicInv == TypeOK /\ WellAimed(sw) /\ TimersCover

\* A neighbour is a screen or none, whatever the links say.
LEMMA NeighborType ==
  ASSUME TypeOK, NEW p, NEW d
  PROVE  /\ GetNeighbor(p, d) \in Screens \cup {NoProxy}
         /\ Connected \subseteq Screens
         /\ MapToNeighbor(p, d) \subseteq Screens \cup {NoProxy}
  <1>1. \A n \in Names : clients[n] \in Screens \cup {NoProxy}
    BY DEF TypeOK
  <1>2. GetNeighbor(p, d) \in Screens \cup {NoProxy}
    BY <1>1 DEF GetNeighbor
  <1>3. Connected \subseteq Screens
    BY <1>1 DEF Connected
  <1>4. MapToNeighbor(p, d) \subseteq Screens \cup {NoProxy}
    BY <1>3 DEF MapToNeighbor
  <1>5. QED
    BY <1>2, <1>3, <1>4

\* What switchScreen leaves behind.
LEMMA SwitchScreenType ==
  ASSUME TypeOK, NEW s, Aimed(s), NEW dst \in Screens, NEW at \in Screens,
         NEW refused, SwitchScreen(dst, at, s, refused)
  PROVE  /\ sw' = Idle /\ Aimed(sw')
         /\ cursor' \in Screens
         /\ active' \in Screens
         /\ entered' \subseteq Screens
  BY StopSwitchIdle, IdleAimed DEF SwitchScreen, TypeOK

\* The types a motion preserves.
MotionResult ==
  /\ Aimed(sw')
  /\ cursor' \in Screens
  /\ active' \in Screens
  /\ entered' \subseteq Screens

\* What a motion on the primary leaves behind.
LEMMA MotionPrimaryType ==
  ASSUME BasicInv,
         NEW dirh \in Dirs \cup {NoDir}, NEW dirv \in Dirs \cup {NoDir}, NEW env,
         NEW late \in BOOLEAN, NEW inward \in BOOLEAN, NEW refused,
         OnMouseMovePrimary(dirh, dirv, env, late, inward, refused)
  PROVE  MotionResult
  <1> DEFINE Try(s, d) == IsSwitchOkay(s, GetNeighbor(Primary, d), d,
                                       opts, Cornered, locked, env)
             h == IF dirh = NoDir THEN [sw |-> sw, ok |-> FALSE] ELSE Try(sw, dirh)
             v == IF dirv = NoDir THEN [sw |-> h.sw, ok |-> FALSE] ELSE Try(h.sw, dirv)
  <1>1. Aimed(sw) /\ Primary \in Screens
    BY DEF BasicInv, TypeOK, Aimed, Screens
  <1>2. \A s, d : Aimed(s) /\ d \in Dirs =>
          Aimed(Try(s, d).sw) /\ (Try(s, d).ok => GetNeighbor(Primary, d) \in Screens)
    BY IsSwitchOkayAimed, NeighborType DEF BasicInv
  <1> HIDE DEF Try
  <1>3. Aimed(h.sw) /\ (h.ok => GetNeighbor(Primary, dirh) \in Screens)
    BY <1>1, <1>2
  <1> HIDE DEF h
  <1>4. Aimed(v.sw) /\ (v.ok => GetNeighbor(Primary, dirv) \in Screens)
    BY <1>2, <1>3
  <1>5. \/ /\ sw' = NoSwitch(sw, late, inward)
           /\ cursor' = Primary /\ UNCHANGED <<active, entered>>
        \/ /\ h.ok
           /\ SwitchScreen(GetNeighbor(Primary, dirh), GetNeighbor(Primary, dirh),
                           h.sw, refused)
        \/ /\ v.ok
           /\ SwitchScreen(GetNeighbor(Primary, dirv), GetNeighbor(Primary, dirv),
                           v.sw, refused)
        \/ /\ sw' = v.sw
           /\ cursor' = Primary /\ UNCHANGED <<active, entered>>
    BY DEF OnMouseMovePrimary, h, Try
  <1> HIDE DEF v
  <1>6. QED
    BY <1>1, <1>3, <1>4, <1>5, StopsAimed, SwitchScreenType
       DEF MotionResult, BasicInv, TypeOK

\* What a motion on a secondary screen leaves behind.
LEMMA MotionSecondaryType ==
  ASSUME BasicInv,
         NEW dir \in Dirs \cup {NoDir}, NEW dst \in Screens \cup {NoProxy}, NEW env,
         NEW late \in BOOLEAN, NEW inward \in BOOLEAN, NEW offEdge,
         OnMouseMoveSecondary(dir, dst, env, late, inward, offEdge)
  PROVE  MotionResult
  <1> DEFINE try == IsSwitchOkay(sw, dst, dir, opts, Cornered, locked, env)
  <1>1. Aimed(sw) /\ active \in Screens /\ cursor \in Screens
        /\ entered \subseteq Screens
    BY DEF BasicInv, TypeOK, Aimed
  <1>2. dir # NoDir => Aimed(try.sw) /\ (try.ok => dst \in Screens)
    BY <1>1, IsSwitchOkayAimed
  <1>3. \/ UNCHANGED <<sw, cursor, active, entered>>
        \/ /\ sw' \in {sw, NoSwitch(sw, late, inward)}
           /\ cursor' = active /\ UNCHANGED <<active, entered>>
        \/ dir # NoDir /\ try.ok /\ SwitchScreen(dst, dst, try.sw, FALSE)
        \/ /\ dir # NoDir /\ sw' = try.sw
           /\ cursor' = active /\ UNCHANGED <<active, entered>>
    BY DEF OnMouseMoveSecondary
  <1> HIDE DEF try
  <1>4. QED
    BY <1>1, <1>2, <1>3, StopsAimed, SwitchScreenType DEF MotionResult, BasicInv

\* Options stay Booleans and a configuration gives no sides but directions.
LEMMA ConfigTypes ==
  ASSUME TypeOK, NEW c, NEW lock
  PROVE  /\ OptionsAfter(c) \in [CopiedOptions -> BOOLEAN]
         /\ ActivePrimarySides(c, lock) \subseteq Dirs
  <1>1. \A o \in CopiedOptions :
          (IF c.options[o] = "absent" THEN o # "needsModifiers" /\ opts[o]
           ELSE c.options[o] = "on") \in BOOLEAN
    BY DEF TypeOK
  <1>2. OptionsAfter(c) \in [CopiedOptions -> BOOLEAN]
    BY <1>1 DEF OptionsAfter, TypeOK
  <1>3. ActivePrimarySides(c, lock) \subseteq Dirs
    BY DEF ActivePrimarySides
  <1>4. QED
    BY <1>2, <1>3

\* Closing clients takes them off the list, starts their timers and moves the
\* cursor to a screen.
LEMMA CloseClientsType ==
  ASSUME BasicInv, NEW gone, gone \subseteq alive, NEW c, CloseClients(gone, c)
  PROVE  /\ clients' \in [Names -> Screens \cup {NoProxy}]
         /\ clientSet' \subseteq Screens
         /\ oldClients' \subseteq Proxies
         /\ closeTimers' \in [Proxies -> 0..MaxTimers]
         /\ \A p \in oldClients' : p \in alive /\ closeTimers'[p] > 0
         /\ active' \in Screens
         /\ activeSaver' \in Screens \cup {NoProxy}
  <1> USE DEF BasicInv, TypeOK, CloseClients
  <1>1. clients' \in [Names -> Screens \cup {NoProxy}] /\ clientSet' \subseteq Screens
    BY DEF RemoveClients
  <1>2. oldClients' \subseteq Proxies
    OBVIOUS
  <1>3. closeTimers' \in [Proxies -> 0..MaxTimers]
    BY SwitchesAssumption
  <1>4. \A p \in oldClients' : p \in alive /\ closeTimers'[p] > 0
    BY SwitchesAssumption DEF TimersCover
  <1>5. active' \in Screens /\ activeSaver' \in Screens \cup {NoProxy}
    BY DEF ForceLeave, Screens
  <1>6. QED
    BY <1>1, <1>2, <1>3, <1>4, <1>5

\* What closing leaves of the switch state, the position and the entered screens.
LEMMA LeavingType ==
  ASSUME BasicInv, NEW gone
  PROVE  /\ Aimed(SwitchStateAfterLeaving(gone))
         /\ CursorAfterLeaving(gone) \in Screens
         /\ EnteredAfterLeaving(gone) \subseteq Screens
  <1>1. Aimed(sw)
    BY DEF BasicInv, TypeOK, Aimed
  <1>2. Aimed(SwitchStateAfterLeaving(gone))
    BY <1>1, StopSwitchIdle, IdleAimed DEF SwitchStateAfterLeaving
  <1>3. QED
    BY <1>2 DEF CursorAfterLeaving, EnteredAfterLeaving, BasicInv, TypeOK, Screens

\* The initial states.
LEMMA BasicInvInit == Init => BasicInv
  <1> SUFFICES ASSUME Init PROVE BasicInv
    OBVIOUS
  <1>1. opts \in [CopiedOptions -> BOOLEAN]
    BY DEF Init
  <1>2. sides \subseteq Dirs
    BY DEF Init, ActivePrimarySides
  <1>3. sw \in SwitchStates /\ WellAimed(sw)
    BY IdleAimed DEF Init, Aimed
  <1>4. closeTimers \in [Proxies -> 0..MaxTimers] /\ TimersCover
    BY SwitchesAssumption DEF Init, TimersCover
  <1>5. QED
    BY <1>1, <1>2, <1>3, <1>4, ConfigsAssumption DEF Init, BasicInv, TypeOK, Screens

\* Clients coming and going.
LEMMA BasicInvClients ==
  ASSUME BasicInv
  PROVE  /\ \A p \in Proxies, w \in Names : AdoptClient(p, w) => BasicInv'
         /\ \A p \in Proxies : ClientProxyDisconnect(p) => BasicInv'
         /\ \A p \in Proxies : HandleClientDisconnected(p) => BasicInv'
         /\ \A p \in Proxies : HandleClientCloseTimeout(p) => BasicInv'
         /\ \A c \in Configs : ReloadConfig(c) => BasicInv'
         /\ Disconnect => BasicInv'
  <1> USE DEF switchVars, focusVars, clientVars
  <1>0. Aimed(sw)
    BY DEF BasicInv, TypeOK, Aimed
  <1>1. ASSUME NEW p \in Proxies, NEW w \in Names, AdoptClient(p, w)
        PROVE  BasicInv'
    <2>1. closeTimers' \in [Proxies -> 0..MaxTimers] /\ TimersCover'
      BY <1>1, SwitchesAssumption DEF AdoptClient, BasicInv, TypeOK, TimersCover
    <2>2. sides' \subseteq Dirs
      BY <1>1, ConfigTypes DEF AdoptClient, BasicInv, Reconfigure
    <2>3. clients' \in [Names -> Screens \cup {NoProxy}]
      BY <1>1 DEF AdoptClient, BasicInv, TypeOK, Screens
    <2>4. /\ clientSet' \subseteq Screens /\ oldClients' \subseteq Proxies
          /\ jumpPos' \in [Screens -> Screens] /\ saverTold' \subseteq Screens
      BY <1>1 DEF AdoptClient, BasicInv, TypeOK, Screens
    <2>5. alive' \subseteq Proxies /\ name' \in [Proxies -> Names \cup {NoName}]
      BY <1>1 DEF AdoptClient, BasicInv, TypeOK
    <2>6. QED
      BY <1>1, <2>1, <2>2, <2>3, <2>4, <2>5 DEF AdoptClient, BasicInv, TypeOK
  <1>2. ASSUME NEW p \in Proxies, ClientProxyDisconnect(p)
        PROVE  BasicInv'
    BY <1>2 DEF ClientProxyDisconnect, BasicInv, TypeOK, TimersCover
  <1>3. ASSUME NEW p \in Proxies, HandleClientDisconnected(p)
        PROVE  BasicInv'
    <2>1. closeTimers' \in [Proxies -> 0..MaxTimers] /\ TimersCover'
      BY <1>3, SwitchesAssumption
         DEF HandleClientDisconnected, RemoveOldClient, BasicInv, TypeOK, TimersCover
    <2>2. sides' \subseteq Dirs
      BY <1>3, ConfigTypes DEF HandleClientDisconnected, BasicInv, TypeOK, Reconfigure
    <2>3. clients' \in [Names -> Screens \cup {NoProxy}] /\ clientSet' \subseteq Screens
      BY <1>3 DEF HandleClientDisconnected, RemoveClients, BasicInv, TypeOK
    <2>4. /\ active' \in Screens /\ activeSaver' \in Screens \cup {NoProxy}
          /\ cursor' \in Screens /\ entered' \subseteq Screens
      BY <1>3, LeavingType
         DEF HandleClientDisconnected, ForceLeave, BasicInv, TypeOK, Screens
    <2>5. Aimed(sw')
      BY <1>3, <1>0, LeavingType DEF HandleClientDisconnected
    <2>6. drain' \in {"idle", "awaited", "announced"}
      BY <1>3 DEF HandleClientDisconnected, Announce, BasicInv, TypeOK
    <2>7. QED
      BY <1>3, <2>1, <2>2, <2>3, <2>4, <2>5, <2>6
         DEF HandleClientDisconnected, RemoveOldClient, BasicInv, TypeOK, Aimed
  <1>4. ASSUME NEW p \in Proxies, HandleClientCloseTimeout(p)
        PROVE  BasicInv'
    <2>1. closeTimers' \in [Proxies -> 0..MaxTimers] /\ TimersCover'
      BY <1>4, SwitchesAssumption
         DEF HandleClientCloseTimeout, BasicInv, TypeOK, TimersCover
    <2>2. drain' \in {"idle", "awaited", "announced"}
      BY <1>4 DEF HandleClientCloseTimeout, Announce, BasicInv, TypeOK
    <2>3. QED
      BY <1>4, <2>1, <2>2 DEF HandleClientCloseTimeout, BasicInv, TypeOK
  <1>5. ASSUME NEW c \in Configs, ReloadConfig(c)
        PROVE  BasicInv'
    <2> DEFINE gone == {clients[n] : n \in {m \in Names : c.canon[m] # m}}
                          \ {Primary, NoProxy}
    <2>1. gone \subseteq alive
      BY <1>5 DEF ReloadConfig, Running, Intact, Connected, Live
    <2>2. CASE c.canon[ServerName] = NoName
      BY <1>5, <2>2 DEF ReloadConfig, BasicInv, TypeOK, TimersCover
    <2>3. CASE c.canon[ServerName] # NoName
      <3> HIDE DEF gone
      <3>1. /\ CloseClients(gone, c)
            /\ entered' = EnteredAfterLeaving(gone)
            /\ opts' = OptionsAfter(c)
            /\ sw' = SwitchStateAfter(c, SwitchStateAfterLeaving(gone))
            /\ cursor' \in {active', CursorAfterLeaving(gone)}
            /\ sides' = ActivePrimarySides(c, locked)
            /\ saverTold' = saverTold \ gone
            /\ UNCHANGED <<alive, name, dropped, drain, jumpPos, saver>>
            /\ config' = c
            /\ UNCHANGED <<locked, crashed>>
        BY <1>5, <2>3 DEF ReloadConfig, gone, CursorAfterRelativeMoves, Reconfigure
      <3>2. Aimed(sw')
        BY <3>1, LeavingType, SwitchStateAfterAimed
      <3>3. QED
        BY <2>1, <3>1, <3>2, CloseClientsType, LeavingType, ConfigTypes
           DEF BasicInv, TypeOK, TimersCover, Aimed
    <2>4. QED
      BY <2>2, <2>3
  <1>6. ASSUME Disconnect
        PROVE  BasicInv'
    <2> DEFINE gone == Connected \ {Primary}
    <2>1. gone \subseteq alive
      BY <1>6 DEF Disconnect, Running, Intact, Live
    <2>2. CASE Alone(clients, oldClients)
      BY <1>6, <2>2 DEF Disconnect, BasicInv, TypeOK, TimersCover
    <2>3. CASE ~Alone(clients, oldClients)
      <3> HIDE DEF gone
      <3>1. /\ CloseClients(gone, config)
            /\ entered' = EnteredAfterLeaving(gone)
            /\ sw' = SwitchStateAfterLeaving(gone)
            /\ cursor' = CursorAfterLeaving(gone)
            /\ sides' \in {sides, ActivePrimarySides(config, locked)}
            /\ saverTold' = saverTold \ gone
            /\ drain' = "awaited"
            /\ UNCHANGED <<alive, name, dropped, jumpPos, saver, opts, config,
                           locked, crashed>>
        BY <1>6, <2>3 DEF Disconnect, gone, Reconfigure
      <3>2. QED
        BY <2>1, <3>1, CloseClientsType, LeavingType, ConfigTypes
           DEF BasicInv, TypeOK, TimersCover, Aimed
    <2>4. QED
      BY <2>2, <2>3
  <1>7. QED
    BY <1>1, <1>2, <1>3, <1>4, <1>5, <1>6

\* Input, timers and the screen saver.
LEMMA BasicInvInput ==
  ASSUME BasicInv
  PROVE  /\ HandleMotionPrimaryEvent => BasicInv'
         /\ HandleMotionSecondaryEvent => BasicInv'
         /\ \A p \in Screens : HandleShapeChanged(p) => BasicInv'
         /\ HandleSwitchWaitTimeout => BasicInv'
         /\ \A n \in Names : HandleSwitchToScreenEvent(n) => BasicInv'
         /\ \A d \in Dirs : HandleSwitchInDirectionEvent(d) => BasicInv'
         /\ HandleLockCursorToScreenEvent => BasicInv'
         /\ ScreensaverActivated => BasicInv'
         /\ ScreensaverDeactivated => BasicInv'
         /\ UseDestroyed => BasicInv'
  <1> USE DEF switchVars, focusVars, clientVars
  <1>0. Aimed(sw) /\ TypeOK /\ TimersCover
    BY DEF BasicInv, TypeOK, Aimed
  <1>a. \A relevant : Vary(relevant) \subseteq BOOLEAN
    BY DEF Vary
  <1>b. ASSUME MotionResult, jumpPos' \in [Screens -> Screens], MotionFrame
        PROVE  BasicInv'
    BY <1>0, <1>b DEF MotionResult, MotionFrame, BasicInv, TypeOK, Aimed, TimersCover
  <1>c. ASSUME NEW dst \in Screens, JumpToScreen(dst), MotionFrame
        PROVE  BasicInv'
    <2>1. jumpPos' \in [Screens -> Screens] /\ jumpPos'[dst] \in Screens
      BY <1>0, <1>c DEF JumpToScreen, TypeOK
    <2>2. PICK refused \in Refusals : SwitchScreen(dst, jumpPos'[dst], sw, refused)
      BY <1>c DEF JumpToScreen
    <2>3. MotionResult
      BY <1>0, <2>1, <2>2, SwitchScreenType DEF MotionResult
    <2>4. QED
      BY <1>b, <1>c, <2>1, <2>3
  <1>1. ASSUME HandleMotionPrimaryEvent
        PROVE  BasicInv'
    <2>1. MotionResult
      BY <1>1, <1>a, MotionPrimaryType DEF HandleMotionPrimaryEvent
    <2>2. QED
      BY <1>1, <1>0, <1>b, <2>1 DEF HandleMotionPrimaryEvent, TypeOK
  <1>2. ASSUME HandleMotionSecondaryEvent
        PROVE  BasicInv'
    <2>1. \A dir : (IF dir = NoDir THEN {NoProxy} ELSE MapToNeighbor(active, dir))
                     \subseteq Screens \cup {NoProxy}
      BY <1>0, NeighborType
    <2>2. MotionResult
      BY <1>2, <1>a, <2>1, MotionSecondaryType DEF HandleMotionSecondaryEvent
    <2>3. QED
      BY <1>2, <1>0, <1>b, <2>2 DEF HandleMotionSecondaryEvent, TypeOK
  <1>3. ASSUME NEW p \in Screens, HandleShapeChanged(p)
        PROVE  BasicInv'
    <2>1. jumpPos' \in [Screens -> Screens] /\ MotionFrame
      BY <1>3, <1>0 DEF HandleShapeChanged, TypeOK
    <2>2. CASE p # Primary
      <3>1. MotionResult
        BY <1>3, <2>2, <1>0 DEF HandleShapeChanged, MotionResult, TypeOK
      <3>2. QED
        BY <2>1, <3>1, <1>b
    <2>3. CASE p = Primary /\ active = Primary
      <3>1. MotionResult
        <4>1. PICK dirh \in (Dirs \cap {"left", "right"}) \cup {NoDir},
                   dirv \in (Dirs \cap {"top", "bottom"}) \cup {NoDir},
                   env \in Readings(opts, Cornered), late \in Vary(sw.engaged),
                   inward \in Vary(sw.engaged), refused \in Refusals :
                OnMouseMovePrimary(dirh, dirv, env, late, inward, refused)
          BY <1>3, <2>3 DEF HandleShapeChanged
        <4>2. late \in BOOLEAN /\ inward \in BOOLEAN
              /\ dirh \in Dirs \cup {NoDir} /\ dirv \in Dirs \cup {NoDir}
          BY <1>a
        <4> QED
          BY <1>a, <4>1, <4>2, MotionPrimaryType
      <3>2. QED
        BY <2>1, <3>1, <1>b
    <2>4. CASE p = Primary /\ active # Primary
      <3>1. MotionResult
        BY <1>3, <2>4, <1>a, MotionSecondaryType DEF HandleShapeChanged
      <3>2. QED
        BY <2>1, <3>1, <1>b
    <2>5. QED
      BY <2>2, <2>3, <2>4
  <1>4. ASSUME HandleSwitchWaitTimeout
        PROVE  BasicInv'
    <2>1. sw.screen \in Live => sw.screen \in Screens
      BY <1>0 DEF Live, TypeOK, Screens
    <2>2. sw.waitFor \in Screens
      BY <1>4, <1>0 DEF HandleSwitchWaitTimeout, Aimed, WellAimed, SwitchStates
    <2>3. Aimed(sw') /\ cursor' \in Screens /\ active' \in Screens
          /\ entered' \subseteq Screens /\ crashed' \in BOOLEAN
      BY <1>4, <1>0, <2>1, <2>2, StopSwitchIdle, IdleAimed, SwitchScreenType
         DEF HandleSwitchWaitTimeout, TypeOK
    <2>4. QED
      BY <1>4, <1>0, <2>3
         DEF HandleSwitchWaitTimeout, BasicInv, TypeOK, Aimed, TimersCover
  <1>5. ASSUME NEW n \in Names, HandleSwitchToScreenEvent(n)
        PROVE  BasicInv'
    <2>1. clients[n] \in Screens
      BY <1>5, <1>0 DEF HandleSwitchToScreenEvent, TypeOK
    <2>2. QED
      BY <1>5, <1>c, <2>1 DEF HandleSwitchToScreenEvent
  <1>6. ASSUME NEW d \in Dirs, HandleSwitchInDirectionEvent(d)
        PROVE  BasicInv'
    <2>1. GetNeighbor(active, d) \in Screens
      BY <1>6, <1>0, NeighborType DEF HandleSwitchInDirectionEvent
    <2>2. QED
      BY <1>6, <1>c, <2>1 DEF HandleSwitchInDirectionEvent
  <1>7. ASSUME HandleLockCursorToScreenEvent
        PROVE  BasicInv'
    <2>1. cursor' \in Screens /\ sides' \subseteq Dirs /\ locked' \in BOOLEAN
      BY <1>7, <1>0, ConfigTypes
         DEF HandleLockCursorToScreenEvent, CursorAfterRelativeMoves, Reconfigure, TypeOK
    <2>2. QED
      BY <1>7, <1>0, <2>1
         DEF HandleLockCursorToScreenEvent, BasicInv, TypeOK, TimersCover
  <1>8. ASSUME ScreensaverActivated
        PROVE  BasicInv'
    <2>1. MotionResult
      BY <1>8, <1>0, SwitchScreenType
         DEF ScreensaverActivated, MotionResult, Screens, TypeOK
    <2>2. saverTold' \subseteq Screens
      BY <1>8, <1>0, NeighborType DEF ScreensaverActivated, TypeOK
    <2>3. QED
      BY <1>8, <1>0, <2>1, <2>2
         DEF ScreensaverActivated, MotionResult, BasicInv, TypeOK, Aimed, TimersCover
  <1>9. ASSUME ScreensaverDeactivated
        PROVE  BasicInv'
    <2>1. MotionResult
      BY <1>9, <1>0, SwitchScreenType DEF ScreensaverDeactivated, MotionResult, TypeOK
    <2>2. QED
      BY <1>9, <1>0, <2>1
         DEF ScreensaverDeactivated, MotionResult, BasicInv, TypeOK, Aimed, TimersCover
  <1>10. ASSUME UseDestroyed
         PROVE  BasicInv'
    BY <1>10, <1>0 DEF UseDestroyed, BasicInv, TypeOK, TimersCover
  <1>11. QED
    BY <1>1, <1>2, <1>3, <1>4, <1>5, <1>6, <1>7, <1>8, <1>9, <1>10

\* Every step of the server keeps the basic invariant.
LEMMA BasicInvStep == BasicInv /\ [Next]_vars => BasicInv'
  <1> SUFFICES ASSUME BasicInv, [Next]_vars PROVE BasicInv'
    OBVIOUS
  <1>1. CASE UNCHANGED vars
    BY <1>1 DEF vars, clientVars, focusVars, switchVars, BasicInv, TypeOK, TimersCover
  <1>2. CASE Next
    BY <1>2, BasicInvClients, BasicInvInput, ConfigsAssumption DEF Next
  <1>3. QED
    BY <1>1, <1>2

-----------------------------------------------------------------------------
\* Type correctness of the server, for every set of connections, names,
\* directions and configurations.
THEOREM TypeCorrect == Spec => []TypeOK
  <1>1. BasicInv => TypeOK
    BY DEF BasicInv
  <1>2. QED
    BY <1>1, BasicInvInit, BasicInvStep, PTL DEF Spec

\* The target of handleSwitchWaitTimeout is never NULL: no timer and no first tap
\* outlives its target, although stopSwitch stops the timer only if there is one,
\* noSwitch stops only the timer, and processOptions either of the two.
THEOREM PendingSwitch == Spec => []PendingSwitchHasTarget
  <1>1. BasicInv => PendingSwitchHasTarget
    BY DEF BasicInv, PendingSwitchHasTarget
  <1>2. QED
    BY <1>1, BasicInvInit, BasicInvStep, PTL DEF Spec

-----------------------------------------------------------------------------
(* How the cursor moves between screens, as long as no input arrives while the screen
   saver runs *)

\* While the screen saver runs and will return to a client, the cursor is on the
\* primary and no switch is pending, so nothing takes it elsewhere.
SaverQuiet ==
    IF saver
    THEN activeSaver \notin {NoProxy, Primary} => active = Primary /\ sw.wait = FALSE
    ELSE activeSaver = NoProxy

SInv == BasicInv /\ SaverQuiet

\* The cursor goes from one connected screen to another, by what is not stopped by
\* a lock.
Moves == active' # active /\ active \in clientSet'

Unlocked == ~locked \/ opts["disableLock"]

FreeMove == Moves => sw' = Idle /\ Unlocked

LEMMA SwitchScreenMoves ==
    ASSUME NEW s, Aimed(s), NEW dst, NEW at, NEW refused, SwitchScreen(dst, at, s, refused)
    PROVE  sw' = Idle /\ sw'.wait = FALSE
  BY StopSwitchIdle DEF SwitchScreen, Idle

\* A motion that is allowed to switch does so on an unlocked screen.
LEMMA OkayUnlocked ==
    ASSUME NEW s, NEW dst, NEW dir, NEW cornered, NEW env,
           IsSwitchOkay(s, dst, dir, opts, cornered, locked, env).ok
    PROVE  Unlocked
<1> DEFINE second == SecondTap(s, dir, env)
           later == FirstTap(opts, second) \/ WaitsFirst(opts, second)
<1>1. ~later /\ ~Prevented(opts, cornered, locked, env, later)
  BY DEF IsSwitchOkay
<1> HIDE DEF later
<1> QED
  BY <1>1, Zenon DEF Unlocked, Prevented

LEMMA MotionPrimaryMoves ==
    ASSUME BasicInv,
           NEW dirh \in Dirs \cup {NoDir}, NEW dirv \in Dirs \cup {NoDir}, NEW env,
           NEW late \in BOOLEAN, NEW inward \in BOOLEAN, NEW refused,
           OnMouseMovePrimary(dirh, dirv, env, late, inward, refused)
    PROVE  FreeMove
<1> DEFINE Try(s, d) == IsSwitchOkay(s, GetNeighbor(Primary, d), d, opts, Cornered, locked, env)
           h == IF dirh = NoDir THEN [sw |-> sw, ok |-> FALSE] ELSE Try(sw, dirh)
           v == IF dirv = NoDir THEN [sw |-> h.sw, ok |-> FALSE] ELSE Try(h.sw, dirv)
<1>1. Aimed(sw)
  BY DEF BasicInv, TypeOK, Aimed
<1>2. \A s, d : Aimed(s) /\ d \in Dirs => Aimed(Try(s, d).sw)
  BY IsSwitchOkayAimed, NeighborType DEF BasicInv
<1>3. \A s, d : Try(s, d).ok => Unlocked
  BY OkayUnlocked
<1> HIDE DEF Try
<1>4. Aimed(h.sw) /\ (h.ok => Unlocked)
  BY <1>1, <1>2, <1>3
<1> HIDE DEF h
<1>5. Aimed(v.sw) /\ (v.ok => Unlocked)
  BY <1>2, <1>3, <1>4
<1>6. \/ UNCHANGED active
      \/ h.ok /\ SwitchScreen(GetNeighbor(Primary, dirh), GetNeighbor(Primary, dirh), h.sw, refused)
      \/ v.ok /\ SwitchScreen(GetNeighbor(Primary, dirv), GetNeighbor(Primary, dirv), v.sw, refused)
  BY DEF OnMouseMovePrimary, h, Try
<1> HIDE DEF v
<1> QED
  BY <1>4, <1>5, <1>6, SwitchScreenMoves DEF FreeMove, Moves

LEMMA MotionSecondaryMoves ==
    ASSUME BasicInv,
           NEW dir \in Dirs \cup {NoDir}, NEW dst \in Screens \cup {NoProxy}, NEW env,
           NEW late, NEW inward, NEW offEdge,
           OnMouseMoveSecondary(dir, dst, env, late, inward, offEdge)
    PROVE  FreeMove
<1> DEFINE try == IsSwitchOkay(sw, dst, dir, opts, Cornered, locked, env)
<1>1. Aimed(sw)
  BY DEF BasicInv, TypeOK, Aimed
<1>2. dir # NoDir => Aimed(try.sw)
  BY <1>1, IsSwitchOkayAimed
<1>3. try.ok => Unlocked
  BY OkayUnlocked
<1>4. UNCHANGED active \/ (dir # NoDir /\ try.ok /\ SwitchScreen(dst, dst, try.sw, FALSE))
  BY DEF OnMouseMoveSecondary
<1> HIDE DEF try
<1> QED
  BY <1>2, <1>3, <1>4, SwitchScreenMoves DEF FreeMove, Moves

\* The hotkeys, which a lock does not stop.
Hotkey ==
    \/ \E n \in Names : HandleSwitchToScreenEvent(n)
    \/ \E d \in Dirs : HandleSwitchInDirectionEvent(d)

\* What a step does: a move is one of the above, and the screen saver stays quiet.
Orderly ==
    /\ Moves => sw' = Idle /\ (Unlocked \/ Hotkey \/ saver' # saver)
    /\ SaverQuiet'

\* Before the screen saver starts there is no screen to return to.
LEMMA AwakeOrderly ==
    ASSUME SInv, ~saver, UNCHANGED <<saver, activeSaver>>,
           FreeMove \/ (Hotkey /\ (Moves => sw' = Idle))
    PROVE  Orderly
  BY DEF SInv, SaverQuiet, FreeMove, Orderly

LEMMA StillOrderly ==
    ASSUME SInv, UNCHANGED <<active, saver, activeSaver>>, sw.wait = FALSE => sw'.wait = FALSE
    PROVE  Orderly
  BY DEF SInv, SaverQuiet, Moves, Orderly

LEMMA LeavingWait ==
    ASSUME SInv, NEW gone
    PROVE  /\ SwitchStateAfterLeaving(gone) \in SwitchStates
           /\ sw.wait = FALSE => SwitchStateAfterLeaving(gone).wait = FALSE
<1>1. sw \in SwitchStates
  BY DEF SInv, BasicInv, TypeOK
<1>2. StopSwitch(sw) \in SwitchStates /\ (sw.wait = FALSE => StopSwitch(sw).wait = FALSE)
  BY <1>1, ScreensDistinct DEF StopSwitch, StopSwitchTwoTap, StopSwitchWait, SwitchStates
<1> QED
  BY <1>1, <1>2 DEF SwitchStateAfterLeaving

LEMMA LeavingOrderly ==
    ASSUME SInv, NEW gone, Primary \notin gone, NoProxy \notin gone,
           clientSet' = clientSet \ gone, ForceLeave(gone),
           sw.wait = FALSE => sw'.wait = FALSE, saver' = saver
    PROVE  Orderly
<1>1. /\ active' = IF Focus \in gone THEN Primary ELSE active
      /\ activeSaver' = IF activeSaver \in gone THEN NoProxy ELSE activeSaver
  BY DEF ForceLeave
<1>2. CASE activeSaver \in {NoProxy, Primary}
  <2>1. activeSaver' = activeSaver
    BY <1>1, <1>2
  <2>2. ~Moves
    BY <1>1, <1>2 DEF Focus, Moves
  <2> QED
    BY <1>2, <2>1, <2>2 DEF SInv, SaverQuiet, Orderly
<1>3. CASE activeSaver \notin {NoProxy, Primary}
  <2>1. saver /\ active = Primary /\ sw.wait = FALSE
    BY <1>3 DEF SInv, SaverQuiet
  <2>2. active' = Primary
    BY <1>1, <2>1
  <2> QED
    BY <1>1, <2>1, <2>2 DEF SaverQuiet, Moves, Orderly
<1> QED
  BY <1>2, <1>3

LEMMA ClientsOrderly ==
    ASSUME SInv, NEW p \in Proxies,
           \/ \E w \in Names : AdoptClient(p, w)
           \/ ClientProxyDisconnect(p)
           \/ HandleClientDisconnected(p)
           \/ HandleClientCloseTimeout(p)
    PROVE  Orderly
<1>1. p # Primary /\ p # NoProxy
  BY ScreensDistinct
<1>2. CASE HandleClientDisconnected(p) /\ p \in clientSet
  <2>1. /\ clientSet' = clientSet \ {p} /\ ForceLeave({p}) /\ saver' = saver
        /\ sw' = SwitchStateAfterLeaving({p})
    BY <1>2 DEF HandleClientDisconnected, RemoveClients
  <2> QED
    BY <1>1, <2>1, LeavingWait, LeavingOrderly
<1>3. CASE ~(HandleClientDisconnected(p) /\ p \in clientSet)
  <2>1. UNCHANGED <<active, activeSaver, saver, sw>>
    BY <1>3 DEF AdoptClient, ClientProxyDisconnect, HandleClientDisconnected,
       HandleClientCloseTimeout, switchVars, focusVars
  <2> QED
    BY <2>1, StillOrderly
<1> QED
  BY <1>2, <1>3

LEMMA ReloadOrderly ==
    ASSUME SInv, NEW c \in Configs, ReloadConfig(c)
    PROVE  Orderly
<1> DEFINE gone == {clients[n] : n \in {m \in Names : c.canon[m] # m}} \ {Primary, NoProxy}
           left == SwitchStateAfterLeaving(gone)
<1>1. CASE c.canon[ServerName] = NoName
  BY <1>1, StillOrderly DEF ReloadConfig, focusVars
<1>2. CASE c.canon[ServerName] # NoName
  <2>1. CloseClients(gone, c) /\ sw' = SwitchStateAfter(c, left) /\ saver' = saver
    BY <1>2 DEF ReloadConfig
  <2>2. Primary \notin gone /\ NoProxy \notin gone
    OBVIOUS
  <2> HIDE DEF gone
  <2>3. left \in SwitchStates /\ (sw.wait = FALSE => left.wait = FALSE)
    BY LeavingWait
  <2> HIDE DEF left
  <2>4. left.wait = FALSE => sw'.wait = FALSE
    BY <2>1, <2>3 DEF SwitchStateAfter, StopSwitchWait, StopSwitchTwoTap, SwitchStates
  <2>5. clientSet' = clientSet \ gone /\ ForceLeave(gone)
    BY <2>1 DEF CloseClients, RemoveClients
  <2> QED
    BY <2>1, <2>2, <2>3, <2>4, <2>5, LeavingOrderly
<1> QED
  BY <1>1, <1>2

LEMMA DisconnectOrderly ==
    ASSUME SInv, Disconnect
    PROVE  Orderly
<1> DEFINE gone == Connected \ {Primary}
<1>1. CASE Alone(clients, oldClients)
  BY <1>1, StillOrderly DEF Disconnect
<1>2. CASE ~Alone(clients, oldClients)
  <2>1. CloseClients(gone, config) /\ sw' = SwitchStateAfterLeaving(gone) /\ saver' = saver
    BY <1>2 DEF Disconnect
  <2>2. Primary \notin gone /\ NoProxy \notin gone
    BY DEF Connected
  <2> HIDE DEF gone
  <2>3. clientSet' = clientSet \ gone /\ ForceLeave(gone)
    BY <2>1 DEF CloseClients, RemoveClients
  <2> QED
    BY <2>1, <2>2, <2>3, LeavingWait, LeavingOrderly
<1> QED
  BY <1>1, <1>2

LEMMA MotionOrderly ==
    ASSUME SInv, ~ActivityDuringSaver,
           \/ HandleMotionPrimaryEvent \/ HandleMotionSecondaryEvent
           \/ \E p \in Screens : HandleShapeChanged(p)
    PROVE  Orderly
<1>0. BasicInv /\ \A d : MapToNeighbor(active, d) \subseteq Screens \cup {NoProxy}
  BY NeighborType DEF SInv, BasicInv
<1>1. UNCHANGED <<saver, activeSaver>>
  BY DEF HandleMotionPrimaryEvent, HandleMotionSecondaryEvent, HandleShapeChanged, MotionFrame
<1>2. CASE HandleMotionPrimaryEvent
  <2>1. FreeMove
    BY <1>0, <1>2, MotionPrimaryMoves DEF HandleMotionPrimaryEvent, Vary
  <2> QED
    BY <1>1, <1>2, <2>1, AwakeOrderly DEF HandleMotionPrimaryEvent, InputArrives
<1>3. CASE HandleMotionSecondaryEvent
  <2>1. FreeMove
    BY <1>0, <1>3, MotionSecondaryMoves DEF HandleMotionSecondaryEvent, Vary
  <2> QED
    BY <1>1, <1>3, <2>1, AwakeOrderly DEF HandleMotionSecondaryEvent, InputArrives
<1>4. ASSUME NEW p \in Screens, HandleShapeChanged(p) PROVE Orderly
  <2>1. CASE p # Primary
    BY <1>1, <1>4, <2>1, StillOrderly DEF HandleShapeChanged
  <2>2. CASE p = Primary
    <3>1. ~saver
      BY <1>4, <2>2 DEF HandleShapeChanged, InputArrives
    <3>2. CASE active = Primary
      <4>1. PICK dirh \in (Dirs \cap {"left", "right"}) \cup {NoDir},
                 dirv \in (Dirs \cap {"top", "bottom"}) \cup {NoDir},
                 env \in Readings(opts, Cornered),
                 late \in Vary(sw.engaged), inward \in Vary(sw.engaged), refused \in Refusals :
                   OnMouseMovePrimary(dirh, dirv, env, late, inward, refused)
        BY <1>4, <2>2, <3>2, Zenon DEF HandleShapeChanged
      <4>2. FreeMove
        BY <1>0, <4>1, MotionPrimaryMoves DEF Vary
      <4> QED
        BY <1>1, <3>1, <4>2, AwakeOrderly
    <3>3. CASE active # Primary
      <4>1. FreeMove
        BY <1>0, <1>4, <2>2, <3>3, MotionSecondaryMoves DEF HandleShapeChanged, Vary
      <4> QED
        BY <1>1, <3>1, <4>1, AwakeOrderly
    <3> QED
      BY <3>2, <3>3
  <2> QED
    BY <2>1, <2>2
<1> QED
  BY <1>2, <1>3, <1>4

LEMMA HotkeyOrderly ==
    ASSUME SInv, ~ActivityDuringSaver, Hotkey
    PROVE  Orderly
<1>1. ~saver /\ UNCHANGED <<saver, activeSaver>> /\ \E dst : JumpToScreen(dst)
  BY DEF Hotkey, HandleSwitchToScreenEvent, HandleSwitchInDirectionEvent, InputArrives, MotionFrame
<1>2. Aimed(sw)
  BY DEF SInv, BasicInv, TypeOK, Aimed
<1>3. sw' = Idle
  BY <1>1, <1>2, SwitchScreenMoves DEF JumpToScreen
<1> QED
  BY <1>1, <1>3, AwakeOrderly

LEMMA TimeoutOrderly ==
    ASSUME SInv, HandleSwitchWaitTimeout
    PROVE  Orderly
<1>1. sw.wait /\ Aimed(sw) /\ UNCHANGED <<saver, activeSaver>>
  BY DEF HandleSwitchWaitTimeout, SInv, BasicInv, TypeOK, Aimed
<1>2. saver => activeSaver \in {NoProxy, Primary}
  BY <1>1 DEF SInv, SaverQuiet
<1>3. SaverQuiet'
  BY <1>1, <1>2 DEF SInv, SaverQuiet
<1>4. PICK held \in BOOLEAN, refused \in Refusals :
        \/ IsLockedToScreen(held) /\ UNCHANGED active
        \/ ~IsLockedToScreen(held) /\ SwitchScreen(sw.screen, sw.waitFor, sw, refused)
        \/ UNCHANGED active
  BY DEF HandleSwitchWaitTimeout
<1>5. Moves => sw' = Idle /\ Unlocked
  BY <1>1, <1>4, SwitchScreenMoves DEF Moves, IsLockedToScreen, Unlocked
<1> QED
  BY <1>3, <1>5 DEF Orderly

LEMMA SaverOrderly ==
    ASSUME SInv, ScreensaverActivated \/ ScreensaverDeactivated
    PROVE  Orderly
<1>1. Aimed(sw) /\ saver \in BOOLEAN
  BY DEF SInv, BasicInv, TypeOK, Aimed
<1>2. CASE ScreensaverActivated
  <2>1. saver' = TRUE /\ activeSaver' = active /\ ~saver
    BY <1>2 DEF ScreensaverActivated
  <2>2. CASE active # Primary
    <3>1. SwitchScreen(Primary, Primary, sw, FALSE)
      BY <1>2, <2>2 DEF ScreensaverActivated
    <3>2. sw' = Idle /\ sw'.wait = FALSE /\ active' = Primary
      BY <1>1, <2>2, <3>1, SwitchScreenMoves DEF SwitchScreen
    <3> QED
      BY <2>1, <3>2 DEF SaverQuiet, Orderly
  <2>3. CASE active = Primary
    <3>1. UNCHANGED active
      BY <1>2, <2>3 DEF ScreensaverActivated
    <3> QED
      BY <2>1, <2>3, <3>1 DEF SaverQuiet, Moves, Orderly
  <2> QED
    BY <2>2, <2>3
<1>3. CASE ScreensaverDeactivated
  <2>1. saver' = FALSE /\ activeSaver' = NoProxy /\ saver
    BY <1>3 DEF ScreensaverDeactivated
  <2>2. UNCHANGED active \/ \E refused : SwitchScreen(activeSaver, activeSaver, sw, refused)
    BY <1>3 DEF ScreensaverDeactivated
  <2>3. Moves => sw' = Idle
    BY <1>1, <2>2, SwitchScreenMoves DEF Moves
  <2>4. saver' # saver /\ SaverQuiet'
    BY <1>1, <2>1 DEF SaverQuiet
  <2> QED
    BY <2>3, <2>4 DEF Orderly
<1> QED
  BY <1>2, <1>3

LEMMA EveryStepOrderly ==
    ASSUME ~ActivityDuringSaver, SInv, [Next]_vars
    PROVE  Orderly /\ SInv'
<1>1. ASSUME HandleLockCursorToScreenEvent PROVE Orderly
  BY <1>1, StillOrderly DEF HandleLockCursorToScreenEvent
<1>2. ASSUME UseDestroyed \/ UNCHANGED vars PROVE Orderly
  BY <1>2, StillOrderly DEF UseDestroyed, vars, focusVars, switchVars
<1>3. Orderly
  BY <1>1, <1>2, ClientsOrderly, ReloadOrderly, DisconnectOrderly, MotionOrderly, HotkeyOrderly,
     TimeoutOrderly, SaverOrderly, ConfigsAssumption DEF Next, Hotkey
<1> QED
  BY <1>3, BasicInvStep DEF SInv, Orderly

LEMMA SInvInit == Init => SInv
  BY BasicInvInit DEF Init, SInv, SaverQuiet

-----------------------------------------------------------------------------
\* A switch between connected screens leaves no timer and no tap of the old edge
\* behind, whatever made it: a motion, a timeout, a hotkey, the screen saver, or a
\* client that leaves (Server::switchScreen, forceLeaveClient).
THEOREM SwitchesClear == ASSUME ~ActivityDuringSaver PROVE Spec => SwitchClearsAttempt
<1>1. SInv /\ [Next]_vars =>
        [active' # active /\ active \in clientSet' => sw' = Idle]_vars
  BY EveryStepOrderly DEF Orderly, Moves
<1>2. SInv /\ [Next]_vars => SInv'
  BY EveryStepOrderly
<1> QED
  BY <1>1, <1>2, SInvInit, PTL DEF Spec, SwitchClearsAttempt

\* Neither a motion nor a delayed switch takes the cursor away from a screen that is
\* locked, nor does a client that leaves (Server::isLockedToScreen, isSwitchOkay,
\* handleSwitchWaitTimeout).
THEOREM LockHolds == ASSUME ~ActivityDuringSaver PROVE Spec => LockHoldsCursor
<1>1. SInv /\ [Next]_vars =>
        [(locked /\ ~opts["disableLock"] /\ active' # active /\ active \in clientSet')
           => \/ \E n \in Names : HandleSwitchToScreenEvent(n)
              \/ \E d \in Dirs : HandleSwitchInDirectionEvent(d)
              \/ saver' # saver]_vars
  BY EveryStepOrderly DEF Orderly, Moves, Unlocked, Hotkey
<1>2. SInv /\ [Next]_vars => SInv'
  BY EveryStepOrderly
<1> QED
  BY <1>1, <1>2, SInvInit, PTL DEF Spec, LockHoldsCursor

-----------------------------------------------------------------------------
(* Who is connected, and where the cursor is *)

\* A name keeps its canonical name from one configuration to the next.  Only a name
\* that is its own canonical name may disappear, and not that of the server; then it
\* has no aliases, since a canonical name is its own.
SteadyNames ==
    \A c, d \in Configs, n \in Names : c.canon[n] # NoName =>
        /\ c.canon[c.canon[n]] = c.canon[n]
        /\ \/ d.canon[n] = c.canon[n]
           \/ d.canon[n] = NoName /\ n = c.canon[n] /\ n # ServerName

-----------------------------------------------------------------------------
(* Members *)

\* Each entry is under the name that the configuration gives the client.
Listed ==
    \A n \in Names : clients[n] # NoProxy =>
        WireName(clients[n]) \in Names /\ config.canon[WireName(clients[n])] = n

Members == clientSet = Connected /\ Primary \in clientSet /\ Listed

MInv == BasicInv /\ Members /\ ProxiesAccounted

LEMMA MembersAgree == MInv => MembershipAgrees
<1> SUFFICES ASSUME MInv PROVE MembershipAgrees
  OBVIOUS
<1>1. ASSUME NEW n \in Names, clients[n] # NoProxy PROVE GetName(clients[n]) = n
  BY <1>1, ConfigsAssumption DEF MInv, Members, Listed, GetName, GetNameIn
<1> QED
  BY <1>1 DEF MInv, Members, MembershipAgrees

\* What a configuration makes of the names.
LEMMA CanonTypes ==
    ASSUME NEW c \in Configs
    PROVE  c.canon \in [Names -> Names \cup {NoName}]
  BY ConfigsAssumption DEF ConfigType

LEMMA ServerKeepsName ==
    ASSUME SteadyNames, NEW c \in Configs
    PROVE  /\ c.canon[ServerName] = StartConfig.canon[ServerName]
           /\ c.canon[ServerName] \in Names
           /\ c.canon[c.canon[ServerName]] = c.canon[ServerName]
<1>1. StartConfig \in Configs /\ ServerName \in Names /\ StartConfig.canon[ServerName] # NoName
  BY ConfigsAssumption
<1>2. c.canon[ServerName] = StartConfig.canon[ServerName]
  BY <1>1 DEF SteadyNames
<1> QED
  BY <1>1, <1>2, CanonTypes DEF SteadyNames

\* The clients that a set of names is taken from, under a configuration that gives
\* each the name it is listed under: exactly their entries are erased.
LEMMA ErasedExactly ==
    ASSUME MInv, NEW gone, gone \subseteq clientSet \ {Primary}, NEW c,
           \A n \in Names : clients[n] \in gone => GetNameIn(c, clients[n]) = n,
           RemoveClients(gone, c)
    PROVE  /\ clients' = [n \in Names |-> IF clients[n] \in gone THEN NoProxy ELSE clients[n]]
           /\ clientSet' = clientSet \ gone
           /\ clientSet' = Connected' /\ Primary \in clientSet'
<1>1. clientSet = {clients[n] : n \in Names} \ {NoProxy} /\ Primary \in clientSet
  BY DEF MInv, Members, Connected
<1>2. clients' = [n \in Names |-> IF \E p \in gone \cap clientSet : GetNameIn(c, p) = n
                                  THEN NoProxy ELSE clients[n]]
      /\ clientSet' = clientSet \ gone
  BY DEF RemoveClients
<1>3. ASSUME NEW n \in Names
      PROVE  (\E p \in gone \cap clientSet : GetNameIn(c, p) = n) <=> clients[n] \in gone
  <2>1. ASSUME NEW p \in gone \cap clientSet, GetNameIn(c, p) = n PROVE clients[n] \in gone
    <3>1. PICK m \in Names : p = clients[m]
      BY <1>1
    <3> QED
      BY <2>1, <3>1
  <2>2. ASSUME clients[n] \in gone
        PROVE  \E p \in gone \cap clientSet : GetNameIn(c, p) = n
    BY <2>2
  <2> QED
    BY <2>1, <2>2
<1>4. clients' = [n \in Names |-> IF clients[n] \in gone THEN NoProxy ELSE clients[n]]
  BY <1>2, <1>3
<1>5. clientSet' = Connected'
  BY <1>1, <1>2, <1>4 DEF Connected
<1> QED
  BY <1>1, <1>2, <1>4, <1>5

\* A step of the server keeps the members and the accounts.
Kept == Members' /\ ProxiesAccounted'

LEMMA MembersUnchanged ==
    ASSUME MInv, UNCHANGED <<clientVars, config>>
    PROVE  Kept
  BY DEF MInv, Kept, Members, ProxiesAccounted, Connected, Listed, WireName, clientVars

LEMMA AdoptKeeps ==
    ASSUME MInv, NEW p \in Proxies, NEW w \in Names, AdoptClient(p, w)
    PROVE  Kept
<1> DEFINE n == IF config.canon[w] = NoName THEN w ELSE config.canon[w]
<1>1. /\ p \notin alive /\ p \notin clientSet /\ p \notin oldClients /\ closeTimers[p] = 0
      /\ p # NoProxy /\ p # Primary
  BY ScreensDistinct DEF AdoptClient, MInv, ProxiesAccounted
<1>2. alive' = alive \cup {p} /\ name' = [name EXCEPT ![p] = w] /\ UNCHANGED <<dropped, config>>
  BY DEF AdoptClient, switchVars
<1>3. /\ name \in [Proxies -> Names \cup {NoName}] /\ config \in Configs
      /\ closeTimers \in [Proxies -> 0..MaxTimers]
      /\ clients \in [Names -> Screens \cup {NoProxy}]
  BY DEF MInv, BasicInv, TypeOK
<1>4. /\ \A q \in Screens : q # p => WireName(q)' = WireName(q)
      /\ WireName(p)' = w
  BY <1>1, <1>2, <1>3 DEF WireName, Screens
<1>5. clientSet = {clients[m] : m \in Names} \ {NoProxy} /\ Primary \in clientSet
  BY DEF MInv, Members, Connected
<1>6. \A m \in Names : clients[m] # p
  BY <1>1, <1>5
<1>7. CASE /\ config.canon[w] # NoName /\ clients[n] = NoProxy
           /\ clients' = [clients EXCEPT ![n] = p]
           /\ clientSet' = clientSet \cup {p}
           /\ UNCHANGED <<oldClients, closeTimers>>
  <2>1. n = config.canon[w] /\ n \in Names
    BY <1>3, <1>7, CanonTypes
  <2> HIDE DEF n
  <2>2. clientSet' = Connected'
    BY <1>1, <1>3, <1>5, <1>7, <2>1 DEF Connected
  <2>3. Listed'
    <3>1. ASSUME NEW m \in Names, clients'[m] # NoProxy
          PROVE  (WireName(clients[m]) \in Names /\ config.canon[WireName(clients[m])] = m)'
      <4>1. CASE m = n
        <5>1. clients'[m] = p
          BY <1>3, <1>7, <2>1, <4>1
        <5> QED
          BY <1>2, <1>4, <2>1, <4>1, <5>1 DEF WireName
      <4>2. CASE m # n
        <5>1. clients'[m] = clients[m] /\ clients[m] \in Screens /\ clients[m] # p
          BY <1>3, <1>6, <1>7, <2>1, <3>1, <4>2
        <5>2. WireName(clients[m]) \in Names /\ config.canon[WireName(clients[m])] = m
          BY <3>1, <5>1 DEF MInv, Members, Listed
        <5> QED
          BY <1>2, <1>4, <5>1, <5>2 DEF WireName
      <4> QED
        BY <4>1, <4>2
    <3> QED
      BY <3>1 DEF Listed
  <2>4. ProxiesAccounted'
    BY <1>1, <1>2, <1>7 DEF MInv, ProxiesAccounted
  <2> QED
    BY <1>5, <1>7, <2>2, <2>3, <2>4 DEF Kept, Members
<1>8. CASE /\ oldClients' = oldClients \cup {p}
           /\ closeTimers' = [closeTimers EXCEPT ![p] = @ + 1]
           /\ UNCHANGED <<clients, clientSet>>
  <2>1. Listed'
    <3>1. ASSUME NEW m \in Names, clients'[m] # NoProxy
          PROVE  (WireName(clients[m]) \in Names /\ config.canon[WireName(clients[m])] = m)'
      <4>1. clients'[m] = clients[m] /\ clients[m] \in Screens /\ clients[m] # p
        BY <1>3, <1>6, <1>8, <3>1
      <4>2. WireName(clients[m]) \in Names /\ config.canon[WireName(clients[m])] = m
        BY <3>1, <4>1 DEF MInv, Members, Listed
      <4> QED
        BY <1>2, <1>4, <4>1, <4>2 DEF WireName
    <3> QED
      BY <3>1 DEF Listed
  <2>2. ProxiesAccounted'
    BY <1>1, <1>2, <1>3, <1>8 DEF MInv, ProxiesAccounted
  <2> QED
    BY <1>5, <1>8, <2>1, <2>2 DEF Kept, Members, Connected
<1> QED
  BY <1>7, <1>8 DEF AdoptClient

\* Erased entries leave the others as they are listed.
LEMMA ListedAfter ==
    ASSUME MInv, NEW gone,
           clients' = [n \in Names |-> IF clients[n] \in gone THEN NoProxy ELSE clients[n]],
           \A p \in Proxies \ gone : name'[p] = name[p],
           \A n \in Names : clients[n] \notin gone \cup {NoProxy} =>
               config'.canon[WireName(clients[n])] = n
    PROVE  Listed'
<1>1. ASSUME NEW n \in Names, clients'[n] # NoProxy
      PROVE  (WireName(clients[n]) \in Names /\ config.canon[WireName(clients[n])] = n)'
  <2>1. clients'[n] = clients[n] /\ clients[n] \notin gone \cup {NoProxy} /\ clients[n] \in Screens
    BY <1>1 DEF MInv, BasicInv, TypeOK
  <2>2. WireName(clients[n]) \in Names
    BY <2>1 DEF MInv, Members, Listed
  <2>3. WireName(clients[n])' = WireName(clients[n])
    BY <2>1 DEF WireName, Screens
  <2> QED
    BY <2>1, <2>2, <2>3
<1> QED
  BY <1>1 DEF Listed

LEMMA CloseKeeps ==
    ASSUME MInv, NEW gone, gone \subseteq clientSet \ {Primary}, NEW c, CloseClients(gone, c),
           \A n \in Names : clients[n] \in gone => GetNameIn(c, clients[n]) = n,
           \A n \in Names : clients[n] \notin gone \cup {NoProxy} =>
               c.canon[WireName(clients[n])] = n,
           config' = c, UNCHANGED <<alive, name, dropped>>
    PROVE  Kept
<1>1. /\ clients' = [n \in Names |-> IF clients[n] \in gone THEN NoProxy ELSE clients[n]]
      /\ clientSet' = clientSet \ gone /\ clientSet' = Connected' /\ Primary \in clientSet'
  BY ErasedExactly DEF CloseClients
<1>2. Listed'
  BY <1>1, ListedAfter
<1>3. ProxiesAccounted'
  <2>1. /\ oldClients' = oldClients \cup gone
        /\ closeTimers' = [p \in Proxies |-> closeTimers[p] + (IF p \in gone THEN 1 ELSE 0)]
    BY DEF CloseClients
  <2>2. alive' = (clientSet' \ {Primary}) \cup oldClients' /\ clientSet' \cap oldClients' = {}
        /\ dropped' \subseteq alive'
    BY <1>1, <2>1 DEF MInv, ProxiesAccounted
  <2>3. ASSUME NEW p \in Proxies
        PROVE  closeTimers'[p] = IF p \in oldClients' THEN 1 ELSE 0
    <3>1. closeTimers[p] = IF p \in oldClients THEN 1 ELSE 0
      BY DEF MInv, ProxiesAccounted
    <3>2. CASE p \in gone
      <4>1. p \notin oldClients
        BY <3>2 DEF MInv, ProxiesAccounted
      <4> QED
        BY <2>1, <3>1, <3>2, <4>1
    <3>3. CASE p \notin gone
      <4>1. closeTimers'[p] = closeTimers[p] + 0
        BY <2>1, <3>3
      <4> QED
        BY <2>1, <3>1, <3>3, <4>1
    <3> QED
      BY <3>2, <3>3
  <2> QED
    BY <2>2, <2>3 DEF ProxiesAccounted
<1> QED
  BY <1>1, <1>2, <1>3 DEF Kept, Members

LEMMA DisconnectedKeeps ==
    ASSUME MInv, NEW p \in Proxies, HandleClientDisconnected(p)
    PROVE  Kept
<1>1. /\ p \in dropped /\ RemoveOldClient(p)
      /\ alive' = alive \ {p} /\ name' = [name EXCEPT ![p] = NoName] /\ dropped' = dropped \ {p}
      /\ config' = config
      /\ p \in clientSet => RemoveClients({p}, config)
      /\ p \notin clientSet => UNCHANGED <<clients, clientSet>>
  BY DEF HandleClientDisconnected
<1>2. /\ clients \in [Names -> Screens \cup {NoProxy}] /\ name \in [Proxies -> Names \cup {NoName}]
      /\ closeTimers \in [Proxies -> 0..MaxTimers]
  BY DEF MInv, BasicInv, TypeOK
<1>3. \A n \in Names : clients[n] # NoProxy =>
          GetNameIn(config, clients[n]) = n /\ config.canon[WireName(clients[n])] = n
  BY ConfigsAssumption DEF MInv, Members, Listed, GetNameIn
<1>4. p # NoProxy /\ p # Primary
  BY ScreensDistinct
<1>5. /\ clients' = [n \in Names |-> IF clients[n] \in {p} THEN NoProxy ELSE clients[n]]
      /\ clientSet' = clientSet \ {p} /\ clientSet' = Connected' /\ Primary \in clientSet'
  <2>1. CASE p \in clientSet
    BY <1>1, <1>3, <1>4, <2>1, ErasedExactly
  <2>2. CASE p \notin clientSet
    <3>1. \A n \in Names : clients[n] # p
      BY <1>4, <2>2 DEF MInv, Members, Connected
    <3>2. clients' = [n \in Names |-> clients[n]]
      BY <1>1, <1>2, <2>2
    <3> QED
      BY <1>1, <2>2, <3>1, <3>2 DEF MInv, Members, Connected
  <2> QED
    BY <2>1, <2>2
<1>6. Listed'
  <2>1. \A q \in Proxies \ {p} : name'[q] = name[q]
    BY <1>1, <1>2
  <2>2. \A n \in Names : clients[n] \notin {p} \cup {NoProxy} =>
            config'.canon[WireName(clients[n])] = n
    BY <1>1, <1>3
  <2> QED
    BY <1>5, <2>1, <2>2, ListedAfter
<1>7. ProxiesAccounted'
  <2>1. /\ oldClients' = oldClients \ {p}
        /\ closeTimers' = IF p \in oldClients THEN [closeTimers EXCEPT ![p] = @ - 1] ELSE closeTimers
    BY <1>1 DEF RemoveOldClient
  <2>2. alive' = (clientSet' \ {Primary}) \cup oldClients' /\ clientSet' \cap oldClients' = {}
        /\ dropped' \subseteq alive'
    BY <1>1, <1>5, <2>1 DEF MInv, ProxiesAccounted
  <2>3. ASSUME NEW q \in Proxies
        PROVE  closeTimers'[q] = IF q \in oldClients' THEN 1 ELSE 0
    <3>1. closeTimers[q] = IF q \in oldClients THEN 1 ELSE 0
      BY DEF MInv, ProxiesAccounted
    <3>2. CASE q = p /\ p \in oldClients
      BY <1>2, <2>1, <3>1, <3>2
    <3>3. CASE q # p \/ p \notin oldClients
      BY <1>2, <2>1, <3>1, <3>3
    <3> QED
      BY <3>2, <3>3
  <2> QED
    BY <2>2, <2>3 DEF ProxiesAccounted
<1> QED
  BY <1>5, <1>6, <1>7 DEF Kept, Members

LEMMA TimeoutKeeps ==
    ASSUME MInv, NEW p \in Proxies, HandleClientCloseTimeout(p)
    PROVE  Kept
<1>1. closeTimers[p] > 0 /\ closeTimers[p] = IF p \in oldClients THEN 1 ELSE 0
  BY DEF HandleClientCloseTimeout, MInv, ProxiesAccounted
<1>2. p \in oldClients /\ p \in alive /\ p \notin clientSet /\ closeTimers[p] = 1 /\ p \notin dropped
  BY <1>1 DEF HandleClientCloseTimeout, MInv, ProxiesAccounted, QueueEmpty
<1>3. /\ closeTimers' = [closeTimers EXCEPT ![p] = @ - 1] /\ oldClients' = oldClients \ {p}
      /\ alive' = alive \ {p} /\ name' = [name EXCEPT ![p] = NoName]
      /\ UNCHANGED <<clients, clientSet, dropped, config>>
  BY <1>2 DEF HandleClientCloseTimeout, switchVars
<1>4. /\ clients \in [Names -> Screens \cup {NoProxy}] /\ name \in [Proxies -> Names \cup {NoName}]
      /\ closeTimers \in [Proxies -> 0..MaxTimers]
  BY DEF MInv, BasicInv, TypeOK
<1>5. Listed'
  <2>1. \A q \in Proxies \ {p} : name'[q] = name[q]
    BY <1>3, <1>4
  <2>2. \A n \in Names : clients[n] # p
    BY <1>2, ScreensDistinct DEF MInv, Members, Connected
  <2>3. clients' = [n \in Names |-> IF clients[n] \in {p} THEN NoProxy ELSE clients[n]]
    <3>1. clients = [n \in Names |-> clients[n]]
      BY <1>4
    <3> QED
      BY <1>3, <2>2, <3>1
  <2>4. \A n \in Names : clients[n] \notin {p} \cup {NoProxy} =>
            config'.canon[WireName(clients[n])] = n
    BY <1>3 DEF MInv, Members, Listed
  <2> QED
    BY <2>1, <2>3, <2>4, ListedAfter
<1>6. ProxiesAccounted'
  BY <1>2, <1>3, <1>4 DEF MInv, ProxiesAccounted
<1> QED
  BY <1>3, <1>5, <1>6 DEF MInv, Kept, Members, Connected

LEMMA ReloadKeeps ==
    ASSUME MInv, SteadyNames, NEW c \in Configs, ReloadConfig(c)
    PROVE  Kept
<1> DEFINE gone == {clients[n] : n \in {m \in Names : c.canon[m] # m}} \ {Primary, NoProxy}
<1>1. config \in Configs /\ config' = c
  BY DEF MInv, BasicInv, TypeOK, ReloadConfig
<1>2. c.canon[ServerName] # NoName
  BY ServerKeepsName, ConfigsAssumption
<1>3. CloseClients(gone, c) /\ UNCHANGED <<alive, name, dropped>>
  BY <1>2 DEF ReloadConfig
<1>4. gone \subseteq clientSet \ {Primary}
  BY DEF MInv, Members, Connected
<1>5. ASSUME NEW n \in Names, clients[n] # NoProxy
      PROVE  /\ WireName(clients[n]) \in Names /\ config.canon[WireName(clients[n])] = n
             /\ \/ c.canon[WireName(clients[n])] = n /\ c.canon[n] = n
                \/ /\ c.canon[WireName(clients[n])] = NoName /\ n = WireName(clients[n])
                   /\ n # ServerName
  <2>1. WireName(clients[n]) \in Names /\ config.canon[WireName(clients[n])] = n /\ n # NoName
    BY <1>5, ConfigsAssumption DEF MInv, Members, Listed
  <2> QED
    BY <1>1, <2>1 DEF SteadyNames
<1>6. ASSUME NEW n \in Names, clients[n] \in gone PROVE GetNameIn(c, clients[n]) = n
  <2>1. PICK m \in Names : c.canon[m] # m /\ clients[m] = clients[n]
    BY <1>6
  <2>2. clients[n] # NoProxy
    BY <1>6
  <2>3. m = n
    BY <1>5, <2>1, <2>2
  <2> QED
    BY <1>5, <2>1, <2>2, <2>3 DEF GetNameIn
<1>7. ASSUME NEW n \in Names, clients[n] \notin gone \cup {NoProxy}
      PROVE  c.canon[WireName(clients[n])] = n
  <2>1. CASE clients[n] = Primary
    <3>1. WireName(clients[n]) = ServerName /\ c.canon[ServerName] # NoName
      BY <1>2, <2>1 DEF WireName
    <3> QED
      BY <1>5, <1>7, <3>1
  <2>2. CASE clients[n] # Primary
    <3>1. c.canon[n] = n /\ n # NoName
      BY <1>7, <2>2, ConfigsAssumption
    <3> QED
      BY <1>5, <1>7, <3>1
  <2> QED
    BY <2>1, <2>2
<1> HIDE DEF gone
<1> QED
  BY <1>1, <1>3, <1>4, <1>6, <1>7, CloseKeeps

LEMMA DisconnectKeeps ==
    ASSUME MInv, Disconnect
    PROVE  Kept
<1>1. CASE Alone(clients, oldClients)
  BY <1>1, MembersUnchanged DEF Disconnect, Kept, MInv, Members, ProxiesAccounted, Connected, Listed,
     WireName
<1>2. CASE ~Alone(clients, oldClients)
  <2> DEFINE gone == Connected \ {Primary}
  <2>1. CloseClients(gone, config) /\ UNCHANGED <<alive, name, dropped, config>>
    BY <1>2 DEF Disconnect
  <2>2. gone \subseteq clientSet \ {Primary}
    BY DEF MInv, Members
  <2>3. \A n \in Names : clients[n] # NoProxy =>
            GetNameIn(config, clients[n]) = n /\ config.canon[WireName(clients[n])] = n
    BY ConfigsAssumption DEF MInv, Members, Listed, GetNameIn
  <2>4. \A q \in gone : q # NoProxy
    BY DEF Connected
  <2> HIDE DEF gone
  <2> QED
    BY <2>1, <2>2, <2>3, <2>4, CloseKeeps
<1> QED
  BY <1>1, <1>2

LEMMA MInvStep == SteadyNames /\ MInv /\ [Next]_vars => MInv'
<1> SUFFICES ASSUME SteadyNames, MInv, [Next]_vars PROVE Kept
  BY BasicInvStep DEF MInv, Kept
<1> USE DEF focusVars, switchVars
<1>1. ASSUME NEW p \in Proxies, ClientProxyDisconnect(p) PROVE Kept
  BY <1>1 DEF ClientProxyDisconnect, MInv, Kept, Members, ProxiesAccounted, Connected, Listed, WireName
<1>2. ASSUME \/ HandleMotionPrimaryEvent \/ HandleMotionSecondaryEvent
             \/ \E p \in Screens : HandleShapeChanged(p)
             \/ \E n \in Names : HandleSwitchToScreenEvent(n)
             \/ \E d \in Dirs : HandleSwitchInDirectionEvent(d)
      PROVE  UNCHANGED <<clientVars, config>>
  BY <1>2 DEF HandleMotionPrimaryEvent, HandleMotionSecondaryEvent, HandleShapeChanged,
     HandleSwitchToScreenEvent, HandleSwitchInDirectionEvent, MotionFrame
<1>3. ASSUME \/ HandleSwitchWaitTimeout \/ HandleLockCursorToScreenEvent
             \/ ScreensaverActivated \/ ScreensaverDeactivated \/ UseDestroyed \/ UNCHANGED vars
      PROVE  UNCHANGED <<clientVars, config>>
  BY <1>3 DEF HandleSwitchWaitTimeout, HandleLockCursorToScreenEvent, ScreensaverActivated,
     ScreensaverDeactivated, UseDestroyed, vars
<1> QED
  BY <1>1, <1>2, <1>3, MembersUnchanged, AdoptKeeps, DisconnectedKeeps, TimeoutKeeps, ReloadKeeps,
     DisconnectKeeps, ConfigsAssumption DEF Next

LEMMA MInvInit == SteadyNames /\ Init => MInv
<1> SUFFICES ASSUME SteadyNames, Init PROVE MInv
  OBVIOUS
<1> DEFINE s == StartConfig.canon[ServerName]
<1>1. s \in Names /\ ServerName \in Names
  BY ServerKeepsName, ConfigsAssumption
<1>2. /\ clients = [n \in Names |-> IF n = s THEN Primary ELSE NoProxy] /\ config = StartConfig
      /\ clientSet = {Primary}
  BY DEF Init
<1>3. Members
  <2>1. Connected = {Primary}
    BY <1>1, <1>2, ScreensDistinct DEF Connected
  <2>2. Listed
    BY <1>1, <1>2 DEF Listed, WireName
  <2> QED
    BY <1>2, <2>1, <2>2 DEF Members
<1>4. ProxiesAccounted
  BY ScreensDistinct DEF Init, ProxiesAccounted
<1> QED
  BY <1>3, <1>4, BasicInvInit DEF MInv

\* The two tables of clients agree, and each client is listed under the name that
\* the configuration gives it now, as long as a reload neither renames a screen
\* that stays nor drops one under an alias of which a client may be connected
\* (Server::addClient, removeClient, closeClients).
THEOREM MembershipKept == ASSUME SteadyNames PROVE Spec => []MembershipAgrees
<1>1. MInv => MembershipAgrees
  BY MembersAgree
<1> QED
  BY <1>1, MInvInit, MInvStep, PTL DEF Spec

\* And no client object is lost or deleted twice: each is either connected or
\* closing, and has its timer exactly in the second case (Server::closeClient,
\* removeOldClient, handleClientCloseTimeout).
THEOREM ProxiesKept == ASSUME SteadyNames PROVE Spec => []ProxiesAccounted
<1>1. MInv => ProxiesAccounted
  BY DEF MInv
<1> QED
  BY <1>1, MInvInit, MInvStep, PTL DEF Spec

-----------------------------------------------------------------------------
(* The screen that has the cursor *)

\* No configuration delays switches: a delayed switch may otherwise take the cursor
\* to a screen that is gone, or away from the primary while the screen saver runs.
NoDelay == \A c \in Configs : c.options["delay"] # "on"

NoWait == opts["delay"] = FALSE /\ sw.wait = FALSE

\* While the screen saver runs the cursor is on the primary, and otherwise there is
\* no screen to return to.
SaverHolds == IF saver THEN active = Primary ELSE activeSaver = NoProxy

Focused ==
    /\ NoWait /\ SaverHolds
    /\ ActiveIsConnected /\ EnteredIsActive /\ entered \subseteq alive \cup {Primary}
    /\ ~LeaveMayFail => CursorOnActive

FInv == MInv /\ Focused

\* Without the delay, testing an edge does not start to wait.
LEMMA NoWaitStarts ==
    ASSUME NEW s, Aimed(s), s.wait = FALSE, NEW dst \in Screens \cup {NoProxy}, NEW dir \in Dirs,
           NEW cornered, NEW lock, NEW env, opts["delay"] = FALSE
    PROVE  LET r == IsSwitchOkay(s, dst, dir, opts, cornered, lock, env)
           IN  Aimed(r.sw) /\ r.sw.wait = FALSE /\ (r.ok => dst # NoProxy)
<1> DEFINE r == IsSwitchOkay(s, dst, dir, opts, cornered, lock, env)
           aimed == AimAt(s, dst, dir)
           prepared == Prepared(s, dst, dir, opts, SecondTap(s, dir, env))
<1>1. Aimed(r.sw)
  BY IsSwitchOkayAimed
<1>2. StopSwitch(s).wait = FALSE
  BY StopSwitchIdle DEF Idle
<1>3. CASE dst = NoProxy
  BY <1>1, <1>2, <1>3 DEF IsSwitchOkay
<1>4. CASE dst # NoProxy
  <2>1. aimed \in SwitchStates /\ aimed.wait = FALSE
    BY <1>4 DEF Aimed, SwitchStates, AimAt
  <2>2. StartSwitchTwoTap(aimed) \in SwitchStates /\ StartSwitchTwoTap(aimed).wait = FALSE
    <3> HIDE DEF aimed
    <3> QED
      BY <2>1 DEF StartSwitchTwoTap, SwitchStates
  <2>3. \A t \in SwitchStates : t.wait = FALSE => StopSwitch(t).wait = FALSE
    BY DEF StopSwitch, StopSwitchTwoTap, StopSwitchWait, SwitchStates
  <2>4. prepared \in {aimed, StartSwitchTwoTap(aimed)}
    BY DEF Prepared, WaitsFirst
  <2>5. r.sw \in {prepared, StopSwitch(prepared)}
    <3> HIDE DEF prepared
    <3> QED
      BY <1>4 DEF IsSwitchOkay, prepared
  <2> HIDE DEF aimed, prepared, r
  <2> QED
    BY <1>1, <1>4, <2>1, <2>2, <2>3, <2>4, <2>5 DEF r
<1> QED
  BY <1>3, <1>4

\* A neighbour is a member, or there is none.
LEMMA NeighborIsMember ==
    ASSUME FInv, NEW p, NEW d
    PROVE  /\ GetNeighbor(p, d) \in clientSet \cup {NoProxy}
           /\ MapToNeighbor(p, d) \subseteq clientSet \cup {NoProxy}
           /\ clientSet \subseteq Screens /\ NoProxy \notin clientSet
<1>1. clientSet = Connected /\ clientSet \subseteq Screens
  BY DEF FInv, MInv, Members, BasicInv, TypeOK
<1>2. GetNeighbor(p, d) \in clientSet \cup {NoProxy}
  BY <1>1 DEF GetNeighbor, Connected
<1>3. MapToNeighbor(p, d) \subseteq clientSet \cup {NoProxy}
  BY <1>1 DEF MapToNeighbor
<1> QED
  BY <1>1, <1>2, <1>3 DEF Connected

\* What a motion, a hotkey or the screen saver leaves behind.
Settles ==
    /\ sw'.wait = FALSE /\ active' \in clientSet
    /\ entered' \cap clientSet = {active'} /\ entered' \subseteq alive \cup {Primary}
    /\ ~LeaveMayFail => cursor' = active'

LEMMA SwitchSettles ==
    ASSUME FInv, NEW s, Aimed(s), NEW dst \in clientSet, NEW at, ~LeaveMayFail => at = dst,
           NEW refused, refused => LeaveMayFail, SwitchScreen(dst, at, s, refused)
    PROVE  /\ Settles
           /\ ~refused => active' = dst
<1>1. sw' = Idle /\ sw'.wait = FALSE /\ cursor' = at
  BY StopSwitchIdle DEF SwitchScreen, Idle
<1>2. active \in clientSet /\ entered \cap clientSet = {active}
      /\ entered \subseteq alive \cup {Primary} /\ dst \in alive \cup {Primary}
  BY DEF FInv, Focused, ActiveIsConnected, EnteredIsActive, MInv, ProxiesAccounted
<1>3. CASE active = dst \/ (refused /\ active = Primary)
  <2>1. UNCHANGED <<active, entered>>
    BY <1>3 DEF SwitchScreen
  <2> QED
    BY <1>1, <1>2, <1>3, <2>1 DEF Settles
<1>4. CASE ~(active = dst \/ (refused /\ active = Primary))
  <2>1. active' = dst /\ entered' = (entered \ {active}) \cup {dst}
    BY <1>4 DEF SwitchScreen
  <2> QED
    BY <1>1, <1>2, <2>1 DEF Settles
<1> QED
  BY <1>3, <1>4

\* A state where the cursor stays
LEMMA StaySettles ==
    ASSUME FInv, sw'.wait = FALSE, UNCHANGED <<active, entered>>, cursor' \in {active, cursor}
    PROVE  Settles
  BY DEF FInv, Focused, ActiveIsConnected, EnteredIsActive, CursorOnActive, Settles

LEMMA NoSwitchWaits ==
    ASSUME NEW s, Aimed(s), NEW late \in BOOLEAN, NEW inward \in BOOLEAN
    PROVE  NoSwitch(s, late, inward).wait = FALSE
<1>1. ArmSwitchTwoTap(s, late, inward) \in SwitchStates
  BY StopsAimed DEF Aimed
<1> QED
  BY <1>1 DEF NoSwitch, StopSwitchWait, SwitchStates

LEMMA MotionPrimarySettles ==
    ASSUME FInv, active = Primary,
           NEW dirh \in Dirs \cup {NoDir}, NEW dirv \in Dirs \cup {NoDir}, NEW env,
           NEW late \in BOOLEAN, NEW inward \in BOOLEAN, NEW refused \in Refusals,
           OnMouseMovePrimary(dirh, dirv, env, late, inward, refused)
    PROVE  Settles
<1> DEFINE Try(s, d) == IsSwitchOkay(s, GetNeighbor(Primary, d), d, opts, Cornered, locked, env)
           h == IF dirh = NoDir THEN [sw |-> sw, ok |-> FALSE] ELSE Try(sw, dirh)
           v == IF dirv = NoDir THEN [sw |-> h.sw, ok |-> FALSE] ELSE Try(h.sw, dirv)
           Fine(r, d) == Aimed(r.sw) /\ r.sw.wait = FALSE /\ (r.ok => GetNeighbor(Primary, d) \in clientSet)
<1>1. Aimed(sw) /\ sw.wait = FALSE /\ opts["delay"] = FALSE /\ (refused => LeaveMayFail)
  BY DEF FInv, MInv, BasicInv, TypeOK, Aimed, Focused, NoWait, Refusals
<1>2. \A s, d : Aimed(s) /\ s.wait = FALSE /\ d \in Dirs => Fine(Try(s, d), d)
  <2>1. TAKE s, d
  <2>2. HAVE Aimed(s) /\ s.wait = FALSE /\ d \in Dirs
  <2>3. GetNeighbor(Primary, d) \in clientSet \cup {NoProxy} /\ clientSet \subseteq Screens
    BY NeighborIsMember
  <2>4. GetNeighbor(Primary, d) \in Screens \cup {NoProxy}
    BY <2>3
  <2>5. /\ Aimed(Try(s, d).sw) /\ Try(s, d).sw.wait = FALSE
        /\ Try(s, d).ok => GetNeighbor(Primary, d) # NoProxy
    BY <1>1, <2>2, <2>4, NoWaitStarts
  <2> QED
    BY <2>3, <2>5
<1> HIDE DEF Try
<1>3. Fine(h, dirh)
  BY <1>1, <1>2
<1> HIDE DEF h
<1>4. Fine(v, dirv)
  BY <1>2, <1>3
<1>5. \/ /\ sw' = NoSwitch(sw, late, inward)
         /\ cursor' = Primary /\ UNCHANGED <<active, entered>>
      \/ h.ok /\ SwitchScreen(GetNeighbor(Primary, dirh), GetNeighbor(Primary, dirh), h.sw, refused)
      \/ v.ok /\ SwitchScreen(GetNeighbor(Primary, dirv), GetNeighbor(Primary, dirv), v.sw, refused)
      \/ /\ sw' = v.sw
         /\ cursor' = Primary /\ UNCHANGED <<active, entered>>
  BY DEF OnMouseMovePrimary, h, Try
<1> HIDE DEF v
<1> QED
  BY <1>1, <1>3, <1>4, <1>5, NoSwitchWaits, SwitchSettles, StaySettles

LEMMA MotionSecondarySettles ==
    ASSUME FInv,
           NEW dir \in Dirs \cup {NoDir}, NEW dst \in clientSet \cup {NoProxy}, NEW env,
           NEW late \in BOOLEAN, NEW inward \in BOOLEAN, NEW offEdge,
           OnMouseMoveSecondary(dir, dst, env, late, inward, offEdge)
    PROVE  Settles
<1> DEFINE try == IsSwitchOkay(sw, dst, dir, opts, Cornered, locked, env)
<1>1. Aimed(sw) /\ sw.wait = FALSE /\ opts["delay"] = FALSE /\ dst \in Screens \cup {NoProxy}
  BY DEF FInv, MInv, BasicInv, TypeOK, Aimed, Focused, NoWait
<1>2. dir # NoDir => Aimed(try.sw) /\ try.sw.wait = FALSE /\ (try.ok => dst \in clientSet)
  BY <1>1, NoWaitStarts
<1>3. \/ UNCHANGED <<sw, cursor, active, entered>>
      \/ sw' \in {sw, NoSwitch(sw, late, inward)} /\ cursor' = active /\ UNCHANGED <<active, entered>>
      \/ dir # NoDir /\ try.ok /\ SwitchScreen(dst, dst, try.sw, FALSE)
      \/ dir # NoDir /\ sw' = try.sw /\ cursor' = active /\ UNCHANGED <<active, entered>>
  BY DEF OnMouseMoveSecondary
<1> HIDE DEF try
<1>4. NoSwitch(sw, late, inward).wait = FALSE
  BY <1>1, NoSwitchWaits
<1> QED
  BY <1>1, <1>2, <1>3, <1>4, SwitchSettles, StaySettles

-----------------------------------------------------------------------------
(* Every step *)

LEMMA SettledFocus ==
    ASSUME FInv, Settles, UNCHANGED <<clientSet, alive, opts>>, SaverHolds',
           activeSaver' \in clientSet \cup {NoProxy},
           ~LeaveMayFail => \A p \in clientSet : jumpPos'[p] = p
    PROVE  Focused'
  BY DEF FInv, Focused, NoWait, Settles, ActiveIsConnected, EnteredIsActive, CursorOnActive

\* A motion, which keeps the screen saver as it is.
LEMMA MotionFocus ==
    ASSUME FInv, Settles, MotionFrame, ~saver \/ active' = active,
           \A p \in clientSet : jumpPos'[p] \in {p, jumpPos[p]}
    PROVE  Focused'
<1>1. SaverHolds'
  BY DEF FInv, Focused, SaverHolds, MotionFrame
<1>2. ~LeaveMayFail => \A p \in clientSet : jumpPos'[p] = p
  BY DEF FInv, Focused, CursorOnActive
<1> QED
  BY <1>1, <1>2, SettledFocus DEF MotionFrame, clientVars, FInv, Focused, ActiveIsConnected

LEMMA JumpFocus ==
    ASSUME FInv, ~saver, NEW dst \in clientSet, JumpToScreen(dst), MotionFrame
    PROVE  Focused'
<1>1. PICK refused \in Refusals : SwitchScreen(dst, jumpPos'[dst], sw, refused)
  BY DEF JumpToScreen
<1>2. jumpPos' = [jumpPos EXCEPT ![active] = cursor] /\ jumpPos \in [Screens -> Screens]
      /\ active \in Screens /\ dst \in Screens /\ clientSet \subseteq Screens /\ Aimed(sw)
  BY DEF JumpToScreen, FInv, MInv, BasicInv, TypeOK, Aimed
<1>3. ~LeaveMayFail => \A p \in clientSet : jumpPos'[p] = p
  BY <1>2 DEF FInv, Focused, CursorOnActive
<1>4. Settles
  <2>1. ~LeaveMayFail => jumpPos'[dst] = dst
    BY <1>3
  <2>2. refused => LeaveMayFail
    BY <1>1 DEF Refusals
  <2> QED
    BY <1>1, <1>2, <2>1, <2>2, SwitchSettles
<1>5. SaverHolds'
  BY DEF FInv, Focused, SaverHolds, MotionFrame
<1> QED
  BY <1>3, <1>4, <1>5, SettledFocus DEF MotionFrame, clientVars, FInv, Focused, ActiveIsConnected

\* Steps that leave the focus alone.
LEMMA FocusUntouched ==
    ASSUME FInv, UNCHANGED <<clientSet, focusVars, sw, opts>>, alive \subseteq alive'
    PROVE  Focused'
  BY DEF FInv, Focused, NoWait, SaverHolds, ActiveIsConnected, EnteredIsActive, CursorOnActive, focusVars

\* Members that go, with what a deleted client leaves.
Leaves(gone) ==
    /\ gone \subseteq clientSet \ {Primary} /\ clientSet' = clientSet \ gone
    /\ ForceLeave(gone)
    /\ entered' = EnteredAfterLeaving(gone) \ (alive \ alive')
    /\ alive' \subseteq alive /\ (alive \ alive') \cap clientSet' = {}
    /\ cursor' \in {active', CursorAfterLeaving(gone)}
    /\ sw'.wait = FALSE /\ opts'["delay"] = FALSE
    /\ UNCHANGED <<jumpPos, saver>>

LEMMA LeavingFocus ==
    ASSUME FInv, NEW gone, Leaves(gone)
    PROVE  Focused'
<1>1. /\ active \in clientSet /\ activeSaver \in clientSet \cup {NoProxy}
      /\ entered \cap clientSet = {active} /\ entered \subseteq alive \cup {Primary}
      /\ IF saver THEN active = Primary ELSE activeSaver = NoProxy
  BY DEF FInv, Focused, SaverHolds, ActiveIsConnected, EnteredIsActive
<1>2. Primary \in clientSet' /\ Primary \notin gone /\ Primary \notin alive /\ NoProxy \notin clientSet
      /\ Primary # NoProxy
  <2>1. Primary \in clientSet /\ clientSet \subseteq Screens /\ alive \subseteq Proxies
    BY DEF FInv, MInv, Members, BasicInv, TypeOK
  <2> QED
    BY <2>1, ScreensDistinct DEF Leaves, Screens
<1>3. /\ active' = IF Focus \in gone THEN Primary ELSE active
      /\ activeSaver' = IF activeSaver \in gone THEN NoProxy ELSE activeSaver
      /\ saver' = saver
  BY DEF Leaves, ForceLeave
<1>4. active' \in clientSet' /\ (Focus \notin gone => active' = active)
      /\ activeSaver' \in clientSet' \cup {NoProxy}
  BY <1>1, <1>2, <1>3 DEF Focus, Leaves
<1>5. SaverHolds'
  BY <1>1, <1>3 DEF Focus, SaverHolds
<1>6. (entered' \cap clientSet' = {active'}) /\ entered' \subseteq alive' \cup {Primary}
  <2>1. CASE Focus \in gone /\ activeSaver = NoProxy
    <3>1. active \in gone /\ active' = Primary
          /\ entered' = (entered \cup {Primary}) \ (alive \ alive')
      BY <1>3, <2>1 DEF Focus, Leaves, EnteredAfterLeaving
    <3> QED
      BY <1>1, <1>2, <3>1 DEF Leaves
  <2>2. CASE ~(Focus \in gone /\ activeSaver = NoProxy)
    <3>1. entered' = entered \ (alive \ alive')
      BY <2>2 DEF Leaves, EnteredAfterLeaving
    <3>2. active' = active /\ active \notin gone
      BY <1>1, <1>2, <1>3, <2>2 DEF Focus
    <3> QED
      BY <1>1, <1>2, <1>4, <3>1, <3>2 DEF Leaves
  <2> QED
    BY <2>1, <2>2
<1>7. ~LeaveMayFail => CursorOnActive'
  BY <1>3, <1>4 DEF Leaves, CursorAfterLeaving, FInv, Focused, CursorOnActive
<1>8. NoWait'
  BY DEF Leaves, NoWait
<1> QED
  BY <1>4, <1>5, <1>6, <1>7, <1>8 DEF Focused, ActiveIsConnected, EnteredIsActive

LEMMA WaitsNot ==
    ASSUME FInv, NEW gone
    PROVE  /\ SwitchStateAfterLeaving(gone).wait = FALSE
           /\ SwitchStateAfterLeaving(gone) \in SwitchStates
<1>1. sw \in SwitchStates /\ sw.wait = FALSE /\ Aimed(sw)
  BY DEF FInv, Focused, NoWait, MInv, BasicInv, TypeOK, Aimed
<1>2. StopSwitch(sw) \in SwitchStates /\ StopSwitch(sw).wait = FALSE
  BY <1>1 DEF StopSwitch, StopSwitchTwoTap, StopSwitchWait, SwitchStates
<1> QED
  BY <1>1, <1>2 DEF SwitchStateAfterLeaving

LEMMA ReloadFocus ==
    ASSUME FInv, NoDelay, SteadyNames, NEW c \in Configs, ReloadConfig(c)
    PROVE  Focused'
<1> DEFINE gone == {clients[n] : n \in {m \in Names : c.canon[m] # m}} \ {Primary, NoProxy}
           left == SwitchStateAfterLeaving(gone)
<1>1. c.canon[ServerName] # NoName
  BY ServerKeepsName, ConfigsAssumption
<1>2. /\ CloseClients(gone, c) /\ entered' = EnteredAfterLeaving(gone) /\ opts' = OptionsAfter(c)
      /\ sw' = SwitchStateAfter(c, left)
      /\ cursor' = CursorAfterRelativeMoves(opts["relative"] /\ ~opts'["relative"],
                                            active', CursorAfterLeaving(gone))
      /\ UNCHANGED <<alive, jumpPos, saver>>
  BY <1>1 DEF ReloadConfig
<1>3. gone \subseteq clientSet \ {Primary}
  BY DEF FInv, MInv, Members, Connected
<1> HIDE DEF gone
<1>4. left.wait = FALSE /\ left \in SwitchStates
  BY WaitsNot
<1> HIDE DEF left
<1>5. sw'.wait = FALSE
  BY <1>2, <1>4 DEF SwitchStateAfter, StopSwitchWait, StopSwitchTwoTap, SwitchStates
<1>6. opts'["delay"] = FALSE
  <2>1. c.options["delay"] # "on" /\ opts["delay"] = FALSE /\ "delay" \in CopiedOptions
    BY DEF NoDelay, FInv, Focused, NoWait, CopiedOptions
  <2>2. opts' = [o \in CopiedOptions |-> IF c.options[o] = "absent"
                                         THEN o # "needsModifiers" /\ opts[o]
                                         ELSE c.options[o] = "on"]
    BY <1>2 DEF OptionsAfter
  <2> QED
    BY <2>1, <2>2
<1>7. clientSet' = clientSet \ gone /\ ForceLeave(gone)
  BY <1>2 DEF CloseClients, RemoveClients
<1>8. cursor' \in {active', CursorAfterLeaving(gone)}
  BY <1>2 DEF CursorAfterRelativeMoves
<1>9. entered' = EnteredAfterLeaving(gone) \ (alive \ alive')
  BY <1>2
<1> QED
  BY <1>2, <1>3, <1>5, <1>6, <1>7, <1>8, <1>9, LeavingFocus DEF Leaves

LEMMA ClientsFocus ==
    ASSUME FInv, MInv', NEW p \in Proxies,
           \/ \E w \in Names : AdoptClient(p, w)
           \/ ClientProxyDisconnect(p)
           \/ HandleClientDisconnected(p)
           \/ HandleClientCloseTimeout(p)
    PROVE  Focused'
<1>1. /\ p # Primary /\ p # NoProxy /\ clientSet \subseteq Screens
      /\ clientSet \subseteq alive \cup {Primary} /\ clientSet \cap oldClients = {}
      /\ entered \subseteq alive \cup {Primary} /\ jumpPos \in [Screens -> Screens]
  BY ScreensDistinct DEF FInv, MInv, ProxiesAccounted, BasicInv, TypeOK, Focused
<1>2. CASE \E w \in Names : AdoptClient(p, w)
  <2>1. /\ p \notin alive /\ alive' = alive \cup {p}
        /\ clientSet' \subseteq clientSet \cup {p} /\ clientSet \subseteq clientSet'
        /\ UNCHANGED <<active, activeSaver, cursor, entered, saver, sw, opts>>
        /\ \A q \in clientSet' : jumpPos'[q] = IF q \in clientSet THEN jumpPos[q] ELSE q
    BY <1>1, <1>2 DEF AdoptClient, switchVars, Screens
  <2>2. entered \cap clientSet' = {active}
    BY <1>1, <2>1 DEF FInv, Focused, EnteredIsActive
  <2> QED
    BY <2>1, <2>2 DEF FInv, Focused, NoWait, SaverHolds, ActiveIsConnected, EnteredIsActive,
       CursorOnActive
<1>3. CASE ClientProxyDisconnect(p)
  BY <1>3, FocusUntouched DEF ClientProxyDisconnect, switchVars
<1>4. CASE HandleClientDisconnected(p)
  <2>1. alive' = alive \ {p} /\ p \in alive /\ UNCHANGED <<jumpPos, saver, opts>>
    BY <1>4 DEF HandleClientDisconnected, FInv, MInv, ProxiesAccounted
  <2>2. CASE p \in clientSet
    <3>1. /\ clientSet' = clientSet \ {p} /\ ForceLeave({p})
          /\ entered' = EnteredAfterLeaving({p}) \ {p}
          /\ sw' = SwitchStateAfterLeaving({p}) /\ cursor' = CursorAfterLeaving({p})
      BY <1>4, <2>2 DEF HandleClientDisconnected, RemoveClients
    <3>2. sw'.wait = FALSE /\ opts'["delay"] = FALSE
      BY <2>1, <3>1, WaitsNot DEF FInv, Focused, NoWait
    <3>3. alive \ alive' = {p}
      BY <2>1
    <3>4. Leaves({p})
      BY <1>1, <2>1, <2>2, <3>1, <3>2, <3>3 DEF Leaves
    <3> QED
      BY <3>4, LeavingFocus
  <2>3. CASE p \notin clientSet
    <3>1. /\ UNCHANGED <<clientSet, active, activeSaver, sw, cursor>> /\ entered' = entered \ {p}
      BY <1>4, <2>3 DEF HandleClientDisconnected
    <3> QED
      BY <1>1, <2>1, <2>3, <3>1 DEF FInv, Focused, NoWait, SaverHolds, ActiveIsConnected,
         EnteredIsActive, CursorOnActive
  <2> QED
    BY <2>2, <2>3
<1>5. CASE HandleClientCloseTimeout(p)
  <2>1. UNCHANGED <<clientSet, active, activeSaver, sw, cursor, opts, jumpPos, saver>>
    BY <1>5 DEF HandleClientCloseTimeout, switchVars
  <2>2. \/ alive' = alive \ {p} /\ entered' = entered \ {p} /\ p \in oldClients
        \/ UNCHANGED <<alive, entered>>
    <3>1. p \in oldClients
      BY <1>5 DEF HandleClientCloseTimeout, FInv, MInv, ProxiesAccounted
    <3> QED
      BY <1>5, <3>1 DEF HandleClientCloseTimeout
  <2> QED
    BY <1>1, <2>1, <2>2 DEF FInv, Focused, NoWait, SaverHolds, ActiveIsConnected,
       EnteredIsActive, CursorOnActive
<1> QED
  BY <1>2, <1>3, <1>4, <1>5

LEMMA DisconnectFocus ==
    ASSUME FInv, Disconnect
    PROVE  Focused'
<1> DEFINE gone == Connected \ {Primary}
<1>1. CASE Alone(clients, oldClients)
  BY <1>1 DEF Disconnect, FInv, Focused, NoWait, SaverHolds, ActiveIsConnected, EnteredIsActive,
     CursorOnActive
<1>2. CASE ~Alone(clients, oldClients)
  <2>1. /\ CloseClients(gone, config) /\ entered' = EnteredAfterLeaving(gone)
        /\ sw' = SwitchStateAfterLeaving(gone) /\ cursor' = CursorAfterLeaving(gone)
        /\ UNCHANGED <<alive, jumpPos, saver, opts>>
    BY <1>2 DEF Disconnect
  <2>2. gone \subseteq clientSet \ {Primary}
    BY DEF FInv, MInv, Members
  <2> HIDE DEF gone
  <2>3. clientSet' = clientSet \ gone /\ ForceLeave(gone)
    BY <2>1 DEF CloseClients, RemoveClients
  <2>4. sw'.wait = FALSE /\ opts'["delay"] = FALSE
    BY <2>1, WaitsNot DEF FInv, Focused, NoWait
  <2>5. entered' = EnteredAfterLeaving(gone) \ (alive \ alive')
    BY <2>1
  <2> QED
    BY <2>1, <2>2, <2>3, <2>4, <2>5, LeavingFocus DEF Leaves
<1> QED
  BY <1>1, <1>2

LEMMA InputFocus ==
    ASSUME FInv, ~ActivityDuringSaver,
           \/ HandleMotionPrimaryEvent \/ HandleMotionSecondaryEvent
           \/ \E n \in Names : HandleSwitchToScreenEvent(n)
           \/ \E d \in Dirs : HandleSwitchInDirectionEvent(d)
    PROVE  Focused'
<1>1. ~saver
  BY DEF HandleMotionPrimaryEvent, HandleMotionSecondaryEvent, HandleSwitchToScreenEvent,
     HandleSwitchInDirectionEvent, InputArrives
<1>2. CASE HandleMotionPrimaryEvent
  <2>1. Settles /\ MotionFrame /\ UNCHANGED jumpPos
    BY <1>2, MotionPrimarySettles DEF HandleMotionPrimaryEvent, Vary
  <2> QED
    BY <1>1, <2>1, MotionFocus
<1>3. CASE HandleMotionSecondaryEvent
  <2>1. \A d : MapToNeighbor(active, d) \subseteq clientSet \cup {NoProxy}
    BY NeighborIsMember
  <2>2. Settles /\ MotionFrame /\ UNCHANGED jumpPos
    BY <1>3, <2>1, MotionSecondarySettles DEF HandleMotionSecondaryEvent, Vary
  <2> QED
    BY <1>1, <2>2, MotionFocus
<1>4. CASE \E n \in Names : HandleSwitchToScreenEvent(n)
  <2>1. PICK n \in Names : clients[n] # NoProxy /\ JumpToScreen(clients[n]) /\ MotionFrame
    BY <1>4 DEF HandleSwitchToScreenEvent
  <2>2. clients[n] \in clientSet
    BY <2>1 DEF FInv, MInv, Members, Connected
  <2> QED
    BY <1>1, <2>1, <2>2, JumpFocus
<1>5. CASE \E d \in Dirs : HandleSwitchInDirectionEvent(d)
  <2>1. PICK d \in Dirs : GetNeighbor(active, d) # NoProxy /\ JumpToScreen(GetNeighbor(active, d))
                          /\ MotionFrame
    BY <1>5 DEF HandleSwitchInDirectionEvent
  <2>2. GetNeighbor(active, d) \in clientSet
    BY <2>1, NeighborIsMember
  <2> QED
    BY <1>1, <2>1, <2>2, JumpFocus
<1> QED
  BY <1>2, <1>3, <1>4, <1>5

LEMMA ShapeFocus ==
    ASSUME FInv, ~ActivityDuringSaver, NEW p \in Screens, HandleShapeChanged(p)
    PROVE  Focused'
<1>1. p \in clientSet /\ MotionFrame /\ (p = Primary => ~saver)
      /\ \A q \in clientSet : jumpPos'[q] \in {q, jumpPos[q]}
  BY DEF HandleShapeChanged, InputArrives, FInv, MInv, BasicInv, TypeOK
<1>2. CASE p # Primary
  <2>1. cursor' \in {active, cursor} /\ UNCHANGED <<sw, active, entered>>
    BY <1>2 DEF HandleShapeChanged
  <2>2. Settles
    BY <2>1, StaySettles DEF FInv, Focused, NoWait
  <2> QED
    BY <1>1, <2>1, <2>2, MotionFocus
<1>3. CASE p = Primary /\ active = Primary
  <2>1. Settles
    BY <1>3, MotionPrimarySettles DEF HandleShapeChanged, Vary
  <2> QED
    BY <1>1, <1>3, <2>1, MotionFocus
<1>4. CASE p = Primary /\ active # Primary
  <2>1. Settles
    BY <1>4, MotionSecondarySettles DEF HandleShapeChanged, Vary
  <2> QED
    BY <1>1, <1>4, <2>1, MotionFocus
<1> QED
  BY <1>2, <1>3, <1>4

LEMMA SaverFocus ==
    ASSUME FInv, ScreensaverActivated \/ ScreensaverDeactivated
    PROVE  Focused'
<1>1. /\ UNCHANGED <<clientSet, alive, jumpPos, opts>> /\ Aimed(sw) /\ sw.wait = FALSE
      /\ Primary \in clientSet /\ Primary # NoProxy
      /\ active \in clientSet /\ activeSaver \in clientSet \cup {NoProxy}
      /\ ~LeaveMayFail => \A p \in clientSet : jumpPos[p] = p
  BY ScreensDistinct DEF ScreensaverActivated, ScreensaverDeactivated, clientVars, FInv, MInv,
     Members, BasicInv, TypeOK, Aimed, Focused, NoWait, ActiveIsConnected, CursorOnActive
<1>2. CASE ScreensaverActivated
  <2>1. saver' = TRUE /\ activeSaver' = active
    BY <1>2 DEF ScreensaverActivated
  <2>2. Settles /\ active' = Primary
    <3>1. CASE active # Primary
      BY <1>1, <1>2, <3>1, SwitchSettles DEF ScreensaverActivated
    <3>2. CASE active = Primary
      BY <1>1, <1>2, <3>2, StaySettles DEF ScreensaverActivated
    <3> QED
      BY <3>1, <3>2
  <2> QED
    BY <1>1, <2>1, <2>2, SettledFocus DEF SaverHolds
<1>3. CASE ScreensaverDeactivated
  <2>1. saver' = FALSE /\ activeSaver' = NoProxy
    BY <1>3 DEF ScreensaverDeactivated
  <2>2. Settles
    <3>1. CASE activeSaver \notin {NoProxy, Primary}
      <4>1. PICK refused \in Refusals : SwitchScreen(activeSaver, activeSaver, sw, refused)
        BY <1>3, <3>1 DEF ScreensaverDeactivated
      <4>2. refused => LeaveMayFail
        BY <4>1 DEF Refusals
      <4> QED
        BY <1>1, <3>1, <4>1, <4>2, SwitchSettles
    <3>2. CASE activeSaver \in {NoProxy, Primary}
      BY <1>1, <1>3, <3>2, StaySettles DEF ScreensaverDeactivated
    <3> QED
      BY <3>1, <3>2
  <2> QED
    BY <1>1, <2>1, <2>2, SettledFocus DEF SaverHolds
<1> QED
  BY <1>2, <1>3

LEMMA FInvStep ==
    ASSUME SteadyNames, NoDelay, ~ActivityDuringSaver, FInv, [Next]_vars
    PROVE  FInv'
<1>1. MInv'
  BY MInvStep DEF FInv
<1>2. ASSUME HandleSwitchWaitTimeout PROVE FALSE
  BY <1>2 DEF HandleSwitchWaitTimeout, FInv, Focused, NoWait
<1>3. ASSUME HandleLockCursorToScreenEvent PROVE Focused'
  <2>1. /\ UNCHANGED <<clientVars, active, activeSaver, jumpPos, entered, saver, sw, opts>>
        /\ cursor' \in {active, cursor}
    BY <1>3 DEF HandleLockCursorToScreenEvent, CursorAfterRelativeMoves
  <2> QED
    BY <2>1 DEF clientVars, FInv, Focused, NoWait, SaverHolds, ActiveIsConnected, EnteredIsActive,
       CursorOnActive
<1>4. ASSUME UseDestroyed \/ UNCHANGED vars PROVE Focused'
  BY <1>4, FocusUntouched DEF UseDestroyed, vars, clientVars, switchVars
<1>5. Focused'
  BY <1>1, <1>2, <1>3, <1>4, ClientsFocus, ReloadFocus, DisconnectFocus, InputFocus, ShapeFocus,
     SaverFocus, ConfigsAssumption DEF Next
<1> QED
  BY <1>1, <1>5 DEF FInv

LEMMA FInvInit == SteadyNames /\ NoDelay /\ Init => FInv
<1> SUFFICES ASSUME SteadyNames, NoDelay, Init PROVE FInv
  OBVIOUS
<1>1. MInv
  BY MInvInit
<1>2. opts = [o \in CopiedOptions |-> StartConfig.options[o] = "on"] /\ "delay" \in CopiedOptions
  BY DEF Init, CopiedOptions
<1>3. NoWait
  BY <1>2, ConfigsAssumption DEF Init, NoWait, NoDelay, Idle
<1>4. Focused
  BY <1>3, ScreensDistinct DEF Init, Focused, SaverHolds, ActiveIsConnected, EnteredIsActive,
     CursorOnActive, Screens
<1> QED
  BY <1>1, <1>4 DEF FInv

\* Whoever leaves in whatever way, the cursor is on a connected screen, and so is
\* the one it returns to after the screen saver (Server::forceLeaveClient,
\* switchScreen, onScreensaver).
THEOREM FocusKept ==
    ASSUME SteadyNames, NoDelay, ~ActivityDuringSaver
    PROVE  Spec => []ActiveIsConnected
<1>1. FInv => ActiveIsConnected
  BY DEF FInv, Focused
<1> QED
  BY <1>1, FInvInit, FInvStep, PTL DEF Spec

\* And exactly that screen has been entered, also where the platform may refuse to
\* leave the primary (Server::switchScreen, Screen::enter, Screen::leave).
THEOREM EnteredKept ==
    ASSUME SteadyNames, NoDelay, ~ActivityDuringSaver
    PROVE  Spec => []EnteredIsActive
<1>1. FInv => EnteredIsActive
  BY DEF FInv, Focused
<1> QED
  BY <1>1, FInvInit, FInvStep, PTL DEF Spec

\* Where the platform never refuses to leave the primary, the cursor has a position
\* of the screen it is on, and so has each jump position (Server::switchScreen,
\* jumpToScreen, stopRelativeMoves).
THEOREM CursorKept ==
    ASSUME SteadyNames, NoDelay, ~ActivityDuringSaver, ~LeaveMayFail
    PROVE  Spec => []CursorOnActive
<1>1. FInv => CursorOnActive
  BY DEF FInv, Focused
<1> QED
  BY <1>1, FInvInit, FInvStep, PTL DEF Spec

-----------------------------------------------------------------------------
(* The edges that the platform watches *)

LEMMA SidesStep ==
    ASSUME SteadyNames, SidesCurrent, [Next]_vars
    PROVE  SidesCurrent'
<1>1. ASSUME NEW c, config' = c, sides' = ActivePrimarySides(c, locked') PROVE SidesCurrent'
  <2>1. ~locked' => ActivePrimarySides(c, locked') = ActivePrimarySides(c, FALSE)
    BY DEF ActivePrimarySides
  <2> QED
    BY <1>1, <2>1 DEF SidesCurrent, ActivePrimarySides
<1>2. ASSUME UNCHANGED <<sides, config, locked>> PROVE SidesCurrent'
  BY <1>2 DEF SidesCurrent, ActivePrimarySides
<1>3. ASSUME \/ \E p \in Proxies, w \in ClientNames : AdoptClient(p, w)
             \/ \E p \in Proxies : HandleClientDisconnected(p)
             \/ Disconnect \/ HandleLockCursorToScreenEvent
      PROVE  SidesCurrent'
  <2>1. /\ config' = config
        /\ UNCHANGED <<sides, locked>> \/ sides' = ActivePrimarySides(config, locked')
    BY <1>3 DEF AdoptClient, HandleClientDisconnected, Disconnect, HandleLockCursorToScreenEvent,
       Reconfigure, switchVars
  <2> QED
    BY <1>1, <1>2, <2>1
<1>4. ASSUME NEW c \in Configs, ReloadConfig(c) PROVE SidesCurrent'
  <2>1. c.canon[ServerName] # NoName
    BY ServerKeepsName, ConfigsAssumption
  <2>2. config' = c /\ sides' = ActivePrimarySides(c, locked) /\ locked' = locked
    BY <1>4, <2>1 DEF ReloadConfig, Reconfigure
  <2> QED
    BY <1>1, <2>2
<1>5. ASSUME \/ \E p \in Proxies : ClientProxyDisconnect(p) \/ HandleClientCloseTimeout(p)
             \/ HandleMotionPrimaryEvent \/ HandleMotionSecondaryEvent
             \/ \E p \in Screens : HandleShapeChanged(p)
             \/ HandleSwitchWaitTimeout
             \/ \E n \in Names : HandleSwitchToScreenEvent(n)
             \/ \E d \in Dirs : HandleSwitchInDirectionEvent(d)
             \/ ScreensaverActivated \/ ScreensaverDeactivated \/ UseDestroyed \/ UNCHANGED vars
      PROVE  UNCHANGED <<sides, config, locked>>
  BY <1>5 DEF ClientProxyDisconnect, HandleClientCloseTimeout, HandleMotionPrimaryEvent,
     HandleMotionSecondaryEvent, HandleShapeChanged, HandleSwitchWaitTimeout,
     HandleSwitchToScreenEvent, HandleSwitchInDirectionEvent, ScreensaverActivated,
     ScreensaverDeactivated, UseDestroyed, MotionFrame, vars, focusVars, switchVars
<1> QED
  BY <1>2, <1>3, <1>4, <1>5 DEF Next

\* An unlocked primary watches exactly the edges behind which the configuration in
\* force has a link (Server::reconfigure, getActivePrimarySides).
THEOREM SidesKept == ASSUME SteadyNames PROVE Spec => []SidesCurrent
<1>1. Init => SidesCurrent
  BY DEF Init, SidesCurrent
<1> QED
  BY <1>1, SidesStep, PTL DEF Spec
=============================================================================
