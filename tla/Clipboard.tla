----------------------------- MODULE Clipboard -----------------------------
(***************************************************************************)
(* Sharing clipboards between the primary and the clients: who owns each   *)
(* clipboard, who has been told, and when its contents are sent (classes   *)
(* Server, PrimaryClient and ClientProxy1_6 on one side, Client and        *)
(* ServerProxy on the other).                                              *)
(*                                                                         *)
(* The server and each client run one event handler at a time.  Grabs,     *)
(* enters and leaves are written to the connection at once; contents go    *)
(* through the sender's own event queue first (StreamChunker posts the     *)
(* chunks as events), so the two can overtake each other.  Connections are *)
(* reliable and ordered.  The chunks of one transfer are one message, and  *)
(* contents are the number of the copy that made them, 0 for none.         *)
(***************************************************************************)
EXTENDS Integers, Sequences, FiniteSets, SequencesExt, TLC

CONSTANTS
    Clients,        \* screens that may connect, by name
    Primary,        \* the primary screen
    Ids,            \* clipboards (kClipboardClipboard, kClipboardSelection)
    Oversize,       \* copies that are larger than the configured limit
    Background,     \* screens where something may be copied while the cursor is
                    \* elsewhere
    Hasty,          \* what may be copied while messages are under way: copies that
                    \* the platform reports, and copies that it does not
    MaxCopies,      \* bound on copies
    MaxSwitches,    \* bound on switches
    MaxDepartures   \* bound on lost connections

ASSUME ClipboardAssumption ==
    /\ Primary \notin Clients /\ IsFiniteSet(Ids)
    /\ Background \subseteq Clients \cup {Primary}
    /\ Hasty \subseteq {"reported", "unreported"}
    /\ MaxCopies \in Nat /\ MaxSwitches \in Nat /\ MaxDepartures \in Nat
    /\ Oversize \subseteq 1..MaxCopies

Screens == Clients \cup {Primary}
Copies == 0..MaxCopies
Seqs == 0..MaxSwitches

VARIABLES
    \* the server
    connected,  \* clients in m_clientSet
    active,     \* m_active
    seqNum,     \* m_seqNum
    board,      \* per clipboard, m_clipboards and what the proxies hold, see Boards
    queue,      \* the server's event queue
    primarySeq, \* m_sequenceNumber of the primary's platform screen
    \* the clients
    here,       \* Client::m_active
    seq,        \* ServerProxy::m_seqNum
    mine,       \* per client and clipboard, see Clips
    clientQueue,\* the event queue of each client
    \* the connections
    down, up,   \* messages to and from each client
    \* bookkeeping
    made,       \* the copies made so far: where, and of which clipboard
    departures,
    unexpected, \* an update was taken from a screen that does not own the clipboard
    crashed     \* an event was delivered to a deleted ServerProxy or ClientProxy

serverVars == <<connected, active, seqNum, board, queue, primarySeq, unexpected>>
clientVars == <<here, seq, mine, clientQueue>>
netVars == <<down, up>>
bookVars == <<made, departures, crashed>>
vars == <<serverVars, clientVars, netVars, bookVars>>

\* What the server keeps of a clipboard: ClipboardInfo (owner, seq, clip, data),
\* the dirty flags and copies of the proxies, and what the primary's platform
\* shows and whether that is ours (held) or an application's.
Boards ==
    [owner : Screens, seq : Seqs, clip : Copies, data : Copies,
     dirty : [Screens -> BOOLEAN], cached : [Clients -> Copies],
     shown : Copies, held : BOOLEAN]

\* What a client keeps: the platform's clipboard, m_ownClipboard,
\* m_sentClipboard and m_dataClipboard.
Clips == [shown : Copies, held : BOOLEAN, own : BOOLEAN, sent : BOOLEAN, data : Copies]

\* Who made an event may be gone when it is handled.
Events ==
    [type : {"grabbed", "changed"}, from : Screens, id : Ids, seq : Seqs, gone : BOOLEAN]
    \cup [type : {"send"}, to : Clients, id : Ids, value : Copies, gone : BOOLEAN]

Requests ==
    [type : {"grabbed"}, id : Ids] \cup [type : {"send"}, id : Ids, value : Copies, seq : Seqs]

Messages ==
    [type : {"enter"}, seq : Seqs] \cup [type : {"leave"}]
    \cup [type : {"grab"}, id : Ids, seq : Seqs]
    \cup [type : {"clip"}, id : Ids, value : Copies, seq : Seqs]

\* One part after the other, in the order of the clipboards.
InTurn(parts) ==
    LET turns == SetToSeq(Ids)
        upTo[n \in 0..Len(turns)] ==
          IF n = 0 THEN <<>> ELSE upTo[n - 1] \o parts[turns[n]]
    IN  upTo[Len(turns)]

-----------------------------------------------------------------------------
(* The server's side of one clipboard *)

\* An operation on a clipboard b returns the new one and the screens its contents
\* are sent to, in order.
Quietly(b) == [board |-> b, to |-> <<>>, unexpected |-> FALSE]

\* setClipboard of PrimaryClient and ClientProxy1_6: only if it is dirty.
SetClipboard(b, s) ==
    IF ~b.dirty[s]
    THEN Quietly(b)
    ELSE LET clean == [b EXCEPT !.dirty[s] = FALSE]
         IN  IF s = Primary
             THEN Quietly([clean EXCEPT !.shown = b.clip, !.held = TRUE])
             ELSE [Quietly([clean EXCEPT !.cached[s] = b.clip]) EXCEPT !.to = <<s>>]

GetClipboard(b, s) == IF s = Primary THEN b.shown ELSE b.cached[s]

\* Mutant: the sequence number of an update is not compared.
OnAnyClipboardChanged(b, sender, seqno, act) ==
    LET value == GetClipboard(b, sender)
        all == [b EXCEPT !.clip = value, !.data = value,
                         !.dirty = [s \in Screens |->
                                      IF s \in connected \cup {Primary}
                                      THEN s # sender ELSE b.dirty[s]]]
    IN  [IF value = b.data THEN Quietly(b) ELSE SetClipboard(all, act)
           EXCEPT !.unexpected = sender # b.owner]

\* Mutant: an update does not make the copies of the other screens dirty.
OnClipboardChangedQuietly(b, sender, seqno, act) ==
    LET taken == [b EXCEPT !.clip = GetClipboard(b, sender),
                           !.data = GetClipboard(b, sender)]
    IN  [IF seqno < b.seq THEN Quietly(b) ELSE SetClipboard(taken, act)
           EXCEPT !.unexpected = seqno >= b.seq /\ sender # b.owner]

\* onClipboardChanged: sender reports contents as of seqno; act is m_active.
OnClipboardChanged(b, sender, seqno, act) ==
    LET value == GetClipboard(b, sender)
        taken == [b EXCEPT !.clip = value]
        all == [taken EXCEPT !.data = value,
                             !.dirty = [s \in Screens |->
                                          IF s \in connected \cup {Primary}
                                          THEN s # sender ELSE b.dirty[s]]]
        result == IF value \in Oversize \/ value = b.data
                  THEN Quietly(taken) ELSE SetClipboard(all, act)
    IN  IF seqno < b.seq
        THEN Quietly(b)
        ELSE [result EXCEPT !.unexpected = sender # b.owner]

\* Mutant: the contents of the former owner are not cleared.
OnClipboardGrabbedKeeping(b, grabber, seqno) ==
    [b EXCEPT !.owner = grabber, !.seq = seqno,
              !.dirty = [s \in Screens |-> s # grabber]]

\* The part of handleClipboardGrabbed that every accepted grab has; grabClipboard
\* makes a clipboard dirty, and empties that of the primary.
OnClipboardGrabbed(b, grabber, seqno) ==
    [b EXCEPT !.owner = grabber, !.seq = seqno, !.clip = 0, !.data = 0,
              !.dirty = [s \in Screens |-> IF s \in connected \cup {Primary}
                                           THEN s # grabber ELSE b.dirty[s]],
              !.shown = IF grabber = Primary THEN @ ELSE 0,
              !.held = IF grabber = Primary THEN @ ELSE TRUE]

\* The events of the contents that results (per clipboard) send.
Sends(results) ==
    InTurn([id \in Ids |-> [i \in DOMAIN results[id].to |->
                              [type |-> "send", to |-> results[id].to[i], id |-> id,
                               value |-> results[id].board.clip, gone |-> FALSE]]])

\* What a handler does to the clipboards and the queue left by earlier events.
Apply(results, rest) ==
    /\ board' = [id \in Ids |-> results[id].board]
    /\ queue' = rest \o Sends(results)
    /\ unexpected' = (unexpected \/ \E id \in Ids : results[id].unexpected)

-----------------------------------------------------------------------------
(* The server *)

Running == ~crashed

\* switchScreen, for the input of the primary, which reaches the server behind the
\* grabs of the primary that came before it: contents of the primary are fetched when it is left, and a screen
\* gets what it is missing when it is entered.
SwitchScreen(dst) ==
    LET Left(id) ==
          LET b == board[id]
          IN  IF active = Primary /\ b.owner = Primary
              THEN OnClipboardChanged(b, Primary, b.seq, Primary) ELSE Quietly(b)
        Entered(id) ==
          LET l == Left(id)
              e == IF l.board.clip \in Oversize
                   THEN Quietly(l.board) ELSE SetClipboard(l.board, dst)
          IN  [board |-> e.board, to |-> l.to \o e.to, unexpected |-> l.unexpected]
    IN  /\ Running
        /\ \A i \in DOMAIN queue :
             ~(queue[i].type = "grabbed" /\ queue[i].from = Primary)
        /\ dst \in connected \cup {Primary} /\ dst # active
        /\ seqNum < MaxSwitches
        /\ seqNum' = seqNum + 1
        /\ active' = dst
        /\ down' = [c \in Clients |->
                      IF c = active THEN Append(down[c], [type |-> "leave"])
                      ELSE IF c = dst
                      THEN Append(down[c], [type |-> "enter", seq |-> seqNum'])
                      ELSE down[c]]
        /\ primarySeq' = IF dst = Primary THEN seqNum' ELSE primarySeq
        /\ Apply([id \in Ids |-> Entered(id)], queue)
        /\ UNCHANGED <<connected, clientVars, up, bookVars>>

\* A grab is ignored if its sender is gone or has not been entered since the
\* clipboard was grabbed; the primary may always grab.
Accepts(e) ==
    /\ ~e.gone /\ e.from \in connected \cup {Primary}
    /\ e.from = Primary \/ e.seq >= board[e.id].seq

\* handleClipboardGrabbed.  Should the primary grab a clipboard while another
\* screen is active, the contents of all its clipboards are sent at once.
HandleClipboardGrabbed ==
    /\ Running
    /\ queue # <<>> /\ Head(queue).type = "grabbed"
    /\ LET e == Head(queue)
           after == [board EXCEPT ![e.id] = OnClipboardGrabbed(@, e.from, e.seq)]
       IN  IF ~Accepts(e)
           THEN queue' = Tail(queue) /\ UNCHANGED <<board, unexpected, down>>
           ELSE /\ down' = [c \in Clients |->
                              IF c \in connected \ {e.from}
                              THEN Append(down[c], [type |-> "grab", id |-> e.id, seq |-> 0])
                              ELSE down[c]]
                /\ Apply([id \in Ids |->
                            IF e.from = Primary /\ active # Primary
                            THEN OnClipboardChanged(after[id], Primary, after[id].seq, active)
                            ELSE Quietly(after[id])],
                         Tail(queue))
    /\ UNCHANGED <<connected, active, seqNum, primarySeq, clientVars, up, bookVars>>

\* handleClipboardChanged
HandleClipboardChanged ==
    /\ Running
    /\ queue # <<>> /\ Head(queue).type = "changed"
    /\ LET e == Head(queue)
       IN  Apply([id \in Ids |-> IF id = e.id /\ ~e.gone /\ e.from \in connected
                                  THEN OnClipboardChanged(board[id], e.from, e.seq, active)
                                  ELSE Quietly(board[id])],
                 Tail(queue))
    /\ UNCHANGED <<connected, active, seqNum, primarySeq, clientVars, netVars, bookVars>>

\* The event of a transfer is sent, if its stream is still there; if not, the
\* handler that nobody removed writes through a dangling pointer, which may
\* end the process or not.
SendQueued ==
    /\ Running
    /\ queue # <<>> /\ Head(queue).type = "send"
    /\ queue' = Tail(queue)
    /\ LET e == Head(queue)
       IN  IF e.gone
           THEN crashed' \in BOOLEAN /\ UNCHANGED down
           ELSE /\ down' = [down EXCEPT ![e.to] =
                              Append(@, [type |-> "clip", id |-> e.id, value |-> e.value, seq |-> 0])]
                /\ UNCHANGED crashed
    /\ UNCHANGED <<connected, active, seqNum, board, primarySeq, unexpected,
                   clientVars, up, made, departures>>

\* ClientProxy1_0::recvGrabClipboard and ClientProxy1_6::recvClipboard
ReceiveFromClient(c) ==
    /\ Running
    /\ up[c] # <<>>
    /\ up' = [up EXCEPT ![c] = Tail(@)]
    /\ LET m == Head(up[c])
           Notify(type) ==
             queue' = Append(queue, [type |-> type, from |-> c, id |-> m.id, seq |-> m.seq,
                                     gone |-> FALSE])
       IN  \/ m.type = "grab" /\ Notify("grabbed") /\ UNCHANGED board
           \/ /\ m.type = "clip" /\ Notify("changed")
              /\ board' = [board EXCEPT ![m.id].cached[c] = m.value]
    /\ UNCHANGED <<connected, active, seqNum, primarySeq, unexpected, clientVars, down, bookVars>>

-----------------------------------------------------------------------------
(* Copies *)

\* Nothing is under way.
Quiet ==
    /\ queue = <<>> /\ ~crashed
    /\ \A c \in Clients : clientQueue[c] = <<>> /\ down[c] = <<>> /\ up[c] = <<>>

\* A platform screen reports a copy, as a grab, only if it held the clipboard
\* (SelectionClear): not the second of two copies in a row.
Held(s, id) == IF s = Primary THEN board[id].held ELSE mine[s][id].held

NewCopy(s, id) ==
    /\ Quiet \/ (IF Held(s, id) THEN "reported" ELSE "unreported") \in Hasty
    /\ Len(made) < MaxCopies
    /\ made' = Append(made, [on |-> s, id |-> id])

\* Something is copied on the primary.
PrimaryCopies(id) ==
    /\ Running
    /\ active = Primary \/ Primary \in Background
    /\ NewCopy(Primary, id)
    /\ board' = [board EXCEPT ![id].shown = Len(made'), ![id].held = FALSE]
    /\ queue' = IF Held(Primary, id)
                THEN Append(queue, [type |-> "grabbed", from |-> Primary, id |-> id,
                                    seq |-> primarySeq, gone |-> FALSE])
                ELSE queue
    /\ UNCHANGED <<connected, active, seqNum, primarySeq, unexpected, clientVars, netVars,
                   departures, crashed>>

\* Something is copied on a client: where the cursor is, the client has been entered
\* since it connected.  m_active alone may be left from an earlier connection.
ClientCopies(c, id) ==
    /\ Running
    /\ c \in connected
    /\ (here[c] /\ seq[c] # 0) \/ c \in Background
    /\ NewCopy(c, id)
    /\ mine' = [mine EXCEPT ![c][id].shown = Len(made'), ![c][id].held = FALSE]
    /\ clientQueue' = IF Held(c, id)
                      THEN [clientQueue EXCEPT ![c] = Append(@, [type |-> "grabbed", id |-> id])]
                      ELSE clientQueue
    /\ UNCHANGED <<serverVars, here, seq, netVars, departures, crashed>>

-----------------------------------------------------------------------------
(* A client *)

\* sendClipboard: m is what the client has of the clipboard; whether to send, and
\* what it has then.  On X11 the time of a clipboard is the current time, so the
\* comparison with m_timeClipboard always passes and is left out.
SendableOnce(m) == m.shown \notin Oversize /\ ~m.sent    \* Mutant: changes are not sent.
Sendable(m) == m.shown \notin Oversize /\ (~m.sent \/ m.shown # m.data)
Sent(m) == IF Sendable(m) THEN [m EXCEPT !.sent = TRUE, !.data = m.shown] ELSE m

\* The event that StreamChunker posts for contents that are sent.
Transfer(c, id, m) ==
    IF Sendable(m)
    THEN <<[type |-> "send", id |-> id, value |-> m.shown, seq |-> seq[c]]>>
    ELSE <<>>

\* handleClipboardGrabbed of the client: the server is told at once, and the
\* contents follow unless the cursor is here.
ClientGrabs(c) ==
    /\ Running
    /\ c \in connected
    /\ clientQueue[c] # <<>> /\ Head(clientQueue[c]).type = "grabbed"
    /\ LET id == Head(clientQueue[c]).id
           m == [mine[c][id] EXCEPT !.own = TRUE, !.sent = FALSE]
       IN  /\ up' = [up EXCEPT ![c] = Append(@, [type |-> "grab", id |-> id, seq |-> seq[c]])]
           /\ mine' = [mine EXCEPT ![c][id] = IF here[c] THEN m ELSE Sent(m)]
           /\ clientQueue' = [clientQueue EXCEPT ![c] =
                                Tail(@) \o IF here[c] THEN <<>> ELSE Transfer(c, id, m)]
    /\ UNCHANGED <<serverVars, here, seq, down, bookVars>>

\* handleClipboardSendingEvent of the client
ClientSends(c) ==
    /\ Running
    /\ c \in connected
    /\ clientQueue[c] # <<>> /\ Head(clientQueue[c]).type = "send"
    /\ LET e == Head(clientQueue[c])
       IN  up' = [up EXCEPT ![c] =
                    Append(@, [type |-> "clip", id |-> e.id, value |-> e.value, seq |-> e.seq])]
    /\ clientQueue' = [clientQueue EXCEPT ![c] = Tail(@)]
    /\ UNCHANGED <<serverVars, here, seq, mine, down, bookVars>>

\* The platform's clipboard m becomes ours, with contents value.  Mutant:
\* m_ownClipboard is not reset.
OverwrittenOwned(m, value) == [m EXCEPT !.shown = value, !.held = TRUE, !.sent = FALSE]
Overwritten(m, value) ==
    [m EXCEPT !.shown = value, !.held = TRUE, !.own = FALSE, !.sent = FALSE]

\* The next message of the server is handled.
ClientReceives(c) ==
    /\ Running
    /\ down[c] # <<>>
    /\ down' = [down EXCEPT ![c] = Tail(@)]
    /\ LET m == Head(down[c])
           Overwrite(value) ==
             mine' = [mine EXCEPT ![c][m.id] = Overwritten(@, value)]
       IN  \/ /\ m.type = "enter"
              /\ seq' = [seq EXCEPT ![c] = m.seq]
              /\ here' = [here EXCEPT ![c] = TRUE]
              /\ UNCHANGED <<mine, clientQueue>>
           \/ /\ m.type = "leave"
              /\ here' = [here EXCEPT ![c] = FALSE]
              /\ mine' = [mine EXCEPT ![c] =
                            [id \in Ids |-> IF @[id].own THEN Sent(@[id]) ELSE @[id]]]
              /\ clientQueue' = [clientQueue EXCEPT ![c] =
                   @ \o InTurn([id \in Ids |-> IF mine[c][id].own
                                               THEN Transfer(c, id, mine[c][id]) ELSE <<>>])]
              /\ UNCHANGED seq
           \/ /\ m.type = "grab" /\ Overwrite(0)
              /\ UNCHANGED <<seq, here, clientQueue>>
           \/ /\ m.type = "clip" /\ Overwrite(m.value)
              /\ UNCHANGED <<seq, here, clientQueue>>
    /\ UNCHANGED <<serverVars, up, bookVars>>

-----------------------------------------------------------------------------
(* Connections *)

\* A client connects: a new ClientProxy, all of it dirty, and a new ServerProxy;
\* the client takes the clipboards of its platform (enableSecondary).  Its
\* m_active and m_dataClipboard stay as they were.
Join(c) ==
    /\ Running
    /\ c \notin connected /\ clientQueue[c] = <<>>
    /\ connected' = connected \cup {c}
    /\ board' = [id \in Ids |-> [board[id] EXCEPT !.dirty[c] = TRUE, !.cached[c] = 0]]
    /\ seq' = [seq EXCEPT ![c] = 0]
    /\ mine' = [mine EXCEPT ![c] = [id \in Ids |-> Overwritten(@[id], 0)]]
    /\ UNCHANGED <<active, seqNum, queue, primarySeq, unexpected, here, clientQueue,
                   netVars, bookVars>>

\* What is queued about a client that has gone.
Orphan(e, c) ==
    IF c = IF e.type = "send" THEN e.to ELSE e.from THEN [e EXCEPT !.gone = TRUE] ELSE e

\* The connection of a client ends, on both sides: what is under way is lost, the
\* handlers of its grabs are removed, those of its transfers are not.
\* forceLeaveClient enters the primary without giving it the clipboards.
Depart(c) ==
    /\ Running
    /\ c \in connected
    /\ departures < MaxDepartures
    /\ departures' = departures + 1
    /\ connected' = connected \ {c}
    /\ queue' = [i \in DOMAIN queue |-> Orphan(queue[i], c)]
    /\ active' = IF active = c THEN Primary ELSE active
    /\ primarySeq' = IF active = c THEN seqNum ELSE primarySeq
    /\ down' = [down EXCEPT ![c] = <<>>]
    /\ up' = [up EXCEPT ![c] = <<>>]
    /\ UNCHANGED <<seqNum, board, unexpected, clientVars, made, crashed>>

\* The events that a lost connection left behind: nobody handles its grabs, and by
\* its transfers the client's process may end, or survive; this is the second case.
ClientSendsStale(c) ==
    /\ Running
    /\ c \notin connected /\ clientQueue[c] # <<>>
    /\ clientQueue' = [clientQueue EXCEPT ![c] = Tail(@)]
    /\ UNCHANGED <<serverVars, here, seq, mine, netVars, bookVars>>

-----------------------------------------------------------------------------
(* The specification *)

Init ==
    /\ connected = {} /\ active = Primary /\ seqNum = 0 /\ primarySeq = 0
    /\ board = [id \in Ids |->
                  [owner |-> Primary, seq |-> 0, clip |-> 0, data |-> 0,
                   dirty |-> [s \in Screens |-> s # Primary],
                   cached |-> [c \in Clients |-> 0], shown |-> 0, held |-> FALSE]]
    /\ queue = <<>> /\ unexpected = FALSE
    /\ here = [c \in Clients |-> FALSE]
    /\ seq = [c \in Clients |-> 0]
    /\ mine = [c \in Clients |-> [id \in Ids |->
                 [shown |-> 0, held |-> FALSE, own |-> FALSE, sent |-> FALSE, data |-> 0]]]
    /\ clientQueue = [c \in Clients |-> <<>>]
    /\ down = [c \in Clients |-> <<>>] /\ up = [c \in Clients |-> <<>>]
    /\ made = <<>> /\ departures = 0 /\ crashed = FALSE

ServerStep ==
    \/ HandleClipboardGrabbed \/ HandleClipboardChanged \/ SendQueued
    \/ \E c \in Clients : ReceiveFromClient(c)

ClientStep(c) == ClientGrabs(c) \/ ClientSends(c) \/ ClientReceives(c) \/ ClientSendsStale(c)

Next ==
    \/ ServerStep
    \/ \E dst \in Screens : SwitchScreen(dst)
    \/ \E id \in Ids : PrimaryCopies(id) \/ \E c \in Clients : ClientCopies(c, id)
    \/ \E c \in Clients : ClientStep(c) \/ Join(c) \/ Depart(c)

Spec == Init /\ [][Next]_vars

-----------------------------------------------------------------------------
(* Properties *)

\* The type of every variable.
TypeOK ==
    /\ connected \subseteq Clients /\ active \in Screens
    /\ seqNum \in Seqs /\ primarySeq \in Seqs
    /\ board \in [Ids -> Boards]
    /\ queue \in Seq(Events)
    /\ here \in [Clients -> BOOLEAN] /\ seq \in [Clients -> Seqs]
    /\ mine \in [Clients -> [Ids -> Clips]]
    /\ clientQueue \in [Clients -> Seq(Requests)]
    /\ down \in [Clients -> Seq(Messages)] /\ up \in [Clients -> Seq(Messages)]
    /\ made \in Seq([on : Screens, id : Ids]) /\ Len(made) \in Copies
    /\ departures \in 0..MaxDepartures
    /\ crashed \in BOOLEAN /\ unexpected \in BOOLEAN

\* Every update of a clipboard is taken from the screen that owns it, as the
\* assertion in onClipboardChanged says ("should be the expected client"): no
\* late contents, and none of a proxy that has been replaced, get past the
\* comparison of sequence numbers.
ExpectedSender == ~unexpected

\* What the server holds as the contents of a clipboard was copied on the screen
\* that owns it: grabs and contents of several screens, which overtake each
\* other, never leave the contents of one screen under the name of another.
ContentsFromOwner ==
    \A id \in Ids : board[id].data # 0 =>
        made[board[id].data] = [on |-> board[id].owner, id |-> id]

Shown(s, id) == IF s = Primary THEN board[id].shown ELSE mine[s][id].shown

\* Once nothing is under way, what was copied last, wherever that was, is what the
\* active screen has, unless it is too large.
LastCopyWins ==
    Quiet => \A n \in DOMAIN made :
        \/ n \in Oversize
        \/ \E m \in DOMAIN made : m > n /\ made[m].id = made[n].id
        \/ Shown(active, made[n].id) = n

\* Once nothing is under way, a screen that the server does not hold to be dirty,
\* and so will send nothing to, has the contents of the clipboard or owns it.
CleanIsCurrent ==
    Quiet => \A id \in Ids, s \in connected \cup {Primary} :
        \/ board[id].dirty[s] \/ s = board[id].owner
        \/ Shown(s, id) = board[id].data

\* Once nothing is under way, a client believes that it owns a clipboard, and will
\* send it when it is left, just if the server has it as the owner.
OwnersAgree ==
    Quiet => \A id \in Ids, c \in connected : mine[c][id].own <=> board[id].owner = c

=============================================================================
