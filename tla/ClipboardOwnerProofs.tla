------------------------ MODULE ClipboardOwnerProofs -----------------------
(***************************************************************************)
(* Theorems about the contents of clipboards: those that the server has    *)
(* were copied on the screen of their owner, and the last copy is what the *)
(* active screen shows in the end.  The invariants say where all that is   *)
(* under way was copied (Signed), and which screen has the last copy and   *)
(* what is still to happen to it (Faithful), when nothing is copied before *)
(* the last copy has settled.  They rest on IInv and Delivered.            *)
(***************************************************************************)
EXTENDS ClipboardProofs

-----------------------------------------------------------------------------
(* Whose contents are under way *)

\* Something is copied only where the cursor is, and not while messages are under way.
Unhurried == Background = {} /\ Hasty = {}

\* By the copies w, the contents x were copied on s, or are none; nobody is sent contents that are void.
From(w, s, id, x) == x = 0 \/ (x \in 1..Len(w) /\ w[x] = [on |-> s, id |-> id])
Void(x) == x = 0 \/ x \in Oversize

\* Contents that are under way: posted by a client and on their way to the server, in
\* the server's queue and on their way to a client.
Posts(r, id, x) == \E i \in Nat : Posted(r, id, i) /\ r[i].value = x
Uploads(u, id, x) == \E i \in Nat : Upward("clip", u, id, i) /\ u[i].value = x
Feeds(q, c, id, x) == \E i \in Nat : Bound(q, c, id, i) /\ q[i].value = x
Covers(w, id, x) == \E i \in Nat : Over(w, id, i) /\ Value(w[i]) = x
Mails(c, id, x) == Posts(clientQueue[c], id, x) \/ Uploads(up[c], id, x)
Incoming(c, id, x) == Feeds(queue, c, id, x) \/ Covers(down[c], id, x)

\* A grab of the screen has yet to be handled by the server.
Grabber(s, id) ==
    \/ \E n \in Seqs : Reporting("grabbed", queue, s, id, n)
    \/ s \in Clients /\ (Asks(clientQueue[s], id) \/ \E n \in Seqs : Rising("grab", up[s], id, n))

\* Nothing of a client is under way to the server, or will be when it is left.
Silent(d, id) ==
    /\ ~Grabber(d, id) /\ \A x \in Copies : ~Mails(d, id, x)
    /\ \A n \in Seqs : ~Reporting("changed", queue, d, id, n)
    /\ ~(mine[d][id].own /\ Sendable(mine[d][id]))

\* What the server has of a clipboard is its owner's, and while a client is about to
\* grab it the server has what the primary shows, if the primary is the owner.
Mine(id) ==
    /\ board[id].clip \in Oversize => board[id].owner = Primary
    /\ From(made, board[id].owner, id, board[id].data)
    /\ board[id].owner = Primary \/ Grabber(Primary, id) => From(made, Primary, id, board[id].shown)
Caught(id) ==
    board[id].owner = Primary /\ (active # Primary \/ \E c \in connected : Grabber(c, id)) =>
      /\ board[id].clip = board[id].shown
      /\ board[id].data = board[id].shown \/ board[id].shown \in Oversize

\* What a client has to send was copied there, and what the server has of it.
Own(c, id) ==
    /\ mine[c][id].own \/ Asks(clientQueue[c], id) => From(made, c, id, mine[c][id].shown)
    /\ \A x \in Copies : Mails(c, id, x) => From(made, c, id, x) /\ x \notin Oversize
    /\ \A n \in Seqs : Reporting("changed", queue, c, id, n) /\ n >= board[id].seq =>
         From(made, c, id, board[id].cached[c]) /\ board[id].cached[c] \notin Oversize

\* A client that is about to grab the clipboard will be sent nothing of another screen,
\* and nor will the active client.
Spare(c, id) ==
    Grabber(c, id) \/ active = c => (board[id].dirty[c] => Void(board[id].clip))
Shielded(c, id) ==
    Grabber(c, id) => \A x \in Copies : Incoming(c, id, x) => x = 0

\* Only one screen at a time is about to grab it, and no other has anything to say.
Lone(id) == \A s \in connected \cup {Primary} : Grabber(s, id) =>
    \A d \in connected : d # s => Silent(d, id)

Certified(id) ==
    /\ Mine(id) /\ Caught(id) /\ Lone(id)
    /\ \A c \in connected : Own(c, id) /\ Spare(c, id) /\ Shielded(c, id)
Signed == \A id \in Ids : Certified(id)

-----------------------------------------------------------------------------
(* Where what is under way comes from *)

\* The elements of p are elements of q, or are new: they are in S.
Drawn(q, p, S) == \A i \in 1..Len(p) : (\E k \in 1..Len(q) : p[i] = q[k]) \/ p[i] \in S

LEMMA DrawnMoved ==
    ASSUME NEW T, NEW q \in Seq(T), NEW p \in Seq(T), NEW n \in {0, 1}, Moved(q, p, n), NEW S,
           \A i \in 1..Len(p) : i + n > Len(q) => p[i] \in S
    PROVE  Drawn(q, p, S)
<1> SUFFICES ASSUME NEW i \in 1..Len(p), p[i] \notin S PROVE \E k \in 1..Len(q) : p[i] = q[k]
  BY DEF Drawn
<1>1. Len(q) \in Nat /\ Len(p) \in Nat /\ i + n <= Len(q)
  OBVIOUS
<1>2. p[i] = q[i + n] /\ i + n \in 1..Len(q)
  BY <1>1 DEF Moved
<1> QED
  BY <1>2

LEMMA DrawnTail ==
    ASSUME NEW T, NEW q \in Seq(T), q # <<>>
    PROVE  Drawn(q, Tail(q), {})
<1>1. Tail(q) \in Seq(T) /\ Moved(q, Tail(q), 1) /\ Len(Tail(q)) = Len(q) - 1 /\ Len(q) \in Nat
  BY MovedTail
<1>2. \A i \in 1..Len(Tail(q)) : ~(i + 1 > Len(q))
  BY <1>1
<1> QED
  BY <1>1, <1>2, DrawnMoved

LEMMA DrawnAppend ==
    ASSUME NEW T, NEW q \in Seq(T), NEW x
    PROVE  Drawn(q, Append(q, x), {x})
<1>1. /\ Len(Append(q, x)) = Len(q) + 1 /\ Len(q) \in Nat
      /\ \A i \in 1..Len(q) : Append(q, x)[i] = q[i]
      /\ Append(q, x)[Len(q) + 1] = x
  OBVIOUS
<1>2. \A i \in 1..Len(q) + 1 : i \in 1..Len(q) \/ i = Len(q) + 1
  BY <1>1
<1> QED
  BY <1>1, <1>2 DEF Drawn

LEMMA DrawnSame == ASSUME NEW q PROVE Drawn(q, q, {})
  BY DEF Drawn

LEMMA DrawnReport ==
    ASSUME NEW q, NEW p, NEW S, Drawn(q, p, S), NEW type, NEW c, NEW id, NEW n,
           Reporting(type, p, c, id, n)
    PROVE  \/ Reporting(type, q, c, id, n)
           \/ \E e \in S : e.type = type /\ e.from = c /\ e.id = id /\ ~e.gone /\ e.seq = n
<1>1. PICK i \in Nat : Report(type, p, c, id, i) /\ n = p[i].seq
  BY DEF Reporting
<1>2. CASE p[i] \in S
  BY <1>1, <1>2 DEF Report
<1>3. ASSUME NEW k \in 1..Len(q), p[i] = q[k] PROVE Reporting(type, q, c, id, n)
  <2>1. k \in Nat /\ Report(type, q, c, id, k) /\ n = q[k].seq
    BY <1>1, <1>3 DEF Report
  <2> QED
    BY <2>1 DEF Reporting
<1> QED
  BY <1>1, <1>2, <1>3 DEF Drawn, Report

LEMMA DrawnFeed ==
    ASSUME NEW q, NEW p, NEW S, Drawn(q, p, S), NEW c, NEW id, NEW x, Feeds(p, c, id, x)
    PROVE  \/ Feeds(q, c, id, x)
           \/ \E e \in S : e.type = "send" /\ e.to = c /\ e.id = id /\ ~e.gone /\ e.value = x
<1>1. PICK i \in Nat : Bound(p, c, id, i) /\ p[i].value = x
  BY DEF Feeds
<1>2. CASE p[i] \in S
  BY <1>1, <1>2 DEF Bound
<1>3. ASSUME NEW k \in 1..Len(q), p[i] = q[k] PROVE Feeds(q, c, id, x)
  <2>1. k \in Nat /\ Bound(q, c, id, k) /\ q[k].value = x
    BY <1>1, <1>3 DEF Bound
  <2> QED
    BY <2>1 DEF Feeds
<1> QED
  BY <1>1, <1>2, <1>3 DEF Drawn, Bound

LEMMA DrawnCover ==
    ASSUME NEW q, NEW p, NEW S, Drawn(q, p, S), NEW id, NEW x, Covers(p, id, x)
    PROVE  Covers(q, id, x) \/ \E e \in S : Lays(e, id) /\ Value(e) = x
<1>1. PICK i \in Nat : Over(p, id, i) /\ Value(p[i]) = x
  BY DEF Covers
<1>2. CASE p[i] \in S
  BY <1>1, <1>2 DEF Over
<1>3. ASSUME NEW k \in 1..Len(q), p[i] = q[k] PROVE Covers(q, id, x)
  <2>1. k \in Nat /\ Over(q, id, k) /\ Value(q[k]) = x
    BY <1>1, <1>3 DEF Over
  <2> QED
    BY <2>1 DEF Covers
<1> QED
  BY <1>1, <1>2, <1>3 DEF Drawn, Over

LEMMA DrawnPost ==
    ASSUME NEW q, NEW p, NEW S, Drawn(q, p, S), NEW id, NEW x, Posts(p, id, x)
    PROVE  Posts(q, id, x) \/ \E e \in S : e.type = "send" /\ e.id = id /\ e.value = x
<1>1. PICK i \in Nat : Posted(p, id, i) /\ p[i].value = x
  BY DEF Posts
<1>2. CASE p[i] \in S
  BY <1>1, <1>2 DEF Posted
<1>3. ASSUME NEW k \in 1..Len(q), p[i] = q[k] PROVE Posts(q, id, x)
  <2>1. k \in Nat /\ Posted(q, id, k) /\ q[k].value = x
    BY <1>1, <1>3 DEF Posted
  <2> QED
    BY <2>1 DEF Posts
<1> QED
  BY <1>1, <1>2, <1>3 DEF Drawn, Posted

LEMMA DrawnAsk ==
    ASSUME NEW q, NEW p, NEW S, Drawn(q, p, S), NEW id, Asks(p, id)
    PROVE  Asks(q, id) \/ \E e \in S : e.type = "grabbed" /\ e.id = id
<1>1. PICK i \in Nat : Asked(p, id, i)
  BY DEF Asks
<1>2. CASE p[i] \in S
  BY <1>1, <1>2 DEF Asked
<1>3. ASSUME NEW k \in 1..Len(q), p[i] = q[k] PROVE Asks(q, id)
  <2>1. k \in Nat /\ Asked(q, id, k)
    BY <1>1, <1>3 DEF Asked
  <2> QED
    BY <2>1 DEF Asks
<1> QED
  BY <1>1, <1>2, <1>3 DEF Drawn, Asked

LEMMA DrawnUpload ==
    ASSUME NEW q, NEW p, NEW S, Drawn(q, p, S), NEW id, NEW x, Uploads(p, id, x)
    PROVE  Uploads(q, id, x) \/ \E e \in S : e.type = "clip" /\ e.id = id /\ e.value = x
<1>1. PICK i \in Nat : Upward("clip", p, id, i) /\ p[i].value = x
  BY DEF Uploads
<1>2. CASE p[i] \in S
  BY <1>1, <1>2 DEF Upward
<1>3. ASSUME NEW k \in 1..Len(q), p[i] = q[k] PROVE Uploads(q, id, x)
  <2>1. k \in Nat /\ Upward("clip", q, id, k) /\ q[k].value = x
    BY <1>1, <1>3 DEF Upward
  <2> QED
    BY <2>1 DEF Uploads
<1> QED
  BY <1>1, <1>2, <1>3 DEF Drawn, Upward

LEMMA DrawnRise ==
    ASSUME NEW q, NEW p, NEW S, Drawn(q, p, S), NEW id, NEW n, Rising("grab", p, id, n)
    PROVE  Rising("grab", q, id, n) \/ \E e \in S : e.type = "grab" /\ e.id = id /\ e.seq = n
<1>1. PICK i \in Nat : Upward("grab", p, id, i) /\ n = p[i].seq
  BY DEF Rising
<1>2. CASE p[i] \in S
  BY <1>1, <1>2 DEF Upward
<1>3. ASSUME NEW k \in 1..Len(q), p[i] = q[k] PROVE Rising("grab", q, id, n)
  <2>1. k \in Nat /\ Upward("grab", q, id, k) /\ n = q[k].seq
    BY <1>1, <1>3 DEF Upward
  <2> QED
    BY <2>1 DEF Rising
<1> QED
  BY <1>1, <1>2, <1>3 DEF Drawn, Upward

-----------------------------------------------------------------------------
(* What the handlers make of the contents of a clipboard *)

\* An update of b by sender, while act is active, makes it n.
Passed(b, sender, act, n) ==
    LET v == GetClipboard(b, sender)
    IN  /\ n.owner = b.owner /\ n.seq = b.seq /\ n.clip = v
        /\ IF v \in Oversize \/ v = b.data
           THEN /\ n.data = b.data /\ n.dirty = b.dirty
                /\ n.shown = b.shown /\ n.held = b.held /\ n.cached = b.cached
           ELSE /\ n.data = v
                /\ \A z \in connected \cup {Primary} : n.dirty[z] <=> z # sender /\ z # act
                /\ IF act = Primary /\ sender # Primary
                   THEN n.shown = v /\ n.held ELSE n.shown = b.shown /\ n.held = b.held
                /\ \A c \in connected :
                     n.cached[c] = IF c = act /\ c # sender THEN v ELSE b.cached[c]

\* What SetClipboard(b, s) makes of b.
Given(b, s, n) ==
    /\ n.owner = b.owner /\ n.seq = b.seq /\ n.clip = b.clip /\ n.data = b.data
    /\ ~n.dirty[s] /\ \A z \in Screens : z # s => n.dirty[z] = b.dirty[z]
    /\ IF s = Primary /\ b.dirty[s]
       THEN n.shown = b.clip /\ n.held ELSE n.shown = b.shown /\ n.held = b.held
    /\ IF s # Primary /\ b.dirty[s]
       THEN n.cached = [b.cached EXCEPT ![s] = b.clip] ELSE n.cached = b.cached

LEMMA SetClipboardGives ==
    ASSUME ClipboardAssumption, NEW b \in Boards, NEW s \in Screens, NEW r, r = SetClipboard(b, s)
    PROVE  Given(b, s, r.board)
<1>1. /\ r \in Results /\ ~r.unexpected
      /\ r.board.owner = b.owner /\ r.board.seq = b.seq
      /\ r.board.clip = b.clip /\ r.board.data = b.data
      /\ ~r.board.dirty[s]
      /\ \A z \in Screens : z # s => r.board.dirty[z] = b.dirty[z]
      /\ IF s = Primary /\ b.dirty[s]
         THEN r.board.shown = b.clip /\ r.board.held
         ELSE r.board.shown = b.shown /\ r.board.held = b.held
  BY SetClipboardIs
<1>2. IF s # Primary /\ b.dirty[s]
      THEN r.board.cached = [b.cached EXCEPT ![s] = b.clip] ELSE r.board.cached = b.cached
  <2> DEFINE clean == [b EXCEPT !.dirty[s] = FALSE]
  <2>1. clean \in Boards /\ clean.cached = b.cached
    BY DEF Boards
  <2>2. CASE ~b.dirty[s]
    BY <2>2 DEF SetClipboard, Quietly
  <2>3. CASE b.dirty[s] /\ s = Primary
    <3>1. r.board = [clean EXCEPT !.shown = b.clip, !.held = TRUE]
      BY <2>3 DEF SetClipboard, Quietly
    <3> HIDE DEF clean
    <3> QED
      BY <2>1, <2>3, <3>1 DEF Boards
  <2>4. CASE b.dirty[s] /\ s # Primary
    <3> DEFINE k == Quietly([clean EXCEPT !.cached[s] = b.clip])
    <3>1. k \in [board : {[clean EXCEPT !.cached[s] = b.clip]}, to : {<<>>}, unexpected : {FALSE}]
      BY DEF Quietly
    <3>2. r = [k EXCEPT !.to = <<s>>]
      BY <2>4 DEF SetClipboard
    <3> HIDE DEF k
    <3>3. r.board = k.board /\ k.board = [clean EXCEPT !.cached[s] = b.clip]
      BY <3>1, <3>2
    <3> HIDE DEF clean
    <3> QED
      BY <2>1, <2>4, <3>3 DEF Boards
  <2> QED
    BY <2>2, <2>3, <2>4
<1> QED
  BY <1>1, <1>2, Zenon DEF Given

LEMMA OnClipboardChangedGives ==
    ASSUME ClipboardAssumption, connected \subseteq Clients,
           NEW b \in Boards, NEW sender \in Screens, NEW seqno, NEW act \in Screens,
           NEW r, r = OnClipboardChanged(b, sender, seqno, act)
    PROVE  IF seqno < b.seq THEN r.board = b /\ r.to = <<>>
           ELSE /\ Passed(b, sender, act, r.board)
                /\ (GetClipboard(b, sender) \in Oversize \/ GetClipboard(b, sender) = b.data) =>
                     r.to = <<>>
<1> DEFINE value == GetClipboard(b, sender)
           taken == [b EXCEPT !.clip = value]
           all == [taken EXCEPT !.data = value,
                                !.dirty = [s \in Screens |->
                                             IF s \in connected \cup {Primary}
                                             THEN s # sender ELSE b.dirty[s]]]
           result == IF value \in Oversize \/ value = b.data
                     THEN Quietly(taken) ELSE SetClipboard(all, act)
<1>1. value \in Copies
  BY DEF GetClipboard, Boards, Screens
<1>2. r = IF seqno < b.seq THEN Quietly(b) ELSE [result EXCEPT !.unexpected = sender # b.owner]
  BY DEF OnClipboardChanged
<1>v. value = GetClipboard(b, sender)
  OBVIOUS
<1> HIDE DEF value
<1>3. CASE seqno < b.seq
  <2>1. r = Quietly(b)
    BY <1>2, <1>3
  <2> QED
    BY <1>3, <2>1, QuietlyIs
<1>4. /\ taken \in Boards
      /\ taken.owner = b.owner /\ taken.seq = b.seq /\ taken.clip = value /\ taken.data = b.data
      /\ taken.dirty = b.dirty /\ taken.shown = b.shown /\ taken.held = b.held /\ taken.cached = b.cached
  BY <1>1 DEF Boards
<1>5. /\ all \in Boards
      /\ all.owner = b.owner /\ all.seq = b.seq /\ all.clip = value /\ all.data = value
      /\ all.shown = b.shown /\ all.held = b.held /\ all.cached = b.cached
      /\ \A s \in connected \cup {Primary} : all.dirty[s] <=> s # sender
  <2> DEFINE d == [s \in Screens |-> IF s \in connected \cup {Primary}
                                     THEN s # sender ELSE b.dirty[s]]
  <2>1. d \in [Screens -> BOOLEAN]
    BY DEF Boards
  <2>2. \A s \in connected \cup {Primary} : d[s] <=> s # sender
    BY DEF Screens
  <2>3. all = [taken EXCEPT !.data = value, !.dirty = d]
    OBVIOUS
  <2> HIDE DEF d, all, taken
  <2> QED
    BY <1>1, <1>4, <2>1, <2>2, <2>3 DEF Boards
<1> HIDE DEF taken, all
<1>7. /\ result \in Results /\ Passed(b, sender, act, result.board)
      /\ (value \in Oversize \/ value = b.data) => result.to = <<>>
  <2>1. CASE value \in Oversize \/ value = b.data
    BY <1>4, <1>v, <2>1, QuietlyIs DEF Passed
  <2>2. CASE ~(value \in Oversize \/ value = b.data)
    <3>1. result = SetClipboard(all, act)
      BY <2>2
    <3> HIDE DEF result
    <3>2. \A z \in connected \cup {Primary} : z \in Screens
      BY DEF Screens
    <3>3. result \in Results /\ Given(all, act, result.board)
      BY <1>5, <3>1, SetClipboardIs, SetClipboardGives
    <3> DEFINE n == result.board
    <3>4. Given(all, act, n) /\ n \in Boards
      BY <3>3 DEF Results
    <3> HIDE DEF n
    <3>5. /\ n.owner = b.owner /\ n.seq = b.seq /\ n.clip = value /\ n.data = value
          /\ \A z \in connected \cup {Primary} : n.dirty[z] <=> z # sender /\ z # act
      BY <1>5, <3>2, <3>4, Zenon DEF Given
    <3>6. CASE act \in connected \cup {Primary}
      <4>1. all.dirty[act] <=> act # sender
        BY <1>5, <3>6
      <4>2. IF act = Primary /\ sender # Primary
            THEN n.shown = value /\ n.held ELSE n.shown = b.shown /\ n.held = b.held
        BY <1>5, <3>4, <4>1, Zenon DEF Given
      <4>3. \A c \in connected :
              n.cached[c] = IF c = act /\ c # sender THEN value ELSE b.cached[c]
        <5>1. b.cached \in [Clients -> Copies]
          BY DEF Boards
        <5> QED
          BY <1>5, <3>4, <4>1, <5>1 DEF Given, ClipboardAssumption
      <4> QED
        BY <1>v, <2>2, <3>3, <3>5, <4>2, <4>3 DEF Passed, n
    <3>7. CASE act \notin connected \cup {Primary}
      <4>1. act # Primary
        BY <3>7
      <4>2. n.shown = b.shown /\ n.held = b.held
        BY <1>5, <3>4, <4>1, Zenon DEF Given
      <4>3. \A c \in connected : n.cached[c] = b.cached[c]
        <5>1. b.cached \in [Clients -> Copies]
          BY DEF Boards
        <5> QED
          BY <1>5, <3>4, <3>7, <5>1 DEF Given
      <4> QED
        BY <1>v, <2>2, <3>3, <3>5, <3>7, <4>1, <4>2, <4>3 DEF Passed, n
    <3> QED
      BY <3>6, <3>7
  <2> QED
    BY <2>1, <2>2
<1>8. CASE ~(seqno < b.seq)
  <2>1. r = [result EXCEPT !.unexpected = sender # b.owner]
    BY <1>2, <1>8
  <2> HIDE DEF result
  <2>2. r.board = result.board /\ r.to = result.to
    BY <1>7, <2>1 DEF Results
  <2> QED
    BY <1>7, <1>8, <1>v, <2>2
<1> QED
  BY <1>3, <1>8

\* What becomes of a clipboard when the active screen is left: l is what dst is given.
Fetched(b, l) ==
    IF active = Primary /\ b.owner = Primary THEN Passed(b, Primary, Primary, l) ELSE l = b
Entrusted(l, dst, n) == IF l.clip \in Oversize THEN n = l ELSE Given(l, dst, n)

\* The clipboards whose contents are sent to dst.
Wanted(l, dst) == {id \in Ids : dst # Primary /\ l[id].clip \notin Oversize /\ l[id].dirty[dst]}

LEMMA SwitchGives ==
    ASSUME ClipboardAssumption, Typed, NEW dst, SwitchScreen(dst)
    PROVE  \E l \in [Ids -> Boards] :
             /\ \A id \in Ids : Fetched(board[id], l[id]) /\ Entrusted(l[id], dst, board'[id])
             /\ Drawn(queue, queue', {SendOf(dst, id, board'[id].clip) : id \in Wanted(l, dst)})
<1> DEFINE left(id) == IF active = Primary /\ board[id].owner = Primary
                       THEN OnClipboardChanged(board[id], Primary, board[id].seq, Primary)
                       ELSE Quietly(board[id])
           e(id) == IF left(id).board.clip \in Oversize
                    THEN Quietly(left(id).board) ELSE SetClipboard(left(id).board, dst)
           r(id) == [board |-> e(id).board, to |-> left(id).to \o e(id).to,
                     unexpected |-> left(id).unexpected]
           results == [id \in Ids |-> r(id)]
           l == [id \in Ids |-> left(id).board]
<1>1. dst \in connected \cup {Primary} /\ Apply(results, queue)
  BY DEF SwitchScreen
<1>2. /\ \A id \in Ids : board[id] \in Boards
      /\ connected \subseteq Clients /\ Primary \in Screens /\ dst \in Screens /\ queue \in Seq(Events)
      /\ Primary \notin Clients
  BY <1>1 DEF Typed, TypeOK, Screens, ClipboardAssumption
<1>3. ASSUME NEW id \in Ids
      PROVE  /\ left(id) \in Results /\ left(id).to = <<>> /\ Fetched(board[id], left(id).board)
             /\ e(id) \in Results /\ Entrusted(left(id).board, dst, e(id).board)
             /\ e(id).to = IF left(id).board.clip \notin Oversize /\ dst # Primary
                              /\ left(id).board.dirty[dst]
                           THEN <<dst>> ELSE <<>>
             /\ r(id) \in Results /\ r(id).board = e(id).board /\ r(id).to = e(id).to
  <2> HIDE DEF r, e, left
  <2>1. left(id) \in Results /\ left(id).to = <<>> /\ Fetched(board[id], left(id).board)
    <3>1. CASE active = Primary /\ board[id].owner = Primary
      <4>1. left(id) = OnClipboardChanged(board[id], Primary, board[id].seq, Primary)
        BY <3>1 DEF left
      <4>2. ~(board[id].seq < board[id].seq)
        <5>1. board[id].seq \in Nat
          BY <1>2, Numbers DEF Boards
        <5> QED
          BY <5>1
      <4>3. /\ left(id) \in Results
            /\ Kept(board[id], left(id)) \/ Taken(board[id], Primary, Primary, left(id))
        BY <1>2, <4>1, OnClipboardChangedIs
      <4>4. Passed(board[id], Primary, Primary, left(id).board)
        BY <1>2, <4>1, <4>2, OnClipboardChangedGives
      <4>5. left(id).to = <<>>
        BY <4>3 DEF Kept, Taken
      <4> QED
        BY <3>1, <4>3, <4>4, <4>5 DEF Fetched
    <3>2. CASE ~(active = Primary /\ board[id].owner = Primary)
      <4>1. left(id) = Quietly(board[id])
        BY <3>2 DEF left
      <4> QED
        BY <1>2, <3>2, <4>1, QuietlyIs DEF Fetched
    <3> QED
      BY <3>1, <3>2
  <2>3. left(id).board \in Boards
    BY <2>1 DEF Results
  <2>4. /\ e(id) \in Results /\ Entrusted(left(id).board, dst, e(id).board)
        /\ e(id).to = IF left(id).board.clip \notin Oversize /\ dst # Primary
                         /\ left(id).board.dirty[dst]
                      THEN <<dst>> ELSE <<>>
    <3>1. CASE left(id).board.clip \in Oversize
      <4>1. e(id) = Quietly(left(id).board)
        BY <3>1 DEF e
      <4> QED
        BY <2>3, <3>1, <4>1, QuietlyIs DEF Entrusted
    <3>2. CASE ~(left(id).board.clip \in Oversize)
      <4>1. e(id) = SetClipboard(left(id).board, dst)
        BY <3>2 DEF e
      <4>2. Given(left(id).board, dst, e(id).board)
        BY <1>2, <2>3, <4>1, SetClipboardGives
      <4>3. /\ e(id) \in Results
            /\ IF dst # Primary /\ left(id).board.dirty[dst] THEN e(id).to = <<dst>> ELSE e(id).to = <<>>
        BY <1>2, <2>3, <4>1, SetClipboardIs
      <4> QED
        BY <3>2, <4>2, <4>3 DEF Entrusted
    <3> QED
      BY <3>1, <3>2
  <2>5. r(id) = [board |-> e(id).board, to |-> left(id).to \o e(id).to,
                 unexpected |-> left(id).unexpected]
    BY DEF r
  <2>6. left(id).to \o e(id).to = e(id).to /\ e(id).to \in Seq(Clients)
    <3>1. e(id).to \in Seq(Clients)
      BY <2>4 DEF Results
    <3> QED
      BY <2>1, <3>1
  <2>7. r(id) = [board |-> e(id).board, to |-> e(id).to, unexpected |-> left(id).unexpected]
    BY <2>5, <2>6
  <2>8. r(id) \in Results /\ r(id).board = e(id).board /\ r(id).to = e(id).to
    <3>1. left(id).unexpected \in BOOLEAN /\ e(id).board \in Boards
      BY <2>1, <2>4 DEF Results
    <3> QED
      BY <2>6, <2>7, <3>1 DEF Results
  <2> QED
    BY <2>1, <2>4, <2>8
<1> HIDE DEF r, e, left
<1>4. /\ l \in [Ids -> Boards] /\ \A id \in Ids : l[id] = left(id).board
  BY <1>3 DEF Results
<1>5. results \in [Ids -> Results] /\ \A id \in Ids : results[id] = r(id)
  BY <1>3
<1> HIDE DEF results, l
<1>6. /\ \A id \in Ids : board'[id] = results[id].board
      /\ queue' \in Seq(Events) /\ Applied(results, queue, queue')
  BY <1>1, <1>2, <1>5, ApplyIs
<1>7. ASSUME NEW i \in 1..Len(queue'), i + 0 > Len(queue)
      PROVE  queue'[i] \in {SendOf(dst, id, board'[id].clip) : id \in Wanted(l, dst)}
  <2>0. i > Len(queue)
    BY <1>2, <1>7
  <2>1. PICK id \in Ids : \E k \in 1..Len(results[id].to) :
           queue'[i] = SendOf(results[id].to[k], id, results[id].board.clip)
    BY <1>6, <2>0 DEF Applied
  <2>2. PICK k \in 1..Len(results[id].to) :
           queue'[i] = SendOf(results[id].to[k], id, results[id].board.clip)
    BY <2>1
  <2>3. results[id].to = e(id).to
    BY <1>3, <1>5
  <2>4. results[id].to = <<dst>> /\ results[id].to[k] = dst /\ id \in Wanted(l, dst)
    <3>1. results[id].to # <<>>
      BY <2>2
    <3>2. /\ left(id).board.clip \notin Oversize /\ dst # Primary /\ left(id).board.dirty[dst]
          /\ results[id].to = <<dst>>
      BY <1>3, <2>3, <3>1
    <3> QED
      BY <1>4, <3>2 DEF Wanted
  <2> QED
    BY <1>6, <2>2, <2>4
<1>8. Drawn(queue, queue', {SendOf(dst, id, board'[id].clip) : id \in Wanted(l, dst)})
  <2>1. Moved(queue, queue', 0)
    BY <1>6 DEF Applied
  <2> QED
    BY <1>2, <1>6, <1>7, <2>1, DrawnMoved
<1>9. \A id \in Ids : Fetched(board[id], l[id]) /\ Entrusted(l[id], dst, board'[id])
  BY <1>3, <1>4, <1>5, <1>6
<1> QED
  BY <1>4, <1>8, <1>9

\* The copies made so far stay as they are.
Recorded == Len(made) <= Len(made') /\ \A i \in 1..Len(made) : made'[i] = made[i]

LEMMA FromStays ==
    ASSUME Typed, Typed', Recorded, NEW s, NEW id, NEW x, From(made, s, id, x)
    PROVE  From(made', s, id, x)
<1>1. Len(made) \in Nat /\ Len(made') \in Nat
  BY DEF Typed, TypeOK
<1> QED
  BY <1>1 DEF From, Recorded

-----------------------------------------------------------------------------
(* Steps in which a client copies nothing *)

\* What is under way from the client was under way, or is what it has to send; and
\* what it has on its clipboard it had, or was sent.
Flow(c, id) ==
    /\ Grabber(c, id)' => Grabber(c, id)
    /\ Asks(clientQueue'[c], id) => Asks(clientQueue[c], id)
    /\ \A x \in Copies : Mails(c, id, x)' =>
         \/ Mails(c, id, x)
         \/ /\ x = mine[c][id].shown /\ x \notin Oversize
            /\ Asks(clientQueue[c], id) \/ (mine[c][id].own /\ Sendable(mine[c][id]))
    /\ \A n \in Seqs : Reporting("changed", queue', c, id, n) =>
         Reporting("changed", queue, c, id, n) \/ Mails(c, id, board'[id].cached[c])
    /\ \/ /\ mine'[c][id].shown = mine[c][id].shown
          /\ mine'[c][id].own => mine[c][id].own \/ Asks(clientQueue[c], id)
          /\ mine'[c][id].own /\ Sendable(mine'[c][id]) =>
               Asks(clientQueue[c], id) \/ (mine[c][id].own /\ Sendable(mine[c][id]))
       \/ ~mine'[c][id].own /\ Incoming(c, id, mine'[c][id].shown)

\* Nothing new is reported of the client.
Unreported(c, id) == \A type \in Kinds : \A n \in Seqs :
    Reporting(type, queue', c, id, n) => Reporting(type, queue, c, id, n)

LEMMA StillFlows ==
    ASSUME NEW c, NEW id, Still(c), Unreported(c, id)
    PROVE  Flow(c, id)
<1>1. /\ mine'[c] = mine[c] /\ clientQueue'[c] = clientQueue[c] /\ up'[c] = up[c]
      /\ "grabbed" \in Kinds /\ "changed" \in Kinds
  BY DEF Still, Kinds
<1>2. Grabber(c, id)' => Grabber(c, id)
  BY <1>1 DEF Grabber, Unreported
<1>3. \A x \in Copies : Mails(c, id, x)' => Mails(c, id, x)
  BY <1>1 DEF Mails
<1> QED
  BY <1>1, <1>2, <1>3 DEF Flow, Unreported

LEMMA SilentFlows ==
    ASSUME Typed', NEW d \in Clients, NEW id \in Ids, Flow(d, id), Silent(d, id)
    PROVE  Silent(d, id)'
<1>1. /\ ~Grabber(d, id) /\ (\A x \in Copies : ~Mails(d, id, x))
      /\ \A n \in Seqs : ~Reporting("changed", queue, d, id, n)
      /\ ~(mine[d][id].own /\ Sendable(mine[d][id]))
      /\ ~Asks(clientQueue[d], id)
  BY DEF Silent, Grabber
<1>2. board'[id].cached[d] \in Copies
  BY DEF Typed, TypeOK, Boards
<1>3. /\ ~Grabber(d, id)' /\ (\A x \in Copies : ~Mails(d, id, x)')
      /\ \A n \in Seqs : ~Reporting("changed", queue', d, id, n)
  BY <1>1, <1>2 DEF Flow
<1>4. ~(mine'[d][id].own /\ Sendable(mine'[d][id]))
  BY <1>1 DEF Flow
<1>5. (~(mine[d][id].own /\ Sendable(mine[d][id])))'
  BY <1>4 DEF Sendable
<1> QED
  BY <1>3, <1>5 DEF Silent

\* A client that connects has nothing under way.
LEMMA LoneFlows ==
    ASSUME ClipboardAssumption, Typed, Typed', NEW id \in Ids, Lone(id),
           Grabber(Primary, id)' => Grabber(Primary, id),
           \A c \in connected' : (c \in connected /\ Flow(c, id)) \/ Silent(c, id)'
    PROVE  Lone(id)'
<1>0. connected \subseteq Clients
  BY DEF Typed, TypeOK
<1>1. ASSUME NEW s \in connected' \cup {Primary}, Grabber(s, id)'
      PROVE  s \in connected \cup {Primary} /\ Grabber(s, id)
  <2>1. CASE s = Primary
    BY <1>1, <2>1
  <2>2. CASE s \in connected'
    <3>1. ~Silent(s, id)'
      BY <1>1 DEF Silent
    <3>2. s \in connected /\ Flow(s, id)
      BY <2>2, <3>1
    <3> QED
      BY <1>1, <3>2 DEF Flow
  <2> QED
    BY <2>1, <2>2
<1>2. ASSUME NEW s \in connected' \cup {Primary}, Grabber(s, id)', NEW d \in connected', d # s
      PROVE  Silent(d, id)'
  <2>1. CASE d \in connected /\ Flow(d, id)
    <3>1. s \in connected \cup {Primary} /\ Grabber(s, id)
      BY <1>1, <1>2
    <3>2. Silent(d, id)
      BY <1>2, <2>1, <3>1 DEF Lone
    <3> QED
      BY <1>0, <2>1, <3>2, SilentFlows
  <2> QED
    BY <1>2, <2>1
<1> QED
  BY <1>2 DEF Lone

\* What the server has of a client, for its updates that are not out of date.
Cached(c, id) == \A n \in Seqs :
    Reporting("changed", queue, c, id, n) /\ n >= board'[id].seq =>
      /\ n >= board[id].seq
      /\ \/ board'[id].cached[c] = board[id].cached[c] \/ Mails(c, id, board'[id].cached[c])
         \/ From(made, c, id, board'[id].cached[c]) /\ board'[id].cached[c] \notin Oversize

LEMMA OwnFlows ==
    ASSUME ClipboardAssumption, Typed, Typed', Recorded, NEW c \in connected, NEW id \in Ids,
           Own(c, id), Shielded(c, id), Flow(c, id), Cached(c, id)
    PROVE  Own(c, id)'
<1>0. /\ mine'[c][id].shown \in Copies /\ mine[c][id].shown \in Copies
      /\ board'[id].cached[c] \in Copies /\ connected \subseteq Clients /\ c \in Clients
  <2>1. c \in Clients /\ connected \subseteq Clients
    BY DEF Typed, TypeOK
  <2>2. mine'[c][id] \in Clips /\ mine[c][id] \in Clips /\ board'[id] \in Boards
    BY <2>1 DEF Typed, TypeOK
  <2> QED
    BY <2>1, <2>2 DEF Clips, Boards
<1>1. ASSUME mine'[c][id].own \/ Asks(clientQueue'[c], id)
      PROVE  From(made', c, id, mine'[c][id].shown)
  <2>1. CASE /\ mine'[c][id].shown = mine[c][id].shown
             /\ mine'[c][id].own => mine[c][id].own \/ Asks(clientQueue[c], id)
    <3>1. mine[c][id].own \/ Asks(clientQueue[c], id)
      BY <1>1, <2>1 DEF Flow
    <3>2. From(made, c, id, mine[c][id].shown)
      BY <3>1 DEF Own
    <3> QED
      BY <2>1, <3>2, FromStays
  <2>2. CASE ~mine'[c][id].own /\ Incoming(c, id, mine'[c][id].shown)
    <3>1. Asks(clientQueue[c], id)
      BY <1>1, <2>2 DEF Flow
    <3>2. Grabber(c, id)
      BY <1>0, <3>1 DEF Grabber
    <3>3. mine'[c][id].shown = 0
      BY <1>0, <2>2, <3>2 DEF Shielded
    <3> QED
      BY <3>3 DEF From
  <2> QED
    BY <2>1, <2>2 DEF Flow
<1>2. ASSUME NEW x \in Copies, Mails(c, id, x)'
      PROVE  From(made', c, id, x) /\ x \notin Oversize
  <2>1. From(made, c, id, x) /\ x \notin Oversize
    BY <1>2 DEF Flow, Own
  <2> QED
    BY <2>1, FromStays
<1>3. ASSUME NEW n \in Seqs, Reporting("changed", queue', c, id, n), n >= board'[id].seq
      PROVE  From(made', c, id, board'[id].cached[c]) /\ board'[id].cached[c] \notin Oversize
  <2> DEFINE v == board'[id].cached[c]
  <2>1. From(made, c, id, v) /\ v \notin Oversize
    <3>1. CASE Mails(c, id, v)
      BY <1>0, <3>1 DEF Own
    <3>2. CASE Reporting("changed", queue, c, id, n)
      <4>1. n >= board[id].seq
        BY <1>3, <3>2 DEF Cached
      <4>2. From(made, c, id, board[id].cached[c]) /\ board[id].cached[c] \notin Oversize
        BY <3>2, <4>1 DEF Own
      <4> QED
        BY <1>3, <3>1, <3>2, <4>2 DEF Cached
    <3> QED
      BY <1>3, <3>1, <3>2 DEF Flow
  <2> HIDE DEF v
  <2>2. From(made', c, id, v)
    BY <2>1, FromStays
  <2> QED
    BY <2>1, <2>2 DEF v
<1> QED
  BY <1>1, <1>2, <1>3 DEF Own

\* A client that is about to grab the clipboard is sent nothing but void contents.
Covered(c, id) == Grabber(c, id) =>
    \A x \in Copies : Incoming(c, id, x)' => Incoming(c, id, x) \/ x = 0

LEMMA UnreportedDrawn ==
    ASSUME NEW S, Drawn(queue, queue', S), NEW c, NEW id,
           \A e \in S : e.type = "send" \/ e.from # c \/ e.id # id
    PROVE  Unreported(c, id)
  BY DrawnReport DEF Unreported, Kinds

LEMMA CoveredDrawn ==
    ASSUME NEW c, NEW id,
           NEW S, Drawn(queue, queue', S),
           \A e \in S : e.type = "send" /\ e.to = c /\ e.id = id => e.value = 0,
           NEW R, Drawn(down[c], down'[c], R),
           \A m \in R : Lays(m, id) => Value(m) = 0 \/ Feeds(queue, c, id, Value(m))
    PROVE  Covered(c, id)
<1> SUFFICES ASSUME NEW x \in Copies, Feeds(queue', c, id, x) \/ Covers(down'[c], id, x), x # 0
             PROVE  Feeds(queue, c, id, x) \/ Covers(down[c], id, x)
  BY DEF Covered, Incoming
<1>1. CASE Feeds(queue', c, id, x)
  BY <1>1, DrawnFeed
<1>2. CASE Covers(down'[c], id, x)
  BY <1>2, DrawnCover
<1> QED
  BY <1>1, <1>2

\* A clipboard of which only the proxies' copies may change.
Steadfast(id) ==
    /\ board'[id].owner = board[id].owner /\ board'[id].seq = board[id].seq
    /\ board'[id].clip = board[id].clip /\ board'[id].data = board[id].data
    /\ board'[id].dirty = board[id].dirty /\ board'[id].shown = board[id].shown

LEMMA SteadfastSigned ==
    ASSUME ClipboardAssumption, Typed, Typed', Recorded, NEW id \in Ids, Certified(id), Steadfast(id),
           Grabber(Primary, id)' => Grabber(Primary, id), active' \in {active, Primary},
           \A c \in connected' : c \in connected /\ Flow(c, id) /\ Cached(c, id) /\ Covered(c, id)
    PROVE  Certified(id)'
<1>0. connected \subseteq Clients /\ Primary \notin Clients
  BY DEF Typed, TypeOK, ClipboardAssumption
<1>1. \A c \in connected' : Grabber(c, id)' => c \in connected /\ Grabber(c, id)
  BY DEF Flow
<1>2. Mine(id)'
  <2>1. /\ board[id].clip \in Oversize => board[id].owner = Primary
        /\ From(made', board[id].owner, id, board[id].data)
        /\ board[id].owner = Primary \/ Grabber(Primary, id) => From(made', Primary, id, board[id].shown)
    BY FromStays DEF Certified, Mine
  <2> QED
    BY <2>1 DEF Steadfast, Mine
<1>3. Caught(id)'
  <2>1. ASSUME board[id].owner = Primary, active' # Primary \/ \E c \in connected' : Grabber(c, id)'
        PROVE  /\ board[id].clip = board[id].shown
               /\ board[id].data = board[id].shown \/ board[id].shown \in Oversize
    BY <1>1, <2>1 DEF Certified, Caught
  <2> QED
    BY <2>1 DEF Steadfast, Caught
<1>4. Lone(id)'
  BY LoneFlows DEF Certified
<1>5. ASSUME NEW c \in connected' PROVE Own(c, id)' /\ Spare(c, id)' /\ Shielded(c, id)'
  <2>0. /\ c \in connected /\ Flow(c, id) /\ Cached(c, id) /\ Covered(c, id)
        /\ Own(c, id) /\ Spare(c, id) /\ Shielded(c, id)
    BY <1>5 DEF Certified
  <2>1. Own(c, id)'
    BY <2>0, OwnFlows
  <2>2. Spare(c, id)'
    <3>1. c # Primary /\ (Grabber(c, id)' => Grabber(c, id))
      BY <1>0, <1>1, <2>0
    <3> QED
      BY <2>0, <3>1 DEF Spare, Steadfast, Void
  <2>3. Shielded(c, id)'
    BY <2>0 DEF Shielded, Flow, Covered
  <2> QED
    BY <2>1, <2>2, <2>3
<1> QED
  BY <1>2, <1>3, <1>4, <1>5 DEF Certified

\* What a client is newly sent is void, or was bound for it.
Fed(c, id) == \E R :
    /\ Drawn(down[c], down'[c], R)
    /\ \A m \in R : Lays(m, id) => Value(m) = 0 \/ Feeds(queue, c, id, Value(m))

LEMMA FedSame == ASSUME NEW c, NEW id, down'[c] = down[c] PROVE Fed(c, id)
<1>1. PICK R : R = {}
  OBVIOUS
<1>2. Drawn(down[c], down'[c], R)
  BY <1>1, DrawnSame
<1> QED
  BY <1>1, <1>2 DEF Fed

\* A handler of the server, or anything else that does nothing to the clients, and
\* reports nothing.
LEMMA QuietSigned ==
    ASSUME ClipboardAssumption, Typed, Typed', NEW id \in Ids, Certified(id),
           UNCHANGED <<connected, active, clientVars, up, made>>, board'[id] = board[id],
           NEW S, Drawn(queue, queue', S),
           \A e \in S : e.type = "send" /\ (e.id = id => e.value = 0),
           \A c \in connected : Fed(c, id)
    PROVE  Certified(id)'
<1>1. Recorded /\ Steadfast(id)
  <2>1. Len(made) <= Len(made)
    BY DEF Typed, TypeOK
  <2> QED
    BY <2>1 DEF Recorded, Steadfast
<1>2. ASSUME NEW c \in connected PROVE Flow(c, id) /\ Cached(c, id) /\ Covered(c, id)
  <2>1. Unreported(c, id)
    BY UnreportedDrawn
  <2>2. Still(c)
    BY DEF Still, clientVars
  <2>3. Covered(c, id)
    <3>1. PICK R : /\ Drawn(down[c], down'[c], R)
                   /\ \A m \in R : Lays(m, id) => Value(m) = 0 \/ Feeds(queue, c, id, Value(m))
      BY <1>2 DEF Fed
    <3> QED
      BY <3>1, CoveredDrawn
  <2> QED
    BY <2>1, <2>2, <2>3, StillFlows DEF Cached
<1>3. Grabber(Primary, id)' => Grabber(Primary, id)
  <2>1. Primary \notin Clients /\ "grabbed" \in Kinds
    BY DEF ClipboardAssumption, Kinds
  <2>2. Unreported(Primary, id)
    BY UnreportedDrawn
  <2> QED
    BY <2>1, <2>2 DEF Grabber, Unreported
<1> QED
  BY <1>1, <1>2, <1>3, SteadfastSigned

\* A step of a client alone.
LEMMA ClientSigned ==
    ASSUME ClipboardAssumption, Typed, Typed', Signed, NEW d \in Clients,
           UNCHANGED <<serverVars, made>>,
           \A c \in Clients \ {d} : Still(c) /\ down'[c] = down[c],
           d \in connected => \A id \in Ids : Flow(d, id) /\ Covered(d, id)
    PROVE  Signed'
<1> SUFFICES ASSUME NEW id \in Ids PROVE Certified(id)'
  BY DEF Signed
<1>0. /\ connected' = connected /\ active' = active /\ board' = board /\ queue' = queue
      /\ connected \subseteq Clients /\ Primary \notin Clients /\ Certified(id)
  BY DEF serverVars, Typed, TypeOK, ClipboardAssumption, Signed
<1>1. Recorded /\ Steadfast(id)
  <2>1. Len(made) <= Len(made)
    BY DEF Typed, TypeOK
  <2> QED
    BY <1>0, <2>1 DEF Recorded, Steadfast
<1>2. ASSUME NEW c \in connected PROVE Flow(c, id) /\ Cached(c, id) /\ Covered(c, id)
  <2>1. CASE c = d
    BY <1>0, <1>2, <2>1 DEF Cached
  <2>2. CASE c # d
    <3>1. Still(c) /\ down'[c] = down[c]
      BY <1>0, <1>2, <2>2
    <3>2. Unreported(c, id)
      BY <1>0 DEF Unreported
    <3>3. Covered(c, id)
      BY <1>0, <3>1 DEF Covered, Incoming
    <3> QED
      BY <1>0, <3>1, <3>2, <3>3, StillFlows DEF Cached
  <2> QED
    BY <2>1, <2>2
<1>3. Grabber(Primary, id)' => Grabber(Primary, id)
  BY <1>0 DEF Grabber
<1> QED
  BY <1>0, <1>1, <1>2, <1>3, SteadfastSigned

-----------------------------------------------------------------------------
(* Steps that do nothing to the contents of a clipboard *)

LEMMA IdleSigned ==
    ASSUME ClipboardAssumption, Typed, Typed', Signed, UNCHANGED vars
    PROVE  Signed'
<1> SUFFICES ASSUME NEW id \in Ids PROVE Certified(id)'
  BY DEF Signed
<1>1. /\ UNCHANGED <<connected, active, clientVars, up, made>> /\ board' = board
      /\ queue' = queue /\ down' = down /\ Certified(id)
  BY DEF vars, serverVars, clientVars, netVars, bookVars, Signed
<1>2. Drawn(queue, queue', {}) /\ \A c \in connected : Fed(c, id)
  BY <1>1, DrawnSame, FedSame
<1> QED
  BY <1>1, <1>2, QuietSigned

LEMMA RefusedSigned ==
    ASSUME ClipboardAssumption, Typed, Typed', Signed, NEW e, queue # <<>>, Refused(e),
           UNCHANGED <<connected, active, seqNum, primarySeq, clientVars, up, bookVars>>
    PROVE  Signed'
<1> SUFFICES ASSUME NEW id \in Ids PROVE Certified(id)'
  BY DEF Signed
<1>1. /\ UNCHANGED <<connected, active, clientVars, up, made>> /\ board' = board
      /\ queue' = Tail(queue) /\ down' = down /\ Certified(id) /\ queue \in Seq(Events)
  BY DEF Refused, bookVars, Signed, Typed, TypeOK
<1>2. Drawn(queue, queue', {}) /\ \A c \in connected : Fed(c, id)
  BY <1>1, DrawnTail, FedSame
<1> QED
  BY <1>1, <1>2, QuietSigned

\* What is sent to a client was in the queue.
LEMMA SendQueuedSigned ==
    ASSUME ClipboardAssumption, Typed, Typed', Signed, SendQueued
    PROVE  Signed'
<1> SUFFICES ASSUME NEW id \in Ids PROVE Certified(id)'
  BY DEF Signed
<1> DEFINE e == Head(queue)
           m == [type |-> "clip", id |-> e.id, value |-> e.value, seq |-> 0]
<1>0. /\ queue \in Seq(Events) /\ down \in [Clients -> Seq(Messages)] /\ connected \subseteq Clients
      /\ Certified(id)
  BY DEF Typed, TypeOK, Signed
<1>1. /\ queue # <<>> /\ e.type = "send" /\ queue' = Tail(queue) /\ board' = board
      /\ UNCHANGED <<connected, active, clientVars, up, made>>
      /\ \/ down' = down
         \/ ~e.gone /\ down' = [down EXCEPT ![e.to] = Append(@, m)]
  BY DEF SendQueued
<1>2. e = queue[1] /\ 1 \in 1..Len(queue)
  BY <1>0, <1>1
<1>m. m.type = "clip" /\ m.id = e.id /\ m.value = e.value
  OBVIOUS
<1> HIDE DEF e, m
<1>3. Drawn(queue, queue', {})
  BY <1>0, <1>1, DrawnTail
<1>4. ASSUME NEW c \in connected PROVE Fed(c, id)
  <2>1. CASE down'[c] = down[c]
    BY <2>1, FedSame
  <2>2. CASE ~e.gone /\ e.to = c /\ down'[c] = Append(down[c], m)
    <3>1. Drawn(down[c], down'[c], {m})
      BY <1>0, <2>2, DrawnAppend
    <3>2. ASSUME Lays(m, id) PROVE Feeds(queue, c, id, Value(m))
      <4>1. Bound(queue, c, id, 1) /\ queue[1].value = Value(m) /\ 1 \in Nat
        BY <1>1, <1>2, <1>m, <2>2, <3>2 DEF Bound, Lays, Value
      <4> QED
        BY <4>1 DEF Feeds
    <3> QED
      BY <3>1, <3>2 DEF Fed
  <2> QED
    BY <1>0, <1>1, <2>1, <2>2
<1>5. UNCHANGED <<connected, active, clientVars, up, made>> /\ board'[id] = board[id]
  BY <1>1
<1> QED
  BY <1>0, <1>3, <1>4, <1>5, QuietSigned

\* A client's grab, or its contents, are read and reported.
LEMMA ReceivedSigned ==
    ASSUME ClipboardAssumption, Typed, Typed', Signed, NEW d \in Clients, ReceiveFromClient(d)
    PROVE  Signed'
<1> SUFFICES ASSUME NEW id \in Ids PROVE Certified(id)'
  BY DEF Signed
<1> DEFINE m == up[d][1]
<1>0. /\ queue \in Seq(Events) /\ up \in [Clients -> Seq(Messages)] /\ connected \subseteq Clients
      /\ Certified(id) /\ Primary \notin Clients /\ board \in [Ids -> Boards]
  BY DEF Typed, TypeOK, Signed, ClipboardAssumption
<1>1. PICK x \in Events :
         /\ up[d] # <<>> /\ up' = [up EXCEPT ![d] = Tail(@)] /\ queue' = Append(queue, x)
         /\ x.type = IF m.type = "grab" THEN "grabbed" ELSE "changed"
         /\ m.type \in {"grab", "clip"} /\ x.from = d /\ x.id = m.id /\ x.seq = m.seq
         /\ UNCHANGED <<connected, active, clientVars, down, made>>
  BY ReceivedIs DEF bookVars
<1>2. m \in Messages /\ 1 \in 1..Len(up[d]) /\ m = Head(up[d])
  BY <1>0, <1>1
<1>3. IF m.type = "clip" THEN board' = [board EXCEPT ![m.id].cached[d] = m.value] ELSE board' = board
  BY <1>1, <1>2 DEF ReceiveFromClient
<1>4. m.id \in Ids /\ m.seq \in Seqs /\ (m.type = "clip" => m.value \in Copies)
  BY <1>1, <1>2, MessageIs
<1>m. m = up[d][1]
  OBVIOUS
<1> HIDE DEF m
<1>5. /\ Drawn(queue, queue', {x}) /\ Drawn(up[d], up'[d], {})
      /\ \A c \in Clients : c # d => up'[c] = up[c]
  BY <1>0, <1>1, DrawnAppend, DrawnTail
<1>6. /\ Steadfast(id)
      /\ \A c \in Clients : board'[id].cached[c] =
           IF m.type = "clip" /\ c = d /\ id = m.id THEN m.value ELSE board[id].cached[c]
  <2>1. CASE m.type = "clip"
    <3>1. board' = [board EXCEPT ![m.id].cached[d] = m.value]
      BY <1>3, <2>1
    <3>2. board[id] \in Boards /\ board[m.id] \in Boards
      BY <1>0, <1>4
    <3>3. CASE id = m.id
      BY <1>0, <2>1, <3>1, <3>2, <3>3 DEF Boards, Steadfast
    <3>4. CASE id # m.id
      BY <1>0, <2>1, <3>1, <3>4 DEF Steadfast
    <3> QED
      BY <3>3, <3>4
  <2>2. CASE m.type # "clip"
    BY <1>3, <2>2 DEF Steadfast
  <2> QED
    BY <2>1, <2>2
<1>7. Recorded
  <2>1. Len(made) <= Len(made)
    BY DEF Typed, TypeOK
  <2> QED
    BY <1>1, <2>1 DEF Recorded
<1>8. ASSUME NEW c \in Clients, c # d PROVE Flow(c, id) /\ Unreported(c, id)
  <2>1. Unreported(c, id)
    BY <1>1, <1>5, <1>8, UnreportedDrawn
  <2>2. Still(c)
    BY <1>1, <1>5, <1>8 DEF Still, clientVars
  <2> QED
    BY <2>1, <2>2, StillFlows
<1>9. Flow(d, id)
  <2>1. /\ mine'[d] = mine[d] /\ clientQueue'[d] = clientQueue[d]
    BY <1>1 DEF clientVars
  <2>2. ASSUME NEW n \in Seqs, Reporting("grabbed", queue', d, id, n)
        PROVE  Reporting("grabbed", queue, d, id, n) \/ Rising("grab", up[d], id, n)
    <3>1. CASE x.type = "grabbed" /\ x.id = id /\ x.seq = n
      <4>1. Upward("grab", up[d], id, 1) /\ up[d][1].seq = n /\ 1 \in Nat
        BY <1>1, <1>2, <1>m, <3>1 DEF Upward
      <4> QED
        BY <4>1 DEF Rising
    <3> QED
      BY <1>5, <2>2, <3>1, DrawnReport
  <2>3. ASSUME NEW n \in Seqs, Reporting("changed", queue', d, id, n)
        PROVE  Reporting("changed", queue, d, id, n) \/ Mails(d, id, board'[id].cached[d])
    <3>1. CASE x.type = "changed" /\ x.id = id
      <4>1. m.type = "clip" /\ m.id = id
        BY <1>1, <3>1
      <4>2. Upward("clip", up[d], id, 1) /\ up[d][1].value = board'[id].cached[d] /\ 1 \in Nat
        BY <1>2, <1>6, <1>m, <4>1 DEF Upward
      <4> QED
        BY <4>2 DEF Mails, Uploads
    <3> QED
      BY <1>5, <2>3, <3>1, DrawnReport
  <2>4. ASSUME NEW n, Rising("grab", up'[d], id, n) PROVE Rising("grab", up[d], id, n)
    BY <1>5, <2>4, DrawnRise
  <2>5. \A y \in Copies : Mails(d, id, y)' => Mails(d, id, y)
    <3>1. \A y \in Copies : Uploads(up'[d], id, y) => Uploads(up[d], id, y)
      BY <1>5, DrawnUpload
    <3> QED
      BY <2>1, <3>1 DEF Mails
  <2>6. Grabber(d, id)' => Grabber(d, id)
    BY <2>1, <2>2, <2>4 DEF Grabber
  <2> QED
    BY <2>1, <2>3, <2>5, <2>6 DEF Flow
<1>10. ASSUME NEW c \in connected PROVE Cached(c, id) /\ Covered(c, id)
  <2>1. Covered(c, id)
    <3>1. Drawn(down[c], down'[c], {}) /\ \A e \in {x} : e.type # "send"
      BY <1>1, DrawnSame
    <3> QED
      BY <1>5, <3>1, CoveredDrawn
  <2>2. Cached(c, id)
    <3>1. CASE m.type = "clip" /\ c = d /\ id = m.id
      <4>1. Upward("clip", up[d], id, 1) /\ up[d][1].value = board'[id].cached[d] /\ 1 \in Nat
        BY <1>2, <1>6, <1>m, <3>1 DEF Upward
      <4>2. Mails(c, id, board'[id].cached[c])
        BY <3>1, <4>1 DEF Mails, Uploads
      <4> QED
        BY <1>6, <4>2 DEF Cached, Steadfast
    <3>2. CASE ~(m.type = "clip" /\ c = d /\ id = m.id)
      BY <1>0, <1>6, <3>2 DEF Cached, Steadfast
    <3> QED
      BY <3>1, <3>2
  <2> QED
    BY <2>1, <2>2
<1>11. Grabber(Primary, id)' => Grabber(Primary, id)
  <2>1. Unreported(Primary, id)
    BY <1>0, <1>1, <1>5, UnreportedDrawn
  <2> QED
    BY <1>0, <2>1 DEF Grabber, Unreported, Kinds
<1> QED
  BY <1>0, <1>1, <1>6, <1>7, <1>8, <1>9, <1>10, <1>11, SteadfastSigned

\* A client tells the server of a copy, and sends it when it is not entered.
LEMMA GrabsSigned ==
    ASSUME ClipboardAssumption, Typed, Typed', Signed, NEW d \in Clients, ClientGrabs(d)
    PROVE  Signed'
<1> DEFINE k == Head(clientQueue[d]).id
           m == [mine[d][k] EXCEPT !.own = TRUE, !.sent = FALSE]
           n == IF here[d] THEN m ELSE Sent(m)
           w == IF here[d] THEN <<>> ELSE Transfer(d, k, m)
           y == [type |-> "grab", id |-> k, seq |-> seq[d]]
           z == [type |-> "send", id |-> k, value |-> m.shown, seq |-> seq[d]]
<1>0. /\ clientQueue \in [Clients -> Seq(Requests)] /\ mine \in [Clients -> [Ids -> Clips]]
      /\ up \in [Clients -> Seq(Messages)] /\ connected \subseteq Clients
  BY DEF Typed, TypeOK
<1>1. /\ d \in connected /\ clientQueue[d] # <<>> /\ Head(clientQueue[d]).type = "grabbed"
      /\ UNCHANGED <<serverVars, here, seq, down, made>>
      /\ up' = [up EXCEPT ![d] = Append(@, y)]
      /\ mine' = [mine EXCEPT ![d][k] = IF here[d] THEN m ELSE Sent(m)]
      /\ clientQueue' = [clientQueue EXCEPT ![d] =
                           Tail(@) \o IF here[d] THEN <<>> ELSE Transfer(d, k, m)]
  BY DEF ClientGrabs, bookVars
<1>2. mine' = [mine EXCEPT ![d][k] = n] /\ clientQueue' = [clientQueue EXCEPT ![d] = Tail(@) \o w]
  BY <1>1
<1>3. k \in Ids /\ clientQueue[d][1].id = k /\ clientQueue[d][1].type = "grabbed"
  <2>1. clientQueue[d][1] = Head(clientQueue[d]) /\ clientQueue[d][1] \in Requests
    BY <1>0, <1>1
  <2> QED
    BY <1>1, <2>1 DEF Requests
<1>4. Asks(clientQueue[d], k)
  BY <1>0, <1>1, <1>3, AskFirst
<1>5. /\ m \in Clips /\ m.shown = mine[d][k].shown
      /\ n \in Clips /\ n.shown = mine[d][k].shown
  <2>1. m \in Clips /\ m.shown = mine[d][k].shown
    <3>1. mine[d][k] \in Clips
      BY <1>0, <1>3
    <3> QED
      BY <3>1 DEF Clips
  <2> HIDE DEF m
  <2> QED
    BY <2>1, SentIs
<1>y. y.type = "grab" /\ y.id = k
  OBVIOUS
<1>z. z.type = "send" /\ z.id = k /\ z.value = m.shown
  OBVIOUS
<1>6. w \in Seq(Requests) /\ \A i \in 1..Len(w) : w[i] = z /\ m.shown \notin Oversize
  <2>1. CASE here[d] \/ ~Sendable(m)
    <3>1. w = <<>>
      BY <2>1 DEF Transfer
    <3> HIDE DEF w
    <3>2. w \in Seq(Requests) /\ Len(w) = 0
      BY ONLY <3>1
    <3> QED
      BY <3>2
  <2>2. CASE ~here[d] /\ Sendable(m)
    <3>1. w = <<z>>
      BY <2>2 DEF Transfer
    <3>2. z \in Requests
      <4>1. m.shown \in Copies /\ seq[d] \in Seqs
        BY <1>5 DEF Clips, Typed, TypeOK
      <4> QED
        BY <1>3, <4>1 DEF Requests
    <3>3. m.shown \notin Oversize
      BY <2>2 DEF Sendable
    <3> HIDE DEF w, z, m
    <3>4. Len(w) = 1 /\ w[1] = z /\ w \in Seq(Requests)
      BY <3>1, <3>2
    <3> QED
      BY <3>3, <3>4
  <2> QED
    BY <2>1, <2>2
<1> HIDE DEF k, m, n, w, y, z
<1>7. /\ Drawn(clientQueue[d], clientQueue'[d], {e \in {z} : m.shown \notin Oversize})
      /\ Drawn(up[d], up'[d], {y})
  <2>1. clientQueue'[d] = Tail(clientQueue[d]) \o w /\ clientQueue[d] \in Seq(Requests)
    BY <1>0, <1>2
  <2>2. /\ clientQueue'[d] \in Seq(Requests) /\ Extended(clientQueue[d], 1, w, clientQueue'[d])
    BY <1>1, <1>6, <2>1, MovedOn
  <2>3. ASSUME NEW i \in 1..Len(clientQueue'[d]), i + 1 > Len(clientQueue[d])
        PROVE  clientQueue'[d][i] \in {e \in {z} : m.shown \notin Oversize}
    BY <1>6, <2>2, <2>3 DEF Extended
  <2>4. Moved(clientQueue[d], clientQueue'[d], 1)
    BY <2>2 DEF Extended
  <2>5. Drawn(clientQueue[d], clientQueue'[d], {e \in {z} : m.shown \notin Oversize})
    BY <2>1, <2>2, <2>3, <2>4, DrawnMoved
  <2>6. Drawn(up[d], up'[d], {y})
    BY <1>0, <1>1, DrawnAppend
  <2> QED
    BY <2>5, <2>6
<1>8. ASSUME NEW id \in Ids PROVE Flow(d, id) /\ Covered(d, id)
  <2>1. Covered(d, id)
    BY <1>1 DEF Covered, Incoming, serverVars
  <2>2. Asks(clientQueue'[d], id) => Asks(clientQueue[d], id)
    BY <1>7, <1>z, DrawnAsk
  <2>3. \A t \in Seqs : Rising("grab", up'[d], id, t) =>
          Rising("grab", up[d], id, t) \/ Asks(clientQueue[d], id)
    BY <1>4, <1>7, <1>y, DrawnRise
  <2>4. Grabber(d, id)' => Grabber(d, id)
    BY <1>1, <2>2, <2>3 DEF Grabber, serverVars
  <2>5. ASSUME NEW x \in Copies, Mails(d, id, x)'
        PROVE  \/ Mails(d, id, x)
               \/ x = mine[d][id].shown /\ x \notin Oversize /\ Asks(clientQueue[d], id)
    <3>1. CASE Uploads(up'[d], id, x)
      <4>1. Uploads(up[d], id, x)
        BY <1>7, <1>y, <3>1, DrawnUpload
      <4> QED
        BY <4>1 DEF Mails
    <3>2. CASE Posts(clientQueue'[d], id, x)
      <4>1. CASE Posts(clientQueue[d], id, x)
        BY <4>1 DEF Mails
      <4>2. CASE z.id = id /\ z.value = x /\ m.shown \notin Oversize
        BY <1>4, <1>5, <1>z, <4>2
      <4> QED
        BY <1>7, <3>2, <4>1, <4>2, DrawnPost
    <3> QED
      BY <2>5, <3>1, <3>2 DEF Mails
  <2>6. /\ mine'[d][id].shown = mine[d][id].shown
        /\ id = k \/ mine'[d][id] = mine[d][id]
    BY <1>0, <1>2, <1>3, <1>5
  <2>7. \A t \in Seqs : Reporting("changed", queue', d, id, t) => Reporting("changed", queue, d, id, t)
    BY <1>1 DEF serverVars
  <2>8. Flow(d, id)
    BY <1>4, <2>2, <2>4, <2>5, <2>6, <2>7 DEF Flow
  <2> QED
    BY <2>1, <2>8
<1>9. ASSUME NEW c \in Clients \ {d} PROVE Still(c) /\ down'[c] = down[c]
  BY <1>0, <1>1, <1>2 DEF Still
<1>10. UNCHANGED <<serverVars, made>>
  BY <1>1
<1> QED
  BY <1>8, <1>9, <1>10, ClientSigned

\* The contents that a client has posted are written.
LEMMA SendsSigned ==
    ASSUME ClipboardAssumption, Typed, Typed', Signed, NEW d \in Clients, ClientSends(d)
    PROVE  Signed'
<1> DEFINE e == Head(clientQueue[d])
           y == [type |-> "clip", id |-> e.id, value |-> e.value, seq |-> e.seq]
<1>0. /\ clientQueue \in [Clients -> Seq(Requests)] /\ up \in [Clients -> Seq(Messages)]
  BY DEF Typed, TypeOK
<1>1. /\ d \in connected /\ clientQueue[d] # <<>> /\ e.type = "send"
      /\ UNCHANGED <<serverVars, here, seq, mine, down, made>>
      /\ up' = [up EXCEPT ![d] = Append(@, y)]
      /\ clientQueue' = [clientQueue EXCEPT ![d] = Tail(@)]
  BY DEF ClientSends, bookVars
<1>2. e = clientQueue[d][1] /\ 1 \in 1..Len(clientQueue[d]) /\ 1 \in Nat
  BY <1>0, <1>1
<1>y. y.type = "clip" /\ y.id = e.id /\ y.value = e.value
  OBVIOUS
<1> HIDE DEF e, y
<1>3. Drawn(clientQueue[d], clientQueue'[d], {}) /\ Drawn(up[d], up'[d], {y})
  BY <1>0, <1>1, DrawnTail, DrawnAppend
<1>4. ASSUME NEW id \in Ids PROVE Flow(d, id) /\ Covered(d, id)
  <2>1. Covered(d, id)
    BY <1>1 DEF Covered, Incoming, serverVars
  <2>2. Asks(clientQueue'[d], id) => Asks(clientQueue[d], id)
    BY <1>3, DrawnAsk
  <2>3. \A t \in Seqs : Rising("grab", up'[d], id, t) => Rising("grab", up[d], id, t)
    BY <1>3, <1>y, DrawnRise
  <2>4. Grabber(d, id)' => Grabber(d, id)
    BY <1>1, <2>2, <2>3 DEF Grabber, serverVars
  <2>5. ASSUME NEW x \in Copies, Mails(d, id, x)' PROVE Mails(d, id, x)
    <3>1. CASE Posts(clientQueue'[d], id, x)
      <4>1. Posts(clientQueue[d], id, x)
        BY <1>3, <3>1, DrawnPost
      <4> QED
        BY <4>1 DEF Mails
    <3>2. CASE Uploads(up'[d], id, x)
      <4>1. CASE Uploads(up[d], id, x)
        BY <4>1 DEF Mails
      <4>2. CASE y.id = id /\ y.value = x
        <5>1. Posted(clientQueue[d], id, 1) /\ clientQueue[d][1].value = x
          BY <1>1, <1>2, <1>y, <4>2 DEF Posted
        <5> QED
          BY <1>2, <5>1 DEF Mails, Posts
      <4> QED
        BY <1>3, <3>2, <4>1, <4>2, DrawnUpload
    <3> QED
      BY <2>5, <3>1, <3>2 DEF Mails
  <2>6. mine'[d][id] = mine[d][id]
    BY <1>1
  <2>7. \A t \in Seqs : Reporting("changed", queue', d, id, t) => Reporting("changed", queue, d, id, t)
    BY <1>1 DEF serverVars
  <2>8. Flow(d, id)
    BY <2>2, <2>4, <2>5, <2>6, <2>7 DEF Flow
  <2> QED
    BY <2>1, <2>8
<1>5. ASSUME NEW c \in Clients \ {d} PROVE Still(c) /\ down'[c] = down[c]
  BY <1>0, <1>1 DEF Still
<1> QED
  BY <1>1, <1>4, <1>5, ClientSigned

\* A client handles a message: it has what it was sent, or posts what it has.
LEMMA ReceivesSigned ==
    ASSUME ClipboardAssumption, Typed, Typed', Signed, NEW d \in Clients, ClientReceives(d)
    PROVE  Signed'
<1> DEFINE m == down[d][1]
<1>0. /\ clientQueue \in [Clients -> Seq(Requests)] /\ mine \in [Clients -> [Ids -> Clips]]
      /\ down \in [Clients -> Seq(Messages)]
  BY DEF Typed, TypeOK
<1>1. /\ down[d] # <<>> /\ down' = [down EXCEPT ![d] = Tail(@)] /\ m \in Messages
      /\ Enters(d, m) \/ Leaves(d, m) \/ Overwrites(d, m)
      /\ UNCHANGED <<serverVars, up, made>>
  BY ClientReceivesIs DEF bookVars
<1>2. m = down[d][1] /\ 1 \in 1..Len(down[d]) /\ 1 \in Nat
  BY <1>0, <1>1
<1> HIDE DEF m
<1>3. Drawn(down[d], down'[d], {})
  BY <1>0, <1>1, DrawnTail
<1>4. /\ queue' = queue /\ up' = up /\ board' = board
      /\ \A c \in Clients \ {d} : mine'[c] = mine[c] /\ clientQueue'[c] = clientQueue[c]
  BY <1>0, <1>1 DEF serverVars, Enters, Leaves, Overwrites
<1>5. ASSUME NEW id \in Ids
      PROVE  \/ /\ mine'[d][id].shown = mine[d][id].shown
                /\ mine'[d][id].own => mine[d][id].own
                /\ mine'[d][id].own /\ Sendable(mine'[d][id]) => mine[d][id].own /\ Sendable(mine[d][id])
             \/ ~mine'[d][id].own /\ Incoming(d, id, mine'[d][id].shown)
  <2>1. CASE Enters(d, m)
    BY <2>1 DEF Enters
  <2>2. CASE Leaves(d, m)
    <3>1. PICK f \in [Ids -> Clips] :
             /\ mine' = [mine EXCEPT ![d] = f]
             /\ \A k \in Ids :
                  /\ f[k].own = mine[d][k].own /\ f[k].held = mine[d][k].held
                  /\ f[k].shown = mine[d][k].shown
                  /\ f[k].own => ~Sendable(f[k])
      BY <2>2 DEF Leaves
    <3>2. mine'[d] = f
      BY <1>0, <3>1
    <3> QED
      BY <3>1, <3>2
  <2>3. CASE Overwrites(d, m)
    <3>1. PICK x \in Clips :
             mine' = [mine EXCEPT ![d][m.id] = x] /\ x.shown = Value(m) /\ x.held /\ ~x.own
      BY <2>3 DEF Overwrites
    <3>2. CASE id = m.id
      <4>1. mine'[d][id] = x
        BY <1>0, <3>1, <3>2
      <4>2. Over(down[d], id, 1) /\ Value(down[d][1]) = Value(m)
        BY <1>2, <2>3, <3>2 DEF Over, Lays, Overwrites
      <4>3. Incoming(d, id, Value(m))
        BY <1>2, <4>2 DEF Incoming, Covers
      <4> QED
        BY <3>1, <4>1, <4>3
    <3>3. CASE id # m.id
      <4>1. mine'[d][id] = mine[d][id]
        BY <1>0, <3>1, <3>3
      <4> QED
        BY <4>1
    <3> QED
      BY <3>2, <3>3
  <2> QED
    BY <1>1, <2>1, <2>2, <2>3
<1>6. \E S : /\ Drawn(clientQueue[d], clientQueue'[d], S)
             /\ \A e \in S : /\ e.type = "send" /\ mine[d][e.id].own /\ Sendable(mine[d][e.id])
                             /\ e.value = mine[d][e.id].shown
  <2>1. CASE clientQueue'[d] = clientQueue[d]
    <3>1. Drawn(clientQueue[d], clientQueue'[d], {})
      BY <2>1, DrawnSame
    <3> QED
      BY <3>1
  <2>2. CASE Leaves(d, m)
    <3>1. PICK w \in Seq(Requests) :
             /\ clientQueue' = [clientQueue EXCEPT ![d] = w] /\ Moved(clientQueue[d], w, 0)
             /\ \A i \in 1..Len(w) : i > Len(clientQueue[d]) =>
                  /\ w[i] \in Requests /\ w[i].type = "send" /\ w[i].seq = seq[d]
                  /\ mine[d][w[i].id].own /\ Sendable(mine[d][w[i].id])
                  /\ w[i].value = mine[d][w[i].id].shown
      BY <2>2 DEF Leaves
    <3> DEFINE S == {e \in Requests : /\ e.type = "send" /\ mine[d][e.id].own /\ Sendable(mine[d][e.id])
                                      /\ e.value = mine[d][e.id].shown}
    <3>2. clientQueue'[d] = w /\ clientQueue[d] \in Seq(Requests)
      BY <1>0, <3>1
    <3>3. ASSUME NEW i \in 1..Len(w), i + 0 > Len(clientQueue[d]) PROVE w[i] \in S
      <4>1. i > Len(clientQueue[d])
        BY <3>2, <3>3
      <4> QED
        BY <3>1, <4>1
    <3> HIDE DEF S
    <3>4. Drawn(clientQueue[d], w, S)
      BY <3>1, <3>2, <3>3, DrawnMoved
    <3> QED
      BY <3>2, <3>4 DEF S
  <2> QED
    BY <1>1, <2>1, <2>2 DEF Enters, Overwrites
<1>7. PICK S : /\ Drawn(clientQueue[d], clientQueue'[d], S)
               /\ \A e \in S : /\ e.type = "send" /\ mine[d][e.id].own /\ Sendable(mine[d][e.id])
                               /\ e.value = mine[d][e.id].shown
  BY <1>6
<1>8. ASSUME NEW id \in Ids PROVE Flow(d, id) /\ Covered(d, id)
  <2>1. Covered(d, id)
    <3>1. \A x \in Copies : Incoming(d, id, x)' => Incoming(d, id, x)
      BY <1>3, <1>4, DrawnCover DEF Incoming
    <3> QED
      BY <3>1 DEF Covered
  <2>2. Asks(clientQueue'[d], id) => Asks(clientQueue[d], id)
    BY <1>7, DrawnAsk
  <2>3. Grabber(d, id)' => Grabber(d, id)
    BY <1>4, <2>2 DEF Grabber
  <2>4. ASSUME NEW x \in Copies, Mails(d, id, x)'
        PROVE  \/ Mails(d, id, x)
               \/ /\ x = mine[d][id].shown /\ x \notin Oversize
                  /\ mine[d][id].own /\ Sendable(mine[d][id])
    <3>1. CASE Uploads(up'[d], id, x)
      BY <1>4, <3>1 DEF Mails
    <3>2. CASE Posts(clientQueue'[d], id, x)
      <4>1. CASE Posts(clientQueue[d], id, x)
        BY <4>1 DEF Mails
      <4>2. ASSUME NEW e \in S, e.id = id, e.value = x
            PROVE  x = mine[d][id].shown /\ mine[d][id].own /\ Sendable(mine[d][id])
        BY <1>7, <4>2
      <4>3. Sendable(mine[d][id]) => mine[d][id].shown \notin Oversize
        BY DEF Sendable
      <4> QED
        BY <1>7, <3>2, <4>1, <4>2, <4>3, DrawnPost
    <3> QED
      BY <2>4, <3>1, <3>2 DEF Mails
  <2>5. \A t \in Seqs : Reporting("changed", queue', d, id, t) => Reporting("changed", queue, d, id, t)
    BY <1>4
  <2>6. Flow(d, id)
    BY <1>5, <2>2, <2>3, <2>4, <2>5 DEF Flow
  <2> QED
    BY <2>1, <2>6
<1>9. ASSUME NEW c \in Clients \ {d} PROVE Still(c) /\ down'[c] = down[c]
  <2>1. here'[c] = here[c] /\ seq'[c] = seq[c]
    <3>1. here \in [Clients -> BOOLEAN] /\ seq \in [Clients -> Seqs]
      BY DEF Typed, TypeOK
    <3> QED
      BY <1>1, <3>1 DEF Enters, Leaves, Overwrites
  <2> QED
    BY <1>0, <1>1, <1>4, <2>1 DEF Still
<1> QED
  BY <1>1, <1>8, <1>9, ClientSigned

\* A client that is not connected drops an event.
LEMMA StaleSigned ==
    ASSUME ClipboardAssumption, Typed, Typed', Signed, NEW d \in Clients, ClientSendsStale(d)
    PROVE  Signed'
<1>1. /\ d \notin connected /\ clientQueue' = [clientQueue EXCEPT ![d] = Tail(@)]
      /\ UNCHANGED <<serverVars, here, seq, mine, netVars, bookVars>>
  BY DEF ClientSendsStale
<1>2. ASSUME NEW c \in Clients \ {d} PROVE Still(c) /\ down'[c] = down[c]
  <2>1. clientQueue'[c] = clientQueue[c]
    BY <1>1 DEF Typed, TypeOK
  <2> QED
    BY <1>1, <2>1 DEF Still, netVars
<1> QED
  BY <1>1, <1>2, ClientSigned DEF bookVars

-----------------------------------------------------------------------------
(* Connections, and whose contents are under way *)

LEMMA JoinSigned ==
    ASSUME ClipboardAssumption, Typed', IInv, Signed, NEW d \in Clients, Join(d)
    PROVE  Signed'
<1> SUFFICES ASSUME NEW id \in Ids PROVE Certified(id)'
  BY DEF Signed
<1>0. /\ Typed /\ connected \subseteq Clients /\ Certified(id) /\ Primary \notin Clients
      /\ board \in [Ids -> Boards] /\ mine \in [Clients -> [Ids -> Clips]] /\ seq \in [Clients -> Seqs]
      /\ Absent(d) /\ active # d
  BY DEF IInv, Typed, TypeOK, Signed, ClipboardAssumption, Join
<1>1. /\ d \notin connected /\ clientQueue[d] = <<>> /\ connected' = connected \cup {d}
      /\ UNCHANGED <<active, queue, here, clientQueue, netVars, made>>
      /\ board' = [k \in Ids |-> [board[k] EXCEPT !.dirty[d] = TRUE, !.cached[d] = 0]]
      /\ seq' = [seq EXCEPT ![d] = 0]
      /\ mine' = [mine EXCEPT ![d] = [k \in Ids |-> Overwritten(@[k], 0)]]
  BY DEF Join, bookVars
<1>2. /\ board'[id].owner = board[id].owner /\ board'[id].seq = board[id].seq
      /\ board'[id].clip = board[id].clip /\ board'[id].data = board[id].data
      /\ board'[id].shown = board[id].shown
      /\ \A c \in connected : /\ board'[id].dirty[c] = board[id].dirty[c]
                              /\ board'[id].cached[c] = board[id].cached[c]
  <2>1. board'[id] = [board[id] EXCEPT !.dirty[d] = TRUE, !.cached[d] = 0] /\ board[id] \in Boards
    BY <1>0, <1>1
  <2> QED
    BY <1>0, <1>1, <2>1 DEF Boards, Screens
<1>3. ~mine'[d][id].own
  <2> DEFINE f == [k \in Ids |-> Overwritten(mine[d][k], 0)]
  <2>0. mine' = [mine EXCEPT ![d] = f] /\ f[id] = Overwritten(mine[d][id], 0)
    BY <1>1
  <2> HIDE DEF f
  <2>1. mine'[d][id] = Overwritten(mine[d][id], 0) /\ mine[d][id] \in Clips
    BY <1>0, <2>0
  <2>2. 0 \in Copies
    BY DEF Copies, ClipboardAssumption
  <2> QED
    BY <2>1, <2>2, OverwrittenIs
<1>4. Recorded
  <2>1. Len(made) <= Len(made)
    BY <1>0 DEF Typed, TypeOK
  <2> QED
    BY <1>1, <2>1 DEF Recorded
<1>5. ASSUME NEW c \in connected
      PROVE  Flow(c, id) /\ Cached(c, id) /\ (Grabber(c, id)' => Grabber(c, id)) /\ Shielded(c, id)'
  <2>1. Still(c)
    BY <1>0, <1>1, <1>5 DEF Still, netVars
  <2>2. Unreported(c, id)
    BY <1>1 DEF Unreported
  <2>3. Flow(c, id) /\ Cached(c, id)
    BY <1>2, <1>5, <2>1, <2>2, StillFlows DEF Cached
  <2>4. \A x \in Copies : Incoming(c, id, x)' => Incoming(c, id, x)
    BY <1>1 DEF Incoming, netVars
  <2>5. Shielded(c, id)
    BY <1>0, <1>5 DEF Certified
  <2> QED
    BY <2>3, <2>4, <2>5 DEF Shielded, Flow
<1>6. Silent(d, id)' /\ ~Grabber(d, id)' /\ Own(d, id)'
  <2>0. /\ \A i : i \notin 1..Len(clientQueue'[d]) /\ i \notin 1..Len(up'[d])
        /\ \A i \in 1..Len(queue') : Whose(queue'[i]) = d => queue'[i].gone
    <3>1. clientQueue'[d] = <<>> /\ up'[d] = <<>> /\ queue' = queue
      BY <1>0, <1>1 DEF Absent, netVars
    <3>2. \A i : i \notin 1..Len(<<>>)
      OBVIOUS
    <3> QED
      BY <1>0, <3>1, <3>2 DEF Absent
  <2>1. /\ \A i : ~Asked(clientQueue'[d], id, i) /\ ~Posted(clientQueue'[d], id, i)
        /\ \A i, type : ~Upward(type, up'[d], id, i)
    BY <2>0 DEF Asked, Posted, Upward
  <2>2. \A i : \A type \in Kinds : ~Report(type, queue', d, id, i)
    BY <2>0 DEF Report, Whose, Kinds
  <2>3. /\ \A n : ~Reporting("grabbed", queue', d, id, n) /\ ~Reporting("changed", queue', d, id, n)
        /\ ~Asks(clientQueue'[d], id) /\ \A n : ~Rising("grab", up'[d], id, n)
        /\ \A x : ~Posts(clientQueue'[d], id, x) /\ ~Uploads(up'[d], id, x)
    BY <2>1, <2>2 DEF Reporting, Asks, Rising, Posts, Uploads, Kinds
  <2>4. /\ ~Grabber(d, id)' /\ \A x \in Copies : ~Mails(d, id, x)'
    BY <1>0, <2>3 DEF Grabber, Mails
  <2>5. Silent(d, id)'
    BY <1>3, <2>3, <2>4 DEF Silent
  <2> QED
    BY <1>3, <2>3, <2>4, <2>5 DEF Own
<1>7. Grabber(Primary, id)' => Grabber(Primary, id)
  BY <1>0, <1>1 DEF Grabber
<1>8. Mine(id)'
  <2>1. From(made', board[id].owner, id, board[id].data)
    BY <1>0, <1>1 DEF Certified, Mine
  <2>2. board[id].owner = Primary \/ Grabber(Primary, id) => From(made', Primary, id, board[id].shown)
    BY <1>0, <1>1 DEF Certified, Mine
  <2>3. board[id].clip \in Oversize => board[id].owner = Primary
    BY <1>0 DEF Certified, Mine
  <2> QED
    BY <1>2, <1>7, <2>1, <2>2, <2>3 DEF Mine
<1>9. Caught(id)'
  <2>1. \A c \in connected' : Grabber(c, id)' => c \in connected /\ Grabber(c, id)
    BY <1>1, <1>5, <1>6
  <2>2. Caught(id) /\ active' = active
    BY <1>0, <1>1 DEF Certified
  <2> QED
    BY <1>2, <2>1, <2>2 DEF Caught
<1>10. Lone(id)'
  <2>1. \A c \in connected' : (c \in connected /\ Flow(c, id)) \/ Silent(c, id)'
    BY <1>1, <1>5, <1>6
  <2> QED
    BY <1>0, <1>7, <2>1, LoneFlows DEF Certified
<1>11. ASSUME NEW c \in connected' PROVE Own(c, id)' /\ Spare(c, id)' /\ Shielded(c, id)'
  <2>1. CASE c = d
    BY <1>0, <1>1, <1>6, <2>1 DEF Spare, Shielded
  <2>2. CASE c \in connected
    <3>1. Own(c, id) /\ Spare(c, id) /\ Shielded(c, id)
      BY <1>0, <2>2 DEF Certified
    <3>2. Own(c, id)'
      BY <1>0, <1>4, <1>5, <2>2, <3>1, OwnFlows
    <3>3. Spare(c, id)'
      BY <1>1, <1>2, <1>5, <2>2, <3>1 DEF Spare, Void
    <3> QED
      BY <1>5, <2>2, <3>2, <3>3
  <2> QED
    BY <1>1, <2>1, <2>2
<1> QED
  BY <1>8, <1>9, <1>10, <1>11 DEF Certified

LEMMA DepartSigned ==
    ASSUME ClipboardAssumption, Typed, Typed', Signed, NEW d \in Clients, Depart(d)
    PROVE  Signed'
<1> SUFFICES ASSUME NEW id \in Ids PROVE Certified(id)'
  BY DEF Signed
<1>0. /\ connected \subseteq Clients /\ Certified(id) /\ Primary \notin Clients /\ queue \in Seq(Events)
      /\ down \in [Clients -> Seq(Messages)] /\ up \in [Clients -> Seq(Messages)]
  BY DEF Typed, TypeOK, Signed, ClipboardAssumption
<1>1. /\ connected' = connected \ {d} /\ active' \in {active, Primary} /\ board' = board
      /\ queue' = [i \in DOMAIN queue |-> Orphan(queue[i], d)]
      /\ down' = [down EXCEPT ![d] = <<>>] /\ up' = [up EXCEPT ![d] = <<>>]
      /\ UNCHANGED <<clientVars, made>>
  BY DEF Depart
<1>2. Len(queue') = Len(queue) /\ \A i \in 1..Len(queue) :
        /\ queue[i] \in Events
        /\ queue'[i].type = queue[i].type /\ queue'[i].id = queue[i].id
        /\ queue[i].type # "send" => /\ queue'[i].from = queue[i].from /\ queue'[i].seq = queue[i].seq
                                     /\ queue'[i].gone <=> queue[i].gone \/ queue[i].from = d
        /\ queue[i].type = "send" => /\ queue'[i].to = queue[i].to /\ queue'[i].value = queue[i].value
                                     /\ queue'[i].gone <=> queue[i].gone \/ queue[i].to = d
  <2>1. DOMAIN queue = 1..Len(queue) /\ Len(queue) \in Nat /\ \A i \in 1..Len(queue) : queue[i] \in Events
    BY <1>0
  <2>2. \A i \in 1..Len(queue) : queue'[i] = Orphan(queue[i], d)
    BY <1>1, <2>1
  <2>3. Len(queue') = Len(queue)
    BY <1>1, <2>1
  <2> QED
    BY <2>1, <2>2, <2>3, OrphanIs
<1>3. ASSUME NEW c, NEW type \in Kinds, NEW n, Reporting(type, queue', c, id, n)
      PROVE  Reporting(type, queue, c, id, n)
  <2>1. PICK i \in Nat : Report(type, queue', c, id, i) /\ n = queue'[i].seq
    BY <1>3 DEF Reporting
  <2>2. Report(type, queue, c, id, i) /\ n = queue[i].seq
    BY <1>2, <2>1 DEF Report, Kinds
  <2> QED
    BY <2>2 DEF Reporting
<1>4. ASSUME NEW c, NEW x, Feeds(queue', c, id, x) PROVE Feeds(queue, c, id, x)
  <2>1. PICK i \in Nat : Bound(queue', c, id, i) /\ queue'[i].value = x
    BY <1>4 DEF Feeds
  <2>2. Bound(queue, c, id, i) /\ queue[i].value = x
    BY <1>2, <2>1 DEF Bound
  <2> QED
    BY <2>2 DEF Feeds
<1>5. ASSUME NEW c \in connected' PROVE c \in connected /\ Flow(c, id) /\ Cached(c, id) /\ Covered(c, id)
  <2>1. c \in connected /\ c # d /\ c \in Clients
    BY <1>0, <1>1, <1>5
  <2>2. Still(c) /\ down'[c] = down[c]
    BY <1>0, <1>1, <2>1 DEF Still, clientVars
  <2>3. Unreported(c, id)
    BY <1>3 DEF Unreported
  <2>4. Covered(c, id)
    BY <1>4, <2>2 DEF Covered, Incoming
  <2> QED
    BY <1>1, <2>1, <2>2, <2>3, <2>4, StillFlows DEF Cached
<1>6. Recorded /\ Steadfast(id)
  <2>1. Len(made) <= Len(made)
    BY DEF Typed, TypeOK
  <2> QED
    BY <1>1, <2>1 DEF Recorded, Steadfast
<1>7. Grabber(Primary, id)' => Grabber(Primary, id)
  BY <1>0, <1>3 DEF Grabber, Kinds
<1> QED
  BY <1>0, <1>1, <1>5, <1>6, <1>7, SteadfastSigned

-----------------------------------------------------------------------------
(* Switches, and whose contents are under way *)

\* A client that does not own the clipboard, and has an update that is not out of date
\* in the queue, has a grab there.
LEMMA UpdateGrabs ==
    ASSUME ClipboardAssumption, IInv, NEW c \in connected, NEW id \in Ids, NEW n \in Seqs,
           Reporting("changed", queue, c, id, n), n >= board[id].seq, board[id].owner # c
    PROVE  Grabber(c, id)
<1>1. PICK i \in Nat : Report("changed", queue, c, id, i) /\ n = queue[i].seq
  BY DEF Reporting
<1>2. ReportsFit(queue, c, id, Claimed(c, id))
  BY DEF IInv, Fits
<1>3. n \in Nat /\ board[id].seq \in Nat /\ queue \in Seq(Events)
  BY Numbers DEF IInv, Typed, TypeOK, Boards
<1>4. n \notin Claimed(c, id)
  BY <1>3 DEF Claimed
<1>5. PICK j \in Nat : Report("grabbed", queue, c, id, j)
  BY <1>1, <1>2, <1>4 DEF ReportsFit
<1>6. queue[j] \in Events /\ queue[j].type = "grabbed"
  BY <1>3, <1>5 DEF Report
<1>7. queue[j].seq \in Seqs
  BY <1>6, GrabbedEvent
<1> QED
  BY <1>5, <1>7 DEF Grabber, Reporting

\* What is fetched from the primary is what the server has, if a client is about to
\* grab the clipboard.
LEMMA FetchedIs ==
    ASSUME ClipboardAssumption, IInv, Delivered, Signed, NEW id \in Ids, NEW l \in Boards,
           Fetched(board[id], l)
    PROVE  /\ l.owner = board[id].owner /\ l.seq = board[id].seq
           /\ l.shown = board[id].shown
           /\ \A c \in connected : l.cached[c] = board[id].cached[c]
           /\ IF active = Primary /\ board[id].owner = Primary
              THEN l.clip = board[id].shown /\ (l.data = l.clip \/ l.clip \in Oversize)
              ELSE l = board[id]
           /\ l.data = board[id].data \/ (board[id].owner = Primary /\ l.data = board[id].shown)
           /\ (\E c \in connected : Grabber(c, id)) =>
                l.clip = board[id].clip /\ l.data = board[id].data /\ l.dirty = board[id].dirty
<1> DEFINE b == board[id]
<1>0. b \in Boards /\ Certified(id) /\ Primary \notin connected /\ connected \subseteq Clients
  BY DEF IInv, Typed, TypeOK, Signed, ClipboardAssumption
<1> HIDE DEF b
<1>1. CASE ~(active = Primary /\ board[id].owner = Primary)
  BY <1>1 DEF Fetched
<1>2. CASE active = Primary /\ board[id].owner = Primary
  <2>1. Passed(board[id], Primary, Primary, l) /\ GetClipboard(board[id], Primary) = board[id].shown
    BY <1>2 DEF Fetched, GetClipboard
  <2> DEFINE v == board[id].shown
  <2>2. /\ l.owner = board[id].owner /\ l.seq = board[id].seq /\ l.clip = v
        /\ IF v \in Oversize \/ v = board[id].data
           THEN /\ l.data = board[id].data /\ l.dirty = board[id].dirty
                /\ l.shown = board[id].shown /\ l.cached = board[id].cached
           ELSE /\ l.data = v /\ l.shown = board[id].shown
                /\ \A c \in connected : l.cached[c] = board[id].cached[c]
    BY <1>0, <2>1 DEF Passed
  <2>3. ASSUME \E c \in connected : Grabber(c, id)
        PROVE  /\ board[id].clip = v
               /\ v \in Oversize \/ v = board[id].data
    BY <1>0, <1>2, <2>3 DEF Certified, Caught
  <2> QED
    BY <1>2, <2>2, <2>3
<1> QED
  BY <1>1, <1>2

LEMMA SwitchSigned ==
    ASSUME ClipboardAssumption, Typed', IInv, Delivered, Signed, NEW dst \in Screens, SwitchScreen(dst)
    PROVE  Signed'
<1> SUFFICES ASSUME NEW id \in Ids PROVE Certified(id)'
  BY DEF Signed
<1>0. /\ Typed /\ connected \subseteq Clients /\ Certified(id) /\ Primary \notin Clients
      /\ queue \in Seq(Events) /\ down \in [Clients -> Seq(Messages)]
      /\ board[id] \in Boards /\ board'[id] \in Boards /\ 0 \notin Oversize
  <2>1. board'[id] \in Boards
    BY DEF Typed, TypeOK
  <2>2. 0 \notin Oversize /\ Primary \notin Clients
    BY DEF ClipboardAssumption
  <2> QED
    BY <2>1, <2>2 DEF IInv, Typed, TypeOK, Signed
<1>1. /\ dst # active /\ active' = dst
      /\ UNCHANGED <<connected, clientVars, up, made>>
      /\ \A c \in Clients : \/ down'[c] = down[c] \/ down'[c] = Append(down[c], [type |-> "leave"])
                            \/ down'[c] = Append(down[c], [type |-> "enter", seq |-> seqNum'])
      /\ \A i \in DOMAIN queue : ~(queue[i].type = "grabbed" /\ queue[i].from = Primary)
  BY DEF SwitchScreen, bookVars
<1>2. PICK l \in [Ids -> Boards] :
         /\ \A k \in Ids : Fetched(board[k], l[k]) /\ Entrusted(l[k], dst, board'[k])
         /\ Drawn(queue, queue', {SendOf(dst, k, board'[k].clip) : k \in Wanted(l, dst)})
  BY <1>0, SwitchGives
<1> DEFINE a == l[id]
           n == board'[id]
           b == board[id]
           S == {SendOf(dst, k, board'[k].clip) : k \in Wanted(l, dst)}
<1>3. a \in Boards /\ Fetched(b, a) /\ Entrusted(a, dst, n) /\ Drawn(queue, queue', S)
  BY <1>2
<1>4. /\ a.owner = b.owner /\ a.seq = b.seq /\ a.shown = b.shown
      /\ \A c \in connected : a.cached[c] = b.cached[c]
      /\ IF active = Primary /\ b.owner = Primary
         THEN a.clip = b.shown /\ (a.data = a.clip \/ a.clip \in Oversize) ELSE a = b
      /\ a.data = b.data \/ (b.owner = Primary /\ a.data = b.shown)
      /\ (\E c \in connected : Grabber(c, id)) => a.clip = b.clip /\ a.data = b.data /\ a.dirty = b.dirty
  BY <1>3, FetchedIs
<1>5. /\ n.owner = b.owner /\ n.seq = b.seq /\ n.clip = a.clip /\ n.data = a.data
      /\ \A c \in connected : c # dst => n.dirty[c] = a.dirty[c] /\ n.cached[c] = a.cached[c]
      /\ n.dirty[dst] => a.clip \in Oversize
      /\ \/ n.shown = b.shown
         \/ dst = Primary /\ n.shown = a.clip /\ a.clip \notin Oversize
      /\ dst # Primary =>
           \/ n.cached[dst] = a.cached[dst]
           \/ a.dirty[dst] /\ a.clip \notin Oversize /\ n.cached[dst] = a.clip
  <2> HIDE DEF n, a, b
  <2>0. a.cached \in [Clients -> Copies] /\ \A c \in connected : c \in Clients /\ c \in Screens
    BY <1>0, <1>3 DEF Boards, Screens
  <2>1. CASE a.clip \in Oversize
    BY <1>3, <1>4, <2>1 DEF Entrusted
  <2>2. CASE a.clip \notin Oversize
    <3>1. Given(a, dst, n)
      BY <1>3, <2>2 DEF Entrusted
    <3>2. /\ n.owner = b.owner /\ n.seq = b.seq /\ n.clip = a.clip /\ n.data = a.data
          /\ ~n.dirty[dst]
          /\ \A c \in connected : c # dst => n.dirty[c] = a.dirty[c]
      BY <1>4, <2>0, <3>1, Zenon DEF Given
    <3>3. \/ n.shown = b.shown
          \/ dst = Primary /\ n.shown = a.clip /\ a.clip \notin Oversize
      BY <1>4, <2>2, <3>1 DEF Given
    <3>4. CASE dst # Primary /\ a.dirty[dst]
      <4>1. n.cached = [a.cached EXCEPT ![dst] = a.clip] /\ dst \in Clients
        BY <3>1, <3>4 DEF Given, Screens
      <4> QED
        BY <2>0, <2>2, <3>2, <3>3, <3>4, <4>1
    <3>5. CASE ~(dst # Primary /\ a.dirty[dst])
      <4>1. n.cached = a.cached
        BY <3>1, <3>5 DEF Given
      <4> QED
        BY <2>0, <2>2, <3>2, <3>3, <3>5, <4>1
    <3> QED
      BY <3>4, <3>5
  <2> QED
    BY <2>1, <2>2
<1>6. \A e \in S : /\ e.type = "send" /\ (e.id = id => e.value = n.clip)
                   /\ e.id = id => e.to = dst /\ dst # Primary /\ a.clip \notin Oversize /\ a.dirty[dst]
  BY DEF SendOf, Wanted
<1> HIDE DEF S
<1>7. b.clip \in Oversize \/ b.clip = b.data
  BY DEF Delivered, CleanHome
<1>8. ~Grabber(Primary, id) /\ ~Grabber(Primary, id)'
  <2>1. \A t : ~Reporting("grabbed", queue, Primary, id, t)
    <3>1. DOMAIN queue = 1..Len(queue)
      BY <1>0
    <3> QED
      BY <1>1, <3>1 DEF Reporting, Report
  <2>2. \A t : ~Reporting("grabbed", queue', Primary, id, t)
    BY <1>3, <1>6, <2>1, DrawnReport
  <2> QED
    BY <1>0, <2>1, <2>2 DEF Grabber
<1>9. /\ Mine(id) /\ Caught(id) /\ Lone(id)
      /\ \A c \in connected : Own(c, id) /\ Spare(c, id) /\ Shielded(c, id)
  BY <1>0 DEF Certified
<1>10. Recorded
  <2>1. Len(made) <= Len(made)
    BY <1>0 DEF Typed, TypeOK
  <2> QED
    BY <1>1, <2>1 DEF Recorded
<1>11. From(made, b.owner, id, b.data) /\ (b.owner = Primary => From(made, Primary, id, b.shown))
  BY <1>9 DEF Mine
<1>a. UNCHANGED <<connected, made>> /\ active' = dst
  BY <1>1
<1> HIDE DEF a, n, b
<1>12. From(made, n.owner, id, n.data)
  BY <1>4, <1>5, <1>11
<1>13. ASSUME n.owner = Primary PROVE From(made, Primary, id, n.shown)
  <2>1. CASE n.shown = b.shown
    BY <1>5, <1>11, <1>13, <2>1
  <2>2. CASE dst = Primary /\ n.shown = a.clip /\ a.clip \notin Oversize
    <3>1. a = b
      BY <1>1, <1>4, <2>2
    <3> QED
      BY <1>5, <1>7, <1>11, <1>13, <2>2, <3>1
  <2> QED
    BY <1>5, <2>1, <2>2
<1>14. n.clip \in Oversize => n.owner = Primary
  <2>1. b.clip \in Oversize => b.owner = Primary
    BY <1>9 DEF Mine, b
  <2> QED
    BY <1>4, <1>5, <2>1
<1>15. Mine(id)'
  BY <1>8, <1>12, <1>13, <1>14, <1>a DEF Mine, n
<1>16. ASSUME NEW c \in connected
       PROVE  /\ Flow(c, id) /\ Cached(c, id) /\ Covered(c, id)
              /\ Grabber(c, id)' => Grabber(c, id)
  <2>0. c \in Clients /\ c # Primary
    BY <1>0
  <2>1. Unreported(c, id)
    BY <1>3, <1>6, UnreportedDrawn
  <2>2. Flow(c, id)
    <3>1. Still(c)
      BY <1>1 DEF Still, clientVars
    <3> QED
      BY <2>1, <3>1, StillFlows
  <2>3. ASSUME Grabber(c, id), a.dirty[c], a.clip \notin Oversize PROVE a.clip = 0
    <3>1. a.clip = b.clip /\ a.dirty = b.dirty
      BY <1>4, <2>3
    <3>2. Spare(c, id)
      BY <1>9
    <3> QED
      BY <2>3, <3>1, <3>2 DEF Spare, Void, b
  <2>4. Covered(c, id)
    <3>1. SUFFICES ASSUME Grabber(c, id) PROVE Covered(c, id)
      BY DEF Covered
    <3>2. \A e \in S : e.type = "send" /\ e.to = c /\ e.id = id => e.value = 0
      BY <1>5, <1>6, <2>3, <3>1
    <3>3. \E R : Drawn(down[c], down'[c], R) /\ \A m \in R : m.type \in {"leave", "enter"}
      <4>1. Drawn(down[c], down[c], {}) /\ \A x : Drawn(down[c], Append(down[c], x), {x})
        BY <1>0, <2>0, DrawnSame, DrawnAppend
      <4> DEFINE x == [type |-> "leave"]
                 y == [type |-> "enter", seq |-> seqNum']
      <4>2. /\ down'[c] = down[c] \/ down'[c] = Append(down[c], x) \/ down'[c] = Append(down[c], y)
            /\ x.type = "leave" /\ y.type = "enter"
        BY <1>1, <2>0
      <4> HIDE DEF x, y
      <4>3. CASE down'[c] = down[c]
        <5>1. \A m \in {} : m.type \in {"leave", "enter"}
          OBVIOUS
        <5> QED
          BY <4>1, <4>3, <5>1
      <4>4. ASSUME NEW z \in {x, y}, down'[c] = Append(down[c], z)
            PROVE  \E R : Drawn(down[c], down'[c], R) /\ \A m \in R : m.type \in {"leave", "enter"}
        <5>1. \A m \in {z} : m.type \in {"leave", "enter"}
          BY <4>2
        <5>2. Drawn(down[c], down'[c], {z})
          BY <4>1, <4>4
        <5> QED
          BY <5>1, <5>2
      <4> QED
        BY <4>2, <4>3, <4>4
    <3>4. PICK R : Drawn(down[c], down'[c], R) /\ \A m \in R : m.type \in {"leave", "enter"}
      BY <3>3
    <3>5. \A m \in R : ~Lays(m, id)
      BY <3>4 DEF Lays
    <3> QED
      BY <1>3, <3>2, <3>4, <3>5, CoveredDrawn
  <2>5. Cached(c, id)
    <3>1. SUFFICES ASSUME NEW t \in Seqs, Reporting("changed", queue, c, id, t), t >= b.seq,
                          n.cached[c] # b.cached[c]
                   PROVE  From(made, c, id, n.cached[c]) /\ n.cached[c] \notin Oversize
      <4>1. ASSUME NEW t \in Seqs, Reporting("changed", queue', c, id, t)
            PROVE  Reporting("changed", queue, c, id, t)
        BY <2>1, <4>1 DEF Unreported, Kinds
      <4> QED
        BY <1>5, <3>1, <4>1 DEF Cached, n, b
    <3>2. dst = c /\ a.dirty[c] /\ a.clip \notin Oversize /\ n.cached[c] = a.clip
      BY <1>4, <1>5, <2>0, <3>1
    <3>3. CASE b.owner = c
      <4>1. a = b
        BY <1>4, <2>0, <3>3
      <4> QED
        BY <1>7, <1>11, <3>2, <3>3, <4>1
    <3>4. CASE b.owner # c
      <4>1. Grabber(c, id)
        BY <3>1, <3>4, UpdateGrabs DEF b
      <4> QED
        BY <1>0, <2>3, <3>2, <4>1 DEF From
    <3> QED
      BY <3>3, <3>4
  <2> QED
    BY <2>2, <2>4, <2>5 DEF Flow
<1>17. Caught(id)'
  <2>1. SUFFICES ASSUME n.owner = Primary, dst # Primary \/ \E c \in connected : Grabber(c, id)
                 PROVE  n.clip = n.shown /\ (n.data = n.shown \/ n.shown \in Oversize)
    BY <1>16, <1>a DEF Caught, n
  <2>2. CASE active = Primary
    <3>1. dst # Primary /\ n.shown = b.shown
      BY <1>1, <1>5, <2>2
    <3> QED
      BY <1>4, <1>5, <2>1, <2>2, <3>1
  <2>3. CASE active # Primary
    <3>1. a = b
      BY <1>4, <2>3
    <3>2. b.clip = b.shown /\ (b.data = b.shown \/ b.shown \in Oversize)
      BY <1>5, <1>9, <2>1, <2>3 DEF Caught, b
    <3> QED
      BY <1>5, <3>1, <3>2
  <2> QED
    BY <2>2, <2>3
<1>18. Lone(id)'
  <2>1. \A c \in connected' : (c \in connected /\ Flow(c, id)) \/ Silent(c, id)'
    BY <1>16, <1>a
  <2> QED
    BY <1>0, <1>8, <1>9, <2>1, LoneFlows
<1>19. ASSUME NEW c \in connected' PROVE Own(c, id)' /\ Spare(c, id)' /\ Shielded(c, id)'
  <2>0. c \in connected /\ Own(c, id) /\ Spare(c, id) /\ Shielded(c, id)
    BY <1>9, <1>19, <1>a
  <2>1. Own(c, id)'
    BY <1>0, <1>10, <1>16, <2>0, OwnFlows
  <2>2. Spare(c, id)'
    <3>1. SUFFICES ASSUME Grabber(c, id) \/ dst = c, n.dirty[c] PROVE Void(n.clip)
      BY <1>16, <1>a, <2>0 DEF Spare, Void, n
    <3>2. CASE dst = c
      BY <1>5, <3>1, <3>2 DEF Void
    <3>3. CASE dst # c /\ Grabber(c, id)
      <4>1. a.clip = b.clip /\ a.dirty = b.dirty /\ n.dirty[c] = a.dirty[c]
        BY <1>4, <1>5, <2>0, <3>3
      <4> QED
        BY <1>5, <2>0, <3>1, <3>3, <4>1 DEF Spare, b
    <3> QED
      BY <3>1, <3>2, <3>3
  <2>3. Shielded(c, id)'
    BY <1>16, <2>0 DEF Shielded, Covered
  <2> QED
    BY <2>1, <2>2, <2>3
<1> QED
  BY <1>15, <1>17, <1>18, <1>19 DEF Certified

-----------------------------------------------------------------------------
(* Grabs and updates, and whose contents are under way *)

LEMMA GrabbedSigned ==
    ASSUME ClipboardAssumption, Typed', IInv, Signed, NEW e, e = Head(queue), queue # <<>>,
           e.type = "grabbed", Grabbed(e),
           UNCHANGED <<connected, active, seqNum, primarySeq, clientVars, up, bookVars>>
    PROVE  Signed'
<1> SUFFICES ASSUME NEW id \in Ids PROVE Certified(id)'
  BY DEF Signed
<1>0. /\ Typed /\ connected \subseteq Clients /\ Primary \notin Clients /\ Certified(id)
      /\ queue \in Seq(Events) /\ down \in [Clients -> Seq(Messages)] /\ board \in [Ids -> Boards]
  BY DEF IInv, Typed, TypeOK, Signed, ClipboardAssumption
<1>1. /\ Taking(e) /\ e \in Events
      /\ UNCHANGED <<connected, active, clientVars, up, made>> /\ queue' = Tail(queue)
  BY <1>0, GrabbedTakes DEF Taking, bookVars
<1>2. /\ e.from \in connected \cup {Primary} /\ e.from \in Screens /\ e.id \in Ids /\ e.seq \in Seqs
      /\ e.seq \in Nat /\ board[e.id].seq <= e.seq /\ board[e.id].seq \in Nat
      /\ e.from = Primary => active = Primary
  <2>1. board[e.id] \in Boards
    BY <1>0, <1>1 DEF Taking
  <2> QED
    BY <1>0, <1>1, <2>1, Numbers DEF Taking, Screens, Boards
<1>3. board' = [board EXCEPT ![e.id] = OnClipboardGrabbed(@, e.from, e.seq)]
  BY <1>2 DEF Grabbed
<1>4. Drawn(queue, queue', {})
  BY <1>0, <1>1, DrawnTail
<1>5. ASSUME NEW c \in connected PROVE Fed(c, id)
  <2>1. CASE down'[c] = down[c]
    BY <2>1, FedSame
  <2>2. CASE \E x \in Messages : x.type = "grab" /\ x.id = e.id /\ down'[c] = Append(down[c], x)
    <3>1. PICK x \in Messages : x.type = "grab" /\ down'[c] = Append(down[c], x)
      BY <2>2
    <3>2. Drawn(down[c], down'[c], {x})
      BY <1>0, <3>1, DrawnAppend
    <3>3. \A m \in {x} : Value(m) = 0
      BY <3>1 DEF Value
    <3> QED
      BY <3>2, <3>3 DEF Fed
  <2> QED
    BY <1>0, <1>1, <2>1, <2>2 DEF Taking
<1>6. CASE id # e.id
  <2>1. board'[id] = board[id]
    BY <1>0, <1>3, <1>6
  <2> QED
    BY <1>0, <1>1, <1>4, <1>5, <2>1, QuietSigned
<1>7. CASE id = e.id
  <2> DEFINE b == board[id]
             n == board'[id]
  <2>1. b \in Boards /\ n = OnClipboardGrabbed(b, e.from, e.seq)
    BY <1>0, <1>3, <1>7
  <2>2. /\ n.owner = e.from /\ n.seq = e.seq /\ n.clip = 0 /\ n.data = 0 /\ n.cached = b.cached
        /\ IF e.from = Primary THEN n.shown = b.shown ELSE n.shown = 0
    <3> HIDE DEF n, b
    <3>1. PICK r : r = OnClipboardGrabbed(b, e.from, e.seq)
      OBVIOUS
    <3> QED
      BY <1>0, <1>2, <2>1, <3>1, OnClipboardGrabbedIs
  <2>3. Grabber(e.from, id)
    <3>1. Report("grabbed", queue, e.from, id, 1) /\ queue[1].seq = e.seq /\ 1 \in Nat
      BY <1>0, <1>1, <1>7 DEF Taking, Report
    <3> QED
      BY <1>2, <3>1 DEF Grabber, Reporting
  <2>4. Mine(id) /\ Lone(id) /\ \A c \in connected : Own(c, id) /\ Spare(c, id) /\ Shielded(c, id)
    BY <1>0 DEF Certified
  <2>5. \A d \in connected : d # e.from => Silent(d, id) /\ ~Grabber(d, id)
    BY <1>2, <2>3, <2>4 DEF Lone, Silent
  <2>6. 0 \notin Oversize /\ \A s : From(made, s, id, 0)
    BY DEF ClipboardAssumption, From
  <2>7. Mine(id)'
    <3>1. e.from = Primary => From(made, Primary, id, b.shown)
      BY <2>3, <2>4 DEF Mine
    <3> HIDE DEF b
    <3>2. n.clip \notin Oversize /\ From(made, n.owner, id, n.data) /\ From(made, Primary, id, n.shown)
      BY <2>2, <2>6, <3>1
    <3> QED
      BY <1>1, <3>2 DEF Mine
  <2>8. Recorded
    <3>1. Len(made) <= Len(made)
      BY <1>0 DEF Typed, TypeOK
    <3> QED
      BY <1>1, <3>1 DEF Recorded
  <2>9. ASSUME NEW c \in connected
        PROVE  Flow(c, id) /\ Cached(c, id) /\ Covered(c, id) /\ (Grabber(c, id)' => Grabber(c, id))
    <3>1. Unreported(c, id)
      BY <1>4, UnreportedDrawn
    <3>2. Still(c)
      BY <1>1 DEF Still, clientVars
    <3>3. Flow(c, id)
      BY <3>1, <3>2, StillFlows
    <3>4. Covered(c, id)
      <4>1. PICK R : /\ Drawn(down[c], down'[c], R)
                     /\ \A m \in R : Lays(m, id) => Value(m) = 0 \/ Feeds(queue, c, id, Value(m))
        BY <1>5 DEF Fed
      <4>2. PICK S : S = {}
        OBVIOUS
      <4>3. Drawn(queue, queue', S) /\ \A x \in S : x.type = "send" /\ x.to = c /\ x.id = id => x.value = 0
        BY <1>4, <4>2
      <4> QED
        BY <4>1, <4>3, CoveredDrawn
    <3>5. Cached(c, id)
      <4>1. \A t \in Seqs : t \in Nat
        BY Numbers
      <4>2. n.seq >= b.seq /\ n.seq \in Nat /\ b.seq \in Nat /\ n.cached = b.cached
        BY <1>2, <1>7, <2>2
      <4> QED
        BY <4>1, <4>2 DEF Cached
    <3> QED
      BY <3>3, <3>4, <3>5 DEF Flow
  <2>10. Grabber(Primary, id)' => Grabber(Primary, id)
    <3>1. Unreported(Primary, id)
      BY <1>4, UnreportedDrawn
    <3> QED
      BY <1>0, <3>1 DEF Grabber, Unreported, Kinds
  <2>11. Caught(id)'
    <3>1. n.owner = Primary => active' = Primary /\ \A c \in connected' : ~Grabber(c, id)'
      BY <1>0, <1>1, <1>2, <2>2, <2>5, <2>9
    <3> QED
      BY <3>1 DEF Caught
  <2>12. Lone(id)'
    <3>1. \A c \in connected' : (c \in connected /\ Flow(c, id)) \/ Silent(c, id)'
      BY <1>1, <2>9
    <3> QED
      BY <1>0, <2>4, <2>10, <3>1, LoneFlows
  <2>13. ASSUME NEW c \in connected' PROVE Own(c, id)' /\ Spare(c, id)' /\ Shielded(c, id)'
    <3>0. c \in connected
      BY <1>1, <2>13
    <3>1. Own(c, id)'
      BY <1>0, <2>4, <2>8, <2>9, <3>0, OwnFlows
    <3>2. Spare(c, id)'
      BY <2>2 DEF Spare, Void
    <3>3. Shielded(c, id)'
      BY <2>4, <2>9, <3>0 DEF Shielded, Covered
    <3> QED
      BY <3>1, <3>2, <3>3
  <2> QED
    BY <2>7, <2>11, <2>12, <2>13 DEF Certified
<1> QED
  BY <1>6, <1>7

LEMMA BoardsAgree ==
    ASSUME NEW x \in Boards, NEW y \in Boards,
           x.owner = y.owner, x.seq = y.seq, x.clip = y.clip, x.data = y.data, x.dirty = y.dirty,
           x.cached = y.cached, x.shown = y.shown, x.held = y.held
    PROVE  x = y
<1>1. ASSUME NEW z \in Boards
      PROVE  z = [owner |-> z.owner, seq |-> z.seq, clip |-> z.clip, data |-> z.data, dirty |-> z.dirty,
                  cached |-> z.cached, shown |-> z.shown, held |-> z.held]
  BY DEF Boards
<1> QED
  BY <1>1, Zenon

LEMMA ChangedSigned ==
    ASSUME ClipboardAssumption, Typed', IInv, Delivered, Signed, ~unexpected', HandleClipboardChanged
    PROVE  Signed'
<1> SUFFICES ASSUME NEW id \in Ids PROVE Certified(id)'
  BY DEF Signed
<1> DEFINE e == Head(queue)
           t == Tail(queue)
           b == board[id]
           n == board'[id]
<1>0. /\ Typed /\ connected \subseteq Clients /\ Primary \notin Clients /\ Certified(id)
      /\ queue \in Seq(Events) /\ board \in [Ids -> Boards] /\ b \in Boards /\ n \in Boards
      /\ active \in connected \cup {Primary} /\ unexpected \in BOOLEAN
  <2>1. n \in Boards
    BY DEF Typed, TypeOK
  <2> QED
    BY <2>1 DEF IInv, Typed, TypeOK, Signed, ClipboardAssumption
<1>1. /\ queue # <<>> /\ e \in Events /\ e.type = "changed" /\ Changed(e)
      /\ UNCHANGED <<connected, active, clientVars, up, down, made>>
  BY <1>0, HandleClipboardChangedIs DEF netVars, bookVars
<1>2. e = queue[1] /\ 1 \in 1..Len(queue) /\ 1 \in Nat
  BY <1>0, <1>1
<1> HIDE DEF e
<1>3. e.id \in Ids /\ e.seq \in Seqs /\ e.from \in Screens /\ active \in Screens
  BY <1>0, <1>1, GrabbedEvent DEF Screens
<1>4. /\ t \in Seq(Events) /\ Drawn(queue, t, {})
  BY <1>0, <1>1, DrawnTail, MovedTail
<1>5. PICK r \in Results :
         /\ IF ~e.gone /\ e.from \in connected
            THEN r = OnClipboardChanged(board[e.id], e.from, e.seq, active)
            ELSE r = Quietly(board[e.id])
         /\ board'[e.id] = r.board /\ unexpected' = (unexpected \/ r.unexpected)
         /\ Moved(t, queue', 0)
         /\ \A k \in 1..Len(queue') : k > Len(t) =>
              \E i \in 1..Len(r.to) : queue'[k] = SendOf(r.to[i], e.id, r.board.clip)
  BY <1>1 DEF Changed
<1>6. queue' \in Seq(Events) /\ (id # e.id => n = b)
  BY <1>1 DEF Changed
<1> DEFINE S == {SendOf(r.to[i], e.id, r.board.clip) : i \in 1..Len(r.to)}
<1> HIDE DEF t, b, n
<1>7. Drawn(queue, queue', S)
  <2>1. ASSUME NEW k \in 1..Len(queue'), k + 0 > Len(t) PROVE queue'[k] \in S
    <3>1. k > Len(t)
      BY <1>4, <1>6, <2>1
    <3> QED
      BY <1>5, <3>1
  <2> HIDE DEF S
  <2>2. Drawn(t, queue', S)
    BY <1>4, <1>5, <1>6, <2>1, DrawnMoved
  <2> QED
    BY <1>4, <2>2 DEF Drawn
<1>8. ASSUME NEW x \in S
      PROVE x.type = "send" /\ x.id = e.id /\ x.value = r.board.clip /\ r.to # <<>>
            /\ \E i \in 1..Len(r.to) : x.to = r.to[i]
  <2>1. PICK i \in 1..Len(r.to) : x = SendOf(r.to[i], e.id, r.board.clip)
    BY <1>8
  <2>2. r.to # <<>>
    BY <2>1
  <2> QED
    BY <2>1, <2>2 DEF SendOf
<1> HIDE DEF S
<1>9. ASSUME NEW c \in connected PROVE Fed(c, id)
  BY <1>1, FedSame
<1>10. ASSUME n = b, id # e.id \/ r.to = <<>> PROVE Certified(id)'
  <2>1. \A x \in S : x.type = "send" /\ (x.id = id => x.value = 0)
    BY <1>8, <1>10
  <2> QED
    BY <1>0, <1>1, <1>7, <1>9, <1>10, <2>1, QuietSigned DEF b, n
<1>11. CASE id # e.id
  BY <1>6, <1>10, <1>11
<1>12. CASE id = e.id /\ ~(~e.gone /\ e.from \in connected)
  <2>1. r = Quietly(b) /\ n = r.board
    BY <1>5, <1>12 DEF b, n
  <2>2. n = b /\ r.to = <<>>
    BY <1>0, <2>1, QuietlyIs
  <2> QED
    BY <1>10, <2>2
<1>13. CASE id = e.id /\ ~e.gone /\ e.from \in connected
  <2> DEFINE c == e.from
             v == b.cached[c]
  <2>0. /\ c \in connected /\ c \in Clients /\ c # Primary /\ c = e.from /\ n = r.board
        /\ r = OnClipboardChanged(b, c, e.seq, active) /\ GetClipboard(b, c) = v
    BY <1>0, <1>5, <1>13 DEF GetClipboard, b, n
  <2>1. /\ IF e.seq < b.seq THEN n = b /\ r.to = <<>>
           ELSE Passed(b, c, active, n) /\ (v \in Oversize \/ v = b.data => r.to = <<>>)
        /\ r.unexpected <=> ~(e.seq < b.seq) /\ c # b.owner
        /\ Kept(b, r) \/ Taken(b, c, active, r)
    BY <1>0, <1>3, <2>0, OnClipboardChangedGives, OnClipboardChangedIs
  <2>2. CASE e.seq < b.seq
    BY <1>10, <2>1, <2>2
  <2>3. CASE ~(e.seq < b.seq)
    <3>1. b.owner = c /\ Passed(b, c, active, n)
      BY <1>0, <1>5, <2>1, <2>3
    <3>2. Reporting("changed", queue, c, id, e.seq) /\ e.seq >= b.seq
      <4>1. Report("changed", queue, c, id, 1) /\ queue[1].seq = e.seq
        BY <1>1, <1>2, <1>13, <2>0 DEF Report
      <4>2. e.seq \in Nat /\ b.seq \in Nat
        BY <1>0, <1>3, Numbers DEF Boards
      <4> QED
        BY <1>2, <2>3, <4>1, <4>2 DEF Reporting
    <3>3. /\ Mine(id) /\ Caught(id) /\ Lone(id)
          /\ \A z \in connected : Own(z, id) /\ Spare(z, id) /\ Shielded(z, id)
      BY <1>0 DEF Certified
    <3>4. From(made, c, id, v) /\ v \notin Oversize
      BY <1>3, <2>0, <3>2, <3>3 DEF Own, b
    <3>5. \A z \in connected \cup {Primary} : Grabber(z, id) => z = c
      <4>1. ~Silent(c, id)
        BY <1>3, <3>2 DEF Silent
      <4> QED
        BY <2>0, <3>3, <4>1 DEF Lone
    <3>6. b.clip = b.data
      BY <2>0, <3>1, <3>3 DEF Delivered, CleanHome, Mine, b
    <3> HIDE DEF c, v
    <3>7. CASE v = b.data
      <4>1. /\ n.owner = b.owner /\ n.seq = b.seq /\ n.clip = b.clip /\ n.data = b.data
            /\ n.dirty = b.dirty /\ n.shown = b.shown /\ n.held = b.held /\ n.cached = b.cached
        BY <2>0, <3>1, <3>6, <3>7 DEF Passed
      <4>2. n = b
        BY <1>0, <4>1, BoardsAgree
      <4> QED
        BY <1>10, <2>1, <2>3, <3>7, <4>2
    <3>8. CASE v # b.data
      <4>1. /\ n.owner = c /\ n.seq = b.seq /\ n.clip = v /\ n.data = v
            /\ \A z \in connected \cup {Primary} : n.dirty[z] <=> z # c /\ z # active
            /\ n.cached[c] = b.cached[c]
        BY <2>0, <3>1, <3>4, <3>8 DEF Passed
      <4>2. Recorded
        <5>1. Len(made) <= Len(made)
          BY <1>0 DEF Typed, TypeOK
        <5> QED
          BY <1>1, <5>1 DEF Recorded
      <4>3. ASSUME NEW x \in S PROVE x.type = "send" /\ x.to # c
        <5>1. r.to # <<>> /\ active \in connected \cup {Primary}
          BY <1>0, <1>8
        <5>2. active # c /\ r.to = <<active>>
          BY <2>1, <5>1 DEF Kept, Taken
        <5>3. PICK i \in 1..Len(r.to) : x.to = r.to[i]
          BY <1>8
        <5>4. i = 1 /\ r.to[1] = active
          BY <5>2
        <5> QED
          BY <1>8, <5>2, <5>3, <5>4
      <4>4. ASSUME NEW z \in connected PROVE Flow(z, id) /\ Cached(z, id) /\ Covered(z, id)
        <5>1. Unreported(z, id)
          BY <1>7, <4>3, UnreportedDrawn
        <5>2. Still(z)
          BY <1>1 DEF Still, clientVars
        <5>3. Flow(z, id)
          BY <5>1, <5>2, StillFlows
        <5>4. Covered(z, id)
          <6>1. SUFFICES ASSUME Grabber(z, id) PROVE Covered(z, id)
            BY DEF Covered
          <6>2. z = c
            BY <3>5, <6>1
          <6>3. \A x \in S : x.type = "send" /\ x.to = z /\ x.id = id => x.value = 0
            BY <4>3, <6>2
          <6>4. PICK R : /\ Drawn(down[z], down'[z], R)
                         /\ \A m \in R : Lays(m, id) => Value(m) = 0 \/ Feeds(queue, z, id, Value(m))
            BY <1>9 DEF Fed
          <6> QED
            BY <1>7, <6>3, <6>4, CoveredDrawn
        <5>5. Cached(z, id)
          <6>1. CASE z = c
            BY <4>1, <6>1 DEF Cached, n, b
          <6>2. CASE z # c
            <7>1. ASSUME NEW k \in Seqs, Reporting("changed", queue, z, id, k), k >= n.seq PROVE FALSE
              <8>1. k >= b.seq
                BY <4>1, <7>1
              <8>2. Grabber(z, id)
                BY <3>1, <6>2, <7>1, <8>1, UpdateGrabs DEF b
              <8> QED
                BY <3>5, <6>2, <8>2
            <7> QED
              BY <7>1 DEF Cached, n
          <6> QED
            BY <6>1, <6>2
        <5> QED
          BY <5>3, <5>4, <5>5
      <4>5. ~Grabber(Primary, id)'
        <5>1. Unreported(Primary, id)
          BY <1>7, <4>3, UnreportedDrawn
        <5>2. ~Grabber(Primary, id)
          BY <2>0, <3>5
        <5> QED
          BY <1>0, <5>1, <5>2 DEF Grabber, Unreported, Kinds
      <4>6. Mine(id)' /\ Caught(id)'
        <5>1. n.owner # Primary /\ n.clip \notin Oversize /\ From(made', n.owner, id, n.data)
          BY <1>1, <2>0, <3>4, <4>1
        <5> QED
          BY <4>5, <5>1 DEF Mine, Caught, n
      <4>7. Lone(id)'
        <5>1. \A z \in connected' : (z \in connected /\ Flow(z, id)) \/ Silent(z, id)'
          BY <1>1, <4>4
        <5> QED
          BY <1>0, <3>3, <4>5, <5>1, LoneFlows
      <4>8. ASSUME NEW z \in connected' PROVE Own(z, id)' /\ Spare(z, id)' /\ Shielded(z, id)'
        <5>0. z \in connected
          BY <1>1, <4>8
        <5>1. Own(z, id)'
          BY <1>0, <3>3, <4>2, <4>4, <5>0, OwnFlows
        <5>2. Grabber(z, id)' => z = c /\ Grabber(z, id)
          BY <3>5, <4>4, <5>0 DEF Flow
        <5>3. Spare(z, id)'
          BY <1>1, <4>1, <5>0, <5>2 DEF Spare, n
        <5>4. Shielded(z, id)'
          BY <3>3, <4>4, <5>0, <5>2 DEF Shielded, Covered
        <5> QED
          BY <5>1, <5>3, <5>4
      <4> QED
        BY <4>6, <4>7, <4>8 DEF Certified
    <3> QED
      BY <3>7, <3>8
  <2> QED
    BY <2>2, <2>3
<1> QED
  BY <1>11, <1>12, <1>13

-----------------------------------------------------------------------------
(* Copies, and whose contents are under way *)

\* Nothing is under way: nobody but the active client has anything to say.
LEMMA QuietSilent ==
    ASSUME ClipboardAssumption, IInv, Quiet, NEW id \in Ids
    PROVE  /\ ~Grabber(Primary, id)
           /\ \A d \in connected : here[d] /\ seq[d] # 0 => active = d
           /\ \A d \in connected : active # d => Silent(d, id)
           /\ \A d \in connected : \A x : ~Incoming(d, id, x)
           /\ \A d \in connected : /\ \A x : ~Mails(d, id, x)
                                   /\ \A n : ~Reporting("changed", queue, d, id, n)
<1>0. /\ Primary \notin Clients /\ connected \subseteq Clients /\ queue = <<>>
      /\ \A c \in Clients : clientQueue[c] = <<>> /\ down[c] = <<>> /\ up[c] = <<>>
  BY DEF IInv, Typed, TypeOK, Quiet, ClipboardAssumption
<1>1. \A i : i \notin 1..Len(<<>>)
  OBVIOUS
<1>2. \A type, c, i : ~Report(type, queue, c, id, i) /\ ~Bound(queue, c, id, i)
  BY <1>0, <1>1 DEF Report, Bound
<1>3. \A c \in connected :
        /\ \A i : /\ ~Asked(clientQueue[c], id, i) /\ ~Posted(clientQueue[c], id, i)
                  /\ ~Over(down[c], id, i) /\ ~LeaveAt(down[c], i)
        /\ \A i, type : ~Upward(type, up[c], id, i)
  BY <1>0, <1>1 DEF Asked, Posted, Over, LeaveAt, Upward
<1>4. ASSUME NEW s \in connected \cup {Primary} PROVE ~Grabber(s, id)
  BY <1>0, <1>2, <1>3 DEF Grabber, Reporting, Rising, Asks
<1>5. ASSUME NEW d \in connected, here[d], seq[d] # 0 PROVE active = d
  <2>1. LastOn(here[d], seq[d], down[d], seqNum, active = d) /\ VisitAt(here[d], seq[d], down[d], 0)
    BY <1>5 DEF IInv, Sitting, Sound, Course, VisitAt
  <2> QED
    BY <1>3, <2>1 DEF LastOn
<1>6. ASSUME NEW d \in connected
      PROVE  /\ \A x : ~Mails(d, id, x) /\ ~Incoming(d, id, x)
             /\ \A n : ~Reporting("changed", queue, d, id, n)
  BY <1>2, <1>3 DEF Mails, Incoming, Posts, Uploads, Feeds, Covers, Reporting
<1>7. ASSUME NEW d \in connected, active # d PROVE Silent(d, id)
  <2>1. ~(mine[d][id].own /\ Sendable(mine[d][id]))
    BY <1>5, <1>7 DEF IInv, Fits
  <2> QED
    BY <1>4, <1>6, <2>1 DEF Silent
<1> QED
  BY <1>4, <1>5, <1>6, <1>7

LEMMA MadeIs ==
    ASSUME ClipboardAssumption, Typed, Unhurried, NEW s \in Screens, NEW id \in Ids, NewCopy(s, id)
    PROVE  /\ Recorded /\ Quiet /\ From(made', s, id, Len(made'))
           /\ Len(made') \in Copies
<1>1. /\ made \in Seq([on : Screens, id : Ids]) /\ made' = Append(made, [on |-> s, id |-> id])
  BY DEF Typed, TypeOK, NewCopy
<1> DEFINE x == [on |-> s, id |-> id]
<1>2. x \in [on : Screens, id : Ids] /\ made' = Append(made, x) /\ x = [on |-> s, id |-> id]
  BY <1>1
<1> HIDE DEF x
<1>3. /\ Len(made') = Len(made) + 1 /\ Len(made) \in Nat /\ made'[Len(made) + 1] = x
      /\ \A i \in 1..Len(made) : made'[i] = made[i]
  BY <1>1, <1>2
<1>4. Recorded
  BY <1>3 DEF Recorded
<1>5. From(made', s, id, Len(made'))
  BY <1>2, <1>3 DEF From
<1>6. Quiet /\ Len(made') \in Copies
  BY NewCopyIs DEF Unhurried
<1> QED
  BY <1>4, <1>5, <1>6

LEMMA PrimaryCopiesSigned ==
    ASSUME ClipboardAssumption, Unhurried, Typed', IInv, Delivered, Signed, NEW k \in Ids, PrimaryCopies(k)
    PROVE  Signed'
<1> SUFFICES ASSUME NEW id \in Ids PROVE Certified(id)'
  BY DEF Signed
<1>0. /\ Typed /\ connected \subseteq Clients /\ Primary \notin Clients /\ Certified(id) /\ Primary \in Screens
      /\ queue \in Seq(Events) /\ board \in [Ids -> Boards] /\ board[id] \in Boards
  BY DEF IInv, Typed, TypeOK, Signed, ClipboardAssumption, Screens
<1>1. /\ active = Primary /\ NewCopy(Primary, k)
      /\ board' = [board EXCEPT ![k].shown = Len(made'), ![k].held = FALSE]
      /\ UNCHANGED <<connected, active, clientVars, netVars>>
  BY DEF PrimaryCopies, Unhurried
<1>2. Recorded /\ Quiet /\ From(made', Primary, k, Len(made')) /\ Len(made') \in Copies
  BY <1>0, <1>1, MadeIs
<1>3. PICK S : /\ Drawn(queue, queue', S)
               /\ \A e \in S : e.type = "grabbed" /\ e.from = Primary /\ e.id = k
  <2> DEFINE x == [type |-> "grabbed", from |-> Primary, id |-> k, seq |-> primarySeq, gone |-> FALSE]
  <2>1. queue' = Append(queue, x) \/ queue' = queue
    BY DEF PrimaryCopies
  <2>2. x.type = "grabbed" /\ x.from = Primary /\ x.id = k
    OBVIOUS
  <2> HIDE DEF x
  <2>3. \A e \in {x} : e.type = "grabbed" /\ e.from = Primary /\ e.id = k
    BY <2>2
  <2>4. CASE queue' = Append(queue, x)
    <3>1. Drawn(queue, queue', {x})
      BY <1>0, <2>4, DrawnAppend
    <3> QED
      BY <2>3, <3>1
  <2>5. CASE queue' = queue
    <3>1. Drawn(queue, queue', {}) /\ \A e \in {} : e.type = "grabbed" /\ e.from = Primary /\ e.id = k
      BY <2>5, DrawnSame
    <3> QED
      BY <3>1
  <2> QED
    BY <2>1, <2>4, <2>5
<1>4. /\ board'[id].owner = board[id].owner /\ board'[id].seq = board[id].seq
      /\ board'[id].clip = board[id].clip /\ board'[id].data = board[id].data
      /\ board'[id].dirty = board[id].dirty /\ board'[id].cached = board[id].cached
      /\ board'[id].shown = IF id = k THEN Len(made') ELSE board[id].shown
  <2>1. CASE id = k
    <3>1. board'[id] = [board[id] EXCEPT !.shown = Len(made'), !.held = FALSE]
      BY <1>0, <1>1, <2>1
    <3> QED
      BY <1>0, <2>1, <3>1 DEF Boards
  <2>2. CASE id # k
    BY <1>0, <1>1, <2>2
  <2> QED
    BY <2>1, <2>2
<1>5. ASSUME NEW c \in connected PROVE Flow(c, id) /\ Cached(c, id) /\ Covered(c, id)
  <2>0. c \in Clients /\ c # Primary
    BY <1>0
  <2>1. Unreported(c, id)
    BY <1>3, <2>0, UnreportedDrawn
  <2>2. Still(c)
    BY <1>1 DEF Still, clientVars, netVars
  <2>3. Covered(c, id)
    <3>1. \A x : Incoming(c, id, x)' => Incoming(c, id, x)
      <4>1. \A x : Feeds(queue', c, id, x) => Feeds(queue, c, id, x)
        BY <1>3, DrawnFeed
      <4> QED
        BY <1>1, <4>1 DEF Incoming, netVars
    <3> QED
      BY <3>1 DEF Covered
  <2> QED
    BY <1>4, <2>1, <2>2, <2>3, StillFlows DEF Cached
<1>6. CASE id # k
  <2>1. Grabber(Primary, id)' => Grabber(Primary, id)
    <3>1. Unreported(Primary, id)
      BY <1>3, <1>6, UnreportedDrawn
    <3> QED
      BY <1>0, <3>1 DEF Grabber, Unreported, Kinds
  <2>2. Steadfast(id)
    BY <1>4, <1>6 DEF Steadfast
  <2> QED
    BY <1>0, <1>1, <1>2, <1>5, <2>1, <2>2, SteadfastSigned
<1>7. CASE id = k
  <2>1. \A d \in connected : Silent(d, id)' /\ ~Grabber(d, id)'
    <3>1. \A d \in connected : Silent(d, id)
      BY <1>0, <1>1, <1>2, QuietSilent
    <3>2. \A d \in connected : Silent(d, id)'
      BY <1>0, <1>5, <3>1, SilentFlows
    <3> QED
      BY <3>2 DEF Silent
  <2>2. Mine(id) /\ \A c \in connected : Own(c, id) /\ Shielded(c, id)
    BY <1>0 DEF Certified
  <2>3. Mine(id)'
    <3>1. From(made', board[id].owner, id, board[id].data)
      BY <1>0, <1>2, <2>2, FromStays DEF Mine
    <3>2. board[id].clip \in Oversize => board[id].owner = Primary
      BY <2>2 DEF Mine
    <3> QED
      BY <1>2, <1>4, <1>7, <3>1, <3>2 DEF Mine
  <2>4. Caught(id)'
    BY <1>1, <2>1 DEF Caught
  <2>5. Lone(id)'
    BY <1>1, <2>1 DEF Lone
  <2>6. ASSUME NEW c \in connected' PROVE Own(c, id)' /\ Spare(c, id)' /\ Shielded(c, id)'
    <3>0. c \in connected /\ active' # c
      BY <1>0, <1>1, <2>6
    <3>1. Own(c, id)'
      BY <1>0, <1>2, <1>5, <2>2, <3>0, OwnFlows
    <3>2. Spare(c, id)' /\ Shielded(c, id)'
      BY <2>1, <3>0 DEF Spare, Shielded
    <3> QED
      BY <3>1, <3>2
  <2> QED
    BY <2>3, <2>4, <2>5, <2>6 DEF Certified
<1> QED
  BY <1>6, <1>7

LEMMA CopiesSigned ==
    ASSUME ClipboardAssumption, Unhurried, Typed', IInv, Signed, NEW d \in Clients, NEW k \in Ids,
           ClientCopies(d, k)
    PROVE  Signed'
<1> SUFFICES ASSUME NEW id \in Ids PROVE Certified(id)'
  BY DEF Signed
<1>0. /\ Typed /\ connected \subseteq Clients /\ Primary \notin Clients /\ Certified(id)
      /\ clientQueue \in [Clients -> Seq(Requests)] /\ mine \in [Clients -> [Ids -> Clips]]
      /\ Considerate /\ d \in Screens
  BY DEF IInv, Typed, TypeOK, Signed, ClipboardAssumption, Screens
<1>1. /\ d \in connected /\ here[d] /\ seq[d] # 0 /\ NewCopy(d, k)
      /\ mine' = [mine EXCEPT ![d][k].shown = Len(made'), ![d][k].held = FALSE]
      /\ UNCHANGED <<serverVars, here, seq, netVars>>
      /\ \A c \in Clients \ {d} : mine'[c] = mine[c]
      /\ \A i \in Ids \ {k} : mine'[d][i] = mine[d][i]
  <2>1. NewCopy(d, k) /\ mine' = [mine EXCEPT ![d][k].shown = Len(made'), ![d][k].held = FALSE]
    BY DEF ClientCopies
  <2> QED
    BY <1>0, <2>1, CopiesAre
<1>2. Recorded /\ Quiet /\ From(made', d, k, Len(made')) /\ Len(made') \in Copies
  BY <1>0, <1>1, MadeIs
<1>3. PICK S : /\ Drawn(clientQueue[d], clientQueue'[d], S) /\ \A e \in S : e.type = "grabbed" /\ e.id = k
               /\ \A c \in Clients \ {d} : clientQueue'[c] = clientQueue[c]
  <2>1. PICK x \in Requests : x.type = "grabbed" /\ x.id = k /\
          IF mine[d][k].held
          THEN clientQueue' = [clientQueue EXCEPT ![d] = Append(@, x)]
          ELSE Quiet /\ clientQueue' = clientQueue
    BY <1>0, CopiesAre
  <2>2. \A e \in {x} : e.type = "grabbed" /\ e.id = k
    BY <2>1
  <2>3. CASE clientQueue' = [clientQueue EXCEPT ![d] = Append(@, x)]
    <3>1. Drawn(clientQueue[d], clientQueue'[d], {x})
      BY <1>0, <2>3, DrawnAppend
    <3>2. \A c \in Clients \ {d} : clientQueue'[c] = clientQueue[c]
      BY <1>0, <2>3
    <3> QED
      BY <2>2, <3>1, <3>2
  <2>4. CASE clientQueue' = clientQueue
    <3>1. Drawn(clientQueue[d], clientQueue'[d], {}) /\ \A e \in {} : e.type = "grabbed" /\ e.id = k
      BY <2>4, DrawnSame
    <3> QED
      BY <2>4, <3>1
  <2> QED
    BY <2>1, <2>3, <2>4
<1>4. /\ UNCHANGED <<connected, active, board, queue, up, down>> /\ active = d
      /\ \A c \in connected : active # c => Silent(c, id)
      /\ \A c \in connected : \A x : ~Incoming(c, id, x)
      /\ \A c \in connected : /\ \A x : ~Mails(c, id, x)
                              /\ \A n : ~Reporting("changed", queue, c, id, n)
      /\ ~Grabber(Primary, id)
  BY <1>1, <1>2, QuietSilent DEF serverVars, netVars
<1>5. /\ ~Grabber(Primary, id)' /\ \A c \in connected : \A x : ~Incoming(c, id, x)'
  BY <1>0, <1>4 DEF Grabber, Incoming
<1>6. ASSUME NEW c \in connected, c # d PROVE Flow(c, id) /\ Silent(c, id)' /\ ~Grabber(c, id)'
  <2>0. c \in Clients
    BY <1>0
  <2>1. Still(c)
    BY <1>1, <1>3, <1>4, <1>6, <2>0 DEF Still
  <2>2. Unreported(c, id)
    BY <1>4 DEF Unreported
  <2>3. Flow(c, id)
    BY <2>1, <2>2, StillFlows
  <2>4. Silent(c, id)'
    BY <1>0, <1>4, <1>6, <2>0, <2>3, SilentFlows
  <2> QED
    BY <2>3, <2>4 DEF Silent
<1>7. \A x : ~Mails(d, id, x)'
  <2>1. \A x : ~Posts(clientQueue'[d], id, x)
    BY <1>1, <1>3, <1>4, DrawnPost DEF Mails
  <2> QED
    BY <1>1, <1>4, <2>1 DEF Mails
<1>8. ASSUME NEW c \in connected PROVE Cached(c, id) /\ Covered(c, id)
  BY <1>4, <1>5 DEF Cached, Covered
<1>9. CASE id # k
  <2>1. Flow(d, id)
    <3>1. Asks(clientQueue'[d], id) => Asks(clientQueue[d], id)
      BY <1>3, <1>9, DrawnAsk
    <3>2. Grabber(d, id)' => Grabber(d, id)
      BY <1>4, <3>1 DEF Grabber
    <3>3. mine'[d][id] = mine[d][id]
      BY <1>1, <1>9
    <3> QED
      BY <1>4, <1>7, <3>1, <3>2, <3>3 DEF Flow
  <2>2. Steadfast(id)
    BY <1>4 DEF Steadfast
  <2>3. \A c \in connected' : c \in connected /\ Flow(c, id) /\ Cached(c, id) /\ Covered(c, id)
    BY <1>4, <1>6, <1>8, <2>1
  <2> QED
    BY <1>0, <1>2, <1>4, <1>5, <2>2, <2>3, SteadfastSigned
<1>10. CASE id = k
  <2>1. /\ Mine(id) /\ Caught(id)
        /\ \A c \in connected : Own(c, id) /\ Spare(c, id) /\ Shielded(c, id)
    BY <1>0 DEF Certified
  <2>2. Mine(id)'
    <3>1. /\ From(made', board[id].owner, id, board[id].data)
          /\ board[id].owner = Primary => From(made', Primary, id, board[id].shown)
      BY <1>0, <1>2, <2>1, FromStays DEF Mine
    <3>2. board[id].clip \in Oversize => board[id].owner = Primary
      BY <2>1 DEF Mine
    <3> QED
      BY <1>4, <1>5, <3>1, <3>2 DEF Mine
  <2>3. Caught(id)'
    BY <1>0, <1>4, <2>1 DEF Caught
  <2>4. Lone(id)'
    BY <1>4, <1>5, <1>6 DEF Lone
  <2>5. ASSUME NEW c \in connected' PROVE Own(c, id)' /\ Spare(c, id)' /\ Shielded(c, id)'
    <3>0. c \in connected
      BY <1>4, <2>5
    <3>1. CASE c # d
      <4>1. Own(c, id)'
        BY <1>0, <1>2, <1>6, <1>8, <2>1, <3>0, <3>1, OwnFlows
      <4> QED
        BY <1>4, <1>6, <3>0, <3>1, <4>1 DEF Spare, Shielded
    <3>2. CASE c = d
      <4>1. mine'[d][id].shown = Len(made')
        <5> DEFINE x == [mine[d][k] EXCEPT !.shown = Len(made'), !.held = FALSE]
        <5>0. mine' = [mine EXCEPT ![d][k].shown = Len(made'), ![d][k].held = FALSE]
          BY <1>1
        <5>1. mine' = [mine EXCEPT ![d][k] = x]
          BY <5>0
        <5>2. mine[d][k] \in Clips
          BY <1>0
        <5>3. x.shown = Len(made')
          BY <5>2 DEF Clips
        <5> HIDE DEF x
        <5> QED
          BY <1>0, <1>10, <5>1, <5>3
      <4>2. Own(c, id)'
        BY <1>2, <1>4, <1>7, <1>10, <3>2, <4>1 DEF Own
      <4>3. Spare(c, id)'
        BY <1>4, <2>1, <3>0, <3>2 DEF Spare, Void
      <4>4. Shielded(c, id)'
        BY <1>5, <3>0 DEF Shielded
      <4> QED
        BY <4>2, <4>3, <4>4
    <3> QED
      BY <3>1, <3>2
  <2> QED
    BY <2>2, <2>3, <2>4, <2>5 DEF Certified
<1> QED
  BY <1>9, <1>10

-----------------------------------------------------------------------------
(* What the server has is its owner's *)

LEMMA InitSigned == ASSUME ClipboardAssumption, Init PROVE Signed
<1> SUFFICES ASSUME NEW id \in Ids PROVE Certified(id)
  BY DEF Signed
<1>0. /\ connected = {} /\ active = Primary /\ queue = <<>> /\ Primary \notin Clients /\ 0 \notin Oversize
      /\ board[id].owner = Primary /\ board[id].clip = 0 /\ board[id].data = 0 /\ board[id].shown = 0
  BY DEF Init, ClipboardAssumption
<1>1. ~Grabber(Primary, id)
  <2>1. \A i : i \notin 1..Len(<<>>)
    OBVIOUS
  <2> QED
    BY <1>0, <2>1 DEF Grabber, Reporting, Report
<1>2. Mine(id) /\ Caught(id) /\ Lone(id)
  BY <1>0, <1>1 DEF Mine, Caught, Lone, From
<1> QED
  BY <1>0, <1>2 DEF Certified

LEMMA SignedStep ==
    ClipboardAssumption /\ Unhurried /\ IInv /\ Delivered /\ Signed /\ [Next]_vars => Signed'
<1> SUFFICES ASSUME ClipboardAssumption, Unhurried, IInv, Delivered, Signed, [Next]_vars PROVE Signed'
  OBVIOUS
<1>1. Typed /\ Typed' /\ IInv' /\ ~unexpected'
  BY IInvStep DEF IInv, ExpectedSender
<1>2. CASE HandleClipboardGrabbed
  <2>1. PICK e : e = Head(queue)
    OBVIOUS
  <2>2. /\ queue # <<>> /\ e.type = "grabbed" /\ (Refused(e) \/ Grabbed(e))
        /\ UNCHANGED <<connected, active, seqNum, primarySeq, clientVars, up, bookVars>>
    BY <1>1, <1>2, <2>1, HandleClipboardGrabbedIs
  <2>3. CASE Refused(e)
    BY <1>1, <2>2, <2>3, RefusedSigned
  <2>4. CASE Grabbed(e)
    BY <1>1, <2>1, <2>2, <2>4, GrabbedSigned
  <2> QED
    BY <2>2, <2>3, <2>4
<1>3. CASE HandleClipboardChanged
  BY <1>1, <1>3, ChangedSigned
<1>4. CASE SendQueued
  BY <1>1, <1>4, SendQueuedSigned
<1>5. ASSUME NEW c \in Clients, ReceiveFromClient(c) PROVE Signed'
  BY <1>1, <1>5, ReceivedSigned
<1>6. ASSUME NEW dst \in Screens, SwitchScreen(dst) PROVE Signed'
  BY <1>1, <1>6, SwitchSigned
<1>7. ASSUME NEW id \in Ids, PrimaryCopies(id) PROVE Signed'
  BY <1>1, <1>7, PrimaryCopiesSigned
<1>8. ASSUME NEW id \in Ids, NEW c \in Clients, ClientCopies(c, id) PROVE Signed'
  BY <1>1, <1>8, CopiesSigned
<1>9. ASSUME NEW c \in Clients, ClientStep(c) PROVE Signed'
  BY <1>1, <1>9, GrabsSigned, SendsSigned, ReceivesSigned, StaleSigned DEF ClientStep
<1>10. ASSUME NEW c \in Clients, Join(c) PROVE Signed'
  BY <1>1, <1>10, JoinSigned
<1>11. ASSUME NEW c \in Clients, Depart(c) PROVE Signed'
  BY <1>1, <1>11, DepartSigned
<1>12. CASE UNCHANGED vars
  BY <1>1, <1>12, IdleSigned
<1> QED
  BY <1>2, <1>3, <1>4, <1>5, <1>6, <1>7, <1>8, <1>9, <1>10, <1>11, <1>12 DEF Next, ServerStep

\* If something is copied only where the cursor is, and not while messages are under
\* way, what the server holds as the contents of a clipboard was copied on the screen
\* that owns it, for any number of clients, connections, switches and copies, of any size:
\* the chunks of an update, which overtake the grabs of others, never get under another name.
THEOREM ContentsOfOwner == Unhurried => (Spec => []ContentsFromOwner)
<1> SUFFICES ASSUME Unhurried PROVE Spec => []ContentsFromOwner
  OBVIOUS
<1>0. Considerate /\ ClipboardAssumption
  BY ClipboardAssumption DEF Unhurried, Considerate
<1>1. Init => IInv /\ Delivered /\ Signed
  BY <1>0, InitIInv, InitDelivers, InitSigned
<1>2. IInv /\ Delivered /\ Signed /\ [Next]_vars => (IInv /\ Delivered /\ Signed)'
  BY <1>0, IInvStep, DeliveredStep, SignedStep
<1>3. Signed => ContentsFromOwner
  BY DEF Signed, Certified, Mine, From, ContentsFromOwner
<1> QED
  BY <1>1, <1>2, <1>3, PTL DEF Spec

-----------------------------------------------------------------------------
(* The last copy of a clipboard, and the screen that it was made on *)

\* Nothing is too large, and no connection is lost.
Patient == Unhurried /\ Oversize = {} /\ MaxDepartures = 0

\* The screen has contents to send, or they are under way.
Bringing(c, id, n) == Updating(clientQueue[c], up[c], queue, c, id, n)
Calling(c, id, n) == Grabbing(up[c], queue, c, id, n)
Pending(c, id) ==
    \/ \E n \in Seqs : Bringing(c, id, n)
    \/ Asks(clientQueue[c], id) \/ (mine[c][id].own /\ Sendable(mine[c][id]))

\* One element of w at most is in X.
Has(w, X) == \E i \in 1..Len(w) : w[i] \in X
Unique(w, X) == \A i, j \in 1..Len(w) : w[i] \in X /\ w[j] \in X => i = j

\* Grabs of the client: requests of its own, messages and reports.
Askings(id) == {e \in Requests : e.type = "grabbed" /\ e.id = id}
Callings(id) == {m \in Messages : m.type = "grab" /\ m.id = id}
Reports(s, id) == {e \in Events : e.type = "grabbed" /\ e.from = s /\ e.id = id /\ ~e.gone}

\* One grab of the client is under way at most, and no contents are before it is sent.
Single(c, id) ==
    /\ Unique(clientQueue[c], Askings(id)) /\ Unique(up[c], Callings(id)) /\ Unique(queue, Reports(c, id))
    /\ Asks(clientQueue[c], id) => \A n \in Seqs : ~Calling(c, id, n) /\ ~Bringing(c, id, n)
    /\ \A n \in Seqs : Rising("grab", up[c], id, n) =>
         \A k \in Seqs : ~Reporting("grabbed", queue, c, id, k)

\* Neither the grab nor the contents are out of date, once they are handled.
Since(c, id, t) == t <= seq[c] /\ \A n \in Seqs : Bringing(c, id, n) => t <= n
Dated(c, id) ==
    /\ Since(c, id, board[id].seq)
    /\ \A n \in Seqs : Calling(c, id, n) => board[id].seq <= n /\ Since(c, id, n)

\* The last of the copies w of the clipboard, 0 if there is none.
Latest(w, id, n) ==
    /\ n \in 0..Len(w) /\ (n # 0 => w[n].id = id)
    /\ \A m \in 1..Len(w) : w[m].id = id => m <= n

\* The screen owns the clipboard, or is about to grab it, and no other is.
Standing(s, id) ==
    /\ board[id].owner = s <=> ~Grabber(s, id)
    /\ \A g \in connected \cup {Primary} : Grabber(g, id) => g = s

\* The screen is sent nothing, and the active one has been sent what the server has,
\* but for contents that are still to be replaced.
Current(s, id, n) ==
    /\ ~board[id].dirty[s]
    /\ board[id].dirty[active] =>
         s # Primary /\ s # active /\ board[id].owner = s /\ board[id].data # n

\* The copy n was made on the primary, or on the client c.
AtHome(id, n) ==
    ~board[id].held /\ board[id].shown = n /\ Unique(queue, Reports(Primary, id))
Ready(c, id, n) ==
    /\ n # 0 /\ mine[c][id].shown = n /\ ~mine[c][id].held
    /\ mine[c][id].own <=> ~Asks(clientQueue[c], id)
    /\ \A x \in Copies : Mails(c, id, x) => x = n
    /\ \A k \in Seqs : Reporting("changed", queue, c, id, k) => board[id].cached[c] = n
    /\ (board[id].owner = c /\ board[id].data = n) \/ Pending(c, id)
    /\ Single(c, id) /\ Dated(c, id)
Unhampered(c, id) == ~Sending(queue, c, id) /\ ~Covering(down[c], id)

\* A client that believes that it owns a clipboard does, or will hear of a grab.
Relinquished(c, id) ==
    mine[c][id].own => board[id].owner = c \/ \E i \in Nat : GrabAt(down[c], id, i)

Holds(s, id, n) ==
    /\ Latest(made, id, n) /\ Standing(s, id) /\ Current(s, id, n)
    /\ IF s = Primary THEN AtHome(id, n) ELSE Ready(s, id, n) /\ Unhampered(s, id)
    /\ \A c \in connected \ {s} : Relinquished(c, id)

\* What a client has sent is not newer than the last copy.
Past(c, id) == mine[c][id].data <= Len(made)

Faithful == \A id \in Ids :
    /\ \E s \in connected \cup {Primary} : \E n \in Nat : Holds(s, id, n)
    /\ \A c \in Clients : Past(c, id)

-----------------------------------------------------------------------------
(* Elements of the queues that are taken off, and put behind *)

LEMMA HasMoved ==
    ASSUME NEW T, NEW q \in Seq(T), NEW p \in Seq(T), NEW n \in {0, 1}, Moved(q, p, n), NEW X,
           \A i \in 1..Len(p) : i + n > Len(q) => p[i] \notin X,
           n = 1 => q = <<>> \/ q[1] \notin X
    PROVE  /\ Has(p, X) <=> Has(q, X)
           /\ Unique(q, X) => Unique(p, X)
<1>0. Len(q) \in Nat /\ Len(p) \in Nat
  OBVIOUS
<1>1. \A i \in 1..Len(p) : p[i] \in X => i + n \in 1..Len(q) /\ p[i] = q[i + n]
  BY <1>0 DEF Moved
<1>2. ASSUME NEW i \in 1..Len(q), q[i] \in X PROVE i - n \in 1..Len(p) /\ p[i - n] = q[i]
  <2>1. q # <<>>
    OBVIOUS
  <2>2. i - n \in Nat /\ i - n > 0
    BY <1>0, <1>2, <2>1
  <2> QED
    BY <1>0, <2>2 DEF Moved
<1>3. Has(p, X) <=> Has(q, X)
  <2>1. Has(p, X) => Has(q, X)
    BY <1>1 DEF Has
  <2>2. ASSUME NEW i \in 1..Len(q), q[i] \in X PROVE Has(p, X)
    <3>1. i - n \in 1..Len(p) /\ p[i - n] \in X
      BY <1>2, <2>2
    <3> QED
      BY <3>1 DEF Has
  <2> QED
    BY <2>1, <2>2 DEF Has
<1>4. ASSUME Unique(q, X) PROVE Unique(p, X)
  <2>1. ASSUME NEW i \in 1..Len(p), NEW j \in 1..Len(p), p[i] \in X, p[j] \in X PROVE i = j
    <3>1. /\ i + n \in 1..Len(q) /\ q[i + n] \in X
          /\ j + n \in 1..Len(q) /\ q[j + n] \in X
      BY <1>1, <2>1
    <3>2. i + n = j + n
      BY <1>4, <3>1 DEF Unique
    <3> QED
      BY <1>0, <3>2
  <2> QED
    BY <2>1 DEF Unique
<1> QED
  BY <1>3, <1>4

LEMMA HasTail ==
    ASSUME NEW T, NEW q \in Seq(T), q # <<>>, NEW p, p = Tail(q), NEW X
    PROVE  /\ Has(q, X) <=> Has(p, X) \/ q[1] \in X
           /\ Unique(q, X) => Unique(p, X) /\ (q[1] \in X => ~Has(p, X))
<1>1. /\ Len(p) = Len(q) - 1 /\ Len(q) \in Nat /\ Len(q) > 0
      /\ \A i \in 1..Len(p) : p[i] = q[i + 1] /\ i + 1 \in 1..Len(q) /\ i + 1 # 1
      /\ \A i \in 1..Len(q) : i # 1 => i - 1 \in 1..Len(p) /\ p[i - 1] = q[i]
  OBVIOUS
<1>2. 1 \in 1..Len(q)
  BY <1>1
<1>3. Has(p, X) \/ q[1] \in X => Has(q, X)
  BY <1>1, <1>2 DEF Has
<1>4. Has(q, X) => Has(p, X) \/ q[1] \in X
  BY <1>1, <1>2 DEF Has
<1>5. ASSUME Unique(q, X) PROVE Unique(p, X) /\ (q[1] \in X => ~Has(p, X))
  <2>1. ASSUME NEW i \in 1..Len(p), NEW j \in 1..Len(p), p[i] \in X, p[j] \in X PROVE i = j
    <3>1. /\ i + 1 \in 1..Len(q) /\ q[i + 1] \in X
          /\ j + 1 \in 1..Len(q) /\ q[j + 1] \in X
      BY <1>1, <2>1
    <3>2. i + 1 = j + 1
      BY <1>5, <3>1 DEF Unique
    <3> QED
      BY <1>1, <3>2
  <2>2. ASSUME q[1] \in X, NEW i \in 1..Len(p), p[i] \in X PROVE FALSE
    BY <1>1, <1>2, <1>5, <2>2 DEF Unique
  <2> QED
    BY <2>1, <2>2 DEF Unique, Has
<1> QED
  BY <1>3, <1>4, <1>5

LEMMA HasAppend ==
    ASSUME NEW T, NEW q \in Seq(T), NEW x \in T, NEW p, p = Append(q, x), NEW X
    PROVE  /\ Has(p, X) <=> Has(q, X) \/ x \in X
           /\ Unique(q, X) /\ (x \in X => ~Has(q, X)) => Unique(p, X)
<1>1. /\ Len(p) = Len(q) + 1 /\ Len(q) \in Nat /\ p[Len(q) + 1] = x
      /\ \A i \in 1..Len(q) : p[i] = q[i] /\ i \in 1..Len(p)
      /\ \A i \in 1..Len(p) : i \in 1..Len(q) \/ i = Len(q) + 1
      /\ Len(q) + 1 \in 1..Len(p)
  OBVIOUS
<1>2. Has(p, X) <=> Has(q, X) \/ x \in X
  BY <1>1 DEF Has
<1>3. ASSUME Unique(q, X), x \in X => ~Has(q, X) PROVE Unique(p, X)
  <2>1. ASSUME NEW i \in 1..Len(p), NEW j \in 1..Len(p), p[i] \in X, p[j] \in X PROVE i = j
    BY <1>1, <1>3, <2>1 DEF Unique, Has
  <2> QED
    BY <2>1 DEF Unique
<1> QED
  BY <1>2, <1>3

LEMMA HasNone == ASSUME NEW X PROVE ~Has(<<>>, X) /\ Unique(<<>>, X)
<1>1. \A i : i \notin 1..Len(<<>>)
  OBVIOUS
<1> QED
  BY <1>1 DEF Has, Unique

LEMMA HasPart ==
    ASSUME NEW q, NEW X, NEW Y, X \subseteq Y
    PROVE  (Has(q, X) => Has(q, Y)) /\ (Unique(q, Y) => Unique(q, X))
  BY DEF Has, Unique

\* The requests, messages and reports that the invariant speaks of, as sets of elements.
PostsAt(id, N) == {e \in Requests : e.type = "send" /\ e.id = id /\ e.seq \in N}
PostsOf(id, x) == {e \in Requests : e.type = "send" /\ e.id = id /\ e.value = x}
RisesAt(type, id, N) == {m \in Messages : m.type = type /\ m.id = id /\ m.seq \in N}
RisesOf(id, x) == {m \in Messages : m.type = "clip" /\ m.id = id /\ m.value = x}
ReportsAt(type, c, id, N) ==
    {e \in Events : e.type = type /\ e.from = c /\ e.id = id /\ ~e.gone /\ e.seq \in N}

LEMMA HasRequests ==
    ASSUME NEW r \in Seq(Requests), NEW id, NEW k
    PROVE  /\ Asks(r, id) <=> Has(r, Askings(id))
           /\ Posting(r, id, k) <=> Has(r, PostsAt(id, {k}))
           /\ Posts(r, id, k) <=> Has(r, PostsOf(id, k))
<1>1. \A i \in 1..Len(r) : r[i] \in Requests /\ i \in Nat
  OBVIOUS
<1>2. Asks(r, id) <=> Has(r, Askings(id))
  BY <1>1 DEF Asks, Asked, Has, Askings
<1>3. Posting(r, id, k) <=> Has(r, PostsAt(id, {k}))
  BY <1>1 DEF Posting, Posted, Has, PostsAt
<1>4. Posts(r, id, k) <=> Has(r, PostsOf(id, k))
  BY <1>1 DEF Posts, Posted, Has, PostsOf
<1> QED
  BY <1>2, <1>3, <1>4

LEMMA HasMessages ==
    ASSUME NEW u \in Seq(Messages), NEW id, NEW k
    PROVE  /\ \A type : Rising(type, u, id, k) <=> Has(u, RisesAt(type, id, {k}))
           /\ Uploads(u, id, k) <=> Has(u, RisesOf(id, k))
<1>1. \A i \in 1..Len(u) : u[i] \in Messages /\ i \in Nat
  OBVIOUS
<1>2. ASSUME NEW type PROVE Rising(type, u, id, k) <=> Has(u, RisesAt(type, id, {k}))
  BY <1>1 DEF Rising, Upward, Has, RisesAt
<1>3. Uploads(u, id, k) <=> Has(u, RisesOf(id, k))
  BY <1>1 DEF Uploads, Upward, Has, RisesOf
<1> QED
  BY <1>2, <1>3

LEMMA HasReports ==
    ASSUME NEW q \in Seq(Events), NEW c, NEW id, NEW type, NEW k
    PROVE  Reporting(type, q, c, id, k) <=> Has(q, ReportsAt(type, c, id, {k}))
<1>1. \A i \in 1..Len(q) : q[i] \in Events /\ i \in Nat
  OBVIOUS
<1> QED
  BY <1>1 DEF Reporting, Report, Has, ReportsAt

\* A grab is under way, with some number.
LEMMA HasSome ==
    ASSUME ClipboardAssumption
    PROVE  /\ \A u \in Seq(Messages) : \A id :
                (\E n \in Seqs : Rising("grab", u, id, n)) <=> Has(u, Callings(id))
           /\ \A q \in Seq(Events) : \A s, id :
                (\E n \in Seqs : Reporting("grabbed", q, s, id, n)) <=> Has(q, Reports(s, id))
<1>1. ASSUME NEW u \in Seq(Messages), NEW id
      PROVE  (\E n \in Seqs : Rising("grab", u, id, n)) <=> Has(u, Callings(id))
  <2>1. \A i \in 1..Len(u) : u[i] \in Messages /\ i \in Nat
    OBVIOUS
  <2>2. \A m \in Messages : m.type = "grab" => m.seq \in Seqs
    BY MessageIs
  <2>3. (\E n \in Seqs : Rising("grab", u, id, n)) => Has(u, Callings(id))
    BY <2>1 DEF Rising, Upward, Has, Callings
  <2>4. ASSUME NEW i \in 1..Len(u), u[i] \in Callings(id)
        PROVE  \E n \in Seqs : Rising("grab", u, id, n)
    <3>1. i \in Nat /\ Upward("grab", u, id, i) /\ u[i].seq \in Seqs
      BY <2>1, <2>2, <2>4 DEF Callings, Upward
    <3> QED
      BY <3>1 DEF Rising
  <2> QED
    BY <2>3, <2>4 DEF Has
<1>2. ASSUME NEW q \in Seq(Events), NEW s, NEW id
      PROVE  (\E n \in Seqs : Reporting("grabbed", q, s, id, n)) <=> Has(q, Reports(s, id))
  <2>1. \A i \in 1..Len(q) : q[i] \in Events /\ i \in Nat
    OBVIOUS
  <2>2. \A e \in Events : e.type = "grabbed" => e.seq \in Seqs
    BY GrabbedEvent
  <2>3. (\E n \in Seqs : Reporting("grabbed", q, s, id, n)) => Has(q, Reports(s, id))
    BY <2>1 DEF Reporting, Report, Has, Reports
  <2>4. ASSUME NEW i \in 1..Len(q), q[i] \in Reports(s, id)
        PROVE  \E n \in Seqs : Reporting("grabbed", q, s, id, n)
    <3>1. i \in Nat /\ Report("grabbed", q, s, id, i) /\ q[i].seq \in Seqs
      BY <2>1, <2>2, <2>4 DEF Reports, Report
    <3> QED
      BY <3>1 DEF Reporting
  <2> QED
    BY <2>3, <2>4 DEF Has
<1> QED
  BY <1>1, <1>2

-----------------------------------------------------------------------------
(* What a step leaves of what a client has under way *)

\* What the client has under way goes on: nothing is new but the grab that it has been
\* asked for, and the contents that it has; and there is still something if there was.
Works(c, id) ==
    /\ seq[c] <= seq'[c] /\ (Asks(clientQueue'[c], id) => Asks(clientQueue[c], id))
    /\ \A k \in Seqs : Calling(c, id, k)' =>
         \/ Calling(c, id, k)
         \/ k = seq[c] /\ Asks(clientQueue[c], id) /\ ~Asks(clientQueue'[c], id)
    /\ \A k \in Seqs : Bringing(c, id, k)' =>
         Bringing(c, id, k) \/ (k = seq[c] /\ ~Asks(clientQueue'[c], id))
    /\ Pending(c, id) => Pending(c, id)'
    /\ \A x \in Copies : Mails(c, id, x)' => Mails(c, id, x) \/ x = mine[c][id].shown
    /\ \A k \in Seqs : Reporting("changed", queue', c, id, k) =>
         \/ Reporting("changed", queue, c, id, k) /\ board'[id].cached[c] = board[id].cached[c]
         \/ Mails(c, id, board'[id].cached[c])
    /\ mine'[c][id].shown = mine[c][id].shown /\ mine'[c][id].held = mine[c][id].held
    /\ mine'[c][id].own <=> ~Asks(clientQueue'[c], id)
    /\ Grabber(c, id)' <=> Grabber(c, id)
    /\ Single(c, id)'

LEMMA DatedWorks ==
    ASSUME ClipboardAssumption, Typed, Typed', NEW c \in connected, NEW id \in Ids,
           Single(c, id), Dated(c, id), Works(c, id), board'[id].seq = board[id].seq
    PROVE  Dated(c, id)'
<1>1. /\ seq[c] \in Nat /\ seq'[c] \in Nat /\ board[id].seq \in Nat /\ Seqs \subseteq Nat
      /\ seq[c] \in Seqs /\ seq[c] <= seq'[c] /\ board'[id].seq = board[id].seq
  <2>1. seq[c] \in Seqs /\ seq'[c] \in Seqs /\ board[id].seq \in Seqs
    <3>1. c \in Clients /\ seq \in [Clients -> Seqs] /\ board \in [Ids -> Boards]
      BY DEF Typed, TypeOK
    <3>2. seq' \in [Clients -> Seqs]
      BY DEF Typed, TypeOK
    <3> QED
      BY <3>1, <3>2 DEF Boards
  <2> QED
    BY <2>1, Numbers DEF Works
<1>2. /\ Since(c, id, board[id].seq)
      /\ \A n \in Seqs : Calling(c, id, n) => board[id].seq <= n /\ Since(c, id, n)
  BY DEF Dated
<1>3. ASSUME NEW t \in Nat, Since(c, id, t) PROVE Since(c, id, t)'
  <2>1. t <= seq[c] /\ \A n \in Seqs : Bringing(c, id, n) => t <= n
    BY <1>3 DEF Since
  <2>2. \A n \in Seqs : Bringing(c, id, n)' => Bringing(c, id, n) \/ n = seq[c]
    BY DEF Works
  <2>3. t <= seq'[c]
    BY <1>1, <2>1
  <2> QED
    BY <2>1, <2>2, <2>3 DEF Since
<1>b. PICK b \in Nat : b = board[id].seq
  BY <1>1
<1>4. Since(c, id, board[id].seq)' /\ board[id].seq <= seq[c]
  <2>1. Since(c, id, b)
    BY <1>2, <1>b DEF Since
  <2>2. Since(c, id, b)'
    BY <1>3, <2>1
  <2> QED
    BY <1>1, <1>b, <2>1, <2>2 DEF Since
<1>5. ASSUME NEW n \in Seqs, Calling(c, id, n)'
      PROVE  board'[id].seq <= n /\ Since(c, id, n)'
  <2>1. CASE Calling(c, id, n)
    BY <1>1, <1>2, <1>3, <2>1
  <2>2. CASE n = seq[c] /\ Asks(clientQueue[c], id)
    <3>1. \A k \in Seqs : ~Bringing(c, id, k)
      BY <2>2 DEF Single
    <3>2. Since(c, id, n)
      BY <1>1, <2>2, <3>1 DEF Since
    <3> QED
      BY <1>1, <1>2, <1>3, <1>4, <2>2, <3>2
  <2> QED
    BY <1>5, <2>1, <2>2 DEF Works
<1> QED
  BY <1>4, <1>5 DEF Dated

LEMMA ReadyWorks ==
    ASSUME ClipboardAssumption, Typed, Typed', NEW c \in connected, NEW id \in Ids, NEW n,
           Ready(c, id, n), Works(c, id), Same(id), board'[id].data = board[id].data
    PROVE  Ready(c, id, n)'
<1>1. Dated(c, id)' /\ Single(c, id)'
  BY DatedWorks DEF Ready, Same, Works
<1>2. board'[id].cached[c] \in Copies
  <2>1. board' \in [Ids -> Boards] /\ c \in Clients
    BY DEF Typed, TypeOK
  <2> QED
    BY <2>1 DEF Boards
<1>3. /\ n # 0 /\ mine'[c][id].shown = n /\ ~mine'[c][id].held
      /\ mine'[c][id].own <=> ~Asks(clientQueue'[c], id)
  BY DEF Ready, Works
<1>4. \A x \in Copies : Mails(c, id, x)' => x = n
  BY DEF Ready, Works
<1>5. ASSUME NEW k \in Seqs, Reporting("changed", queue', c, id, k)
      PROVE  board'[id].cached[c] = n
  BY <1>2, <1>5 DEF Ready, Works
<1>6. (board'[id].owner = c /\ board'[id].data = n) \/ Pending(c, id)'
  BY DEF Ready, Works, Same
<1> QED
  BY <1>1, <1>3, <1>4, <1>5, <1>6 DEF Ready

\* The reports of s for the clipboard stay as they are.
Undisturbed(s, id) ==
    /\ \A type \in Kinds : \A k \in Seqs :
         Reporting(type, queue', s, id, k) <=> Reporting(type, queue, s, id, k)
    /\ Unique(queue, Reports(s, id)) => Unique(queue', Reports(s, id))

\* An event is a report of s for the clipboard.
Reported(e, s, id) == e.type \in Kinds /\ e.from = s /\ e.id = id /\ ~e.gone

LEMMA UndisturbedMoved ==
    ASSUME NEW s, NEW id, queue \in Seq(Events), queue' \in Seq(Events), NEW n \in {0, 1},
           Moved(queue, queue', n),
           \A i \in 1..Len(queue') : i + n > Len(queue) => ~Reported(queue'[i], s, id),
           n = 1 => queue = <<>> \/ ~Reported(queue[1], s, id)
    PROVE  Undisturbed(s, id)
<1>1. \A X : (\A e \in X : Reported(e, s, id)) =>
        (Has(queue', X) <=> Has(queue, X)) /\ (Unique(queue, X) => Unique(queue', X))
  BY HasMoved
<1>2. ASSUME NEW type \in Kinds, NEW k \in Seqs
      PROVE  Reporting(type, queue', s, id, k) <=> Reporting(type, queue, s, id, k)
  <2>1. \A e \in ReportsAt(type, s, id, {k}) : Reported(e, s, id)
    BY DEF ReportsAt, Reported
  <2> QED
    BY <1>1, <2>1, HasReports
<1>3. \A e \in Reports(s, id) : Reported(e, s, id)
  BY DEF Reports, Reported, Kinds
<1> QED
  BY <1>1, <1>2, <1>3 DEF Undisturbed

LEMMA UndisturbedSame == ASSUME NEW s, NEW id, queue' = queue PROVE Undisturbed(s, id)
  BY DEF Undisturbed

LEMMA UndisturbedTail ==
    ASSUME NEW s, NEW id, queue \in Seq(Events), queue # <<>>, queue' = Tail(queue), ~Reported(queue[1], s, id)
    PROVE  Undisturbed(s, id)
<1>1. /\ queue' \in Seq(Events) /\ Moved(queue, queue', 1)
      /\ Len(queue') = Len(queue) - 1 /\ Len(queue) \in Nat
  BY MovedTail
<1>2. \A i \in 1..Len(queue') : ~(i + 1 > Len(queue))
  BY <1>1
<1> QED
  BY <1>1, <1>2, UndisturbedMoved

LEMMA UndisturbedAppend ==
    ASSUME NEW s, NEW id, queue \in Seq(Events), NEW e \in Events, queue' = Append(queue, e), ~Reported(e, s, id)
    PROVE  Undisturbed(s, id)
<1>1. /\ queue' \in Seq(Events) /\ Moved(queue, queue', 0) /\ Len(queue) \in Nat
      /\ Len(queue') = Len(queue) + 1 /\ queue'[Len(queue) + 1] = e
  BY MovedAppend
<1>2. \A i \in 1..Len(queue') : i + 0 > Len(queue) => i = Len(queue) + 1
  BY <1>1
<1> QED
  BY <1>1, <1>2, UndisturbedMoved

\* The requests w, or the messages v, are r, or u, but for those of other clipboards.
AsideR(r, w, id) ==
    /\ Asks(w, id) <=> Asks(r, id)
    /\ \A k : (Posting(w, id, k) <=> Posting(r, id, k)) /\ (Posts(w, id, k) <=> Posts(r, id, k))
    /\ Unique(r, Askings(id)) => Unique(w, Askings(id))
AsideU(u, v, id) ==
    /\ \A k : /\ Rising("grab", v, id, k) <=> Rising("grab", u, id, k)
              /\ Rising("clip", v, id, k) <=> Rising("clip", u, id, k)
              /\ Uploads(v, id, k) <=> Uploads(u, id, k)
    /\ Unique(u, Callings(id)) => Unique(v, Callings(id))

LEMMA AsideRMoved ==
    ASSUME NEW r \in Seq(Requests), NEW w \in Seq(Requests), NEW n \in {0, 1}, Moved(r, w, n), NEW id,
           \A i \in 1..Len(w) : i + n > Len(r) => w[i].id # id,
           n = 1 => r = <<>> \/ r[1].id # id
    PROVE  AsideR(r, w, id)
<1>1. \A X : (\A e \in X : e.id = id) =>
        (Has(w, X) <=> Has(r, X)) /\ (Unique(r, X) => Unique(w, X))
  BY HasMoved
<1>2. \A k : /\ \A e \in Askings(id) : e.id = id
             /\ \A e \in PostsAt(id, {k}) : e.id = id
             /\ \A e \in PostsOf(id, k) : e.id = id
  BY DEF Askings, PostsAt, PostsOf
<1>3. Asks(w, id) <=> Asks(r, id)
  BY <1>1, <1>2, HasRequests
<1>4. ASSUME NEW k
      PROVE  (Posting(w, id, k) <=> Posting(r, id, k)) /\ (Posts(w, id, k) <=> Posts(r, id, k))
  BY <1>1, <1>2, HasRequests
<1> QED
  BY <1>1, <1>2, <1>3, <1>4 DEF AsideR

LEMMA AsideUMoved ==
    ASSUME NEW u \in Seq(Messages), NEW v \in Seq(Messages), NEW n \in {0, 1}, Moved(u, v, n), NEW id,
           \A i \in 1..Len(v) : i + n > Len(u) => v[i].id # id,
           n = 1 => u = <<>> \/ u[1].id # id
    PROVE  AsideU(u, v, id)
<1>1. \A X : (\A e \in X : e.id = id) =>
        (Has(v, X) <=> Has(u, X)) /\ (Unique(u, X) => Unique(v, X))
  BY HasMoved
<1>2. \A k : /\ \A e \in Callings(id) : e.id = id
             /\ \A e \in RisesAt("grab", id, {k}) : e.id = id
             /\ \A e \in RisesAt("clip", id, {k}) : e.id = id
             /\ \A e \in RisesOf(id, k) : e.id = id
  BY DEF Callings, RisesAt, RisesOf
<1>3. ASSUME NEW k
      PROVE  /\ Rising("grab", v, id, k) <=> Rising("grab", u, id, k)
             /\ Rising("clip", v, id, k) <=> Rising("clip", u, id, k)
             /\ Uploads(v, id, k) <=> Uploads(u, id, k)
  BY <1>1, <1>2, HasMessages
<1> QED
  BY <1>1, <1>2, <1>3 DEF AsideU

LEMMA AsideSame == ASSUME NEW r, NEW id PROVE AsideR(r, r, id) /\ AsideU(r, r, id)
  BY DEF AsideR, AsideU

LEMMA AsideTail ==
    ASSUME NEW id
    PROVE  /\ \A r \in Seq(Requests) : r # <<>> /\ r[1].id # id => AsideR(r, Tail(r), id)
           /\ \A u \in Seq(Messages) : u # <<>> /\ u[1].id # id => AsideU(u, Tail(u), id)
<1>1. ASSUME NEW r \in Seq(Requests), r # <<>>, r[1].id # id PROVE AsideR(r, Tail(r), id)
  <2>1. /\ Tail(r) \in Seq(Requests) /\ Moved(r, Tail(r), 1)
        /\ Len(Tail(r)) = Len(r) - 1 /\ Len(r) \in Nat
    BY <1>1, MovedTail
  <2>2. \A i \in 1..Len(Tail(r)) : ~(i + 1 > Len(r))
    BY <2>1
  <2> QED
    BY <1>1, <2>1, <2>2, AsideRMoved
<1>2. ASSUME NEW u \in Seq(Messages), u # <<>>, u[1].id # id PROVE AsideU(u, Tail(u), id)
  <2>1. /\ Tail(u) \in Seq(Messages) /\ Moved(u, Tail(u), 1)
        /\ Len(Tail(u)) = Len(u) - 1 /\ Len(u) \in Nat
    BY <1>2, MovedTail
  <2>2. \A i \in 1..Len(Tail(u)) : ~(i + 1 > Len(u))
    BY <2>1
  <2> QED
    BY <1>2, <2>1, <2>2, AsideUMoved
<1> QED
  BY <1>1, <1>2

LEMMA AsideAppend ==
    ASSUME NEW u \in Seq(Messages), NEW x \in Messages, NEW v, v = Append(u, x), NEW id, x.id # id
    PROVE  AsideU(u, v, id)
<1>1. /\ v \in Seq(Messages) /\ Moved(u, v, 0) /\ Len(u) \in Nat
      /\ Len(v) = Len(u) + 1 /\ v[Len(u) + 1] = x
  BY MovedAppend
<1> DEFINE n == 0
<1>2. n \in {0, 1} /\ n # 1 /\ Moved(u, v, n) /\ \A i \in 1..Len(v) : i + n > Len(u) => v[i].id # id
  BY <1>1
<1> HIDE DEF n
<1> QED
  BY <1>1, <1>2, AsideUMoved

\* What is said of a screen that is about to grab the clipboard stays the same.
LEMMA GrabberAside ==
    ASSUME NEW c, NEW id, Undisturbed(c, id),
           AsideR(clientQueue[c], clientQueue'[c], id), AsideU(up[c], up'[c], id)
    PROVE  Grabber(c, id)' <=> Grabber(c, id)
<1>1. "grabbed" \in Kinds
  BY DEF Kinds
<1> QED
  BY <1>1 DEF Grabber, Undisturbed, AsideR, AsideU

LEMMA AsideWorks ==
    ASSUME ClipboardAssumption, Typed, Typed', NEW c \in Clients, NEW id \in Ids, Undisturbed(c, id),
           AsideR(clientQueue[c], clientQueue'[c], id), AsideU(up[c], up'[c], id),
           seq[c] <= seq'[c], mine'[c][id] = mine[c][id],
           board'[id].cached[c] = board[id].cached[c],
           mine[c][id].own <=> ~Asks(clientQueue[c], id), Single(c, id)
    PROVE  Works(c, id)
<1>1. "grabbed" \in Kinds /\ "changed" \in Kinds
  BY DEF Kinds
<1>2. \A k \in Seqs : /\ Rising("grab", up'[c], id, k) <=> Rising("grab", up[c], id, k)
                      /\ Reporting("grabbed", queue', c, id, k) <=> Reporting("grabbed", queue, c, id, k)
                      /\ Reporting("changed", queue', c, id, k) <=> Reporting("changed", queue, c, id, k)
  BY <1>1 DEF AsideU, Undisturbed
<1>3. \A k \in Seqs : /\ Calling(c, id, k)' <=> Calling(c, id, k)
                      /\ Bringing(c, id, k)' <=> Bringing(c, id, k)
  BY <1>2 DEF AsideR, AsideU, Calling, Bringing, Grabbing, Updating
<1>4. Asks(clientQueue'[c], id) <=> Asks(clientQueue[c], id)
  BY DEF AsideR
<1>5. Pending(c, id) => Pending(c, id)'
  BY <1>3, <1>4 DEF Pending
<1>6. \A x \in Copies : Mails(c, id, x)' => Mails(c, id, x)
  BY DEF Mails, AsideR, AsideU
<1>7. Single(c, id)'
  <2>1. /\ Unique(clientQueue'[c], Askings(id)) /\ Unique(up'[c], Callings(id))
        /\ Unique(queue', Reports(c, id))
    BY DEF Single, AsideR, AsideU, Undisturbed
  <2>2. Asks(clientQueue'[c], id) => \A n \in Seqs : ~Calling(c, id, n)' /\ ~Bringing(c, id, n)'
    BY <1>3, <1>4 DEF Single
  <2>3. \A n \in Seqs : Rising("grab", up'[c], id, n) =>
          \A k \in Seqs : ~Reporting("grabbed", queue', c, id, k)
    BY <1>2 DEF Single
  <2> QED
    BY <2>1, <2>2, <2>3 DEF Single
<1>8. Grabber(c, id)' <=> Grabber(c, id)
  BY GrabberAside
<1> QED
  BY <1>2, <1>3, <1>4, <1>5, <1>6, <1>7, <1>8 DEF Works

\* Nothing is heard of a client where nothing happens.
LEMMA StillWorks ==
    ASSUME ClipboardAssumption, Typed, Typed', NEW c \in Clients, NEW id \in Ids, Undisturbed(c, id), Still(c),
           board'[id].cached[c] = board[id].cached[c], NEW n, Ready(c, id, n)
    PROVE  Works(c, id)
<1>1. /\ seq'[c] = seq[c] /\ mine'[c] = mine[c] /\ clientQueue'[c] = clientQueue[c] /\ up'[c] = up[c]
  BY DEF Still
<1>2. seq[c] \in Nat
  <2>1. seq[c] \in Seqs
    BY DEF Typed, TypeOK
  <2> QED
    BY <2>1, Numbers
<1>3. AsideR(clientQueue[c], clientQueue'[c], id) /\ AsideU(up[c], up'[c], id)
  BY <1>1, AsideSame
<1>4. seq[c] <= seq'[c]
  BY <1>1, <1>2
<1> QED
  BY <1>1, <1>3, <1>4, AsideWorks DEF Ready

LEMMA UnhamperedDrawn ==
    ASSUME NEW c, NEW id, Unhampered(c, id),
           NEW S, Drawn(queue, queue', S), \A e \in S : ~(e.type = "send" /\ e.to = c /\ e.id = id),
           NEW R, Drawn(down[c], down'[c], R), \A m \in R : ~Lays(m, id)
    PROVE  Unhampered(c, id)'
<1>1. ASSUME NEW i \in Nat, Bound(queue', c, id, i) PROVE FALSE
  <2>1. Feeds(queue', c, id, queue'[i].value)
    BY <1>1 DEF Feeds
  <2>2. Feeds(queue, c, id, queue'[i].value)
    BY <2>1, DrawnFeed
  <2> QED
    BY <2>2 DEF Feeds, Unhampered, Sending
<1>2. ASSUME NEW i \in Nat, Over(down'[c], id, i) PROVE FALSE
  <2>1. Covers(down'[c], id, Value(down'[c][i]))
    BY <1>2 DEF Covers
  <2>2. Covers(down[c], id, Value(down'[c][i]))
    BY <2>1, DrawnCover
  <2> QED
    BY <2>2 DEF Covers, Unhampered, Covering
<1> QED
  BY <1>1, <1>2 DEF Unhampered, Sending, Covering

LEMMA RelinquishedStays ==
    ASSUME Typed, NEW c \in Clients, NEW id, Relinquished(c, id),
           board'[id].owner = board[id].owner, mine'[c][id].own => mine[c][id].own,
           down'[c] = down[c] \/ \E x \in Messages : down'[c] = Append(down[c], x)
    PROVE  Relinquished(c, id)'
<1>1. down[c] \in Seq(Messages)
  BY DEF Typed, TypeOK
<1>2. ASSUME NEW i \in Nat, GrabAt(down[c], id, i) PROVE GrabAt(down'[c], id, i)
  BY <1>1, <1>2, GrabGrown
<1> QED
  BY <1>2 DEF Relinquished

LEMMA PrimaryGrabber ==
    ASSUME ClipboardAssumption, NEW id, Undisturbed(Primary, id)
    PROVE  Grabber(Primary, id)' <=> Grabber(Primary, id)
<1>1. Primary \notin Clients /\ "grabbed" \in Kinds
  BY DEF Kinds, ClipboardAssumption
<1> QED
  BY <1>1 DEF Grabber, Undisturbed

\* A step that leaves what the server has of the clipboard, and who is active.
Level(id) ==
    /\ board'[id].owner = board[id].owner /\ board'[id].seq = board[id].seq
    /\ board'[id].data = board[id].data /\ board'[id].dirty = board[id].dirty
    /\ board'[id].shown = board[id].shown /\ board'[id].held = board[id].held

\* Of the screens only s goes on with what it has under way.
Onward(s, id) ==
    /\ connected' = connected /\ Undisturbed(Primary, id)
    /\ s # Primary => Works(s, id) /\ Unhampered(s, id)'
    /\ \A c \in connected \ {s} : (Grabber(c, id)' => Grabber(c, id)) /\ Relinquished(c, id)'

LEMMA OnwardStanding ==
    ASSUME ClipboardAssumption, NEW s \in connected \cup {Primary}, NEW id, Standing(s, id), Onward(s, id),
           board'[id].owner = board[id].owner
    PROVE  Standing(s, id)'
<1>1. Grabber(Primary, id)' <=> Grabber(Primary, id)
  BY PrimaryGrabber DEF Onward
<1>2. Grabber(s, id)' <=> Grabber(s, id)
  BY <1>1 DEF Onward, Works
<1>3. \A g \in connected \cup {Primary} : Grabber(g, id)' => Grabber(g, id)
  BY <1>1, <1>2 DEF Onward
<1> QED
  BY <1>2, <1>3 DEF Standing, Onward

LEMMA OnwardHolds ==
    ASSUME ClipboardAssumption, Typed, Typed', NEW s \in connected \cup {Primary}, NEW id \in Ids, NEW n,
           Holds(s, id, n), Onward(s, id), Same(id), Latest(made', id, n), Current(s, id, n)',
           IF s = Primary THEN ~board'[id].held /\ board'[id].shown = n
           ELSE board'[id].data = board[id].data
    PROVE  Holds(s, id, n)'
<1>1. Standing(s, id)'
  BY OnwardStanding DEF Holds, Same
<1>2. CASE s = Primary
  <2>1. AtHome(id, n)'
    BY <1>2 DEF Holds, AtHome, Onward, Undisturbed
  <2> QED
    BY <1>1, <1>2, <2>1 DEF Holds, Onward
<1>3. CASE s # Primary
  <2>1. s \in connected /\ Ready(s, id, n) /\ Works(s, id)
    BY <1>3 DEF Holds, Onward
  <2>2. Ready(s, id, n)'
    BY <1>3, <2>1, ReadyWorks
  <2> QED
    BY <1>1, <1>3, <2>2 DEF Holds, Onward
<1> QED
  BY <1>2, <1>3

LEMMA LevelHolds ==
    ASSUME ClipboardAssumption, Typed, Typed', NEW s \in connected \cup {Primary}, NEW id \in Ids, NEW n,
           Holds(s, id, n), Onward(s, id), Level(id), Latest(made', id, n), active' = active
    PROVE  Holds(s, id, n)'
<1>1. Current(s, id, n)'
  BY DEF Current, Level, Holds
<1>2. s = Primary => ~board'[id].held /\ board'[id].shown = n
  BY DEF Holds, AtHome, Level
<1> QED
  BY <1>1, <1>2, OnwardHolds DEF Level, Same

-----------------------------------------------------------------------------
(* The handlers of the server, for a clipboard that they do not change *)

\* What client d does, if it is one of those that are connected, is its own affair.
LEMMA OthersOnward ==
    ASSUME ClipboardAssumption, Typed, Typed', NEW s \in connected \cup {Primary}, NEW id \in Ids, NEW n,
           Holds(s, id, n), connected' = connected, board'[id].owner = board[id].owner,
           NEW d, d # Primary, Undisturbed(Primary, id),
           \A c \in connected \ {d} : /\ Still(c) /\ Undisturbed(c, id)
                                      /\ down'[c] = down[c] \/ \E x \in Messages : down'[c] = Append(down[c], x),
           s \notin {d, Primary} => board'[id].cached[s] = board[id].cached[s] /\ Unhampered(s, id)',
           d \in connected =>
             IF d = s THEN Works(s, id) /\ Unhampered(s, id)'
             ELSE (Grabber(d, id)' => Grabber(d, id)) /\ Relinquished(d, id)'
    PROVE  Onward(s, id)
<1>0. connected \subseteq Clients
  BY DEF Typed, TypeOK
<1>1. ASSUME s # Primary PROVE Works(s, id) /\ Unhampered(s, id)'
  <2>1. s \in connected /\ s \in Clients /\ Ready(s, id, n)
    BY <1>0, <1>1 DEF Holds
  <2>2. CASE s # d
    BY <1>1, <2>1, <2>2, StillWorks
  <2> QED
    BY <2>1, <2>2
<1>2. ASSUME NEW c \in connected \ {s}
      PROVE  (Grabber(c, id)' => Grabber(c, id)) /\ Relinquished(c, id)'
  <2>1. CASE c # d
    <3>1. /\ clientQueue'[c] = clientQueue[c] /\ up'[c] = up[c] /\ mine'[c] = mine[c]
      BY <2>1 DEF Still
    <3>2. AsideR(clientQueue[c], clientQueue'[c], id) /\ AsideU(up[c], up'[c], id)
      BY <3>1, AsideSame
    <3>3. Grabber(c, id)' => Grabber(c, id)
      BY <2>1, <3>2, GrabberAside
    <3>4. Relinquished(c, id)'
      BY <1>0, <2>1, <3>1, RelinquishedStays DEF Holds
    <3> QED
      BY <3>3, <3>4
  <2> QED
    BY <2>1
<1> QED
  BY <1>1, <1>2 DEF Onward

\* The server takes an event off its queue, or leaves it, and sends at most messages
\* that are not about the clipboard.
LEMMA ServerHolds ==
    ASSUME ClipboardAssumption, Typed, Typed', NEW s \in connected \cup {Primary}, NEW id \in Ids, NEW n,
           Holds(s, id, n), \A c \in connected : Still(c),
           UNCHANGED <<connected, active, made>>, board'[id] = board[id],
           NEW S, Drawn(queue, queue', S),
           s # Primary => \A e \in S : ~(e.type = "send" /\ e.to = s /\ e.id = id),
           \A g \in connected \cup {Primary} : Undisturbed(g, id),
           \A c \in connected : \/ down'[c] = down[c]
                                \/ \E x \in Messages : /\ down'[c] = Append(down[c], x)
                                                       /\ c = s => ~Lays(x, id)
    PROVE  Holds(s, id, n)'
<1>0. connected \subseteq Clients /\ down \in [Clients -> Seq(Messages)]
  BY DEF Typed, TypeOK
<1>1. ASSUME s # Primary PROVE Unhampered(s, id)'
  <2>1. Unhampered(s, id) /\ s \in connected
    BY <1>1 DEF Holds
  <2>2. CASE down'[s] = down[s]
    <3>1. PICK R : R = {}
      OBVIOUS
    <3>2. Drawn(down[s], down'[s], R) /\ \A m \in R : ~Lays(m, id)
      BY <2>2, <3>1, DrawnSame
    <3> QED
      BY <1>1, <2>1, <3>2, UnhamperedDrawn
  <2>3. ASSUME NEW x \in Messages, down'[s] = Append(down[s], x), ~Lays(x, id) PROVE Unhampered(s, id)'
    <3>1. Drawn(down[s], down'[s], {x}) /\ \A m \in {x} : ~Lays(m, id)
      BY <1>0, <2>1, <2>3, DrawnAppend
    <3> QED
      BY <1>1, <2>1, <3>1, UnhamperedDrawn
  <2> QED
    BY <2>1, <2>2, <2>3
<1>2. PICK d : d \notin connected \cup {Primary}
  BY NoSetContainsEverything
<1>3. Onward(s, id)
  BY <1>1, <1>2, OthersOnward
<1>4. Level(id) /\ Latest(made', id, n) /\ active' = active
  BY DEF Level, Holds
<1> QED
  BY <1>3, <1>4, LevelHolds

\* The first event is a report.
LEMMA ReportFirst ==
    ASSUME ClipboardAssumption, Typed, queue # <<>>, NEW g, NEW id, Reported(queue[1], g, id)
    PROVE  /\ queue[1].seq \in Seqs /\ queue[1].type \in Kinds
           /\ Reporting(queue[1].type, queue, g, id, queue[1].seq)
<1>1. queue \in Seq(Events) /\ queue[1] \in Events /\ 1 \in 1..Len(queue) /\ 1 \in Nat
  BY DEF Typed, TypeOK
<1>2. queue[1].seq \in Seqs
  BY <1>1, GrabbedEvent DEF Reported, Kinds
<1>3. Report(queue[1].type, queue, g, id, 1)
  BY <1>1 DEF Report, Reported
<1> QED
  BY <1>1, <1>2, <1>3 DEF Reporting, Reported

LEMMA IdleHolds ==
    ASSUME ClipboardAssumption, Typed, Typed', NEW s \in connected \cup {Primary}, NEW id \in Ids, NEW n,
           Holds(s, id, n), \A c \in connected : Still(c),
           UNCHANGED <<connected, active, board, queue, down, made>>
    PROVE  Holds(s, id, n)'
<1>1. PICK S : S = {}
  OBVIOUS
<1>2. Drawn(queue, queue', S) /\ \A e \in S : FALSE
  BY <1>1, DrawnSame
<1>3. \A g : Undisturbed(g, id)
  BY UndisturbedSame
<1> QED
  BY <1>2, <1>3, ServerHolds

LEMMA RefusedHolds ==
    ASSUME ClipboardAssumption, IInv, Typed', NEW s \in connected \cup {Primary}, NEW id \in Ids, NEW n,
           Holds(s, id, n), NEW e, e = Head(queue), queue # <<>>, e.type = "grabbed", Refused(e),
           UNCHANGED <<connected, active, seqNum, primarySeq, clientVars, up, bookVars>>
    PROVE  Holds(s, id, n)'
<1>0. Typed /\ queue \in Seq(Events) /\ e = queue[1] /\ queue' = Tail(queue) /\ connected \subseteq Clients
  BY DEF IInv, Typed, TypeOK, Refused
<1>1. ASSUME NEW g \in connected \cup {Primary}, Reported(queue[1], g, id) PROVE FALSE
  <2>1. e.seq \in Seqs /\ Reporting("grabbed", queue, g, id, e.seq)
    BY <1>0, <1>1, ReportFirst
  <2>2. Grabber(g, id)
    BY <2>1 DEF Grabber
  <2>3. g = s
    BY <2>2 DEF Holds, Standing
  <2>4. e.from = s /\ e.id = id /\ ~e.gone /\ s # Primary /\ ~(e.seq >= board[id].seq)
    BY <1>0, <1>1, <2>3 DEF Reported, Refused, Accepts
  <2>5. Dated(s, id) /\ Calling(s, id, e.seq)
    BY <2>1, <2>3, <2>4 DEF Holds, Ready, Calling, Grabbing
  <2>6. board[id].seq <= e.seq
    BY <2>1, <2>5 DEF Dated
  <2> QED
    BY <2>4, <2>6
<1>2. \A g \in connected \cup {Primary} : Undisturbed(g, id)
  BY <1>0, <1>1, UndisturbedTail
<1>3. PICK S : S = {}
  OBVIOUS
<1>4. Drawn(queue, queue', S) /\ \A x \in S : FALSE
  BY <1>0, <1>3, DrawnTail
<1>5. /\ \A c \in connected : Still(c) /\ down'[c] = down[c]
      /\ UNCHANGED <<connected, active, made>> /\ board'[id] = board[id]
  BY DEF Still, clientVars, bookVars, Refused
<1> QED
  BY <1>0, <1>2, <1>4, <1>5, ServerHolds

LEMMA SendQueuedHolds ==
    ASSUME ClipboardAssumption, Typed, Typed', NEW s \in connected \cup {Primary}, NEW id \in Ids, NEW n,
           Holds(s, id, n), SendQueued
    PROVE  Holds(s, id, n)'
<1>0. queue \in Seq(Events) /\ connected \subseteq Clients /\ down \in [Clients -> Seq(Messages)]
  BY DEF Typed, TypeOK
<1>1. PICK e \in Events :
        /\ e = queue[1] /\ queue # <<>> /\ e.type = "send" /\ queue' = Tail(queue)
        /\ IF e.gone THEN down' = down
           ELSE down' = [down EXCEPT ![e.to] =
                           Append(@, [type |-> "clip", id |-> e.id, value |-> e.value, seq |-> 0])]
        /\ UNCHANGED <<connected, active, board, clientVars, up, made>>
  <2>1. queue[1] = Head(queue) /\ queue[1] \in Events
    BY <1>0 DEF SendQueued
  <2> QED
    BY <2>1 DEF SendQueued
<1>2. \A g : ~Reported(queue[1], g, id)
  BY <1>1 DEF Reported, Kinds
<1>3. \A g : Undisturbed(g, id)
  BY <1>0, <1>1, <1>2, UndisturbedTail
<1>4. PICK S : S = {}
  OBVIOUS
<1>5. Drawn(queue, queue', S) /\ \A x \in S : FALSE
  BY <1>0, <1>1, <1>4, DrawnTail
<1>6. ASSUME NEW c \in connected
      PROVE  \/ down'[c] = down[c]
             \/ \E x \in Messages : down'[c] = Append(down[c], x) /\ (c = s => ~Lays(x, id))
  <2>1. CASE ~e.gone /\ e.to = c
    <3> DEFINE x == [type |-> "clip", id |-> e.id, value |-> e.value, seq |-> 0]
    <3>1. x \in Messages
      <4>1. e.id \in Ids /\ e.value \in Copies /\ 0 \in Seqs
        BY <1>1, SendEvent, Numbers
      <4> QED
        BY <4>1 DEF Messages
    <3>2. down'[c] = Append(down[c], x)
      BY <1>0, <1>1, <2>1
    <3>3. c = s => e.id # id
      <4>1. ASSUME c = s, e.id = id PROVE FALSE
        <5>1. Bound(queue, s, id, 1) /\ 1 \in Nat
          BY <1>0, <1>1, <2>1, <4>1 DEF Bound
        <5>2. s # Primary
          BY <1>0, <4>1 DEF ClipboardAssumption
        <5> QED
          BY <5>1, <5>2 DEF Holds, Unhampered, Sending
      <4> QED
        BY <4>1
    <3>4. x.id = e.id
      OBVIOUS
    <3> HIDE DEF x
    <3> QED
      BY <3>1, <3>2, <3>3, <3>4 DEF Lays
  <2>2. CASE ~(~e.gone /\ e.to = c)
    BY <1>0, <1>1, <2>2
  <2> QED
    BY <2>1, <2>2
<1>7. \A c \in connected : Still(c)
  BY <1>1 DEF Still, clientVars
<1> QED
  BY <1>1, <1>3, <1>5, <1>6, <1>7, ServerHolds

-----------------------------------------------------------------------------
(* The messages of the clients are read *)

\* The sequence p has what q has, and x.
Joined(q, x, p) == \A X :
    /\ Has(p, X) <=> Has(q, X) \/ x \in X
    /\ Unique(q, X) /\ (x \in X => ~Has(q, X)) => Unique(p, X)

LEMMA JoinedAppend ==
    ASSUME NEW T, NEW q \in Seq(T), NEW x \in T, NEW p, p = Append(q, x)
    PROVE  Joined(q, x, p)
  BY HasAppend DEF Joined

\* A grab of the client, or its contents, are read: a message becomes a report.
LEMMA ReadWorks ==
    ASSUME ClipboardAssumption, Typed, Typed', NEW d \in connected, NEW id \in Ids, NEW n, Ready(d, id, n),
           NEW m \in Messages, NEW x \in Events, up[d] # <<>>, m = up[d][1], up'[d] = Tail(up[d]),
           queue' = Append(queue, x), m.type \in {"grab", "clip"}, m.id = id,
           x.type = IF m.type = "grab" THEN "grabbed" ELSE "changed",
           x.from = d, x.id = id, x.seq = m.seq, ~x.gone,
           mine'[d] = mine[d], clientQueue'[d] = clientQueue[d], seq'[d] = seq[d],
           board'[id].cached[d] = IF m.type = "clip" THEN m.value ELSE board[id].cached[d]
    PROVE  Works(d, id)
<1>0. /\ queue \in Seq(Events) /\ queue' \in Seq(Events) /\ up[d] \in Seq(Messages) /\ up'[d] \in Seq(Messages)
      /\ Single(d, id) /\ d \in Clients /\ m.seq \in Seqs
      /\ mine[d][id].own <=> ~Asks(clientQueue[d], id)
  BY MessageIs DEF Typed, TypeOK, Ready
<1>1. \A X : /\ Has(up[d], X) <=> Has(up'[d], X) \/ m \in X
             /\ Unique(up[d], X) => Unique(up'[d], X) /\ (m \in X => ~Has(up'[d], X))
  BY <1>0, HasTail
<1>2. Joined(queue, x, queue')
  BY <1>0, JoinedAppend
<1>3. \A type, k : Rising(type, up[d], id, k) <=>
        Rising(type, up'[d], id, k) \/ (m.type = type /\ m.seq = k)
  <2>1. \A type, k : m \in RisesAt(type, id, {k}) <=> m.type = type /\ m.seq = k
    BY DEF RisesAt
  <2> QED
    BY <1>0, <1>1, <2>1, HasMessages
<1>4. ASSUME NEW type, NEW k
      PROVE  Reporting(type, queue', d, id, k) <=>
               Reporting(type, queue, d, id, k) \/ (x.type = type /\ m.seq = k)
  <2>1. x \in ReportsAt(type, d, id, {k}) <=> x.type = type /\ m.seq = k
    BY DEF ReportsAt
  <2>2. /\ Reporting(type, queue, d, id, k) <=> Has(queue, ReportsAt(type, d, id, {k}))
        /\ Reporting(type, queue', d, id, k) <=> Has(queue', ReportsAt(type, d, id, {k}))
    BY <1>0, HasReports
  <2> QED
    BY <1>2, <2>1, <2>2 DEF Joined
<1>5. \A k \in Seqs : (Calling(d, id, k)' <=> Calling(d, id, k)) /\ (Bringing(d, id, k)' <=> Bringing(d, id, k))
  BY <1>3, <1>4 DEF Calling, Bringing, Grabbing, Updating
<1>6. \A y \in Copies : Mails(d, id, y)' => Mails(d, id, y)
  <2>1. \A y \in Copies : Uploads(up'[d], id, y) => Uploads(up[d], id, y)
    BY <1>0, <1>1, HasMessages
  <2> QED
    BY <2>1 DEF Mails
<1>7. ASSUME NEW k \in Seqs, Reporting("changed", queue', d, id, k)
      PROVE  \/ Reporting("changed", queue, d, id, k) /\ board'[id].cached[d] = board[id].cached[d]
             \/ Mails(d, id, board'[id].cached[d])
  <2>1. CASE m.type = "clip"
    <3>1. m \in RisesOf(id, board'[id].cached[d])
      BY <2>1 DEF RisesOf
    <3>2. Uploads(up[d], id, board'[id].cached[d])
      BY <1>0, <1>1, <3>1, HasMessages
    <3> QED
      BY <3>2 DEF Mails
  <2>2. CASE m.type = "grab"
    BY <1>4, <1>7, <2>2
  <2> QED
    BY <2>1, <2>2
<1>8. \A k \in Seqs : Rising("grab", up'[d], id, k) =>
        \A j \in Seqs : ~Reporting("grabbed", queue', d, id, j)
  <2>1. ASSUME NEW k \in Seqs, Rising("grab", up'[d], id, k), NEW j \in Seqs, Reporting("grabbed", queue', d, id, j)
        PROVE  FALSE
    <3>1. ~Reporting("grabbed", queue, d, id, j)
      BY <1>0, <1>3, <2>1 DEF Single
    <3>2. m.type = "grab" /\ m \in Callings(id)
      BY <1>4, <2>1, <3>1 DEF Callings
    <3>3. ~Has(up'[d], Callings(id))
      BY <1>0, <1>1, <3>2 DEF Single
    <3> QED
      BY <1>0, <2>1, <3>3, HasSome
  <2> QED
    BY <2>1
<1>9. Single(d, id)'
  <2>1. Unique(queue', Reports(d, id))
    <3>1. ASSUME x \in Reports(d, id) PROVE ~Has(queue, Reports(d, id))
      <4>1. Rising("grab", up[d], id, m.seq)
        BY <1>3, <3>1 DEF Reports
      <4>2. \A k \in Seqs : ~Reporting("grabbed", queue, d, id, k)
        BY <1>0, <4>1 DEF Single
      <4> QED
        BY <1>0, <4>2, HasSome
    <3> QED
      BY <1>0, <1>2, <3>1 DEF Single, Joined
  <2>2. Unique(clientQueue'[d], Askings(id)) /\ Unique(up'[d], Callings(id))
    BY <1>0, <1>1 DEF Single
  <2>3. Asks(clientQueue'[d], id) => \A k \in Seqs : ~Calling(d, id, k)' /\ ~Bringing(d, id, k)'
    BY <1>0, <1>5 DEF Single
  <2> QED
    BY <1>8, <2>1, <2>2, <2>3 DEF Single
<1>10. Grabber(d, id)' <=> Grabber(d, id)
  <2>1. Grabber(d, id) <=> Asks(clientQueue[d], id) \/ \E k \in Seqs : Calling(d, id, k)
    BY <1>0 DEF Grabber, Calling, Grabbing
  <2>2. Grabber(d, id)' <=> Asks(clientQueue'[d], id) \/ \E k \in Seqs : Calling(d, id, k)'
    BY <1>0 DEF Grabber, Calling, Grabbing
  <2> QED
    BY <1>5, <2>1, <2>2
<1>11. Pending(d, id) => Pending(d, id)'
  BY <1>5 DEF Pending
<1>12. seq[d] <= seq'[d]
  BY <1>0, Numbers DEF Typed, TypeOK
<1> QED
  BY <1>0, <1>5, <1>6, <1>7, <1>9, <1>10, <1>11, <1>12 DEF Works

LEMMA ReceivedHolds ==
    ASSUME ClipboardAssumption, Typed, Typed', NEW s \in connected \cup {Primary}, NEW id \in Ids, NEW n,
           Holds(s, id, n), NEW d \in connected, ReceiveFromClient(d)
    PROVE  Holds(s, id, n)'
<1> DEFINE m == up[d][1]
<1>0. /\ queue \in Seq(Events) /\ up \in [Clients -> Seq(Messages)] /\ connected \subseteq Clients
      /\ Primary \notin Clients /\ board \in [Ids -> Boards] /\ down \in [Clients -> Seq(Messages)]
  BY DEF Typed, TypeOK, ClipboardAssumption
<1>1. PICK x \in Events :
         /\ up[d] # <<>> /\ up' = [up EXCEPT ![d] = Tail(@)] /\ queue' = Append(queue, x)
         /\ x.type = IF m.type = "grab" THEN "grabbed" ELSE "changed"
         /\ m.type \in {"grab", "clip"} /\ x.from = d /\ x.id = m.id /\ x.seq = m.seq /\ ~x.gone
         /\ UNCHANGED <<connected, active, clientVars, down, made>>
  BY <1>0, ReceivedIs DEF bookVars
<1>2. m \in Messages /\ m = Head(up[d])
  BY <1>0, <1>1
<1>3. IF m.type = "clip" THEN board' = [board EXCEPT ![m.id].cached[d] = m.value] ELSE board' = board
  BY <1>1, <1>2 DEF ReceiveFromClient
<1>4. m.id \in Ids /\ m.seq \in Seqs /\ (m.type = "clip" => m.value \in Copies)
  BY <1>1, <1>2, MessageIs
<1>m. m = up[d][1]
  OBVIOUS
<1> HIDE DEF m
<1>5. /\ Level(id)
      /\ \A c \in Clients : board'[id].cached[c] =
           IF m.type = "clip" /\ c = d /\ id = m.id THEN m.value ELSE board[id].cached[c]
  <2>1. CASE m.type = "clip"
    <3>1. board' = [board EXCEPT ![m.id].cached[d] = m.value]
      BY <1>3, <2>1
    <3>2. board[id] \in Boards /\ board[m.id] \in Boards
      BY <1>0, <1>4
    <3>3. CASE id = m.id
      BY <1>0, <2>1, <3>1, <3>2, <3>3 DEF Boards, Level
    <3>4. CASE id # m.id
      BY <1>0, <2>1, <3>1, <3>4 DEF Level
    <3> QED
      BY <3>3, <3>4
  <2>2. CASE m.type # "clip"
    BY <1>3, <2>2 DEF Level
  <2> QED
    BY <2>1, <2>2
<1>6. /\ mine' = mine /\ clientQueue' = clientQueue /\ seq' = seq /\ here' = here /\ down' = down
      /\ connected' = connected /\ active' = active /\ made' = made
      /\ up'[d] = Tail(up[d]) /\ \A c \in Clients : c # d => up'[c] = up[c]
  BY <1>0, <1>1 DEF clientVars
<1>7. \A c : c # d => Undisturbed(c, id)
  <2>1. \A c : c # d => ~Reported(x, c, id)
    BY <1>1 DEF Reported
  <2> QED
    BY <1>0, <1>1, <2>1, UndisturbedAppend
<1>8. ASSUME NEW c \in connected, Unhampered(c, id) PROVE Unhampered(c, id)'
  <2>1. Drawn(queue, queue', {x}) /\ \A e \in {x} : e.type # "send"
    BY <1>0, <1>1, DrawnAppend
  <2>2. PICK R : R = {}
    OBVIOUS
  <2>3. Drawn(down[c], down'[c], R) /\ \A y \in R : ~Lays(y, id)
    BY <1>6, <2>2, DrawnSame
  <2> QED
    BY <1>8, <2>1, <2>3, UnhamperedDrawn
<1>a. /\ \A c \in connected \ {d} : Still(c) /\ Undisturbed(c, id) /\ down'[c] = down[c]
      /\ Undisturbed(Primary, id) /\ d # Primary /\ board'[id].owner = board[id].owner
      /\ s \notin {d, Primary} => board'[id].cached[s] = board[id].cached[s] /\ Unhampered(s, id)'
  <2>1. \A c \in connected \ {d} : Still(c)
    BY <1>0, <1>6 DEF Still
  <2>2. ASSUME s \notin {d, Primary}
        PROVE  board'[id].cached[s] = board[id].cached[s] /\ Unhampered(s, id)'
    BY <1>0, <1>5, <1>8, <2>2 DEF Holds
  <2> QED
    BY <1>0, <1>5, <1>6, <1>7, <2>1, <2>2 DEF Level
<1>9. CASE m.id # id
  <2>1. ~Reported(x, d, id)
    BY <1>1, <1>9 DEF Reported
  <2>2. Undisturbed(d, id) /\ AsideU(up[d], up'[d], id) /\ AsideR(clientQueue[d], clientQueue'[d], id)
    BY <1>0, <1>1, <1>6, <1>9, <1>m, <2>1, UndisturbedAppend, AsideTail, AsideSame
  <2>3. ASSUME d = s PROVE Works(s, id) /\ Unhampered(s, id)'
    <3>1. Ready(d, id, n) /\ Unhampered(d, id)
      BY <1>0, <2>3 DEF Holds
    <3>2. seq[d] <= seq'[d]
      BY <1>0, <1>6, Numbers DEF Typed, TypeOK
    <3>3. board'[id].cached[d] = board[id].cached[d] /\ mine'[d][id] = mine[d][id] /\ d \in Clients
      BY <1>0, <1>5, <1>6, <1>9
    <3>4. Works(d, id)
      BY <2>2, <3>1, <3>2, <3>3, AsideWorks DEF Ready
    <3> QED
      BY <1>8, <2>3, <3>1, <3>4
  <2>4. ASSUME d # s PROVE (Grabber(d, id)' => Grabber(d, id)) /\ Relinquished(d, id)'
    <3>1. Relinquished(d, id)'
      BY <1>0, <1>5, <1>6, <2>4, RelinquishedStays DEF Holds, Level
    <3> QED
      BY <2>2, <3>1, GrabberAside
  <2>5. Onward(s, id)
    BY <1>6, <1>a, <2>3, <2>4, OthersOnward
  <2> QED
    BY <1>5, <1>6, <2>5, LevelHolds DEF Holds
<1>10. CASE m.id = id
  <2>3. ASSUME d = s PROVE Works(s, id) /\ Unhampered(s, id)'
    <3>1. Ready(d, id, n) /\ Unhampered(d, id) /\ d \in Clients
      BY <1>0, <2>3 DEF Holds
    <3>2. board'[id].cached[d] = IF m.type = "clip" THEN m.value ELSE board[id].cached[d]
      BY <1>5, <1>10, <3>1
    <3>3. Works(d, id)
      BY <1>1, <1>2, <1>6, <1>10, <1>m, <3>1, <3>2, ReadWorks
    <3> QED
      BY <1>8, <2>3, <3>1, <3>3
  <2>4. ASSUME d # s PROVE (Grabber(d, id)' => Grabber(d, id)) /\ Relinquished(d, id)'
    <3>1. Relinquished(d, id)'
      BY <1>0, <1>5, <1>6, <2>4, RelinquishedStays DEF Holds, Level
    <3>2. ASSUME Grabber(d, id)' PROVE Grabber(d, id)
      <4>1. Drawn(queue, queue', {x}) /\ Drawn(up[d], up'[d], {})
        BY <1>0, <1>1, <1>6, DrawnAppend, DrawnTail
      <4>2. \A k : Rising("grab", up'[d], id, k) => Rising("grab", up[d], id, k)
        BY <4>1, DrawnRise
      <4>3. ASSUME NEW k \in Seqs, Reporting("grabbed", queue', d, id, k)
            PROVE  Reporting("grabbed", queue, d, id, k) \/ Rising("grab", up[d], id, k)
        <5>1. CASE x.type = "grabbed" /\ x.seq = k
          <6>1. Rising(up[d][1].type, up[d], up[d][1].id, up[d][1].seq)
            BY <1>0, <1>1, RisingFirst
          <6> QED
            BY <1>1, <1>10, <1>m, <5>1, <6>1
        <5> QED
          BY <4>1, <4>3, <5>1, DrawnReport
      <4> QED
        BY <1>0, <1>6, <3>2, <4>2, <4>3 DEF Grabber
    <3> QED
      BY <3>1, <3>2
  <2>5. Onward(s, id)
    BY <1>6, <1>a, <2>3, <2>4, OthersOnward
  <2> QED
    BY <1>5, <1>6, <2>5, LevelHolds DEF Holds
<1> QED
  BY <1>9, <1>10

-----------------------------------------------------------------------------
(* An update is handled *)

\* The first event is taken off the queue, and transfers are put behind.
LEMMA QueueMoved ==
    ASSUME queue \in Seq(Events), queue # <<>>, queue' \in Seq(Events), Moved(Tail(queue), queue', 0)
    PROVE  /\ Moved(queue, queue', 1)
           /\ \A k \in 1..Len(queue') : k + 1 > Len(queue) <=> k > Len(Tail(queue))
<1>1. /\ Len(Tail(queue)) = Len(queue) - 1 /\ Len(queue) \in Nat /\ Len(queue) > 0 /\ Len(queue') \in Nat
      /\ \A i \in 1..Len(Tail(queue)) : Tail(queue)[i] = queue[i + 1]
  OBVIOUS
<1>2. Moved(queue, queue', 1)
  BY <1>1 DEF Moved
<1> QED
  BY <1>1, <1>2

\* No grab is taken off the queue or put behind.
LEMMA GrabbersStay ==
    ASSUME ClipboardAssumption, queue \in Seq(Events), queue' \in Seq(Events), queue # <<>>, Moved(queue, queue', 1),
           queue[1].type # "grabbed", UNCHANGED <<clientQueue, up>>,
           \A k \in 1..Len(queue') : k + 1 > Len(queue) => queue'[k].type # "grabbed", NEW g, NEW id
    PROVE  /\ Grabber(g, id)' <=> Grabber(g, id)
           /\ \A k \in Seqs : Reporting("grabbed", queue', g, id, k) <=> Reporting("grabbed", queue, g, id, k)
           /\ Unique(queue, Reports(g, id)) => Unique(queue', Reports(g, id))
<1>1. PICK j \in {0, 1} : j = 1
  OBVIOUS
<1>2. \A X : (\A x \in X : x.type = "grabbed") =>
        (Has(queue', X) <=> Has(queue, X)) /\ (Unique(queue, X) => Unique(queue', X))
  <2>1. ASSUME NEW X, \A x \in X : x.type = "grabbed"
        PROVE  (Has(queue', X) <=> Has(queue, X)) /\ (Unique(queue, X) => Unique(queue', X))
    <3>1. /\ Moved(queue, queue', j) /\ queue[1] \notin X
          /\ \A i \in 1..Len(queue') : i + j > Len(queue) => queue'[i] \notin X
      BY <1>1, <2>1
    <3> QED
      BY <3>1, HasMoved
  <2> QED
    BY <2>1
<1>3. \A x \in Reports(g, id) : x.type = "grabbed"
  BY DEF Reports
<1>4. ASSUME NEW k \in Seqs
      PROVE  Reporting("grabbed", queue', g, id, k) <=> Reporting("grabbed", queue, g, id, k)
  <2>1. \A x \in ReportsAt("grabbed", g, id, {k}) : x.type = "grabbed"
    BY DEF ReportsAt
  <2> QED
    BY <1>2, <2>1, HasReports
<1>5. Grabber(g, id)' <=> Grabber(g, id)
  BY <1>4 DEF Grabber
<1> QED
  BY <1>2, <1>3, <1>4, <1>5

\* The update of the clipboard on the screen is passed on.
LEMMA UpdatedReady ==
    ASSUME ClipboardAssumption, Typed, Typed', NEW s \in connected, NEW id \in Ids, NEW n, Ready(s, id, n),
           UNCHANGED clientVars, up' = up, board'[id].owner = s, board'[id].data = n,
           board'[id].seq = board[id].seq, board'[id].cached[s] = n,
           \A k \in Seqs : Reporting("changed", queue', s, id, k) => Reporting("changed", queue, s, id, k),
           \A k \in Seqs : Reporting("grabbed", queue', s, id, k) <=> Reporting("grabbed", queue, s, id, k),
           Unique(queue, Reports(s, id)) => Unique(queue', Reports(s, id))
    PROVE  Ready(s, id, n)'
<1>1. /\ mine' = mine /\ clientQueue' = clientQueue /\ seq' = seq
      /\ Single(s, id) /\ Dated(s, id)
  BY DEF clientVars, Ready
<1>2. \A k \in Seqs : (Calling(s, id, k)' <=> Calling(s, id, k)) /\ (Bringing(s, id, k)' => Bringing(s, id, k))
  BY <1>1 DEF Calling, Bringing, Grabbing, Updating
<1>3. Single(s, id)'
  BY <1>1, <1>2 DEF Single
<1>4. Dated(s, id)'
  BY <1>1, <1>2 DEF Dated, Since
<1>5. \A x \in Copies : Mails(s, id, x)' => x = n
  BY <1>1 DEF Mails, Ready
<1> QED
  BY <1>1, <1>3, <1>4, <1>5 DEF Ready

LEMMA ChangedHolds ==
    ASSUME ClipboardAssumption, Patient, Typed', IInv, Signed, ~unexpected', NEW s \in connected \cup {Primary},
           NEW id \in Ids, NEW n, Holds(s, id, n), HandleClipboardChanged
    PROVE  Holds(s, id, n)'
<1> DEFINE e == Head(queue)
<1>0. /\ Typed /\ connected \subseteq Clients /\ Primary \notin Clients /\ Oversize = {}
      /\ queue \in Seq(Events) /\ queue' \in Seq(Events) /\ board[id] \in Boards /\ board'[id] \in Boards
      /\ active \in connected \cup {Primary} /\ unexpected \in BOOLEAN /\ Lone(id) /\ Home
  <2>1. board' \in [Ids -> Boards] /\ queue' \in Seq(Events)
    BY DEF Typed, TypeOK
  <2> QED
    BY <2>1 DEF IInv, Typed, TypeOK, Signed, ClipboardAssumption, Certified, Patient
<1>1. /\ queue # <<>> /\ e \in Events /\ e.type = "changed" /\ Changed(e)
      /\ UNCHANGED <<connected, active, clientVars, up, down, made>>
  BY <1>0, HandleClipboardChangedIs DEF netVars, bookVars
<1>2. e = queue[1] /\ 1 \in 1..Len(queue) /\ 1 \in Nat
  BY <1>0, <1>1
<1> HIDE DEF e
<1>3. e.id \in Ids /\ e.seq \in Seqs /\ e.from \in Screens /\ active \in Screens
  BY <1>0, <1>1, GrabbedEvent DEF Screens
<1>4. PICK r \in Results :
         /\ IF ~e.gone /\ e.from \in connected
            THEN r = OnClipboardChanged(board[e.id], e.from, e.seq, active)
            ELSE r = Quietly(board[e.id])
         /\ board'[e.id] = r.board /\ unexpected' = (unexpected \/ r.unexpected)
         /\ Moved(Tail(queue), queue', 0)
         /\ \A k \in 1..Len(queue') : k > Len(Tail(queue)) =>
              \E i \in 1..Len(r.to) : queue'[k] = SendOf(r.to[i], e.id, r.board.clip)
  BY <1>1 DEF Changed
<1>5. id # e.id => board'[id] = board[id]
  BY <1>1 DEF Changed
<1> DEFINE S == {SendOf(r.to[i], e.id, r.board.clip) : i \in 1..Len(r.to)}
<1>6. ASSUME NEW x \in S
      PROVE x.type = "send" /\ x.id = e.id /\ r.to # <<>> /\ \E i \in 1..Len(r.to) : x.to = r.to[i]
  <2>1. PICK i \in 1..Len(r.to) : x = SendOf(r.to[i], e.id, r.board.clip)
    BY <1>6
  <2>2. r.to # <<>>
    BY <2>1
  <2> QED
    BY <2>1, <2>2 DEF SendOf
<1>7. Moved(queue, queue', 1) /\ \A k \in 1..Len(queue') : k + 1 > Len(queue) => queue'[k] \in S
  BY <1>0, <1>1, <1>4, QueueMoved
<1> HIDE DEF S
<1>8. PICK j \in {0, 1} : j = 1
  OBVIOUS
<1>9. Drawn(queue, queue', S)
  BY <1>0, <1>7, <1>8, DrawnMoved
<1>10. ASSUME NEW g, ~Reported(e, g, id) PROVE Undisturbed(g, id)
  <2>1. /\ Moved(queue, queue', j) /\ ~Reported(queue[1], g, id)
        /\ \A k \in 1..Len(queue') : k + j > Len(queue) => ~Reported(queue'[k], g, id)
    BY <1>2, <1>6, <1>7, <1>8, <1>10 DEF Reported, Kinds
  <2> QED
    BY <1>0, <2>1, UndisturbedMoved
<1>11. ~Reported(e, Primary, id)
  BY <1>0, <1>1, <1>2 DEF Home, Whose, Reported
<1>12. \A c \in connected : Still(c) /\ down'[c] = down[c]
  BY <1>1 DEF Still, clientVars
<1>13. ASSUME board'[id] = board[id], \A g \in connected : ~Reported(e, g, id),
              s # Primary => \A x \in S : ~(x.type = "send" /\ x.to = s /\ x.id = id)
       PROVE  Holds(s, id, n)'
  <2>1. \A g \in connected \cup {Primary} : Undisturbed(g, id)
    BY <1>10, <1>11, <1>13
  <2>2. UNCHANGED <<connected, active, made>>
    BY <1>1
  <2> QED
    BY <1>0, <1>9, <1>12, <1>13, <2>1, <2>2, ServerHolds
<1>14. CASE id # e.id
  BY <1>5, <1>6, <1>13, <1>14 DEF Reported
<1>15. CASE id = e.id /\ ~(~e.gone /\ e.from \in connected)
  <2>1. r = Quietly(board[id]) /\ board'[id] = r.board
    BY <1>4, <1>15
  <2>2. board'[id] = board[id] /\ r.to = <<>>
    BY <1>0, <2>1, QuietlyIs
  <2> QED
    BY <1>6, <1>13, <1>15, <2>2 DEF Reported
<1>16. CASE id = e.id /\ ~e.gone /\ e.from \in connected
  <2>1. PICK c \in connected : c = e.from /\ c # Primary
    BY <1>0, <1>16
  <2>2. /\ r = OnClipboardChanged(board[id], c, e.seq, active) /\ board'[id] = r.board
        /\ GetClipboard(board[id], c) = board[id].cached[c] /\ c \in Screens /\ board[id].seq \in Nat /\ e.seq \in Nat
    BY <1>0, <1>3, <1>4, <1>16, <2>1, Numbers DEF GetClipboard, Boards, Screens
  <2>3. /\ IF e.seq < board[id].seq THEN r.board = board[id] /\ r.to = <<>>
           ELSE /\ Passed(board[id], c, active, r.board)
                /\ board[id].cached[c] = board[id].data => r.to = <<>>
        /\ r.unexpected <=> ~(e.seq < board[id].seq) /\ c # board[id].owner
        /\ Kept(board[id], r) \/ Taken(board[id], c, active, r)
    BY <1>0, <1>3, <2>2, OnClipboardChangedGives, OnClipboardChangedIs
  <2>4. Reporting("changed", queue, c, id, e.seq)
    <3>1. Reported(queue[1], c, id)
      BY <1>1, <1>2, <1>16, <2>1 DEF Reported, Kinds
    <3> QED
      BY <1>0, <1>1, <1>2, <3>1, ReportFirst
  <2>g. ASSUME NEW g
        PROVE  /\ Grabber(g, id)' <=> Grabber(g, id)
               /\ \A k \in Seqs : Reporting("grabbed", queue', g, id, k) <=> Reporting("grabbed", queue, g, id, k)
               /\ Unique(queue, Reports(g, id)) => Unique(queue', Reports(g, id))
    <3>1. /\ queue[1].type # "grabbed" /\ UNCHANGED <<clientQueue, up>>
          /\ \A k \in 1..Len(queue') : k + 1 > Len(queue) => queue'[k].type # "grabbed"
      BY <1>1, <1>2, <1>6, <1>7 DEF clientVars
    <3> QED
      BY <1>0, <1>1, <1>7, <3>1, GrabbersStay
  <2>u. ASSUME s # Primary, \A x \in S : x.to # s PROVE Unhampered(s, id)'
    <3>1. PICK R : R = {}
      OBVIOUS
    <3>2. Unhampered(s, id) /\ Drawn(down[s], down'[s], R) /\ \A m \in R : ~Lays(m, id)
      BY <1>1, <2>u, <3>1, DrawnSame DEF Holds
    <3> QED
      BY <1>9, <2>u, <3>2, UnhamperedDrawn
  <2>r. \A z \in connected \ {s} : board'[id].owner = board[id].owner => Relinquished(z, id)'
    BY <1>1 DEF Holds, Relinquished, clientVars
  <2>5. CASE e.seq < board[id].seq
    <3>1. c # s
      <4>1. SUFFICES ASSUME c = s PROVE FALSE
        OBVIOUS
      <4>2. Dated(s, id) /\ Bringing(s, id, e.seq)
        BY <2>1, <2>4, <4>1 DEF Holds, Ready, Bringing, Updating
      <4>3. board[id].seq <= e.seq
        BY <1>3, <4>2 DEF Dated, Since
      <4> QED
        BY <2>2, <2>5, <4>3
    <3>2. board'[id] = board[id] /\ \A x \in S : FALSE
      BY <1>6, <2>2, <2>3, <2>5
    <3>3. s # Primary => board'[id].cached[s] = board[id].cached[s] /\ Unhampered(s, id)'
      BY <2>u, <3>2
    <3>4. \A z \in connected \ {c} : Undisturbed(z, id)
      BY <1>10, <2>1 DEF Reported
    <3>5. (Grabber(c, id)' => Grabber(c, id)) /\ Relinquished(c, id)'
      BY <2>g, <2>r, <3>1, <3>2
    <3>6. Onward(s, id)
      <4>1. connected' = connected /\ board'[id].owner = board[id].owner /\ Undisturbed(Primary, id)
        BY <1>1, <1>10, <1>11, <3>2
      <4> QED
        BY <1>0, <1>12, <2>1, <3>1, <3>3, <3>4, <3>5, <4>1, OthersOnward
    <3>7. Level(id) /\ Latest(made', id, n) /\ active' = active
      BY <1>1, <3>2 DEF Level, Holds
    <3> QED
      BY <1>0, <3>6, <3>7, LevelHolds
  <2>6. CASE ~(e.seq < board[id].seq)
    <3>1. board[id].owner = c /\ Passed(board[id], c, active, board'[id])
      BY <1>0, <1>4, <2>2, <2>3, <2>6
    <3>2. c = s
      <4>1. SUFFICES ASSUME c # s PROVE FALSE
        OBVIOUS
      <4>2. Grabber(s, id)
        BY <3>1, <4>1 DEF Holds, Standing
      <4>3. Silent(c, id)
        BY <1>0, <4>1, <4>2 DEF Lone
      <4> QED
        BY <1>3, <2>4, <4>3 DEF Silent
    <3>3. Ready(s, id, n) /\ board[id].cached[s] = n
      BY <1>3, <2>1, <2>4, <3>2 DEF Holds, Ready
    <3>4. /\ board'[id].owner = s /\ board'[id].seq = board[id].seq /\ board'[id].data = n
          /\ board'[id].cached[s] = n /\ Current(s, id, n)'
      <4>1. CASE n = board[id].data
        <5>1. /\ board'[id].owner = s /\ board'[id].seq = board[id].seq /\ board'[id].data = n
              /\ board'[id].cached = board[id].cached /\ board'[id].dirty = board[id].dirty
          BY <2>2, <3>1, <3>2, <3>3, <4>1 DEF Passed
        <5> QED
          BY <1>1, <3>3, <4>1, <5>1 DEF Current, Holds
      <4>2. CASE n # board[id].data
        <5>1. /\ board'[id].owner = s /\ board'[id].seq = board[id].seq /\ board'[id].data = n
              /\ board'[id].cached[s] = board[id].cached[s]
              /\ \A z \in connected \cup {Primary} : board'[id].dirty[z] <=> z # s /\ z # active
          BY <1>0, <2>2, <3>1, <3>2, <3>3, <4>2 DEF Passed
        <5> QED
          BY <1>0, <1>1, <3>3, <5>1 DEF Current
      <4> QED
        BY <4>1, <4>2
    <3>5. ASSUME NEW x \in S PROVE x.to # s
      <4>1. r.to # <<>> /\ active # s /\ r.to = <<active>>
        BY <1>0, <1>6, <2>3, <3>2 DEF Kept, Taken
      <4>2. PICK i \in 1..Len(r.to) : x.to = r.to[i]
        BY <1>6
      <4>3. i = 1 /\ r.to[1] = active
        BY <4>1
      <4> QED
        BY <4>1, <4>2, <4>3
    <3>6. Ready(s, id, n)'
      <4>1. ASSUME NEW k \in Seqs, Reporting("changed", queue', s, id, k) PROVE Reporting("changed", queue, s, id, k)
        <5>1. \A x \in S : x.type # "changed"
          BY <1>6
        <5> QED
          BY <1>9, <4>1, <5>1, DrawnReport
      <4>2. UNCHANGED clientVars /\ up' = up /\ s \in connected
        BY <1>1, <2>1, <3>2
      <4> QED
        BY <1>0, <2>g, <3>3, <3>4, <4>1, <4>2, UpdatedReady
    <3>7. Standing(s, id)'
      BY <1>1, <2>g, <3>1, <3>2, <3>4 DEF Standing, Holds
    <3>8. Latest(made, id, n)' /\ \A z \in connected' \ {s} : Relinquished(z, id)'
      BY <1>1, <2>r, <3>1, <3>2, <3>4 DEF Holds
    <3> QED
      BY <2>1, <2>u, <3>2, <3>4, <3>5, <3>6, <3>7, <3>8 DEF Holds
  <2> QED
    BY <2>5, <2>6
<1> QED
  BY <1>14, <1>15, <1>16

-----------------------------------------------------------------------------
(* A grab is accepted *)

\* The grab e, which is the first event, was the only one of s.
LEMMA GrabGone ==
    ASSUME ClipboardAssumption, queue \in Seq(Events), queue # <<>>, queue' = Tail(queue), NEW s, NEW id,
           queue[1] \in Reports(s, id), Unique(queue, Reports(s, id))
    PROVE  /\ Unique(queue', Reports(s, id)) /\ \A k \in Seqs : ~Reporting("grabbed", queue', s, id, k)
           /\ \E k \in Seqs : Reporting("grabbed", queue, s, id, k)
<1>1. PICK p : p = Tail(queue)
  OBVIOUS
<1>2. p \in Seq(Events) /\ queue' = p
  BY <1>1
<1>3. Unique(p, Reports(s, id)) /\ ~Has(p, Reports(s, id)) /\ Has(queue, Reports(s, id))
  BY <1>1, HasTail
<1> QED
  BY <1>2, <1>3, HasSome

LEMMA UpdatesStay ==
    ASSUME NEW q \in Seq(Events), q # <<>>, q[1].type = "grabbed", NEW s, NEW id, NEW k
    PROVE  Reporting("changed", Tail(q), s, id, k) <=> Reporting("changed", q, s, id, k)
<1>1. PICK p : p = Tail(q)
  OBVIOUS
<1>2. PICK X : X = ReportsAt("changed", s, id, {k})
  OBVIOUS
<1>3. q[1] \notin X
  BY <1>2 DEF ReportsAt
<1>0. p \in Seq(Events)
  BY <1>1
<1>5. Has(q, X) <=> Has(p, X) \/ q[1] \in X
  BY <1>1, HasTail
<1>4. p \in Seq(Events) /\ (Has(q, X) <=> Has(p, X) \/ q[1] \in X)
  BY <1>0, <1>5
<1> QED
  BY <1>1, <1>2, <1>3, <1>4, HasReports

\* A client that has grabbed the clipboard has nothing else to grab, and still brings the contents.
LEMMA GrabbedReady ==
    ASSUME ClipboardAssumption, Typed, Typed', NEW s \in connected, NEW id \in Ids, NEW n, NEW t \in Seqs,
           Holds(s, id, n), s # Primary, UNCHANGED clientVars, up' = up, connected' = connected,
           queue # <<>>, queue' = Tail(queue), queue[1] \in Reports(s, id), queue[1].seq = t,
           board'[id].owner = s, board'[id].seq = t, board'[id].cached = board[id].cached
    PROVE  Ready(s, id, n)' /\ ~Grabber(s, id)'
<1>0. /\ mine' = mine /\ clientQueue' = clientQueue /\ seq' = seq
      /\ Ready(s, id, n) /\ Single(s, id) /\ Dated(s, id)
      /\ queue \in Seq(Events) /\ up[s] \in Seq(Messages) /\ s \in Clients
  BY DEF clientVars, Ready, Holds, Typed, TypeOK
<1>1. /\ Unique(queue', Reports(s, id)) /\ \A k \in Seqs : ~Reporting("grabbed", queue', s, id, k)
  BY <1>0, GrabGone DEF Single
<1>2. Reporting("grabbed", queue, s, id, t) /\ Calling(s, id, t)
  <2>1. 1 \in Nat /\ Report("grabbed", queue, s, id, 1)
    BY <1>0 DEF Report, Reports
  <2> QED
    BY <2>1 DEF Reporting, Calling, Grabbing
<1>3. ~Asks(clientQueue[s], id) /\ \A k \in Seqs : ~Rising("grab", up[s], id, k)
  BY <1>0, <1>2 DEF Single
<1>4. ~Grabber(s, id)' /\ \A k \in Seqs : ~Calling(s, id, k)'
  BY <1>0, <1>1, <1>3 DEF Grabber, Calling, Grabbing
<1>5. \A k \in Seqs : Reporting("changed", queue', s, id, k) <=> Reporting("changed", queue, s, id, k)
  BY <1>0, UpdatesStay DEF Reports
<1>6. \A k \in Seqs : Bringing(s, id, k)' <=> Bringing(s, id, k)
  BY <1>0, <1>5 DEF Bringing, Updating
<1>7. Pending(s, id)'
  <2>1. Grabber(s, id)
    BY <1>2 DEF Grabber
  <2>2. board[id].owner # s
    BY <2>1 DEF Holds, Standing
  <2>3. Pending(s, id)
    BY <1>0, <2>2 DEF Ready
  <2> QED
    BY <1>0, <1>6, <2>3 DEF Pending
<1>8. Single(s, id)'
  BY <1>0, <1>1, <1>3 DEF Single
<1>9. Dated(s, id)'
  <2>1. Since(s, id, t)
    BY <1>0, <1>2 DEF Dated
  <2> QED
    BY <1>0, <1>4, <1>6, <2>1 DEF Dated, Since
<1>10. \A x \in Copies : Mails(s, id, x)' => x = n
  BY <1>0 DEF Mails, Ready
<1>11. \A k \in Seqs : Reporting("changed", queue', s, id, k) => board'[id].cached[s] = n
  BY <1>0, <1>5 DEF Ready
<1> QED
  BY <1>0, <1>4, <1>7, <1>8, <1>9, <1>10, <1>11 DEF Ready

LEMMA GrabbedHolds ==
    ASSUME ClipboardAssumption, Typed', IInv, NEW s \in connected \cup {Primary}, NEW id \in Ids, NEW n,
           Holds(s, id, n), NEW e, e = Head(queue), queue # <<>>, e.type = "grabbed", Grabbed(e),
           UNCHANGED <<connected, active, seqNum, primarySeq, clientVars, up, bookVars>>
    PROVE  Holds(s, id, n)'
<1>0. /\ Typed /\ connected \subseteq Clients /\ Primary \notin Clients
      /\ queue \in Seq(Events) /\ down \in [Clients -> Seq(Messages)] /\ board \in [Ids -> Boards]
  BY DEF IInv, Typed, TypeOK, ClipboardAssumption
<1>1. /\ Taking(e) /\ e \in Events
      /\ UNCHANGED <<connected, active, clientVars, up, made>> /\ queue' = Tail(queue)
  BY <1>0, GrabbedTakes DEF Taking, bookVars
<1>2. /\ e.from \in connected \cup {Primary} /\ e.from \in Screens /\ e.id \in Ids /\ e.seq \in Seqs
      /\ e = queue[1] /\ ~e.gone /\ (e.from = Primary => active = Primary)
  BY <1>0, <1>1 DEF Taking, Screens
<1>3. board' = [board EXCEPT ![e.id] = OnClipboardGrabbed(@, e.from, e.seq)]
  BY <1>2 DEF Grabbed
<1>4. PICK S : S = {}
  OBVIOUS
<1>5. Drawn(queue, queue', S) /\ \A x \in S : FALSE
  BY <1>0, <1>1, <1>4, DrawnTail
<1>6. ASSUME NEW c \in connected
      PROVE  IF c = e.from THEN down'[c] = down[c]
             ELSE \E x \in Messages : x.type = "grab" /\ x.id = e.id /\ down'[c] = Append(down[c], x)
  BY <1>0, <1>1 DEF Taking
<1>7. \A c \in connected : Still(c)
  BY <1>1 DEF Still, clientVars
<1>8. CASE id # e.id
  <2>1. board'[id] = board[id]
    BY <1>0, <1>3, <1>8
  <2>2. \A g : Undisturbed(g, id)
    <3>1. \A g : ~Reported(queue[1], g, id)
      BY <1>2, <1>8 DEF Reported
    <3> QED
      BY <1>0, <1>1, <3>1, UndisturbedTail
  <2>3. \A c \in connected : \/ down'[c] = down[c]
                             \/ \E x \in Messages : /\ down'[c] = Append(down[c], x)
                                                    /\ c = s => ~Lays(x, id)
    BY <1>6, <1>8 DEF Lays
  <2>4. UNCHANGED <<connected, active, made>>
    BY <1>1
  <2> QED
    BY <1>0, <1>5, <1>7, <2>1, <2>2, <2>3, <2>4, ServerHolds
<1>9. CASE id = e.id
  <2> DEFINE b == board[id]
             a == board'[id]
  <2>1. b \in Boards /\ a = OnClipboardGrabbed(b, e.from, e.seq)
    BY <1>0, <1>3, <1>9
  <2>2. /\ a.owner = e.from /\ a.seq = e.seq /\ a.data = 0 /\ a.cached = b.cached
        /\ \A z \in connected \cup {Primary} : a.dirty[z] <=> z # e.from
        /\ e.from = Primary => a.shown = b.shown /\ a.held = b.held
    <3> HIDE DEF a, b
    <3>1. PICK r : r = OnClipboardGrabbed(b, e.from, e.seq)
      OBVIOUS
    <3> QED
      BY <1>0, <1>2, <2>1, <3>1, OnClipboardGrabbedIs
  <2>3. queue[1] \in Reports(e.from, id)
    BY <1>1, <1>2, <1>9 DEF Reports
  <2>4. Grabber(e.from, id)
    <3>1. Report("grabbed", queue, e.from, id, 1) /\ queue[1].seq = e.seq /\ 1 \in Nat
      BY <1>0, <1>2, <1>9 DEF Report
    <3> QED
      BY <1>2, <3>1 DEF Grabber, Reporting
  <2>5. e.from = s
    BY <1>2, <2>4 DEF Holds, Standing
  <2>6. Current(s, id, n)' /\ Latest(made', id, n)
    <3>1. active \in connected \cup {Primary} /\ (s # Primary => n # 0)
      BY <1>0 DEF Typed, Holds, Ready
    <3> QED
      BY <1>1, <1>2, <2>2, <2>5, <3>1 DEF Current, Holds
  <2>7. ASSUME NEW c \in connected \ {s} PROVE Relinquished(c, id)' /\ (Grabber(c, id)' => Grabber(c, id))
    <3>1. PICK x \in Messages : x.type = "grab" /\ x.id = id /\ down'[c] = Append(down[c], x)
      BY <1>6, <1>9, <2>5, <2>7
    <3>2. Len(down[c]) + 1 \in Nat /\ GrabAt(down'[c], id, Len(down[c]) + 1)
      <4>1. down[c] \in Seq(Messages)
        BY <1>0, <2>7
      <4> QED
        BY <3>1, <4>1 DEF GrabAt
    <3>3. \A k : Reporting("grabbed", queue', c, id, k) => Reporting("grabbed", queue, c, id, k)
      BY <1>5, DrawnReport
    <3> QED
      BY <1>1, <3>2, <3>3 DEF Relinquished, Grabber, clientVars
  <2>8. (IF s = Primary THEN AtHome(id, n)' ELSE Ready(s, id, n)' /\ Unhampered(s, id)') /\ ~Grabber(s, id)'
    <3>1. CASE s = Primary
      <4>1. /\ Unique(queue', Reports(s, id)) /\ \A k \in Seqs : ~Reporting("grabbed", queue', s, id, k)
        BY <1>0, <1>1, <2>3, <2>5, <3>1, GrabGone DEF Holds, AtHome
      <4> QED
        BY <1>0, <2>2, <2>5, <3>1, <4>1 DEF AtHome, Grabber, Holds
    <3>2. CASE s # Primary
      <4>1. Unhampered(s, id)'
        <5>1. Unhampered(s, id) /\ Drawn(down[s], down'[s], S)
          BY <1>4, <1>6, <2>5, <3>2, DrawnSame DEF Holds
        <5> QED
          BY <1>5, <5>1, UnhamperedDrawn
      <4>2. Ready(s, id, n)' /\ ~Grabber(s, id)'
        BY <1>0, <1>1, <1>2, <2>2, <2>3, <2>5, <3>2, GrabbedReady
      <4> QED
        BY <3>2, <4>1, <4>2
    <3> QED
      BY <3>1, <3>2
  <2>9. Standing(s, id)'
    <3>1. ASSUME NEW g \in connected' \cup {Primary}, Grabber(g, id)' PROVE g = s
      <4>1. SUFFICES ASSUME g # s PROVE FALSE
        OBVIOUS
      <4>2. CASE g \in connected
        BY <2>7, <3>1, <4>1, <4>2 DEF Holds, Standing
      <4>3. CASE g = Primary
        <5>1. \A k : Reporting("grabbed", queue', g, id, k) => Reporting("grabbed", queue, g, id, k)
          BY <1>5, DrawnReport
        <5>2. Grabber(g, id)
          BY <1>0, <3>1, <4>3, <5>1 DEF Grabber
        <5> QED
          BY <4>1, <4>3, <5>2 DEF Holds, Standing
      <4> QED
        BY <1>1, <3>1, <4>2, <4>3
    <3> QED
      BY <2>2, <2>5, <2>8, <3>1 DEF Standing
  <2> QED
    BY <1>1, <2>6, <2>7, <2>8, <2>9 DEF Holds
<1> QED
  BY <1>8, <1>9

-----------------------------------------------------------------------------
(* The active screen changes *)

\* What is fetched from the primary does not make the screen dirty, nor change what the primary shows.
LEMMA FetchedClean ==
    ASSUME NEW b, NEW l, Fetched(b, l), NEW z \in connected \cup {Primary}, ~b.dirty[z],
           z = Primary \/ b.owner # Primary \/ l.dirty = b.dirty
    PROVE  ~l.dirty[z] /\ (z = Primary => l.shown = b.shown /\ l.held = b.held)
  BY DEF Fetched, Passed

LEMMA SwitchHolds ==
    ASSUME ClipboardAssumption, Patient, Typed', IInv, Delivered, Signed, NEW s \in connected \cup {Primary},
           NEW id \in Ids, NEW n, Holds(s, id, n), NEW dst \in Screens, SwitchScreen(dst)
    PROVE  Holds(s, id, n)'
<1>0. /\ Typed /\ connected \subseteq Clients /\ Primary \notin Clients /\ Oversize = {}
      /\ queue \in Seq(Events) /\ queue' \in Seq(Events) /\ down \in [Clients -> Seq(Messages)]
      /\ board[id] \in Boards /\ board'[id] \in Boards
  <2>1. board' \in [Ids -> Boards] /\ queue' \in Seq(Events)
    BY DEF Typed, TypeOK
  <2> QED
    BY <2>1 DEF IInv, Typed, TypeOK, ClipboardAssumption, Patient
<1>1. /\ dst # active /\ active' = dst /\ dst \in connected \cup {Primary}
      /\ UNCHANGED <<connected, clientVars, up, made>>
      /\ \A c \in Clients : \/ down'[c] = down[c]
                            \/ \E x \in Messages : down'[c] = Append(down[c], x) /\ ~Lays(x, id)
  <2> DEFINE x == [type |-> "leave"]
             y == [type |-> "enter", seq |-> seqNum']
  <2>1. /\ dst # active /\ active' = dst /\ dst \in connected \cup {Primary}
        /\ UNCHANGED <<connected, clientVars, up, made>>
        /\ \A c \in Clients : down'[c] \in {down[c], Append(down[c], x), Append(down[c], y)}
    BY DEF SwitchScreen, bookVars
  <2>2. x \in Messages /\ ~Lays(x, id) /\ y \in Messages /\ ~Lays(y, id)
    BY DEF Messages, Lays, Typed, TypeOK
  <2> HIDE DEF x, y
  <2> QED
    BY <2>1, <2>2
<1>2. PICK l \in [Ids -> Boards] :
         /\ \A k \in Ids : Fetched(board[k], l[k]) /\ Entrusted(l[k], dst, board'[k])
         /\ Drawn(queue, queue', {SendOf(dst, k, board'[k].clip) : k \in Wanted(l, dst)})
  BY <1>0, SwitchGives
<1> DEFINE a == l[id]
           S == {SendOf(dst, k, board'[k].clip) : k \in Wanted(l, dst)}
<1>3. a \in Boards /\ Fetched(board[id], a) /\ Given(a, dst, board'[id]) /\ Drawn(queue, queue', S)
  BY <1>0, <1>2 DEF Entrusted
<1>4. /\ a.owner = board[id].owner /\ a.seq = board[id].seq
      /\ \A c \in connected : a.cached[c] = board[id].cached[c]
      /\ board[id].owner # Primary => a = board[id]
      /\ (\E c \in connected : Grabber(c, id)) => a.data = board[id].data /\ a.dirty = board[id].dirty
  BY <1>3, FetchedIs
<1>5. \A e \in S : e.type = "send" /\ (e.id = id => e.to = dst /\ dst # Primary /\ a.dirty[dst])
  BY DEF SendOf, Wanted
<1> HIDE DEF a, S
<1>6. s # Primary => a.data = board[id].data /\ a.dirty = board[id].dirty
  <2>1. s # Primary /\ board[id].owner = Primary => s \in connected /\ Grabber(s, id)
    BY DEF Holds, Standing
  <2> QED
    BY <1>4, <2>1
<1>7. ~a.dirty[s] /\ (s = Primary => a.shown = board[id].shown /\ a.held = board[id].held)
  <2>1. ~board[id].dirty[s]
    BY DEF Holds, Current
  <2> QED
    BY <1>3, <1>6, <2>1, FetchedClean
<1>8. /\ board'[id].owner = board[id].owner /\ board'[id].seq = board[id].seq /\ board'[id].data = a.data
      /\ ~board'[id].dirty[dst] /\ ~board'[id].dirty[s]
      /\ s = Primary => board'[id].shown = board[id].shown /\ board'[id].held = board[id].held
      /\ s # Primary => board'[id].cached[s] = board[id].cached[s]
  <2>1. s \in Screens /\ a.cached \in [Clients -> Copies]
    BY <1>0, <1>3 DEF Screens, Boards
  <2>2. /\ board'[id].owner = board[id].owner /\ board'[id].seq = board[id].seq /\ board'[id].data = a.data
        /\ ~board'[id].dirty[dst]
    BY <1>3, <1>4 DEF Given
  <2>3. ~board'[id].dirty[s]
    BY <1>3, <1>7, <2>1, Zenon DEF Given
  <2>4. s = Primary => board'[id].shown = board[id].shown /\ board'[id].held = board[id].held
    BY <1>3, <1>7 DEF Given
  <2>5. ASSUME s # Primary PROVE board'[id].cached[s] = board[id].cached[s]
    <3>1. s \in connected /\ a.cached[s] = board[id].cached[s]
      BY <1>4, <2>5
    <3>2. CASE dst # Primary /\ a.dirty[dst]
      <4>1. board'[id].cached = [a.cached EXCEPT ![dst] = a.clip] /\ dst # s
        BY <1>3, <1>7, <3>2 DEF Given
      <4> QED
        BY <1>0, <2>1, <3>1, <4>1
    <3>3. CASE ~(dst # Primary /\ a.dirty[dst])
      BY <1>3, <3>1, <3>3 DEF Given
    <3> QED
      BY <3>2, <3>3
  <2> QED
    BY <2>2, <2>3, <2>4, <2>5
<1>9. ASSUME s # Primary PROVE Unhampered(s, id)'
  <2>1. \A e \in S : ~(e.type = "send" /\ e.to = s /\ e.id = id)
    BY <1>5, <1>7
  <2>2. Unhampered(s, id) /\ s \in Clients
    BY <1>0, <1>9 DEF Holds
  <2>3. PICK R : Drawn(down[s], down'[s], R) /\ \A m \in R : ~Lays(m, id)
    <3>1. CASE down'[s] = down[s]
      <4>1. PICK R : R = {}
        OBVIOUS
      <4> QED
        BY <3>1, <4>1, DrawnSame
    <3>2. ASSUME NEW x \in Messages, down'[s] = Append(down[s], x), ~Lays(x, id)
          PROVE  \E R : Drawn(down[s], down'[s], R) /\ \A m \in R : ~Lays(m, id)
      <4>1. Drawn(down[s], down'[s], {x})
        BY <1>0, <2>2, <3>2, DrawnAppend
      <4> QED
        BY <3>2, <4>1
    <3> QED
      BY <1>1, <2>2, <3>1, <3>2
  <2> QED
    BY <1>3, <2>1, <2>2, <2>3, UnhamperedDrawn
<1>10. \A g : Undisturbed(g, id)
  <2>1. Switched(dst)
    BY <1>0, SwitchScreenIs
  <2>2. PICK results \in [Ids -> Results] : Applied(results, queue, queue')
    BY <2>1 DEF Switched
  <2>3. Moved(queue, queue', 0) /\ \A i \in 1..Len(queue') : i > Len(queue) => queue'[i].type = "send"
    <3>1. Moved(queue, queue', 0)
      BY <2>2 DEF Applied
    <3>2. ASSUME NEW i \in 1..Len(queue'), i > Len(queue) PROVE queue'[i].type = "send"
      <4>1. PICK k \in Ids : \E z \in 1..Len(results[k].to) :
               queue'[i] = SendOf(results[k].to[z], k, results[k].board.clip)
        BY <2>2, <3>2 DEF Applied
      <4> QED
        BY <4>1 DEF SendOf
    <3> QED
      BY <3>1, <3>2
  <2>4. PICK j \in {0, 1} : j = 0
    OBVIOUS
  <2>5. Len(queue) \in Nat /\ Len(queue') \in Nat
    BY <1>0
  <2>6. ASSUME NEW g PROVE Undisturbed(g, id)
    <3>1. /\ Moved(queue, queue', j) /\ j # 1
          /\ \A i \in 1..Len(queue') : i + j > Len(queue) => ~Reported(queue'[i], g, id)
      BY <2>3, <2>4, <2>5 DEF Reported, Kinds
    <3> QED
      BY <1>0, <3>1, UndisturbedMoved
  <2> QED
    BY <2>6
<1>11. \A c \in connected : Still(c)
  BY <1>1 DEF Still, clientVars
<1>12. PICK d : d \notin connected \cup {Primary}
  BY NoSetContainsEverything
<1>13. Onward(s, id)
  <2>1. s # Primary => board'[id].cached[s] = board[id].cached[s] /\ Unhampered(s, id)'
    BY <1>8, <1>9
  <2>2. \A c \in connected : down'[c] = down[c] \/ \E x \in Messages : down'[c] = Append(down[c], x)
    BY <1>0, <1>1
  <2>3. connected' = connected /\ board'[id].owner = board[id].owner /\ d # Primary /\ d \notin connected
    BY <1>1, <1>8, <1>12
  <2> QED
    BY <1>0, <1>10, <1>11, <2>1, <2>2, <2>3, OthersOnward
<1>14. Latest(made', id, n) /\ Current(s, id, n)' /\ Same(id)
  BY <1>1, <1>8 DEF Current, Same, Holds
<1>15. IF s = Primary THEN ~board'[id].held /\ board'[id].shown = n ELSE board'[id].data = board[id].data
  BY <1>6, <1>8 DEF Holds, AtHome
<1> QED
  BY <1>0, <1>13, <1>14, <1>15, OnwardHolds

-----------------------------------------------------------------------------
(* A copy, when nothing is under way *)

LEMMA LatestMade ==
    ASSUME Typed, NEW s \in Screens, NEW k \in Ids, NewCopy(s, k)
    PROVE  /\ Len(made') = Len(made) + 1 /\ Len(made) \in Nat
           /\ Latest(made', k, Len(made'))
           /\ \A id, n : id # k /\ Latest(made, id, n) => Latest(made', id, n)
<1>1. PICK x \in [on : Screens, id : Ids] : x.id = k /\ made' = Append(made, x)
  BY DEF NewCopy
<1>2. made \in Seq([on : Screens, id : Ids])
  BY DEF Typed, TypeOK
<1>3. /\ Len(made') = Len(made) + 1 /\ Len(made) \in Nat /\ made'[Len(made) + 1] = x
      /\ \A i \in 1..Len(made) : made'[i] = made[i]
  BY <1>1, <1>2
<1>4. Latest(made', k, Len(made'))
  BY <1>1, <1>3 DEF Latest
<1>5. ASSUME NEW id, NEW n, id # k, Latest(made, id, n) PROVE Latest(made', id, n)
  <2>1. /\ n \in 0..Len(made) /\ (n # 0 => made[n].id = id)
        /\ \A m \in 1..Len(made) : made[m].id = id => m <= n
    BY <1>5 DEF Latest
  <2>2. n \in 0..Len(made') /\ (n # 0 => made'[n].id = id)
    BY <1>3, <2>1
  <2>3. ASSUME NEW m \in 1..Len(made'), made'[m].id = id PROVE m <= n
    BY <1>1, <1>3, <1>5, <2>1, <2>3
  <2> QED
    BY <2>2, <2>3 DEF Latest
<1> QED
  BY <1>3, <1>4, <1>5

\* Nothing is under way: the screen of the last copy owns the clipboard, and knows it, and
\* unless it is active the server has what was copied; the active one is not dirty.
LEMMA QuietHolds ==
    ASSUME ClipboardAssumption, IInv, Quiet, NEW id \in Ids, NEW s \in connected \cup {Primary}, NEW n, Holds(s, id, n)
    PROVE  /\ board[id].owner = s /\ \A g \in connected \cup {Primary} : ~Grabber(g, id)
           /\ \A c \in connected : mine[c][id].own <=> board[id].owner = c
           /\ s \notin {active, Primary} => board[id].data = n
           /\ ~board[id].dirty[active]
<1>0. /\ Typed /\ Primary \notin Clients /\ connected \subseteq Clients /\ queue = <<>> /\ Primary \notin connected
      /\ \A c \in Clients : clientQueue[c] = <<>> /\ down[c] = <<>> /\ up[c] = <<>>
  BY DEF IInv, Typed, TypeOK, Quiet, ClipboardAssumption
<1>1. \A i : i \notin 1..Len(<<>>)
  OBVIOUS
<1>2. \A type, c, i : ~Report(type, queue, c, id, i)
  BY <1>0, <1>1 DEF Report
<1>3. \A c \in connected :
        /\ \A i : /\ ~Asked(clientQueue[c], id, i) /\ ~Posted(clientQueue[c], id, i) /\ ~GrabAt(down[c], id, i)
        /\ \A i, type : ~Upward(type, up[c], id, i)
  BY <1>0, <1>1 DEF Asked, Posted, GrabAt, Upward
<1>4. \A g \in connected \cup {Primary} : ~Grabber(g, id)
  BY <1>0, <1>2, <1>3 DEF Grabber, Reporting, Rising, Asks
<1>5. board[id].owner = s
  BY <1>4 DEF Holds, Standing
<1>6. ASSUME NEW c \in connected PROVE mine[c][id].own <=> board[id].owner = c
  <2>1. CASE c = s
    <3>1. ~Asks(clientQueue[c], id)
      BY <1>3 DEF Asks
    <3> QED
      BY <1>0, <1>5, <2>1, <3>1 DEF Holds, Ready
  <2>2. CASE c # s
    BY <1>3, <1>5, <2>2 DEF Holds, Relinquished
  <2> QED
    BY <2>1, <2>2
<1>7. ASSUME s # Primary, s # active PROVE board[id].data = n
  <2>1. s \in connected /\ Ready(s, id, n)
    BY <1>7 DEF Holds
  <2>2. Silent(s, id)
    BY <1>7, <2>1, QuietSilent
  <2>3. ~Pending(s, id)
    <3>1. \A k \in Seqs : ~Bringing(s, id, k)
      BY <1>2, <1>3, <2>1 DEF Bringing, Updating, Posting, Rising, Reporting
    <3>2. ~Asks(clientQueue[s], id)
      BY <1>3, <2>1 DEF Asks
    <3> QED
      BY <2>2, <3>1, <3>2 DEF Pending, Silent
  <2> QED
    BY <2>1, <2>3 DEF Ready
<1>8. ~board[id].dirty[active]
  BY <1>7 DEF Holds, Current
<1> QED
  BY <1>4, <1>5, <1>6, <1>7, <1>8

LEMMA PrimaryCopiesHolds ==
    ASSUME ClipboardAssumption, Unhurried, Typed', IInv, Delivered, NEW s \in connected \cup {Primary},
           NEW id \in Ids, NEW n, Holds(s, id, n), NEW k \in Ids, PrimaryCopies(k)
    PROVE  \E z \in connected' \cup {Primary} : \E m \in Nat : (Holds(z, id, m))'
<1>0. /\ Typed /\ connected \subseteq Clients /\ Primary \notin Clients /\ Primary \in Screens
      /\ queue \in Seq(Events) /\ queue' \in Seq(Events) /\ board \in [Ids -> Boards] /\ board[id] \in Boards
      /\ primarySeq \in Seqs /\ n \in Nat
  <2>1. queue' \in Seq(Events)
    BY DEF Typed, TypeOK
  <2>2. n \in Nat
    BY DEF Holds, Latest, IInv, Typed, TypeOK
  <2> QED
    BY <2>1, <2>2 DEF IInv, Typed, TypeOK, ClipboardAssumption, Screens
<1>1. /\ active = Primary /\ NewCopy(Primary, k)
      /\ board' = [board EXCEPT ![k].shown = Len(made'), ![k].held = FALSE]
      /\ UNCHANGED <<connected, active, clientVars, netVars>>
  BY DEF PrimaryCopies, Unhurried
<1>2. Quiet /\ Len(made') \in Nat
  BY <1>0, <1>1, MadeIs, LatestMade
<1>3. PICK x \in Events : /\ x.type = "grabbed" /\ x.from = Primary /\ x.id = k /\ ~x.gone
                          /\ queue' = IF board[k].held THEN Append(queue, x) ELSE queue
  <2> DEFINE x == [type |-> "grabbed", from |-> Primary, id |-> k, seq |-> primarySeq, gone |-> FALSE]
  <2>1. queue' = IF board[k].held THEN Append(queue, x) ELSE queue
    BY DEF PrimaryCopies, Held
  <2>2. x.type = "grabbed" /\ x.from = Primary /\ x.id = k /\ ~x.gone
    OBVIOUS
  <2>3. x \in Events
    BY <1>0 DEF Events
  <2> QED
    BY <2>1, <2>2, <2>3
<1>4. /\ board'[id].owner = board[id].owner /\ board'[id].seq = board[id].seq
      /\ board'[id].data = board[id].data /\ board'[id].dirty = board[id].dirty /\ board'[id].cached = board[id].cached
      /\ board'[id].shown = IF id = k THEN Len(made') ELSE board[id].shown
      /\ board'[id].held = IF id = k THEN FALSE ELSE board[id].held
  <2>1. CASE id = k
    <3>1. board'[id] = [board[id] EXCEPT !.shown = Len(made'), !.held = FALSE]
      BY <1>0, <1>1, <2>1
    <3> QED
      BY <1>0, <2>1, <3>1 DEF Boards
  <2>2. CASE id # k
    BY <1>0, <1>1, <2>2
  <2> QED
    BY <2>1, <2>2
<1>5. \A c \in connected : Still(c) /\ down'[c] = down[c]
  BY <1>1 DEF Still, clientVars, netVars
<1>6. CASE id # k
  <2>1. \A g : Undisturbed(g, id)
    <3>1. \A g : ~Reported(x, g, id)
      BY <1>3, <1>6 DEF Reported
    <3>2. CASE board[k].held
      BY <1>0, <1>3, <3>1, <3>2, UndisturbedAppend
    <3>3. CASE ~board[k].held
      BY <1>3, <3>3, UndisturbedSame
    <3> QED
      BY <3>2, <3>3
  <2>2. PICK d : d \notin connected \cup {Primary}
    BY NoSetContainsEverything
  <2>3. ASSUME s # Primary PROVE board'[id].cached[s] = board[id].cached[s] /\ Unhampered(s, id)'
    <3>1. \A i : ~Bound(queue', s, id, i)
      <4>1. PICK S : /\ Drawn(queue, queue', S) /\ \A e \in S : e.type # "send"
        <5>1. CASE board[k].held
          <6>1. Drawn(queue, queue', {x}) /\ \A e \in {x} : e.type # "send"
            BY <1>0, <1>3, <5>1, DrawnAppend
          <6> QED
            BY <6>1
        <5>2. CASE ~board[k].held
          <6>1. PICK S : S = {}
            OBVIOUS
          <6> QED
            BY <1>3, <5>2, <6>1, DrawnSame
        <5> QED
          BY <5>1, <5>2
      <4>2. ASSUME NEW i, Bound(queue', s, id, i) PROVE FALSE
        <5>1. i \in Nat /\ Feeds(queue', s, id, queue'[i].value)
          BY <1>0, <4>2 DEF Feeds, Bound
        <5>2. Feeds(queue, s, id, queue'[i].value)
          BY <4>1, <5>1, DrawnFeed
        <5> QED
          BY <2>3, <5>2 DEF Feeds, Holds, Unhampered, Sending
      <4> QED
        BY <4>2
    <3>2. ~Covering(down'[s], id)
      BY <1>5, <2>3 DEF Holds, Unhampered
    <3> QED
      BY <1>4, <3>1, <3>2 DEF Unhampered, Sending
  <2>4. Onward(s, id)
    <3>1. connected' = connected /\ board'[id].owner = board[id].owner /\ d # Primary /\ d \notin connected
      BY <1>1, <1>4, <2>2
    <3> QED
      BY <1>0, <1>5, <2>1, <2>3, <3>1, OthersOnward
  <2>5. Level(id) /\ active' = active
    BY <1>1, <1>4, <1>6 DEF Level
  <2>6. Latest(made', id, n)
    BY <1>0, <1>1, <1>6, LatestMade DEF Holds
  <2>7. Holds(s, id, n)'
    BY <1>0, <2>4, <2>5, <2>6, LevelHolds
  <2> QED
    BY <1>0, <1>1, <2>7
<1>7. CASE id = k
  <2>1. PICK m : m = Len(made')
    OBVIOUS
  <2>2. /\ board[id].owner = s /\ \A g \in connected \cup {Primary} : ~Grabber(g, id)
        /\ \A c \in connected : mine[c][id].own <=> board[id].owner = c
        /\ ~board[id].dirty[Primary]
    BY <1>1, <1>2, QuietHolds
  <2>3. board[id].held <=> board[id].owner # Primary
    <3>1. ~Called(queue, id)
      BY <1>2 DEF Called, Report, Quiet
    <3> QED
      BY <2>2, <3>1 DEF Holds, AtHome, Delivered, CleanHome
  <2>4. queue = <<>> /\ queue' = IF board[id].held THEN <<x>> ELSE <<>>
    BY <1>2, <1>3, <1>7 DEF Quiet
  <2>5. ASSUME NEW g, g # Primary, NEW j PROVE ~Reporting("grabbed", queue', g, id, j)
    BY <1>0, <1>3, <2>4, <2>5 DEF Reporting, Report
  <2>6. (\E j \in Seqs : Reporting("grabbed", queue', Primary, id, j)) <=> board[id].held
    <3>1. (\E j \in Seqs : Reporting("grabbed", queue', Primary, id, j)) <=> Has(queue', Reports(Primary, id))
      BY <1>0, HasSome
    <3>2. CASE board[id].held
      <4>1. x \in Reports(Primary, id)
        BY <1>3, <1>7 DEF Reports
      <4> QED
        BY <2>4, <3>1, <3>2, <4>1 DEF Has
    <3>3. CASE ~board[id].held
      BY <2>4, <3>1, <3>3, HasNone
    <3> QED
      BY <3>2, <3>3
  <2>7. Unique(queue', Reports(Primary, id))
    BY <2>4 DEF Unique
  <2>8. AtHome(id, m)'
    BY <1>4, <1>7, <2>1, <2>7 DEF AtHome
  <2>9. Standing(Primary, id)'
    <3>1. \A g \in connected' : ~Grabber(g, id)'
      BY <1>0, <1>1, <2>2, <2>5 DEF Grabber, clientVars, netVars
    <3>2. Grabber(Primary, id)' <=> board[id].held
      BY <1>0, <2>6 DEF Grabber
    <3> QED
      BY <1>4, <2>3, <3>1, <3>2 DEF Standing
  <2>10. Current(Primary, id, m)'
    BY <1>1, <1>4, <2>2 DEF Current
  <2>11. Latest(made', id, m) /\ m \in Nat
    BY <1>0, <1>1, <1>2, <1>7, <2>1, LatestMade
  <2>12. \A c \in connected' \ {Primary} : Relinquished(c, id)'
    BY <1>1, <1>4, <2>2 DEF Relinquished, clientVars, netVars
  <2>13. Holds(Primary, id, m)'
    BY <2>8, <2>9, <2>10, <2>11, <2>12 DEF Holds
  <2> QED
    BY <2>11, <2>13
<1> QED
  BY <1>6, <1>7

\* A new copy on the active client d, where the clipboard has come to rest.
LEMMA CopiedReady ==
    ASSUME ClipboardAssumption, IInv, Typed', NEW d \in connected, NEW k \in Ids, NEW m \in Nat, Quiet,
           m > mine[d][k].data, m \notin Oversize, here[d], seq[d] # 0, mine'[d][k].shown = m, ~mine'[d][k].held,
           mine'[d][k].data = mine[d][k].data,
           mine'[d][k].own <=> mine[d][k].own, mine[d][k].own <=> board[k].owner = d,
           UNCHANGED <<queue, board, up, down, seq>>, NEW x \in Requests, x.type = "grabbed", x.id = k,
           clientQueue'[d] = IF mine[d][k].held THEN <<x>> ELSE <<>>,
           board[k].owner = d <=> ~mine[d][k].held
    PROVE  Ready(d, k, m)' /\ Unhampered(d, k)' /\ (Grabber(d, k)' <=> mine[d][k].held)
<1>0. /\ Typed /\ connected \subseteq Clients /\ queue = <<>> /\ d \in Clients /\ active = d
      /\ clientQueue[d] = <<>> /\ down[d] = <<>> /\ up[d] = <<>>
  BY QuietSilent DEF IInv, Typed, TypeOK, Quiet
<1>1. \A i : i \notin 1..Len(<<>>)
  OBVIOUS
<1>2. /\ \A type, c, i : ~Report(type, queue, c, k, i)
      /\ \A i : ~Bound(queue, d, k, i) /\ ~Over(down[d], k, i)
      /\ \A i, type : ~Upward(type, up[d], k, i)
  BY <1>0, <1>1 DEF Report, Bound, Over, Upward
<1>3. Asks(clientQueue'[d], k) <=> mine[d][k].held
  <2>1. CASE mine[d][k].held
    <3>1. 1 \in 1..Len(<<x>>) /\ <<x>>[1] = x
      OBVIOUS
    <3>2. Asked(clientQueue'[d], k, 1) /\ 1 \in Nat
      BY <2>1, <3>1 DEF Asked
    <3> QED
      BY <2>1, <3>2 DEF Asks
  <2>2. CASE ~mine[d][k].held
    BY <1>1, <2>2 DEF Asks, Asked
  <2> QED
    BY <2>1, <2>2
<1>4. \A i : ~Posted(clientQueue'[d], k, i)
  <2>1. CASE mine[d][k].held
    <3>1. \A i \in 1..Len(<<x>>) : <<x>>[i] = x
      OBVIOUS
    <3> QED
      BY <2>1, <3>1 DEF Posted
  <2>2. CASE ~mine[d][k].held
    BY <1>1, <2>2 DEF Posted
  <2> QED
    BY <2>1, <2>2
<1>5. /\ \A n : ~Rising("grab", up'[d], k, n) /\ ~Rising("clip", up'[d], k, n)
      /\ \A n, type : ~Reporting(type, queue', d, k, n)
      /\ \A n : ~Posting(clientQueue'[d], k, n)
      /\ \A y : ~Posts(clientQueue'[d], k, y) /\ ~Uploads(up'[d], k, y)
  BY <1>2, <1>4 DEF Rising, Reporting, Posting, Posts, Uploads
<1>6. \A n : ~Calling(d, k, n)' /\ ~Bringing(d, k, n)'
  BY <1>5 DEF Calling, Bringing, Grabbing, Updating
<1>7. Grabber(d, k)' <=> mine[d][k].held
  BY <1>0, <1>3, <1>5 DEF Grabber
<1>8. Single(d, k)'
  <2>1. Unique(clientQueue'[d], Askings(k)) /\ Unique(up'[d], Callings(k)) /\ Unique(queue', Reports(d, k))
    <3>1. \A i, j \in 1..Len(<<x>>) : i = j
      OBVIOUS
    <3> QED
      BY <1>0, <1>1, <3>1 DEF Unique
  <2> QED
    BY <1>5, <1>6, <2>1 DEF Single
<1>9. Dated(d, k)'
  <2>1. LastOn(here[d], seq[d], down[d], seqNum, active = d) /\ VisitAt(here[d], seq[d], down[d], 0)
    BY DEF IInv, Sitting, Sound, Course, VisitAt
  <2>2. \A j : ~LeaveAt(down[d], j)
    BY <1>0, <1>1 DEF LeaveAt
  <2>3. seq[d] = seqNum
    BY <2>1, <2>2 DEF LastOn, NumberAt
  <2>4. board[k].seq <= seq[d]
    BY <2>3 DEF IInv, Home
  <2> QED
    BY <1>6, <2>4 DEF Dated, Since
<1>10. (board'[k].owner = d /\ board'[k].data = m) \/ Pending(d, k)'
  <2>1. CASE mine[d][k].held
    BY <1>3, <2>1 DEF Pending
  <2>2. CASE ~mine[d][k].held
    <3>1. mine[d][k].data \in Nat
      <4>1. mine[d][k] \in Clips
        BY <1>0 DEF Typed, TypeOK
      <4> QED
        BY <4>1 DEF Clips, Copies, ClipboardAssumption
    <3>2. mine'[d][k].own /\ Sendable(mine'[d][k])
      BY <2>2, <3>1 DEF Sendable
    <3> QED
      BY <3>2 DEF Pending
  <2> QED
    BY <2>1, <2>2
<1>11. m # 0 /\ (mine'[d][k].own <=> ~Asks(clientQueue'[d], k))
  <2>1. mine[d][k].data \in Nat
    <3>1. mine[d][k] \in Clips
      BY <1>0 DEF Typed, TypeOK
    <3> QED
      BY <3>1 DEF Clips, Copies, ClipboardAssumption
  <2> QED
    BY <1>3, <2>1
<1>12. Unhampered(d, k)'
  BY <1>2 DEF Unhampered, Sending, Covering
<1>13. Ready(d, k, m)'
  BY <1>5, <1>8, <1>9, <1>10, <1>11 DEF Ready, Mails
<1> QED
  BY <1>7, <1>12, <1>13

LEMMA CopiesHolds ==
    ASSUME ClipboardAssumption, Patient, Typed', IInv, Delivered, NEW s \in connected \cup {Primary},
           NEW id \in Ids, NEW n, Holds(s, id, n), NEW d \in Clients, NEW k \in Ids, ClientCopies(d, k), Past(d, id)
    PROVE  \E z \in connected' \cup {Primary} : \E m \in Nat : (Holds(z, id, m))'
<1>0. /\ Typed /\ connected \subseteq Clients /\ Primary \notin Clients /\ d \in Screens
      /\ clientQueue \in [Clients -> Seq(Requests)] /\ mine \in [Clients -> [Ids -> Clips]]
      /\ Considerate /\ n \in Nat /\ Unhurried /\ Oversize = {} /\ seq \in [Clients -> Seqs]
  <2>1. n \in Nat
    BY DEF Holds, Latest, IInv, Typed, TypeOK
  <2> QED
    BY <2>1 DEF IInv, Typed, TypeOK, ClipboardAssumption, Screens, Patient
<1>1. /\ d \in connected /\ here[d] /\ seq[d] # 0 /\ NewCopy(d, k)
      /\ mine' = [mine EXCEPT ![d][k].shown = Len(made'), ![d][k].held = FALSE]
      /\ UNCHANGED <<connected, active, board, queue, here, seq, up, down>>
      /\ \A c \in Clients \ {d} : mine'[c] = mine[c]
      /\ \A i \in Ids \ {k} : mine'[d][i] = mine[d][i]
  <2>1. NewCopy(d, k) /\ mine' = [mine EXCEPT ![d][k].shown = Len(made'), ![d][k].held = FALSE]
    BY DEF ClientCopies
  <2>2. UNCHANGED <<serverVars, here, seq, netVars>>
    BY <1>0, CopiesAre
  <2> QED
    BY <1>0, <2>1, <2>2, CopiesAre DEF serverVars, netVars
<1>2. Quiet /\ Len(made') \in Nat /\ Len(made') = Len(made) + 1 /\ Len(made) \in Nat
  BY <1>0, <1>1, MadeIs, LatestMade
<1>3. PICK x \in Requests : x.type = "grabbed" /\ x.id = k /\
        clientQueue' = [clientQueue EXCEPT ![d] = IF mine[d][k].held THEN Append(@, x) ELSE @]
  <2>1. PICK x \in Requests : x.type = "grabbed" /\ x.id = k /\
          IF mine[d][k].held
          THEN clientQueue' = [clientQueue EXCEPT ![d] = Append(@, x)]
          ELSE Quiet /\ clientQueue' = clientQueue
    BY <1>0, CopiesAre
  <2> QED
    BY <1>0, <2>1
<1>4. \A c \in connected \ {d} : Still(c) /\ down'[c] = down[c]
  BY <1>0, <1>1, <1>3 DEF Still
<1>5. \A g : Undisturbed(g, id)
  BY <1>1, UndisturbedSame
<1>6. CASE id # k
  <2>1. AsideR(clientQueue[d], clientQueue'[d], id) /\ AsideU(up[d], up'[d], id)
    <3>1. AsideU(up[d], up'[d], id)
      BY <1>1, AsideSame
    <3>2. CASE mine[d][k].held
      <4>1. PICK j \in {0, 1} : j = 0
        OBVIOUS
      <4>2. PICK r \in Seq(Requests) : r = clientQueue[d]
        BY <1>0
      <4>3. PICK w : w = Append(r, x)
        OBVIOUS
      <4>4. /\ w \in Seq(Requests) /\ Moved(r, w, j) /\ Len(r) \in Nat /\ Len(w) = Len(r) + 1 /\ w[Len(r) + 1] = x
        BY <4>1, <4>3, MovedAppend
      <4>5. (\A i \in 1..Len(w) : i + j > Len(r) => w[i].id # id) /\ j # 1
        BY <1>3, <1>6, <4>1, <4>4
      <4>6. AsideR(r, w, id)
        BY <4>4, <4>5, AsideRMoved
      <4> QED
        BY <1>0, <1>3, <3>1, <3>2, <4>2, <4>3, <4>6
    <3>3. CASE ~mine[d][k].held
      BY <1>0, <1>3, <3>1, <3>3, AsideSame
    <3> QED
      BY <3>2, <3>3
  <2>2. ASSUME s # Primary PROVE Unhampered(s, id)'
    BY <1>1, <2>2 DEF Holds, Unhampered
  <2>3. ASSUME d = s PROVE Works(s, id)
    <3>1. Ready(s, id, n)
      BY <1>0, <2>3 DEF Holds
    <3>2. seq[s] <= seq'[s]
      <4>1. seq[s] \in Seqs
        BY <1>0, <2>3
      <4> QED
        BY <1>1, <4>1, Numbers
    <3>3. mine'[s][id] = mine[s][id] /\ board'[id].cached[s] = board[id].cached[s] /\ s \in Clients
      BY <1>1, <1>6, <2>3
    <3> QED
      BY <1>0, <1>5, <2>1, <2>3, <3>1, <3>2, <3>3, AsideWorks DEF Ready
  <2>4. ASSUME d # s PROVE (Grabber(d, id)' => Grabber(d, id)) /\ Relinquished(d, id)'
    <3>1. Relinquished(d, id)'
      BY <1>1, <1>6, <2>4 DEF Holds, Relinquished
    <3> QED
      BY <1>5, <2>1, <3>1, GrabberAside
  <2>5. Onward(s, id)
    <3>1. /\ connected' = connected /\ board'[id].owner = board[id].owner /\ d # Primary
          /\ s \notin {d, Primary} => board'[id].cached[s] = board[id].cached[s] /\ Unhampered(s, id)'
      BY <1>0, <1>1, <2>2
    <3>2. d \in connected =>
             IF d = s THEN Works(s, id) /\ Unhampered(s, id)'
             ELSE (Grabber(d, id)' => Grabber(d, id)) /\ Relinquished(d, id)'
      BY <1>0, <2>2, <2>3, <2>4
    <3> QED
      BY <1>0, <1>4, <1>5, <3>1, <3>2, OthersOnward
  <2>6. Level(id) /\ active' = active
    BY <1>1 DEF Level
  <2>7. Latest(made', id, n)
    BY <1>0, <1>1, <1>6, LatestMade DEF Holds
  <2>8. Holds(s, id, n)'
    BY <1>0, <2>5, <2>6, <2>7, LevelHolds
  <2> QED
    BY <1>0, <1>1, <2>8
<1>7. CASE id = k
  <2>1. PICK m : m = Len(made')
    OBVIOUS
  <2>2. /\ board[id].owner = s /\ \A g \in connected \cup {Primary} : ~Grabber(g, id)
        /\ \A c \in connected : mine[c][id].own <=> board[id].owner = c
        /\ ~board[id].dirty[active] /\ active = d
    BY <1>1, <1>2, QuietHolds, QuietSilent
  <2>3. board[id].owner = d <=> ~mine[d][id].held
    <3>1. board[id].owner = d => ~mine[d][id].held
      BY <1>0, <2>2 DEF Holds, Ready
    <3>2. ASSUME ~mine[d][id].held PROVE board[id].owner = d
      <4>1. \A i : i \notin 1..Len(<<>>)
        OBVIOUS
      <4>2. queue = <<>> /\ clientQueue[d] = <<>> /\ down[d] = <<>> /\ up[d] = <<>>
        BY <1>2 DEF Quiet
      <4>3. /\ \A i : ~GrabAt(down[d], id, i) /\ ~Asked(clientQueue[d], id, i)
            /\ \A type, i : ~Report(type, queue, d, id, i) /\ ~Upward(type, up[d], id, i)
        BY <4>1, <4>2 DEF GrabAt, Asked, Report, Upward
      <4>4. Awaited(queue, d, id) = {} /\ Sought(up[d], id) = {}
        BY <4>3 DEF Awaited, Sought, Reporting, Rising
      <4>5. Keeps(d, id)
        BY <1>1 DEF IInv, Bearings
      <4> QED
        BY <3>2, <4>3, <4>4, <4>5 DEF Keeps, Asks
    <3> QED
      BY <3>1, <3>2
  <2>4. /\ mine'[d][id].shown = m /\ ~mine'[d][id].held
        /\ mine'[d][id].own = mine[d][id].own /\ mine'[d][id].data = mine[d][id].data
    <3> DEFINE y == [mine[d][k] EXCEPT !.shown = Len(made'), !.held = FALSE]
    <3>0. mine' = [mine EXCEPT ![d][k].shown = Len(made'), ![d][k].held = FALSE]
      BY <1>1
    <3>1. mine' = [mine EXCEPT ![d][k] = y]
      BY <3>0
    <3>2. mine[d][k] \in Clips
      BY <1>0
    <3>3. y.shown = Len(made') /\ y.held = FALSE /\ y.own = mine[d][k].own /\ y.data = mine[d][k].data
      BY <3>2 DEF Clips
    <3> HIDE DEF y
    <3> QED
      BY <1>0, <1>7, <2>1, <3>1, <3>3
  <2>5. clientQueue'[d] = IF mine[d][id].held THEN <<x>> ELSE <<>>
    <3>1. clientQueue[d] = <<>>
      BY <1>2 DEF Quiet
    <3> QED
      BY <1>0, <1>3, <1>7, <3>1
  <2>6. m \in Nat /\ m > mine[d][id].data /\ m \notin Oversize
    <3>1. mine[d][id].data <= Len(made) /\ mine[d][id].data \in Nat
      <4>1. mine[d][id] \in Clips
        BY <1>0
      <4> QED
        BY <4>1 DEF Past, Clips, Copies, ClipboardAssumption
    <3> QED
      BY <1>0, <1>2, <2>1, <3>1
  <2>7. Ready(d, id, m)' /\ Unhampered(d, id)' /\ (Grabber(d, id)' <=> mine[d][id].held)
    <3>1. UNCHANGED <<queue, board, up, down, seq>> /\ x.id = id /\ (mine'[d][id].own <=> mine[d][id].own)
      BY <1>1, <1>3, <1>7, <2>4
    <3>2. /\ d \in connected /\ id \in Ids /\ m \in Nat /\ Quiet /\ m > mine[d][id].data /\ m \notin Oversize
          /\ here[d] /\ seq[d] # 0 /\ mine'[d][id].shown = m /\ ~mine'[d][id].held
          /\ mine'[d][id].data = mine[d][id].data /\ (mine'[d][id].own <=> mine[d][id].own)
          /\ (mine[d][id].own <=> board[id].owner = d)
      BY <1>1, <1>2, <2>2, <2>4, <2>6, <3>1
    <3>3. /\ UNCHANGED <<queue, board, up, down, seq>> /\ x \in Requests /\ x.type = "grabbed" /\ x.id = id
          /\ clientQueue'[d] = IF mine[d][id].held THEN <<x>> ELSE <<>>
          /\ (board[id].owner = d <=> ~mine[d][id].held)
      BY <1>3, <2>3, <2>5, <3>1
    <3> QED
      BY <3>2, <3>3, CopiedReady, SMTT(60)
  <2>8. Standing(d, id)'
    <3>1. ASSUME NEW g \in connected' \cup {Primary}, g # d PROVE ~Grabber(g, id)'
      <4>1. g \in Clients => clientQueue'[g] = clientQueue[g]
        BY <1>0, <1>3, <3>1
      <4> QED
        BY <1>1, <2>2, <3>1, <4>1 DEF Grabber
    <3> QED
      BY <1>1, <2>3, <2>7, <3>1 DEF Standing
  <2>9. Current(d, id, m)'
    BY <1>1, <2>2 DEF Current
  <2>10. Latest(made', id, m)
    BY <1>0, <1>1, <1>7, <2>1, LatestMade
  <2>11. \A c \in connected' \ {d} : Relinquished(c, id)'
    BY <1>0, <1>1, <2>2 DEF Relinquished
  <2>12. Holds(d, id, m)'
    BY <1>0, <2>7, <2>8, <2>9, <2>10, <2>11 DEF Holds
  <2> QED
    BY <1>1, <2>6, <2>12
<1> QED
  BY <1>6, <1>7

-----------------------------------------------------------------------------
(* A client at work *)

\* A step of client d alone.
LEMMA ClientHolds ==
    ASSUME ClipboardAssumption, Typed, Typed', NEW s \in connected \cup {Primary}, NEW id \in Ids, NEW n,
           Holds(s, id, n), UNCHANGED <<serverVars, made>>, NEW d \in connected,
           \A c \in Clients \ {d} : Still(c) /\ down'[c] = down[c],
           d = s => Works(s, id) /\ Unhampered(s, id)',
           d # s => (Grabber(d, id)' => Grabber(d, id)) /\ Relinquished(d, id)'
    PROVE  Holds(s, id, n)'
<1>0. /\ connected \subseteq Clients /\ Primary \notin Clients
      /\ UNCHANGED <<connected, active, board, queue, made>>
  BY DEF Typed, TypeOK, ClipboardAssumption, serverVars
<1>1. ASSUME s \notin {d, Primary} PROVE Unhampered(s, id)'
  <2>1. Unhampered(s, id) /\ queue' = queue /\ down'[s] = down[s]
    BY <1>0, <1>1 DEF Holds
  <2> QED
    BY <2>1 DEF Unhampered, Sending, Covering
<1>2. \A g : Undisturbed(g, id)
  BY <1>0, UndisturbedSame
<1>3. Level(id) /\ Latest(made', id, n) /\ active' = active
  BY <1>0 DEF Level, Holds
<1>4. Onward(s, id)
  <2>1. /\ connected' = connected /\ board'[id].owner = board[id].owner /\ d # Primary
        /\ \A c \in connected \ {d} : Still(c) /\ Undisturbed(c, id) /\ down'[c] = down[c]
    BY <1>0, <1>2
  <2>2. s \notin {d, Primary} => board'[id].cached[s] = board[id].cached[s] /\ Unhampered(s, id)'
    BY <1>0, <1>1
  <2> QED
    BY <1>2, <2>1, <2>2, OthersOnward
<1> QED
  BY <1>3, <1>4, LevelHolds

\* What ClientGrabs does: the grab is sent, and the contents are put behind, or kept to be sent.
Announces(d, k, y) ==
    /\ clientQueue[d] # <<>> /\ clientQueue[d][1].type = "grabbed" /\ clientQueue[d][1].id = k
    /\ y \in Messages /\ y.type = "grab" /\ y.id = k /\ y.seq = seq[d]
    /\ up'[d] = Append(up[d], y)
    /\ mine'[d][k].own /\ mine'[d][k].shown = mine[d][k].shown /\ mine'[d][k].held = mine[d][k].held
    /\ \A i \in Ids \ {k} : mine'[d][i] = mine[d][i]
    /\ \/ clientQueue'[d] = Tail(clientQueue[d]) /\ Sendable(mine'[d][k])
       \/ \E z \in Requests : /\ z.type = "send" /\ z.id = k /\ z.seq = seq[d] /\ z.value = mine[d][k].shown
                              /\ clientQueue'[d] = Append(Tail(clientQueue[d]), z)

LEMMA ClientGrabsAnnounces ==
    ASSUME ClipboardAssumption, Typed, Oversize = {}, NEW d \in Clients, ClientGrabs(d)
    PROVE  /\ \E k \in Ids : \E y \in Messages : Announces(d, k, y)
           /\ d \in connected /\ UNCHANGED <<serverVars, seq, down, made>>
           /\ \A c \in Clients \ {d} : Still(c) /\ down'[c] = down[c]
<1> DEFINE k == Head(clientQueue[d]).id
           m == [mine[d][k] EXCEPT !.own = TRUE, !.sent = FALSE]
           n == IF here[d] THEN m ELSE Sent(m)
           w == IF here[d] THEN <<>> ELSE Transfer(d, k, m)
           y == [type |-> "grab", id |-> k, seq |-> seq[d]]
           z == [type |-> "send", id |-> k, value |-> m.shown, seq |-> seq[d]]
<1>0. /\ clientQueue \in [Clients -> Seq(Requests)] /\ mine \in [Clients -> [Ids -> Clips]]
      /\ up \in [Clients -> Seq(Messages)] /\ connected \subseteq Clients /\ seq \in [Clients -> Seqs]
  BY DEF Typed, TypeOK
<1>1. /\ d \in connected /\ clientQueue[d] # <<>> /\ Head(clientQueue[d]).type = "grabbed"
      /\ UNCHANGED <<serverVars, here, seq, down, made>>
      /\ up' = [up EXCEPT ![d] = Append(@, y)]
      /\ mine' = [mine EXCEPT ![d][k] = IF here[d] THEN m ELSE Sent(m)]
      /\ clientQueue' = [clientQueue EXCEPT ![d] =
                           Tail(@) \o IF here[d] THEN <<>> ELSE Transfer(d, k, m)]
  BY DEF ClientGrabs, bookVars
<1>2. mine' = [mine EXCEPT ![d][k] = n] /\ clientQueue' = [clientQueue EXCEPT ![d] = Tail(@) \o w]
  BY <1>1
<1>3. k \in Ids /\ clientQueue[d][1].id = k /\ clientQueue[d][1].type = "grabbed"
  <2>1. clientQueue[d][1] = Head(clientQueue[d]) /\ clientQueue[d][1] \in Requests
    BY <1>0, <1>1
  <2> QED
    BY <1>1, <2>1 DEF Requests
<1>4. /\ m \in Clips /\ m.shown = mine[d][k].shown /\ m.own /\ ~m.sent /\ m.held = mine[d][k].held
  <2>1. mine[d][k] \in Clips
    BY <1>0, <1>3
  <2> QED
    BY <2>1 DEF Clips
<1>5. y \in Messages /\ y.type = "grab" /\ y.id = k /\ y.seq = seq[d]
  BY <1>0, <1>3 DEF Messages
<1>6. z.type = "send" /\ z.id = k /\ z.seq = seq[d] /\ z.value = m.shown
  OBVIOUS
<1>7. z \in Requests
  <2>1. m.shown \in Copies /\ seq[d] \in Seqs
    BY <1>0, <1>4 DEF Clips
  <2> QED
    BY <1>3, <2>1 DEF Requests
<1>8. Sendable(m)
  BY <1>4 DEF Sendable
<1>9. w = IF here[d] THEN <<>> ELSE <<z>>
  BY <1>8 DEF Transfer
<1> HIDE DEF k, m, w, y, z
<1>10. /\ n.shown = mine[d][k].shown /\ n.own /\ n.held = mine[d][k].held /\ (here[d] => Sendable(n))
  BY <1>4, <1>8, SentIs
<1> HIDE DEF n
<1>11. \/ here[d] /\ clientQueue'[d] = Tail(clientQueue[d])
       \/ clientQueue'[d] = Append(Tail(clientQueue[d]), z)
  <2>1. PICK q \in Seq(Requests) : q = Tail(clientQueue[d])
    <3>1. Tail(clientQueue[d]) \in Seq(Requests)
      BY <1>0, <1>1, MovedTail
    <3> QED
      BY <3>1
  <2>2. q \o <<>> = q /\ q \o <<z>> = Append(q, z)
    BY <1>7, <2>1, AppendIsConcat, ConcatEmptySeq
  <2>3. clientQueue'[d] = q \o w
    BY <1>0, <1>2, <2>1
  <2> QED
    BY <1>9, <2>1, <2>2, <2>3
<1>12. /\ mine'[d][k] = n /\ \A i \in Ids \ {k} : mine'[d][i] = mine[d][i]
       /\ up'[d] = Append(up[d], y)
  BY <1>0, <1>1, <1>2, <1>3
<1>13. Announces(d, k, y)
  BY <1>1, <1>3, <1>4, <1>5, <1>6, <1>7, <1>10, <1>11, <1>12 DEF Announces
<1>14. \A c \in Clients \ {d} : Still(c) /\ down'[c] = down[c]
  BY <1>0, <1>1, <1>2 DEF Still
<1> QED
  BY <1>1, <1>3, <1>5, <1>13, <1>14

\* The grab of the clipboard is sent.
LEMMA AnnouncesWorks ==
    ASSUME ClipboardAssumption, Typed, Typed', NEW d \in connected, NEW k \in Ids, NEW n, Ready(d, k, n),
           NEW y, Announces(d, k, y), UNCHANGED <<board, queue, seq>>
    PROVE  Works(d, k)
<1>0. /\ clientQueue[d] \in Seq(Requests) /\ clientQueue'[d] \in Seq(Requests)
      /\ up[d] \in Seq(Messages) /\ up'[d] \in Seq(Messages) /\ queue \in Seq(Events)
      /\ Single(d, k) /\ d \in Clients /\ y \in Messages /\ clientQueue[d] # <<>>
  BY DEF Typed, TypeOK, Ready, Announces
<1>1. seq[d] \in Seqs /\ seq'[d] = seq[d] /\ seq[d] <= seq'[d]
  <2>1. seq[d] \in Seqs /\ seq[d] \in Nat
    BY <1>0, Numbers DEF Typed, TypeOK
  <2> QED
    BY <2>1
<1>2. PICK q \in Seq(Requests) : q = Tail(clientQueue[d])
  BY <1>0, MovedTail
<1>3. \A X : /\ Has(clientQueue[d], X) <=> Has(q, X) \/ clientQueue[d][1] \in X
             /\ Unique(clientQueue[d], X) => Unique(q, X) /\ (clientQueue[d][1] \in X => ~Has(q, X))
  BY <1>0, <1>2, HasTail
<1>4. clientQueue[d][1] \in Askings(k)
  <2>1. clientQueue[d][1] \in Requests
    BY <1>0
  <2> QED
    BY <2>1 DEF Askings, Announces
<1>5. Asks(clientQueue[d], k) /\ ~Has(q, Askings(k))
  BY <1>0, <1>3, <1>4, HasRequests DEF Single
<1>z. \/ clientQueue'[d] = q /\ Sendable(mine'[d][k])
      \/ \E z \in Requests : /\ z.type = "send" /\ z.id = k /\ z.seq = seq[d] /\ z.value = mine[d][k].shown
                             /\ Joined(q, z, clientQueue'[d])
  <2>1. ASSUME NEW z \in Requests, clientQueue'[d] = Append(q, z) PROVE Joined(q, z, clientQueue'[d])
    <3>1. PICK p : p = clientQueue'[d]
      OBVIOUS
    <3>2. Joined(q, z, p)
      BY <2>1, <3>1, JoinedAppend
    <3> QED
      BY <3>1, <3>2
  <2> QED
    BY <1>2, <2>1 DEF Announces
<1>6. \A X : (\A e \in X : e.type # "send") => (Has(clientQueue'[d], X) => Has(q, X))
  BY <1>z DEF Joined
<1>7. ~Asks(clientQueue'[d], k)
  <2>1. \A e \in Askings(k) : e.type # "send"
    BY DEF Askings
  <2> QED
    BY <1>0, <1>5, <1>6, <2>1, HasRequests
<1>8. \A X : /\ Has(up'[d], X) <=> Has(up[d], X) \/ y \in X
             /\ Unique(up[d], X) /\ (y \in X => ~Has(up[d], X)) => Unique(up'[d], X)
  <2>1. up'[d] = Append(up[d], y)
    BY DEF Announces
  <2>2. Joined(up[d], y, up'[d])
    BY <1>0, <2>1, JoinedAppend
  <2> QED
    BY <2>2 DEF Joined
<1>9. \A j \in Seqs : ~Calling(d, k, j) /\ ~Bringing(d, k, j)
  BY <1>5 DEF Single, Ready
<1>10. /\ \A j : Rising("grab", up'[d], k, j) <=> Rising("grab", up[d], k, j) \/ j = seq[d]
       /\ \A j : Rising("clip", up'[d], k, j) <=> Rising("clip", up[d], k, j)
       /\ \A x : Uploads(up'[d], k, x) <=> Uploads(up[d], k, x)
  <2>1. \A j : y \in RisesAt("grab", k, {j}) <=> j = seq[d]
    BY <1>0 DEF RisesAt, Announces
  <2>2. \A j : y \notin RisesAt("clip", k, {j}) /\ y \notin RisesOf(k, j)
    BY DEF RisesAt, RisesOf, Announces
  <2> QED
    BY <1>0, <1>8, <2>1, <2>2, HasMessages
<1>11. /\ \A j : Posting(clientQueue'[d], k, j) => Posting(clientQueue[d], k, j) \/ j = seq[d]
       /\ \A x : Posts(clientQueue'[d], k, x) => Posts(clientQueue[d], k, x) \/ x = mine[d][k].shown
  <2>1. CASE clientQueue'[d] = q
    BY <1>0, <1>3, <2>1, HasRequests
  <2>2. ASSUME NEW z \in Requests, z.type = "send", z.id = k, z.seq = seq[d], z.value = mine[d][k].shown,
               Joined(q, z, clientQueue'[d])
        PROVE  /\ \A j : Posting(clientQueue'[d], k, j) => Posting(clientQueue[d], k, j) \/ j = seq[d]
               /\ \A x : Posts(clientQueue'[d], k, x) => Posts(clientQueue[d], k, x) \/ x = mine[d][k].shown
    <3>1. \A X : Has(clientQueue'[d], X) => Has(clientQueue[d], X) \/ z \in X
      BY <1>3, <2>2 DEF Joined
    <3>2. \A j : z \in PostsAt(k, {j}) => j = seq[d]
      BY <2>2 DEF PostsAt
    <3>3. \A x : z \in PostsOf(k, x) => x = mine[d][k].shown
      BY <2>2 DEF PostsOf
    <3>4. \A j : Posting(clientQueue'[d], k, j) => Posting(clientQueue[d], k, j) \/ j = seq[d]
      BY <1>0, <3>1, <3>2, HasRequests
    <3>5. \A x : Posts(clientQueue'[d], k, x) => Posts(clientQueue[d], k, x) \/ x = mine[d][k].shown
      BY <1>0, <3>1, <3>3, HasRequests
    <3> QED
      BY <3>4, <3>5
  <2> QED
    BY <1>z, <2>1, <2>2
<1>12. Pending(d, k)'
  <2>1. CASE Sendable(mine'[d][k])
    BY <2>1 DEF Pending, Announces
  <2>2. ASSUME NEW z \in Requests, z.type = "send", z.id = k, z.seq = seq[d], Joined(q, z, clientQueue'[d])
        PROVE  Pending(d, k)'
    <3>1. z \in PostsAt(k, {seq[d]})
      BY <2>2 DEF PostsAt
    <3>2. Posting(clientQueue'[d], k, seq[d])
      BY <1>0, <2>2, <3>1, HasRequests DEF Joined
    <3> QED
      BY <1>1, <3>2 DEF Pending, Bringing, Updating
  <2> QED
    BY <1>z, <2>1, <2>2
<1>13. \A j \in Seqs : Calling(d, k, j)' => Calling(d, k, j) \/ j = seq[d]
  BY <1>10 DEF Calling, Grabbing
<1>14. \A j \in Seqs : Bringing(d, k, j)' => Bringing(d, k, j) \/ j = seq[d]
  BY <1>10, <1>11 DEF Bringing, Updating
<1>15. \A x \in Copies : Mails(d, k, x)' => Mails(d, k, x) \/ x = mine[d][k].shown
  BY <1>10, <1>11 DEF Mails
<1>16. Single(d, k)'
  <2>1. Unique(up'[d], Callings(k))
    <3>1. \A j \in Seqs : ~Rising("grab", up[d], k, j)
      BY <1>9 DEF Calling, Grabbing
    <3>2. ~Has(up[d], Callings(k))
      BY <1>0, <3>1, HasSome
    <3> QED
      BY <1>0, <1>8, <3>2 DEF Single
  <2>2. Unique(clientQueue'[d], Askings(k))
    <3>1. Unique(q, Askings(k))
      BY <1>0, <1>3 DEF Single
    <3>2. ASSUME NEW z \in Requests, z.type = "send", Joined(q, z, clientQueue'[d])
          PROVE  Unique(clientQueue'[d], Askings(k))
      <4>1. z \notin Askings(k)
        BY <3>2 DEF Askings
      <4> QED
        BY <3>1, <3>2, <4>1 DEF Joined
    <3> QED
      BY <1>z, <3>1, <3>2
  <2>3. Unique(queue', Reports(d, k))
    BY <1>0 DEF Single
  <2>4. \A j \in Seqs : ~Reporting("grabbed", queue', d, k, j)
    BY <1>9 DEF Calling, Grabbing
  <2> QED
    BY <1>7, <2>1, <2>2, <2>3, <2>4 DEF Single
<1>17. Grabber(d, k)' /\ Grabber(d, k)
  BY <1>0, <1>1, <1>5, <1>10 DEF Grabber
<1>18. mine'[d][k].own /\ mine'[d][k].shown = mine[d][k].shown /\ mine'[d][k].held = mine[d][k].held
  BY DEF Announces
<1>19. \A j \in Seqs : Reporting("changed", queue', d, k, j) =>
          Reporting("changed", queue, d, k, j) /\ board'[k].cached[d] = board[k].cached[d]
  OBVIOUS
<1> QED
  BY <1>1, <1>5, <1>7, <1>12, <1>13, <1>14, <1>15, <1>16, <1>17, <1>18, <1>19 DEF Works

\* The contents that were posted are sent: nothing else changes.
LEMMA PassedWorks ==
    ASSUME ClipboardAssumption, Typed, Typed', NEW d \in connected, NEW id \in Ids, NEW n, Ready(d, id, n),
           NEW e, clientQueue[d] # <<>>, e = clientQueue[d][1], e.type = "send", e.id = id,
           NEW y \in Messages, y.type = "clip", y.id = id, y.seq = e.seq, y.value = e.value,
           up'[d] = Append(up[d], y), clientQueue'[d] = Tail(clientQueue[d]),
           mine'[d] = mine[d], UNCHANGED <<board, queue, seq>>
    PROVE  Works(d, id)
<1>0. /\ clientQueue[d] \in Seq(Requests) /\ clientQueue'[d] \in Seq(Requests)
      /\ up[d] \in Seq(Messages) /\ up'[d] \in Seq(Messages)
      /\ Single(d, id) /\ d \in Clients /\ (mine[d][id].own <=> ~Asks(clientQueue[d], id))
  BY DEF Typed, TypeOK, Ready
<1>1. seq[d] \in Seqs /\ seq'[d] = seq[d] /\ seq[d] <= seq'[d]
  <2>1. seq[d] \in Seqs /\ seq[d] \in Nat
    BY <1>0, Numbers DEF Typed, TypeOK
  <2> QED
    BY <2>1
<1>2. \A X : /\ Has(clientQueue[d], X) <=> Has(clientQueue'[d], X) \/ e \in X
             /\ Unique(clientQueue[d], X) => Unique(clientQueue'[d], X)
  <2>1. PICK q : q = clientQueue'[d]
    OBVIOUS
  <2> QED
    BY <1>0, <2>1, HasTail
<1>3. Joined(up[d], y, up'[d])
  BY <1>0, JoinedAppend
<1>4. e \in Requests
  BY <1>0
<1>5. /\ Asks(clientQueue'[d], id) <=> Asks(clientQueue[d], id)
      /\ \A j : Posting(clientQueue[d], id, j) <=> Posting(clientQueue'[d], id, j) \/ j = e.seq
      /\ \A x : Posts(clientQueue[d], id, x) <=> Posts(clientQueue'[d], id, x) \/ x = e.value
  <2>1. e \notin Askings(id)
    BY DEF Askings
  <2>2. \A j : e \in PostsAt(id, {j}) <=> j = e.seq
    BY <1>4 DEF PostsAt
  <2>3. \A x : e \in PostsOf(id, x) <=> x = e.value
    BY <1>4 DEF PostsOf
  <2>4. Asks(clientQueue'[d], id) <=> Asks(clientQueue[d], id)
    BY <1>0, <1>2, <2>1, HasRequests
  <2>5. \A j : Posting(clientQueue[d], id, j) <=> Posting(clientQueue'[d], id, j) \/ j = e.seq
    BY <1>0, <1>2, <2>2, HasRequests
  <2>6. \A x : Posts(clientQueue[d], id, x) <=> Posts(clientQueue'[d], id, x) \/ x = e.value
    BY <1>0, <1>2, <2>3, HasRequests
  <2> QED
    BY <2>4, <2>5, <2>6
<1>6. /\ \A j : Rising("grab", up'[d], id, j) <=> Rising("grab", up[d], id, j)
      /\ \A j : Rising("clip", up'[d], id, j) <=> Rising("clip", up[d], id, j) \/ j = e.seq
      /\ \A x : Uploads(up'[d], id, x) <=> Uploads(up[d], id, x) \/ x = e.value
  <2>1. \A j : y \notin RisesAt("grab", id, {j})
    BY DEF RisesAt
  <2>2. \A j : y \in RisesAt("clip", id, {j}) <=> j = e.seq
    BY DEF RisesAt
  <2>3. \A x : y \in RisesOf(id, x) <=> x = e.value
    BY DEF RisesOf
  <2>4. \A j : Rising("grab", up'[d], id, j) <=> Rising("grab", up[d], id, j)
    BY <1>0, <1>3, <2>1, HasMessages DEF Joined
  <2>5. \A j : Rising("clip", up'[d], id, j) <=> Rising("clip", up[d], id, j) \/ j = e.seq
    BY <1>0, <1>3, <2>2, HasMessages DEF Joined
  <2>6. \A x : Uploads(up'[d], id, x) <=> Uploads(up[d], id, x) \/ x = e.value
    BY <1>0, <1>3, <2>3, HasMessages DEF Joined
  <2> QED
    BY <2>4, <2>5, <2>6
<1>7. \A j \in Seqs : (Calling(d, id, j)' <=> Calling(d, id, j)) /\ (Bringing(d, id, j)' <=> Bringing(d, id, j))
  BY <1>5, <1>6 DEF Calling, Bringing, Grabbing, Updating
<1>8. \A x \in Copies : Mails(d, id, x)' => Mails(d, id, x)
  BY <1>5, <1>6 DEF Mails
<1>9. Single(d, id)'
  <2>1. Unique(up'[d], Callings(id))
    <3>1. y \notin Callings(id)
      BY DEF Callings
    <3> QED
      BY <1>0, <1>3, <3>1 DEF Single, Joined
  <2>2. Unique(clientQueue'[d], Askings(id))
    BY <1>0, <1>2 DEF Single
  <2> QED
    BY <1>0, <1>5, <1>6, <1>7, <2>1, <2>2 DEF Single
<1>10. Grabber(d, id)' <=> Grabber(d, id)
  BY <1>0, <1>5, <1>6 DEF Grabber
<1>11. Pending(d, id) => Pending(d, id)'
  BY <1>5, <1>7 DEF Pending
<1>12. \A j \in Seqs : Reporting("changed", queue', d, id, j) =>
          Reporting("changed", queue, d, id, j) /\ board'[id].cached[d] = board[id].cached[d]
  OBVIOUS
<1>13. mine'[d][id].own <=> ~Asks(clientQueue'[d], id)
  BY <1>0, <1>5
<1> QED
  BY <1>1, <1>5, <1>7, <1>8, <1>9, <1>10, <1>11, <1>12, <1>13 DEF Works

\* What is about another clipboard.
LEMMA OtherWorks ==
    ASSUME ClipboardAssumption, Typed, Typed', NEW s \in connected \cup {Primary}, NEW id \in Ids, NEW n,
           Holds(s, id, n), NEW d \in connected, UNCHANGED <<board, queue>>, seq[d] <= seq'[d],
           AsideR(clientQueue[d], clientQueue'[d], id), AsideU(up[d], up'[d], id), mine'[d][id] = mine[d][id],
           \A i \in Nat : GrabAt(down[d], id, i) => \E j \in Nat : GrabAt(down'[d], id, j)
    PROVE  /\ d = s => Works(s, id)
           /\ d # s => (Grabber(d, id)' => Grabber(d, id)) /\ Relinquished(d, id)'
<1>0. d \in Clients /\ Primary \notin Clients
  BY DEF Typed, TypeOK, ClipboardAssumption
<1>1. Undisturbed(d, id)
  BY UndisturbedSame
<1>2. ASSUME d = s PROVE Works(s, id)
  <2>1. Ready(d, id, n)
    BY <1>0, <1>2 DEF Holds
  <2> QED
    BY <1>0, <1>1, <1>2, <2>1, AsideWorks DEF Ready
<1>3. ASSUME d # s PROVE Relinquished(d, id)'
  BY <1>3 DEF Holds, Relinquished
<1> QED
  BY <1>1, <1>2, <1>3, GrabberAside

LEMMA GrabsHolds ==
    ASSUME ClipboardAssumption, Patient, Typed, Typed', NEW s \in connected \cup {Primary}, NEW id \in Ids, NEW n,
           Holds(s, id, n), NEW d \in Clients, ClientGrabs(d)
    PROVE  Holds(s, id, n)'
<1>1. /\ d \in connected /\ UNCHANGED <<serverVars, seq, down, made>>
      /\ \A c \in Clients \ {d} : Still(c) /\ down'[c] = down[c]
  BY ClientGrabsAnnounces DEF Patient
<1>2. PICK k \in Ids, y \in Messages : Announces(d, k, y)
  BY ClientGrabsAnnounces DEF Patient
<1>3. /\ clientQueue[d] \in Seq(Requests) /\ up[d] \in Seq(Messages) /\ Primary \notin Clients
      /\ UNCHANGED <<board, queue>> /\ seq[d] <= seq'[d]
  <2>1. seq[d] \in Seqs
    BY DEF Typed, TypeOK
  <2>2. seq[d] <= seq[d]
    BY <2>1, Numbers
  <2> QED
    BY <1>1, <2>2 DEF Typed, TypeOK, ClipboardAssumption, serverVars
<1>4. ASSUME d = s PROVE Unhampered(s, id)'
  BY <1>1, <1>3, <1>4 DEF Holds, Unhampered
<1>5. CASE id = k
  <2>1. Grabber(d, id)
    <3>1. Asks(clientQueue[d], id)
      BY <1>2, <1>3, <1>5, AskFirst DEF Announces
    <3> QED
      BY <3>1 DEF Grabber
  <2>2. d = s
    BY <1>1, <2>1 DEF Holds, Standing
  <2>3. Works(s, id)
    <3>1. Ready(d, id, n)
      BY <1>3, <2>2 DEF Holds
    <3> QED
      BY <1>1, <1>2, <1>3, <1>5, <2>2, <3>1, AnnouncesWorks
  <2> QED
    BY <1>1, <1>4, <2>2, <2>3, ClientHolds
<1>6. CASE id # k
  <2>1. AsideU(up[d], up'[d], id)
    BY <1>2, <1>3, <1>6, AsideAppend DEF Announces
  <2>2. AsideR(clientQueue[d], clientQueue'[d], id)
    <3>1. clientQueue[d] # <<>> /\ clientQueue[d][1].id # id
      BY <1>2, <1>6 DEF Announces
    <3>2. AsideR(clientQueue[d], Tail(clientQueue[d]), id)
      BY <1>3, <3>1, AsideTail
    <3>3. PICK q \in Seq(Requests) : q = Tail(clientQueue[d])
      BY <1>3, <3>1, MovedTail
    <3>4. ASSUME NEW z \in Requests, z.id = k, clientQueue'[d] = Append(q, z)
          PROVE  AsideR(clientQueue[d], clientQueue'[d], id)
      <4>1. PICK j \in {0, 1} : j = 0
        OBVIOUS
      <4>2. PICK w : w = Append(q, z)
        OBVIOUS
      <4>3. /\ w \in Seq(Requests) /\ Moved(q, w, j) /\ Len(q) \in Nat /\ Len(w) = Len(q) + 1 /\ w[Len(q) + 1] = z
        BY <3>4, <4>1, <4>2, MovedAppend
      <4>4. (\A i \in 1..Len(w) : i + j > Len(q) => w[i].id # id) /\ j # 1
        BY <1>6, <3>4, <4>1, <4>3
      <4>5. AsideR(q, w, id)
        BY <4>3, <4>4, AsideRMoved
      <4> QED
        BY <3>2, <3>3, <3>4, <4>2, <4>5 DEF AsideR
    <3> QED
      BY <1>2, <3>2, <3>3, <3>4 DEF Announces
  <2>3. mine'[d][id] = mine[d][id]
    BY <1>2, <1>6 DEF Announces
  <2>4. \A i \in Nat : GrabAt(down[d], id, i) => \E j \in Nat : GrabAt(down'[d], id, j)
    BY <1>1
  <2>5. /\ d = s => Works(s, id)
        /\ d # s => (Grabber(d, id)' => Grabber(d, id)) /\ Relinquished(d, id)'
    BY <1>1, <1>3, <2>1, <2>2, <2>3, <2>4, OtherWorks
  <2> QED
    BY <1>1, <1>4, <2>5, ClientHolds
<1> QED
  BY <1>5, <1>6

LEMMA SendsHolds ==
    ASSUME ClipboardAssumption, Typed, Typed', NEW s \in connected \cup {Primary}, NEW id \in Ids, NEW n,
           Holds(s, id, n), NEW d \in Clients, ClientSends(d)
    PROVE  Holds(s, id, n)'
<1> DEFINE e == Head(clientQueue[d])
           y == [type |-> "clip", id |-> e.id, value |-> e.value, seq |-> e.seq]
<1>0. /\ clientQueue \in [Clients -> Seq(Requests)] /\ up \in [Clients -> Seq(Messages)]
      /\ Primary \notin Clients /\ connected \subseteq Clients
  BY DEF Typed, TypeOK, ClipboardAssumption
<1>1. /\ d \in connected /\ clientQueue[d] # <<>> /\ e.type = "send"
      /\ UNCHANGED <<serverVars, here, seq, mine, down, made>>
      /\ up' = [up EXCEPT ![d] = Append(@, y)]
      /\ clientQueue' = [clientQueue EXCEPT ![d] = Tail(@)]
  BY DEF ClientSends, bookVars
<1>2. e = clientQueue[d][1] /\ e \in Requests
  BY <1>0, <1>1
<1>3. y \in Messages
  BY <1>1, <1>2, RequestIs DEF Messages
<1>y. y.type = "clip" /\ y.id = e.id /\ y.value = e.value /\ y.seq = e.seq
  OBVIOUS
<1> HIDE DEF e, y
<1>4. /\ clientQueue'[d] = Tail(clientQueue[d]) /\ up'[d] = Append(up[d], y)
      /\ \A c \in Clients \ {d} : Still(c) /\ down'[c] = down[c]
  BY <1>0, <1>1 DEF Still
<1>5. UNCHANGED <<board, queue, serverVars, made>> /\ seq' = seq /\ mine' = mine /\ seq[d] <= seq'[d]
  <2>1. seq[d] \in Seqs
    BY DEF Typed, TypeOK
  <2>2. seq[d] <= seq[d]
    BY <2>1, Numbers
  <2> QED
    BY <1>1, <2>2 DEF serverVars
<1>6. ASSUME d = s PROVE Unhampered(s, id)'
  BY <1>0, <1>1, <1>5, <1>6 DEF Holds, Unhampered
<1>7. ASSUME d = s PROVE Works(s, id)
  <2>1. Ready(d, id, n)
    BY <1>0, <1>7 DEF Holds
  <2>2. CASE e.id = id
    BY <1>1, <1>2, <1>3, <1>y, <1>4, <1>5, <1>7, <2>1, <2>2, PassedWorks
  <2>3. CASE e.id # id
    <3>1. AsideR(clientQueue[d], clientQueue'[d], id) /\ AsideU(up[d], up'[d], id)
      BY <1>0, <1>1, <1>2, <1>3, <1>y, <1>4, <2>3, AsideTail, AsideAppend
    <3>2. \A i \in Nat : GrabAt(down[d], id, i) => \E j \in Nat : GrabAt(down'[d], id, j)
      BY <1>1
    <3> QED
      BY <1>1, <1>5, <1>7, <3>1, <3>2, OtherWorks
  <2> QED
    BY <2>2, <2>3
<1>8. ASSUME d # s PROVE (Grabber(d, id)' => Grabber(d, id)) /\ Relinquished(d, id)'
  <2>1. Drawn(clientQueue[d], clientQueue'[d], {}) /\ Drawn(up[d], up'[d], {y})
    BY <1>0, <1>1, <1>4, DrawnTail, DrawnAppend
  <2>2. Asks(clientQueue'[d], id) => Asks(clientQueue[d], id)
    BY <2>1, DrawnAsk
  <2>3. \A t \in Seqs : Rising("grab", up'[d], id, t) => Rising("grab", up[d], id, t)
    BY <1>y, <2>1, DrawnRise
  <2>4. Grabber(d, id)' => Grabber(d, id)
    BY <1>5, <2>2, <2>3 DEF Grabber
  <2>5. Relinquished(d, id)'
    BY <1>1, <1>5, <1>8 DEF Holds, Relinquished
  <2> QED
    BY <2>4, <2>5
<1> QED
  BY <1>1, <1>4, <1>5, <1>6, <1>7, <1>8, ClientHolds

LEMMA StaleHolds ==
    ASSUME ClipboardAssumption, Typed, Typed', NEW s \in connected \cup {Primary}, NEW id \in Ids, NEW n,
           Holds(s, id, n), NEW d \in Clients, ClientSendsStale(d)
    PROVE  Holds(s, id, n)'
<1>1. /\ d \notin connected /\ clientQueue' = [clientQueue EXCEPT ![d] = Tail(@)]
      /\ UNCHANGED <<serverVars, here, seq, mine, netVars, bookVars>>
  BY DEF ClientSendsStale
<1>2. ASSUME NEW c \in connected PROVE Still(c)
  <2>1. clientQueue'[c] = clientQueue[c]
    BY <1>1 DEF Typed, TypeOK
  <2> QED
    BY <1>1, <2>1 DEF Still, netVars
<1>3. UNCHANGED <<connected, active, board, queue, down, made>>
  BY <1>1 DEF serverVars, netVars, bookVars
<1> QED
  BY <1>2, <1>3, IdleHolds

\* What the client has to send is posted when it is left.
LEMMA LeavesPosts ==
    ASSUME ClipboardAssumption, Typed, NEW d \in Clients, ClientReceives(d), down[d][1].type = "leave",
           NEW id \in Ids, mine[d][id].own, Sendable(mine[d][id])
    PROVE  Posting(clientQueue'[d], id, seq[d])
<1> DEFINE part(k) == IF mine[d][k].own THEN Transfer(d, k, mine[d][k]) ELSE <<>>
           parts == [k \in Ids |-> part(k)]
           v == InTurn(parts)
           q == clientQueue[d]
           z == [type |-> "send", id |-> id, value |-> mine[d][id].shown, seq |-> seq[d]]
<1>0. /\ mine \in [Clients -> [Ids -> Clips]] /\ seq \in [Clients -> Seqs] /\ q \in Seq(Requests)
      /\ clientQueue \in [Clients -> Seq(Requests)] /\ down \in [Clients -> Seq(Messages)]
  BY DEF Typed, TypeOK
<1>1. /\ down[d] # <<>> /\ Head(down[d]).type = "leave"
  <2>1. down[d] # <<>>
    BY DEF ClientReceives
  <2> QED
    BY <1>0, <2>1
<1>2. clientQueue' = [clientQueue EXCEPT ![d] =
         @ \o InTurn([k \in Ids |-> IF mine[d][k].own THEN Transfer(d, k, mine[d][k]) ELSE <<>>])]
  BY <1>1 DEF ClientReceives
<1>3. clientQueue'[d] = q \o v
  BY <1>0, <1>2
<1>4. ASSUME NEW k \in Ids PROVE part(k) \in Seq(Requests)
  <2>1. CASE mine[d][k].own
    <3>1. part(k) = Transfer(d, k, mine[d][k]) /\ mine[d][k] \in Clips
      BY <1>0, <2>1
    <3> HIDE DEF part
    <3> QED
      BY <1>0, <3>1, TransferIs
  <2>2. CASE ~mine[d][k].own
    <3>1. part(k) = <<>>
      BY <2>2
    <3> HIDE DEF part
    <3> QED
      BY ONLY <3>1
  <2> QED
    BY <2>1, <2>2
<1>5. part(id) = <<z>> /\ z.type = "send" /\ z.id = id /\ z.seq = seq[d]
  BY DEF Transfer
<1>6. \A k \in Ids : parts[k] = part(k)
  OBVIOUS
<1> HIDE DEF part, z, parts
<1>7. v \in Seq(Requests) /\ \E i \in 1..Len(v) : v[i] = z
  <2>1. \A k \in Ids : parts[k] \in Seq(Requests)
    BY <1>4, <1>6
  <2>2. /\ v \in Seq(Requests)
        /\ \A k \in Ids : \A i \in 1..Len(parts[k]) : \E j \in 1..Len(v) : v[j] = parts[k][i]
    BY <2>1, InTurnIs
  <2>3. 1 \in 1..Len(parts[id]) /\ parts[id][1] = z
    <3>1. parts[id] = <<z>>
      BY <1>5, <1>6
    <3> QED
      BY ONLY <3>1
  <2> QED
    BY <2>2, <2>3
<1> HIDE DEF v, q
<1>8. PICK p : p = clientQueue'[d]
  OBVIOUS
<1>9. PICK i \in 1..Len(v) : v[i] = z
  BY <1>7
<1>10. Len(q) + i \in 1..Len(p) /\ p[Len(q) + i] = z /\ Len(q) + i \in Nat
  <2>1. /\ Len(p) = Len(q) + Len(v) /\ Len(q) \in Nat /\ Len(v) \in Nat
        /\ \A j \in 1..Len(p) : p[j] = IF j <= Len(q) THEN q[j] ELSE v[j - Len(q)]
    BY <1>0, <1>3, <1>7, <1>8, ConcatProperties
  <2>2. Len(q) + i \in 1..Len(p) /\ ~(Len(q) + i <= Len(q)) /\ Len(q) + i - Len(q) = i
    BY <2>1
  <2> QED
    BY <1>9, <2>1, <2>2
<1>11. Posting(p, id, seq[d])
  BY <1>5, <1>10 DEF Posting, Posted
<1> QED
  BY <1>8, <1>11

\* The client of the last copy is left: it posts what it has.
LEMMA LeavesWorks ==
    ASSUME ClipboardAssumption, Typed, Typed', NEW d \in connected, NEW id \in Ids, NEW n, Ready(d, id, n),
           NEW m, Leaves(d, m), UNCHANGED <<board, queue, up>>,
           mine[d][id].own /\ Sendable(mine[d][id]) => Posting(clientQueue'[d], id, seq[d])
    PROVE  Works(d, id)
<1>0. /\ clientQueue[d] \in Seq(Requests) /\ clientQueue'[d] \in Seq(Requests) /\ d \in Clients
      /\ clientQueue \in [Clients -> Seq(Requests)] /\ mine \in [Clients -> [Ids -> Clips]]
      /\ Single(d, id) /\ (mine[d][id].own <=> ~Asks(clientQueue[d], id))
  BY DEF Typed, TypeOK, Ready
<1>1. seq[d] \in Seqs /\ seq'[d] = seq[d] /\ seq[d] <= seq'[d]
  <2>1. seq[d] \in Seqs /\ seq[d] \in Nat /\ seq' = seq
    BY <1>0, Numbers DEF Typed, TypeOK, Leaves
  <2> QED
    BY <2>1
<1>2. /\ mine'[d][id].own = mine[d][id].own /\ mine'[d][id].held = mine[d][id].held
      /\ mine'[d][id].shown = mine[d][id].shown
  <2>1. PICK f \in [Ids -> Clips] :
           /\ mine' = [mine EXCEPT ![d] = f]
           /\ \A k \in Ids : /\ f[k].own = mine[d][k].own /\ f[k].held = mine[d][k].held
                             /\ f[k].shown = mine[d][k].shown
                             /\ f[k].own => ~Sendable(f[k])
    BY DEF Leaves
  <2>2. mine'[d] = f
    BY <1>0, <2>1
  <2> QED
    BY <2>1, <2>2
<1>3. PICK w \in Seq(Requests) :
         /\ clientQueue' = [clientQueue EXCEPT ![d] = w] /\ Moved(clientQueue[d], w, 0)
         /\ \A i \in 1..Len(w) : i > Len(clientQueue[d]) =>
              /\ w[i] \in Requests /\ w[i].type = "send" /\ w[i].seq = seq[d]
              /\ mine[d][w[i].id].own /\ Sendable(mine[d][w[i].id])
              /\ w[i].value = mine[d][w[i].id].shown
  BY DEF Leaves
<1>4. clientQueue'[d] = w
  BY <1>0, <1>3
<1>5. ASSUME NEW X
      PROVE  /\ Has(clientQueue[d], X) => Has(w, X)
             /\ Has(w, X) => \/ Has(clientQueue[d], X)
                             \/ \E i \in 1..Len(w) : i > Len(clientQueue[d]) /\ w[i] \in X
  <2>1. /\ Len(w) >= Len(clientQueue[d]) /\ Len(w) \in Nat /\ Len(clientQueue[d]) \in Nat
        /\ \A i \in 1..Len(w) : i <= Len(clientQueue[d]) => w[i] = clientQueue[d][i]
    BY <1>0, <1>3 DEF Moved
  <2>2. \A i \in 1..Len(clientQueue[d]) : i \in 1..Len(w) /\ i <= Len(clientQueue[d])
    BY <2>1
  <2>3. \A i \in 1..Len(w) : i > Len(clientQueue[d]) \/ (i <= Len(clientQueue[d]) /\ i \in 1..Len(clientQueue[d]))
    BY <2>1
  <2> QED
    BY <2>1, <2>2, <2>3 DEF Has
<1>6. /\ Asks(clientQueue'[d], id) <=> Asks(clientQueue[d], id)
      /\ Unique(clientQueue'[d], Askings(id))
  <2>1. PICK j \in {0, 1} : j = 0
    OBVIOUS
  <2>2. \A i \in 1..Len(w) : i + j > Len(clientQueue[d]) => w[i] \notin Askings(id)
    BY <1>3, <2>1 DEF Askings
  <2>3. /\ Has(w, Askings(id)) <=> Has(clientQueue[d], Askings(id))
        /\ Unique(clientQueue[d], Askings(id)) => Unique(w, Askings(id))
    BY <1>0, <1>3, <2>1, <2>2, HasMoved
  <2> QED
    BY <1>0, <1>4, <2>3, HasRequests DEF Single
<1>7. \A i \in 1..Len(w) : i > Len(clientQueue[d]) /\ w[i].id = id => ~Asks(clientQueue'[d], id)
  BY <1>0, <1>3, <1>6
<1>8. \A j : /\ Posting(clientQueue[d], id, j) => Posting(clientQueue'[d], id, j)
             /\ Posting(clientQueue'[d], id, j) =>
                  Posting(clientQueue[d], id, j) \/ (j = seq[d] /\ ~Asks(clientQueue'[d], id))
  <2>1. \A j : \A i \in 1..Len(w) : i > Len(clientQueue[d]) /\ w[i] \in PostsAt(id, {j}) =>
          j = seq[d] /\ ~Asks(clientQueue'[d], id)
    BY <1>3, <1>7 DEF PostsAt
  <2> QED
    BY <1>0, <1>4, <1>5, <2>1, HasRequests
<1>9. \A x : Posts(clientQueue'[d], id, x) => Posts(clientQueue[d], id, x) \/ x = mine[d][id].shown
  <2>1. \A x : \A i \in 1..Len(w) : i > Len(clientQueue[d]) /\ w[i] \in PostsOf(id, x) => x = mine[d][id].shown
    BY <1>3 DEF PostsOf
  <2> QED
    BY <1>0, <1>4, <1>5, <2>1, HasRequests
<1>10. \A j \in Seqs : Calling(d, id, j)' <=> Calling(d, id, j)
  BY DEF Calling, Grabbing
<1>11. \A j \in Seqs : /\ Bringing(d, id, j) => Bringing(d, id, j)'
                       /\ Bringing(d, id, j)' =>
                            Bringing(d, id, j) \/ (j = seq[d] /\ ~Asks(clientQueue'[d], id))
  BY <1>8 DEF Bringing, Updating
<1>12. \A x \in Copies : Mails(d, id, x)' => Mails(d, id, x) \/ x = mine[d][id].shown
  BY <1>9 DEF Mails
<1>13. Pending(d, id) => Pending(d, id)'
  <2>1. ASSUME mine[d][id].own, Sendable(mine[d][id]) PROVE Pending(d, id)'
    <3>1. PICK t \in Seqs : t = seq[d]
      BY <1>1
    <3>2. Bringing(d, id, t)'
      BY <2>1, <3>1 DEF Bringing, Updating
    <3> QED
      BY <3>2 DEF Pending
  <2> QED
    BY <1>6, <1>11, <2>1 DEF Pending
<1>14. Single(d, id)'
  BY <1>0, <1>6, <1>10, <1>11 DEF Single
<1>15. Grabber(d, id)' <=> Grabber(d, id)
  BY <1>6 DEF Grabber
<1>16. \A j \in Seqs : Reporting("changed", queue', d, id, j) =>
          Reporting("changed", queue, d, id, j) /\ board'[id].cached[d] = board[id].cached[d]
  OBVIOUS
<1> QED
  BY <1>0, <1>1, <1>2, <1>6, <1>10, <1>11, <1>12, <1>13, <1>14, <1>15, <1>16 DEF Works

LEMMA ReceivesHolds ==
    ASSUME ClipboardAssumption, IInv, Typed', NEW s \in connected \cup {Primary}, NEW id \in Ids, NEW n,
           Holds(s, id, n), NEW d \in Clients, ClientReceives(d)
    PROVE  Holds(s, id, n)'
<1> DEFINE m == down[d][1]
<1>0. /\ clientQueue \in [Clients -> Seq(Requests)] /\ mine \in [Clients -> [Ids -> Clips]]
      /\ down \in [Clients -> Seq(Messages)] /\ here \in [Clients -> BOOLEAN] /\ seq \in [Clients -> Seqs]
      /\ connected \subseteq Clients /\ Primary \notin Clients /\ Typed
  BY DEF IInv, Typed, TypeOK, ClipboardAssumption
<1>1. /\ down[d] # <<>> /\ down' = [down EXCEPT ![d] = Tail(@)] /\ m \in Messages
      /\ Enters(d, m) \/ Leaves(d, m) \/ Overwrites(d, m)
      /\ UNCHANGED <<serverVars, up, made>>
  BY <1>0, ClientReceivesIs DEF bookVars
<1>2. m = down[d][1] /\ 1 \in 1..Len(down[d]) /\ 1 \in Nat
  BY <1>0, <1>1
<1> HIDE DEF m
<1>3. d \in connected /\ UNCHANGED <<board, queue, up, connected>> /\ down'[d] = Tail(down[d])
  BY <1>0, <1>1 DEF IInv, Absent, serverVars
<1>4. \A c \in Clients \ {d} : Still(c) /\ down'[c] = down[c]
  BY <1>0, <1>1 DEF Enters, Leaves, Overwrites, Still
<1>5. seq[d] <= seq'[d]
  <2>1. NextVisit(here[d], seq[d], m, here'[d], seq'[d])
    BY <1>0, <1>1 DEF Enters, Leaves, Overwrites, NextVisit
  <2>2. Ordered(seq[d], down[d]) /\ seq[d] \in Seqs /\ seq'[d] \in Seqs
    <3>1. seq' \in [Clients -> Seqs]
      BY DEF Typed, TypeOK
    <3> QED
      BY <1>0, <1>3, <3>1 DEF IInv, Sitting, Sound, Course
  <2>3. PICK r, g : r \in Seqs /\ r = seq'[d] /\ g = here'[d]
    BY <2>2
  <2>4. PICK p : p = Tail(down[d])
    OBVIOUS
  <2> QED
    BY <1>0, <1>1, <1>2, <2>1, <2>2, <2>3, <2>4, OrderedNext
<1>6. ASSUME d = s PROVE Unhampered(s, id)'
  <2>1. Unhampered(s, id)
    BY <1>0, <1>6 DEF Holds
  <2>2. PICK S : S = {}
    OBVIOUS
  <2>3. Drawn(queue, queue', S) /\ Drawn(down[s], down'[s], S)
    BY <1>0, <1>1, <1>3, <1>6, <2>2, DrawnSame, DrawnTail
  <2>4. /\ \A e \in S : ~(e.type = "send" /\ e.to = s /\ e.id = id)
        /\ \A e \in S : ~Lays(e, id)
    BY <2>2
  <2> QED
    BY <2>1, <2>3, <2>4, UnhamperedDrawn
<1>7. ASSUME ~(m.type = "grab" /\ m.id = id), NEW i \in Nat, GrabAt(down[d], id, i)
      PROVE  \E j \in Nat : GrabAt(down'[d], id, j)
  <2>1. PICK p : p = Tail(down[d])
    OBVIOUS
  <2>2. i - 1 \in Nat /\ GrabAt(p, id, i - 1)
    BY <1>0, <1>1, <1>2, <1>7, <2>1, GrabShrunk
  <2> QED
    BY <1>3, <2>1, <2>2
<1>8. ASSUME clientQueue'[d] = clientQueue[d], mine'[d][id] = mine[d][id], ~(m.type = "grab" /\ m.id = id)
      PROVE  Holds(s, id, n)'
  <2>1. AsideR(clientQueue[d], clientQueue'[d], id) /\ AsideU(up[d], up'[d], id)
    BY <1>3, <1>8, AsideSame
  <2>2. /\ d = s => Works(s, id)
        /\ d # s => (Grabber(d, id)' => Grabber(d, id)) /\ Relinquished(d, id)'
    BY <1>0, <1>3, <1>5, <1>7, <1>8, <2>1, OtherWorks
  <2> QED
    BY <1>0, <1>1, <1>3, <1>4, <1>6, <2>2, ClientHolds
<1>9. CASE Enters(d, m)
  <2>1. m.type # "grab" /\ clientQueue' = clientQueue /\ mine' = mine
    BY <1>9 DEF Enters
  <2> QED
    BY <1>8, <2>1
<1>10. CASE Overwrites(d, m)
  <2>1. PICK x \in Clips :
           mine' = [mine EXCEPT ![d][m.id] = x] /\ x.shown = Value(m) /\ x.held /\ ~x.own
    BY <1>10 DEF Overwrites
  <2>2. clientQueue' = clientQueue
    BY <1>10 DEF Overwrites
  <2>3. CASE m.id = id
    <3>1. ~mine'[d][id].own
      <4>1. mine'[d][id] = x
        BY <1>0, <2>1, <2>3
      <4> QED
        BY <2>1, <4>1
    <3>2. d # s
      <4>1. Over(down[d], id, 1)
        BY <1>2, <1>10, <2>3 DEF Over, Lays, Overwrites
      <4>2. Covering(down[d], id)
        BY <1>2, <4>1 DEF Covering
      <4> QED
        BY <1>0, <4>2 DEF Holds, Unhampered
    <3>3. (Grabber(d, id)' => Grabber(d, id)) /\ Relinquished(d, id)'
      BY <1>3, <2>2, <3>1 DEF Grabber, Relinquished
    <3> QED
      BY <1>0, <1>1, <1>3, <1>4, <3>2, <3>3, ClientHolds
  <2>4. CASE m.id # id
    <3>1. mine'[d][id] = mine[d][id]
      BY <1>0, <2>1, <2>4
    <3> QED
      BY <1>8, <2>2, <2>4, <3>1
  <2> QED
    BY <2>3, <2>4
<1>11. CASE Leaves(d, m)
  <2>0. m.type = "leave"
    BY <1>11 DEF Leaves
  <2>1. ASSUME d = s PROVE Works(s, id)
    <3>1. Ready(d, id, n)
      BY <1>0, <2>1 DEF Holds
    <3>2. mine[d][id].own /\ Sendable(mine[d][id]) => Posting(clientQueue'[d], id, seq[d])
      BY <1>0, <1>2, <2>0, LeavesPosts
    <3> QED
      BY <1>0, <1>3, <1>11, <2>1, <3>1, <3>2, LeavesWorks
  <2>2. ASSUME d # s PROVE (Grabber(d, id)' => Grabber(d, id)) /\ Relinquished(d, id)'
    <3>1. PICK f \in [Ids -> Clips] :
             mine' = [mine EXCEPT ![d] = f] /\ \A k \in Ids : f[k].own = mine[d][k].own
      BY <1>11, ZenonT(60) DEF Leaves
    <3>2. mine'[d][id].own = mine[d][id].own
      <4>1. mine'[d] = f
        BY <1>0, <3>1
      <4> QED
        BY <3>1, <4>1
    <3>3. Relinquished(d, id)
      BY <1>3, <2>2 DEF Holds
    <3>4. Relinquished(d, id)'
      BY <1>3, <1>7, <2>0, <3>2, <3>3 DEF Relinquished
    <3>5. PICK w \in Seq(Requests) :
             /\ clientQueue' = [clientQueue EXCEPT ![d] = w] /\ Moved(clientQueue[d], w, 0)
             /\ \A i \in 1..Len(w) : i > Len(clientQueue[d]) => w[i] \in Requests /\ w[i].type = "send"
      BY <1>11, ZenonT(60) DEF Leaves
    <3>6. clientQueue'[d] = w /\ clientQueue[d] \in Seq(Requests)
      BY <1>0, <3>5
    <3>7. PICK S : S = {e \in Requests : e.type = "send"}
      OBVIOUS
    <3>8. Drawn(clientQueue[d], w, S)
      <4>1. PICK j \in {0, 1} : j = 0
        OBVIOUS
      <4>2. \A i \in 1..Len(w) : i + j > Len(clientQueue[d]) => w[i] \in S
        BY <3>5, <3>7, <4>1
      <4> QED
        BY <3>5, <3>6, <4>1, <4>2, DrawnMoved
    <3>9. Asks(clientQueue'[d], id) => Asks(clientQueue[d], id)
      BY <3>6, <3>7, <3>8, DrawnAsk
    <3>10. Grabber(d, id)' => Grabber(d, id)
      BY <1>3, <3>9 DEF Grabber
    <3> QED
      BY <3>4, <3>10
  <2> QED
    BY <1>0, <1>1, <1>3, <1>4, <1>6, <2>1, <2>2, ClientHolds
<1> QED
  BY <1>1, <1>9, <1>10, <1>11

\* A newcomer has nothing under way, and owns nothing.
LEMMA JoinHolds ==
    ASSUME ClipboardAssumption, IInv, Typed', NEW s \in connected \cup {Primary}, NEW id \in Ids, NEW n,
           Holds(s, id, n), NEW d \in Clients, Join(d)
    PROVE  s \in connected' \cup {Primary} /\ Holds(s, id, n)'
<1>0. /\ Typed /\ connected \subseteq Clients /\ Primary \notin Clients
      /\ board \in [Ids -> Boards] /\ mine \in [Clients -> [Ids -> Clips]] /\ seq \in [Clients -> Seqs]
      /\ Absent(d) /\ active # d /\ s # d /\ d \notin connected
  BY DEF IInv, Typed, TypeOK, ClipboardAssumption, Join
<1>1. /\ clientQueue[d] = <<>> /\ connected' = connected \cup {d}
      /\ UNCHANGED <<active, queue, here, clientQueue, up, down, made>>
      /\ board' = [k \in Ids |-> [board[k] EXCEPT !.dirty[d] = TRUE, !.cached[d] = 0]]
      /\ seq' = [seq EXCEPT ![d] = 0]
      /\ mine' = [mine EXCEPT ![d] = [k \in Ids |-> Overwritten(@[k], 0)]]
  BY DEF Join, bookVars, netVars
<1>2. /\ Same(id) /\ board'[id].data = board[id].data
      /\ board'[id].shown = board[id].shown /\ board'[id].held = board[id].held
      /\ \A c \in connected : board'[id].cached[c] = board[id].cached[c]
      /\ \A z \in connected \cup {Primary} : board'[id].dirty[z] = board[id].dirty[z]
  <2>1. board'[id] = [board[id] EXCEPT !.dirty[d] = TRUE, !.cached[d] = 0] /\ board[id] \in Boards
    BY <1>0, <1>1
  <2>2. PICK b \in Boards : b = board[id]
    BY <1>0
  <2>3. PICK f \in [Clients -> Copies], h \in [Screens -> BOOLEAN] : f = b.cached /\ h = b.dirty
    BY DEF Boards
  <2>4. board'[id].cached = [f EXCEPT ![d] = 0] /\ board'[id].dirty = [h EXCEPT ![d] = TRUE]
    BY <2>1, <2>2, <2>3 DEF Boards
  <2>5. /\ board'[id].owner = b.owner /\ board'[id].seq = b.seq /\ board'[id].data = b.data
        /\ board'[id].shown = b.shown /\ board'[id].held = b.held
    BY <2>1, <2>2 DEF Boards
  <2>6. \A c \in connected : board'[id].cached[c] = f[c]
    BY <1>0, <2>4
  <2>7. \A z \in connected \cup {Primary} : board'[id].dirty[z] = h[z]
    BY <1>0, <2>4 DEF Screens
  <2> QED
    BY <2>2, <2>3, <2>5, <2>6, <2>7 DEF Same
<1>3. ~mine'[d][id].own
  <2> DEFINE f == [k \in Ids |-> Overwritten(mine[d][k], 0)]
  <2>0. mine' = [mine EXCEPT ![d] = f] /\ f[id] = Overwritten(mine[d][id], 0)
    BY <1>1
  <2> HIDE DEF f
  <2>1. mine'[d][id] = Overwritten(mine[d][id], 0) /\ mine[d][id] \in Clips
    BY <1>0, <2>0
  <2>2. 0 \in Copies
    BY DEF Copies, ClipboardAssumption
  <2> QED
    BY <2>1, <2>2, OverwrittenIs
<1>4. \A g : Undisturbed(g, id)
  BY <1>1, UndisturbedSame
<1>5. ASSUME NEW c \in connected PROVE Still(c) /\ down'[c] = down[c]
  BY <1>0, <1>1, <1>5 DEF Still
<1>6. ~Grabber(d, id)'
  <2>1. /\ \A i : i \notin 1..Len(clientQueue'[d]) /\ i \notin 1..Len(up'[d])
        /\ \A i \in 1..Len(queue') : Whose(queue'[i]) = d => queue'[i].gone
    <3>1. clientQueue'[d] = <<>> /\ up'[d] = <<>> /\ queue' = queue
      BY <1>0, <1>1 DEF Absent
    <3>2. \A i : i \notin 1..Len(<<>>)
      OBVIOUS
    <3> QED
      BY <1>0, <3>1, <3>2 DEF Absent
  <2>2. /\ \A i : ~Asked(clientQueue'[d], id, i) /\ ~Upward("grab", up'[d], id, i)
        /\ \A i : ~Report("grabbed", queue', d, id, i)
    BY <2>1 DEF Asked, Upward, Report, Whose
  <2> QED
    BY <2>2 DEF Grabber, Asks, Rising, Reporting
<1>7. ASSUME NEW g \in connected \cup {Primary} PROVE Grabber(g, id)' <=> Grabber(g, id)
  BY <1>1 DEF Grabber
<1>8. Standing(s, id)'
  <2>1. Standing(s, id)
    BY DEF Holds
  <2>2. board'[id].owner = s <=> ~Grabber(s, id)'
    BY <1>2, <1>7, <2>1 DEF Standing, Same
  <2>3. \A g \in connected' \cup {Primary} : Grabber(g, id)' => g = s
    BY <1>1, <1>6, <1>7, <2>1 DEF Standing
  <2> QED
    BY <2>2, <2>3 DEF Standing
<1>9. Current(s, id, n)'
  <2>1. active \in connected \cup {Primary} /\ Current(s, id, n)
    BY <1>0 DEF Typed, Holds
  <2> QED
    BY <1>1, <1>2, <2>1 DEF Current, Same
<1>10. ASSUME s = Primary PROVE AtHome(id, n)'
  <2>1. AtHome(id, n)
    BY <1>10 DEF Holds
  <2> QED
    BY <1>1, <1>2, <2>1 DEF AtHome
<1>11. ASSUME s # Primary PROVE Ready(s, id, n)' /\ Unhampered(s, id)'
  <2>1. s \in connected /\ s \in Clients /\ Ready(s, id, n) /\ Unhampered(s, id)
    BY <1>0, <1>11 DEF Holds
  <2>2. Works(s, id)
    BY <1>0, <1>2, <1>4, <1>5, <2>1, StillWorks
  <2>3. Ready(s, id, n)'
    BY <1>0, <1>2, <2>1, <2>2, ReadyWorks
  <2> QED
    BY <1>1, <2>1, <2>3 DEF Unhampered
<1>12. ASSUME NEW c \in connected' \ {s} PROVE Relinquished(c, id)'
  <2>1. CASE c = d
    BY <1>3, <2>1 DEF Relinquished
  <2>2. CASE c # d
    <3>1. c \in connected /\ Relinquished(c, id)
      BY <1>1, <1>12, <2>2 DEF Holds
    <3>2. mine'[c] = mine[c] /\ down'[c] = down[c]
      BY <1>5, <3>1 DEF Still
    <3> QED
      BY <1>2, <3>1, <3>2 DEF Relinquished, Same
  <2> QED
    BY <2>1, <2>2
<1>13. Latest(made', id, n)
  BY <1>1 DEF Holds
<1> QED
  BY <1>1, <1>8, <1>9, <1>10, <1>11, <1>12, <1>13 DEF Holds

-----------------------------------------------------------------------------
(* What a client has sent *)

\* What the client takes to be sent stays, or is what it shows of its own.
Filed(c, id) ==
    \/ mine'[c][id].data = mine[c][id].data
    \/ /\ c \in connected /\ mine'[c][id].data = mine[c][id].shown
       /\ mine[c][id].own \/ Asks(clientQueue[c], id)

LEMMA SentData ==
    ASSUME NEW m \in Clips
    PROVE  Sent(m).data = m.data \/ Sent(m).data = m.shown
<1>1. CASE Sendable(m)
  BY <1>1 DEF Sent, Clips
<1>2. CASE ~Sendable(m)
  BY <1>2 DEF Sent
<1> QED
  BY <1>1, <1>2

LEMMA GrabsFiled ==
    ASSUME ClipboardAssumption, Typed, NEW d \in Clients, ClientGrabs(d), NEW c \in Clients, NEW id \in Ids
    PROVE  Filed(c, id)
<1> DEFINE k == Head(clientQueue[d]).id
           m == [mine[d][k] EXCEPT !.own = TRUE, !.sent = FALSE]
           n == IF here[d] THEN m ELSE Sent(m)
<1>0. /\ clientQueue \in [Clients -> Seq(Requests)] /\ mine \in [Clients -> [Ids -> Clips]]
  BY DEF Typed, TypeOK
<1>1. /\ d \in connected /\ clientQueue[d] # <<>> /\ Head(clientQueue[d]).type = "grabbed"
      /\ mine' = [mine EXCEPT ![d][k] = n]
  BY DEF ClientGrabs
<1>2. k \in Ids /\ clientQueue[d][1].id = k /\ clientQueue[d][1].type = "grabbed"
  <2>1. clientQueue[d][1] = Head(clientQueue[d]) /\ clientQueue[d][1] \in Requests
    BY <1>0, <1>1
  <2> QED
    BY <1>1, <2>1 DEF Requests
<1>3. Asks(clientQueue[d], k)
  BY <1>0, <1>1, <1>2, AskFirst
<1>4. m \in Clips /\ m.data = mine[d][k].data /\ m.shown = mine[d][k].shown
  <2>1. mine[d][k] \in Clips
    BY <1>0, <1>2
  <2> QED
    BY <2>1 DEF Clips
<1> HIDE DEF k, m
<1>5. n.data = mine[d][k].data \/ n.data = mine[d][k].shown
  BY <1>4, SentData
<1> HIDE DEF n
<1>6. CASE c = d /\ id = k
  <2>1. mine'[c][id] = n
    BY <1>0, <1>1, <1>6
  <2> QED
    BY <1>1, <1>3, <1>5, <1>6, <2>1 DEF Filed
<1>7. CASE ~(c = d /\ id = k)
  <2>1. mine'[c][id] = mine[c][id]
    BY <1>0, <1>1, <1>2, <1>7
  <2> QED
    BY <2>1 DEF Filed
<1> QED
  BY <1>6, <1>7

LEMMA ReceivesFiled ==
    ASSUME ClipboardAssumption, IInv, NEW d \in Clients, ClientReceives(d), NEW c \in Clients, NEW id \in Ids
    PROVE  Filed(c, id)
<1>0. /\ Typed /\ mine \in [Clients -> [Ids -> Clips]] /\ mine[c][id] \in Clips /\ mine[d][id] \in Clips
  BY DEF IInv, Typed, TypeOK
<1>1. down[d] # <<>> /\ d \in connected
  BY DEF ClientReceives, IInv, Absent
<1>2. CASE mine' = mine
  BY <1>2 DEF Filed
<1>3. ASSUME mine' = [mine EXCEPT ![d] = [i \in Ids |-> IF @[i].own THEN Sent(@[i]) ELSE @[i]]]
      PROVE  Filed(c, id)
  <2>1. PICK f : f = [i \in Ids |-> IF mine[d][i].own THEN Sent(mine[d][i]) ELSE mine[d][i]]
    OBVIOUS
  <2>2. mine' = [mine EXCEPT ![d] = f]
    BY <1>3, <2>1
  <2>3. CASE c = d
    <3>1. mine'[c] = f
      BY <1>0, <2>2, <2>3
    <3>2. mine'[c][id] = IF mine[d][id].own THEN Sent(mine[d][id]) ELSE mine[d][id]
      BY <2>1, <3>1
    <3> QED
      BY <1>0, <1>1, <2>3, <3>2, SentData DEF Filed
  <2>4. CASE c # d
    <3>1. mine'[c] = mine[c]
      BY <1>0, <2>2, <2>4
    <3> QED
      BY <3>1 DEF Filed
  <2> QED
    BY <2>3, <2>4
<1>4. ASSUME NEW k, NEW v, mine' = [mine EXCEPT ![d][k] = Overwritten(@, v)]
      PROVE  Filed(c, id)
  <2>1. PICK x : x = Overwritten(mine[d][k], v)
    OBVIOUS
  <2>2. mine' = [mine EXCEPT ![d][k] = x]
    BY <1>4, <2>1
  <2>3. CASE c = d /\ id = k
    <3>1. mine'[c][id] = x
      BY <1>0, <2>2, <2>3
    <3>2. x.data = mine[d][id].data
      BY <1>0, <2>1, <2>3 DEF Overwritten, Clips
    <3> QED
      BY <2>3, <3>1, <3>2 DEF Filed
  <2>4. CASE ~(c = d /\ id = k)
    <3>1. mine'[c][id] = mine[c][id]
      BY <1>0, <2>2, <2>4
    <3> QED
      BY <3>1 DEF Filed
  <2> QED
    BY <2>3, <2>4
<1>5. \/ mine' = mine
      \/ mine' = [mine EXCEPT ![d] = [i \in Ids |-> IF @[i].own THEN Sent(@[i]) ELSE @[i]]]
      \/ \E k, v : mine' = [mine EXCEPT ![d][k] = Overwritten(@, v)]
  BY DEF ClientReceives
<1> QED
  BY <1>2, <1>3, <1>4, <1>5

LEMMA CopiesFiled ==
    ASSUME ClipboardAssumption, Typed, NEW d \in Clients, NEW k \in Ids, ClientCopies(d, k),
           NEW c \in Clients, NEW id \in Ids
    PROVE  Filed(c, id)
<1>0. mine \in [Clients -> [Ids -> Clips]] /\ mine[d][k] \in Clips
  BY DEF Typed, TypeOK
<1> DEFINE y == [mine[d][k] EXCEPT !.shown = Len(made'), !.held = FALSE]
<1>1. mine' = [mine EXCEPT ![d][k].shown = Len(made'), ![d][k].held = FALSE]
  BY DEF ClientCopies
<1>2. mine' = [mine EXCEPT ![d][k] = y]
  BY <1>1
<1>3. y.data = mine[d][k].data
  BY <1>0 DEF Clips
<1> HIDE DEF y
<1>4. mine'[c][id] = IF c = d /\ id = k THEN y ELSE mine[c][id]
  BY <1>0, <1>2
<1> QED
  BY <1>3, <1>4 DEF Filed

LEMMA JoinFiled ==
    ASSUME ClipboardAssumption, Typed, NEW d \in Clients, Join(d), NEW c \in Clients, NEW id \in Ids
    PROVE  Filed(c, id)
<1>0. mine \in [Clients -> [Ids -> Clips]] /\ mine[d][id] \in Clips
  BY DEF Typed, TypeOK
<1>1. PICK f : f = [k \in Ids |-> Overwritten(mine[d][k], 0)]
  OBVIOUS
<1>2. mine' = [mine EXCEPT ![d] = f]
  BY <1>1 DEF Join
<1>3. CASE c = d
  <2>1. mine'[c] = f
    BY <1>0, <1>2, <1>3
  <2>2. mine'[c][id] = Overwritten(mine[d][id], 0)
    BY <1>1, <2>1
  <2> QED
    BY <1>0, <1>3, <2>2 DEF Filed, Overwritten, Clips
<1>4. CASE c # d
  <2>1. mine'[c] = mine[c]
    BY <1>0, <1>2, <1>4
  <2> QED
    BY <2>1 DEF Filed
<1> QED
  BY <1>3, <1>4

LEMMA PastFiled ==
    ASSUME ClipboardAssumption, Typed, Signed, NEW c \in Clients, NEW id \in Ids, Past(c, id), Filed(c, id),
           Len(made') \in Nat, Len(made) <= Len(made')
    PROVE  Past(c, id)'
<1>1. mine[c][id].data \in Nat /\ mine[c][id].data <= Len(made) /\ Len(made) \in Nat
  <2>1. mine[c][id] \in Clips /\ made \in Seq([on : Screens, id : Ids])
    BY DEF Typed, TypeOK
  <2> QED
    BY <2>1 DEF Past, Clips, Copies, ClipboardAssumption
<1>2. CASE mine'[c][id].data = mine[c][id].data
  BY <1>1, <1>2 DEF Past
<1>3. ASSUME c \in connected, mine'[c][id].data = mine[c][id].shown, mine[c][id].own \/ Asks(clientQueue[c], id)
      PROVE  Past(c, id)'
  <2>1. From(made, c, id, mine[c][id].shown)
    BY <1>3 DEF Signed, Certified, Own
  <2>2. mine[c][id].shown <= Len(made) /\ mine[c][id].shown \in Nat
    BY <1>1, <2>1 DEF From
  <2> QED
    BY <1>1, <1>3, <2>2 DEF Past
<1> QED
  BY <1>2, <1>3 DEF Filed

-----------------------------------------------------------------------------
(* The last copy of every clipboard *)

LEMMA InitFaithful == ASSUME ClipboardAssumption, Init PROVE Faithful
<1>0. /\ connected = {} /\ active = Primary /\ queue = <<>> /\ made = <<>> /\ Primary \notin Clients
      /\ \A id \in Ids : /\ board[id].owner = Primary /\ board[id].shown = 0 /\ ~board[id].held
                         /\ board[id].dirty = [s \in Screens |-> s # Primary]
      /\ \A c \in Clients : \A id \in Ids : mine[c][id].data = 0
      /\ Primary \in Screens
  BY DEF Init, ClipboardAssumption, Screens
<1>1. Len(made) = 0 /\ \A i : i \notin 1..Len(made) /\ i \notin 1..Len(queue)
  BY <1>0
<1>2. ASSUME NEW id \in Ids PROVE Holds(Primary, id, 0)
  <2>1. Latest(made, id, 0)
    BY <1>1 DEF Latest
  <2>2. ~Grabber(Primary, id)
    BY <1>0, <1>1 DEF Grabber, Reporting, Report
  <2>3. Standing(Primary, id)
    BY <1>0, <2>2 DEF Standing
  <2>4. ~board[id].dirty[Primary]
    BY <1>0
  <2>5. Current(Primary, id, 0)
    BY <1>0, <2>4 DEF Current
  <2>6. AtHome(id, 0)
    BY <1>0, <1>1 DEF AtHome, Unique
  <2> QED
    BY <1>0, <2>1, <2>3, <2>5, <2>6 DEF Holds
<1>3. ASSUME NEW id \in Ids, NEW c \in Clients PROVE Past(c, id)
  BY <1>0, <1>1 DEF Past
<1> QED
  BY <1>2, <1>3 DEF Faithful

\* Some screen has the last copy of the clipboard.
Lasts(id) == \E s \in connected \cup {Primary} : \E n \in Nat : Holds(s, id, n)

LEMMA LastsStep ==
    ASSUME ClipboardAssumption, Patient, IInv, IInv', Delivered, Signed, Faithful, [Next]_vars, NEW id \in Ids
    PROVE  Lasts(id)'
<1>0. PICK s \in connected \cup {Primary} : \E n \in Nat : Holds(s, id, n)
  BY DEF Faithful
<1>1. PICK n \in Nat : Holds(s, id, n)
  BY <1>0
<1>2. /\ Typed /\ Typed' /\ ~unexpected' /\ Unhurried /\ connected \subseteq Clients
      /\ \A c \in Clients : Past(c, id)
  BY DEF IInv, ExpectedSender, Patient, Typed, TypeOK, Faithful
<1>3. ASSUME connected' = connected, Holds(s, id, n)' PROVE Lasts(id)'
  <2>1. s \in connected' \cup {Primary}
    BY <1>0, <1>3
  <2> QED
    BY <1>1, <1>3, <2>1 DEF Lasts
<1>4. CASE HandleClipboardGrabbed
  <2>1. PICK e : e = Head(queue)
    OBVIOUS
  <2>2. /\ queue # <<>> /\ e.type = "grabbed" /\ (Refused(e) \/ Grabbed(e))
        /\ UNCHANGED <<connected, active, seqNum, primarySeq, clientVars, up, bookVars>>
    BY <1>2, <1>4, <2>1, HandleClipboardGrabbedIs
  <2>3. CASE Refused(e)
    BY <1>1, <1>2, <1>3, <2>1, <2>2, <2>3, RefusedHolds
  <2>4. CASE Grabbed(e)
    BY <1>1, <1>2, <1>3, <2>1, <2>2, <2>4, GrabbedHolds
  <2> QED
    BY <2>2, <2>3, <2>4
<1>5. CASE HandleClipboardChanged
  <2>1. connected' = connected
    BY <1>5 DEF HandleClipboardChanged
  <2> QED
    BY <1>1, <1>2, <1>3, <1>5, <2>1, ChangedHolds
<1>6. CASE SendQueued
  <2>1. connected' = connected
    BY <1>6 DEF SendQueued
  <2> QED
    BY <1>1, <1>2, <1>3, <1>6, <2>1, SendQueuedHolds
<1>7. ASSUME NEW c \in Clients, ReceiveFromClient(c) PROVE Lasts(id)'
  <2>1. connected' = connected /\ up[c] # <<>>
    BY <1>7 DEF ReceiveFromClient
  <2>2. c \in connected
    BY <2>1 DEF IInv, Absent
  <2> QED
    BY <1>1, <1>2, <1>3, <1>7, <2>1, <2>2, ReceivedHolds
<1>8. ASSUME NEW dst \in Screens, SwitchScreen(dst) PROVE Lasts(id)'
  <2>1. connected' = connected
    BY <1>8 DEF SwitchScreen
  <2> QED
    BY <1>1, <1>2, <1>3, <1>8, <2>1, SwitchHolds
<1>9. ASSUME NEW k \in Ids, PrimaryCopies(k) PROVE Lasts(id)'
  BY <1>1, <1>2, <1>9, PrimaryCopiesHolds DEF Lasts
<1>10. ASSUME NEW k \in Ids, NEW c \in Clients, ClientCopies(c, k) PROVE Lasts(id)'
  BY <1>1, <1>2, <1>10, CopiesHolds DEF Lasts
<1>11. ASSUME NEW c \in Clients, ClientGrabs(c) PROVE Lasts(id)'
  <2>1. connected' = connected
    BY <1>11 DEF ClientGrabs, serverVars
  <2> QED
    BY <1>1, <1>2, <1>3, <1>11, <2>1, GrabsHolds
<1>12. ASSUME NEW c \in Clients, ClientSends(c) PROVE Lasts(id)'
  <2>1. connected' = connected
    BY <1>12 DEF ClientSends, serverVars
  <2> QED
    BY <1>1, <1>2, <1>3, <1>12, <2>1, SendsHolds
<1>13. ASSUME NEW c \in Clients, ClientReceives(c) PROVE Lasts(id)'
  <2>1. connected' = connected
    BY <1>13 DEF ClientReceives, serverVars
  <2> QED
    BY <1>1, <1>2, <1>3, <1>13, <2>1, ReceivesHolds
<1>14. ASSUME NEW c \in Clients, ClientSendsStale(c) PROVE Lasts(id)'
  <2>1. connected' = connected
    BY <1>14 DEF ClientSendsStale, serverVars
  <2> QED
    BY <1>1, <1>2, <1>3, <1>14, <2>1, StaleHolds
<1>15. ASSUME NEW c \in Clients, Join(c) PROVE Lasts(id)'
  BY <1>1, <1>2, <1>15, JoinHolds DEF Lasts
<1>16. ASSUME NEW c \in Clients, Depart(c) PROVE FALSE
  <2>1. departures < 0 /\ departures \in 0..0
    BY <1>2, <1>16 DEF Depart, Patient, Typed, TypeOK
  <2> QED
    BY <2>1
<1>17. CASE UNCHANGED vars
  <2>1. UNCHANGED <<connected, active, board, queue, down, up, made, mine, clientQueue, seq, here>>
    BY <1>17 DEF vars, serverVars, clientVars, netVars, bookVars
  <2>2. \A c \in connected : Still(c)
    BY <2>1 DEF Still
  <2> QED
    BY <1>1, <1>2, <1>3, <2>1, <2>2, IdleHolds
<1>18. ASSUME NEW c \in Clients, ClientStep(c) \/ Join(c) \/ Depart(c) PROVE Lasts(id)'
  BY <1>11, <1>12, <1>13, <1>14, <1>15, <1>16, <1>18 DEF ClientStep
<1> QED
  BY <1>4, <1>5, <1>6, <1>7, <1>8, <1>9, <1>10, <1>17, <1>18 DEF Next, ServerStep

LEMMA PastStep ==
    ASSUME ClipboardAssumption, Patient, IInv, IInv', Signed, Faithful, [Next]_vars,
           NEW c \in Clients, NEW id \in Ids
    PROVE  Past(c, id)'
<1>0. Typed /\ Past(c, id) /\ Len(made) \in Nat /\ mine[c][id].data \in Nat
  <2>1. Typed /\ Past(c, id)
    BY DEF IInv, Faithful
  <2>2. made \in Seq([on : Screens, id : Ids]) /\ mine[c][id] \in Clips
    BY <2>1 DEF Typed, TypeOK
  <2>3. mine[c][id].data \in Nat
    BY <2>2 DEF Clips, Copies
  <2> QED
    BY <2>1, <2>2, <2>3
<1>1. ASSUME made' = made, Filed(c, id) PROVE Past(c, id)'
  BY <1>0, <1>1, PastFiled
<1>2. ASSUME made' = made, mine' = mine PROVE Past(c, id)'
  BY <1>1, <1>2 DEF Filed
<1>3. CASE ServerStep
  BY <1>2, <1>3 DEF ServerStep, HandleClipboardGrabbed, HandleClipboardChanged, SendQueued, ReceiveFromClient,
                    clientVars, bookVars
<1>4. ASSUME NEW dst \in Screens, SwitchScreen(dst) PROVE Past(c, id)'
  BY <1>2, <1>4 DEF SwitchScreen, clientVars, bookVars
<1>5. ASSUME NEW k \in Ids, PrimaryCopies(k) PROVE Past(c, id)'
  <2>1. NewCopy(Primary, k) /\ mine' = mine /\ Primary \in Screens
    BY <1>5 DEF PrimaryCopies, clientVars, Screens
  <2>2. Len(made') = Len(made) + 1
    BY <1>0, <2>1, LatestMade
  <2> QED
    BY <1>0, <2>1, <2>2 DEF Past
<1>6. ASSUME NEW k \in Ids, NEW d \in Clients, ClientCopies(d, k) PROVE Past(c, id)'
  <2>1. NewCopy(d, k) /\ d \in Screens
    BY <1>6 DEF ClientCopies, Screens
  <2>2. Len(made') = Len(made) + 1
    BY <1>0, <2>1, LatestMade
  <2>3. Filed(c, id)
    BY <1>0, <1>6, CopiesFiled
  <2>4. Len(made') \in Nat /\ Len(made) <= Len(made')
    BY <1>0, <2>2
  <2> QED
    BY <1>0, <2>3, <2>4, PastFiled
<1>7. ASSUME NEW d \in Clients, ClientStep(d) PROVE Past(c, id)'
  <2>1. made' = made
    BY <1>7 DEF ClientStep, ClientGrabs, ClientSends, ClientReceives, ClientSendsStale, bookVars
  <2>2. CASE ClientGrabs(d)
    BY <1>0, <1>1, <2>1, <2>2, GrabsFiled
  <2>3. CASE ClientReceives(d)
    BY <1>0, <1>1, <2>1, <2>3, ReceivesFiled
  <2>4. CASE ClientSends(d) \/ ClientSendsStale(d)
    BY <1>2, <2>1, <2>4 DEF ClientSends, ClientSendsStale
  <2> QED
    BY <1>7, <2>2, <2>3, <2>4 DEF ClientStep
<1>8. ASSUME NEW d \in Clients, Join(d) PROVE Past(c, id)'
  <2>1. made' = made
    BY <1>8 DEF Join, bookVars
  <2> QED
    BY <1>0, <1>1, <1>8, <2>1, JoinFiled
<1>9. ASSUME NEW d \in Clients, Depart(d) PROVE Past(c, id)'
  <2>1. made' = made /\ mine' = mine
    BY <1>9 DEF Depart, clientVars
  <2> QED
    BY <1>2, <2>1
<1>10. CASE UNCHANGED vars
  BY <1>2, <1>10 DEF vars, clientVars, bookVars
<1> QED
  BY <1>3, <1>4, <1>5, <1>6, <1>7, <1>8, <1>9, <1>10 DEF Next

LEMMA FaithfulStep ==
    ClipboardAssumption /\ Patient /\ IInv /\ Delivered /\ Signed /\ Faithful /\ [Next]_vars => Faithful'
<1> SUFFICES ASSUME ClipboardAssumption, Patient, IInv, Delivered, Signed, Faithful, [Next]_vars PROVE Faithful'
  OBVIOUS
<1>1. IInv'
  BY IInvStep
<1>2. ASSUME NEW id \in Ids PROVE Lasts(id)'
  BY <1>1, LastsStep
<1>3. ASSUME NEW id \in Ids, NEW c \in Clients PROVE Past(c, id)'
  BY <1>1, PastStep
<1> QED
  BY <1>2, <1>3 DEF Faithful, Lasts

LEMMA FaithfulAgrees ==
    ASSUME ClipboardAssumption, IInv, Faithful PROVE OwnersAgree
<1> SUFFICES ASSUME Quiet, NEW id \in Ids, NEW c \in connected PROVE mine[c][id].own <=> board[id].owner = c
  BY DEF OwnersAgree
<1>1. PICK s \in connected \cup {Primary} : \E n \in Nat : Holds(s, id, n)
  BY DEF Faithful
<1>2. PICK n \in Nat : Holds(s, id, n)
  BY <1>1
<1> QED
  BY <1>2, QuietHolds

\* Nothing is under way: the active screen shows the copy n.
LEMMA QuietShows ==
    ASSUME ClipboardAssumption, Patient, IInv, Delivered, Signed, Quiet, NEW id \in Ids,
           NEW s \in connected \cup {Primary}, NEW n, Holds(s, id, n)
    PROVE  Shown(active, id) = n
<1>0. /\ active \in connected \cup {Primary} /\ Primary \notin connected
  BY DEF IInv, Typed, TypeOK, ClipboardAssumption
<1>1. /\ board[id].owner = s /\ ~board[id].dirty[active]
      /\ s \notin {active, Primary} => board[id].data = n
  BY QuietHolds
<1>2. CASE active = s
  BY <1>0, <1>2 DEF Holds, AtHome, Ready, Shown
<1>3. CASE active # s
  <2>1. board[id].data = n
    <3>1. CASE s = Primary
      <4>1. Caught(id)
        BY DEF Signed, Certified
      <4>2. board[id].shown \notin Oversize /\ board[id].shown = n
        BY <3>1 DEF Patient, Holds, AtHome
      <4> QED
        BY <1>1, <1>3, <3>1, <4>1, <4>2 DEF Caught
    <3>2. CASE s # Primary
      BY <1>1, <1>3, <3>2
    <3> QED
      BY <3>1, <3>2
  <2>2. CleanIsCurrent
    BY DeliveredCurrent
  <2>3. Shown(active, id) = board[id].data
    BY <1>0, <1>1, <1>3, <2>2 DEF CleanIsCurrent
  <2> QED
    BY <2>1, <2>3
<1> QED
  BY <1>2, <1>3

LEMMA FaithfulShows ==
    ASSUME ClipboardAssumption, Patient, IInv, Delivered, Signed, Faithful PROVE LastCopyWins
<1> SUFFICES ASSUME Quiet, NEW m \in DOMAIN made
             PROVE  \/ \E k \in DOMAIN made : k > m /\ made[k].id = made[m].id
                    \/ Shown(active, made[m].id) = m
  BY DEF LastCopyWins
<1>1. made \in Seq([on : Screens, id : Ids]) /\ DOMAIN made = 1..Len(made) /\ Len(made) \in Nat
  BY DEF IInv, Typed, TypeOK
<1>2. PICK id \in Ids : id = made[m].id
  <2>1. m \in 1..Len(made)
    BY <1>1
  <2>2. PICK S : S = [on : Screens, id : Ids]
    OBVIOUS
  <2>3. made \in Seq(S)
    BY <1>1, <2>2
  <2>4. made[m] \in S
    BY <2>1, <2>3
  <2> QED
    BY <2>2, <2>4
<1>3. PICK s \in connected \cup {Primary} : \E n \in Nat : Holds(s, id, n)
  BY DEF Faithful
<1>4. PICK n \in Nat : Holds(s, id, n)
  BY <1>3
<1>5. Latest(made, id, n)
  BY <1>4 DEF Holds
<1>6. m <= n /\ n \in 1..Len(made) /\ made[n].id = id
  BY <1>1, <1>2, <1>5 DEF Latest
<1>7. CASE m < n
  BY <1>1, <1>2, <1>6, <1>7
<1>8. CASE m = n
  <2>1. Shown(active, id) = n
    BY <1>4, QuietShows
  <2> QED
    BY <1>2, <1>8, <2>1
<1> QED
  BY <1>1, <1>6, <1>7, <1>8

\* If connections last, and something is copied only where the cursor is, and not while
\* messages are under way, then once nothing is under way a client believes that it owns a
\* clipboard just if the server has it as the owner: for any number of clients, switches
\* and copies, however grabs, contents and the leaving of screens overtake each other.
THEOREM OwnersAgreed == Patient => (Spec => []OwnersAgree)
<1> SUFFICES ASSUME Patient PROVE Spec => []OwnersAgree
  OBVIOUS
<1>0. Unhurried /\ Considerate /\ ClipboardAssumption
  BY ClipboardAssumption DEF Patient, Unhurried, Considerate
<1>1. Init => IInv /\ Delivered /\ Signed /\ Faithful
  BY <1>0, InitIInv, InitDelivers, InitSigned, InitFaithful
<1>2. IInv /\ Delivered /\ Signed /\ Faithful /\ [Next]_vars => (IInv /\ Delivered /\ Signed /\ Faithful)'
  BY <1>0, IInvStep, DeliveredStep, SignedStep, FaithfulStep
<1>3. IInv /\ Faithful => OwnersAgree
  BY <1>0, FaithfulAgrees
<1> QED
  BY <1>1, <1>2, <1>3, PTL DEF Spec

\* Under the same conditions, once nothing is under way, the active screen has what was
\* copied last, wherever that was: it has been grabbed from all others, fetched when the
\* screen was left, and sent to every screen that was entered since.
THEOREM LastCopyShown == Patient => (Spec => []LastCopyWins)
<1> SUFFICES ASSUME Patient PROVE Spec => []LastCopyWins
  OBVIOUS
<1>0. Unhurried /\ Considerate /\ ClipboardAssumption
  BY ClipboardAssumption DEF Patient, Unhurried, Considerate
<1>1. Init => IInv /\ Delivered /\ Signed /\ Faithful
  BY <1>0, InitIInv, InitDelivers, InitSigned, InitFaithful
<1>2. IInv /\ Delivered /\ Signed /\ Faithful /\ [Next]_vars => (IInv /\ Delivered /\ Signed /\ Faithful)'
  BY <1>0, IInvStep, DeliveredStep, SignedStep, FaithfulStep
<1>3. IInv /\ Delivered /\ Signed /\ Faithful => LastCopyWins
  BY <1>0, FaithfulShows
<1> QED
  BY <1>1, <1>2, <1>3, PTL DEF Spec

=============================================================================
