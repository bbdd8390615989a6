-------------------------- MODULE ClipboardProofs --------------------------
(***************************************************************************)
(* Theorems about Clipboard.  The operations on one clipboard come first,  *)
(* then the types of all that a step of the server, of a client or of a    *)
(* connection changes.  The next part is about ExpectedSender: what is     *)
(* under way, the invariant (IInv), and why each step keeps it.  The last  *)
(* is about CleanIsCurrent: what is on its way to the clients (Delivered)  *)
(* when updates come from owners only.                                     *)
(***************************************************************************)
EXTENDS Clipboard, SequenceTheorems, FiniteSetTheorems, WellFoundedInduction, TLAPS

-----------------------------------------------------------------------------
(* One part after the other *)

LEMMA LeastNatural ==
    \A S : S \subseteq Nat /\ S # {} => \E x \in S : \A y \in S : x <= y
<1> TAKE S
<1> HAVE S \subseteq Nat /\ S # {}
<1>1. PICK x \in S : \A y \in S : ~(<<y, x>> \in OpToRel(<, Nat))
  BY NatLessThanWellFounded, WFMin
<1>2. ASSUME NEW y \in S, y < x PROVE <<y, x>> \in OpToRel(<, Nat)
  BY <1>2 DEF OpToRel
<1>3. ASSUME NEW y \in S PROVE x <= y
  <2>1. x \in Nat /\ y \in Nat /\ ~(y < x)
    BY <1>1, <1>2, <1>3
  <2> QED
    BY <2>1
<1> QED
  BY <1>3

LEMMA AllNaturals ==
    ASSUME NEW S, 0 \in S, \A n \in Nat : n \in S => n + 1 \in S
    PROVE  Nat \subseteq S
<1> SUFFICES ASSUME NEW T \in SUBSET Nat, T = Nat \ S, T # {} PROVE FALSE
  OBVIOUS
<1>1. PICK x \in T : \A y \in T : x <= y
  BY LeastNatural
<1>2. x \in Nat /\ x \notin S /\ x # 0
  BY <1>1
<1>3. x - 1 \in Nat /\ ~(x <= x - 1) /\ x = (x - 1) + 1
  BY <1>2
<1>4. x - 1 \in S
  BY <1>1, <1>3
<1> QED
  BY <1>2, <1>3, <1>4

\* Every clipboard has its turn.
LEMMA TurnsOfIds ==
    ASSUME ClipboardAssumption
    PROVE  /\ SetToSeq(Ids) \in Seq(Ids)
           /\ \A id \in Ids : \E n \in 1..Len(SetToSeq(Ids)) : SetToSeq(Ids)[n] = id
<1> DEFINE N == Cardinality(Ids)
           turns == SetToSeq(Ids)
<1>1. IsFiniteSet(Ids) /\ N \in Nat /\ ExistsBijection(1..N, Ids)
  BY FS_CardinalityType DEF ClipboardAssumption
<1>2. PICK f : f \in Bijection(1..N, Ids)
  BY <1>1 DEF ExistsBijection
<1>3. f \in [1..N -> Ids] /\ IsInjective(f)
  BY <1>2 DEF Bijection, Injection
<1>4. turns \in [1..N -> Ids] /\ IsInjective(turns)
  BY <1>3 DEF SetToSeq
<1>5. IsFiniteSet(1..N) /\ Cardinality(1..N) = N
  BY <1>1, FS_Interval
<1> HIDE DEF turns
<1>6. turns \in Injection(1..N, Ids)
  BY <1>4 DEF Injection
<1>7. turns \in Surjection(1..N, Ids)
  BY <1>1, <1>5, <1>6, FS_Injection
<1>8. turns \in Seq(Ids) /\ Len(turns) = N
  BY <1>1, <1>4
<1> QED
  BY <1>7, <1>8 DEF Surjection, turns

\* InTurn holds what is in the parts, all of it, and nothing else.
LEMMA InTurnIs ==
    ASSUME ClipboardAssumption, NEW S, NEW parts, \A id \in Ids : parts[id] \in Seq(S)
    PROVE  /\ InTurn(parts) \in Seq(S)
           /\ \A id \in Ids : \A i \in 1..Len(parts[id]) :
                \E n \in 1..Len(InTurn(parts)) : InTurn(parts)[n] = parts[id][i]
<1> DEFINE turns == SetToSeq(Ids)
           N == Len(turns)
           Rule(f, n) == f[n] = IF n = 0 THEN <<>> ELSE f[n - 1] \o parts[turns[n]]
           Sofar(n) == {f \in [0..n -> Seq(S)] : \A i \in 0..n : Rule(f, i)}
           Reached == {n \in Nat : n <= N => Sofar(n) # {}}
<1>1. turns \in Seq(Ids) /\ N \in Nat /\ \A id \in Ids : \E n \in 1..N : turns[n] = id
  BY TurnsOfIds
<1> HIDE DEF turns
<1>2. \A n \in 1..N : parts[turns[n]] \in Seq(S)
  BY <1>1
<1>3. Sofar(N) # {}
  <2>1. 0 \in Reached
    <3> DEFINE e == <<>>
               f == [i \in 0..0 |-> e]
    <3>1. e \in Seq(S)
      OBVIOUS
    <3>2. f \in Sofar(0)
      BY <3>1
    <3> QED
      BY <3>2
  <2>2. ASSUME NEW n \in Nat, n \in Reached PROVE n + 1 \in Reached
    <3> SUFFICES ASSUME n + 1 <= N PROVE Sofar(n + 1) # {}
      <4> HIDE DEF Sofar, N
      <4> QED
        OBVIOUS
    <3>1. PICK f : f \in Sofar(n)
      <4> HIDE DEF Sofar
      <4> QED
        BY <1>1, <2>2
    <3> DEFINE p == parts[turns[n + 1]]
               g == [i \in 0..(n + 1) |-> IF i = n + 1 THEN f[n] \o p ELSE f[i]]
    <3>2. f[n] \in Seq(S) /\ p \in Seq(S)
      BY <1>1, <1>2, <3>1
    <3>3. f[n] \o p \in Seq(S)
      <4> HIDE DEF p
      <4> QED
        BY <3>2
    <3>4. g \in [0..(n + 1) -> Seq(S)]
      BY <3>1, <3>3
    <3>5. ASSUME NEW i \in 0..(n + 1) PROVE Rule(g, i)
      <4>1. CASE i = n + 1
        <5>1. g[i] = f[n] \o p /\ g[i - 1] = f[n] /\ i # 0
          BY <4>1
        <5> QED
          BY <4>1, <5>1
      <4>2. CASE i # n + 1
        <5>1. i \in 0..n /\ g[i] = f[i] /\ (i # 0 => g[i - 1] = f[i - 1])
          BY <4>2
        <5> QED
          BY <3>1, <5>1
      <4> QED
        BY <4>1, <4>2
    <3> QED
      BY <3>4, <3>5
  <2>3. Nat \subseteq Reached
    <3> HIDE DEF Reached
    <3> QED
      BY <2>1, <2>2, AllNaturals
  <2> HIDE DEF Sofar
  <2> QED
    BY <1>1, <2>3
<1> DEFINE upTo == CHOOSE f : f = [n \in 0..N |->
                       IF n = 0 THEN <<>> ELSE f[n - 1] \o parts[turns[n]]]
<1>4. upTo = [n \in 0..N |-> IF n = 0 THEN <<>> ELSE upTo[n - 1] \o parts[turns[n]]]
  <2>1. PICK f : f \in Sofar(N)
    BY <1>3
  <2>2. f = [n \in 0..N |-> IF n = 0 THEN <<>> ELSE f[n - 1] \o parts[turns[n]]]
    BY <2>1
  <2> QED
    BY <2>2
<1>5. InTurn(parts) = upTo[N]
  BY DEF InTurn, turns
<1> HIDE DEF upTo
<1>6. \A n \in 0..N : Rule(upTo, n)
  BY <1>4
<1> DEFINE Whole(n) ==
             /\ upTo[n] \in Seq(S)
             /\ \A m \in 1..n : \A i \in 1..Len(parts[turns[m]]) :
                  \E k \in 1..Len(upTo[n]) : upTo[n][k] = parts[turns[m]][i]
           Right == {n \in Nat : n <= N => Whole(n)}
<1>7. 0 \in Right
  <2> DEFINE e == <<>>
  <2>1. e \in Seq(S)
    OBVIOUS
  <2>2. upTo[0] = e
    BY <1>1, <1>6
  <2> HIDE DEF e
  <2>3. Whole(0)
    BY <2>1, <2>2
  <2> HIDE DEF Whole
  <2> QED
    BY <2>3
<1>8. ASSUME NEW n \in Nat, n \in Right PROVE n + 1 \in Right
  <2> SUFFICES ASSUME n + 1 <= N PROVE Whole(n + 1)
    OBVIOUS
  <2>1. Whole(n)
    <3> HIDE DEF Whole
    <3> QED
      BY <1>1, <1>8
  <2> DEFINE p == parts[turns[n + 1]]
             u == upTo[n]
             v == upTo[n + 1]
  <2>2. v = u \o p /\ p \in Seq(S) /\ u \in Seq(S)
    <3>1. n + 1 \in 0..N /\ n + 1 \in 1..N /\ n + 1 # 0 /\ (n + 1) - 1 = n
      BY <1>1
    <3>2. upTo[n + 1] = upTo[(n + 1) - 1] \o parts[turns[n + 1]]
      BY <1>6, <3>1
    <3>3. upTo[(n + 1) - 1] = upTo[n]
      BY <3>1
    <3> QED
      BY <1>2, <2>1, <3>1, <3>2, <3>3
  <2>3. \A m \in 1..n : \A i \in 1..Len(parts[turns[m]]) :
          \E k \in 1..Len(u) : u[k] = parts[turns[m]][i]
    BY <2>1
  <2> HIDE DEF p, u, v
  <2>4. /\ v \in Seq(S) /\ Len(v) = Len(u) + Len(p) /\ Len(u) \in Nat /\ Len(p) \in Nat
        /\ \A k \in 1..Len(u) : v[k] = u[k]
        /\ \A k \in 1..Len(p) : v[Len(u) + k] = p[k]
    BY <2>2
  <2>5. \A k \in 1..Len(u) : k \in 1..Len(v)
    BY <2>4
  <2>6. \A k \in 1..Len(p) : Len(u) + k \in 1..Len(v)
    BY <2>4
  <2>7. ASSUME NEW m \in 1..(n + 1), NEW i \in 1..Len(parts[turns[m]])
        PROVE  \E k \in 1..Len(v) : v[k] = parts[turns[m]][i]
    <3>1. CASE m = n + 1
      BY <2>4, <2>6, <2>7, <3>1 DEF p
    <3>2. CASE m # n + 1
      <4>1. m \in 1..n
        BY <3>2
      <4> QED
        BY <2>3, <2>4, <2>5, <2>7, <4>1
    <3> QED
      BY <3>1, <3>2
  <2> QED
    BY <2>4, <2>7 DEF v, p
<1>9. Nat \subseteq Right
  <2> HIDE DEF Right
  <2> QED
    BY <1>7, <1>8, AllNaturals
<1>10. Whole(N)
  <2> HIDE DEF Whole
  <2> QED
    BY <1>1, <1>9
<1>11. upTo[N] \in Seq(S)
  BY <1>10
<1>12. ASSUME NEW id \in Ids, NEW i \in 1..Len(parts[id])
       PROVE  \E k \in 1..Len(upTo[N]) : upTo[N][k] = parts[id][i]
  <2>1. PICK m \in 1..N : turns[m] = id
    BY <1>1
  <2> QED
    BY <1>10, <1>12, <2>1
<1> QED
  BY <1>5, <1>11, <1>12

-----------------------------------------------------------------------------
(* The operations on one clipboard *)

Results == [board : Boards, to : Seq(Clients), unexpected : BOOLEAN]

\* A result that sends nothing.
LEMMA QuietlyIs ==
    ASSUME NEW b \in Boards, NEW r, r = Quietly(b)
    PROVE  r \in Results /\ r.board = b /\ r.to = <<>> /\ ~r.unexpected
<1> DEFINE e == <<>>
<1>1. e \in Seq(Clients)
  OBVIOUS
<1>2. r = [board |-> b, to |-> e, unexpected |-> FALSE]
  BY DEF Quietly
<1>3. r.to = <<>>
  BY <1>2
<1> HIDE DEF e
<1> QED
  BY <1>1, <1>2, <1>3 DEF Results

LEMMA SetClipboardIs ==
    ASSUME ClipboardAssumption, NEW b \in Boards, NEW s \in Screens, NEW r, r = SetClipboard(b, s)
    PROVE  /\ r \in Results /\ ~r.unexpected
           /\ r.board.owner = b.owner /\ r.board.seq = b.seq
           /\ r.board.clip = b.clip /\ r.board.data = b.data
           /\ ~r.board.dirty[s]
           /\ \A z \in Screens : z # s => r.board.dirty[z] = b.dirty[z]
           /\ IF s = Primary /\ b.dirty[s]
              THEN r.board.shown = b.clip /\ r.board.held
              ELSE r.board.shown = b.shown /\ r.board.held = b.held
           /\ IF s # Primary /\ b.dirty[s] THEN r.to = <<s>> ELSE r.to = <<>>
<1> DEFINE clean == [b EXCEPT !.dirty[s] = FALSE]
           homeBoard == [clean EXCEPT !.shown = b.clip, !.held = TRUE]
           sentBoard == [clean EXCEPT !.cached[s] = b.clip]
<1>1. CASE ~b.dirty[s]
  BY <1>1, QuietlyIs DEF SetClipboard
<1>2. /\ clean \in Boards
      /\ clean.owner = b.owner /\ clean.seq = b.seq /\ clean.clip = b.clip /\ clean.data = b.data
      /\ clean.shown = b.shown /\ clean.held = b.held /\ clean.cached = b.cached
      /\ clean.dirty = [b.dirty EXCEPT ![s] = FALSE]
  BY DEF Boards
<1>3. ~clean.dirty[s] /\ \A z \in Screens : z # s => clean.dirty[z] = b.dirty[z]
  BY <1>2 DEF Boards
<1>4. CASE b.dirty[s] /\ s = Primary
  <2>1. r = Quietly(homeBoard)
    BY <1>4 DEF SetClipboard
  <2> HIDE DEF clean
  <2>2. /\ homeBoard \in Boards
        /\ homeBoard.owner = b.owner /\ homeBoard.seq = b.seq
        /\ homeBoard.clip = b.clip /\ homeBoard.data = b.data
        /\ homeBoard.dirty = clean.dirty /\ homeBoard.shown = b.clip /\ homeBoard.held = TRUE
    BY <1>2 DEF Boards
  <2> HIDE DEF homeBoard
  <2> QED
    BY <1>3, <1>4, <2>1, <2>2, QuietlyIs
<1>5. CASE b.dirty[s] /\ s # Primary
  <2>1. r = [Quietly(sentBoard) EXCEPT !.to = <<s>>]
    BY <1>5 DEF SetClipboard
  <2>2. s \in Clients /\ <<s>> \in Seq(Clients)
    BY <1>5 DEF Screens
  <2> HIDE DEF clean
  <2>3. /\ sentBoard \in Boards
        /\ sentBoard.owner = b.owner /\ sentBoard.seq = b.seq
        /\ sentBoard.clip = b.clip /\ sentBoard.data = b.data
        /\ sentBoard.dirty = clean.dirty /\ sentBoard.shown = b.shown /\ sentBoard.held = b.held
    BY <1>2, <2>2 DEF Boards
  <2> DEFINE t == <<s>>
             l == Quietly(sentBoard)
  <2> HIDE DEF sentBoard
  <2>4. l \in Results /\ l.board = sentBoard /\ ~l.unexpected
    BY <2>3, QuietlyIs
  <2>5. t \in Seq(Clients) /\ r = [l EXCEPT !.to = t]
    BY <2>1, <2>2
  <2> HIDE DEF t, l
  <2>6. r \in Results /\ r.board = sentBoard /\ r.to = t /\ ~r.unexpected
    BY <2>4, <2>5 DEF Results
  <2> QED
    BY <1>3, <1>5, <2>3, <2>6 DEF t
<1> QED
  BY <1>1, <1>4, <1>5

\* What is left as it is, of a clipboard whose update is not passed on.
Kept(b, r) ==
    /\ r.board.data = b.data /\ r.board.dirty = b.dirty
    /\ r.board.shown = b.shown /\ r.board.held = b.held
    /\ r.to = <<>>
    /\ r.board.clip = b.clip \/ r.board.clip \in Oversize \/ r.board.clip = b.data

\* What an update passed on does.
Taken(b, sender, act, r) ==
    /\ r.board.clip = r.board.data
    /\ \A z \in connected \cup {Primary} : r.board.dirty[z] <=> z # sender /\ z # act
    /\ IF act = Primary /\ sender # Primary
       THEN r.board.shown = r.board.data /\ r.board.held
       ELSE r.board.shown = b.shown /\ r.board.held = b.held
    /\ act \in connected \cup {Primary} =>
          IF act # Primary /\ act # sender THEN r.to = <<act>> ELSE r.to = <<>>

LEMMA OnClipboardChangedIs ==
    ASSUME ClipboardAssumption, connected \subseteq Clients,
           NEW b \in Boards, NEW sender \in Screens, NEW seqno,
           NEW act \in Screens,
           NEW r, r = OnClipboardChanged(b, sender, seqno, act)
    PROVE  /\ r \in Results
           /\ r.board.owner = b.owner /\ r.board.seq = b.seq
           /\ r.unexpected <=> ~(seqno < b.seq) /\ sender # b.owner
           /\ Kept(b, r) \/ Taken(b, sender, act, r)
           /\ seqno < b.seq => Kept(b, r)
<1> DEFINE value == GetClipboard(b, sender)
           taken == [b EXCEPT !.clip = value]
           all == [taken EXCEPT !.data = value,
                                !.dirty = [s \in Screens |->
                                             IF s \in connected \cup {Primary}
                                             THEN s # sender ELSE b.dirty[s]]]
           result == IF value \in Oversize \/ value = b.data
                     THEN Quietly(taken) ELSE SetClipboard(all, act)
<1>1. value \in Copies
  BY DEF GetClipboard, Boards, Screens
<1>2. r = IF seqno < b.seq THEN Quietly(b) ELSE [result EXCEPT !.unexpected = sender # b.owner]
  BY DEF OnClipboardChanged
<1> HIDE DEF value
<1>3. CASE seqno < b.seq
  <2>1. r = Quietly(b)
    BY <1>2, <1>3
  <2>2. r \in Results /\ r.board = b /\ r.to = <<>> /\ ~r.unexpected
    BY <2>1, QuietlyIs
  <2> QED
    BY <1>3, <2>2 DEF Kept
<1>4. /\ taken \in Boards
      /\ taken.owner = b.owner /\ taken.seq = b.seq /\ taken.clip = value /\ taken.data = b.data
      /\ taken.dirty = b.dirty /\ taken.shown = b.shown /\ taken.held = b.held
  BY <1>1 DEF Boards
<1>5. /\ all \in Boards
      /\ all.owner = b.owner /\ all.seq = b.seq /\ all.clip = value /\ all.data = value
      /\ all.shown = b.shown /\ all.held = b.held
      /\ \A s \in connected \cup {Primary} : all.dirty[s] = (s # sender)
  <2> DEFINE d == [s \in Screens |-> IF s \in connected \cup {Primary}
                                     THEN s # sender ELSE b.dirty[s]]
  <2>1. d \in [Screens -> BOOLEAN]
    BY DEF Boards
  <2>2. \A s \in connected \cup {Primary} : d[s] = (s # sender)
    BY DEF Screens
  <2>3. all = [taken EXCEPT !.data = value, !.dirty = d]
    OBVIOUS
  <2> HIDE DEF d, all, taken
  <2> QED
    BY <1>1, <1>4, <2>1, <2>2, <2>3 DEF Boards
<1> HIDE DEF taken, all
<1>7. /\ result \in Results /\ result.board.owner = b.owner /\ result.board.seq = b.seq
      /\ Kept(b, result) \/ Taken(b, sender, act, result)
  <2>1. CASE value \in Oversize \/ value = b.data
    BY <1>4, <2>1, QuietlyIs DEF Kept
  <2>2. CASE ~(value \in Oversize \/ value = b.data)
    <3>1. result = SetClipboard(all, act)
      BY <2>2
    <3> HIDE DEF result
    <3>2. \A z \in connected \cup {Primary} : z \in Screens
      BY DEF Screens
    <3>3. /\ result \in Results
          /\ result.board.owner = b.owner /\ result.board.seq = b.seq
          /\ result.board.clip = value /\ result.board.data = value
          /\ ~result.board.dirty[act]
          /\ \A z \in Screens : z # act => result.board.dirty[z] = all.dirty[z]
          /\ IF act = Primary /\ all.dirty[act]
             THEN result.board.shown = value /\ result.board.held
             ELSE result.board.shown = b.shown /\ result.board.held = b.held
          /\ IF act # Primary /\ all.dirty[act] THEN result.to = <<act>> ELSE result.to = <<>>
      BY <1>5, <3>1, SetClipboardIs
    <3>4. Taken(b, sender, act, result)
      BY <1>5, <3>2, <3>3, Zenon DEF Taken
    <3> QED
      BY <3>3, <3>4
  <2> QED
    BY <2>1, <2>2
<1>8. CASE ~(seqno < b.seq)
  <2>1. r = [result EXCEPT !.unexpected = sender # b.owner]
    BY <1>2, <1>8
  <2> HIDE DEF result
  <2>2. r \in Results /\ r.board = result.board /\ r.to = result.to
        /\ r.unexpected = (sender # b.owner)
    BY <1>7, <2>1 DEF Results
  <2> QED
    BY <1>7, <1>8, <2>2 DEF Kept, Taken
<1> QED
  BY <1>3, <1>8

LEMMA OnClipboardGrabbedIs ==
    ASSUME ClipboardAssumption, connected \subseteq Clients, NEW b \in Boards,
           NEW grabber \in Screens, NEW seqno \in Seqs,
           NEW r, r = OnClipboardGrabbed(b, grabber, seqno)
    PROVE  /\ r \in Boards /\ r.owner = grabber /\ r.seq = seqno /\ r.clip = 0 /\ r.data = 0
           /\ r.cached = b.cached
           /\ \A z \in connected \cup {Primary} : r.dirty[z] <=> z # grabber
           /\ IF grabber = Primary THEN r.shown = b.shown /\ r.held = b.held
              ELSE r.shown = 0 /\ r.held
<1> DEFINE d == [s \in Screens |-> IF s \in connected \cup {Primary}
                                   THEN s # grabber ELSE b.dirty[s]]
           v == IF grabber = Primary THEN b.shown ELSE 0
           h == IF grabber = Primary THEN b.held ELSE TRUE
<1>1. d \in [Screens -> BOOLEAN]
  BY DEF Boards
<1>2. \A z \in connected \cup {Primary} : d[z] <=> z # grabber
  BY DEF Screens
<1>3. v \in Copies /\ h \in BOOLEAN /\ 0 \in Copies
  <2>1. 0 \in Copies
    BY DEF Copies, ClipboardAssumption
  <2>2. b.shown \in Copies /\ b.held \in BOOLEAN
    BY DEF Boards
  <2> QED
    BY <2>1, <2>2
<1>4. r = [b EXCEPT !.owner = grabber, !.seq = seqno, !.clip = 0, !.data = 0,
                    !.dirty = d, !.shown = v, !.held = h]
  BY DEF OnClipboardGrabbed, Boards
<1>5. (grabber = Primary => v = b.shown /\ h = b.held) /\ (grabber # Primary => v = 0 /\ h = TRUE)
  OBVIOUS
<1> HIDE DEF d, v, h
<1>6. r \in Boards
  BY <1>1, <1>3, <1>4, ZenonT(60) DEF Boards
<1>7. r.owner = grabber /\ r.seq = seqno /\ r.clip = 0 /\ r.data = 0 /\ r.dirty = d
      /\ r.shown = v /\ r.held = h /\ r.cached = b.cached
  BY <1>4 DEF Boards
<1> QED
  BY <1>2, <1>5, <1>6, <1>7

-----------------------------------------------------------------------------
(* What the operations send *)

SendOf(c, id, value) == [type |-> "send", to |-> c, id |-> id, value |-> value, gone |-> FALSE]

LEMMA SendsIs ==
    ASSUME ClipboardAssumption, NEW results \in [Ids -> Results], NEW w, w = Sends(results)
    PROVE  /\ w \in Seq(Events)
           /\ \A n \in 1..Len(w) : \E id \in Ids : \E i \in 1..Len(results[id].to) :
                w[n] = SendOf(results[id].to[i], id, results[id].board.clip)
           /\ \A id \in Ids : \A i \in 1..Len(results[id].to) : \E n \in 1..Len(w) :
                w[n] = SendOf(results[id].to[i], id, results[id].board.clip)
<1> DEFINE item(id, i) == SendOf(results[id].to[i], id, results[id].board.clip)
           parts == [id \in Ids |-> [i \in DOMAIN results[id].to |-> item(id, i)]]
           S == {e \in Events : \E id \in Ids : \E i \in 1..Len(results[id].to) : e = item(id, i)}
<1>1. w = InTurn(parts)
  BY DEF Sends, SendOf
<1>2. \A id \in Ids : /\ results[id].to \in Seq(Clients) /\ results[id].board.clip \in Copies
                      /\ DOMAIN results[id].to = 1..Len(results[id].to)
                      /\ Len(results[id].to) \in Nat
  BY DEF Results, Boards
<1>3. ASSUME NEW id \in Ids, NEW i \in 1..Len(results[id].to) PROVE item(id, i) \in S
  <2>1. results[id].to[i] \in Clients
    BY <1>2, <1>3
  <2>2. item(id, i) \in Events
    BY <1>2, <2>1 DEF SendOf, Events
  <2> HIDE DEF item
  <2> QED
    BY <2>2
<1>4. ASSUME NEW id \in Ids
      PROVE  /\ parts[id] \in Seq(S) /\ Len(parts[id]) = Len(results[id].to)
             /\ \A i \in 1..Len(results[id].to) : parts[id][i] = item(id, i)
  <2> HIDE DEF item, S
  <2> DEFINE p == parts[id]
             N == Len(results[id].to)
  <2>1. p = [i \in 1..N |-> item(id, i)] /\ N \in Nat
    BY <1>2
  <2> HIDE DEF p, N, parts
  <2>2. \A i \in 1..N : item(id, i) \in S
    BY <1>3 DEF N
  <2>3. p \in Seq(S) /\ Len(p) = N
    BY <2>1, <2>2
  <2> QED
    BY <2>1, <2>3 DEF p, N
<1> HIDE DEF parts, S
<1>5. /\ w \in Seq(S)
      /\ \A id \in Ids : \A i \in 1..Len(parts[id]) : \E n \in 1..Len(w) : w[n] = parts[id][i]
  BY <1>1, <1>4, InTurnIs
<1> HIDE DEF item
<1>6. \A n \in 1..Len(w) : w[n] \in S
  BY <1>5
<1>7. w \in Seq(Events)
  BY <1>5 DEF S
<1>8. \A id \in Ids : \A i \in 1..Len(results[id].to) : \E n \in 1..Len(w) : w[n] = item(id, i)
  BY <1>4, <1>5
<1>9. \A n \in 1..Len(w) : \E id \in Ids : \E i \in 1..Len(results[id].to) : w[n] = item(id, i)
  BY <1>6 DEF S
<1> QED
  BY <1>7, <1>8, <1>9 DEF item

\* What waits in q still waits in p, but for the first n; the rest of p is new.
Moved(q, p, n) ==
    /\ Len(p) + n >= Len(q)
    /\ \A i \in 1..Len(p) : i + n <= Len(q) => p[i] = q[i + n]

\* A handler's results: the boards, and the transfers behind what waited already.
Applied(results, rest, after) ==
    /\ Moved(rest, after, 0)
    /\ \A n \in 1..Len(after) : n > Len(rest) =>
         \E id \in Ids : \E i \in 1..Len(results[id].to) :
           after[n] = SendOf(results[id].to[i], id, results[id].board.clip)
    /\ \A id \in Ids : \A i \in 1..Len(results[id].to) :
         \E n \in 1..Len(after) : n > Len(rest) /\
           after[n] = SendOf(results[id].to[i], id, results[id].board.clip)

LEMMA ApplyIs ==
    ASSUME ClipboardAssumption, NEW results \in [Ids -> Results], NEW rest \in Seq(Events),
           Apply(results, rest)
    PROVE  /\ board' \in [Ids -> Boards] /\ \A id \in Ids : board'[id] = results[id].board
           /\ queue' \in Seq(Events) /\ Applied(results, rest, queue')
           /\ unexpected' = (unexpected \/ \E id \in Ids : results[id].unexpected)
<1> DEFINE w == Sends(results)
<1>1. /\ w \in Seq(Events)
      /\ \A n \in 1..Len(w) : \E id \in Ids : \E i \in 1..Len(results[id].to) :
           w[n] = SendOf(results[id].to[i], id, results[id].board.clip)
      /\ \A id \in Ids : \A i \in 1..Len(results[id].to) : \E n \in 1..Len(w) :
           w[n] = SendOf(results[id].to[i], id, results[id].board.clip)
  BY SendsIs
<1>2. /\ board' = [id \in Ids |-> results[id].board]
      /\ queue' = rest \o w
      /\ unexpected' = (unexpected \/ \E id \in Ids : results[id].unexpected)
  BY DEF Apply
<1> HIDE DEF w
<1>3. board' \in [Ids -> Boards]
  BY <1>2 DEF Results
<1>4. /\ queue' \in Seq(Events) /\ Len(queue') = Len(rest) + Len(w)
      /\ Len(rest) \in Nat /\ Len(w) \in Nat
      /\ \A i \in 1..Len(rest) : queue'[i] = rest[i]
      /\ \A i \in 1..Len(queue') : i > Len(rest) => queue'[i] = w[i - Len(rest)]
  BY <1>1, <1>2
<1>5. Moved(rest, queue', 0)
  BY <1>4 DEF Moved
<1>6. ASSUME NEW n \in 1..Len(queue'), n > Len(rest)
      PROVE  \E id \in Ids : \E i \in 1..Len(results[id].to) :
               queue'[n] = SendOf(results[id].to[i], id, results[id].board.clip)
  <2>1. n - Len(rest) \in 1..Len(w) /\ queue'[n] = w[n - Len(rest)]
    BY <1>4, <1>6
  <2> QED
    BY <1>1, <2>1
<1>7. ASSUME NEW id \in Ids, NEW i \in 1..Len(results[id].to)
      PROVE  \E n \in 1..Len(queue') : n > Len(rest) /\
               queue'[n] = SendOf(results[id].to[i], id, results[id].board.clip)
  <2>1. PICK m \in 1..Len(w) : w[m] = SendOf(results[id].to[i], id, results[id].board.clip)
    BY <1>1, <1>7
  <2>2. /\ m + Len(rest) \in 1..Len(queue') /\ m + Len(rest) > Len(rest)
        /\ (m + Len(rest)) - Len(rest) = m
    BY <1>4
  <2>3. queue'[m + Len(rest)] = w[m]
    BY <1>4, <2>2
  <2> QED
    BY <2>1, <2>2, <2>3
<1> QED
  BY <1>2, <1>3, <1>4, <1>5, <1>6, <1>7 DEF Applied

-----------------------------------------------------------------------------
(* The handlers of the server, and the types *)

Typed == TypeOK /\ active \in connected \cup {Primary}

\* What becomes of a clipboard b when the active screen changes to dst.
Entered(b, dst, r) ==
    /\ r.board.owner = b.owner /\ r.board.seq = b.seq /\ ~r.unexpected
    /\ \/ /\ r.board.data = b.data
          /\ \A z \in connected \cup {Primary} : z # dst => r.board.dirty[z] = b.dirty[z]
       \/ /\ b.owner = Primary
          /\ \A z \in connected : z # dst => r.board.dirty[z]
    /\ \/ r.board.dirty[dst]
       \/ b.owner = Primary /\ dst = Primary
       \/ ~b.dirty[dst] /\ r.board.data = b.data /\ r.to = <<>>
       \/ r.board.clip \notin Oversize /\
            IF dst = Primary THEN r.board.held /\ r.board.shown = r.board.clip ELSE r.to = <<dst>>
    /\ r.to = <<>> \/ (r.to = <<dst>> /\ dst # Primary /\ r.board.clip \notin Oversize)
    /\ r.board.clip = r.board.data \/ r.board.clip \in Oversize
       \/ (r.board.clip = b.clip /\ r.board.data = b.data)
    /\ \/ r.board.shown = b.shown /\ r.board.held = b.held
       \/ /\ dst = Primary /\ r.board.clip \notin Oversize
          /\ r.board.shown = r.board.clip /\ r.board.held

LEMMA EnteringIs ==
    ASSUME ClipboardAssumption, Typed, NEW b \in Boards, NEW dst \in connected \cup {Primary},
           NEW l, l = IF active = Primary /\ b.owner = Primary
                      THEN OnClipboardChanged(b, Primary, b.seq, Primary) ELSE Quietly(b),
           NEW e, e = IF l.board.clip \in Oversize
                      THEN Quietly(l.board) ELSE SetClipboard(l.board, dst),
           NEW r, r = [board |-> e.board, to |-> l.to \o e.to, unexpected |-> l.unexpected]
    PROVE  r \in Results /\ Entered(b, dst, r)
<1> DEFINE t == <<>>
<1>1. connected \subseteq Clients /\ Primary \in Screens /\ dst \in Screens
  BY DEF Typed, TypeOK, Screens
<1>2. /\ l \in Results /\ l.board.owner = b.owner /\ l.board.seq = b.seq
      /\ ~l.unexpected /\ l.to = t
      /\ l.board.shown = b.shown /\ l.board.held = b.held
      /\ \/ /\ l.board.data = b.data /\ l.board.dirty = b.dirty
            /\ l.board.clip = b.clip \/ l.board.clip \in Oversize \/ l.board.clip = b.data
         \/ /\ b.owner = Primary /\ l.board.clip = l.board.data
            /\ \A z \in connected \cup {Primary} : l.board.dirty[z] <=> z # Primary
  <2>1. CASE active = Primary /\ b.owner = Primary
    <3>1. l = OnClipboardChanged(b, Primary, b.seq, Primary)
      BY <2>1
    <3>2. /\ l \in Results
          /\ l.board.owner = b.owner /\ l.board.seq = b.seq
          /\ l.unexpected <=> ~(b.seq < b.seq) /\ Primary # b.owner
          /\ Kept(b, l) \/ Taken(b, Primary, Primary, l)
      BY <1>1, <3>1, OnClipboardChangedIs, SMTT(60)
    <3> QED
      BY <2>1, <3>2 DEF Kept, Taken
  <2>2. CASE ~(active = Primary /\ b.owner = Primary)
    <3>1. l = Quietly(b)
      BY <2>2
    <3> QED
      BY <3>1, QuietlyIs
  <2> QED
    BY <2>1, <2>2
<1>3. l.board \in Boards
  BY <1>2 DEF Results
<1>4. CASE l.board.clip \in Oversize
  <2>1. e \in Results /\ e.board = l.board /\ e.to = t
    BY <1>3, <1>4, QuietlyIs
  <2>2. l.to \o e.to = t /\ t \in Seq(Clients)
    BY <1>2, <2>1, SMTT(60)
  <2> HIDE DEF t
  <2>3. r = [board |-> l.board, to |-> t, unexpected |-> l.unexpected]
    BY <2>1, <2>2
  <2>4. r.board = l.board /\ r.to = t /\ r.unexpected = l.unexpected
    BY ONLY <2>3
  <2>5. r \in Results
    BY <1>2, <1>3, <2>2, <2>3 DEF Results
  <2>6. t = <<>>
    BY DEF t
  <2>7. \A z \in connected : z # Primary /\ z \in connected \cup {Primary}
    BY <1>1 DEF ClipboardAssumption
  <2>8. dst # Primary => dst \in connected
    OBVIOUS
  <2> QED
    BY <1>2, <1>4, <2>4, <2>5, <2>6, <2>7, <2>8 DEF Entered
<1>5. CASE l.board.clip \notin Oversize
  <2>1. e = SetClipboard(l.board, dst)
    BY <1>5
  <2>2. /\ e \in Results /\ ~e.unexpected
        /\ e.board.owner = l.board.owner /\ e.board.seq = l.board.seq
        /\ e.board.clip = l.board.clip /\ e.board.data = l.board.data
        /\ ~e.board.dirty[dst]
        /\ \A z \in Screens : z # dst => e.board.dirty[z] = l.board.dirty[z]
        /\ IF dst = Primary /\ l.board.dirty[dst]
           THEN e.board.shown = l.board.clip /\ e.board.held
           ELSE e.board.shown = l.board.shown /\ e.board.held = l.board.held
        /\ IF dst # Primary /\ l.board.dirty[dst] THEN e.to = <<dst>> ELSE e.to = <<>>
    BY <1>1, <1>3, <2>1, SetClipboardIs, SMTT(60)
  <2>3. e.to \in Seq(Clients) /\ t \o e.to = e.to
    <3>1. e.to \in Seq(Clients)
      BY ONLY <2>2 DEF Results
    <3> QED
      BY ONLY <3>1, ConcatEmptySeq
  <2>4. l.to \o e.to = e.to
    BY <1>2, <2>3
  <2> HIDE DEF t
  <2>5. r = [board |-> e.board, to |-> e.to, unexpected |-> l.unexpected]
    BY <2>4
  <2>6. r.board = e.board /\ r.to = e.to /\ r.unexpected = l.unexpected
    BY ONLY <2>5
  <2>7. r \in Results
    <3>1. e.board \in Boards /\ l.unexpected \in BOOLEAN
      BY ONLY <1>2, <2>2 DEF Results
    <3> QED
      BY ONLY <2>3, <2>5, <3>1 DEF Results
  <2>8. \A z \in connected \cup {Primary} : z \in Screens
    BY <1>1 DEF Screens
  <2>9. \A z \in connected : z # Primary
    BY <1>1 DEF ClipboardAssumption
  <2>10. b.dirty[dst] = FALSE \/ b.dirty[dst] = TRUE
    BY <1>1 DEF Boards
  <2>11. /\ r.board.owner = b.owner /\ r.board.seq = b.seq /\ ~r.unexpected
         /\ r.board.clip = r.board.data \/ r.board.clip \in Oversize
            \/ (r.board.clip = b.clip /\ r.board.data = b.data)
    BY <1>2, <2>2, <2>6
  <2>12. /\ r.to = <<>> \/ (r.to = <<dst>> /\ dst # Primary /\ r.board.clip \notin Oversize)
         /\ \/ r.board.shown = b.shown /\ r.board.held = b.held
            \/ /\ dst = Primary /\ r.board.clip \notin Oversize
               /\ r.board.shown = r.board.clip /\ r.board.held
    BY <1>2, <1>5, <2>2, <2>6
  <2>13. \/ /\ r.board.data = b.data
            /\ \A z \in connected \cup {Primary} : z # dst => r.board.dirty[z] = b.dirty[z]
         \/ /\ b.owner = Primary
            /\ \A z \in connected : z # dst => r.board.dirty[z]
    <3>1. \A z \in connected \cup {Primary} : z # dst => r.board.dirty[z] = l.board.dirty[z]
      BY ONLY <2>2, <2>6, <2>8
    <3>2. CASE l.board.data = b.data /\ l.board.dirty = b.dirty
      <4>1. r.board.data = b.data
        BY ONLY <2>2, <2>6, <3>2
      <4> QED
        BY ONLY <3>1, <3>2, <4>1
    <3>3. CASE b.owner = Primary /\ \A z \in connected \cup {Primary} : l.board.dirty[z] <=> z # Primary
      BY ONLY <2>9, <3>1, <3>3
    <3> QED
      BY <1>2, <3>2, <3>3
  <2>14. \/ r.board.dirty[dst]
         \/ b.owner = Primary /\ dst = Primary
         \/ ~b.dirty[dst] /\ r.board.data = b.data /\ r.to = <<>>
         \/ r.board.clip \notin Oversize /\
            IF dst = Primary THEN r.board.held /\ r.board.shown = r.board.clip ELSE r.to = <<dst>>
    BY <1>2, <1>5, <2>2, <2>6, <2>8
  <2> QED
    BY <2>7, <2>11, <2>12, <2>13, <2>14 DEF Entered
<1> QED
  BY <1>4, <1>5

\* What SwitchScreen(dst) does.
Switched(dst) ==
    /\ dst \in connected \cup {Primary} /\ dst # active
    /\ \A i \in 1..Len(queue) : ~(queue[i].type = "grabbed" /\ queue[i].from = Primary)
    /\ seqNum' = seqNum + 1 /\ seqNum' \in Seqs /\ active' = dst
    /\ down' = [c \in Clients |->
                  IF c = active THEN Append(down[c], [type |-> "leave"])
                  ELSE IF c = dst THEN Append(down[c], [type |-> "enter", seq |-> seqNum'])
                  ELSE down[c]]
    /\ primarySeq' = IF dst = Primary THEN seqNum' ELSE primarySeq
    /\ board' \in [Ids -> Boards] /\ queue' \in Seq(Events) /\ unexpected' = unexpected
    /\ \E results \in [Ids -> Results] :
         /\ Applied(results, queue, queue')
         /\ \A id \in Ids : board'[id] = results[id].board /\ Entered(board[id], dst, results[id])
    /\ UNCHANGED <<connected, clientVars, up, bookVars>>

LEMMA SwitchScreenIs ==
    ASSUME ClipboardAssumption, Typed, NEW dst, SwitchScreen(dst)
    PROVE  Switched(dst)
<1> DEFINE l(id) == IF active = Primary /\ board[id].owner = Primary
                    THEN OnClipboardChanged(board[id], Primary, board[id].seq, Primary)
                    ELSE Quietly(board[id])
           e(id) == IF l(id).board.clip \in Oversize
                    THEN Quietly(l(id).board) ELSE SetClipboard(l(id).board, dst)
           r(id) == [board |-> e(id).board, to |-> l(id).to \o e(id).to,
                     unexpected |-> l(id).unexpected]
           results == [id \in Ids |-> r(id)]
<1>1. /\ dst \in connected \cup {Primary} /\ dst # active
      /\ \A i \in DOMAIN queue : ~(queue[i].type = "grabbed" /\ queue[i].from = Primary)
      /\ seqNum < MaxSwitches /\ seqNum' = seqNum + 1 /\ active' = dst
      /\ down' = [c \in Clients |->
                  IF c = active THEN Append(down[c], [type |-> "leave"])
                  ELSE IF c = dst THEN Append(down[c], [type |-> "enter", seq |-> seqNum'])
                  ELSE down[c]]
      /\ primarySeq' = IF dst = Primary THEN seqNum' ELSE primarySeq
      /\ UNCHANGED <<connected, clientVars, up, bookVars>>
  BY DEF SwitchScreen
<1>2. Apply(results, queue)
  BY DEF SwitchScreen
<1>3. \A id \in Ids : board[id] \in Boards
  BY DEF Typed, TypeOK
<1>4. ASSUME NEW id \in Ids PROVE r(id) \in Results /\ Entered(board[id], dst, r(id))
  <2> HIDE DEF r, e, l
  <2>1. l(id) = IF active = Primary /\ board[id].owner = Primary
                THEN OnClipboardChanged(board[id], Primary, board[id].seq, Primary)
                ELSE Quietly(board[id])
    BY DEF l
  <2>2. e(id) = IF l(id).board.clip \in Oversize
                THEN Quietly(l(id).board) ELSE SetClipboard(l(id).board, dst)
    BY DEF e
  <2>3. r(id) = [board |-> e(id).board, to |-> l(id).to \o e(id).to,
                 unexpected |-> l(id).unexpected]
    BY DEF r
  <2> QED
    BY <1>1, <1>3, <2>1, <2>2, <2>3, EnteringIs
<1> HIDE DEF r
<1>5. results \in [Ids -> Results] /\ \A id \in Ids : results[id] = r(id)
  BY <1>4
<1> HIDE DEF results
<1>6. queue \in Seq(Events) /\ unexpected \in BOOLEAN
  BY DEF Typed, TypeOK
<1>7. /\ board' \in [Ids -> Boards] /\ \A id \in Ids : board'[id] = results[id].board
      /\ queue' \in Seq(Events) /\ Applied(results, queue, queue')
      /\ unexpected' = (unexpected \/ \E id \in Ids : results[id].unexpected)
  BY <1>2, <1>5, <1>6, ApplyIs
<1>8. \A id \in Ids : Entered(board[id], dst, results[id])
  BY <1>4, <1>5
<1>9. unexpected' = unexpected
  BY <1>6, <1>7, <1>8 DEF Entered
<1>10. seqNum' \in Seqs
  BY <1>1 DEF Typed, TypeOK, Seqs, ClipboardAssumption
<1>11. \A i \in 1..Len(queue) : ~(queue[i].type = "grabbed" /\ queue[i].from = Primary)
  BY <1>1, <1>6
<1>12. \E x \in [Ids -> Results] :
         /\ Applied(x, queue, queue')
         /\ \A id \in Ids : board'[id] = x[id].board /\ Entered(board[id], dst, x[id])
  BY <1>5, <1>7, <1>8
<1> QED
  BY <1>1, <1>7, <1>9, <1>10, <1>11, <1>12 DEF Switched

LEMMA NothingApplied ==
    ASSUME NEW results, NEW rest \in Seq(Events), NEW after \in Seq(Events),
           Applied(results, rest, after), \A id \in Ids : results[id].to = <<>>
    PROVE  after = rest
<1>1. \A id \in Ids : ~\E i \in 1..Len(results[id].to) : TRUE
  OBVIOUS
<1>2. \A n \in 1..Len(after) : ~(n > Len(rest))
  BY <1>1 DEF Applied
<1>3. /\ Len(after) + 0 >= Len(rest) /\ Len(after) \in Nat /\ Len(rest) \in Nat
      /\ \A i \in 1..Len(after) : i + 0 <= Len(rest) => after[i] = rest[i + 0]
  BY DEF Applied, Moved
<1>4. Len(after) = Len(rest)
  <2> SUFFICES ASSUME Len(after) > Len(rest) PROVE FALSE
    BY <1>3
  <2>1. Len(after) \in 1..Len(after)
    BY <1>3
  <2> QED
    BY <1>2, <2>1
<1>5. \A i \in 1..Len(after) : after[i] = rest[i]
  BY <1>3, <1>4
<1> QED
  BY <1>4, <1>5

\* What HandleClipboardGrabbed does with a grab e.
Refused(e) == ~Accepts(e) /\ queue' = Tail(queue) /\ UNCHANGED <<board, unexpected, down>>

Grabbed(e) ==
    /\ Accepts(e)
    /\ down' = [c \in Clients |->
                  IF c \in connected \ {e.from}
                  THEN Append(down[c], [type |-> "grab", id |-> e.id, seq |-> 0])
                  ELSE down[c]]
    /\ board' \in [Ids -> Boards] /\ queue' \in Seq(Events) /\ unexpected' \in BOOLEAN
    /\ ~(e.from = Primary /\ active # Primary) =>
         /\ unexpected' = unexpected /\ queue' = Tail(queue)
         /\ board' = [board EXCEPT ![e.id] = OnClipboardGrabbed(@, e.from, e.seq)]

LEMMA GrabbedEvent ==
    ASSUME NEW e \in Events, e.type # "send"
    PROVE  /\ e.from \in Screens /\ e.id \in Ids /\ e.seq \in Seqs /\ e.gone \in BOOLEAN
           /\ e.type \in {"grabbed", "changed"}
  BY DEF Events

LEMMA SendEvent ==
    ASSUME NEW e \in Events, e.type = "send"
    PROVE  e.to \in Clients /\ e.id \in Ids /\ e.value \in Copies /\ e.gone \in BOOLEAN
  BY DEF Events

LEMMA TailOfQueue ==
    ASSUME NEW q \in Seq(Events), q # <<>>
    PROVE  /\ Tail(q) \in Seq(Events) /\ Len(Tail(q)) = Len(q) - 1 /\ Len(q) \in Nat /\ Len(q) > 0
           /\ Head(q) = q[1] /\ Head(q) \in Events
           /\ \A i \in 1..Len(Tail(q)) : Tail(q)[i] = q[i + 1]
  OBVIOUS

LEMMA HandleClipboardGrabbedIs ==
    ASSUME ClipboardAssumption, Typed, HandleClipboardGrabbed, NEW e, e = Head(queue)
    PROVE  /\ queue # <<>> /\ e \in Events /\ e.type = "grabbed"
           /\ Refused(e) \/ Grabbed(e)
           /\ UNCHANGED <<connected, active, seqNum, primarySeq, clientVars, up, bookVars>>
<1> DEFINE after == [board EXCEPT ![e.id] = OnClipboardGrabbed(@, e.from, e.seq)]
           r(id) == IF e.from = Primary /\ active # Primary
                    THEN OnClipboardChanged(after[id], Primary, after[id].seq, active)
                    ELSE Quietly(after[id])
           results == [id \in Ids |-> r(id)]
<1>1. /\ queue # <<>> /\ e.type = "grabbed"
      /\ UNCHANGED <<connected, active, seqNum, primarySeq, clientVars, up, bookVars>>
  BY DEF HandleClipboardGrabbed
<1>2. /\ queue \in Seq(Events) /\ e \in Events /\ Tail(queue) \in Seq(Events)
      /\ board \in [Ids -> Boards] /\ unexpected \in BOOLEAN /\ connected \subseteq Clients
      /\ active \in Screens
  BY <1>1, TailOfQueue DEF Typed, TypeOK
<1>3. e.from \in Screens /\ e.id \in Ids /\ e.seq \in Seqs
  BY <1>1, <1>2, GrabbedEvent
<1>4. CASE ~Accepts(e)
  <2>1. Refused(e)
    BY <1>4 DEF HandleClipboardGrabbed, Refused
  <2> QED
    BY <1>1, <1>2, <2>1
<1>5. CASE Accepts(e)
  <2>1. /\ down' = [c \in Clients |->
                  IF c \in connected \ {e.from}
                  THEN Append(down[c], [type |-> "grab", id |-> e.id, seq |-> 0])
                  ELSE down[c]]
        /\ Apply(results, Tail(queue))
    BY <1>5 DEF HandleClipboardGrabbed
  <2>2. OnClipboardGrabbed(board[e.id], e.from, e.seq) \in Boards
    BY <1>2, <1>3, OnClipboardGrabbedIs
  <2>3. after \in [Ids -> Boards]
    BY <1>2, <1>3, <2>2
  <2> HIDE DEF after
  <2>4. ASSUME NEW id \in Ids
        PROVE  /\ r(id) \in Results
               /\ ~(e.from = Primary /\ active # Primary) =>
                    r(id).board = after[id] /\ r(id).to = <<>> /\ ~r(id).unexpected
    <3> HIDE DEF r
    <3>0. after[id] \in Boards /\ Primary \in Screens
      BY <2>3 DEF Screens
    <3>1. CASE e.from = Primary /\ active # Primary
      <4>1. r(id) = OnClipboardChanged(after[id], Primary, after[id].seq, active)
        BY <3>1 DEF r
      <4> QED
        BY <1>2, <3>0, <3>1, <4>1, OnClipboardChangedIs
    <3>2. CASE ~(e.from = Primary /\ active # Primary)
      <4>1. r(id) = Quietly(after[id])
        BY <3>2 DEF r
      <4> QED
        BY <3>0, <4>1, QuietlyIs
    <3> QED
      BY <3>1, <3>2
  <2> HIDE DEF r
  <2>5. results \in [Ids -> Results] /\ \A id \in Ids : results[id] = r(id)
    BY <2>4
  <2> HIDE DEF results
  <2>6. /\ board' \in [Ids -> Boards] /\ \A id \in Ids : board'[id] = results[id].board
        /\ queue' \in Seq(Events) /\ Applied(results, Tail(queue), queue')
        /\ unexpected' = (unexpected \/ \E id \in Ids : results[id].unexpected)
    BY <1>2, <2>1, <2>5, ApplyIs
  <2>7. unexpected' \in BOOLEAN
    <3>1. \A id \in Ids : results[id].unexpected \in BOOLEAN
      BY <2>5 DEF Results
    <3> QED
      BY <1>2, <2>6, <3>1
  <2>8. ASSUME ~(e.from = Primary /\ active # Primary)
        PROVE  unexpected' = unexpected /\ queue' = Tail(queue) /\ board' = after
    <3>1. \A id \in Ids : results[id].board = after[id] /\ results[id].to = <<>>
                           /\ ~results[id].unexpected
      BY <2>4, <2>5, <2>8
    <3>2. queue' = Tail(queue)
      BY <1>2, <2>6, <3>1, NothingApplied
    <3>3. board' = after
      BY <2>3, <2>6, <3>1
    <3> QED
      BY <1>2, <2>6, <3>1, <3>2, <3>3
  <2>9. Grabbed(e)
    BY <1>5, <2>1, <2>6, <2>7, <2>8 DEF Grabbed, after
  <2> QED
    BY <1>1, <1>2, <2>9
<1> QED
  BY <1>4, <1>5

\* What HandleClipboardChanged does with an update e.
Changed(e) ==
    /\ board' \in [Ids -> Boards] /\ queue' \in Seq(Events)
    /\ \A id \in Ids : id # e.id => board'[id] = board[id]
    /\ \E r \in Results :
         /\ IF ~e.gone /\ e.from \in connected
            THEN r = OnClipboardChanged(board[e.id], e.from, e.seq, active)
            ELSE r = Quietly(board[e.id])
         /\ board'[e.id] = r.board /\ unexpected' = (unexpected \/ r.unexpected)
         /\ Moved(Tail(queue), queue', 0)
         /\ \A n \in 1..Len(queue') : n > Len(Tail(queue)) =>
              \E i \in 1..Len(r.to) : queue'[n] = SendOf(r.to[i], e.id, r.board.clip)
         /\ \A i \in 1..Len(r.to) : \E n \in 1..Len(queue') :
              n > Len(Tail(queue)) /\ queue'[n] = SendOf(r.to[i], e.id, r.board.clip)

LEMMA HandleClipboardChangedIs ==
    ASSUME ClipboardAssumption, Typed, HandleClipboardChanged, NEW e, e = Head(queue)
    PROVE  /\ queue # <<>> /\ e \in Events /\ e.type = "changed"
           /\ Changed(e) /\ unexpected' \in BOOLEAN
           /\ UNCHANGED <<connected, active, seqNum, primarySeq, clientVars, netVars, bookVars>>
<1> DEFINE r(id) == IF id = e.id /\ ~e.gone /\ e.from \in connected
                    THEN OnClipboardChanged(board[id], e.from, e.seq, active)
                    ELSE Quietly(board[id])
           results == [id \in Ids |-> r(id)]
<1>1. /\ queue # <<>> /\ e.type = "changed" /\ Apply(results, Tail(queue))
      /\ UNCHANGED <<connected, active, seqNum, primarySeq, clientVars, netVars, bookVars>>
  BY DEF HandleClipboardChanged
<1>2. /\ queue \in Seq(Events) /\ e \in Events /\ Tail(queue) \in Seq(Events)
      /\ board \in [Ids -> Boards] /\ unexpected \in BOOLEAN /\ connected \subseteq Clients
      /\ active \in Screens
  BY <1>1, TailOfQueue DEF Typed, TypeOK
<1>3. e.from \in Screens /\ e.id \in Ids /\ e.seq \in Seqs
  BY <1>1, <1>2, GrabbedEvent
<1>4. ASSUME NEW id \in Ids
      PROVE  /\ r(id) \in Results
             /\ id # e.id => r(id).board = board[id] /\ r(id).to = <<>> /\ ~r(id).unexpected
  <2> HIDE DEF r
  <2>1. CASE id = e.id /\ ~e.gone /\ e.from \in connected
    <3>1. r(id) = OnClipboardChanged(board[id], e.from, e.seq, active) /\ board[id] \in Boards
      BY <1>2, <2>1 DEF r
    <3> QED
      BY <1>2, <1>3, <2>1, <3>1, OnClipboardChangedIs
  <2>2. CASE ~(id = e.id /\ ~e.gone /\ e.from \in connected)
    <3>1. r(id) = Quietly(board[id]) /\ board[id] \in Boards
      BY <1>2, <2>2 DEF r
    <3> QED
      BY <3>1, QuietlyIs
  <2> QED
    BY <2>1, <2>2
<1>5. IF ~e.gone /\ e.from \in connected
      THEN r(e.id) = OnClipboardChanged(board[e.id], e.from, e.seq, active)
      ELSE r(e.id) = Quietly(board[e.id])
  OBVIOUS
<1> HIDE DEF r
<1>6. results \in [Ids -> Results] /\ \A id \in Ids : results[id] = r(id)
  BY <1>4
<1> HIDE DEF results
<1>7. /\ board' \in [Ids -> Boards] /\ \A id \in Ids : board'[id] = results[id].board
      /\ queue' \in Seq(Events) /\ Applied(results, Tail(queue), queue')
      /\ unexpected' = (unexpected \/ \E id \in Ids : results[id].unexpected)
  BY <1>1, <1>2, <1>6, ApplyIs
<1>8. results[e.id].unexpected \in BOOLEAN /\ results[e.id] \in Results
  BY <1>3, <1>6 DEF Results
<1>9. unexpected' = (unexpected \/ results[e.id].unexpected)
  BY <1>3, <1>4, <1>6, <1>7
<1>10. \A id \in Ids : id # e.id => board'[id] = board[id]
  BY <1>4, <1>6, <1>7
<1>11. \A id \in Ids : id # e.id => results[id].to = <<>>
  BY <1>4, <1>6
<1>12. ASSUME NEW n \in 1..Len(queue'), n > Len(Tail(queue))
       PROVE  \E i \in 1..Len(results[e.id].to) :
                queue'[n] = SendOf(results[e.id].to[i], e.id, results[e.id].board.clip)
  <2>1. PICK id \in Ids : \E i \in 1..Len(results[id].to) :
           queue'[n] = SendOf(results[id].to[i], id, results[id].board.clip)
    BY <1>7, <1>12 DEF Applied
  <2>2. id = e.id
    <3> SUFFICES ASSUME id # e.id PROVE FALSE
      OBVIOUS
    <3>1. Len(results[id].to) = 0
      BY <1>11
    <3> QED
      BY <2>1, <3>1
  <2> QED
    BY <2>1, <2>2
<1>13. \A i \in 1..Len(results[e.id].to) : \E n \in 1..Len(queue') :
         n > Len(Tail(queue)) /\
         queue'[n] = SendOf(results[e.id].to[i], e.id, results[e.id].board.clip)
  BY <1>3, <1>7 DEF Applied
<1>14. Moved(Tail(queue), queue', 0)
  BY <1>7 DEF Applied
<1>15. /\ results[e.id] = r(e.id) /\ board'[e.id] = results[e.id].board
  BY <1>3, <1>6, <1>7
<1>16. Changed(e)
  BY <1>5, <1>7, <1>8, <1>9, <1>10, <1>12, <1>13, <1>14, <1>15 DEF Changed
<1> QED
  BY <1>1, <1>2, <1>8, <1>9, <1>16

-----------------------------------------------------------------------------
(* The handlers of the clients, and the types *)

LEMMA MovedTail ==
    ASSUME NEW S, NEW q \in Seq(S), q # <<>>
    PROVE  Tail(q) \in Seq(S) /\ Moved(q, Tail(q), 1) /\ Len(Tail(q)) = Len(q) - 1
           /\ Head(q) = q[1] /\ q[1] \in S /\ Len(q) \in Nat /\ Len(q) > 0
<1>1. /\ Tail(q) \in Seq(S) /\ Len(Tail(q)) = Len(q) - 1 /\ Len(q) \in Nat /\ Len(q) > 0
      /\ Head(q) = q[1] /\ q[1] \in S
      /\ \A i \in 1..Len(Tail(q)) : Tail(q)[i] = q[i + 1]
  OBVIOUS
<1> QED
  BY <1>1 DEF Moved

LEMMA MovedAppend ==
    ASSUME NEW S, NEW q \in Seq(S), NEW x \in S
    PROVE  Append(q, x) \in Seq(S) /\ Moved(q, Append(q, x), 0)
           /\ Len(Append(q, x)) = Len(q) + 1 /\ Append(q, x)[Len(q) + 1] = x
           /\ Len(q) \in Nat
<1>1. /\ Append(q, x) \in Seq(S) /\ Len(Append(q, x)) = Len(q) + 1 /\ Len(q) \in Nat
      /\ \A i \in 1..Len(q) : Append(q, x)[i] = q[i]
      /\ Append(q, x)[Len(q) + 1] = x
  OBVIOUS
<1> QED
  BY <1>1 DEF Moved

\* p is q without the first n, and then w.
Extended(q, n, w, p) ==
    /\ Moved(q, p, n) /\ Len(p) + n = Len(q) + Len(w)
    /\ \A i \in 1..Len(p) : i + n > Len(q) =>
         i + n - Len(q) \in 1..Len(w) /\ p[i] = w[i + n - Len(q)]

LEMMA MovedConcat ==
    ASSUME NEW S, NEW q \in Seq(S), NEW w \in Seq(S), NEW p, p = q \o w
    PROVE  p \in Seq(S) /\ Extended(q, 0, w, p)
<1>1. /\ p \in Seq(S) /\ Len(p) = Len(q) + Len(w) /\ Len(q) \in Nat /\ Len(w) \in Nat
      /\ \A i \in 1..Len(q) : p[i] = q[i]
      /\ \A i \in 1..Len(p) : i > Len(q) => p[i] = w[i - Len(q)]
  OBVIOUS
<1> QED
  BY <1>1 DEF Moved, Extended

LEMMA MovedOn ==
    ASSUME NEW S, NEW q \in Seq(S), q # <<>>, NEW w \in Seq(S), NEW p, p = Tail(q) \o w
    PROVE  p \in Seq(S) /\ Extended(q, 1, w, p)
<1> DEFINE t == Tail(q)
<1>1. t \in Seq(S) /\ Moved(q, t, 1) /\ Len(t) = Len(q) - 1 /\ Len(q) \in Nat /\ Len(q) > 0
  BY MovedTail
<1>2. p = t \o w
  OBVIOUS
<1> HIDE DEF t
<1>3. p \in Seq(S) /\ Extended(t, 0, w, p)
  BY <1>1, <1>2, MovedConcat
<1>4. Len(t) \in Nat /\ Len(p) \in Nat /\ Len(w) \in Nat
  BY <1>1, <1>3
<1>5. Moved(q, p, 1) /\ Len(p) + 1 = Len(q) + Len(w)
  BY <1>1, <1>3, <1>4 DEF Moved, Extended
<1>6. ASSUME NEW i \in 1..Len(p), i + 1 > Len(q)
      PROVE  i + 1 - Len(q) \in 1..Len(w) /\ p[i] = w[i + 1 - Len(q)]
  <2>1. i + 0 > Len(t) /\ i + 0 - Len(t) = i + 1 - Len(q)
    BY <1>1, <1>4, <1>6
  <2>2. i + 0 - Len(t) \in 1..Len(w) /\ p[i] = w[i + 0 - Len(t)]
    BY <1>3, <2>1 DEF Extended
  <2> QED
    BY <2>1, <2>2
<1> QED
  BY <1>3, <1>5, <1>6 DEF Extended

LEMMA SentIs ==
    ASSUME NEW m \in Clips
    PROVE  /\ Sent(m) \in Clips /\ ~Sendable(Sent(m))
           /\ Sent(m).own = m.own /\ Sent(m).shown = m.shown /\ Sent(m).held = m.held
  BY DEF Clips, Sent, Sendable

LEMMA TransferIs ==
    ASSUME NEW c \in Clients, NEW id \in Ids, NEW m \in Clips, seq \in [Clients -> Seqs],
           NEW w, w = Transfer(c, id, m)
    PROVE  /\ w \in Seq(Requests)
           /\ \A i \in 1..Len(w) :
                /\ Sendable(m) /\ w[i] \in Requests
                /\ w[i].type = "send" /\ w[i].id = id /\ w[i].seq = seq[c] /\ w[i].value = m.shown
<1> DEFINE x == [type |-> "send", id |-> id, value |-> m.shown, seq |-> seq[c]]
<1>1. CASE Sendable(m)
  <2>1. x \in Requests /\ x.type = "send" /\ x.id = id /\ x.seq = seq[c] /\ x.value = m.shown
    BY DEF Requests, Clips
  <2>2. w = <<x>>
    BY <1>1 DEF Transfer
  <2> HIDE DEF x
  <2>3. w \in Seq(Requests) /\ Len(w) = 1 /\ w[1] = x
    BY <2>1, <2>2
  <2>4. \A i \in 1..Len(w) : i = 1
    BY <2>3
  <2> QED
    BY <1>1, <2>1, <2>3, <2>4
<1>2. CASE ~Sendable(m)
  <2>1. w = <<>>
    BY <1>2 DEF Transfer
  <2>2. w \in Seq(Requests) /\ Len(w) = 0
    BY <2>1
  <2> QED
    BY <2>2
<1> QED
  BY <1>1, <1>2

LEMMA OverwrittenIs ==
    ASSUME ClipboardAssumption, NEW m \in Clips, NEW value \in Copies,
           NEW w, w = Overwritten(m, value)
    PROVE  /\ w \in Clips /\ w.shown = value /\ w.held /\ ~w.own /\ ~w.sent
  BY DEF Overwritten, Clips

\* What ClientGrabs(c) does, for the clipboard id.
Grabs(c, id) ==
    /\ clientQueue[c] # <<>> /\ clientQueue[c][1].type = "grabbed" /\ clientQueue[c][1].id = id
    /\ up' = [up EXCEPT ![c] = Append(@, [type |-> "grab", id |-> id, seq |-> seq[c]])]
    /\ \E m \in Clips :
         /\ mine' = [mine EXCEPT ![c][id] = m]
         /\ m.own /\ m.shown = mine[c][id].shown /\ m.held = mine[c][id].held
         /\ Sendable(m) => here[c]
    /\ \E w \in Seq(Requests) :
         /\ clientQueue' = [clientQueue EXCEPT ![c] = w] /\ Moved(clientQueue[c], w, 1)
         /\ \A i \in 1..Len(w) : i + 1 > Len(clientQueue[c]) =>
              w[i].type = "send" /\ w[i].id = id /\ w[i].seq = seq[c]

LEMMA ClientGrabsIs ==
    ASSUME ClipboardAssumption, Typed, NEW c \in Clients, ClientGrabs(c)
    PROVE  /\ c \in connected /\ \E id \in Ids : Grabs(c, id)
           /\ UNCHANGED <<serverVars, here, seq, down, bookVars>>
<1> DEFINE id == Head(clientQueue[c]).id
           m == [mine[c][id] EXCEPT !.own = TRUE, !.sent = FALSE]
           n == IF here[c] THEN m ELSE Sent(m)
           w == IF here[c] THEN <<>> ELSE Transfer(c, id, m)
           p == Tail(clientQueue[c]) \o w
<1>1. /\ c \in connected /\ clientQueue[c] # <<>> /\ Head(clientQueue[c]).type = "grabbed"
      /\ up' = [up EXCEPT ![c] = Append(@, [type |-> "grab", id |-> id, seq |-> seq[c]])]
      /\ UNCHANGED <<serverVars, here, seq, down, bookVars>>
  BY DEF ClientGrabs
<1>2. /\ clientQueue \in [Clients -> Seq(Requests)] /\ clientQueue[c] \in Seq(Requests)
      /\ mine \in [Clients -> [Ids -> Clips]] /\ seq \in [Clients -> Seqs]
      /\ here \in [Clients -> BOOLEAN]
  BY DEF Typed, TypeOK
<1>3. mine' = [mine EXCEPT ![c][id] = n] /\ clientQueue' = [clientQueue EXCEPT ![c] = p]
  <2>1. mine' = [mine EXCEPT ![c][id] = IF here[c] THEN m ELSE Sent(m)]
    BY DEF ClientGrabs
  <2>2. clientQueue' = [clientQueue EXCEPT ![c] =
                         Tail(@) \o IF here[c] THEN <<>> ELSE Transfer(c, id, m)]
    BY DEF ClientGrabs
  <2> QED
    BY <2>1, <2>2
<1>4. /\ Head(clientQueue[c]) = clientQueue[c][1] /\ clientQueue[c][1] \in Requests
  BY <1>1, <1>2
<1>5. id \in Ids
  BY <1>4 DEF Requests
<1> HIDE DEF id
<1>6. /\ m \in Clips /\ m.own /\ m.shown = mine[c][id].shown /\ m.held = mine[c][id].held
  <2>1. mine[c][id] \in Clips
    BY <1>2, <1>5
  <2> QED
    BY <2>1 DEF Clips
<1> HIDE DEF m
<1>7. /\ n \in Clips /\ n.own /\ n.shown = mine[c][id].shown /\ n.held = mine[c][id].held
      /\ Sendable(n) => here[c]
  BY <1>6, SentIs
<1> HIDE DEF n
<1>8. /\ w \in Seq(Requests)
      /\ \A i \in 1..Len(w) : w[i].type = "send" /\ w[i].id = id /\ w[i].seq = seq[c]
  <2>1. CASE here[c]
    <3>1. w = <<>>
      BY <2>1
    <3> HIDE DEF w
    <3>2. w \in Seq(Requests) /\ Len(w) = 0
      BY ONLY <3>1
    <3> QED
      BY <3>2
  <2>2. CASE ~here[c]
    <3>1. w = Transfer(c, id, m)
      BY <2>2
    <3> HIDE DEF w
    <3> QED
      BY <1>2, <1>5, <1>6, <3>1, TransferIs
  <2> QED
    BY <2>1, <2>2
<1> HIDE DEF w
<1>p. p = Tail(clientQueue[c]) \o w
  OBVIOUS
<1> HIDE DEF p
<1>9. p \in Seq(Requests) /\ Extended(clientQueue[c], 1, w, p)
  BY <1>1, <1>2, <1>8, <1>p, MovedOn
<1>10. \A i \in 1..Len(p) : i + 1 > Len(clientQueue[c]) =>
           p[i].type = "send" /\ p[i].id = id /\ p[i].seq = seq[c]
  BY <1>8, <1>9 DEF Extended
<1>11. clientQueue[c][1].type = "grabbed" /\ clientQueue[c][1].id = id
  BY <1>1, <1>4 DEF id
<1>12. Grabs(c, id)
  BY <1>1, <1>3, <1>7, <1>9, <1>10, <1>11 DEF Grabs, Extended
<1> QED
  BY <1>1, <1>5, <1>12

Value(m) == IF m.type = "grab" THEN 0 ELSE m.value

\* What ClientReceives(c) does with a message m.
Enters(c, m) ==
    /\ m.type = "enter" /\ m.seq \in Seqs
    /\ seq' = [seq EXCEPT ![c] = m.seq] /\ here' = [here EXCEPT ![c] = TRUE]
    /\ UNCHANGED <<mine, clientQueue>>

Leaves(c, m) ==
    /\ m.type = "leave"
    /\ here' = [here EXCEPT ![c] = FALSE] /\ seq' = seq
    /\ \E f \in [Ids -> Clips] :
         /\ mine' = [mine EXCEPT ![c] = f]
         /\ \A id \in Ids :
              /\ f[id].own = mine[c][id].own /\ f[id].held = mine[c][id].held
              /\ f[id].shown = mine[c][id].shown
              /\ f[id].own => ~Sendable(f[id])
    /\ \E w \in Seq(Requests) :
         /\ clientQueue' = [clientQueue EXCEPT ![c] = w] /\ Moved(clientQueue[c], w, 0)
         /\ \A i \in 1..Len(w) : i > Len(clientQueue[c]) =>
              /\ w[i] \in Requests /\ w[i].type = "send" /\ w[i].seq = seq[c]
              /\ mine[c][w[i].id].own /\ Sendable(mine[c][w[i].id])
              /\ w[i].value = mine[c][w[i].id].shown

Overwrites(c, m) ==
    /\ m.type \in {"grab", "clip"} /\ m.id \in Ids /\ Value(m) \in Copies
    /\ \E x \in Clips :
         /\ mine' = [mine EXCEPT ![c][m.id] = x]
         /\ x.shown = Value(m) /\ x.held /\ ~x.own
    /\ UNCHANGED <<here, seq, clientQueue>>

LEMMA LeavesIs ==
    ASSUME ClipboardAssumption, Typed, NEW c \in Clients, NEW m, m.type = "leave",
           here' = [here EXCEPT ![c] = FALSE], seq' = seq,
           mine' = [mine EXCEPT ![c] = [id \in Ids |-> IF @[id].own THEN Sent(@[id]) ELSE @[id]]],
           clientQueue' = [clientQueue EXCEPT ![c] =
             @ \o InTurn([id \in Ids |-> IF mine[c][id].own
                                         THEN Transfer(c, id, mine[c][id]) ELSE <<>>])]
    PROVE  Leaves(c, m)
<1> DEFINE f == [id \in Ids |-> IF mine[c][id].own THEN Sent(mine[c][id]) ELSE mine[c][id]]
           part(id) == IF mine[c][id].own THEN Transfer(c, id, mine[c][id]) ELSE <<>>
           parts == [id \in Ids |-> part(id)]
           S == {r \in Requests : /\ r.type = "send" /\ r.seq = seq[c]
                                  /\ mine[c][r.id].own /\ Sendable(mine[c][r.id])
                                  /\ r.value = mine[c][r.id].shown}
           w == InTurn(parts)
           q == clientQueue[c]
           p == q \o w
<1>1. /\ mine \in [Clients -> [Ids -> Clips]] /\ seq \in [Clients -> Seqs]
      /\ q \in Seq(Requests)
  BY DEF Typed, TypeOK
<1>2. mine' = [mine EXCEPT ![c] = f] /\ clientQueue' = [clientQueue EXCEPT ![c] = p]
  OBVIOUS
<1>3. ASSUME NEW id \in Ids PROVE mine[c][id] \in Clips
  BY <1>1
<1>4. ASSUME NEW id \in Ids
      PROVE  /\ f[id] \in Clips
             /\ f[id].own = mine[c][id].own /\ f[id].held = mine[c][id].held
             /\ f[id].shown = mine[c][id].shown
             /\ f[id].own => ~Sendable(f[id])
  <2>1. CASE mine[c][id].own
    <3>1. f[id] = Sent(mine[c][id])
      BY <2>1
    <3> HIDE DEF f
    <3> QED
      BY <1>3, <3>1, SentIs
  <2>2. CASE ~mine[c][id].own
    <3>1. f[id] = mine[c][id]
      BY <2>2
    <3> HIDE DEF f
    <3> QED
      BY <1>3, <2>2, <3>1
  <2> QED
    BY <2>1, <2>2
<1>5. f \in [Ids -> Clips]
  <2>1. \A id \in Ids : f[id] \in Clips
    BY <1>4
  <2>2. DOMAIN f = Ids /\ f = [id \in Ids |-> f[id]]
    OBVIOUS
  <2> HIDE DEF f
  <2> QED
    BY <2>1, <2>2
<1> HIDE DEF f
<1>6. ASSUME NEW id \in Ids PROVE part(id) \in Seq(S)
  <2>1. CASE mine[c][id].own
    <3> DEFINE t == Transfer(c, id, mine[c][id])
    <3>1. part(id) = t
      BY <2>1
    <3> HIDE DEF part
    <3>2. /\ t \in Seq(Requests)
          /\ \A i \in 1..Len(t) :
                /\ Sendable(mine[c][id]) /\ t[i] \in Requests
                /\ t[i].type = "send" /\ t[i].id = id /\ t[i].seq = seq[c]
                /\ t[i].value = mine[c][id].shown
      BY <1>1, <1>3, TransferIs
    <3> HIDE DEF t
    <3>3. \A i \in 1..Len(t) : t[i] \in S
      BY <2>1, <3>2
    <3> HIDE DEF S
    <3> QED
      BY <3>1, <3>2, <3>3
  <2>2. CASE ~mine[c][id].own
    <3>1. part(id) = <<>>
      BY <2>2
    <3> HIDE DEF part, S
    <3> QED
      BY ONLY <3>1
  <2> QED
    BY <2>1, <2>2
<1> HIDE DEF part
<1>7. \A id \in Ids : parts[id] \in Seq(S)
  BY <1>6
<1> HIDE DEF parts, S
<1>8. w \in Seq(S)
  BY <1>7, InTurnIs
<1> HIDE DEF w
<1>9. w \in Seq(Requests) /\ \A i \in 1..Len(w) : w[i] \in S
  <2>1. \A x \in S : x \in Requests
    BY DEF S
  <2> QED
    BY <1>8, <2>1
<1>10. p = q \o w
  OBVIOUS
<1> HIDE DEF p, q
<1>11. p \in Seq(Requests) /\ Extended(q, 0, w, p)
  BY <1>1, <1>9, <1>10, MovedConcat
<1>12. ASSUME NEW i \in 1..Len(p), i > Len(q)
       PROVE  /\ p[i] \in Requests /\ p[i].type = "send" /\ p[i].seq = seq[c]
              /\ mine[c][p[i].id].own /\ Sendable(mine[c][p[i].id])
              /\ p[i].value = mine[c][p[i].id].shown
  <2>1. i + 0 - Len(q) \in 1..Len(w) /\ p[i] = w[i + 0 - Len(q)]
    <3>1. Len(q) \in Nat /\ i + 0 > Len(q)
      BY <1>1, <1>12
    <3> QED
      BY <1>11, <3>1 DEF Extended
  <2>2. p[i] \in S
    BY <1>9, <2>1
  <2> QED
    BY <2>2 DEF S
<1>13. Moved(q, p, 0)
  BY <1>11 DEF Extended
<1> QED
  BY <1>2, <1>4, <1>5, <1>11, <1>12, <1>13 DEF Leaves, q

LEMMA ClientReceivesIs ==
    ASSUME ClipboardAssumption, Typed, NEW c \in Clients, ClientReceives(c),
           NEW m, m = down[c][1]
    PROVE  /\ down[c] # <<>> /\ down' = [down EXCEPT ![c] = Tail(@)] /\ m \in Messages
           /\ Enters(c, m) \/ Leaves(c, m) \/ Overwrites(c, m)
           /\ UNCHANGED <<serverVars, up, bookVars>>
<1>1. /\ down[c] # <<>> /\ down' = [down EXCEPT ![c] = Tail(@)]
      /\ UNCHANGED <<serverVars, up, bookVars>>
  BY DEF ClientReceives
<1>2. down[c] \in Seq(Messages) /\ mine \in [Clients -> [Ids -> Clips]]
  BY DEF Typed, TypeOK
<1>3. m = Head(down[c]) /\ m \in Messages
  BY <1>1, <1>2
<1>4. CASE /\ m.type = "enter"
           /\ seq' = [seq EXCEPT ![c] = m.seq] /\ here' = [here EXCEPT ![c] = TRUE]
           /\ UNCHANGED <<mine, clientQueue>>
  <2>1. m.seq \in Seqs
    BY <1>3, <1>4 DEF Messages
  <2> QED
    BY <1>1, <1>3, <1>4, <2>1 DEF Enters
<1>5. CASE /\ m.type = "leave"
           /\ here' = [here EXCEPT ![c] = FALSE]
           /\ mine' = [mine EXCEPT ![c] =
                         [id \in Ids |-> IF @[id].own THEN Sent(@[id]) ELSE @[id]]]
           /\ clientQueue' = [clientQueue EXCEPT ![c] =
                @ \o InTurn([id \in Ids |-> IF mine[c][id].own
                                            THEN Transfer(c, id, mine[c][id]) ELSE <<>>])]
           /\ UNCHANGED seq
  <2>1. Leaves(c, m)
    BY <1>5, LeavesIs
  <2> QED
    BY <1>1, <1>3, <2>1
<1>6. ASSUME m.type \in {"grab", "clip"}, UNCHANGED <<seq, here, clientQueue>>,
             mine' = [mine EXCEPT ![c][m.id] = Overwritten(@, Value(m))]
      PROVE  Overwrites(c, m)
  <2>1. m.id \in Ids /\ Value(m) \in Copies
    BY <1>3, <1>6 DEF Messages, Value, Copies, ClipboardAssumption
  <2> DEFINE x == Overwritten(mine[c][m.id], Value(m))
  <2>2. mine[c][m.id] \in Clips
    BY <1>2, <2>1
  <2>3. x \in Clips /\ x.shown = Value(m) /\ x.held /\ ~x.own
    BY <2>1, <2>2, OverwrittenIs
  <2>4. mine' = [mine EXCEPT ![c][m.id] = x]
    BY <1>6
  <2> HIDE DEF x
  <2> QED
    BY <1>6, <2>1, <2>3, <2>4 DEF Overwrites
<1>7. CASE m.type = "grab" /\ mine' = [mine EXCEPT ![c][m.id] = Overwritten(@, 0)]
           /\ UNCHANGED <<seq, here, clientQueue>>
  <2>1. Value(m) = 0
    BY <1>7 DEF Value
  <2> QED
    BY <1>1, <1>3, <1>6, <1>7, <2>1
<1>8. CASE m.type = "clip" /\ mine' = [mine EXCEPT ![c][m.id] = Overwritten(@, m.value)]
           /\ UNCHANGED <<seq, here, clientQueue>>
  <2>1. Value(m) = m.value
    BY <1>8 DEF Value
  <2> QED
    BY <1>1, <1>3, <1>6, <1>8, <2>1
<1> QED
  BY <1>3, <1>4, <1>5, <1>7, <1>8 DEF ClientReceives

-----------------------------------------------------------------------------
(* The types *)

LEMMA TypedByServer ==
    ASSUME ClipboardAssumption, Typed, ServerStep \/ \E dst \in Screens : SwitchScreen(dst)
    PROVE  Typed'
<1>1. /\ board \in [Ids -> Boards] /\ queue \in Seq(Events) /\ seqNum \in Seqs
      /\ primarySeq \in Seqs /\ active \in Screens /\ connected \subseteq Clients
      /\ down \in [Clients -> Seq(Messages)] /\ up \in [Clients -> Seq(Messages)]
      /\ active \in connected \cup {Primary} /\ unexpected \in BOOLEAN /\ crashed \in BOOLEAN
      /\ here \in [Clients -> BOOLEAN] /\ seq \in [Clients -> Seqs]
      /\ mine \in [Clients -> [Ids -> Clips]] /\ clientQueue \in [Clients -> Seq(Requests)]
      /\ made \in Seq([on : Screens, id : Ids]) /\ Len(made) \in Copies
      /\ departures \in 0..MaxDepartures
  BY DEF Typed, TypeOK
<1>2. 0 \in Seqs /\ [type |-> "leave"] \in Messages
  BY DEF Seqs, Messages, ClipboardAssumption
<1>3. ASSUME NEW dst, SwitchScreen(dst) PROVE Typed'
  <2>1. Switched(dst)
    BY <1>3, SwitchScreenIs
  <2>2. /\ dst \in connected \cup {Primary} /\ seqNum' \in Seqs /\ active' = dst
        /\ down' = [c \in Clients |->
                  IF c = active THEN Append(down[c], [type |-> "leave"])
                  ELSE IF c = dst THEN Append(down[c], [type |-> "enter", seq |-> seqNum'])
                  ELSE down[c]]
        /\ primarySeq' = IF dst = Primary THEN seqNum' ELSE primarySeq
        /\ board' \in [Ids -> Boards] /\ queue' \in Seq(Events) /\ unexpected' = unexpected
        /\ UNCHANGED <<connected, clientVars, up, bookVars>>
    BY <2>1 DEF Switched
  <2>3. [type |-> "enter", seq |-> seqNum'] \in Messages
    BY <2>2 DEF Messages
  <2>4. \A c \in Clients : down'[c] \in Seq(Messages)
    BY <1>1, <1>2, <2>2, <2>3, MovedAppend
  <2>5. down' \in [Clients -> Seq(Messages)]
    <3>1. down' = [c \in Clients |-> down'[c]]
      BY <2>2
    <3> QED
      BY <2>4, <3>1
  <2>6. dst \in Screens /\ primarySeq' \in Seqs
    BY <1>1, <2>2 DEF Screens
  <2> QED
    BY <1>1, <2>2, <2>5, <2>6 DEF Typed, TypeOK, clientVars, bookVars
<1>4. ASSUME HandleClipboardGrabbed PROVE Typed'
  <2> DEFINE e == Head(queue)
             x == [type |-> "grab", id |-> e.id, seq |-> 0]
  <2>1. /\ e \in Events /\ e.type = "grabbed" /\ queue # <<>>
        /\ Refused(e) \/ Grabbed(e)
        /\ UNCHANGED <<connected, active, seqNum, primarySeq, clientVars, up, bookVars>>
    BY <1>4, HandleClipboardGrabbedIs
  <2>2. x \in Messages
    BY <1>2, <2>1, GrabbedEvent DEF Messages
  <2> HIDE DEF e
  <2>3. CASE Refused(e)
    <3>1. queue' \in Seq(Events)
      BY <1>1, <2>1, <2>3, TailOfQueue DEF Refused
    <3> QED
      BY <1>1, <2>1, <2>3, <3>1 DEF Refused, Typed, TypeOK, clientVars, bookVars
  <2>4. CASE Grabbed(e)
    <3>1. down' = [c \in Clients |-> IF c \in connected \ {e.from} THEN Append(down[c], x) ELSE down[c]]
      BY <2>4 DEF Grabbed
    <3> HIDE DEF x
    <3>2. \A c \in Clients : down'[c] \in Seq(Messages)
      BY <1>1, <2>2, <3>1, MovedAppend
    <3>3. down' = [c \in Clients |-> down'[c]]
      BY <3>1
    <3>4. down' \in [Clients -> Seq(Messages)]
      BY <3>2, <3>3
    <3> QED
      BY <1>1, <2>1, <2>4, <3>4 DEF Grabbed, Typed, TypeOK, clientVars, bookVars
  <2> QED
    BY <2>1, <2>3, <2>4
<1>5. ASSUME HandleClipboardChanged PROVE Typed'
  <2>1. PICK e : /\ Changed(e) /\ unexpected' \in BOOLEAN
                 /\ UNCHANGED <<connected, active, seqNum, primarySeq, clientVars, netVars, bookVars>>
    BY <1>5, HandleClipboardChangedIs
  <2>2. board' \in [Ids -> Boards] /\ queue' \in Seq(Events)
    BY <2>1 DEF Changed
  <2> QED
    BY <1>1, <2>1, <2>2 DEF Typed, TypeOK, clientVars, netVars, bookVars
<1>6. ASSUME SendQueued PROVE Typed'
  <2> DEFINE e == Head(queue)
             x == [type |-> "clip", id |-> e.id, value |-> e.value, seq |-> 0]
  <2>1. /\ queue # <<>> /\ e.type = "send" /\ queue' = Tail(queue)
        /\ IF e.gone THEN crashed' \in BOOLEAN /\ UNCHANGED down
           ELSE down' = [down EXCEPT ![e.to] = Append(@, x)] /\ UNCHANGED crashed
        /\ UNCHANGED <<connected, active, seqNum, board, primarySeq, unexpected,
                       clientVars, up, made, departures>>
    BY <1>6 DEF SendQueued
  <2>2. queue' \in Seq(Events) /\ e \in Events
    BY <1>1, <2>1, TailOfQueue
  <2>3. e.to \in Clients /\ x \in Messages
    BY <1>2, <2>1, <2>2, SendEvent DEF Messages
  <2> HIDE DEF e, x
  <2>4. Append(down[e.to], x) \in Seq(Messages)
    BY <1>1, <2>3, MovedAppend
  <2>5. down' \in [Clients -> Seq(Messages)] /\ crashed' \in BOOLEAN
    <3>1. CASE e.gone
      BY <1>1, <2>1, <3>1
    <3>2. CASE ~e.gone
      <4>1. down' = [down EXCEPT ![e.to] = Append(@, x)] /\ crashed' = crashed
        BY <2>1, <3>2
      <4> QED
        BY <1>1, <2>3, <2>4, <4>1
    <3> QED
      BY <3>1, <3>2
  <2> QED
    BY <1>1, <2>1, <2>2, <2>5 DEF Typed, TypeOK, clientVars
<1>7. ASSUME NEW c \in Clients, ReceiveFromClient(c) PROVE Typed'
  <2> DEFINE m == Head(up[c])
             note(type) == [type |-> type, from |-> c, id |-> m.id, seq |-> m.seq, gone |-> FALSE]
  <2>1. /\ up[c] # <<>> /\ up' = [up EXCEPT ![c] = Tail(@)]
        /\ \/ m.type = "grab" /\ queue' = Append(queue, note("grabbed")) /\ UNCHANGED board
           \/ /\ m.type = "clip" /\ queue' = Append(queue, note("changed"))
              /\ board' = [board EXCEPT ![m.id].cached[c] = m.value]
        /\ UNCHANGED <<connected, active, seqNum, primarySeq, unexpected, clientVars, down, bookVars>>
    BY <1>7 DEF ReceiveFromClient
  <2>2. m \in Messages /\ Tail(up[c]) \in Seq(Messages)
    BY <1>1, <2>1
  <2>3. m.id \in Ids /\ m.seq \in Seqs /\ (m.type = "clip" => m.value \in Copies)
    BY <2>1, <2>2 DEF Messages
  <2>4. note("grabbed") \in Events /\ note("changed") \in Events
    BY <2>3 DEF Events, Screens
  <2> HIDE DEF m, note
  <2>5. queue' \in Seq(Events)
    <3>1. Append(queue, note("grabbed")) \in Seq(Events)
      BY <1>1, <2>4, MovedAppend
    <3>2. Append(queue, note("changed")) \in Seq(Events)
      BY <1>1, <2>4, MovedAppend
    <3> QED
      BY <2>1, <3>1, <3>2
  <2>6. up' \in [Clients -> Seq(Messages)]
    BY <1>1, <2>1, <2>2
  <2>7. board' \in [Ids -> Boards]
    <3>1. CASE UNCHANGED board
      BY <1>1, <3>1
    <3>2. CASE m.type = "clip" /\ board' = [board EXCEPT ![m.id].cached[c] = m.value]
      <4> DEFINE k == [board[m.id] EXCEPT !.cached[c] = m.value]
      <4>1. board[m.id] \in Boards
        BY <1>1, <2>3
      <4>2. k \in Boards
        BY <2>3, <3>2, <4>1, ZenonT(60) DEF Boards
      <4>3. board' = [board EXCEPT ![m.id] = k]
        BY <3>2
      <4> HIDE DEF k
      <4> QED
        BY <1>1, <2>3, <4>2, <4>3
    <3> QED
      BY <2>1, <3>1, <3>2
  <2> QED
    BY <1>1, <2>1, <2>5, <2>6, <2>7 DEF Typed, TypeOK, clientVars, bookVars
<1> QED
  BY <1>3, <1>4, <1>5, <1>6, <1>7 DEF ServerStep

LEMMA NewCopyIs ==
    ASSUME ClipboardAssumption, Typed, NEW s \in Screens, NEW id \in Ids, NewCopy(s, id)
    PROVE  /\ made' \in Seq([on : Screens, id : Ids])
           /\ Len(made') \in Copies /\ Len(made') = Len(made) + 1
           /\ Quiet \/ (IF Held(s, id) THEN "reported" ELSE "unreported") \in Hasty
<1>1. /\ made \in Seq([on : Screens, id : Ids]) /\ Len(made) \in Copies
      /\ Len(made) < MaxCopies /\ made' = Append(made, [on |-> s, id |-> id])
  BY DEF Typed, TypeOK, NewCopy
<1>2. [on |-> s, id |-> id] \in [on : Screens, id : Ids]
  OBVIOUS
<1>3. made' \in Seq([on : Screens, id : Ids]) /\ Len(made') = Len(made) + 1
  BY <1>1, <1>2, MovedAppend
<1>4. Len(made') \in Copies
  BY <1>1, <1>3 DEF Copies, ClipboardAssumption
<1> QED
  BY <1>3, <1>4 DEF NewCopy

LEMMA OrphanIs ==
    ASSUME NEW e \in Events, NEW c
    PROVE  /\ Orphan(e, c) \in Events
           /\ Orphan(e, c).type = e.type /\ Orphan(e, c).id = e.id
           /\ e.type # "send" =>
                /\ Orphan(e, c).from = e.from /\ Orphan(e, c).seq = e.seq
                /\ Orphan(e, c).gone <=> e.gone \/ e.from = c
           /\ e.type = "send" =>
                /\ Orphan(e, c).to = e.to /\ Orphan(e, c).value = e.value
                /\ Orphan(e, c).gone <=> e.gone \/ e.to = c
<1>1. CASE e.type = "send"
  <2>1. e \in [type : {"send"}, to : Clients, id : Ids, value : Copies, gone : BOOLEAN]
    BY <1>1 DEF Events
  <2> QED
    BY <1>1, <2>1 DEF Orphan, Events
<1>2. CASE e.type # "send"
  <2>1. e \in [type : {"grabbed", "changed"}, from : Screens, id : Ids, seq : Seqs, gone : BOOLEAN]
    BY <1>2 DEF Events
  <2> QED
    BY <1>2, <2>1 DEF Orphan, Events
<1> QED
  BY <1>1, <1>2

LEMMA TypedByOthers ==
    ASSUME ClipboardAssumption, Typed,
           \/ \E id \in Ids : PrimaryCopies(id) \/ \E c \in Clients : ClientCopies(c, id)
           \/ \E c \in Clients : ClientStep(c) \/ Join(c) \/ Depart(c)
    PROVE  Typed'
<1>1. /\ board \in [Ids -> Boards] /\ queue \in Seq(Events) /\ seqNum \in Seqs
      /\ primarySeq \in Seqs /\ active \in Screens /\ connected \subseteq Clients
      /\ down \in [Clients -> Seq(Messages)] /\ up \in [Clients -> Seq(Messages)]
      /\ active \in connected \cup {Primary} /\ unexpected \in BOOLEAN /\ crashed \in BOOLEAN
      /\ here \in [Clients -> BOOLEAN] /\ seq \in [Clients -> Seqs]
      /\ mine \in [Clients -> [Ids -> Clips]] /\ clientQueue \in [Clients -> Seq(Requests)]
      /\ made \in Seq([on : Screens, id : Ids]) /\ Len(made) \in Copies
      /\ departures \in 0..MaxDepartures
  BY DEF Typed, TypeOK
<1>2. 0 \in Seqs /\ 0 \in Copies
  BY DEF Seqs, Copies, ClipboardAssumption
<1>3. ASSUME NEW id \in Ids, PrimaryCopies(id) PROVE Typed'
  <2> DEFINE x == [type |-> "grabbed", from |-> Primary, id |-> id, seq |-> primarySeq, gone |-> FALSE]
             k == [board[id] EXCEPT !.shown = Len(made'), !.held = FALSE]
  <2>1. /\ NewCopy(Primary, id)
        /\ board' = [board EXCEPT ![id].shown = Len(made'), ![id].held = FALSE]
        /\ queue' = IF Held(Primary, id) THEN Append(queue, x) ELSE queue
        /\ UNCHANGED <<connected, active, seqNum, primarySeq, unexpected, clientVars, netVars,
                       departures, crashed>>
    BY <1>3 DEF PrimaryCopies
  <2>2. Primary \in Screens
    BY DEF Screens
  <2>3. made' \in Seq([on : Screens, id : Ids]) /\ Len(made') \in Copies
    BY <1>3, <2>1, <2>2, NewCopyIs
  <2>4. x \in Events
    BY <1>1, <1>3, <2>2 DEF Events
  <2>5. board' = [board EXCEPT ![id] = k]
    BY <2>1
  <2>6. board[id] \in Boards
    BY <1>1, <1>3
  <2>7. k \in Boards
    BY <2>3, <2>6, ZenonT(60) DEF Boards
  <2> HIDE DEF k, x
  <2>8. board' \in [Ids -> Boards]
    BY <1>1, <1>3, <2>5, <2>7
  <2>9. queue' \in Seq(Events)
    BY <1>1, <2>1, <2>4, MovedAppend
  <2> QED
    BY <1>1, <2>1, <2>3, <2>8, <2>9 DEF Typed, TypeOK, clientVars, netVars
<1>4. ASSUME NEW id \in Ids, NEW c \in Clients, ClientCopies(c, id) PROVE Typed'
  <2> DEFINE x == [type |-> "grabbed", id |-> id]
             k == [mine[c][id] EXCEPT !.shown = Len(made'), !.held = FALSE]
  <2>1. /\ NewCopy(c, id)
        /\ mine' = [mine EXCEPT ![c][id].shown = Len(made'), ![c][id].held = FALSE]
        /\ clientQueue' = IF Held(c, id)
                          THEN [clientQueue EXCEPT ![c] = Append(@, x)] ELSE clientQueue
        /\ UNCHANGED <<serverVars, here, seq, netVars, departures, crashed>>
    BY <1>4 DEF ClientCopies
  <2>2. c \in Screens
    BY DEF Screens
  <2>3. made' \in Seq([on : Screens, id : Ids]) /\ Len(made') \in Copies
    BY <1>4, <2>1, <2>2, NewCopyIs
  <2>4. x \in Requests
    BY DEF Requests
  <2>5. mine' = [mine EXCEPT ![c][id] = k]
    BY <2>1
  <2>6. mine[c][id] \in Clips
    BY <1>1
  <2>7. k \in Clips
    BY <2>3, <2>6, ZenonT(60) DEF Clips
  <2> HIDE DEF k, x
  <2>8. mine' \in [Clients -> [Ids -> Clips]]
    BY <1>1, <2>5, <2>7
  <2>9. Append(clientQueue[c], x) \in Seq(Requests)
    BY <1>1, <2>4, MovedAppend
  <2>10. clientQueue' \in [Clients -> Seq(Requests)]
    BY <1>1, <2>1, <2>9
  <2> QED
    BY <1>1, <2>1, <2>3, <2>8, <2>10 DEF Typed, TypeOK, serverVars, netVars
<1>5. ASSUME NEW c \in Clients, ClientGrabs(c) PROVE Typed'
  <2>1. UNCHANGED <<serverVars, here, seq, down, bookVars>>
    BY <1>5, ClientGrabsIs
  <2>2. PICK id \in Ids : Grabs(c, id)
    BY <1>5, ClientGrabsIs
  <2> DEFINE x == [type |-> "grab", id |-> id, seq |-> seq[c]]
  <2>3. x \in Messages
    BY <1>1 DEF Messages
  <2>4. up' = [up EXCEPT ![c] = Append(@, x)]
    BY <2>2 DEF Grabs
  <2> HIDE DEF x
  <2>5. Append(up[c], x) \in Seq(Messages)
    BY <1>1, <2>3, MovedAppend
  <2>6. up' \in [Clients -> Seq(Messages)]
    BY <1>1, <2>4, <2>5
  <2>7. mine' \in [Clients -> [Ids -> Clips]]
    BY <1>1, <2>2 DEF Grabs
  <2>8. clientQueue' \in [Clients -> Seq(Requests)]
    BY <1>1, <2>2 DEF Grabs
  <2> QED
    BY <1>1, <2>1, <2>6, <2>7, <2>8 DEF Typed, TypeOK, serverVars, bookVars
<1>6. ASSUME NEW c \in Clients, ClientSends(c) PROVE Typed'
  <2> DEFINE e == Head(clientQueue[c])
             x == [type |-> "clip", id |-> e.id, value |-> e.value, seq |-> e.seq]
  <2>1. /\ clientQueue[c] # <<>> /\ e.type = "send"
        /\ up' = [up EXCEPT ![c] = Append(@, x)]
        /\ clientQueue' = [clientQueue EXCEPT ![c] = Tail(@)]
        /\ UNCHANGED <<serverVars, here, seq, mine, down, bookVars>>
    BY <1>6 DEF ClientSends
  <2>2. e \in Requests /\ Tail(clientQueue[c]) \in Seq(Requests)
    BY <1>1, <2>1
  <2>3. x \in Messages
    BY <2>1, <2>2 DEF Requests, Messages
  <2> HIDE DEF e, x
  <2>4. Append(up[c], x) \in Seq(Messages)
    BY <1>1, <2>3, MovedAppend
  <2>5. up' \in [Clients -> Seq(Messages)] /\ clientQueue' \in [Clients -> Seq(Requests)]
    BY <1>1, <2>1, <2>2, <2>4
  <2> QED
    BY <1>1, <2>1, <2>5 DEF Typed, TypeOK, serverVars, bookVars
<1>7. ASSUME NEW c \in Clients, ClientReceives(c) PROVE Typed'
  <2>1. PICK m : m = down[c][1]
    OBVIOUS
  <2>2. /\ down[c] # <<>> /\ down' = [down EXCEPT ![c] = Tail(@)] /\ m \in Messages
        /\ Enters(c, m) \/ Leaves(c, m) \/ Overwrites(c, m)
        /\ UNCHANGED <<serverVars, up, bookVars>>
    BY <1>7, <2>1, ClientReceivesIs
  <2>3. Tail(down[c]) \in Seq(Messages)
    BY <1>1, <2>2
  <2>4. down' \in [Clients -> Seq(Messages)]
    BY <1>1, <2>2, <2>3
  <2>5. here' \in [Clients -> BOOLEAN] /\ seq' \in [Clients -> Seqs]
    BY <1>1, <2>2 DEF Enters, Leaves, Overwrites
  <2>6. mine' \in [Clients -> [Ids -> Clips]] /\ clientQueue' \in [Clients -> Seq(Requests)]
    <3>1. CASE Enters(c, m)
      BY <1>1, <3>1 DEF Enters
    <3>2. CASE Leaves(c, m)
      <4>1. PICK f \in [Ids -> Clips] : mine' = [mine EXCEPT ![c] = f]
        BY <3>2 DEF Leaves
      <4>2. PICK w \in Seq(Requests) : clientQueue' = [clientQueue EXCEPT ![c] = w]
        BY <3>2 DEF Leaves
      <4> QED
        BY <1>1, <4>1, <4>2
    <3>3. CASE Overwrites(c, m)
      <4>1. PICK x \in Clips : mine' = [mine EXCEPT ![c][m.id] = x]
        BY <3>3 DEF Overwrites
      <4> QED
        BY <1>1, <3>3, <4>1 DEF Overwrites
    <3> QED
      BY <2>2, <3>1, <3>2, <3>3
  <2> QED
    BY <1>1, <2>2, <2>4, <2>5, <2>6 DEF Typed, TypeOK, serverVars, bookVars
<1>8. ASSUME NEW c \in Clients, ClientSendsStale(c) PROVE Typed'
  <2>1. Tail(clientQueue[c]) \in Seq(Requests)
    BY <1>1, <1>8 DEF ClientSendsStale
  <2>2. clientQueue' \in [Clients -> Seq(Requests)]
    BY <1>1, <1>8, <2>1 DEF ClientSendsStale
  <2> QED
    BY <1>1, <1>8, <2>2 DEF ClientSendsStale, Typed, TypeOK, serverVars, netVars, bookVars
<1>9. ASSUME NEW c \in Clients, Join(c) PROVE Typed'
  <2> DEFINE k(id) == [board[id] EXCEPT !.dirty[c] = TRUE, !.cached[c] = 0]
             n(id) == Overwritten(mine[c][id], 0)
  <2>1. /\ connected' = connected \cup {c} /\ seq' = [seq EXCEPT ![c] = 0]
        /\ board' = [id \in Ids |-> k(id)]
        /\ mine' = [mine EXCEPT ![c] = [id \in Ids |-> n(id)]]
        /\ UNCHANGED <<active, seqNum, queue, primarySeq, unexpected, here, clientQueue,
                       netVars, bookVars>>
    BY <1>9 DEF Join
  <2>2. ASSUME NEW id \in Ids PROVE k(id) \in Boards
    <3>1. board[id] \in Boards /\ c \in Screens
      BY <1>1 DEF Screens
    <3> QED
      BY <1>2, <3>1, ZenonT(60) DEF Boards
  <2>3. ASSUME NEW id \in Ids PROVE n(id) \in Clips
    <3>1. mine[c][id] \in Clips
      BY <1>1
    <3> QED
      BY <1>2, <3>1, OverwrittenIs
  <2> HIDE DEF k, n
  <2>4. board' \in [Ids -> Boards] /\ mine' \in [Clients -> [Ids -> Clips]]
    BY <1>1, <2>1, <2>2, <2>3
  <2>5. seq' \in [Clients -> Seqs]
    BY <1>1, <1>2, <2>1
  <2> QED
    BY <1>1, <1>9, <2>1, <2>4, <2>5 DEF Typed, TypeOK, netVars, bookVars
<1>10. ASSUME NEW c \in Clients, Depart(c) PROVE Typed'
  <2> DEFINE g(i) == Orphan(queue[i], c)
             none == <<>>
  <2>1. /\ departures < MaxDepartures /\ departures' = departures + 1
        /\ connected' = connected \ {c}
        /\ queue' = [i \in DOMAIN queue |-> g(i)]
        /\ active' = IF active = c THEN Primary ELSE active
        /\ primarySeq' = IF active = c THEN seqNum ELSE primarySeq
        /\ down' = [down EXCEPT ![c] = none] /\ up' = [up EXCEPT ![c] = none]
        /\ UNCHANGED <<seqNum, board, unexpected, clientVars, made, crashed>>
    BY <1>10 DEF Depart
  <2>2. none \in Seq(Messages)
    OBVIOUS
  <2>3. \A i \in 1..Len(queue) : g(i) \in Events
    BY <1>1, OrphanIs
  <2> HIDE DEF g, none
  <2>4. queue' = [i \in 1..Len(queue) |-> g(i)] /\ Len(queue) \in Nat
    BY <1>1, <2>1
  <2>5. queue' \in Seq(Events)
    BY <2>3, <2>4
  <2>6. down' \in [Clients -> Seq(Messages)] /\ up' \in [Clients -> Seq(Messages)]
    BY <1>1, <2>1, <2>2
  <2>7. departures' \in 0..MaxDepartures /\ active' \in Screens
    BY <1>1, <2>1 DEF Screens, ClipboardAssumption
  <2>8. active' \in connected' \cup {Primary} /\ primarySeq' \in Seqs /\ connected' \subseteq Clients
    BY <1>1, <2>1
  <2> QED
    BY <1>1, <2>1, <2>5, <2>6, <2>7, <2>8 DEF Typed, TypeOK, clientVars
<1> QED
  BY <1>3, <1>4, <1>5, <1>6, <1>7, <1>8, <1>9, <1>10 DEF ClientStep

LEMMA TypedInit == ASSUME ClipboardAssumption, Init PROVE Typed
<1> DEFINE none == <<>>
           d == [s \in Screens |-> s # Primary]
           k == [owner |-> Primary, seq |-> 0, clip |-> 0, data |-> 0,
                 dirty |-> d, cached |-> [c \in Clients |-> 0], shown |-> 0, held |-> FALSE]
           m == [shown |-> 0, held |-> FALSE, own |-> FALSE, sent |-> FALSE, data |-> 0]
<1>1. /\ connected = {} /\ active = Primary /\ seqNum = 0 /\ primarySeq = 0
      /\ board = [id \in Ids |-> k] /\ queue = none /\ unexpected = FALSE
      /\ here = [c \in Clients |-> FALSE] /\ seq = [c \in Clients |-> 0]
      /\ mine = [c \in Clients |-> [id \in Ids |-> m]]
      /\ clientQueue = [c \in Clients |-> none]
      /\ down = [c \in Clients |-> none] /\ up = [c \in Clients |-> none]
      /\ made = none /\ departures = 0 /\ crashed = FALSE
  BY DEF Init
<1>2. 0 \in Seqs /\ 0 \in Copies /\ 0 \in 0..MaxDepartures /\ Primary \in Screens
  BY DEF Seqs, Copies, Screens, ClipboardAssumption
<1>3. none \in Seq(Events) /\ none \in Seq(Requests) /\ none \in Seq(Messages)
      /\ none \in Seq([on : Screens, id : Ids]) /\ Len(none) = 0
  OBVIOUS
<1>4. d \in [Screens -> BOOLEAN]
  OBVIOUS
<1> HIDE DEF none, d
<1>5. k \in Boards /\ m \in Clips
  BY <1>2, <1>4 DEF Boards, Clips
<1> HIDE DEF k, m
<1> QED
  BY <1>1, <1>2, <1>3, <1>5 DEF Typed, TypeOK

LEMMA TypedStep == ClipboardAssumption /\ Typed /\ [Next]_vars => Typed'
<1> SUFFICES ASSUME ClipboardAssumption, Typed, [Next]_vars PROVE Typed'
  OBVIOUS
<1>1. CASE UNCHANGED vars
  BY <1>1 DEF Typed, TypeOK, vars, serverVars, clientVars, netVars, bookVars
<1>2. CASE Next
  BY <1>2, TypedByServer, TypedByOthers DEF Next
<1> QED
  BY <1>1, <1>2

\* The variables of the server, of the clients and of the connections have their
\* types, whatever the bounds, the number of clients and of clipboards, and
\* wherever something may be copied.
THEOREM Types == Spec => []TypeOK
<1>1. Init => Typed
  BY TypedInit, ClipboardAssumption
<1>2. Typed /\ [Next]_vars => Typed'
  BY TypedStep, ClipboardAssumption
<1>3. Typed => TypeOK
  BY DEF Typed
<1> QED
  BY <1>1, <1>2, <1>3, PTL DEF Spec

-----------------------------------------------------------------------------
(* What is under way *)

\* Something is copied only where the cursor is, and while messages are under way
\* only what the platform reports.
Considerate == Background = {} /\ "unreported" \notin Hasty

\* A client's visits: 0 is the one that it knows of, by h (here) and s (seq), the
\* others are those that the messages w announce.
EnterAt(w, i) == i \in 1..Len(w) /\ w[i].type = "enter"
LeaveAt(w, i) == i \in 1..Len(w) /\ w[i].type = "leave"
GrabAt(w, id, i) == i \in 1..Len(w) /\ w[i].type = "grab" /\ w[i].id = id
VisitAt(h, s, w, i) == (i = 0 /\ h /\ s # 0) \/ EnterAt(w, i)
NumberAt(s, w, i) == IF i = 0 THEN s ELSE w[i].seq
Visiting(h, s, w, n) == \E i \in Nat : VisitAt(h, s, w, i) /\ n = NumberAt(s, w, i)

\* Visits are numbered in order, and each ends before the next begins; the last one
\* goes on only if the client is active, and has the latest number n.
Ordered(s, w) ==
    \A i \in Nat : \A k \in Nat : i < k /\ (i = 0 \/ EnterAt(w, i)) /\ EnterAt(w, k) =>
      NumberAt(s, w, i) < NumberAt(s, w, k)
Ended(h, s, w) ==
    \A i \in Nat : \A k \in Nat : i < k /\ VisitAt(h, s, w, i) /\ EnterAt(w, k) =>
      \E j \in Nat : i < j /\ j < k /\ LeaveAt(w, j)
LastOn(h, s, w, n, isActive) ==
    \A i \in Nat : VisitAt(h, s, w, i) =>
      (\E j \in Nat : i < j /\ LeaveAt(w, j)) \/ (isActive /\ NumberAt(s, w, i) = n)

\* A visit that began before the clipboard was grabbed elsewhere, at n, ends before
\* the client hears of the grab.
Outlives(h, s, w, id, n, isOwner) ==
    \A i \in Nat : VisitAt(h, s, w, i) /\ NumberAt(s, w, i) < n =>
      isOwner \/ \E j \in Nat : \E k \in Nat : i < j /\ j < k /\ LeaveAt(w, j) /\ GrabAt(w, id, k)

\* What is on its way to the server: requests r of the client itself, messages u of
\* its connection, and reports in the server's queue q.
Asked(r, id, i) == i \in 1..Len(r) /\ r[i].type = "grabbed" /\ r[i].id = id
Posted(r, id, i) == i \in 1..Len(r) /\ r[i].type = "send" /\ r[i].id = id
Upward(type, u, id, i) == i \in 1..Len(u) /\ u[i].type = type /\ u[i].id = id
Report(type, q, c, id, i) ==
    /\ i \in 1..Len(q) /\ q[i].type = type
    /\ q[i].from = c /\ q[i].id = id /\ ~q[i].gone

\* That something of the kind, with the number n, is under way.
Asks(r, id) == \E i \in Nat : Asked(r, id, i)
Posting(r, id, n) == \E i \in Nat : Posted(r, id, i) /\ n = r[i].seq
Rising(type, u, id, n) == \E i \in Nat : Upward(type, u, id, i) /\ n = u[i].seq
Reporting(type, q, c, id, n) == \E i \in Nat : Report(type, q, c, id, i) /\ n = q[i].seq

\* The numbers that a grab under way is not behind.
Sought(u, id) == {t \in Seqs : \E n \in Seqs : Rising("grab", u, id, n) /\ t <= n}
Awaited(q, c, id) == {t \in Seqs : \E n \in Seqs : Reporting("grabbed", q, c, id, n) /\ t <= n}

\* Contents that are under way have a number in K, or come behind a grab.
ReportsFit(q, c, id, K) ==
    \A i \in Nat : Report("changed", q, c, id, i) =>
      q[i].seq \in K \/ \E j \in Nat : j < i /\ Report("grabbed", q, c, id, j) /\ q[i].seq <= q[j].seq
UploadsFit(u, id, K) ==
    \A i \in Nat : Upward("clip", u, id, i) =>
      u[i].seq \in K \/ \E j \in Nat : j < i /\ Upward("grab", u, id, j) /\ u[i].seq <= u[j].seq
PostsFit(r, id, s, K) ==
    \A i \in Nat : Posted(r, id, i) =>
      r[i].seq \in K \/ (r[i].seq <= s /\ \E j \in Nat : j < i /\ Asked(r, id, j))

-----------------------------------------------------------------------------
(* The invariant *)

\* The numbers that are a client's: of its visits, its grabs and its contents.
Mark(c, n) ==
    \/ n = seq[c] /\ n # 0
    \/ Visiting(here[c], seq[c], down[c], n)
    \/ \E id \in Ids : \/ Posting(clientQueue[c], id, n)
                       \/ Rising("grab", up[c], id, n) \/ Rising("clip", up[c], id, n)
                       \/ Reporting("grabbed", queue, c, id, n)
                       \/ Reporting("changed", queue, c, id, n)

\* The last number is that of the active screen.
Timely(c, n) == n <= seqNum /\ (active # c => n # seqNum)
Marked(c) ==
    /\ \A n \in Seqs : Mark(c, n) => 0 < n /\ Timely(c, n)
    /\ \A id \in Ids : Asks(clientQueue[c], id) => seq[c] # 0
Apart(c, d) == \A n \in Seqs : ~(Mark(c, n) /\ Mark(d, n))

\* The client may yet grab the clipboard with the number n.
Threat(c, id, n) ==
    \/ Reporting("grabbed", queue, c, id, n)
    \/ Rising("grab", up[c], id, n)
    \/ n = seq[c] /\ Asks(clientQueue[c], id)
    \/ Visiting(here[c], seq[c], down[c], n)

\* An update with the number t would be out of date, or the client owns the clipboard
\* and nobody else can grab it any more without making the update out of date.
Alone(c, id, t) ==
    \A d \in connected : d # c =>
      \A n \in Seqs : Threat(d, id, n) => n < board[id].seq \/ n > t
Claimed(c, id) ==
    {t \in Seqs : Timely(c, t) /\ (t < board[id].seq \/ (board[id].owner = c /\ Alone(c, id, t)))}
Heard(c, id) == Claimed(c, id) \cup Awaited(queue, c, id)
Told(c, id) == Heard(c, id) \cup Sought(up[c], id)

\* Every update that is under way, or that a client will send when it is left, has a
\* claim or comes behind a grab that will give it one.
Fits(c, id) ==
    /\ ReportsFit(queue, c, id, Claimed(c, id))
    /\ UploadsFit(up[c], id, Heard(c, id))
    /\ PostsFit(clientQueue[c], id, seq[c], Told(c, id))
    /\ mine[c][id].own /\ Sendable(mine[c][id]) =>
         here[c] /\ seq[c] # 0 /\ (seq[c] \in Told(c, id) \/ Asks(clientQueue[c], id))

\* A client where an application holds the clipboard owns it, or is about to, or will
\* hear of a grab.
Keeps(c, id) == ~mine[c][id].held =>
    \/ board[id].owner = c
    \/ \E i \in Nat : GrabAt(down[c], id, i)
    \/ Asks(clientQueue[c], id) /\ seq[c] >= board[id].seq
    \/ board[id].seq \in Awaited(queue, c, id) \cup Sought(up[c], id)

Course(c) ==
    /\ Ordered(seq[c], down[c]) /\ Ended(here[c], seq[c], down[c])
    /\ LastOn(here[c], seq[c], down[c], seqNum, active = c)
Bearings(c, id) ==
    /\ Keeps(c, id)
    /\ Outlives(here[c], seq[c], down[c], id, board[id].seq, board[id].owner = c)

\* Nothing is under way to or from a client that is not connected.
Whose(e) == IF e.type = "send" THEN e.to ELSE e.from
Absent(c) ==
    /\ up[c] = <<>> /\ down[c] = <<>>
    /\ \A i \in 1..Len(queue) : Whose(queue[i]) = c => queue[i].gone

\* The grabs of the primary are handled before it is left.
Home ==
    /\ active = Primary => primarySeq = seqNum
    /\ \A id \in Ids : board[id].seq <= seqNum
    /\ \A i \in 1..Len(queue) : Whose(queue[i]) = Primary =>
         /\ queue[i].type = "grabbed" /\ ~queue[i].gone
         /\ active = Primary /\ queue[i].seq = seqNum

\* What is said of each client, of two of them, and of each client and clipboard.
Sound(c) == Course(c) /\ Marked(c)
Sitting == \A c \in connected : Sound(c) /\ \A d \in connected : c # d => Apart(c, d)
IInv ==
    /\ Typed /\ Considerate /\ ExpectedSender /\ Home /\ Sitting
    /\ \A c \in Clients \ connected : Absent(c)
    /\ \A c \in connected : \A id \in Ids : Fits(c, id) /\ Bearings(c, id)

-----------------------------------------------------------------------------
(* The visits of a client *)

LEMMA MessageIs ==
    ASSUME NEW m \in Messages
    PROVE  /\ m.type \in {"enter", "leave", "grab", "clip"}
           /\ m.type \in {"enter", "grab", "clip"} => m.seq \in Seqs
           /\ m.type \in {"grab", "clip"} => m.id \in Ids
           /\ m.type = "clip" => m.value \in Copies
  BY DEF Messages

LEMMA Numbers ==
    ASSUME ClipboardAssumption
    PROVE  Seqs \subseteq Nat /\ 0 \in Seqs /\ MaxSwitches \in Nat /\ Seqs = 0..MaxSwitches
  BY DEF Seqs, ClipboardAssumption

LEMMA NumberIs ==
    ASSUME ClipboardAssumption, NEW w \in Seq(Messages), NEW s \in Seqs, NEW i \in Nat,
           i = 0 \/ EnterAt(w, i)
    PROVE  NumberAt(s, w, i) \in Seqs /\ NumberAt(s, w, i) \in Nat
<1>1. CASE i = 0
  BY <1>1, Numbers DEF NumberAt
<1>2. CASE i # 0
  <2>1. w[i] \in Messages /\ w[i].type = "enter"
    BY <1>2 DEF EnterAt
  <2> QED
    BY <1>2, <2>1, MessageIs, Numbers DEF NumberAt
<1> QED
  BY <1>1, <1>2

\* The messages p are w with x behind them.
Grown(w, x, p) ==
    \A i \in Nat :
      /\ EnterAt(p, i) <=> EnterAt(w, i) \/ (i = Len(w) + 1 /\ x.type = "enter")
      /\ LeaveAt(p, i) <=> LeaveAt(w, i) \/ (i = Len(w) + 1 /\ x.type = "leave")
      /\ EnterAt(w, i) => 0 < i /\ i < Len(w) + 1
      /\ LeaveAt(w, i) => 0 < i /\ i < Len(w) + 1
      /\ EnterAt(w, i) \/ LeaveAt(w, i) => p[i] = w[i]
LEMMA GrownIs ==
    ASSUME NEW w \in Seq(Messages), NEW x \in Messages, NEW p, p = Append(w, x)
    PROVE  Grown(w, x, p) /\ Len(w) + 1 \in Nat /\ Len(w) \in Nat /\ p[Len(w) + 1] = x
<1>1. /\ Len(w) \in Nat /\ Len(p) = Len(w) + 1 /\ p[Len(w) + 1] = x
      /\ \A i \in 1..Len(w) : p[i] = w[i]
  BY MovedAppend DEF Moved
<1> QED
  BY <1>1 DEF Grown, EnterAt, LeaveAt

LEMMA GrabGrown ==
    ASSUME NEW w \in Seq(Messages), NEW x \in Messages, NEW p, p = Append(w, x), NEW id, NEW i \in Nat
    PROVE  /\ GrabAt(p, id, i) <=> GrabAt(w, id, i) \/ (i = Len(w) + 1 /\ x.type = "grab" /\ x.id = id)
           /\ GrabAt(w, id, i) => 0 < i /\ i < Len(w) + 1
<1>1. /\ Len(w) \in Nat /\ Len(p) = Len(w) + 1 /\ p[Len(w) + 1] = x
      /\ \A k \in 1..Len(w) : p[k] = w[k]
  BY MovedAppend DEF Moved
<1> QED
  BY <1>1 DEF GrabAt

LEMMA OrderedOn ==
    ASSUME ClipboardAssumption, NEW w \in Seq(Messages), NEW s \in Seqs, Ordered(s, w),
           NEW x \in Messages, NEW p, p = Append(w, x),
           x.type = "enter" => x.seq > s /\ \A i \in Nat : EnterAt(w, i) => x.seq > w[i].seq
    PROVE  Ordered(s, p)
<1>0. Grown(w, x, p) /\ Len(w) + 1 \in Nat /\ p[Len(w) + 1] = x
  BY GrownIs
<1> SUFFICES ASSUME NEW i \in Nat, NEW k \in Nat, i < k, i = 0 \/ EnterAt(p, i), EnterAt(p, k)
             PROVE  NumberAt(s, p, i) < NumberAt(s, p, k)
  BY DEF Ordered
<1>1. i = 0 \/ EnterAt(w, i)
  BY <1>0 DEF Grown
<1>2. NumberAt(s, p, i) = NumberAt(s, w, i)
  BY <1>0, <1>1 DEF Grown, NumberAt
<1>3. CASE EnterAt(w, k)
  <2>1. NumberAt(s, p, k) = NumberAt(s, w, k)
    BY <1>0, <1>3 DEF Grown, NumberAt
  <2> QED
    BY <1>1, <1>2, <1>3, <2>1 DEF Ordered
<1>4. CASE ~EnterAt(w, k)
  <2>1. k = Len(w) + 1 /\ x.type = "enter" /\ k # 0
    BY <1>0, <1>4 DEF Grown
  <2>2. NumberAt(s, p, k) = x.seq
    BY <1>0, <2>1 DEF NumberAt
  <2>3. x.seq > NumberAt(s, w, i)
    BY <1>1, <2>1 DEF NumberAt
  <2>4. x.seq \in Nat /\ NumberAt(s, w, i) \in Nat
    BY <1>1, <2>1, NumberIs, MessageIs, Numbers
  <2> QED
    BY <1>2, <2>2, <2>3, <2>4
<1> QED
  BY <1>3, <1>4

LEMMA EndedOn ==
    ASSUME ClipboardAssumption, NEW w \in Seq(Messages), NEW h, NEW s, Ended(h, s, w),
           NEW x \in Messages, NEW p, p = Append(w, x),
           x.type = "enter" =>
             \A i \in Nat : VisitAt(h, s, w, i) => \E j \in Nat : i < j /\ LeaveAt(w, j)
    PROVE  Ended(h, s, p)
<1>0. Grown(w, x, p) /\ Len(w) + 1 \in Nat
  BY GrownIs
<1> SUFFICES ASSUME NEW i \in Nat, NEW k \in Nat, i < k, VisitAt(h, s, p, i), EnterAt(p, k)
             PROVE  \E j \in Nat : i < j /\ j < k /\ LeaveAt(p, j)
  BY DEF Ended
<1>1. VisitAt(h, s, w, i)
  BY <1>0 DEF Grown, VisitAt
<1>2. CASE EnterAt(w, k)
  <2>1. PICK j \in Nat : i < j /\ j < k /\ LeaveAt(w, j)
    BY <1>1, <1>2 DEF Ended
  <2> QED
    BY <1>0, <2>1 DEF Grown
<1>3. CASE ~EnterAt(w, k)
  <2>1. k = Len(w) + 1 /\ x.type = "enter"
    BY <1>0, <1>3 DEF Grown
  <2>2. PICK j \in Nat : i < j /\ LeaveAt(w, j)
    BY <1>1, <2>1
  <2> QED
    BY <1>0, <2>1, <2>2 DEF Grown
<1> QED
  BY <1>2, <1>3

\* A visit goes on until the client is left.
LEMMA LastOnGrown ==
    ASSUME ClipboardAssumption, NEW w \in Seq(Messages), NEW h, NEW s,
           NEW n, NEW a \in BOOLEAN, LastOn(h, s, w, n, a),
           NEW x \in Messages, NEW m, NEW b \in BOOLEAN,
           \/ x.type = "leave"
           \/ x.type = "enter" /\ ~a /\ b /\ m = x.seq
           \/ x.type # "enter" /\ b = a /\ m = n
    PROVE  LastOn(h, s, Append(w, x), m, b)
<1> SUFFICES ASSUME NEW p, p = Append(w, x) PROVE LastOn(h, s, p, m, b)
  OBVIOUS
<1>0. Grown(w, x, p) /\ Len(w) + 1 \in Nat /\ p[Len(w) + 1] = x
  BY GrownIs
<1> SUFFICES ASSUME NEW i \in Nat, VisitAt(h, s, p, i), ~\E j \in Nat : i < j /\ LeaveAt(p, j)
             PROVE  b /\ NumberAt(s, p, i) = m
  BY DEF LastOn
<1>1. CASE VisitAt(h, s, w, i)
  <2>1. i < Len(w) + 1 /\ NumberAt(s, p, i) = NumberAt(s, w, i)
    BY <1>0, <1>1 DEF Grown, VisitAt, NumberAt
  <2>2. ~\E j \in Nat : i < j /\ LeaveAt(w, j)
    BY <1>0 DEF Grown
  <2>3. x.type # "leave"
    BY <1>0, <2>1 DEF Grown
  <2>4. a /\ NumberAt(s, w, i) = n
    BY <1>1, <2>2 DEF LastOn
  <2> QED
    BY <2>1, <2>3, <2>4
<1>2. CASE ~VisitAt(h, s, w, i)
  <2>1. i = Len(w) + 1 /\ x.type = "enter" /\ i # 0
    BY <1>0, <1>2 DEF Grown, VisitAt
  <2> QED
    BY <1>0, <2>1 DEF NumberAt
<1> QED
  BY <1>1, <1>2

LEMMA LastOnElsewhere ==
    ASSUME NEW w, NEW h, NEW s, NEW n, NEW m, LastOn(h, s, w, n, FALSE)
    PROVE  LastOn(h, s, w, m, FALSE)
  BY DEF LastOn

LEMMA OutlivesGrown ==
    ASSUME ClipboardAssumption, NEW w \in Seq(Messages), NEW h, NEW s, NEW id,
           NEW n \in Nat, NEW o, Outlives(h, s, w, id, n, o),
           NEW x \in Messages, NEW p, p = Append(w, x), x.type = "enter" => n <= x.seq
    PROVE  Outlives(h, s, p, id, n, o)
<1>0. Grown(w, x, p) /\ Len(w) + 1 \in Nat /\ p[Len(w) + 1] = x
  BY GrownIs
<1> SUFFICES ASSUME NEW i \in Nat, VisitAt(h, s, p, i), NumberAt(s, p, i) < n, ~o
             PROVE  \E j \in Nat : \E k \in Nat : i < j /\ j < k /\ LeaveAt(p, j) /\ GrabAt(p, id, k)
  BY DEF Outlives
<1>1. CASE VisitAt(h, s, w, i)
  <2>1. NumberAt(s, p, i) = NumberAt(s, w, i)
    BY <1>0, <1>1 DEF Grown, VisitAt, NumberAt
  <2>2. PICK j \in Nat : \E k \in Nat : i < j /\ j < k /\ LeaveAt(w, j) /\ GrabAt(w, id, k)
    BY <1>1, <2>1 DEF Outlives
  <2>3. PICK k \in Nat : i < j /\ j < k /\ LeaveAt(w, j) /\ GrabAt(w, id, k)
    BY <2>2
  <2>4. LeaveAt(p, j) /\ GrabAt(p, id, k)
    BY <1>0, <2>3, GrabGrown DEF Grown
  <2> QED
    BY <2>3, <2>4
<1>2. CASE ~VisitAt(h, s, w, i)
  <2>1. i = Len(w) + 1 /\ x.type = "enter" /\ i # 0
    BY <1>0, <1>2 DEF Grown, VisitAt
  <2>2. NumberAt(s, p, i) = x.seq /\ x.seq \in Nat /\ n <= x.seq
    BY <1>0, <2>1, MessageIs, Numbers DEF NumberAt
  <2> QED
    BY <2>2
<1> QED
  BY <1>1, <1>2

\* The clipboard is grabbed elsewhere, at m.
LEMMA OutlivesGrab ==
    ASSUME ClipboardAssumption, NEW w \in Seq(Messages), NEW h, NEW s \in Seqs, NEW id,
           NEW n \in Nat, NEW a, LastOn(h, s, w, n, a), NEW m \in Nat, m <= n,
           NEW x \in Messages, NEW p, p = Append(w, x), x.type = "grab", x.id = id
    PROVE  Outlives(h, s, p, id, m, FALSE)
<1>0. Grown(w, x, p) /\ Len(w) + 1 \in Nat
  BY GrownIs
<1> SUFFICES ASSUME NEW i \in Nat, VisitAt(h, s, p, i), NumberAt(s, p, i) < m
             PROVE  \E j \in Nat : \E k \in Nat : i < j /\ j < k /\ LeaveAt(p, j) /\ GrabAt(p, id, k)
  BY DEF Outlives
<1>1. VisitAt(h, s, w, i) /\ NumberAt(s, p, i) = NumberAt(s, w, i)
  BY <1>0 DEF Grown, VisitAt, NumberAt
<1>2. NumberAt(s, w, i) \in Nat
  BY <1>1, NumberIs DEF VisitAt
<1>3. NumberAt(s, w, i) # n
  BY <1>1, <1>2
<1>4. PICK j \in Nat : i < j /\ LeaveAt(w, j)
  BY <1>1, <1>3 DEF LastOn
<1>5. LeaveAt(p, j) /\ j < Len(w) + 1 /\ GrabAt(p, id, Len(w) + 1)
  BY <1>0, <1>4, GrabGrown DEF Grown
<1> QED
  BY <1>0, <1>4, <1>5

\* The first of the messages w is taken off, p are the others; the client knew of the
\* visit (h, s), and then of (g, r).
NextVisit(h, s, m, g, r) ==
    IF m.type = "enter" THEN g /\ r = m.seq
    ELSE r = s /\ IF m.type = "leave" THEN ~g ELSE g = h
Shrunk(w, p) ==
    \A i \in Nat :
      /\ EnterAt(p, i) <=> 0 < i /\ EnterAt(w, i + 1)
      /\ LeaveAt(p, i) <=> 0 < i /\ LeaveAt(w, i + 1)
      /\ 1 < i /\ LeaveAt(w, i) => i - 1 \in Nat /\ LeaveAt(p, i - 1)
      /\ EnterAt(p, i) => p[i] = w[i + 1]
      /\ LeaveAt(w, i) => 0 < i
LEMMA ShrunkIs ==
    ASSUME NEW w \in Seq(Messages), w # <<>>, NEW p, p = Tail(w)
    PROVE  Shrunk(w, p) /\ p \in Seq(Messages) /\ w[1] \in Messages
           /\ (EnterAt(w, 1) <=> w[1].type = "enter") /\ (LeaveAt(w, 1) <=> w[1].type = "leave")
<1>1. /\ Len(w) \in Nat /\ Len(w) > 0 /\ Len(p) = Len(w) - 1
      /\ \A i \in 1..Len(p) : p[i] = w[i + 1]
  OBVIOUS
<1>2. ASSUME NEW i \in Nat
      PROVE  /\ i \in 1..Len(p) <=> 0 < i /\ i + 1 \in 1..Len(w)
             /\ 1 < i /\ i \in 1..Len(w) => i - 1 \in Nat /\ i - 1 \in 1..Len(p) /\ p[i - 1] = w[i]
             /\ i \in 1..Len(w) => 0 < i
  BY <1>1
<1> QED
  BY <1>1, <1>2 DEF Shrunk, EnterAt, LeaveAt

LEMMA NumberShrunk ==
    ASSUME NEW w, NEW p, Shrunk(w, p), NEW i \in Nat, EnterAt(p, i), NEW s, NEW r
    PROVE  EnterAt(w, i + 1) /\ NumberAt(r, p, i) = NumberAt(s, w, i + 1)
<1>1. i # 0 /\ i + 1 # 0 /\ EnterAt(w, i + 1) /\ p[i] = w[i + 1]
  BY DEF Shrunk
<1> QED
  BY <1>1, Zenon DEF NumberAt

LEMMA GrabShrunk ==
    ASSUME NEW w \in Seq(Messages), w # <<>>, NEW p, p = Tail(w), NEW id, NEW i \in Nat, GrabAt(w, id, i)
    PROVE  IF i = 1 THEN w[1].type = "grab" /\ w[1].id = id
           ELSE i - 1 \in Nat /\ GrabAt(p, id, i - 1) /\ 1 < i
<1>1. /\ Len(w) \in Nat /\ Len(w) > 0 /\ Len(p) = Len(w) - 1
      /\ \A k \in 1..Len(p) : p[k] = w[k + 1]
  OBVIOUS
<1> QED
  BY <1>1 DEF GrabAt

\* Where a visit that is still to come, or known, comes from.
Origin(h, s, w, r, p, i, k) ==
    /\ VisitAt(h, s, w, k) /\ NumberAt(r, p, i) = NumberAt(s, w, k)
    /\ k = i + 1 \/ (k = 0 /\ i = 0 /\ ~EnterAt(w, 1) /\ ~LeaveAt(w, 1))
LEMMA OriginOf ==
    ASSUME ClipboardAssumption, NEW w \in Seq(Messages), w # <<>>, NEW p, p = Tail(w),
           NEW h, NEW s \in Seqs, NEW g, NEW r \in Seqs,
           NextVisit(h, s, w[1], g, r), NEW i \in Nat, VisitAt(g, r, p, i)
    PROVE  \E k \in Nat : Origin(h, s, w, r, p, i, k)
<1>0. Shrunk(w, p) /\ w[1] \in Messages
      /\ (EnterAt(w, 1) <=> w[1].type = "enter") /\ (LeaveAt(w, 1) <=> w[1].type = "leave")
  BY ShrunkIs
<1>1. CASE EnterAt(p, i)
  <2>1. 0 < i /\ EnterAt(w, i + 1) /\ p[i] = w[i + 1]
    BY <1>0, <1>1 DEF Shrunk
  <2>2. i + 1 \in Nat /\ i + 1 # 0 /\ i # 0
    BY <2>1
  <2>3. NumberAt(r, p, i) = NumberAt(s, w, i + 1)
    BY <2>1, <2>2, Zenon DEF NumberAt
  <2>4. Origin(h, s, w, r, p, i, i + 1)
    BY <2>1, <2>3 DEF Origin, VisitAt
  <2> QED
    BY <2>2, <2>4
<1>2. CASE ~EnterAt(p, i) /\ EnterAt(w, 1)
  <2>1. i = 0 /\ r = w[1].seq
    BY <1>0, <1>2 DEF VisitAt, NextVisit
  <2>2. Origin(h, s, w, r, p, i, 1)
    BY <1>2, <2>1 DEF Origin, VisitAt, NumberAt
  <2> QED
    BY <2>2
<1>3. CASE ~EnterAt(p, i) /\ ~EnterAt(w, 1)
  <2>1. i = 0 /\ g /\ r # 0 /\ r = s
    BY <1>0, <1>3 DEF VisitAt, NextVisit
  <2>2. h /\ ~LeaveAt(w, 1)
    BY <1>0, <1>3, <2>1 DEF NextVisit
  <2>3. Origin(h, s, w, r, p, i, 0)
    BY <1>3, <2>1, <2>2 DEF Origin, VisitAt, NumberAt
  <2> QED
    BY <2>3
<1> QED
  BY <1>1, <1>2, <1>3

LEMMA OrderedNext ==
    ASSUME ClipboardAssumption, NEW w \in Seq(Messages), w # <<>>, NEW p, p = Tail(w),
           NEW h, NEW s \in Seqs, NEW g, NEW r \in Seqs,
           NextVisit(h, s, w[1], g, r), Ordered(s, w)
    PROVE  Ordered(r, p) /\ s <= r
<1>0. Shrunk(w, p) /\ w[1] \in Messages /\ (EnterAt(w, 1) <=> w[1].type = "enter")
  BY ShrunkIs
<1>1. CASE EnterAt(w, 1)
  <2>1. r = w[1].seq
    BY <1>0, <1>1 DEF NextVisit
  <2>2. ASSUME NEW i \in Nat, NEW k \in Nat, i < k, i = 0 \/ EnterAt(p, i), EnterAt(p, k)
        PROVE  NumberAt(r, p, i) < NumberAt(r, p, k)
    <3>1. EnterAt(w, i + 1) /\ NumberAt(r, p, i) = NumberAt(s, w, i + 1)
      <4>1. CASE i = 0
        BY <1>1, <2>1, <4>1 DEF NumberAt
      <4>2. CASE i # 0
        BY <1>0, <2>2, <4>2, NumberShrunk
      <4> QED
        BY <4>1, <4>2
    <3>2. EnterAt(w, k + 1) /\ NumberAt(r, p, k) = NumberAt(s, w, k + 1)
      BY <1>0, <2>2, NumberShrunk
    <3>3. i + 1 \in Nat /\ k + 1 \in Nat /\ i + 1 < k + 1
      BY <2>2
    <3>4. NumberAt(s, w, i + 1) < NumberAt(s, w, k + 1)
      BY <3>1, <3>2, <3>3 DEF Ordered
    <3> QED
      BY <3>1, <3>2, <3>4
  <2>3. NumberAt(s, w, 0) < NumberAt(s, w, 1)
    BY <1>1 DEF Ordered
  <2>4. s < r
    BY <2>1, <2>3 DEF NumberAt
  <2>5. s <= r
    BY <2>4, Numbers
  <2> QED
    BY <2>2, <2>5 DEF Ordered
<1>2. CASE ~EnterAt(w, 1)
  <2>1. r = s
    BY <1>0, <1>2 DEF NextVisit
  <2>2. ASSUME NEW i \in Nat, NEW k \in Nat, i < k, i = 0 \/ EnterAt(p, i), EnterAt(p, k)
        PROVE  NumberAt(r, p, i) < NumberAt(r, p, k)
    <3>1. EnterAt(w, k + 1) /\ NumberAt(r, p, k) = NumberAt(s, w, k + 1)
      BY <1>0, <2>2, NumberShrunk
    <3>2. CASE i = 0
      <4>1. NumberAt(s, w, 0) < NumberAt(s, w, k + 1)
        BY <3>1, <2>2 DEF Ordered
      <4> QED
        BY <2>1, <3>1, <3>2, <4>1 DEF NumberAt
    <3>3. CASE i # 0
      <4>1. EnterAt(w, i + 1) /\ NumberAt(r, p, i) = NumberAt(s, w, i + 1)
        BY <1>0, <2>2, <3>3, NumberShrunk
      <4>2. i + 1 \in Nat /\ k + 1 \in Nat /\ i + 1 < k + 1
        BY <2>2
      <4>3. NumberAt(s, w, i + 1) < NumberAt(s, w, k + 1)
        BY <3>1, <4>1, <4>2 DEF Ordered
      <4> QED
        BY <3>1, <4>1, <4>3
    <3> QED
      BY <3>2, <3>3
  <2>3. s <= r
    BY <2>1, Numbers
  <2> QED
    BY <2>2, <2>3 DEF Ordered
<1> QED
  BY <1>1, <1>2

LEMMA EndedNext ==
    ASSUME ClipboardAssumption, NEW w \in Seq(Messages), w # <<>>, NEW p, p = Tail(w),
           NEW h, NEW s \in Seqs, NEW g, NEW r \in Seqs,
           NextVisit(h, s, w[1], g, r), Ended(h, s, w)
    PROVE  Ended(g, r, p)
<1>0. Shrunk(w, p)
  BY ShrunkIs
<1> SUFFICES ASSUME NEW i \in Nat, NEW k \in Nat, i < k, VisitAt(g, r, p, i), EnterAt(p, k)
             PROVE  \E j \in Nat : i < j /\ j < k /\ LeaveAt(p, j)
  BY DEF Ended
<1>1. PICK l \in Nat : Origin(h, s, w, r, p, i, l)
  BY OriginOf
<1>2. EnterAt(w, k + 1) /\ l < k + 1 /\ k + 1 \in Nat
  BY <1>0, <1>1 DEF Shrunk, Origin
<1>3. PICK j \in Nat : l < j /\ j < k + 1 /\ LeaveAt(w, j)
  BY <1>1, <1>2 DEF Ended, Origin
<1>4. 1 < j /\ i < j - 1
  BY <1>1, <1>3 DEF Origin
<1>5. LeaveAt(p, j - 1) /\ j - 1 \in Nat
  BY <1>0, <1>3, <1>4 DEF Shrunk
<1>6. j - 1 < k
  BY <1>3
<1> QED
  BY <1>4, <1>5, <1>6

LEMMA LastOnNext ==
    ASSUME ClipboardAssumption, NEW w \in Seq(Messages), w # <<>>, NEW p, p = Tail(w),
           NEW h, NEW s \in Seqs, NEW g, NEW r \in Seqs,
           NextVisit(h, s, w[1], g, r), NEW n, NEW a, LastOn(h, s, w, n, a)
    PROVE  LastOn(g, r, p, n, a)
<1>0. Shrunk(w, p)
  BY ShrunkIs
<1> SUFFICES ASSUME NEW i \in Nat, VisitAt(g, r, p, i), ~\E j \in Nat : i < j /\ LeaveAt(p, j)
             PROVE  a /\ NumberAt(r, p, i) = n
  BY DEF LastOn
<1>1. PICK l \in Nat : Origin(h, s, w, r, p, i, l)
  BY OriginOf
<1>2. ASSUME NEW j \in Nat, l < j, LeaveAt(w, j) PROVE FALSE
  <2>1. 1 < j /\ i < j - 1
    BY <1>1, <1>2 DEF Origin
  <2>2. LeaveAt(p, j - 1) /\ j - 1 \in Nat
    BY <1>0, <1>2, <2>1 DEF Shrunk
  <2> QED
    BY <2>1, <2>2
<1>3. a /\ NumberAt(s, w, l) = n
  BY <1>1, <1>2 DEF LastOn, Origin
<1> QED
  BY <1>1, <1>3 DEF Origin

LEMMA OutlivesNext ==
    ASSUME ClipboardAssumption, NEW w \in Seq(Messages), w # <<>>, NEW p, p = Tail(w),
           NEW h, NEW s \in Seqs, NEW g, NEW r \in Seqs,
           NextVisit(h, s, w[1], g, r), NEW id, NEW n, NEW o, Outlives(h, s, w, id, n, o)
    PROVE  Outlives(g, r, p, id, n, o)
<1>0. Shrunk(w, p)
  BY ShrunkIs
<1> SUFFICES ASSUME NEW i \in Nat, VisitAt(g, r, p, i), NumberAt(r, p, i) < n, ~o
             PROVE  \E j \in Nat : \E k \in Nat : i < j /\ j < k /\ LeaveAt(p, j) /\ GrabAt(p, id, k)
  BY DEF Outlives
<1>1. PICK l \in Nat : Origin(h, s, w, r, p, i, l)
  BY OriginOf
<1>2. PICK j \in Nat : \E k \in Nat : l < j /\ j < k /\ LeaveAt(w, j) /\ GrabAt(w, id, k)
  BY <1>1 DEF Outlives, Origin
<1>3. PICK k \in Nat : l < j /\ j < k /\ LeaveAt(w, j) /\ GrabAt(w, id, k)
  BY <1>2
<1>4. 1 < j /\ i < j - 1
  BY <1>1, <1>3 DEF Origin
<1>5. LeaveAt(p, j - 1) /\ j - 1 \in Nat
  BY <1>0, <1>3, <1>4 DEF Shrunk
<1>6. k # 1 /\ j - 1 < k - 1
  BY <1>3, <1>4
<1>7. GrabAt(p, id, k - 1) /\ k - 1 \in Nat
  BY <1>3, <1>6, GrabShrunk
<1> QED
  BY <1>4, <1>5, <1>6, <1>7

LEMMA VisitingNext ==
    ASSUME ClipboardAssumption, NEW w \in Seq(Messages), w # <<>>, NEW p, p = Tail(w),
           NEW h, NEW s \in Seqs, NEW g, NEW r \in Seqs,
           NextVisit(h, s, w[1], g, r), NEW n, Visiting(g, r, p, n)
    PROVE  Visiting(h, s, w, n)
<1>1. PICK i \in Nat : VisitAt(g, r, p, i) /\ n = NumberAt(r, p, i)
  BY DEF Visiting
<1>2. PICK k \in Nat : Origin(h, s, w, r, p, i, k)
  BY <1>1, OriginOf
<1> QED
  BY <1>1, <1>2 DEF Visiting, Origin

LEMMA NumberNext ==
    ASSUME ClipboardAssumption, NEW w \in Seq(Messages), w # <<>>, NEW h, NEW s, NEW g, NEW r,
           NextVisit(h, s, w[1], g, r)
    PROVE  r = s \/ Visiting(h, s, w, r)
<1>1. CASE w[1].type = "enter"
  <2>1. VisitAt(h, s, w, 1) /\ NumberAt(s, w, 1) = r
    BY <1>1 DEF VisitAt, EnterAt, NumberAt, NextVisit
  <2> QED
    BY <2>1 DEF Visiting
<1> QED
  BY <1>1 DEF NextVisit

LEMMA VisitingGrown ==
    ASSUME NEW w \in Seq(Messages), NEW x \in Messages,
           NEW h, NEW s, NEW n, Visiting(h, s, Append(w, x), n)
    PROVE  Visiting(h, s, w, n) \/ (x.type = "enter" /\ n = x.seq)
<1> SUFFICES ASSUME NEW p, p = Append(w, x)
             PROVE  Visiting(h, s, w, n) \/ (x.type = "enter" /\ n = x.seq)
  OBVIOUS
<1>0. Grown(w, x, p) /\ Len(w) + 1 \in Nat /\ Len(w) \in Nat /\ p[Len(w) + 1] = x
  BY GrownIs
<1>1. PICK i \in Nat : VisitAt(h, s, p, i) /\ n = NumberAt(s, p, i)
  BY DEF Visiting
<1>2. CASE VisitAt(h, s, w, i)
  <2>1. NumberAt(s, p, i) = NumberAt(s, w, i)
    BY <1>0, <1>2 DEF Grown, VisitAt, NumberAt
  <2> QED
    BY <1>1, <1>2, <2>1 DEF Visiting
<1>3. CASE ~VisitAt(h, s, w, i)
  <2>1. i = Len(w) + 1 /\ x.type = "enter" /\ i # 0
    BY <1>0, <1>1, <1>3 DEF Grown, VisitAt
  <2> QED
    BY <1>0, <1>1, <2>1 DEF NumberAt
<1> QED
  BY <1>2, <1>3

-----------------------------------------------------------------------------
(* What is on its way to the server *)

Kinds == {"grabbed", "changed"}

LEMMA ReportIs ==
    ASSUME ClipboardAssumption, NEW q \in Seq(Events), NEW type \in Kinds, NEW c, NEW id, NEW i \in Nat,
           Report(type, q, c, id, i)
    PROVE  q[i].seq \in Seqs /\ q[i].seq \in Nat /\ i > 0 /\ id \in Ids
<1>1. q[i] \in Events /\ q[i].type # "send"
  BY DEF Report, Kinds
<1> QED
  BY <1>1, GrabbedEvent, Numbers DEF Report

\* The reports of c in p are those in q from the place n on.
Carried(q, p, c, n) ==
    \A type \in Kinds : \A id \in Ids : \A i \in Nat :
      /\ Report(type, p, c, id, i) => Report(type, q, c, id, i + n) /\ p[i].seq = q[i + n].seq
      /\ Report(type, q, c, id, i + n) /\ 0 < i => Report(type, p, c, id, i) /\ p[i].seq = q[i + n].seq

LEMMA CarriedMoved ==
    ASSUME NEW q \in Seq(Events), NEW p \in Seq(Events), NEW n \in {0, 1}, Moved(q, p, n),
           NEW c, \A i \in 1..Len(p) : i + n > Len(q) => p[i].type = "send" \/ p[i].from # c
    PROVE  Carried(q, p, c, n)
<1> SUFFICES ASSUME NEW type \in Kinds, NEW id \in Ids, NEW i \in Nat
             PROVE  /\ Report(type, p, c, id, i) => Report(type, q, c, id, i + n) /\ p[i].seq = q[i + n].seq
                    /\ Report(type, q, c, id, i + n) /\ 0 < i =>
                         Report(type, p, c, id, i) /\ p[i].seq = q[i + n].seq
  BY DEF Carried
<1>0. Len(q) \in Nat /\ Len(p) \in Nat /\ Len(p) + n >= Len(q) /\ type # "send" /\ n \in Nat /\ i + n \in Nat
  BY DEF Moved, Kinds
<1>1. ASSUME Report(type, p, c, id, i)
      PROVE  Report(type, q, c, id, i + n) /\ p[i].seq = q[i + n].seq
  <2>1. i \in 1..Len(p) /\ p[i].type # "send" /\ p[i].from = c
    BY <1>0, <1>1 DEF Report
  <2>2. i + n <= Len(q)
    BY <1>0, <2>1
  <2>3. p[i] = q[i + n] /\ i + n \in 1..Len(q)
    BY <1>0, <2>1, <2>2 DEF Moved
  <2> QED
    BY <1>1, <2>3, Zenon DEF Report
<1>2. ASSUME Report(type, q, c, id, i + n), 0 < i
      PROVE  Report(type, p, c, id, i) /\ p[i].seq = q[i + n].seq
  <2>1. i + n \in 1..Len(q)
    BY <1>2 DEF Report
  <2>2. i \in 1..Len(p) /\ i + n <= Len(q)
    BY <1>0, <1>2, <2>1
  <2>3. p[i] = q[i + n]
    BY <2>2 DEF Moved
  <2> QED
    BY <1>2, <2>2, <2>3, Zenon DEF Report
<1> QED
  BY <1>1, <1>2

LEMMA CarriedSame ==
    ASSUME NEW q, NEW c PROVE Carried(q, q, c, 0)
  BY DEF Carried

\* The first report is handled: what came behind a grab need not any more.
Freed(q, c, id, K) ==
    Report("grabbed", q, c, id, 1) => \A t \in Seqs : t <= q[1].seq => t \in K

LEMMA ReportingCarried ==
    ASSUME NEW q, NEW p, NEW c, NEW n \in {0, 1}, Carried(q, p, c, n), NEW type \in Kinds,
           NEW id \in Ids, NEW m, Reporting(type, p, c, id, m)
    PROVE  Reporting(type, q, c, id, m)
<1>1. PICK i \in Nat : Report(type, p, c, id, i) /\ m = p[i].seq
  BY DEF Reporting
<1>2. i + n \in Nat
  OBVIOUS
<1>3. Report(type, q, c, id, i + n) /\ m = q[i + n].seq
  BY <1>1 DEF Carried
<1> QED
  BY <1>2, <1>3 DEF Reporting

LEMMA AwaitedCarried ==
    ASSUME ClipboardAssumption, NEW q \in Seq(Events), NEW p, NEW c, NEW n \in {0, 1}, Carried(q, p, c, n),
           NEW id \in Ids, NEW K, n = 1 => Freed(q, c, id, K)
    PROVE  Awaited(q, c, id) \subseteq Awaited(p, c, id) \cup K
<1> SUFFICES ASSUME NEW t \in Seqs, NEW m \in Seqs, Reporting("grabbed", q, c, id, m), t <= m
             PROVE  t \in Awaited(p, c, id) \/ t \in K
  BY DEF Awaited
<1>1. PICK i \in Nat : Report("grabbed", q, c, id, i) /\ m = q[i].seq
  BY DEF Reporting
<1>2. i > 0 /\ "grabbed" \in Kinds
  BY <1>1, ReportIs DEF Kinds
<1>3. CASE n = 1 /\ i = 1
  BY <1>1, <1>3 DEF Freed
<1>4. CASE ~(n = 1 /\ i = 1)
  <2>1. i - n \in Nat /\ 0 < i - n /\ i = (i - n) + n
    BY <1>2, <1>4
  <2>2. Report("grabbed", q, c, id, (i - n) + n) /\ m = q[(i - n) + n].seq
    BY <1>1, <2>1
  <2>3. Report("grabbed", p, c, id, i - n) /\ m = p[i - n].seq
    BY <1>2, <2>1, <2>2 DEF Carried
  <2> QED
    BY <2>1, <2>3 DEF Awaited, Reporting
<1> QED
  BY <1>3, <1>4

LEMMA ReportsCarried ==
    ASSUME ClipboardAssumption, NEW q \in Seq(Events), NEW p, NEW c, NEW n \in {0, 1}, Carried(q, p, c, n),
           NEW id \in Ids, NEW K, NEW L, K \subseteq L, n = 1 => Freed(q, c, id, L),
           ReportsFit(q, c, id, K)
    PROVE  ReportsFit(p, c, id, L)
<1> SUFFICES ASSUME NEW i \in Nat, Report("changed", p, c, id, i)
             PROVE  \/ p[i].seq \in L
                    \/ \E j \in Nat : j < i /\ Report("grabbed", p, c, id, j) /\ p[i].seq <= p[j].seq
  BY DEF ReportsFit
<1>0. "grabbed" \in Kinds /\ "changed" \in Kinds
  BY DEF Kinds
<1>1. Report("changed", q, c, id, i + n) /\ p[i].seq = q[i + n].seq /\ i + n \in Nat
  BY <1>0 DEF Carried
<1>2. CASE q[i + n].seq \in K
  BY <1>1, <1>2
<1>3. CASE ~(q[i + n].seq \in K)
  <2>1. PICK j \in Nat : j < i + n /\ Report("grabbed", q, c, id, j) /\ q[i + n].seq <= q[j].seq
    BY <1>1, <1>3 DEF ReportsFit
  <2>2. j > 0 /\ q[i + n].seq \in Seqs
    BY <1>0, <1>1, <2>1, ReportIs
  <2>3. CASE n = 1 /\ j = 1
    BY <1>1, <2>1, <2>2, <2>3 DEF Freed
  <2>4. CASE ~(n = 1 /\ j = 1)
    <3>1. j - n \in Nat /\ 0 < j - n /\ j = (j - n) + n /\ j - n < i
      BY <2>1, <2>2, <2>4
    <3>2. Report("grabbed", q, c, id, (j - n) + n) /\ q[j].seq = q[(j - n) + n].seq
      BY <2>1, <3>1
    <3>3. Report("grabbed", p, c, id, j - n) /\ p[j - n].seq = q[j].seq
      BY <1>0, <3>1, <3>2 DEF Carried
    <3> QED
      BY <1>1, <2>1, <3>1, <3>3
  <2> QED
    BY <2>3, <2>4
<1> QED
  BY <1>2, <1>3

\* A report x comes in.
LEMMA ReportsOn ==
    ASSUME ClipboardAssumption, NEW q \in Seq(Events), NEW x \in Events, NEW p, p = Append(q, x),
           NEW c, NEW id \in Ids, NEW K, ReportsFit(q, c, id, K),
           x.type = "changed" /\ x.from = c /\ x.id = id => x.seq \in K \cup Awaited(q, c, id)
    PROVE  ReportsFit(p, c, id, K)
<1>0. /\ Len(q) \in Nat /\ Len(p) = Len(q) + 1 /\ p[Len(q) + 1] = x
      /\ \A k \in 1..Len(q) : p[k] = q[k]
  BY MovedAppend DEF Moved
<1> SUFFICES ASSUME NEW i \in Nat, Report("changed", p, c, id, i)
             PROVE  \/ p[i].seq \in K
                    \/ \E j \in Nat : j < i /\ Report("grabbed", p, c, id, j) /\ p[i].seq <= p[j].seq
  BY DEF ReportsFit
<1>1. \A j \in Nat : Report("grabbed", q, c, id, j) =>
        j < Len(q) + 1 /\ Report("grabbed", p, c, id, j) /\ p[j].seq = q[j].seq
  BY <1>0 DEF Report
<1>2. CASE i = Len(q) + 1
  <2>1. x.seq \in K \cup Awaited(q, c, id) /\ p[i] = x
    BY <1>0, <1>2 DEF Report
  <2>2. CASE x.seq \in Awaited(q, c, id)
    <3>1. PICK m \in Seqs : Reporting("grabbed", q, c, id, m) /\ x.seq <= m
      BY <2>2 DEF Awaited
    <3>2. PICK j \in Nat : Report("grabbed", q, c, id, j) /\ m = q[j].seq
      BY <3>1 DEF Reporting
    <3> QED
      BY <1>1, <1>2, <2>1, <3>1, <3>2
  <2> QED
    BY <2>1, <2>2
<1>3. CASE i # Len(q) + 1
  <2>1. Report("changed", q, c, id, i) /\ p[i].seq = q[i].seq
    BY <1>0, <1>3 DEF Report
  <2>2. CASE q[i].seq \in K
    BY <2>1, <2>2
  <2>3. CASE ~(q[i].seq \in K)
    <3>1. PICK j \in Nat : j < i /\ Report("grabbed", q, c, id, j) /\ q[i].seq <= q[j].seq
      BY <2>1, <2>3 DEF ReportsFit
    <3> QED
      BY <1>1, <2>1, <3>1
  <2> QED
    BY <2>2, <2>3
<1> QED
  BY <1>2, <1>3

LEMMA AwaitedOn ==
    ASSUME ClipboardAssumption, NEW q \in Seq(Events), NEW x \in Events, NEW p, p = Append(q, x),
           NEW c, NEW id \in Ids
    PROVE  /\ Awaited(q, c, id) \subseteq Awaited(p, c, id)
           /\ x.type = "grabbed" /\ x.from = c /\ x.id = id /\ ~x.gone =>
                \A t \in Seqs : t <= x.seq => t \in Awaited(p, c, id)
<1>0. /\ Len(q) \in Nat /\ Len(p) = Len(q) + 1 /\ p[Len(q) + 1] = x
      /\ \A k \in 1..Len(q) : p[k] = q[k]
  BY MovedAppend DEF Moved
<1>1. ASSUME NEW m, Reporting("grabbed", q, c, id, m) PROVE Reporting("grabbed", p, c, id, m)
  BY <1>0, <1>1 DEF Report, Reporting
<1>2. ASSUME x.type = "grabbed", x.from = c, x.id = id, ~x.gone
      PROVE  Reporting("grabbed", p, c, id, x.seq) /\ x.seq \in Seqs
  <2>1. Report("grabbed", p, c, id, Len(q) + 1) /\ Len(q) + 1 \in Nat
    BY <1>0, <1>2 DEF Report
  <2> QED
    BY <1>0, <1>2, <2>1, GrabbedEvent DEF Reporting
<1> QED
  BY <1>1, <1>2 DEF Awaited

LEMMA ReportingOn ==
    ASSUME NEW q \in Seq(Events), NEW x \in Events,
           NEW type, NEW c, NEW id, NEW m, Reporting(type, Append(q, x), c, id, m)
    PROVE  \/ Reporting(type, q, c, id, m)
           \/ x.type = type /\ x.from = c /\ x.id = id /\ m = x.seq
<1>p. PICK p : p = Append(q, x)
  OBVIOUS
<1>0. /\ Len(q) \in Nat /\ Len(p) = Len(q) + 1 /\ p[Len(q) + 1] = x
      /\ \A k \in 1..Len(q) : p[k] = q[k]
  BY <1>p, MovedAppend DEF Moved
<1>1. PICK i \in Nat : Report(type, p, c, id, i) /\ m = p[i].seq
  BY <1>p DEF Reporting
<1>2. CASE i = Len(q) + 1
  BY <1>0, <1>1, <1>2 DEF Report
<1>3. CASE i # Len(q) + 1
  <2>1. Report(type, q, c, id, i) /\ m = q[i].seq
    BY <1>0, <1>1, <1>3 DEF Report
  <2> QED
    BY <2>1 DEF Reporting
<1> QED
  BY <1>2, <1>3

\* The messages of a client's connection: x comes in.
LEMMA UploadsOn ==
    ASSUME NEW u \in Seq(Messages), NEW x \in Messages,
           NEW id \in Ids, NEW K, NEW L, K \subseteq L, UploadsFit(u, id, K),
           x.type = "clip" /\ x.id = id => x.seq \in L \cup Sought(u, id)
    PROVE  UploadsFit(Append(u, x), id, L)
<1>p. PICK p : p = Append(u, x)
  OBVIOUS
<1>0. /\ Len(u) \in Nat /\ Len(p) = Len(u) + 1 /\ p[Len(u) + 1] = x
      /\ \A k \in 1..Len(u) : p[k] = u[k]
  BY <1>p, MovedAppend DEF Moved
<1> SUFFICES ASSUME NEW i \in Nat, Upward("clip", p, id, i)
             PROVE  \/ p[i].seq \in L
                    \/ \E j \in Nat : j < i /\ Upward("grab", p, id, j) /\ p[i].seq <= p[j].seq
  BY <1>p DEF UploadsFit
<1>1. \A j \in Nat : Upward("grab", u, id, j) =>
        j < Len(u) + 1 /\ Upward("grab", p, id, j) /\ p[j].seq = u[j].seq
  BY <1>0 DEF Upward
<1>2. CASE i = Len(u) + 1
  <2>1. x.seq \in L \cup Sought(u, id) /\ p[i] = x
    BY <1>0, <1>2 DEF Upward
  <2>2. CASE x.seq \in Sought(u, id)
    <3>1. PICK m \in Seqs : Rising("grab", u, id, m) /\ x.seq <= m
      BY <2>2 DEF Sought
    <3>2. PICK j \in Nat : Upward("grab", u, id, j) /\ m = u[j].seq
      BY <3>1 DEF Rising
    <3> QED
      BY <1>1, <1>2, <2>1, <3>1, <3>2
  <2> QED
    BY <2>1, <2>2
<1>3. CASE i # Len(u) + 1
  <2>1. Upward("clip", u, id, i) /\ p[i].seq = u[i].seq
    BY <1>0, <1>3 DEF Upward
  <2>2. CASE u[i].seq \in K
    BY <2>1, <2>2
  <2>3. CASE ~(u[i].seq \in K)
    <3>1. PICK j \in Nat : j < i /\ Upward("grab", u, id, j) /\ u[i].seq <= u[j].seq
      BY <2>1, <2>3 DEF UploadsFit
    <3> QED
      BY <1>1, <2>1, <3>1
  <2> QED
    BY <2>2, <2>3
<1> QED
  BY <1>2, <1>3

LEMMA SoughtOn ==
    ASSUME NEW u \in Seq(Messages), NEW x \in Messages, NEW p, p = Append(u, x), NEW id \in Ids
    PROVE  /\ Sought(u, id) \subseteq Sought(p, id)
           /\ x.type = "grab" /\ x.id = id => \A t \in Seqs : t <= x.seq => t \in Sought(p, id)
<1>0. /\ Len(u) \in Nat /\ Len(p) = Len(u) + 1 /\ p[Len(u) + 1] = x
      /\ \A k \in 1..Len(u) : p[k] = u[k]
  BY MovedAppend DEF Moved
<1>1. ASSUME NEW m, Rising("grab", u, id, m) PROVE Rising("grab", p, id, m)
  BY <1>0, <1>1 DEF Upward, Rising
<1>2. ASSUME x.type = "grab", x.id = id PROVE Rising("grab", p, id, x.seq) /\ x.seq \in Seqs
  <2>1. Upward("grab", p, id, Len(u) + 1) /\ Len(u) + 1 \in Nat
    BY <1>0, <1>2 DEF Upward
  <2> QED
    BY <1>0, <1>2, <2>1, MessageIs DEF Rising
<1> QED
  BY <1>1, <1>2 DEF Sought

LEMMA RisingOn ==
    ASSUME NEW u \in Seq(Messages), NEW x \in Messages,
           NEW type, NEW id, NEW m, Rising(type, Append(u, x), id, m)
    PROVE  Rising(type, u, id, m) \/ (x.type = type /\ x.id = id /\ m = x.seq)
<1>p. PICK p : p = Append(u, x)
  OBVIOUS
<1>0. /\ Len(u) \in Nat /\ Len(p) = Len(u) + 1 /\ p[Len(u) + 1] = x
      /\ \A k \in 1..Len(u) : p[k] = u[k]
  BY <1>p, MovedAppend DEF Moved
<1>1. PICK i \in Nat : Upward(type, p, id, i) /\ m = p[i].seq
  BY <1>p DEF Rising
<1>2. CASE i = Len(u) + 1
  BY <1>0, <1>1, <1>2 DEF Upward
<1>3. CASE i # Len(u) + 1
  <2>1. Upward(type, u, id, i) /\ m = u[i].seq
    BY <1>0, <1>1, <1>3 DEF Upward
  <2> QED
    BY <2>1 DEF Rising
<1> QED
  BY <1>2, <1>3

\* The first message is handled.
FirstGrab(u, id, K) ==
    u[1].type = "grab" /\ u[1].id = id => \A t \in Seqs : t <= u[1].seq => t \in K

LEMMA UploadsNext ==
    ASSUME ClipboardAssumption, NEW u \in Seq(Messages), u # <<>>, NEW p, p = Tail(u), NEW id \in Ids,
           NEW K, NEW L, K \subseteq L, UploadsFit(u, id, K), FirstGrab(u, id, L)
    PROVE  UploadsFit(p, id, L)
<1>0. /\ Len(u) \in Nat /\ Len(u) > 0 /\ Len(p) = Len(u) - 1
      /\ \A k \in 1..Len(p) : p[k] = u[k + 1]
  OBVIOUS
<1> SUFFICES ASSUME NEW i \in Nat, Upward("clip", p, id, i)
             PROVE  \/ p[i].seq \in L
                    \/ \E j \in Nat : j < i /\ Upward("grab", p, id, j) /\ p[i].seq <= p[j].seq
  BY DEF UploadsFit
<1>1. Upward("clip", u, id, i + 1) /\ p[i].seq = u[i + 1].seq /\ i + 1 \in Nat
  BY <1>0 DEF Upward
<1>2. CASE u[i + 1].seq \in K
  BY <1>1, <1>2
<1>3. CASE ~(u[i + 1].seq \in K)
  <2>1. PICK j \in Nat : j < i + 1 /\ Upward("grab", u, id, j) /\ u[i + 1].seq <= u[j].seq
    BY <1>1, <1>3 DEF UploadsFit
  <2>2. u[i + 1] \in Messages /\ u[i + 1].type = "clip"
    BY <1>1 DEF Upward
  <2>3. u[i + 1].seq \in Seqs
    BY <2>2, MessageIs
  <2>4. CASE j = 1
    BY <1>1, <2>1, <2>3, <2>4 DEF FirstGrab, Upward
  <2>5. CASE j # 1
    <3>1. j \in 1..Len(u)
      BY <2>1 DEF Upward
    <3>2. j - 1 \in Nat /\ j - 1 \in 1..Len(p) /\ j - 1 < i
      BY <1>0, <2>1, <2>5, <3>1
    <3>3. p[j - 1] = u[j]
      BY <1>0, <3>2
    <3>4. Upward("grab", p, id, j - 1)
      BY <2>1, <3>2, <3>3 DEF Upward
    <3> QED
      BY <1>1, <2>1, <3>2, <3>3, <3>4
  <2> QED
    BY <2>4, <2>5
<1> QED
  BY <1>2, <1>3

LEMMA ClipFirst ==
    ASSUME NEW u \in Seq(Messages), u # <<>>, NEW id \in Ids, NEW K, UploadsFit(u, id, K),
           u[1].type = "clip", u[1].id = id
    PROVE  u[1].seq \in K
<1>1. Upward("clip", u, id, 1) /\ \A j \in Nat : j < 1 => ~Upward("grab", u, id, j)
  BY DEF Upward
<1> QED
  BY <1>1 DEF UploadsFit

LEMMA SoughtNext ==
    ASSUME NEW u \in Seq(Messages), u # <<>>, NEW p, p = Tail(u), NEW id \in Ids,
           NEW K, FirstGrab(u, id, K)
    PROVE  Sought(u, id) \subseteq Sought(p, id) \cup K
<1>0. /\ Len(u) \in Nat /\ Len(u) > 0 /\ Len(p) = Len(u) - 1
      /\ \A k \in 1..Len(p) : p[k] = u[k + 1]
  OBVIOUS
<1> SUFFICES ASSUME NEW t \in Seqs, NEW m \in Seqs, Rising("grab", u, id, m), t <= m
             PROVE  t \in Sought(p, id) \/ t \in K
  BY DEF Sought
<1>1. PICK i \in Nat : Upward("grab", u, id, i) /\ m = u[i].seq
  BY DEF Rising
<1>2. CASE i = 1
  BY <1>1, <1>2 DEF FirstGrab, Upward
<1>3. CASE i # 1
  <2>1. i \in 1..Len(u)
    BY <1>1 DEF Upward
  <2>2. i - 1 \in Nat /\ i - 1 \in 1..Len(p)
    BY <1>0, <1>3, <2>1
  <2>3. p[i - 1] = u[i]
    BY <1>0, <2>2
  <2>4. Upward("grab", p, id, i - 1) /\ m = p[i - 1].seq
    BY <1>1, <2>2, <2>3 DEF Upward
  <2> QED
    BY <2>2, <2>4 DEF Sought, Rising
<1> QED
  BY <1>2, <1>3

LEMMA RisingNext ==
    ASSUME NEW u \in Seq(Messages), u # <<>>, NEW p, p = Tail(u), NEW type, NEW id, NEW m,
           Rising(type, p, id, m)
    PROVE  Rising(type, u, id, m)
<1>0. /\ Len(u) \in Nat /\ Len(u) > 0 /\ Len(p) = Len(u) - 1
      /\ \A k \in 1..Len(p) : p[k] = u[k + 1]
  OBVIOUS
<1>1. PICK i \in Nat : Upward(type, p, id, i) /\ m = p[i].seq
  BY DEF Rising
<1>2. Upward(type, u, id, i + 1) /\ m = u[i + 1].seq /\ i + 1 \in Nat
  BY <1>0, <1>1 DEF Upward
<1> QED
  BY <1>2 DEF Rising

LEMMA RisingFirst ==
    ASSUME NEW u \in Seq(Messages), u # <<>>
    PROVE  Rising(u[1].type, u, u[1].id, u[1].seq)
<1>1. Upward(u[1].type, u, u[1].id, 1)
  BY DEF Upward
<1> QED
  BY <1>1 DEF Rising

-----------------------------------------------------------------------------
(* A client's own requests *)

LEMMA RequestIs ==
    ASSUME NEW e \in Requests
    PROVE  /\ e.type \in {"grabbed", "send"} /\ e.id \in Ids
           /\ e.type = "send" => e.seq \in Seqs /\ e.value \in Copies
  BY DEF Requests

\* What is new in w, the requests r without the first n.
NewPost(r, n, w, i) == i \in 1..Len(w) /\ i + n > Len(r) /\ w[i].type = "send"

LEMMA PostsMoved ==
    ASSUME ClipboardAssumption, NEW r \in Seq(Requests), NEW w \in Seq(Requests), NEW n \in {0, 1},
           Moved(r, w, n), NEW id \in Ids, NEW K, NEW L, K \subseteq L, NEW s \in Seqs, NEW z \in Seqs,
           s <= z, PostsFit(r, id, s, K),
           n = 1 /\ r[1].type = "grabbed" /\ r[1].id = id => \A t \in Seqs : t <= s => t \in L,
           \A i \in Nat : NewPost(r, n, w, i) /\ w[i].id = id =>
             w[i].seq \in L \/ (n = 0 /\ w[i].seq = s /\ Asks(r, id))
    PROVE  PostsFit(w, id, z, L)
<1> SUFFICES ASSUME NEW i \in Nat, Posted(w, id, i)
             PROVE  w[i].seq \in L \/ (w[i].seq <= z /\ \E j \in Nat : j < i /\ Asked(w, id, j))
  BY DEF PostsFit
<1>0. Len(r) \in Nat /\ Len(w) \in Nat /\ n \in Nat /\ i \in 1..Len(w) /\ Len(w) + n >= Len(r)
  BY DEF Moved, Posted
<1>1. w[i] \in Requests /\ w[i].type = "send"
  BY <1>0 DEF Posted
<1>2. w[i].seq \in Seqs /\ w[i].seq \in Nat /\ s \in Nat /\ z \in Nat
  BY <1>1, RequestIs, Numbers
<1>3. ASSUME NEW j \in Nat, Asked(r, id, j), ~(n = 1 /\ j = 1)
      PROVE  j - n \in Nat /\ Asked(w, id, j - n)
  <2>1. j \in 1..Len(r) /\ r[j].type = "grabbed" /\ r[j].id = id
    BY <1>3 DEF Asked
  <2>2. j - n \in Nat /\ j - n \in 1..Len(w) /\ (j - n) + n = j /\ j <= Len(r)
    BY <1>0, <1>3, <2>1
  <2>3. w[j - n] = r[j]
    BY <2>2 DEF Moved
  <2> QED
    BY <2>1, <2>2, <2>3 DEF Asked
<1>4. CASE i + n > Len(r)
  <2>1. NewPost(r, n, w, i) /\ w[i].id = id
    BY <1>0, <1>1, <1>4 DEF NewPost, Posted
  <2>2. CASE n = 0 /\ w[i].seq = s /\ Asks(r, id)
    <3>1. PICK j \in Nat : Asked(r, id, j)
      BY <2>2 DEF Asks
    <3>2. j - n \in Nat /\ Asked(w, id, j - n) /\ j \in 1..Len(r)
      BY <1>3, <2>2, <3>1 DEF Asked
    <3>3. j - n < i
      BY <1>0, <1>4, <2>2, <3>2
    <3> QED
      BY <1>2, <2>2, <3>2, <3>3
  <2> QED
    BY <2>1, <2>2
<1>5. CASE i + n <= Len(r)
  <2>1. w[i] = r[i + n] /\ i + n \in 1..Len(r) /\ i + n \in Nat
    BY <1>0, <1>5 DEF Moved
  <2>2. Posted(r, id, i + n)
    BY <1>1, <2>1 DEF Posted
  <2>3. CASE r[i + n].seq \in K
    BY <2>1, <2>3
  <2>4. CASE ~(r[i + n].seq \in K)
    <3>1. PICK j \in Nat : j < i + n /\ Asked(r, id, j) /\ r[i + n].seq <= s
      BY <2>1, <2>2, <2>4 DEF PostsFit
    <3>2. CASE n = 1 /\ j = 1
      BY <1>2, <2>1, <3>1, <3>2 DEF Asked
    <3>3. CASE ~(n = 1 /\ j = 1)
      <4>1. j - n \in Nat /\ Asked(w, id, j - n) /\ j - n < i
        BY <1>0, <1>3, <3>1, <3>3
      <4> QED
        BY <1>2, <2>1, <3>1, <4>1
    <3> QED
      BY <3>2, <3>3
  <2> QED
    BY <2>3, <2>4
<1> QED
  BY <1>0, <1>4, <1>5

LEMMA PostingMoved ==
    ASSUME NEW r \in Seq(Requests), NEW w \in Seq(Requests), NEW n \in {0, 1}, Moved(r, w, n),
           NEW id, NEW m, Posting(w, id, m)
    PROVE  Posting(r, id, m) \/ \E i \in Nat : NewPost(r, n, w, i) /\ w[i].id = id /\ w[i].seq = m
<1>1. PICK i \in Nat : Posted(w, id, i) /\ m = w[i].seq
  BY DEF Posting
<1>2. CASE i + n > Len(r)
  BY <1>1, <1>2 DEF NewPost, Posted
<1>3. CASE i + n <= Len(r)
  <2>1. w[i] = r[i + n] /\ i + n \in 1..Len(r) /\ i + n \in Nat
    BY <1>1, <1>3 DEF Moved, Posted
  <2> QED
    BY <1>1, <2>1 DEF Posting, Posted
<1>4. Len(r) \in Nat /\ n \in Nat
  OBVIOUS
<1> QED
  BY <1>2, <1>3, <1>4

LEMMA AsksMoved ==
    ASSUME NEW r \in Seq(Requests), NEW w \in Seq(Requests), NEW n \in {0, 1}, Moved(r, w, n), NEW id
    PROVE  /\ Asks(w, id) => Asks(r, id)
                             \/ \E i \in Nat : i \in 1..Len(w) /\ i + n > Len(r) /\ w[i].type = "grabbed"
           /\ Asks(r, id) => Asks(w, id) \/ (n = 1 /\ r[1].type = "grabbed" /\ r[1].id = id)
<1>0. Len(r) \in Nat /\ n \in Nat /\ Len(w) \in Nat /\ Len(w) + n >= Len(r)
  BY DEF Moved
<1>1. ASSUME NEW i \in Nat, Asked(w, id, i), i + n <= Len(r) PROVE Asks(r, id)
  <2>1. w[i] = r[i + n] /\ i + n \in 1..Len(r) /\ i + n \in Nat
    BY <1>0, <1>1 DEF Moved, Asked
  <2> QED
    BY <1>1, <2>1 DEF Asks, Asked
<1>2. ASSUME NEW j \in Nat, Asked(r, id, j), ~(n = 1 /\ j = 1) PROVE Asks(w, id)
  <2>1. j \in 1..Len(r) /\ r[j].type = "grabbed" /\ r[j].id = id
    BY <1>2 DEF Asked
  <2>2. j - n \in Nat /\ j - n \in 1..Len(w) /\ (j - n) + n = j /\ j <= Len(r)
    BY <1>0, <1>2, <2>1
  <2>3. w[j - n] = r[j]
    BY <2>2 DEF Moved
  <2> QED
    BY <2>1, <2>2, <2>3 DEF Asked, Asks
<1>3. ASSUME Asks(w, id)
      PROVE  Asks(r, id) \/ \E i \in Nat : i \in 1..Len(w) /\ i + n > Len(r) /\ w[i].type = "grabbed"
  <2>1. PICK i \in Nat : Asked(w, id, i)
    BY <1>3 DEF Asks
  <2>2. CASE i + n <= Len(r)
    BY <1>1, <2>1, <2>2
  <2>3. CASE i + n > Len(r)
    BY <2>1, <2>3 DEF Asked
  <2> QED
    BY <1>0, <2>2, <2>3
<1>4. ASSUME Asks(r, id) PROVE Asks(w, id) \/ (n = 1 /\ r[1].type = "grabbed" /\ r[1].id = id)
  <2>1. PICK j \in Nat : Asked(r, id, j)
    BY <1>4 DEF Asks
  <2> QED
    BY <1>2, <2>1 DEF Asked
<1> QED
  BY <1>3, <1>4

LEMMA PostFirst ==
    ASSUME NEW r \in Seq(Requests), r # <<>>, r[1].type = "send"
    PROVE  /\ Posting(r, r[1].id, r[1].seq)
           /\ \A s, K : PostsFit(r, r[1].id, s, K) => r[1].seq \in K
<1>1. Posted(r, r[1].id, 1)
  BY DEF Posted
<1> QED
  BY <1>1 DEF Posting, PostsFit, Asked

LEMMA AskFirst ==
    ASSUME NEW r \in Seq(Requests), r # <<>>, r[1].type = "grabbed"
    PROVE  Asks(r, r[1].id)
<1>1. Asked(r, r[1].id, 1)
  BY DEF Asked
<1> QED
  BY <1>1 DEF Asks

LEMMA VisitKnown ==
    ASSUME NEW h, NEW s, NEW w, h, s # 0
    PROVE  Visiting(h, s, w, s)
<1>1. VisitAt(h, s, w, 0) /\ NumberAt(s, w, 0) = s
  BY DEF VisitAt, NumberAt
<1> QED
  BY <1>1 DEF Visiting

-----------------------------------------------------------------------------
(* No step makes a number of a client out of nothing *)

\* The number of a visit that begins with this step.
Fresh(c, n) == active' = c /\ seqNum' = seqNum + 1 /\ n = seqNum + 1

Grabbing(u, q, c, id, n) == Reporting("grabbed", q, c, id, n) \/ Rising("grab", u, id, n)
Updating(r, u, q, c, id, n) ==
    Posting(r, id, n) \/ Rising("clip", u, id, n) \/ Reporting("changed", q, c, id, n)

Traced(c) ==
    /\ seq[c] <= seq'[c]
    /\ seq'[c] = seq[c] \/ Visiting(here[c], seq[c], down[c], seq'[c])
    /\ \A n \in Seqs : Visiting(here'[c], seq'[c], down'[c], n) =>
         Visiting(here[c], seq[c], down[c], n) \/ Fresh(c, n)
    /\ \A id \in Ids : Asks(clientQueue'[c], id) =>
         Asks(clientQueue[c], id) \/ (here[c] /\ seq[c] # 0 /\ seq'[c] = seq[c])
    /\ \A id \in Ids : \A n \in Seqs : Grabbing(up'[c], queue', c, id, n) =>
         Grabbing(up[c], queue, c, id, n) \/ (n = seq[c] /\ Asks(clientQueue[c], id))
    /\ \A id \in Ids : \A n \in Seqs : Updating(clientQueue'[c], up'[c], queue', c, id, n) =>
         Updating(clientQueue[c], up[c], queue, c, id, n) \/ (n = seq[c] /\ seq[c] # 0)

LEMMA TracedIs ==
    ASSUME ClipboardAssumption, Typed, NEW c \in connected, Sound(c), Traced(c), NEW n \in Seqs
    PROVE  /\ Mark(c, n)' => Mark(c, n) \/ Fresh(c, n)
           /\ \A id \in Ids : Threat(c, id, n)' => Threat(c, id, n) \/ Fresh(c, n)
<1>1. ASSUME Visiting(here'[c], seq'[c], down'[c], n)
      PROVE  Visiting(here[c], seq[c], down[c], n) \/ Fresh(c, n)
  BY <1>1 DEF Traced
<1>2. ASSUME n = seq'[c]
      PROVE  n = seq[c] \/ Visiting(here[c], seq[c], down[c], n)
  BY <1>2 DEF Traced
<1>3. ASSUME NEW id \in Ids, Grabbing(up'[c], queue', c, id, n)
      PROVE  Grabbing(up[c], queue, c, id, n) \/ (n = seq[c] /\ n # 0 /\ Asks(clientQueue[c], id))
  <2>1. Asks(clientQueue[c], id) => seq[c] # 0
    BY <1>3 DEF Sound, Marked
  <2> QED
    BY <1>3, <2>1 DEF Traced
<1>4. ASSUME NEW id \in Ids, Updating(clientQueue'[c], up'[c], queue', c, id, n)
      PROVE  Updating(clientQueue[c], up[c], queue, c, id, n) \/ (n = seq[c] /\ n # 0)
  BY <1>4 DEF Traced
<1>5. ASSUME NEW id \in Ids, n = seq'[c], Asks(clientQueue'[c], id)
      PROVE  (n = seq[c] /\ Asks(clientQueue[c], id)) \/ Visiting(here[c], seq[c], down[c], n)
  <2>1. CASE here[c] /\ seq[c] # 0 /\ seq'[c] = seq[c]
    BY <1>5, <2>1, VisitKnown
  <2>2. CASE ~(here[c] /\ seq[c] # 0 /\ seq'[c] = seq[c])
    <3>1. Asks(clientQueue[c], id)
      BY <1>5, <2>2 DEF Traced
    <3> QED
      BY <1>2, <1>5, <3>1
  <2> QED
    BY <2>1, <2>2
<1>6. Mark(c, n)' => Mark(c, n) \/ Fresh(c, n)
  <2> SUFFICES ASSUME Mark(c, n)' PROVE Mark(c, n) \/ Fresh(c, n)
    OBVIOUS
  <2>1. CASE n = seq'[c] /\ n # 0
    BY <1>2, <2>1 DEF Mark
  <2>2. CASE Visiting(here'[c], seq'[c], down'[c], n)
    BY <1>1, <2>2 DEF Mark
  <2>3. CASE \E id \in Ids : Grabbing(up'[c], queue', c, id, n)
    <3>1. PICK id \in Ids : Grabbing(up'[c], queue', c, id, n)
      BY <2>3
    <3>2. Grabbing(up[c], queue, c, id, n) \/ (n = seq[c] /\ n # 0)
      BY <1>3, <3>1
    <3> QED
      BY <3>2 DEF Mark, Grabbing
  <2>4. CASE \E id \in Ids : Updating(clientQueue'[c], up'[c], queue', c, id, n)
    <3>1. PICK id \in Ids : Updating(clientQueue'[c], up'[c], queue', c, id, n)
      BY <2>4
    <3>2. Updating(clientQueue[c], up[c], queue, c, id, n) \/ (n = seq[c] /\ n # 0)
      BY <1>4, <3>1
    <3> QED
      BY <3>2 DEF Mark, Updating
  <2> QED
    BY <2>1, <2>2, <2>3, <2>4, Zenon DEF Mark, Grabbing, Updating
<1>7. ASSUME NEW id \in Ids, Threat(c, id, n)' PROVE Threat(c, id, n) \/ Fresh(c, n)
  <2>1. CASE Grabbing(up'[c], queue', c, id, n)
    BY <1>3, <2>1, Zenon DEF Threat, Grabbing
  <2>2. CASE n = seq'[c] /\ Asks(clientQueue'[c], id)
    BY <1>5, <2>2, Zenon DEF Threat
  <2>3. CASE Visiting(here'[c], seq'[c], down'[c], n)
    BY <1>1, <2>3, Zenon DEF Threat
  <2> QED
    BY <1>7, <2>1, <2>2, <2>3, Zenon DEF Threat, Grabbing
<1> QED
  BY <1>6, <1>7

\* A client that joins has none.
Unmarked(c) ==
    /\ \A n \in Seqs : ~Mark(c, n)' /\ \A id \in Ids : ~Threat(c, id, n)'
    /\ \A id \in Ids : ~Asks(clientQueue'[c], id)

Timed(c) == \A n \in Seqs : Timely(c, n) => Timely(c, n)'

Steady ==
    /\ seqNum' \in {seqNum, seqNum + 1}
    /\ \A c \in connected' : IF c \in connected THEN Traced(c) /\ Timed(c) ELSE Unmarked(c)

LEMMA MarksStay ==
    ASSUME ClipboardAssumption, Typed, Sitting, Steady, NEW c \in connected'
    PROVE  Marked(c)' /\ \A d \in connected' : c # d => Apart(c, d)'
<1>0. seqNum \in Nat /\ seqNum \in Seqs
  BY Numbers DEF Typed, TypeOK
<1>1. ASSUME NEW d \in connected', NEW n \in Seqs, Mark(d, n)'
      PROVE  d \in connected /\ (Mark(d, n) \/ Fresh(d, n))
  <2>1. d \in connected /\ Traced(d)
    BY <1>1 DEF Steady, Unmarked
  <2> QED
    BY <1>1, <2>1, TracedIs DEF Sitting
<1>2. ASSUME NEW d \in connected, NEW n \in Seqs, Mark(d, n)
      PROVE  0 < n /\ n <= seqNum /\ Timely(d, n) /\ n \in Nat
  BY <1>2, Numbers DEF Sitting, Sound, Marked, Timely
<1>3. ASSUME NEW n \in Seqs, Mark(c, n)' PROVE 0 < n /\ Timely(c, n)'
  <2>1. CASE Mark(c, n)
    <3>1. c \in connected /\ Timed(c) /\ Timely(c, n) /\ 0 < n
      BY <1>1, <1>2, <1>3, <2>1 DEF Steady
    <3> QED
      BY <3>1 DEF Timed
  <2>2. CASE Fresh(c, n)
    BY <1>0, <2>2 DEF Fresh, Timely
  <2> QED
    BY <1>1, <1>3, <2>1, <2>2
<1>4. ASSUME NEW id \in Ids, Asks(clientQueue'[c], id) PROVE seq'[c] # 0
  <2>1. c \in connected /\ Traced(c)
    BY <1>4 DEF Steady, Unmarked
  <2>2. c \in Clients /\ seq[c] \in Seqs
    BY <2>1 DEF Typed, TypeOK
  <2>3. CASE seq[c] # 0 /\ seq'[c] = seq[c]
    BY <2>3
  <2>4. CASE ~(seq[c] # 0 /\ seq'[c] = seq[c])
    <3>1. Asks(clientQueue[c], id)
      BY <1>4, <2>1, <2>4 DEF Traced
    <3>2. seq[c] # 0
      BY <2>1, <3>1 DEF Sitting, Sound, Marked
    <3>3. 0 < seq[c] /\ seq[c] <= seq'[c] /\ seq[c] \in Nat
      BY <2>1, <2>2, <3>2, Numbers DEF Traced
    <3> QED
      BY <3>3
  <2> QED
    BY <2>3, <2>4
<1>5. ASSUME NEW d \in connected', c # d, NEW n \in Seqs, Mark(c, n)', Mark(d, n)' PROVE FALSE
  <2>1. c \in connected /\ d \in connected
    BY <1>1, <1>5
  <2>2. Mark(c, n) \/ Fresh(c, n)
    BY <1>1, <1>5
  <2>3. Mark(d, n) \/ Fresh(d, n)
    BY <1>1, <1>5
  <2>4. CASE Fresh(c, n) /\ Fresh(d, n)
    BY <1>5, <2>4 DEF Fresh
  <2>5. CASE Mark(c, n) /\ Mark(d, n)
    BY <1>5, <2>1, <2>5 DEF Sitting, Apart
  <2>6. CASE Mark(c, n) /\ Fresh(d, n)
    BY <1>0, <1>2, <2>1, <2>6 DEF Fresh
  <2>7. CASE Fresh(c, n) /\ Mark(d, n)
    BY <1>0, <1>2, <2>1, <2>7 DEF Fresh
  <2> QED
    BY <2>2, <2>3, <2>4, <2>5, <2>6, <2>7
<1>6. Marked(c)'
  BY <1>3, <1>4 DEF Marked
<1>7. ASSUME NEW d \in connected', c # d PROVE Apart(c, d)'
  BY <1>5, <1>7 DEF Apart
<1> QED
  BY <1>6, <1>7

-----------------------------------------------------------------------------
(* No step takes a claim away *)

Same(id) == board'[id].owner = board[id].owner /\ board'[id].seq = board[id].seq

\* What others may grab with from now on they could before, or it is too new.
LEMMA ThreatsStay ==
    ASSUME ClipboardAssumption, Typed, Sitting, Steady, NEW d \in connected', NEW id \in Ids,
           NEW n \in Seqs, Threat(d, id, n)'
    PROVE  d \in connected /\ (Threat(d, id, n) \/ n > seqNum)
<1>0. seqNum \in Nat
  BY Numbers DEF Typed, TypeOK
<1>1. d \in connected /\ Traced(d)
  BY DEF Steady, Unmarked
<1>2. Threat(d, id, n) \/ Fresh(d, n)
  BY <1>1, TracedIs DEF Sitting
<1> QED
  BY <1>0, <1>1, <1>2 DEF Fresh

LEMMA ClaimsStay ==
    ASSUME ClipboardAssumption, Typed, Sitting, Steady, NEW c \in connected, c \in connected',
           NEW id \in Ids, Same(id)
    PROVE  Claimed(c, id) \subseteq Claimed(c, id)'
<1> SUFFICES ASSUME NEW t \in Claimed(c, id) PROVE t \in Claimed(c, id)'
  OBVIOUS
<1>0. seqNum \in Nat /\ t \in Seqs /\ t \in Nat /\ t <= seqNum
  BY Numbers DEF Typed, TypeOK, Claimed, Timely
<1>1. Timely(c, t)'
  BY DEF Steady, Timed, Claimed
<1>2. CASE t < board[id].seq
  BY <1>0, <1>1, <1>2 DEF Same, Claimed
<1>3. CASE board[id].owner = c /\ Alone(c, id, t)
  <2>1. ASSUME NEW d \in connected', d # c, NEW n \in Seqs, Threat(d, id, n)'
        PROVE  n < board'[id].seq \/ n > t
    <3>1. d \in connected /\ (Threat(d, id, n) \/ n > seqNum)
      BY <2>1, ThreatsStay
    <3>2. CASE Threat(d, id, n)
      BY <1>3, <2>1, <3>1, <3>2 DEF Alone, Same
    <3>3. CASE n > seqNum
      BY <1>0, <2>1, <3>3, Numbers
    <3> QED
      BY <3>1, <3>2, <3>3
  <2>2. Alone(c, id, t)'
    BY <2>1 DEF Alone
  <2> QED
    BY <1>0, <1>1, <1>3, <2>2 DEF Same, Claimed
<1> QED
  BY <1>2, <1>3 DEF Claimed

-----------------------------------------------------------------------------
(* Clients that only hear of a step *)

LEMMA UploadsWider ==
    ASSUME NEW u, NEW id, NEW K, NEW L, K \subseteq L, UploadsFit(u, id, K)
    PROVE  UploadsFit(u, id, L)
  BY DEF UploadsFit
LEMMA PostsWider ==
    ASSUME NEW r, NEW id, NEW s, NEW K, NEW L, K \subseteq L, PostsFit(r, id, s, K)
    PROVE  PostsFit(r, id, s, L)
  BY DEF PostsFit
LEMMA OutlivesOwner ==
    ASSUME NEW h, NEW s, NEW w, NEW id, NEW n PROVE Outlives(h, s, w, id, n, TRUE)
  BY DEF Outlives

\* Nothing happens to the client's side, or to what it has sent.
Still(c) ==
    /\ here'[c] = here[c] /\ seq'[c] = seq[c] /\ mine'[c] = mine[c]
    /\ clientQueue'[c] = clientQueue[c] /\ up'[c] = up[c]

\* What it is sent goes with what becomes of the active screen.
Rests(c) == IF active' = c THEN active = c /\ seqNum' = seqNum ELSE active # c
Learns(c) ==
    \/ down'[c] = down[c] /\ Rests(c)
    \/ \E x \in Messages :
         /\ down'[c] = Append(down[c], x)
         /\ \/ x.type = "leave"
            \/ x.type = "enter" /\ active # c /\ Fresh(c, x.seq)
            \/ x.type \in {"grab", "clip"} /\ Rests(c)
Counted(c) == seqNum' = seqNum + 1 \/ (seqNum' = seqNum /\ (active = c => active' = c))

\* It hears of what happens, and n of its reports are handled.
Hearing(c, n) == Still(c) /\ Learns(c) /\ Counted(c) /\ Carried(queue, queue', c, n)

\* No grab of it for the clipboard id is accepted.
Spared(c, n, id) ==
    n = 1 => (Report("grabbed", queue, c, id, 1) => queue[1].seq < board[id].seq)
Calm(c, n) == Hearing(c, n) /\ \A id \in Ids : Spared(c, n, id)

LEMMA CarriedTraced ==
    ASSUME ClipboardAssumption, Typed, NEW c \in connected, Still(c), Learns(c), NEW n \in {0, 1},
           Carried(queue, queue', c, n)
    PROVE  Traced(c)
<1>0. c \in Clients /\ down[c] \in Seq(Messages) /\ seq[c] \in Seqs /\ seq[c] \in Nat
  BY Numbers DEF Typed, TypeOK
<1>1. seq[c] <= seq'[c] /\ seq'[c] = seq[c]
  BY <1>0 DEF Still
<1>2. ASSUME NEW m \in Seqs, Visiting(here'[c], seq'[c], down'[c], m)
      PROVE  Visiting(here[c], seq[c], down[c], m) \/ Fresh(c, m)
  <2>1. Visiting(here[c], seq[c], down'[c], m)
    BY <1>2 DEF Still
  <2>2. CASE down'[c] = down[c]
    BY <2>1, <2>2
  <2>3. CASE \E x \in Messages : down'[c] = Append(down[c], x) /\ (x.type = "enter" => Fresh(c, x.seq))
    <3>1. PICK x \in Messages : down'[c] = Append(down[c], x) /\ (x.type = "enter" => Fresh(c, x.seq))
      BY <2>3
    <3>2. Visiting(here[c], seq[c], Append(down[c], x), m)
      BY <2>1, <3>1
    <3>3. Visiting(here[c], seq[c], down[c], m) \/ (x.type = "enter" /\ m = x.seq)
      BY <1>0, <3>1, <3>2, VisitingGrown
    <3> QED
      BY <3>1, <3>3
  <2> QED
    BY <2>2, <2>3 DEF Learns
<1>3. ASSUME NEW id \in Ids, Asks(clientQueue'[c], id) PROVE Asks(clientQueue[c], id)
  BY <1>3 DEF Still
<1>4. ASSUME NEW id \in Ids, NEW m \in Seqs, Grabbing(up'[c], queue', c, id, m)
      PROVE  Grabbing(up[c], queue, c, id, m)
  <2>1. Rising("grab", up'[c], id, m) => Rising("grab", up[c], id, m)
    BY DEF Still
  <2>2. Reporting("grabbed", queue', c, id, m) => Reporting("grabbed", queue, c, id, m)
    BY ReportingCarried DEF Kinds
  <2> QED
    BY <1>4, <2>1, <2>2 DEF Grabbing
<1>5. ASSUME NEW id \in Ids, NEW m \in Seqs, Updating(clientQueue'[c], up'[c], queue', c, id, m)
      PROVE  Updating(clientQueue[c], up[c], queue, c, id, m)
  <2>1. /\ Rising("clip", up'[c], id, m) => Rising("clip", up[c], id, m)
        /\ Posting(clientQueue'[c], id, m) => Posting(clientQueue[c], id, m)
    BY DEF Still
  <2>2. Reporting("changed", queue', c, id, m) => Reporting("changed", queue, c, id, m)
    BY ReportingCarried DEF Kinds
  <2> QED
    BY <1>5, <2>1, <2>2 DEF Updating
<1> QED
  BY <1>1, <1>2, <1>3, <1>4, <1>5 DEF Traced

LEMMA CountedTimed ==
    ASSUME ClipboardAssumption, Typed, NEW c, Counted(c)
    PROVE  Timed(c)
<1>1. seqNum \in Nat
  BY Numbers DEF Typed, TypeOK
<1>2. ASSUME NEW n \in Seqs, Timely(c, n) PROVE Timely(c, n)'
  <2>1. n \in Nat
    BY Numbers
  <2> QED
    BY <1>1, <1>2, <2>1 DEF Counted, Timely
<1> QED
  BY <1>2 DEF Timed

LEMMA LearnsCourse ==
    ASSUME ClipboardAssumption, Typed, NEW c \in connected, Sound(c), Still(c), Learns(c)
    PROVE  Course(c)'
<1> DEFINE w == down[c]
           h == here[c]
           s == seq[c]
<1>0. c \in Clients /\ w \in Seq(Messages) /\ s \in Seqs /\ s \in Nat /\ h \in BOOLEAN
      /\ seqNum \in Nat /\ seqNum \in Seqs
  BY Numbers DEF Typed, TypeOK
<1>1. Ordered(s, w) /\ Ended(h, s, w) /\ LastOn(h, s, w, seqNum, active = c)
  BY DEF Sound, Course
<1>2. Course(c)' <=> Ordered(s, down'[c]) /\ Ended(h, s, down'[c])
                     /\ LastOn(h, s, down'[c], seqNum', active' = c)
  BY DEF Course, Still
<1>n. ASSUME NEW i \in Nat, i = 0 \/ EnterAt(w, i) PROVE NumberAt(s, w, i) <= seqNum
  <2>0. NumberAt(s, w, i) \in Seqs
    BY <1>0, <1>n, NumberIs
  <2>1. CASE i = 0 /\ s = 0
    BY <1>0, <2>1 DEF NumberAt
  <2>2. CASE i = 0 /\ s # 0
    <3>1. Mark(c, NumberAt(s, w, i))
      BY <2>2 DEF Mark, NumberAt
    <3> QED
      BY <2>0, <3>1 DEF Sound, Marked, Timely
  <2>3. CASE EnterAt(w, i)
    <3>1. Visiting(h, s, w, NumberAt(s, w, i))
      BY <2>3 DEF Visiting, VisitAt
    <3>2. Mark(c, NumberAt(s, w, i))
      BY <3>1 DEF Mark
    <3> QED
      BY <2>0, <3>2 DEF Sound, Marked, Timely
  <2> QED
    BY <1>n, <2>1, <2>2, <2>3
<1> HIDE DEF w, h, s
<1>3. CASE down'[c] = down[c] /\ Rests(c)
  <2>1. CASE active' = c
    <3>1. (active' = c) = (active = c) /\ seqNum' = seqNum
      BY <1>3, <2>1 DEF Rests
    <3> QED
      BY <1>1, <1>2, <1>3, <3>1 DEF w
  <2>2. CASE active' # c
    <3>1. LastOn(h, s, w, seqNum, FALSE)
      <4>1. (active = c) = FALSE
        BY <1>3, <2>2 DEF Rests
      <4> QED
        BY <1>1, <4>1
    <3>2. LastOn(h, s, w, seqNum', FALSE) /\ (active' = c) = FALSE
      BY <2>2, <3>1, LastOnElsewhere
    <3> QED
      BY <1>1, <1>2, <1>3, <3>2 DEF w
  <2> QED
    BY <2>1, <2>2
<1>4. ASSUME NEW x \in Messages, down'[c] = Append(w, x), x.type # "enter",
             x.type = "leave" \/ Rests(c)
      PROVE  Course(c)'
  <2> DEFINE p == Append(w, x)
  <2>1. Ordered(s, p) /\ Ended(h, s, p)
    BY <1>0, <1>1, <1>4, OrderedOn, EndedOn
  <2>2. CASE x.type = "leave" \/ (active' = c /\ active = c /\ seqNum' = seqNum)
    <3>1. (active = c) \in BOOLEAN /\ (active' = c) \in BOOLEAN
      OBVIOUS
    <3>2. x.type = "leave" \/ (x.type # "enter" /\ (active' = c) = (active = c) /\ seqNum' = seqNum)
      BY <1>4, <2>2
    <3>3. LastOn(h, s, p, seqNum', active' = c)
      <4>1. PICK a \in BOOLEAN : a = (active = c)
        BY <3>1
      <4>2. PICK b \in BOOLEAN : b = (active' = c)
        BY <3>1
      <4>3. PICK m : m = seqNum'
        OBVIOUS
      <4>4. LastOn(h, s, w, seqNum, a)
        BY <1>1, <4>1
      <4>5. x.type = "leave" \/ (x.type # "enter" /\ b = a /\ m = seqNum)
        BY <3>2, <4>1, <4>2, <4>3
      <4>6. LastOn(h, s, p, m, b)
        BY <1>0, <1>4, <4>1, <4>2, <4>4, <4>5, LastOnGrown
      <4> QED
        BY <4>2, <4>3, <4>6
    <3> QED
      BY <1>2, <1>4, <2>1, <3>3
  <2>3. CASE active' # c /\ active # c
    <3>1. LastOn(h, s, w, seqNum, FALSE) /\ (active' = c) = FALSE
      <4>1. (active = c) = FALSE /\ (active' = c) = FALSE
        BY <2>3
      <4> QED
        BY <1>1, <4>1
    <3>2. LastOn(h, s, p, seqNum, FALSE)
      BY <1>0, <1>4, <3>1, LastOnGrown
    <3>3. LastOn(h, s, p, seqNum', FALSE)
      BY <3>2, LastOnElsewhere
    <3> QED
      BY <1>2, <1>4, <2>1, <3>1, <3>3
  <2> QED
    BY <1>4, <2>2, <2>3 DEF Rests
<1>5. ASSUME NEW x \in Messages, down'[c] = Append(w, x), x.type = "enter", active # c, Fresh(c, x.seq)
      PROVE  Course(c)'
  <2> DEFINE p == Append(w, x)
  <2>1. x.seq > s /\ \A i \in Nat : EnterAt(w, i) => x.seq > w[i].seq
    <3>1. x.seq = seqNum + 1
      BY <1>5 DEF Fresh
    <3>2. s <= seqNum
      BY <1>n DEF NumberAt
    <3>3. ASSUME NEW i \in Nat, EnterAt(w, i) PROVE w[i].seq <= seqNum /\ w[i].seq \in Nat
      <4>1. i # 0 /\ NumberAt(s, w, i) = w[i].seq
        BY <3>3 DEF EnterAt, NumberAt
      <4> QED
        BY <1>0, <1>n, <3>3, <4>1, NumberIs
    <3> QED
      BY <1>0, <3>1, <3>2, <3>3
  <2>2. (active = c) = FALSE /\ (active' = c) = TRUE /\ seqNum' = x.seq
    BY <1>5 DEF Fresh
  <2>3. LastOn(h, s, w, seqNum, FALSE)
    BY <1>1, <2>2
  <2>4. \A i \in Nat : VisitAt(h, s, w, i) => \E j \in Nat : i < j /\ LeaveAt(w, j)
    BY <2>3 DEF LastOn
  <2>5. Ordered(s, p)
    BY <1>0, <1>1, <2>1, OrderedOn
  <2>6. Ended(h, s, p)
    BY <1>0, <1>1, <2>4, EndedOn
  <2>7. LastOn(h, s, p, x.seq, TRUE)
    BY <1>0, <1>5, <2>3, LastOnGrown
  <2> QED
    BY <1>2, <1>5, <2>2, <2>5, <2>6, <2>7
<1> QED
  BY <1>3, <1>4, <1>5 DEF Learns, w

\* What is behind a grab that is handled has a claim from then on.
LEMMA StillFits ==
    ASSUME ClipboardAssumption, Typed, NEW c \in connected, Still(c), NEW id \in Ids,
           NEW n \in {0, 1}, Carried(queue, queue', c, n),
           n = 1 => Freed(queue, c, id, Claimed(c, id)'),
           Claimed(c, id) \subseteq Claimed(c, id)', Fits(c, id)
    PROVE  Fits(c, id)'
<1> DEFINE K == Claimed(c, id)
           L == Claimed(c, id)'
<1>0. c \in Clients /\ queue \in Seq(Events)
  BY DEF Typed, TypeOK
<1>1. ReportsFit(queue, c, id, K) /\ UploadsFit(up[c], id, K \cup Awaited(queue, c, id))
      /\ PostsFit(clientQueue[c], id, seq[c], (K \cup Awaited(queue, c, id)) \cup Sought(up[c], id))
  BY DEF Fits, Heard, Told
<1>2. mine[c][id].own /\ Sendable(mine[c][id]) =>
        here[c] /\ seq[c] # 0 /\ (seq[c] \in (K \cup Awaited(queue, c, id)) \cup Sought(up[c], id)
                                  \/ Asks(clientQueue[c], id))
  BY DEF Fits, Heard, Told
<1>3. Fits(c, id)' <=>
        /\ ReportsFit(queue', c, id, L) /\ UploadsFit(up[c], id, L \cup Awaited(queue', c, id))
        /\ PostsFit(clientQueue[c], id, seq[c], (L \cup Awaited(queue', c, id)) \cup Sought(up[c], id))
        /\ mine[c][id].own /\ Sendable(mine[c][id]) =>
             here[c] /\ seq[c] # 0 /\ (seq[c] \in (L \cup Awaited(queue', c, id)) \cup Sought(up[c], id)
                                       \/ Asks(clientQueue[c], id))
  BY DEF Fits, Heard, Told, Still
<1> HIDE DEF K, L
<1>4. K \subseteq L
  BY DEF K, L
<1>5. n = 1 => Freed(queue, c, id, L)
  BY DEF L
<1>6. ReportsFit(queue', c, id, L)
  BY <1>0, <1>1, <1>4, <1>5, ReportsCarried
<1>7. Awaited(queue, c, id) \subseteq Awaited(queue', c, id) \cup L
  BY <1>0, <1>5, AwaitedCarried
<1>8. K \cup Awaited(queue, c, id) \subseteq L \cup Awaited(queue', c, id)
  BY <1>4, <1>7
<1>9. (K \cup Awaited(queue, c, id)) \cup Sought(up[c], id)
        \subseteq (L \cup Awaited(queue', c, id)) \cup Sought(up[c], id)
  BY <1>8
<1>10. UploadsFit(up[c], id, L \cup Awaited(queue', c, id))
  BY <1>1, <1>8, UploadsWider
<1>11. PostsFit(clientQueue[c], id, seq[c], (L \cup Awaited(queue', c, id)) \cup Sought(up[c], id))
  BY <1>1, <1>9, PostsWider
<1> QED
  BY <1>2, <1>3, <1>6, <1>9, <1>10, <1>11

LEMMA GrabStays ==
    ASSUME Typed, NEW c \in connected, Learns(c), NEW id, NEW i \in Nat, GrabAt(down[c], id, i)
    PROVE  GrabAt(down'[c], id, i)
<1>0. down[c] \in Seq(Messages)
  BY DEF Typed, TypeOK
<1>1. CASE down'[c] = down[c]
  BY <1>1
<1>2. CASE \E x \in Messages : down'[c] = Append(down[c], x)
  <2>1. PICK x \in Messages : down'[c] = Append(down[c], x)
    BY <1>2
  <2>2. PICK w \in Seq(Messages) : w = down[c]
    BY <1>0
  <2>3. PICK p : p = Append(w, x)
    OBVIOUS
  <2>4. GrabAt(w, id, i)
    BY <2>2
  <2>5. GrabAt(p, id, i)
    BY <2>1, <2>2, <2>3, <2>4, GrabGrown
  <2> QED
    BY <2>1, <2>2, <2>3, <2>5
<1> QED
  BY <1>1, <1>2 DEF Learns

\* The numbers below that of a clipboard have a claim.
LEMMA OldClaimed ==
    ASSUME ClipboardAssumption, Typed, Home, NEW c \in connected, NEW id \in Ids, NEW t \in Seqs,
           t < board[id].seq
    PROVE  t \in Claimed(c, id)
<1>1. t \in Nat /\ seqNum \in Nat /\ board[id].seq <= seqNum /\ board[id].seq \in Nat
  BY Numbers DEF Typed, TypeOK, Boards, Home
<1>2. Timely(c, t)
  BY <1>1 DEF Timely
<1> QED
  BY <1>2 DEF Claimed

LEMMA CalmFits ==
    ASSUME ClipboardAssumption, Typed, Home, Sitting, Steady, NEW c \in connected, c \in connected',
           NEW n \in {0, 1}, Hearing(c, n), NEW id \in Ids, Spared(c, n, id), Same(id), Fits(c, id)
    PROVE  Fits(c, id)'
<1>1. Claimed(c, id) \subseteq Claimed(c, id)'
  BY ClaimsStay
<1>2. ASSUME n = 1, Report("grabbed", queue, c, id, 1), NEW t \in Seqs, t <= queue[1].seq
      PROVE  t \in Claimed(c, id)'
  <2>1. queue[1].seq < board[id].seq
    BY <1>2 DEF Hearing, Spared
  <2>2. queue[1].seq \in Nat /\ board[id].seq \in Nat /\ t \in Nat
    BY <1>2, ReportIs, Numbers DEF Typed, TypeOK, Boards, Kinds
  <2>3. t < board[id].seq
    BY <1>2, <2>1, <2>2
  <2> QED
    BY <1>1, <2>3, OldClaimed
<1>3. n = 1 => Freed(queue, c, id, Claimed(c, id)')
  BY <1>2 DEF Freed
<1> QED
  BY <1>1, <1>3, StillFits DEF Hearing, Spared

LEMMA CalmKeeps ==
    ASSUME ClipboardAssumption, Typed, NEW c \in connected, NEW n \in {0, 1}, Hearing(c, n),
           NEW id \in Ids, Spared(c, n, id), Same(id), Keeps(c, id)
    PROVE  Keeps(c, id)'
<1> SUFFICES ASSUME ~mine[c][id].held PROVE Keeps(c, id)'
  BY DEF Keeps, Hearing, Still
<1>0. queue \in Seq(Events) /\ board[id].seq \in Seqs
  BY DEF Typed, TypeOK, Boards
<1>1. CASE board[id].owner = c
  BY <1>1 DEF Keeps, Same
<1>2. CASE \E i \in Nat : GrabAt(down[c], id, i)
  <2>1. PICK i \in Nat : GrabAt(down[c], id, i)
    BY <1>2
  <2>2. GrabAt(down'[c], id, i)
    BY <2>1, GrabStays DEF Hearing, Spared
  <2> QED
    BY <2>2 DEF Keeps
<1>3. CASE Asks(clientQueue[c], id) /\ seq[c] >= board[id].seq
  BY <1>3 DEF Keeps, Same, Hearing, Still
<1>4. CASE board[id].seq \in Awaited(queue, c, id)
  <2> DEFINE K == {t \in Seqs : t < board[id].seq}
  <2>1. ASSUME n = 1, Report("grabbed", queue, c, id, 1), NEW t \in Seqs, t <= queue[1].seq
        PROVE  t \in K
    <3>1. queue[1].seq < board[id].seq
      BY <2>1 DEF Hearing, Spared
    <3>2. queue[1].seq \in Nat /\ board[id].seq \in Nat /\ t \in Nat
      BY <1>0, <2>1, ReportIs, Numbers DEF Kinds
    <3> QED
      BY <2>1, <3>1, <3>2
  <2>2. board[id].seq \notin K
    BY <1>0, Numbers
  <2> HIDE DEF K
  <2>3. n = 1 => Freed(queue, c, id, K)
    BY <2>1 DEF Freed
  <2>4. Awaited(queue, c, id) \subseteq Awaited(queue', c, id) \cup K
    BY <1>0, <2>3, AwaitedCarried DEF Hearing, Spared
  <2> QED
    BY <1>4, <2>2, <2>4 DEF Keeps, Same
<1>5. CASE board[id].seq \in Sought(up[c], id)
  BY <1>5 DEF Keeps, Same, Hearing, Still
<1> QED
  BY <1>1, <1>2, <1>3, <1>4, <1>5 DEF Keeps

LEMMA CalmOutlives ==
    ASSUME ClipboardAssumption, Typed, Home, NEW c \in connected, NEW n \in {0, 1}, Hearing(c, n),
           NEW id \in Ids, Spared(c, n, id), Same(id), Bearings(c, id)
    PROVE  Bearings(c, id)'
<1> DEFINE o == board[id].owner = c
           b == board[id].seq
<1>0. c \in Clients /\ down[c] \in Seq(Messages) /\ b \in Nat /\ seqNum \in Nat /\ b <= seqNum
  BY Numbers DEF Typed, TypeOK, Boards, Home
<1>1. Outlives(here[c], seq[c], down[c], id, b, o)
  BY DEF Bearings
<1>2. Keeps(c, id)'
  BY CalmKeeps DEF Bearings
<1>3. (Outlives(here[c], seq[c], down[c], id, board[id].seq, board[id].owner = c))' <=>
        Outlives(here[c], seq[c], down'[c], id, b, o)
  BY DEF Hearing, Spared, Still, Same
<1> HIDE DEF o, b
<1>4. Outlives(here[c], seq[c], down'[c], id, b, o)
  <2>1. CASE down'[c] = down[c]
    BY <1>1, <2>1
  <2>2. ASSUME NEW x \in Messages, down'[c] = Append(down[c], x), x.type = "enter" => Fresh(c, x.seq)
        PROVE  Outlives(here[c], seq[c], down'[c], id, b, o)
    <3>1. x.type = "enter" => b <= x.seq
      BY <1>0, <2>2 DEF Fresh
    <3> QED
      BY <1>0, <1>1, <2>2, <3>1, OutlivesGrown
  <2> QED
    BY <2>1, <2>2 DEF Hearing, Spared, Learns
<1> QED
  BY <1>2, <1>3, <1>4 DEF Bearings

-----------------------------------------------------------------------------
(* Steps that clients only hear of *)

Settled(c) == Course(c)' /\ \A id \in Ids : Fits(c, id)' /\ Bearings(c, id)'
Preserved ==
    /\ ~unexpected' /\ Home' /\ Steady
    /\ \A c \in Clients \ connected' : Absent(c)'
    /\ \A c \in connected' : Settled(c)

LEMMA InvStays ==
    ASSUME ClipboardAssumption, IInv, Typed', Preserved
    PROVE  IInv'
<1>1. Typed /\ Sitting /\ Considerate
  BY DEF IInv
<1>2. ASSUME NEW c \in connected' PROVE Marked(c)' /\ \A d \in connected' : c # d => Apart(c, d)'
  BY <1>1, <1>2, MarksStay DEF Preserved
<1>3. ASSUME NEW c \in connected' PROVE Course(c)' /\ \A id \in Ids : Fits(c, id)' /\ Bearings(c, id)'
  BY <1>3 DEF Preserved, Settled
<1>4. Sitting'
  BY <1>2, <1>3 DEF Sitting, Sound
<1>5. Considerate'
  BY <1>1 DEF Considerate
<1>6. ExpectedSender'
  BY DEF Preserved, ExpectedSender
<1> QED
  BY <1>3, <1>4, <1>5, <1>6 DEF IInv, Preserved

LEMMA CalmClient ==
    ASSUME ClipboardAssumption, IInv, Steady, NEW c \in connected, c \in connected',
           NEW n \in {0, 1}, Calm(c, n), \A id \in Ids : Same(id)
    PROVE  Settled(c)
<1>1. Typed /\ Home /\ Sitting /\ Sound(c)
  BY DEF IInv, Sitting
<1>2. Course(c)'
  BY <1>1, LearnsCourse DEF Calm, Hearing, Spared
<1>3. ASSUME NEW id \in Ids PROVE Fits(c, id)' /\ Bearings(c, id)'
  <2>1. Fits(c, id) /\ Bearings(c, id)
    BY DEF IInv
  <2> QED
    BY <1>1, <2>1, CalmFits, CalmOutlives DEF Calm
<1> QED
  BY <1>2, <1>3 DEF Settled

LEMMA CalmTraced ==
    ASSUME ClipboardAssumption, Typed, NEW c \in connected, NEW n \in {0, 1}, Calm(c, n)
    PROVE  Traced(c) /\ Timed(c)
  BY CarriedTraced, CountedTimed DEF Calm, Hearing, Spared

\* The whole step is one that clients only hear of.
LEMMA CalmStep ==
    ASSUME ClipboardAssumption, IInv, connected' = connected, seqNum' \in {seqNum, seqNum + 1},
           \A c \in connected : \E n \in {0, 1} : Calm(c, n), \A id \in Ids : Same(id)
    PROVE  Steady /\ \A c \in connected' : Settled(c)
<1>1. Typed
  BY DEF IInv
<1>2. ASSUME NEW c \in connected PROVE Traced(c) /\ Timed(c)
  BY <1>1, <1>2, CalmTraced
<1>3. Steady
  BY <1>2 DEF Steady
<1>4. ASSUME NEW c \in connected' PROVE Settled(c)
  <2>1. c \in connected
    BY <1>4
  <2>2. PICK n \in {0, 1} : Calm(c, n)
    BY <2>1
  <2> QED
    BY <1>3, <1>4, <2>1, <2>2, CalmClient
<1> QED
  BY <1>3, <1>4

\* What is new in the queue is of clients that are connected.
Connected(q, p) ==
    \A i \in 1..Len(p) : (\E k \in 1..Len(q) : p[i] = q[k]) \/ Whose(p[i]) \in connected

LEMMA HomeStays ==
    ASSUME Typed, Home, Connected(queue, queue'), active' = active, seqNum' = seqNum,
           primarySeq' = primarySeq, \A id \in Ids : board'[id].seq <= seqNum, ClipboardAssumption
    PROVE  Home'
<1>1. Primary \notin connected
  BY DEF Typed, TypeOK, ClipboardAssumption
<1>2. ASSUME NEW i \in 1..Len(queue'), Whose(queue'[i]) = Primary
      PROVE  /\ queue'[i].type = "grabbed" /\ ~queue'[i].gone
             /\ active = Primary /\ queue'[i].seq = seqNum
  BY <1>1, <1>2 DEF Connected, Home
<1>3. (\A i \in 1..Len(queue) : Whose(queue[i]) = Primary =>
         /\ queue[i].type = "grabbed" /\ ~queue[i].gone
         /\ active = Primary /\ queue[i].seq = seqNum)'
  BY <1>2 DEF Whose
<1> QED
  BY <1>3 DEF Home

LEMMA AbsentStays ==
    ASSUME Connected(queue, queue'), NEW c, c \notin connected, Absent(c),
           up'[c] = up[c], down'[c] = down[c]
    PROVE  Absent(c)'
<1>1. ASSUME NEW i \in 1..Len(queue'), Whose(queue'[i]) = c PROVE queue'[i].gone
  BY <1>1 DEF Connected, Absent
<1> QED
  BY <1>1 DEF Absent, Whose

LEMMA ConnectedMoved ==
    ASSUME NEW q \in Seq(Events), NEW p \in Seq(Events), NEW n \in {0, 1}, Moved(q, p, n),
           \A i \in 1..Len(p) : i + n > Len(q) => Whose(p[i]) \in connected
    PROVE  Connected(q, p)
<1> SUFFICES ASSUME NEW i \in 1..Len(p), ~(Whose(p[i]) \in connected)
             PROVE  \E k \in 1..Len(q) : p[i] = q[k]
  BY DEF Connected
<1>1. Len(q) \in Nat /\ n \in Nat /\ i + n <= Len(q)
  OBVIOUS
<1>2. p[i] = q[i + n] /\ i + n \in 1..Len(q)
  BY <1>1 DEF Moved
<1> QED
  BY <1>2

LEMMA SwitchPreserves ==
    ASSUME ClipboardAssumption, IInv, NEW dst, SwitchScreen(dst)
    PROVE  Preserved
<1>0. Typed /\ Home /\ ~unexpected
  BY DEF IInv, ExpectedSender
<1>1. Switched(dst)
  BY <1>0, SwitchScreenIs
<1>2. /\ dst \in connected \cup {Primary} /\ dst # active
      /\ \A i \in 1..Len(queue) : ~(queue[i].type = "grabbed" /\ queue[i].from = Primary)
      /\ seqNum' = seqNum + 1 /\ seqNum' \in Seqs /\ active' = dst
      /\ primarySeq' = IF dst = Primary THEN seqNum' ELSE primarySeq
      /\ queue' \in Seq(Events) /\ unexpected' = unexpected /\ connected' = connected /\ up' = up
      /\ here' = here /\ seq' = seq /\ mine' = mine /\ clientQueue' = clientQueue
  BY <1>1 DEF Switched, clientVars
<1>3. down' = [c \in Clients |->
                  IF c = active THEN Append(down[c], [type |-> "leave"])
                  ELSE IF c = dst THEN Append(down[c], [type |-> "enter", seq |-> seqNum'])
                  ELSE down[c]]
  BY <1>1 DEF Switched
<1>4. PICK results \in [Ids -> Results] :
         /\ Applied(results, queue, queue')
         /\ \A id \in Ids : board'[id] = results[id].board /\ Entered(board[id], dst, results[id])
  BY <1>1 DEF Switched
<1>5. /\ queue \in Seq(Events) /\ connected \subseteq Clients /\ active \in connected \cup {Primary}
      /\ seqNum \in Nat /\ Primary \notin Clients
  BY <1>0, Numbers DEF Typed, TypeOK, ClipboardAssumption
<1>6. ASSUME NEW id \in Ids PROVE Same(id)
  BY <1>4 DEF Entered, Same
<1>7. Moved(queue, queue', 0)
  BY <1>4 DEF Applied
<1>8. ASSUME NEW i \in 1..Len(queue'), i > Len(queue)
      PROVE  queue'[i].type = "send" /\ Whose(queue'[i]) \in connected
  <2>1. PICK id \in Ids : \E k \in 1..Len(results[id].to) :
           queue'[i] = SendOf(results[id].to[k], id, results[id].board.clip)
    BY <1>4, <1>8 DEF Applied
  <2>2. PICK k \in 1..Len(results[id].to) :
           queue'[i] = SendOf(results[id].to[k], id, results[id].board.clip)
    BY <2>1
  <2>3. results[id].to = <<>> \/ (results[id].to = <<dst>> /\ dst # Primary)
    BY <1>4 DEF Entered
  <2>4. results[id].to = <<dst>> /\ dst # Primary
    BY <2>3
  <2>5. results[id].to[k] = dst
    BY <2>4
  <2> QED
    BY <1>2, <2>2, <2>4, <2>5 DEF SendOf, Whose
<1>9. ASSUME NEW c \in connected PROVE Calm(c, 0)
  <2>1. Still(c) /\ c \in Clients
    BY <1>2, <1>5, <1>9 DEF Still
  <2>2. Carried(queue, queue', c, 0)
    BY <1>2, <1>5, <1>7, <1>8, CarriedMoved
  <2>3. Learns(c)
    <3>1. CASE c = active
      <4>1. [type |-> "leave"] \in Messages
        BY DEF Messages
      <4>2. down'[c] = Append(down[c], [type |-> "leave"])
        BY <1>3, <2>1, <3>1
      <4> QED
        BY <4>1, <4>2 DEF Learns
    <3>2. CASE c = dst /\ c # active
      <4> DEFINE x == [type |-> "enter", seq |-> seqNum']
      <4>1. x \in Messages
        BY <1>2 DEF Messages
      <4>2. down'[c] = Append(down[c], x)
        BY <1>3, <2>1, <3>2
      <4>3. x.type = "enter" /\ active # c /\ Fresh(c, x.seq)
        BY <1>2, <3>2 DEF Fresh
      <4> QED
        BY <4>1, <4>2, <4>3 DEF Learns
    <3>3. CASE c # dst /\ c # active
      <4>1. down'[c] = down[c]
        BY <1>3, <2>1, <3>3
      <4> QED
        BY <1>2, <3>3, <4>1 DEF Learns, Rests
    <3> QED
      BY <3>1, <3>2, <3>3
  <2>4. Counted(c)
    BY <1>2 DEF Counted
  <2> QED
    BY <2>1, <2>2, <2>3, <2>4 DEF Calm, Hearing, Spared
<1>10. Steady /\ \A c \in connected' : Settled(c)
  BY <1>2, <1>6, <1>9, CalmStep
<1>11. Connected(queue, queue')
  BY <1>2, <1>5, <1>7, <1>8, ConnectedMoved
<1>12. ASSUME NEW c \in Clients \ connected' PROVE Absent(c)'
  <2>1. c \notin connected /\ Absent(c) /\ c # active /\ c # dst
    BY <1>2, <1>5, <1>12 DEF IInv
  <2>2. down'[c] = down[c] /\ up'[c] = up[c]
    BY <1>2, <1>3, <1>12, <2>1
  <2> QED
    BY <1>11, <2>1, <2>2, AbsentStays
<1>13. Home'
  <2>1. ASSUME NEW i \in 1..Len(queue'), Whose(queue'[i]) = Primary PROVE FALSE
    <3>1. Whose(queue'[i]) \notin connected
      BY <1>5, <2>1
    <3>2. PICK k \in 1..Len(queue) : queue'[i] = queue[k]
      BY <1>11, <3>1 DEF Connected
    <3>3. Whose(queue[k]) = Primary /\ queue[k].type = "grabbed"
      BY <1>0, <2>1, <3>2 DEF Home
    <3> QED
      BY <1>2, <3>3 DEF Whose
  <2>2. ASSUME NEW id \in Ids PROVE board'[id].seq <= seqNum'
    <3>1. board'[id].seq = board[id].seq /\ board[id].seq \in Nat /\ board[id].seq <= seqNum
      BY <1>0, <1>6, Numbers DEF Same, Typed, TypeOK, Boards, Home
    <3> QED
      BY <1>2, <1>5, <3>1
  <2>3. active' = Primary => primarySeq' = seqNum'
    BY <1>2
  <2>4. (\A i \in 1..Len(queue) : ~(Whose(queue[i]) = Primary))'
    BY <2>1 DEF Whose
  <2> QED
    BY <2>2, <2>3, <2>4 DEF Home
<1> QED
  BY <1>0, <1>2, <1>10, <1>12, <1>13 DEF Preserved

-----------------------------------------------------------------------------
(* The server's handlers *)

\* The first event of the queue is handled; what the handler sends comes behind.
Handled == /\ queue # <<>> /\ queue' \in Seq(Events) /\ Moved(queue, queue', 1)
           /\ \A i \in 1..Len(queue') : i + 1 > Len(queue) =>
                queue'[i].type = "send" /\ Whose(queue'[i]) \in connected

LEMMA HandledTail ==
    ASSUME Typed, queue # <<>>, queue' = Tail(queue)
    PROVE  Handled
<1>1. queue \in Seq(Events)
  BY DEF Typed, TypeOK
<1>2. /\ Tail(queue) \in Seq(Events) /\ Moved(queue, Tail(queue), 1)
      /\ Len(Tail(queue)) = Len(queue) - 1 /\ Len(queue) \in Nat
  BY <1>1, MovedTail
<1> QED
  BY <1>2 DEF Handled

LEMMA HandledCarries ==
    ASSUME Typed, Handled
    PROVE  Connected(queue, queue') /\ \A c \in Clients : Carried(queue, queue', c, 1)
<1>1. queue \in Seq(Events)
  BY DEF Typed, TypeOK
<1>2. Connected(queue, queue')
  BY <1>1, ConnectedMoved DEF Handled
<1>3. ASSUME NEW c \in Clients PROVE Carried(queue, queue', c, 1)
  BY <1>1, CarriedMoved DEF Handled
<1> QED
  BY <1>2, <1>3

\* A handler that changes neither the owner nor the number of a clipboard.
LEMMA HandledPreserves ==
    ASSUME ClipboardAssumption, IInv, Handled, ~unexpected',
           UNCHANGED <<connected, active, seqNum, primarySeq, clientVars, up>>,
           \A id \in Ids : Same(id),
           \A c \in connected : down'[c] = down[c] \/
             \E x \in Messages : x.type \in {"grab", "clip"} /\ down'[c] = Append(down[c], x),
           \A c \in Clients \ connected : down'[c] = down[c],
           \A c \in connected : \A id \in Ids : Report("grabbed", queue, c, id, 1) =>
             queue[1].seq < board[id].seq
    PROVE  Preserved
<1>0. Typed /\ Home /\ connected \subseteq Clients
  BY DEF IInv, Typed, TypeOK
<1>1. Connected(queue, queue') /\ \A c \in Clients : Carried(queue, queue', c, 1)
  BY <1>0, HandledCarries
<1>2. ASSUME NEW c \in connected PROVE Calm(c, 1)
  <2>1. Still(c)
    BY DEF Still, clientVars
  <2>2. Rests(c) /\ Counted(c)
    BY DEF Rests, Counted
  <2>3. Learns(c)
    BY <1>2, <2>2 DEF Learns
  <2> QED
    BY <1>0, <1>1, <1>2, <2>1, <2>2, <2>3 DEF Calm, Hearing, Spared
<1>3. Steady /\ \A c \in connected' : Settled(c)
  <2>1. \A c \in connected : \E n \in {0, 1} : Calm(c, n)
    BY <1>2
  <2> QED
    BY <2>1, CalmStep
<1>4. ASSUME NEW c \in Clients \ connected' PROVE Absent(c)'
  <2>1. c \notin connected /\ Absent(c) /\ up'[c] = up[c] /\ down'[c] = down[c]
    BY <1>4 DEF IInv
  <2> QED
    BY <1>1, <2>1, AbsentStays
<1>5. Home'
  <2>1. \A id \in Ids : board'[id].seq <= seqNum
    BY <1>0 DEF Same, Home
  <2> QED
    BY <1>0, <1>1, <2>1, HomeStays
<1> QED
  BY <1>3, <1>4, <1>5 DEF Preserved

LEMMA FirstReport ==
    ASSUME Typed, NEW c, NEW id, NEW type, queue # <<>>, NEW e, e = Head(queue)
    PROVE  /\ Report(type, queue, c, id, 1) <=>
                e.type = type /\ e.from = c /\ e.id = id /\ ~e.gone
           /\ e = queue[1] /\ e \in Events
<1>1. queue \in Seq(Events)
  BY DEF Typed, TypeOK
<1>2. e = queue[1] /\ e \in Events /\ 1 \in 1..Len(queue)
  BY <1>1
<1> QED
  BY <1>2 DEF Report

LEMMA RefusedPreserves ==
    ASSUME ClipboardAssumption, IInv, NEW e, e = Head(queue), queue # <<>>, e.type = "grabbed",
           Refused(e), UNCHANGED <<connected, active, seqNum, primarySeq, clientVars, up, bookVars>>
    PROVE  Preserved
<1>0. Typed /\ ~unexpected
  BY DEF IInv, ExpectedSender
<1>1. queue' = Tail(queue) /\ board' = board /\ unexpected' = unexpected /\ down' = down /\ ~Accepts(e)
  BY DEF Refused
<1>2. Handled
  BY <1>0, <1>1, HandledTail
<1>3. ASSUME NEW c \in connected, NEW id \in Ids, Report("grabbed", queue, c, id, 1)
      PROVE  queue[1].seq < board[id].seq
  <2>1. e = queue[1] /\ e.from = c /\ e.id = id /\ ~e.gone /\ e \in Events
    BY <1>0, <1>3, FirstReport
  <2>2. ~(e.seq >= board[id].seq)
    BY <1>1, <1>3, <2>1 DEF Accepts
  <2>3. e.seq \in Nat /\ board[id].seq \in Nat
    BY <1>0, <2>1, GrabbedEvent, Numbers DEF Typed, TypeOK, Boards
  <2> QED
    BY <2>1, <2>2, <2>3
<1>4. \A id \in Ids : Same(id)
  BY <1>1 DEF Same
<1> QED
  BY <1>0, <1>1, <1>2, <1>3, <1>4, HandledPreserves

LEMMA ChangedPreserves ==
    ASSUME ClipboardAssumption, IInv, HandleClipboardChanged
    PROVE  Preserved
<1> DEFINE e == Head(queue)
<1>0. Typed /\ Home /\ ~unexpected /\ connected \subseteq Clients /\ queue \in Seq(Events)
      /\ active \in connected \cup {Primary} /\ Primary \notin Clients
  BY DEF IInv, Typed, TypeOK, ExpectedSender, ClipboardAssumption
<1>1. /\ queue # <<>> /\ e \in Events /\ e.type = "changed" /\ Changed(e) /\ unexpected' \in BOOLEAN
      /\ UNCHANGED <<connected, active, seqNum, primarySeq, clientVars, netVars, bookVars>>
  BY <1>0, HandleClipboardChangedIs
<1>e. \A c, id, type : /\ Report(type, queue, c, id, 1) <=>
                             e.type = type /\ e.from = c /\ e.id = id /\ ~e.gone
                       /\ e = queue[1]
  BY <1>0, <1>1, FirstReport
<1> HIDE DEF e
<1>2. /\ queue' \in Seq(Events) /\ \A id \in Ids : id # e.id => board'[id] = board[id]
  BY <1>1 DEF Changed
<1>3. PICK r \in Results :
         /\ IF ~e.gone /\ e.from \in connected
            THEN r = OnClipboardChanged(board[e.id], e.from, e.seq, active)
            ELSE r = Quietly(board[e.id])
         /\ board'[e.id] = r.board /\ unexpected' = (unexpected \/ r.unexpected)
         /\ Moved(Tail(queue), queue', 0)
         /\ \A n \in 1..Len(queue') : n > Len(Tail(queue)) =>
              \E i \in 1..Len(r.to) : queue'[n] = SendOf(r.to[i], e.id, r.board.clip)
  BY <1>1 DEF Changed
<1>4. e.id \in Ids /\ e.seq \in Seqs /\ e.from \in Screens /\ board[e.id] \in Boards
      /\ active \in Screens
  BY <1>0, <1>1, GrabbedEvent DEF Typed, TypeOK, Screens
<1>5. /\ r.board.owner = board[e.id].owner /\ r.board.seq = board[e.id].seq
      /\ ~r.unexpected /\ (r.to = <<>> \/ (active # Primary /\ r.to = <<active>>))
  <2>1. CASE ~e.gone /\ e.from \in connected
    <3>1. /\ r.board.owner = board[e.id].owner /\ r.board.seq = board[e.id].seq
          /\ r.unexpected <=> ~(e.seq < board[e.id].seq) /\ e.from # board[e.id].owner
          /\ Kept(board[e.id], r) \/ Taken(board[e.id], e.from, active, r)
      BY <1>0, <1>3, <1>4, <2>1, OnClipboardChangedIs
    <3>2. e.seq \in Claimed(e.from, e.id)
      <4>1. ReportsFit(queue, e.from, e.id, Claimed(e.from, e.id))
        BY <1>4, <2>1 DEF IInv, Fits
      <4>2. Report("changed", queue, e.from, e.id, 1) /\ e = queue[1]
        BY <1>1, <1>e, <2>1
      <4>3. ASSUME NEW j \in Nat, j < 1 PROVE ~Report("grabbed", queue, e.from, e.id, j)
        BY <4>3 DEF Report
      <4> QED
        BY <4>1, <4>2, <4>3 DEF ReportsFit
    <3>3. ~r.unexpected
      BY <3>1, <3>2 DEF Claimed
    <3>4. r.to = <<>> \/ (active # Primary /\ r.to = <<active>>)
      <4>1. CASE Kept(board[e.id], r)
        BY <4>1 DEF Kept
      <4>2. CASE Taken(board[e.id], e.from, active, r)
        BY <1>0, <4>2 DEF Taken
      <4> QED
        BY <3>1, <4>1, <4>2
    <3> QED
      BY <3>1, <3>3, <3>4
  <2>2. CASE ~(~e.gone /\ e.from \in connected)
    BY <1>3, <1>4, <2>2, QuietlyIs
  <2> QED
    BY <2>1, <2>2
<1>6. Handled
  <2>1. Tail(queue) \in Seq(Events) /\ Len(Tail(queue)) = Len(queue) - 1 /\ Len(queue) \in Nat
        /\ Len(queue') \in Nat /\ \A i \in 1..Len(Tail(queue)) : Tail(queue)[i] = queue[i + 1]
    BY <1>0, <1>1, <1>2, TailOfQueue
  <2>2. Moved(queue, queue', 1)
    BY <1>3, <2>1 DEF Moved
  <2>3. ASSUME NEW n \in 1..Len(queue'), n + 1 > Len(queue)
        PROVE  queue'[n].type = "send" /\ Whose(queue'[n]) \in connected
    <3>1. PICK i \in 1..Len(r.to) : queue'[n] = SendOf(r.to[i], e.id, r.board.clip)
      BY <1>3, <2>1, <2>3
    <3>2. active # Primary /\ r.to = <<active>>
      BY <1>5
    <3>3. r.to[i] = active /\ active \in connected
      BY <1>0, <3>2
    <3> QED
      BY <3>1, <3>3 DEF SendOf, Whose
  <2> QED
    BY <1>1, <1>2, <2>2, <2>3 DEF Handled
<1>7. ASSUME NEW id \in Ids PROVE Same(id)
  BY <1>2, <1>3, <1>5 DEF Same
<1>8. ~unexpected'
  BY <1>0, <1>3, <1>5
<1>9. \A c, id : ~Report("grabbed", queue, c, id, 1)
  BY <1>1, <1>e
<1> QED
  BY <1>1, <1>6, <1>7, <1>8, <1>9, HandledPreserves DEF netVars

LEMMA SendQueuedPreserves ==
    ASSUME ClipboardAssumption, IInv, SendQueued
    PROVE  Preserved
<1> DEFINE e == Head(queue)
<1>0. Typed /\ ~unexpected /\ connected \subseteq Clients /\ queue \in Seq(Events)
      /\ down \in [Clients -> Seq(Messages)] /\ 0 \in Seqs
  BY Numbers DEF IInv, Typed, TypeOK, ExpectedSender
<1>1. queue # <<>> /\ e.type = "send" /\ queue' = Tail(queue)
      /\ UNCHANGED <<connected, active, seqNum, board, primarySeq, unexpected, clientVars, up>>
  BY DEF SendQueued
<1>e. \A c, id, type : /\ Report(type, queue, c, id, 1) <=>
                             e.type = type /\ e.from = c /\ e.id = id /\ ~e.gone
                       /\ e = queue[1] /\ e \in Events
  BY <1>0, <1>1, FirstReport
<1>2. \/ down' = down
      \/ ~e.gone /\ down' = [down EXCEPT ![e.to] =
                       Append(@, [type |-> "clip", id |-> e.id, value |-> e.value, seq |-> 0])]
  BY DEF SendQueued
<1> HIDE DEF e
<1>3. Handled
  BY <1>0, <1>1, HandledTail
<1>4. e.to \in Clients /\ e.id \in Ids /\ e.value \in Copies
  BY <1>1, <1>e, SendEvent
<1>5. \A c, id : ~Report("grabbed", queue, c, id, 1)
  BY <1>1, <1>e
<1> DEFINE x == [type |-> "clip", id |-> e.id, value |-> e.value, seq |-> 0]
<1>6. x \in Messages /\ x.type = "clip"
  BY <1>0, <1>4 DEF Messages
<1>7. ~e.gone => e.to \in connected
  <2>1. ASSUME ~(e.to \in connected) PROVE e.gone
    <3>1. Absent(e.to)
      BY <1>4, <2>1 DEF IInv
    <3>2. 1 \in 1..Len(queue) /\ e = queue[1] /\ Whose(queue[1]) = e.to
      BY <1>0, <1>1, <1>e DEF Whose
    <3> QED
      BY <3>1, <3>2 DEF Absent
  <2> QED
    BY <2>1
<1>8. ASSUME NEW c \in connected
      PROVE  down'[c] = down[c] \/
               \E m \in Messages : m.type \in {"grab", "clip"} /\ down'[c] = Append(down[c], m)
  <2> HIDE DEF x
  <2>1. CASE down' = down
    BY <2>1
  <2>2. CASE down' = [down EXCEPT ![e.to] = Append(@, x)]
    <3>1. down'[c] = IF c = e.to THEN Append(down[c], x) ELSE down[c]
      BY <1>0, <1>8, <2>2
    <3> QED
      BY <1>6, <3>1
  <2> QED
    BY <1>2, <2>1, <2>2 DEF x
<1>9. ASSUME NEW c \in Clients \ connected PROVE down'[c] = down[c]
  BY <1>0, <1>2, <1>7, <1>9
<1>10. \A id \in Ids : Same(id)
  BY <1>1 DEF Same
<1> QED
  BY <1>0, <1>1, <1>3, <1>5, <1>8, <1>9, <1>10, HandledPreserves

LEMMA PrimaryPreserves ==
    ASSUME ClipboardAssumption, IInv, NEW id \in Ids, PrimaryCopies(id)
    PROVE  Preserved
<1> DEFINE x == [type |-> "grabbed", from |-> Primary, id |-> id, seq |-> primarySeq, gone |-> FALSE]
<1>0. Typed /\ Home /\ ~unexpected /\ connected \subseteq Clients /\ queue \in Seq(Events)
      /\ board \in [Ids -> Boards] /\ primarySeq \in Seqs /\ Primary \notin Clients /\ Background = {}
      /\ active \in Screens
  BY DEF IInv, Typed, TypeOK, ExpectedSender, ClipboardAssumption, Considerate, Screens
<1>1. /\ active = Primary /\ queue' \in {queue, Append(queue, x)}
      /\ UNCHANGED <<connected, active, seqNum, primarySeq, unexpected, clientVars, netVars>>
      /\ board' = [board EXCEPT ![id].shown = Len(made'), ![id].held = FALSE]
  BY <1>0 DEF PrimaryCopies
<1>2. x \in Events /\ Whose(x) = Primary
  BY <1>0 DEF Events, Screens, Whose
<1>3. ASSUME NEW i \in Ids PROVE Same(i)
  <2>1. board[i] \in Boards
    BY <1>0
  <2>2. CASE i = id
    BY <1>0, <1>1, <2>1, <2>2 DEF Same, Boards
  <2>3. CASE i # id
    BY <1>0, <1>1, <2>3 DEF Same
  <2> QED
    BY <2>2, <2>3
<1>4. x.from = Primary /\ x.type = "grabbed" /\ x.seq = primarySeq /\ ~x.gone
  OBVIOUS
<1> HIDE DEF x
<1>5. /\ queue' \in Seq(Events) /\ Moved(queue, queue', 0)
      /\ \A i \in 1..Len(queue') : i + 0 > Len(queue) => queue'[i] = x
  <2>1. CASE queue' = queue
    BY <1>0, <2>1 DEF Moved
  <2>2. CASE queue' = Append(queue, x)
    <3>1. /\ Append(queue, x) \in Seq(Events) /\ Moved(queue, Append(queue, x), 0)
          /\ Len(Append(queue, x)) = Len(queue) + 1 /\ Append(queue, x)[Len(queue) + 1] = x
          /\ Len(queue) \in Nat
      BY <1>0, <1>2, MovedAppend
    <3> QED
      BY <2>2, <3>1
  <2> QED
    BY <1>1, <2>1, <2>2
<1>6. ASSUME NEW c \in connected PROVE Calm(c, 0)
  <2>1. c \in Clients /\ c # Primary
    BY <1>0
  <2>2. Carried(queue, queue', c, 0)
    BY <1>0, <1>4, <1>5, <2>1, CarriedMoved
  <2>3. Still(c) /\ down'[c] = down[c] /\ Rests(c) /\ Counted(c)
    BY <1>1 DEF Still, clientVars, netVars, Rests, Counted
  <2> QED
    BY <2>2, <2>3 DEF Calm, Hearing, Spared, Learns
<1>7. Steady /\ \A c \in connected' : Settled(c)
  <2>1. \A c \in connected : \E n \in {0, 1} : Calm(c, n)
    BY <1>6
  <2> QED
    BY <1>1, <1>3, <2>1, CalmStep
<1>8. ASSUME NEW i \in 1..Len(queue') PROVE (\E k \in 1..Len(queue) : queue'[i] = queue[k]) \/ queue'[i] = x
  <2>1. CASE i > Len(queue)
    BY <1>5, <2>1
  <2>2. CASE ~(i > Len(queue))
    <3>1. i \in 1..Len(queue) /\ i + 0 = i /\ i + 0 <= Len(queue)
      BY <1>0, <1>5, <2>2
    <3> QED
      BY <1>5, <3>1 DEF Moved
  <2> QED
    BY <2>1, <2>2
<1>9. ASSUME NEW c \in Clients \ connected' PROVE Absent(c)'
  <2>1. Absent(c) /\ c # Primary /\ up'[c] = up[c] /\ down'[c] = down[c]
    BY <1>0, <1>1, <1>9 DEF IInv, netVars
  <2>2. ASSUME NEW i \in 1..Len(queue'), Whose(queue'[i]) = c PROVE queue'[i].gone
    BY <1>2, <1>8, <2>1, <2>2 DEF Absent
  <2> QED
    BY <2>1, <2>2 DEF Absent, Whose
<1>10. Home'
  <2>1. \A i \in Ids : board'[i].seq <= seqNum
    BY <1>0, <1>3 DEF Same, Home
  <2>2. primarySeq = seqNum
    BY <1>0, <1>1 DEF Home
  <2>3. ASSUME NEW i \in 1..Len(queue'), Whose(queue'[i]) = Primary
        PROVE  /\ queue'[i].type = "grabbed" /\ ~queue'[i].gone
               /\ active = Primary /\ queue'[i].seq = seqNum
    BY <1>0, <1>1, <1>4, <1>8, <2>2, <2>3 DEF Home
  <2>4. (\A i \in 1..Len(queue) : Whose(queue[i]) = Primary =>
           /\ queue[i].type = "grabbed" /\ ~queue[i].gone
           /\ active = Primary /\ queue[i].seq = seqNum)'
    BY <1>1, <2>3 DEF Whose
  <2> QED
    BY <1>1, <2>1, <2>2, <2>4 DEF Home
<1> QED
  BY <1>0, <1>1, <1>7, <1>9, <1>10 DEF Preserved

-----------------------------------------------------------------------------
(* Steps of a client and its connection *)

\* Nothing changes but for what client d has, is sent and sends, and has reported.
Local(d) ==
    /\ UNCHANGED <<connected, active, seqNum, primarySeq, unexpected>>
    /\ \A id \in Ids : Same(id)
    /\ \A c \in Clients \ {d} : Still(c) /\ down'[c] = down[c]
    /\ \/ queue' = queue
       \/ \E x \in Events : x.type \in Kinds /\ x.from = d /\ queue' = Append(queue, x)

LEMMA LocalPreserves ==
    ASSUME ClipboardAssumption, IInv, NEW d \in connected, Local(d), Traced(d),
           Steady => Settled(d)
    PROVE  Preserved
<1>0. Typed /\ Home /\ ~unexpected /\ connected \subseteq Clients /\ queue \in Seq(Events)
  BY DEF IInv, Typed, TypeOK, ExpectedSender
<1>1. UNCHANGED <<connected, active, seqNum, primarySeq, unexpected>> /\ \A id \in Ids : Same(id)
  BY DEF Local
<1>2. /\ queue' \in Seq(Events) /\ Moved(queue, queue', 0)
      /\ \A i \in 1..Len(queue') : i + 0 > Len(queue) => queue'[i].type \in Kinds /\ queue'[i].from = d
  <2>1. CASE queue' = queue
    BY <1>0, <2>1 DEF Moved
  <2>2. CASE \E x \in Events : x.type \in Kinds /\ x.from = d /\ queue' = Append(queue, x)
    <3>1. PICK x \in Events : x.type \in Kinds /\ x.from = d /\ queue' = Append(queue, x)
      BY <2>2
    <3>2. /\ Append(queue, x) \in Seq(Events) /\ Moved(queue, Append(queue, x), 0)
          /\ Len(Append(queue, x)) = Len(queue) + 1 /\ Append(queue, x)[Len(queue) + 1] = x
          /\ Len(queue) \in Nat
      BY <1>0, <3>1, MovedAppend
    <3>3. ASSUME NEW i \in 1..Len(queue'), i + 0 > Len(queue) PROVE queue'[i] = x
      BY <3>1, <3>2, <3>3
    <3> QED
      BY <3>1, <3>2, <3>3
  <2> QED
    BY <2>1, <2>2 DEF Local
<1>3. Connected(queue, queue')
  <2>1. ASSUME NEW i \in 1..Len(queue'), i + 0 > Len(queue) PROVE Whose(queue'[i]) \in connected
    BY <1>2, <2>1 DEF Whose, Kinds
  <2> QED
    BY <1>0, <1>2, <2>1, ConnectedMoved
<1>4. ASSUME NEW c \in connected, c # d PROVE Calm(c, 0)
  <2>1. c \in Clients /\ Still(c) /\ down'[c] = down[c]
    BY <1>0, <1>4 DEF Local
  <2>2. Carried(queue, queue', c, 0)
    BY <1>0, <1>2, <1>4, <2>1, CarriedMoved
  <2>3. Rests(c) /\ Counted(c)
    BY <1>1 DEF Rests, Counted
  <2> QED
    BY <2>1, <2>2, <2>3 DEF Calm, Hearing, Spared, Learns
<1>5. Steady
  <2>1. ASSUME NEW c \in connected' PROVE c \in connected /\ Traced(c) /\ Timed(c)
    <3>1. c \in connected
      BY <1>1, <2>1
    <3>2. CASE c = d
      <4>1. Counted(c)
        BY <1>1 DEF Counted
      <4> QED
        BY <1>0, <3>1, <3>2, <4>1, CountedTimed
    <3>3. CASE c # d
      BY <1>0, <1>4, <3>1, <3>3, CalmTraced
    <3> QED
      BY <3>1, <3>2, <3>3
  <2> QED
    BY <1>1, <2>1 DEF Steady
<1>6. ASSUME NEW c \in connected' PROVE Settled(c)
  <2>1. CASE c = d
    BY <1>5, <2>1
  <2>2. CASE c # d
    BY <1>1, <1>4, <1>5, <1>6, <2>2, CalmClient
  <2> QED
    BY <2>1, <2>2
<1>7. ASSUME NEW c \in Clients \ connected' PROVE Absent(c)'
  <2>1. c \notin connected /\ Absent(c) /\ c # d
    BY <1>1, <1>7 DEF IInv
  <2>2. up'[c] = up[c] /\ down'[c] = down[c]
    BY <1>7, <2>1 DEF Local, Still
  <2> QED
    BY <1>3, <2>1, <2>2, AbsentStays
<1>8. Home'
  <2>1. \A id \in Ids : board'[id].seq <= seqNum
    BY <1>0, <1>1 DEF Same, Home
  <2> QED
    BY <1>0, <1>1, <1>3, <2>1, HomeStays
<1> QED
  BY <1>0, <1>1, <1>5, <1>6, <1>7, <1>8 DEF Preserved

LEMMA LocalClaims ==
    ASSUME ClipboardAssumption, IInv, Steady, NEW d \in connected, Local(d), NEW id \in Ids
    PROVE  Claimed(d, id) \subseteq Claimed(d, id)'
<1>1. Typed /\ Sitting /\ d \in connected' /\ Same(id)
  BY DEF IInv, Local
<1> QED
  BY <1>1, ClaimsStay

\* A message of a client comes in.
LEMMA ReceivedIs ==
    ASSUME ClipboardAssumption, Typed, NEW d \in Clients, ReceiveFromClient(d)
    PROVE  \E x \in Events :
             /\ up[d] # <<>> /\ up' = [up EXCEPT ![d] = Tail(@)]
             /\ queue' = Append(queue, x)
             /\ x.type = IF up[d][1].type = "grab" THEN "grabbed" ELSE "changed"
             /\ up[d][1].type \in {"grab", "clip"}
             /\ x.from = d /\ x.id = up[d][1].id /\ x.seq = up[d][1].seq /\ ~x.gone
             /\ \A id \in Ids : Same(id)
             /\ UNCHANGED <<connected, active, seqNum, primarySeq, unexpected, clientVars, down, bookVars>>
<1> DEFINE m == up[d][1]
           type == IF m.type = "grab" THEN "grabbed" ELSE "changed"
           x == [type |-> type, from |-> d, id |-> m.id, seq |-> m.seq, gone |-> FALSE]
<1>0. up \in [Clients -> Seq(Messages)] /\ board \in [Ids -> Boards] /\ d \in Screens
  BY DEF Typed, TypeOK, Screens
<1>1. up[d] # <<>> /\ up' = [up EXCEPT ![d] = Tail(@)] /\ Head(up[d]) = m /\ m \in Messages
      /\ UNCHANGED <<connected, active, seqNum, primarySeq, unexpected, clientVars, down, bookVars>>
  BY <1>0 DEF ReceiveFromClient
<1>2. m.type \in {"grab", "clip"} /\ queue' = Append(queue, x)
      /\ (board' = board \/ board' = [board EXCEPT ![m.id].cached[d] = m.value])
  BY <1>1 DEF ReceiveFromClient
<1>3. x \in Events
  <2>1. m.id \in Ids /\ m.seq \in Seqs
    BY <1>1, <1>2, MessageIs
  <2> HIDE DEF m
  <2> QED
    BY <1>0, <2>1 DEF Events
<1>4. ASSUME NEW id \in Ids PROVE Same(id)
  <2>1. board[id] \in Boards
    BY <1>0
  <2> HIDE DEF m
  <2>2. CASE board' = board
    BY <2>2 DEF Same
  <2>3. CASE board' = [board EXCEPT ![m.id].cached[d] = m.value]
    <3>1. CASE id = m.id
      BY <1>0, <2>1, <2>3, <3>1 DEF Same, Boards
    <3>2. CASE id # m.id
      BY <1>0, <2>3, <3>2 DEF Same
    <3> QED
      BY <3>1, <3>2
  <2> QED
    BY <1>2, <2>2, <2>3
<1> QED
  BY <1>1, <1>2, <1>3, <1>4

LEMMA ReceivePreserves ==
    ASSUME ClipboardAssumption, IInv, NEW d \in Clients, ReceiveFromClient(d)
    PROVE  Preserved
<1>0. /\ Typed /\ Home /\ up \in [Clients -> Seq(Messages)] /\ queue \in Seq(Events)
      /\ seq \in [Clients -> Seqs]
  BY DEF IInv, Typed, TypeOK
<1>1. PICK x \in Events :
         /\ up[d] # <<>> /\ up' = [up EXCEPT ![d] = Tail(@)]
         /\ queue' = Append(queue, x)
         /\ x.type = IF up[d][1].type = "grab" THEN "grabbed" ELSE "changed"
         /\ up[d][1].type \in {"grab", "clip"}
         /\ x.from = d /\ x.id = up[d][1].id /\ x.seq = up[d][1].seq /\ ~x.gone
         /\ \A id \in Ids : Same(id)
         /\ UNCHANGED <<connected, active, seqNum, primarySeq, unexpected, clientVars, down, bookVars>>
  BY <1>0, ReceivedIs
<1>2. d \in connected
  BY <1>1 DEF IInv, Absent
<1>3. PICK u \in Seq(Messages) : u = up[d]
  BY <1>0
<1>4. PICK p : p = Tail(u)
  OBVIOUS
<1>5. PICK q \in Seq(Events) : q = queue
  BY <1>0
<1>6. PICK z : z = Append(q, x)
  OBVIOUS
<1>7. /\ u # <<>> /\ up'[d] = p /\ queue' = z /\ p \in Seq(Messages) /\ u[1] \in Messages
      /\ here'[d] = here[d] /\ seq'[d] = seq[d] /\ mine'[d] = mine[d]
      /\ clientQueue'[d] = clientQueue[d] /\ down'[d] = down[d]
      /\ x.type = (IF u[1].type = "grab" THEN "grabbed" ELSE "changed")
      /\ u[1].type \in {"grab", "clip"} /\ x.id = u[1].id /\ x.seq = u[1].seq
  BY <1>0, <1>1, <1>3, <1>4, <1>5, <1>6 DEF clientVars
<1>8. Local(d)
  <2>1. ASSUME NEW c \in Clients \ {d} PROVE Still(c) /\ down'[c] = down[c]
    BY <1>0, <1>1 DEF Still, clientVars
  <2>2. x.type \in Kinds /\ x.from = d /\ queue' = Append(queue, x)
    BY <1>1 DEF Kinds
  <2> QED
    BY <1>1, <2>1, <2>2 DEF Local
<1>u. \A type, id, n : Rising(type, p, id, n) => Rising(type, u, id, n)
  BY <1>4, <1>7, RisingNext
<1>f. Rising(u[1].type, u, u[1].id, u[1].seq)
  BY <1>7, RisingFirst
<1>q. ASSUME NEW type \in Kinds, NEW id, NEW n, Reporting(type, z, d, id, n)
      PROVE  Reporting(type, q, d, id, n) \/ (x.type = type /\ x.id = id /\ n = x.seq)
  <2>1. q \in Seq(Events) /\ x \in Events /\ z = Append(q, x)
    BY <1>1, <1>5, <1>6
  <2> QED
    BY <1>q, <2>1, ReportingOn
<1>9. Traced(d)
  <2>1. seq[d] \in Nat
    BY <1>0, Numbers
  <2>2. ASSUME NEW id \in Ids, NEW n \in Seqs, Grabbing(up'[d], queue', d, id, n)
        PROVE  Grabbing(up[d], queue, d, id, n)
    BY <1>3, <1>5, <1>7, <1>u, <1>f, <1>q, <2>2 DEF Grabbing, Kinds
  <2>3. ASSUME NEW id \in Ids, NEW n \in Seqs, Updating(clientQueue'[d], up'[d], queue', d, id, n)
        PROVE  Updating(clientQueue[d], up[d], queue, d, id, n)
    BY <1>3, <1>5, <1>7, <1>u, <1>f, <1>q, <2>3 DEF Updating, Kinds
  <2> QED
    BY <1>7, <2>1, <2>2, <2>3 DEF Traced
<1>10. ASSUME Steady PROVE Settled(d)
  <2>1. Course(d)'
    <3>1. Course(d)
      BY <1>2 DEF IInv, Sitting, Sound
    <3> QED
      BY <1>1, <1>7, <3>1 DEF Course
  <2>2. ASSUME NEW id \in Ids PROVE Fits(d, id)' /\ Bearings(d, id)'
    <3> DEFINE K == Claimed(d, id)
               L == Claimed(d, id)'
               A == Awaited(q, d, id)
               B == Awaited(z, d, id)
               S == Sought(u, id)
               T == Sought(p, id)
    <3>0. Fits(d, id) /\ Bearings(d, id) /\ K \subseteq L
      BY <1>2, <1>8, <1>10, LocalClaims DEF IInv
    <3>1. /\ ReportsFit(q, d, id, K) /\ UploadsFit(u, id, K \cup A)
          /\ PostsFit(clientQueue[d], id, seq[d], (K \cup A) \cup S)
          /\ mine[d][id].own /\ Sendable(mine[d][id]) =>
               here[d] /\ seq[d] # 0 /\ (seq[d] \in (K \cup A) \cup S \/ Asks(clientQueue[d], id))
      BY <1>3, <1>5, <3>0 DEF Fits, Heard, Told
    <3>2. Fits(d, id)' <=>
            /\ ReportsFit(z, d, id, L) /\ UploadsFit(p, id, L \cup B)
            /\ PostsFit(clientQueue[d], id, seq[d], (L \cup B) \cup T)
            /\ mine[d][id].own /\ Sendable(mine[d][id]) =>
                 here[d] /\ seq[d] # 0 /\ (seq[d] \in (L \cup B) \cup T \/ Asks(clientQueue[d], id))
      BY <1>7 DEF Fits, Heard, Told
    <3>3. Keeps(d, id) <=> (~mine[d][id].held =>
            \/ board[id].owner = d
            \/ \E i \in Nat : GrabAt(down[d], id, i)
            \/ Asks(clientQueue[d], id) /\ seq[d] >= board[id].seq
            \/ board[id].seq \in A \cup S)
      BY <1>3, <1>5 DEF Keeps
    <3>4. Keeps(d, id)' <=> (~mine[d][id].held =>
            \/ board[id].owner = d
            \/ \E i \in Nat : GrabAt(down[d], id, i)
            \/ Asks(clientQueue[d], id) /\ seq[d] >= board[id].seq
            \/ board[id].seq \in B \cup T)
      BY <1>1, <1>7 DEF Keeps, Same
    <3> HIDE DEF K, L
    <3>5. A \subseteq B
      BY <1>1, <1>5, <1>6, AwaitedOn
    <3>6. FirstGrab(u, id, B)
      <4>1. x.type = "grabbed" /\ x.from = d /\ x.id = id /\ ~x.gone =>
              \A t \in Seqs : t <= x.seq => t \in B
        BY <1>1, <1>5, <1>6, AwaitedOn
      <4> HIDE DEF B
      <4> QED
        BY <1>1, <1>7, <4>1 DEF FirstGrab
    <3>7. S \subseteq T \cup B
      BY <1>4, <1>7, <3>6, SoughtNext
    <3>8. x.type = "changed" /\ x.from = d /\ x.id = id => x.seq \in K \cup A
      <4> HIDE DEF A
      <4> QED
        BY <1>7, <3>1, ClipFirst
    <3>9. ReportsFit(z, d, id, K)
      BY <1>6, <3>1, <3>8, ReportsOn
    <3>10. ReportsFit(z, d, id, L)
      BY <3>0, <3>9 DEF ReportsFit
    <3>11. FirstGrab(u, id, L \cup B)
      BY <3>6 DEF FirstGrab
    <3>12. UploadsFit(p, id, L \cup B)
      <4> HIDE DEF A, B
      <4>1. K \cup A \subseteq L \cup B
        BY <3>0, <3>5
      <4> QED
        BY <1>4, <1>7, <3>1, <3>11, <4>1, UploadsNext
    <3> HIDE DEF A, B, S, T
    <3>13. (K \cup A) \cup S \subseteq (L \cup B) \cup T /\ A \cup S \subseteq B \cup T
      BY <3>0, <3>5, <3>7
    <3>14. PostsFit(clientQueue[d], id, seq[d], (L \cup B) \cup T)
      BY <3>1, <3>13, PostsWider
    <3>15. Fits(d, id)'
      BY <3>1, <3>2, <3>10, <3>12, <3>13, <3>14
    <3>16. Keeps(d, id)'
      BY <3>0, <3>3, <3>4, <3>13 DEF Bearings
    <3> QED
      BY <1>1, <1>7, <3>0, <3>15, <3>16 DEF Bearings, Same
  <2> QED
    BY <2>1, <2>2 DEF Settled
<1> QED
  BY <1>2, <1>8, <1>9, <1>10, LocalPreserves

\* Nothing is under way: a client that holds a clipboard's contents can claim them.
LEMMA QuietClaims ==
    ASSUME ClipboardAssumption, IInv, Quiet, NEW d \in connected, NEW id \in Ids,
           here[d], seq[d] # 0, ~mine[d][id].held
    PROVE  seq[d] \in Claimed(d, id)
<1>0. /\ d \in Clients /\ seq[d] \in Seqs /\ connected \subseteq Clients
      /\ queue = <<>> /\ \A c \in Clients : clientQueue[c] = <<>> /\ down[c] = <<>> /\ up[c] = <<>>
  BY DEF IInv, Typed, TypeOK, Quiet
<1>1. \A i : i \notin 1..Len(<<>>)
  OBVIOUS
<1>2. ASSUME NEW c \in connected
      PROVE  /\ \A i, k : ~Asked(clientQueue[c], k, i) /\ ~EnterAt(down[c], i) /\ ~LeaveAt(down[c], i)
                          /\ ~GrabAt(down[c], k, i)
             /\ \A i, k, type : ~Upward(type, up[c], k, i) /\ ~Report(type, queue, c, k, i)
  BY <1>0, <1>1, <1>2 DEF Asked, EnterAt, LeaveAt, GrabAt, Upward, Report
<1>3. board[id].owner = d
  <2>1. Keeps(d, id)
    BY DEF IInv, Bearings
  <2> QED
    BY <1>2, <2>1 DEF Keeps, Asks, Awaited, Sought, Reporting, Rising
<1>4. ASSUME NEW c \in connected, NEW i \in Nat, VisitAt(here[c], seq[c], down[c], i)
      PROVE  c = active
  <2>1. LastOn(here[c], seq[c], down[c], seqNum, active = c)
    BY <1>4 DEF IInv, Sitting, Sound, Course
  <2> QED
    BY <1>2, <1>4, <2>1 DEF LastOn
<1>5. d = active
  BY <1>4 DEF VisitAt
<1>6. Alone(d, id, seq[d])
  <2>1. ASSUME NEW c \in connected, c # d, NEW n \in Seqs, Threat(c, id, n) PROVE FALSE
    <3>1. Visiting(here[c], seq[c], down[c], n)
      BY <1>2, <2>1 DEF Threat, Asks, Reporting, Rising
    <3> QED
      BY <1>4, <1>5, <2>1, <3>1 DEF Visiting
  <2> QED
    BY <2>1 DEF Alone
<1>7. Timely(d, seq[d])
  BY <1>0 DEF IInv, Sitting, Sound, Marked, Mark
<1> QED
  BY <1>0, <1>3, <1>6, <1>7 DEF Claimed

LEMMA CopiesAre ==
    ASSUME ClipboardAssumption, Typed, Considerate, NEW d \in Clients, NEW id \in Ids, ClientCopies(d, id)
    PROVE  /\ d \in connected /\ here[d] /\ seq[d] # 0
           /\ \A c \in Clients \ {d} : mine'[c] = mine[c]
           /\ \A i \in Ids \ {id} : mine'[d][i] = mine[d][i]
           /\ \E x \in Requests : x.type = "grabbed" /\ x.id = id /\
                IF mine[d][id].held
                THEN clientQueue' = [clientQueue EXCEPT ![d] = Append(@, x)]
                ELSE Quiet /\ clientQueue' = clientQueue
           /\ UNCHANGED <<serverVars, here, seq, netVars>>
<1>0. Background = {} /\ "unreported" \notin Hasty /\ mine \in [Clients -> [Ids -> Clips]] /\ Primary \notin Clients
  BY DEF Considerate, Typed, TypeOK, ClipboardAssumption
<1>1. /\ d \in connected /\ here[d] /\ seq[d] # 0
      /\ mine' = [mine EXCEPT ![d][id].shown = Len(made'), ![d][id].held = FALSE]
      /\ UNCHANGED <<serverVars, here, seq, netVars>>
  BY <1>0 DEF ClientCopies
<1>2. Held(d, id) <=> mine[d][id].held
  BY <1>0 DEF Held
<1>3. Held(d, id) \/ Quiet
  BY <1>0 DEF ClientCopies, NewCopy
<1>4. clientQueue' = IF Held(d, id)
                     THEN [clientQueue EXCEPT ![d] = Append(@, [type |-> "grabbed", id |-> id])]
                     ELSE clientQueue
  BY DEF ClientCopies
<1>5. [type |-> "grabbed", id |-> id] \in Requests
  BY DEF Requests
<1>6. \E x \in Requests : x.type = "grabbed" /\ x.id = id /\
        IF mine[d][id].held
        THEN clientQueue' = [clientQueue EXCEPT ![d] = Append(@, x)]
        ELSE Quiet /\ clientQueue' = clientQueue
  BY <1>2, <1>3, <1>4, <1>5
<1>7. /\ \A c \in Clients \ {d} : mine'[c] = mine[c]
      /\ \A i \in Ids \ {id} : mine'[d][i] = mine[d][i]
  BY <1>0, <1>1
<1> QED
  BY <1>1, <1>6, <1>7

LEMMA CopiesPreserves ==
    ASSUME ClipboardAssumption, IInv, NEW d \in Clients, NEW id \in Ids, ClientCopies(d, id)
    PROVE  Preserved
<1>0. /\ Typed /\ Home /\ Considerate /\ clientQueue \in [Clients -> Seq(Requests)]
      /\ seq \in [Clients -> Seqs] /\ seq[d] \in Nat
  BY Numbers DEF IInv, Typed, TypeOK
<1>1. /\ d \in connected /\ here[d] /\ seq[d] # 0
      /\ \A c \in Clients \ {d} : mine'[c] = mine[c]
      /\ \A i \in Ids \ {id} : mine'[d][i] = mine[d][i]
      /\ UNCHANGED <<serverVars, here, seq, netVars>>
  BY <1>0, CopiesAre
<1>2. PICK x \in Requests : x.type = "grabbed" /\ x.id = id /\
         IF mine[d][id].held
         THEN clientQueue' = [clientQueue EXCEPT ![d] = Append(@, x)]
         ELSE Quiet /\ clientQueue' = clientQueue
  BY <1>0, CopiesAre
<1>3. UNCHANGED <<connected, active, seqNum, board, queue, primarySeq, unexpected, here, seq, down, up>>
  BY <1>1 DEF serverVars, netVars
<1>4. PICK r \in Seq(Requests) : r = clientQueue[d]
  BY <1>0
<1>5. PICK w : w = clientQueue'[d]
  OBVIOUS
<1>6. /\ w \in Seq(Requests) /\ Moved(r, w, 0)
      /\ \A i \in Nat : ~NewPost(r, 0, w, i)
      /\ mine[d][id].held => Asks(w, id)
  <2>1. CASE mine[d][id].held
    <3>1. w = Append(r, x)
      BY <1>0, <1>2, <1>4, <1>5, <2>1
    <3>2. /\ w \in Seq(Requests) /\ Moved(r, w, 0) /\ Len(w) = Len(r) + 1 /\ w[Len(r) + 1] = x
          /\ Len(r) \in Nat
      BY <1>2, <1>4, <3>1, MovedAppend
    <3>3. Asked(w, id, Len(r) + 1)
      BY <1>2, <3>2 DEF Asked
    <3>4. ASSUME NEW i \in Nat PROVE ~NewPost(r, 0, w, i)
      BY <1>2, <3>2 DEF NewPost
    <3> QED
      BY <3>2, <3>3, <3>4 DEF Asks
  <2>2. CASE ~mine[d][id].held
    <3>1. w = r
      BY <1>2, <1>4, <1>5, <2>2
    <3> QED
      BY <1>4, <2>2, <3>1 DEF Moved, NewPost
  <2> QED
    BY <2>1, <2>2
<1>7. Local(d)
  <2>1. ASSUME NEW c \in Clients \ {d} PROVE Still(c) /\ down'[c] = down[c]
    <3>1. clientQueue'[c] = clientQueue[c]
      BY <1>0, <1>2, <2>1
    <3> QED
      BY <1>1, <1>3, <2>1, <3>1 DEF Still
  <2> QED
    BY <1>3, <2>1 DEF Local, Same
<1>8. Traced(d)
  <2>1. ASSUME NEW i \in Ids, NEW n \in Seqs, Updating(clientQueue'[d], up'[d], queue', d, i, n)
        PROVE  Updating(clientQueue[d], up[d], queue, d, i, n)
    <3>1. Posting(w, i, n) => Posting(r, i, n)
      BY <1>4, <1>6, PostingMoved
    <3> QED
      BY <1>3, <1>4, <1>5, <2>1, <3>1 DEF Updating
  <2>2. seq'[d] = seq[d] /\ seq[d] <= seq'[d] /\ here'[d] = here[d] /\ down'[d] = down[d]
    BY <1>0, <1>3
  <2>3. ASSUME NEW i \in Ids, NEW n \in Seqs, Grabbing(up'[d], queue', d, i, n)
        PROVE  Grabbing(up[d], queue, d, i, n)
    BY <1>3, <2>3
  <2> QED
    BY <1>1, <2>1, <2>2, <2>3 DEF Traced
<1>9. ASSUME Steady PROVE Settled(d)
  <2>1. Course(d)'
    <3>1. Course(d)
      BY <1>1 DEF IInv, Sitting, Sound
    <3> QED
      BY <1>3, <3>1 DEF Course
  <2>2. ASSUME NEW i \in Ids PROVE Fits(d, i)' /\ Bearings(d, i)'
    <3> DEFINE K == Claimed(d, i)
               L == Claimed(d, i)'
               A == Awaited(queue, d, i)
               S == Sought(up[d], i)
    <3>0. Fits(d, i) /\ Bearings(d, i) /\ K \subseteq L
      BY <1>1, <1>7, <1>9, LocalClaims DEF IInv
    <3>1. /\ ReportsFit(queue, d, i, K) /\ UploadsFit(up[d], i, K \cup A)
          /\ PostsFit(r, i, seq[d], (K \cup A) \cup S)
          /\ mine[d][i].own /\ Sendable(mine[d][i]) =>
               here[d] /\ seq[d] # 0 /\ (seq[d] \in (K \cup A) \cup S \/ Asks(r, i))
      BY <1>4, <3>0 DEF Fits, Heard, Told
    <3>2. Fits(d, i)' <=>
            /\ ReportsFit(queue, d, i, L) /\ UploadsFit(up[d], i, L \cup A)
            /\ PostsFit(w, i, seq[d], (L \cup A) \cup S)
            /\ mine'[d][i].own /\ Sendable(mine'[d][i]) =>
                 here[d] /\ seq[d] # 0 /\ (seq[d] \in (L \cup A) \cup S \/ Asks(w, i))
      BY <1>3, <1>5 DEF Fits, Heard, Told, Sendable
    <3>3. Keeps(d, i) <=> (~mine[d][i].held =>
            \/ board[i].owner = d
            \/ \E j \in Nat : GrabAt(down[d], i, j)
            \/ Asks(r, i) /\ seq[d] >= board[i].seq
            \/ board[i].seq \in A \cup S)
      BY <1>4 DEF Keeps
    <3>4. Keeps(d, i)' <=> (~mine'[d][i].held =>
            \/ board[i].owner = d
            \/ \E j \in Nat : GrabAt(down[d], i, j)
            \/ Asks(w, i) /\ seq[d] >= board[i].seq
            \/ board[i].seq \in A \cup S)
      BY <1>3, <1>5 DEF Keeps
    <3>5. Outlives(here[d], seq[d], down[d], i, board[i].seq, board[i].owner = d)
      BY <3>0 DEF Bearings
    <3>6. ~mine[d][i].held /\ i = id => seq[d] \in K
      BY <1>0, <1>1, <1>2, QuietClaims
    <3> HIDE DEF K, L, A, S
    <3>7. Asks(r, i) => Asks(w, i)
      BY <1>4, <1>6, AsksMoved
    <3>8. ReportsFit(queue, d, i, L)
      BY <3>0, <3>1 DEF ReportsFit
    <3>9. UploadsFit(up[d], i, L \cup A)
      <4>1. K \cup A \subseteq L \cup A
        BY <3>0
      <4> QED
        BY <3>1, <4>1, UploadsWider
    <3>10. (K \cup A) \cup S \subseteq (L \cup A) \cup S
      BY <3>0
    <3>11. PostsFit(w, i, seq[d], (L \cup A) \cup S)
      <4>1. PICK M : M = (K \cup A) \cup S
        OBVIOUS
      <4>2. PICK N : N = (L \cup A) \cup S
        OBVIOUS
      <4>3. seq[d] \in Seqs /\ seq[d] <= seq[d] /\ M \subseteq N /\ PostsFit(r, i, seq[d], M)
        BY <1>0, <3>1, <3>10, <4>1, <4>2
      <4>4. PostsFit(w, i, seq[d], N)
        BY <1>4, <1>6, <4>3, PostsMoved
      <4> QED
        BY <4>2, <4>4
    <3>12. mine'[d][i].own /\ Sendable(mine'[d][i]) =>
             here[d] /\ seq[d] # 0 /\ (seq[d] \in (L \cup A) \cup S \/ Asks(w, i))
      <4>1. CASE i # id
        BY <1>1, <3>1, <3>7, <3>10, <4>1
      <4>2. CASE i = id
        BY <1>1, <1>6, <3>0, <3>6, <4>2
      <4> QED
        BY <4>1, <4>2
    <3>13. Fits(d, i)'
      BY <3>2, <3>8, <3>9, <3>11, <3>12
    <3>14. Keeps(d, i)'
      <4>1. CASE i # id
        BY <1>1, <3>0, <3>3, <3>4, <3>7, <4>1 DEF Bearings
      <4>2. CASE i = id /\ ~mine[d][i].held
        BY <3>0, <3>3, <3>4, <3>7, <4>2 DEF Bearings
      <4>3. CASE i = id /\ mine[d][i].held
        <5>1. Asks(w, i)
          BY <1>6, <4>3
        <5>2. board[i].seq \in Nat
          BY <1>0, Numbers DEF Typed, TypeOK, Boards
        <5>3. CASE seq[d] < board[i].seq
          <6>1. VisitAt(here[d], seq[d], down[d], 0) /\ NumberAt(seq[d], down[d], 0) = seq[d]
            BY <1>1 DEF VisitAt, NumberAt
          <6>2. board[i].owner = d \/ \E j \in Nat : \E k \in Nat : GrabAt(down[d], i, k)
            BY <3>5, <5>3, <6>1 DEF Outlives
          <6> QED
            BY <3>4, <6>2
        <5>4. CASE ~(seq[d] < board[i].seq)
          BY <1>0, <3>4, <5>1, <5>2, <5>4
        <5> QED
          BY <5>3, <5>4
      <4> QED
        BY <4>1, <4>2, <4>3
    <3> QED
      BY <1>3, <3>5, <3>13, <3>14 DEF Bearings
  <2> QED
    BY <2>1, <2>2 DEF Settled
<1> QED
  BY <1>1, <1>7, <1>8, <1>9, LocalPreserves

\* The first request of a client is handled: it becomes a message x, and the requests
\* w are left, with the contents that a grab is followed by.
Speaks(d, x, w) ==
    LET e == clientQueue[d][1]
    IN  /\ clientQueue[d] # <<>> /\ x \in Messages /\ x.id = e.id
        /\ IF e.type = "grabbed" THEN x.type = "grab" /\ x.seq = seq[d]
           ELSE x.type = "clip" /\ x.seq = e.seq
        /\ up' = [up EXCEPT ![d] = Append(@, x)]
        /\ w \in Seq(Requests) /\ Moved(clientQueue[d], w, 1)
        /\ clientQueue' = [clientQueue EXCEPT ![d] = w]
        /\ \A i \in Nat : NewPost(clientQueue[d], 1, w, i) =>
             e.type = "grabbed" /\ w[i].id = e.id /\ w[i].seq = seq[d]
        /\ \A i \in 1..Len(w) : i + 1 > Len(clientQueue[d]) => w[i].type # "grabbed"
        /\ \A c \in Clients \ {d} : mine'[c] = mine[c]
        /\ \A i \in Ids :
             /\ mine'[d][i].held = mine[d][i].held
             /\ IF e.type = "grabbed" /\ i = e.id
                THEN mine'[d][i].own /\ Sendable(mine'[d][i]) => here[d]
                ELSE mine'[d][i] = mine[d][i]
        /\ UNCHANGED <<connected, active, seqNum, board, queue, primarySeq, unexpected, here, seq, down>>

LEMMA SpeaksPreserves ==
    ASSUME ClipboardAssumption, IInv, NEW d \in connected, NEW x, NEW y, Speaks(d, x, y)
    PROVE  Preserved
<1>0. /\ Typed /\ Home /\ clientQueue \in [Clients -> Seq(Requests)] /\ d \in Clients
      /\ seq \in [Clients -> Seqs] /\ seq[d] \in Nat /\ up \in [Clients -> Seq(Messages)]
  BY Numbers DEF IInv, Typed, TypeOK
<1>1. UNCHANGED <<connected, active, seqNum, board, queue, primarySeq, unexpected, here, seq, down>>
  BY DEF Speaks
<1>2. PICK r \in Seq(Requests) : r = clientQueue[d]
  BY <1>0
<1>3. PICK w \in Seq(Requests) : w = y
  BY DEF Speaks
<1>4. PICK u \in Seq(Messages) : u = up[d]
  BY <1>0
<1>5. PICK p : p = Append(u, x)
  OBVIOUS
<1>6. /\ r # <<>> /\ x \in Messages /\ x.id = r[1].id
      /\ IF r[1].type = "grabbed" THEN x.type = "grab" /\ x.seq = seq[d]
         ELSE x.type = "clip" /\ x.seq = r[1].seq
      /\ Moved(r, w, 1) /\ r[1] \in Requests
      /\ \A i \in Nat : NewPost(r, 1, w, i) =>
           r[1].type = "grabbed" /\ w[i].id = r[1].id /\ w[i].seq = seq[d]
      /\ \A i \in 1..Len(w) : i + 1 > Len(r) => w[i].type # "grabbed"
      /\ \A i \in Ids :
           /\ mine'[d][i].held = mine[d][i].held
           /\ IF r[1].type = "grabbed" /\ i = r[1].id
              THEN mine'[d][i].own /\ Sendable(mine'[d][i]) => here[d]
              ELSE mine'[d][i] = mine[d][i]
  BY <1>2, <1>3 DEF Speaks
<1>7. up'[d] = p /\ clientQueue'[d] = w
  BY <1>0, <1>3, <1>4, <1>5 DEF Speaks
<1>8. Local(d)
  <2>1. ASSUME NEW c \in Clients \ {d} PROVE Still(c) /\ down'[c] = down[c]
    BY <1>0, <1>1, <2>1 DEF Still, Speaks
  <2> QED
    BY <1>1, <2>1 DEF Local, Same
<1>9. r[1].type = "send" => Posting(r, r[1].id, r[1].seq)
  BY <1>2, <1>6, PostFirst
<1>10. r[1].type = "grabbed" => Asks(r, r[1].id)
  BY <1>2, <1>6, AskFirst
<1>11. r[1].type \in {"grabbed", "send"}
  BY <1>6, RequestIs
<1>12. \A i : Asks(r, i) /\ ~(r[1].type = "grabbed" /\ r[1].id = i) => Asks(w, i)
  BY <1>2, <1>3, <1>6, AsksMoved
<1>13. \A i : Asks(w, i) => Asks(r, i)
  <2>1. \A i \in Nat : ~(i \in 1..Len(w) /\ i + 1 > Len(r) /\ w[i].type = "grabbed")
    BY <1>6
  <2> QED
    BY <1>2, <1>3, <1>6, <2>1, AsksMoved
<1>14. r[1].type = "grabbed" => seq[d] # 0
  <2>1. r[1].id \in Ids
    BY <1>6, RequestIs
  <2> QED
    BY <1>2, <1>10, <2>1 DEF IInv, Sitting, Sound, Marked
<1>15. Traced(d)
  <2>1. seq'[d] = seq[d] /\ seq[d] <= seq'[d] /\ here'[d] = here[d] /\ down'[d] = down[d]
    BY <1>0, <1>1
  <2>2. ASSUME NEW i \in Ids, NEW n \in Seqs, Grabbing(up'[d], queue', d, i, n)
        PROVE  Grabbing(up[d], queue, d, i, n) \/ (n = seq[d] /\ Asks(clientQueue[d], i))
    <3>1. Rising("grab", p, i, n) =>
            Rising("grab", u, i, n) \/ (x.type = "grab" /\ x.id = i /\ n = x.seq)
      BY <1>4, <1>5, <1>6, RisingOn
    <3> QED
      BY <1>1, <1>2, <1>4, <1>6, <1>7, <1>10, <2>2, <3>1 DEF Grabbing
  <2>3. ASSUME NEW i \in Ids, NEW n \in Seqs, Updating(clientQueue'[d], up'[d], queue', d, i, n)
        PROVE  Updating(clientQueue[d], up[d], queue, d, i, n) \/ (n = seq[d] /\ seq[d] # 0)
    <3>1. Rising("clip", p, i, n) =>
            Rising("clip", u, i, n) \/ (x.type = "clip" /\ x.id = i /\ n = x.seq)
      BY <1>4, <1>5, <1>6, RisingOn
    <3>2. Rising("clip", p, i, n) => Rising("clip", u, i, n) \/ Posting(r, i, n)
      BY <1>6, <1>9, <1>11, <3>1
    <3>3. Posting(w, i, n) => Posting(r, i, n) \/ (n = seq[d] /\ seq[d] # 0)
      BY <1>2, <1>3, <1>6, <1>14, PostingMoved
    <3> QED
      BY <1>1, <1>2, <1>4, <1>7, <2>3, <3>2, <3>3 DEF Updating
  <2>4. ASSUME NEW i \in Ids, Asks(clientQueue'[d], i) PROVE Asks(clientQueue[d], i)
    BY <1>2, <1>7, <1>13, <2>4
  <2> QED
    BY <2>1, <2>2, <2>3, <2>4 DEF Traced
<1>16. ASSUME Steady PROVE Settled(d)
  <2>1. Course(d)'
    <3>1. Course(d)
      BY DEF IInv, Sitting, Sound
    <3> QED
      BY <1>1, <3>1 DEF Course
  <2>2. ASSUME NEW i \in Ids PROVE Fits(d, i)' /\ Bearings(d, i)'
    <3> DEFINE K == Claimed(d, i)
               L == Claimed(d, i)'
               A == Awaited(queue, d, i)
               S == Sought(u, i)
               T == Sought(p, i)
    <3>0. Fits(d, i) /\ Bearings(d, i) /\ K \subseteq L
      BY <1>8, <1>16, LocalClaims DEF IInv
    <3>1. /\ ReportsFit(queue, d, i, K) /\ UploadsFit(u, i, K \cup A)
          /\ PostsFit(r, i, seq[d], (K \cup A) \cup S)
          /\ mine[d][i].own /\ Sendable(mine[d][i]) =>
               here[d] /\ seq[d] # 0 /\ (seq[d] \in (K \cup A) \cup S \/ Asks(r, i))
      BY <1>2, <1>4, <3>0 DEF Fits, Heard, Told
    <3>2. Fits(d, i)' <=>
            /\ ReportsFit(queue, d, i, L) /\ UploadsFit(p, i, L \cup A)
            /\ PostsFit(w, i, seq[d], (L \cup A) \cup T)
            /\ mine'[d][i].own /\ Sendable(mine'[d][i]) =>
                 here[d] /\ seq[d] # 0 /\ (seq[d] \in (L \cup A) \cup T \/ Asks(w, i))
      BY <1>1, <1>7 DEF Fits, Heard, Told, Sendable
    <3>3. Keeps(d, i) <=> (~mine[d][i].held =>
            \/ board[i].owner = d
            \/ \E j \in Nat : GrabAt(down[d], i, j)
            \/ Asks(r, i) /\ seq[d] >= board[i].seq
            \/ board[i].seq \in A \cup S)
      BY <1>2, <1>4 DEF Keeps
    <3>4. Keeps(d, i)' <=> (~mine'[d][i].held =>
            \/ board[i].owner = d
            \/ \E j \in Nat : GrabAt(down[d], i, j)
            \/ Asks(w, i) /\ seq[d] >= board[i].seq
            \/ board[i].seq \in A \cup T)
      BY <1>1, <1>7 DEF Keeps
    <3>5. S \subseteq T /\ (x.type = "grab" /\ x.id = i => \A t \in Seqs : t <= x.seq => t \in T)
      BY <1>4, <1>5, <1>6, SoughtOn
    <3>6. r[1].type = "send" /\ r[1].id = i => r[1].seq \in (K \cup A) \cup S
      <4>1. PICK M : M = (K \cup A) \cup S
        OBVIOUS
      <4>2. PostsFit(r, i, seq[d], M)
        BY <3>1, <4>1
      <4>3. r[1].type = "send" /\ r[1].id = i => r[1].seq \in M
        <5>1. ASSUME r[1].type = "send", r[1].id = i PROVE r[1].seq \in M
          <6>1. PostsFit(r, r[1].id, seq[d], M)
            BY <4>2, <5>1
          <6> QED
            BY <1>2, <1>6, <5>1, <6>1, PostFirst
        <5> QED
          BY <5>1
      <4> QED
        BY <4>1, <4>3
    <3>7. x.type = "clip" /\ x.id = i => x.seq \in (L \cup A) \cup S
      BY <1>6, <1>11, <3>0, <3>6
    <3>8. ReportsFit(queue, d, i, L)
      BY <3>0, <3>1 DEF ReportsFit
    <3>9. UploadsFit(p, i, L \cup A)
      <4>1. PICK M : M = K \cup A
        OBVIOUS
      <4>2. PICK N : N = L \cup A
        OBVIOUS
      <4>3. M \subseteq N /\ UploadsFit(u, i, M)
            /\ (x.type = "clip" /\ x.id = i => x.seq \in N \cup Sought(u, i))
        BY <3>0, <3>1, <3>7, <4>1, <4>2
      <4>4. UploadsFit(p, i, N)
        BY <1>4, <1>5, <1>6, <4>3, UploadsOn
      <4> QED
        BY <4>2, <4>4
    <3> HIDE DEF K, L, A, S, T
    <3>10. (K \cup A) \cup S \subseteq (L \cup A) \cup T
      BY <3>0, <3>5
    <3>11. r[1].type = "grabbed" /\ r[1].id = i => \A t \in Seqs : t <= seq[d] => t \in T
      BY <1>6, <3>5
    <3>12. PostsFit(w, i, seq[d], (L \cup A) \cup T)
      <4>1. PICK M : M = (K \cup A) \cup S
        OBVIOUS
      <4>2. PICK N : N = (L \cup A) \cup T
        OBVIOUS
      <4>3. seq[d] \in Seqs /\ seq[d] <= seq[d] /\ M \subseteq N /\ PostsFit(r, i, seq[d], M)
        BY <1>0, <3>1, <3>10, <4>1, <4>2
      <4>4. r[1].type = "grabbed" /\ r[1].id = i => \A t \in Seqs : t <= seq[d] => t \in N
        BY <3>11, <4>2
      <4>5. \A j \in Nat : NewPost(r, 1, w, j) /\ w[j].id = i => w[j].seq \in N
        BY <1>6, <4>3, <4>4
      <4>6. PostsFit(w, i, seq[d], N)
        BY <1>2, <1>3, <1>6, <4>3, <4>4, <4>5, PostsMoved
      <4> QED
        BY <4>2, <4>6
    <3>13. mine'[d][i].own /\ Sendable(mine'[d][i]) =>
             here[d] /\ seq[d] # 0 /\ (seq[d] \in (L \cup A) \cup T \/ Asks(w, i))
      <4>1. CASE r[1].type = "grabbed" /\ i = r[1].id
        BY <1>0, <1>6, <1>14, <3>11, <4>1
      <4>2. CASE ~(r[1].type = "grabbed" /\ i = r[1].id)
        BY <1>6, <1>12, <3>1, <3>10, <4>2
      <4> QED
        BY <4>1, <4>2
    <3>14. Fits(d, i)'
      BY <3>2, <3>8, <3>9, <3>12, <3>13 DEF L, A, T
    <3>15. Keeps(d, i)'
      <4>1. board[i].seq \in Seqs /\ board[i].seq \in Nat
        BY <1>0, Numbers DEF Typed, TypeOK, Boards
      <4>2. Asks(r, i) /\ seq[d] >= board[i].seq =>
              (Asks(w, i) /\ seq[d] >= board[i].seq) \/ board[i].seq \in T
        BY <1>0, <1>12, <3>11, <4>1
      <4>3. mine'[d][i].held = mine[d][i].held
        BY <1>6
      <4> QED
        BY <3>0, <3>3, <3>4, <3>5, <4>2, <4>3 DEF Bearings
    <3> QED
      BY <1>1, <3>0, <3>14, <3>15 DEF Bearings
  <2> QED
    BY <2>1, <2>2 DEF Settled
<1> QED
  BY <1>8, <1>15, <1>16, LocalPreserves

LEMMA GrabsPreserves ==
    ASSUME ClipboardAssumption, IInv, NEW d \in Clients, ClientGrabs(d)
    PROVE  Preserved
<1>0. /\ Typed /\ mine \in [Clients -> [Ids -> Clips]] /\ clientQueue \in [Clients -> Seq(Requests)]
      /\ seq[d] \in Seqs
  BY DEF IInv, Typed, TypeOK
<1>1. d \in connected /\ UNCHANGED <<serverVars, here, seq, down, bookVars>>
  BY <1>0, ClientGrabsIs
<1>2. PICK id \in Ids : Grabs(d, id)
  BY <1>0, ClientGrabsIs
<1>3. PICK m \in Clips :
         /\ mine' = [mine EXCEPT ![d][id] = m]
         /\ m.own /\ m.shown = mine[d][id].shown /\ m.held = mine[d][id].held
         /\ Sendable(m) => here[d]
  BY <1>2 DEF Grabs
<1>4. PICK w \in Seq(Requests) :
         /\ clientQueue' = [clientQueue EXCEPT ![d] = w] /\ Moved(clientQueue[d], w, 1)
         /\ \A i \in 1..Len(w) : i + 1 > Len(clientQueue[d]) =>
              w[i].type = "send" /\ w[i].id = id /\ w[i].seq = seq[d]
  BY <1>2 DEF Grabs
<1> DEFINE x == [type |-> "grab", id |-> id, seq |-> seq[d]]
<1>5. x \in Messages /\ x.type = "grab" /\ x.id = id /\ x.seq = seq[d]
  BY <1>0 DEF Messages
<1>6. clientQueue[d] # <<>> /\ clientQueue[d][1].type = "grabbed" /\ clientQueue[d][1].id = id
      /\ up' = [up EXCEPT ![d] = Append(@, x)]
  BY <1>2 DEF Grabs
<1> HIDE DEF x
<1>7. \A c \in Clients \ {d} : mine'[c] = mine[c]
  BY <1>0, <1>3
<1>8. ASSUME NEW i \in Ids
      PROVE  /\ mine'[d][i].held = mine[d][i].held
             /\ IF i = id THEN mine'[d][i].own /\ Sendable(mine'[d][i]) => here[d]
                ELSE mine'[d][i] = mine[d][i]
  BY <1>0, <1>3
<1>9. \A i \in Nat : NewPost(clientQueue[d], 1, w, i) => w[i].id = id /\ w[i].seq = seq[d]
  BY <1>4 DEF NewPost
<1>10. \A i \in 1..Len(w) : i + 1 > Len(clientQueue[d]) => w[i].type # "grabbed"
  BY <1>4
<1>11. Speaks(d, x, w)
  BY <1>1, <1>4, <1>5, <1>6, <1>7, <1>8, <1>9, <1>10 DEF Speaks, serverVars
<1> QED
  BY <1>1, <1>11, SpeaksPreserves

LEMMA SendsPreserves ==
    ASSUME ClipboardAssumption, IInv, NEW d \in Clients, ClientSends(d)
    PROVE  Preserved
<1> DEFINE e == Head(clientQueue[d])
           x == [type |-> "clip", id |-> e.id, value |-> e.value, seq |-> e.seq]
           w == Tail(clientQueue[d])
<1>0. clientQueue \in [Clients -> Seq(Requests)]
  BY DEF IInv, Typed, TypeOK
<1>1. /\ d \in connected /\ clientQueue[d] # <<>> /\ e.type = "send"
      /\ up' = [up EXCEPT ![d] = Append(@, x)] /\ clientQueue' = [clientQueue EXCEPT ![d] = w]
      /\ UNCHANGED <<serverVars, here, seq, mine, down, bookVars>>
  BY DEF ClientSends
<1>2. /\ w \in Seq(Requests) /\ Moved(clientQueue[d], w, 1) /\ Len(w) = Len(clientQueue[d]) - 1
      /\ e = clientQueue[d][1] /\ e \in Requests /\ Len(clientQueue[d]) \in Nat
  BY <1>0, <1>1, MovedTail
<1> HIDE DEF e
<1>3. e.id \in Ids /\ e.seq \in Seqs /\ e.value \in Copies
  BY <1>1, <1>2, RequestIs
<1>4. x \in Messages /\ x.type = "clip" /\ x.id = e.id /\ x.seq = e.seq
  BY <1>3 DEF Messages
<1> HIDE DEF x, w
<1>5. \A i \in 1..Len(w) : ~(i + 1 > Len(clientQueue[d]))
  BY <1>2
<1>6. \A i \in Nat : ~NewPost(clientQueue[d], 1, w, i)
  BY <1>5 DEF NewPost
<1>7. Speaks(d, x, w)
  BY <1>1, <1>2, <1>4, <1>5, <1>6 DEF Speaks, serverVars
<1> QED
  BY <1>1, <1>7, SpeaksPreserves

\* The first message to a client is handled; y is what it is going to do then.
Hears(d, y) ==
    LET m == down[d][1]
    IN  /\ down[d] # <<>> /\ down' = [down EXCEPT ![d] = Tail(@)]
        /\ seq'[d] \in Seqs /\ here'[d] \in BOOLEAN
        /\ NextVisit(here[d], seq[d], m, here'[d], seq'[d])
        /\ y \in Seq(Requests) /\ Moved(clientQueue[d], y, 0) /\ clientQueue'[d] = y
        /\ \A i \in Nat : NewPost(clientQueue[d], 0, y, i) =>
             y[i].seq = seq[d] /\ mine[d][y[i].id].own /\ Sendable(mine[d][y[i].id])
        /\ \A i \in 1..Len(y) : i + 0 > Len(clientQueue[d]) => y[i].type # "grabbed"
        /\ \A i \in Ids :
             /\ mine'[d][i].own /\ Sendable(mine'[d][i]) =>
                  mine[d][i].own /\ Sendable(mine[d][i]) /\ m.type # "leave"
             /\ IF m.type = "grab" /\ m.id = i THEN mine'[d][i].held
                ELSE mine[d][i].held => mine'[d][i].held
        /\ \A c \in Clients \ {d} : /\ here'[c] = here[c] /\ seq'[c] = seq[c]
                                    /\ mine'[c] = mine[c] /\ clientQueue'[c] = clientQueue[c]
        /\ UNCHANGED <<serverVars, up>>

LEMMA HearsPreserves ==
    ASSUME ClipboardAssumption, IInv, NEW d \in Clients, NEW y, Hears(d, y)
    PROVE  Preserved
<1>0. /\ Typed /\ Home /\ down \in [Clients -> Seq(Messages)] /\ clientQueue \in [Clients -> Seq(Requests)]
      /\ seq \in [Clients -> Seqs] /\ here \in [Clients -> BOOLEAN] /\ seq[d] \in Nat
  BY Numbers DEF IInv, Typed, TypeOK
<1>1. /\ UNCHANGED <<connected, active, seqNum, board, queue, primarySeq, unexpected, up>>
      /\ down[d] # <<>> /\ down' = [down EXCEPT ![d] = Tail(@)]
  BY DEF Hears, serverVars
<1>2. d \in connected
  BY <1>1 DEF IInv, Absent
<1>3. PICK w \in Seq(Messages) : w = down[d]
  BY <1>0
<1>4. PICK p : p = Tail(w)
  OBVIOUS
<1>5. PICK r \in Seq(Requests) : r = clientQueue[d]
  BY <1>0
<1>6. PICK v \in Seq(Requests) : v = y
  BY DEF Hears
<1>7. PICK s \in Seqs : s = seq[d]
  BY <1>0
<1>8. PICK z \in Seqs : z = seq'[d]
  BY DEF Hears
<1>9. PICK h \in BOOLEAN : h = here[d]
  BY <1>0
<1>10. PICK g \in BOOLEAN : g = here'[d]
  BY DEF Hears
<1>11. /\ w # <<>> /\ down'[d] = p /\ NextVisit(h, s, w[1], g, z)
       /\ Moved(r, v, 0) /\ clientQueue'[d] = v
       /\ \A i \in Nat : NewPost(r, 0, v, i) => v[i].seq = s /\ mine[d][v[i].id].own /\ Sendable(mine[d][v[i].id])
       /\ \A i \in 1..Len(v) : i + 0 > Len(r) => v[i].type # "grabbed"
       /\ \A i \in Ids :
            /\ mine'[d][i].own /\ Sendable(mine'[d][i]) =>
                 mine[d][i].own /\ Sendable(mine[d][i]) /\ w[1].type # "leave"
            /\ IF w[1].type = "grab" /\ w[1].id = i THEN mine'[d][i].held
               ELSE mine[d][i].held => mine'[d][i].held
  BY <1>0, <1>3, <1>4, <1>5, <1>6, <1>7, <1>8, <1>9, <1>10 DEF Hears
<1>12. Local(d)
  <2>1. ASSUME NEW c \in Clients \ {d} PROVE Still(c) /\ down'[c] = down[c]
    <3>1. down'[c] = down[c]
      BY <1>0, <1>1, <2>1
    <3> QED
      BY <1>1, <2>1, <3>1 DEF Still, Hears
  <2> QED
    BY <1>1, <2>1 DEF Local, Same
<1>n. /\ ClipboardAssumption /\ w \in Seq(Messages) /\ w # <<>> /\ p = Tail(w)
      /\ h \in BOOLEAN /\ g \in BOOLEAN /\ s \in Seqs /\ z \in Seqs /\ NextVisit(h, s, w[1], g, z)
  BY <1>3, <1>4, <1>7, <1>8, <1>9, <1>10, <1>11
<1>13. Ordered(s, w) /\ Ended(h, s, w) /\ LastOn(h, s, w, seqNum, active = d)
  BY <1>2, <1>3, <1>7, <1>9 DEF IInv, Sitting, Sound, Course
<1>14. Ordered(z, p) /\ s <= z
  BY <1>3, <1>4, <1>7, <1>8, <1>11, <1>13, OrderedNext
<1>15. \A i : Asks(r, i) <=> Asks(v, i)
  <2>1. \A i \in Nat : ~(i \in 1..Len(v) /\ i + 0 > Len(r) /\ v[i].type = "grabbed")
    BY <1>11
  <2> QED
    BY <1>5, <1>6, <1>11, <2>1, AsksMoved
<1>16. ASSUME NEW i \in Ids, mine[d][i].own, Sendable(mine[d][i])
       PROVE  h /\ s # 0 /\ (s \in Told(d, i) \/ Asks(r, i))
  BY <1>2, <1>5, <1>7, <1>9, <1>16 DEF IInv, Fits
<1>17. Traced(d)
  <2>1. z = s \/ Visiting(h, s, w, z)
    BY <1>3, <1>11, NumberNext
  <2>2. ASSUME NEW n \in Seqs, Visiting(g, z, p, n) PROVE Visiting(h, s, w, n)
    BY <1>n, <2>2, VisitingNext
  <2>3. ASSUME NEW i \in Ids, NEW n \in Seqs, Updating(clientQueue'[d], up'[d], queue', d, i, n)
        PROVE  Updating(clientQueue[d], up[d], queue, d, i, n) \/ (n = seq[d] /\ seq[d] # 0)
    <3>1. Posting(v, i, n) => Posting(r, i, n) \/ \E j \in Nat : NewPost(r, 0, v, j) /\ v[j].id = i /\ v[j].seq = n
      BY <1>5, <1>6, <1>11, PostingMoved
    <3>2. Posting(v, i, n) => Posting(r, i, n) \/ (n = s /\ s # 0)
      BY <1>11, <1>16, <3>1
    <3> QED
      BY <1>1, <1>5, <1>7, <1>11, <2>3, <3>2 DEF Updating
  <2>4. ASSUME NEW i \in Ids, NEW n \in Seqs, Grabbing(up'[d], queue', d, i, n)
        PROVE  Grabbing(up[d], queue, d, i, n)
    BY <1>1, <2>4
  <2>5. ASSUME NEW i \in Ids, Asks(clientQueue'[d], i) PROVE Asks(clientQueue[d], i)
    BY <1>5, <1>11, <1>15, <2>5
  <2> QED
    BY <1>3, <1>7, <1>8, <1>9, <1>10, <1>11, <1>14, <2>1, <2>2, <2>3, <2>4, <2>5 DEF Traced
<1>18. ASSUME Steady PROVE Settled(d)
  <2>1. Course(d)'
    <3>1. Ended(g, z, p)
      BY <1>n, <1>13, EndedNext
    <3>2. PICK a : a = (active = d)
      OBVIOUS
    <3>3. LastOn(g, z, p, seqNum, a)
      BY <1>n, <1>13, <3>2, LastOnNext
    <3> QED
      BY <1>1, <1>8, <1>10, <1>11, <1>14, <3>1, <3>2, <3>3 DEF Course
  <2>2. ASSUME NEW i \in Ids PROVE Fits(d, i)' /\ Bearings(d, i)'
    <3> DEFINE K == Claimed(d, i)
               L == Claimed(d, i)'
               A == Awaited(queue, d, i)
               S == Sought(up[d], i)
    <3>0. Fits(d, i) /\ Bearings(d, i) /\ K \subseteq L
      BY <1>2, <1>12, <1>18, LocalClaims DEF IInv
    <3>1. /\ ReportsFit(queue, d, i, K) /\ UploadsFit(up[d], i, K \cup A)
          /\ PostsFit(r, i, s, (K \cup A) \cup S)
          /\ mine[d][i].own /\ Sendable(mine[d][i]) =>
               h /\ s # 0 /\ (s \in (K \cup A) \cup S \/ Asks(r, i))
      BY <1>5, <1>7, <1>9, <3>0 DEF Fits, Heard, Told
    <3>2. Fits(d, i)' <=>
            /\ ReportsFit(queue, d, i, L) /\ UploadsFit(up[d], i, L \cup A)
            /\ PostsFit(v, i, z, (L \cup A) \cup S)
            /\ mine'[d][i].own /\ Sendable(mine'[d][i]) =>
                 g /\ z # 0 /\ (z \in (L \cup A) \cup S \/ Asks(v, i))
      BY <1>1, <1>8, <1>10, <1>11 DEF Fits, Heard, Told, Sendable
    <3>3. Keeps(d, i) <=> (~mine[d][i].held =>
            \/ board[i].owner = d
            \/ \E j \in Nat : GrabAt(w, i, j)
            \/ Asks(r, i) /\ s >= board[i].seq
            \/ board[i].seq \in A \cup S)
      BY <1>3, <1>5, <1>7 DEF Keeps
    <3>4. Keeps(d, i)' <=> (~mine'[d][i].held =>
            \/ board[i].owner = d
            \/ \E j \in Nat : GrabAt(p, i, j)
            \/ Asks(v, i) /\ z >= board[i].seq
            \/ board[i].seq \in A \cup S)
      BY <1>1, <1>8, <1>11 DEF Keeps
    <3>5. Outlives(h, s, w, i, board[i].seq, board[i].owner = d)
      BY <1>3, <1>7, <1>9, <3>0 DEF Bearings
    <3> HIDE DEF K, L, A, S
    <3>8. ReportsFit(queue, d, i, L)
      BY <3>0, <3>1 DEF ReportsFit
    <3>9. UploadsFit(up[d], i, L \cup A)
      <4>1. K \cup A \subseteq L \cup A
        BY <3>0
      <4> QED
        BY <3>1, <4>1, UploadsWider
    <3>10. (K \cup A) \cup S \subseteq (L \cup A) \cup S
      BY <3>0
    <3>11. PostsFit(v, i, z, (L \cup A) \cup S)
      <4>1. PICK M : M = (K \cup A) \cup S
        OBVIOUS
      <4>2. PICK N : N = (L \cup A) \cup S
        OBVIOUS
      <4>3. M \subseteq N /\ PostsFit(r, i, s, M)
        BY <3>1, <3>10, <4>1, <4>2
      <4>4. ASSUME NEW j \in Nat, NewPost(r, 0, v, j), v[j].id = i
            PROVE  v[j].seq \in N \/ (v[j].seq = s /\ Asks(r, i))
        BY <1>11, <3>1, <4>1, <4>3, <4>4
      <4>5. PostsFit(v, i, z, N)
        BY <1>5, <1>6, <1>7, <1>8, <1>11, <1>14, <4>3, <4>4, PostsMoved
      <4> QED
        BY <4>2, <4>5
    <3>12. mine'[d][i].own /\ Sendable(mine'[d][i]) =>
             g /\ z # 0 /\ (z \in (L \cup A) \cup S \/ Asks(v, i))
      <4> SUFFICES ASSUME mine'[d][i].own, Sendable(mine'[d][i])
                   PROVE  g /\ z # 0 /\ (z \in (L \cup A) \cup S \/ Asks(v, i))
        OBVIOUS
      <4>1. mine[d][i].own /\ Sendable(mine[d][i]) /\ w[1].type # "leave" /\ h /\ s # 0
        BY <1>11, <3>1
      <4>2. w[1].type # "enter"
        <5>1. ASSUME w[1].type = "enter" PROVE FALSE
          <6>1. VisitAt(h, s, w, 0) /\ EnterAt(w, 1)
            BY <1>3, <1>11, <4>1, <5>1 DEF VisitAt, EnterAt
          <6>2. PICK j \in Nat : 0 < j /\ j < 1
            BY <1>13, <6>1 DEF Ended
          <6> QED
            BY <6>2
        <5> QED
          BY <5>1
      <4>3. z = s /\ g = h
        BY <1>11, <4>1, <4>2 DEF NextVisit
      <4> QED
        BY <1>15, <3>1, <3>10, <4>1, <4>3
    <3>13. Fits(d, i)'
      BY <3>2, <3>8, <3>9, <3>11, <3>12
    <3>14. Keeps(d, i)'
      <4> SUFFICES ASSUME ~mine'[d][i].held PROVE Keeps(d, i)'
        BY <3>4
      <4>1. ~mine[d][i].held /\ ~(w[1].type = "grab" /\ w[1].id = i)
        BY <1>11
      <4>2. CASE \E j \in Nat : GrabAt(w, i, j)
        <5>1. PICK j \in Nat : GrabAt(w, i, j)
          BY <4>2
        <5>2. j - 1 \in Nat /\ GrabAt(p, i, j - 1)
          BY <1>3, <1>4, <1>11, <4>1, <5>1, GrabShrunk
        <5> QED
          BY <3>4, <5>2
      <4>3. CASE ~\E j \in Nat : GrabAt(w, i, j)
        <5>1. board[i].seq \in Nat /\ s \in Nat /\ z \in Nat
          BY <1>0, <1>7, <1>8, Numbers DEF Typed, TypeOK, Boards
        <5>2. s >= board[i].seq => z >= board[i].seq
          BY <1>14, <5>1
        <5> QED
          BY <1>15, <3>0, <3>3, <3>4, <4>1, <4>3, <5>2 DEF Bearings
      <4> QED
        BY <4>2, <4>3
    <3>15. Outlives(g, z, p, i, board[i].seq, board[i].owner = d)
      <4>1. PICK o : o = (board[i].owner = d)
        OBVIOUS
      <4>2. PICK n : n = board[i].seq
        OBVIOUS
      <4>3. Outlives(h, s, w, i, n, o)
        BY <3>5, <4>1, <4>2
      <4>4. Outlives(g, z, p, i, n, o)
        BY <1>n, <4>3, OutlivesNext
      <4> QED
        BY <4>1, <4>2, <4>4
    <3> QED
      BY <1>1, <1>8, <1>10, <1>11, <3>13, <3>14, <3>15 DEF Bearings
  <2> QED
    BY <2>1, <2>2 DEF Settled
<1> QED
  BY <1>2, <1>12, <1>17, <1>18, LocalPreserves

LEMMA ReceivesPreserves ==
    ASSUME ClipboardAssumption, IInv, NEW d \in Clients, ClientReceives(d)
    PROVE  Preserved
<1>0. /\ Typed /\ down \in [Clients -> Seq(Messages)] /\ clientQueue \in [Clients -> Seq(Requests)]
      /\ seq \in [Clients -> Seqs] /\ here \in [Clients -> BOOLEAN] /\ mine \in [Clients -> [Ids -> Clips]]
  BY DEF IInv, Typed, TypeOK
<1>1. PICK m : m = down[d][1]
  OBVIOUS
<1>2. /\ down[d] # <<>> /\ down' = [down EXCEPT ![d] = Tail(@)] /\ m \in Messages
      /\ Enters(d, m) \/ Leaves(d, m) \/ Overwrites(d, m)
      /\ UNCHANGED <<serverVars, up>>
  BY <1>0, <1>1, ClientReceivesIs
<1>3. PICK r \in Seq(Requests) : r = clientQueue[d]
  BY <1>0
<1>4. Moved(r, r, 0) /\ (\A i : ~NewPost(r, 0, r, i)) /\ \A i \in 1..Len(r) : ~(i + 0 > Len(r))
  BY <1>3 DEF Moved, NewPost
<1>5. CASE Enters(d, m)
  <2>1. /\ seq'[d] = m.seq /\ seq'[d] \in Seqs /\ here'[d] = TRUE /\ mine' = mine /\ clientQueue' = clientQueue
        /\ m.type = "enter" /\ \A c \in Clients \ {d} : here'[c] = here[c] /\ seq'[c] = seq[c]
    BY <1>0, <1>5 DEF Enters
  <2>2. NextVisit(here[d], seq[d], m, here'[d], seq'[d])
    BY <2>1 DEF NextVisit
  <2>3. Hears(d, r)
    BY <1>1, <1>2, <1>3, <1>4, <2>1, <2>2 DEF Hears, Sendable
  <2> QED
    BY <2>3, HearsPreserves
<1>6. CASE Leaves(d, m)
  <2>1. PICK f \in [Ids -> Clips] :
           /\ mine' = [mine EXCEPT ![d] = f]
           /\ \A id \in Ids :
                /\ f[id].own = mine[d][id].own /\ f[id].held = mine[d][id].held
                /\ f[id].shown = mine[d][id].shown
                /\ f[id].own => ~Sendable(f[id])
    BY <1>6 DEF Leaves
  <2>2. PICK w \in Seq(Requests) :
           /\ clientQueue' = [clientQueue EXCEPT ![d] = w] /\ Moved(clientQueue[d], w, 0)
           /\ \A i \in 1..Len(w) : i > Len(clientQueue[d]) =>
                /\ w[i] \in Requests /\ w[i].type = "send" /\ w[i].seq = seq[d]
                /\ mine[d][w[i].id].own /\ Sendable(mine[d][w[i].id])
    BY <1>6 DEF Leaves
  <2>3. /\ seq'[d] = seq[d] /\ seq[d] \in Seqs /\ here'[d] = FALSE /\ m.type = "leave"
        /\ \A c \in Clients \ {d} : here'[c] = here[c] /\ seq'[c] = seq[c]
    BY <1>0, <1>6 DEF Leaves
  <2>4. NextVisit(here[d], seq[d], m, here'[d], seq'[d])
    BY <2>3 DEF NextVisit
  <2>5. /\ mine'[d] = f /\ clientQueue'[d] = w
        /\ \A c \in Clients \ {d} : mine'[c] = mine[c] /\ clientQueue'[c] = clientQueue[c]
    BY <1>0, <2>1, <2>2
  <2>6. ASSUME NEW i \in Ids
        PROVE  /\ ~(mine'[d][i].own /\ Sendable(mine'[d][i]))
               /\ mine[d][i].held => mine'[d][i].held
    BY <2>1, <2>5
  <2>7. ASSUME NEW i \in 1..Len(w), i + 0 > Len(clientQueue[d])
        PROVE  /\ w[i].type # "grabbed" /\ w[i].seq = seq[d]
               /\ mine[d][w[i].id].own /\ Sendable(mine[d][w[i].id])
    <3>1. i > Len(clientQueue[d])
      BY <1>3, <2>7
    <3> QED
      BY <2>2, <3>1
  <2>8. Hears(d, w)
    BY <1>1, <1>2, <2>2, <2>3, <2>4, <2>5, <2>6, <2>7 DEF Hears, NewPost
  <2> QED
    BY <2>8, HearsPreserves
<1>7. CASE Overwrites(d, m)
  <2>1. PICK x \in Clips : mine' = [mine EXCEPT ![d][m.id] = x] /\ x.held /\ ~x.own
    BY <1>7 DEF Overwrites
  <2>2. /\ seq' = seq /\ here' = here /\ clientQueue' = clientQueue /\ m.type \in {"grab", "clip"}
        /\ seq[d] \in Seqs /\ here[d] \in BOOLEAN /\ m.id \in Ids
    BY <1>0, <1>7 DEF Overwrites
  <2>3. NextVisit(here[d], seq[d], m, here'[d], seq'[d])
    BY <2>2 DEF NextVisit
  <2>4. /\ \A c \in Clients \ {d} : mine'[c] = mine[c]
        /\ \A i \in Ids : mine'[d][i] = IF i = m.id THEN x ELSE mine[d][i]
    BY <1>0, <2>1
  <2>5. ASSUME NEW i \in Ids
        PROVE  /\ mine'[d][i].own /\ Sendable(mine'[d][i]) => mine[d][i].own /\ Sendable(mine[d][i])
               /\ mine[d][i].held \/ m.id = i => mine'[d][i].held
    BY <2>1, <2>4
  <2>6. Hears(d, r)
    BY <1>1, <1>2, <1>3, <1>4, <2>2, <2>3, <2>4, <2>5 DEF Hears
  <2> QED
    BY <2>6, HearsPreserves
<1> QED
  BY <1>2, <1>5, <1>6, <1>7

-----------------------------------------------------------------------------
(* Connections, and steps that concern no client that is connected *)

LEMMA IdlePreserves ==
    ASSUME ClipboardAssumption, IInv, \A c \in connected : clientQueue'[c] = clientQueue[c],
           UNCHANGED <<connected, active, seqNum, board, queue, primarySeq, unexpected,
                       here, seq, mine, down, up>>
    PROVE  Preserved
<1>0. Typed /\ Home /\ ~unexpected
  BY DEF IInv, ExpectedSender
<1>1. Connected(queue, queue')
  BY DEF Connected
<1>2. \A id \in Ids : Same(id)
  BY DEF Same
<1>3. ASSUME NEW c \in connected PROVE Calm(c, 0)
  <2>1. Carried(queue, queue', c, 0)
    BY CarriedSame
  <2> QED
    BY <1>3, <2>1 DEF Calm, Hearing, Spared, Still, Learns, Rests, Counted
<1>4. Steady /\ \A c \in connected' : Settled(c)
  <2>1. \A c \in connected : \E n \in {0, 1} : Calm(c, n)
    BY <1>3
  <2> QED
    BY <1>2, <2>1, CalmStep
<1>5. ASSUME NEW c \in Clients \ connected' PROVE Absent(c)'
  BY <1>1, <1>5, AbsentStays DEF IInv
<1>6. Home'
  <2>1. \A id \in Ids : board'[id].seq <= seqNum
    BY <1>0 DEF Home
  <2> QED
    BY <1>0, <1>1, <2>1, HomeStays
<1> QED
  BY <1>0, <1>4, <1>5, <1>6 DEF Preserved

LEMMA StalePreserves ==
    ASSUME ClipboardAssumption, IInv, NEW d \in Clients, ClientSendsStale(d)
    PROVE  Preserved
<1>1. clientQueue \in [Clients -> Seq(Requests)] /\ connected \subseteq Clients
  BY DEF IInv, Typed, TypeOK
<1>2. /\ d \notin connected /\ clientQueue' = [clientQueue EXCEPT ![d] = Tail(@)]
      /\ UNCHANGED <<connected, active, seqNum, board, queue, primarySeq, unexpected,
                     here, seq, mine, down, up>>
  BY DEF ClientSendsStale, serverVars, netVars
<1>3. \A c \in connected : clientQueue'[c] = clientQueue[c]
  BY <1>1, <1>2
<1> QED
  BY <1>2, <1>3, IdlePreserves

\* A client of which nothing is under way has no marks, and is in order.
LEMMA Newcomer ==
    ASSUME ClipboardAssumption, NEW d, seq'[d] = 0, down'[d] = <<>>, up'[d] = <<>>, clientQueue'[d] = <<>>,
           \A i \in 1..Len(queue') : Whose(queue'[i]) = d => queue'[i].gone,
           \A id \in Ids : mine'[d][id].held /\ ~mine'[d][id].own
    PROVE  Unmarked(d) /\ Settled(d)
<1>1. \A i : i \notin 1..Len(<<>>)
  OBVIOUS
<1>2. /\ \A i, k : ~Asked(clientQueue'[d], k, i) /\ ~Posted(clientQueue'[d], k, i)
                   /\ ~EnterAt(down'[d], i) /\ ~VisitAt(here'[d], seq'[d], down'[d], i)
      /\ \A i, k, type : ~Upward(type, up'[d], k, i)
  BY <1>1 DEF Asked, Posted, EnterAt, VisitAt, Upward
<1>3. \A i, k : ~Report("grabbed", queue', d, k, i) /\ ~Report("changed", queue', d, k, i)
  BY DEF Report, Whose
<1>4. Unmarked(d)
  <2>1. ASSUME NEW n PROVE ~Mark(d, n)'
    BY <1>2, <1>3 DEF Mark, Visiting, Posting, Rising, Reporting
  <2>2. ASSUME NEW n, NEW id PROVE ~Threat(d, id, n)'
    BY <1>2, <1>3 DEF Threat, Visiting, Asks, Rising, Reporting
  <2>3. ASSUME NEW id PROVE ~Asks(clientQueue'[d], id)
    BY <1>2 DEF Asks
  <2> QED
    BY <2>1, <2>2, <2>3 DEF Unmarked
<1>5. Course(d)'
  BY <1>2 DEF Course, Ordered, Ended, LastOn
<1>6. ASSUME NEW id \in Ids PROVE Fits(d, id)' /\ Bearings(d, id)'
  <2>1. Fits(d, id)'
    BY <1>2, <1>3, <1>6 DEF Fits, ReportsFit, UploadsFit, PostsFit
  <2>2. Bearings(d, id)'
    BY <1>2, <1>6 DEF Bearings, Keeps, Outlives
  <2> QED
    BY <2>1, <2>2
<1> QED
  BY <1>4, <1>5, <1>6 DEF Settled

LEMMA JoinPreserves ==
    ASSUME ClipboardAssumption, IInv, NEW d \in Clients, Join(d)
    PROVE  Preserved
<1>0. /\ Typed /\ Home /\ ~unexpected /\ seq \in [Clients -> Seqs] /\ mine \in [Clients -> [Ids -> Clips]]
      /\ board \in [Ids -> Boards] /\ Absent(d) /\ connected \subseteq Clients
  BY DEF IInv, Typed, TypeOK, ExpectedSender, Join
<1>1. /\ d \notin connected /\ connected' = connected \cup {d} /\ clientQueue[d] = <<>>
      /\ board' = [id \in Ids |-> [board[id] EXCEPT !.dirty[d] = TRUE, !.cached[d] = 0]]
      /\ seq' = [seq EXCEPT ![d] = 0]
      /\ mine' = [mine EXCEPT ![d] = [id \in Ids |-> Overwritten(@[id], 0)]]
      /\ UNCHANGED <<active, seqNum, queue, primarySeq, unexpected, here, clientQueue, down, up>>
  BY DEF Join, netVars
<1>2. ASSUME NEW id \in Ids PROVE Same(id)
  <2>1. board[id] \in Boards /\ board'[id] = [board[id] EXCEPT !.dirty[d] = TRUE, !.cached[d] = 0]
    BY <1>0, <1>1
  <2> QED
    BY <2>1 DEF Same, Boards
<1>3. ASSUME NEW c \in connected PROVE Calm(c, 0)
  <2>1. seq'[c] = seq[c] /\ mine'[c] = mine[c]
    BY <1>0, <1>1, <1>3
  <2>2. Carried(queue, queue', c, 0)
    BY <1>1, CarriedSame
  <2>3. Still(c) /\ down'[c] = down[c] /\ Rests(c) /\ Counted(c)
    BY <1>1, <2>1 DEF Still, Rests, Counted
  <2> QED
    BY <2>2, <2>3 DEF Calm, Hearing, Spared, Learns
<1>4. Unmarked(d) /\ Settled(d)
  <2>1. ASSUME NEW id \in Ids PROVE mine'[d][id].held /\ ~mine'[d][id].own
    <3>0. mine[d][id] \in Clips
      BY <1>0
    <3>1. mine'[d] = [i \in Ids |-> Overwritten(mine[d][i], 0)]
      BY <1>0, <1>1, Zenon
    <3>2. mine'[d][id] = Overwritten(mine[d][id], 0)
      BY <3>1
    <3> QED
      BY <3>0, <3>2 DEF Overwritten, Clips
  <2>2. seq'[d] = 0 /\ down'[d] = <<>> /\ up'[d] = <<>> /\ clientQueue'[d] = <<>>
    BY <1>0, <1>1 DEF Absent
  <2>3. \A i \in 1..Len(queue') : Whose(queue'[i]) = d => queue'[i].gone
    BY <1>0, <1>1 DEF Absent
  <2> QED
    BY <2>1, <2>2, <2>3, Newcomer
<1>5. Steady
  <2>1. ASSUME NEW c \in connected PROVE Traced(c) /\ Timed(c)
    BY <1>0, <1>3, <2>1, CalmTraced
  <2> QED
    BY <1>1, <1>4, <2>1 DEF Steady
<1>6. ASSUME NEW c \in connected' PROVE Settled(c)
  <2>1. CASE c = d
    BY <1>4, <2>1
  <2>2. CASE c # d
    BY <1>1, <1>2, <1>3, <1>5, <1>6, <2>2, CalmClient
  <2> QED
    BY <2>1, <2>2
<1>7. Connected(queue, queue')
  BY <1>1 DEF Connected
<1>8. ASSUME NEW c \in Clients \ connected' PROVE Absent(c)'
  BY <1>1, <1>7, <1>8, AbsentStays DEF IInv
<1>9. Home'
  <2>1. \A id \in Ids : board'[id].seq <= seqNum
    BY <1>0, <1>2 DEF Same, Home
  <2> QED
    BY <1>0, <1>1, <1>7, <2>1, HomeStays
<1> QED
  BY <1>0, <1>1, <1>5, <1>6, <1>8, <1>9 DEF Preserved

LEMMA OrphanWhose ==
    ASSUME NEW e \in Events, NEW d
    PROVE  LET o == Orphan(e, d)
           IN  /\ Whose(o) = Whose(e) /\ o.type = e.type /\ o.id = e.id
               /\ o.gone <=> e.gone \/ Whose(e) = d
               /\ e.type # "send" => o.from = e.from /\ o.seq = e.seq
  BY OrphanIs DEF Whose

LEMMA DepartPreserves ==
    ASSUME ClipboardAssumption, IInv, NEW d \in Clients, Depart(d)
    PROVE  Preserved
<1>0. /\ Typed /\ Home /\ ~unexpected /\ queue \in Seq(Events) /\ connected \subseteq Clients
      /\ down \in [Clients -> Seq(Messages)] /\ up \in [Clients -> Seq(Messages)]
      /\ active \in connected \cup {Primary} /\ Primary \notin Clients
  BY DEF IInv, Typed, TypeOK, ExpectedSender, ClipboardAssumption
<1>1. /\ d \in connected /\ connected' = connected \ {d}
      /\ queue' = [i \in DOMAIN queue |-> Orphan(queue[i], d)]
      /\ active' = (IF active = d THEN Primary ELSE active)
      /\ primarySeq' = (IF active = d THEN seqNum ELSE primarySeq)
      /\ down' = [down EXCEPT ![d] = <<>>] /\ up' = [up EXCEPT ![d] = <<>>]
      /\ UNCHANGED <<seqNum, board, unexpected, here, seq, mine, clientQueue>>
  BY DEF Depart, clientVars
<1>2. /\ 1..Len(queue') = 1..Len(queue)
      /\ \A i \in 1..Len(queue) : queue'[i] = Orphan(queue[i], d) /\ queue[i] \in Events
  BY <1>0, <1>1
<1>3. ASSUME NEW i \in 1..Len(queue)
      PROVE  /\ Whose(queue'[i]) = Whose(queue[i])
             /\ queue'[i].type = queue[i].type /\ queue'[i].id = queue[i].id
             /\ queue'[i].gone <=> queue[i].gone \/ Whose(queue[i]) = d
             /\ queue[i].type # "send" => queue'[i].from = queue[i].from /\ queue'[i].seq = queue[i].seq
  BY <1>2, <1>3, OrphanWhose
<1>4. \A id \in Ids : Same(id)
  BY <1>1 DEF Same
<1>5. ASSUME NEW c \in connected, c # d PROVE Calm(c, 0)
  <2>1. Still(c) /\ down'[c] = down[c]
    BY <1>0, <1>1, <1>5 DEF Still
  <2>2. ASSUME NEW type \in Kinds, NEW id, NEW i \in Nat
        PROVE  /\ Report(type, queue', c, id, i) <=> Report(type, queue, c, id, i)
               /\ Report(type, queue, c, id, i) => queue'[i].seq = queue[i].seq
    <3>1. CASE i \in 1..Len(queue) /\ queue[i].type = type
      <4>1. queue[i].type # "send" /\ Whose(queue[i]) = queue[i].from
        BY <2>2, <3>1 DEF Kinds, Whose
      <4>2. /\ queue'[i].type = type /\ queue'[i].id = queue[i].id /\ queue'[i].from = queue[i].from
            /\ queue'[i].seq = queue[i].seq /\ (queue'[i].gone <=> queue[i].gone \/ queue[i].from = d)
        BY <1>3, <3>1, <4>1
      <4> QED
        BY <1>2, <1>5, <3>1, <4>2 DEF Report
    <3>2. CASE ~(i \in 1..Len(queue) /\ queue[i].type = type)
      BY <1>2, <1>3, <3>2 DEF Report
    <3> QED
      BY <3>1, <3>2
  <2>3. Carried(queue, queue', c, 0)
    <3>1. ASSUME NEW type \in Kinds, NEW id \in Ids, NEW i \in Nat
          PROVE  /\ Report(type, queue', c, id, i) =>
                      Report(type, queue, c, id, i + 0) /\ queue'[i].seq = queue[i + 0].seq
                 /\ Report(type, queue, c, id, i + 0) /\ 0 < i =>
                      Report(type, queue', c, id, i) /\ queue'[i].seq = queue[i + 0].seq
      <4>1. i + 0 = i
        OBVIOUS
      <4> QED
        BY <2>2, <3>1, <4>1
    <3> QED
      BY <3>1 DEF Carried
  <2>4. Rests(c) /\ Counted(c)
    BY <1>0, <1>1, <1>5 DEF Rests, Counted
  <2> QED
    BY <2>1, <2>3, <2>4 DEF Calm, Hearing, Spared, Learns
<1>6. Steady
  <2>1. ASSUME NEW c \in connected' PROVE c \in connected /\ Traced(c) /\ Timed(c)
    BY <1>0, <1>1, <1>5, <2>1, CalmTraced
  <2> QED
    BY <1>1, <2>1 DEF Steady
<1>7. ASSUME NEW c \in connected' PROVE Settled(c)
  BY <1>1, <1>4, <1>5, <1>6, <1>7, CalmClient
<1>8. ASSUME NEW c \in Clients \ connected' PROVE Absent(c)'
  <2>1. up'[c] = <<>> /\ down'[c] = <<>>
    <3>1. CASE c = d
      BY <1>0, <1>1, <3>1
    <3>2. CASE c # d
      BY <1>0, <1>1, <1>8, <3>2 DEF IInv, Absent
    <3> QED
      BY <3>1, <3>2
  <2>2. ASSUME NEW i \in 1..Len(queue'), Whose(queue'[i]) = c PROVE queue'[i].gone
    <3>1. i \in 1..Len(queue) /\ Whose(queue[i]) = c
      BY <1>2, <1>3, <2>2
    <3>2. CASE c = d
      BY <1>3, <3>1, <3>2
    <3>3. CASE c # d
      BY <1>1, <1>3, <1>8, <3>1, <3>3 DEF IInv, Absent
    <3> QED
      BY <3>2, <3>3
  <2> QED
    BY <2>1, <2>2 DEF Absent, Whose
<1>9. Home'
  <2>1. ASSUME NEW i \in 1..Len(queue'), Whose(queue'[i]) = Primary
        PROVE  /\ queue'[i].type = "grabbed" /\ ~queue'[i].gone
               /\ active' = Primary /\ queue'[i].seq = seqNum
    <3>1. i \in 1..Len(queue) /\ Whose(queue[i]) = Primary
      BY <1>2, <1>3, <2>1
    <3>2. queue[i].type = "grabbed" /\ ~queue[i].gone /\ active = Primary /\ queue[i].seq = seqNum
      BY <1>0, <3>1 DEF Home
    <3>3. d # Primary /\ queue[i].type # "send"
      BY <1>0, <3>2
    <3> QED
      BY <1>1, <1>3, <3>1, <3>2, <3>3
  <2>2. (\A i \in 1..Len(queue) : Whose(queue[i]) = Primary =>
           /\ queue[i].type = "grabbed" /\ ~queue[i].gone
           /\ active = Primary /\ queue[i].seq = seqNum)'
    BY <1>1, <2>1 DEF Whose
  <2>3. active' = Primary => primarySeq' = seqNum'
    BY <1>0, <1>1 DEF Home
  <2> QED
    BY <1>0, <1>1, <2>2, <2>3 DEF Home
<1> QED
  BY <1>0, <1>1, <1>6, <1>7, <1>8, <1>9 DEF Preserved

-----------------------------------------------------------------------------
(* A grab is accepted *)

LEMMA ThreatMarked ==
    ASSUME Sitting, NEW d \in connected, NEW id \in Ids, NEW n \in Seqs, Threat(d, id, n)
    PROVE  Mark(d, n)
<1>1. n = seq[d] /\ Asks(clientQueue[d], id) => n # 0
  BY DEF Sitting, Sound, Marked
<1> QED
  BY <1>1 DEF Threat, Mark

\* The clipboard of e becomes that of its sender, with the number of e, which is not
\* smaller; a client sent it, or the primary while it is active.
Taking(e) ==
    /\ e.type = "grabbed" /\ ~e.gone /\ e.from \in connected \cup {Primary} /\ e.id \in Ids
    /\ queue # <<>> /\ queue' = Tail(queue) /\ unexpected' = unexpected
    /\ e = queue[1] /\ e.seq \in Seqs /\ board[e.id].seq <= e.seq /\ e.seq <= seqNum
    /\ IF e.from = Primary THEN active = Primary /\ e.seq = seqNum ELSE Mark(e.from, e.seq)
    /\ board'[e.id].owner = e.from /\ board'[e.id].seq = e.seq
    /\ \A id \in Ids : id # e.id => Same(id)
    /\ \A c \in Clients :
         IF c \in connected /\ c # e.from
         THEN \E x \in Messages : x.type = "grab" /\ x.id = e.id /\ down'[c] = Append(down[c], x)
         ELSE down'[c] = down[c]
    /\ UNCHANGED <<connected, active, seqNum, primarySeq, here, seq, mine, clientQueue, up>>

LEMMA GrabbedTakes ==
    ASSUME ClipboardAssumption, IInv, NEW e, e = Head(queue), queue # <<>>, e.type = "grabbed",
           Grabbed(e), UNCHANGED <<connected, active, seqNum, primarySeq, clientVars, up, bookVars>>
    PROVE  Taking(e)
<1>0. /\ Typed /\ Home /\ queue \in Seq(Events) /\ board \in [Ids -> Boards] /\ 0 \in Seqs
      /\ connected \subseteq Clients /\ Primary \notin Clients /\ seqNum \in Nat
  BY Numbers DEF IInv, Typed, TypeOK, ClipboardAssumption
<1>1. e = queue[1] /\ e \in Events /\ 1 \in 1..Len(queue)
  BY <1>0
<1>2. e.from \in Screens /\ e.id \in Ids /\ e.seq \in Seqs /\ e.seq \in Nat
  BY <1>1, GrabbedEvent, Numbers
<1>3. ~e.gone /\ e.from \in connected \cup {Primary} /\ (e.from = Primary \/ e.seq >= board[e.id].seq)
  BY DEF Grabbed, Accepts
<1>4. e.from = Primary => active = Primary /\ e.seq = seqNum
  <2>1. Whose(queue[1]) = e.from
    BY <1>1 DEF Whose
  <2> QED
    BY <1>0, <1>1, <2>1 DEF Home
<1>5. /\ unexpected' = unexpected /\ queue' = Tail(queue)
      /\ board' = [board EXCEPT ![e.id] = OnClipboardGrabbed(@, e.from, e.seq)]
  BY <1>4 DEF Grabbed
<1>6. board[e.id] \in Boards /\ board[e.id].seq \in Nat /\ board[e.id].seq <= seqNum
  BY <1>0, <1>2, Numbers DEF Boards, Home
<1>7. board[e.id].seq <= e.seq
  BY <1>2, <1>3, <1>4, <1>6
<1>8. IF e.from = Primary THEN active = Primary /\ e.seq = seqNum ELSE Mark(e.from, e.seq)
  <2>1. ASSUME e.from # Primary PROVE Mark(e.from, e.seq)
    <3>1. Reporting("grabbed", queue, e.from, e.id, e.seq)
      BY <1>1, <1>3 DEF Reporting, Report
    <3> QED
      BY <1>2, <3>1 DEF Mark
  <2> QED
    BY <1>4, <2>1
<1>9. e.seq <= seqNum
  <2>1. CASE e.from = Primary
    BY <1>0, <1>4, <2>1
  <2>2. CASE e.from # Primary
    BY <1>2, <1>3, <1>8, <2>2 DEF IInv, Sitting, Sound, Marked, Timely
  <2> QED
    BY <2>1, <2>2
<1>10. board'[e.id].owner = e.from /\ board'[e.id].seq = e.seq
  <2>1. PICK r : r = OnClipboardGrabbed(board[e.id], e.from, e.seq)
    OBVIOUS
  <2>2. r.owner = e.from /\ r.seq = e.seq
    BY <1>0, <1>2, <1>6, <2>1, OnClipboardGrabbedIs
  <2> QED
    BY <1>0, <1>2, <1>5, <2>1, <2>2
<1>11. ASSUME NEW id \in Ids, id # e.id PROVE Same(id)
  BY <1>0, <1>5, <1>11 DEF Same
<1>12. ASSUME NEW c \in Clients
       PROVE  IF c \in connected /\ c # e.from
              THEN \E x \in Messages : x.type = "grab" /\ x.id = e.id /\ down'[c] = Append(down[c], x)
              ELSE down'[c] = down[c]
  <2> DEFINE x == [type |-> "grab", id |-> e.id, seq |-> 0]
  <2>1. x \in Messages /\ x.type = "grab" /\ x.id = e.id
    BY <1>0, <1>2 DEF Messages
  <2>2. down'[c] = IF c \in connected \ {e.from} THEN Append(down[c], x) ELSE down[c]
    BY <1>12 DEF Grabbed
  <2> HIDE DEF x
  <2> QED
    BY <2>1, <2>2
<1> QED
  BY <1>1, <1>2, <1>3, <1>5, <1>7, <1>8, <1>9, <1>10, <1>11, <1>12 DEF Taking, clientVars

LEMMA TakingMoves ==
    ASSUME ClipboardAssumption, IInv, NEW e, Taking(e)
    PROVE  /\ Steady
           /\ \A c \in connected : Hearing(c, 1) /\ Course(c)'
<1>0. Typed /\ connected \subseteq Clients
  BY DEF IInv, Typed, TypeOK
<1>1. queue # <<>> /\ queue' = Tail(queue)
      /\ UNCHANGED <<connected, active, seqNum, here, seq, mine, clientQueue, up>>
  BY DEF Taking
<1>2. \A c \in Clients : Carried(queue, queue', c, 1)
  BY <1>0, <1>1, HandledTail, HandledCarries
<1>3. ASSUME NEW c \in connected PROVE Hearing(c, 1)
  <2>1. Still(c) /\ Rests(c) /\ Counted(c)
    BY <1>1 DEF Still, Rests, Counted
  <2>2. down'[c] = down[c] \/
          \E x \in Messages : x.type = "grab" /\ down'[c] = Append(down[c], x)
    BY <1>0 DEF Taking
  <2>3. Learns(c)
    BY <2>1, <2>2 DEF Learns
  <2> QED
    BY <1>0, <1>2, <2>1, <2>3 DEF Hearing
<1>4. ASSUME NEW c \in connected PROVE Traced(c) /\ Timed(c) /\ Course(c)'
  <2>1. Sound(c)
    BY DEF IInv, Sitting
  <2> QED
    BY <1>0, <1>3, <2>1, CarriedTraced, CountedTimed, LearnsCourse DEF Hearing
<1>5. Steady
  BY <1>1, <1>4 DEF Steady
<1> QED
  BY <1>3, <1>4, <1>5

\* The new owner can claim what is not newer than the grab, and keeps its claims.
LEMMA TakerClaims ==
    ASSUME ClipboardAssumption, IInv, NEW e, Taking(e), Steady, e.from \in connected
    PROVE  /\ \A t \in Seqs : t <= e.seq => t \in Claimed(e.from, e.id)'
           /\ Claimed(e.from, e.id) \subseteq Claimed(e.from, e.id)'
<1> DEFINE c == e.from
           id == e.id
           s == e.seq
<1>0. /\ Typed /\ Sitting /\ Primary \notin connected /\ connected' = connected /\ seqNum' = seqNum
      /\ active' = active /\ s \in Seqs /\ s \in Nat /\ seqNum \in Nat /\ id \in Ids
      /\ board[id].seq <= s /\ s <= seqNum /\ board'[id].owner = c /\ board'[id].seq = s
  BY Numbers DEF IInv, Typed, TypeOK, ClipboardAssumption, Taking
<1>1. Mark(c, s) /\ Timely(c, s)
  <2>1. Mark(c, s)
    BY <1>0 DEF Taking
  <2> QED
    BY <1>0, <2>1 DEF Sitting, Sound, Marked
<1>2. board[id].seq \in Nat
  BY <1>0, Numbers DEF Typed, TypeOK, Boards
<1> HIDE DEF c, id, s
<1>3. ASSUME NEW d \in connected', d # c, NEW n \in Seqs, Threat(d, id, n)'
      PROVE  /\ n \in Nat /\ n # s
             /\ (d \in connected /\ Threat(d, id, n)) \/ n > seqNum
  <2>1. d \in connected /\ (Threat(d, id, n) \/ n > seqNum)
    BY <1>0, <1>3, ThreatsStay
  <2>2. CASE n > seqNum
    BY <1>0, <2>1, <2>2, Numbers
  <2>3. CASE Threat(d, id, n)
    <3>1. Mark(d, n)
      BY <1>0, <1>3, <2>1, <2>3, ThreatMarked
    <3>2. n # s
      BY <1>0, <1>1, <1>3, <2>1, <3>1 DEF Sitting, Apart, c
    <3> QED
      BY <2>1, <2>3, <3>2, Numbers
  <2> QED
    BY <2>1, <2>2, <2>3
<1>4. ASSUME NEW t \in Seqs, Timely(c, t) PROVE Timely(c, t)' /\ t \in Nat /\ t <= seqNum
  BY <1>0, <1>4, Numbers DEF Timely
<1>5. ASSUME NEW t \in Seqs, t < s, Timely(c, t) PROVE t \in Claimed(c, id)'
  BY <1>0, <1>4, <1>5 DEF Claimed
<1>6. ASSUME NEW t \in Seqs, t <= s PROVE t \in Claimed(c, id)'
  <2>0. t \in Nat
    BY Numbers
  <2>1. CASE t < s
    BY <1>0, <1>5, <1>6, <2>0, <2>1 DEF Timely
  <2>2. CASE t = s
    <3>1. ASSUME NEW d \in connected', d # c, NEW n \in Seqs, Threat(d, id, n)'
          PROVE  n < board'[id].seq \/ n > s
      BY <1>0, <1>3, <3>1
    <3>2. Alone(c, id, s)'
      <4>1. s' = s
        BY DEF s
      <4> QED
        BY <3>1 DEF Alone, c, id, s
    <3>3. Timely(c, s)'
      BY <1>0, <1>1, <1>4
    <3> QED
      BY <1>0, <2>2, <3>2, <3>3 DEF Claimed
  <2> QED
    BY <1>0, <1>6, <2>0, <2>1, <2>2
<1>7. ASSUME NEW t \in Claimed(c, id) PROVE t \in Claimed(c, id)'
  <2>0. t \in Seqs /\ Timely(c, t) /\ t \in Nat /\ t <= seqNum /\ Timely(c, t)'
    BY <1>4 DEF Claimed
  <2>1. CASE t <= s
    BY <1>6, <2>0, <2>1
  <2>2. CASE t > s
    <3>1. Alone(c, id, t)
      BY <1>0, <1>2, <2>0, <2>2 DEF Claimed
    <3>2. ASSUME NEW d \in connected', d # c, NEW n \in Seqs, Threat(d, id, n)'
          PROVE  n < board'[id].seq \/ n > t
      <4>1. CASE n > seqNum
        BY <1>0, <1>3, <2>0, <3>2, <4>1
      <4>2. CASE Threat(d, id, n) /\ d \in connected
        <5>1. n < board[id].seq \/ n > t
          BY <3>1, <3>2, <4>2 DEF Alone
        <5> QED
          BY <1>0, <1>2, <1>3, <3>2, <5>1
      <4> QED
        BY <1>3, <3>2, <4>1, <4>2
    <3>3. Alone(c, id, t)'
      BY <3>2 DEF Alone
    <3> QED
      BY <1>0, <2>0, <3>3 DEF Claimed
  <2> QED
    BY <1>0, <2>0, <2>1, <2>2
<1> QED
  BY <1>6, <1>7 DEF c, id, s

\* The others lose none: what they could claim as the owner is out of date.
LEMMA OthersClaims ==
    ASSUME ClipboardAssumption, IInv, NEW e, Taking(e), Steady, NEW c \in connected, c # e.from
    PROVE  Claimed(c, e.id) \subseteq Claimed(c, e.id)'
<1> SUFFICES ASSUME NEW t \in Claimed(c, e.id) PROVE t \in Claimed(c, e.id)'
  OBVIOUS
<1>0. /\ Typed /\ connected \subseteq Clients /\ Primary \notin Clients /\ connected' = connected
      /\ seqNum' = seqNum /\ active' = active /\ e.seq \in Seqs /\ e.seq \in Nat /\ seqNum \in Nat
      /\ e.id \in Ids /\ board[e.id].seq <= e.seq /\ board'[e.id].seq = e.seq
  BY Numbers DEF IInv, Typed, TypeOK, ClipboardAssumption, Taking
<1>1. board[e.id].seq \in Nat /\ t \in Seqs /\ t \in Nat /\ Timely(c, t) /\ Timely(c, t)'
  BY <1>0, Numbers DEF Typed, TypeOK, Boards, Claimed, Timely
<1>2. t < e.seq
  <2>1. CASE t < board[e.id].seq
    BY <1>0, <1>1, <2>1
  <2>2. CASE ~(t < board[e.id].seq) /\ e.from = Primary
    <3>1. active # c /\ e.seq = seqNum
      BY <1>0, <2>2 DEF Taking
    <3> QED
      BY <1>0, <1>1, <3>1 DEF Timely
  <2>3. CASE ~(t < board[e.id].seq) /\ e.from # Primary
    <3>1. Alone(c, e.id, t) /\ e.from \in connected
      BY <2>3 DEF Claimed, Taking
    <3>2. Report("grabbed", queue, e.from, e.id, 1) /\ e.seq = queue[1].seq
      <4>1. queue \in Seq(Events)
        BY <1>0 DEF Typed, TypeOK
      <4> QED
        BY <4>1 DEF Taking, Report
    <3>3. Threat(e.from, e.id, e.seq)
      BY <3>2 DEF Threat, Reporting
    <3>4. e.seq < board[e.id].seq \/ e.seq > t
      BY <1>0, <3>1, <3>3 DEF Alone
    <3> QED
      BY <1>0, <1>1, <3>4
  <2> QED
    BY <2>1, <2>2, <2>3
<1> QED
  BY <1>0, <1>1, <1>2 DEF Claimed

LEMMA GrabbedPreserves ==
    ASSUME ClipboardAssumption, IInv, NEW e, Taking(e)
    PROVE  Preserved
<1>0. /\ Typed /\ Home /\ Sitting /\ ~unexpected /\ connected \subseteq Clients /\ queue \in Seq(Events)
      /\ Primary \notin Clients /\ down \in [Clients -> Seq(Messages)] /\ seqNum \in Nat
      /\ seq \in [Clients -> Seqs]
  BY Numbers DEF IInv, Typed, TypeOK, ExpectedSender, ClipboardAssumption
<1>1. Steady /\ \A c \in connected : Hearing(c, 1) /\ Course(c)'
  BY TakingMoves
<1>2. /\ e.id \in Ids /\ queue # <<>> /\ queue' = Tail(queue) /\ e = queue[1] /\ unexpected' = unexpected
      /\ e.seq \in Nat /\ e.seq <= seqNum /\ board'[e.id].owner = e.from /\ board'[e.id].seq = e.seq
      /\ \A id \in Ids : id # e.id => Same(id)
      /\ UNCHANGED <<connected, active, seqNum, primarySeq, here, seq, mine, clientQueue, up>>
  BY Numbers DEF Taking
<1>3. ASSUME NEW c \in connected, NEW id \in Ids PROVE Fits(c, id)' /\ Bearings(c, id)'
  <2>0. /\ Fits(c, id) /\ Bearings(c, id) /\ Hearing(c, 1) /\ c \in connected' /\ Still(c)
        /\ Carried(queue, queue', c, 1)
    BY <1>1, <1>2, <1>3 DEF IInv, Hearing
  <2>1. CASE id # e.id
    <3>1. ~Report("grabbed", queue, c, id, 1)
      BY <1>2, <2>1 DEF Report
    <3>2. Spared(c, 1, id) /\ Same(id)
      BY <1>2, <2>1, <3>1 DEF Spared
    <3> QED
      BY <1>0, <1>1, <2>0, <3>2, CalmFits, CalmOutlives
  <2>2. CASE id = e.id /\ c = e.from
    <3>1. /\ \A t \in Seqs : t <= e.seq => t \in Claimed(c, id)'
          /\ Claimed(c, id) \subseteq Claimed(c, id)'
      BY <1>1, <2>2, TakerClaims
    <3>2. Freed(queue, c, id, Claimed(c, id)')
      BY <1>2, <3>1 DEF Freed
    <3>3. Fits(c, id)'
      BY <1>0, <2>0, <3>1, <3>2, StillFits
    <3>4. Keeps(c, id)'
      BY <1>2, <2>2 DEF Keeps
    <3>5. (Outlives(here[c], seq[c], down[c], id, board[id].seq, board[id].owner = c))'
      BY <1>2, <2>2 DEF Outlives
    <3> QED
      BY <3>3, <3>4, <3>5 DEF Bearings
  <2>3. CASE id = e.id /\ c # e.from
    <3>1. Claimed(c, id) \subseteq Claimed(c, id)'
      BY <1>1, <2>3, OthersClaims
    <3>2. Freed(queue, c, id, Claimed(c, id)')
      BY <1>2, <2>3 DEF Freed, Report
    <3>3. Fits(c, id)'
      BY <1>0, <2>0, <3>1, <3>2, StillFits
    <3>4. PICK x \in Messages : x.type = "grab" /\ x.id = id /\ down'[c] = Append(down[c], x)
      BY <1>0, <2>3 DEF Taking
    <3>5. PICK w \in Seq(Messages) : w = down[c]
      BY <1>0
    <3>6. PICK p : p = Append(w, x)
      OBVIOUS
    <3>7. down'[c] = p
      BY <3>4, <3>5, <3>6
    <3>8. Keeps(c, id)'
      <4>1. GrabAt(p, id, Len(w) + 1) /\ Len(w) + 1 \in Nat
        <5>1. Len(w) + 1 \in Nat /\ Len(w) + 1 \in 1..Len(p) /\ p[Len(w) + 1] = x
          BY <3>4, <3>5, <3>6
        <5> QED
          BY <3>4, <5>1 DEF GrabAt
      <4> QED
        BY <3>7, <4>1 DEF Keeps
    <3>9. Outlives(here[c], seq[c], p, id, e.seq, FALSE)
      <4>1. LastOn(here[c], seq[c], w, seqNum, active = c)
        BY <1>0, <3>5 DEF Sitting, Sound, Course
      <4>2. seq[c] \in Seqs
        BY <1>0
      <4> QED
        BY <1>0, <1>2, <3>4, <3>5, <3>6, <4>1, <4>2, OutlivesGrab
    <3>10. (Outlives(here[c], seq[c], down[c], id, board[id].seq, board[id].owner = c))'
      <4>1. (board'[id].owner = c) = FALSE
        BY <1>2, <2>3
      <4> QED
        BY <1>2, <2>3, <3>7, <3>9, <4>1
    <3> QED
      BY <3>3, <3>8, <3>10 DEF Bearings
  <2> QED
    BY <2>1, <2>2, <2>3
<1>4. ASSUME NEW c \in connected' PROVE Settled(c)
  BY <1>1, <1>2, <1>3, <1>4 DEF Settled
<1>5. Connected(queue, queue')
  BY <1>0, <1>2, HandledTail, HandledCarries
<1>6. ASSUME NEW c \in Clients \ connected' PROVE Absent(c)'
  <2>1. c \notin connected /\ Absent(c) /\ up'[c] = up[c]
    BY <1>2, <1>6 DEF IInv
  <2>2. down'[c] = down[c]
    BY <1>6, <2>1 DEF Taking
  <2> QED
    BY <1>5, <2>1, <2>2, AbsentStays
<1>7. Home'
  <2>1. \A id \in Ids : board'[id].seq <= seqNum
    BY <1>0, <1>2 DEF Same, Home
  <2> QED
    BY <1>0, <1>2, <1>5, <2>1, HomeStays
<1> QED
  BY <1>0, <1>1, <1>2, <1>4, <1>6, <1>7 DEF Preserved

-----------------------------------------------------------------------------
(* The invariant holds *)

LEMMA InitIInv == ASSUME ClipboardAssumption, Considerate, Init PROVE IInv
<1>1. Typed
  BY TypedInit
<1>2. /\ connected = {} /\ active = Primary /\ seqNum = 0 /\ primarySeq = 0 /\ queue = <<>>
      /\ unexpected = FALSE /\ \A c \in Clients : down[c] = <<>> /\ up[c] = <<>>
      /\ \A id \in Ids : board[id].seq = 0
  BY DEF Init
<1>3. \A i : i \notin 1..Len(<<>>)
  OBVIOUS
<1>4. Home
  BY <1>2, <1>3 DEF Home
<1>5. \A c \in Clients : Absent(c)
  BY <1>2, <1>3 DEF Absent
<1> QED
  BY <1>1, <1>2, <1>4, <1>5 DEF IInv, ExpectedSender, Sitting

LEMMA ServerPreserves ==
    ASSUME ClipboardAssumption, IInv, ServerStep \/ \E dst \in Screens : SwitchScreen(dst)
    PROVE  Preserved
<1>1. CASE HandleClipboardGrabbed
  <2>1. PICK e : e = Head(queue)
    OBVIOUS
  <2>2. /\ queue # <<>> /\ e.type = "grabbed" /\ (Refused(e) \/ Grabbed(e))
        /\ UNCHANGED <<connected, active, seqNum, primarySeq, clientVars, up, bookVars>>
    BY <1>1, <2>1, HandleClipboardGrabbedIs DEF IInv
  <2>3. CASE Refused(e)
    BY <2>1, <2>2, <2>3, RefusedPreserves
  <2>4. CASE Grabbed(e)
    BY <2>1, <2>2, <2>4, GrabbedTakes, GrabbedPreserves
  <2> QED
    BY <2>2, <2>3, <2>4
<1>2. CASE HandleClipboardChanged
  BY <1>2, ChangedPreserves
<1>3. CASE SendQueued
  BY <1>3, SendQueuedPreserves
<1>4. CASE \E c \in Clients : ReceiveFromClient(c)
  BY <1>4, ReceivePreserves
<1>5. CASE \E dst \in Screens : SwitchScreen(dst)
  BY <1>5, SwitchPreserves
<1> QED
  BY <1>1, <1>2, <1>3, <1>4, <1>5 DEF ServerStep

LEMMA OthersPreserve ==
    ASSUME ClipboardAssumption, IInv,
           \/ \E id \in Ids : PrimaryCopies(id) \/ \E c \in Clients : ClientCopies(c, id)
           \/ \E c \in Clients : ClientStep(c) \/ Join(c) \/ Depart(c)
    PROVE  Preserved
<1>1. CASE \E id \in Ids : PrimaryCopies(id)
  BY <1>1, PrimaryPreserves
<1>2. CASE \E id \in Ids : \E c \in Clients : ClientCopies(c, id)
  BY <1>2, CopiesPreserves
<1>3. ASSUME NEW c \in Clients, ClientStep(c) PROVE Preserved
  BY <1>3, GrabsPreserves, SendsPreserves, ReceivesPreserves, StalePreserves DEF ClientStep
<1>4. CASE \E c \in Clients : Join(c) \/ Depart(c)
  BY <1>4, JoinPreserves, DepartPreserves
<1> QED
  BY <1>1, <1>2, <1>3, <1>4

LEMMA IInvStep == ClipboardAssumption /\ IInv /\ [Next]_vars => IInv'
<1> SUFFICES ASSUME ClipboardAssumption, IInv, [Next]_vars PROVE IInv'
  OBVIOUS
<1>1. Typed'
  BY TypedStep DEF IInv
<1>2. CASE UNCHANGED vars
  <2>1. Preserved
    BY <1>2, IdlePreserves DEF vars, serverVars, clientVars, netVars
  <2> QED
    BY <1>1, <2>1, InvStays
<1>3. CASE Next
  <2>1. Preserved
    BY <1>3, ServerPreserves, OthersPreserve DEF Next
  <2> QED
    BY <1>1, <2>1, InvStays
<1> QED
  BY <1>2, <1>3

\* Every update of a clipboard is taken from the screen that owns it, as long as
\* something is copied only where the cursor is and the platform reports what is
\* copied while messages are under way: the comparison of sequence numbers in
\* onClipboardChanged turns everything else away.
THEOREM UpdatesFromOwner == Considerate => (Spec => []ExpectedSender)
<1> SUFFICES ASSUME Considerate PROVE Spec => []ExpectedSender
  OBVIOUS
<1>1. Init => IInv
  BY InitIInv, ClipboardAssumption
<1>2. IInv /\ [Next]_vars => IInv'
  BY IInvStep, ClipboardAssumption
<1>3. IInv => ExpectedSender
  BY DEF IInv
<1> QED
  BY <1>1, <1>2, <1>3, PTL DEF Spec

-----------------------------------------------------------------------------
(* What is on its way to a client *)

\* Transfers in the server's queue q, and what the messages w put on its clipboard.
Bound(q, c, id, i) ==
    /\ i \in 1..Len(q) /\ q[i].type = "send"
    /\ q[i].to = c /\ q[i].id = id /\ ~q[i].gone
Lays(x, id) == x.type \in {"grab", "clip"} /\ x.id = id
Over(w, id, i) == i \in 1..Len(w) /\ Lays(w[i], id)
Sending(q, c, id) == \E i \in Nat : Bound(q, c, id, i)
Covering(w, id) == \E i \in Nat : Over(w, id, i)

\* The last of them is the contents x.
SendsLast(q, c, id, x) ==
    \A i \in Nat : Bound(q, c, id, i) => q[i].value = x \/ \E j \in Nat : i < j /\ Bound(q, c, id, j)
CoversLast(w, id, x) ==
    \A i \in Nat : Over(w, id, i) => Value(w[i]) = x \/ \E j \in Nat : i < j /\ Over(w, id, j)

\* The clipboard m of a client will have the contents x once the client has handled
\* all that is on its way, unless an application takes it.
Arrives(q, w, m, c, id, x) ==
    /\ SendsLast(q, c, id, x)
    /\ ~Sending(q, c, id) =>
         CoversLast(w, id, x) /\ (~Covering(w, id) /\ m.held => m.shown = x)

\* The same of clients, and of the primary, that are clean.
Clean(c, id) == ~board[id].dirty[c] /\ board[id].owner # c =>
    Arrives(queue, down[c], mine[c][id], c, id, board[id].data)
Called(q, id) == \E i \in Nat : Report("grabbed", q, Primary, id, i)
CleanHome(id) ==
    /\ board[id].held \/ board[id].owner = Primary \/ Called(queue, id)
    /\ ~board[id].dirty[Primary] /\ board[id].owner # Primary /\ board[id].held =>
         board[id].shown = board[id].data
    /\ board[id].clip \in Oversize \/ board[id].clip = board[id].data
Delivered ==
    /\ \A c \in connected : \A id \in Ids : Clean(c, id)
    /\ \A id \in Ids : CleanHome(id)

-----------------------------------------------------------------------------
(* Transfers that stay in the queue, and new ones *)

LEMMA MovedPlace ==
    ASSUME NEW q \in Seq(Events), NEW p \in Seq(Events), NEW n \in {0, 1}, Moved(q, p, n), NEW i \in Nat
    PROVE  /\ i + n \in Nat /\ 0 < i /\ i + n \in 1..Len(q) => i \in 1..Len(p) /\ p[i] = q[i + n]
           /\ i \in 1..Len(p) => 0 < i /\ ((i + n \in 1..Len(q) /\ p[i] = q[i + n]) \/ i + n > Len(q))
<1>1. Len(q) \in Nat /\ Len(p) \in Nat /\ Len(p) + n >= Len(q) /\ n \in Nat /\ i + n \in Nat
  BY DEF Moved
<1>2. i \in 1..Len(p) /\ i + n <= Len(q) => p[i] = q[i + n]
  BY DEF Moved
<1> QED
  BY <1>1, <1>2

\* The transfers to c in p are those in q from the place n on, in one place more.
Brought(q, p, c, id, n) ==
    \A i \in Nat :
      /\ Bound(p, c, id, i) => 0 < i /\ Bound(q, c, id, i + n) /\ p[i].value = q[i + n].value
      /\ Bound(q, c, id, i + n) /\ 0 < i => Bound(p, c, id, i)

LEMMA BroughtMoved ==
    ASSUME NEW q \in Seq(Events), NEW p \in Seq(Events), NEW n \in {0, 1}, Moved(q, p, n), NEW c, NEW id,
           \A i \in 1..Len(p) : i + n > Len(q) => p[i].type # "send" \/ p[i].to # c \/ p[i].id # id
    PROVE  Brought(q, p, c, id, n)
<1> SUFFICES ASSUME NEW i \in Nat
             PROVE  /\ Bound(p, c, id, i) =>
                         0 < i /\ Bound(q, c, id, i + n) /\ p[i].value = q[i + n].value
                    /\ Bound(q, c, id, i + n) /\ 0 < i => Bound(p, c, id, i)
  BY DEF Brought
<1>1. /\ 0 < i /\ i + n \in 1..Len(q) => i \in 1..Len(p) /\ p[i] = q[i + n]
      /\ i \in 1..Len(p) => 0 < i /\ ((i + n \in 1..Len(q) /\ p[i] = q[i + n]) \/ i + n > Len(q))
  BY MovedPlace
<1>2. ASSUME Bound(p, c, id, i)
      PROVE  0 < i /\ Bound(q, c, id, i + n) /\ p[i].value = q[i + n].value
  <2>1. i \in 1..Len(p) /\ ~(i + n > Len(q))
    BY <1>2 DEF Bound
  <2>2. 0 < i /\ i + n \in 1..Len(q) /\ p[i] = q[i + n]
    BY <1>1, <2>1
  <2> QED
    BY <1>2, <2>2, Zenon DEF Bound
<1>3. ASSUME Bound(q, c, id, i + n), 0 < i PROVE Bound(p, c, id, i)
  <2>1. i \in 1..Len(p) /\ p[i] = q[i + n]
    BY <1>1, <1>3 DEF Bound
  <2> QED
    BY <1>3, <2>1, Zenon DEF Bound
<1> QED
  BY <1>2, <1>3

LEMMA BoundPlace ==
    ASSUME NEW q \in Seq(Events), NEW c, NEW id, NEW i \in Nat, Bound(q, c, id, i)
    PROVE  0 < i /\ i \in 1..Len(q) /\ q[i] \in Events
  BY DEF Bound

LEMMA SendsLastBrought ==
    ASSUME NEW q \in Seq(Events), NEW p, NEW c, NEW id, NEW n \in {0, 1}, Brought(q, p, c, id, n), NEW x,
           SendsLast(q, c, id, x)
    PROVE  SendsLast(p, c, id, x)
<1> SUFFICES ASSUME NEW i \in Nat, Bound(p, c, id, i), p[i].value # x
             PROVE  \E j \in Nat : i < j /\ Bound(p, c, id, j)
  BY DEF SendsLast
<1>1. 0 < i /\ i + n \in Nat /\ Bound(q, c, id, i + n) /\ q[i + n].value # x
  BY DEF Brought
<1>2. PICK j \in Nat : i + n < j /\ Bound(q, c, id, j)
  BY <1>1 DEF SendsLast
<1>3. j - n \in Nat /\ 0 < j - n /\ i < j - n /\ (j - n) + n = j
  BY <1>1, <1>2
<1>4. Bound(p, c, id, j - n)
  BY <1>2, <1>3 DEF Brought
<1> QED
  BY <1>3, <1>4

LEMMA SendingBrought ==
    ASSUME NEW q \in Seq(Events), NEW p, NEW c, NEW id, NEW n \in {0, 1}, Brought(q, p, c, id, n),
           n = 1 => ~Bound(q, c, id, 1), Sending(q, c, id)
    PROVE  Sending(p, c, id)
<1>1. PICK i \in Nat : Bound(q, c, id, i)
  BY DEF Sending
<1>2. 0 < i /\ (n = 1 => i # 1)
  BY <1>1, BoundPlace
<1>3. i - n \in Nat /\ 0 < i - n /\ (i - n) + n = i
  BY <1>2
<1>4. Bound(p, c, id, i - n)
  BY <1>1, <1>3 DEF Brought
<1> QED
  BY <1>3, <1>4 DEF Sending

LEMMA ArrivesBrought ==
    ASSUME NEW q \in Seq(Events), NEW p, NEW c, NEW id, NEW n \in {0, 1}, Brought(q, p, c, id, n),
           n = 1 => ~Bound(q, c, id, 1), NEW w, NEW m, NEW x, Arrives(q, w, m, c, id, x)
    PROVE  Arrives(p, w, m, c, id, x)
<1>1. SendsLast(p, c, id, x)
  BY SendsLastBrought DEF Arrives
<1>2. ~Sending(p, c, id) => ~Sending(q, c, id)
  BY SendingBrought
<1> QED
  BY <1>1, <1>2 DEF Arrives

\* A transfer to c is new in p, and what is new for it is x.
LEMMA ArrivesSent ==
    ASSUME NEW q \in Seq(Events), NEW p \in Seq(Events), Moved(q, p, 0), NEW c, NEW id, NEW x,
           \A i \in 1..Len(p) : i > Len(q) /\ Bound(p, c, id, i) => p[i].value = x,
           \E i \in 1..Len(p) : i > Len(q) /\ Bound(p, c, id, i), NEW w, NEW m
    PROVE  Arrives(p, w, m, c, id, x)
<1>1. PICK k \in 1..Len(p) : k > Len(q) /\ Bound(p, c, id, k)
  OBVIOUS
<1>2. k \in Nat /\ Len(q) \in Nat /\ Sending(p, c, id)
  BY <1>1 DEF Sending
<1>3. ASSUME NEW i \in Nat, Bound(p, c, id, i), p[i].value # x
      PROVE  \E j \in Nat : i < j /\ Bound(p, c, id, j)
  <2>1. i \in 1..Len(p)
    BY <1>3, BoundPlace
  <2>2. ~(i > Len(q))
    BY <1>3, <2>1
  <2>3. i < k
    BY <1>1, <1>2, <2>2
  <2> QED
    BY <1>1, <1>2, <2>3
<1>4. SendsLast(p, c, id, x)
  BY <1>3 DEF SendsLast
<1> QED
  BY <1>2, <1>4 DEF Arrives

-----------------------------------------------------------------------------
(* What is on its way on a connection *)

\* The messages p are w with x behind them.
Overlaid(w, x, p, id) ==
    \A i : /\ Over(p, id, i) <=> Over(w, id, i) \/ (i = Len(w) + 1 /\ Lays(x, id))
           /\ Over(w, id, i) => i < Len(w) + 1 /\ p[i] = w[i]

LEMMA OverGrown ==
    ASSUME NEW w \in Seq(Messages), NEW x \in Messages, NEW p, p = Append(w, x), NEW id
    PROVE  Overlaid(w, x, p, id) /\ Len(w) + 1 \in Nat /\ p[Len(w) + 1] = x
<1>1. /\ Len(w) \in Nat /\ Len(p) = Len(w) + 1 /\ p[Len(w) + 1] = x
      /\ \A k \in 1..Len(w) : p[k] = w[k]
  BY MovedAppend DEF Moved
<1>2. \A i : i \in 1..Len(p) <=> i \in 1..Len(w) \/ i = Len(w) + 1
  BY <1>1
<1>3. \A i : i \in 1..Len(w) => i < Len(w) + 1 /\ i # Len(w) + 1
  BY <1>1
<1>4. Overlaid(w, x, p, id)
  BY <1>1, <1>2, <1>3 DEF Over, Overlaid
<1> QED
  BY <1>1, <1>4

\* Messages about another clipboard, or about none.
LEMMA CoversOther ==
    ASSUME NEW w, NEW x, NEW p, NEW id, Overlaid(w, x, p, id), ~Lays(x, id), NEW y
    PROVE  /\ CoversLast(w, id, y) => CoversLast(p, id, y)
           /\ Covering(p, id) <=> Covering(w, id)
<1>1. \A i : /\ Over(p, id, i) <=> Over(w, id, i)
             /\ Over(w, id, i) => p[i] = w[i]
  BY DEF Overlaid
<1>2. CoversLast(w, id, y) => CoversLast(p, id, y)
  BY <1>1, Zenon DEF CoversLast
<1> QED
  BY <1>1, <1>2 DEF Covering

LEMMA CoversThis ==
    ASSUME NEW w \in Seq(Messages), NEW x \in Messages, NEW p, p = Append(w, x), NEW id, Lays(x, id)
    PROVE  CoversLast(p, id, Value(x)) /\ Covering(p, id)
<1>1. PICK n \in Nat : n = Len(w) + 1
  BY OverGrown
<1>2. Overlaid(w, x, p, id) /\ p[n] = x
  BY <1>1, OverGrown
<1>3. Over(p, id, n) /\ \A i : Over(p, id, i) => i = n \/ i < n
  BY <1>1, <1>2 DEF Overlaid
<1> QED
  BY <1>2, <1>3 DEF CoversLast, Covering

LEMMA CoversTail ==
    ASSUME NEW w \in Seq(Messages), w # <<>>, NEW p, p = Tail(w), NEW id, NEW y, CoversLast(w, id, y)
    PROVE  /\ CoversLast(p, id, y)
           /\ Covering(w, id) => Covering(p, id) \/ Over(w, id, 1)
           /\ Over(w, id, 1) => Covering(p, id) \/ Value(w[1]) = y
<1>1. /\ Len(w) \in Nat /\ Len(w) > 0 /\ Len(p) = Len(w) - 1
      /\ \A i \in 1..Len(p) : p[i] = w[i + 1]
  OBVIOUS
<1>2. ASSUME NEW i \in Nat
      PROVE  /\ Over(p, id, i) => i + 1 \in Nat /\ Over(w, id, i + 1) /\ p[i] = w[i + 1]
             /\ Over(w, id, i) => i = 1 \/ (1 < i /\ i - 1 \in Nat /\ Over(p, id, i - 1))
  BY <1>1 DEF Over
<1>3. CoversLast(p, id, y)
  <2> SUFFICES ASSUME NEW i \in Nat, Over(p, id, i), Value(p[i]) # y
               PROVE  \E j \in Nat : i < j /\ Over(p, id, j)
    BY DEF CoversLast
  <2>1. i + 1 \in Nat /\ Over(w, id, i + 1) /\ Value(w[i + 1]) # y
    BY <1>2
  <2>2. PICK j \in Nat : i + 1 < j /\ Over(w, id, j)
    BY <2>1 DEF CoversLast
  <2>3. j - 1 \in Nat /\ i < j - 1 /\ Over(p, id, j - 1)
    BY <1>2, <2>2
  <2> QED
    BY <2>3
<1>4. Covering(w, id) => Covering(p, id) \/ Over(w, id, 1)
  BY <1>2 DEF Covering
<1>5. ASSUME Over(w, id, 1), Value(w[1]) # y PROVE Covering(p, id)
  <2>1. PICK j \in Nat : 1 < j /\ Over(w, id, j)
    BY <1>5 DEF CoversLast
  <2>2. j - 1 \in Nat /\ Over(p, id, j - 1)
    BY <1>2, <2>1
  <2> QED
    BY <2>2 DEF Covering
<1> QED
  BY <1>3, <1>4, <1>5

-----------------------------------------------------------------------------
(* Steps that keep what a client will have *)

\* Nothing new is put on the clipboard, and no application lets go of it.
Untouched(w, p, id) == p = w \/ \E x \in Messages : ~Lays(x, id) /\ p = Append(w, x)
Lasting(m, r) == r.held => m.held /\ r.shown = m.shown

LEMMA ArrivesUntouched ==
    ASSUME NEW q, NEW w \in Seq(Messages), NEW p, NEW c, NEW id, Untouched(w, p, id),
           NEW m, NEW r, Lasting(m, r), NEW x, Arrives(q, w, m, c, id, x)
    PROVE  Arrives(q, p, r, c, id, x)
<1>1. CASE p = w
  BY <1>1 DEF Arrives, Lasting
<1>2. ASSUME NEW y \in Messages, ~Lays(y, id), p = Append(w, y) PROVE Arrives(q, p, r, c, id, x)
  <2>1. Overlaid(w, y, p, id)
    BY <1>2, OverGrown
  <2>2. (CoversLast(w, id, x) => CoversLast(p, id, x)) /\ (Covering(p, id) <=> Covering(w, id))
    BY <1>2, <2>1, CoversOther
  <2> QED
    BY <2>2 DEF Arrives, Lasting
<1> QED
  BY <1>1, <1>2 DEF Untouched

\* A screen that is clean after the step was clean before, and has the same to have.
Unsoiled(c, id) ==
    ~board'[id].dirty[c] /\ board'[id].owner # c =>
      ~board[id].dirty[c] /\ board[id].owner # c /\ board'[id].data = board[id].data

LEMMA CleanStays ==
    ASSUME Typed, NEW c \in Clients, NEW id, Clean(c, id), Unsoiled(c, id),
           NEW n \in {0, 1}, Brought(queue, queue', c, id, n), n = 1 => ~Bound(queue, c, id, 1),
           Untouched(down[c], down'[c], id), Lasting(mine[c][id], mine'[c][id])
    PROVE  Clean(c, id)'
<1> SUFFICES ASSUME ~board'[id].dirty[c], board'[id].owner # c
             PROVE  Arrives(queue', down'[c], mine'[c][id], c, id, board'[id].data)
  BY DEF Clean
<1>0. queue \in Seq(Events) /\ down[c] \in Seq(Messages)
  BY DEF Typed, TypeOK
<1>1. board'[id].data = board[id].data /\ Arrives(queue, down[c], mine[c][id], c, id, board[id].data)
  BY DEF Unsoiled, Clean
<1>2. Arrives(queue', down[c], mine[c][id], c, id, board[id].data)
  BY <1>0, <1>1, ArrivesBrought
<1> QED
  BY <1>0, <1>1, <1>2, ArrivesUntouched

\* The same of the primary.
Housed(id) ==
    /\ board'[id].owner = board[id].owner /\ board'[id].data = board[id].data
    /\ board'[id].clip = board[id].clip
    /\ board'[id].dirty[Primary] = board[id].dirty[Primary]
    /\ board'[id].held = board[id].held /\ board'[id].shown = board[id].shown

LEMMA HomeKept ==
    ASSUME NEW id, CleanHome(id), Housed(id), Called(queue, id) => Called(queue', id)
    PROVE  CleanHome(id)'
  BY DEF CleanHome, Housed

LEMMA CalledCarried ==
    ASSUME NEW id \in Ids, NEW n \in {0, 1}, Carried(queue, queue', Primary, n), queue \in Seq(Events),
           n = 1 => ~Report("grabbed", queue, Primary, id, 1), Called(queue, id)
    PROVE  Called(queue', id)
<1>1. PICK i \in Nat : Report("grabbed", queue, Primary, id, i)
  BY DEF Called
<1>2. i \in 1..Len(queue) /\ (n = 1 => i # 1)
  BY <1>1 DEF Report
<1>3. i - n \in Nat /\ 0 < i - n /\ (i - n) + n = i /\ "grabbed" \in Kinds
  BY <1>2 DEF Kinds
<1>4. Report("grabbed", queue', Primary, id, i - n)
  BY <1>1, <1>3 DEF Carried
<1> QED
  BY <1>3, <1>4 DEF Called

-----------------------------------------------------------------------------
(* Each step keeps it *)

LEMMA SwitchDelivers ==
    ASSUME ClipboardAssumption, Typed, Delivered, NEW dst, SwitchScreen(dst)
    PROVE  Delivered'
<1>1. Switched(dst)
  BY SwitchScreenIs
<1>2. /\ dst \in connected \cup {Primary} /\ dst # active /\ seqNum' \in Seqs
      /\ queue' \in Seq(Events) /\ connected' = connected /\ mine' = mine
  BY <1>1 DEF Switched, clientVars
<1>3. down' = [c \in Clients |->
                  IF c = active THEN Append(down[c], [type |-> "leave"])
                  ELSE IF c = dst THEN Append(down[c], [type |-> "enter", seq |-> seqNum'])
                  ELSE down[c]]
  BY <1>1 DEF Switched
<1>4. PICK results \in [Ids -> Results] :
         /\ Applied(results, queue, queue')
         /\ \A id \in Ids : board'[id] = results[id].board /\ Entered(board[id], dst, results[id])
  BY <1>1 DEF Switched
<1>5. /\ queue \in Seq(Events) /\ connected \subseteq Clients /\ Primary \notin Clients
      /\ Moved(queue, queue', 0)
  BY <1>4 DEF Typed, TypeOK, ClipboardAssumption, Applied
<1>6. ASSUME NEW n \in 1..Len(queue'), n > Len(queue)
      PROVE  \E id \in Ids : /\ queue'[n] = SendOf(dst, id, results[id].board.clip)
                             /\ results[id].to = <<dst>>
  <2>1. PICK id \in Ids : \E k \in 1..Len(results[id].to) :
           queue'[n] = SendOf(results[id].to[k], id, results[id].board.clip)
    BY <1>4, <1>6 DEF Applied
  <2>2. PICK k \in 1..Len(results[id].to) :
           queue'[n] = SendOf(results[id].to[k], id, results[id].board.clip)
    BY <2>1
  <2>3. results[id].to = <<>> \/ results[id].to = <<dst>>
    BY <1>4 DEF Entered
  <2>4. results[id].to = <<dst>> /\ results[id].to[k] = dst
    BY <2>3
  <2> QED
    BY <2>2, <2>4
<1>7. ASSUME NEW c \in connected, NEW id \in Ids, c # dst \/ results[id].to = <<>>
      PROVE  Brought(queue, queue', c, id, 0)
  <2>1. ASSUME NEW i \in 1..Len(queue'), i > Len(queue), queue'[i].to = c PROVE queue'[i].id # id
    <3>1. PICK k \in Ids : queue'[i] = SendOf(dst, k, results[k].board.clip) /\ results[k].to = <<dst>>
      BY <1>6, <2>1
    <3>2. queue'[i].to = dst /\ queue'[i].id = k
      BY <3>1 DEF SendOf
    <3> QED
      BY <1>7, <2>1, <3>1, <3>2
  <2>2. \A i \in 1..Len(queue') : i + 0 > Len(queue) =>
          queue'[i].type # "send" \/ queue'[i].to # c \/ queue'[i].id # id
    BY <2>1
  <2> QED
    BY <1>2, <1>5, <2>2, BroughtMoved
<1>8. ASSUME NEW c \in connected, NEW id \in Ids
      PROVE  Untouched(down[c], down'[c], id) /\ Lasting(mine[c][id], mine'[c][id])
  <2>1. [type |-> "leave"] \in Messages /\ ~Lays([type |-> "leave"], id)
    BY DEF Messages, Lays
  <2>2. [type |-> "enter", seq |-> seqNum'] \in Messages /\ ~Lays([type |-> "enter", seq |-> seqNum'], id)
    BY <1>2 DEF Messages, Lays
  <2>3. \/ down'[c] = down[c] \/ down'[c] = Append(down[c], [type |-> "leave"])
        \/ down'[c] = Append(down[c], [type |-> "enter", seq |-> seqNum'])
    BY <1>3, <1>5, <1>8
  <2> QED
    BY <1>2, <2>1, <2>2, <2>3 DEF Untouched, Lasting
<1>9. ASSUME NEW id \in Ids
      PROVE  board'[id].clip \notin Oversize => board'[id].clip = board'[id].data
  <2>1. board[id].clip \in Oversize \/ board[id].clip = board[id].data
    BY <1>9 DEF Delivered, CleanHome
  <2> QED
    BY <1>4, <2>1 DEF Entered
<1>10. ASSUME NEW c \in connected, NEW id \in Ids PROVE Clean(c, id)'
  <2>0. c \in Clients /\ c # Primary /\ Clean(c, id)
    BY <1>5, <1>10 DEF Delivered
  <2> DEFINE r == results[id]
  <2>1. Entered(board[id], dst, r) /\ board'[id] = r.board
    BY <1>4
  <2> HIDE DEF r
  <2>2. CASE r.board.dirty[c] \/ r.board.owner = c
    BY <2>1, <2>2 DEF Clean
  <2>3. CASE c # dst /\ ~r.board.dirty[c] /\ r.board.owner # c
    <3>1. Unsoiled(c, id)
      BY <2>1, <2>3 DEF Entered, Unsoiled
    <3>2. Brought(queue, queue', c, id, 0)
      BY <1>7, <2>3
    <3> QED
      BY <1>8, <2>0, <3>1, <3>2, CleanStays
  <2>4. CASE c = dst /\ ~r.board.dirty[c] /\ r.board.owner # c
    <3>1. \/ ~board[id].dirty[c] /\ r.board.data = board[id].data /\ r.to = <<>>
          \/ r.board.clip \notin Oversize /\ r.to = <<dst>>
      BY <2>0, <2>1, <2>4 DEF Entered
    <3>2. CASE ~board[id].dirty[c] /\ r.board.data = board[id].data /\ r.to = <<>>
      <4>1. Unsoiled(c, id)
        BY <2>1, <2>4, <3>2 DEF Entered, Unsoiled
      <4>2. Brought(queue, queue', c, id, 0)
        BY <1>7, <3>2 DEF r
      <4> QED
        BY <1>8, <2>0, <4>1, <4>2, CleanStays
    <3>3. CASE r.board.clip \notin Oversize /\ r.to = <<dst>>
      <4>1. r.board.clip = board'[id].data
        BY <1>9, <2>1, <3>3
      <4>2. ASSUME NEW i \in 1..Len(queue'), i > Len(queue), Bound(queue', c, id, i)
            PROVE  queue'[i].value = board'[id].data
        <5>1. PICK k \in Ids : queue'[i] = SendOf(dst, k, results[k].board.clip)
          BY <1>6, <4>2
        <5>2. k = id /\ queue'[i].value = results[k].board.clip
          BY <4>2, <5>1 DEF SendOf, Bound
        <5> QED
          BY <4>1, <5>2 DEF r
      <4>3. \E i \in 1..Len(queue') : i > Len(queue) /\ Bound(queue', c, id, i)
        <5>1. 1 \in 1..Len(r.to) /\ r.to[1] = dst
          BY <3>3
        <5>2. PICK i \in 1..Len(queue') : i > Len(queue) /\ queue'[i] = SendOf(dst, id, r.board.clip)
          BY <1>4, <5>1 DEF Applied, r
        <5> QED
          BY <2>4, <5>2 DEF Bound, SendOf
      <4>4. Arrives(queue', down'[c], mine'[c][id], c, id, board'[id].data)
        BY <1>2, <1>5, <4>2, <4>3, ArrivesSent
      <4> QED
        BY <4>4 DEF Clean
    <3> QED
      BY <3>1, <3>2, <3>3
  <2> QED
    BY <2>2, <2>3, <2>4
<1>11. ASSUME NEW id \in Ids PROVE CleanHome(id)'
  <2> DEFINE r == results[id]
             b == board[id]
  <2>1. Entered(b, dst, r) /\ board'[id] = r.board /\ CleanHome(id)
    BY <1>4 DEF Delivered
  <2>2. Called(queue, id) => Called(queue', id)
    <3>1. ASSUME NEW i \in 1..Len(queue'), i + 0 > Len(queue)
          PROVE  queue'[i].type = "send" \/ queue'[i].from # Primary
      <4>1. i > Len(queue)
        BY <3>1
      <4>2. PICK k \in Ids : queue'[i] = SendOf(dst, k, results[k].board.clip)
        BY <1>6, <3>1, <4>1
      <4> QED
        BY <4>2 DEF SendOf
    <3>2. Carried(queue, queue', Primary, 0)
      BY <1>2, <1>5, <3>1, CarriedMoved
    <3> QED
      BY <1>5, <3>2, CalledCarried
  <2>3. b.held \/ b.owner = Primary \/ Called(queue, id)
    BY <2>1 DEF CleanHome
  <2>4. ~b.dirty[Primary] /\ b.owner # Primary /\ b.held => b.shown = b.data
    BY <2>1 DEF CleanHome
  <2> HIDE DEF r, b
  <2>5. r.board.held \/ r.board.owner = Primary \/ Called(queue', id)
    BY <2>1, <2>2, <2>3 DEF Entered
  <2>6. r.board.clip \in Oversize \/ r.board.clip = r.board.data
    BY <1>9, <2>1
  <2>7. ASSUME ~r.board.dirty[Primary], r.board.owner # Primary, r.board.held
        PROVE  r.board.shown = r.board.data
    <3>1. b.owner # Primary /\ (dst # Primary => r.board.data = b.data /\ ~b.dirty[Primary])
      BY <2>1, <2>7 DEF Entered
    <3>2. CASE dst # Primary
      BY <2>1, <2>4, <2>7, <3>1, <3>2 DEF Entered
    <3>3. CASE dst = Primary
      <4>1. \/ ~b.dirty[Primary] /\ r.board.data = b.data
            \/ r.board.clip \notin Oversize /\ r.board.shown = r.board.clip
        BY <2>1, <2>7, <3>1, <3>3 DEF Entered
      <4>2. \/ r.board.shown = b.shown /\ r.board.held = b.held
            \/ r.board.clip \notin Oversize /\ r.board.shown = r.board.clip
        BY <2>1 DEF Entered
      <4> QED
        BY <2>4, <2>6, <2>7, <3>1, <4>1, <4>2
    <3> QED
      BY <3>2, <3>3
  <2> QED
    BY <2>1, <2>5, <2>6, <2>7 DEF CleanHome
<1> QED
  BY <1>2, <1>10, <1>11 DEF Delivered

\* A clipboard and the queue, when an event that sends nothing is taken off it.
LEMMA HandledDelivers ==
    ASSUME ClipboardAssumption, Typed, Delivered, queue # <<>>, queue' = Tail(queue),
           connected' = connected, mine' = mine, NEW id \in Ids,
           board'[id] = board[id],
           \A c \in connected : ~Bound(queue, c, id, 1) /\ Untouched(down[c], down'[c], id),
           ~Report("grabbed", queue, Primary, id, 1)
    PROVE  (\A c \in connected : Clean(c, id)') /\ CleanHome(id)'
<1>1. queue \in Seq(Events) /\ connected \subseteq Clients
  BY DEF Typed, TypeOK
<1>2. /\ queue' \in Seq(Events) /\ Moved(queue, queue', 1)
      /\ \A i \in 1..Len(queue') : ~(i + 1 > Len(queue))
  <2>1. /\ Tail(queue) \in Seq(Events) /\ Moved(queue, Tail(queue), 1)
        /\ Len(Tail(queue)) = Len(queue) - 1 /\ Len(queue) \in Nat
    BY <1>1, MovedTail
  <2> QED
    BY <2>1
<1>3. ASSUME NEW c \in connected PROVE Clean(c, id)'
  <2>1. Brought(queue, queue', c, id, 1)
    BY <1>1, <1>2, BroughtMoved
  <2>2. Unsoiled(c, id) /\ Lasting(mine[c][id], mine'[c][id]) /\ Clean(c, id) /\ c \in Clients
    BY <1>1, <1>3 DEF Unsoiled, Lasting, Delivered
  <2> QED
    BY <1>3, <2>1, <2>2, CleanStays
<1>4. CleanHome(id)'
  <2>1. Carried(queue, queue', Primary, 1)
    BY <1>1, <1>2, CarriedMoved
  <2>2. Called(queue, id) => Called(queue', id)
    BY <1>1, <2>1, CalledCarried
  <2> QED
    BY <2>2, HomeKept DEF Housed, Delivered
<1> QED
  BY <1>3, <1>4

LEMMA RefusedDelivers ==
    ASSUME ClipboardAssumption, IInv, Delivered, NEW e, e = Head(queue), queue # <<>>, e.type = "grabbed",
           Refused(e), UNCHANGED <<connected, active, seqNum, primarySeq, clientVars, up, bookVars>>
    PROVE  Delivered'
<1>0. /\ Typed /\ Home /\ connected' = connected /\ mine' = mine /\ queue' = Tail(queue)
      /\ board' = board /\ down' = down /\ ~Accepts(e)
  BY DEF IInv, Refused, clientVars
<1>1. e = queue[1] /\ e \in Events /\ \A id : Report("grabbed", queue, Primary, id, 1) <=>
                                         e.from = Primary /\ e.id = id /\ ~e.gone
  BY <1>0, FirstReport
<1>2. ASSUME NEW id \in Ids
      PROVE  /\ \A c \in connected : ~Bound(queue, c, id, 1) /\ Untouched(down[c], down'[c], id)
             /\ ~Report("grabbed", queue, Primary, id, 1)
  <2>1. ~(e.from = Primary /\ ~e.gone)
    BY <1>0 DEF Accepts
  <2> QED
    BY <1>0, <1>1, <2>1 DEF Bound, Untouched
<1> QED
  BY <1>0, <1>2, HandledDelivers DEF Delivered

LEMMA GrabbedDelivers ==
    ASSUME ClipboardAssumption, IInv, Delivered, NEW e, e = Head(queue), queue # <<>>, e.type = "grabbed",
           Grabbed(e), UNCHANGED <<connected, active, seqNum, primarySeq, clientVars, up, bookVars>>
    PROVE  Delivered'
<1>0. /\ Typed /\ connected \subseteq Clients /\ board \in [Ids -> Boards] /\ Taking(e)
      /\ connected' = connected /\ mine' = mine /\ Primary \notin Clients /\ down \in [Clients -> Seq(Messages)]
  BY GrabbedTakes DEF IInv, Typed, TypeOK, clientVars, ClipboardAssumption
<1>1. /\ e.from \in connected \cup {Primary} /\ e.id \in Ids /\ e.seq \in Seqs /\ queue' = Tail(queue)
      /\ e = queue[1] /\ (e.from = Primary => active = Primary)
  BY <1>0 DEF Taking
<1>2. board' = [board EXCEPT ![e.id] = OnClipboardGrabbed(@, e.from, e.seq)]
  BY <1>1 DEF Grabbed
<1>3. PICK r : r = OnClipboardGrabbed(board[e.id], e.from, e.seq)
  OBVIOUS
<1>4. /\ r.owner = e.from /\ r.clip = 0 /\ r.data = 0
      /\ \A z \in connected \cup {Primary} : r.dirty[z] <=> z # e.from
      /\ e.from # Primary => r.held
  <2>1. board[e.id] \in Boards /\ e.from \in Screens
    BY <1>0, <1>1 DEF Screens
  <2> QED
    BY <1>0, <1>1, <1>3, <2>1, OnClipboardGrabbedIs
<1>5. board'[e.id] = r /\ \A id \in Ids : id # e.id => board'[id] = board[id]
  BY <1>0, <1>1, <1>2, <1>3
<1>6. ASSUME NEW id \in Ids, id # e.id PROVE (\A c \in connected : Clean(c, id)') /\ CleanHome(id)'
  <2>1. ~Report("grabbed", queue, Primary, id, 1) /\ \A c \in connected : ~Bound(queue, c, id, 1)
    BY <1>1, <1>6 DEF Report, Bound
  <2>2. ASSUME NEW c \in connected PROVE Untouched(down[c], down'[c], id)
    <3>1. CASE c # e.from
      <4>1. PICK x \in Messages : x.type = "grab" /\ x.id = e.id /\ down'[c] = Append(down[c], x)
        BY <1>0, <2>2, <3>1 DEF Taking
      <4> QED
        BY <1>6, <4>1 DEF Untouched, Lays
    <3>2. CASE c = e.from
      <4>1. down'[c] = down[c]
        BY <1>0, <2>2, <3>2 DEF Taking
      <4> QED
        BY <4>1 DEF Untouched
    <3> QED
      BY <3>1, <3>2
  <2> QED
    BY <1>0, <1>1, <1>5, <1>6, <2>1, <2>2, HandledDelivers
<1>7. ASSUME NEW c \in connected PROVE Clean(c, e.id)'
  <2>1. board'[e.id].dirty[c] \/ board'[e.id].owner = c
    BY <1>4, <1>5, <1>7
  <2> QED
    BY <2>1 DEF Clean
<1>8. CleanHome(e.id)'
  BY <1>1, <1>4, <1>5 DEF CleanHome
<1> QED
  BY <1>0, <1>6, <1>7, <1>8 DEF Delivered

LEMMA SentDelivers ==
    ASSUME ClipboardAssumption, IInv, Delivered, SendQueued
    PROVE  Delivered'
<1> DEFINE e == Head(queue)
           x == [type |-> "clip", id |-> e.id, value |-> e.value, seq |-> 0]
<1>0. /\ Typed /\ connected \subseteq Clients /\ queue \in Seq(Events) /\ down \in [Clients -> Seq(Messages)]
      /\ 0 \in Seqs
  BY Numbers DEF IInv, Typed, TypeOK
<1>1. /\ queue # <<>> /\ e.type = "send" /\ queue' = Tail(queue) /\ connected' = connected
      /\ board' = board /\ mine' = mine
  BY DEF SendQueued, clientVars
<1>2. IF e.gone THEN down' = down ELSE down' = [down EXCEPT ![e.to] = Append(@, x)]
  BY DEF SendQueued
<1>3. e = queue[1] /\ e \in Events /\ 1 \in 1..Len(queue)
  BY <1>0, <1>1
<1> HIDE DEF e
<1>4. e.to \in Clients /\ e.id \in Ids /\ e.value \in Copies
  BY <1>1, <1>3, SendEvent
<1>5. x \in Messages /\ x.type = "clip" /\ x.id = e.id /\ Value(x) = e.value
  BY <1>0, <1>4 DEF Messages, Value
<1> HIDE DEF x
<1>6. \A id : ~Report("grabbed", queue, Primary, id, 1)
  BY <1>1, <1>3 DEF Report
<1>7. \A c, id : Bound(queue, c, id, 1) <=> e.to = c /\ e.id = id /\ ~e.gone
  BY <1>1, <1>3 DEF Bound
<1>8. ASSUME NEW c \in connected PROVE down'[c] = IF ~e.gone /\ c = e.to THEN Append(down[c], x) ELSE down[c]
  BY <1>0, <1>2, <1>8
<1>9. /\ queue' \in Seq(Events) /\ Moved(queue, queue', 1)
      /\ \A i \in 1..Len(queue') : ~(i + 1 > Len(queue))
  <2>1. /\ Tail(queue) \in Seq(Events) /\ Moved(queue, Tail(queue), 1)
        /\ Len(Tail(queue)) = Len(queue) - 1 /\ Len(queue) \in Nat
    BY <1>0, <1>1, MovedTail
  <2> QED
    BY <1>1, <2>1
<1>10. ASSUME NEW c \in connected, NEW id \in Ids PROVE Clean(c, id)'
  <2>1. Brought(queue, queue', c, id, 1) /\ Clean(c, id) /\ c \in Clients
    BY <1>0, <1>9, <1>10, BroughtMoved DEF Delivered
  <2>2. Unsoiled(c, id) /\ Lasting(mine[c][id], mine'[c][id])
    BY <1>1 DEF Unsoiled, Lasting
  <2>3. CASE ~Bound(queue, c, id, 1)
    <3>1. Untouched(down[c], down'[c], id)
      <4>1. CASE ~e.gone /\ c = e.to
        <5>1. ~Lays(x, id) /\ down'[c] = Append(down[c], x)
          BY <1>5, <1>7, <1>8, <1>10, <2>3, <4>1 DEF Lays
        <5> QED
          BY <1>5, <5>1 DEF Untouched
      <4>2. CASE ~(~e.gone /\ c = e.to)
        <5>1. down'[c] = down[c]
          BY <1>8, <1>10, <4>2
        <5> QED
          BY <5>1 DEF Untouched
      <4> QED
        BY <4>1, <4>2
    <3> QED
      BY <1>0, <2>1, <2>2, <2>3, <3>1, CleanStays
  <2>4. CASE Bound(queue, c, id, 1)
    <3> SUFFICES ASSUME ~board'[id].dirty[c], board'[id].owner # c
                 PROVE  Arrives(queue', down'[c], mine'[c][id], c, id, board'[id].data)
      BY DEF Clean
    <3>1. SendsLast(queue, c, id, board[id].data)
      BY <1>1, <2>1 DEF Clean, Arrives
    <3>2. SendsLast(queue', c, id, board[id].data)
      BY <1>0, <2>1, <3>1, SendsLastBrought
    <3>3. ~e.gone /\ c = e.to /\ id = e.id
      BY <1>7, <2>4
    <3>4. Lays(x, id) /\ down'[c] = Append(down[c], x) /\ down[c] \in Seq(Messages)
      BY <1>0, <1>4, <1>5, <1>8, <1>10, <3>3 DEF Lays
    <3>5. CoversLast(down'[c], id, e.value) /\ Covering(down'[c], id)
      BY <1>5, <3>4, CoversThis
    <3>6. ASSUME ~Sending(queue', c, id) PROVE e.value = board[id].data
      <4>1. CASE queue[1].value = board[id].data
        BY <1>3, <4>1
      <4>2. CASE queue[1].value # board[id].data
        <5>1. PICK j \in Nat : 1 < j /\ Bound(queue, c, id, j)
          BY <2>4, <3>1, <4>2 DEF SendsLast
        <5>2. j - 1 \in Nat /\ 0 < j - 1 /\ (j - 1) + 1 = j
          BY <5>1
        <5>3. Bound(queue', c, id, j - 1)
          BY <2>1, <5>1, <5>2 DEF Brought
        <5> QED
          BY <3>6, <5>2, <5>3 DEF Sending
      <4> QED
        BY <4>1, <4>2
    <3> QED
      BY <1>1, <3>2, <3>5, <3>6 DEF Arrives
  <2> QED
    BY <2>3, <2>4
<1>11. ASSUME NEW id \in Ids PROVE CleanHome(id)'
  <2>1. Carried(queue, queue', Primary, 1)
    BY <1>0, <1>9, CarriedMoved
  <2>2. Called(queue, id) => Called(queue', id)
    BY <1>0, <1>6, <2>1, CalledCarried
  <2>3. CleanHome(id) /\ Housed(id)
    BY <1>1 DEF Delivered, Housed
  <2> QED
    BY <2>2, <2>3, HomeKept
<1> QED
  BY <1>1, <1>10, <1>11 DEF Delivered

\* An update that the server takes in is sent to the active screen at once, and the
\* other screens are dirty.
LEMMA ChangedDelivers ==
    ASSUME ClipboardAssumption, IInv, Delivered, ~unexpected', HandleClipboardChanged
    PROVE  Delivered'
<1> DEFINE e == Head(queue)
           t == Tail(queue)
<1>0. Typed /\ connected \subseteq Clients /\ queue \in Seq(Events)
      /\ active \in connected \cup {Primary} /\ Primary \notin Clients /\ unexpected \in BOOLEAN
  BY DEF IInv, Typed, TypeOK, ClipboardAssumption
<1>1. /\ queue # <<>> /\ e \in Events /\ e.type = "changed" /\ Changed(e)
      /\ connected' = connected /\ mine' = mine /\ down' = down
  BY <1>0, HandleClipboardChangedIs DEF clientVars, netVars
<1>2. e = queue[1]
  BY <1>0, <1>1
<1> HIDE DEF e
<1>3. e.id \in Ids /\ e.seq \in Seqs /\ e.from \in Screens /\ board[e.id] \in Boards /\ active \in Screens
  BY <1>0, <1>1, GrabbedEvent DEF Typed, TypeOK, Screens
<1>4. /\ t \in Seq(Events) /\ Moved(queue, t, 1) /\ queue' \in Seq(Events)
      /\ \A i \in 1..Len(t) : ~(i + 1 > Len(queue))
      /\ \A id \in Ids : id # e.id => board'[id] = board[id]
  <2>1. t \in Seq(Events) /\ Moved(queue, t, 1) /\ Len(t) = Len(queue) - 1 /\ Len(queue) \in Nat
    BY <1>0, <1>1, MovedTail
  <2> QED
    BY <1>1, <2>1 DEF Changed
<1>5. PICK r \in Results :
         /\ IF ~e.gone /\ e.from \in connected
            THEN r = OnClipboardChanged(board[e.id], e.from, e.seq, active)
            ELSE r = Quietly(board[e.id])
         /\ board'[e.id] = r.board /\ unexpected' = (unexpected \/ r.unexpected)
         /\ Moved(t, queue', 0)
         /\ \A n \in 1..Len(queue') : n > Len(t) =>
              \E i \in 1..Len(r.to) : queue'[n] = SendOf(r.to[i], e.id, r.board.clip)
         /\ \A i \in 1..Len(r.to) : \E n \in 1..Len(queue') :
              n > Len(t) /\ queue'[n] = SendOf(r.to[i], e.id, r.board.clip)
  BY <1>1 DEF Changed
<1> HIDE DEF t
<1>6. /\ r.board.owner = board[e.id].owner
      /\ Kept(board[e.id], r) \/ (Taken(board[e.id], e.from, active, r) /\ e.from = board[e.id].owner)
  <2>1. CASE ~e.gone /\ e.from \in connected
    <3>1. /\ r.board.owner = board[e.id].owner
          /\ r.unexpected <=> ~(e.seq < board[e.id].seq) /\ e.from # board[e.id].owner
          /\ Kept(board[e.id], r) \/ Taken(board[e.id], e.from, active, r)
          /\ e.seq < board[e.id].seq => Kept(board[e.id], r)
      BY <1>0, <1>3, <1>5, <2>1, OnClipboardChangedIs
    <3>2. ~r.unexpected
      BY <1>5
    <3> QED
      BY <3>1, <3>2
  <2>2. CASE ~(~e.gone /\ e.from \in connected)
    BY <1>3, <1>5, <2>2, QuietlyIs DEF Kept
  <2> QED
    BY <2>1, <2>2
<1>7. \A c, id : ~Bound(queue, c, id, 1) /\ ~Report("grabbed", queue, Primary, id, 1)
  BY <1>1, <1>2 DEF Bound, Report
<1>8. ASSUME NEW c \in connected, NEW id \in Ids, Clean(c, id), Unsoiled(c, id),
             \A k \in 1..Len(r.to) : id # e.id
      PROVE  Clean(c, id)'
  <2>1. Brought(queue, t, c, id, 1)
    BY <1>0, <1>4, BroughtMoved
  <2>2. Brought(t, queue', c, id, 0)
    <3>1. ASSUME NEW i \in 1..Len(queue'), i + 0 > Len(t)
          PROVE  queue'[i].type # "send" \/ queue'[i].to # c \/ queue'[i].id # id
      <4>1. i > Len(t)
        BY <3>1
      <4>2. PICK k \in 1..Len(r.to) : queue'[i] = SendOf(r.to[k], e.id, r.board.clip)
        BY <1>5, <3>1, <4>1
      <4>3. queue'[i].to = r.to[k] /\ queue'[i].id = e.id
        BY <4>2 DEF SendOf
      <4> QED
        BY <1>8, <4>3
    <3> QED
      BY <1>4, <1>5, <3>1, BroughtMoved
  <2>3. Brought(queue, queue', c, id, 1)
    <3>1. ASSUME NEW i \in Nat PROVE i + 0 = i
      BY <3>1
    <3> QED
      BY <2>1, <2>2, <3>1 DEF Brought
  <2>4. Untouched(down[c], down'[c], id) /\ Lasting(mine[c][id], mine'[c][id]) /\ c \in Clients
    BY <1>0, <1>1, <1>8 DEF Untouched, Lasting
  <2> QED
    BY <1>0, <1>7, <1>8, <2>3, <2>4, CleanStays
<1>9. ASSUME NEW c \in connected, NEW id \in Ids PROVE Clean(c, id)'
  <2>0. Clean(c, id) /\ c # Primary
    BY <1>0, <1>9 DEF Delivered
  <2>1. CASE id # e.id
    <3>1. Unsoiled(c, id) /\ \A k \in 1..Len(r.to) : id # e.id
      BY <1>4, <2>1 DEF Unsoiled
    <3> QED
      BY <1>8, <1>9, <2>0, <3>1
  <2>2. CASE id = e.id /\ Kept(board[e.id], r)
    <3>1. Unsoiled(c, id)
      BY <1>5, <1>6, <2>2 DEF Unsoiled, Kept
    <3>2. \A k \in 1..Len(r.to) : id # e.id
      <4>1. r.to = <<>>
        BY <2>2 DEF Kept
      <4> QED
        BY <4>1
    <3> QED
      BY <1>8, <1>9, <2>0, <3>1, <3>2
  <2>3. CASE id = e.id /\ Taken(board[e.id], e.from, active, r) /\ e.from = board[e.id].owner
    <3> SUFFICES ASSUME ~board'[id].dirty[c], board'[id].owner # c
                 PROVE  Arrives(queue', down'[c], mine'[c][id], c, id, board'[id].data)
      BY DEF Clean
    <3>1. c = active /\ r.to = <<c>> /\ r.board.clip = board'[id].data
      BY <1>0, <1>5, <1>6, <1>9, <2>0, <2>3 DEF Taken
    <3>2. ASSUME NEW i \in 1..Len(queue'), i > Len(t), Bound(queue', c, id, i)
          PROVE  queue'[i].value = board'[id].data
      <4>1. PICK k \in 1..Len(r.to) : queue'[i] = SendOf(r.to[k], e.id, r.board.clip)
        BY <1>5, <3>2
      <4> QED
        BY <3>1, <4>1 DEF SendOf
    <3>3. \E i \in 1..Len(queue') : i > Len(t) /\ Bound(queue', c, id, i)
      <4>1. 1 \in 1..Len(r.to) /\ r.to[1] = c
        BY <3>1
      <4>2. PICK i \in 1..Len(queue') : i > Len(t) /\ queue'[i] = SendOf(c, e.id, r.board.clip)
        BY <1>5, <4>1
      <4> QED
        BY <2>3, <4>2 DEF Bound, SendOf
    <3> QED
      BY <1>4, <1>5, <3>2, <3>3, ArrivesSent
  <2> QED
    BY <1>6, <2>1, <2>2, <2>3
<1>10. ASSUME NEW id \in Ids PROVE CleanHome(id)'
  <2>0. CleanHome(id)
    BY DEF Delivered
  <2>1. Called(queue, id) => Called(queue', id)
    <3>1. Carried(queue, t, Primary, 1)
      BY <1>0, <1>4, CarriedMoved
    <3>2. Carried(t, queue', Primary, 0)
      <4>1. ASSUME NEW i \in 1..Len(queue'), i + 0 > Len(t) PROVE queue'[i].type = "send"
        <5>1. i > Len(t)
          BY <4>1
        <5>2. PICK k \in 1..Len(r.to) : queue'[i] = SendOf(r.to[k], e.id, r.board.clip)
          BY <1>5, <4>1, <5>1
        <5> QED
          BY <5>2 DEF SendOf
      <4> QED
        BY <1>4, <1>5, <4>1, CarriedMoved
    <3>3. Carried(queue, queue', Primary, 1)
      <4>1. ASSUME NEW i \in Nat PROVE i + 0 = i
        BY <4>1
      <4>2. ASSUME NEW type, NEW k, NEW i \in Nat PROVE Report(type, t, Primary, k, i) => 0 < i
        BY <4>2 DEF Report
      <4> QED
        BY <3>1, <3>2, <4>1, <4>2 DEF Carried
    <3> QED
      BY <1>0, <1>7, <3>3, CalledCarried
  <2>2. CASE id # e.id \/ Kept(board[e.id], r)
    <3>1. CASE id # e.id
      BY <1>4, <2>0, <2>1, <3>1, HomeKept DEF Housed
    <3>2. CASE id = e.id /\ Kept(board[e.id], r)
      BY <1>5, <1>6, <2>0, <2>1, <3>2 DEF Kept, CleanHome
    <3> QED
      BY <2>2, <3>1, <3>2
  <2>3. CASE id = e.id /\ Taken(board[e.id], e.from, active, r) /\ e.from = board[e.id].owner
    BY <1>5, <1>6, <2>0, <2>1, <2>3 DEF Taken, CleanHome
  <2> QED
    BY <1>6, <2>2, <2>3
<1> QED
  BY <1>1, <1>9, <1>10 DEF Delivered

\* A step in which the queue is left alone, or gets an event that is no transfer.
LEMMA ElsewhereDelivers ==
    ASSUME ClipboardAssumption, Typed, Delivered, connected' = connected,
           \/ queue' = queue
           \/ \E x \in Events : x.type # "send" /\ queue' = Append(queue, x),
           \A id \in Ids : /\ board'[id].owner = board[id].owner /\ board'[id].data = board[id].data
                           /\ board'[id].clip = board[id].clip /\ board'[id].dirty = board[id].dirty
    PROVE  /\ \A c \in connected : \A id \in Ids :
                Untouched(down[c], down'[c], id) /\ Lasting(mine[c][id], mine'[c][id]) => Clean(c, id)'
           /\ \A id \in Ids : Called(queue, id) => Called(queue', id)
<1>0. queue \in Seq(Events) /\ connected \subseteq Clients
  BY DEF Typed, TypeOK
<1>1. /\ queue' \in Seq(Events) /\ Moved(queue, queue', 0)
      /\ \A i \in 1..Len(queue') : i > Len(queue) => queue'[i].type # "send"
  <2>1. CASE queue' = queue
    BY <1>0, <2>1 DEF Moved
  <2>2. ASSUME NEW x \in Events, x.type # "send", queue' = Append(queue, x)
        PROVE  /\ queue' \in Seq(Events) /\ Moved(queue, queue', 0)
               /\ \A i \in 1..Len(queue') : i > Len(queue) => queue'[i].type # "send"
    <3>1. /\ queue' \in Seq(Events) /\ Moved(queue, queue', 0)
          /\ Len(queue') = Len(queue) + 1 /\ queue'[Len(queue) + 1] = x /\ Len(queue) \in Nat
      BY <1>0, <2>2, MovedAppend
    <3>2. ASSUME NEW i \in 1..Len(queue'), i > Len(queue) PROVE queue'[i] = x
      <4>1. i = Len(queue) + 1
        BY <3>1, <3>2
      <4> QED
        BY <3>1, <4>1
    <3> QED
      BY <2>2, <3>1, <3>2
  <2> QED
    BY <2>1, <2>2
<1>2. ASSUME NEW c \in connected, NEW id \in Ids,
             Untouched(down[c], down'[c], id), Lasting(mine[c][id], mine'[c][id])
      PROVE  Clean(c, id)'
  <2>1. ASSUME NEW i \in 1..Len(queue'), i + 0 > Len(queue) PROVE queue'[i].type # "send"
    <3>1. i > Len(queue)
      BY <2>1
    <3> QED
      BY <1>1, <3>1
  <2>2. Brought(queue, queue', c, id, 0)
    BY <1>0, <1>1, <2>1, BroughtMoved
  <2>3. Unsoiled(c, id) /\ Clean(c, id) /\ c \in Clients
    BY <1>0, <1>2 DEF Unsoiled, Delivered
  <2> QED
    BY <1>2, <2>2, <2>3, CleanStays
<1>3. ASSUME NEW id \in Ids, Called(queue, id) PROVE Called(queue', id)
  <2>1. PICK i \in Nat : Report("grabbed", queue, Primary, id, i)
    BY <1>3 DEF Called
  <2>2. i \in 1..Len(queue) /\ i \in 1..Len(queue') /\ queue'[i] = queue[i]
    <3>1. i \in 1..Len(queue) /\ i + 0 = i /\ Len(queue) \in Nat /\ Len(queue') \in Nat
      BY <1>0, <1>1, <2>1 DEF Report
    <3> QED
      BY <1>1, <3>1 DEF Moved
  <2>3. Report("grabbed", queue', Primary, id, i)
    BY <2>1, <2>2, Zenon DEF Report
  <2> QED
    BY <2>3 DEF Called
<1> QED
  BY <1>2, <1>3

LEMMA ReceivedDelivers ==
    ASSUME ClipboardAssumption, Typed, Delivered, NEW d \in Clients, ReceiveFromClient(d)
    PROVE  Delivered'
<1>0. board \in [Ids -> Boards] /\ connected \subseteq Clients /\ up \in [Clients -> Seq(Messages)]
  BY DEF Typed, TypeOK
<1>1. PICK x \in Events :
        /\ queue' = Append(queue, x)
        /\ x.type = (IF up[d][1].type = "grab" THEN "grabbed" ELSE "changed")
        /\ UNCHANGED <<connected, clientVars, down>>
  BY ReceivedIs
<1>2. x.type # "send" /\ mine' = mine
  BY <1>1 DEF clientVars
<1> DEFINE m == Head(up[d])
<1>3. board' = board \/ board' = [board EXCEPT ![m.id].cached[d] = m.value]
  BY DEF ReceiveFromClient
<1> HIDE DEF m
<1>4. ASSUME NEW id \in Ids PROVE Housed(id) /\ board'[id].dirty = board[id].dirty
  <2>1. CASE board' = board
    BY <2>1 DEF Housed
  <2>2. CASE board' = [board EXCEPT ![m.id].cached[d] = m.value]
    <3>1. board[id] \in Boards
      BY <1>0
    <3>2. CASE id = m.id
      BY <1>0, <2>2, <3>1, <3>2 DEF Housed, Boards
    <3>3. CASE id # m.id
      BY <1>0, <2>2, <3>3 DEF Housed
    <3> QED
      BY <3>2, <3>3
  <2> QED
    BY <1>3, <2>1, <2>2
<1>5. /\ \A c \in connected : \A id \in Ids :
           Untouched(down[c], down'[c], id) /\ Lasting(mine[c][id], mine'[c][id]) => Clean(c, id)'
      /\ \A id \in Ids : Called(queue, id) => Called(queue', id)
  BY <1>1, <1>2, <1>4, ElsewhereDelivers DEF Housed
<1>6. \A c \in connected : \A id \in Ids : Untouched(down[c], down'[c], id) /\ Lasting(mine[c][id], mine'[c][id])
  BY <1>1, <1>2 DEF Untouched, Lasting
<1>7. \A id \in Ids : CleanHome(id)'
  BY <1>4, <1>5, HomeKept DEF Delivered
<1> QED
  BY <1>1, <1>5, <1>6, <1>7 DEF Delivered

LEMMA PrimaryDelivers ==
    ASSUME ClipboardAssumption, Typed, Delivered, NEW id \in Ids, PrimaryCopies(id)
    PROVE  Delivered'
<1> DEFINE x == [type |-> "grabbed", from |-> Primary, id |-> id, seq |-> primarySeq, gone |-> FALSE]
<1>0. board \in [Ids -> Boards] /\ connected \subseteq Clients /\ primarySeq \in Seqs /\ queue \in Seq(Events)
  BY DEF Typed, TypeOK
<1>1. /\ board' = [board EXCEPT ![id].shown = Len(made'), ![id].held = FALSE]
      /\ queue' = IF board[id].held THEN Append(queue, x) ELSE queue
      /\ UNCHANGED <<connected, clientVars, netVars>>
  BY DEF PrimaryCopies, Held
<1>2. mine' = mine /\ down' = down /\ x \in Events /\ x.type # "send"
  BY <1>0, <1>1 DEF clientVars, netVars, Events, Screens
<1>3. x.type = "grabbed" /\ x.from = Primary /\ x.id = id /\ ~x.gone
  OBVIOUS
<1> HIDE DEF x
<1>4. ASSUME NEW k \in Ids
      PROVE  /\ board'[k].owner = board[k].owner /\ board'[k].data = board[k].data
             /\ board'[k].clip = board[k].clip /\ board'[k].dirty = board[k].dirty
             /\ IF k = id THEN ~board'[k].held ELSE Housed(k)
  <2>1. board[k] \in Boards
    BY <1>0
  <2>2. CASE k = id
    BY <1>0, <1>1, <2>1, <2>2 DEF Boards
  <2>3. CASE k # id
    BY <1>0, <1>1, <2>3 DEF Housed
  <2> QED
    BY <2>2, <2>3
<1>5. queue' = queue \/ \E y \in Events : y.type # "send" /\ queue' = Append(queue, y)
  BY <1>1, <1>2
<1>6. /\ \A c \in connected : \A k \in Ids :
           Untouched(down[c], down'[c], k) /\ Lasting(mine[c][k], mine'[c][k]) => Clean(c, k)'
      /\ \A k \in Ids : Called(queue, k) => Called(queue', k)
  BY <1>1, <1>4, <1>5, ElsewhereDelivers
<1>7. \A c \in connected : \A k \in Ids : Untouched(down[c], down'[c], k) /\ Lasting(mine[c][k], mine'[c][k])
  BY <1>2 DEF Untouched, Lasting
<1>8. board[id].held => Called(queue', id)
  <2> SUFFICES ASSUME queue' = Append(queue, x) PROVE Called(queue', id)
    BY <1>1
  <2>1. PICK n \in Nat : n = Len(queue) + 1
    BY <1>0
  <2>2. n \in 1..Len(queue') /\ queue'[n] = x
    BY <1>0, <1>2, <2>1, MovedAppend
  <2>3. Report("grabbed", queue', Primary, id, n)
    BY <1>3, <2>2 DEF Report
  <2> QED
    BY <2>3 DEF Called
<1>9. ASSUME NEW k \in Ids PROVE CleanHome(k)'
  <2>0. CleanHome(k)
    BY DEF Delivered
  <2>1. CASE k = id
    BY <1>4, <1>6, <1>8, <2>0, <2>1 DEF CleanHome
  <2>2. CASE k # id
    BY <1>4, <1>6, <2>0, <2>2, HomeKept
  <2> QED
    BY <2>1, <2>2
<1> QED
  BY <1>1, <1>6, <1>7, <1>9 DEF Delivered

\* A step of clients that the server does not see.
LEMMA RemoteDelivers ==
    ASSUME ClipboardAssumption, Typed, Delivered, connected' = connected, queue' = queue, board' = board,
           \A c \in connected : \A id \in Ids :
             \/ Untouched(down[c], down'[c], id) /\ Lasting(mine[c][id], mine'[c][id])
             \/ Clean(c, id)'
    PROVE  Delivered'
<1>1. /\ \A c \in connected : \A id \in Ids :
           Untouched(down[c], down'[c], id) /\ Lasting(mine[c][id], mine'[c][id]) => Clean(c, id)'
      /\ \A id \in Ids : Called(queue, id) => Called(queue', id)
  BY ElsewhereDelivers
<1>2. \A id \in Ids : CleanHome(id)'
  BY <1>1, HomeKept DEF Delivered, Housed
<1> QED
  BY <1>1, <1>2 DEF Delivered

LEMMA CopyDelivers ==
    ASSUME ClipboardAssumption, Typed, Delivered, NEW d \in Clients, NEW id \in Ids, ClientCopies(d, id)
    PROVE  Delivered'
<1>0. mine \in [Clients -> [Ids -> Clips]] /\ connected \subseteq Clients
  BY DEF Typed, TypeOK
<1>1. /\ mine' = [mine EXCEPT ![d][id].shown = Len(made'), ![d][id].held = FALSE]
      /\ connected' = connected /\ queue' = queue /\ board' = board /\ down' = down
  BY DEF ClientCopies, serverVars, netVars
<1>2. ASSUME NEW c \in connected, NEW k \in Ids
      PROVE  Untouched(down[c], down'[c], k) /\ Lasting(mine[c][k], mine'[c][k])
  <2>0. c \in Clients /\ mine[c][k] \in Clips
    BY <1>0, <1>2
  <2>1. CASE c = d /\ k = id
    <3>1. ~mine'[c][k].held
      BY <1>0, <1>1, <2>0, <2>1 DEF Clips
    <3> QED
      BY <1>1, <3>1 DEF Untouched, Lasting
  <2>2. CASE ~(c = d /\ k = id)
    <3>1. mine'[c][k] = mine[c][k]
      BY <1>0, <1>1, <2>0, <2>2
    <3> QED
      BY <1>1, <3>1 DEF Untouched, Lasting
  <2> QED
    BY <2>1, <2>2
<1> QED
  BY <1>1, <1>2, RemoteDelivers

LEMMA GrabDelivers ==
    ASSUME ClipboardAssumption, Typed, Delivered, NEW d \in Clients, ClientGrabs(d)
    PROVE  Delivered'
<1>0. mine \in [Clients -> [Ids -> Clips]] /\ connected \subseteq Clients
  BY DEF Typed, TypeOK
<1>1. connected' = connected /\ queue' = queue /\ board' = board /\ down' = down
  BY DEF ClientGrabs, serverVars
<1>2. PICK id \in Ids : Grabs(d, id)
  BY ClientGrabsIs
<1>3. PICK m \in Clips :
         mine' = [mine EXCEPT ![d][id] = m] /\ m.shown = mine[d][id].shown /\ m.held = mine[d][id].held
  BY <1>2 DEF Grabs
<1>4. ASSUME NEW c \in connected, NEW k \in Ids
      PROVE  Untouched(down[c], down'[c], k) /\ Lasting(mine[c][k], mine'[c][k])
  <2>1. mine'[c][k] = IF c = d /\ k = id THEN m ELSE mine[c][k]
    BY <1>0, <1>3, <1>4
  <2> QED
    BY <1>1, <1>3, <2>1 DEF Untouched, Lasting
<1> QED
  BY <1>1, <1>4, RemoteDelivers

LEMMA SendsDelivers ==
    ASSUME ClipboardAssumption, Typed, Delivered, NEW d \in Clients,
           ClientSends(d) \/ ClientSendsStale(d)
    PROVE  Delivered'
<1>1. connected' = connected /\ queue' = queue /\ board' = board /\ down' = down /\ mine' = mine
  BY DEF ClientSends, ClientSendsStale, serverVars, netVars
<1>2. \A c \in connected : \A id \in Ids : Untouched(down[c], down'[c], id) /\ Lasting(mine[c][id], mine'[c][id])
  BY <1>1 DEF Untouched, Lasting
<1> QED
  BY <1>1, <1>2, RemoteDelivers

\* A client handles a message: a grab or contents are on its clipboard then.
LEMMA ArrivesReceived ==
    ASSUME NEW q, NEW c, NEW id, NEW x, NEW w \in Seq(Messages), w # <<>>, NEW m, NEW r,
           IF Lays(w[1], id) THEN r.shown = Value(w[1]) ELSE r.shown = m.shown /\ r.held = m.held,
           Arrives(q, w, m, c, id, x)
    PROVE  Arrives(q, Tail(w), r, c, id, x)
<1> SUFFICES ASSUME ~Sending(q, c, id)
             PROVE  CoversLast(Tail(w), id, x) /\ (~Covering(Tail(w), id) /\ r.held => r.shown = x)
  BY DEF Arrives
<1>1. PICK p : p = Tail(w)
  OBVIOUS
<1>2. CoversLast(w, id, x) /\ (~Covering(w, id) /\ m.held => m.shown = x)
  BY DEF Arrives
<1>3. /\ CoversLast(p, id, x)
      /\ Covering(w, id) => Covering(p, id) \/ Over(w, id, 1)
      /\ Over(w, id, 1) => Covering(p, id) \/ Value(w[1]) = x
  BY <1>1, <1>2, CoversTail
<1>4. Over(w, id, 1) <=> Lays(w[1], id)
  BY DEF Over
<1>5. ASSUME ~Covering(p, id), r.held PROVE r.shown = x
  <2>1. CASE Lays(w[1], id)
    BY <1>3, <1>4, <1>5, <2>1
  <2>2. CASE ~Lays(w[1], id)
    BY <1>2, <1>3, <1>4, <1>5, <2>2
  <2> QED
    BY <2>1, <2>2
<1> QED
  BY <1>1, <1>3, <1>5

LEMMA ReceivesDelivers ==
    ASSUME ClipboardAssumption, Typed, Delivered, NEW d \in Clients, ClientReceives(d)
    PROVE  Delivered'
<1>0. /\ mine \in [Clients -> [Ids -> Clips]] /\ connected \subseteq Clients
      /\ down \in [Clients -> Seq(Messages)]
  BY DEF Typed, TypeOK
<1>1. PICK m : m = down[d][1]
  OBVIOUS
<1>2. /\ down[d] # <<>> /\ down' = [down EXCEPT ![d] = Tail(@)]
      /\ Enters(d, m) \/ Leaves(d, m) \/ Overwrites(d, m)
      /\ connected' = connected /\ queue' = queue /\ board' = board
  BY <1>1, ClientReceivesIs DEF serverVars
<1>3. ASSUME NEW c \in connected, NEW id \in Ids, c # d PROVE mine'[c][id] = mine[c][id]
  BY <1>0, <1>2, <1>3 DEF Enters, Leaves, Overwrites
<1>4. ASSUME NEW id \in Ids
      PROVE  IF Lays(m, id) THEN mine'[d][id].shown = Value(m)
             ELSE mine'[d][id].shown = mine[d][id].shown /\ mine'[d][id].held = mine[d][id].held
  <2>1. CASE Enters(d, m)
    BY <2>1 DEF Enters, Lays
  <2>2. CASE Leaves(d, m)
    <3>1. PICK f \in [Ids -> Clips] :
            /\ mine' = [mine EXCEPT ![d] = f]
            /\ \A k \in Ids :
                 /\ f[k].own = mine[d][k].own /\ f[k].held = mine[d][k].held
                 /\ f[k].shown = mine[d][k].shown
                 /\ f[k].own => ~Sendable(f[k])
      BY <2>2 DEF Leaves
    <3>2. mine'[d][id] = f[id] /\ ~Lays(m, id)
      BY <1>0, <2>2, <3>1 DEF Leaves, Lays
    <3> QED
      BY <3>1, <3>2
  <2>3. CASE Overwrites(d, m)
    <3>1. PICK x \in Clips : mine' = [mine EXCEPT ![d][m.id] = x] /\ x.shown = Value(m)
      BY <2>3 DEF Overwrites
    <3>2. /\ mine'[d][id] = IF m.id = id THEN x ELSE mine[d][id]
          /\ Lays(m, id) <=> m.id = id
      BY <1>0, <2>3, <3>1 DEF Overwrites, Lays
    <3> QED
      BY <3>1, <3>2
  <2> QED
    BY <1>2, <2>1, <2>2, <2>3
<1>5. ASSUME NEW c \in connected, NEW id \in Ids
      PROVE  \/ Untouched(down[c], down'[c], id) /\ Lasting(mine[c][id], mine'[c][id])
             \/ Clean(c, id)'
  <2>1. CASE c # d
    <3>1. down'[c] = down[c] /\ mine'[c][id] = mine[c][id]
      BY <1>0, <1>2, <1>3, <2>1
    <3> QED
      BY <3>1 DEF Untouched, Lasting
  <2>2. CASE c = d
    <3>1. down'[d] = Tail(down[d]) /\ down[d] \in Seq(Messages)
      BY <1>0, <1>2
    <3>2. ASSUME Arrives(queue, down[d], mine[d][id], d, id, board[id].data)
          PROVE  Arrives(queue, Tail(down[d]), mine'[d][id], d, id, board[id].data)
      BY <1>1, <1>2, <1>4, <3>1, <3>2, ArrivesReceived
    <3>3. Clean(d, id)
      BY <2>2 DEF Delivered
    <3> QED
      BY <1>2, <2>2, <3>1, <3>2, <3>3 DEF Clean
  <2> QED
    BY <2>1, <2>2
<1> QED
  BY <1>2, <1>5, RemoteDelivers

\* A client that connects is dirty.
LEMMA JoinDelivers ==
    ASSUME ClipboardAssumption, Typed, Delivered, NEW d \in Clients, Join(d)
    PROVE  Delivered'
<1>0. /\ mine \in [Clients -> [Ids -> Clips]] /\ connected \subseteq Clients
      /\ board \in [Ids -> Boards] /\ d # Primary /\ queue \in Seq(Events)
  BY DEF Typed, TypeOK, ClipboardAssumption
<1>1. /\ connected' = connected \cup {d} /\ queue' = queue /\ down' = down
      /\ board' = [id \in Ids |-> [board[id] EXCEPT !.dirty[d] = TRUE, !.cached[d] = 0]]
      /\ mine' = [mine EXCEPT ![d] = [id \in Ids |-> Overwritten(@[id], 0)]]
  BY DEF Join, netVars
<1>2. ASSUME NEW id \in Ids
      PROVE  /\ Housed(id) /\ board'[id].dirty[d]
             /\ \A c \in Screens : c # d => board'[id].dirty[c] = board[id].dirty[c]
  <2>1. board[id] \in Boards /\ board'[id] = [board[id] EXCEPT !.dirty[d] = TRUE, !.cached[d] = 0]
    BY <1>0, <1>1
  <2>2. /\ board'[id].dirty = [board[id].dirty EXCEPT ![d] = TRUE]
        /\ board'[id].owner = board[id].owner /\ board'[id].data = board[id].data
        /\ board'[id].clip = board[id].clip
        /\ board'[id].held = board[id].held /\ board'[id].shown = board[id].shown
        /\ board[id].dirty \in [Screens -> BOOLEAN] /\ d \in Screens /\ Primary \in Screens
    BY <2>1 DEF Boards, Screens
  <2> QED
    BY <1>0, <2>2 DEF Housed
<1>3. ASSUME NEW c \in connected', NEW id \in Ids PROVE Clean(c, id)'
  <2>1. CASE c = d
    BY <1>2, <2>1 DEF Clean
  <2>2. CASE c # d
    <3>1. c \in connected /\ c \in Screens /\ mine'[c] = mine[c] /\ Clean(c, id)
      BY <1>0, <1>1, <1>3, <2>2 DEF Screens, Delivered
    <3>2. Brought(queue, queue', c, id, 0)
      <4>1. \A i \in Nat : i + 0 = i
        OBVIOUS
      <4> QED
        BY <1>1, <4>1, BoundPlace, <1>0 DEF Brought
    <3>3. Unsoiled(c, id) /\ Untouched(down[c], down'[c], id) /\ Lasting(mine[c][id], mine'[c][id])
      <4>1. /\ board'[id].dirty[c] = board[id].dirty[c]
            /\ board'[id].owner = board[id].owner /\ board'[id].data = board[id].data
        BY <1>2, <2>2, <3>1 DEF Housed
      <4>2. Unsoiled(c, id)
        BY <4>1, Zenon DEF Unsoiled
      <4> QED
        BY <1>1, <3>1, <4>2 DEF Untouched, Lasting
    <3> QED
      BY <1>0, <3>1, <3>2, <3>3, CleanStays
  <2> QED
    BY <2>1, <2>2
<1>4. \A id \in Ids : CleanHome(id)'
  BY <1>1, <1>2, HomeKept DEF Delivered
<1> QED
  BY <1>3, <1>4 DEF Delivered

LEMMA DepartDelivers ==
    ASSUME ClipboardAssumption, Typed, Delivered, NEW d \in Clients, Depart(d)
    PROVE  Delivered'
<1>0. /\ queue \in Seq(Events) /\ connected \subseteq Clients /\ Primary \notin Clients
      /\ down \in [Clients -> Seq(Messages)]
  BY DEF Typed, TypeOK, ClipboardAssumption
<1>1. /\ connected' = connected \ {d} /\ board' = board /\ mine' = mine
      /\ queue' = [i \in DOMAIN queue |-> Orphan(queue[i], d)]
      /\ down' = [down EXCEPT ![d] = <<>>]
  BY DEF Depart, clientVars
<1>2. /\ 1..Len(queue') = 1..Len(queue)
      /\ \A i \in 1..Len(queue) : queue'[i] = Orphan(queue[i], d) /\ queue[i] \in Events
  BY <1>0, <1>1
<1>3. ASSUME NEW i \in 1..Len(queue)
      PROVE  /\ queue'[i].type = queue[i].type /\ queue'[i].id = queue[i].id
             /\ queue[i].type # "send" =>
                  /\ queue'[i].from = queue[i].from
                  /\ queue'[i].gone <=> queue[i].gone \/ queue[i].from = d
             /\ queue[i].type = "send" =>
                  /\ queue'[i].to = queue[i].to /\ queue'[i].value = queue[i].value
                  /\ queue'[i].gone <=> queue[i].gone \/ queue[i].to = d
  BY <1>2, <1>3, OrphanIs
<1>4. ASSUME NEW c \in connected', NEW id \in Ids PROVE Clean(c, id)'
  <2>1. c \in connected /\ c \in Clients /\ c # d /\ down'[c] = down[c] /\ Clean(c, id)
    BY <1>0, <1>1, <1>4 DEF Delivered
  <2>2. ASSUME NEW i \in Nat
        PROVE  /\ Bound(queue', c, id, i) <=> Bound(queue, c, id, i)
               /\ Bound(queue, c, id, i) => queue'[i].value = queue[i].value /\ 0 < i
    BY <1>2, <1>3, <2>1 DEF Bound
  <2>3. Brought(queue, queue', c, id, 0)
    <3>1. \A i \in Nat : i + 0 = i
      OBVIOUS
    <3> QED
      BY <2>2, <3>1 DEF Brought
  <2>4. Unsoiled(c, id) /\ Untouched(down[c], down'[c], id) /\ Lasting(mine[c][id], mine'[c][id])
    BY <1>1, <2>1 DEF Unsoiled, Untouched, Lasting
  <2> QED
    BY <2>1, <2>3, <2>4, CleanStays
<1>5. ASSUME NEW id \in Ids, Called(queue, id) PROVE Called(queue', id)
  <2>1. PICK i \in Nat : Report("grabbed", queue, Primary, id, i)
    BY <1>5 DEF Called
  <2>2. Report("grabbed", queue', Primary, id, i)
    BY <1>0, <1>2, <1>3, <2>1 DEF Report
  <2> QED
    BY <2>2 DEF Called
<1>6. \A id \in Ids : CleanHome(id)'
  BY <1>1, <1>5, HomeKept DEF Delivered, Housed
<1> QED
  BY <1>4, <1>6 DEF Delivered

-----------------------------------------------------------------------------
(* A screen that is clean is up to date *)

LEMMA InitDelivers == ASSUME ClipboardAssumption, Init PROVE Delivered
<1>1. connected = {} /\ \A id \in Ids :
        /\ board[id].owner = Primary /\ board[id].clip = 0 /\ board[id].data = 0
  BY DEF Init
<1> QED
  BY <1>1 DEF Delivered, CleanHome

LEMMA DeliveredStep == ClipboardAssumption /\ IInv /\ Delivered /\ [Next]_vars => Delivered'
<1> SUFFICES ASSUME ClipboardAssumption, IInv, Delivered, [Next]_vars PROVE Delivered'
  OBVIOUS
<1>0. Typed /\ ~unexpected'
  BY IInvStep DEF IInv, ExpectedSender
<1>1. CASE UNCHANGED vars
  <2>1. connected' = connected /\ queue' = queue /\ board' = board /\ down' = down /\ mine' = mine
    BY <1>1 DEF serverVars, netVars, clientVars, vars
  <2>2. \A c \in connected : \A id \in Ids :
          Untouched(down[c], down'[c], id) /\ Lasting(mine[c][id], mine'[c][id])
    BY <2>1 DEF Untouched, Lasting
  <2> QED
    BY <1>0, <2>1, <2>2, RemoteDelivers
<1>2. CASE HandleClipboardGrabbed
  <2>1. PICK e : e = Head(queue)
    OBVIOUS
  <2>2. /\ queue # <<>> /\ e.type = "grabbed" /\ (Refused(e) \/ Grabbed(e))
        /\ UNCHANGED <<connected, active, seqNum, primarySeq, clientVars, up, bookVars>>
    BY <1>0, <1>2, <2>1, HandleClipboardGrabbedIs
  <2>3. CASE Refused(e)
    BY <2>1, <2>2, <2>3, RefusedDelivers
  <2>4. CASE Grabbed(e)
    BY <2>1, <2>2, <2>4, GrabbedDelivers
  <2> QED
    BY <2>2, <2>3, <2>4
<1>3. CASE HandleClipboardChanged
  BY <1>0, <1>3, ChangedDelivers
<1>4. CASE SendQueued
  BY <1>4, SentDelivers
<1>5. ASSUME NEW c \in Clients, ReceiveFromClient(c) PROVE Delivered'
  BY <1>0, <1>5, ReceivedDelivers
<1>6. ASSUME NEW dst \in Screens, SwitchScreen(dst) PROVE Delivered'
  BY <1>0, <1>6, SwitchDelivers
<1>7. ASSUME NEW id \in Ids, PrimaryCopies(id) PROVE Delivered'
  BY <1>0, <1>7, PrimaryDelivers
<1>8. ASSUME NEW id \in Ids, NEW c \in Clients, ClientCopies(c, id) PROVE Delivered'
  BY <1>0, <1>8, CopyDelivers
<1>9. ASSUME NEW c \in Clients, ClientStep(c) \/ Join(c) \/ Depart(c) PROVE Delivered'
  BY <1>0, <1>9, GrabDelivers, SendsDelivers, ReceivesDelivers, JoinDelivers, DepartDelivers DEF ClientStep
<1> QED
  BY <1>1, <1>2, <1>3, <1>4, <1>5, <1>6, <1>7, <1>8, <1>9 DEF Next, ServerStep

\* Nothing is on its way to a screen any more.
LEMMA DeliveredCurrent ==
    ASSUME ClipboardAssumption, IInv, Delivered PROVE CleanIsCurrent
<1> SUFFICES ASSUME Quiet, NEW id \in Ids, NEW s \in connected \cup {Primary},
                    ~board[id].dirty[s], s # board[id].owner
             PROVE  Shown(s, id) = board[id].data
  BY DEF CleanIsCurrent
<1>0. /\ queue = <<>> /\ connected \subseteq Clients /\ Primary \notin Clients
      /\ \A c \in Clients : clientQueue[c] = <<>> /\ down[c] = <<>> /\ up[c] = <<>>
  BY DEF IInv, Typed, TypeOK, Quiet, ClipboardAssumption
<1>1. \A i : i \notin 1..Len(<<>>)
  OBVIOUS
<1>2. \A c : ~Sending(queue, c, id) /\ \A type, n : ~Reporting(type, queue, c, id, n) /\ ~Called(queue, id)
  BY <1>0, <1>1 DEF Sending, Bound, Reporting, Report, Called
<1>3. CASE s = Primary
  <2>1. CleanHome(id)
    BY DEF Delivered
  <2> QED
    BY <1>2, <1>3, <2>1 DEF CleanHome, Shown
<1>4. CASE s \in connected
  <2>1. /\ ~Covering(down[s], id) /\ \A i \in Nat : ~GrabAt(down[s], id, i)
        /\ ~Asks(clientQueue[s], id) /\ \A n : ~Rising("grab", up[s], id, n)
    BY <1>0, <1>1, <1>4 DEF Covering, Over, GrabAt, Asks, Asked, Rising, Upward
  <2>2. mine[s][id].held
    BY <1>2, <1>4, <2>1 DEF IInv, Bearings, Keeps, Awaited, Sought
  <2>3. Clean(s, id)
    BY <1>4 DEF Delivered
  <2> QED
    BY <1>0, <1>2, <1>4, <2>1, <2>2, <2>3 DEF Clean, Arrives, Shown
<1> QED
  BY <1>3, <1>4

\* Once nothing is under way, a screen that the server does not hold to be dirty has
\* the contents of the clipboard or owns it: nothing that is sent to it gets lost or
\* overtaken by something older, as long as something is copied only where the cursor
\* is and the platform reports what is copied while messages are under way.
THEOREM CleanStaysCurrent == Considerate => (Spec => []CleanIsCurrent)
<1> SUFFICES ASSUME Considerate PROVE Spec => []CleanIsCurrent
  OBVIOUS
<1>1. Init => IInv /\ Delivered
  BY InitIInv, InitDelivers, ClipboardAssumption
<1>2. IInv /\ Delivered /\ [Next]_vars => (IInv /\ Delivered)'
  BY IInvStep, DeliveredStep, ClipboardAssumption
<1>3. IInv /\ Delivered => CleanIsCurrent
  BY DeliveredCurrent, ClipboardAssumption
<1> QED
  BY <1>1, <1>2, <1>3, PTL DEF Spec
=============================================================================
