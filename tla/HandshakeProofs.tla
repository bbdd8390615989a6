-------------------------- MODULE HandshakeProofs --------------------------
(***************************************************************************)
(* Theorems about Handshake, for any connections and any number of         *)
(* messages.                                                               *)
(*                                                                         *)
(* The invariant is about one connection at a time: Fit says which states  *)
(* of its objects go together, Mail what may wait for them in the queue    *)
(* and in which order.                                                     *)
(***************************************************************************)
EXTENDS Handshake, SequenceTheorems, WellFoundedInduction, TLAPS

-----------------------------------------------------------------------------
(* The invariant *)

Has(q, kind, c) == \E i \in 1..Len(q) : q[i] = Event(kind, c)

\* No second comes behind a first.
Never(q, first, second, c) ==
    \A i, j \in 1..Len(q) : i < j /\ q[i] = Event(first, c) => q[j] # Event(second, c)

\* Nothing but the socket is there yet.
Unmet(k) ==
    /\ k.stream = "none" /\ k.proxy = "none" /\ k.owns = "nothing" /\ k.reads = "nobody"
    /\ k.readied = "nobody" /\ k.hangup = "nobody" /\ k.place = "none"
    /\ k.parser = "handshake" /\ k.wire = <<>> /\ k.buffer = <<>>

Fit(k) ==
    /\ k.unknown = "none" => Unmet(k)
    /\ k.accepting => k.unknown = "none"
    /\ k.timer => k.unknown = "live"
    /\ k.owns = "stream" => k.unknown = "live" /\ k.proxy = "none" /\ k.stream = "live"
    /\ k.owns = "proxy" => k.unknown = "live" /\ k.proxy = "live" /\ k.hangup = "unknown"
    /\ k.reads = "unknown" => k.owns = "stream"
    /\ k.reads = "proxy" => k.proxy = "live"
    /\ k.proxy = "none" => k.hangup = "nobody" /\ k.parser = "handshake"
    /\ k.proxy = "live" => k.stream = "live" /\ k.hangup # "nobody"
    /\ k.proxy = "live" /\ k.hangup = "unknown" => k.owns = "proxy"
    /\ k.hangup \in {"listener", "server"} =>
          k.proxy = "live" /\ k.unknown = "deleted" /\ k.owns = "nothing" /\ k.parser = "normal"
    /\ k.place = "none" <=> k.hangup # "server"
    /\ k.readied = "unknown" => k.hangup = "unknown"
    /\ k.ready => k.parser = "normal"

Mail(q, c, k) ==
    /\ Has(q, "connecting", c) => k = Fresh
    /\ Never(q, "connecting", "connecting", c)
    /\ Never(q, "success", "ready", c)
    /\ Never(q, "failure", "ready", c)
    /\ Never(q, "failure", "disconnected", c)
    /\ Never(q, "disconnected", "ready", c)
    /\ Never(q, "disconnected", "disconnected", c)
    /\ Has(q, "ready", c) \/ Has(q, "success", c) => k.parser = "normal"
    /\ Has(q, "failure", c) => k.reads = "nobody" /\ k.owns # "proxy" /\ k.unknown # "none"
    /\ Has(q, "disconnected", c) => k.reads = "nobody" /\ k.proxy # "none"
    /\ Has(q, "success", c) /\ k.owns = "proxy" => k.ready
    /\ k.hangup = "unknown" /\ k.owns # "proxy" =>
          ~Has(q, "ready", c) /\ ~Has(q, "disconnected", c)
    /\ k.unknown = "live" => k.timer \/ Has(q, "success", c) \/ Has(q, "failure", c)
    /\ k.reads # "nobody" /\ k.wire # <<>> => Has(q, "input", c)

Early(q, c, k, p) == p = "away" => k = Fresh /\ ~Has(q, "connecting", c)

Distinct(w) == \A i, j \in 1..Len(w) : w[i] = w[j] => i = j
InLine(w, c) == \E i \in 1..Len(w) : w[i] = c

Lined ==
    /\ Distinct(waiting)
    /\ \A c \in Conns : InLine(waiting, c) <=> conn[c].hangup = "listener"

Good(q, c, k, p) == Fit(k) /\ Mail(q, c, k) /\ Early(q, c, k, p)

Inv ==
    /\ TypeOK
    /\ \A c \in Conns : Good(queue, c, conn[c], peer[c])
    /\ Lined

HasKind(q, kind) == \E i \in 1..Len(q) : q[i].kind = kind

\* Something is accepted after the server has quit.
Late(q) == \E i, j \in 1..Len(q) : i < j /\ q[i].kind = "quit" /\ q[j].kind = "accepted"

\* While no connections arrive once the server stops.
Shut ==
    /\ phase = "serving" => ~HasKind(queue, "quit")
    /\ phase # "serving" => ~HasKind(queue, "connecting")
    /\ phase = "stopped" => ~HasKind(queue, "accepted")
    /\ ~Late(queue)

\* While clients only say what they are asked for.
Polite(k, s) ==
    /\ ~k.stray
    /\ k.unknown = "none" => s = <<>>
    /\ k.reads # "nobody" => k.buffer = <<>>
    /\ k.proxy = "none" => ~k.alarm
    /\ k.reads = "unknown" => k.wire = <<>> \/ (k.wire = s /\ Len(s) = 1)
    /\ k.reads = "proxy" /\ k.parser = "handshake" =>
          /\ ~k.alarm
          /\ IF k.wire = <<>> THEN k.socket = "open" => s = <<"hello">>
             ELSE Head(k.wire) \in {"info", "badInfo"}

PInv == \A c \in Conns : Polite(conn[c], said[c])

-----------------------------------------------------------------------------
(* What waits in a queue *)

\* A queue r, of what is in q and then in p.
Joined(q, p, r, c) ==
    /\ \A kind : Has(r, kind, c) <=> Has(q, kind, c) \/ Has(p, kind, c)
    /\ \A first, second :
          Never(q, first, second, c) /\ Never(p, first, second, c)
          /\ ~(Has(q, first, c) /\ Has(p, second, c)) => Never(r, first, second, c)

\* A queue r, of what is in q without the first.
Beheaded(q, r, c) ==
    /\ \A kind : Has(q, kind, c) <=> Head(q) = Event(kind, c) \/ Has(r, kind, c)
    /\ \A first, second : Never(q, first, second, c) =>
          Never(r, first, second, c)
          /\ (Head(q) = Event(first, c) => ~Has(r, second, c))

Entry == [kind : EventKinds, conn : Conns \cup {Everyone}]

LEMMA TailOfQueue ==
    ASSUME NEW q \in Seq(Entry), q # <<>>
    PROVE  /\ Tail(q) \in Seq(Entry) /\ Len(Tail(q)) = Len(q) - 1 /\ Len(q) \in Nat /\ Len(q) > 0
           /\ Head(q) = q[1] /\ Head(q) \in Entry
           /\ \A i \in 1..Len(Tail(q)) : Tail(q)[i] = q[i + 1]
  OBVIOUS

LEMMA Beheading == ASSUME NEW q \in Seq(Entry), q # <<>>, NEW c PROVE Beheaded(q, Tail(q), c)
<1> DEFINE r == Tail(q)
<1>1. /\ Len(r) = Len(q) - 1 /\ Len(q) \in Nat /\ Len(q) > 0 /\ Head(q) = q[1]
      /\ \A i \in 1..Len(r) : r[i] = q[i + 1]
  BY TailOfQueue
<1> HIDE DEF r
<1>2. ASSUME NEW kind PROVE Has(q, kind, c) <=> Head(q) = Event(kind, c) \/ Has(r, kind, c)
  <2>1. ASSUME NEW i \in 1..Len(q), q[i] = Event(kind, c), i # 1
        PROVE  i - 1 \in 1..Len(r) /\ r[i - 1] = q[i]
    BY <1>1, <2>1
  <2>2. ASSUME NEW i \in 1..Len(r) PROVE i + 1 \in 1..Len(q) /\ q[i + 1] = r[i]
    BY <1>1
  <2>3. 1 \in 1..Len(q)
    BY <1>1
  <2> QED
    BY <1>1, <2>1, <2>2, <2>3 DEF Has
<1>3. ASSUME NEW first, NEW second, Never(q, first, second, c)
      PROVE  /\ Never(r, first, second, c)
             /\ Head(q) = Event(first, c) => ~Has(r, second, c)
  <2>1. ASSUME NEW i \in 1..Len(r) PROVE i + 1 \in 1..Len(q) /\ q[i + 1] = r[i] /\ 1 < i + 1
    BY <1>1
  <2>2. ASSUME NEW i \in 1..Len(r), NEW j \in 1..Len(r), i < j PROVE i + 1 < j + 1
    BY <1>1, <2>2
  <2>3. Never(r, first, second, c)
    BY <1>3, <2>1, <2>2 DEF Never
  <2>4. 1 \in 1..Len(q)
    BY <1>1
  <2>5. ASSUME Head(q) = Event(first, c), NEW j \in 1..Len(r) PROVE r[j] # Event(second, c)
    BY <1>1, <1>3, <2>1, <2>4, <2>5 DEF Never
  <2> QED
    BY <2>3, <2>5 DEF Has
<1> QED
  BY <1>2, <1>3 DEF Beheaded, r

LEMMA Joining ==
    ASSUME NEW q \in Seq(Entry), NEW p \in Seq(Entry), NEW c
    PROVE  q \o p \in Seq(Entry) /\ Joined(q, p, q \o p, c)
<1> DEFINE r == q \o p
<1>1. /\ r \in Seq(Entry) /\ Len(q) \in Nat /\ Len(p) \in Nat /\ Len(r) = Len(q) + Len(p)
      /\ \A i \in 1..Len(r) : r[i] = IF i <= Len(q) THEN q[i] ELSE p[i - Len(q)]
  BY ConcatProperties
<1> HIDE DEF r
<1>2. ASSUME NEW i \in 1..Len(r)
      PROVE  \/ i \in 1..Len(q) /\ r[i] = q[i]
             \/ i > Len(q) /\ i - Len(q) \in 1..Len(p) /\ r[i] = p[i - Len(q)]
  <2>1. CASE i <= Len(q)
    BY <1>1, <2>1
  <2>2. CASE ~(i <= Len(q))
    BY <1>1, <2>2
  <2> QED
    BY <2>1, <2>2
<1>3. ASSUME NEW i \in 1..Len(q) PROVE i \in 1..Len(r) /\ r[i] = q[i]
  BY <1>1
<1>4. ASSUME NEW i \in 1..Len(p) PROVE i + Len(q) \in 1..Len(r) /\ r[i + Len(q)] = p[i]
  <2>1. i + Len(q) \in 1..Len(r) /\ ~(i + Len(q) <= Len(q)) /\ (i + Len(q)) - Len(q) = i
    BY <1>1
  <2>2. r[i + Len(q)] = p[(i + Len(q)) - Len(q)]
    BY <1>1, <2>1
  <2> QED
    BY <2>1, <2>2
<1>5. ASSUME NEW kind PROVE Has(r, kind, c) <=> Has(q, kind, c) \/ Has(p, kind, c)
  BY <1>2, <1>3, <1>4 DEF Has
<1>6. ASSUME NEW first, NEW second, Never(q, first, second, c), Never(p, first, second, c),
             ~(Has(q, first, c) /\ Has(p, second, c))
      PROVE  Never(r, first, second, c)
  <2> SUFFICES ASSUME NEW i \in 1..Len(r), NEW j \in 1..Len(r), i < j,
                      r[i] = Event(first, c), r[j] = Event(second, c)
               PROVE  FALSE
    BY DEF Never
  <2>1. CASE j \in 1..Len(q)
    <3>1. i \in 1..Len(q) /\ r[i] = q[i] /\ r[j] = q[j]
      BY <1>1, <1>3, <2>1
    <3> QED
      BY <1>6, <2>1, <3>1 DEF Never
  <2>2. CASE i \in 1..Len(q) /\ j \notin 1..Len(q)
    <3>1. j - Len(q) \in 1..Len(p) /\ r[j] = p[j - Len(q)] /\ r[i] = q[i]
      BY <1>2, <1>3, <2>2
    <3> QED
      BY <1>6, <2>2, <3>1 DEF Has
  <2>3. CASE i \notin 1..Len(q) /\ j \notin 1..Len(q)
    <3>1. /\ j - Len(q) \in 1..Len(p) /\ r[j] = p[j - Len(q)]
          /\ i - Len(q) \in 1..Len(p) /\ r[i] = p[i - Len(q)]
      BY <1>2, <2>3
    <3>2. i - Len(q) < j - Len(q)
      BY <1>1
    <3> QED
      BY <1>6, <3>1, <3>2 DEF Never
  <2> QED
    BY <2>1, <2>2, <2>3, <1>1
<1> QED
  BY <1>1, <1>5, <1>6 DEF Joined, r

\* A queue of the kinds S for a connection, each once.
Posted(p, S, c) ==
    /\ p \in Seq(Entry)
    /\ \A kind : Has(p, kind, c) <=> kind \in S
    /\ \A first, second : first \notin S \/ second \notin S \/ first = second => Never(p, first, second, c)

Sent(p, c) == \A i \in 1..Len(p) : p[i].conn \in {c, Everyone}

\* A queue q became r: an event of the kinds X was taken from its front, and S was posted.
Passed(q, r, X, S, c) ==
    /\ \A kind : Has(r, kind, c) => Has(q, kind, c) \/ kind \in S
    /\ \A kind : kind \in S => Has(r, kind, c)
    /\ \A kind : kind \notin X /\ Has(q, kind, c) => Has(r, kind, c)
    /\ \A first, kind : first \in X /\ kind \notin S /\ Never(q, first, kind, c) => ~Has(r, kind, c)
    /\ \A first, second :
          /\ Never(q, first, second, c)
          /\ second \in S => ~Has(q, first, c) /\ (first \notin S \/ first = second)
          => Never(r, first, second, c)

LEMMA Events == \A a, b, c, d : Event(a, c) = Event(b, d) <=> a = b /\ c = d
  BY DEF Event

LEMMA NonePosted ==
    ASSUME NEW c
    PROVE  Posting(<<>>, c) = <<>> /\ Posted(<<>>, {}, c) /\ Sent(<<>>, c)
<1>1. Posting(<<>>, c) = <<>>
  BY DEF Posting
<1>2. <<>> \in Seq(Entry) /\ Len(<<>>) = 0
  OBVIOUS
<1> QED
  BY <1>1, <1>2 DEF Posted, Has, Never, Sent

LEMMA OnePosted ==
    ASSUME NEW a \in EventKinds, NEW c \in Conns
    PROVE  /\ Posting(<<a>>, c) = <<Event(a, c)>>
           /\ Posted(<<Event(a, c)>>, {a}, c) /\ Sent(<<Event(a, c)>>, c)
<1> DEFINE p == <<Event(a, c)>>
<1>1. Posting(<<a>>, c) = p
  BY DEF Posting
<1>2. p \in Seq(Entry) /\ Len(p) = 1 /\ p[1] = Event(a, c)
  BY DEF Entry, Event
<1> HIDE DEF p
<1>3. \A kind : Has(p, kind, c) <=> kind \in {a}
  BY <1>2, Events DEF Has
<1>4. \A first, second : Never(p, first, second, c)
  BY <1>2 DEF Never
<1>5. Sent(p, c)
  BY <1>2 DEF Sent, Event
<1> QED
  BY <1>1, <1>2, <1>3, <1>4, <1>5 DEF Posted, p

LEMMA TwoPosted ==
    ASSUME NEW a \in EventKinds, NEW b \in EventKinds, a # b, NEW c \in Conns
    PROVE  Posted(Posting(<<a, b>>, c), {a, b}, c) /\ Sent(Posting(<<a, b>>, c), c)
<1> DEFINE p == Posting(<<a, b>>, c)
<1>1. p \in Seq(Entry) /\ Len(p) = 2 /\ p[1] = Event(a, c) /\ p[2] = Event(b, c)
  BY DEF Entry, Event, Posting
<1> HIDE DEF p
<1>2. \A kind : Has(p, kind, c) <=> kind \in {a, b}
  BY <1>1, Events DEF Has
<1>3. ASSUME NEW first, NEW second, first \notin {a, b} \/ second \notin {a, b} \/ first = second
      PROVE  Never(p, first, second, c)
  <2>1. ASSUME NEW i \in 1..2, NEW j \in 1..2, i < j PROVE i = 1 /\ j = 2
    BY <2>1
  <2>2. ~(p[1] = Event(first, c) /\ p[2] = Event(second, c))
    BY <1>1, <1>3, Events
  <2> QED
    BY <1>1, <2>1, <2>2 DEF Never
<1>4. Sent(p, c)
  <2>1. \A i \in 1..2 : i = 1 \/ i = 2
    OBVIOUS
  <2> QED
    BY <1>1, <2>1 DEF Sent, Event
<1> QED
  BY <1>1, <1>2, <1>3, <1>4 DEF Posted, p

LEMMA AllPosted ==
    ASSUME NEW a \in EventKinds, NEW c \in Conns
    PROVE  Posted(<<Event(a, Everyone)>>, {}, c) /\ Sent(<<Event(a, Everyone)>>, c)
<1> DEFINE p == <<Event(a, Everyone)>>
<1>1. p \in Seq(Entry) /\ Len(p) = 1 /\ p[1] = Event(a, Everyone) /\ p[1].conn = Everyone
  BY DEF Entry, Event
<1> HIDE DEF p
<1>2. Everyone # c
  BY HandshakeAssumption
<1>3. Posted(p, {}, c)
  BY <1>1, <1>2, Events DEF Posted, Has, Never
<1>4. Sent(p, c)
  BY <1>1 DEF Sent
<1> QED
  BY <1>3, <1>4 DEF p

LEMMA ElsePosted ==
    ASSUME NEW p \in Seq(Entry), NEW c, \A i \in 1..Len(p) : p[i].conn # c
    PROVE  Posted(p, {}, c)
  BY DEF Posted, Has, Never, Event

LEMMA SamePassed == ASSUME NEW q, NEW c PROVE Passed(q, q, {}, {}, c)
  BY DEF Passed

LEMMA AppendPassed ==
    ASSUME NEW q \in Seq(Entry), NEW p, NEW S, NEW c, Posted(p, S, c)
    PROVE  q \o p \in Seq(Entry) /\ Passed(q, q \o p, {}, S, c)
<1>1. q \o p \in Seq(Entry) /\ Joined(q, p, q \o p, c)
  BY Joining DEF Posted
<1> QED
  BY <1>1 DEF Joined, Passed, Posted

LEMMA HandledPassed ==
    ASSUME NEW q \in Seq(Entry), q # <<>>, NEW p, NEW S, NEW c, Posted(p, S, c),
           NEW x, Head(q) = Event(x, c)
    PROVE  Tail(q) \o p \in Seq(Entry) /\ Passed(q, Tail(q) \o p, {x}, S, c)
<1> DEFINE t == Tail(q)
           r == t \o p
<1>1. t \in Seq(Entry) /\ Beheaded(q, t, c)
  BY TailOfQueue, Beheading
<1>2. r \in Seq(Entry) /\ Joined(t, p, r, c)
  BY <1>1, Joining DEF Posted
<1> HIDE DEF t, r
<1>3. \A kind : Has(q, kind, c) <=> kind = x \/ Has(t, kind, c)
  BY <1>1, Events DEF Beheaded
<1>4. \A first, second : Never(q, first, second, c) =>
          Never(t, first, second, c) /\ (first = x => ~Has(t, second, c))
  BY <1>1 DEF Beheaded
<1>5. Passed(q, r, {x}, S, c)
  BY <1>2, <1>3, <1>4 DEF Passed, Joined, Posted
<1> QED
  BY <1>2, <1>5 DEF r, t

LEMMA ElsePassed ==
    ASSUME NEW q \in Seq(Entry), q # <<>>, NEW p, NEW c, Posted(p, {}, c),
           NEW x, NEW b, b # c, Head(q) = Event(x, b)
    PROVE  Tail(q) \o p \in Seq(Entry) /\ Passed(q, Tail(q) \o p, {}, {}, c)
<1> DEFINE t == Tail(q)
           r == t \o p
<1>1. t \in Seq(Entry) /\ Beheaded(q, t, c)
  BY TailOfQueue, Beheading
<1>2. r \in Seq(Entry) /\ Joined(t, p, r, c)
  BY <1>1, Joining DEF Posted
<1> HIDE DEF t, r
<1>3. \A kind : Has(q, kind, c) <=> Has(t, kind, c)
  BY <1>1, Events DEF Beheaded
<1>4. \A first, second : Never(q, first, second, c) => Never(t, first, second, c)
  BY <1>1 DEF Beheaded
<1>5. Passed(q, r, {}, {}, c)
  BY <1>2, <1>3, <1>4 DEF Passed, Joined, Posted
<1> QED
  BY <1>2, <1>5 DEF r, t

-----------------------------------------------------------------------------
(* The line *)

LEMMA LongerLine ==
    ASSUME NEW w \in Seq(Conns), NEW c \in Conns, Distinct(w), ~InLine(w, c), NEW v, v = Append(w, c)
    PROVE  v \in Seq(Conns) /\ Distinct(v) /\ \A d : InLine(v, d) <=> InLine(w, d) \/ d = c
<1>1. /\ v \in Seq(Conns) /\ Len(w) \in Nat /\ Len(v) = Len(w) + 1 /\ v[Len(w) + 1] = c
      /\ \A i \in 1..Len(w) : v[i] = w[i]
  BY AppendProperties
<1>2. /\ \A i \in 1..Len(v) : i \in 1..Len(w) \/ i = Len(w) + 1
      /\ \A i \in 1..Len(w) : i \in 1..Len(v)
      /\ Len(w) + 1 \in 1..Len(v)
  BY <1>1
<1>3. Distinct(v)
  BY <1>1, <1>2 DEF Distinct, InLine
<1>4. ASSUME NEW d PROVE InLine(v, d) <=> InLine(w, d) \/ d = c
  BY <1>1, <1>2 DEF InLine
<1> QED
  BY <1>1, <1>3, <1>4

\* A line v that lacks the place j of w.
Without(w, j, v) ==
    /\ v \in Seq(Conns) /\ Len(v) = Len(w) - 1
    /\ \A i \in 1..Len(v) : v[i] = IF i < j THEN w[i] ELSE w[i + 1]

LEMMA ShorterLine ==
    ASSUME NEW w \in Seq(Conns), Distinct(w), NEW j \in 1..Len(w), NEW v, Without(w, j, v)
    PROVE  Distinct(v) /\ \A d : InLine(v, d) <=> InLine(w, d) /\ d # w[j]
<1> DEFINE Place(i) == IF i < j THEN i ELSE i + 1
<1>1. Len(w) \in Nat /\ Len(v) = Len(w) - 1 /\ Len(v) \in Nat
  BY DEF Without
<1>2. ASSUME NEW i \in 1..Len(v) PROVE Place(i) \in 1..Len(w) /\ Place(i) # j /\ v[i] = w[Place(i)]
  BY <1>1 DEF Without
<1>3. ASSUME NEW i \in 1..Len(v), NEW k \in 1..Len(v), i # k PROVE Place(i) # Place(k)
  BY <1>1, <1>3
<1>4. ASSUME NEW i \in 1..Len(w), i # j PROVE \E k \in 1..Len(v) : Place(k) = i
  <2>1. CASE i < j
    BY <1>1, <2>1
  <2>2. CASE ~(i < j)
    <3>1. i - 1 \in 1..Len(v) /\ Place(i - 1) = i
      BY <1>1, <1>4, <2>2
    <3> QED
      BY <3>1
  <2> QED
    BY <2>1, <2>2
<1> HIDE DEF Place
<1>5. Distinct(v)
  BY <1>2, <1>3 DEF Distinct
<1>6. ASSUME NEW d PROVE InLine(v, d) <=> InLine(w, d) /\ d # w[j]
  <2>1. ASSUME NEW i \in 1..Len(v), v[i] = d PROVE InLine(w, d) /\ d # w[j]
    <3>1. Place(i) \in 1..Len(w) /\ Place(i) # j /\ w[Place(i)] = d
      BY <1>2, <2>1
    <3> QED
      BY <3>1 DEF InLine, Distinct
  <2>2. ASSUME NEW i \in 1..Len(w), w[i] = d, d # w[j] PROVE InLine(v, d)
    <3>1. PICK k \in 1..Len(v) : Place(k) = i
      BY <1>4, <2>2
    <3> QED
      BY <1>2, <2>2, <3>1 DEF InLine
  <2> QED
    BY <2>1, <2>2 DEF InLine
<1> QED
  BY <1>5, <1>6

LEMMA FirstServed ==
    ASSUME NEW w \in Seq(Conns), w # <<>>
    PROVE  /\ Without(w, 1, Tail(w)) /\ 1 \in 1..Len(w) /\ Head(w) = w[1] /\ Head(w) \in Conns
<1>1. /\ Tail(w) \in Seq(Conns) /\ Len(Tail(w)) = Len(w) - 1 /\ Head(w) \in Conns
      /\ \A i \in 1..Len(Tail(w)) : Tail(w)[i] = w[i + 1]
  BY HeadTailProperties
<1>2. 1 \in 1..Len(w) /\ Head(w) = w[1]
  OBVIOUS
<1>3. \A i \in 1..Len(Tail(w)) : ~(i < 1)
  BY <1>1
<1> QED
  BY <1>1, <1>2, <1>3 DEF Without

LEMMA Leaving ==
    ASSUME NEW w \in Seq(Conns), NEW j \in 1..Len(w)
    PROVE  Without(w, j, RemoveAt(w, j))
<1> DEFINE a == SubSeq(w, 1, j - 1)
           b == SubSeq(w, j + 1, Len(w))
           v == a \o b
<1>1. Len(w) \in Nat /\ j \in Nat /\ j >= 1 /\ j <= Len(w) /\ \A i \in 1..Len(w) : w[i] \in Conns
  OBVIOUS
<1>2. a \in Seq(Conns) /\ Len(a) = j - 1 /\ \A i \in 1..(j - 1) : a[i] = w[i]
  <2>1. \A i \in 1..(j - 1) : w[i] \in Conns
    BY <1>1
  <2>2. /\ a \in Seq(Conns) /\ Len(a) = IF 1 <= j - 1 THEN (j - 1) - 1 + 1 ELSE 0
        /\ \A i \in 1..((j - 1) - 1 + 1) : a[i] = w[1 + i - 1]
    BY <1>1, <2>1, SubSeqProperties
  <2> HIDE DEF a
  <2> QED
    BY <1>1, <2>2
<1>3. b \in Seq(Conns) /\ Len(b) = Len(w) - j /\ \A i \in 1..(Len(w) - j) : b[i] = w[i + j]
  <2>1. \A i \in (j + 1)..Len(w) : w[i] \in Conns
    BY <1>1
  <2>2. /\ b \in Seq(Conns) /\ Len(b) = IF j + 1 <= Len(w) THEN Len(w) - (j + 1) + 1 ELSE 0
        /\ \A i \in 1..(Len(w) - (j + 1) + 1) : b[i] = w[(j + 1) + i - 1]
    BY <1>1, <2>1, SubSeqProperties
  <2> HIDE DEF b
  <2>3. Len(b) = Len(w) - j /\ Len(w) - (j + 1) + 1 = Len(w) - j
    BY <1>1, <2>2
  <2>4. ASSUME NEW i \in 1..(Len(w) - j) PROVE b[i] = w[i + j]
    <3>1. (j + 1) + i - 1 = i + j
      BY <1>1
    <3> QED
      BY <2>2, <2>3, <3>1
  <2> QED
    BY <2>2, <2>3, <2>4
<1> HIDE DEF a, b
<1>4. /\ v \in Seq(Conns) /\ Len(v) = Len(a) + Len(b)
      /\ \A i \in 1..(Len(a) + Len(b)) : v[i] = IF i <= Len(a) THEN a[i] ELSE b[i - Len(a)]
  BY <1>2, <1>3, ConcatProperties
<1> HIDE DEF v
<1>5. Len(v) = Len(w) - 1
  BY <1>1, <1>2, <1>3, <1>4
<1>6. ASSUME NEW i \in 1..Len(v) PROVE v[i] = IF i < j THEN w[i] ELSE w[i + 1]
  <2>1. CASE i < j
    <3>1. i \in 1..(Len(a) + Len(b)) /\ i <= Len(a) /\ i \in 1..(j - 1)
      BY <1>1, <1>2, <1>3, <1>5, <2>1
    <3> QED
      BY <1>2, <1>4, <2>1, <3>1
  <2>2. CASE ~(i < j)
    <3>1. /\ i \in 1..(Len(a) + Len(b)) /\ ~(i <= Len(a)) /\ i - Len(a) \in 1..(Len(w) - j)
          /\ (i - Len(a)) + j = i + 1
      BY <1>1, <1>2, <1>3, <1>5, <2>2
    <3> QED
      BY <1>3, <1>4, <2>2, <3>1
  <2> QED
    BY <2>1, <2>2
<1>7. RemoveAt(w, j) = v
  BY DEF RemoveAt, v, a, b
<1> QED
  BY <1>4, <1>5, <1>6, <1>7 DEF Without

LEMMA FirstIsOnly ==
    ASSUME NEW w \in Seq(Conns), Distinct(w), NEW j \in 1..Len(w)
    PROVE  RemoveFirst(w, w[j]) = RemoveAt(w, j)
<1> DEFINE I == {i \in 1..Len(w) : w[i] = w[j]}
<1>1. I = {j}
  BY DEF Distinct
<1>2. Min({j}) = j
  BY DEF Min
<1>3. SelectInSeq(w, LAMBDA v : v = w[j]) = j
  BY <1>1, <1>2 DEF SelectInSeq
<1> QED
  BY <1>3 DEF RemoveFirst

-----------------------------------------------------------------------------
(* What becomes of the objects *)

LEMMA Members == <<>> \in Seq(Messages) /\ "live" \in Lives /\ "deleted" \in Lives
  BY DEF Lives

\* sendFailure leaves an unknown client that owns no proxy, and nobody reads.
LEMMA FailedFits ==
    ASSUME NEW k \in Connections, Fit(k), k.unknown = "live", NEW f, f = Failed(k)
    PROVE  /\ f \in Connections /\ Fit(f)
           /\ f.unknown = "live" /\ f.owns # "proxy" /\ f.reads = "nobody"
           /\ f.parser = k.parser /\ f.wire = k.wire /\ f.stray = k.stray
           /\ f.hangup = k.hangup /\ f.place = k.place
           /\ k.proxy # "none" => f.proxy # "none"
           /\ f.alarm => k.alarm
<1>1. f \in Connections
  BY Members, ZenonT(60) DEF Connections, Failed, ProxyDeleted
<1>2. /\ f.unknown = k.unknown /\ ~f.ready /\ ~f.timer /\ f.parser = k.parser
      /\ f.wire = k.wire /\ f.accepting = k.accepting /\ f.stray = k.stray
      /\ f.hangup = k.hangup /\ f.place = k.place /\ f.readied = k.readied
      /\ f.alarm => k.alarm
  BY DEF Connections, Failed, ProxyDeleted
<1>3. CASE k.owns = "proxy"
  <2>1. f.owns = "nothing" /\ f.reads = "nobody" /\ f.proxy = "deleted" /\ f.stream = "deleted"
    BY <1>3 DEF Connections, Failed, ProxyDeleted
  <2> QED
    BY <1>1, <1>2, <1>3, <2>1 DEF Fit
<1>4. CASE k.owns # "proxy"
  <2>1. /\ f.owns = k.owns /\ f.proxy = k.proxy /\ f.stream = k.stream
        /\ f.reads = IF k.owns = "stream" THEN "nobody" ELSE k.reads
    BY <1>4 DEF Connections, Failed, ProxyDeleted
  <2>2. k.reads # "nobody" => k.owns = "stream"
    <3>1. k.reads \in {"nobody", "unknown", "proxy"} /\ k.hangup \in {"nobody", "unknown", "listener", "server"}
      BY DEF Connections
    <3> QED
      BY <1>4, <3>1 DEF Fit
  <2>3. f.reads = "nobody"
    BY <2>1, <2>2
  <2> QED
    BY <1>1, <1>2, <1>4, <2>1, <2>3 DEF Fit
<1> QED
  BY <1>3, <1>4

\* ~ClientProxyUnknown, of one that owns no proxy (any more).
LEMMA UnknownDeletedFits ==
    ASSUME NEW k \in Connections, Fit(k), k.unknown = "live", k.owns # "proxy",
           NEW u, u = UnknownDeleted(k)
    PROVE  /\ u \in Connections /\ Fit(u)
           /\ u.unknown = "deleted" /\ u.owns = "nothing" /\ u.reads = "nobody"
           /\ u.parser = k.parser /\ u.wire = k.wire /\ u.stray = k.stray
           /\ u.hangup = k.hangup /\ u.place = k.place /\ u.proxy = k.proxy /\ u.alarm = k.alarm
<1>1. u \in Connections
  BY Members, ZenonT(60) DEF Connections, UnknownDeleted
<1>2. /\ u.unknown = "deleted" /\ u.owns = "nothing" /\ ~u.timer /\ u.proxy = k.proxy
      /\ u.parser = k.parser /\ u.wire = k.wire /\ u.stray = k.stray /\ u.ready = k.ready
      /\ u.accepting = k.accepting
      /\ u.hangup = k.hangup /\ u.place = k.place /\ u.readied = k.readied
      /\ u.reads = IF k.owns = "stream" THEN "nobody" ELSE k.reads
      /\ u.stream = IF k.owns = "stream" THEN "deleted" ELSE k.stream
      /\ u.alarm = k.alarm
  BY DEF Connections, UnknownDeleted
<1>3. /\ k.reads \in {"nobody", "unknown", "proxy"}
      /\ k.hangup \in {"nobody", "unknown", "listener", "server"}
  BY DEF Connections
<1>4. u.reads = "nobody"
  BY <1>2, <1>3 DEF Fit
<1>5. Fit(u)
  BY <1>2, <1>4 DEF Fit
<1> QED
  BY <1>1, <1>2, <1>4, <1>5

\* sendSuccess and handleUnknownClient: the proxy is the listener's.
LEMMA OrphanFits ==
    ASSUME NEW k \in Connections, Fit(k), k.unknown = "live", HasOrphan(k),
           NEW u, u = [UnknownDeleted(Orphaned(k)) EXCEPT !.hangup = "listener"]
    PROVE  /\ u \in Connections /\ Fit(u)
           /\ u.unknown = "deleted" /\ u.owns = "nothing" /\ u.reads = k.reads
           /\ u.parser = k.parser /\ u.wire = k.wire /\ u.stray = k.stray
           /\ u.hangup = "listener" /\ u.place = k.place /\ u.proxy = "live" /\ u.buffer = k.buffer
<1> DEFINE o == Orphaned(k)
<1>1. o = [k EXCEPT !.owns = "nothing", !.readied = "nobody", !.hangup = "nobody"]
  BY DEF Orphaned
<1>2. o.owns = "nothing" /\ o \in Connections
  BY <1>1, ZenonT(60) DEF Connections
<1> HIDE DEF o
<1>3. UnknownDeleted(o) = [o EXCEPT !.unknown = "deleted", !.timer = FALSE, !.owns = "nothing"]
  BY <1>2 DEF UnknownDeleted
<1>4. u = [k EXCEPT !.unknown = "deleted", !.timer = FALSE, !.owns = "nothing",
                    !.readied = "nobody", !.hangup = "listener"]
  <2>1. u = [UnknownDeleted(o) EXCEPT !.hangup = "listener"]
    BY DEF o
  <2> QED
    BY <1>1, <1>3, <2>1, ZenonT(60) DEF Connections
<1>5. u \in Connections
  BY <1>4, Members, ZenonT(60) DEF Connections
<1>6. /\ u.unknown = "deleted" /\ u.owns = "nothing" /\ ~u.timer /\ u.proxy = k.proxy
      /\ u.parser = k.parser /\ u.wire = k.wire /\ u.stray = k.stray /\ u.ready = k.ready
      /\ u.accepting = k.accepting /\ u.stream = k.stream /\ u.reads = k.reads
      /\ u.hangup = "listener" /\ u.place = k.place /\ u.readied = "nobody" /\ u.buffer = k.buffer
  BY <1>4 DEF Connections
<1>7. k.ready /\ k.owns = "proxy"
  BY DEF HasOrphan
<1>8. Fit(u)
  BY <1>6, <1>7 DEF Fit
<1> QED
  BY <1>5, <1>6, <1>7, <1>8 DEF Fit

\* initProxy
LEMMA ProxyMadeFits ==
    ASSUME NEW k \in Connections, Fit(k), k.reads = "unknown", k.buffer # <<>>,
           NEW p, p = ProxyMade(k)
    PROVE  /\ p \in Connections /\ Fit(p)
           /\ p.unknown = "live" /\ p.owns = "proxy" /\ p.reads = "proxy" /\ p.proxy = "live"
           /\ p.parser = "handshake" /\ p.wire = k.wire /\ p.stray = k.stray /\ p.alarm = k.alarm
           /\ p.hangup = "unknown" /\ p.place = k.place /\ p.timer = k.timer /\ p.socket = k.socket
           /\ p.buffer = Tail(k.buffer)
<1>1. k.buffer \in Seq(Messages) /\ Tail(k.buffer) \in Seq(Messages)
  BY DEF Connections
<1>2. p \in Connections
  BY <1>1, Members DEF Connections, ProxyMade
<1>3. /\ p.unknown = k.unknown /\ p.owns = "proxy" /\ p.reads = "proxy" /\ p.proxy = "live"
      /\ p.parser = k.parser /\ p.wire = k.wire /\ p.stray = k.stray /\ p.alarm = k.alarm
      /\ p.hangup = "unknown" /\ p.place = k.place /\ p.timer = k.timer /\ p.ready = k.ready
      /\ p.readied = "unknown" /\ p.accepting = k.accepting /\ p.stream = k.stream
      /\ p.socket = k.socket /\ p.buffer = Tail(k.buffer)
  BY DEF Connections, ProxyMade
<1>4. k.unknown = "live" /\ k.stream = "live" /\ k.proxy = "none" /\ k.hangup = "nobody" /\ k.parser = "handshake"
  BY DEF Fit
<1>5. Fit(p)
  BY <1>3, <1>4 DEF Fit
<1> QED
  BY <1>2, <1>3, <1>4, <1>5

\* ClientProxy1_0::disconnect
LEMMA ProxyDisconnectedFits ==
    ASSUME NEW k \in Connections, Fit(k), k.reads = "proxy", NEW d, d = ProxyDisconnected(k)
    PROVE  /\ d \in Connections /\ Fit(d)
           /\ d.unknown = k.unknown /\ d.owns = k.owns /\ d.reads = "nobody" /\ d.proxy = k.proxy
           /\ d.parser = k.parser /\ d.wire = <<>> /\ d.stray = k.stray
           /\ d.hangup = k.hangup /\ d.place = k.place /\ d.timer = k.timer /\ d.ready = k.ready
           /\ ~d.alarm
<1>1. d \in Connections
  BY Members DEF Connections, ProxyDisconnected
<1>2. /\ d.unknown = k.unknown /\ d.owns = k.owns /\ d.reads = "nobody" /\ d.proxy = k.proxy
      /\ d.parser = k.parser /\ d.wire = <<>> /\ d.buffer = <<>> /\ d.stray = k.stray
      /\ d.hangup = k.hangup /\ d.place = k.place /\ d.timer = k.timer /\ d.ready = k.ready
      /\ d.readied = k.readied /\ d.accepting = k.accepting /\ d.stream = k.stream /\ ~d.alarm
  BY DEF Connections, ProxyDisconnected
<1>3. Fit(d)
  BY <1>2 DEF Fit, Unmet
<1> QED
  BY <1>1, <1>2, <1>3

\* ~ClientProxy, when the server deletes it, or the listener, for which it is the same.
LEMMA ServerDeletesFits ==
    ASSUME NEW k \in Connections, Fit(k), k.hangup \in {"listener", "server"},
           NEW d, d = ServerDeletes(k)
    PROVE  /\ d \in Connections /\ Fit(d)
           /\ d.unknown = "deleted" /\ d.owns = "nothing" /\ d.reads = "nobody"
           /\ d.proxy = "deleted" /\ d.parser = "normal" /\ d.wire = k.wire /\ d.stray = k.stray
           /\ d.hangup = "nobody" /\ d.place = "none" /\ ~d.alarm
<1>1. d \in Connections
  BY Members, ZenonT(60) DEF Connections, ProxyDeleted, ServerDeletes
<1>2. /\ d.unknown = k.unknown /\ d.owns = k.owns /\ d.reads = "nobody" /\ d.proxy = "deleted"
      /\ d.parser = k.parser /\ d.wire = k.wire /\ d.buffer = <<>> /\ d.stray = k.stray
      /\ d.hangup = "nobody" /\ d.timer = k.timer /\ d.ready = k.ready
      /\ d.readied = k.readied /\ d.accepting = k.accepting /\ d.stream = "deleted"
      /\ d.place = "none" /\ ~d.alarm
  BY DEF Connections, ProxyDeleted, ServerDeletes
<1>3. Fit(d)
  BY <1>2 DEF Fit
<1> QED
  BY <1>1, <1>2, <1>3 DEF Fit

LEMMA ListenerDeletes ==
    ASSUME NEW k \in Connections, Fit(k), k.hangup = "listener"
    PROVE  [ProxyDeleted(k) EXCEPT !.hangup = "nobody"] = ServerDeletes(k)
<1>1. k.place = "none"
  BY DEF Fit
<1> QED
  BY <1>1 DEF ProxyDeleted, ServerDeletes, Connections

-----------------------------------------------------------------------------
(* What a proxy reads *)

LEMMA LeastNatural ==
    \A S : S \subseteq Nat /\ S # {} => \E x \in S : \A y \in S : x <= y
<1> TAKE S
<1> HAVE S \subseteq Nat /\ S # {}
<1>1. PICK x \in S : \A y \in S : ~(<<y, x>> \in OpToRel(<, Nat))
  BY NatLessThanWellFounded, WFMin
<1>2. ASSUME NEW y \in S, y < x PROVE <<y, x>> \in OpToRel(<, Nat)
  BY <1>2 DEF OpToRel
<1>3. ASSUME NEW y \in S PROVE x <= y
  <2>1. x \in Nat /\ y \in Nat /\ ~(y < x)
    BY <1>1, <1>2, <1>3
  <2> QED
    BY <2>1
<1> QED
  BY <1>3

\* Induction: what holds of 0, and of n + 1 when it does of n, holds of all numbers.
LEMMA AllNaturals ==
    ASSUME NEW S, 0 \in S, \A n \in Nat : n \in S => n + 1 \in S
    PROVE  Nat \subseteq S
<1> SUFFICES ASSUME NEW T \in SUBSET Nat, T = Nat \ S, T # {} PROVE FALSE
  OBVIOUS
<1>1. PICK x \in T : \A y \in T : x <= y
  BY LeastNatural
<1>2. x \in Nat /\ x \notin S /\ x # 0
  BY <1>1
<1>3. x - 1 \in Nat /\ ~(x <= x - 1) /\ x = (x - 1) + 1
  BY <1>2
<1>4. x - 1 \in S
  BY <1>1, <1>3
<1> QED
  BY <1>2, <1>3, <1>4

Readings == [parser : {"handshake", "normal"}, alarm : BOOLEAN, stray : BOOLEAN,
             lost : BOOLEAN, asked : {"no", "now", "before"}]

\* The shape comes first, and nothing has been timed.
Expected(k) ==
    /\ k.parser = "handshake" /\ ~k.alarm /\ ~k.stray
    /\ k.buffer # <<>> /\ k.buffer[1] \in {"info", "badInfo"}

\* What l is after reading n messages of k.
Sound(k, n, l) ==
    /\ l \in Readings
    /\ k.parser = "normal" => l.parser = "normal" /\ l.asked = "no" /\ l.stray = k.stray
    /\ l.asked # "no" => l.parser = "normal"
    /\ Expected(k) /\ n = 0 => l.parser = "handshake" /\ ~l.lost /\ ~l.alarm /\ ~l.stray
    /\ Expected(k) /\ n > 0 => l.parser = "normal" /\ ~l.stray

LEMMA OneRead ==
    ASSUME NEW l \in Readings, NEW m \in Messages, NEW n, n = ReadOne(l, m)
    PROVE  /\ n \in Readings
           /\ l.parser = "normal" => n.parser = "normal" /\ n.stray = l.stray
           /\ l.parser = "normal" /\ l.asked = "no" => n.asked = "no"
           /\ n.asked # "no" => n.parser = "normal" \/ (l.asked # "no" /\ l.parser = n.parser)
           /\ m \in {"info", "badInfo"} /\ l.parser = "handshake" /\ ~l.lost /\ ~l.alarm /\ ~l.stray
                 => n.parser = "normal" /\ ~n.stray
<1>1. CASE l.lost
  <2>1. n = l
    BY <1>1 DEF ReadOne
  <2> QED
    BY <1>1, <2>1
<1>2. CASE ~l.lost /\ l.parser = "handshake" /\ m = "info"
  <2>1. n = [AlarmAdded(l) EXCEPT !.parser = "normal", !.asked = "now"]
    BY <1>2 DEF ReadOne
  <2>2. n = [l EXCEPT !.alarm = TRUE, !.stray = l.stray \/ l.alarm, !.parser = "normal", !.asked = "now"]
    BY <2>1 DEF AlarmAdded, Readings
  <2>3. n \in Readings
    BY <2>2 DEF Readings
  <2>4. n.parser = "normal" /\ n.stray = (l.stray \/ l.alarm)
    BY <2>2 DEF Readings
  <2> QED
    BY <1>2, <2>3, <2>4
<1>3. CASE ~l.lost /\ l.parser = "handshake" /\ m = "badInfo"
  <2>1. n = [l EXCEPT !.parser = "normal", !.lost = TRUE]
    BY <1>3 DEF ReadOne
  <2> QED
    BY <1>3, <2>1 DEF Readings
<1>4. CASE ~l.lost /\ ~(l.parser = "handshake" /\ m \in {"info", "badInfo"})
  <2>1. n = [l EXCEPT !.lost = m \notin {"noop", "info"},
                      !.asked = IF l.asked = "now" THEN "before" ELSE l.asked]
    BY <1>4 DEF ReadOne
  <2> QED
    BY <1>4, <2>1 DEF Readings
<1> QED
  BY <1>1, <1>2, <1>3, <1>4

LEMMA NextRead ==
    ASSUME NEW k \in Connections, NEW n \in Nat, NEW l, Sound(k, n, l), n + 1 <= Len(k.buffer)
    PROVE  Sound(k, n + 1, ReadOne(l, k.buffer[n + 1]))
<1> DEFINE m == k.buffer[n + 1]
           next == ReadOne(l, m)
<1>1. m \in Messages /\ (n = 0 /\ Expected(k) => m \in {"info", "badInfo"})
  BY DEF Connections, Expected
<1>2. l \in Readings /\ l.parser \in {"handshake", "normal"}
  BY DEF Sound, Readings
<1> HIDE DEF m, next
<1>3. /\ next \in Readings
      /\ l.parser = "normal" => next.parser = "normal" /\ next.stray = l.stray
      /\ l.parser = "normal" /\ l.asked = "no" => next.asked = "no"
      /\ next.asked # "no" => next.parser = "normal" \/ (l.asked # "no" /\ l.parser = next.parser)
      /\ m \in {"info", "badInfo"} /\ l.parser = "handshake" /\ ~l.lost /\ ~l.alarm /\ ~l.stray
            => next.parser = "normal" /\ ~next.stray
  BY <1>1, <1>2, OneRead DEF next
<1>4. n + 1 > 0 /\ n + 1 # 0 /\ (n = 0 \/ n > 0)
  OBVIOUS
<1>5. Sound(k, n + 1, next)
  BY <1>1, <1>3, <1>4 DEF Sound
<1> QED
  BY <1>5 DEF next, m

LEMMA ReadIsSound == ASSUME NEW k \in Connections PROVE Sound(k, Len(k.buffer), Read(k))
<1> DEFINE Rule(f, n) == f[n] = IF n = 0 THEN Noted(k) ELSE ReadOne(f[n - 1], k.buffer[n])
           Sofar(n) == {f \in [0..n -> Readings] : \A i \in 0..n : Rule(f, i)}
           Reached == {n \in Nat : n <= Len(k.buffer) => Sofar(n) # {}}
<1>1. Len(k.buffer) \in Nat /\ k.buffer \in Seq(Messages)
  BY DEF Connections
<1>2. Noted(k) \in Readings /\ Sound(k, 0, Noted(k))
  BY DEF Noted, Readings, Connections, Sound, Expected
<1>3. Sofar(Len(k.buffer)) # {}
  <2>1. 0 \in Reached
    <3> DEFINE f == [i \in 0..0 |-> Noted(k)]
    <3>1. f \in Sofar(0)
      BY <1>2
    <3> QED
      BY <3>1
  <2>2. ASSUME NEW n \in Nat, n \in Reached PROVE n + 1 \in Reached
    <3> SUFFICES ASSUME n + 1 <= Len(k.buffer) PROVE Sofar(n + 1) # {}
      <4> HIDE DEF Sofar
      <4> QED
        OBVIOUS
    <3>1. PICK f : f \in Sofar(n)
      <4> HIDE DEF Sofar
      <4> QED
        BY <1>1, <2>2
    <3> DEFINE g == [i \in 0..(n + 1) |->
                       IF i = n + 1 THEN ReadOne(f[n], k.buffer[n + 1]) ELSE f[i]]
    <3>2. f[n] \in Readings /\ k.buffer[n + 1] \in Messages
      BY <1>1, <3>1
    <3>3. ReadOne(f[n], k.buffer[n + 1]) \in Readings
      BY <3>2, OneRead
    <3>4. g \in [0..(n + 1) -> Readings]
      BY <3>1, <3>3
    <3>5. ASSUME NEW i \in 0..(n + 1) PROVE Rule(g, i)
      <4>1. CASE i = n + 1
        BY <4>1
      <4>2. CASE i # n + 1
        <5>1. i \in 0..n /\ g[i] = f[i] /\ (i # 0 => g[i - 1] = f[i - 1])
          BY <4>2
        <5> QED
          BY <3>1, <5>1
      <4> QED
        BY <4>1, <4>2
    <3> QED
      BY <3>4, <3>5
  <2>3. Nat \subseteq Reached
    <3> HIDE DEF Reached
    <3> QED
      BY <2>1, <2>2, AllNaturals
  <2> HIDE DEF Sofar
  <2> QED
    BY <1>1, <2>3
<1> DEFINE upTo == CHOOSE f : f = [n \in 0..Len(k.buffer) |->
                       IF n = 0 THEN Noted(k) ELSE ReadOne(f[n - 1], k.buffer[n])]
<1>4. upTo = [n \in 0..Len(k.buffer) |->
                IF n = 0 THEN Noted(k) ELSE ReadOne(upTo[n - 1], k.buffer[n])]
  <2>1. PICK f : f \in Sofar(Len(k.buffer))
    BY <1>3
  <2>2. f = [n \in 0..Len(k.buffer) |->
               IF n = 0 THEN Noted(k) ELSE ReadOne(f[n - 1], k.buffer[n])]
    BY <2>1
  <2> QED
    BY <2>2
<1>5. Read(k) = upTo[Len(k.buffer)]
  BY DEF Read
<1> HIDE DEF upTo
<1>6. \A n \in 0..Len(k.buffer) : Rule(upTo, n)
  BY <1>4
<1> DEFINE Right == {n \in Nat : n <= Len(k.buffer) => Sound(k, n, upTo[n])}
<1>7. 0 \in Right
  BY <1>1, <1>2, <1>6
<1>8. ASSUME NEW n \in Nat, n \in Right PROVE n + 1 \in Right
  <2> SUFFICES ASSUME n + 1 <= Len(k.buffer) PROVE Sound(k, n + 1, upTo[n + 1])
    OBVIOUS
  <2>1. Sound(k, n, upTo[n])
    BY <1>1, <1>8
  <2>2. upTo[n + 1] = ReadOne(upTo[n], k.buffer[n + 1])
    BY <1>1, <1>6
  <2> QED
    BY <2>1, <2>2, NextRead
<1>9. Nat \subseteq Right
  <2> HIDE DEF Right
  <2> QED
    BY <1>7, <1>8, AllNaturals
<1> QED
  BY <1>1, <1>5, <1>9

LEMMA ProxyReadsFits ==
    ASSUME NEW k \in Connections, Fit(k), k.reads = "proxy", NEW r, r = ProxyReads(k)
    PROVE  /\ r \in Connections /\ Fit(r)
           /\ r.unknown = k.unknown /\ r.owns = k.owns /\ r.reads = "proxy" /\ r.proxy = k.proxy
           /\ r.wire = k.wire /\ r.hangup = k.hangup /\ r.place = k.place /\ r.timer = k.timer
           /\ r.ready = k.ready /\ r.buffer = <<>> /\ r.socket = k.socket
           /\ k.parser = "normal" => r.parser = "normal" /\ r.stray = k.stray
           /\ Read(k).asked # "no" => k.parser = "handshake" /\ r.parser = "normal"
           /\ Expected(k) => r.parser = "normal" /\ ~r.stray
<1> DEFINE l == Read(k)
           a == AlarmReset(l)
<1>1. Sound(k, Len(k.buffer), l) /\ (k.buffer # <<>> => Len(k.buffer) > 0)
  BY ReadIsSound DEF Connections
<1> HIDE DEF l
<1>2. l \in Readings /\ a.alarm = TRUE /\ a.parser = l.parser /\ a.stray = l.stray
  BY <1>1 DEF Sound, Readings, AlarmReset, AlarmAdded
<1>3. l.parser \in {"handshake", "normal"} /\ l.stray \in BOOLEAN
  BY <1>2 DEF Readings
<1> HIDE DEF a
<1>4. r = [k EXCEPT !.buffer = <<>>, !.parser = l.parser, !.alarm = TRUE, !.stray = l.stray]
  <2>1. r = [k EXCEPT !.buffer = <<>>, !.parser = a.parser, !.alarm = a.alarm, !.stray = a.stray]
    BY DEF ProxyReads, a, l
  <2> QED
    BY <1>2, <2>1
<1>5. r \in Connections
  BY <1>2, <1>3, <1>4, Members, ZenonT(60) DEF Connections
<1>6. /\ r.unknown = k.unknown /\ r.owns = k.owns /\ r.reads = k.reads /\ r.proxy = k.proxy
      /\ r.wire = k.wire /\ r.hangup = k.hangup /\ r.place = k.place /\ r.timer = k.timer
      /\ r.ready = k.ready /\ r.buffer = <<>> /\ r.socket = k.socket
      /\ r.readied = k.readied /\ r.accepting = k.accepting /\ r.stream = k.stream
      /\ r.parser = l.parser /\ r.stray = l.stray
  BY <1>2, <1>4 DEF Connections
<1>7. k.parser = "normal" => l.parser = "normal"
  BY <1>1 DEF Sound
<1>8. k.parser \in {"handshake", "normal"}
  BY DEF Connections
<1>9. Fit(r)
  BY <1>3, <1>6, <1>7, <1>8 DEF Fit, Unmet
<1>10. Read(k).asked # "no" => k.parser = "handshake" /\ r.parser = "normal"
  BY <1>1, <1>6, <1>8 DEF Sound, l
<1> QED
  BY <1>1, <1>5, <1>6, <1>9, <1>10 DEF Sound, Expected

LEMMA TakenFits ==
    ASSUME NEW k \in Connections, Fit(k), NEW t, t = Taken(k)
    PROVE  /\ t \in Connections /\ (k.stream = "live" => Fit(t))
           /\ t.unknown = k.unknown /\ t.owns = k.owns /\ t.reads = k.reads /\ t.proxy = k.proxy
           /\ t.wire = <<>> /\ t.buffer = k.buffer \o k.wire
           /\ t.hangup = k.hangup /\ t.place = k.place /\ t.timer = k.timer /\ t.stream = k.stream
           /\ t.ready = k.ready /\ t.socket = k.socket /\ t.parser = k.parser
           /\ t.alarm = k.alarm /\ t.stray = k.stray
<1>1. k.buffer \in Seq(Messages) /\ k.wire \in Seq(Messages) /\ k.buffer \o k.wire \in Seq(Messages)
  BY DEF Connections
<1>2. t \in Connections
  BY <1>1, Members DEF Connections, Taken
<1>3. /\ t.unknown = k.unknown /\ t.owns = k.owns /\ t.reads = k.reads /\ t.proxy = k.proxy
      /\ t.wire = <<>> /\ t.buffer = k.buffer \o k.wire
      /\ t.hangup = k.hangup /\ t.place = k.place /\ t.timer = k.timer
      /\ t.ready = k.ready /\ t.socket = k.socket /\ t.parser = k.parser
      /\ t.readied = k.readied /\ t.accepting = k.accepting /\ t.stream = k.stream
      /\ t.alarm = k.alarm /\ t.stray = k.stray
  BY DEF Connections, Taken
<1>4. k.stream = "live" => Fit(t)
  BY <1>3 DEF Fit, Unmet
<1> QED
  BY <1>2, <1>3, <1>4

-----------------------------------------------------------------------------
(* A step of one connection *)

LEMMA Handling ==
    ASSUME TypeOK, NEW c \in Conns, NEW x, IsNext(x, c),
           NEW p, NEW S, Posted(p, S, c), Sent(p, c), Handled(p)
    PROVE  /\ queue' \in Seq(Entry) /\ Passed(queue, queue', {x}, S, c)
           /\ \A d \in Conns : d # c => Passed(queue, queue', {}, {}, d)
           /\ queue # <<>> /\ Has(queue, x, c)
<1>1. queue \in Seq(Entry) /\ queue # <<>> /\ Head(queue) = Event(x, c)
  BY DEF TypeOK, Entry, IsNext
<1>2. queue' = Tail(queue) \o p
  BY DEF Handled
<1>3. queue' \in Seq(Entry) /\ Passed(queue, queue', {x}, S, c)
  BY <1>1, <1>2, HandledPassed
<1>4. ASSUME NEW d \in Conns, d # c PROVE Passed(queue, queue', {}, {}, d)
  <2>1. d # Everyone
    BY HandshakeAssumption
  <2>2. Posted(p, {}, d)
    BY <1>4, <2>1, ElsePosted DEF Posted, Sent
  <2> QED
    BY <1>1, <1>2, <1>4, <2>2, ElsePassed
<1>5. Has(queue, x, c)
  BY <1>1, TailOfQueue DEF Has
<1> QED
  BY <1>1, <1>3, <1>4, <1>5

LEMMA PostingMore ==
    ASSUME TypeOK, NEW c \in Conns, NEW p, NEW S, Posted(p, S, c), Sent(p, c), queue' = queue \o p
    PROVE  /\ queue' \in Seq(Entry) /\ Passed(queue, queue', {}, S, c)
           /\ \A d \in Conns : d # c => Passed(queue, queue', {}, {}, d)
<1>1. queue \in Seq(Entry)
  BY DEF TypeOK, Entry
<1>2. queue' \in Seq(Entry) /\ Passed(queue, queue', {}, S, c)
  BY <1>1, AppendPassed
<1>3. ASSUME NEW d \in Conns, d # c PROVE Passed(queue, queue', {}, {}, d)
  <2>1. d # Everyone
    BY HandshakeAssumption
  <2>2. Posted(p, {}, d)
    BY <1>3, <2>1, ElsePosted DEF Posted, Sent
  <2> QED
    BY <1>1, <2>2, AppendPassed
<1> QED
  BY <1>2, <1>3

LEMMA GoodElse ==
    ASSUME NEW q, NEW r, NEW d, NEW k, NEW p, Good(q, d, k, p), Passed(q, r, {}, {}, d)
    PROVE  Good(r, d, k, p)
<1>1. \A kind : Has(r, kind, d) <=> Has(q, kind, d)
  BY DEF Passed
<1>2. \A first, second : Never(q, first, second, d) => Never(r, first, second, d)
  BY DEF Passed
<1> QED
  BY <1>1, <1>2 DEF Good, Mail, Early

LEMMA OneMoves ==
    ASSUME Inv, NEW c \in Conns, NEW k \in Connections, conn' = [conn EXCEPT ![c] = k],
           queue' \in Seq(Entry), Good(queue', c, k, peer'[c]),
           \A d \in Conns : d # c => peer'[d] = peer[d] /\ Passed(queue, queue', {}, {}, d)
    PROVE  /\ conn' \in [Conns -> Connections]
           /\ \A d \in Conns : Good(queue', d, conn'[d], peer'[d])
           /\ conn'[c] = k /\ \A d \in Conns : d # c => conn'[d] = conn[d]
<1>1. conn \in [Conns -> Connections]
  BY DEF Inv, TypeOK
<1>2. conn'[c] = k /\ \A d \in Conns : d # c => conn'[d] = conn[d]
  BY <1>1
<1>3. ASSUME NEW d \in Conns PROVE Good(queue', d, conn'[d], peer'[d])
  <2>1. CASE d = c
    BY <1>2, <2>1
  <2>2. CASE d # c
    <3>1. Good(queue, d, conn'[d], peer'[d])
      BY <1>2, <2>2 DEF Inv
    <3> QED
      BY <2>2, <3>1, GoodElse
  <2> QED
    BY <2>1, <2>2
<1> QED
  BY <1>1, <1>2, <1>3

LEMMA LinedStays ==
    ASSUME Lined, waiting' = waiting,
           \A d \in Conns : conn'[d].hangup = "listener" <=> conn[d].hangup = "listener"
    PROVE  Lined'
  BY DEF Lined

\* A handler that has to do with one connection, and not with the line.
LEMMA OneHandles ==
    ASSUME Inv, NEW c \in Conns, NEW k \in Connections, Becomes(c, k), OthersUnchanged,
           queue' \in Seq(Entry), Good(queue', c, k, peer[c]),
           \A d \in Conns : d # c => Passed(queue, queue', {}, {}, d),
           k.hangup = "listener" <=> conn[c].hangup = "listener"
    PROVE  Inv'
<1>1. conn' = [conn EXCEPT ![c] = k] /\ waiting' = waiting /\ peer' = peer
  BY DEF Becomes, OthersUnchanged
<1>2. /\ conn' \in [Conns -> Connections]
      /\ \A d \in Conns : Good(queue', d, conn'[d], peer'[d])
      /\ conn'[c] = k /\ \A d \in Conns : d # c => conn'[d] = conn[d]
  BY <1>1, OneMoves
<1>3. Lined'
  BY <1>1, <1>2, LinedStays DEF Inv
<1>4. TypeOK'
  BY <1>2 DEF Inv, TypeOK, OthersUnchanged, Entry
<1> QED
  BY <1>2, <1>3, <1>4 DEF Inv

LEMMA Objects ==
    ASSUME Inv, NEW c \in Conns
    PROVE  /\ conn[c] \in Connections /\ Fit(conn[c]) /\ Mail(queue, c, conn[c])
           /\ Early(queue, c, conn[c], peer[c])
  BY DEF Inv, TypeOK, Good

LEMMA DroppedKeeps ==
    ASSUME Inv, NEW c \in Conns, NEW x, IsNext(x, c), Handled(<<>>),
           UNCHANGED <<conn, waiting, phase, peer, said>>, misuse' \in {"no", "twice", "dangling"},
           x \in {"success", "failure"} => conn[c].unknown # "live",
           x = "input" => conn[c].reads = "nobody" \/ conn[c].wire = <<>>
    PROVE  Inv'
<1>1. /\ queue' \in Seq(Entry) /\ Passed(queue, queue', {x}, {}, c)
      /\ \A d \in Conns : d # c => Passed(queue, queue', {}, {}, d)
  BY Handling, NonePosted DEF Inv
<1>2. Good(queue', c, conn[c], peer[c])
  <2>1. Mail(queue', c, conn[c])
    BY <1>1, Objects DEF Mail, Passed
  <2>2. Early(queue', c, conn[c], peer[c])
    BY <1>1, Objects DEF Early, Passed
  <2> QED
    BY <2>1, <2>2, Objects DEF Good
<1>3. ASSUME NEW d \in Conns PROVE Good(queue', d, conn[d], peer[d])
  BY <1>1, <1>2, GoodElse DEF Inv
<1> QED
  BY <1>1, <1>3 DEF Inv, TypeOK, Lined, Entry

-----------------------------------------------------------------------------
(* The handlers keep the invariant *)

LEMMA ConnectingKeeps == ASSUME Inv, NEW c \in Conns, HandleConnecting(c) PROVE Inv'
<1>1. IsNext("connecting", c) /\ TypeOK
  BY DEF HandleConnecting, Inv
<1>2. CASE phase = "stopped"
  BY <1>1, <1>2, DroppedKeeps DEF HandleConnecting, Dropped, Inv, TypeOK
<1>3. CASE phase # "stopped"
  <2> DEFINE k == [conn[c] EXCEPT !.socket = "open", !.listed = TRUE, !.accepting = TRUE]
  <2>1. PICK kinds \in {<<"accepted">>, <<"accepted", "shutdown">>, <<"shutdown", "accepted">>} :
          Handled(Posting(kinds, c))
    BY <1>3 DEF HandleConnecting
  <2>2. Becomes(c, k) /\ OthersUnchanged
    BY <1>3 DEF HandleConnecting
  <2>3. \E S \in {{"accepted"}, {"accepted", "shutdown"}} :
          Posted(Posting(kinds, c), S, c) /\ Sent(Posting(kinds, c), c)
    <3>1. "accepted" \in EventKinds /\ "shutdown" \in EventKinds
      BY DEF EventKinds
    <3>2. {"accepted", "shutdown"} = {"shutdown", "accepted"}
      OBVIOUS
    <3> QED
      BY <2>1, <3>1, <3>2, OnePosted, TwoPosted
  <2>4. PICK S \in {{"accepted"}, {"accepted", "shutdown"}} :
          Posted(Posting(kinds, c), S, c) /\ Sent(Posting(kinds, c), c)
    BY <2>3
  <2>5. /\ queue' \in Seq(Entry) /\ Passed(queue, queue', {"connecting"}, S, c)
        /\ \A d \in Conns : d # c => Passed(queue, queue', {}, {}, d)
        /\ Has(queue, "connecting", c)
    BY <1>1, <2>1, <2>4, Handling
  <2>6. conn[c] = Fresh /\ peer[c] # "away"
    BY <2>5, Objects DEF Mail, Early
  <2>7. k \in Connections
    <3>1. conn[c] \in Connections
      BY Objects
    <3> QED
      BY <3>1 DEF Connections
  <2>8. /\ Unmet(k) /\ k.unknown = "none" /\ k.accepting /\ ~k.timer /\ ~k.ready
        /\ k.hangup = "nobody" /\ k.owns = "nothing" /\ k.parser = "handshake" /\ k.reads = "nobody"
        /\ k.proxy = "none"
    BY <2>6 DEF Unmet, Fresh
  <2> HIDE DEF k
  <2>9. Fit(k)
    BY <2>8 DEF Fit, Unmet
  <2>10. ~Has(queue, "ready", c) /\ ~Has(queue, "success", c) /\ ~Has(queue, "failure", c) /\ ~Has(queue, "disconnected", c)
    BY <2>6, Objects DEF Mail, Fresh
  <2>11. Mail(queue', c, k)
    BY <2>4, <2>5, <2>8, <2>10, Objects DEF Mail, Passed
  <2> QED
    BY <2>2, <2>5, <2>6, <2>7, <2>8, <2>9, <2>11, OneHandles DEF Good, Early, Fresh
<1> QED
  BY <1>2, <1>3

LEMMA AcceptedKeeps == ASSUME Inv, NEW c \in Conns, HandleAccepted(c) PROVE Inv'
<1>1. IsNext("accepted", c) /\ TypeOK
  BY DEF HandleAccepted, Inv
<1>2. CASE ~conn[c].accepting \/ phase = "stopped"
  <2>1. /\ Handled(<<>>) /\ UNCHANGED <<conn, waiting, phase, peer, said>>
        /\ misuse' \in {"no", "twice", "dangling"}
    BY <1>1, <1>2 DEF HandleAccepted, Dropped, TypeOK
  <2> QED
    BY <1>1, <2>1, DroppedKeeps
<1>3. CASE conn[c].accepting /\ phase # "stopped"
  <2> DEFINE k == [conn[c] EXCEPT !.accepting = FALSE, !.stream = "live", !.unknown = "live",
                                  !.timer = TRUE, !.owns = "stream", !.reads = "unknown"]
  <2>1. Becomes(c, k) /\ OthersUnchanged /\ Handled(<<>>)
    BY <1>3 DEF HandleAccepted
  <2>2. /\ queue' \in Seq(Entry) /\ Passed(queue, queue', {"accepted"}, {}, c)
        /\ \A d \in Conns : d # c => Passed(queue, queue', {}, {}, d)
    BY <1>1, <2>1, Handling, NonePosted
  <2>3. /\ conn[c] \in Connections /\ Unmet(conn[c]) /\ ~conn[c].ready /\ conn[c].unknown = "none"
    BY <1>3, Objects DEF Fit, Unmet
  <2>4. k \in Connections
    <3>1. conn[c] \in Connections
      BY <2>3
    <3> QED
      BY <3>1, Members DEF Connections
  <2>5. /\ k.unknown = "live" /\ ~k.accepting /\ k.timer /\ ~k.ready /\ k.stream = "live"
        /\ k.hangup = "nobody" /\ k.owns = "stream" /\ k.parser = "handshake" /\ k.reads = "unknown"
        /\ k.proxy = "none" /\ k.place = "none" /\ k.readied = "nobody" /\ k.wire = <<>>
    BY <2>3 DEF Unmet, Connections
  <2>6. conn[c].hangup = "nobody" /\ conn[c].reads = "nobody" /\ conn[c].parser = "handshake"
        /\ conn[c].proxy = "none" /\ conn[c] # Fresh
    BY <1>3, <2>3 DEF Unmet, Fresh
  <2> HIDE DEF k
  <2>7. Fit(k)
    BY <2>5 DEF Fit
  <2>8. /\ ~Has(queue, "connecting", c) /\ ~Has(queue, "ready", c) /\ ~Has(queue, "success", c)
        /\ ~Has(queue, "failure", c) /\ ~Has(queue, "disconnected", c) /\ peer[c] # "away"
    BY <2>3, <2>6, Objects DEF Mail, Early
  <2>9. Mail(queue', c, k)
    BY <2>2, <2>5, <2>8, Objects DEF Mail, Passed
  <2> QED
    BY <2>1, <2>2, <2>4, <2>5, <2>6, <2>7, <2>8, <2>9, OneHandles DEF Good, Early
<1> QED
  BY <1>2, <1>3

LEMMA Short ==
    /\ \A a : <<>> \o <<a>> = <<a>> /\ <<a>> \o <<>> = <<a>>
    /\ \A a, b : <<a>> \o <<b>> = <<a, b>>
    /\ <<>> \o <<>> = <<>>
<1>1. ASSUME NEW a PROVE <<>> \o <<a>> = <<a>> /\ <<a>> \o <<>> = <<a>>
  <2>1. <<a>> \in Seq({a}) /\ <<>> \in Seq({a})
    OBVIOUS
  <2> QED
    BY <2>1
<1>2. ASSUME NEW a, NEW b PROVE <<a>> \o <<b>> = <<a, b>>
  <2> DEFINE r == <<a>> \o <<b>>
  <2>1. <<a>> \in Seq({a, b}) /\ <<b>> \in Seq({a, b}) /\ <<a, b>> \in Seq({a, b})
    OBVIOUS
  <2>2. /\ r \in Seq({a, b}) /\ Len(r) = Len(<<a>>) + Len(<<b>>)
        /\ \A i \in 1..(Len(<<a>>) + Len(<<b>>)) :
              r[i] = IF i <= Len(<<a>>) THEN <<a>>[i] ELSE <<b>>[i - Len(<<a>>)]
    BY <2>1, ConcatProperties
  <2>3. r[1] = a /\ r[2] = b /\ Len(r) = 2
    BY <2>2
  <2> HIDE DEF r
  <2>4. r = <<a, b>>
    BY <2>1, <2>2, <2>3
  <2> QED
    BY <2>4 DEF r
<1> QED
  BY <1>1, <1>2

\* What one connection may find in its mail after reading.
Few(kinds, a, b, c) ==
    \E S \in {{}, {a}, {b}, {a, b}} :
       /\ Posted(Posting(kinds, c), S, c) /\ Sent(Posting(kinds, c), c)
       /\ kinds \in {<<>>, <<a>>} => S \in {{}, {a}}
       /\ kinds \notin {<<>>, <<a>>} => b \in S

LEMMA FewPosted ==
    ASSUME NEW c \in Conns, NEW a \in EventKinds, NEW b \in EventKinds, a # b,
           NEW kinds \in {<<>>, <<a>>, <<b>>, <<a, b>>, <<b, a>>}
    PROVE  Few(kinds, a, b, c)
<1>1. CASE kinds = <<>>
  BY <1>1, NonePosted DEF Few
<1>2. CASE kinds = <<a>>
  BY <1>2, OnePosted DEF Few
<1>3. CASE kinds = <<b>>
  <2>1. Posted(Posting(kinds, c), {b}, c) /\ Sent(Posting(kinds, c), c)
    BY <1>3, OnePosted
  <2>2. kinds \notin {<<>>, <<a>>}
    BY <1>3
  <2> QED
    BY <2>1, <2>2 DEF Few
<1>4. CASE kinds = <<a, b>>
  <2>1. Posted(Posting(kinds, c), {a, b}, c) /\ Sent(Posting(kinds, c), c)
    BY <1>4, TwoPosted
  <2>2. kinds \notin {<<>>, <<a>>}
    BY <1>4
  <2> QED
    BY <2>1, <2>2 DEF Few
<1>5. CASE kinds = <<b, a>>
  <2>1. Posted(Posting(kinds, c), {b, a}, c) /\ Sent(Posting(kinds, c), c)
    BY <1>5, TwoPosted
  <2>2. kinds \notin {<<>>, <<a>>} /\ {b, a} = {a, b}
    BY <1>5
  <2> QED
    BY <2>1, <2>2 DEF Few
<1> QED
  BY <1>1, <1>2, <1>3, <1>4, <1>5

LEMMA ReadingPosted ==
    ASSUME NEW k \in Connections, NEW c \in Conns
    PROVE  \E S \in {{}, {"ended"}, {"ready"}, {"ended", "ready"}} :
              /\ Posted(Posting(PostedReading(k), c), S, c) /\ Sent(Posting(PostedReading(k), c), c)
              /\ "ready" \in S => Read(k).asked # "no"
<1>1. "ended" \in EventKinds /\ "ready" \in EventKinds
  BY DEF EventKinds
<1> DEFINE kinds == PostedReading(k)
<1>2. /\ kinds \in {<<>>, <<"ended">>, <<"ready">>, <<"ended", "ready">>, <<"ready", "ended">>}
      /\ Read(k).asked = "no" => kinds \in {<<>>, <<"ended">>}
  <2> DEFINE end == IF k.ended /\ k.buffer # <<>> THEN <<"ended">> ELSE <<>>
  <2>1. end \in {<<>>, <<"ended">>}
    OBVIOUS
  <2>2. \/ kinds = end /\ Read(k).asked = "no"
        \/ kinds = end \o <<"ready">> /\ Read(k).asked # "no"
        \/ kinds = <<"ready">> \o end /\ Read(k).asked # "no"
    BY DEF PostedReading
  <2> HIDE DEF end, kinds
  <2> QED
    BY <2>1, <2>2, Short
<1> HIDE DEF kinds
<1>3. Few(kinds, "ended", "ready", c)
  <2>1. "ended" # "ready" /\ kinds \in {<<>>, <<"ended">>, <<"ready">>, <<"ended", "ready">>, <<"ready", "ended">>}
    BY <1>2
  <2> QED
    BY <1>1, <2>1, FewPosted
<1> QED
  BY <1>2, <1>3 DEF kinds, Few

LEMMA GreetingPosted ==
    ASSUME NEW k \in Connections, NEW c \in Conns
    PROVE  \E S \in {{}, {"ended"}, {"failure"}, {"ended", "failure"}} :
              /\ Posted(Posting(PostedGreeting(k), c), S, c) /\ Sent(Posting(PostedGreeting(k), c), c)
              /\ "failure" \in S <=> Head(k.buffer) # "hello"
<1>1. "ended" \in EventKinds /\ "failure" \in EventKinds
  BY DEF EventKinds
<1> DEFINE kinds == PostedGreeting(k)
<1>2. /\ kinds \in {<<>>, <<"ended">>, <<"failure">>, <<"ended", "failure">>}
      /\ Head(k.buffer) = "hello" <=> kinds \in {<<>>, <<"ended">>}
  <2> DEFINE end == IF k.ended /\ Len(k.buffer) = 1 THEN <<"ended">> ELSE <<>>
             told == IF Head(k.buffer) = "hello" THEN <<>> ELSE <<"failure">>
  <2>1. end \in {<<>>, <<"ended">>} /\ told \in {<<>>, <<"failure">>}
        /\ (told = <<>> <=> Head(k.buffer) = "hello")
    OBVIOUS
  <2>2. kinds = end \o told
    BY DEF PostedGreeting
  <2>3. <<"failure">> \notin {<<>>, <<"ended">>} /\ <<"ended", "failure">> \notin {<<>>, <<"ended">>}
    OBVIOUS
  <2> HIDE DEF end, told, kinds
  <2> QED
    BY <2>1, <2>2, <2>3, Short
<1> HIDE DEF kinds
<1>3. Few(kinds, "ended", "failure", c)
  <2>1. "ended" # "failure" /\ kinds \in {<<>>, <<"ended">>, <<"failure">>, <<"ended", "failure">>, <<"failure", "ended">>}
    BY <1>2
  <2> QED
    BY <1>1, <2>1, FewPosted
<1> QED
  BY <1>2, <1>3 DEF kinds, Few

LEMMA Met ==
    ASSUME Inv, NEW c \in Conns, conn[c] # Fresh
    PROVE  peer[c] # "away" /\ ~Has(queue, "connecting", c)
  BY Objects DEF Mail, Early

\* One message is read by the unknown client.
LEMMA GreetingKeeps ==
    ASSUME Inv, NEW c \in Conns, IsNext("input", c), conn[c].stream = "live",
           NEW k, k = Taken(conn[c]), k.buffer # <<>>, k.reads = "unknown",
           Becomes(c, UnknownReads(k)), Handled(Posting(PostedGreeting(k), c)), OthersUnchanged
    PROVE  Inv'
<1> DEFINE n == UnknownReads(k)
<1>1. /\ k \in Connections /\ Fit(k) /\ k.wire = <<>> /\ k.parser = conn[c].parser
      /\ k.reads = conn[c].reads /\ k.owns = conn[c].owns /\ k.unknown = conn[c].unknown
      /\ k.proxy = conn[c].proxy /\ k.hangup = conn[c].hangup /\ k.timer = conn[c].timer
  BY Objects, TakenFits
<1>2. k.owns = "stream" /\ k.unknown = "live" /\ k.proxy = "none" /\ k.hangup = "nobody" /\ k.parser = "handshake"
  BY <1>1 DEF Fit
<1>3. PICK S \in {{}, {"ended"}, {"failure"}, {"ended", "failure"}} :
         /\ Posted(Posting(PostedGreeting(k), c), S, c) /\ Sent(Posting(PostedGreeting(k), c), c)
         /\ "failure" \in S <=> Head(k.buffer) # "hello"
  BY <1>1, GreetingPosted
<1>4. /\ queue' \in Seq(Entry) /\ Passed(queue, queue', {"input"}, S, c)
      /\ \A d \in Conns : d # c => Passed(queue, queue', {}, {}, d)
  BY <1>3, Handling DEF Inv
<1>5. peer[c] # "away" /\ ~Has(queue, "connecting", c)
  BY Met DEF Fresh
<1>6. Mail(queue, c, conn[c]) /\ ~Has(queue, "ready", c) /\ ~Has(queue, "success", c)
  BY <1>1, <1>2, Objects DEF Mail
<1>7. CASE Head(k.buffer) = "hello"
  <2>1. n = ProxyMade(k)
    BY <1>7 DEF UnknownReads
  <2> HIDE DEF n
  <2>2. /\ n \in Connections /\ Fit(n)
        /\ n.unknown = "live" /\ n.owns = "proxy" /\ n.reads = "proxy" /\ n.proxy = "live"
        /\ n.parser = "handshake" /\ n.wire = k.wire /\ n.hangup = "unknown" /\ n.timer = k.timer
    BY <1>1, <2>1, ProxyMadeFits
  <2>3. ~Has(queue, "failure", c) /\ ~Has(queue, "disconnected", c) /\ k.timer
    BY <1>1, <1>2, <1>6 DEF Mail
  <2>4. Mail(queue', c, n)
    BY <1>1, <1>3, <1>4, <1>5, <1>6, <1>7, <2>2, <2>3 DEF Mail, Passed
  <2> QED
    BY <1>1, <1>2, <1>4, <1>5, <2>2, <2>4, OneHandles DEF Good, Early, n
<1>8. CASE Head(k.buffer) # "hello"
  <2> DEFINE o == [k EXCEPT !.buffer = Tail(@)]
  <2>1. n = Failed(o)
    BY <1>8 DEF UnknownReads
  <2>2. o \in Connections
    <3>1. Tail(k.buffer) \in Seq(Messages)
      BY <1>1 DEF Connections
    <3> QED
      BY <1>1, <3>1, ZenonT(60) DEF Connections
  <2>3. /\ o.unknown = k.unknown /\ o.parser = k.parser /\ o.wire = k.wire /\ o.hangup = k.hangup
        /\ o.stream = k.stream /\ o.timer = k.timer /\ o.owns = k.owns /\ o.proxy = k.proxy
        /\ o.reads = k.reads /\ o.readied = k.readied /\ o.place = k.place /\ o.ready = k.ready
        /\ o.accepting = k.accepting
    BY <1>1 DEF Connections
  <2> HIDE DEF o, n
  <2>4. Fit(o)
    BY <1>1, <1>2, <2>3 DEF Fit
  <2>5. /\ n \in Connections /\ Fit(n)
        /\ n.unknown = "live" /\ n.owns # "proxy" /\ n.reads = "nobody"
        /\ n.parser = "handshake" /\ n.wire = <<>> /\ n.hangup = "nobody"
    BY <1>1, <1>2, <2>1, <2>2, <2>3, <2>4, FailedFits
  <2>6. ~Has(queue, "disconnected", c)
    BY <1>1, <1>2, <1>6 DEF Mail
  <2>7. Mail(queue', c, n)
    BY <1>1, <1>3, <1>4, <1>5, <1>6, <1>8, <2>5, <2>6 DEF Mail, Passed
  <2> QED
    BY <1>1, <1>2, <1>4, <1>5, <2>5, <2>7, OneHandles DEF Good, Early, n
<1> QED
  BY <1>7, <1>8

\* All that there is is read by the proxy.
LEMMA ReadingKeeps ==
    ASSUME Inv, NEW c \in Conns, IsNext("input", c), conn[c].stream = "live",
           NEW k, k = Taken(conn[c]), k.reads = "proxy",
           Becomes(c, ProxyReads(k)), Handled(Posting(PostedReading(k), c)), OthersUnchanged
    PROVE  Inv'
<1> DEFINE n == ProxyReads(k)
<1>1. /\ k \in Connections /\ Fit(k) /\ k.wire = <<>> /\ k.parser = conn[c].parser
      /\ k.reads = conn[c].reads /\ k.owns = conn[c].owns /\ k.unknown = conn[c].unknown
      /\ k.proxy = conn[c].proxy /\ k.hangup = conn[c].hangup /\ k.timer = conn[c].timer
      /\ k.ready = conn[c].ready
  BY Objects, TakenFits
<1>2. k.proxy = "live" /\ (k.hangup = "unknown" => k.owns = "proxy")
  BY <1>1 DEF Fit
<1>3. PICK S \in {{}, {"ended"}, {"ready"}, {"ended", "ready"}} :
         /\ Posted(Posting(PostedReading(k), c), S, c) /\ Sent(Posting(PostedReading(k), c), c)
         /\ "ready" \in S => Read(k).asked # "no"
  BY <1>1, ReadingPosted
<1>4. /\ queue' \in Seq(Entry) /\ Passed(queue, queue', {"input"}, S, c)
      /\ \A d \in Conns : d # c => Passed(queue, queue', {}, {}, d)
  BY <1>3, Handling DEF Inv
<1>5. peer[c] # "away" /\ ~Has(queue, "connecting", c)
  BY Met DEF Fresh
<1>6. /\ n \in Connections /\ Fit(n) /\ n.unknown = k.unknown /\ n.owns = k.owns /\ n.reads = "proxy"
      /\ n.proxy = k.proxy /\ n.wire = <<>> /\ n.hangup = k.hangup /\ n.timer = k.timer
      /\ n.ready = k.ready /\ (k.parser = "normal" => n.parser = "normal")
      /\ Read(k).asked # "no" => k.parser = "handshake" /\ n.parser = "normal"
  BY <1>1, ProxyReadsFits
<1> HIDE DEF n
<1>7. Mail(queue, c, conn[c]) /\ ~Has(queue, "failure", c) /\ ~Has(queue, "disconnected", c)
  BY <1>1, Objects DEF Mail
<1>8. k.parser = "handshake" => ~Has(queue, "success", c) /\ ~Has(queue, "ready", c)
  BY <1>1, <1>7 DEF Mail
<1>9. Mail(queue', c, n)
  BY <1>1, <1>2, <1>3, <1>4, <1>5, <1>6, <1>7, <1>8 DEF Mail, Passed
<1> QED
  BY <1>1, <1>4, <1>5, <1>6, <1>9, OneHandles DEF Good, Early, n

LEMMA InputKeeps == ASSUME Inv, NEW c \in Conns, HandleInput(c) PROVE Inv'
<1>1. IsNext("input", c) /\ TypeOK
  BY DEF HandleInput, Inv
<1>2. CASE conn[c].stream # "live"
  <2>1. /\ Handled(<<>>) /\ UNCHANGED <<conn, waiting, phase, peer, said>>
        /\ misuse' \in {"no", "twice", "dangling"}
    BY <1>1, <1>2 DEF HandleInput, Dropped, TypeOK
  <2>2. conn[c].reads = "nobody"
    <3>1. conn[c].reads \in {"nobody", "unknown", "proxy"}
      BY Objects DEF Connections
    <3> QED
      BY <1>2, <3>1, Objects DEF Fit
  <2> QED
    BY <1>1, <2>1, <2>2, DroppedKeeps
<1>3. CASE conn[c].stream = "live"
  <2> DEFINE k == Taken(conn[c])
  <2>1. OthersUnchanged
    BY <1>3 DEF HandleInput
  <2>2. CASE conn[c].buffer = <<>> /\ k.buffer # <<>> /\ k.reads = "unknown"
    BY <1>1, <1>3, <2>1, <2>2, GreetingKeeps DEF HandleInput
  <2>3. CASE conn[c].buffer = <<>> /\ k.buffer # <<>> /\ k.reads = "proxy"
    BY <1>1, <1>3, <2>1, <2>3, ReadingKeeps DEF HandleInput
  <2>4. CASE ~(conn[c].buffer = <<>> /\ k.buffer # <<>> /\ k.reads \in {"unknown", "proxy"})
    <3>1. Becomes(c, k) /\ Handled(<<>>)
      BY <1>3, <2>4 DEF HandleInput
    <3>2. /\ queue' \in Seq(Entry) /\ Passed(queue, queue', {"input"}, {}, c)
          /\ \A d \in Conns : d # c => Passed(queue, queue', {}, {}, d)
      BY <1>1, <3>1, Handling, NonePosted
    <3>3. /\ k \in Connections /\ Fit(k) /\ k.wire = <<>> /\ k.parser = conn[c].parser
          /\ k.reads = conn[c].reads /\ k.owns = conn[c].owns /\ k.unknown = conn[c].unknown
          /\ k.proxy = conn[c].proxy /\ k.hangup = conn[c].hangup /\ k.timer = conn[c].timer
          /\ k.ready = conn[c].ready
      <4>1. conn[c] \in Connections /\ Fit(conn[c])
        BY Objects
      <4> QED
        BY <1>3, <4>1, TakenFits
    <3> HIDE DEF k
    <3>4. peer[c] # "away" /\ ~Has(queue, "connecting", c)
      BY <1>3, Met DEF Fresh
    <3>5. Mail(queue', c, k)
      BY <3>2, <3>3, <3>4, Objects DEF Mail, Passed
    <3> QED
      BY <2>1, <3>1, <3>2, <3>3, <3>4, <3>5, OneHandles DEF Good, Early
  <2> QED
    BY <2>2, <2>3, <2>4
<1> QED
  BY <1>2, <1>3

LEMMA EndedFits ==
    ASSUME NEW k \in Connections, Fit(k), k.unknown # "none", NEW e, e = [k EXCEPT !.ended = TRUE]
    PROVE  /\ e \in Connections /\ Fit(e)
           /\ e.unknown = k.unknown /\ e.owns = k.owns /\ e.reads = k.reads /\ e.proxy = k.proxy
           /\ e.parser = k.parser /\ e.wire = k.wire /\ e.stray = k.stray /\ e.buffer = k.buffer
           /\ e.hangup = k.hangup /\ e.place = k.place /\ e.timer = k.timer /\ e.ready = k.ready
           /\ e.socket = k.socket /\ e.alarm = k.alarm
<1>1. e \in Connections
  BY DEF Connections
<1>2. /\ e.unknown = k.unknown /\ e.owns = k.owns /\ e.reads = k.reads /\ e.proxy = k.proxy
      /\ e.parser = k.parser /\ e.wire = k.wire /\ e.stray = k.stray /\ e.buffer = k.buffer
      /\ e.hangup = k.hangup /\ e.place = k.place /\ e.timer = k.timer /\ e.ready = k.ready
      /\ e.readied = k.readied /\ e.accepting = k.accepting /\ e.stream = k.stream
      /\ e.socket = k.socket /\ e.alarm = k.alarm
  BY DEF Connections
<1>3. Fit(e)
  BY <1>2 DEF Fit
<1> QED
  BY <1>1, <1>2, <1>3

\* What tells no more of a connection than o does.
Likewise(k, o) ==
    /\ k.unknown = o.unknown /\ k.owns = o.owns /\ k.reads = o.reads /\ k.proxy = o.proxy
    /\ k.parser = o.parser /\ k.wire = o.wire /\ k.hangup = o.hangup /\ k.timer = o.timer
    /\ k.ready = o.ready

LEMMA StreamEndsKeeps ==
    ASSUME Inv, NEW c \in Conns, NEW x \in {"shutdown", "ended", "error"}, IsNext(x, c),
           NEW k \in Connections, Fit(k), Likewise(k, conn[c]), conn[c].stream = "live",
           StreamEnds(c, k)
    PROVE  Inv'
<1>1. OthersUnchanged /\ TypeOK
  BY DEF StreamEnds, Inv
<1>2. peer[c] # "away" /\ ~Has(queue, "connecting", c)
  BY Met DEF Fresh
<1>3. Mail(queue, c, conn[c])
  BY Objects
<1>4. CASE k.reads = "unknown"
  <2> DEFINE n == Failed(k)
  <2>1. Becomes(c, n) /\ Handled(Posting(<<"failure">>, c))
    BY <1>4 DEF StreamEnds
  <2>2. "failure" \in EventKinds
    BY DEF EventKinds
  <2>3. /\ queue' \in Seq(Entry) /\ Passed(queue, queue', {x}, {"failure"}, c)
        /\ \A d \in Conns : d # c => Passed(queue, queue', {}, {}, d)
    BY <1>1, <2>1, <2>2, Handling, OnePosted
  <2>4. k.unknown = "live" /\ k.owns = "stream" /\ k.proxy = "none" /\ k.hangup = "nobody" /\ k.parser = "handshake"
    BY <1>4 DEF Fit
  <2>5. /\ n \in Connections /\ Fit(n) /\ n.unknown = "live" /\ n.owns # "proxy" /\ n.reads = "nobody"
        /\ n.parser = "handshake" /\ n.hangup = "nobody"
    BY <2>4, FailedFits
  <2> HIDE DEF n
  <2>6. /\ ~Has(queue, "ready", c) /\ ~Has(queue, "success", c) /\ ~Has(queue, "disconnected", c)
    BY <1>3, <1>4, <2>4 DEF Mail, Likewise
  <2>7. Mail(queue', c, n)
    BY <1>2, <1>3, <2>3, <2>5, <2>6 DEF Mail, Passed
  <2> QED
    BY <1>1, <1>2, <2>1, <2>3, <2>4, <2>5, <2>7, OneHandles DEF Good, Early, Likewise
<1>5. CASE k.reads = "proxy"
  <2> DEFINE n == ProxyDisconnected(k)
  <2>1. Becomes(c, n) /\ Handled(Posting(<<"disconnected">>, c))
    BY <1>5 DEF StreamEnds
  <2>2. "disconnected" \in EventKinds
    BY DEF EventKinds
  <2>3. /\ queue' \in Seq(Entry) /\ Passed(queue, queue', {x}, {"disconnected"}, c)
        /\ \A d \in Conns : d # c => Passed(queue, queue', {}, {}, d)
    BY <1>1, <2>1, <2>2, Handling, OnePosted
  <2>4. k.proxy = "live" /\ (k.hangup = "unknown" => k.owns = "proxy")
    BY <1>5 DEF Fit
  <2>5. /\ n \in Connections /\ Fit(n) /\ n.unknown = k.unknown /\ n.owns = k.owns /\ n.reads = "nobody"
        /\ n.proxy = "live" /\ n.parser = k.parser /\ n.hangup = k.hangup /\ n.timer = k.timer
        /\ n.ready = k.ready
    BY <1>5, <2>4, ProxyDisconnectedFits
  <2> HIDE DEF n
  <2>6. ~Has(queue, "failure", c) /\ ~Has(queue, "disconnected", c)
    BY <1>3, <1>5 DEF Mail, Likewise
  <2>7. Mail(queue', c, n)
    BY <1>2, <1>3, <2>3, <2>4, <2>5, <2>6 DEF Mail, Passed, Likewise
  <2> QED
    BY <1>1, <1>2, <2>1, <2>3, <2>4, <2>5, <2>7, OneHandles DEF Good, Early, Likewise
<1>6. CASE k.reads \notin {"unknown", "proxy"}
  <2>1. Becomes(c, k) /\ Handled(<<>>)
    BY <1>6 DEF StreamEnds
  <2>2. /\ queue' \in Seq(Entry) /\ Passed(queue, queue', {x}, {}, c)
        /\ \A d \in Conns : d # c => Passed(queue, queue', {}, {}, d)
    BY <1>1, <2>1, Handling, NonePosted
  <2>3. Mail(queue', c, k)
    BY <1>2, <1>3, <2>2 DEF Mail, Passed, Likewise
  <2> QED
    BY <1>1, <1>2, <2>1, <2>2, <2>3, OneHandles DEF Good, Early, Likewise
<1> QED
  BY <1>4, <1>5, <1>6

LEMMA ShutdownKeeps == ASSUME Inv, NEW c \in Conns, HandleShutdown(c) PROVE Inv'
<1> DEFINE k == [conn[c] EXCEPT !.ended = TRUE]
<1>1. IsNext("shutdown", c) /\ TypeOK
  BY DEF HandleShutdown, Inv
<1>2. CASE conn[c].stream # "live"
  <2>1. k.stream = conn[c].stream
    BY Objects DEF Connections
  <2>2. /\ Handled(<<>>) /\ UNCHANGED <<conn, waiting, phase, peer, said>>
        /\ misuse' \in {"no", "twice", "dangling"}
    BY <1>1, <1>2, <2>1 DEF HandleShutdown, Dropped, TypeOK
  <2> QED
    BY <1>1, <2>2, DroppedKeeps
<1>3. CASE conn[c].stream = "live"
  <2>1. conn[c] \in Connections /\ Fit(conn[c])
    BY Objects
  <2>2. conn[c].unknown # "none"
    BY <1>3, <2>1 DEF Fit, Unmet
  <2>3. k \in Connections /\ Fit(k) /\ Likewise(k, conn[c]) /\ k.buffer = conn[c].buffer
    BY <2>1, <2>2, EndedFits DEF Likewise
  <2>4. k.stream = "live"
    BY <1>3, <2>1 DEF Connections
  <2>5. CASE k.buffer # <<>>
    <3>1. Becomes(c, k) /\ Handled(<<>>) /\ OthersUnchanged
      BY <2>4, <2>5 DEF HandleShutdown
    <3>2. /\ queue' \in Seq(Entry) /\ Passed(queue, queue', {"shutdown"}, {}, c)
          /\ \A d \in Conns : d # c => Passed(queue, queue', {}, {}, d)
      BY <1>1, <3>1, Handling, NonePosted
    <3>3. peer[c] # "away" /\ ~Has(queue, "connecting", c)
      BY <1>3, Met DEF Fresh
    <3> HIDE DEF k
    <3>4. Mail(queue', c, k)
      BY <2>3, <3>2, <3>3, Objects DEF Mail, Passed, Likewise
    <3> QED
      BY <2>3, <3>1, <3>2, <3>3, <3>4, OneHandles DEF Good, Early, Likewise
  <2>6. CASE k.buffer = <<>>
    <3>1. StreamEnds(c, k)
      BY <2>4, <2>6 DEF HandleShutdown
    <3> HIDE DEF k
    <3> QED
      BY <1>1, <1>3, <2>3, <3>1, StreamEndsKeeps
  <2> QED
    BY <2>5, <2>6
<1> QED
  BY <1>2, <1>3

LEMMA EndedKeeps == ASSUME Inv, NEW c \in Conns, HandleEnded(c) PROVE Inv'
<1>1. PICK x \in {"ended", "error"} : IsNext(x, c)
  BY DEF HandleEnded
<1>2. CASE conn[c].stream # "live"
  <2>1. /\ Handled(<<>>) /\ UNCHANGED <<conn, waiting, phase, peer, said>>
        /\ misuse' \in {"no", "twice", "dangling"}
    BY <1>1, <1>2 DEF HandleEnded, Dropped, TypeOK, Inv
  <2> QED
    BY <1>1, <2>1, DroppedKeeps
<1>3. CASE conn[c].stream = "live"
  <2>1. StreamEnds(c, conn[c]) /\ Likewise(conn[c], conn[c])
    BY <1>3 DEF HandleEnded, Likewise
  <2> QED
    BY <1>1, <1>3, <2>1, Objects, StreamEndsKeeps
<1> QED
  BY <1>2, <1>3

LEMMA ReadyKeeps == ASSUME Inv, NEW c \in Conns, HandleReady(c) PROVE Inv'
<1> DEFINE o == conn[c]
           k == [o EXCEPT !.ready = TRUE, !.timer = FALSE]
<1>1. /\ IsNext("ready", c) /\ TypeOK /\ o \in Connections /\ Fit(o) /\ Mail(queue, c, o)
      /\ o.readied \in {"nobody", "unknown"}
  <2>1. o \in Connections
    BY Objects
  <2> QED
    BY <2>1, Objects DEF HandleReady, Inv, Connections
<1>2. CASE o.readied = "nobody" \/ o.unknown = "deleted"
  <2>1. /\ Handled(<<>>) /\ UNCHANGED <<conn, waiting, phase, peer, said>>
        /\ misuse' \in {"no", "twice", "dangling"}
    BY <1>1, <1>2 DEF HandleReady, Dropped, TypeOK
  <2> QED
    BY <1>1, <2>1, DroppedKeeps
<1>3. CASE o.readied = "unknown" /\ o.unknown # "deleted"
  <2>1. Becomes(c, k) /\ Handled(Posting(<<"success">>, c)) /\ OthersUnchanged
    BY <1>3 DEF HandleReady
  <2>2. "success" \in EventKinds
    BY DEF EventKinds
  <2>3. /\ queue' \in Seq(Entry) /\ Passed(queue, queue', {"ready"}, {"success"}, c)
        /\ \A d \in Conns : d # c => Passed(queue, queue', {}, {}, d)
        /\ Has(queue, "ready", c)
    BY <1>1, <2>1, <2>2, Handling, OnePosted
  <2>4. /\ o.parser = "normal" /\ o.hangup = "unknown" /\ o.owns = "proxy" /\ o.unknown = "live"
        /\ o # Fresh
    BY <1>1, <1>3, <2>3 DEF Mail, Fit, Fresh
  <2>5. k \in Connections
    BY <1>1 DEF Connections
  <2>6. /\ k.ready /\ ~k.timer /\ k.unknown = o.unknown /\ k.stream = o.stream /\ k.owns = o.owns
        /\ k.hangup = o.hangup /\ k.parser = o.parser /\ k.reads = o.reads /\ k.accepting = o.accepting
        /\ k.proxy = o.proxy /\ k.place = o.place /\ k.readied = o.readied /\ k.wire = o.wire
    BY <1>1 DEF Connections
  <2>7. peer[c] # "away" /\ ~Has(queue, "connecting", c)
    BY <2>4, Met
  <2> HIDE DEF k, o
  <2>8. Fit(k)
    BY <1>1, <2>4, <2>6 DEF Fit
  <2>9. Mail(queue', c, k)
    BY <1>1, <2>3, <2>4, <2>6, <2>7 DEF Mail, Passed
  <2> QED
    BY <2>1, <2>3, <2>4, <2>5, <2>6, <2>7, <2>8, <2>9, OneHandles DEF Good, Early, o
<1> QED
  BY <1>1, <1>2, <1>3

\* The unknown client is deleted with what it owns, which is no proxy.
LEMMA DeletingKeeps ==
    ASSUME Inv, NEW c \in Conns, NEW x \in {"success", "failure"}, IsNext(x, c),
           conn[c].unknown = "live", conn[c].owns # "proxy",
           Becomes(c, UnknownDeleted(conn[c])), Handled(<<>>), OthersUnchanged
    PROVE  Inv'
<1> DEFINE o == conn[c]
           k == UnknownDeleted(o)
<1>1. o \in Connections /\ Fit(o) /\ Mail(queue, c, o)
  BY Objects
<1>2. /\ k \in Connections /\ Fit(k) /\ k.unknown = "deleted" /\ k.owns = "nothing" /\ k.reads = "nobody"
      /\ k.parser = o.parser /\ k.hangup = o.hangup /\ k.proxy = o.proxy
  BY <1>1, UnknownDeletedFits
<1>3. /\ queue' \in Seq(Entry) /\ Passed(queue, queue', {x}, {}, c)
      /\ \A d \in Conns : d # c => Passed(queue, queue', {}, {}, d)
  BY Handling, NonePosted DEF Inv
<1>4. peer[c] # "away" /\ ~Has(queue, "connecting", c)
  BY Met DEF Fresh
<1>5. Becomes(c, k)
  OBVIOUS
<1> HIDE DEF k, o
<1>6. o.owns # "proxy" /\ (o.hangup = "unknown" => ~Has(queue, "ready", c) /\ ~Has(queue, "disconnected", c))
  BY <1>1 DEF Mail, o
<1>7. Mail(queue', c, k)
  BY <1>1, <1>2, <1>3, <1>4, <1>6 DEF Mail, Passed
<1>8. k.hangup = conn[c].hangup
  BY <1>2 DEF o
<1> QED
  BY <1>2, <1>3, <1>4, <1>5, <1>7, <1>8, OneHandles DEF Good, Early

LEMMA SuccessKeeps == ASSUME Inv, NEW c \in Conns, HandleSuccess(c) PROVE Inv'
<1> DEFINE o == conn[c]
<1>1. IsNext("success", c) /\ TypeOK /\ o \in Connections /\ Fit(o) /\ Mail(queue, c, o)
  BY Objects DEF HandleSuccess, Inv
<1>2. CASE o.unknown # "live"
  <2>1. /\ Handled(<<>>) /\ UNCHANGED <<conn, waiting, phase, peer, said>>
        /\ misuse' \in {"no", "twice", "dangling"}
    BY <1>1, <1>2 DEF HandleSuccess, Dropped, TypeOK
  <2> QED
    BY <1>1, <1>2, <2>1, DroppedKeeps
<1>3. CASE o.unknown = "live" /\ ~HasOrphan(o)
  <2>1. Orphaned(o) = o
    BY <1>3 DEF Orphaned
  <2>2. Becomes(c, UnknownDeleted(o)) /\ Handled(<<>>) /\ OthersUnchanged
    BY <1>3, <2>1 DEF HandleSuccess, OthersUnchanged
  <2>3. o.owns # "proxy"
    <3>1. Has(queue, "success", c)
      BY <1>1, <2>2, Handling, NonePosted
    <3> QED
      BY <1>1, <1>3, <3>1 DEF Mail, HasOrphan
  <2> QED
    BY <1>1, <1>3, <2>2, <2>3, DeletingKeeps
<1>4. CASE o.unknown = "live" /\ HasOrphan(o)
  <2> DEFINE k == [UnknownDeleted(Orphaned(o)) EXCEPT !.hangup = "listener"]
  <2>1. /\ conn' = [conn EXCEPT ![c] = k] /\ waiting' = Append(waiting, c)
        /\ Handled(<<Event("connected", Everyone)>>) /\ UNCHANGED <<phase, peer, said, misuse>>
    BY <1>4 DEF HandleSuccess, Becomes
  <2>2. "connected" \in EventKinds
    BY DEF EventKinds
  <2>3. /\ queue' \in Seq(Entry) /\ Passed(queue, queue', {"success"}, {}, c)
        /\ \A d \in Conns : d # c => Passed(queue, queue', {}, {}, d)
    BY <1>1, <2>1, <2>2, Handling, AllPosted
  <2>4. /\ k \in Connections /\ Fit(k) /\ k.unknown = "deleted" /\ k.owns = "nothing" /\ k.reads = o.reads
        /\ k.parser = o.parser /\ k.wire = o.wire /\ k.hangup = "listener" /\ k.proxy = "live"
    <3>1. k = [UnknownDeleted(Orphaned(o)) EXCEPT !.hangup = "listener"]
      OBVIOUS
    <3> HIDE DEF k, o
    <3> QED
      BY <1>1, <1>4, <3>1, OrphanFits
  <2>5. peer[c] # "away" /\ ~Has(queue, "connecting", c)
    BY <1>4, Met DEF Fresh
  <2> HIDE DEF k, o
  <2>6. o.owns = "proxy" /\ o.hangup = "unknown"
    BY <1>1, <1>4 DEF HasOrphan, Fit
  <2>7. Mail(queue', c, k)
    BY <1>1, <2>3, <2>4, <2>5, <2>6 DEF Mail, Passed
  <2>8. /\ conn' \in [Conns -> Connections]
        /\ \A d \in Conns : Good(queue', d, conn'[d], peer'[d])
        /\ conn'[c] = k /\ \A d \in Conns : d # c => conn'[d] = conn[d]
    BY <2>1, <2>3, <2>4, <2>5, <2>7, OneMoves DEF Good, Early
  <2>9. waiting \in Seq(Conns) /\ Distinct(waiting) /\ ~InLine(waiting, c)
    BY <1>1, <2>6 DEF Inv, TypeOK, Lined, o
  <2>10. waiting' \in Seq(Conns) /\ Distinct(waiting') /\ \A d : InLine(waiting', d) <=> InLine(waiting, d) \/ d = c
    BY <2>1, <2>9, LongerLine
  <2>11. Lined'
    BY <2>4, <2>8, <2>10 DEF Lined, Inv
  <2> QED
    BY <1>1, <2>1, <2>3, <2>8, <2>10, <2>11 DEF Inv, TypeOK, Entry
<1> QED
  BY <1>2, <1>3, <1>4

LEMMA FailureKeeps == ASSUME Inv, NEW c \in Conns, HandleFailure(c) PROVE Inv'
<1>1. IsNext("failure", c) /\ TypeOK /\ Mail(queue, c, conn[c])
  BY Objects DEF HandleFailure, Inv
<1>2. CASE conn[c].unknown # "live"
  <2>1. /\ Handled(<<>>) /\ UNCHANGED <<conn, waiting, phase, peer, said>>
        /\ misuse' \in {"no", "twice", "dangling"}
    BY <1>1, <1>2 DEF HandleFailure, Dropped, TypeOK
  <2> QED
    BY <1>1, <1>2, <2>1, DroppedKeeps
<1>3. CASE conn[c].unknown = "live"
  <2>1. Becomes(c, UnknownDeleted(conn[c])) /\ Handled(<<>>) /\ OthersUnchanged
    BY <1>3 DEF HandleFailure
  <2>2. Has(queue, "failure", c)
    BY <1>1, <2>1, Handling, NonePosted
  <2>3. conn[c].owns # "proxy"
    BY <1>1, <2>2 DEF Mail
  <2> QED
    BY <1>1, <1>3, <2>1, <2>3, DeletingKeeps
<1> QED
  BY <1>2, <1>3

\* Server::adoptClient.  The options leave one alarm.
Adopted(k, a) ==
    \/ a = OptionsSent([[k EXCEPT !.hangup = "server"] EXCEPT !.place = "served"])
    \/ a = [[k EXCEPT !.hangup = "server"] EXCEPT !.place = "closing"]

LEMMA AdoptedFits ==
    ASSUME NEW k \in Connections, Fit(k), k.hangup = "listener", NEW a, Adopted(k, a)
    PROVE  /\ a \in Connections /\ Fit(a)
           /\ a.unknown = "deleted" /\ a.owns = "nothing" /\ a.reads = k.reads /\ a.proxy = "live"
           /\ a.parser = "normal" /\ a.wire = k.wire /\ a.stray = k.stray /\ a.hangup = "server"
           /\ a.place \in {"served", "closing"} /\ a.buffer = k.buffer /\ a.socket = k.socket
<1>1. /\ k.proxy = "live" /\ k.unknown = "deleted" /\ k.owns = "nothing" /\ k.parser = "normal"
      /\ k.stray \in BOOLEAN
  BY DEF Fit, Connections
<1>2. /\ a \in Connections /\ a.stray = k.stray /\ a.place \in {"served", "closing"}
  <2>1. CASE a = OptionsSent([[k EXCEPT !.hangup = "server"] EXCEPT !.place = "served"])
    <3>1. a = [k EXCEPT !.hangup = "server", !.place = "served", !.alarm = TRUE, !.stray = k.stray \/ FALSE]
      BY <2>1 DEF OptionsSent, AlarmReset, AlarmAdded, Connections
    <3>2. a = [k EXCEPT !.hangup = "server", !.place = "served", !.alarm = TRUE, !.stray = k.stray]
      BY <1>1, <3>1
    <3> QED
      BY <1>1, <3>2 DEF Connections
  <2>2. CASE a = [[k EXCEPT !.hangup = "server"] EXCEPT !.place = "closing"]
    BY <2>2 DEF Connections
  <2> QED
    BY <2>1, <2>2 DEF Adopted
<1>3. /\ a.unknown = k.unknown /\ a.owns = k.owns /\ a.reads = k.reads /\ a.proxy = k.proxy
      /\ a.parser = k.parser /\ a.wire = k.wire /\ a.hangup = "server"
      /\ a.timer = k.timer /\ a.ready = k.ready /\ a.buffer = k.buffer /\ a.socket = k.socket
      /\ a.readied = k.readied /\ a.accepting = k.accepting /\ a.stream = k.stream
  BY ZenonT(60) DEF Adopted, OptionsSent, AlarmReset, AlarmAdded, Connections
<1>4. k.readied # "unknown"
  BY DEF Fit
<1>5. Fit(a)
  BY <1>1, <1>2, <1>3, <1>4 DEF Fit
<1> QED
  BY <1>1, <1>2, <1>3, <1>5

\* An event about all is handled, and something about all posted.
LEMMA HandlingAll ==
    ASSUME TypeOK, NEW x, IsNext(x, Everyone), NEW p, Handled(p),
           p = <<>> \/ \E a \in EventKinds : p = <<Event(a, Everyone)>>
    PROVE  queue' \in Seq(Entry) /\ \A d \in Conns : Passed(queue, queue', {}, {}, d)
<1>1. queue \in Seq(Entry) /\ queue # <<>> /\ Head(queue) = Event(x, Everyone)
  BY DEF TypeOK, Entry, IsNext
<1>2. queue' = Tail(queue) \o p
  BY DEF Handled
<1>3. ASSUME NEW d \in Conns PROVE Passed(queue, queue', {}, {}, d)
  <2>1. d # Everyone
    BY HandshakeAssumption
  <2>2. Posted(p, {}, d)
    BY AllPosted, NonePosted
  <2> QED
    BY <1>1, <1>2, <2>1, <2>2, ElsePassed
<1>4. p \in Seq(Entry)
  <2>1. <<>> \in Seq(Entry)
    OBVIOUS
  <2>2. ASSUME NEW a \in EventKinds PROVE <<Event(a, Everyone)>> \in Seq(Entry)
    <3>1. Event(a, Everyone) \in Entry
      BY DEF Entry, Event
    <3> QED
      BY <3>1
  <2> QED
    BY <2>1, <2>2
<1>5. queue' \in Seq(Entry)
  <2>1. Tail(queue) \in Seq(Entry)
    BY <1>1, TailOfQueue
  <2> QED
    BY <1>2, <1>4, <2>1, ConcatProperties
<1> QED
  BY <1>3, <1>5

LEMMA ConnectedKeeps == ASSUME Inv, HandleConnected PROVE Inv'
<1>1. IsNext("connected", Everyone) /\ TypeOK
  BY DEF HandleConnected, Inv
<1>2. CASE waiting = <<>> \/ phase = "stopped"
  <2>1. Handled(<<>>) /\ UNCHANGED <<conn, waiting, phase, peer, said, misuse>>
    BY <1>2 DEF HandleConnected, Dropped
  <2>2. queue' \in Seq(Entry) /\ \A d \in Conns : Passed(queue, queue', {}, {}, d)
    BY <1>1, <2>1, HandlingAll
  <2>3. ASSUME NEW d \in Conns PROVE Good(queue', d, conn[d], peer[d])
    BY <2>2, GoodElse DEF Inv
  <2> QED
    BY <1>1, <2>1, <2>2, <2>3 DEF Inv, TypeOK, Lined, Entry
<1>3. CASE ~(waiting = <<>> \/ phase = "stopped")
  <2> DEFINE c == Head(waiting)
             o == conn[c]
  <2>1. waiting \in Seq(Conns) /\ waiting # <<>> /\ Distinct(waiting)
    BY <1>1, <1>3 DEF TypeOK, Inv, Lined
  <2>2. /\ c \in Conns /\ 1 \in 1..Len(waiting) /\ c = waiting[1] /\ Without(waiting, 1, Tail(waiting))
    BY <2>1, FirstServed
  <2>3. o.hangup = "listener"
    BY <2>2 DEF Inv, Lined, InLine
  <2>4. \E a : conn' = [conn EXCEPT ![c] = a] /\ Adopted(o, a)
    BY <1>3 DEF HandleConnected, NextInLine, Becomes, Adopted
  <2>5. PICK a : conn' = [conn EXCEPT ![c] = a] /\ Adopted(o, a)
    BY <2>4
  <2>6. waiting' = Tail(waiting) /\ Handled(<<>>) /\ UNCHANGED <<phase, peer, said, misuse>>
    BY <1>3 DEF HandleConnected
  <2>7. queue' \in Seq(Entry) /\ \A d \in Conns : Passed(queue, queue', {}, {}, d)
    BY <1>1, <2>6, HandlingAll
  <2> HIDE DEF c
  <2>8. o \in Connections /\ Fit(o) /\ Mail(queue, c, o)
    BY <2>2, Objects
  <2>9. peer[c] # "away" /\ ~Has(queue, "connecting", c)
    BY <2>2, <2>3, Met DEF Fresh
  <2> HIDE DEF o
  <2>10. /\ a \in Connections /\ Fit(a) /\ a.unknown = "deleted" /\ a.owns = "nothing"
         /\ a.reads = o.reads /\ a.proxy = "live" /\ a.parser = "normal" /\ a.wire = o.wire
         /\ a.hangup = "server"
    BY <2>3, <2>5, <2>8, AdoptedFits
  <2>11. o.owns = "nothing"
    BY <2>3, <2>8 DEF Fit
  <2>12. Mail(queue', c, a)
    BY <2>2, <2>7, <2>8, <2>9, <2>10, <2>11 DEF Mail, Passed
  <2>13. /\ conn' \in [Conns -> Connections]
         /\ \A d \in Conns : Good(queue', d, conn'[d], peer'[d])
         /\ conn'[c] = a /\ \A d \in Conns : d # c => conn'[d] = conn[d]
    BY <2>2, <2>5, <2>6, <2>7, <2>9, <2>10, <2>12, OneMoves DEF Good, Early
  <2>14. waiting' \in Seq(Conns) /\ Distinct(waiting') /\ \A d : InLine(waiting', d) <=> InLine(waiting, d) /\ d # c
    <3>1. Distinct(Tail(waiting)) /\ \A d : InLine(Tail(waiting), d) <=> InLine(waiting, d) /\ d # waiting[1]
      BY <2>1, <2>2, ShorterLine
    <3> QED
      BY <2>2, <2>6, <3>1 DEF Without
  <2>15. Lined'
    BY <2>10, <2>13, <2>14 DEF Lined, Inv
  <2> QED
    BY <1>1, <2>6, <2>7, <2>13, <2>14, <2>15 DEF Inv, TypeOK, Entry
<1> QED
  BY <1>2, <1>3

LEMMA DisconnectedKeeps == ASSUME Inv, NEW c \in Conns, HandleDisconnected(c) PROVE Inv'
<1> DEFINE o == conn[c]
<1>1. /\ IsNext("disconnected", c) /\ TypeOK /\ o \in Connections /\ Fit(o) /\ Mail(queue, c, o)
  BY Objects DEF HandleDisconnected, Inv
<1>2. o.hangup \in {"nobody", "unknown", "listener", "server"}
  BY <1>1 DEF Connections
<1>3. CASE o.hangup = "nobody" \/ (o.hangup = "unknown" /\ o.unknown # "live")
  <2>1. /\ Handled(<<>>) /\ UNCHANGED <<conn, waiting, phase, peer, said>>
        /\ misuse' \in {"no", "twice", "dangling"}
    BY <1>1, <1>3 DEF HandleDisconnected, Dropped, TypeOK
  <2> QED
    BY <1>1, <2>1, DroppedKeeps
<1>4. CASE o.hangup = "unknown" /\ o.unknown = "live"
  <2> DEFINE n == Failed(o)
  <2>1. Becomes(c, n) /\ Handled(Posting(<<"failure">>, c)) /\ OthersUnchanged
    BY <1>4 DEF HandleDisconnected
  <2>2. "failure" \in EventKinds
    BY DEF EventKinds
  <2>3. /\ queue' \in Seq(Entry) /\ Passed(queue, queue', {"disconnected"}, {"failure"}, c)
        /\ \A d \in Conns : d # c => Passed(queue, queue', {}, {}, d)
        /\ Has(queue, "disconnected", c)
    BY <1>1, <2>1, <2>2, Handling, OnePosted
  <2>4. peer[c] # "away" /\ ~Has(queue, "connecting", c)
    BY <1>4, Met DEF Fresh
  <2>5. /\ n \in Connections /\ Fit(n) /\ n.unknown = "live" /\ n.owns # "proxy" /\ n.reads = "nobody"
        /\ n.parser = o.parser /\ n.hangup = o.hangup /\ (o.proxy # "none" => n.proxy # "none")
    BY <1>1, <1>4, FailedFits
  <2> HIDE DEF n, o
  <2>6. o.proxy # "none"
    BY <1>1, <2>3 DEF Mail
  <2>7. Never(queue, "disconnected", "disconnected", c) /\ Never(queue, "disconnected", "ready", c)
    BY <1>1 DEF Mail
  <2>8. Mail(queue', c, n)
    BY <1>1, <2>3, <2>4, <2>5, <2>6, <2>7 DEF Mail, Passed
  <2> QED
    BY <2>1, <2>3, <2>4, <2>5, <2>8, OneHandles DEF Good, Early, o
<1>5. CASE o.hangup \in {"listener", "server"}
  <2> DEFINE n == ServerDeletes(o)
  <2>1. /\ n \in Connections /\ Fit(n) /\ n.unknown = "deleted" /\ n.owns = "nothing"
        /\ n.reads = "nobody" /\ n.proxy = "deleted" /\ n.parser = "normal" /\ n.hangup = "nobody"
    BY <1>1, <1>5, ServerDeletesFits
  <2>2. peer[c] # "away" /\ ~Has(queue, "connecting", c)
    BY <1>5, Met DEF Fresh
  <2>3. \E p : /\ Handled(p) /\ Posted(p, {}, c) /\ Sent(p, c)
               /\ conn' = [conn EXCEPT ![c] = n] /\ UNCHANGED <<phase, peer, said>>
               /\ misuse' \in {"no", "twice", "dangling"}
               /\ \/ o.hangup = "listener" /\ waiting' = RemoveFirst(waiting, c)
                  \/ o.hangup = "server" /\ waiting' = waiting
    <3>1. CASE o.hangup = "listener"
      <4>1. [ProxyDeleted(o) EXCEPT !.hangup = "nobody"] = n
        BY <1>1, <3>1, ListenerDeletes
      <4>2. /\ waiting' = RemoveFirst(waiting, c) /\ Handled(<<>>) /\ UNCHANGED <<phase, peer, said>>
            /\ conn' = [conn EXCEPT ![c] = [ProxyDeleted(o) EXCEPT !.hangup = "nobody"]]
            /\ misuse' \in {"no", "twice", "dangling"}
        BY <3>1 DEF HandleDisconnected, Becomes, DeletesTwice
      <4> QED
        BY <3>1, <4>1, <4>2, NonePosted
    <3>2. CASE o.hangup = "server"
      <4>1. /\ Handled(GoneFrom(c)) /\ UNCHANGED <<waiting, phase, peer, said>>
            /\ conn' = [conn EXCEPT ![c] = n] /\ misuse' = misuse
        BY <3>2 DEF HandleDisconnected, Becomes, OthersUnchanged
      <4>2. "allGone" \in EventKinds /\ misuse \in {"no", "twice", "dangling"}
        BY <1>1 DEF EventKinds, TypeOK
      <4>3. Posted(GoneFrom(c), {}, c) /\ Sent(GoneFrom(c), c)
        BY <4>2, AllPosted, NonePosted DEF GoneFrom
      <4> QED
        BY <3>2, <4>1, <4>2, <4>3
    <3> QED
      BY <1>5, <3>1, <3>2
  <2> HIDE DEF n
  <2>4. PICK p : /\ Handled(p) /\ Posted(p, {}, c) /\ Sent(p, c)
                 /\ conn' = [conn EXCEPT ![c] = n] /\ UNCHANGED <<phase, peer, said>>
                 /\ misuse' \in {"no", "twice", "dangling"}
                 /\ \/ o.hangup = "listener" /\ waiting' = RemoveFirst(waiting, c)
                    \/ o.hangup = "server" /\ waiting' = waiting
    BY <2>3
  <2>5. /\ queue' \in Seq(Entry) /\ Passed(queue, queue', {"disconnected"}, {}, c)
        /\ \A d \in Conns : d # c => Passed(queue, queue', {}, {}, d)
    BY <1>1, <2>4, Handling
  <2>6. Has(queue, "failure", c) => o.unknown # "none"
    BY <1>1 DEF Mail
  <2>7. Mail(queue', c, n)
    BY <1>1, <2>1, <2>2, <2>5, <2>6 DEF Mail, Passed
  <2>8. /\ conn' \in [Conns -> Connections]
        /\ \A d \in Conns : Good(queue', d, conn'[d], peer'[d])
        /\ conn'[c] = n /\ \A d \in Conns : d # c => conn'[d] = conn[d]
    BY <2>1, <2>2, <2>4, <2>5, <2>7, OneMoves DEF Good, Early
  <2>9. waiting \in Seq(Conns) /\ Distinct(waiting) /\ \A d \in Conns : InLine(waiting, d) <=> conn[d].hangup = "listener"
    BY <1>1 DEF Inv, TypeOK, Lined
  <2>10. waiting' \in Seq(Conns) /\ Lined'
    <3>1. CASE o.hangup = "listener"
      <4>1. PICK j \in 1..Len(waiting) : waiting[j] = c
        BY <2>9, <3>1 DEF InLine
      <4>2. waiting' = RemoveAt(waiting, j)
        BY <2>4, <2>9, <3>1, <4>1, FirstIsOnly
      <4>3. Without(waiting, j, waiting')
        BY <2>9, <4>1, <4>2, Leaving
      <4>4. Distinct(waiting') /\ \A d : InLine(waiting', d) <=> InLine(waiting, d) /\ d # waiting[j]
        BY <2>9, <4>3, ShorterLine
      <4> QED
        BY <2>1, <2>8, <2>9, <4>1, <4>3, <4>4 DEF Lined, Without
    <3>2. CASE o.hangup = "server"
      <4>1. waiting' = waiting
        BY <2>4, <3>2
      <4> QED
        BY <2>1, <2>8, <2>9, <3>2, <4>1 DEF Lined
    <3> QED
      BY <1>5, <3>1, <3>2
  <2> QED
    BY <1>1, <2>4, <2>5, <2>8, <2>10 DEF Inv, TypeOK, Entry
<1> QED
  BY <1>2, <1>3, <1>4, <1>5

-----------------------------------------------------------------------------
(* So do timers and the clients *)

\* A change that the rest does not notice.
LEMMA LikewiseMail ==
    ASSUME NEW q, NEW r, NEW c, NEW o, NEW k, Mail(q, c, o), Likewise(k, o), ~Has(q, "connecting", c),
           Passed(q, r, {}, {}, c)
    PROVE  Mail(r, c, k)
  BY DEF Mail, Passed, Likewise

\* Server::closeClient
LEMMA ClosingFits ==
    ASSUME NEW k \in Connections, Fit(k), k.place = "served", NEW a, a = [k EXCEPT !.place = "closing"]
    PROVE  a \in Connections /\ Fit(a) /\ Likewise(a, k)
<1>1. a \in Connections
  BY DEF Connections
<1>2. Likewise(a, k)
  BY DEF Connections, Likewise
<1>3. /\ a.place = "closing" /\ a.stream = k.stream /\ a.accepting = k.accepting /\ a.readied = k.readied
      /\ k.hangup = "server"
  BY DEF Connections, Fit
<1>4. Fit(a)
  BY <1>2, <1>3 DEF Fit, Likewise
<1> QED
  BY <1>1, <1>2, <1>4

LEMMA DismissKeeps == ASSUME Inv, NEW c \in Conns, Dismiss(c) PROVE Inv'
<1> DEFINE k == [conn[c] EXCEPT !.place = "closing"]
<1>1. Becomes(c, k) /\ OthersUnchanged /\ queue' = queue /\ conn[c].place = "served"
  BY DEF Dismiss, OthersUnchanged, Served
<1>2. k \in Connections /\ Fit(k) /\ Likewise(k, conn[c])
  BY <1>1, Objects, ClosingFits
<1>3. peer[c] # "away" /\ ~Has(queue, "connecting", c)
  BY <1>1, Met DEF Fresh
<1> HIDE DEF k
<1>4. Mail(queue', c, k)
  BY <1>1, <1>2, <1>3, Objects, LikewiseMail, SamePassed
<1>5. queue' \in Seq(Entry) /\ \A d \in Conns : d # c => Passed(queue, queue', {}, {}, d)
  BY <1>1, SamePassed DEF Inv, TypeOK, Entry
<1> QED
  BY <1>1, <1>2, <1>3, <1>4, <1>5, OneHandles DEF Good, Early, Likewise

LEMMA StopKeeps == ASSUME Inv, Stop PROVE Inv'
<1>1. /\ TypeOK /\ UNCHANGED <<waiting, peer, said, misuse>> /\ phase' = "closing"
      /\ conn' = [c \in Conns |-> IF c \in Served THEN [conn[c] EXCEPT !.place = "closing"] ELSE conn[c]]
  BY DEF Stop, Inv
<1>2. queue' \in Seq(Entry) /\ \A d \in Conns : Passed(queue, queue', {}, {}, d)
  <2>1. CASE queue' = queue
    BY <1>1, <2>1, SamePassed DEF TypeOK, Entry
  <2>2. CASE queue' = Append(queue, Event("allGone", Everyone))
    <3> DEFINE p == <<Event("allGone", Everyone)>>
    <3>1. queue' = queue \o p /\ queue \in Seq(Entry)
      BY <1>1, <2>2 DEF TypeOK, Entry
    <3>2. "allGone" \in EventKinds
      BY DEF EventKinds
    <3>3. ASSUME NEW d \in Conns PROVE Posted(p, {}, d)
      BY <3>2, AllPosted
    <3> HIDE DEF p
    <3>4. p \in Seq(Entry)
      BY <3>2 DEF p, Entry, Event
    <3>5. queue' \in Seq(Entry)
      BY <3>1, <3>4, ConcatProperties
    <3> QED
      BY <3>1, <3>3, <3>5, AppendPassed
  <2> QED
    BY <2>1, <2>2 DEF Stop
<1>3. ASSUME NEW d \in Conns
      PROVE  /\ conn'[d] \in Connections /\ Good(queue', d, conn'[d], peer'[d])
             /\ conn'[d].hangup = "listener" <=> conn[d].hangup = "listener"
  <2> DEFINE k == [conn[d] EXCEPT !.place = "closing"]
  <2>1. CASE d \notin Served
    <3>1. conn'[d] = conn[d] /\ peer'[d] = peer[d]
      BY <1>1, <2>1
    <3> QED
      BY <1>2, <3>1, Objects, GoodElse DEF Good
  <2>2. CASE d \in Served
    <3>1. conn'[d] = k /\ peer'[d] = peer[d] /\ conn[d].place = "served"
      BY <1>1, <2>2 DEF Served
    <3>2. k \in Connections /\ Fit(k) /\ Likewise(k, conn[d])
      BY <3>1, Objects, ClosingFits
    <3>3. peer[d] # "away" /\ ~Has(queue, "connecting", d)
      BY <3>1, Met DEF Fresh
    <3> HIDE DEF k
    <3>4. Mail(queue', d, k)
      BY <1>2, <3>2, <3>3, Objects, LikewiseMail
    <3> QED
      BY <3>1, <3>2, <3>3, <3>4 DEF Good, Early, Likewise
  <2> QED
    BY <2>1, <2>2
<1>4. Lined'
  BY <1>1, <1>3, LinedStays DEF Inv
<1>5. conn' \in [Conns -> Connections]
  BY <1>1, <1>3
<1> QED
  BY <1>1, <1>2, <1>3, <1>4, <1>5 DEF Inv, TypeOK, Entry

LEMMA AllGoneKeeps == ASSUME Inv, HandleAllGone PROVE Inv'
<1>1. /\ IsNext("allGone", Everyone) /\ TypeOK /\ UNCHANGED <<conn, waiting, phase, peer, said, misuse>>
      /\ Handled(IF phase = "closing" THEN <<Event("quit", Everyone)>> ELSE <<>>)
  BY DEF HandleAllGone, Inv
<1>2. "quit" \in EventKinds
  BY DEF EventKinds
<1>3. queue' \in Seq(Entry) /\ \A d \in Conns : Passed(queue, queue', {}, {}, d)
  BY <1>1, <1>2, HandlingAll
<1>4. ASSUME NEW d \in Conns PROVE Good(queue', d, conn[d], peer[d])
  BY <1>3, GoodElse DEF Inv
<1> QED
  BY <1>1, <1>3, <1>4 DEF Inv, TypeOK, Lined, Entry

\* What waits for an idle program is what it posts then.
LEMMA IdlePosting ==
    ASSUME TypeOK, Idle, NEW c \in Conns, NEW a \in EventKinds, queue' = <<Event(a, c)>>
    PROVE  /\ queue' \in Seq(Entry) /\ Passed(queue, queue', {}, {a}, c)
           /\ \A d \in Conns : d # c => Passed(queue, queue', {}, {}, d)
           /\ \A kind : ~Has(queue, kind, c)
<1>1. queue = <<>>
  BY DEF Idle
<1>2. queue' = queue \o <<Event(a, c)>>
  BY <1>1, Short
<1>3. \A kind : ~Has(queue, kind, c)
  BY <1>1 DEF Has
<1> QED
  BY <1>2, <1>3, OnePosted, PostingMore

LEMMA UnknownTimesOutKeeps == ASSUME Inv, NEW c \in Conns, UnknownTimesOut(c) PROVE Inv'
<1> DEFINE o == conn[c]
           n == Failed(o)
<1>1. /\ Idle /\ o.timer /\ Becomes(c, n) /\ queue' = <<Event("failure", c)>> /\ OthersUnchanged /\ TypeOK
      /\ o \in Connections /\ Fit(o) /\ Mail(queue, c, o)
  BY Objects DEF UnknownTimesOut, Inv
<1>2. "failure" \in EventKinds
  BY DEF EventKinds
<1>3. /\ queue' \in Seq(Entry) /\ Passed(queue, queue', {}, {"failure"}, c)
      /\ \A d \in Conns : d # c => Passed(queue, queue', {}, {}, d)
      /\ \A kind : ~Has(queue, kind, c)
  BY <1>1, <1>2, IdlePosting
<1>4. peer[c] # "away"
  BY <1>1, Met DEF Fresh
<1>5. /\ n \in Connections /\ Fit(n) /\ n.unknown = "live" /\ n.owns # "proxy" /\ n.reads = "nobody"
      /\ n.hangup = o.hangup
  BY <1>1, FailedFits DEF Fit
<1> HIDE DEF n, o
<1>6. Mail(queue', c, n)
  BY <1>1, <1>3, <1>5 DEF Mail, Passed
<1> QED
  BY <1>1, <1>3, <1>4, <1>5, <1>6, OneHandles DEF Good, Early, o

LEMMA FlatlineKeeps == ASSUME Inv, NEW c \in Conns, Flatline(c) PROVE Inv'
<1> DEFINE o == conn[c]
           n == ProxyDisconnected(o)
<1>1. /\ Idle /\ o.reads = "proxy" /\ Becomes(c, n) /\ queue' = <<Event("disconnected", c)>>
      /\ OthersUnchanged /\ TypeOK /\ o \in Connections /\ Fit(o) /\ Mail(queue, c, o)
  BY Objects DEF Flatline, Inv
<1>2. "disconnected" \in EventKinds
  BY DEF EventKinds
<1>3. /\ queue' \in Seq(Entry) /\ Passed(queue, queue', {}, {"disconnected"}, c)
      /\ \A d \in Conns : d # c => Passed(queue, queue', {}, {}, d)
      /\ \A kind : ~Has(queue, kind, c)
  BY <1>1, <1>2, IdlePosting
<1>4. peer[c] # "away"
  BY <1>1, Met DEF Fresh
<1>5. /\ n \in Connections /\ Fit(n) /\ n.unknown = o.unknown /\ n.owns = o.owns /\ n.reads = "nobody"
      /\ n.hangup = o.hangup /\ n.proxy = o.proxy /\ n.timer = o.timer
  BY <1>1, ProxyDisconnectedFits
<1> HIDE DEF n, o
<1>6. o.proxy = "live" /\ (o.hangup = "unknown" => o.owns = "proxy")
  BY <1>1 DEF Fit
<1>7. Mail(queue', c, n)
  BY <1>1, <1>3, <1>5, <1>6 DEF Mail, Passed
<1> QED
  BY <1>1, <1>3, <1>4, <1>5, <1>7, OneHandles DEF Good, Early, o

LEMMA CloseTimesOutKeeps == ASSUME Inv, NEW c \in Conns, CloseTimesOut(c) PROVE Inv'
<1> DEFINE o == conn[c]
           n == ServerDeletes(o)
<1>1. /\ queue = <<>> /\ o.place = "closing" /\ Becomes(c, n) /\ queue' = GoneFrom(c)
      /\ OthersUnchanged /\ TypeOK /\ o \in Connections /\ Fit(o) /\ Mail(queue, c, o)
  BY Objects DEF CloseTimesOut, Idle, Inv
<1>2. "allGone" \in EventKinds
  BY DEF EventKinds
<1>3. Posted(GoneFrom(c), {}, c) /\ Sent(GoneFrom(c), c)
  BY <1>2, AllPosted, NonePosted DEF GoneFrom
<1>4. queue' = queue \o GoneFrom(c)
  BY <1>1, <1>3, ConcatEmptySeq DEF Posted
<1>5. /\ queue' \in Seq(Entry) /\ Passed(queue, queue', {}, {}, c)
      /\ \A d \in Conns : d # c => Passed(queue, queue', {}, {}, d)
  BY <1>1, <1>3, <1>4, PostingMore
<1>6. \A kind : ~Has(queue, kind, c)
  BY <1>1 DEF Has
<1>7. peer[c] # "away"
  BY <1>1, Met DEF Fresh
<1>8. o.hangup = "server"
  BY <1>1 DEF Fit
<1>9. /\ n \in Connections /\ Fit(n) /\ n.unknown = "deleted" /\ n.owns = "nothing"
      /\ n.reads = "nobody" /\ n.proxy = "deleted" /\ n.parser = "normal" /\ n.hangup = "nobody"
  BY <1>1, <1>8, ServerDeletesFits
<1> HIDE DEF n, o
<1>10. Mail(queue', c, n)
  BY <1>1, <1>5, <1>6, <1>9 DEF Mail, Passed
<1> QED
  BY <1>1, <1>5, <1>7, <1>8, <1>9, <1>10, OneHandles DEF Good, Early, o

LEMMA StopTimesOutKeeps == ASSUME Inv, StopTimesOut PROVE Inv'
<1>1. /\ queue = <<>> /\ queue' = <<Event("quit", Everyone)>> /\ TypeOK
      /\ UNCHANGED <<conn, waiting, phase, peer, said, misuse>>
  BY DEF StopTimesOut, Idle, Inv
<1>2. "quit" \in EventKinds
  BY DEF EventKinds
<1>3. queue' = queue \o <<Event("quit", Everyone)>>
  BY <1>1, Short
<1>4. ASSUME NEW d \in Conns
      PROVE  queue' \in Seq(Entry) /\ Passed(queue, queue', {}, {}, d)
  BY <1>1, <1>2, <1>3, AllPosted, PostingMore
<1>5. queue' \in Seq(Entry)
  BY <1>1, <1>2 DEF Entry, Event
<1>6. ASSUME NEW d \in Conns PROVE Good(queue', d, conn[d], peer[d])
  BY <1>4, GoodElse DEF Inv
<1> QED
  BY <1>1, <1>5, <1>6 DEF Inv, TypeOK, Lined, Entry

LEMMA ArriveKeeps == ASSUME Inv, NEW c \in Conns, Arrive(c) PROVE Inv'
<1>1. /\ peer[c] = "away" /\ peer' = [peer EXCEPT ![c] = "there"] /\ TypeOK
      /\ queue' = Append(queue, Event("connecting", c)) /\ UNCHANGED <<conn, waiting, phase, said, misuse>>
  BY DEF Arrive, Inv
<1>2. "connecting" \in EventKinds /\ queue \in Seq(Entry)
  BY <1>1 DEF EventKinds, TypeOK, Entry
<1>3. queue' = queue \o <<Event("connecting", c)>>
  BY <1>1, <1>2
<1>4. /\ queue' \in Seq(Entry) /\ Passed(queue, queue', {}, {"connecting"}, c)
      /\ \A d \in Conns : d # c => Passed(queue, queue', {}, {}, d)
  BY <1>1, <1>2, <1>3, OnePosted, PostingMore
<1>5. conn[c] = Fresh /\ ~Has(queue, "connecting", c) /\ Fit(conn[c]) /\ Mail(queue, c, conn[c])
  BY <1>1, Objects DEF Early
<1>6. Mail(queue', c, conn[c])
  BY <1>4, <1>5 DEF Mail, Passed
<1>7. peer' \in [Conns -> {"away", "there", "gone"}] /\ peer'[c] = "there" /\ \A d \in Conns : d # c => peer'[d] = peer[d]
  BY <1>1 DEF TypeOK
<1>8. ASSUME NEW d \in Conns PROVE Good(queue', d, conn[d], peer'[d])
  <2>1. CASE d = c
    BY <1>5, <1>6, <1>7, <2>1 DEF Good, Early
  <2>2. CASE d # c
    BY <1>4, <1>7, <2>2, GoodElse DEF Inv
  <2> QED
    BY <2>1, <2>2
<1> QED
  BY <1>1, <1>4, <1>7, <1>8 DEF Inv, TypeOK, Lined, Entry

LEMMA LeaveKeeps == ASSUME Inv, NEW c \in Conns, Leave(c) PROVE Inv'
<1>1. /\ peer[c] = "there" /\ peer' = [peer EXCEPT ![c] = "gone"] /\ TypeOK
      /\ UNCHANGED <<conn, waiting, phase, said, misuse>>
  BY DEF Leave, Inv
<1>2. queue \in Seq(Entry)
  BY <1>1 DEF TypeOK, Entry
<1>3. /\ queue' \in Seq(Entry)
      /\ Passed(queue, queue', {}, {}, c) \/ Passed(queue, queue', {}, {"shutdown"}, c)
         \/ Passed(queue, queue', {}, {"error"}, c)
      /\ \A d \in Conns : d # c => Passed(queue, queue', {}, {}, d)
  <2>1. CASE queue' = queue
    BY <1>2, <2>1, SamePassed
  <2>2. ASSUME NEW kind \in {"shutdown", "error"}, queue' = Append(queue, Event(kind, c))
        PROVE  /\ queue' \in Seq(Entry) /\ Passed(queue, queue', {}, {kind}, c)
               /\ \A d \in Conns : d # c => Passed(queue, queue', {}, {}, d)
    <3>1. kind \in EventKinds
      BY DEF EventKinds
    <3>2. queue' = queue \o <<Event(kind, c)>>
      BY <1>2, <2>2
    <3> QED
      BY <1>1, <3>1, <3>2, OnePosted, PostingMore
  <2> QED
    BY <2>1, <2>2 DEF Leave
<1>4. /\ peer' \in [Conns -> {"away", "there", "gone"}] /\ peer'[c] = "gone"
      /\ \A d \in Conns : d # c => peer'[d] = peer[d]
  BY <1>1 DEF TypeOK
<1>5. Mail(queue', c, conn[c])
  BY <1>3, Objects DEF Mail, Passed
<1>6. ASSUME NEW d \in Conns PROVE Good(queue', d, conn[d], peer'[d])
  <2>1. CASE d = c
    BY <1>4, <1>5, <2>1, Objects DEF Good, Early
  <2>2. CASE d # c
    BY <1>3, <1>4, <2>2, GoodElse DEF Inv
  <2> QED
    BY <2>1, <2>2
<1> QED
  BY <1>1, <1>3, <1>4, <1>6 DEF Inv, TypeOK, Lined, Entry

LEMMA SayKeeps == ASSUME Inv, NEW c \in Conns, NEW m \in Messages, Say(c, m) PROVE Inv'
<1> DEFINE o == conn[c]
           k == [o EXCEPT !.wire = Append(@, m)]
<1>1. /\ TypeOK /\ o \in Connections /\ Fit(o) /\ Mail(queue, c, o) /\ o.unknown # "none"
      /\ said' = [said EXCEPT ![c] = Append(@, m)] /\ UNCHANGED <<waiting, phase, peer, misuse>>
  BY Objects DEF Say, MaySay, Inv
<1>2. said' \in [Conns -> Seq(Messages)]
  <2>1. Append(said[c], m) \in Seq(Messages)
    BY <1>1 DEF TypeOK
  <2> QED
    BY <1>1, <2>1 DEF TypeOK
<1>3. CASE o.socket # "open"
  <2>1. UNCHANGED <<queue, conn>>
    BY <1>3 DEF Say
  <2> QED
    BY <1>1, <1>2, <2>1 DEF Inv, TypeOK, Lined
<1>4. CASE o.socket = "open"
  <2>1. conn' = [conn EXCEPT ![c] = k]
    BY <1>4 DEF Say, Becomes
  <2>2. /\ queue' \in Seq(Entry)
        /\ \/ o.wire # <<>> /\ Passed(queue, queue', {}, {}, c)
           \/ Passed(queue, queue', {}, {"input"}, c)
        /\ \A d \in Conns : d # c => Passed(queue, queue', {}, {}, d)
    <3>1. CASE o.wire # <<>>
      <4>1. queue' = queue
        BY <1>4, <3>1 DEF Say
      <4> QED
        BY <1>1, <3>1, <4>1, SamePassed DEF TypeOK, Entry
    <3>2. CASE o.wire = <<>>
      <4>1. queue' = Append(queue, Event("input", c))
        BY <1>4, <3>2 DEF Say
      <4>2. "input" \in EventKinds /\ queue \in Seq(Entry)
        BY <1>1 DEF EventKinds, TypeOK, Entry
      <4>3. queue' = queue \o <<Event("input", c)>>
        BY <4>1, <4>2
      <4> QED
        BY <1>1, <4>2, <4>3, OnePosted, PostingMore
    <3> QED
      BY <3>1, <3>2
  <2>3. Append(o.wire, m) \in Seq(Messages) /\ Append(o.wire, m) # <<>>
    BY <1>1 DEF Connections
  <2>4. k \in Connections
    BY <1>1, <2>3 DEF Connections
  <2>5. /\ k.unknown = o.unknown /\ k.owns = o.owns /\ k.reads = o.reads /\ k.proxy = o.proxy
        /\ k.parser = o.parser /\ k.hangup = o.hangup /\ k.timer = o.timer /\ k.ready = o.ready
        /\ k.readied = o.readied /\ k.accepting = o.accepting /\ k.stream = o.stream /\ k.place = o.place
    BY <1>1 DEF Connections
  <2>6. peer[c] # "away" /\ ~Has(queue, "connecting", c)
    BY <1>1, Met DEF Fresh
  <2> HIDE DEF k, o
  <2>7. Fit(k)
    BY <1>1, <2>5 DEF Fit
  <2>8. o.reads # "nobody" /\ o.wire # <<>> => Has(queue, "input", c)
    BY <1>1 DEF Mail
  <2>9. Mail(queue', c, k)
    BY <1>1, <2>2, <2>5, <2>6, <2>8 DEF Mail, Passed
  <2>10. /\ conn' \in [Conns -> Connections]
         /\ \A d \in Conns : Good(queue', d, conn'[d], peer'[d])
         /\ conn'[c] = k /\ \A d \in Conns : d # c => conn'[d] = conn[d]
    BY <1>1, <2>1, <2>2, <2>4, <2>6, <2>7, <2>9, OneMoves DEF Good, Early
  <2>11. Lined'
    BY <1>1, <2>5, <2>10, LinedStays DEF Inv, o
  <2> QED
    BY <1>1, <1>2, <2>2, <2>10, <2>11 DEF Inv, TypeOK, Entry
<1> QED
  BY <1>3, <1>4

\* ~ClientProxyUnknown, of one that owns a proxy.
LEMMA OwnerDeletedFits ==
    ASSUME NEW k \in Connections, Fit(k), k.unknown = "live", k.owns = "proxy",
           NEW u, u = UnknownDeleted(k)
    PROVE  /\ u \in Connections /\ Fit(u)
           /\ u.unknown = "deleted" /\ u.owns = "nothing" /\ u.reads = "nobody"
           /\ u.parser = k.parser /\ u.wire = k.wire /\ u.stray = k.stray
           /\ u.hangup = "nobody" /\ u.place = "none" /\ u.proxy = "deleted" /\ u.listed = k.listed
           /\ ~u.alarm
<1>1. u \in Connections
  BY Members, ZenonT(60) DEF Connections, UnknownDeleted, ProxyDeleted
<1>2. /\ u.unknown = "deleted" /\ u.owns = "nothing" /\ ~u.timer /\ u.proxy = "deleted"
      /\ u.parser = k.parser /\ u.wire = k.wire /\ u.stray = k.stray /\ u.ready = k.ready
      /\ u.accepting = k.accepting /\ u.listed = k.listed
      /\ u.hangup = "nobody" /\ u.place = k.place /\ u.readied = "nobody"
      /\ u.reads = "nobody" /\ u.stream = "deleted" /\ ~u.alarm
  BY DEF Connections, UnknownDeleted, ProxyDeleted
<1>3. k.place = "none"
  BY DEF Fit
<1>4. Fit(u)
  BY <1>2, <1>3 DEF Fit
<1> QED
  BY <1>1, <1>2, <1>3, <1>4

\* What is left of a connection when the server and the listener have gone.
Leftover(k, l) ==
    /\ l \in Connections /\ Fit(l)
    /\ l.unknown # "live" /\ (l.unknown = "none" <=> k.unknown = "none")
    /\ l.owns = "nothing" /\ l.reads = "nobody" /\ l.parser = k.parser /\ l.stray = k.stray
    /\ l.proxy # "live" /\ (l.proxy = "none" <=> k.proxy = "none")
    /\ l.hangup \in {"nobody", "unknown"} /\ l.place = "none"
    /\ l.hangup = "unknown" => k.hangup = "unknown" /\ k.owns # "proxy"
    /\ l.alarm => k.alarm

LEMMA StoppedFits ==
    ASSUME NEW k \in Connections, Fit(k)
    PROVE  Leftover(k, Stopped(k)) /\ (k = Fresh => Stopped(k) = Fresh)
<1> DEFINE s == IF k.place = "none" THEN k ELSE ServerDeletes(k)
           u == IF s.unknown = "live" THEN UnknownDeleted(s) ELSE s
           w == IF u.hangup = "listener" THEN [ProxyDeleted(u) EXCEPT !.hangup = "nobody"] ELSE u
           l == IF w.listed THEN [w EXCEPT !.socket = "deleted", !.listed = FALSE, !.wire = <<>>] ELSE w
<1>1. /\ k.hangup \in {"nobody", "unknown", "listener", "server"} /\ k.owns \in {"nothing", "stream", "proxy"}
      /\ k.unknown \in {"none", "live", "deleted"} /\ k.reads \in {"nobody", "unknown", "proxy"}
  BY DEF Connections, Lives
<1>2. /\ s \in Connections /\ Fit(s) /\ s.unknown = k.unknown /\ s.parser = k.parser /\ s.stray = k.stray
      /\ (s.proxy = "none" <=> k.proxy = "none") /\ s.place = "none" /\ s.owns = k.owns
      /\ s.hangup \in {"nobody", "unknown", "listener"} /\ (s.hangup = "unknown" => k.hangup = "unknown")
      /\ (s.alarm => k.alarm)
      /\ (k = Fresh => s = Fresh)
  <2>1. CASE k.place = "none"
    <3>1. k.hangup # "server" /\ s = k
      BY <2>1 DEF Fit
    <3> QED
      BY <1>1, <2>1, <3>1
  <2>2. CASE k.place # "none"
    <3>1. k.hangup = "server" /\ k # Fresh
      BY <2>2 DEF Fit, Fresh
    <3>2. k.unknown = "deleted" /\ k.owns = "nothing" /\ k.proxy = "live" /\ k.parser = "normal"
      BY <3>1 DEF Fit
    <3>3. s = ServerDeletes(k)
      BY <2>2
    <3> HIDE DEF s
    <3>4. /\ s \in Connections /\ Fit(s) /\ s.unknown = "deleted" /\ s.owns = "nothing"
          /\ s.proxy = "deleted" /\ s.parser = "normal" /\ s.stray = k.stray
          /\ s.hangup = "nobody" /\ s.place = "none" /\ ~s.alarm
      BY <3>1, <3>3, ServerDeletesFits
    <3> QED
      BY <3>1, <3>2, <3>4
  <2> QED
    BY <2>1, <2>2
<1> HIDE DEF s
<1>3. /\ u \in Connections /\ Fit(u) /\ u.unknown # "live" /\ (u.unknown = "none" <=> k.unknown = "none")
      /\ u.parser = k.parser /\ u.stray = k.stray
      /\ (u.proxy = "none" <=> k.proxy = "none") /\ u.place = "none" /\ u.owns = "nothing"
      /\ u.hangup \in {"nobody", "unknown", "listener"}
      /\ (u.hangup = "unknown" => k.hangup = "unknown" /\ k.owns # "proxy")
      /\ (u.alarm => k.alarm)
      /\ (k = Fresh => u = Fresh)
  <2>1. CASE s.unknown # "live"
    <3>1. u = s
      BY <2>1
    <3>2. s.owns = "nothing"
      BY <1>1, <1>2, <2>1 DEF Fit
    <3> HIDE DEF u
    <3> QED
      BY <1>2, <2>1, <3>1, <3>2
  <2>2. CASE s.unknown = "live" /\ s.owns # "proxy"
    <3>1. u = UnknownDeleted(s)
      BY <2>2
    <3>2. k # Fresh
      BY <1>2, <2>2 DEF Fresh
    <3> HIDE DEF u
    <3>3. /\ u \in Connections /\ Fit(u) /\ u.unknown = "deleted" /\ u.owns = "nothing"
          /\ u.parser = s.parser /\ u.stray = s.stray
          /\ u.hangup = s.hangup /\ u.place = s.place /\ u.proxy = s.proxy /\ u.alarm = s.alarm
      BY <1>2, <2>2, <3>1, UnknownDeletedFits
    <3> QED
      BY <1>2, <2>2, <3>2, <3>3
  <2>3. CASE s.unknown = "live" /\ s.owns = "proxy"
    <3>1. u = UnknownDeleted(s)
      BY <2>3
    <3>2. k # Fresh /\ s.proxy = "live"
      BY <1>2, <2>3 DEF Fresh, Fit
    <3> HIDE DEF u
    <3>3. /\ u \in Connections /\ Fit(u) /\ u.unknown = "deleted" /\ u.owns = "nothing"
          /\ u.parser = s.parser /\ u.stray = s.stray
          /\ u.hangup = "nobody" /\ u.place = "none" /\ u.proxy = "deleted" /\ ~u.alarm
      BY <1>2, <2>3, <3>1, OwnerDeletedFits
    <3> QED
      BY <1>2, <2>3, <3>2, <3>3
  <2> QED
    BY <2>1, <2>2, <2>3
<1> HIDE DEF u
<1>4. /\ Leftover(k, w) /\ (k = Fresh => w = Fresh)
  <2>1. CASE u.hangup = "listener"
    <3>1. w = ServerDeletes(u)
      BY <1>3, <2>1, ListenerDeletes
    <3>2. k # Fresh /\ u.proxy = "live"
      BY <1>3, <2>1 DEF Fresh, Fit
    <3> HIDE DEF w
    <3>3. /\ w \in Connections /\ Fit(w) /\ w.unknown = "deleted" /\ w.owns = "nothing"
          /\ w.reads = "nobody" /\ w.proxy = "deleted" /\ w.parser = "normal" /\ w.stray = u.stray
          /\ w.hangup = "nobody" /\ w.place = "none" /\ ~w.alarm
      BY <1>3, <2>1, <3>1, ServerDeletesFits
    <3>4. u.parser = "normal" /\ u.unknown = "deleted"
      BY <1>3, <2>1 DEF Fit
    <3> QED
      BY <1>3, <3>2, <3>3, <3>4 DEF Leftover
  <2>2. CASE u.hangup # "listener"
    <3>1. w = u
      BY <2>2
    <3>2. u.proxy # "live" /\ u.reads = "nobody"
      <4>1. u.reads \in {"nobody", "unknown", "proxy"}
        BY <1>3 DEF Connections
      <4> QED
        BY <1>3, <2>2, <4>1 DEF Fit
    <3> HIDE DEF w
    <3> QED
      BY <1>3, <2>2, <3>1, <3>2 DEF Leftover
  <2> QED
    BY <2>1, <2>2
<1> HIDE DEF w
<1>5. /\ Leftover(k, l) /\ (k = Fresh => l = Fresh)
  <2>1. CASE ~w.listed
    BY <1>4, <2>1
  <2>2. CASE w.listed
    <3>1. l = [w EXCEPT !.socket = "deleted", !.listed = FALSE, !.wire = <<>>] /\ k # Fresh
      BY <1>4, <2>2 DEF Fresh
    <3> HIDE DEF l
    <3>2. w \in Connections /\ Fit(w)
      BY <1>4 DEF Leftover
    <3>3. l \in Connections
      BY <3>1, <3>2, Members, ZenonT(60) DEF Connections
    <3>4. /\ l.unknown = w.unknown /\ l.owns = w.owns /\ l.reads = w.reads /\ l.proxy = w.proxy
          /\ l.parser = w.parser /\ l.hangup = w.hangup /\ l.timer = w.timer /\ l.ready = w.ready
          /\ l.readied = w.readied /\ l.accepting = w.accepting /\ l.stream = w.stream /\ l.place = w.place
          /\ l.stray = w.stray /\ l.wire = <<>> /\ l.buffer = w.buffer /\ l.alarm = w.alarm
      BY <3>1, <3>2 DEF Connections
    <3>5. Fit(l)
      BY <3>2, <3>4 DEF Fit, Unmet
    <3> QED
      BY <1>4, <3>1, <3>3, <3>4, <3>5 DEF Leftover
  <2> QED
    BY <2>1, <2>2
<1>6. l = Stopped(k)
  BY DEF Stopped, l, w, u, s
<1> QED
  BY <1>5, <1>6

LEMMA QuitKeeps == ASSUME Inv, HandleQuit PROVE Inv'
<1>1. IsNext("quit", Everyone) /\ TypeOK
  BY DEF HandleQuit, Inv
<1>2. Handled(<<>>) /\ UNCHANGED <<peer, said, misuse>>
  BY DEF HandleQuit, Dropped
<1>3. queue' \in Seq(Entry) /\ \A d \in Conns : Passed(queue, queue', {}, {}, d)
  BY <1>1, <1>2, HandlingAll
<1>4. CASE phase # "closing"
  <2>1. UNCHANGED <<conn, waiting, phase>>
    BY <1>4 DEF HandleQuit, Dropped
  <2>2. ASSUME NEW d \in Conns PROVE Good(queue', d, conn[d], peer[d])
    BY <1>3, GoodElse DEF Inv
  <2> QED
    BY <1>1, <1>2, <1>3, <2>1, <2>2 DEF Inv, TypeOK, Lined, Entry
<1>5. CASE phase = "closing"
  <2>1. conn' = [c \in Conns |-> Stopped(conn[c])] /\ waiting' = <<>> /\ phase' = "stopped"
    BY <1>5 DEF HandleQuit
  <2>2. ASSUME NEW d \in Conns
        PROVE  conn'[d] \in Connections /\ Good(queue', d, conn'[d], peer[d]) /\ conn'[d].hangup # "listener"
    <3> DEFINE o == conn[d]
               k == Stopped(o)
    <3>1. conn'[d] = k
      BY <2>1
    <3>2. o \in Connections /\ Fit(o) /\ Mail(queue, d, o) /\ Early(queue, d, o, peer[d])
      BY Objects
    <3> HIDE DEF o
    <3>3. Leftover(o, k) /\ (o = Fresh => k = Fresh)
      BY <3>2, StoppedFits
    <3> HIDE DEF k
    <3>4. Mail(queue', d, k)
      BY <1>3, <3>2, <3>3 DEF Mail, Passed, Leftover
    <3>5. Early(queue', d, k, peer[d])
      BY <1>3, <3>2, <3>3 DEF Early, Passed
    <3> QED
      BY <3>1, <3>3, <3>4, <3>5 DEF Good, Leftover
  <2>3. conn' \in [Conns -> Connections]
    BY <2>1, <2>2
  <2>4. waiting' \in Seq(Conns) /\ Lined'
    <3>1. Len(waiting') = 0
      BY <2>1
    <3> QED
      BY <2>1, <2>2, <3>1 DEF Lined, Distinct, InLine
  <2> QED
    BY <1>1, <1>2, <1>3, <2>1, <2>2, <2>3, <2>4 DEF Inv, TypeOK, Entry
<1> QED
  BY <1>4, <1>5

-----------------------------------------------------------------------------
(* The invariant holds *)

LEMMA InvInit == Init => Inv
<1> SUFFICES ASSUME Init PROVE Inv
  OBVIOUS
<1>1. Fresh \in Connections
  BY DEF Fresh, Connections, Lives
<1>2. Fit(Fresh)
  BY DEF Fit, Unmet, Fresh
<1>3. queue = <<>> /\ Len(queue) = 0 /\ waiting = <<>> /\ Len(waiting) = 0
  BY DEF Init
<1>4. ASSUME NEW c \in Conns PROVE conn[c] = Fresh /\ peer[c] = "away" /\ Good(queue, c, conn[c], peer[c])
  <2>1. conn[c] = Fresh /\ peer[c] = "away"
    BY DEF Init
  <2>2. Mail(queue, c, Fresh)
    BY <1>3 DEF Mail, Has, Never, Fresh
  <2>3. ~Has(queue, "connecting", c)
    BY <1>3 DEF Has
  <2> QED
    BY <1>2, <2>1, <2>2, <2>3 DEF Good, Early
<1>5. Lined
  BY <1>3, <1>4 DEF Lined, Distinct, InLine, Fresh
<1>6. TypeOK
  BY <1>1 DEF Init, TypeOK
<1> QED
  BY <1>4, <1>5, <1>6 DEF Inv

LEMMA InvNext == Inv /\ [Next]_vars => Inv'
<1> SUFFICES ASSUME Inv, [Next]_vars PROVE Inv'
  OBVIOUS
<1>1. CASE HandleEvent
  <2>1. CASE HandleConnected \/ HandleAllGone \/ HandleQuit
    BY <2>1, ConnectedKeeps, AllGoneKeeps, QuitKeeps
  <2>2. ASSUME NEW c \in Conns,
               \/ HandleConnecting(c) \/ HandleAccepted(c) \/ HandleInput(c) \/ HandleShutdown(c)
               \/ HandleEnded(c) \/ HandleReady(c) \/ HandleSuccess(c) \/ HandleFailure(c)
               \/ HandleDisconnected(c)
        PROVE  Inv'
    BY <2>2, ConnectingKeeps, AcceptedKeeps, InputKeeps, ShutdownKeeps, EndedKeeps, ReadyKeeps,
       SuccessKeeps, FailureKeeps, DisconnectedKeeps
  <2> QED
    BY <1>1, <2>1, <2>2 DEF HandleEvent
<1>2. CASE Stop \/ StopTimesOut
  BY <1>2, StopKeeps, StopTimesOutKeeps
<1>3. ASSUME NEW c \in Conns, Timers(c) \/ Dismiss(c) \/ Arrive(c) \/ Leave(c) \/ \E m \in Messages : Say(c, m)
      PROVE  Inv'
  BY <1>3, UnknownTimesOutKeeps, FlatlineKeeps, CloseTimesOutKeeps, DismissKeeps, ArriveKeeps,
     LeaveKeeps, SayKeeps DEF Timers
<1>4. CASE UNCHANGED vars
  BY <1>4 DEF vars, Inv, TypeOK, Lined
<1> QED
  BY <1>1, <1>2, <1>3, <1>4 DEF Next

\* What a connection is made of, and what waits for it, keeps its form.
THEOREM HandshakeTypes == Spec => []TypeOK
<1>1. Inv => TypeOK
  BY DEF Inv
<1> QED
  BY <1>1, InvInit, InvNext, PTL DEF Spec

\* A proxy that is there belongs to exactly one of the unknown client, the listener and
\* the server, who hears when it disconnects, and a deleted one to nobody (orphanClientProxy,
\* handleUnknownClient, getNextClient, adoptClient and the destructors).
THEOREM ProxyOwnedOnce == Spec => []OwnedOnce
<1>1. Inv => OwnedOnce
  <2> SUFFICES ASSUME Inv, NEW c \in Conns
               PROVE  IF conn[c].proxy = "live" THEN Owners(c) = {conn[c].hangup} ELSE Owners(c) = {}
    BY DEF OwnedOnce
  <2> DEFINE k == conn[c]
  <2>1. /\ Fit(k) /\ k.hangup \in {"nobody", "unknown", "listener", "server"}
        /\ waiting \in Seq(Conns)
    <3>1. k \in Connections /\ waiting \in Seq(Conns) /\ Fit(k)
      BY Objects DEF Inv, TypeOK
    <3> QED
      BY <3>1 DEF Connections
  <2>2. (\E i \in DOMAIN waiting : waiting[i] = c) <=> k.hangup = "listener"
    <3>1. DOMAIN waiting = 1..Len(waiting)
      BY <2>1
    <3> QED
      BY <3>1 DEF Inv, Lined, InLine
  <2>3. Owners(c) = (IF k.owns = "proxy" THEN {"unknown"} ELSE {})
                    \cup (IF k.hangup = "listener" THEN {"listener"} ELSE {})
                    \cup (IF k.place = "none" THEN {} ELSE {"server"})
    BY <2>2 DEF Owners
  <2> HIDE DEF k
  <2>4. CASE k.proxy = "live"
    BY <2>1, <2>3, <2>4 DEF Fit, k
  <2>5. CASE k.proxy # "live"
    BY <2>1, <2>3, <2>5 DEF Fit, k
  <2> QED
    BY <2>4, <2>5 DEF k
<1> QED
  BY <1>1, InvInit, InvNext, PTL DEF Spec

\* Every unknown client that is there has its time limit running, or what has become of it
\* is queued (every path through ClientProxyUnknown ends in sendSuccess or sendFailure).
THEOREM DecisionIsPending == Spec => []DecisionPending
<1>1. Inv => DecisionPending
  <2> SUFFICES ASSUME Inv, NEW c \in Conns, conn[c].unknown = "live"
               PROVE  conn[c].timer \/ Queued("success", c) \/ Queued("failure", c)
    BY DEF DecisionPending
  <2>1. conn[c].timer \/ Has(queue, "success", c) \/ Has(queue, "failure", c)
    BY Objects DEF Mail
  <2>2. DOMAIN queue = 1..Len(queue)
    BY DEF Inv, TypeOK
  <2> QED
    BY <2>1, <2>2 DEF Has, Queued
<1> QED
  BY <1>1, InvInit, InvNext, PTL DEF Spec

-----------------------------------------------------------------------------
(* No deleted object is called *)

\* A queue q became r, which has nothing new but events of the kinds K.
Grown(q, r, K) ==
    /\ \A kind : HasKind(r, kind) => HasKind(q, kind) \/ kind \in K
    /\ Late(r) => Late(q) \/ (HasKind(q, "quit") /\ "accepted" \in K)

OfKind(p, K) == p \in Seq(Entry) /\ \A i \in 1..Len(p) : p[i].kind \in K

LEMMA AppendGrows ==
    ASSUME NEW q \in Seq(Entry), NEW K, NEW p, OfKind(p, K), ~({"quit", "accepted"} \subseteq K)
    PROVE  Grown(q, q \o p, K)
<1> DEFINE r == q \o p
<1>1. /\ p \in Seq(Entry) /\ Len(q) \in Nat /\ Len(p) \in Nat /\ Len(r) = Len(q) + Len(p)
      /\ \A i \in 1..Len(r) : r[i] = IF i <= Len(q) THEN q[i] ELSE p[i - Len(q)]
  BY ConcatProperties DEF OfKind
<1> HIDE DEF r
<1>2. ASSUME NEW i \in 1..Len(r)
      PROVE  \/ i \in 1..Len(q) /\ r[i] = q[i]
             \/ i > Len(q) /\ r[i].kind \in K
  <2>1. CASE i <= Len(q)
    BY <1>1, <2>1
  <2>2. CASE ~(i <= Len(q))
    <3>1. i - Len(q) \in 1..Len(p) /\ r[i] = p[i - Len(q)]
      BY <1>1, <2>2
    <3> QED
      BY <1>1, <2>2, <3>1 DEF OfKind
  <2> QED
    BY <2>1, <2>2
<1>3. \A kind : HasKind(r, kind) => HasKind(q, kind) \/ kind \in K
  BY <1>2 DEF HasKind
<1>4. ASSUME NEW i \in 1..Len(r), NEW j \in 1..Len(r), i < j, r[i].kind = "quit", r[j].kind = "accepted"
      PROVE  Late(q) \/ (HasKind(q, "quit") /\ "accepted" \in K)
  <2>1. CASE j \in 1..Len(q) /\ r[j] = q[j]
    <3>1. i \in 1..Len(q) /\ r[i] = q[i]
      BY <1>1, <1>2, <1>4, <2>1
    <3> QED
      BY <1>4, <2>1, <3>1 DEF Late
  <2>2. CASE "accepted" \in K
    BY <1>2, <1>4, <2>2 DEF HasKind
  <2> QED
    BY <1>2, <1>4, <2>1, <2>2
<1>5. Late(r) => Late(q) \/ (HasKind(q, "quit") /\ "accepted" \in K)
  BY <1>4 DEF Late
<1> QED
  BY <1>3, <1>5 DEF Grown, r

LEMMA TailGrows ==
    ASSUME NEW q \in Seq(Entry), q # <<>>
    PROVE  /\ Tail(q) \in Seq(Entry) /\ Grown(q, Tail(q), {})
           /\ HasKind(q, Head(q).kind)
           /\ Head(q).kind = "quit" /\ ~Late(q) => ~HasKind(Tail(q), "accepted")
<1> DEFINE r == Tail(q)
<1>1. /\ r \in Seq(Entry) /\ Len(r) = Len(q) - 1 /\ Len(q) \in Nat /\ Len(q) > 0 /\ Head(q) = q[1]
      /\ \A i \in 1..Len(r) : r[i] = q[i + 1]
  BY TailOfQueue
<1> HIDE DEF r
<1>2. \A i \in 1..Len(r) : i + 1 \in 1..Len(q) /\ q[i + 1] = r[i] /\ 1 < i + 1
  BY <1>1
<1>3. \A kind : HasKind(r, kind) => HasKind(q, kind)
  BY <1>2 DEF HasKind
<1>4. ASSUME NEW i \in 1..Len(r), NEW j \in 1..Len(r), i < j PROVE i + 1 < j + 1
  BY <1>1, <1>4
<1>5. Late(r) => Late(q)
  BY <1>2, <1>4 DEF Late
<1>6. 1 \in 1..Len(q)
  BY <1>1
<1>7. Head(q).kind = "quit" /\ ~Late(q) => ~HasKind(r, "accepted")
  BY <1>1, <1>2, <1>6 DEF Late, HasKind
<1>8. HasKind(q, Head(q).kind)
  BY <1>1, <1>6 DEF HasKind
<1>9. Grown(q, r, {})
  BY <1>3, <1>5 DEF Grown
<1> QED
  BY <1>1, <1>7, <1>8, <1>9 DEF r

LEMMA HandledGrows ==
    ASSUME TypeOK, NEW x, NEW c, IsNext(x, c), NEW K, NEW p, OfKind(p, K),
           ~({"quit", "accepted"} \subseteq K), Handled(p)
    PROVE  Grown(queue, queue', K) /\ HasKind(queue, x)
<1> DEFINE t == Tail(queue)
<1>1. queue \in Seq(Entry) /\ queue # <<>> /\ Head(queue) = Event(x, c) /\ queue' = t \o p
  BY DEF TypeOK, Entry, IsNext, Handled
<1>2. t \in Seq(Entry) /\ Grown(queue, t, {}) /\ HasKind(queue, Head(queue).kind)
  BY <1>1, TailGrows
<1> HIDE DEF t
<1>3. Grown(t, queue', K)
  BY <1>1, <1>2, AppendGrows
<1>4. Head(queue).kind = x
  BY <1>1 DEF Event
<1> QED
  BY <1>2, <1>3, <1>4 DEF Grown

LEMMA NoneOfKind == ASSUME NEW K, NEW c PROVE OfKind(<<>>, K) /\ OfKind(Posting(<<>>, c), K)
<1>1. Posting(<<>>, c) = <<>>
  BY DEF Posting
<1> DEFINE p == <<>>
<1>2. p \in Seq(Entry) /\ Len(p) = 0
  OBVIOUS
<1> HIDE DEF p
<1>3. OfKind(p, K)
  BY <1>2 DEF OfKind
<1> QED
  BY <1>1, <1>3 DEF p

LEMMA OneOfKind ==
    ASSUME NEW a \in EventKinds, NEW c \in Conns \cup {Everyone}, NEW K, a \in K
    PROVE  OfKind(<<Event(a, c)>>, K)
<1> DEFINE p == <<Event(a, c)>>
<1>1. p \in Seq(Entry) /\ Len(p) = 1 /\ p[1].kind = a
  BY DEF Entry, Event
<1> HIDE DEF p
<1>2. OfKind(p, K)
  BY <1>1 DEF OfKind
<1> QED
  BY <1>2 DEF p

LEMMA PostingOfKind ==
    ASSUME NEW a \in EventKinds, NEW b \in EventKinds, NEW c \in Conns, NEW K
    PROVE  /\ a \in K => OfKind(Posting(<<a>>, c), K)
           /\ a \in K /\ b \in K => OfKind(Posting(<<a, b>>, c), K)
<1>1. a \in K => OfKind(Posting(<<a>>, c), K)
  BY OnePosted, OneOfKind
<1>2. ASSUME a \in K, b \in K PROVE OfKind(Posting(<<a, b>>, c), K)
  <2> DEFINE p == Posting(<<a, b>>, c)
  <2>1. p \in Seq(Entry) /\ Len(p) = 2 /\ p[1].kind = a /\ p[2].kind = b
    BY DEF Entry, Event, Posting
  <2> HIDE DEF p
  <2>2. \A i \in 1..2 : i = 1 \/ i = 2
    OBVIOUS
  <2>3. OfKind(p, K)
    BY <1>2, <2>1, <2>2 DEF OfKind
  <2> QED
    BY <2>3 DEF p
<1> QED
  BY <1>1, <1>2

\* What is posted while a connection lives its life.
Daily == EventKinds \ {"quit", "accepted", "connecting"}

LEMMA DailyKinds ==
    /\ ~({"quit", "accepted"} \subseteq Daily)
    /\ {"input", "shutdown", "error", "ended", "ready", "success", "failure", "disconnected",
        "connected", "allGone"} \subseteq Daily
    /\ Daily \subseteq EventKinds
  BY DEF Daily, EventKinds

\* What PostedReading and PostedGreeting tell is daily.
LEMMA ReadingDaily ==
    ASSUME NEW k, NEW c \in Conns
    PROVE  OfKind(Posting(PostedReading(k), c), Daily) /\ OfKind(Posting(PostedGreeting(k), c), Daily)
<1>1. ASSUME NEW a \in {"ended", "ready", "failure"}, NEW b \in {"ended", "ready", "failure"},
             NEW kinds \in {<<>>, <<a>>, <<a, b>>}
      PROVE  OfKind(Posting(kinds, c), Daily)
  <2>1. a \in EventKinds /\ b \in EventKinds /\ a \in Daily /\ b \in Daily
    BY DailyKinds
  <2> QED
    BY <2>1, NoneOfKind, PostingOfKind
<1>2. PostedReading(k) \in {<<>>, <<"ended">>, <<"ready">>, <<"ended", "ready">>, <<"ready", "ended">>}
  <2> DEFINE end == IF k.ended /\ k.buffer # <<>> THEN <<"ended">> ELSE <<>>
             kinds == PostedReading(k)
  <2>1. end \in {<<>>, <<"ended">>}
    OBVIOUS
  <2>2. kinds = end \/ kinds = end \o <<"ready">> \/ kinds = <<"ready">> \o end
    BY DEF PostedReading
  <2> HIDE DEF end, kinds
  <2>3. kinds \in {<<>>, <<"ended">>, <<"ready">>, <<"ended", "ready">>, <<"ready", "ended">>}
    BY <2>1, <2>2, Short
  <2> QED
    BY <2>3 DEF kinds
<1>3. PostedGreeting(k) \in {<<>>, <<"ended">>, <<"failure">>, <<"ended", "failure">>}
  <2> DEFINE end == IF k.ended /\ Len(k.buffer) = 1 THEN <<"ended">> ELSE <<>>
             told == IF Head(k.buffer) = "hello" THEN <<>> ELSE <<"failure">>
             kinds == PostedGreeting(k)
  <2>1. end \in {<<>>, <<"ended">>} /\ told \in {<<>>, <<"failure">>}
    OBVIOUS
  <2>2. kinds = end \o told
    BY DEF PostedGreeting
  <2> HIDE DEF end, told, kinds
  <2>3. kinds \in {<<>>, <<"ended">>, <<"failure">>, <<"ended", "failure">>}
    BY <2>1, <2>2, Short
  <2> QED
    BY <2>3 DEF kinds
<1>4. OfKind(Posting(PostedReading(k), c), Daily)
  BY <1>1, <1>2
<1>5. OfKind(Posting(PostedGreeting(k), c), Daily)
  BY <1>1, <1>3
<1> QED
  BY <1>4, <1>5

LEMMA ShutStays ==
    ASSUME Shut, NEW K, Grown(queue, queue', K), K \subseteq Daily, phase' = phase
    PROVE  Shut'
<1>1. "quit" \notin K /\ "accepted" \notin K /\ "connecting" \notin K
  BY DEF Daily
<1> QED
  BY <1>1 DEF Shut, Grown

\* The handlers that post nothing, or what is daily.
LEMMA DailyHandlers ==
    ASSUME TypeOK, NEW c \in Conns,
           \/ HandleAccepted(c) \/ HandleInput(c) \/ HandleShutdown(c)
           \/ HandleEnded(c) \/ HandleReady(c) \/ HandleSuccess(c) \/ HandleFailure(c)
           \/ HandleDisconnected(c)
    PROVE  phase' = phase /\ \E x, p : IsNext(x, c) /\ OfKind(p, Daily) /\ Handled(p)
<1> USE NoneOfKind
<1>1. \A a \in {"success", "failure", "disconnected"} : OfKind(Posting(<<a>>, c), Daily)
  BY DailyKinds, PostingOfKind
<1>2. OfKind(<<Event("connected", Everyone)>>, Daily) /\ OfKind(<<Event("allGone", Everyone)>>, Daily)
  BY DailyKinds, OneOfKind
<1>3. CASE HandleAccepted(c)
  BY <1>3 DEF HandleAccepted, Dropped, OthersUnchanged
<1>4. CASE HandleInput(c)
  <2>1. IsNext("input", c)
    BY <1>4 DEF HandleInput
  <2>2. phase' = phase
    BY <1>4 DEF HandleInput, Dropped, OthersUnchanged
  <2>3. \E p : OfKind(p, Daily) /\ Handled(p)
    BY <1>4, ReadingDaily DEF HandleInput, Dropped
  <2> QED
    BY <2>1, <2>2, <2>3
<1>5. ASSUME NEW k, StreamEnds(c, k) PROVE phase' = phase /\ \E p : OfKind(p, Daily) /\ Handled(p)
  BY <1>1, <1>5 DEF StreamEnds, OthersUnchanged
<1>6. CASE HandleShutdown(c)
  <2>1. IsNext("shutdown", c)
    BY <1>6 DEF HandleShutdown
  <2>2. phase' = phase /\ \E p : OfKind(p, Daily) /\ Handled(p)
    BY <1>5, <1>6 DEF HandleShutdown, Dropped, OthersUnchanged
  <2> QED
    BY <2>1, <2>2
<1>7. CASE HandleEnded(c)
  <2>1. phase' = phase /\ \E p : OfKind(p, Daily) /\ Handled(p)
    BY <1>5, <1>7 DEF HandleEnded, Dropped
  <2> QED
    BY <1>7, <2>1 DEF HandleEnded
<1>8. CASE HandleReady(c)
  BY <1>1, <1>8 DEF HandleReady, Dropped, OthersUnchanged
<1>9. CASE HandleSuccess(c)
  BY <1>2, <1>9 DEF HandleSuccess, Dropped
<1>10. CASE HandleFailure(c)
  BY <1>10 DEF HandleFailure, Dropped, OthersUnchanged
<1>11. CASE HandleDisconnected(c)
  BY <1>1, <1>2, <1>11 DEF HandleDisconnected, Dropped, OthersUnchanged, GoneFrom
<1> QED
  BY <1>3, <1>4, <1>6, <1>7, <1>8, <1>9, <1>10, <1>11

LEMMA ShutInit == Init => Shut
  BY DEF Init, Shut, HasKind, Late

\* What is noticed, and what waits, when a daily handler has run.
LEMMA ShutHandled ==
    ASSUME TypeOK, Shut, NEW x, NEW c, IsNext(x, c), NEW p, OfKind(p, Daily), Handled(p), phase' = phase
    PROVE  Shut'
<1>1. Grown(queue, queue', Daily)
  BY DailyKinds, HandledGrows
<1> QED
  BY <1>1, ShutStays

LEMMA ShutConnecting == ASSUME TypeOK, Shut, NEW c \in Conns, HandleConnecting(c) PROVE Shut'
<1> DEFINE K == {"accepted", "shutdown"}
<1>1. IsNext("connecting", c) /\ phase' = phase
  BY DEF HandleConnecting, Dropped, OthersUnchanged
<1>2. \E p : OfKind(p, K) /\ Handled(p)
  <2>1. "accepted" \in EventKinds /\ "shutdown" \in EventKinds
    BY DEF EventKinds
  <2>2. /\ OfKind(<<>>, K) /\ OfKind(Posting(<<"accepted">>, c), K)
        /\ OfKind(Posting(<<"accepted", "shutdown">>, c), K)
        /\ OfKind(Posting(<<"shutdown", "accepted">>, c), K)
    BY <2>1, NoneOfKind, PostingOfKind
  <2> HIDE DEF K
  <2> QED
    BY <2>2 DEF HandleConnecting, Dropped
<1>3. Grown(queue, queue', K) /\ HasKind(queue, "connecting")
  BY <1>1, <1>2, HandledGrows
<1>4. phase = "serving" /\ ~HasKind(queue, "quit")
  BY <1>3 DEF Shut, TypeOK
<1> QED
  BY <1>1, <1>3, <1>4 DEF Shut, Grown

LEMMA ShutAppends ==
    ASSUME TypeOK, Shut, NEW p, OfKind(p, Daily), queue' = queue \o p, phase' = phase
    PROVE  Shut'
<1>1. queue \in Seq(Entry)
  BY DEF TypeOK, Entry
<1>2. Grown(queue, queue', Daily)
  BY <1>1, DailyKinds, AppendGrows
<1> QED
  BY <1>2, ShutStays

LEMMA ShutConnected == ASSUME TypeOK, Shut, HandleConnected PROVE Shut'
<1>1. IsNext("connected", Everyone) /\ Handled(<<>>) /\ phase' = phase
  BY DEF HandleConnected, Dropped
<1> QED
  BY <1>1, NoneOfKind, ShutHandled

LEMMA ShutAllGone == ASSUME TypeOK, Shut, HandleAllGone PROVE Shut'
<1>1. IsNext("allGone", Everyone) /\ phase' = phase
  BY DEF HandleAllGone
<1>2. CASE phase = "closing"
  <2>1. Handled(<<Event("quit", Everyone)>>)
    BY <1>2 DEF HandleAllGone
  <2>2. OfKind(<<Event("quit", Everyone)>>, {"quit"})
    BY OneOfKind DEF EventKinds
  <2>3. Grown(queue, queue', {"quit"})
    BY <1>1, <2>1, <2>2, HandledGrows
  <2> QED
    BY <1>1, <1>2, <2>3 DEF Shut, Grown
<1>3. CASE phase # "closing"
  <2>1. Handled(<<>>)
    BY <1>3 DEF HandleAllGone
  <2> QED
    BY <1>1, <2>1, NoneOfKind, ShutHandled
<1> QED
  BY <1>2, <1>3

LEMMA ShutQuit == ASSUME TypeOK, Shut, HandleQuit PROVE Shut'
<1>1. IsNext("quit", Everyone) /\ Handled(<<>>)
  BY DEF HandleQuit, Dropped
<1>2. CASE phase # "closing"
  <2>1. phase' = phase
    BY <1>2 DEF HandleQuit, Dropped
  <2> QED
    BY <1>1, <2>1, NoneOfKind, ShutHandled
<1>3. CASE phase = "closing"
  <2>1. phase' = "stopped"
    BY <1>3 DEF HandleQuit
  <2>2. queue \in Seq(Entry) /\ queue # <<>> /\ Head(queue) = Event("quit", Everyone)
    BY <1>1 DEF TypeOK, Entry, IsNext
  <2>3. Tail(queue) \in Seq(Entry) /\ queue' = Tail(queue) \o <<>>
    BY <1>1, <2>2, TailGrows DEF Handled
  <2>4. queue' = Tail(queue)
    BY <2>3, ConcatEmptySeq
  <2>5. Head(queue).kind = "quit" /\ ~Late(queue)
    BY <2>2 DEF Event, Shut
  <2>6. Grown(queue, queue', {}) /\ ~HasKind(queue', "accepted")
    BY <2>2, <2>4, <2>5, TailGrows
  <2> QED
    BY <1>3, <2>1, <2>5, <2>6 DEF Shut, Grown
<1> QED
  BY <1>2, <1>3

LEMMA ShutStop == ASSUME TypeOK, Shut, ~ArrivesWhileStopping, Stop PROVE Shut'
<1> DEFINE p == <<Event("allGone", Everyone)>>
<1>1. /\ phase = "serving" /\ phase' = "closing" /\ queue \in Seq(Entry)
      /\ \A i \in DOMAIN queue : queue[i].kind # "connecting"
      /\ queue' = Append(queue, Event("allGone", Everyone)) \/ queue' = queue
  BY DEF Stop, TypeOK, Entry
<1>2. ~HasKind(queue, "connecting")
  BY <1>1 DEF HasKind
<1>3. OfKind(p, {"allGone"})
  BY OneOfKind DEF EventKinds
<1>4. Event("allGone", Everyone) \in Entry
  BY DEF Event, Entry, EventKinds
<1>5. CASE queue' = Append(queue, Event("allGone", Everyone))
  <2>1. queue' = queue \o p
    BY <1>1, <1>4, <1>5
  <2>2. Grown(queue, queue', {"allGone"})
    BY <1>1, <1>3, <2>1, AppendGrows
  <2> QED
    BY <1>1, <1>2, <2>2 DEF Shut, Grown
<1>6. CASE queue' = queue
  BY <1>1, <1>2, <1>6 DEF Shut
<1> QED
  BY <1>1, <1>5, <1>6

LEMMA ShutArrive == ASSUME TypeOK, Shut, ~ArrivesWhileStopping, NEW c \in Conns, Arrive(c) PROVE Shut'
<1>1. /\ phase = "serving" /\ phase' = phase /\ queue \in Seq(Entry)
      /\ queue' = Append(queue, Event("connecting", c))
  BY DEF Arrive, TypeOK, Entry
<1>2. OfKind(<<Event("connecting", c)>>, {"connecting"}) /\ Event("connecting", c) \in Entry
  BY OneOfKind DEF Event, Entry, EventKinds
<1>3. queue' = queue \o <<Event("connecting", c)>>
  BY <1>1, <1>2
<1>4. Grown(queue, queue', {"connecting"})
  BY <1>1, <1>2, <1>3, AppendGrows
<1> QED
  BY <1>1, <1>4 DEF Shut, Grown

LEMMA ShutStopTimesOut == ASSUME TypeOK, Shut, StopTimesOut PROVE Shut'
<1> DEFINE p == <<Event("quit", Everyone)>>
<1>1. phase = "closing" /\ phase' = phase /\ queue' = p /\ Len(p) = 1 /\ p[1].kind = "quit"
  BY DEF StopTimesOut, Event
<1> HIDE DEF p
<1> QED
  BY <1>1 DEF Shut, HasKind, Late

\* What a timer or a client adds to the queue is daily.
LEMMA ShutElse ==
    ASSUME TypeOK, Shut, NEW c \in Conns,
           \/ Timers(c) \/ Dismiss(c) \/ Leave(c) \/ \E m \in Messages : Say(c, m)
    PROVE  Shut'
<1>1. queue \in Seq(Entry)
  BY DEF TypeOK, Entry
<1>2. ASSUME NEW x \in {"failure", "disconnected", "input", "shutdown", "error"}
      PROVE  OfKind(<<Event(x, c)>>, Daily) /\ Event(x, c) \in Entry
  <2>1. x \in EventKinds /\ x \in Daily
    BY DailyKinds
  <2> QED
    BY <2>1, OneOfKind DEF Event, Entry
<1>3. OfKind(GoneFrom(c), Daily) /\ GoneFrom(c) \in Seq(Entry)
  BY DailyKinds, OneOfKind, NoneOfKind DEF GoneFrom, OfKind
<1>4. ASSUME queue = <<>>, NEW p \in Seq(Entry) PROVE queue \o p = p
  BY <1>4, ConcatEmptySeq
<1>5. ASSUME NEW x \in {"failure", "disconnected", "input", "shutdown", "error"}
      PROVE  /\ <<Event(x, c)>> \in Seq(Entry)
             /\ Append(queue, Event(x, c)) = queue \o <<Event(x, c)>>
  BY <1>1, <1>2
<1>6. phase' = phase /\ (queue' = queue \/ \E p : OfKind(p, Daily) /\ queue' = queue \o p)
  <2>1. CASE Timers(c)
    BY <1>2, <1>3, <1>4, <1>5, <2>1
    DEF Timers, UnknownTimesOut, Flatline, CloseTimesOut, Idle, OthersUnchanged
  <2>2. CASE Dismiss(c)
    BY <2>2 DEF Dismiss
  <2>3. CASE Leave(c)
    BY <1>2, <1>5, <2>3 DEF Leave
  <2>4. CASE \E m \in Messages : Say(c, m)
    BY <1>2, <1>5, <2>4 DEF Say
  <2> QED
    BY <2>1, <2>2, <2>3, <2>4
<1>7. CASE queue' = queue
  BY <1>6, <1>7 DEF Shut
<1> QED
  BY <1>6, <1>7, ShutAppends

LEMMA ShutNext == Inv /\ Shut /\ ~ArrivesWhileStopping /\ [Next]_vars => Shut'
<1> SUFFICES ASSUME Inv, Shut, ~ArrivesWhileStopping, [Next]_vars PROVE Shut'
  OBVIOUS
<1>1. TypeOK
  BY DEF Inv
<1>2. CASE HandleEvent
  <2>1. CASE HandleConnected \/ HandleAllGone \/ HandleQuit
    BY <1>1, <2>1, ShutConnected, ShutAllGone, ShutQuit
  <2>2. ASSUME NEW c \in Conns, HandleConnecting(c) PROVE Shut'
    BY <1>1, <2>2, ShutConnecting
  <2>3. ASSUME NEW c \in Conns,
               \/ HandleAccepted(c) \/ HandleInput(c) \/ HandleShutdown(c)
               \/ HandleEnded(c) \/ HandleReady(c) \/ HandleSuccess(c) \/ HandleFailure(c)
               \/ HandleDisconnected(c)
        PROVE  Shut'
    <3>1. phase' = phase /\ \E x, p : IsNext(x, c) /\ OfKind(p, Daily) /\ Handled(p)
      BY <1>1, <2>3, DailyHandlers
    <3> QED
      BY <1>1, <3>1, ShutHandled
  <2> QED
    BY <1>2, <2>1, <2>2, <2>3 DEF HandleEvent
<1>3. CASE Stop \/ StopTimesOut
  BY <1>1, <1>3, ShutStop, ShutStopTimesOut
<1>4. ASSUME NEW c \in Conns, Timers(c) \/ Dismiss(c) \/ Arrive(c) \/ Leave(c) \/ \E m \in Messages : Say(c, m)
      PROVE  Shut'
  BY <1>1, <1>4, ShutElse, ShutArrive
<1>5. CASE UNCHANGED vars
  BY <1>5 DEF vars, Shut
<1> QED
  BY <1>2, <1>3, <1>4, <1>5 DEF Next

\* The three handlers that could meet a deleted object.
LEMMA DanglingNever ==
    ASSUME Inv, Shut, NothingDeletedIsCalled, Next PROVE NothingDeletedIsCalled'
<1> SUFFICES ASSUME misuse' = "dangling" PROVE FALSE
  BY DEF NothingDeletedIsCalled
<1>1. misuse # "dangling"
  BY DEF NothingDeletedIsCalled
<1>2. ASSUME NEW c \in Conns, HandleAccepted(c) PROVE FALSE
  <2>1. IsNext("accepted", c) /\ phase = "stopped"
    BY <1>1, <1>2 DEF HandleAccepted, Dropped, OthersUnchanged
  <2>2. queue \in Seq(Entry) /\ queue # <<>> /\ Head(queue) = Event("accepted", c)
    BY <2>1 DEF Inv, TypeOK, Entry, IsNext
  <2>3. HasKind(queue, "accepted")
    BY <2>2, TailGrows DEF Event
  <2> QED
    BY <2>1, <2>3 DEF Shut
<1>3. ASSUME NEW c \in Conns, NEW x, IsNext(x, c) PROVE Has(queue, x, c)
  <2>1. queue \in Seq(Entry) /\ queue # <<>> /\ Head(queue) = Event(x, c)
    BY <1>3 DEF Inv, TypeOK, Entry, IsNext
  <2>2. 1 \in 1..Len(queue) /\ queue[1] = Event(x, c)
    BY <2>1, TailOfQueue
  <2> QED
    BY <2>2 DEF Has
<1>4. ASSUME NEW c \in Conns, HandleReady(c) PROVE FALSE
  <2> DEFINE k == conn[c]
  <2>1. IsNext("ready", c) /\ k.readied = "unknown" /\ k.unknown = "deleted"
    BY <1>1, <1>4 DEF HandleReady, Dropped, OthersUnchanged
  <2>2. Has(queue, "ready", c)
    BY <1>3, <2>1
  <2>3. Fit(k) /\ Mail(queue, c, k)
    BY Objects
  <2> HIDE DEF k
  <2>4. k.hangup = "unknown" /\ k.owns # "proxy"
    BY <2>1, <2>3 DEF Fit
  <2> QED
    BY <2>2, <2>3, <2>4 DEF Mail
<1>5. ASSUME NEW c \in Conns, HandleDisconnected(c) PROVE FALSE
  <2> DEFINE k == conn[c]
  <2>1. IsNext("disconnected", c) /\ k.hangup = "unknown" /\ k.unknown # "live"
    BY <1>1, <1>5 DEF HandleDisconnected, Dropped, OthersUnchanged, DeletesTwice
  <2>2. Has(queue, "disconnected", c)
    BY <1>3, <2>1
  <2>3. Fit(k) /\ Mail(queue, c, k)
    BY Objects
  <2> HIDE DEF k
  <2>4. k.hangup = "unknown" /\ k.owns # "proxy"
    BY <2>1, <2>3 DEF Fit
  <2> QED
    BY <2>2, <2>3, <2>4 DEF Mail
<1>6. ASSUME NEW c \in Conns, NEW k, StreamEnds(c, k) PROVE misuse' = misuse
  BY <1>6 DEF StreamEnds, OthersUnchanged
<1>7. ASSUME NEW c \in Conns,
             HandleConnecting(c) \/ HandleInput(c) \/ HandleSuccess(c) \/ HandleFailure(c)
      PROVE  misuse' = misuse
  BY <1>7 DEF HandleConnecting, HandleInput, HandleSuccess, HandleFailure, Dropped, OthersUnchanged
<1>8. ASSUME NEW c \in Conns, HandleShutdown(c) \/ HandleEnded(c) PROVE misuse' = misuse
  BY <1>6, <1>8 DEF HandleShutdown, HandleEnded, Dropped, OthersUnchanged
<1>9. CASE HandleEvent
  BY <1>1, <1>2, <1>4, <1>5, <1>7, <1>8, <1>9
  DEF HandleEvent, HandleConnected, HandleAllGone, HandleQuit, Dropped
<1>10. CASE Stop \/ StopTimesOut
  BY <1>1, <1>10 DEF Stop, StopTimesOut
<1>11. ASSUME NEW c \in Conns, Timers(c) \/ Dismiss(c) \/ Arrive(c) \/ Leave(c) \/ \E m \in Messages : Say(c, m)
       PROVE  misuse' = misuse
  BY <1>11 DEF Timers, UnknownTimesOut, Flatline, CloseTimesOut, OthersUnchanged, Dismiss, Arrive, Leave, Say
<1> QED
  BY <1>1, <1>9, <1>10, <1>11 DEF Next

\* If no connection arrives while the server stops, no event reaches a deleted unknown
\* client or a deleted listener, although sendFailure leaves its handlers on the proxy it
\* deletes, and ClientListener::stop the handler of a socket that is accepted.
THEOREM NothingDeletedCalled ==
    ASSUME ~ArrivesWhileStopping PROVE Spec => []NothingDeletedIsCalled
<1> DEFINE I == Inv /\ Shut /\ NothingDeletedIsCalled
<1>1. Init => I
  BY InvInit, ShutInit DEF Init, NothingDeletedIsCalled
<1>2. I /\ [Next]_vars => I'
  <2> SUFFICES ASSUME I, [Next]_vars PROVE I'
    OBVIOUS
  <2>1. Inv' /\ Shut'
    BY InvNext, ShutNext
  <2>2. NothingDeletedIsCalled'
    <3>1. CASE Next
      BY <3>1, DanglingNever
    <3>2. CASE UNCHANGED vars
      BY <3>2 DEF vars, NothingDeletedIsCalled
    <3> QED
      BY <3>1, <3>2
  <2> QED
    BY <2>1, <2>2
<1>3. I => NothingDeletedIsCalled
  OBVIOUS
<1> HIDE DEF I
<1> QED
  BY <1>1, <1>2, <1>3, PTL DEF Spec

-----------------------------------------------------------------------------
(* Clients that only say what they are asked for *)

\* A step that k to n by which nobody reads any more.
Quiets(k, n) ==
    /\ n.reads = "nobody" /\ n.stray = k.stray
    /\ n.unknown = "none" => k.unknown = "none"
    /\ n.proxy = "none" => k.proxy = "none"
    /\ n.alarm => k.alarm

LEMMA QuietIsPolite == ASSUME NEW k, NEW n, NEW s, Polite(k, s), Quiets(k, n) PROVE Polite(n, s)
  BY DEF Polite, Quiets

LEMMA FailedQuiets ==
    ASSUME NEW k \in Connections, Fit(k), k.unknown = "live" PROVE Quiets(k, Failed(k))
<1>1. \A f : f = Failed(k) =>
        /\ f.unknown = "live" /\ f.reads = "nobody" /\ f.stray = k.stray
        /\ (k.proxy # "none" => f.proxy # "none") /\ (f.alarm => k.alarm)
  BY FailedFits
<1> QED
  BY <1>1 DEF Quiets

LEMMA UnknownDeletedQuiets ==
    ASSUME NEW k \in Connections, Fit(k), k.unknown = "live" PROVE Quiets(k, UnknownDeleted(k))
<1>1. \A f : f = UnknownDeleted(k) =>
        /\ f.unknown = "deleted" /\ f.reads = "nobody" /\ f.stray = k.stray
        /\ (f.proxy = "deleted" \/ f.proxy = k.proxy) /\ (f.alarm => k.alarm)
  <2>1. CASE k.owns = "proxy"
    BY <2>1, OwnerDeletedFits
  <2>2. CASE k.owns # "proxy"
    BY <2>2, UnknownDeletedFits
  <2> QED
    BY <2>1, <2>2
<1> QED
  BY <1>1 DEF Quiets

LEMMA ProxyDisconnectedQuiets ==
    ASSUME NEW k \in Connections, Fit(k), k.reads = "proxy" PROVE Quiets(k, ProxyDisconnected(k))
<1>1. \A d : d = ProxyDisconnected(k) =>
        /\ d.unknown = k.unknown /\ d.reads = "nobody" /\ d.stray = k.stray /\ d.proxy = k.proxy /\ ~d.alarm
  BY ProxyDisconnectedFits
<1> QED
  BY <1>1 DEF Quiets

LEMMA ServerDeletesQuiets ==
    ASSUME NEW k \in Connections, Fit(k), k.hangup \in {"listener", "server"}
    PROVE  Quiets(k, ServerDeletes(k))
<1>1. \A d : d = ServerDeletes(k) =>
        /\ d.unknown = "deleted" /\ d.reads = "nobody" /\ d.stray = k.stray /\ d.proxy = "deleted" /\ ~d.alarm
  BY ServerDeletesFits
<1> QED
  BY <1>1 DEF Quiets

LEMMA StoppedQuiets == ASSUME NEW k \in Connections, Fit(k) PROVE Quiets(k, Stopped(k))
<1>1. Leftover(k, Stopped(k))
  BY StoppedFits
<1> QED
  BY <1>1 DEF Leftover, Quiets

\* The step of one connection, that says nothing.
LEMMA OnePolite ==
    ASSUME TypeOK, PInv, NEW c \in Conns, NEW k, Becomes(c, k), said' = said, Polite(k, said[c])
    PROVE  PInv'
<1>1. conn \in [Conns -> Connections] /\ conn' = [conn EXCEPT ![c] = k]
  BY DEF TypeOK, Becomes
<1>2. ASSUME NEW d \in Conns PROVE Polite(conn'[d], said'[d])
  BY <1>1 DEF PInv
<1> QED
  BY <1>2 DEF PInv

LEMMA OneQuiet ==
    ASSUME TypeOK, PInv, NEW c \in Conns, NEW k, Becomes(c, k), said' = said, Quiets(conn[c], k)
    PROVE  PInv'
<1>1. Polite(k, said[c])
  BY QuietIsPolite DEF PInv
<1> QED
  BY <1>1, OnePolite

LEMMA NonePolite == ASSUME PInv, conn' = conn, said' = said PROVE PInv'
  BY DEF PInv

LEMMA PoliteInit == Init => PInv
  BY DEF Init, PInv, Polite, Fresh

LEMMA PoliteAccepted == ASSUME Inv, PInv, NEW c \in Conns, HandleAccepted(c) PROVE PInv'
<1> DEFINE o == conn[c]
           k == [o EXCEPT !.accepting = FALSE, !.stream = "live", !.unknown = "live",
                          !.timer = TRUE, !.owns = "stream", !.reads = "unknown"]
<1>1. CASE ~o.accepting \/ phase = "stopped"
  <2>1. conn' = conn /\ said' = said
    BY <1>1 DEF HandleAccepted, Dropped
  <2> QED
    BY <2>1, NonePolite
<1>2. CASE o.accepting /\ phase # "stopped"
  <2>1. Becomes(c, k) /\ said' = said /\ TypeOK
    BY <1>2 DEF HandleAccepted, OthersUnchanged, Inv
  <2>2. o \in Connections /\ Unmet(o) /\ o.unknown = "none" /\ Polite(o, said[c])
    BY <1>2, Objects DEF Fit, PInv
  <2>3. /\ k.stray = o.stray /\ k.unknown = "live" /\ k.buffer = o.buffer /\ k.wire = o.wire
        /\ k.reads = "unknown" /\ k.proxy = o.proxy /\ k.alarm = o.alarm
    BY <2>2 DEF Connections
  <2> HIDE DEF k, o
  <2>4. Polite(k, said[c])
    BY <2>2, <2>3 DEF Polite, Unmet
  <2> QED
    BY <2>1, <2>4, OnePolite
<1> QED
  BY <1>1, <1>2

LEMMA PoliteConnecting == ASSUME Inv, PInv, NEW c \in Conns, HandleConnecting(c) PROVE PInv'
<1> DEFINE o == conn[c]
           k == [o EXCEPT !.socket = "open", !.listed = TRUE, !.accepting = TRUE]
<1>1. CASE phase = "stopped"
  <2>1. conn' = conn /\ said' = said
    BY <1>1 DEF HandleConnecting, Dropped
  <2> QED
    BY <2>1, NonePolite
<1>2. CASE phase # "stopped"
  <2>1. Becomes(c, k) /\ said' = said /\ TypeOK /\ IsNext("connecting", c)
    BY <1>2 DEF HandleConnecting, OthersUnchanged, Inv
  <2>2. Has(queue, "connecting", c)
    <3>1. queue \in Seq(Entry) /\ queue # <<>> /\ Head(queue) = Event("connecting", c)
      BY <2>1 DEF TypeOK, Entry, IsNext
    <3> QED
      BY <3>1, TailOfQueue DEF Has
  <2>3. o = Fresh
    BY <2>2, Objects DEF Mail
  <2>4. Quiets(o, k)
    BY <2>3 DEF Quiets, Fresh
  <2> QED
    BY <2>1, <2>4, OneQuiet
<1> QED
  BY <1>1, <1>2

\* One message was asked for, and it is the only one.
LEMMA PoliteGreeting ==
    ASSUME NEW o \in Connections, Fit(o), NEW s \in Seq(Messages), Polite(o, s),
           NEW k, k = Taken(o), o.stream = "live", o.buffer = <<>>, k.buffer # <<>>, k.reads = "unknown"
    PROVE  Polite(UnknownReads(k), s)
<1>1. /\ k \in Connections /\ Fit(k) /\ k.wire = <<>> /\ k.buffer = o.buffer \o o.wire
      /\ k.reads = o.reads /\ k.stray = o.stray /\ k.alarm = o.alarm /\ k.proxy = o.proxy
      /\ k.unknown = o.unknown /\ k.owns = o.owns
  BY TakenFits
<1>2. k.buffer = o.wire /\ o.wire \in Seq(Messages)
  <2>1. o.wire \in Seq(Messages)
    BY DEF Connections
  <2> QED
    BY <1>1, <2>1, ConcatEmptySeq
<1>3. k.buffer = s /\ Len(s) = 1 /\ ~k.stray
  BY <1>1, <1>2 DEF Polite
<1>4. k.owns = "stream" /\ k.unknown = "live" /\ k.proxy = "none"
  BY <1>1 DEF Fit
<1>5. CASE Head(k.buffer) = "hello"
  <2>1. UnknownReads(k) = ProxyMade(k)
    BY <1>5 DEF UnknownReads
  <2>2. \A p : p = ProxyMade(k) =>
          /\ p.unknown = "live" /\ p.reads = "proxy" /\ p.proxy = "live" /\ p.parser = "handshake"
          /\ p.wire = <<>> /\ p.stray = k.stray /\ p.alarm = k.alarm /\ p.buffer = Tail(k.buffer)
    BY <1>1, ProxyMadeFits
  <2>3. Tail(s) = <<>> /\ s = <<"hello">>
    <3>1. s # <<>> /\ Len(s) = 1 /\ s[1] = "hello" /\ Head(s) = s[1]
      BY <1>3, <1>5
    <3>2. Tail(s) \in Seq(Messages) /\ Len(Tail(s)) = 0
      BY <3>1, HeadTailProperties
    <3>3. Tail(s) = <<>>
      BY <3>2, EmptySeq
    <3>4. s = [i \in 1..1 |-> "hello"]
      BY <3>1
    <3>5. <<"hello">> = [i \in 1..1 |-> "hello"]
      OBVIOUS
    <3> QED
      BY <3>3, <3>4, <3>5
  <2>4. ~k.alarm
    BY <1>1, <1>4 DEF Polite
  <2> DEFINE p == ProxyMade(k)
  <2>5. /\ p.unknown = "live" /\ p.reads = "proxy" /\ p.proxy = "live" /\ p.parser = "handshake"
        /\ p.wire = <<>> /\ ~p.stray /\ ~p.alarm /\ p.buffer = <<>>
    BY <1>3, <2>2, <2>3, <2>4
  <2> HIDE DEF p
  <2>6. Polite(p, s)
    BY <2>3, <2>5 DEF Polite
  <2> QED
    BY <2>1, <2>6 DEF p
<1>6. CASE Head(k.buffer) # "hello"
  <2> DEFINE b == [k EXCEPT !.buffer = Tail(@)]
  <2>1. UnknownReads(k) = Failed(b)
    BY <1>6 DEF UnknownReads
  <2>2. b \in Connections
    <3>1. Tail(k.buffer) \in Seq(Messages)
      BY <1>1 DEF Connections
    <3> QED
      BY <1>1, <3>1, ZenonT(60) DEF Connections
  <2>3. /\ b.unknown = k.unknown /\ b.parser = k.parser /\ b.wire = k.wire /\ b.hangup = k.hangup
        /\ b.stream = k.stream /\ b.timer = k.timer /\ b.owns = k.owns /\ b.proxy = k.proxy
        /\ b.reads = k.reads /\ b.readied = k.readied /\ b.place = k.place /\ b.ready = k.ready
        /\ b.accepting = k.accepting /\ b.stray = k.stray /\ b.alarm = k.alarm
    BY <1>1 DEF Connections
  <2> HIDE DEF b
  <2>4. Fit(b)
    BY <1>1, <1>4, <2>3 DEF Fit
  <2>5. Quiets(b, Failed(b))
    BY <1>4, <2>2, <2>3, <2>4, FailedQuiets
  <2>6. Quiets(o, Failed(b))
    BY <1>1, <2>3, <2>5 DEF Quiets
  <2> QED
    BY <2>1, <2>6, QuietIsPolite
<1> QED
  BY <1>5, <1>6

LEMMA PoliteReading ==
    ASSUME NEW o \in Connections, Fit(o), NEW s, Polite(o, s),
           NEW k, k = Taken(o), o.stream = "live", o.buffer = <<>>, k.buffer # <<>>, k.reads = "proxy"
    PROVE  Polite(ProxyReads(k), s)
<1>1. /\ k \in Connections /\ Fit(k) /\ k.wire = <<>> /\ k.buffer = o.buffer \o o.wire
      /\ k.reads = o.reads /\ k.stray = o.stray /\ k.alarm = o.alarm /\ k.proxy = o.proxy
      /\ k.unknown = o.unknown /\ k.parser = o.parser
  BY TakenFits
<1>2. k.buffer = o.wire /\ o.wire \in Seq(Messages)
  <2>1. o.wire \in Seq(Messages)
    BY DEF Connections
  <2> QED
    BY <1>1, <2>1, ConcatEmptySeq
<1>3. k.proxy = "live" /\ k.unknown # "none" /\ k.parser \in {"handshake", "normal"}
  BY <1>1 DEF Fit, Unmet, Connections
<1>4. k.parser = "handshake" => Expected(k)
  BY <1>1, <1>2 DEF Polite, Expected
<1> DEFINE r == ProxyReads(k)
<1>5. /\ r.unknown = k.unknown /\ r.reads = "proxy" /\ r.proxy = k.proxy /\ r.buffer = <<>>
      /\ k.parser = "normal" => r.parser = "normal" /\ r.stray = k.stray
      /\ Expected(k) => r.parser = "normal" /\ ~r.stray
  BY <1>1, ProxyReadsFits
<1> HIDE DEF r
<1>6. r.parser = "normal" /\ ~r.stray
  BY <1>1, <1>3, <1>4, <1>5 DEF Polite
<1>7. Polite(r, s)
  BY <1>3, <1>5, <1>6 DEF Polite
<1> QED
  BY <1>7 DEF r

LEMMA PoliteInput == ASSUME Inv, PInv, NEW c \in Conns, HandleInput(c) PROVE PInv'
<1> DEFINE o == conn[c]
           k == Taken(o)
<1>1. /\ TypeOK /\ o \in Connections /\ Fit(o) /\ Polite(o, said[c]) /\ said[c] \in Seq(Messages)
  BY Objects DEF Inv, PInv, TypeOK
<1>2. CASE o.stream # "live"
  <2>1. conn' = conn /\ said' = said
    BY <1>2 DEF HandleInput, Dropped
  <2> QED
    BY <2>1, NonePolite
<1>3. CASE o.stream = "live"
  <2>1. said' = said
    BY <1>3 DEF HandleInput, OthersUnchanged
  <2>2. /\ k.wire = <<>> /\ k.buffer = o.buffer \o o.wire
        /\ k.reads = o.reads /\ k.stray = o.stray /\ k.alarm = o.alarm /\ k.proxy = o.proxy
        /\ k.unknown = o.unknown /\ k.parser = o.parser /\ k.socket = o.socket
    BY <1>1, TakenFits
  <2>3. o.wire \in Seq(Messages) /\ o.reads \in {"nobody", "unknown", "proxy"}
    BY <1>1 DEF Connections
  <2>4. CASE o.buffer = <<>> /\ k.buffer # <<>> /\ k.reads = "unknown"
    <3>1. Becomes(c, UnknownReads(k))
      BY <1>3, <2>4 DEF HandleInput
    <3>2. Polite(UnknownReads(k), said[c])
      BY <1>1, <1>3, <2>4, PoliteGreeting
    <3> QED
      BY <1>1, <2>1, <3>1, <3>2, OnePolite
  <2>5. CASE o.buffer = <<>> /\ k.buffer # <<>> /\ k.reads = "proxy"
    <3>1. Becomes(c, ProxyReads(k))
      BY <1>3, <2>5 DEF HandleInput
    <3>2. Polite(ProxyReads(k), said[c])
      BY <1>1, <1>3, <2>5, PoliteReading
    <3> QED
      BY <1>1, <2>1, <3>1, <3>2, OnePolite
  <2>6. CASE ~(o.buffer = <<>> /\ k.buffer # <<>> /\ k.reads \in {"unknown", "proxy"})
    <3>1. Becomes(c, k)
      BY <1>3, <2>6 DEF HandleInput
    <3> HIDE DEF k
    <3>2. CASE o.reads = "nobody"
      <4>1. Quiets(o, k)
        BY <2>2, <3>2 DEF Quiets
      <4> QED
        BY <1>1, <2>1, <3>1, <4>1, OneQuiet
    <3>3. CASE o.reads # "nobody"
      <4>1. o.buffer = <<>>
        BY <1>1, <3>3 DEF Polite
      <4>2. k.buffer = o.wire
        BY <2>2, <2>3, <4>1, ConcatEmptySeq
      <4>3. k.buffer = <<>> /\ o.wire = <<>>
        BY <2>2, <2>3, <2>6, <3>3, <4>1, <4>2
      <4>4. Polite(k, said[c])
        BY <1>1, <2>2, <4>1, <4>3 DEF Polite
      <4> QED
        BY <1>1, <2>1, <3>1, <4>4, OnePolite
    <3> QED
      BY <3>2, <3>3
  <2> QED
    BY <2>4, <2>5, <2>6
<1> QED
  BY <1>2, <1>3

LEMMA PoliteEnds ==
    ASSUME Inv, PInv, NEW c \in Conns, NEW k \in Connections, Fit(k),
           Likewise(k, conn[c]), k.stray = conn[c].stray, k.alarm = conn[c].alarm,
           k.buffer = conn[c].buffer, k.socket = conn[c].socket, StreamEnds(c, k)
    PROVE  PInv'
<1> DEFINE o == conn[c]
<1>1. TypeOK /\ said' = said /\ Polite(o, said[c]) /\ k.reads \in {"nobody", "unknown", "proxy"}
  BY DEF Inv, StreamEnds, OthersUnchanged, PInv, Connections
<1>2. ASSUME NEW n, Quiets(k, n) PROVE Quiets(o, n)
  BY <1>2 DEF Quiets, Likewise
<1>3. CASE k.reads = "unknown"
  <2>1. k.unknown = "live"
    BY <1>3 DEF Fit
  <2>2. Becomes(c, Failed(k)) /\ Quiets(k, Failed(k))
    BY <1>3, <2>1, FailedQuiets DEF StreamEnds
  <2> QED
    BY <1>1, <1>2, <2>2, OneQuiet
<1>4. CASE k.reads = "proxy"
  <2>1. Becomes(c, ProxyDisconnected(k)) /\ Quiets(k, ProxyDisconnected(k))
    BY <1>4, ProxyDisconnectedQuiets DEF StreamEnds
  <2> QED
    BY <1>1, <1>2, <2>1, OneQuiet
<1>5. CASE k.reads = "nobody"
  <2>1. Becomes(c, k)
    BY <1>5 DEF StreamEnds
  <2>2. Quiets(o, k)
    BY <1>5 DEF Quiets, Likewise
  <2> QED
    BY <1>1, <2>1, <2>2, OneQuiet
<1> QED
  BY <1>1, <1>3, <1>4, <1>5

LEMMA PoliteShutdown == ASSUME Inv, PInv, NEW c \in Conns, HandleShutdown(c) PROVE PInv'
<1> DEFINE o == conn[c]
           k == [o EXCEPT !.ended = TRUE]
<1>1. TypeOK /\ o \in Connections /\ Fit(o) /\ Polite(o, said[c])
  BY Objects DEF Inv, PInv
<1>2. k.stream = o.stream
  BY <1>1 DEF Connections
<1>3. CASE o.stream # "live"
  <2>1. conn' = conn /\ said' = said
    BY <1>2, <1>3 DEF HandleShutdown, Dropped
  <2> QED
    BY <2>1, NonePolite
<1>4. CASE o.stream = "live"
  <2>1. o.unknown # "none"
    BY <1>1, <1>4 DEF Fit, Unmet
  <2>2. /\ k \in Connections /\ Fit(k) /\ Likewise(k, o) /\ k.stray = o.stray /\ k.alarm = o.alarm
        /\ k.buffer = o.buffer /\ k.socket = o.socket
    BY <1>1, <2>1, EndedFits DEF Likewise
  <2>3. CASE k.buffer # <<>>
    <3>1. Becomes(c, k) /\ said' = said
      BY <1>2, <1>4, <2>3 DEF HandleShutdown, OthersUnchanged
    <3> HIDE DEF k
    <3>2. Polite(k, said[c])
      BY <1>1, <2>2 DEF Polite, Likewise
    <3> QED
      BY <1>1, <3>1, <3>2, OnePolite
  <2>4. CASE k.buffer = <<>>
    <3>1. StreamEnds(c, k)
      BY <1>2, <1>4, <2>4 DEF HandleShutdown
    <3> HIDE DEF k
    <3> QED
      BY <2>2, <3>1, PoliteEnds
  <2> QED
    BY <2>3, <2>4
<1> QED
  BY <1>3, <1>4

LEMMA PoliteEnded == ASSUME Inv, PInv, NEW c \in Conns, HandleEnded(c) PROVE PInv'
<1>1. CASE conn[c].stream # "live"
  <2>1. conn' = conn /\ said' = said
    BY <1>1 DEF HandleEnded, Dropped
  <2> QED
    BY <2>1, NonePolite
<1>2. CASE conn[c].stream = "live"
  <2>1. StreamEnds(c, conn[c]) /\ Likewise(conn[c], conn[c])
    BY <1>2 DEF HandleEnded, Likewise
  <2> QED
    BY <2>1, Objects, PoliteEnds
<1> QED
  BY <1>1, <1>2

LEMMA PoliteReady == ASSUME Inv, PInv, NEW c \in Conns, HandleReady(c) PROVE PInv'
<1> DEFINE o == conn[c]
           k == [o EXCEPT !.ready = TRUE, !.timer = FALSE]
<1>1. TypeOK /\ o \in Connections /\ Polite(o, said[c])
  BY Objects DEF Inv, PInv
<1>2. said' = said /\ (conn' = conn \/ Becomes(c, k))
  BY DEF HandleReady, Dropped, OthersUnchanged
<1>3. /\ k.unknown = o.unknown /\ k.reads = o.reads /\ k.buffer = o.buffer /\ k.wire = o.wire
      /\ k.parser = o.parser /\ k.proxy = o.proxy /\ k.alarm = o.alarm /\ k.stray = o.stray
      /\ k.socket = o.socket
  BY <1>1 DEF Connections
<1> HIDE DEF k
<1>4. Polite(k, said[c])
  BY <1>1, <1>3 DEF Polite
<1> QED
  BY <1>1, <1>2, <1>4, OnePolite, NonePolite

LEMMA PoliteSuccess == ASSUME Inv, PInv, NEW c \in Conns, HandleSuccess(c) PROVE PInv'
<1> DEFINE o == conn[c]
<1>1. TypeOK /\ o \in Connections /\ Fit(o) /\ Polite(o, said[c])
  BY Objects DEF Inv, PInv
<1>2. CASE o.unknown # "live"
  <2>1. conn' = conn /\ said' = said
    BY <1>2 DEF HandleSuccess, Dropped
  <2> QED
    BY <2>1, NonePolite
<1>3. CASE o.unknown = "live" /\ ~HasOrphan(o)
  <2>1. Orphaned(o) = o
    BY <1>3 DEF Orphaned
  <2>2. Becomes(c, UnknownDeleted(o)) /\ said' = said
    BY <1>3, <2>1 DEF HandleSuccess
  <2> QED
    BY <1>1, <1>3, <2>2, UnknownDeletedQuiets, OneQuiet
<1>4. CASE o.unknown = "live" /\ HasOrphan(o)
  <2> DEFINE k == [UnknownDeleted(Orphaned(o)) EXCEPT !.hangup = "listener"]
  <2>1. Becomes(c, k) /\ said' = said
    BY <1>4 DEF HandleSuccess
  <2>2. /\ Fit(k) /\ k.unknown = "deleted" /\ k.reads = o.reads /\ k.stray = o.stray
        /\ k.hangup = "listener" /\ k.proxy = "live" /\ k.buffer = o.buffer
    <3>1. k = [UnknownDeleted(Orphaned(o)) EXCEPT !.hangup = "listener"]
      OBVIOUS
    <3> HIDE DEF k, o
    <3> QED
      BY <1>1, <1>4, <3>1, OrphanFits
  <2> HIDE DEF k, o
  <2>3. k.parser = "normal" /\ k.reads # "unknown"
    BY <2>2 DEF Fit
  <2>4. Polite(k, said[c])
    BY <1>1, <2>2, <2>3 DEF Polite
  <2> QED
    BY <1>1, <2>1, <2>4, OnePolite
<1> QED
  BY <1>2, <1>3, <1>4

LEMMA PoliteConnected == ASSUME Inv, PInv, HandleConnected PROVE PInv'
<1>1. TypeOK /\ said' = said
  BY DEF HandleConnected, Dropped, Inv
<1>2. CASE waiting = <<>> \/ phase = "stopped"
  <2>1. conn' = conn
    BY <1>2 DEF HandleConnected, Dropped
  <2> QED
    BY <1>1, <2>1, NonePolite
<1>3. CASE ~(waiting = <<>> \/ phase = "stopped")
  <2> DEFINE c == Head(waiting)
             o == conn[c]
  <2>1. waiting \in Seq(Conns) /\ waiting # <<>>
    BY <1>1, <1>3 DEF TypeOK
  <2>2. c \in Conns /\ 1 \in 1..Len(waiting) /\ c = waiting[1]
    BY <2>1, FirstServed
  <2>3. o.hangup = "listener"
    BY <2>2 DEF Inv, Lined, InLine
  <2>4. PICK a : Becomes(c, a) /\ Adopted(o, a)
    BY <1>3 DEF HandleConnected, NextInLine, Adopted
  <2> HIDE DEF c
  <2>5. o \in Connections /\ Fit(o) /\ Polite(o, said[c])
    BY <2>2, Objects DEF PInv
  <2> HIDE DEF o
  <2>6. /\ Fit(a) /\ a.unknown = "deleted" /\ a.reads = o.reads /\ a.proxy = "live" /\ a.parser = "normal"
        /\ a.stray = o.stray /\ a.buffer = o.buffer /\ a.hangup = "server"
    BY <2>3, <2>4, <2>5, AdoptedFits
  <2>7. a.reads # "unknown"
    BY <2>6 DEF Fit
  <2>8. Polite(a, said[c])
    BY <2>5, <2>6, <2>7 DEF Polite
  <2> QED
    BY <1>1, <2>2, <2>4, <2>8, OnePolite
<1> QED
  BY <1>2, <1>3

LEMMA PoliteDisconnected == ASSUME Inv, PInv, NEW c \in Conns, HandleDisconnected(c) PROVE PInv'
<1> DEFINE o == conn[c]
<1>1. TypeOK /\ o \in Connections /\ Fit(o) /\ Polite(o, said[c])
  BY Objects DEF Inv, PInv
<1>2. said' = said
  BY DEF HandleDisconnected, Dropped, OthersUnchanged
<1>3. o.hangup \in {"nobody", "unknown", "listener", "server"}
  BY <1>1 DEF Connections
<1>4. CASE o.hangup = "nobody" \/ (o.hangup = "unknown" /\ o.unknown # "live")
  <2>1. conn' = conn
    BY <1>4 DEF HandleDisconnected, Dropped
  <2> QED
    BY <1>2, <2>1, NonePolite
<1>5. CASE o.hangup = "unknown" /\ o.unknown = "live"
  <2>1. Becomes(c, Failed(o))
    BY <1>5 DEF HandleDisconnected
  <2> QED
    BY <1>1, <1>2, <1>5, <2>1, FailedQuiets, OneQuiet
<1>6. CASE o.hangup \in {"listener", "server"}
  <2>1. Becomes(c, ServerDeletes(o))
    <3>1. CASE o.hangup = "listener"
      <4>1. Becomes(c, [ProxyDeleted(o) EXCEPT !.hangup = "nobody"])
        BY <3>1 DEF HandleDisconnected
      <4> QED
        BY <1>1, <3>1, <4>1, ListenerDeletes
    <3>2. CASE o.hangup = "server"
      BY <3>2 DEF HandleDisconnected
    <3> QED
      BY <1>6, <3>1, <3>2
  <2> QED
    BY <1>1, <1>2, <1>6, <2>1, ServerDeletesQuiets, OneQuiet
<1> QED
  BY <1>3, <1>4, <1>5, <1>6

LEMMA PoliteDismiss == ASSUME Inv, PInv, NEW c \in Conns, Dismiss(c) PROVE PInv'
<1> DEFINE o == conn[c]
           k == [o EXCEPT !.place = "closing"]
<1>1. TypeOK /\ o \in Connections /\ Polite(o, said[c]) /\ said' = said /\ Becomes(c, k)
  BY Objects DEF Inv, PInv, Dismiss
<1>2. /\ k.unknown = o.unknown /\ k.reads = o.reads /\ k.buffer = o.buffer /\ k.wire = o.wire
      /\ k.parser = o.parser /\ k.proxy = o.proxy /\ k.alarm = o.alarm /\ k.stray = o.stray
      /\ k.socket = o.socket
  BY <1>1 DEF Connections
<1> HIDE DEF k
<1>3. Polite(k, said[c])
  BY <1>1, <1>2 DEF Polite
<1> QED
  BY <1>1, <1>3, OnePolite

LEMMA PoliteStop == ASSUME Inv, PInv, Stop PROVE PInv'
<1>1. said' = said /\ conn' = [c \in Conns |-> IF c \in Served THEN [conn[c] EXCEPT !.place = "closing"] ELSE conn[c]]
  BY DEF Stop
<1>2. ASSUME NEW d \in Conns PROVE Polite(conn'[d], said[d])
  <2> DEFINE o == conn[d]
             k == conn'[d]
  <2>1. o \in Connections /\ Polite(o, said[d])
    BY Objects DEF PInv
  <2>2. k = o \/ k = [o EXCEPT !.place = "closing"]
    BY <1>1
  <2> HIDE DEF k, o
  <2>3. /\ k.unknown = o.unknown /\ k.reads = o.reads /\ k.buffer = o.buffer /\ k.wire = o.wire
        /\ k.parser = o.parser /\ k.proxy = o.proxy /\ k.alarm = o.alarm /\ k.stray = o.stray
        /\ k.socket = o.socket
    BY <2>1, <2>2 DEF Connections
  <2>4. Polite(k, said[d])
    BY <2>1, <2>3 DEF Polite
  <2> QED
    BY <2>4 DEF k
<1> QED
  BY <1>1, <1>2 DEF PInv

LEMMA PoliteQuit == ASSUME Inv, PInv, HandleQuit PROVE PInv'
<1>1. said' = said
  BY DEF HandleQuit, Dropped
<1>2. CASE phase # "closing"
  <2>1. conn' = conn
    BY <1>2 DEF HandleQuit, Dropped
  <2> QED
    BY <1>1, <2>1, NonePolite
<1>3. CASE phase = "closing"
  <2>1. conn' = [c \in Conns |-> Stopped(conn[c])]
    BY <1>3 DEF HandleQuit
  <2>2. ASSUME NEW d \in Conns PROVE Polite(conn'[d], said[d])
    <3>1. Quiets(conn[d], Stopped(conn[d])) /\ Polite(conn[d], said[d])
      BY Objects, StoppedQuiets DEF PInv
    <3>2. conn'[d] = Stopped(conn[d])
      BY <2>1
    <3> QED
      BY <3>1, <3>2, QuietIsPolite
  <2> QED
    BY <1>1, <2>2 DEF PInv
<1> QED
  BY <1>2, <1>3

LEMMA PoliteTimers == ASSUME Inv, PInv, NEW c \in Conns, Timers(c) PROVE PInv'
<1> DEFINE o == conn[c]
<1>1. TypeOK /\ o \in Connections /\ Fit(o)
  BY Objects DEF Inv
<1>2. said' = said
  BY DEF Timers, UnknownTimesOut, Flatline, CloseTimesOut, OthersUnchanged
<1>3. CASE UnknownTimesOut(c)
  <2>1. o.unknown = "live" /\ Becomes(c, Failed(o))
    BY <1>1, <1>3 DEF UnknownTimesOut, Fit
  <2> QED
    BY <1>1, <1>2, <2>1, FailedQuiets, OneQuiet
<1>4. CASE Flatline(c)
  <2>1. o.reads = "proxy" /\ Becomes(c, ProxyDisconnected(o))
    BY <1>4 DEF Flatline
  <2> QED
    BY <1>1, <1>2, <2>1, ProxyDisconnectedQuiets, OneQuiet
<1>5. CASE CloseTimesOut(c)
  <2>1. o.hangup = "server" /\ Becomes(c, ServerDeletes(o))
    BY <1>1, <1>5 DEF CloseTimesOut, Fit
  <2> QED
    BY <1>1, <1>2, <2>1, ServerDeletesQuiets, OneQuiet
<1> QED
  BY <1>3, <1>4, <1>5 DEF Timers

\* What a client may say is what it is asked for.
LEMMA PoliteSay ==
    ASSUME Inv, PInv, ~HastyClients, NEW c \in Conns, NEW m \in Messages, Say(c, m)
    PROVE  PInv'
<1> DEFINE o == conn[c]
           s == said[c]
           k == [o EXCEPT !.wire = Append(@, m)]
           t == Append(s, m)
<1>1. /\ TypeOK /\ o \in Connections /\ Fit(o) /\ Polite(o, s) /\ s \in Seq(Messages)
      /\ said' = [said EXCEPT ![c] = t] /\ conn \in [Conns -> Connections]
      /\ said \in [Conns -> Seq(Messages)]
  BY Objects DEF Inv, PInv, Say, TypeOK
<1>2. /\ o.unknown # "none" /\ (s # <<>> => o.proxy # "none")
      /\ s = <<"hello">> => m \in {"info", "badInfo"}
  BY DEF Say, MaySay
<1>3. o.wire \in Seq(Messages) /\ o.reads \in {"nobody", "unknown", "proxy"}
  BY <1>1 DEF Connections
<1>4. o.reads = "unknown" => o.proxy = "none"
  BY <1>1 DEF Fit
<1>5. ASSUME NEW l, Polite(l, t), (conn' = conn /\ l = o) \/ conn' = [conn EXCEPT ![c] = l]
      PROVE  PInv'
  <2> HIDE DEF t, s, k
  <2>1. ASSUME NEW d \in Conns PROVE Polite(conn'[d], said'[d])
    BY <1>1, <1>5, <2>1 DEF PInv
  <2> QED
    BY <2>1 DEF PInv
<1>6. CASE o.socket # "open"
  <2>1. conn' = conn
    BY <1>6 DEF Say
  <2>2. o.reads = "unknown" => o.wire = <<>>
    BY <1>1, <1>2, <1>4 DEF Polite
  <2>3. Polite(o, t)
    <3> HIDE DEF o, t, s
    <3> QED
      BY <1>1, <1>2, <1>6, <2>2 DEF Polite
  <2> QED
    BY <1>5, <2>1, <2>3
<1>7. CASE o.socket = "open"
  <2>1. conn' = [conn EXCEPT ![c] = k]
    BY <1>7 DEF Say, Becomes
  <2>2. /\ k.unknown = o.unknown /\ k.reads = o.reads /\ k.buffer = o.buffer
        /\ k.parser = o.parser /\ k.proxy = o.proxy /\ k.alarm = o.alarm /\ k.stray = o.stray
        /\ k.wire = Append(o.wire, m)
    BY <1>1 DEF Connections
  <2> HIDE DEF k
  <2>3. o.reads = "unknown" => k.wire = t /\ Len(t) = 1
    <3> SUFFICES ASSUME o.reads = "unknown" PROVE k.wire = t /\ Len(t) = 1
      OBVIOUS
    <3>1. s = <<>> /\ Len(s) = 0
      BY <1>2, <1>4
    <3>2. o.wire = <<>>
      BY <1>1, <3>1 DEF Polite
    <3> QED
      BY <1>1, <1>3, <2>2, <3>1, <3>2, AppendProperties
  <2>4. o.reads = "proxy" /\ o.parser = "handshake" => k.wire # <<>> /\ Head(k.wire) \in {"info", "badInfo"}
    <3> SUFFICES ASSUME o.reads = "proxy", o.parser = "handshake"
                 PROVE  k.wire # <<>> /\ Head(k.wire) \in {"info", "badInfo"}
      OBVIOUS
    <3>1. CASE o.wire = <<>>
      <4>1. m \in {"info", "badInfo"}
        BY <1>1, <1>2, <1>7, <3>1 DEF Polite
      <4> QED
        BY <2>2, <3>1, <4>1
    <3>2. CASE o.wire # <<>>
      <4>1. Head(o.wire) \in {"info", "badInfo"}
        BY <1>1, <3>2 DEF Polite
      <4>2. Head(k.wire) = Head(o.wire) /\ k.wire # <<>>
        BY <1>3, <2>2, <3>2
      <4> QED
        BY <4>1, <4>2
    <3> QED
      BY <3>1, <3>2
  <2>5. Polite(k, t)
    <3> HIDE DEF o, t, s
    <3> QED
      BY <1>1, <1>2, <2>2, <2>3, <2>4 DEF Polite
  <2> QED
    BY <1>5, <2>1, <2>5
<1> QED
  BY <1>6, <1>7

LEMMA PoliteNext == Inv /\ PInv /\ ~HastyClients /\ [Next]_vars => PInv'
<1> SUFFICES ASSUME Inv, PInv, ~HastyClients, [Next]_vars PROVE PInv'
  OBVIOUS
<1>1. CASE HandleEvent
  <2>1. CASE HandleConnected \/ HandleQuit
    BY <2>1, PoliteConnected, PoliteQuit
  <2>2. CASE HandleAllGone
    <3>1. conn' = conn /\ said' = said
      BY <2>2 DEF HandleAllGone
    <3> QED
      BY <3>1, NonePolite
  <2>3. ASSUME NEW c \in Conns, HandleFailure(c) PROVE PInv'
    <3>1. said' = said /\ (conn' = conn \/ (conn[c].unknown = "live" /\ Becomes(c, UnknownDeleted(conn[c]))))
      BY <2>3 DEF HandleFailure, Dropped, OthersUnchanged
    <3>2. TypeOK /\ (conn[c].unknown = "live" => Quiets(conn[c], UnknownDeleted(conn[c])))
      BY Objects, UnknownDeletedQuiets DEF Inv
    <3> QED
      BY <3>1, <3>2, OneQuiet, NonePolite
  <2>4. ASSUME NEW c \in Conns,
               \/ HandleConnecting(c) \/ HandleAccepted(c) \/ HandleInput(c) \/ HandleShutdown(c)
               \/ HandleEnded(c) \/ HandleReady(c) \/ HandleSuccess(c) \/ HandleDisconnected(c)
        PROVE  PInv'
    BY <2>4, PoliteConnecting, PoliteAccepted, PoliteInput, PoliteShutdown, PoliteEnded, PoliteReady,
       PoliteSuccess, PoliteDisconnected
  <2> QED
    BY <1>1, <2>1, <2>2, <2>3, <2>4 DEF HandleEvent
<1>2. CASE Stop \/ StopTimesOut
  <2>1. CASE Stop
    BY <2>1, PoliteStop
  <2>2. CASE StopTimesOut
    BY <2>2, NonePolite DEF StopTimesOut
  <2> QED
    BY <1>2, <2>1, <2>2
<1>3. ASSUME NEW c \in Conns, Arrive(c) \/ Leave(c) PROVE PInv'
  <2>1. conn' = conn /\ said' = said
    BY <1>3 DEF Arrive, Leave
  <2> QED
    BY <2>1, NonePolite
<1>4. ASSUME NEW c \in Conns, Timers(c) \/ Dismiss(c) \/ \E m \in Messages : Say(c, m) PROVE PInv'
  BY <1>4, PoliteTimers, PoliteDismiss, PoliteSay
<1>5. CASE UNCHANGED vars
  BY <1>5, NonePolite DEF vars
<1> QED
  BY <1>1, <1>2, <1>3, <1>4, <1>5 DEF Next

\* If clients say no more than they are asked for while they shake hands, none is left
\* with an alarm that nobody resets, and would be declared dead although it talks
\* (addHeartbeatTimer, resetHeartbeatTimer).
THEOREM AlarmIsOne == ASSUME ~HastyClients PROVE Spec => []OneAlarm
<1>1. Init => Inv /\ PInv
  BY InvInit, PoliteInit
<1>2. Inv /\ PInv /\ [Next]_vars => (Inv /\ PInv)'
  BY InvNext, PoliteNext
<1>3. Inv /\ PInv => OneAlarm
  BY DEF PInv, Polite, OneAlarm
<1> QED
  BY <1>1, <1>2, <1>3, PTL DEF Spec

\* And when no event waits, whoever reads a stream has read all that came, although the
\* filter announces only the first of several messages (PacketStreamFilter::filterEvent).
THEOREM UnreadIsNothing == ASSUME ~HastyClients PROVE Spec => []NothingUnread
<1>1. Init => Inv /\ PInv
  BY InvInit, PoliteInit
<1>2. Inv /\ PInv /\ [Next]_vars => (Inv /\ PInv)'
  BY InvNext, PoliteNext
<1>3. Inv /\ PInv => NothingUnread
  <2> SUFFICES ASSUME Inv, PInv, queue = <<>>, NEW c \in Conns, conn[c].reads # "nobody"
               PROVE  conn[c].buffer = <<>> /\ conn[c].wire = <<>>
    BY DEF NothingUnread
  <2>1. ~Has(queue, "input", c)
    BY DEF Has
  <2>2. Mail(queue, c, conn[c]) /\ Polite(conn[c], said[c])
    BY Objects DEF PInv
  <2> QED
    BY <2>1, <2>2 DEF Mail, Polite
<1> QED
  BY <1>1, <1>2, <1>3, PTL DEF Spec

-----------------------------------------------------------------------------
(* Connections are admitted in turn *)

Promised == [Line!Next]_(Line!vars)

\* Where a connection is, by what it is made of.
At(k) ==
    IF k.unknown = "live" THEN "greeting"
    ELSE IF k.hangup = "listener" THEN "waiting"
    ELSE IF k.place = "served" THEN "served"
    ELSE IF k.place = "closing" THEN "leaving"
    ELSE IF k.unknown = "none" THEN "away" ELSE "gone"

LEMMA StageIsAt == ASSUME NEW c \in Conns, Fit(conn[c]) PROVE Stage(c) = At(conn[c])
<1> DEFINE k == conn[c]
<1>1. /\ k.unknown = "live" => k.hangup # "listener" /\ k.place = "none"
      /\ k.hangup = "listener" => k.place = "none"
      /\ k.unknown = "none" => k.hangup # "listener" /\ k.place = "none"
  BY DEF Fit, Unmet
<1> HIDE DEF k
<1>2. Stage(c) = CASE k.unknown = "live" -> "greeting"
                   [] k.unknown # "live" /\ k.hangup = "listener" -> "waiting"
                   [] k.place = "served"  -> "served"
                   [] k.place = "closing" -> "leaving"
                   [] k.unknown = "none"  -> "away"
                   [] OTHER -> "gone"
  BY DEF Stage, k
<1>3. Stage(c) = At(k)
  BY <1>1, <1>2 DEF At
<1> QED
  BY <1>3 DEF k

Stages == [c \in Conns |-> Stage(c)]

LEMMA StagesAre == Inv => Stages = [c \in Conns |-> At(conn[c])]
<1> SUFFICES ASSUME Inv PROVE Stages = [c \in Conns |-> At(conn[c])]
  OBVIOUS
<1>1. \A c \in Conns : Stage(c) = At(conn[c])
  BY Objects, StageIsAt
<1> QED
  BY <1>1 DEF Stages

LEMMA StagesBecome == Inv' => Stages' = [c \in Conns |-> At(conn'[c])]
<1>1. (Inv => Stages = [c \in Conns |-> At(conn[c])])'
  BY StagesAre, PTL
<1> QED
  BY <1>1

\* What steps the abstract specification allows.
LEMMA PromisedSteps ==
    /\ Stages' = Stages /\ waiting' = waiting => Promised
    /\ \A c \in Conns : \A from, to :
          /\ Stages[c] = from /\ Stages' = [Stages EXCEPT ![c] = to]
          /\ \/ from = "away" /\ to = "greeting" /\ waiting' = waiting
             \/ from = "greeting" /\ to = "waiting" /\ waiting' = Append(waiting, c)
             \/ from = "served" /\ to = "leaving" /\ waiting' = waiting
             \/ from \in {"greeting", "served", "leaving"} /\ to = "gone" /\ waiting' = waiting
             \/ /\ from = "waiting" /\ to = "gone"
                /\ \E i \in DOMAIN waiting : waiting[i] = c /\ waiting' = RemoveAt(waiting, i)
             \/ /\ from = "waiting" /\ to \in {"served", "leaving"} /\ waiting # <<>>
                /\ c = Head(waiting) /\ waiting' = Tail(waiting)
          => Promised
    /\ Stages' = [c \in Conns |-> IF Stages[c] = "served" THEN "leaving" ELSE Stages[c]]
       /\ waiting' = waiting => Promised
    /\ Stages' = [c \in Conns |-> IF Stages[c] = "away" THEN "away" ELSE "gone"]
       /\ waiting' = <<>> => Promised
<1> DEFINE s == [c \in Conns |-> Stage(c)]
<1>1. Stages = s /\ Stages' = s'
  BY DEF Stages
<1> HIDE DEF s
<1>2. ASSUME s' = s, waiting' = waiting PROVE Promised
  BY <1>2 DEF Promised, Line!vars, s
<1>3. ASSUME NEW c \in Conns, NEW from, NEW to, s[c] = from, s' = [s EXCEPT ![c] = to]
      PROVE  Line!Move(c, from, to)
  BY <1>3 DEF Line!Move, s
<1>4. ASSUME NEW c \in Conns, Line!Move(c, "away", "greeting"), waiting' = waiting PROVE Promised
  BY <1>4 DEF Promised, Line!Next, Line!Greet
<1>5. ASSUME NEW c \in Conns, Line!Move(c, "greeting", "waiting"), waiting' = Append(waiting, c) PROVE Promised
  BY <1>5 DEF Promised, Line!Next, Line!Pass
<1>6. ASSUME NEW c \in Conns, Line!Move(c, "served", "leaving"), waiting' = waiting PROVE Promised
  BY <1>6 DEF Promised, Line!Next, Line!Dismiss
<1>7. ASSUME NEW c \in Conns, waiting' = waiting,
             Line!Move(c, "greeting", "gone") \/ Line!Move(c, "served", "gone") \/ Line!Move(c, "leaving", "gone")
      PROVE  Promised
  BY <1>7 DEF Promised, Line!Next, Line!Quit
<1>8. ASSUME NEW c \in Conns, Line!Move(c, "waiting", "gone"),
             \E i \in DOMAIN waiting : waiting[i] = c /\ waiting' = RemoveAt(waiting, i)
      PROVE  Promised
  BY <1>8 DEF Promised, Line!Next, Line!Renounce, RemoveAt, Line!RemoveAt
<1>9. ASSUME NEW to \in {"served", "leaving"}, waiting # <<>>, waiting' = Tail(waiting),
             Line!Move(Head(waiting), "waiting", to)
      PROVE  Promised
  BY <1>9 DEF Promised, Line!Next, Line!Adopt
<1>10. ASSUME s' = [c \in Conns |-> IF s[c] = "served" THEN "leaving" ELSE s[c]], waiting' = waiting
       PROVE  Promised
  BY <1>10 DEF Promised, Line!Next, Line!DismissAll, s
<1>11. ASSUME s' = [c \in Conns |-> IF s[c] = "away" THEN "away" ELSE "gone"], waiting' = <<>>
       PROVE  Promised
  BY <1>11 DEF Promised, Line!Next, Line!Close, s
<1>12. ASSUME NEW c \in Conns, NEW from, NEW to, s[c] = from, s' = [s EXCEPT ![c] = to],
              \/ from = "away" /\ to = "greeting" /\ waiting' = waiting
              \/ from = "greeting" /\ to = "waiting" /\ waiting' = Append(waiting, c)
              \/ from = "served" /\ to = "leaving" /\ waiting' = waiting
              \/ from \in {"greeting", "served", "leaving"} /\ to = "gone" /\ waiting' = waiting
              \/ /\ from = "waiting" /\ to = "gone"
                 /\ \E i \in DOMAIN waiting : waiting[i] = c /\ waiting' = RemoveAt(waiting, i)
              \/ /\ from = "waiting" /\ to \in {"served", "leaving"} /\ waiting # <<>>
                 /\ c = Head(waiting) /\ waiting' = Tail(waiting)
       PROVE  Promised
  <2>1. Line!Move(c, from, to)
    BY <1>3, <1>12
  <2> QED
    BY <1>4, <1>5, <1>6, <1>7, <1>8, <1>9, <1>12, <2>1
<1> QED
  BY <1>1, <1>2, <1>10, <1>11, <1>12

LEMMA OneMoved ==
    ASSUME Inv, Inv', NEW c \in Conns, NEW k, Becomes(c, k)
    PROVE  Stages[c] = At(conn[c]) /\ Stages' = [Stages EXCEPT ![c] = At(k)]
<1>1. Stages = [d \in Conns |-> At(conn[d])] /\ Stages' = [d \in Conns |-> At(conn'[d])]
  BY StagesAre, StagesBecome
<1>2. conn'[c] = k /\ \A d \in Conns : d # c => conn'[d] = conn[d]
  BY DEF Becomes, Inv, TypeOK
<1> QED
  BY <1>1, <1>2

LEMMA NoneMoves == ASSUME Inv, Inv', conn' = conn, waiting' = waiting PROVE Promised
  BY StagesAre, StagesBecome, PromisedSteps

LEMMA OneStays ==
    ASSUME Inv, Inv', NEW c \in Conns, NEW k, Becomes(c, k), At(k) = At(conn[c]), waiting' = waiting
    PROVE  Promised
<1>1. Stages = [d \in Conns |-> At(conn[d])] /\ Stages[c] = At(conn[c]) /\ Stages' = [Stages EXCEPT ![c] = At(k)]
  BY OneMoved, StagesAre
<1>2. Stages' = Stages
  BY <1>1
<1> QED
  BY <1>2, PromisedSteps

LEMMA OneGoes ==
    ASSUME Inv, Inv', NEW c \in Conns, NEW k, Becomes(c, k), waiting' = waiting,
           At(conn[c]) \in {"greeting", "served", "leaving"}, At(k) = "gone"
    PROVE  Promised
  BY OneMoved, PromisedSteps

LEMMA LikeAt == ASSUME NEW k, NEW n, n.unknown = k.unknown, n.hangup = k.hangup, n.place = k.place PROVE At(n) = At(k)
  BY DEF At

LEMMA FailedAt == ASSUME NEW k \in Connections, Fit(k), k.unknown = "live" PROVE At(Failed(k)) = At(k)
<1>1. \A f : f = Failed(k) => f.unknown = "live"
  BY FailedFits
<1> QED
  BY <1>1 DEF At

LEMMA UnknownDeletedAt ==
    ASSUME NEW k \in Connections, Fit(k), k.unknown = "live"
    PROVE  At(k) = "greeting" /\ At(UnknownDeleted(k)) = "gone"
<1>1. k.hangup \in {"nobody", "unknown"} /\ k.place = "none"
  BY DEF Connections, Fit
<1>2. \A u : u = UnknownDeleted(k) =>
         u.unknown = "deleted" /\ u.hangup \in {"nobody", "unknown"} /\ u.place = "none"
  <2>1. CASE k.owns = "proxy"
    BY <2>1, OwnerDeletedFits
  <2>2. CASE k.owns # "proxy"
    BY <1>1, <2>2, UnknownDeletedFits
  <2> QED
    BY <2>1, <2>2
<1> QED
  BY <1>2 DEF At

LEMMA ServerDeletesAt ==
    ASSUME NEW k \in Connections, Fit(k), k.hangup \in {"listener", "server"}
    PROVE  /\ At(ServerDeletes(k)) = "gone"
           /\ At(k) = IF k.hangup = "listener" THEN "waiting" ELSE IF k.place = "served" THEN "served" ELSE "leaving"
<1>1. /\ k.unknown = "deleted" /\ k.place \in {"none", "served", "closing"}
      /\ k.hangup = "server" => k.place # "none"
  BY DEF Connections, Fit
<1>2. \A d : d = ServerDeletes(k) => d.unknown = "deleted" /\ d.hangup = "nobody" /\ d.place = "none"
  BY ServerDeletesFits
<1> QED
  BY <1>1, <1>2 DEF At

LEMMA AcceptedInTurn == ASSUME Inv, Inv', NEW c \in Conns, HandleAccepted(c) PROVE Promised
<1> DEFINE o == conn[c]
           k == [o EXCEPT !.accepting = FALSE, !.stream = "live", !.unknown = "live",
                          !.timer = TRUE, !.owns = "stream", !.reads = "unknown"]
<1>1. CASE ~o.accepting \/ phase = "stopped"
  <2>1. conn' = conn /\ waiting' = waiting
    BY <1>1 DEF HandleAccepted, Dropped
  <2> QED
    BY <2>1, NoneMoves
<1>2. CASE o.accepting /\ phase # "stopped"
  <2>1. Becomes(c, k) /\ waiting' = waiting
    BY <1>2 DEF HandleAccepted, OthersUnchanged
  <2>2. o \in Connections /\ Unmet(o) /\ o.unknown = "none"
    BY <1>2, Objects DEF Fit
  <2>3. k.unknown = "live"
    BY <2>2 DEF Connections
  <2>4. At(o) = "away" /\ At(k) = "greeting"
    BY <2>2, <2>3 DEF At, Unmet
  <2>5. Stages[c] = "away" /\ Stages' = [Stages EXCEPT ![c] = "greeting"]
    BY <2>1, <2>4, OneMoved
  <2> QED
    BY <2>1, <2>5, PromisedSteps
<1> QED
  BY <1>1, <1>2

LEMMA ConnectingInTurn == ASSUME Inv, Inv', NEW c \in Conns, HandleConnecting(c) PROVE Promised
<1> DEFINE o == conn[c]
           k == [o EXCEPT !.socket = "open", !.listed = TRUE, !.accepting = TRUE]
<1>1. waiting' = waiting /\ (conn' = conn \/ Becomes(c, k))
  BY DEF HandleConnecting, Dropped, OthersUnchanged
<1>2. o \in Connections
  BY Objects
<1>3. k.unknown = o.unknown /\ k.hangup = o.hangup /\ k.place = o.place
  BY <1>2 DEF Connections
<1> HIDE DEF k
<1> QED
  BY <1>1, <1>3, LikeAt, OneStays, NoneMoves

LEMMA InputInTurn == ASSUME Inv, Inv', NEW c \in Conns, HandleInput(c) PROVE Promised
<1> DEFINE o == conn[c]
           k == Taken(o)
<1>1. o \in Connections /\ Fit(o) /\ waiting' = waiting
  BY Objects DEF HandleInput, Dropped, OthersUnchanged
<1>2. CASE o.stream # "live"
  <2>1. conn' = conn
    BY <1>2 DEF HandleInput, Dropped
  <2> QED
    BY <1>1, <2>1, NoneMoves
<1>3. CASE o.stream = "live"
  <2>1. /\ k \in Connections /\ Fit(k) /\ k.unknown = o.unknown /\ k.hangup = o.hangup /\ k.place = o.place
        /\ k.reads = o.reads
    BY <1>1, <1>3, TakenFits
  <2>2. At(k) = At(o)
    BY <2>1, LikeAt
  <2>3. CASE Becomes(c, k)
    BY <1>1, <2>2, <2>3, OneStays
  <2>4. CASE k.buffer # <<>> /\ k.reads = "unknown" /\ Becomes(c, UnknownReads(k))
    <3>1. k.unknown = "live" /\ k.buffer \in Seq(Messages)
      BY <2>1, <2>4 DEF Fit, Connections
    <3>2. \A n : n = UnknownReads(k) => n.unknown = "live"
      <4>1. CASE Head(k.buffer) = "hello"
        <5>1. \A p : p = ProxyMade(k) => p.unknown = "live"
          BY <2>1, <2>4, ProxyMadeFits
        <5> QED
          BY <4>1, <5>1 DEF UnknownReads
      <4>2. CASE Head(k.buffer) # "hello"
        <5>1. UnknownReads(k) = Failed([k EXCEPT !.buffer = Tail(@)])
          BY <4>2 DEF UnknownReads
        <5>2. [k EXCEPT !.buffer = Tail(@)].unknown = "live"
          BY <2>1, <3>1 DEF Connections
        <5> QED
          BY <2>1, <3>1, <5>1, <5>2 DEF Failed, ProxyDeleted, Connections
      <4> QED
        BY <4>1, <4>2
    <3> DEFINE n == UnknownReads(k)
    <3>3. n.unknown = "live"
      BY <3>2
    <3> HIDE DEF n
    <3>4. At(n) = At(o)
      BY <2>1, <3>1, <3>3 DEF At
    <3>5. Becomes(c, n)
      BY <2>4 DEF n
    <3> QED
      BY <1>1, <3>4, <3>5, OneStays
  <2>5. CASE k.reads = "proxy" /\ Becomes(c, ProxyReads(k))
    <3>1. \A r : r = ProxyReads(k) => r.unknown = k.unknown /\ r.hangup = k.hangup /\ r.place = k.place
      BY <2>1, <2>5, ProxyReadsFits
    <3>2. At(ProxyReads(k)) = At(k)
      BY <3>1, LikeAt
    <3> QED
      BY <1>1, <2>2, <2>5, <3>2, OneStays
  <2> QED
    BY <1>3, <2>3, <2>4, <2>5 DEF HandleInput
<1> QED
  BY <1>2, <1>3

LEMMA EndsInTurn ==
    ASSUME Inv, Inv', NEW c \in Conns, NEW k \in Connections, Fit(k), At(k) = At(conn[c]), StreamEnds(c, k)
    PROVE  Promised
<1>1. waiting' = waiting
  BY DEF StreamEnds, OthersUnchanged
<1>2. CASE k.reads = "unknown"
  <2>1. k.unknown = "live" /\ Becomes(c, Failed(k))
    BY <1>2 DEF Fit, StreamEnds
  <2> QED
    BY <1>1, <2>1, FailedAt, OneStays
<1>3. CASE k.reads = "proxy"
  <2>1. Becomes(c, ProxyDisconnected(k))
    BY <1>3 DEF StreamEnds
  <2>2. \A d : d = ProxyDisconnected(k) => d.unknown = k.unknown /\ d.hangup = k.hangup /\ d.place = k.place
    BY <1>3, ProxyDisconnectedFits
  <2>3. At(ProxyDisconnected(k)) = At(k)
    BY <2>2, LikeAt
  <2> QED
    BY <1>1, <2>1, <2>3, OneStays
<1>4. CASE k.reads \notin {"unknown", "proxy"}
  <2>1. Becomes(c, k)
    BY <1>4 DEF StreamEnds
  <2> QED
    BY <1>1, <2>1, OneStays
<1> QED
  BY <1>2, <1>3, <1>4

LEMMA ShutdownInTurn == ASSUME Inv, Inv', NEW c \in Conns, HandleShutdown(c) \/ HandleEnded(c) PROVE Promised
<1> DEFINE o == conn[c]
           k == [o EXCEPT !.ended = TRUE]
<1>1. o \in Connections /\ Fit(o)
  BY Objects
<1>2. k.unknown = o.unknown /\ k.hangup = o.hangup /\ k.place = o.place /\ k.stream = o.stream
  BY <1>1 DEF Connections
<1>3. At(k) = At(o)
  BY <1>2, LikeAt
<1>4. CASE o.stream # "live"
  <2>1. conn' = conn /\ waiting' = waiting
    BY <1>2, <1>4 DEF HandleShutdown, HandleEnded, Dropped
  <2> QED
    BY <2>1, NoneMoves
<1>5. CASE o.stream = "live" /\ HandleShutdown(c)
  <2>1. o.unknown # "none"
    BY <1>1, <1>5 DEF Fit, Unmet
  <2>2. k \in Connections /\ Fit(k)
    BY <1>1, <2>1, EndedFits
  <2>3. (Becomes(c, k) /\ waiting' = waiting) \/ StreamEnds(c, k)
    BY <1>2, <1>5 DEF HandleShutdown, OthersUnchanged
  <2> HIDE DEF k
  <2> QED
    BY <1>3, <2>2, <2>3, OneStays, EndsInTurn
<1>6. CASE o.stream = "live" /\ HandleEnded(c)
  <2>1. StreamEnds(c, o)
    BY <1>6 DEF HandleEnded
  <2> QED
    BY <1>1, <2>1, EndsInTurn
<1> QED
  BY <1>4, <1>5, <1>6

LEMMA ReadyInTurn == ASSUME Inv, Inv', NEW c \in Conns, HandleReady(c) PROVE Promised
<1> DEFINE o == conn[c]
           k == [o EXCEPT !.ready = TRUE, !.timer = FALSE]
<1>1. waiting' = waiting /\ (conn' = conn \/ Becomes(c, k))
  BY DEF HandleReady, Dropped, OthersUnchanged
<1>2. o \in Connections
  BY Objects
<1>3. k.unknown = o.unknown /\ k.hangup = o.hangup /\ k.place = o.place
  BY <1>2 DEF Connections
<1> HIDE DEF k
<1> QED
  BY <1>1, <1>3, LikeAt, OneStays, NoneMoves

LEMMA SuccessInTurn == ASSUME Inv, Inv', NEW c \in Conns, HandleSuccess(c) PROVE Promised
<1> DEFINE o == conn[c]
<1>1. o \in Connections /\ Fit(o)
  BY Objects
<1>2. CASE o.unknown # "live"
  <2>1. conn' = conn /\ waiting' = waiting
    BY <1>2 DEF HandleSuccess, Dropped
  <2> QED
    BY <2>1, NoneMoves
<1>3. CASE o.unknown = "live" /\ ~HasOrphan(o)
  <2>1. Orphaned(o) = o
    BY <1>3 DEF Orphaned
  <2>2. Becomes(c, UnknownDeleted(o)) /\ waiting' = waiting
    BY <1>3, <2>1 DEF HandleSuccess
  <2> QED
    BY <1>1, <1>3, <2>2, UnknownDeletedAt, OneGoes
<1>4. CASE o.unknown = "live" /\ HasOrphan(o)
  <2> DEFINE k == [UnknownDeleted(Orphaned(o)) EXCEPT !.hangup = "listener"]
  <2>1. Becomes(c, k) /\ waiting' = Append(waiting, c)
    BY <1>4 DEF HandleSuccess
  <2>2. k.unknown = "deleted" /\ k.hangup = "listener"
    <3>1. k = [UnknownDeleted(Orphaned(o)) EXCEPT !.hangup = "listener"]
      OBVIOUS
    <3> HIDE DEF k, o
    <3> QED
      BY <1>1, <1>4, <3>1, OrphanFits
  <2> HIDE DEF k
  <2>3. At(o) = "greeting" /\ At(k) = "waiting"
    BY <1>4, <2>2 DEF At
  <2>4. Stages[c] = "greeting" /\ Stages' = [Stages EXCEPT ![c] = "waiting"]
    BY <2>1, <2>3, OneMoved
  <2> QED
    BY <2>1, <2>4, PromisedSteps
<1> QED
  BY <1>2, <1>3, <1>4

LEMMA FailureInTurn == ASSUME Inv, Inv', NEW c \in Conns, HandleFailure(c) PROVE Promised
<1>1. waiting' = waiting /\ (conn' = conn \/ (conn[c].unknown = "live" /\ Becomes(c, UnknownDeleted(conn[c]))))
  BY DEF HandleFailure, Dropped, OthersUnchanged
<1> QED
  BY <1>1, Objects, UnknownDeletedAt, OneGoes, NoneMoves

LEMMA ConnectedInTurn == ASSUME Inv, Inv', HandleConnected PROVE Promised
<1>1. CASE waiting = <<>> \/ phase = "stopped"
  <2>1. conn' = conn /\ waiting' = waiting
    BY <1>1 DEF HandleConnected, Dropped
  <2> QED
    BY <2>1, NoneMoves
<1>2. CASE ~(waiting = <<>> \/ phase = "stopped")
  <2> DEFINE c == Head(waiting)
             o == conn[c]
  <2>1. waiting \in Seq(Conns) /\ waiting # <<>>
    BY <1>2 DEF Inv, TypeOK
  <2>2. c \in Conns /\ 1 \in 1..Len(waiting) /\ c = waiting[1]
    BY <2>1, FirstServed
  <2>3. o.hangup = "listener"
    BY <2>2 DEF Inv, Lined, InLine
  <2>4. \E a : Becomes(c, a) /\ Adopted(o, a)
    BY <1>2 DEF HandleConnected, NextInLine, Adopted
  <2>5. PICK a : Becomes(c, a) /\ Adopted(o, a)
    BY <2>4
  <2>6. waiting' = Tail(waiting)
    BY <1>2 DEF HandleConnected
  <2>7. c = Head(waiting)
    OBVIOUS
  <2> HIDE DEF c
  <2>8. o \in Connections /\ Fit(o)
    BY <2>2, Objects
  <2> HIDE DEF o
  <2>9. a.unknown = "deleted" /\ a.hangup = "server" /\ a.place \in {"served", "closing"}
    BY <2>3, <2>5, <2>8, AdoptedFits
  <2>10. o.unknown = "deleted"
    BY <2>3, <2>8 DEF Fit
  <2>11. At(o) = "waiting" /\ At(a) \in {"served", "leaving"}
    BY <2>3, <2>9, <2>10 DEF At
  <2>12. Stages[c] = "waiting" /\ Stages' = [Stages EXCEPT ![c] = At(a)]
    BY <2>2, <2>5, <2>11, OneMoved DEF o
  <2> QED
    BY <2>1, <2>2, <2>6, <2>7, <2>11, <2>12, PromisedSteps
<1> QED
  BY <1>1, <1>2

LEMMA DisconnectedInTurn == ASSUME Inv, Inv', NEW c \in Conns, HandleDisconnected(c) PROVE Promised
<1> DEFINE o == conn[c]
<1>1. o \in Connections /\ Fit(o)
  BY Objects
<1>2. o.hangup \in {"nobody", "unknown", "listener", "server"}
  BY <1>1 DEF Connections
<1>3. CASE o.hangup = "nobody" \/ (o.hangup = "unknown" /\ o.unknown # "live")
  <2>1. conn' = conn /\ waiting' = waiting
    BY <1>3 DEF HandleDisconnected, Dropped
  <2> QED
    BY <2>1, NoneMoves
<1>4. CASE o.hangup = "unknown" /\ o.unknown = "live"
  <2>1. Becomes(c, Failed(o)) /\ waiting' = waiting
    BY <1>4 DEF HandleDisconnected, OthersUnchanged
  <2> QED
    BY <1>1, <1>4, <2>1, FailedAt, OneStays
<1>5. CASE o.hangup = "server"
  <2>1. Becomes(c, ServerDeletes(o)) /\ waiting' = waiting
    BY <1>5 DEF HandleDisconnected, OthersUnchanged
  <2>2. At(o) \in {"served", "leaving"} /\ At(ServerDeletes(o)) = "gone"
    BY <1>1, <1>5, ServerDeletesAt
  <2> QED
    BY <2>1, <2>2, OneGoes
<1>6. CASE o.hangup = "listener"
  <2>1. Becomes(c, ServerDeletes(o))
    <3>1. Becomes(c, [ProxyDeleted(o) EXCEPT !.hangup = "nobody"])
      BY <1>6 DEF HandleDisconnected
    <3> QED
      BY <1>1, <1>6, <3>1, ListenerDeletes
  <2>2. At(o) = "waiting" /\ At(ServerDeletes(o)) = "gone"
    BY <1>1, <1>6, ServerDeletesAt
  <2>3. waiting \in Seq(Conns) /\ Distinct(waiting) /\ InLine(waiting, c)
    BY <1>6 DEF Inv, TypeOK, Lined
  <2>4. PICK j \in 1..Len(waiting) : waiting[j] = c
    BY <2>3 DEF InLine
  <2>5. waiting' = RemoveFirst(waiting, c)
    BY <1>6 DEF HandleDisconnected
  <2>6. waiting' = RemoveAt(waiting, j) /\ j \in DOMAIN waiting
    BY <2>3, <2>4, <2>5, FirstIsOnly
  <2>7. Stages[c] = "waiting" /\ Stages' = [Stages EXCEPT ![c] = "gone"]
    BY <2>1, <2>2, OneMoved
  <2> QED
    BY <2>4, <2>6, <2>7, PromisedSteps
<1> QED
  BY <1>2, <1>3, <1>4, <1>5, <1>6

LEMMA DismissInTurn == ASSUME Inv, Inv', NEW c \in Conns, Dismiss(c) PROVE Promised
<1> DEFINE o == conn[c]
           k == [o EXCEPT !.place = "closing"]
<1>1. o \in Connections /\ Fit(o) /\ o.place = "served" /\ Becomes(c, k) /\ waiting' = waiting
  BY Objects DEF Dismiss, Served
<1>2. k.unknown = o.unknown /\ k.hangup = o.hangup /\ k.place = "closing"
  BY <1>1 DEF Connections
<1> HIDE DEF k
<1>3. o.unknown = "deleted" /\ o.hangup = "server"
  BY <1>1 DEF Fit
<1>4. At(o) = "served" /\ At(k) = "leaving"
  BY <1>1, <1>2, <1>3 DEF At
<1>5. Stages[c] = "served" /\ Stages' = [Stages EXCEPT ![c] = "leaving"]
  BY <1>1, <1>4, OneMoved
<1> QED
  BY <1>1, <1>5, PromisedSteps

LEMMA StopInTurn == ASSUME Inv, Inv', Stop PROVE Promised
<1>1. waiting' = waiting /\ conn' = [c \in Conns |-> IF c \in Served THEN [conn[c] EXCEPT !.place = "closing"] ELSE conn[c]]
  BY DEF Stop
<1>2. ASSUME NEW c \in Conns
      PROVE  At(conn'[c]) = IF At(conn[c]) = "served" THEN "leaving" ELSE At(conn[c])
  <2> DEFINE o == conn[c]
             k == [o EXCEPT !.place = "closing"]
  <2>1. o \in Connections /\ Fit(o)
    BY Objects
  <2>2. CASE o.place = "served"
    <3>1. conn'[c] = k
      BY <1>1, <2>2 DEF Served
    <3>2. k.unknown = o.unknown /\ k.hangup = o.hangup /\ k.place = "closing"
      BY <2>1 DEF Connections
    <3> HIDE DEF k
    <3>3. o.unknown = "deleted" /\ o.hangup = "server"
      BY <2>1, <2>2 DEF Fit
    <3>4. At(o) = "served" /\ At(k) = "leaving"
      BY <2>2, <3>2, <3>3 DEF At
    <3> QED
      BY <3>1, <3>4
  <2>3. CASE o.place # "served"
    <3>1. conn'[c] = o
      BY <1>1, <2>3 DEF Served
    <3>2. At(o) # "served"
      BY <2>3 DEF At
    <3> QED
      BY <3>1, <3>2
  <2> QED
    BY <2>2, <2>3
<1>3. Stages = [d \in Conns |-> At(conn[d])] /\ Stages' = [d \in Conns |-> At(conn'[d])]
  BY StagesAre, StagesBecome
<1>4. Stages' = [c \in Conns |-> IF Stages[c] = "served" THEN "leaving" ELSE Stages[c]]
  BY <1>2, <1>3
<1> QED
  BY <1>1, <1>4, PromisedSteps

LEMMA QuitInTurn == ASSUME Inv, Inv', HandleQuit PROVE Promised
<1>1. CASE phase # "closing"
  <2>1. conn' = conn /\ waiting' = waiting
    BY <1>1 DEF HandleQuit, Dropped
  <2> QED
    BY <2>1, NoneMoves
<1>2. CASE phase = "closing"
  <2>1. waiting' = <<>> /\ conn' = [c \in Conns |-> Stopped(conn[c])]
    BY <1>2 DEF HandleQuit
  <2>2. ASSUME NEW c \in Conns
        PROVE  At(conn'[c]) = IF At(conn[c]) = "away" THEN "away" ELSE "gone"
    <3> DEFINE o == conn[c]
               k == Stopped(o)
    <3>1. o \in Connections /\ Fit(o) /\ conn'[c] = k
      BY <2>1, Objects
    <3>2. Leftover(o, k)
      BY <3>1, StoppedFits
    <3> HIDE DEF k, o
    <3>3. At(k) = IF o.unknown = "none" THEN "away" ELSE "gone"
      BY <3>2 DEF At, Leftover
    <3>4. o.unknown = "none" => o.hangup = "nobody" /\ o.place = "none"
      BY <3>1 DEF Fit, Unmet
    <3>5. At(o) = "away" <=> o.unknown = "none"
      BY <3>4 DEF At
    <3> QED
      BY <3>1, <3>3, <3>5 DEF o
  <2>3. Stages = [d \in Conns |-> At(conn[d])] /\ Stages' = [d \in Conns |-> At(conn'[d])]
    BY StagesAre, StagesBecome
  <2>4. Stages' = [c \in Conns |-> IF Stages[c] = "away" THEN "away" ELSE "gone"]
    BY <2>2, <2>3
  <2> QED
    BY <2>1, <2>4, PromisedSteps
<1> QED
  BY <1>1, <1>2

LEMMA TimersInTurn == ASSUME Inv, Inv', NEW c \in Conns, Timers(c) PROVE Promised
<1> DEFINE o == conn[c]
<1>1. o \in Connections /\ Fit(o) /\ waiting' = waiting
  BY Objects DEF Timers, UnknownTimesOut, Flatline, CloseTimesOut, OthersUnchanged
<1>2. CASE UnknownTimesOut(c)
  <2>1. o.unknown = "live" /\ Becomes(c, Failed(o))
    BY <1>1, <1>2 DEF UnknownTimesOut, Fit
  <2> QED
    BY <1>1, <2>1, FailedAt, OneStays
<1>3. CASE Flatline(c)
  <2>1. o.reads = "proxy" /\ Becomes(c, ProxyDisconnected(o))
    BY <1>3 DEF Flatline
  <2>2. \A d : d = ProxyDisconnected(o) => d.unknown = o.unknown /\ d.hangup = o.hangup /\ d.place = o.place
    BY <1>1, <2>1, ProxyDisconnectedFits
  <2>3. At(ProxyDisconnected(o)) = At(o)
    BY <2>2, LikeAt
  <2> QED
    BY <1>1, <2>1, <2>3, OneStays
<1>4. CASE CloseTimesOut(c)
  <2>1. o.hangup = "server" /\ Becomes(c, ServerDeletes(o))
    BY <1>1, <1>4 DEF CloseTimesOut, Fit
  <2>2. At(o) \in {"served", "leaving"} /\ At(ServerDeletes(o)) = "gone"
    BY <1>1, <2>1, ServerDeletesAt
  <2> QED
    BY <1>1, <2>1, <2>2, OneGoes
<1> QED
  BY <1>2, <1>3, <1>4 DEF Timers

LEMMA SayInTurn == ASSUME Inv, Inv', NEW c \in Conns, NEW m \in Messages, Say(c, m) PROVE Promised
<1> DEFINE o == conn[c]
           k == [o EXCEPT !.wire = Append(@, m)]
<1>1. o \in Connections /\ waiting' = waiting /\ (conn' = conn \/ Becomes(c, k))
  BY Objects DEF Say
<1>2. k.unknown = o.unknown /\ k.hangup = o.hangup /\ k.place = o.place
  BY <1>1 DEF Connections
<1> HIDE DEF k
<1> QED
  BY <1>1, <1>2, LikeAt, OneStays, NoneMoves

LEMMA EveryStepInTurn == Inv /\ Inv' /\ [Next]_vars => Promised
<1> SUFFICES ASSUME Inv, Inv', [Next]_vars PROVE Promised
  OBVIOUS
<1>1. CASE HandleEvent
  <2>1. CASE HandleConnected \/ HandleQuit
    BY <2>1, ConnectedInTurn, QuitInTurn
  <2>2. CASE HandleAllGone
    BY <2>2, NoneMoves DEF HandleAllGone
  <2>3. ASSUME NEW c \in Conns,
               \/ HandleConnecting(c) \/ HandleAccepted(c) \/ HandleInput(c) \/ HandleShutdown(c)
               \/ HandleEnded(c) \/ HandleReady(c) \/ HandleSuccess(c) \/ HandleFailure(c)
               \/ HandleDisconnected(c)
        PROVE  Promised
    BY <2>3, ConnectingInTurn, AcceptedInTurn, InputInTurn, ShutdownInTurn, ReadyInTurn,
       SuccessInTurn, FailureInTurn, DisconnectedInTurn
  <2> QED
    BY <1>1, <2>1, <2>2, <2>3 DEF HandleEvent
<1>2. CASE Stop \/ StopTimesOut
  <2>1. CASE Stop
    BY <2>1, StopInTurn
  <2>2. CASE StopTimesOut
    BY <2>2, NoneMoves DEF StopTimesOut
  <2> QED
    BY <1>2, <2>1, <2>2
<1>3. ASSUME NEW c \in Conns, Arrive(c) \/ Leave(c) PROVE Promised
  <2>1. conn' = conn /\ waiting' = waiting
    BY <1>3 DEF Arrive, Leave
  <2> QED
    BY <2>1, NoneMoves
<1>4. ASSUME NEW c \in Conns, Timers(c) \/ Dismiss(c) \/ \E m \in Messages : Say(c, m) PROVE Promised
  BY <1>4, TimersInTurn, DismissInTurn, SayInTurn
<1>5. CASE UNCHANGED vars
  BY <1>5, NoneMoves DEF vars
<1> QED
  BY <1>1, <1>2, <1>3, <1>4, <1>5 DEF Next

\* The unknown clients, the listener and the server implement Admission: connections are
\* passed on in the order in which they have shaken hands, each once, and never after they
\* were given up (handleUnknownClient, getNextClient, adoptClient).
THEOREM AdmittedInTurn == Spec => AdmitsInTurn
<1>1. Init => Line!Init
  <2> SUFFICES ASSUME Init PROVE Line!Init
    OBVIOUS
  <2>1. \A c \in Conns : Fit(conn[c]) /\ conn[c] = Fresh
    BY InvInit DEF Inv, Good, Init
  <2>2. At(Fresh) = "away"
    BY DEF At, Fresh
  <2>3. \A c \in Conns : Stage(c) = "away"
    BY <2>1, <2>2, StageIsAt
  <2> QED
    BY <2>3 DEF Init, Line!Init
<1>2. Inv /\ Inv' /\ [Next]_vars => [Line!Next]_(Line!vars)
  BY EveryStepInTurn DEF Promised
<1> QED
  BY <1>1, <1>2, InvInit, InvNext, PTL DEF Spec, AdmitsInTurn, Line!Spec

=============================================================================
