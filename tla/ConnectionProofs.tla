-------------------------- MODULE ConnectionProofs --------------------------
(***************************************************************************)
(* Theorems about Connection, for any number of addresses, places for      *)
(* streams, failures and requests.                                         *)
(*                                                                         *)
(* Fit says how the fields of a client belong together: what listens, what *)
(* runs and what is enabled depends on how far the connection has come.    *)
(* Every helper of the client keeps a client fit or makes it so.  Pursued  *)
(* says that a connection that is gone leaves something behind that makes  *)
(* a new one: a timer, a note, or an event that will set a timer.          *)
(***************************************************************************)
EXTENDS Connection, SequenceTheorems, TLAPS

QueuedEvents == [kind : OwnEvents \cup StreamEvents, stream : Streams \cup {NoStream}]

\* How the fields of a client belong together.
Sound(k) ==
    /\ k.timer <=> k.stream # NoStream /\ ~k.proxy
    /\ k.proxy => k.stream # NoStream
    /\ k.starting => k.stream # NoStream /\ ~k.proxy /\ k.reads = "nobody"
    /\ k.heard => k.stream # NoStream /\ ~k.starting
    /\ k.reads = "client" => k.stream # NoStream /\ ~k.proxy
    /\ k.reads = "proxy" => k.proxy
    /\ k.proxy => ~k.starting
    /\ k.enabled <=> k.ready
    /\ k.ready => k.proxy

\* No connection while the system sleeps, either.
Fit(k) == Sound(k) /\ (k.suspended => k.stream = NoStream)

Retried == {"failed", "refused", "disconnected", "quit"}

\* An event that ends in a new attempt, or in the end of the program, waits in q.
Owed(q) == \E i \in 1..Len(q) : q[i].kind \in Retried

\* A client like k is connected or connecting, or will be.
Tried(k, q) == k.stream # NoStream \/ (k.suspended /\ k.onResume) \/ Owed(q)

Pursued == screen /\ program = "running" => restarts > 0 \/ Tried(client, queue)

Inv == TypeOK /\ Fit(client) /\ Pursued

-----------------------------------------------------------------------------
(* Queues *)

\* An event that is owed stays so when something is posted.
LEMMA OwedAppend ==
    ASSUME NEW q \in Seq(QueuedEvents), NEW e \in QueuedEvents
    PROVE  /\ Append(q, e) \in Seq(QueuedEvents)
           /\ Owed(q) \/ e.kind \in Retried => Owed(Append(q, e))
<1> DEFINE r == Append(q, e)
<1>1. r \in Seq(QueuedEvents) /\ Len(r) = Len(q) + 1 /\ r[Len(q) + 1] = e
      /\ \A i \in 1..Len(q) : r[i] = q[i]
  OBVIOUS
<1>2. Len(q) \in Nat
  OBVIOUS
<1> QED
  BY <1>1, <1>2 DEF Owed

\* An event that is owed stays so when another one is taken.
LEMMA OwedTail ==
    ASSUME NEW q \in Seq(QueuedEvents), q # <<>>
    PROVE  /\ Head(q) \in QueuedEvents /\ Tail(q) \in Seq(QueuedEvents)
           /\ Owed(q) /\ Head(q).kind \notin Retried => Owed(Tail(q))
<1> DEFINE r == Tail(q)
<1>1. r \in Seq(QueuedEvents) /\ Len(r) = Len(q) - 1 /\ \A i \in 1..Len(r) : r[i] = q[i + 1]
  OBVIOUS
<1>2. Len(q) \in Nat /\ Head(q) = q[1] /\ Head(q) \in QueuedEvents
  OBVIOUS
<1>3. ASSUME Owed(q), Head(q).kind \notin Retried PROVE Owed(r)
  <2>1. PICK i \in 1..Len(q) : q[i].kind \in Retried
    BY <1>3 DEF Owed
  <2>2. i # 1 /\ i - 1 \in 1..Len(r) /\ r[i - 1] = q[i]
    BY <2>1, <1>1, <1>2, <1>3
  <2> QED
    BY <2>1, <2>2 DEF Owed
<1> QED
  BY <1>1, <1>2, <1>3

\* Events stay owed when queues are joined.
LEMMA OwedJoin ==
    ASSUME NEW q \in Seq(QueuedEvents), NEW r \in Seq(QueuedEvents)
    PROVE  /\ q \o r \in Seq(QueuedEvents)
           /\ Owed(q) \/ Owed(r) => Owed(q \o r)
<1> DEFINE j == q \o r
<1>1. j \in Seq(QueuedEvents) /\ Len(j) = Len(q) + Len(r)
      /\ \A i \in 1..Len(j) : j[i] = IF i <= Len(q) THEN q[i] ELSE r[i - Len(q)]
  BY ConcatProperties
<1>2. Len(q) \in Nat /\ Len(r) \in Nat
  OBVIOUS
<1>3. ASSUME Owed(q) PROVE Owed(j)
  BY <1>1, <1>2, <1>3 DEF Owed
<1>4. ASSUME Owed(r) PROVE Owed(j)
  <2>1. PICK i \in 1..Len(r) : r[i].kind \in Retried
    BY <1>4 DEF Owed
  <2>2. Len(q) + i \in 1..Len(j) /\ ~(Len(q) + i <= Len(q)) /\ (Len(q) + i) - Len(q) = i
    BY <2>1, <1>1, <1>2
  <2>3. j[Len(q) + i] = r[i]
    BY <2>2, <1>1
  <2> QED
    BY <2>1, <2>2, <2>3 DEF Owed
<1> QED
  BY <1>1, <1>3, <1>4

\* Own makes events, and those that are owed are.
LEMMA OwnEvent ==
    ASSUME NEW kind \in OwnEvents
    PROVE  Own(kind) \in QueuedEvents /\ Own(kind).kind = kind
BY DEF Own, Event, QueuedEvents

-----------------------------------------------------------------------------
(* The client's helpers *)

\* What is cleaned up stays a client; only the field that is cleaned up changes.
LEMMA CleanupTypes ==
    ASSUME NEW k \in Clients
    PROVE  /\ CleanupTimer(k) \in Clients /\ CleanupConnecting(k) \in Clients
           /\ CleanupScreen(k) \in Clients /\ CleanupStream(k) \in Clients
           /\ CleanupConnection(k) \in Clients
<1>1. CleanupTimer(k) \in Clients
  BY DEF Clients, CleanupTimer
<1>2. CleanupConnecting(k) \in Clients
  BY DEF Clients, CleanupConnecting
<1>3. CleanupScreen(k) \in Clients
  BY DEF Clients, CleanupScreen
<1>4. ASSUME NEW h \in Clients PROVE CleanupStream(h) \in Clients
  <2>1. <<>> \in Seq(Messages)
    OBVIOUS
  <2> QED
    BY <2>1 DEF Clients, CleanupStream
<1>5. CleanupConnection(k) \in Clients
  <2>1. [k EXCEPT !.heard = FALSE, !.reads = "nobody"] \in Clients
    BY DEF Clients
  <2> QED
    BY <1>4, <2>1 DEF CleanupConnection
<1> QED
  BY <1>1, <1>2, <1>3, <1>4, <1>5

\* What there is before the screen is set up, or when it has been cleaned up: at most a
\* stream with its handlers.
Bare(k) ==
    /\ ~k.timer /\ ~k.proxy /\ ~k.enabled /\ ~k.ready
    /\ k.starting => k.stream # NoStream /\ k.reads = "nobody"
    /\ k.heard => k.stream # NoStream /\ ~k.starting
    /\ k.reads = "client" => k.stream # NoStream
    /\ k.reads # "proxy"

\* Without the stream nothing of it is left.
LEMMA BareCleanup ==
    ASSUME NEW k \in Clients, Bare(k)
    PROVE  /\ CleanupConnecting(k) \in Clients /\ Bare(CleanupConnecting(k))
           /\ ~CleanupConnecting(k).starting
           /\ CleanupConnecting(k).stream = k.stream
           /\ CleanupConnecting(k).suspended = k.suspended
           /\ ~k.starting => LET g == CleanupConnection(k)
                             IN  g \in Clients /\ Fit(g) /\ g.stream = NoStream
                                 /\ g.suspended = k.suspended
           /\ ~k.starting /\ k.reads = "nobody" /\ ~k.heard =>
                LET g == CleanupStream(k) IN g \in Clients /\ Fit(g) /\ g.stream = NoStream
<1>1. CleanupConnecting(k) \in Clients /\ Bare(CleanupConnecting(k)) /\ ~CleanupConnecting(k).starting
      /\ CleanupConnecting(k).stream = k.stream /\ CleanupConnecting(k).suspended = k.suspended
  BY DEF Clients, Bare, CleanupConnecting
<1>2. CleanupConnection(k) \in Clients /\ CleanupStream(k) \in Clients
  BY CleanupTypes
<1>3. ASSUME ~k.starting
      PROVE  LET g == CleanupConnection(k)
             IN  Fit(g) /\ g.stream = NoStream /\ g.suspended = k.suspended
  BY <1>3 DEF Clients, Bare, Fit, Sound, CleanupConnection, CleanupStream
<1>4. ASSUME ~k.starting, k.reads = "nobody", ~k.heard
      PROVE  Fit(CleanupStream(k)) /\ CleanupStream(k).stream = NoStream
  BY <1>4 DEF Clients, Bare, Fit, Sound, CleanupStream
<1> QED
  BY <1>1, <1>2, <1>3, <1>4

\* Stopping the timer and cleaning up the screen lays a client bare.
LEMMA LaidBare ==
    ASSUME NEW k \in Clients, Sound(k)
    PROVE  /\ LET g == CleanupScreen(CleanupTimer(k))
              IN  g \in Clients /\ Bare(g) /\ g.stream = k.stream /\ g.suspended = k.suspended
                  /\ g.starting = k.starting
           /\ ~k.proxy => LET g == CleanupTimer(k)
                          IN  g \in Clients /\ Bare(g) /\ g.stream = k.stream
                              /\ g.starting = k.starting /\ g.reads = k.reads /\ g.heard = k.heard
<1> DEFINE t == CleanupTimer(k)
<1>1. t \in Clients /\ CleanupScreen(t) \in Clients
  BY CleanupTypes
<1>2. /\ ~t.timer /\ t.stream = k.stream /\ t.proxy = k.proxy /\ t.starting = k.starting
      /\ t.heard = k.heard /\ t.reads = k.reads /\ t.enabled = k.enabled /\ t.ready = k.ready
      /\ t.suspended = k.suspended
  BY DEF Clients, CleanupTimer
<1>3. CASE ~k.proxy
  BY <1>1, <1>2, <1>3 DEF Clients, Sound, Bare, CleanupScreen
<1>4. CASE k.proxy
  <2> HIDE DEF t
  <2> DEFINE c == CleanupScreen(t)
  <2>1. /\ c.stream = t.stream /\ c.timer = t.timer /\ c.starting = t.starting /\ c.heard = t.heard
        /\ c.suspended = t.suspended /\ ~c.proxy /\ ~c.ready /\ c.reads = "nobody"
        /\ c.enabled = IF t.ready THEN FALSE ELSE t.enabled
    BY <1>1, <1>2, <1>4 DEF Clients, CleanupScreen
  <2>2. ~c.enabled
    BY <2>1, <1>2 DEF Sound, Clients
  <2> HIDE DEF c
  <2>3. Bare(c) /\ c.stream = k.stream /\ c.suspended = k.suspended /\ c.starting = k.starting
    BY <2>1, <2>2, <1>2, <1>4 DEF Sound, Bare
  <2> QED
    BY <1>1, <1>4, <2>3 DEF c, t
<1> QED
  BY <1>3, <1>4

\* handleOutputError and handleDisconnected leave a client without a stream.
LEMMA LostFit ==
    ASSUME NEW k \in Clients, Fit(k), k.heard
    PROVE  Lost(k) \in Clients /\ Fit(Lost(k)) /\ Lost(k).stream = NoStream
<1> DEFINE b == CleanupScreen(CleanupTimer(k))
<1>1. b \in Clients /\ Bare(b) /\ ~b.starting
  BY LaidBare DEF Fit, Sound
<1> HIDE DEF b
<1>2. LET g == CleanupConnection(b) IN g \in Clients /\ Fit(g) /\ g.stream = NoStream
  BY <1>1, BareCleanup
<1> QED
  BY <1>2 DEF Lost, b

\* So does cleanup.
LEMMA CleanupFit ==
    ASSUME NEW k \in Clients, Sound(k)
    PROVE  Cleanup(k) \in Clients /\ Fit(Cleanup(k)) /\ Cleanup(k).stream = NoStream
           /\ Cleanup(k).suspended = k.suspended
<1> DEFINE f == [k EXCEPT !.onResume = FALSE]
           b == CleanupScreen(CleanupTimer(f))
<1>1. f \in Clients /\ Sound(f) /\ f.suspended = k.suspended
  BY DEF Clients, Sound
<1>2. b \in Clients /\ Bare(b) /\ b.suspended = k.suspended
  BY <1>1, LaidBare
<1> HIDE DEF b
<1>3. LET g == CleanupConnection(CleanupConnecting(b))
      IN  g \in Clients /\ Fit(g) /\ g.stream = NoStream /\ g.suspended = k.suspended
  BY <1>2, BareCleanup
<1> QED
  BY <1>3 DEF Cleanup, b, CleanupTimer, CleanupScreen

\* A connection that is given up while the client connects or waits for hello.
LEMMA GivenUpFit ==
    ASSUME NEW k \in Clients, Fit(k), k.stream # NoStream, ~k.proxy
    PROVE  /\ LET g == CleanupConnection(CleanupConnecting(CleanupTimer(k)))
              IN  g \in Clients /\ Fit(g) /\ g.stream = NoStream
           /\ ~k.starting =>
                LET g == CleanupConnection(CleanupTimer(k))
                IN  g \in Clients /\ Fit(g) /\ g.stream = NoStream
           /\ k.starting =>
                LET g == CleanupStream(CleanupConnecting(CleanupTimer(k)))
                IN  g \in Clients /\ Fit(g) /\ g.stream = NoStream
<1> DEFINE t == CleanupTimer(k)
           c == CleanupConnecting(t)
<1>1. t \in Clients /\ Bare(t) /\ t.stream = k.stream /\ t.starting = k.starting
      /\ t.reads = k.reads /\ t.heard = k.heard
  BY LaidBare DEF Fit
<1>2. c \in Clients /\ Bare(c) /\ ~c.starting
  BY <1>1, BareCleanup
<1>3. ASSUME k.starting PROVE c.reads = "nobody" /\ ~c.heard
  BY <1>1, <1>3 DEF CleanupConnecting, Clients, Fit, Sound
<1> HIDE DEF t, c
<1>4. LET g == CleanupConnection(c) IN g \in Clients /\ Fit(g) /\ g.stream = NoStream
  BY <1>2, BareCleanup
<1>5. ASSUME ~k.starting
      PROVE  LET g == CleanupConnection(t) IN g \in Clients /\ Fit(g) /\ g.stream = NoStream
  BY <1>1, <1>5, BareCleanup
<1>6. ASSUME k.starting
      PROVE  LET g == CleanupStream(c) IN g \in Clients /\ Fit(g) /\ g.stream = NoStream
  BY <1>2, <1>3, <1>6, BareCleanup
<1> QED
  BY <1>4, <1>5, <1>6 DEF t, c

\* A client that goes to sleep has no stream.
LEMMA SuspendedFit ==
    ASSUME NEW k \in Clients, Fit(k)
    PROVE  Suspended(k) \in Clients /\ Fit(Suspended(k)) /\ Suspended(k).stream = NoStream
<1> DEFINE f == [k EXCEPT !.suspended = TRUE]
           c == Cleanup(f)
<1>1. f \in Clients /\ Sound(f)
  BY DEF Clients, Fit, Sound
<1>2. c \in Clients /\ Fit(c) /\ c.stream = NoStream
  BY <1>1, CleanupFit
<1> HIDE DEF c
<1>3. LET g == [c EXCEPT !.onResume = k.proxy]
      IN  g \in Clients /\ Fit(g) /\ g.stream = NoStream
  BY <1>2 DEF Clients, Fit, Sound
<1> QED
  BY <1>3 DEF Suspended, c

\* A new attempt, on a stream of its own.
LEMMA StartedFit ==
    ASSUME NEW k \in Clients, Fit(k), k.stream = NoStream, ~k.suspended, NEW s \in Streams
    PROVE  Started(k, s) \in Clients /\ Fit(Started(k, s)) /\ Started(k, s).stream = s
           /\ s # NoStream
BY ConnectionAssumption DEF Clients, Fit, Sound, Started, ConnectionAssumption

\* The steps of a connection: it is established, it has greeted, it is served.
LEMMA EstablishedFit ==
    ASSUME NEW k \in Clients, Fit(k), k.starting
    PROVE  Established(k) \in Clients /\ Fit(Established(k)) /\ Established(k).stream = k.stream
BY DEF Clients, Fit, Sound, Established

LEMMA GreetedFit ==
    ASSUME NEW k \in Clients, Fit(k), k.reads = "client"
    PROVE  Greeted(k) \in Clients /\ Fit(Greeted(k)) /\ Greeted(k).stream = k.stream
BY DEF Clients, Fit, Sound, Greeted, CleanupTimer

LEMMA CompleteFit ==
    ASSUME NEW k \in Clients, Fit(k), k.reads = "proxy"
    PROVE  /\ HandshakeComplete(k) \in Clients /\ Fit(HandshakeComplete(k))
           /\ HandshakeComplete(k).stream = k.stream
BY DEF Clients, Fit, Sound, HandshakeComplete

-----------------------------------------------------------------------------
(* Steps of the client *)

\* One of the events in kinds, which are about to be posted, is owed.
Posts(kinds) == \E i \in 1..Len(kinds) : kinds[i] \in Retried

LEMMA PostsEach ==
    /\ <<>> \in Seq(OwnEvents)
    /\ \A kind \in OwnEvents : <<kind>> \in Seq(OwnEvents) /\ (kind \in Retried => Posts(<<kind>>))
<1>1. <<>> \in Seq(OwnEvents)
  OBVIOUS
<1>2. ASSUME NEW kind \in OwnEvents
      PROVE  <<kind>> \in Seq(OwnEvents) /\ (kind \in Retried => Posts(<<kind>>))
  <2>1. <<kind>> \in Seq(OwnEvents) /\ Len(<<kind>>) = 1 /\ <<kind>>[1] = kind
    OBVIOUS
  <2> QED
    BY <2>1 DEF Posts
<1> QED
  BY <1>1, <1>2

\* What Becomes does to the types, and to the events that are owed.
LEMMA BecomesKeeps ==
    ASSUME TypeOK, NEW k \in Clients, NEW rest \in Seq(QueuedEvents), NEW kinds \in Seq(OwnEvents),
           Becomes(k, rest, kinds)
    PROVE  /\ client' = k /\ queue' \in Seq(QueuedEvents)
           /\ net' \in {"none", "connecting", "open", "lost"} /\ told' \in Seq(Messages)
           /\ Owed(rest) \/ Posts(kinds) => Owed(queue')
<1> DEFINE changed == k.stream # client.stream
           stale   == IF changed /\ net = "open" THEN <<Event("shutdown", client.stream)>> ELSE <<>>
           own     == [i \in DOMAIN kinds |-> Own(kinds[i])]
<1>1. client' = k /\ queue' = rest \o stale \o own
  BY DEF Becomes
<1>2. stale \in Seq(QueuedEvents)
  <2>1. Event("shutdown", client.stream) \in QueuedEvents
    BY DEF TypeOK, Clients, Event, QueuedEvents, StreamEvents
  <2> QED
    BY <2>1
<1>3. own \in Seq(QueuedEvents) /\ (Posts(kinds) => Owed(own))
  <2>1. Len(kinds) \in Nat /\ DOMAIN kinds = 1..Len(kinds)
    OBVIOUS
  <2>2. \A i \in 1..Len(kinds) : Own(kinds[i]) \in QueuedEvents /\ Own(kinds[i]).kind = kinds[i]
    <3> TAKE i \in 1..Len(kinds)
    <3>1. kinds[i] \in OwnEvents
      OBVIOUS
    <3> QED
      BY <3>1, OwnEvent
  <2>3. own \in [1..Len(kinds) -> QueuedEvents]
    BY <2>1, <2>2
  <2>4. own \in Seq(QueuedEvents) /\ Len(own) = Len(kinds)
    BY <2>1, <2>3, SeqDef, LenProperties
  <2>5. ASSUME Posts(kinds) PROVE Owed(own)
    <3>1. PICK i \in 1..Len(kinds) : kinds[i] \in Retried
      BY <2>5 DEF Posts
    <3>2. own[i].kind = kinds[i]
      BY <2>1, <2>2
    <3> QED
      BY <2>4, <3>1, <3>2 DEF Owed
  <2> QED
    BY <2>4, <2>5
<1> HIDE DEF stale, own
<1>4. rest \o stale \in Seq(QueuedEvents) /\ (Owed(rest) => Owed(rest \o stale))
  BY <1>2, OwedJoin
<1>5. queue' \in Seq(QueuedEvents) /\ (Owed(rest) \/ Posts(kinds) => Owed(queue'))
  BY <1>1, <1>3, <1>4, OwedJoin
<1>6. net' \in {"none", "connecting", "open", "lost"} /\ told' \in Seq(Messages)
  BY DEF Becomes, TypeOK
<1> QED
  BY <1>1, <1>5, <1>6

\* A step of the client that leaves the application alone keeps the invariant, if the new
\* client is fit and tries as the old one did.
LEMMA ClientStep ==
    ASSUME Inv, NEW k \in Clients, Fit(k), NEW rest \in Seq(QueuedEvents),
           NEW kinds \in Seq(OwnEvents), Becomes(k, rest, kinds), UNCHANGED <<appVars, countVars>>,
           Tried(client, queue) => Tried(k, rest) \/ Posts(kinds)
    PROVE  Inv'
<1>1. /\ client' = k /\ queue' \in Seq(QueuedEvents)
      /\ net' \in {"none", "connecting", "open", "lost"} /\ told' \in Seq(Messages)
      /\ Owed(rest) \/ Posts(kinds) => Owed(queue')
  BY BecomesKeeps DEF Inv
<1>2. TypeOK'
  BY <1>1 DEF Inv, TypeOK, QueuedEvents, appVars, countVars
<1>3. Tried(client, queue) => Tried(client, queue)'
  BY <1>1 DEF Tried
<1>4. Pursued'
  BY <1>3 DEF Inv, Pursued, appVars, Tried
<1> QED
  BY <1>1, <1>2, <1>4 DEF Inv

\* An event that is not owed is taken.
LEMMA Taken ==
    ASSUME Inv, queue # <<>>, Head(queue).kind \notin Retried
    PROVE  Rest \in Seq(QueuedEvents) /\ (Owed(queue) => Owed(Rest))
BY OwedTail DEF Inv, TypeOK, QueuedEvents, Rest

\* ...and dropped.
LEMMA DroppedKeeps ==
    ASSUME Inv, queue # <<>>, Head(queue).kind \notin Retried, Dropped, UNCHANGED <<appVars, countVars>>
    PROVE  Inv'
<1>1. client \in Clients /\ Fit(client) /\ <<>> \in Seq(OwnEvents)
  BY PostsEach DEF Inv, TypeOK
<1>2. Tried(client, queue) => Tried(client, Rest)
  BY Taken DEF Tried
<1> QED
  BY <1>1, <1>2, Taken, ClientStep DEF Dropped

\* A client that has lost its stream and posts what is owed keeps the invariant.
LEMMA LosingKeeps ==
    ASSUME Inv, queue # <<>>, Head(queue).kind \notin Retried, NEW k \in Clients, Fit(k),
           NEW kind \in OwnEvents \cap Retried, Becomes(k, Rest, <<kind>>),
           UNCHANGED <<appVars, countVars>>
    PROVE  Inv'
<1>1. Rest \in Seq(QueuedEvents) /\ <<kind>> \in Seq(OwnEvents) /\ Posts(<<kind>>)
  BY Taken, PostsEach
<1> QED
  BY <1>1, ClientStep

\* A client that keeps its stream and posts nothing does.
LEMMA GoingOnKeeps ==
    ASSUME Inv, NEW k \in Clients, Fit(k), k.stream # NoStream,
           NEW rest \in Seq(QueuedEvents), Becomes(k, rest, <<>>), UNCHANGED <<appVars, countVars>>
    PROVE  Inv'
<1>1. <<>> \in Seq(OwnEvents) /\ Tried(k, rest)
  BY PostsEach DEF Tried
<1> QED
  BY <1>1, ClientStep

\* handleHello: the message is no hello that fits, or the server is greeted.
LEMMA ReadHelloKeeps ==
    ASSUME Inv, queue # <<>>, Head(queue).kind \notin Retried, NEW k \in Clients, Fit(k),
           k.reads = "client", ReadHello(k), UNCHANGED <<appVars, countVars>>
    PROVE  Inv'
<1>0. k.stream # NoStream /\ ~k.proxy /\ ~k.starting
  BY DEF Fit, Sound, Clients
<1>1. CASE k.buffer = <<>> \/ Head(k.buffer) # "hello"
  <2> DEFINE g == CleanupConnection(CleanupTimer(k))
             rest == Append(Rest, Own("failed"))
  <2>1. g \in Clients /\ Fit(g)
    BY <1>0, GivenUpFit
  <2>2. rest \in Seq(QueuedEvents) /\ Owed(rest)
    BY Taken, OwnEvent, OwedAppend DEF OwnEvents, Retried
  <2>3. Becomes(g, rest, <<>>)
    BY <1>1 DEF ReadHello
  <2> HIDE DEF g, rest
  <2> QED
    BY <2>1, <2>2, <2>3, PostsEach, ClientStep DEF Tried
<1>2. CASE ~(k.buffer = <<>> \/ Head(k.buffer) # "hello")
  <2> DEFINE h == [k EXCEPT !.buffer = Tail(@)]
             g == Greeted(h)
  <2>1. h \in Clients /\ Fit(h) /\ h.reads = "client" /\ h.stream = k.stream
    <3>1. Tail(k.buffer) \in Seq(Messages)
      BY <1>2 DEF Clients
    <3> QED
      BY <3>1 DEF Clients, Fit, Sound
  <2>2. g \in Clients /\ Fit(g) /\ g.stream = k.stream
    BY <2>1, GreetedFit
  <2>3. Becomes(g, Rest \o Faked(g), <<>>)
    BY <1>2 DEF ReadHello
  <2> HIDE DEF g
  <2>4. Faked(g) \in Seq(QueuedEvents)
    <3>1. Event("faked", g.stream) \in QueuedEvents
      BY <2>2 DEF Event, QueuedEvents, StreamEvents, Clients
    <3> QED
      BY <3>1 DEF Faked
  <2>5. Rest \o Faked(g) \in Seq(QueuedEvents)
    BY <2>4, Taken, OwedJoin
  <2> QED
    BY <1>0, <2>2, <2>3, <2>5, GoingOnKeeps
<1> QED
  BY <1>1, <1>2

\* handleData of the ServerProxy: the messages end the connection, or go on with it.
LEMMA ReadMessagesKeeps ==
    ASSUME Inv, queue # <<>>, Head(queue).kind \notin Retried, NEW k \in Clients, Fit(k),
           k.reads = "proxy", ReadMessages(k), UNCHANGED <<appVars, countVars>>
    PROVE  Inv'
<1> DEFINE read == [k EXCEPT !.buffer = <<>>]
<1>1. read \in Clients /\ Fit(read) /\ read.reads = "proxy" /\ read.stream = k.stream
      /\ k.stream # NoStream
  <2>1. <<>> \in Seq(Messages)
    OBVIOUS
  <2> QED
    BY <2>1 DEF Clients, Fit, Sound
<1>2. \/ Becomes(HandshakeComplete(read), Rest, <<>>)
      \/ Becomes(read, Rest, <<>>)
      \/ Becomes(Cleanup(read), Rest, <<"disconnected">>)
      \/ Becomes(Cleanup(read), Rest, <<"refused">>)
  BY DEF ReadMessages
<1> HIDE DEF read
<1>3. HandshakeComplete(read) \in Clients /\ Fit(HandshakeComplete(read))
      /\ HandshakeComplete(read).stream = k.stream
  BY <1>1, CompleteFit
<1>4. Cleanup(read) \in Clients /\ Fit(Cleanup(read))
  BY <1>1, CleanupFit DEF Fit
<1>5. {"disconnected", "refused"} \subseteq OwnEvents \cap Retried
  BY DEF OwnEvents, Retried
<1> QED
  BY <1>1, <1>2, <1>3, <1>4, <1>5, Taken, GoingOnKeeps, LosingKeeps

LEMMA ReadingKeeps ==
    ASSUME Inv, queue # <<>>, Head(queue).kind \notin Retried, NEW k \in Clients, Fit(k),
           k.stream # NoStream, Reading(k), UNCHANGED <<appVars, countVars>>
    PROVE  Inv'
<1>1. CASE k.reads = "client"
  BY <1>1, ReadHelloKeeps DEF Reading
<1>2. CASE k.reads = "proxy"
  BY <1>2, ReadMessagesKeeps DEF Reading
<1>3. CASE k.reads \notin {"client", "proxy"}
  BY <1>3, Taken, GoingOnKeeps DEF Reading
<1> QED
  BY <1>1, <1>2, <1>3

\* The events of the stream.
LEMMA StreamEventsKeep ==
    ASSUME Inv, \/ HandleByNobody \/ HandleConnected \/ HandleConnectionFailed \/ HandleShutdown
                \/ HandleInput \/ HandleFaked
    PROVE  Inv'
<1>0. client \in Clients /\ Fit(client) /\ {"failed", "disconnected"} \subseteq OwnEvents \cap Retried
  BY DEF Inv, TypeOK, OwnEvents, Retried
<1>1. \A kind \in StreamEvents : kind \notin Retried
  BY DEF StreamEvents, Retried
<1>2. \A kind \in StreamEvents : ForStream(kind) =>
        queue # <<>> /\ Head(queue).kind \notin Retried /\ client.stream # NoStream
  BY <1>1 DEF ForStream, IsNext
<1>3. CASE HandleByNobody
  <2>1. queue # <<>> /\ Head(queue).kind \notin Retried
    BY <1>1, <1>3 DEF HandleByNobody, IsNext
  <2> QED
    BY <1>3, <2>1, DroppedKeeps DEF HandleByNobody
<1>4. CASE HandleConnected
  <2>1. queue # <<>> /\ Head(queue).kind \notin Retried /\ client.stream # NoStream
    BY <1>2, <1>4 DEF HandleConnected, StreamEvents
  <2>2. CASE client.starting
    BY <1>0, <1>4, <2>1, <2>2, EstablishedFit, Taken, GoingOnKeeps DEF HandleConnected
  <2>3. CASE ~client.starting
    BY <1>4, <2>1, <2>3, DroppedKeeps DEF HandleConnected
  <2> QED
    BY <2>2, <2>3
<1>5. CASE HandleConnectionFailed
  <2>1. queue # <<>> /\ Head(queue).kind \notin Retried /\ client.stream # NoStream
    BY <1>2, <1>5 DEF HandleConnectionFailed, StreamEvents
  <2>2. CASE client.starting
    <3> DEFINE g == CleanupStream(CleanupConnecting(CleanupTimer(client)))
    <3>1. g \in Clients /\ Fit(g)
      BY <1>0, <2>1, <2>2, GivenUpFit DEF Fit, Sound
    <3>2. Becomes(g, Rest, <<"failed">>) /\ UNCHANGED <<appVars, countVars>>
      BY <1>5, <2>2 DEF HandleConnectionFailed
    <3> HIDE DEF g
    <3> QED
      BY <1>0, <2>1, <3>1, <3>2, LosingKeeps
  <2>3. CASE ~client.starting
    BY <1>5, <2>1, <2>3, DroppedKeeps DEF HandleConnectionFailed
  <2> QED
    BY <2>2, <2>3
<1>6. CASE HandleShutdown
  <2>1. queue # <<>> /\ Head(queue).kind \notin Retried
    BY <1>2, <1>6 DEF HandleShutdown, StreamEvents
  <2>2. CASE client.heard
    BY <1>0, <1>6, <2>1, <2>2, LostFit, LosingKeeps DEF HandleShutdown
  <2>3. CASE ~client.heard
    BY <1>6, <2>1, <2>3, DroppedKeeps DEF HandleShutdown
  <2> QED
    BY <2>2, <2>3
<1>7. CASE HandleInput
  <2> DEFINE k == [client EXCEPT !.buffer = @ \o client.wire, !.wire = <<>>]
  <2>1. queue # <<>> /\ Head(queue).kind \notin Retried /\ client.stream # NoStream
    BY <1>2, <1>7 DEF HandleInput, StreamEvents
  <2>2. k \in Clients /\ Fit(k) /\ k.stream = client.stream
    <3>1. client.buffer \o client.wire \in Seq(Messages) /\ <<>> \in Seq(Messages)
      BY <1>0 DEF Clients
    <3> QED
      BY <1>0, <3>1 DEF Clients, Fit, Sound
  <2>3. (Reading(k) \/ Becomes(k, Rest, <<>>)) /\ UNCHANGED <<appVars, countVars>>
    BY <1>7 DEF HandleInput
  <2> HIDE DEF k
  <2> QED
    BY <2>1, <2>2, <2>3, Taken, ReadingKeeps, GoingOnKeeps
<1>8. CASE HandleFaked
  <2>1. queue # <<>> /\ Head(queue).kind \notin Retried /\ client.stream # NoStream
    BY <1>2, <1>8 DEF HandleFaked, StreamEvents
  <2> QED
    BY <1>0, <1>8, <2>1, ReadingKeeps DEF HandleFaked
<1> QED
  BY <1>3, <1>4, <1>5, <1>6, <1>7, <1>8

\* Client::connect: the client has a stream, or notes that it is asked to, or posts what is owed.
LEMMA ConnectTries ==
    ASSUME TypeOK, Fit(client), NEW k \in Clients, Fit(k),
           k.stream = client.stream,
           NEW rest \in Seq(QueuedEvents), Connect(k, rest)
    PROVE  /\ client' \in Clients /\ Fit(client') /\ queue' \in Seq(QueuedEvents)
           /\ net' \in {"none", "connecting", "open", "lost"} /\ told' \in Seq(Messages)
           /\ Tried(client', queue')
<1>0. /\ <<>> \in Seq(OwnEvents) /\ <<"failed">> \in Seq(OwnEvents)
      /\ Posts(<<"failed">>)
  BY PostsEach DEF OwnEvents, Retried
<1>1. CASE k.stream # NoStream
  BY <1>0, <1>1, BecomesKeeps DEF Connect, Tried
<1>2. CASE k.stream = NoStream /\ k.suspended
  <2> DEFINE g == [k EXCEPT !.onResume = TRUE]
  <2>1. g \in Clients /\ Fit(g) /\ g.suspended /\ g.onResume
    BY <1>2 DEF Clients, Fit, Sound
  <2>2. Becomes(g, rest, <<>>)
    BY <1>2 DEF Connect
  <2> HIDE DEF g
  <2> QED
    BY <1>0, <2>1, <2>2, BecomesKeeps DEF Tried
<1>3. CASE k.stream = NoStream /\ ~k.suspended
  <2>1. CASE \E s \in Streams : Becomes(Started(k, s), rest, <<>>)
    <3>1. PICK s \in Streams : Becomes(Started(k, s), rest, <<>>)
      BY <2>1
    <3> DEFINE g == Started(k, s)
    <3>2. g \in Clients /\ Fit(g) /\ g.stream # NoStream
      BY <1>3, StartedFit
    <3>3. Becomes(g, rest, <<>>)
      BY <3>1
    <3> HIDE DEF g
    <3> QED
      BY <1>0, <3>2, <3>3, BecomesKeeps DEF Tried
  <2>2. CASE Becomes(k, rest, <<"failed">>)
    BY <1>0, <2>2, BecomesKeeps DEF Tried
  <2> QED
    BY <1>3, <2>1, <2>2 DEF Connect
<1> QED
  BY <1>1, <1>2, <1>3

\* Sleeping and waking up.
LEMMA SleepKeeps ==
    ASSUME Inv, HandleSuspend \/ HandleResume
    PROVE  Inv'
<1>0. client \in Clients /\ Fit(client) /\ "disconnected" \in OwnEvents \cap Retried
      /\ queue # <<>> /\ Head(queue).kind \notin Retried /\ UNCHANGED <<appVars, countVars>>
  BY DEF Inv, TypeOK, OwnEvents, Retried, HandleSuspend, HandleResume, IsNext
<1>1. CASE HandleSuspend
  <2>1. CASE client.suspended
    BY <1>0, <1>1, <2>1, DroppedKeeps DEF HandleSuspend
  <2>2. CASE ~client.suspended
    BY <1>0, <1>1, <2>2, SuspendedFit, LosingKeeps DEF HandleSuspend
  <2> QED
    BY <2>1, <2>2
<1>2. CASE HandleResume
  <2>1. CASE client.suspended /\ client.onResume
    <3> DEFINE awake == [client EXCEPT !.suspended = FALSE, !.onResume = FALSE]
    <3>1. awake \in Clients /\ Fit(awake) /\ awake.stream = client.stream
      BY <1>0 DEF Clients, Fit, Sound
    <3>2. Connect(awake, Rest)
      BY <1>2, <2>1 DEF HandleResume
    <3> HIDE DEF awake
    <3>3. /\ client' \in Clients /\ Fit(client') /\ queue' \in Seq(QueuedEvents)
          /\ net' \in {"none", "connecting", "open", "lost"} /\ told' \in Seq(Messages)
          /\ Tried(client', queue')
      BY <1>0, <3>1, <3>2, Taken, ConnectTries DEF Inv
    <3>4. TypeOK'
      BY <1>0, <3>3 DEF Inv, TypeOK, QueuedEvents, appVars, countVars
    <3> QED
      BY <3>3, <3>4 DEF Inv, Pursued, Tried
  <2>2. CASE ~(client.suspended /\ client.onResume)
    <3> DEFINE awake == [client EXCEPT !.suspended = FALSE]
    <3>1. awake \in Clients /\ Fit(awake) /\ awake.stream = client.stream
      BY <1>0 DEF Clients, Fit, Sound
    <3>2. Becomes(awake, Rest, <<>>)
      BY <1>2, <2>2 DEF HandleResume
    <3> HIDE DEF awake
    <3>3. Tried(client, queue) => Tried(awake, Rest)
      BY <1>0, <2>2, <3>1, Taken DEF Tried
    <3> QED
      BY <1>0, <3>1, <3>2, <3>3, Taken, PostsEach, ClientStep
  <2> QED
    BY <2>1, <2>2
<1> QED
  BY <1>1, <1>2

-----------------------------------------------------------------------------
(* The application, its timers, and what comes from outside *)

\* ClientApp sets a timer, or asks for the end of the program.
LEMMA RetryKeeps ==
    ASSUME Inv, HandleFailed \/ HandleRefused
    PROVE  Inv'
<1>1. queue # <<>> /\ Rest \in Seq(QueuedEvents)
      /\ UNCHANGED <<client, screen, program, net, told, up, requests, failures>>
  BY OwedTail DEF HandleFailed, HandleRefused, IsNext, Rest, Inv, TypeOK, QueuedEvents, netVars, countVars
<1>2. address' \in 0..(Addresses - 1)
  BY ConnectionAssumption DEF ConnectionAssumption, HandleFailed, HandleRefused, Inv, TypeOK
<1>3. \/ restarts' = restarts + 1 /\ queue' = Rest
      \/ restarts' = restarts /\ queue' = Append(Rest, Own("quit"))
  BY DEF HandleFailed, HandleRefused, RetryOrQuit
<1>4. queue' \in Seq(QueuedEvents) /\ restarts' \in Nat /\ (restarts' > 0 \/ Owed(queue'))
  <2>1. restarts \in Nat /\ Own("quit") \in QueuedEvents /\ Own("quit").kind \in Retried
    BY OwnEvent DEF Inv, TypeOK, OwnEvents, Retried
  <2>2. CASE restarts' = restarts + 1 /\ queue' = Rest
    BY <1>1, <2>1, <2>2
  <2>3. CASE restarts' = restarts /\ queue' = Append(Rest, Own("quit"))
    BY <1>1, <2>1, <2>3, OwedAppend
  <2> QED
    BY <1>3, <2>2, <2>3
<1>5. TypeOK'
  BY <1>1, <1>2, <1>4 DEF Inv, TypeOK, QueuedEvents
<1>6. Fit(client)'
  BY <1>1 DEF Inv
<1>7. Pursued'
  BY <1>4 DEF Pursued, Tried
<1> QED
  BY <1>5, <1>6, <1>7 DEF Inv

\* The program ends.
LEMMA QuitKeeps ==
    ASSUME Inv, HandleQuit
    PROVE  Inv'
<1>1. queue # <<>> /\ Rest \in Seq(QueuedEvents) /\ <<>> \in Seq(OwnEvents)
  BY OwedTail, PostsEach DEF HandleQuit, IsNext, Rest, Inv, TypeOK, QueuedEvents
<1> DEFINE g == Cleanup(client)
<1>2. g \in Clients /\ Fit(g) /\ Becomes(g, Rest, <<>>)
  BY CleanupFit DEF HandleQuit, Inv, TypeOK, Fit
<1> HIDE DEF g
<1>3. client' = g /\ queue' \in Seq(QueuedEvents)
      /\ net' \in {"none", "connecting", "open", "lost"} /\ told' \in Seq(Messages)
  BY <1>1, <1>2, BecomesKeeps DEF Inv
<1> QED
  BY <1>2, <1>3 DEF HandleQuit, Inv, TypeOK, QueuedEvents, Pursued, countVars

\* startClient, first and again.
LEMMA StartKeeps ==
    ASSUME Inv, Start \/ RestartTimerFires
    PROVE  Inv'
<1>1. ASSUME NEW left \in Nat, StartClient(left), UNCHANGED <<address, up, requests>>,
             program' = "running"
      PROVE  Inv'
  <2>1. CASE screen' = TRUE /\ Connect(client, queue) /\ restarts' = left /\ UNCHANGED failures
    <3>1. /\ client' \in Clients /\ Fit(client') /\ queue' \in Seq(QueuedEvents)
          /\ net' \in {"none", "connecting", "open", "lost"} /\ told' \in Seq(Messages)
          /\ Tried(client', queue')
      BY <2>1, ConnectTries DEF Inv, TypeOK, QueuedEvents
    <3> QED
      BY <1>1, <2>1, <3>1 DEF Inv, TypeOK, QueuedEvents, Pursued, Tried
  <2>2. CASE /\ failures < MaxFailures /\ failures' = failures + 1 /\ restarts' = left + 1
             /\ UNCHANGED <<client, queue, netVars, screen>>
    BY <1>1, <2>2, ConnectionAssumption
       DEF ConnectionAssumption, Inv, TypeOK, Pursued, Tried, Fit, Sound, netVars
  <2> QED
    BY <1>1, <2>1, <2>2 DEF StartClient
<1>2. CASE Start
  BY <1>1, <1>2 DEF Start, Inv, TypeOK, Pursued, netVars
<1>3. CASE RestartTimerFires
  <2>1. restarts - 1 \in Nat /\ program = "running" /\ UNCHANGED <<address, program, up, requests>>
    BY <1>3 DEF RestartTimerFires, Idle, Inv, TypeOK
  <2>2. CASE StartClient(restarts - 1)
    BY <1>1, <2>1, <2>2
  <2>3. CASE /\ ~screen /\ restarts' = restarts - 1
             /\ UNCHANGED <<client, queue, screen, netVars, failures>>
    BY <2>1, <2>3 DEF Inv, TypeOK, Pursued, netVars
  <2> QED
    BY <1>3, <2>2, <2>3 DEF RestartTimerFires
<1> QED
  BY <1>2, <1>3

\* The two timers of a connection.
LEMMA TimersKeep ==
    ASSUME Inv, ConnectTimesOut \/ AlarmFires
    PROVE  Inv'
<1>0. client \in Clients /\ Fit(client) /\ <<>> \in Seq(QueuedEvents)
      /\ <<"failed">> \in Seq(OwnEvents) /\ Posts(<<"failed">>)
  BY PostsEach DEF Inv, TypeOK, OwnEvents, Retried
<1>1. CASE ConnectTimesOut
  <2> DEFINE g == CleanupConnection(CleanupConnecting(CleanupTimer(client)))
  <2>1. g \in Clients /\ Fit(g)
    BY <1>0, <1>1, GivenUpFit DEF ConnectTimesOut, Fit, Sound
  <2>2. Becomes(g, <<>>, <<"failed">>) /\ UNCHANGED <<appVars, countVars>>
    BY <1>1 DEF ConnectTimesOut
  <2> HIDE DEF g
  <2> QED
    BY <1>0, <2>1, <2>2, ClientStep
<1>2. CASE AlarmFires
  <2> DEFINE g == Cleanup(client)
  <2>1. g \in Clients /\ Fit(g)
    BY <1>0, CleanupFit DEF Fit
  <2>2. Becomes(g, <<>>, <<"failed">>) /\ UNCHANGED <<appVars, countVars>>
    BY <1>2 DEF AlarmFires
  <2> HIDE DEF g
  <2> QED
    BY <1>0, <2>1, <2>2, ClientStep
<1> QED
  BY <1>1, <1>2

\* What the server, the network and the system do posts events, and writes to the wire.
LEMMA OutsideKeeps ==
    ASSUME Inv, Network \/ Fail \/ Recover \/ Request
    PROVE  Inv'
<1> USE ConnectionAssumption DEF ConnectionAssumption
<1>0. queue \in Seq(QueuedEvents) /\ client \in Clients
  BY DEF Inv, TypeOK, QueuedEvents
<1>1. ASSUME NEW e \in QueuedEvents, Post(e)
      PROVE  queue' \in Seq(QueuedEvents) /\ (Owed(queue) => Owed(queue'))
  BY <1>0, <1>1, OwedAppend DEF Post
<1>2. CASE Accept \/ Refuse \/ Hangup
  <2>1. \A kind \in StreamEvents : Event(kind, client.stream) \in QueuedEvents
    BY <1>0 DEF Event, QueuedEvents, Clients
  <2>2. PICK kind \in StreamEvents : Post(Event(kind, client.stream))
    BY <1>2 DEF Accept, Refuse, Hangup, StreamEvents
  <2>3. queue' \in Seq(QueuedEvents) /\ (Owed(queue) => Owed(queue'))
    BY <1>1, <2>1, <2>2
  <2> QED
    BY <1>2, <2>3 DEF Accept, Refuse, Hangup, Inv, TypeOK, QueuedEvents, Pursued, Tried, appVars, countVars
<1>3. ASSUME NEW m \in Messages, Say(m) PROVE Inv'
  <2> DEFINE k == [client EXCEPT !.wire = Append(@, m)]
  <2>1. k \in Clients /\ k.stream = client.stream /\ k.suspended = client.suspended
        /\ k.onResume = client.onResume
    <3>1. Append(client.wire, m) \in Seq(Messages)
      BY <1>0 DEF Clients
    <3> QED
      BY <1>0, <3>1 DEF Clients
  <2>2. Fit(k)
    BY <1>0 DEF Inv, Clients, Fit, Sound
  <2>3. client' = k
    BY <1>3 DEF Say
  <2>4. Event("input", client.stream) \in QueuedEvents
    BY <1>0 DEF Event, QueuedEvents, Clients, StreamEvents
  <2>5. queue' \in Seq(QueuedEvents) /\ (Owed(queue) => Owed(queue'))
    BY <1>0, <1>1, <1>3, <2>4 DEF Say
  <2>6. told' \in Seq(Messages) /\ UNCHANGED <<appVars, net, countVars>>
    BY <1>3 DEF Say, Inv, TypeOK
  <2> HIDE DEF k
  <2>7. TypeOK'
    BY <2>1, <2>3, <2>5, <2>6 DEF Inv, TypeOK, QueuedEvents, appVars, countVars
  <2>8. Pursued'
    BY <2>1, <2>3, <2>5, <2>6 DEF Inv, Pursued, Tried, appVars
  <2> QED
    BY <2>2, <2>3, <2>7, <2>8 DEF Inv
<1>4. CASE Fail \/ Recover
  <2>1. /\ UNCHANGED <<client, queue, restarts, address, screen, program, net, told, requests>>
        /\ up' \in BOOLEAN /\ failures' \in 0..MaxFailures
    <3>1. failures \in 0..MaxFailures
      BY DEF Inv, TypeOK
    <3>2. CASE Fail
      <4>1. failures < MaxFailures /\ up' = FALSE /\ failures' = failures + 1
        BY <3>2 DEF Fail
      <4>2. failures' \in 0..MaxFailures
        BY <3>1, <4>1
      <4> QED
        BY <3>2, <4>1, <4>2 DEF Fail, appVars, netVars
    <3>3. CASE Recover
      BY <3>1, <3>3 DEF Recover, appVars, netVars
    <3> QED
      BY <1>4, <3>2, <3>3
  <2>2. TypeOK'
    BY <2>1 DEF Inv, TypeOK
  <2>3. Fit(client)' /\ Pursued'
    BY <2>1 DEF Inv, Pursued, Tried
  <2> QED
    BY <2>2, <2>3 DEF Inv
<1>5. CASE Request
  <2>1. PICK kind \in OwnEvents : Post(Own(kind))
    BY <1>5 DEF Request, OwnEvents
  <2>2. queue' \in Seq(QueuedEvents) /\ (Owed(queue) => Owed(queue'))
    BY <1>1, <2>1, OwnEvent
  <2> QED
    BY <1>5, <2>2 DEF Request, Inv, TypeOK, QueuedEvents, Pursued, Tried, appVars, netVars
<1> QED
  BY <1>2, <1>3, <1>4, <1>5 DEF Network

-----------------------------------------------------------------------------
(* Theorems *)

LEMMA InitInv == Init => Inv
<1> SUFFICES ASSUME Init PROVE Inv
  OBVIOUS
<1>1. client \in Clients /\ Fit(client)
  <2>1. <<>> \in Seq(Messages)
    OBVIOUS
  <2> QED
    BY <2>1 DEF Init, NoConnection, Clients, Fit, Sound
<1>2. TypeOK
  <2>1. 0 \in 0..(Addresses - 1) /\ 0 \in 0..MaxRequests /\ 0 \in 0..MaxFailures
    BY ConnectionAssumption DEF ConnectionAssumption
  <2>2. <<>> \in Seq(QueuedEvents) /\ <<>> \in Seq(Messages) /\ 0 \in Nat
    OBVIOUS
  <2> QED
    BY <1>1, <2>1, <2>2 DEF Init, TypeOK, QueuedEvents
<1> QED
  BY <1>1, <1>2 DEF Init, Inv, Pursued

LEMMA NextInv == Inv /\ [Next]_vars => Inv'
<1> SUFFICES ASSUME Inv, [Next]_vars PROVE Inv'
  OBVIOUS
<1>1. CASE Handle
  BY <1>1, StreamEventsKeep, SleepKeeps, RetryKeeps, QuitKeeps DEF Handle
<1>2. CASE Start \/ RestartTimerFires
  BY <1>2, StartKeeps
<1>3. CASE ConnectTimesOut \/ AlarmFires
  BY <1>3, TimersKeep
<1>4. CASE Network \/ Fail \/ Recover \/ Request
  BY <1>4, OutsideKeeps
<1>5. CASE UNCHANGED vars
  <2>1. UNCHANGED <<client, queue, restarts, address, screen, program, net, told, up, requests, failures>>
    BY <1>5 DEF vars, appVars, netVars, countVars
  <2> QED
    BY <2>1 DEF Inv, TypeOK, Pursued, Tried
<1> QED
  BY <1>1, <1>2, <1>3, <1>4, <1>5 DEF Next

\* The invariant that the next three follow from.
THEOREM InvHolds == Spec => []Inv
BY InitInv, NextInv, PTL DEF Spec

\* The timer of the connection runs exactly while the client connects or waits for hello
\* (Client::setupTimer, cleanupTimer), whatever comes, and in whatever order.
THEOREM TimerRunsWhileWaiting == Spec => []TimerWhileWaiting
<1>1. Inv => TimerWhileWaiting
  BY DEF Inv, Fit, Sound, TimerWhileWaiting
<1> QED
  BY <1>1, InvHolds, PTL

\* There is no connection while the system sleeps, and the screen is enabled exactly while
\* the server is there (Client::handleSuspend, handshakeComplete, cleanupScreen).
THEOREM SleepsOrServes == Spec => []AsleepOrServed
<1>1. Inv => AsleepOrServed
  BY DEF Inv, Fit, Sound, AsleepOrServed
<1> QED
  BY <1>1, InvHolds, PTL

\* A client that has its screen and nothing to do has a stream, or something that will make
\* one: no order of failures, refusals, sleep and retries makes it give up.
THEOREM NeverGivesUp == Spec => []KeepsTrying
<1>1. Inv => KeepsTrying
  <2> SUFFICES ASSUME Inv, Idle, screen
               PROVE  client.stream # NoStream \/ restarts > 0 \/ (client.suspended /\ client.onResume)
    BY DEF KeepsTrying
  <2>1. ~Owed(queue)
    BY DEF Idle, Owed
  <2> QED
    BY <2>1 DEF Inv, Pursued, Tried, Idle
<1> QED
  BY <1>1, InvHolds, PTL
=============================================================================
