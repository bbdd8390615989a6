--------------------------- MODULE LifecycleProofs ---------------------------
(***************************************************************************)
(* Theorems about Lifecycle, for any number of requests and of failures,   *)
(* and for loops inside handlers to any depth.                             *)
(*                                                                         *)
(* Sane says how the fields of the program belong together, Served that it *)
(* serves or waits to try again.  Both are about the record that handlers  *)
(* work on, and each helper is shown to keep or to establish them.         *)
(***************************************************************************)
EXTENDS Lifecycle, SequenceTheorems, TLAPS

QueuedEvents == [kind : Kinds, server : Nat]
InnerLoops == [server : Nat, timer : BOOLEAN, then : {"suspend", "reset", "exit"}]

\* As Apps, without the bound on the number of servers.
AppTypes == [state : States, timer : BOOLEAN, server : Nat, listener : Nat,
             suspended : BOOLEAN, queue : Seq(QueuedEvents), alive : SUBSET Nat,
             clients : SUBSET Nat, forgotten : BOOLEAN, made : Nat, retries : 0..MaxRetries]

Waits(a) == a.state \in {"initializing", "initializingToStart", "starting"}

Sane(a) ==
    /\ a \in AppTypes
    /\ a.timer <=> Waits(a)
    /\ a.state = "initializing" => a.forgotten
    /\ a.alive = (IF a.state = "started" THEN {a.server} ELSE {})
    /\ a.listener = a.server
    /\ a.server = None <=> a.state # "started"

Served(a) == a.state = "started" \/ Waits(a)

Ending(q) == \E i \in 1..Len(q) : q[i].kind = "quit"

-----------------------------------------------------------------------------
(* Queues *)

LEMMA EventTypes ==
    ASSUME NEW kind \in Kinds, NEW s \in Nat
    PROVE  /\ Event(kind) \in QueuedEvents /\ Event(kind).kind = kind
           /\ [kind |-> kind, server |-> s] \in QueuedEvents
  BY DEF Event, QueuedEvents, None

LEMMA QueueAppend ==
    ASSUME NEW q \in Seq(QueuedEvents), NEW e \in QueuedEvents
    PROVE  /\ Append(q, e) \in Seq(QueuedEvents) /\ Append(q, e) # <<>>
           /\ Ending(q) \/ e.kind = "quit" => Ending(Append(q, e))
<1> DEFINE r == Append(q, e)
<1>1. r \in Seq(QueuedEvents) /\ Len(r) = Len(q) + 1 /\ r[Len(q) + 1] = e
      /\ (\A i \in 1..Len(q) : r[i] = q[i]) /\ Len(q) \in Nat
  OBVIOUS
<1>2. r # <<>>
  BY <1>1
<1> HIDE DEF r
<1>3. Ending(q) \/ e.kind = "quit" => Ending(r)
  BY <1>1 DEF Ending
<1> QED
  BY <1>1, <1>2, <1>3 DEF r

LEMMA QueueTail ==
    ASSUME NEW q \in Seq(QueuedEvents), q # <<>>
    PROVE  /\ Head(q) \in QueuedEvents /\ Tail(q) \in Seq(QueuedEvents)
           /\ Ending(q) /\ Head(q).kind # "quit" => Ending(Tail(q))
<1> DEFINE r == Tail(q)
<1>1. /\ r \in Seq(QueuedEvents) /\ Len(r) = Len(q) - 1
      /\ \A i \in 1..Len(r) : r[i] = q[i + 1]
      /\ Len(q) \in Nat /\ Head(q) = q[1] /\ Head(q) \in QueuedEvents
  OBVIOUS
<1> HIDE DEF r
<1>2. ASSUME Ending(q), Head(q).kind # "quit" PROVE Ending(r)
  <2>1. PICK i \in 1..Len(q) : q[i].kind = "quit"
    BY <1>2 DEF Ending
  <2>2. i # 1 /\ i - 1 \in 1..Len(r) /\ r[i - 1] = q[i]
    BY <2>1, <1>1, <1>2
  <2> QED
    BY <2>1, <2>2 DEF Ending
<1> QED
  BY <1>1, <1>2 DEF r

\* What a change of the queue leaves as it was.
SameButQueue(a, b) ==
    /\ b.state = a.state /\ b.suspended = a.suspended /\ b.server = a.server
    /\ b.forgotten = a.forgotten

LEMMA PostedSane ==
    ASSUME NEW a, Sane(a), NEW e \in QueuedEvents
    PROVE  /\ Sane(Posted(a, e)) /\ SameButQueue(a, Posted(a, e))
           /\ Posted(a, e).queue = Append(a.queue, e)
<1>1. a \in AppTypes /\ Append(a.queue, e) \in Seq(QueuedEvents)
  BY QueueAppend DEF Sane, AppTypes
<1> QED
  BY <1>1 DEF Sane, Waits, Posted, AppTypes, SameButQueue

LEMMA RestSane ==
    ASSUME Sane(app), app.queue # <<>>
    PROVE  /\ Sane(Rest) /\ SameButQueue(app, Rest) /\ Rest.queue = Tail(app.queue)
           /\ Head(app.queue) \in QueuedEvents
<1>1. app \in AppTypes /\ Tail(app.queue) \in Seq(QueuedEvents) /\ Head(app.queue) \in QueuedEvents
  BY QueueTail DEF Sane, AppTypes
<1> QED
  BY <1>1 DEF Sane, Waits, Rest, AppTypes, SameButQueue

-----------------------------------------------------------------------------
(* Starting and stopping *)

\* An attempt that is put off has its timer and its state, and changes little else.
LEMMA PutOffFields ==
    ASSUME NEW a \in AppTypes, NEW state \in States, NEW u \in PutOff(a, state)
    PROVE  \E b \in AppTypes :
               /\ u = [app |-> b, ok |-> TRUE]
               /\ b.timer = TRUE /\ b.state = state
               /\ b.server = a.server /\ b.listener = a.listener
               /\ b.alive = a.alive /\ b.suspended = a.suspended /\ b.queue = a.queue
               /\ b.forgotten = a.forgotten
<1> DEFINE b == [a EXCEPT !.timer = TRUE, !.state = state, !.retries = @ + 1]
<1>1. a.retries # MaxRetries
      /\ u = [app |-> b, ok |-> TRUE]
  BY DEF PutOff, Attempt
<1>2. a.retries \in 0..MaxRetries /\ MaxRetries \in Nat
  BY LifecycleAssumption DEF AppTypes
<1>3. a.retries + 1 \in 0..MaxRetries
  BY <1>1, <1>2
<1>4. /\ b \in AppTypes /\ b.timer = TRUE /\ b.state = state
      /\ b.server = a.server /\ b.listener = a.listener
      /\ b.alive = a.alive /\ b.suspended = a.suspended /\ b.queue = a.queue
      /\ b.forgotten = a.forgotten
  BY <1>3 DEF AppTypes
<1> QED
  BY <1>1, <1>4

\* The attempt i, made of a, to open the screen was put off.
NoScreenYet(a, i) ==
    \E c \in AppTypes :
        /\ i = [app |-> c, ok |-> TRUE]
        /\ c.timer = TRUE /\ c.state = "initializing"
        /\ c.server = None /\ c.listener = None /\ c.alive = {}
        /\ c.suspended = a.suspended /\ c.queue = a.queue
        /\ c.forgotten = a.forgotten

\* An attempt to open the screen opens it, is put off, or fails.
LEMMA InitSane ==
    ASSUME NEW a, Sane(a), a.state \in {"uninitialized", "initialized"},
           NEW i \in InitServer(a)
    PROVE  \/ /\ i.ok = TRUE /\ Sane(i.app) /\ i.app.state = "initialized"
              /\ i.app.suspended = a.suspended /\ i.app.queue \in {a.queue, <<>>}
              /\ i.app.forgotten = a.forgotten
           \/ i.ok = FALSE /\ i.app = a
           \/ NoScreenYet(a, i)
<1> USE LifecycleAssumption DEF Attempt, None
<1>1. a \in AppTypes /\ a.timer = FALSE /\ a.alive = {} /\ a.server = None
      /\ a.listener = None /\ <<>> \in Seq(QueuedEvents)
  BY DEF Sane, Waits
<1>2. CASE a.state = "initialized"
  BY <1>2 DEF InitServer
<1>3. CASE a.state = "uninitialized"
  <2>1. CASE i = Attempt([a EXCEPT !.state = "initialized", !.queue = <<>>], TRUE)
    BY <1>1, <1>3, <2>1 DEF Sane, AppTypes, Waits, States
  <2>2. CASE i \in PutOff(a, "initializing")
    <3>1. PICK c \in AppTypes :
            /\ i = [app |-> c, ok |-> TRUE]
            /\ c.timer = TRUE /\ c.state = "initializing"
            /\ c.server = a.server /\ c.listener = a.listener
            /\ c.alive = a.alive /\ c.suspended = a.suspended /\ c.queue = a.queue
            /\ c.forgotten = a.forgotten
      <4>1. a \in AppTypes /\ "initializing" \in States
        BY <1>1 DEF States
      <4> QED
        BY <4>1, <2>2, PutOffFields, Zenon
    <3> QED
      BY <1>1, <3>1 DEF NoScreenYet
  <2>3. CASE i = Attempt(a, FALSE)
    BY <2>3
  <2> QED
    BY <1>3, <2>1, <2>2, <2>3 DEF InitServer
<1> QED
  BY <1>2, <1>3

\* Listening, with the screen there, serves, is put off, or fails.
LEMMA ListenSane ==
    ASSUME NEW b, Sane(b), b.state \in {"uninitialized", "initialized"},
           NEW u \in Listen(b)
    PROVE  /\ Sane(u.app) /\ u.app.suspended = b.suspended /\ u.app.queue = b.queue
           /\ u.ok \in BOOLEAN /\ (u.ok => Served(u.app))
<1> USE LifecycleAssumption DEF Attempt, None
<1>1. b \in AppTypes /\ b.made \in Nat /\ b.made + 1 \in Nat \ {0} /\ b.retries \in 0..MaxRetries
      /\ b.alive = {} /\ b.timer = FALSE
  BY DEF Sane, AppTypes, Waits
<1>2. CASE u = Attempt([b EXCEPT !.state = "started", !.server = b.made + 1,
                                 !.listener = b.made + 1, !.made = @ + 1,
                                 !.alive = @ \cup {b.made + 1}], TRUE)
  BY <1>1, <1>2 DEF Sane, AppTypes, Waits, Served, States
<1>3. CASE u \in PutOff(b, "starting")
  <2>1. PICK c \in AppTypes :
          /\ u = [app |-> c, ok |-> TRUE]
          /\ c.timer = TRUE /\ c.state = "starting"
          /\ c.server = b.server /\ c.listener = b.listener
          /\ c.alive = b.alive /\ c.suspended = b.suspended /\ c.queue = b.queue
          /\ c.forgotten = b.forgotten
    <3>1. b \in AppTypes /\ "starting" \in States
      BY <1>1 DEF States
    <3> QED
      BY <3>1, <1>3, PutOffFields, Zenon
  <2> QED
    BY <1>1, <2>1 DEF Sane, Waits, Served
<1>4. CASE u = Attempt(b, FALSE)
  BY <1>4
<1> QED
  BY <1>2, <1>3, <1>4 DEF Listen

\* A start puts the program in a state that serves or waits, or fails.
LEMMA StartSane ==
    ASSUME NEW a, Sane(a), a.state \notin {"initializing", "initializingToStart"},
           NEW t \in StartServer(a)
    PROVE  /\ Sane(t.app) /\ t.app.suspended = a.suspended
           /\ t.app.queue \in {a.queue, <<>>}
           /\ t.ok \in BOOLEAN /\ (t.ok => Served(t.app))
<1> USE DEF Attempt, None
<1>1. CASE a.state \in {"starting", "started"}
  <2>1. t = [app |-> a, ok |-> TRUE]
    BY <1>1 DEF StartServer
  <2> QED
    BY <1>1, <2>1 DEF Served, Waits
<1>2. CASE a.state \in {"uninitialized", "initialized"}
  <2> DEFINE b == [a EXCEPT !.forgotten = FALSE]
  <2>1. PICK i \in InitServer(b) : t \in StartAfter(i)
    BY <1>2 DEF StartServer
  <2>2. Sane(b) /\ b.state \in {"uninitialized", "initialized"}
        /\ b.suspended = a.suspended /\ b.queue = a.queue
    BY <1>2 DEF Sane, AppTypes, Waits
  <2> HIDE DEF b
  <2>3. CASE /\ i.ok = TRUE /\ Sane(i.app) /\ i.app.state = "initialized"
             /\ i.app.suspended = a.suspended /\ i.app.queue \in {a.queue, <<>>}
    <3>1. t \in Listen(i.app)
      BY <2>1, <2>3 DEF StartAfter
    <3> QED
      BY <2>3, <3>1, ListenSane
  <2>4. CASE NoScreenYet(b, i)
    <3>1. PICK c \in AppTypes :
            /\ i = [app |-> c, ok |-> TRUE]
            /\ c.timer = TRUE /\ c.state = "initializing"
            /\ c.server = None /\ c.listener = None /\ c.alive = {}
            /\ c.suspended = a.suspended /\ c.queue = a.queue
      BY <2>2, <2>4 DEF NoScreenYet
    <3> DEFINE d == [c EXCEPT !.state = "initializingToStart"]
    <3>2. t = [i EXCEPT !.app.state = "initializingToStart"]
      BY <2>1, <3>1 DEF StartAfter
    <3>3. i.app = c
      BY <3>1
    <3>4. t = [i EXCEPT !.app = d]
      BY <3>2, <3>3
    <3>5. t = [app |-> d, ok |-> TRUE]
      <4> HIDE DEF d
      <4> QED
        BY <3>1, <3>4
    <3> QED
      BY <3>1, <3>5 DEF Sane, AppTypes, Waits, Served, States
  <2>5. CASE i.ok = FALSE /\ i.app = b
    <3>1. t = i
      BY <2>1, <2>5 DEF StartAfter
    <3> QED
      BY <2>2, <2>5, <3>1
  <2> QED
    <3>1. \/ /\ i.ok = TRUE /\ Sane(i.app) /\ i.app.state = "initialized"
             /\ i.app.suspended = b.suspended /\ i.app.queue \in {b.queue, <<>>}
          \/ i.ok = FALSE /\ i.app = b
          \/ NoScreenYet(b, i)
      BY <2>1, <2>2, InitSane
    <3> QED
      BY <2>2, <2>3, <2>4, <2>5, <3>1
<1>3. a.state \in States
  BY DEF Sane, AppTypes
<1> QED
  BY <1>1, <1>2, <1>3 DEF States

LEMMA StoppedSane ==
    ASSUME NEW a, Sane(a), a.state # "started"
    PROVE  /\ Sane(Stopped(a)) /\ Stopped(a).state # "started"
           /\ Stopped(a).suspended = a.suspended /\ Stopped(a).queue = a.queue
  BY DEF Stopped, StopRetryTimer, Sane, AppTypes, Waits, States

LEMMA ClosedSane ==
    ASSUME NEW a, Sane(a), NEW s \in a.alive
    PROVE  /\ Sane(Closed(a, s)) /\ Closed(a, s).state = "initialized"
           /\ Closed(a, s).suspended = a.suspended /\ Closed(a, s).queue = a.queue
<1>1. a \in AppTypes /\ a.state = "started" /\ a.alive = {s} /\ a.timer = FALSE
      /\ a.alive \ {s} = {} /\ a.clients \ {s} \in SUBSET Nat
  BY DEF Sane, Waits, AppTypes
<1> QED
  BY <1>1 DEF Closed, Sane, AppTypes, Waits, States, None

LEMMA CleanedUpSane ==
    ASSUME NEW a, Sane(a), a.state # "started"
    PROVE  /\ Sane(CleanedUp(a)) /\ CleanedUp(a).state = "uninitialized"
           /\ CleanedUp(a).suspended = a.suspended
           /\ CleanedUp(a).queue \in {a.queue, <<>>}
<1>1. a \in AppTypes /\ <<>> \in Seq(QueuedEvents) /\ a.alive = {}
      /\ (IF a.state = "initialized" THEN <<>> ELSE a.queue) \in Seq(QueuedEvents)
  BY DEF Sane, AppTypes
<1> QED
  BY <1>1 DEF CleanedUp, StopRetryTimer, Sane, AppTypes, Waits, States, None

\* What follows a stop leaves the program asleep, or served, or at its end.
LEMMA ContinuedSane ==
    ASSUME NEW a, Sane(a), a.state # "started", NEW then \in {"suspend", "reset", "exit"},
           NEW b \in Continued(a, then)
    PROVE  /\ Sane(b) /\ b.queue \in {a.queue, <<>>}
           /\ then = "suspend" => b.suspended
           /\ then = "reset" /\ "reset" \notin HardFailures => Served(b)
<1>1. CASE then = "suspend"
  <2>1. b = [a EXCEPT !.suspended = TRUE]
    BY <1>1 DEF Continued
  <2> QED
    BY <1>1, <2>1 DEF Sane, AppTypes, Waits
<1>2. CASE then = "reset"
  <2>1. PICK t \in At("reset", StartServer(CleanedUp(a))) : b = t.app
    BY <1>2 DEF Continued
  <2>2. t \in StartServer(CleanedUp(a)) /\ ("reset" \notin HardFailures => t.ok)
    BY <2>1 DEF At
  <2> QED
    BY <1>2, <2>1, <2>2, CleanedUpSane, StartSane
<1>3. CASE then = "exit"
  BY <1>3, CleanedUpSane DEF Continued
<1> QED
  BY <1>1, <1>2, <1>3

-----------------------------------------------------------------------------
(* Steps *)

Inv == Sane(app) /\ frames \in Seq(InnerLoops)

Serving ==
    main = "looping" /\ frames = <<>> /\ ~app.suspended /\ ~app.forgotten =>
        Served(app) \/ Ending(app.queue)

\* Nothing fails for good where the program does not see it.
Noticed == HardFailures \subseteq {"boot", "retry"}

Good == Inv' /\ (Noticed /\ Serving => Serving')

LEMMA InvInit == Init => Inv /\ Serving
<1> SUFFICES ASSUME Init PROVE Inv /\ Serving
  OBVIOUS
<1>1. <<>> \in Seq(QueuedEvents) /\ <<>> \in Seq(InnerLoops) /\ 0 \in 0..MaxRetries
  BY LifecycleAssumption
<1> QED
  BY <1>1 DEF Init, Inv, Serving, Sane, AppTypes, Waits, States, None

\* An inner loop that begins or ends.
LEMMA FramesPush ==
    ASSUME NEW f \in InnerLoops, frames \in Seq(InnerLoops)
    PROVE  /\ Append(frames, f) \in Seq(InnerLoops)
           /\ Append(frames, f) # <<>> /\ Len(Append(frames, f)) = Len(frames) + 1
           /\ frames = <<>> => Append(frames, f)[1] = f
<1>1. /\ Append(frames, f) \in Seq(InnerLoops)
      /\ Len(Append(frames, f)) = Len(frames) + 1
      /\ Append(frames, f)[Len(frames) + 1] = f
      /\ Len(frames) \in Nat
  OBVIOUS
<1>2. Len(<<>>) = 0
  OBVIOUS
<1> HIDE DEF InnerLoops
<1>3. Append(frames, f) # <<>>
  BY <1>1, <1>2
<1>4. ASSUME frames = <<>> PROVE Append(frames, f)[1] = f
  BY <1>1, <1>2, <1>4
<1> QED
  BY <1>1, <1>3, <1>4

LEMMA FramesPop ==
    ASSUME frames \in Seq(InnerLoops), frames # <<>>
    PROVE  /\ Front(frames) \in Seq(InnerLoops) /\ Last(frames) \in InnerLoops
           /\ Len(frames) = 1 => Front(frames) = <<>> /\ Last(frames) = frames[1]
<1>1. Len(frames) \in Nat \ {0}
  OBVIOUS
<1>2. frames[Len(frames)] \in InnerLoops
  BY <1>1
<1>3. SubSeq(frames, 1, Len(frames) - 1) \in Seq(InnerLoops)
  BY <1>1, SubSeqProperties
<1>4. ASSUME Len(frames) = 1 PROVE SubSeq(frames, 1, Len(frames) - 1) = <<>>
  BY <1>1, <1>4, SubSeqEmpty
<1> QED
  BY <1>1, <1>2, <1>3, <1>4 DEF Front, Last

\* A handler that stops the server.
LEMMA StopSteps ==
    ASSUME Inv, NEW a, Sane(a), NEW then \in {"suspend", "reset", "exit"}, Stop(a, then)
    PROVE  /\ Inv'
           /\ a.state = "started" =>
                /\ frames' # <<>> /\ app'.state = "started" /\ app'.server = a.server
                /\ frames' = Append(frames, [server |-> a.server, timer |-> TRUE, then |-> then])
                /\ \/ app'.queue = a.queue
                   \/ app'.queue = Append(a.queue, [kind |-> "disconnected", server |-> a.server])
           /\ a.state # "started" =>
                /\ UNCHANGED frames /\ app'.queue \in {a.queue, <<>>}
                /\ then = "suspend" => app'.suspended
                /\ then = "reset" /\ Noticed => Served(app')
<1>1. CASE a.state = "started"
  <2> DEFINE f == [server |-> a.server, timer |-> TRUE, then |-> then]
             e == [kind |-> "disconnected", server |-> a.server]
  <2>1. f \in InnerLoops /\ e \in QueuedEvents
    BY DEF Sane, AppTypes, InnerLoops, QueuedEvents, Kinds
  <2>2. app' = (IF a.server \in a.clients THEN a ELSE Posted(a, e)) /\ frames' = Append(frames, f)
    BY <1>1 DEF Stop, Disconnect, WaitForClientsUpTo
  <2>3. Sane(Posted(a, e)) /\ SameButQueue(a, Posted(a, e))
        /\ Posted(a, e).queue = Append(a.queue, e)
    BY <2>1, PostedSane
  <2>4. Sane(app') /\ app'.state = "started" /\ app'.server = a.server
        /\ (app'.queue = a.queue \/ app'.queue = Append(a.queue, e))
    BY <1>1, <2>2, <2>3 DEF SameButQueue
  <2>5. frames' \in Seq(InnerLoops) /\ frames' # <<>>
    BY <2>1, <2>2, FramesPush DEF Inv
  <2> QED
    BY <1>1, <2>2, <2>4, <2>5 DEF Inv, Sane, AppTypes, Waits
<1>2. CASE a.state # "started"
  <2>1. app' \in Continued(Stopped(a), then) /\ UNCHANGED frames
    BY <1>2 DEF Stop
  <2>2. Sane(Stopped(a)) /\ Stopped(a).state # "started" /\ Stopped(a).queue = a.queue
    BY <1>2, StoppedSane
  <2>3. /\ Sane(app') /\ app'.queue \in {Stopped(a).queue, <<>>}
        /\ then = "suspend" => app'.suspended
        /\ then = "reset" /\ "reset" \notin HardFailures => Served(app')
    BY <2>1, <2>2, ContinuedSane
  <2>4. Inv'
    BY <2>1, <2>3 DEF Inv, Sane, AppTypes, Waits
  <2> QED
    BY <1>2, <2>1, <2>2, <2>3, <2>4 DEF Noticed
<1> QED
  BY <1>1, <1>2

\* The innermost loop ends.
LEMMA EndInnerLoopSteps ==
    ASSUME Inv, NEW a, Sane(a), frames # <<>>, EndInnerLoop(a)
    PROVE  /\ Inv'
           /\ frames' = Front(frames)
           /\ \/ main' = "undefined" /\ Last(frames).server \notin a.alive
              \/ /\ Last(frames).server \in a.alive
                 /\ main' = "exited" \/ (main' = main /\ Last(frames).then # "exit")
                 /\ app'.queue \in {a.queue, <<>>}
                 /\ Last(frames).then = "suspend" => app'.suspended
                 /\ Last(frames).then = "reset" /\ Noticed => Served(app')
<1> DEFINE f == Last(frames)
<1>1. f \in InnerLoops /\ Front(frames) \in Seq(InnerLoops) /\ frames' = Front(frames)
  BY FramesPop DEF Inv, EndInnerLoop
<1>2. f.then \in {"suspend", "reset", "exit"}
  BY <1>1 DEF InnerLoops
<1>3. CASE f.server \in a.alive
  <2>1. app' \in Continued(Closed(a, f.server), f.then)
        /\ main' = IF f.then = "exit" THEN "exited" ELSE main
    BY <1>3 DEF EndInnerLoop
  <2>2. Sane(Closed(a, f.server)) /\ Closed(a, f.server).state = "initialized"
        /\ Closed(a, f.server).queue = a.queue
    BY <1>3, ClosedSane
  <2> HIDE DEF f
  <2>3. /\ Sane(app') /\ app'.queue \in {Closed(a, f.server).queue, <<>>}
        /\ f.then = "suspend" => app'.suspended
        /\ f.then = "reset" /\ "reset" \notin HardFailures => Served(app')
    BY <1>2, <2>1, <2>2, ContinuedSane
  <2>4. Inv'
    BY <1>1, <2>3 DEF Inv, Sane, AppTypes, Waits
  <2> QED
    BY <1>1, <1>3, <2>1, <2>2, <2>3, <2>4 DEF f, Noticed
<1>4. CASE f.server \notin a.alive
  <2>1. main' = "undefined" /\ app' = a
    BY <1>4 DEF EndInnerLoop
  <2> QED
    BY <1>1, <1>4, <2>1 DEF Inv, Sane, AppTypes, Waits
<1> QED
  BY <1>3, <1>4

\* An event other than quit is handled at once, and changes little.
LEMMA LittleChanges ==
    ASSUME Inv, app.queue # <<>>, Head(app.queue).kind # "quit",
           Sane(app'), SameButQueue(app, app'),
           Ending(Rest.queue) => Ending(app'.queue), UNCHANGED <<frames, main>>
    PROVE  Good
<1>1. Inv'
  BY DEF Inv, Sane, AppTypes, Waits
<1>2. ASSUME Serving PROVE Serving'
  <2>1. app.queue \in Seq(QueuedEvents) /\ Rest.queue = Tail(app.queue)
    BY RestSane DEF Inv, Sane, AppTypes
  <2>2. Ending(app.queue) => Ending(app'.queue)
    BY <2>1, QueueTail
  <2> QED
    BY <1>2, <2>2 DEF Serving, SameButQueue, Served, Waits, Ending
<1> QED
  BY <1>1, <1>2 DEF Good

\* The event that is taken.
LEMMA Taken ==
    ASSUME Inv, NEW kind, Comes(kind)
    PROVE  /\ app.queue # <<>> /\ Head(app.queue).kind = kind
           /\ Sane(Rest) /\ SameButQueue(app, Rest) /\ Rest.queue = Tail(app.queue)
           /\ Rest.queue \in Seq(QueuedEvents) /\ Target \in Nat
<1>1. app.queue # <<>> /\ Head(app.queue).kind = kind
  BY DEF Comes
<1>2. /\ Sane(Rest) /\ SameButQueue(app, Rest) /\ Rest.queue = Tail(app.queue)
      /\ Head(app.queue) \in QueuedEvents
  BY <1>1, RestSane DEF Inv
<1> QED
  BY <1>1, <1>2 DEF QueuedEvents, Target, Sane, AppTypes

\* An event that is handled by posting another one, or not at all.
LEMMA PostsGood ==
    ASSUME Inv, NEW kind, kind # "quit", Comes(kind), UNCHANGED <<frames, main>>,
           NEW e \in QueuedEvents, app' = Rest \/ app' = Posted(Rest, e)
    PROVE  Good /\ SameButQueue(app, app')
<1>1. /\ app.queue # <<>> /\ Head(app.queue).kind # "quit" /\ Rest.queue \in Seq(QueuedEvents)
      /\ Sane(Rest) /\ SameButQueue(app, Rest)
  BY Taken
<1>2. /\ Sane(Posted(Rest, e)) /\ SameButQueue(Rest, Posted(Rest, e))
      /\ Posted(Rest, e).queue = Append(Rest.queue, e)
  BY <1>1, PostedSane
<1>3. Ending(Rest.queue) => Ending(Append(Rest.queue, e))
  BY <1>1, QueueAppend
<1>4. Sane(app') /\ SameButQueue(app, app') /\ (Ending(Rest.queue) => Ending(app'.queue))
  <2>1. CASE app' = Rest
    BY <2>1, <1>1
  <2>2. CASE app' = Posted(Rest, e)
    BY <2>2, <1>1, <1>2, <1>3 DEF SameButQueue
  <2> QED
    BY <2>1, <2>2
<1> QED
  BY <1>1, <1>4, LittleChanges

LEMMA SuspendGood == ASSUME Inv, HandleSuspend PROVE Good
<1>1. Comes("suspend") /\ UNCHANGED main
  BY DEF HandleSuspend
<1>2. Sane(Rest) /\ SameButQueue(app, Rest)
  BY <1>1, Taken
<1>3. CASE HasScreen(app) /\ ~app.suspended
  <2>1. Stop(Rest, "suspend")
    BY <1>3 DEF HandleSuspend
  <2>2. Inv' /\ (frames' # <<>> \/ app'.suspended)
    BY <1>2, <2>1, StopSteps
  <2> QED
    BY <2>2 DEF Good, Serving
<1>4. CASE ~(HasScreen(app) /\ ~app.suspended)
  <2>1. app' = Rest /\ UNCHANGED frames
    BY <1>4 DEF HandleSuspend
  <2>2. Event("reset") \in QueuedEvents
    BY EventTypes DEF Kinds, Requests
  <2> QED
    BY <1>1, <2>1, <2>2, PostsGood
<1> QED
  BY <1>3, <1>4

LEMMA ResumeGood == ASSUME Inv, HandleResume PROVE Good
<1>1. Comes("resume") /\ UNCHANGED <<frames, main>>
  BY DEF HandleResume, Handle
<1>2. Sane(Rest) /\ SameButQueue(app, Rest)
  BY <1>1, Taken
<1>3. CASE HasScreen(app) /\ app.suspended
  <2>1. app' \in Woken(Rest)
    BY <1>3 DEF HandleResume, Handle
  <2>2. PICK t \in At("resume", StartServer(Rest)) : app' = [t.app EXCEPT !.suspended = FALSE]
    BY <2>1 DEF Woken
  <2>3. t \in StartServer(Rest) /\ ("resume" \notin HardFailures => t.ok)
    BY <2>2 DEF At
  <2>4. Rest.state \notin {"initializing", "initializingToStart"}
    BY <1>2, <1>3 DEF HasScreen, SameButQueue
  <2>5. Sane(t.app) /\ ("resume" \notin HardFailures => Served(t.app))
    BY <1>2, <2>3, <2>4, StartSane
  <2>6. Sane(app') /\ ("resume" \notin HardFailures => Served(app'))
    BY <2>2, <2>5 DEF Sane, AppTypes, Waits, Served
  <2>7. Inv'
    BY <1>1, <2>6 DEF Inv, Sane, AppTypes, Waits
  <2> QED
    BY <2>6, <2>7 DEF Good, Serving, Noticed, Served, Waits
<1>4. CASE ~(HasScreen(app) /\ app.suspended)
  <2>1. app' = Rest
    BY <1>4 DEF HandleResume, Handle
  <2>2. Event("reset") \in QueuedEvents
    BY EventTypes DEF Kinds, Requests
  <2> QED
    BY <1>1, <2>1, <2>2, PostsGood
<1> QED
  BY <1>3, <1>4

LEMMA ResetGood == ASSUME Inv, HandleReset PROVE Good
<1>1. Comes("reset") /\ Stop(Rest, "reset")
  BY DEF HandleReset
<1>2. Sane(Rest)
  BY <1>1, Taken
<1>3. Inv' /\ (frames' # <<>> \/ (Noticed => Served(app')))
  BY <1>1, <1>2, StopSteps
<1> QED
  BY <1>3 DEF Good, Serving, Served, Waits

LEMMA ReconnectGood == ASSUME Inv, HandleReconnect PROVE Good
<1> DEFINE e == [kind |-> "disconnected", server |-> app.server]
<1>1. Comes("reconnect") /\ UNCHANGED <<frames, main>>
      /\ app' = IF app.server = None \/ main = "exiting" THEN Rest ELSE Disconnect(Rest, app.server)
  BY DEF HandleReconnect, Handle
<1>2. e \in QueuedEvents
  BY EventTypes DEF Kinds, Inv, Sane, AppTypes
<1>3. app' = Rest \/ app' = Posted(Rest, e)
  BY <1>1 DEF Disconnect
<1> QED
  BY <1>1, <1>2, <1>3, PostsGood

LEMMA ErrorGood == ASSUME Inv, HandleError PROVE Good
<1>1. Comes("error") /\ UNCHANGED <<frames, main>>
      /\ (app' = Rest \/ app' = Posted(Rest, Event("quit")))
  BY DEF HandleError, Handle
<1>2. Event("quit") \in QueuedEvents
  BY EventTypes DEF Kinds, Requests
<1> QED
  BY <1>1, <1>2, PostsGood

LEMMA DisconnectedGood == ASSUME Inv, HandleDisconnected PROVE Good
<1>1. Comes("disconnected") /\ UNCHANGED <<frames, main>>
      /\ (app' = Rest \/ app' = Posted(Rest, Event("quit")))
  BY DEF HandleDisconnected, Handle
<1>2. Event("quit") \in QueuedEvents
  BY EventTypes DEF Kinds, Requests
<1> QED
  BY <1>1, <1>2, PostsGood

LEMMA JoinGood == ASSUME Inv, HandleJoin PROVE Good /\ SameButQueue(app, app')
<1>1. Comes("join") /\ UNCHANGED <<frames, main>>
      /\ app' = IF app.listener = Target THEN [Rest EXCEPT !.clients = @ \cup {app.server}] ELSE Rest
  BY DEF HandleJoin, Handle
<1>2. /\ app.queue # <<>> /\ Head(app.queue).kind # "quit"
      /\ Sane(Rest) /\ SameButQueue(app, Rest)
  BY <1>1, Taken
<1>3. Sane(app') /\ SameButQueue(app, app') /\ app'.queue = Rest.queue
  BY <1>1, <1>2 DEF Inv, Sane, AppTypes, Waits, SameButQueue
<1> QED
  BY <1>1, <1>2, <1>3, LittleChanges

LEMMA HangupGood == ASSUME Inv, HandleHangup PROVE Good /\ SameButQueue(app, app')
<1> DEFINE e == [kind |-> "disconnected", server |-> Target]
           b == [Rest EXCEPT !.clients = @ \ {Target}]
<1>1. Comes("hangup") /\ UNCHANGED <<frames, main>>
      /\ app' = IF Target \in app.alive \cap app.clients THEN Posted(b, e) ELSE Rest
  BY DEF HandleHangup, Handle
<1>2. /\ app.queue # <<>> /\ Head(app.queue).kind # "quit" /\ Target \in Nat
      /\ Sane(Rest) /\ SameButQueue(app, Rest) /\ Rest.queue \in Seq(QueuedEvents)
  BY <1>1, Taken
<1>3. Sane(b) /\ SameButQueue(Rest, b) /\ b.queue = Rest.queue
  BY <1>2 DEF Sane, AppTypes, Waits, SameButQueue
<1>4. e \in QueuedEvents
  BY <1>2, EventTypes DEF Kinds
<1> HIDE DEF b, e
<1>5. /\ Sane(Posted(b, e)) /\ SameButQueue(b, Posted(b, e))
      /\ Posted(b, e).queue = Append(b.queue, e)
  BY <1>3, <1>4, PostedSane
<1>6. Ending(Rest.queue) => Ending(Append(Rest.queue, e))
  BY <1>2, <1>4, QueueAppend
<1>7. Sane(app') /\ SameButQueue(app, app') /\ (Ending(Rest.queue) => Ending(app'.queue))
  <2>1. CASE app' = Rest
    BY <2>1, <1>2
  <2>2. CASE app' = Posted(b, e)
    BY <2>2, <1>2, <1>3, <1>5, <1>6 DEF SameButQueue
  <2> QED
    BY <1>1, <2>1, <2>2
<1> QED
  BY <1>1, <1>2, <1>7, LittleChanges

LEMMA QuitGood == ASSUME Inv, HandleQuit PROVE Good
<1>1. Comes("quit")
  BY DEF HandleQuit
<1>2. Sane(Rest)
  BY <1>1, Taken
<1>3. CASE frames # <<>>
  <2>1. EndInnerLoop(Rest)
    BY <1>3 DEF HandleQuit
  <2>2. Last(frames) \in InnerLoops
    BY <1>3, FramesPop DEF Inv
  <2>3. Inv' /\ (main' = "looping" =>
                  \/ Last(frames).then = "suspend" /\ app'.suspended
                  \/ Last(frames).then = "reset" /\ (Noticed => Served(app')))
    BY <1>2, <1>3, <2>1, <2>2, EndInnerLoopSteps DEF InnerLoops
  <2> QED
    BY <2>3 DEF Good, Serving, Served, Waits
<1>4. CASE frames = <<>>
  <2>1. Stop(Rest, "exit") /\ main' \in {"exiting", "exited"}
    BY <1>4 DEF HandleQuit, EndMainLoop
  <2>2. Inv'
    BY <1>2, <2>1, StopSteps
  <2> QED
    BY <2>1, <2>2 DEF Good, Serving
<1> QED
  BY <1>3, <1>4

LEMMA ClosingTimerGood == ASSUME Inv, ClosingTimerFires PROVE Good
<1>1. PICK i \in DOMAIN frames : frames' = [frames EXCEPT ![i].timer = FALSE]
  BY DEF ClosingTimerFires
<1>2. app' = Posted(app, Event("quit"))
  BY DEF ClosingTimerFires
<1>3. frames \in Seq(InnerLoops) /\ frames[i] \in InnerLoops
  BY <1>1 DEF Inv
<1>4. [frames[i] EXCEPT !.timer = FALSE] \in InnerLoops
  BY <1>3 DEF InnerLoops
<1> DEFINE f == [frames[i] EXCEPT !.timer = FALSE]
<1> HIDE DEF f
<1>5. frames' = [frames EXCEPT ![i] = f]
  BY <1>1 DEF f
<1>6. frames' \in Seq(InnerLoops) /\ frames' # <<>>
  <2>1. f \in InnerLoops
    BY <1>4 DEF f
  <2>2. frames' \in Seq(InnerLoops) /\ Len(frames') = Len(frames) /\ Len(frames) # 0
    <3>1. i \in 1..Len(frames)
      BY <1>1, <1>3
    <3> HIDE DEF InnerLoops
    <3>2. [frames EXCEPT ![i] = f] \in Seq(InnerLoops)
          /\ Len([frames EXCEPT ![i] = f]) = Len(frames)
      BY <1>3, <2>1, <3>1, ExceptSeq
    <3> QED
      BY <1>3, <1>5, <3>1, <3>2
  <2> QED
    BY <2>2
<1>7. Sane(app')
  BY <1>2, EventTypes, PostedSane DEF Kinds, Requests, Inv
<1>8. Inv'
  BY <1>6, <1>7 DEF Inv, Sane, AppTypes, Waits
<1> QED
  BY <1>6, <1>8 DEF Good, Serving

\* An attempt of the retry handler leaves the program served, or forgetful, or fails.
LEMMA RetriedSane ==
    ASSUME Inv, app.timer, NEW t \in Retried(StopRetryTimer(app))
    PROVE  /\ Sane(t.app) /\ t.app.queue \in {app.queue, <<>>}
           /\ t.ok \in BOOLEAN /\ (t.ok => Served(t.app) \/ t.app.forgotten)
<1> USE DEF None
<1> DEFINE a == StopRetryTimer(app)
           b == [a EXCEPT !.state = "uninitialized"]
<1>1. app \in AppTypes /\ app.state \in {"initializing", "initializingToStart", "starting"}
      /\ app.alive = {} /\ app.server = None
  BY DEF Inv, Sane, Waits
<1>2. Sane(b) /\ b.queue = app.queue /\ b.state = "uninitialized" /\ b.forgotten = app.forgotten
  BY <1>1 DEF StopRetryTimer, Inv, Sane, AppTypes, Waits, States
<1>3. CASE app.state = "initializing"
  <2>1. t \in InitServer(b) /\ b.forgotten
    BY <1>1, <1>2, <1>3 DEF Retried, StopRetryTimer, AppTypes, Inv, Sane
  <2> HIDE DEF b
  <2>2. \/ t.ok = TRUE /\ Sane(t.app) /\ t.app.queue \in {b.queue, <<>>} /\ t.app.forgotten
        \/ t.ok = FALSE /\ t.app = b
        \/ NoScreenYet(b, t)
    BY <1>2, <2>1, InitSane
  <2>3. CASE NoScreenYet(b, t)
    <3>1. PICK c \in AppTypes :
            /\ t = [app |-> c, ok |-> TRUE]
            /\ c.timer = TRUE /\ c.state = "initializing"
            /\ c.server = None /\ c.listener = None /\ c.alive = {}
            /\ c.queue = b.queue /\ c.forgotten = b.forgotten
      BY <2>3 DEF NoScreenYet
    <3>2. t.app = c /\ t.ok = TRUE
      BY <3>1
    <3>3. Sane(c)
      BY <2>1, <3>1 DEF Sane, Waits
    <3> QED
      BY <1>2, <2>1, <3>1, <3>2, <3>3 DEF Served, Waits
  <2> QED
    BY <1>2, <2>2, <2>3
<1>4. CASE app.state = "initializingToStart"
  <2>1. PICK i \in InitServer(b) : t \in RetriedStart(i)
    BY <1>1, <1>4 DEF Retried, StopRetryTimer, AppTypes
  <2> HIDE DEF b
  <2>2. CASE i.ok = TRUE /\ Sane(i.app) /\ i.app.state = "initialized"
             /\ i.app.queue \in {b.queue, <<>>}
    <3>1. t \in StartServer(i.app)
      BY <2>1, <2>2 DEF RetriedStart
    <3> QED
      BY <1>2, <2>2, <3>1, StartSane
  <2>3. CASE i.ok = FALSE /\ i.app = b
    <3>1. t = i
      BY <2>1, <2>3 DEF RetriedStart
    <3> QED
      BY <1>2, <2>3, <3>1
  <2>4. CASE NoScreenYet(b, i)
    <3>1. PICK c \in AppTypes :
            /\ i = [app |-> c, ok |-> TRUE]
            /\ c.timer = TRUE /\ c.state = "initializing"
            /\ c.server = None /\ c.listener = None /\ c.alive = {}
            /\ c.queue = b.queue
      BY <2>4 DEF NoScreenYet
    <3> DEFINE d == [c EXCEPT !.forgotten = TRUE]
    <3>2. t = [i EXCEPT !.app.forgotten = TRUE]
      BY <2>1, <3>1 DEF RetriedStart
    <3>3. i.app = c
      BY <3>1
    <3>4. t = [i EXCEPT !.app = d]
      BY <3>2, <3>3
    <3>5. t = [app |-> d, ok |-> TRUE]
      <4> HIDE DEF d
      <4> QED
        BY <3>1, <3>4
    <3> QED
      BY <1>2, <3>1, <3>5 DEF Sane, AppTypes, Waits
  <2> QED
    <3>1. \/ i.ok = TRUE /\ Sane(i.app) /\ i.app.state = "initialized"
             /\ i.app.queue \in {b.queue, <<>>}
          \/ i.ok = FALSE /\ i.app = b
          \/ NoScreenYet(b, i)
      BY <1>2, <2>1, InitSane
    <3> QED
      BY <2>2, <2>3, <2>4, <3>1
<1>5. CASE app.state = "starting"
  <2> DEFINE e == [a EXCEPT !.state = "initialized"]
  <2>1. t \in StartServer(e)
    BY <1>1, <1>5 DEF Retried, StopRetryTimer, AppTypes
  <2>2. Sane(e) /\ e.queue = app.queue /\ e.state = "initialized"
    BY <1>1, <1>5 DEF StopRetryTimer, Inv, Sane, AppTypes, Waits, States
  <2> HIDE DEF e
  <2> QED
    BY <2>1, <2>2, StartSane
<1> QED
  BY <1>1, <1>3, <1>4, <1>5

LEMMA RetryGood == ASSUME Inv, RetryTimerFires PROVE Good
<1>1. PICK t \in At("retry", Retried(StopRetryTimer(app))) :
        app' = IF t.ok THEN t.app ELSE Posted(t.app, Event("quit"))
  BY DEF RetryTimerFires
<1>2. app.timer /\ UNCHANGED frames
  BY DEF RetryTimerFires
<1>3. t \in Retried(StopRetryTimer(app))
  BY <1>1 DEF At
<1>4. Sane(t.app) /\ t.ok \in BOOLEAN /\ (t.ok => Served(t.app) \/ t.app.forgotten)
  BY <1>2, <1>3, RetriedSane
<1>5. CASE t.ok
  <2>1. app' = t.app
    BY <1>1, <1>5
  <2> QED
    BY <1>2, <1>4, <1>5, <2>1 DEF Good, Inv, Serving, Sane, AppTypes, Waits, Served
<1>6. CASE ~t.ok
  <2>1. app' = Posted(t.app, Event("quit"))
    BY <1>1, <1>6
  <2>2. Event("quit") \in QueuedEvents /\ Event("quit").kind = "quit"
    BY EventTypes DEF Kinds, Requests, None
  <2>3. Sane(app') /\ app'.queue = Append(t.app.queue, Event("quit"))
    BY <1>4, <2>1, <2>2, PostedSane
  <2>4. t.app.queue \in Seq(QueuedEvents)
    BY <1>4 DEF Sane, AppTypes
  <2>5. Ending(app'.queue)
    BY <2>2, <2>3, <2>4, QueueAppend
  <2> QED
    BY <1>2, <2>3, <2>5 DEF Good, Inv, Serving, Sane, AppTypes, Waits, Served, Ending
<1> QED
  BY <1>4, <1>5, <1>6

LEMMA BootGood == ASSUME Inv, Boot, app.state = "uninitialized" PROVE Good
<1>1. PICK t \in At("boot", StartServer(app)) :
        app' = t.app /\ main' = IF t.ok THEN "looping" ELSE "exited"
  BY DEF Boot
<1>2. t \in StartServer(app) /\ UNCHANGED frames
  BY <1>1 DEF At, Boot
<1>3. Sane(t.app) /\ (t.ok => Served(t.app))
  BY <1>2, StartSane DEF Inv
<1> QED
  BY <1>1, <1>2, <1>3 DEF Good, Inv, Serving, Sane, AppTypes, Waits, Served

LEMMA ArrivalGood ==
    ASSUME Inv, NEW e \in QueuedEvents, Arrives(e)
    PROVE  Good /\ SameButQueue(app, app')
<1>1. app' = Posted(app, e) /\ UNCHANGED <<frames, main>>
  BY DEF Arrives
<1>2. Sane(app') /\ SameButQueue(app, app') /\ app'.queue = Append(app.queue, e)
  BY <1>1, PostedSane DEF Inv
<1>3. Ending(app.queue) => Ending(app'.queue)
  BY <1>2, QueueAppend DEF Inv, Sane, AppTypes
<1> QED
  BY <1>1, <1>2, <1>3
     DEF Good, Inv, Serving, Sane, AppTypes, Waits, Served, SameButQueue, Ending

\* What comes from outside.
Arrival ==
    \/ \E kind \in Requests : Request(kind)
    \/ ForceReconnect \/ ClientComes \/ ClientsGo

LEMMA ArrivalKinds ==
    ASSUME Inv, Arrival
    PROVE  \E e \in QueuedEvents :
             Arrives(e) /\ (e.kind \in Requests => RequestsOverlap \/ Calm)
<1>1. ASSUME NEW kind \in Requests, Request(kind)
      PROVE  \E e \in QueuedEvents :
               Arrives(e) /\ (e.kind \in Requests => RequestsOverlap \/ Calm)
  <2>1. Event(kind) \in QueuedEvents
    BY EventTypes DEF Kinds, None
  <2> QED
    BY <1>1, <2>1 DEF Request
<1>2. CASE ForceReconnect
  <2>1. Event("reconnect") \in QueuedEvents /\ Event("reconnect").kind = "reconnect"
    BY EventTypes DEF Kinds, None
  <2> QED
    BY <1>2, <2>1 DEF ForceReconnect, Requests
<1>3. CASE ClientComes
  <2> DEFINE e == [kind |-> "join", server |-> app.listener]
  <2>1. e \in QueuedEvents /\ e.kind = "join"
    BY EventTypes DEF Kinds, Inv, Sane, AppTypes
  <2> QED
    BY <1>3, <2>1 DEF ClientComes, Requests
<1>4. CASE ClientsGo
  <2>1. PICK s \in app.clients \cap app.alive : Arrives([kind |-> "hangup", server |-> s])
    BY <1>4 DEF ClientsGo
  <2> DEFINE e == [kind |-> "hangup", server |-> s]
  <2>2. e \in QueuedEvents /\ e.kind = "hangup"
    BY EventTypes DEF Kinds, Inv, Sane, AppTypes
  <2> QED
    BY <2>1, <2>2 DEF Requests
<1> QED
  BY <1>1, <1>2, <1>3, <1>4 DEF Arrival

\* At the start there is neither a screen nor a loop, and no event.
Fresh == main = "boot" => app.state = "uninitialized" /\ frames = <<>> /\ app.queue = <<>>

LEMMA EveryStep ==
    ASSUME Inv, Fresh, [Next]_vars
    PROVE  Good /\ Fresh'
<1>1. Good
  <2>1. CASE Boot
    BY <2>1, BootGood DEF Boot, Fresh
  <2>2. CASE Handlers
    BY <2>2, SuspendGood, ResumeGood, ResetGood, ReconnectGood, ErrorGood, JoinGood, HangupGood,
       DisconnectedGood, QuitGood DEF Handlers
  <2>3. CASE ClosingTimerFires
    BY <2>3, ClosingTimerGood
  <2>4. CASE RetryTimerFires
    BY <2>4, RetryGood
  <2>5. CASE Arrival
    BY <2>5, ArrivalKinds, ArrivalGood
  <2>6. CASE UNCHANGED vars
    BY <2>6 DEF vars, Good, Inv, Serving, Sane, AppTypes, Waits, Served, Ending
  <2> QED
    BY <2>1, <2>2, <2>3, <2>4, <2>5, <2>6 DEF Next, Arrival
<1>2. Fresh'
  <2>1. CASE UNCHANGED vars
    BY <2>1 DEF vars, Fresh
  <2>2. CASE Next
    <3>1. main' # "boot"
      BY <2>2 DEF Next, Boot, Handlers, HandleSuspend, HandleResume, HandleReset, HandleReconnect,
         HandleError, HandleJoin, HandleHangup, HandleDisconnected, HandleQuit, Handle, Comes,
         Looping, EndInnerLoop, EndMainLoop, ClosingTimerFires, RetryTimerFires, Request, Arrives,
         ForceReconnect, ClientComes, ClientsGo
    <3> QED
      BY <3>1 DEF Fresh
  <2> QED
    BY <2>1, <2>2
<1> QED
  BY <1>1, <1>2

LEMMA InvHolds == Spec => [](Inv /\ Fresh)
<1>1. Init => Inv /\ Fresh
  BY InvInit DEF Init, Fresh
<1>2. Inv /\ Fresh /\ [Next]_vars => (Inv /\ Fresh)'
  BY EveryStep DEF Good
<1> QED
  BY <1>1, <1>2, PTL DEF Spec

\* The retry timer is there exactly in the states that wait for it (ServerApp::
\* retryHandler), whatever requests overlap and whatever fails.
THEOREM TimerKept == Spec => []TimerAwaitsRetry
<1>1. Inv => TimerAwaitsRetry
  BY DEF Inv, Sane, Waits, TimerAwaitsRetry
<1> QED
  BY <1>1, InvHolds, PTL

\* A program that is awake serves, or will try again, or is about to end, unless its start
\* was put off twice for the screen (retryHandler forgets it then), and as long as a screen
\* that fails for good when it wakes up or is reset is left aside, since ServerApp ignores
\* that (handleResume, resetServer).
THEOREM ServingKept ==
    ASSUME HardFailures \subseteq {"boot", "retry"}
    PROVE  Spec => []KeepsServing
<1>1. Noticed
  BY DEF Noticed
<1>2. Init => Inv /\ Fresh /\ Serving
  BY InvInit DEF Init, Fresh
<1>3. Inv /\ Fresh /\ Serving /\ [Next]_vars => (Inv /\ Fresh /\ Serving)'
  BY <1>1, EveryStep DEF Good
<1>4. Inv /\ Fresh /\ Serving => KeepsServing
  <2>1. ASSUME Ending(app.queue), app.queue = <<>> PROVE FALSE
    BY <2>1 DEF Ending
  <2> QED
    BY <2>1 DEF Inv, Sane, Serving, Served, KeepsServing
<1> QED
  BY <1>2, <1>3, <1>4, PTL DEF Spec

-----------------------------------------------------------------------------
(* Requests that do not overlap *)

\* The requests that are handled outside of inner loops.
Outer == Requests \ {"quit"}

\* Such a request waits with no other request, and not while an inner loop runs; there
\* is one such loop at most, and it waits for the server that is there.
Quiet(q) == \A i \in 1..Len(q) : q[i].kind \notin Outer
Alone(q) == \A i, j \in 1..Len(q) : q[i].kind \in Outer /\ q[j].kind \in Requests => i = j

Single ==
    /\ main # "undefined"
    /\ frames = <<>> => Alone(app.queue)
    /\ frames # <<>> =>
        /\ Quiet(app.queue) /\ Len(frames) = 1
        /\ app.state = "started" /\ frames[1].server = app.server

LEMMA EmptyQueue == Quiet(<<>>) /\ Alone(<<>>)
  BY DEF Quiet, Alone

LEMMA QuietAlone == ASSUME NEW q, Quiet(q) PROVE Alone(q)
  BY DEF Quiet, Alone

LEMMA CalmTail ==
    ASSUME NEW q \in Seq(QueuedEvents), q # <<>>
    PROVE  /\ Alone(q) => Alone(Tail(q)) /\ (Head(q).kind \in Requests => Quiet(Tail(q)))
           /\ Quiet(q) => Quiet(Tail(q)) /\ Head(q).kind \notin Outer
<1> DEFINE r == Tail(q)
<1>1. /\ r \in Seq(QueuedEvents) /\ Len(r) = Len(q) - 1 /\ Len(q) \in Nat \ {0}
      /\ (\A i \in 1..Len(r) : r[i] = q[i + 1]) /\ Head(q) = q[1]
  OBVIOUS
<1> HIDE DEF r
<1>2. \A i \in 1..Len(r) : i + 1 \in 1..Len(q) /\ i + 1 # 1 /\ r[i] = q[i + 1]
  BY <1>1
<1>3. ASSUME Alone(q) PROVE Alone(r)
  <2> SUFFICES ASSUME NEW i \in 1..Len(r), NEW j \in 1..Len(r),
                      r[i].kind \in Outer, r[j].kind \in Requests
               PROVE  i = j
    BY DEF Alone
  <2>1. i + 1 = j + 1
    BY <1>2, <1>3 DEF Alone
  <2> QED
    BY <2>1
<1>4. ASSUME Alone(q), Head(q).kind \in Requests PROVE Quiet(r)
  <2> SUFFICES ASSUME NEW i \in 1..Len(r), r[i].kind \in Outer PROVE FALSE
    BY DEF Quiet
  <2>1. 1 \in 1..Len(q) /\ q[1].kind \in Requests
    BY <1>1, <1>4
  <2> QED
    BY <1>2, <1>4, <2>1 DEF Alone
<1>5. ASSUME Quiet(q) PROVE Quiet(r) /\ Head(q).kind \notin Outer
  <2>1. 1 \in 1..Len(q)
    BY <1>1
  <2> QED
    BY <1>1, <1>2, <1>5, <2>1 DEF Quiet
<1> QED
  BY <1>3, <1>4, <1>5 DEF r

LEMMA CalmAppend ==
    ASSUME NEW q \in Seq(QueuedEvents), NEW e \in QueuedEvents
    PROVE  /\ Quiet(q) /\ e.kind \notin Outer => Quiet(Append(q, e))
           /\ Alone(q) /\ e.kind \notin Requests => Alone(Append(q, e))
           /\ (\A i \in 1..Len(q) : q[i].kind \notin Requests) => Alone(Append(q, e))
<1> DEFINE r == Append(q, e)
<1>1. r \in Seq(QueuedEvents) /\ Len(r) = Len(q) + 1 /\ r[Len(q) + 1] = e
      /\ (\A i \in 1..Len(q) : r[i] = q[i]) /\ Len(q) \in Nat
  OBVIOUS
<1> HIDE DEF r
<1>2. \A i \in 1..Len(r) : (i \in 1..Len(q) /\ r[i] = q[i]) \/ (i = Len(q) + 1 /\ r[i] = e)
  BY <1>1
<1>3. ASSUME Quiet(q), e.kind \notin Outer PROVE Quiet(r)
  BY <1>2, <1>3 DEF Quiet
<1>4. ASSUME Alone(q), e.kind \notin Requests PROVE Alone(r)
  BY <1>2, <1>4 DEF Alone, Outer
<1>5. ASSUME \A i \in 1..Len(q) : q[i].kind \notin Requests PROVE Alone(r)
  BY <1>2, <1>5 DEF Alone, Outer
<1> QED
  BY <1>3, <1>4, <1>5 DEF r

\* Taking an event, and what it says of the others.
LEMMA CalmTaken ==
    ASSUME Inv, Single, NEW kind, Comes(kind)
    PROVE  /\ kind \in Outer => frames = <<>>
           /\ frames = <<>> => Alone(Rest.queue)
           /\ frames # <<>> \/ kind \in Requests => Quiet(Rest.queue)
<1>1. /\ app.queue # <<>> /\ Head(app.queue).kind = kind /\ Rest.queue = Tail(app.queue)
  BY Taken
<1>2. app.queue \in Seq(QueuedEvents)
  BY DEF Inv, Sane, AppTypes
<1> QED
  BY <1>1, <1>2, CalmTail DEF Single

\* A handler that posts at most one event.
LEMMA PostsSingle ==
    ASSUME Inv, Single, NEW kind, Comes(kind), UNCHANGED <<frames, main>>,
           SameButQueue(app, app'),
           \/ app'.queue = Rest.queue
           \/ \E e \in QueuedEvents :
                /\ app'.queue = Append(Rest.queue, e)
                /\ \/ e.kind = "disconnected"
                   \/ e.kind = "quit" /\ (kind = "error" \/ frames # <<>>)
    PROVE  Single'
<1>1. Rest.queue \in Seq(QueuedEvents)
  BY Taken
<1>2. (frames = <<>> => Alone(app'.queue)) /\ (frames # <<>> => Quiet(app'.queue))
  <2>1. CASE app'.queue = Rest.queue
    BY <2>1, CalmTaken
  <2>2. ASSUME NEW e \in QueuedEvents, app'.queue = Append(Rest.queue, e),
               e.kind = "disconnected"
        PROVE  (frames = <<>> => Alone(app'.queue)) /\ (frames # <<>> => Quiet(app'.queue))
    <3>1. e.kind \notin Requests /\ e.kind \notin Outer
      BY <2>2 DEF Requests, Outer
    <3> QED
      BY <1>1, <2>2, <3>1, CalmTaken, CalmAppend
  <2>3. ASSUME NEW e \in QueuedEvents, app'.queue = Append(Rest.queue, e),
               e.kind = "quit", kind = "error" \/ frames # <<>>
        PROVE  (frames = <<>> => Alone(app'.queue)) /\ (frames # <<>> => Quiet(app'.queue))
    <3>1. e.kind \notin Outer /\ (kind = "error" => kind \in Requests)
      BY <2>3 DEF Requests, Outer
    <3>2. Quiet(Rest.queue)
      BY <2>3, <3>1, CalmTaken
    <3>3. Quiet(app'.queue)
      BY <1>1, <2>3, <3>1, <3>2, CalmAppend
    <3> QED
      BY <3>3, QuietAlone
  <2> QED
    BY <2>1, <2>2, <2>3
<1> QED
  BY <1>2 DEF Single, SameButQueue, Quiet, Alone

\* A handler that stops the server, from the main loop.
LEMMA StopSingle ==
    ASSUME Inv, Single, NEW kind \in Requests, Comes(kind), frames = <<>>,
           NEW then \in {"suspend", "reset", "exit"}, Stop(Rest, then), main' # "undefined"
    PROVE  Single'
<1> DEFINE e == [kind |-> "disconnected", server |-> Rest.server]
           f == [server |-> Rest.server, timer |-> TRUE, then |-> then]
<1>1. Sane(Rest) /\ Rest.queue \in Seq(QueuedEvents) /\ Quiet(Rest.queue)
  BY Taken, CalmTaken
<1>2. e \in QueuedEvents /\ f \in InnerLoops /\ e.kind \notin Outer /\ f.server = Rest.server
  BY <1>1 DEF Sane, AppTypes, QueuedEvents, Kinds, InnerLoops, Outer, Requests
<1>3. Quiet(Append(Rest.queue, e))
  BY <1>1, <1>2, CalmAppend
<1>4. CASE Rest.state = "started"
  <2>1. /\ frames' = Append(frames, f) /\ app'.state = "started" /\ app'.server = Rest.server
        /\ app'.queue = Rest.queue \/ app'.queue = Append(Rest.queue, e)
    BY <1>1, <1>4, StopSteps
  <2>2. Quiet(app'.queue)
    BY <1>1, <1>3, <2>1
  <2>3. Len(frames) = 0 /\ Len(frames') = 1 /\ frames' # <<>> /\ frames'[1] = f
    BY <1>2, <2>1, FramesPush DEF Inv
  <2> QED
    BY <1>2, <2>1, <2>2, <2>3 DEF Single, Quiet, Alone
<1>5. CASE Rest.state # "started"
  <2>1. UNCHANGED frames /\ app'.queue \in {Rest.queue, <<>>}
    BY <1>1, <1>5, StopSteps
  <2>2. Alone(app'.queue)
    BY <1>1, <2>1, EmptyQueue, QuietAlone
  <2> QED
    BY <2>1, <2>2 DEF Single, Alone, Quiet
<1> QED
  BY <1>4, <1>5

LEMMA HandlersSingle == ASSUME Inv, Single, Handlers PROVE Single'
<1> USE DEF Requests, Outer
<1>1. CASE HandleSuspend
  <2>1. Comes("suspend") /\ UNCHANGED main /\ frames = <<>> /\ SameButQueue(app, Rest)
    BY <1>1, CalmTaken, Taken DEF HandleSuspend
  <2>2. Stop(Rest, "suspend") \/ (app' = Rest /\ UNCHANGED frames)
    BY <1>1 DEF HandleSuspend
  <2>3. CASE Stop(Rest, "suspend")
    BY <2>1, <2>3, StopSingle DEF Single
  <2>4. CASE app' = Rest /\ UNCHANGED frames
    BY <2>1, <2>4, PostsSingle
  <2> QED
    BY <2>2, <2>3, <2>4
<1>2. CASE HandleResume
  <2>1. /\ Comes("resume") /\ UNCHANGED <<frames, main>> /\ frames = <<>>
        /\ SameButQueue(app, Rest) /\ Sane(Rest) /\ Alone(Rest.queue)
    BY <1>2, CalmTaken, Taken DEF HandleResume, Handle
  <2>2. CASE ~(HasScreen(app) /\ app.suspended)
    <3>1. app' = Rest
      BY <1>2, <2>2 DEF HandleResume, Handle
    <3> QED
      BY <2>1, <3>1, PostsSingle
  <2>3. CASE HasScreen(app) /\ app.suspended
    <3>1. PICK t \in StartServer(Rest) : app' = [t.app EXCEPT !.suspended = FALSE]
      BY <1>2, <2>3 DEF HandleResume, Handle, Woken, At
    <3>2. Rest.state \notin {"initializing", "initializingToStart"}
      BY <2>1, <2>3 DEF HasScreen, SameButQueue
    <3>3. Sane(t.app) /\ t.app.queue \in {Rest.queue, <<>>}
      BY <2>1, <3>2, StartSane
    <3>4. app'.queue = t.app.queue
      BY <3>1, <3>3 DEF Sane, AppTypes
    <3>5. Alone(app'.queue)
      BY <2>1, <3>3, <3>4, EmptyQueue
    <3> QED
      BY <2>1, <3>5 DEF Single, Alone
  <2> QED
    BY <2>2, <2>3
<1>3. CASE HandleReset
  <2>1. Comes("reset") /\ UNCHANGED main /\ frames = <<>> /\ Stop(Rest, "reset")
    BY <1>3, CalmTaken DEF HandleReset
  <2> QED
    BY <2>1, StopSingle DEF Single
<1>4. CASE HandleReconnect
  <2> DEFINE e == [kind |-> "disconnected", server |-> app.server]
  <2>1. Comes("reconnect") /\ UNCHANGED <<frames, main>> /\ (app' = Rest \/ app' = Posted(Rest, e))
    BY <1>4 DEF HandleReconnect, Handle, Disconnect
  <2>2. e \in QueuedEvents /\ e.kind = "disconnected"
    BY EventTypes DEF Kinds, Inv, Sane, AppTypes
  <2>3. SameButQueue(app, app')
    BY <2>1, <2>2, PostsGood
  <2>4. app'.queue = Rest.queue \/ app'.queue = Append(Rest.queue, e)
    BY <2>1, <2>2, Taken, PostedSane
  <2> QED
    BY <2>1, <2>2, <2>3, <2>4, PostsSingle
<1>5. CASE HandleError \/ HandleDisconnected
  <2> DEFINE e == Event("quit")
  <2>1. PICK kind \in {"error", "disconnected"} :
          /\ Comes(kind) /\ UNCHANGED <<frames, main>>
          /\ app' = Rest \/ (app' = Posted(Rest, e) /\ (kind = "error" \/ frames # <<>>))
    BY <1>5 DEF HandleError, HandleDisconnected, Handle
  <2>2. e \in QueuedEvents /\ e.kind = "quit"
    BY EventTypes DEF Kinds, None
  <2>3. SameButQueue(app, app')
    BY <2>1, <2>2, PostsGood
  <2>4. \/ app'.queue = Rest.queue
        \/ app'.queue = Append(Rest.queue, e) /\ (kind = "error" \/ frames # <<>>)
    BY <2>1, <2>2, Taken, PostedSane
  <2> QED
    BY <2>1, <2>2, <2>3, <2>4, PostsSingle
<1>6. CASE HandleJoin
  <2>1. Comes("join") /\ UNCHANGED <<frames, main>> /\ SameButQueue(app, app')
    BY <1>6, JoinGood DEF HandleJoin, Handle
  <2>2. app' = Rest \/ app' = [Rest EXCEPT !.clients = @ \cup {app.server}]
    BY <1>6 DEF HandleJoin, Handle
  <2>3. app'.queue = Rest.queue
    BY <2>1, <2>2, Taken DEF Sane, AppTypes
  <2> QED
    BY <2>1, <2>3, PostsSingle
<1>7. CASE HandleHangup
  <2> DEFINE e == [kind |-> "disconnected", server |-> Target]
             b == [Rest EXCEPT !.clients = @ \ {Target}]
  <2>1. Comes("hangup") /\ UNCHANGED <<frames, main>> /\ SameButQueue(app, app')
    BY <1>7, HangupGood DEF HandleHangup, Handle
  <2>2. app' = Rest \/ app' = Posted(b, e)
    BY <1>7 DEF HandleHangup, Handle
  <2>3. Sane(Rest) /\ e \in QueuedEvents /\ e.kind = "disconnected"
    BY <2>1, Taken, EventTypes DEF Kinds
  <2>4. Sane(b) /\ b.queue = Rest.queue
    BY <2>3 DEF Sane, AppTypes, Waits
  <2> HIDE DEF b, e
  <2>5. app'.queue = Rest.queue \/ app'.queue = Append(Rest.queue, e)
    BY <2>2, <2>3, <2>4, PostedSane
  <2> QED
    BY <2>1, <2>3, <2>5, PostsSingle
<1>8. CASE HandleQuit
  <2>1. Comes("quit")
    BY <1>8 DEF HandleQuit
  <2>2. CASE frames = <<>>
    <3>1. Stop(Rest, "exit") /\ main' # "undefined"
      BY <1>8, <2>2 DEF HandleQuit, EndMainLoop
    <3> QED
      BY <2>1, <2>2, <3>1, StopSingle
  <2>3. CASE frames # <<>>
    <3>1. EndInnerLoop(Rest) /\ Sane(Rest) /\ SameButQueue(app, Rest) /\ Quiet(Rest.queue)
      BY <1>8, <2>1, <2>3, Taken, CalmTaken DEF HandleQuit
    <3>2. Last(frames).server = Rest.server /\ Rest.state = "started" /\ Front(frames) = <<>>
      BY <2>3, <3>1, FramesPop DEF Single, SameButQueue, Inv
    <3>3. Last(frames).server \in Rest.alive
      BY <3>1, <3>2 DEF Sane
    <3>4. frames' = <<>> /\ main' \in {"exited", main} /\ app'.queue \in {Rest.queue, <<>>}
      BY <2>3, <3>1, <3>2, <3>3, EndInnerLoopSteps
    <3>5. Alone(app'.queue)
      BY <3>1, <3>4, EmptyQueue, QuietAlone
    <3> QED
      BY <3>4, <3>5 DEF Single, Alone
  <2> QED
    BY <2>2, <2>3
<1> QED
  BY <1>1, <1>2, <1>3, <1>4, <1>5, <1>6, <1>7, <1>8 DEF Handlers

LEMMA OthersSingle ==
    ASSUME ~RequestsOverlap, Inv, Single, Fresh,
           Boot \/ ClosingTimerFires \/ RetryTimerFires \/ Arrival \/ UNCHANGED vars
    PROVE  Single'
<1>1. CASE Boot
  <2>1. PICK t \in StartServer(app) : app' = t.app
    BY <1>1 DEF Boot, At
  <2>2. app.queue = <<>> /\ frames' = <<>> /\ main' # "undefined" /\ app.state = "uninitialized"
    BY <1>1 DEF Boot, Fresh
  <2>3. app'.queue = <<>>
    BY <2>1, <2>2, StartSane DEF Inv
  <2> QED
    BY <2>2, <2>3, EmptyQueue DEF Single
<1>2. CASE ClosingTimerFires
  <2>1. PICK i \in DOMAIN frames : frames' = [frames EXCEPT ![i].timer = FALSE]
    BY <1>2 DEF ClosingTimerFires
  <2>2. app' = Posted(app, Event("quit")) /\ app.queue = <<>> /\ UNCHANGED main
    BY <1>2 DEF ClosingTimerFires
  <2>3. Event("quit") \in QueuedEvents /\ Event("quit").kind = "quit"
    BY EventTypes DEF Kinds, Requests, None
  <2>4. SameButQueue(app, app') /\ app'.queue = Append(app.queue, Event("quit"))
    BY <2>2, <2>3, PostedSane DEF Inv
  <2>5. Quiet(app'.queue)
    <3>1. app.queue \in Seq(QueuedEvents) /\ Quiet(app.queue) /\ Event("quit").kind \notin Outer
      BY <2>2, <2>3, EmptyQueue DEF Inv, Sane, AppTypes, Outer
    <3> QED
      BY <2>3, <2>4, <3>1, CalmAppend
  <2>6. frames # <<>> /\ Len(frames) = 1 /\ frames \in Seq(InnerLoops)
    BY <2>1 DEF Single, Inv
  <2>7. i = 1 /\ frames[1] \in InnerLoops
    BY <2>1, <2>6
  <2> DEFINE f == [frames[1] EXCEPT !.timer = FALSE]
  <2>8. f \in InnerLoops /\ f.server = frames[1].server
    BY <2>7 DEF InnerLoops
  <2> HIDE DEF f, InnerLoops
  <2>9. Len(frames') = 1 /\ frames'[1] = f
    <3>1. frames' = [frames EXCEPT ![1] = f]
      BY <2>1, <2>7 DEF f
    <3>2. 1 \in 1..Len(frames)
      BY <2>6
    <3> QED
      BY <2>6, <2>8, <3>1, <3>2, ExceptSeq
  <2> QED
    <3>1. frames' # <<>>
      BY <2>9
    <3>2. main' # "undefined" /\ app'.state = "started" /\ frames'[1].server = app'.server
      BY <2>2, <2>4, <2>6, <2>8, <2>9 DEF Single, SameButQueue
    <3> QED
      BY <2>5, <2>9, <3>1, <3>2 DEF Single, Quiet
<1>3. CASE RetryTimerFires
  <2>1. PICK t \in Retried(StopRetryTimer(app)) :
          app' = IF t.ok THEN t.app ELSE Posted(t.app, Event("quit"))
    BY <1>3 DEF RetryTimerFires, At
  <2>2. app.timer /\ app.queue = <<>> /\ UNCHANGED <<frames, main>>
    BY <1>3 DEF RetryTimerFires
  <2>3. frames = <<>>
    BY <2>2 DEF Single, Inv, Sane, Waits
  <2>4. Sane(t.app) /\ t.app.queue = <<>>
    BY <2>1, <2>2, RetriedSane
  <2>5. Event("quit") \in QueuedEvents /\ Event("quit").kind \notin Outer
    BY EventTypes DEF Kinds, Requests, None, Outer
  <2>6. app'.queue = t.app.queue \/ app'.queue = Append(t.app.queue, Event("quit"))
    BY <2>1, <2>4, <2>5, PostedSane
  <2>7. Quiet(t.app.queue) /\ Quiet(Append(t.app.queue, Event("quit")))
    <3>1. t.app.queue \in Seq(QueuedEvents) /\ Quiet(t.app.queue)
      BY <2>4, EmptyQueue DEF Sane, AppTypes
    <3> QED
      BY <2>5, <3>1, CalmAppend
  <2>8. Alone(app'.queue)
    BY <2>6, <2>7, QuietAlone
  <2> QED
    BY <2>2, <2>3, <2>8 DEF Single, Alone
<1>4. CASE Arrival
  <2>1. PICK e \in QueuedEvents : Arrives(e) /\ (e.kind \in Requests => Calm)
    BY <1>4, ArrivalKinds
  <2>2. SameButQueue(app, app')
    BY <2>1, ArrivalGood
  <2>3. app'.queue = Append(app.queue, e) /\ UNCHANGED <<frames, main>>
    BY <2>1, PostedSane DEF Arrives, Inv
  <2>4. app.queue \in Seq(QueuedEvents)
    BY DEF Inv, Sane, AppTypes
  <2>5. CASE e.kind \in Requests
    <3>1. frames = <<>> /\ \A i \in 1..Len(app.queue) : app.queue[i].kind \notin Requests
      BY <2>1, <2>4, <2>5 DEF Calm
    <3>2. Alone(app'.queue)
      BY <2>3, <2>4, <3>1, CalmAppend
    <3> QED
      BY <2>3, <3>1, <3>2 DEF Single, Alone
  <2>6. CASE e.kind \notin Requests
    <3>1. /\ frames = <<>> => Alone(app'.queue)
          /\ frames # <<>> => Quiet(app'.queue)
      BY <2>3, <2>4, <2>6, CalmAppend DEF Single, Outer
    <3> QED
      BY <2>2, <2>3, <3>1 DEF Single, SameButQueue, Alone, Quiet
  <2> QED
    BY <2>5, <2>6
<1>5. CASE UNCHANGED vars
  BY <1>5 DEF vars, Single, Alone, Quiet
<1> QED
  BY <1>1, <1>2, <1>3, <1>4, <1>5

\* There is one server with its listener just while the program is started, and none is
\* deleted twice (ServerApp::startServer, stopServer, closeServer), if no request comes
\* while another one waits or is handled.
THEOREM ServerKept == ASSUME ~RequestsOverlap PROVE Spec => []OneServer
<1>1. Init => Inv /\ Fresh /\ Single
  BY InvInit, EmptyQueue DEF Init, Fresh, Single
<1>2. Inv /\ Fresh /\ Single /\ [Next]_vars => (Inv /\ Fresh /\ Single)'
  <2> SUFFICES ASSUME Inv, Fresh, Single, [Next]_vars PROVE (Inv /\ Fresh /\ Single)'
    OBVIOUS
  <2>1. Inv' /\ Fresh'
    BY EveryStep DEF Good
  <2>2. Single'
    BY HandlersSingle, OthersSingle DEF Next, Arrival
  <2> QED
    BY <2>1, <2>2
<1>3. Inv /\ Single => OneServer
  BY DEF Inv, Sane, Single, OneServer
<1> QED
  BY <1>1, <1>2, <1>3, PTL DEF Spec
=============================================================================
