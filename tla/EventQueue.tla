----------------------------- MODULE EventQueue -----------------------------
(***************************************************************************)
(* The event queue (classes EventQueue and SimpleEventQueueBuffer): any    *)
(* thread posts events, and the main thread runs loops that take them out  *)
(* and run their handlers, and fires timers when no event waits.           *)
(*                                                                         *)
(* A step is what one thread does between two points where another may see *)
(* it: under m_mutex, or on what only the main thread uses.  A handler is  *)
(* the steps it takes in the queue: it posts, makes and deletes timers,    *)
(* replaces the buffer, and may run a loop of its own.                     *)
(*                                                                         *)
(* The table of handlers, and events delivered at once, are left out; so   *)
(* are the buffers of the platforms, which may refuse an event.            *)
(***************************************************************************)
EXTENDS Integers, Sequences, FiniteSets, Functions

CONSTANTS
    Threads,        \* the threads that post, other than the main thread
    Events,         \* what may be posted, each once
    Quits,          \* the events of type kQuit among them
    Timers,         \* EventQueueTimer objects
    Duration,       \* for each, the ticks it takes
    OneShot,        \* the timers that fire once
    StartRaces,     \* the loop may start while a thread is in addEvent
    MaxTicks,       \* bound on time
    MaxDepth,       \* bound on loops within loops
    MaxBuffers      \* bound on the buffers adopted

ASSUME EventQueueAssumption ==
    /\ Quits \subseteq Events /\ OneShot \subseteq Timers
    /\ Duration \in [Timers -> Nat \ {0}]
    /\ StartRaces \in BOOLEAN
    /\ MaxTicks \in Nat /\ MaxDepth \in Nat \ {0} /\ MaxBuffers \in Nat

VARIABLES
    ready,      \* m_readyCondVar
    pending,    \* m_pending
    table,      \* m_events: the events stored, by id
    oldIds,     \* m_oldEventIDs
    buffer,     \* m_buffer: ids, the next one first
    main,       \* where the main thread is
    popped,     \* the id it took from the buffer, and has not looked up yet
    depth,      \* how many loops it is in
    call,       \* per thread, the event that it found the queue not ready for
    timers,     \* m_timers and m_timerQueue
    clock,      \* m_time: the time since timers were last looked at
    posted,     \* history: the events posted, in order
    handled,    \* history: the events taken out, in order
    lost,       \* history: the events discarded with a buffer
    ticks,      \* bookkeeping: the time that has passed
    buffers     \* bookkeeping: the buffers adopted

storeVars == <<table, oldIds, buffer>>
loopVars == <<main, popped, depth>>
timerVars == <<timers, clock>>
vars == <<ready, pending, storeVars, loopVars, call, timerVars, posted, handled, lost,
          ticks, buffers>>

NoEvent == "none"

\* A timer is in the queue with the time left, or it has fired for good and waits
\* to be deleted; age is history: the time since it was made, or last fired.
TimerStates == [state : {"none", "queued", "fired"}, left : Int, age : Nat]
NoTimer == [state |-> "none", left |-> 0, age |-> 0]

TypeOK ==
    /\ ready \in BOOLEAN /\ pending \in Seq(Events)
    /\ DOMAIN table \subseteq Nat /\ \A i \in DOMAIN table : table[i] \in Events
    /\ oldIds \in Seq(Nat) /\ buffer \in Seq(Nat)
    /\ main \in {"outside", "draining", "getting", "popped", "handling", "ended"}
    /\ popped \in Seq(Nat) /\ Len(popped) = (IF main = "popped" THEN 1 ELSE 0)
    /\ depth \in 0..MaxDepth
    /\ call \in [Threads -> Events \cup {NoEvent}]
    /\ timers \in [Timers -> TimerStates] /\ clock \in Nat
    /\ posted \in Seq(Events) /\ handled \in Seq(Events) /\ lost \subseteq Events
    /\ ticks \in 0..MaxTicks /\ buffers \in 0..MaxBuffers

Init ==
    /\ ready = FALSE /\ pending = <<>>
    /\ table = [i \in {} |-> NoEvent] /\ oldIds = <<>> /\ buffer = <<>>
    /\ main = "outside" /\ popped = <<>> /\ depth = 0
    /\ call = [t \in Threads |-> NoEvent]
    /\ timers = [t \in Timers |-> NoTimer] /\ clock = 0
    /\ posted = <<>> /\ handled = <<>> /\ lost = {}
    /\ ticks = 0 /\ buffers = 0

-----------------------------------------------------------------------------
(* Storing events *)

\* Mutant: ids are made from the size of the table even when old ones are free.
SizeIsNewId == Cardinality(DOMAIN table)

\* saveEvent: an old id is used again, the last one that came free first.
NewId == IF oldIds # <<>> THEN oldIds[Len(oldIds)] ELSE Cardinality(DOMAIN table)

\* Mutant: an id that is used again stays in the list of free ones.
ReusedStaysFree(e) ==
    /\ table' = [i \in DOMAIN table \cup {NewId} |-> IF i = NewId THEN e ELSE table[i]]
    /\ UNCHANGED oldIds
    /\ buffer' = Append(buffer, NewId)

\* addEventToBuffer, which holds m_mutex
AddEventToBuffer(e) ==
    /\ table' = [i \in DOMAIN table \cup {NewId} |-> IF i = NewId THEN e ELSE table[i]]
    /\ oldIds' = IF oldIds # <<>> THEN SubSeq(oldIds, 1, Len(oldIds) - 1) ELSE oldIds
    /\ buffer' = Append(buffer, NewId)

\* removeEvent
RemoveEvent(id) ==
    /\ table' = [i \in DOMAIN table \ {id} |-> table[i]]
    /\ oldIds' = Append(oldIds, id)

-----------------------------------------------------------------------------
(* Posting *)

\* Bookkeeping: every event is posted once.
NewPost(e) ==
    /\ e \notin Range(posted) /\ \A t \in Threads : call[t] # e
    /\ posted' = Append(posted, e)

\* addEvent: until the loop starts, events are kept aside.
AddEvent(e) ==
    IF ready THEN AddEventToBuffer(e) /\ UNCHANGED pending
             ELSE pending' = Append(pending, e) /\ UNCHANGED storeVars

ThreadPosts(t, e) ==
    /\ call[t] = NoEvent /\ ready
    /\ NewPost(e) /\ AddEvent(e)
    /\ UNCHANGED <<ready, loopVars, call, timerVars, handled, lost, ticks, buffers>>

\* A thread that finds the queue not ready pushes the event later: no lock is held
\* from the test to the push.
ThreadTestsReady(t, e) ==
    /\ call[t] = NoEvent /\ ~ready
    /\ e \notin Range(posted) /\ \A u \in Threads : call[u] # e
    /\ call' = [call EXCEPT ![t] = e]
    /\ UNCHANGED <<ready, pending, storeVars, loopVars, timerVars, posted, handled, lost,
                   ticks, buffers>>

ThreadPushes(t) ==
    /\ call[t] # NoEvent
    /\ pending' = Append(pending, call[t]) /\ posted' = Append(posted, call[t])
    /\ call' = [call EXCEPT ![t] = NoEvent]
    /\ UNCHANGED <<ready, storeVars, loopVars, timerVars, handled, lost, ticks, buffers>>

\* The main thread does not only post from handlers: the server listens, and the
\* screen is set up, before the loop starts.
OutsideOrHandling == main \in {"outside", "handling"}

MainPosts(e) ==
    /\ OutsideOrHandling
    /\ NewPost(e) /\ AddEvent(e)
    /\ UNCHANGED <<ready, loopVars, call, timerVars, handled, lost, ticks, buffers>>

-----------------------------------------------------------------------------
(* The loop *)

\* loop, up to its first event: a handler may call it again.
EnterLoop ==
    /\ OutsideOrHandling /\ depth < MaxDepth
    /\ StartRaces \/ \A t \in Threads : call[t] = NoEvent
    /\ depth' = depth + 1
    /\ ready' = TRUE
    /\ main' = "draining"
    /\ UNCHANGED <<pending, storeVars, popped, call, timerVars, posted, handled, lost,
                   ticks, buffers>>

\* Mutant: the loop starts with the events that come in, and leaves those that
\* are pending.
LeavePending ==
    /\ main = "draining"
    /\ main' = "getting"
    /\ UNCHANGED <<pending, storeVars>>

\* One turn of the loop over m_pending.
DrainPending ==
    /\ main = "draining"
    /\ IF pending = <<>>
       THEN main' = "getting" /\ UNCHANGED <<pending, storeVars>>
       ELSE AddEventToBuffer(Head(pending)) /\ pending' = Tail(pending) /\ UNCHANGED main

Drain ==
    /\ DrainPending
    /\ UNCHANGED <<ready, popped, depth, call, timerVars, posted, handled, lost, ticks, buffers>>

\* getEvent of the buffer, without m_mutex ...
PopId ==
    /\ main = "getting" /\ buffer # <<>>
    /\ popped' = <<Head(buffer)>> /\ buffer' = Tail(buffer)
    /\ main' = "popped"
    /\ UNCHANGED <<ready, pending, table, oldIds, depth, call, timerVars, posted, handled, lost,
                   ticks, buffers>>

\* A quit event ends the loop that takes it out.
DepthAfter(e) == IF e \in Quits THEN depth - 1 ELSE depth

\* ... and then removeEvent under it.  When a loop has ended, the program ends, or
\* the handler that ran the loop goes on.
TakeEvent ==
    /\ main = "popped"
    /\ LET e == table[popped[1]]
       IN  /\ handled' = Append(handled, e)
           /\ main' = IF e \in Quits /\ depth = 1 THEN "ended" ELSE "handling"
           /\ depth' = DepthAfter(e)
    /\ RemoveEvent(popped[1])
    /\ popped' = <<>>
    /\ UNCHANGED <<ready, pending, buffer, call, timerVars, posted, lost, ticks, buffers>>

\* The handler is done, or there was none.
HandlerReturns ==
    /\ main = "handling"
    /\ main' = "getting"
    /\ UNCHANGED <<ready, pending, storeVars, popped, depth, call, timerVars, posted, handled,
                   lost, ticks, buffers>>

\* The events that a new buffer discards, all under m_mutex.
DiscardEvents == table' = [i \in {} |-> NoEvent] /\ oldIds' = <<>> /\ buffer' = <<>>

\* adoptBuffer, when a screen is made or deleted
AdoptBuffer ==
    /\ OutsideOrHandling /\ buffers < MaxBuffers
    /\ buffers' = buffers + 1
    /\ lost' = lost \cup {table[buffer[i]] : i \in DOMAIN buffer}
    /\ DiscardEvents
    /\ UNCHANGED <<ready, pending, loopVars, call, timerVars, posted, handled, ticks>>

-----------------------------------------------------------------------------
(* Timers *)

Queued == {t \in Timers : timers[t].state = "queued"}

\* Mutant: a new timer does not allow for the time on the clock.
FirstTime(t) == Duration[t]

\* "initial duration is requested duration plus whatever's on the clock currently
\* because the latter will be subtracted the next time we check for timers"
InitialTime(t) == Duration[t] + clock

\* newTimer, newOneShotTimer
NewTimer(t) ==
    /\ OutsideOrHandling /\ timers[t].state = "none"
    /\ timers' = [timers EXCEPT ![t] = [state |-> "queued", left |-> InitialTime(t), age |-> 0]]
    /\ UNCHANGED <<ready, pending, storeVars, loopVars, call, clock, posted, handled, lost,
                   ticks, buffers>>

DeleteTimer(t) ==
    /\ OutsideOrHandling /\ timers[t].state # "none"
    /\ timers' = [timers EXCEPT ![t] = NoTimer]
    /\ UNCHANGED <<ready, pending, storeVars, loopVars, call, clock, posted, handled, lost,
                   ticks, buffers>>

\* The timers with what is on the clock taken off.
CountedDown == [t \in Timers |-> IF t \in Queued THEN [timers[t] EXCEPT !.left = @ - clock]
                                                 ELSE timers[t]]

\* Timer::reset, and back into the queue if it is not a one-shot timer
Refilled(t) == [state |-> IF t \in OneShot THEN "fired" ELSE "queued",
                left |-> Duration[t], age |-> 0]

\* Timer::fillEvent: how many times the timer would have fired
FireCount(t) == (Duration[t] - CountedDown[t].left) \div Duration[t]

\* hasTimerExpired, looked at when no event waits: of the timers that have expired
\* the one that did first fires, and its handler runs.
FiresNext(t) ==
    /\ t \in Queued /\ CountedDown[t].left <= 0
    /\ \A u \in Queued : CountedDown[t].left <= CountedDown[u].left

CheckTimers ==
    /\ main = "getting" /\ buffer = <<>> /\ Queued # {}
    /\ clock' = 0
    /\ \/ /\ \A t \in Queued : CountedDown[t].left > 0
          /\ timers' = CountedDown /\ UNCHANGED main
       \/ \E t \in Queued :
            /\ FiresNext(t)
            /\ timers' = [CountedDown EXCEPT ![t] = Refilled(t)]
            /\ main' = "handling"
    /\ UNCHANGED <<ready, pending, storeVars, popped, depth, call, posted, handled, lost,
                   ticks, buffers>>

Tick ==
    /\ ticks < MaxTicks /\ main # "ended"
    /\ ticks' = ticks + 1 /\ clock' = clock + 1
    /\ timers' = [t \in Timers |-> IF t \in Queued THEN [timers[t] EXCEPT !.age = @ + 1]
                                                   ELSE timers[t]]
    /\ UNCHANGED <<ready, pending, storeVars, loopVars, call, posted, handled, lost, buffers>>

-----------------------------------------------------------------------------

MainStep == EnterLoop \/ Drain \/ PopId \/ TakeEvent \/ CheckTimers

Next ==
    \/ \E t \in Threads : ThreadPushes(t)
    \/ \E t \in Threads, e \in Events : ThreadPosts(t, e) \/ ThreadTestsReady(t, e)
    \/ \E e \in Events : MainPosts(e)
    \/ MainStep \/ HandlerReturns \/ AdoptBuffer
    \/ \E t \in Timers : NewTimer(t) \/ DeleteTimer(t)
    \/ Tick

\* Threads run; the main thread starts a loop, goes on with it, and its handlers
\* return.
Fairness ==
    /\ \A t \in Threads : WF_vars(ThreadPushes(t))
    /\ WF_vars(EnterLoop /\ main = "outside")
    /\ WF_vars(Drain \/ PopId \/ TakeEvent) /\ WF_vars(HandlerReturns)

Spec == Init /\ [][Next]_vars /\ Fairness

-----------------------------------------------------------------------------
(* Properties *)

\* The ids in the buffer, with the one that was just taken out.
Waiting == popped \o buffer

\* Every id is either in use or free, and none is left out: an id in the buffer
\* stands for a stored event that no other id in the buffer stands for, however
\* ids were used again and buffers replaced (EventQueue::saveEvent, removeEvent).
IdsAccounted ==
    /\ Range(Waiting) = DOMAIN table /\ IsInjective(Waiting)
    /\ IsInjective(oldIds) /\ Range(oldIds) \cap DOMAIN table = {}
    /\ Range(oldIds) \cup DOMAIN table = 0..(Len(Waiting) + Len(oldIds) - 1)

\* A timer is neither early nor does its count miss or invent a period: what is
\* left, less what is on the clock, is its duration less its true age, though
\* timers are made while time is on the clock and looked at only between events
\* (EventQueue::newTimer, hasTimerExpired).
TimersExact ==
    \A t \in Queued : timers[t].left - clock = Duration[t] - timers[t].age

\* Seen through the table, the buffer is the queue of events that is promised.
Delivery == INSTANCE EventDelivery WITH
                started <- ready, early <- pending, delivered <- handled,
                queue <- [i \in DOMAIN Waiting |-> table[Waiting[i]]]

\* Events are delivered in the order they were let in, each to be taken out as the
\* event that was posted (EventQueue::addEvent, getEvent; IEventQueue.h:102).
DeliversInOrder == Delivery!Spec

Reached(e) ==
    \/ e \in Range(handled) \cup lost
    \/ main = "ended"

\* Whatever is posted is handled, also before the loop starts, unless a new buffer
\* discards it or the program ends (EventQueue::loop, "add pending events to
\* buffer").
PostedIsHandled == \A e \in Events : e \in Range(posted) ~> Reached(e)

\* IEventQueue.h:102, "Adds event to the end of the queue".
AddedAtEnd ==
    \A i, j \in DOMAIN handled : i < j =>
        \E k, l \in DOMAIN posted :
            k < l /\ posted[k] = handled[i] /\ posted[l] = handled[j]

\* IEventQueue.h:132, "The c_count member of the TimerEvent is always 1" for a
\* timer that fires once.
OneShotCountsOne ==
    \A t \in OneShot : main = "getting" /\ buffer = <<>> /\ t \in Queued /\ FiresNext(t)
        => FireCount(t) = 1
=============================================================================
