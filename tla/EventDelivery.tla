--------------------------- MODULE EventDelivery ---------------------------
(***************************************************************************)
(* What the event queue promises to those that post events (IEventQueue.h: *)
(* "Adds event to the end of the queue", "Returns the next event on the    *)
(* queue"), without the ids under which events are stored.                 *)
(*                                                                         *)
(* Events that are posted before the loop starts wait in a queue of their  *)
(* own; once it has started they are let in one at a time, and events that *)
(* are posted meanwhile may come before them.                              *)
(***************************************************************************)
EXTENDS Sequences

CONSTANT Events

VARIABLES
    started,    \* the loop has started
    early,      \* posted before that, and not let in yet
    queue,      \* the events to deliver
    delivered   \* those that were, in order

vars == <<started, early, queue, delivered>>

Init == started = FALSE /\ early = <<>> /\ queue = <<>> /\ delivered = <<>>

Start == started' = TRUE /\ UNCHANGED <<early, queue, delivered>>

PostEarly(e) ==
    /\ ~started
    /\ early' = Append(early, e)
    /\ UNCHANGED <<started, queue, delivered>>

Admit ==
    /\ started /\ early # <<>>
    /\ queue' = Append(queue, Head(early)) /\ early' = Tail(early)
    /\ UNCHANGED <<started, delivered>>

Post(e) ==
    /\ started
    /\ queue' = Append(queue, e)
    /\ UNCHANGED <<started, early, delivered>>

Deliver ==
    /\ started /\ queue # <<>>
    /\ delivered' = Append(delivered, Head(queue)) /\ queue' = Tail(queue)
    /\ UNCHANGED <<started, early>>

\* A new buffer: "any queued events are discarded".
Discard == queue' = <<>> /\ UNCHANGED <<started, early, delivered>>

Next ==
    \/ Start \/ Admit \/ Deliver \/ Discard
    \/ \E e \in Events : PostEarly(e) \/ Post(e)

Spec == Init /\ [][Next]_vars
=============================================================================
