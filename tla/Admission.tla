----------------------------- MODULE Admission -----------------------------
(***************************************************************************)
(* What the server may expect of the listener: a connection is greeted,    *)
(* and either given up or put in line; the connections in line are served  *)
(* in their order, each once, until they are told to leave or go by        *)
(* themselves.                                                             *)
(***************************************************************************)
EXTENDS SequencesExt

CONSTANT Conns

VARIABLES
    stage,      \* where each connection is
    line        \* those that wait for the server, in order

vars == <<stage, line>>

Init == stage = [c \in Conns |-> "away"] /\ line = <<>>

Move(c, from, to) == stage[c] = from /\ stage' = [stage EXCEPT ![c] = to]

Greet(c) == Move(c, "away", "greeting") /\ UNCHANGED line

Pass(c) == Move(c, "greeting", "waiting") /\ line' = Append(line, c)

\* The server takes the first of the line, to serve it or to send it away.
Adopt ==
    /\ line # <<>> /\ line' = Tail(line)
    /\ \E to \in {"served", "leaving"} : Move(Head(line), "waiting", to)

Dismiss(c) == Move(c, "served", "leaving") /\ UNCHANGED line

Quit(c) ==
    /\ Move(c, "greeting", "gone") \/ Move(c, "served", "gone") \/ Move(c, "leaving", "gone")
    /\ UNCHANGED line

\* Someone who waits may leave the line.
Renounce(c) ==
    /\ Move(c, "waiting", "gone")
    /\ \E i \in DOMAIN line : line[i] = c /\ line' = RemoveAt(line, i)

\* The server stops: all are dismissed, or nobody is left.
DismissAll ==
    /\ stage' = [c \in Conns |-> IF stage[c] = "served" THEN "leaving" ELSE stage[c]]
    /\ UNCHANGED line

Close ==
    /\ stage' = [c \in Conns |-> IF stage[c] = "away" THEN "away" ELSE "gone"]
    /\ line' = <<>>

Next ==
    \/ Adopt \/ DismissAll \/ Close
    \/ \E c \in Conns : Greet(c) \/ Pass(c) \/ Dismiss(c) \/ Quit(c) \/ Renounce(c)

Spec == Init /\ [][Next]_vars
=============================================================================
