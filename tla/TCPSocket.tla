----------------------------- MODULE TCPSocket -----------------------------
(***************************************************************************)
(* One socket as the threads that use it see it: the flags and buffers of  *)
(* class TCPSocket, the jobs it hands to the multiplexer, and what running *)
(* a job does to it.  The operators return values; SocketMultiplexer says  *)
(* which thread applies them and when.                                     *)
(*                                                                         *)
(* A buffer is a flag: it holds something or nothing.  The events a socket *)
(* posts stay in its field posted until they are handled.                  *)
(***************************************************************************)
EXTENDS Integers

Posts == {"connecting", "connected", "connectionFailed", "inputReady", "disconnected"}

\* phase says whether the object exists and has its m_socket.  brokeOff is history, for
\* the properties: a read put bytes in the empty input buffer, where they are, and failed.
SocketStates ==
    [phase : {"free", "live", "closed"}, connected : BOOLEAN, readable : BOOLEAN,
     writable : BOOLEAN, input : BOOLEAN, output : BOOLEAN, brokeOff : BOOLEAN,
     posted : SUBSET Posts]

\* The other end and the wire between: arrived says that the kernel has bytes for us.
PeerStates == [state : {"dialing", "open", "shut", "gone"}, arrived : BOOLEAN]

FreshSocket ==
    [phase |-> "free", connected |-> FALSE, readable |-> FALSE, writable |-> FALSE,
     input |-> FALSE, output |-> FALSE, brokeOff |-> FALSE, posted |-> {}]

ClosedSocket == [FreshSocket EXCEPT !.phase = "closed"]

Post(d, e) == [d EXCEPT !.posted = @ \cup {e}]

OnConnected(d) == [d EXCEPT !.connected = TRUE, !.readable = TRUE, !.writable = TRUE]

\* Mutant: those who wait in flush are not told that the output is shut down.
OutputShutdownUnflushed(d) == [d EXCEPT !.writable = FALSE]

OnOutputShutdown(d) == [d EXCEPT !.output = FALSE, !.writable = FALSE]

OnDisconnected(d) ==
    [OnOutputShutdown(d) EXCEPT !.input = FALSE, !.readable = FALSE, !.connected = FALSE]

-----------------------------------------------------------------------------
(* Jobs *)

NoJob == [kind |-> "none", read |-> FALSE, write |-> FALSE]

Jobs == [kind : {"connecting", "connected", "listening"},
         read : BOOLEAN, write : BOOLEAN] \cup {NoJob}

ListeningJob == [kind |-> "listening", read |-> TRUE, write |-> FALSE]

HasOutput(d) == d.writable /\ d.output

\* newJob reads the flags twice: chosen are those that decide whether there is a
\* job, passed are those the job is made with.
JobFrom(chosen, passed) ==
    CASE chosen.phase # "live" -> NoJob
      [] ~chosen.connected /\ ~chosen.readable /\ ~chosen.writable -> NoJob
      [] chosen.connected /\ ~chosen.readable /\ ~HasOutput(chosen) -> NoJob
      [] ~chosen.connected ->
           [kind |-> "connecting", read |-> passed.readable, write |-> passed.writable]
      [] OTHER ->
           [kind |-> "connected", read |-> passed.readable, write |-> HasOutput(passed)]

NewJob(d) == JobFrom(d, d)

\* Between two states of a socket, what a thread without its mutex may see of it.
Glimpses(old, new) ==
    { [new EXCEPT !.connected = conn, !.readable = rd, !.writable = wr, !.output = out] :
        conn \in {old.connected, new.connected}, rd \in {old.readable, new.readable},
        wr \in {old.writable, new.writable}, out \in {old.output, new.output} }

\* newJob called without the mutex, while the service thread may change the flags.
UnlockedJobs(old, new) ==
    { JobFrom(chosen, passed) :
        chosen \in Glimpses(old, new), passed \in Glimpses(old, new) }

-----------------------------------------------------------------------------
(* What the owner of a socket does to it, under its mutex *)

\* Mutant: the last read does not look whether the connection is over.
EmptiedOnly(d) == [d EXCEPT !.input = FALSE, !.brokeOff = FALSE]

\* read empties the buffer, and notices that nothing can come or go any more.
Emptied(d) ==
    LET rest == [d EXCEPT !.input = FALSE, !.brokeOff = FALSE]
    IN  IF d.input /\ ~d.readable /\ ~d.writable
        THEN [Post(rest, "disconnected") EXCEPT !.connected = FALSE]
        ELSE rest

-----------------------------------------------------------------------------
(* Running a job, under the mutex: outcomes are the socket and the job result *)

Retry(d) == [socket |-> d, result |-> "retry"]
New(d) == [socket |-> d, result |-> "new"]

\* Both directions are over: the connection is.
OverIf(cond, d) ==
    IF cond THEN [Post(d, "disconnected") EXCEPT !.connected = FALSE] ELSE d

\* doWrite, and the handlers of what it throws.
WriteOutcomes(d, peer) ==
    IF peer.state # "gone"
    THEN {Retry(d)} \cup (IF d.output THEN {New(d), New([d EXCEPT !.output = FALSE])} ELSE {})
    ELSE { New(OverIf(~d.readable /\ ~d.input, OnOutputShutdown(d))),
           New(Post(OnDisconnected(d), "disconnected")) }
         \cup (IF d.output THEN {} ELSE {Retry(d)})

\* doRead after the outcome w of the write, and the handlers of what it throws: an
\* error that is neither a hangup nor a disconnection leaves w as it is.
Hungup(d) == New([OverIf(~d.writable /\ ~d.input, d) EXCEPT !.readable = FALSE])

\* Mutant: whether the buffer was empty is asked after the bytes are in it.
ReadOutcomesLate(w, peer) ==
    {IF peer.arrived THEN Retry([w.socket EXCEPT !.input = TRUE]) ELSE Hungup(w.socket)}

\* doRead reads on until nothing is left, and only then says that there is input: an
\* error that ends it before leaves the bytes in the buffer and says nothing.
Unsaid(w) ==
    LET d == w.socket
    IN  [socket |-> [d EXCEPT !.input = TRUE, !.brokeOff = @ \/ ~d.input], result |-> w.result]

\* Errors come when the peer is gone, and then at any read.
ReadOutcomes(w, peer) ==
    LET d == w.socket
    IN  (IF peer.arrived
         THEN {Retry([(IF d.input THEN d ELSE Post(d, "inputReady")) EXCEPT !.input = TRUE])}
         ELSE {Hungup(d)})
        \cup (IF peer.state = "gone"
              THEN {IF peer.arrived THEN Unsaid(w) ELSE w,
                    New(Post(OnDisconnected(d), "disconnected"))}
              ELSE {})

\* The job is kept unless the last call wanted a new one.
Kept(job, o) == [socket |-> o.socket, job |-> IF o.result = "new" THEN NewJob(o.socket) ELSE job]

ServiceConnected(d, job, got, peer) ==
    IF "error" \in got
    THEN LET over == OnDisconnected(Post(d, "disconnected"))
         IN  {[socket |-> over, job |-> NewJob(over)]}
    ELSE LET written == IF "write" \in got THEN WriteOutcomes(d, peer) ELSE {Retry(d)}
         IN  { Kept(job, o) :
                 o \in UNION { IF "read" \in got /\ w.socket.readable
                               THEN ReadOutcomes(w, peer) ELSE {w} : w \in written } }

ServiceConnecting(d, job, got, peer) ==
    CASE peer.state = "gone" ->
           LET failed == OnDisconnected(Post(d, "connectionFailed"))
           IN  {[socket |-> failed, job |-> NewJob(failed)]}
      [] peer.state # "gone" /\ "write" \in got ->
           LET up == Post(OnConnected(d), "connected")
           IN  {[socket |-> up, job |-> NewJob(up)]}
      [] OTHER -> {[socket |-> d, job |-> job]}

\* After a client asked for a connection the listening socket is left alone until
\* the connection is accepted.
ServiceListening(d, job, got) ==
    {IF "read" \in got THEN [socket |-> Post(d, "connecting"), job |-> NoJob]
     ELSE [socket |-> d, job |-> job]}

\* run: the job's method on the socket.
RunOutcomes(d, job, got, peer) ==
    CASE job.kind = "listening" -> ServiceListening(d, job, got)
      [] job.kind = "connecting" -> ServiceConnecting(d, job, got, peer)
      [] job.kind = "connected" -> ServiceConnected(d, job, got, peer)

-----------------------------------------------------------------------------
(* pollSocket: what the kernel reports for an entry, besides errors *)

Reports(entry, peer) ==
    (IF entry.read /\ (peer.arrived \/ peer.state \in {"shut", "gone"}) THEN {"read"} ELSE {})
    \cup (IF entry.write /\ peer.state # "dialing" THEN {"write"} ELSE {})
=============================================================================
