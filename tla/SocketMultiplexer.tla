------------------------- MODULE SocketMultiplexer -------------------------
(***************************************************************************)
(* The multiplexer that services every socket from one thread, with the    *)
(* threads that add and remove jobs while it does (classes                 *)
(* SocketMultiplexer, TCPListenSocket and TCPSocket).                      *)
(*                                                                         *)
(* The job list has two locks.  A thread takes the lock on the lock, then  *)
(* breaks the service thread out of its poll, and only then waits for the  *)
(* list.  The service thread polls and runs jobs with the list locked.     *)
(* Each step below is what one thread does between two points where        *)
(* another may see it: under m_mutex, under the mutex of a socket, or with *)
(* the list locked.  Condition variables are awaited in loops that look    *)
(* again, so a wait is a guard.                                            *)
(***************************************************************************)
EXTENDS TCPSocket, Sequences, FiniteSets, SequencesExt, TLC

CONSTANTS
    Callers,        \* threads that use sockets: the event loop, and others
    Listener,       \* the listening socket
    Incoming,       \* data sockets that accept may make
    Outgoing,       \* data sockets that connect
    ListenerOwner,  \* the thread that listens and accepts
    OutgoingOwner,  \* the thread of each outgoing socket
    HasPolled,      \* the service thread has polled before
    AcceptFails,    \* accept may throw
    MaxActs         \* bound on writes, closes and what the peers do

Data == Incoming \cup Outgoing
Sockets == Data \cup {Listener}
Service == "service"
Nobody == "nobody"
Threads == Callers \cup {Service}

ASSUME SocketMultiplexerAssumption ==
    /\ Listener \notin Data /\ Incoming \cap Outgoing = {}
    /\ Service \notin Callers /\ Nobody \notin Callers
    /\ ListenerOwner \in Callers /\ OutgoingOwner \in [Outgoing -> Callers]
    /\ HasPolled \in BOOLEAN /\ AcceptFails \in BOOLEAN
    /\ MaxActs \in Nat

Owner(s) == IF s \in Outgoing THEN OutgoingOwner[s] ELSE ListenerOwner

VARIABLES
    lockLocker, \* m_jobListLockLocked and m_jobListLockLocker
    listLocker, \* m_jobListLock and m_jobListLocker
    jobs,       \* m_socketJobs and m_socketJobMap: in list order
    update,     \* m_update
    jobsReady,  \* m_jobsReady
    service,    \* where the service thread is
    pfds,       \* its poll entries, with what the last poll reported
    cursor,     \* the next job of the list and the next poll entry
    piped,      \* the service thread has its unblock pipe
    poked,      \* there are bytes in it
    sock,       \* the sockets
    peer,       \* and what is at the other end of each
    call,       \* per caller, the call it is in
    acts        \* bookkeeping: writes, closes and acts of peers so far

vars == <<lockLocker, listLocker, jobs, update, jobsReady, service, pfds, cursor,
          piped, poked, sock, peer, call, acts>>
listVars == <<jobs, update, jobsReady>>
serviceVars == <<service, pfds, cursor>>
pipeVars == <<piped, poked>>

\* at is the step the call takes next; seen is the socket as the call left it when
\* it gave up its mutex; after is what follows the change of the job list.
Calls == [at : {"idle", "job", "lock", "poke", "list", "edit", "shut", "read", "flush"},
          socket : Sockets, job : Jobs, seen : SocketStates,
          after : {"idle", "listen", "shut"}]

\* A caller that works on s without changing the list, and one that is in no call.
Doing(at, s) ==
    [at |-> at, socket |-> s, job |-> NoJob, seen |-> FreshSocket, after |-> "idle"]

Idle == Doing("idle", Listener)

Entries == [socket : Sockets, read : BOOLEAN, write : BOOLEAN,
            got : SUBSET {"read", "write", "error"}]

TypeOK ==
    /\ lockLocker \in Threads \cup {Nobody} /\ listLocker \in Threads \cup {Nobody}
    /\ jobs \in Seq([socket : Sockets, job : Jobs]) /\ Len(jobs) <= Cardinality(Sockets)
    /\ update \in BOOLEAN /\ jobsReady \in BOOLEAN
    /\ service \in {"ready", "lock", "list", "poll", "run", "sweep"}
    /\ pfds \in Seq(Entries) /\ Len(pfds) <= Cardinality(Sockets)
    /\ cursor \in [job : Nat, entry : Nat]
    /\ piped \in BOOLEAN /\ poked \in BOOLEAN
    /\ sock \in [Sockets -> SocketStates] /\ peer \in [Sockets -> PeerStates]
    /\ call \in [Callers -> Calls] /\ acts \in 0..MaxActs

Init ==
    /\ lockLocker = Nobody /\ listLocker = Nobody
    /\ jobs = <<>> /\ update = FALSE /\ jobsReady = FALSE
    /\ service = "ready" /\ pfds = <<>> /\ cursor = [job |-> 1, entry |-> 1]
    /\ piped = HasPolled /\ poked = FALSE
    /\ sock = [s \in Sockets |-> FreshSocket]
    /\ peer = [s \in Sockets |-> [state |-> IF s \in Outgoing THEN "dialing" ELSE "open",
                                  arrived |-> FALSE]]
    /\ call = [c \in Callers |-> Idle] /\ acts = 0

-----------------------------------------------------------------------------
(* Changing a job: setJob, addSocket, removeSocket *)

\* A caller starts to set a job it has in hand.
Setting(s, job, after) ==
    [at |-> "lock", socket |-> s, job |-> job, seen |-> FreshSocket, after |-> after]

\* It makes the job first, without the mutex of the socket, which it left as d.
MakingJob(s, d, after) ==
    [at |-> "job", socket |-> s, job |-> NoJob, seen |-> d, after |-> after]

MakeJob(c) ==
    /\ call[c].at = "job"
    /\ \E job \in UnlockedJobs(call[c].seen, sock[call[c].socket]) :
         call' = [call EXCEPT ![c] = Setting(@.socket, job, @.after)]
    /\ UNCHANGED <<lockLocker, listLocker, listVars, serviceVars, pipeVars, sock, peer, acts>>

\* lockJobListLock
LockJobListLock(c) ==
    /\ call[c].at = "lock" /\ lockLocker = Nobody
    /\ lockLocker' = c
    /\ call' = [call EXCEPT ![c].at = "poke"]
    /\ UNCHANGED <<listLocker, listVars, serviceVars, pipeVars, sock, peer, acts>>

\* Mutant: the service thread is not broken out of its poll.
DoNotUnblock(c) ==
    /\ call[c].at = "poke"
    /\ call' = [call EXCEPT ![c].at = "list"]
    /\ UNCHANGED <<lockLocker, listLocker, listVars, serviceVars, pipeVars, sock, peer, acts>>

\* unblockPollSocket.  Until the service thread has its pipe, the byte goes into a
\* new pipe that becomes the caller's own.
UnblockPollSocket(c) ==
    /\ call[c].at = "poke"
    /\ poked' = piped
    /\ call' = [call EXCEPT ![c].at = "list"]
    /\ UNCHANGED <<lockLocker, listLocker, listVars, serviceVars, piped, sock, peer, acts>>

\* lockJobList
LockJobList(c) ==
    /\ call[c].at = "list" /\ listLocker = Nobody
    /\ listLocker' = c /\ lockLocker' = Nobody
    /\ call' = [call EXCEPT ![c].at = "edit"]
    /\ UNCHANGED <<listVars, serviceVars, pipeVars, sock, peer, acts>>

\* What follows once the job is set: accept goes on to listen again, and close to
\* close the socket.
Following(c) ==
    CASE call[c].after = "idle" -> Idle
      [] call[c].after = "listen" -> Setting(Listener, ListeningJob, "idle")
      [] call[c].after = "shut" -> Doing("shut", call[c].socket)

PlaceOf(s) == SelectInSeq(jobs, LAMBDA e : e.socket = s)

\* The list with the job of s set.  A removed job leaves its place, so that the
\* list stays in the order of the poll entries; the service thread takes it away.
ListWith(s, job) ==
    CASE PlaceOf(s) > 0 -> [jobs EXCEPT ![PlaceOf(s)].job = job]
      [] PlaceOf(s) = 0 /\ job = NoJob -> jobs
      [] OTHER -> Append(jobs, [socket |-> s, job |-> job])

\* Mutant: a job put in the place of another, or taken away, is not polled for anew.
OutdatesNewOnly(s, job) == PlaceOf(s) = 0

\* The poll entries are to be collected again.
Outdates(s, job) == job # NoJob \/ (PlaceOf(s) > 0 /\ jobs[PlaceOf(s)].job # NoJob)

\* The change of addSocket or removeSocket, and unlockJobList.
EditJobList(c) ==
    /\ call[c].at = "edit"
    /\ jobs' = ListWith(call[c].socket, call[c].job)
    /\ update' = (update \/ Outdates(call[c].socket, call[c].job))
    /\ jobsReady' = (jobs' # <<>>)
    /\ listLocker' = Nobody
    /\ call' = [call EXCEPT ![c] = Following(c)]
    /\ UNCHANGED <<lockLocker, serviceVars, pipeVars, sock, peer, acts>>

-----------------------------------------------------------------------------
(* What the callers do with their sockets *)

\* Bookkeeping for the bound.
Counted == acts < MaxActs /\ acts' = acts + 1

\* A call on s by its owner, which changes the socket to d under its mutex and
\* goes on as n.
Calling(s, d, n) ==
    /\ call[Owner(s)].at = "idle"
    /\ sock' = [sock EXCEPT ![s] = d]
    /\ call' = [call EXCEPT ![Owner(s)] = n]
    /\ UNCHANGED <<lockLocker, listLocker, listVars, serviceVars, pipeVars, peer>>

Live(s) == sock[s].phase = "live"

Born == [FreshSocket EXCEPT !.phase = "live"]

\* TCPListenSocket::bind
Bind ==
    /\ sock[Listener].phase = "free"
    /\ Calling(Listener, Born, Setting(Listener, ListeningJob, "idle"))
    /\ UNCHANGED acts

\* Mutant: the listening socket does not get its job again.
AcceptOnly(s) ==
    /\ Live(Listener) /\ "connecting" \in sock[Listener].posted
    /\ sock[s].phase = "free"
    /\ call[ListenerOwner].at = "idle"
    /\ LET d == Post(OnConnected(Born), "connected")
       IN  /\ sock' = [sock EXCEPT ![s] = d, ![Listener].posted = {}]
           /\ call' = [call EXCEPT ![ListenerOwner] = MakingJob(s, d, "idle")]
    /\ peer' = [peer EXCEPT ![Listener].arrived = FALSE]
    /\ UNCHANGED <<lockLocker, listLocker, listVars, serviceVars, pipeVars, acts>>

\* accept: the new socket is connected, gets its job, and then the listening
\* socket gets its own again.
Accept(s) ==
    /\ Live(Listener) /\ "connecting" \in sock[Listener].posted
    /\ sock[s].phase = "free"
    /\ call[ListenerOwner].at = "idle"
    /\ LET d == Post(OnConnected(Born), "connected")
       IN  /\ sock' = [sock EXCEPT ![s] = d, ![Listener].posted = {}]
           /\ call' = [call EXCEPT ![ListenerOwner] = MakingJob(s, d, "listen")]
    /\ peer' = [peer EXCEPT ![Listener].arrived = FALSE]
    /\ UNCHANGED <<lockLocker, listLocker, listVars, serviceVars, pipeVars, acts>>

\* accept throws before there is a socket: no job is set.
AcceptThrows ==
    /\ AcceptFails /\ Live(Listener) /\ "connecting" \in sock[Listener].posted
    /\ Calling(Listener, [sock[Listener] EXCEPT !.posted = {}], Idle)
    /\ UNCHANGED acts

\* connect: at once, or in progress.
Connect(s) ==
    /\ sock[s].phase = "free"
    /\ call[Owner(s)].at = "idle"
    /\ \E d \in {Post(OnConnected(Born), "connected"), [Born EXCEPT !.writable = TRUE]} :
         /\ sock' = [sock EXCEPT ![s] = d]
         /\ peer' = [peer EXCEPT ![s].state = IF d.connected THEN "open" ELSE "dialing"]
         /\ call' = [call EXCEPT ![Owner(s)] = MakingJob(s, d, "idle")]
    /\ UNCHANGED <<lockLocker, listLocker, listVars, serviceVars, pipeVars, acts>>

\* Mutant: a write never waits for the socket to become writable.
WriteOnly(s) ==
    /\ Live(s) /\ "connected" \in sock[s].posted /\ sock[s].writable
    /\ Counted
    /\ Calling(s, [sock[s] EXCEPT !.output = TRUE], Idle)

\* write, which nothing does before it knows that the socket is connected; when
\* the output is shut down it only posts an event.
Write(s) ==
    /\ Live(s) /\ "connected" \in sock[s].posted /\ sock[s].writable
    /\ Counted
    /\ LET d == [sock[s] EXCEPT !.output = TRUE]
       IN  Calling(s, d, IF sock[s].output THEN Idle ELSE MakingJob(s, d, "idle"))

\* The owner handles inputReady: it reads until read returns nothing.
HandleInputReady(s) ==
    /\ Live(s) /\ "inputReady" \in sock[s].posted
    /\ Calling(s, [sock[s] EXCEPT !.posted = @ \ {"inputReady"}],
               Doing("read", s))
    /\ UNCHANGED acts

Read(c) ==
    /\ call[c].at = "read"
    /\ LET s == call[c].socket
       IN  /\ sock' = [sock EXCEPT ![s] = Emptied(sock[s])]
           /\ call' = [call EXCEPT ![c] = IF sock[s].input THEN @ ELSE Idle]
    /\ UNCHANGED <<lockLocker, listLocker, listVars, serviceVars, pipeVars, peer, acts>>

\* flush blocks the caller until the output is gone.
StartFlush(s) ==
    /\ Live(s) /\ "connected" \in sock[s].posted
    /\ Calling(s, sock[s], Doing("flush", s))
    /\ UNCHANGED acts

FlushReturns(c) ==
    /\ call[c].at = "flush" /\ ~sock[call[c].socket].output
    /\ call' = [call EXCEPT ![c] = Idle]
    /\ UNCHANGED <<lockLocker, listLocker, listVars, serviceVars, pipeVars, sock, peer, acts>>

\* Mutant: the socket is closed, and its job stays.
CloseOnly(s) ==
    /\ Live(s)
    /\ Calling(s, sock[s], Doing("shut", s))
    /\ Counted

\* close removes the job, and then closes the socket; nothing uses it afterwards.
Close(s) ==
    /\ Live(s)
    /\ Calling(s, sock[s], Setting(s, NoJob, "shut"))
    /\ Counted

CloseSocket(c) ==
    /\ call[c].at = "shut"
    /\ sock' = [sock EXCEPT ![call[c].socket] = ClosedSocket]
    /\ peer' = [peer EXCEPT ![call[c].socket] = [state |-> "gone", arrived |-> FALSE]]
    /\ call' = [call EXCEPT ![c] = Idle]
    /\ UNCHANGED <<lockLocker, listLocker, listVars, serviceVars, pipeVars, acts>>

-----------------------------------------------------------------------------
(* The service thread *)

AwaitJobs ==
    /\ service = "ready" /\ jobsReady
    /\ service' = "lock"
    /\ UNCHANGED <<lockLocker, listLocker, listVars, pfds, cursor, pipeVars, sock, peer, call, acts>>

ServiceLocksLock ==
    /\ service = "lock" /\ lockLocker = Nobody
    /\ lockLocker' = Service /\ service' = "list"
    /\ UNCHANGED <<listLocker, listVars, pfds, cursor, pipeVars, sock, peer, call, acts>>

\* The jobs in the places of list q, in order.
JobsIn(q) ==
    LET upTo[n \in 0..Len(q)] ==
          IF n = 0 THEN <<>>
          ELSE IF q[n].job = NoJob THEN upTo[n - 1] ELSE Append(upTo[n - 1], q[n])
    IN  upTo[Len(q)]

EntryOf(e) == [socket |-> e.socket, read |-> e.job.read, write |-> e.job.write, got |-> {}]

\* Once it has the list the service thread collects its poll entries, unless
\* nothing changed; with none it does not poll.
ServiceLocksList ==
    /\ service = "list" /\ listLocker = Nobody
    /\ listLocker' = Service /\ lockLocker' = Nobody
    /\ LET kept == JobsIn(jobs)
       IN  pfds' = IF update THEN [i \in DOMAIN kept |-> EntryOf(kept[i])] ELSE pfds
    /\ update' = FALSE
    /\ service' = IF pfds' = <<>> THEN "sweep" ELSE "poll"
    /\ UNCHANGED <<jobs, jobsReady, cursor, pipeVars, sock, peer, call, acts>>

\* The first poll makes the thread's unblock pipe.
MakePipe ==
    /\ service = "poll" /\ ~piped
    /\ piped' = TRUE
    /\ UNCHANGED <<lockLocker, listLocker, listVars, serviceVars, poked, sock, peer, call, acts>>

\* The poll returns when a socket has something to report, or when the pipe has
\* bytes, which are taken out.  A socket whose peer is gone may be in error.
Poll ==
    /\ service = "poll" /\ piped
    /\ \E failed \in SUBSET {i \in DOMAIN pfds : peer[pfds[i].socket].state = "gone"} :
         LET Got(i) == Reports(pfds[i], peer[pfds[i].socket])
                       \cup (IF i \in failed THEN {"error"} ELSE {})
             reported == \E i \in DOMAIN pfds : Got(i) # {}
         IN  /\ poked \/ reported
             /\ pfds' = [i \in DOMAIN pfds |-> [pfds[i] EXCEPT !.got = Got(i)]]
             /\ service' = IF reported THEN "run" ELSE "sweep"
    /\ cursor' = [job |-> 1, entry |-> 1]
    /\ poked' = FALSE
    /\ UNCHANGED <<lockLocker, listLocker, listVars, piped, sock, peer, call, acts>>

\* run, and the new job is saved if it is different.
SaveJob(s, job, o) ==
    /\ jobs' = [jobs EXCEPT ![cursor.job].job = o.job]
    /\ update' = (update \/ o.job # job)

\* One turn of the loop over the jobs, which ends with the jobs or the entries:
\* places without a job are passed over, and have no poll entry.
RunJob ==
    /\ service = "run"
    /\ LET s == jobs[cursor.job].socket
           job == jobs[cursor.job].job
           got == pfds[cursor.entry].got
       IN  IF job = NoJob
           THEN /\ cursor' = [cursor EXCEPT !.job = @ + 1]
                /\ UNCHANGED <<jobs, update, sock, peer>>
           ELSE /\ \E o \in RunOutcomes(sock[s], job, got, peer[s]) :
                     /\ sock' = [sock EXCEPT ![s] = o.socket]
                     /\ SaveJob(s, job, o)
                     /\ peer' = IF s \in Data /\ "read" \in got /\ sock[s].readable /\ o.socket.input
                                THEN [peer EXCEPT ![s].arrived = FALSE] ELSE peer
                /\ cursor' = [job |-> cursor.job + 1, entry |-> cursor.entry + 1]
    /\ service' = IF cursor'.entry > Len(pfds) \/ cursor'.job > Len(jobs)
                  THEN "sweep" ELSE "run"
    /\ UNCHANGED <<lockLocker, listLocker, jobsReady, pfds, pipeVars, call, acts>>

\* Removed jobs lose their places, and the list is unlocked.
Sweep ==
    /\ service = "sweep"
    /\ jobs' = JobsIn(jobs)
    /\ update' = (update \/ jobs' # jobs)
    /\ jobsReady' = (jobs' # <<>>)
    /\ listLocker' = Nobody
    /\ service' = "ready"
    /\ pfds' = [i \in DOMAIN pfds |-> [pfds[i] EXCEPT !.got = {}]]
    /\ cursor' = [job |-> 1, entry |-> 1]
    /\ UNCHANGED <<lockLocker, pipeVars, sock, peer, call, acts>>

-----------------------------------------------------------------------------
(* The other end *)

Peer(s, p) ==
    /\ peer' = [peer EXCEPT ![s] = p]
    /\ UNCHANGED <<lockLocker, listLocker, listVars, serviceVars, pipeVars, sock, call>>

\* Something arrives: bytes, or a client that asks for a connection.
Arrives(s) ==
    /\ Live(s) /\ peer[s].state = "open" /\ ~peer[s].arrived
    /\ Peer(s, [peer[s] EXCEPT !.arrived = TRUE])
    /\ Counted

\* The peer answers a connection in progress, or shuts its side down.
PeerChanges(s) ==
    /\ Live(s)
    /\ \/ peer[s].state = "dialing" /\ Peer(s, [peer[s] EXCEPT !.state = "open"])
       \/ peer[s].state = "open" /\ Peer(s, [peer[s] EXCEPT !.state = "shut"])
    /\ Counted

\* The connection breaks; bytes that arrived before may still be read, or are lost.
PeerGoes(s) ==
    /\ Live(s) /\ peer[s].state # "gone"
    /\ \E left \in {peer[s].arrived, FALSE} : Peer(s, [state |-> "gone", arrived |-> left])
    /\ Counted

-----------------------------------------------------------------------------

ServiceStep ==
    \/ AwaitJobs \/ ServiceLocksLock \/ ServiceLocksList
    \/ MakePipe \/ Poll \/ RunJob \/ Sweep

CallerStep(c) ==
    \/ MakeJob(c) \/ LockJobListLock(c) \/ UnblockPollSocket(c) \/ LockJobList(c)
    \/ EditJobList(c) \/ Read(c) \/ FlushReturns(c) \/ CloseSocket(c)

Next ==
    \/ ServiceStep
    \/ \E c \in Callers : CallerStep(c)
    \/ Bind \/ AcceptThrows
    \/ \E s \in Incoming : Accept(s)
    \/ \E s \in Outgoing : Connect(s)
    \/ \E s \in Data : Write(s) \/ HandleInputReady(s) \/ StartFlush(s)
    \/ \E s \in Sockets : Close(s)
    \/ \E s \in Sockets : Arrives(s)
    \/ \E s \in Data : PeerChanges(s) \/ PeerGoes(s)

\* Something leaves for the peer of s: an open peer takes what is sent, sooner or
\* later.
Drain(s) == ServiceStep /\ sock[s].output /\ ~sock'[s].output

\* Threads that can run do, and a thread that waits for the lock on the lock gets
\* it if it is free again and again.
Fairness ==
    /\ WF_vars(ServiceStep) /\ SF_vars(ServiceLocksLock)
    /\ \A c \in Callers : WF_vars(CallerStep(c)) /\ SF_vars(LockJobListLock(c))
    /\ \A s \in Data : SF_vars(Drain(s))

Spec == Init /\ [][Next]_vars /\ Fairness

-----------------------------------------------------------------------------
(* Properties *)

\* The jobs are run with what was polled for their own sockets: while the service
\* thread goes through the list, the entry it is at is the next job's, though jobs
\* were put in, replaced and taken away since the entries were collected
\* (SocketMultiplexer::serviceThread).
PollMatchesJobs ==
    service = "run" =>
        \A j \in cursor.job..Len(jobs) :
            LET i == cursor.entry + Cardinality({k \in cursor.job..(j - 1) : jobs[k].job # NoJob})
            IN  jobs[j].job # NoJob =>
                    i <= Len(pfds) /\ pfds[i].socket = jobs[j].socket

\* A socket that was closed is gone for the multiplexer: it has no job, and it is
\* not polled, so its memory may be freed (TCPSocket::close, removeSocket).
ClosedIsForgotten ==
    \A s \in Sockets : sock[s].phase = "closed" =>
        /\ \A i \in DOMAIN jobs : jobs[i].socket = s => jobs[i].job = NoJob
        /\ service \in {"poll", "run"} => \A i \in DOMAIN pfds : pfds[i].socket # s

\* What a socket waits for.
Wanted(d) ==
    (IF d.connected /\ d.readable THEN {"read"} ELSE {})
    \cup (IF (d.connected /\ HasOutput(d)) \/ (~d.connected /\ d.writable) THEN {"write"} ELSE {})

\* No thread is about to set the job of s.
Settled(s) == call[Owner(s)].at = "idle" \/ call[Owner(s)].socket # s

\* A socket is serviced for everything it waits for: unless its owner is on the
\* way to set its job, the job in the list is one that wants to read and to write
\* when the socket does, whichever thread wrote it last (TCPSocket::setJob and
\* newJob, SocketMultiplexer::serviceThread).
InterestKept ==
    \A s \in Data : Live(s) /\ Settled(s) =>
        \A w \in Wanted(sock[s]) : \E i \in DOMAIN jobs :
            /\ jobs[i].socket = s
            /\ w = "read" => jobs[i].job.read
            /\ w = "write" => jobs[i].job.write

\* The listening socket listens, or a client is waiting to be accepted
\* (TCPListenSocket::serviceListening, accept: "stop polling on this socket until
\* the client accepts").
ListenerResumes ==
    Live(Listener) /\ call[ListenerOwner].at = "idle" =>
        \/ "connecting" \in sock[Listener].posted
        \/ \E i \in DOMAIN jobs : jobs[i] = [socket |-> Listener, job |-> ListeningJob]

\* What was received is announced: bytes in the input buffer have an inputReady on
\* the way, or their owner is reading, whichever thread emptied the buffer or filled it
\* last; left aside are bytes of a read that broke off with an error (TCPSocket::doRead,
\* read).
InputAnnounced ==
    \A s \in Data : Live(s) /\ sock[s].input /\ ~sock[s].brokeOff =>
        \/ "inputReady" \in sock[s].posted
        \/ call[Owner(s)].at = "read" /\ call[Owner(s)].socket = s

\* TCPSocket.cpp:355, "send input ready if input buffer was empty": also when the read
\* that filled it ends with an error, which is ignored.
AllInputAnnounced ==
    \A s \in Data : Live(s) /\ sock[s].input =>
        \/ "inputReady" \in sock[s].posted
        \/ call[Owner(s)].at = "read" /\ call[Owner(s)].socket = s

\* The end of a connection is announced: when a socket that was connected can
\* neither read nor write and its input is used up, disconnected was posted,
\* whichever of the three happened last (TCPSocket::doRead, doWrite, read).
EndAnnounced ==
    \A s \in Data :
        Live(s) /\ "connected" \in sock[s].posted /\ Wanted(sock[s]) = {}
            /\ ~sock[s].readable /\ ~sock[s].writable /\ ~sock[s].input
        => "disconnected" \in sock[s].posted

\* A thread that changes the job list gets it, also while nothing happens on any
\* socket: the service thread is broken out of its poll and cannot go back before
\* the thread had its turn (SocketMultiplexer::addSocket, removeSocket).
CallerGetsList ==
    \A c \in Callers : call[c].at \in {"lock", "poke", "list"} ~> call[c].at = "edit"

\* flush returns when the peer takes what is sent or goes away, so the last
\* message is out before the connection is closed (ClientProxy::close).
Flushing(s) == call[Owner(s)].at = "flush" /\ call[Owner(s)].socket = s
FlushEnds == \A s \in Data : Flushing(s) ~> ~Flushing(s)
=============================================================================
