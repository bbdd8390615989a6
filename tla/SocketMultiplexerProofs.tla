---------------------- MODULE SocketMultiplexerProofs ----------------------
(***************************************************************************)
(* Theorems about SocketMultiplexer, for any threads and any sockets: the  *)
(* poll descriptors agree with the job list; then, about the service of a  *)
(* socket, that its interest is kept, what it receives and the end of its  *)
(* connection are announced, and the listening socket listens again.       *)
(*                                                                         *)
(* What JobsIn computes is shown by induction, which is done on sets: a    *)
(* set of naturals with 0 and with the successor of each member is all of  *)
(* them.  Locks says who has the list, Listed what a thread that has it    *)
(* finds there.  What is kept of the service is said of one socket at a    *)
(* time: Good has a data socket, its peer, the call of its owner, the job  *)
(* list and the poll entries as parameters, so a step concerns the sockets *)
(* of which it changes these.                                              *)
(***************************************************************************)
EXTENDS SocketMultiplexer, FiniteSetTheorems, SequenceTheorems, WellFoundedInduction, TLAPS

ListJobs == [socket : Sockets, job : Jobs]

-----------------------------------------------------------------------------
(* Naturals *)

LEMMA LeastNatural ==
    \A S : S \subseteq Nat /\ S # {} => \E x \in S : \A y \in S : x <= y
<1> TAKE S
<1> HAVE S \subseteq Nat /\ S # {}
<1>1. PICK x \in S : \A y \in S : ~(<<y, x>> \in OpToRel(<, Nat))
  BY NatLessThanWellFounded, WFMin
<1>2. ASSUME NEW y \in S, y < x PROVE <<y, x>> \in OpToRel(<, Nat)
  BY <1>2 DEF OpToRel
<1>3. ASSUME NEW y \in S PROVE x <= y
  <2>1. x \in Nat /\ y \in Nat /\ ~(y < x)
    BY <1>1, <1>2, <1>3
  <2> QED
    BY <2>1
<1> QED
  BY <1>3

\* Induction: what holds of 0, and of n + 1 when it does of n, holds of all numbers.
LEMMA AllNaturals ==
    ASSUME NEW S, 0 \in S, \A n \in Nat : n \in S => n + 1 \in S
    PROVE  Nat \subseteq S
<1> SUFFICES ASSUME NEW T \in SUBSET Nat, T = Nat \ S, T # {} PROVE FALSE
  OBVIOUS
<1>1. PICK x \in T : \A y \in T : x <= y
  BY LeastNatural
<1>2. x \in Nat /\ x \notin S /\ x # 0
  BY <1>1
<1>3. x - 1 \in Nat /\ ~(x <= x - 1) /\ x = (x - 1) + 1
  BY <1>2
<1>4. x - 1 \in S
  BY <1>1, <1>3
<1> QED
  BY <1>2, <1>3, <1>4

-----------------------------------------------------------------------------
(* The jobs in the places of a list *)

HasJob(q, i) == q[i].job # NoJob

\* How many of the first n places have a job.
Count(q, n) == Cardinality({k \in 1..n : HasJob(q, k)})

LEMMA Counting ==
    ASSUME NEW q, NEW n \in Nat
    PROVE  /\ Count(q, 0) = 0
           /\ Count(q, n) \in Nat
           /\ Count(q, n + 1) = IF HasJob(q, n + 1) THEN Count(q, n) + 1 ELSE Count(q, n)
<1> DEFINE S == {k \in 1..n : HasJob(q, k)}
<1>1. IsFiniteSet(S)
  <2>1. IsFiniteSet(1..n) /\ S \in SUBSET (1..n)
    BY FS_Interval
  <2> QED
    BY <2>1, FS_Subset
<1>2. {k \in 1..0 : HasJob(q, k)} = {}
  OBVIOUS
<1>3. {k \in 1..(n + 1) : HasJob(q, k)} = IF HasJob(q, n + 1) THEN S \cup {n + 1} ELSE S
  <2>1. 1..(n + 1) = (1..n) \cup {n + 1}
    OBVIOUS
  <2> QED
    BY <2>1
<1>4. n + 1 \notin S
  OBVIOUS
<1> QED
  BY <1>1, <1>2, <1>3, <1>4, FS_EmptySet, FS_AddElement, FS_CardinalityType DEF Count

\* r is what JobsIn makes of the first n places of q: the jobs, each where it counts.
Collected(q, n, r) ==
    /\ r \in Seq(ListJobs) /\ Len(r) = Count(q, n)
    /\ \A j \in 1..n : HasJob(q, j) =>
         Count(q, j) \in 1..Len(r) /\ r[Count(q, j)] = q[j]
    /\ \A i \in 1..Len(r) : \E j \in 1..n : HasJob(q, j) /\ Count(q, j) = i

NextCollected(q, n, r) == IF HasJob(q, n) THEN Append(r, q[n]) ELSE r

LEMMA CollectNext ==
    ASSUME NEW q \in Seq(ListJobs), NEW n \in Nat, n + 1 <= Len(q), NEW r, Collected(q, n, r)
    PROVE  Collected(q, n + 1, NextCollected(q, n + 1, r))
<1> DEFINE t == NextCollected(q, n + 1, r)
<1>1. r \in Seq(ListJobs) /\ Len(r) = Count(q, n) /\ q[n + 1] \in ListJobs
  BY DEF Collected
<1>2. Count(q, n) \in Nat
      /\ Count(q, n + 1) = IF HasJob(q, n + 1) THEN Count(q, n) + 1 ELSE Count(q, n)
  BY Counting
<1>3. CASE ~HasJob(q, n + 1)
  <2>1. t = r /\ Count(q, n + 1) = Count(q, n)
    BY <1>2, <1>3 DEF NextCollected
  <2>2. \A j \in 1..(n + 1) : HasJob(q, j) => j \in 1..n
    BY <1>3
  <2>3. 1..n \subseteq 1..(n + 1)
    OBVIOUS
  <2> QED
    BY <2>1, <2>2, <2>3 DEF Collected
<1>4. CASE HasJob(q, n + 1)
  <2>1. t = Append(r, q[n + 1]) /\ Count(q, n + 1) = Count(q, n) + 1
    BY <1>2, <1>4 DEF NextCollected
  <2>2. t \in Seq(ListJobs) /\ Len(t) = Len(r) + 1 /\ t[Len(r) + 1] = q[n + 1]
        /\ \A i \in 1..Len(r) : t[i] = r[i]
    <3> HIDE DEF t
    <3> QED
      BY <1>1, <2>1, AppendProperties
  <2> HIDE DEF t
  <2>3. ASSUME NEW j \in 1..(n + 1), HasJob(q, j)
        PROVE  Count(q, j) \in 1..Len(t) /\ t[Count(q, j)] = q[j]
    <3>1. CASE j = n + 1
      BY <1>1, <1>2, <2>1, <2>2, <3>1
    <3>2. CASE j # n + 1
      <4>1. j \in 1..n
        BY <3>2
      <4>2. Count(q, j) \in 1..Len(r) /\ r[Count(q, j)] = q[j]
        BY <2>3, <4>1 DEF Collected
      <4> QED
        BY <1>1, <1>2, <2>2, <4>2
    <3> QED
      BY <3>1, <3>2
  <2>4. ASSUME NEW i \in 1..Len(t)
        PROVE  \E j \in 1..(n + 1) : HasJob(q, j) /\ Count(q, j) = i
    <3>1. CASE i \in 1..Len(r)
      BY <3>1 DEF Collected
    <3>2. CASE i \notin 1..Len(r)
      <4>1. i = Count(q, n + 1)
        BY <1>1, <1>2, <2>1, <2>2, <3>2
      <4> QED
        BY <1>4, <4>1
    <3> QED
      BY <3>1, <3>2
  <2> QED
    BY <1>1, <2>1, <2>2, <2>3, <2>4 DEF Collected, t
<1> QED
  BY <1>3, <1>4

\* The jobs of a list, in order.
LEMMA JobsInCollects == ASSUME NEW q \in Seq(ListJobs) PROVE Collected(q, Len(q), JobsIn(q))
<1> DEFINE Rule(f, n) == f[n] = IF n = 0 THEN <<>> ELSE NextCollected(q, n, f[n - 1])
           Sofar(n) == {f \in [0..n -> Seq(ListJobs)] : \A i \in 0..n : Rule(f, i)}
           Reached == {n \in Nat : n <= Len(q) => Sofar(n) # {}}
<1>1. Len(q) \in Nat
  OBVIOUS
<1>2. Sofar(Len(q)) # {}
  <2>1. 0 \in Reached
    <3> DEFINE f == [i \in 0..0 |-> <<>>]
    <3>1. f \in Sofar(0)
      OBVIOUS
    <3> QED
      BY <3>1
  <2>2. ASSUME NEW n \in Nat, n \in Reached PROVE n + 1 \in Reached
    <3> SUFFICES ASSUME n + 1 <= Len(q) PROVE Sofar(n + 1) # {}
      <4> HIDE DEF Sofar
      <4> QED
        OBVIOUS
    <3>1. PICK f : f \in Sofar(n)
      <4> HIDE DEF Sofar
      <4> QED
        BY <1>1, <2>2
    <3> DEFINE g == [i \in 0..(n + 1) |->
                       IF i = n + 1 THEN NextCollected(q, n + 1, f[n]) ELSE f[i]]
    <3>2. f[n] \in Seq(ListJobs) /\ q[n + 1] \in ListJobs
      BY <1>1, <3>1
    <3>3. NextCollected(q, n + 1, f[n]) \in Seq(ListJobs)
      BY <3>2 DEF NextCollected
    <3>4. g \in [0..(n + 1) -> Seq(ListJobs)]
      BY <3>1, <3>3
    <3>5. ASSUME NEW i \in 0..(n + 1) PROVE Rule(g, i)
      <4>1. CASE i = n + 1
        BY <4>1
      <4>2. CASE i # n + 1
        <5>1. i \in 0..n /\ g[i] = f[i] /\ (i # 0 => g[i - 1] = f[i - 1])
          BY <4>2
        <5> QED
          BY <3>1, <5>1
      <4> QED
        BY <4>1, <4>2
    <3> QED
      BY <3>4, <3>5
  <2>3. Nat \subseteq Reached
    <3> HIDE DEF Reached
    <3> QED
      BY <2>1, <2>2, AllNaturals
  <2> HIDE DEF Sofar
  <2> QED
    BY <1>1, <2>3
<1> DEFINE upTo == CHOOSE f : f = [n \in 0..Len(q) |->
                       IF n = 0 THEN <<>>
                       ELSE IF q[n].job = NoJob THEN f[n - 1] ELSE Append(f[n - 1], q[n])]
<1>3. upTo = [n \in 0..Len(q) |->
                IF n = 0 THEN <<>>
                ELSE IF q[n].job = NoJob THEN upTo[n - 1] ELSE Append(upTo[n - 1], q[n])]
  <2>1. PICK f : f \in Sofar(Len(q))
    BY <1>2
  <2>2. f = [n \in 0..Len(q) |->
               IF n = 0 THEN <<>>
               ELSE IF q[n].job = NoJob THEN f[n - 1] ELSE Append(f[n - 1], q[n])]
    BY <2>1 DEF NextCollected, HasJob
  <2> QED
    BY <2>2
<1>4. JobsIn(q) = upTo[Len(q)]
  BY DEF JobsIn
<1> HIDE DEF upTo
<1>5. \A n \in 0..Len(q) : Rule(upTo, n)
  BY <1>3 DEF NextCollected, HasJob
<1> DEFINE Right == {n \in Nat : n <= Len(q) => Collected(q, n, upTo[n])}
<1>6. 0 \in Right
  <2>1. upTo[0] = <<>>
    BY <1>1, <1>5
  <2>2. Count(q, 0) = 0
    BY Counting
  <2>3. Collected(q, 0, <<>>)
    BY <2>2 DEF Collected
  <2> QED
    BY <2>1, <2>3
<1>7. ASSUME NEW n \in Nat, n \in Right PROVE n + 1 \in Right
  <2> SUFFICES ASSUME n + 1 <= Len(q) PROVE Collected(q, n + 1, upTo[n + 1])
    OBVIOUS
  <2>1. Collected(q, n, upTo[n])
    BY <1>1, <1>7
  <2>2. upTo[n + 1] = NextCollected(q, n + 1, upTo[n])
    BY <1>1, <1>5
  <2> QED
    BY <2>1, <2>2, CollectNext
<1>8. Nat \subseteq Right
  <2> HIDE DEF Right
  <2> QED
    BY <1>6, <1>7, AllNaturals
<1> QED
  BY <1>1, <1>4, <1>8

LEMMA JobsInFacts ==
    ASSUME NEW q \in Seq(ListJobs)
    PROVE  /\ JobsIn(q) \in Seq(ListJobs)
           /\ \A j \in 1..Len(q) : HasJob(q, j) =>
                Count(q, j) \in 1..Len(JobsIn(q)) /\ JobsIn(q)[Count(q, j)] = q[j]
           /\ \A i \in 1..Len(JobsIn(q)) : \E j \in 1..Len(q) :
                HasJob(q, j) /\ Count(q, j) = i /\ JobsIn(q)[i] = q[j]
<1>1. Collected(q, Len(q), JobsIn(q))
  BY JobsInCollects
<1> QED
  BY <1>1 DEF Collected

-----------------------------------------------------------------------------
(* Changing a list *)

Unique(q) == \A i, j \in 1..Len(q) : q[i].socket = q[j].socket => i = j

LEMMA PlaceFound ==
    ASSUME jobs \in Seq(ListJobs), NEW s
    PROVE  \/ PlaceOf(s) = 0 /\ \A i \in 1..Len(jobs) : jobs[i].socket # s
           \/ PlaceOf(s) \in 1..Len(jobs) /\ jobs[PlaceOf(s)].socket = s
<1> DEFINE I == {i \in 1..Len(jobs) : jobs[i].socket = s}
<1>1. PlaceOf(s) = IF I # {} THEN Min(I) ELSE 0
  BY DEF PlaceOf, SelectInSeq
<1>2. I # {} => Min(I) \in I
  <2> SUFFICES ASSUME I # {} PROVE Min(I) \in I
    OBVIOUS
  <2>1. I \subseteq Nat
    OBVIOUS
  <2>2. \E x \in I : \A y \in I : x <= y
    <3> HIDE DEF I
    <3> QED
      BY <2>1, LeastNatural
  <2> HIDE DEF I
  <2> QED
    BY <2>2 DEF Min
<1> QED
  BY <1>1, <1>2

\* addSocket and removeSocket: the job of s is set, the other jobs keep their places.
LEMMA ListIsSet ==
    ASSUME jobs \in Seq(ListJobs), Unique(jobs), NEW s \in Sockets, NEW job \in Jobs,
           NEW q, q = ListWith(s, job)
    PROVE  /\ q \in Seq(ListJobs) /\ Unique(q)
           /\ \A i \in 1..Len(q) :
                IF q[i].socket = s THEN q[i].job = job ELSE i \in 1..Len(jobs) /\ q[i] = jobs[i]
           /\ \A i \in 1..Len(jobs) : jobs[i].socket # s => i \in 1..Len(q) /\ q[i] = jobs[i]
           /\ job # NoJob => \E i \in 1..Len(q) : q[i].socket = s
           /\ ~Outdates(s, job) => q = jobs
<1>1. CASE PlaceOf(s) = 0 /\ job = NoJob
  <2>1. q = jobs /\ \A i \in 1..Len(jobs) : jobs[i].socket # s
    BY <1>1, PlaceFound DEF ListWith
  <2> QED
    BY <1>1, <2>1
<1>2. CASE PlaceOf(s) = 0 /\ job # NoJob
  <2> DEFINE e == [socket |-> s, job |-> job]
  <2>1. q = Append(jobs, e) /\ \A i \in 1..Len(jobs) : jobs[i].socket # s
    BY <1>2, PlaceFound DEF ListWith
  <2>2. e \in ListJobs /\ e.socket = s /\ e.job = job
    BY DEF ListJobs
  <2> HIDE DEF e
  <2>3. /\ q \in Seq(ListJobs) /\ Len(q) = Len(jobs) + 1 /\ q[Len(jobs) + 1] = e
        /\ \A i \in 1..Len(jobs) : q[i] = jobs[i]
        /\ Len(jobs) \in Nat
    BY <2>1, <2>2
  <2>4. Unique(q)
    BY <2>1, <2>2, <2>3 DEF Unique
  <2> QED
    BY <1>2, <2>1, <2>2, <2>3, <2>4 DEF Outdates
<1>3. CASE PlaceOf(s) # 0
  <2> DEFINE p == PlaceOf(s)
  <2>1. p \in 1..Len(jobs) /\ jobs[p].socket = s
    BY <1>3, PlaceFound
  <2>2. q = [jobs EXCEPT ![p].job = job]
    BY <2>1 DEF ListWith
  <2> HIDE DEF p
  <2>3. jobs[p] \in ListJobs
    BY <2>1
  <2>4. [jobs[p] EXCEPT !.job = job] \in ListJobs
    BY <2>3 DEF ListJobs
  <2>5. q = [jobs EXCEPT ![p] = [jobs[p] EXCEPT !.job = job]]
    BY <2>2
  <2>6. /\ q \in Seq(ListJobs) /\ Len(q) = Len(jobs)
        /\ \A i \in 1..Len(jobs) : i # p => q[i] = jobs[i]
        /\ q[p] = [jobs[p] EXCEPT !.job = job]
    BY <2>1, <2>4, <2>5
  <2>7. q[p].socket = s /\ q[p].job = job
    BY <2>1, <2>3, <2>6 DEF ListJobs
  <2>8. Unique(q)
    <3>1. \A i \in 1..Len(jobs) : q[i].socket = jobs[i].socket
      BY <2>1, <2>6, <2>7
    <3> QED
      BY <2>6, <3>1 DEF Unique
  <2>9. ASSUME ~Outdates(s, job) PROVE q = jobs
    <3>1. job = NoJob /\ jobs[p].job = NoJob
      BY <2>1, <2>9 DEF Outdates, p
    <3>2. q[p] = jobs[p]
      BY <2>3, <2>6, <3>1 DEF ListJobs
    <3>3. \A i \in 1..Len(jobs) : q[i] = jobs[i]
      BY <2>6, <3>2
    <3> QED
      BY <2>6, <3>3, SeqEqual
  <2>10. \A i \in 1..Len(q) : q[i].socket = s => i = p
    BY <2>1, <2>7, <2>8, <2>6 DEF Unique
  <2>11. \A i \in 1..Len(jobs) : jobs[i].socket # s => i # p
    BY <2>1
  <2> QED
    BY <2>1, <2>6, <2>7, <2>8, <2>9, <2>10, <2>11
<1> QED
  BY <1>1, <1>2, <1>3

\* Taking the removed jobs away.
LEMMA SweptList ==
    ASSUME NEW q \in Seq(ListJobs), Unique(q)
    PROVE  /\ JobsIn(q) \in Seq(ListJobs) /\ Unique(JobsIn(q))
           /\ \A i \in 1..Len(JobsIn(q)) : \E j \in 1..Len(q) : JobsIn(q)[i] = q[j]
           /\ \A j \in 1..Len(q) : q[j].job # NoJob =>
                \E i \in 1..Len(JobsIn(q)) : JobsIn(q)[i] = q[j]
<1> DEFINE r == JobsIn(q)
<1>1. /\ r \in Seq(ListJobs)
      /\ \A j \in 1..Len(q) : HasJob(q, j) => Count(q, j) \in 1..Len(r) /\ r[Count(q, j)] = q[j]
      /\ \A i \in 1..Len(r) : \E j \in 1..Len(q) :
           HasJob(q, j) /\ Count(q, j) = i /\ r[i] = q[j]
  BY JobsInFacts
<1> HIDE DEF r
<1>2. ASSUME NEW i \in 1..Len(r), NEW j \in 1..Len(r), r[i].socket = r[j].socket PROVE i = j
  <2>1. PICK k \in 1..Len(q) : Count(q, k) = i /\ r[i] = q[k]
    BY <1>1
  <2>2. PICK l \in 1..Len(q) : Count(q, l) = j /\ r[j] = q[l]
    BY <1>1
  <2>3. k = l
    BY <1>2, <2>1, <2>2 DEF Unique
  <2> QED
    BY <2>1, <2>2, <2>3
<1>3. Unique(r)
  BY <1>2 DEF Unique
<1> QED
  BY <1>1, <1>3 DEF r, HasJob

-----------------------------------------------------------------------------
(* Running a job *)

Polled == {"read", "write", "error"}

LEMMA PostTypes ==
    ASSUME NEW d \in SocketStates, NEW e \in Posts
    PROVE  Post(d, e) \in SocketStates /\ Post(d, e).phase = d.phase
  BY DEF SocketStates, Post

LEMMA EndTypes ==
    ASSUME NEW d \in SocketStates
    PROVE  /\ OnConnected(d) \in SocketStates /\ OnConnected(d).phase = d.phase
           /\ OnOutputShutdown(d) \in SocketStates /\ OnOutputShutdown(d).phase = d.phase
           /\ OnDisconnected(d) \in SocketStates /\ OnDisconnected(d).phase = d.phase
<1>1. OnConnected(d) \in SocketStates /\ OnConnected(d).phase = d.phase
  BY DEF SocketStates, OnConnected
<1>2. OnOutputShutdown(d) \in SocketStates /\ OnOutputShutdown(d).phase = d.phase
  BY DEF SocketStates, OnOutputShutdown
<1>3. OnDisconnected(d) \in SocketStates /\ OnDisconnected(d).phase = d.phase
  BY <1>2 DEF SocketStates, OnDisconnected
<1> QED
  BY <1>1, <1>2, <1>3

LEMMA OverTypes ==
    ASSUME NEW d \in SocketStates, NEW cond
    PROVE  OverIf(cond, d) \in SocketStates /\ OverIf(cond, d).phase = d.phase
<1>1. "disconnected" \in Posts
  BY DEF Posts
<1>2. Post(d, "disconnected") \in SocketStates /\ Post(d, "disconnected").phase = d.phase
  BY <1>1, PostTypes
<1> DEFINE over == [Post(d, "disconnected") EXCEPT !.connected = FALSE]
<1>3. over \in SocketStates /\ over.phase = d.phase
  BY <1>2 DEF SocketStates
<1>4. OverIf(cond, d) \in {over, d}
  BY DEF OverIf
<1> HIDE DEF over
<1> QED
  BY <1>3, <1>4

LEMMA FlagTypes ==
    ASSUME NEW d \in SocketStates, NEW e \in Posts, NEW cond
    PROVE  /\ Post(d, e) \in SocketStates /\ Post(d, e).phase = d.phase
           /\ OnConnected(d) \in SocketStates /\ OnConnected(d).phase = d.phase
           /\ OnOutputShutdown(d) \in SocketStates /\ OnOutputShutdown(d).phase = d.phase
           /\ OnDisconnected(d) \in SocketStates /\ OnDisconnected(d).phase = d.phase
           /\ OverIf(cond, d) \in SocketStates /\ OverIf(cond, d).phase = d.phase
  BY PostTypes, EndTypes, OverTypes

LEMMA JobTypes ==
    ASSUME NEW d \in SocketStates, NEW e \in SocketStates
    PROVE  JobFrom(d, e) \in Jobs
  BY DEF JobFrom, Jobs, HasOutput, SocketStates

LEMMA WriteTypes ==
    ASSUME NEW d \in SocketStates, NEW p, NEW w \in WriteOutcomes(d, p)
    PROVE  w.socket \in SocketStates /\ w.socket.phase = d.phase
<1> DEFINE less == [d EXCEPT !.output = FALSE]
           ended == OverIf(~d.readable /\ ~d.input, OnOutputShutdown(d))
           lost == Post(OnDisconnected(d), "disconnected")
<1>1. /\ less \in SocketStates /\ less.phase = d.phase
      /\ ended \in SocketStates /\ ended.phase = d.phase
      /\ lost \in SocketStates /\ lost.phase = d.phase
  <2>1. OnOutputShutdown(d) \in SocketStates /\ OnOutputShutdown(d).phase = d.phase
        /\ OnDisconnected(d) \in SocketStates /\ OnDisconnected(d).phase = d.phase
        /\ "disconnected" \in Posts
    BY EndTypes DEF Posts
  <2>2. less \in SocketStates /\ less.phase = d.phase
    BY DEF SocketStates
  <2>3. ended \in SocketStates /\ ended.phase = d.phase
    BY <2>1, OverTypes
  <2>4. lost \in SocketStates /\ lost.phase = d.phase
    BY <2>1, PostTypes
  <2> QED
    BY <2>2, <2>3, <2>4
<1>2. w \in {Retry(d), New(d), New(less), New(ended), New(lost)}
  BY DEF WriteOutcomes
<1> HIDE DEF less, ended, lost
<1> QED
  BY <1>1, <1>2 DEF Retry, New

LEMMA ReadTypes ==
    ASSUME NEW w, w.socket \in SocketStates, NEW p, NEW o \in ReadOutcomes(w, p)
    PROVE  o.socket \in SocketStates /\ o.socket.phase = w.socket.phase
<1> DEFINE d == w.socket
           more == [(IF d.input THEN d ELSE Post(d, "inputReady")) EXCEPT !.input = TRUE]
           hung == [OverIf(~d.writable /\ ~d.input, d) EXCEPT !.readable = FALSE]
           lost == Post(OnDisconnected(d), "disconnected")
           kept == [d EXCEPT !.input = TRUE, !.brokeOff = @ \/ ~d.input]
<1>1. /\ more \in SocketStates /\ more.phase = d.phase
      /\ hung \in SocketStates /\ hung.phase = d.phase
      /\ lost \in SocketStates /\ lost.phase = d.phase
      /\ kept \in SocketStates /\ kept.phase = d.phase
  <2> HIDE DEF d
  <2>1. d \in SocketStates
    BY DEF d
  <2>2. "disconnected" \in Posts /\ "inputReady" \in Posts
    BY DEF Posts
  <2>3. Post(d, "inputReady") \in SocketStates /\ Post(d, "inputReady").phase = d.phase
        /\ OnDisconnected(d) \in SocketStates /\ OnDisconnected(d).phase = d.phase
    BY <2>1, <2>2, PostTypes, EndTypes
  <2>4. OverIf(~d.writable /\ ~d.input, d) \in SocketStates
        /\ OverIf(~d.writable /\ ~d.input, d).phase = d.phase
    BY <2>1, OverTypes
  <2>5. ASSUME NEW e \in SocketStates
        PROVE  /\ [e EXCEPT !.input = TRUE] \in SocketStates
               /\ [e EXCEPT !.input = TRUE].phase = e.phase
               /\ [e EXCEPT !.readable = FALSE] \in SocketStates
               /\ [e EXCEPT !.readable = FALSE].phase = e.phase
    BY DEF SocketStates
  <2>6. lost \in SocketStates /\ lost.phase = d.phase
    BY <2>2, <2>3, PostTypes
  <2>7. hung \in SocketStates /\ hung.phase = d.phase
    BY <2>4, <2>5
  <2>8. more \in SocketStates /\ more.phase = d.phase
    <3> DEFINE m == IF d.input THEN d ELSE Post(d, "inputReady")
    <3>1. m \in SocketStates /\ m.phase = d.phase
      BY <2>1, <2>3
    <3> HIDE DEF m
    <3>2. [m EXCEPT !.input = TRUE] \in SocketStates /\ [m EXCEPT !.input = TRUE].phase = d.phase
      BY <2>5, <3>1
    <3> QED
      BY <3>2 DEF m
  <2>9. kept \in SocketStates /\ kept.phase = d.phase
    BY <2>1 DEF SocketStates
  <2> QED
    BY <2>6, <2>7, <2>8, <2>9
<1>2. \/ o \in {Retry(more), New(hung), w, New(lost)}
      \/ o = [socket |-> kept, result |-> w.result]
  BY DEF ReadOutcomes, Hungup, Unsaid
<1> HIDE DEF more, hung, lost, kept
<1> QED
  BY <1>1, <1>2 DEF Retry, New

LEMMA RunTypes ==
    ASSUME NEW d \in SocketStates, NEW job \in Jobs, job # NoJob, NEW got, NEW p,
           NEW o \in RunOutcomes(d, job, got, p)
    PROVE  o.socket \in SocketStates /\ o.socket.phase = d.phase /\ o.job \in Jobs
<1>1. NoJob \in Jobs
  BY DEF Jobs
<1>2. CASE job.kind = "listening"
  <2>1. o \in ServiceListening(d, job, got)
    BY <1>2 DEF RunOutcomes
  <2> QED
    BY <1>1, <2>1, FlagTypes DEF ServiceListening, Posts
<1>3. CASE job.kind = "connecting"
  <2>1. o \in ServiceConnecting(d, job, got, p)
    BY <1>3 DEF RunOutcomes
  <2> DEFINE failed == OnDisconnected(Post(d, "connectionFailed"))
             up == Post(OnConnected(d), "connected")
  <2>2. /\ failed \in SocketStates /\ failed.phase = d.phase
        /\ up \in SocketStates /\ up.phase = d.phase
    BY FlagTypes DEF Posts
  <2>3. NewJob(failed) \in Jobs /\ NewJob(up) \in Jobs
    BY <2>2, JobTypes DEF NewJob
  <2> HIDE DEF failed, up
  <2>4. o \in {[socket |-> failed, job |-> NewJob(failed)], [socket |-> up, job |-> NewJob(up)],
               [socket |-> d, job |-> job]}
    BY <2>1 DEF ServiceConnecting, failed, up
  <2> QED
    BY <2>2, <2>3, <2>4
<1>4. CASE job.kind = "connected"
  <2>1. o \in ServiceConnected(d, job, got, p)
    BY <1>4 DEF RunOutcomes
  <2>2. CASE "error" \in got
    <3> DEFINE over == OnDisconnected(Post(d, "disconnected"))
    <3>1. over \in SocketStates /\ over.phase = d.phase
      BY FlagTypes DEF Posts
    <3>2. NewJob(over) \in Jobs
      BY <3>1, JobTypes DEF NewJob
    <3> HIDE DEF over
    <3>3. o = [socket |-> over, job |-> NewJob(over)]
      BY <2>1, <2>2 DEF ServiceConnected, over
    <3> QED
      BY <3>1, <3>2, <3>3
  <2>3. CASE "error" \notin got
    <3>1. PICK w, r :
            /\ w \in WriteOutcomes(d, p) \cup {Retry(d)}
            /\ r \in ReadOutcomes(w, p) \cup {w}
            /\ o = Kept(job, r)
      BY <2>1, <2>3 DEF ServiceConnected
    <3>2. w.socket \in SocketStates /\ w.socket.phase = d.phase
      BY <3>1, WriteTypes DEF Retry
    <3>3. r.socket \in SocketStates /\ r.socket.phase = d.phase
      BY <3>1, <3>2, ReadTypes
    <3>4. NewJob(r.socket) \in Jobs
      BY <3>3, JobTypes DEF NewJob
    <3> QED
      BY <3>1, <3>3, <3>4 DEF Kept
  <2> QED
    BY <2>2, <2>3
<1> QED
  BY <1>2, <1>3, <1>4 DEF Jobs, NoJob

-----------------------------------------------------------------------------
(* Who has the list, and what is in it *)

Typed ==
    /\ jobs \in Seq(ListJobs) /\ update \in BOOLEAN
    /\ service \in {"ready", "lock", "list", "poll", "run", "sweep"}
    /\ pfds \in Seq(Entries) /\ cursor \in [job : Nat, entry : Nat]
    /\ sock \in [Sockets -> SocketStates] /\ peer \in [Sockets -> PeerStates]
    /\ call \in [Callers -> Calls]

Locks ==
    /\ listLocker = Service <=> service \in {"poll", "run", "sweep"}
    /\ \A c \in Callers : listLocker = c <=> call[c].at = "edit"

\* A call is about a socket of its thread that is there.
Fits(c, n, d) ==
    n.at # "idle" =>
        /\ Owner(n.socket) = c
        /\ d[n.socket].phase = "live"
        /\ n.after = "listen" => c = ListenerOwner /\ d[Listener].phase = "live"
        /\ n.after = "shut" => n.at # "job" /\ n.job = NoJob

CallsFit == \A c \in Callers : Fits(c, call[c], sock)

\* The poll entries are those of the jobs, in their order.
Matched ==
    /\ \A j \in 1..Len(jobs) : HasJob(jobs, j) =>
         Count(jobs, j) \in 1..Len(pfds) /\ pfds[Count(jobs, j)].socket = jobs[j].socket
    /\ \A i \in 1..Len(pfds) : \E j \in 1..Len(jobs) :
         HasJob(jobs, j) /\ jobs[j].socket = pfds[i].socket

Listed ==
    /\ Unique(jobs)
    /\ service = "poll" => ~update
    /\ service = "run" => cursor.job \in 1..Len(jobs) /\ cursor.entry \in 1..Len(pfds)
    /\ ~update => Matched
    /\ PollMatchesJobs

\* A socket that is closed, or will be in the next step of its thread.
Gone(s) == sock[s].phase = "closed" \/ (call[Owner(s)].at = "shut" /\ call[Owner(s)].socket = s)

Forgotten ==
    \A s \in Sockets : Gone(s) =>
        /\ \A i \in 1..Len(jobs) : jobs[i].socket = s => jobs[i].job = NoJob
        /\ service \in {"poll", "run"} => \A i \in 1..Len(pfds) : pfds[i].socket # s

Inv == Typed /\ Locks /\ CallsFit /\ Listed /\ Forgotten

LEMMA Owners ==
    /\ \A s \in Sockets : Owner(s) \in Callers
    /\ Owner(Listener) = ListenerOwner /\ Listener \in Sockets
    /\ \A s \in Incoming : Owner(s) = ListenerOwner /\ s \in Sockets /\ s # Listener
    /\ \A s \in Outgoing : s \in Sockets /\ s # Listener
    /\ Service \notin Callers /\ Nobody \notin Callers /\ Service # Nobody
  BY SocketMultiplexerAssumption DEF Owner, Sockets, Data, Service, Nobody

LEMMA InvInit == Init => Inv
<1> SUFFICES ASSUME Init PROVE Inv
  OBVIOUS
<1>1. FreshSocket \in SocketStates /\ FreshSocket.phase = "free"
  BY DEF FreshSocket, SocketStates
<1>2. Idle \in Calls /\ Idle.at = "idle"
  BY <1>1, Owners DEF Idle, Doing, Calls, Jobs
<1>3. jobs = <<>> /\ pfds = <<>> /\ service = "ready" /\ sock = [s \in Sockets |-> FreshSocket]
      /\ call = [c \in Callers |-> Idle]
  BY DEF Init
<1>4. Typed
  <2>1. jobs \in Seq(ListJobs) /\ pfds \in Seq(Entries)
    BY <1>3
  <2>2. cursor \in [job : Nat, entry : Nat] /\ update \in BOOLEAN
    BY DEF Init
  <2>3. sock \in [Sockets -> SocketStates] /\ call \in [Callers -> Calls]
    BY <1>1, <1>2, <1>3
  <2>4. peer \in [Sockets -> PeerStates]
    BY DEF Init, PeerStates
  <2> QED
    BY <1>3, <2>1, <2>2, <2>3, <2>4 DEF Typed
<1>5. Locks
  BY <1>2, <1>3, Owners DEF Init, Locks
<1>6. CallsFit
  BY <1>2, <1>3 DEF CallsFit, Fits
<1>7. Listed
  BY <1>3 DEF Listed, Unique, Matched, PollMatchesJobs
<1>8. Forgotten
  BY <1>1, <1>2, <1>3, Owners DEF Forgotten, Gone
<1> QED
  BY <1>4, <1>5, <1>6, <1>7, <1>8 DEF Inv

-----------------------------------------------------------------------------
(* Steps that leave the list alone *)

ListStays == UNCHANGED <<jobs, update, service, pfds, cursor>>

LEMMA FreshSocketType == FreshSocket \in SocketStates
  BY DEF FreshSocket, SocketStates

LEMMA SettingCall ==
    ASSUME NEW s \in Sockets, NEW job \in Jobs, NEW after \in {"idle", "listen", "shut"}
    PROVE  /\ Setting(s, job, after) \in Calls
           /\ Setting(s, job, after).at = "lock" /\ Setting(s, job, after).socket = s
           /\ Setting(s, job, after).job = job /\ Setting(s, job, after).after = after
  BY FreshSocketType DEF Setting, Calls

LEMMA MakingCall ==
    ASSUME NEW s \in Sockets, NEW d \in SocketStates, NEW after \in {"idle", "listen", "shut"}
    PROVE  /\ MakingJob(s, d, after) \in Calls
           /\ MakingJob(s, d, after).at = "job" /\ MakingJob(s, d, after).socket = s
           /\ MakingJob(s, d, after).after = after /\ MakingJob(s, d, after).seen = d
  BY DEF MakingJob, Calls, Jobs

LEMMA DoingCall ==
    ASSUME NEW at \in {"idle", "shut", "read", "flush"}, NEW s \in Sockets
    PROVE  /\ Doing(at, s) \in Calls
           /\ Doing(at, s).at = at /\ Doing(at, s).socket = s /\ Doing(at, s).after = "idle"
  BY FreshSocketType DEF Doing, Calls, Jobs

LEMMA IdleCall == Idle \in Calls /\ Idle.at = "idle"
  BY DoingCall, Owners DEF Idle

LEMMA LocksStay ==
    ASSUME Inv, UNCHANGED <<service, listLocker>>, NEW c \in Callers, NEW n,
           call' = [call EXCEPT ![c] = n], call[c].at # "edit", n.at # "edit"
    PROVE  Locks'
  BY DEF Inv, Typed, Locks

LEMMA ListedStays ==
    ASSUME Inv, ListStays PROVE Listed'
  BY DEF Inv, Listed, ListStays, Unique, Matched, HasJob, Count, PollMatchesJobs

LEMMA CallerMoves ==
    ASSUME Inv, ListStays, Locks', NEW c \in Callers, NEW n \in Calls,
           call' = [call EXCEPT ![c] = n],
           sock' \in [Sockets -> SocketStates], peer' \in [Sockets -> PeerStates],
           Fits(c, n, sock'), n.at # "shut",
           \A s \in Sockets : sock[s].phase = "live" /\ Owner(s) # c => sock'[s].phase = "live",
           \A s \in Sockets : sock'[s].phase = "closed" => Gone(s)
    PROVE  Inv'
<1>1. Typed'
  BY DEF Inv, Typed, ListStays
<1>2. CallsFit'
  <2> SUFFICES ASSUME NEW b \in Callers PROVE Fits(b, call'[b], sock')
    BY DEF CallsFit
  <2>1. CASE b = c
    BY <2>1 DEF Inv, Typed
  <2>2. CASE b # c
    <3>1. call'[b] = call[b] /\ call[b] \in Calls /\ Fits(b, call[b], sock)
      BY <2>2 DEF Inv, Typed, CallsFit
    <3>2. call[b].socket \in Sockets
      BY <3>1 DEF Calls
    <3> QED
      BY <2>2, <3>1, <3>2, Owners DEF Fits
  <2> QED
    BY <2>1, <2>2
<1>3. Listed'
  BY ListedStays
<1>4. Forgotten'
  <2>1. ASSUME NEW s \in Sockets, Gone(s)' PROVE Gone(s)
    <3>1. Owner(s) \in Callers
      BY Owners
    <3>2. CASE sock'[s].phase = "closed"
      BY <3>2
    <3>3. CASE call'[Owner(s)].at = "shut" /\ call'[Owner(s)].socket = s
      <4>1. Owner(s) # c
        BY <3>1, <3>3 DEF Inv, Typed
      <4> QED
        BY <3>1, <3>3, <4>1 DEF Inv, Typed, Gone
    <3> QED
      BY <2>1, <3>2, <3>3 DEF Gone, Owner
  <2> QED
    BY <2>1 DEF Inv, Forgotten, ListStays
<1> QED
  BY <1>1, <1>2, <1>3, <1>4 DEF Inv

\* A call on a socket by its owner.
LEMMA CallingKeeps ==
    ASSUME Inv, NEW s \in Sockets, NEW d \in SocketStates, NEW n \in Calls, Calling(s, d, n),
           Live(s), d.phase = "live", n.at \notin {"edit", "shut"}, Fits(Owner(s), n, sock)
    PROVE  Inv'
<1>1. Owner(s) \in Callers /\ call[Owner(s)].at = "idle"
  BY Owners DEF Calling
<1>2. ListStays /\ UNCHANGED <<service, listLocker>>
  BY DEF Calling, ListStays, listVars, serviceVars
<1>3. call' = [call EXCEPT ![Owner(s)] = n] /\ sock' = [sock EXCEPT ![s] = d] /\ peer' = peer
  BY DEF Calling
<1>4. Locks'
  BY <1>1, <1>2, <1>3, LocksStay
<1>5. sock' \in [Sockets -> SocketStates] /\ peer' \in [Sockets -> PeerStates]
  BY <1>3 DEF Inv, Typed
<1>6. \A t \in Sockets : sock'[t].phase = sock[t].phase
  BY <1>3 DEF Inv, Typed, Live
<1>7. Fits(Owner(s), n, sock')
  <2>1. n.socket \in Sockets
    BY DEF Calls
  <2> QED
    BY <1>6, <2>1, Owners DEF Fits
<1>8. \A t \in Sockets : sock'[t].phase = "closed" => Gone(t)
  BY <1>6 DEF Gone
<1> QED
  BY <1>1, <1>2, <1>3, <1>4, <1>5, <1>6, <1>7, <1>8, CallerMoves

\* Going on with a call on the same socket, without a change to any socket.
LEMMA CallGoesOn ==
    ASSUME Inv, NEW c \in Callers, NEW n \in Calls, ListStays, UNCHANGED <<sock, peer>>,
           call' = [call EXCEPT ![c] = n], Locks', Fits(c, n, sock), n.at # "shut"
    PROVE  Inv'
<1>1. sock' = sock /\ peer' = peer
  OBVIOUS
<1>2. \A s \in Sockets : sock[s].phase = "closed" => Gone(s)
  BY DEF Gone
<1> QED
  BY <1>1, <1>2, CallerMoves DEF Inv, Typed

LEMMA GlimpseTypes ==
    ASSUME NEW d \in SocketStates, NEW e \in SocketStates, NEW job \in UnlockedJobs(d, e)
    PROVE  job \in Jobs
<1>1. ASSUME NEW g \in Glimpses(d, e) PROVE g \in SocketStates
  <2>1. PICK conn \in {d.connected, e.connected}, rd \in {d.readable, e.readable},
             wr \in {d.writable, e.writable}, out \in {d.output, e.output} :
          g = [e EXCEPT !.connected = conn, !.readable = rd, !.writable = wr, !.output = out]
    BY <1>1 DEF Glimpses
  <2>2. conn \in BOOLEAN /\ rd \in BOOLEAN /\ wr \in BOOLEAN /\ out \in BOOLEAN
    BY <2>1 DEF SocketStates
  <2> QED
    BY <2>1, <2>2 DEF SocketStates
<1> QED
  BY <1>1, JobTypes DEF UnlockedJobs

LEMMA MakeJobKeeps ==
    ASSUME Inv, NEW c \in Callers, MakeJob(c) PROVE Inv'
<1> DEFINE k == call[c]
<1>1. k \in Calls /\ k.at = "job" /\ Fits(c, k, sock) /\ sock[k.socket] \in SocketStates
  BY DEF Inv, Typed, CallsFit, MakeJob, Calls
<1>2. PICK job \in UnlockedJobs(k.seen, sock[k.socket]) :
        call' = [call EXCEPT ![c] = Setting(k.socket, job, k.after)]
  BY DEF Inv, Typed, MakeJob
<1>3. job \in Jobs /\ k.socket \in Sockets /\ k.after \in {"idle", "listen", "shut"}
  BY <1>1, <1>2, GlimpseTypes DEF Calls
<1> DEFINE n == Setting(k.socket, job, k.after)
<1>4. n \in Calls /\ n.at = "lock" /\ n.socket = k.socket /\ n.after = k.after
  <2> HIDE DEF k
  <2> QED
    BY <1>3, SettingCall
<1>5. Fits(c, n, sock)
  BY <1>1, <1>4 DEF Fits
<1>6. ListStays /\ UNCHANGED <<sock, peer>> /\ UNCHANGED <<service, listLocker>>
  BY DEF MakeJob, ListStays, listVars, serviceVars
<1> HIDE DEF n
<1>7. call' = [call EXCEPT ![c] = n]
  BY <1>2 DEF n
<1>8. Locks'
  BY <1>1, <1>4, <1>6, <1>7, LocksStay
<1> QED
  BY <1>4, <1>5, <1>6, <1>7, <1>8, CallGoesOn

LEMMA TakingLocksKeeps ==
    ASSUME Inv, NEW c \in Callers,
           LockJobListLock(c) \/ UnblockPollSocket(c) \/ LockJobList(c)
    PROVE  Inv'
<1> DEFINE k == call[c]
<1>1. k \in Calls /\ k.at \in {"lock", "poke", "list"} /\ Fits(c, k, sock)
  BY DEF Inv, Typed, CallsFit, LockJobListLock, UnblockPollSocket, LockJobList
<1>2. PICK at \in {"poke", "list", "edit"} :
        /\ call' = [call EXCEPT ![c] = [k EXCEPT !.at = at]]
        /\ IF at = "edit" THEN listLocker = Nobody /\ listLocker' = c
           ELSE listLocker' = listLocker
  BY DEF LockJobListLock, UnblockPollSocket, LockJobList, Inv, Typed
<1> DEFINE n == [k EXCEPT !.at = at]
<1>3. n \in Calls /\ n.at = at /\ n.socket = k.socket /\ n.after = k.after /\ n.job = k.job
  BY <1>1 DEF Calls
<1>4. Fits(c, n, sock) /\ n.at # "shut"
  BY <1>1, <1>3 DEF Fits
<1>5. ListStays /\ UNCHANGED <<sock, peer>>
  BY DEF LockJobListLock, UnblockPollSocket, LockJobList, ListStays, listVars, serviceVars
<1> HIDE DEF n
<1>6. call' = [call EXCEPT ![c] = n]
  BY <1>2 DEF n
<1>7. Locks'
  <2>1. \A b \in Callers : call'[b] = IF b = c THEN n ELSE call[b]
    BY <1>6 DEF Inv, Typed
  <2>2. service' = service
    BY <1>5 DEF ListStays
  <2> QED
    BY <1>1, <1>2, <1>3, <2>1, <2>2, Owners DEF Inv, Locks
<1> QED
  BY <1>3, <1>4, <1>5, <1>6, <1>7, CallGoesOn

LEMMA ReadKeeps == ASSUME Inv, NEW c \in Callers, Read(c) PROVE Inv'
<1> DEFINE s == call[c].socket
           n == IF sock[s].input THEN call[c] ELSE Idle
<1>1. call[c] \in Calls /\ call[c].at = "read" /\ Fits(c, call[c], sock)
      /\ s \in Sockets /\ sock[s] \in SocketStates
  BY DEF Inv, Typed, CallsFit, Read, Calls
<1>2. Emptied(sock[s]) \in SocketStates /\ Emptied(sock[s]).phase = sock[s].phase
  BY <1>1 DEF Emptied, Post, SocketStates, Posts
<1>3. sock' = [sock EXCEPT ![s] = Emptied(sock[s])] /\ call' = [call EXCEPT ![c] = n]
      /\ peer' = peer
  BY DEF Read, Inv, Typed
<1>4. ListStays /\ UNCHANGED <<service, listLocker>>
  BY DEF Read, ListStays, listVars, serviceVars
<1>5. Idle \in Calls /\ Idle.at = "idle"
  BY IdleCall
<1>6. \A t \in Sockets : sock'[t].phase = sock[t].phase
  BY <1>2, <1>3 DEF Inv, Typed
<1>7. n \in Calls /\ n.at \in {"read", "idle"} /\ Fits(c, n, sock')
  BY <1>1, <1>5, <1>6, Owners DEF Fits
<1> HIDE DEF n
<1>8. Locks'
  BY <1>1, <1>3, <1>4, <1>7, LocksStay
<1>9. sock' \in [Sockets -> SocketStates] /\ peer' \in [Sockets -> PeerStates]
  BY <1>1, <1>2, <1>3 DEF Inv, Typed
<1>10. \A t \in Sockets : sock'[t].phase = "closed" => Gone(t)
  BY <1>6 DEF Gone
<1> QED
  BY <1>3, <1>4, <1>6, <1>7, <1>8, <1>9, <1>10, CallerMoves

LEMMA FlushReturnsKeeps == ASSUME Inv, NEW c \in Callers, FlushReturns(c) PROVE Inv'
<1>1. call' = [call EXCEPT ![c] = Idle] /\ call[c].at = "flush"
      /\ ListStays /\ UNCHANGED <<sock, peer>> /\ UNCHANGED <<service, listLocker>>
  BY DEF FlushReturns, ListStays, listVars, serviceVars
<1>2. Idle \in Calls /\ Idle.at = "idle"
  BY IdleCall
<1>3. Fits(c, Idle, sock)
  BY <1>2 DEF Fits
<1>4. Locks'
  BY <1>1, <1>2, LocksStay
<1> QED
  BY <1>1, <1>2, <1>3, <1>4, CallGoesOn

LEMMA CloseSocketKeeps == ASSUME Inv, NEW c \in Callers, CloseSocket(c) PROVE Inv'
<1> DEFINE s == call[c].socket
<1>1. call[c].at = "shut" /\ Owner(s) = c /\ s \in Sockets
  BY DEF Inv, Typed, CallsFit, Fits, CloseSocket, Calls
<1>2. sock' = [sock EXCEPT ![s] = ClosedSocket] /\ call' = [call EXCEPT ![c] = Idle]
      /\ peer' = [peer EXCEPT ![s] = [state |-> "gone", arrived |-> FALSE]]
      /\ ListStays /\ UNCHANGED <<service, listLocker>>
  BY DEF CloseSocket, ListStays, listVars, serviceVars
<1>3. ClosedSocket \in SocketStates /\ ClosedSocket.phase = "closed"
  BY DEF ClosedSocket, FreshSocket, SocketStates
<1>4. Idle \in Calls /\ Idle.at = "idle"
  BY IdleCall
<1>5. Fits(c, Idle, sock')
  BY <1>4 DEF Fits
<1>6. Locks'
  BY <1>1, <1>2, <1>4, LocksStay
<1>7. sock' \in [Sockets -> SocketStates] /\ peer' \in [Sockets -> PeerStates]
  BY <1>1, <1>2, <1>3 DEF Inv, Typed, PeerStates
<1>8. \A t \in Sockets : t # s => sock'[t] = sock[t]
  BY <1>2 DEF Inv, Typed
<1>9. \A t \in Sockets : sock'[t].phase = "closed" => Gone(t)
  BY <1>1, <1>8 DEF Gone
<1>10. \A t \in Sockets : sock[t].phase = "live" /\ Owner(t) # c => sock'[t].phase = "live"
  BY <1>1, <1>8
<1> QED
  BY <1>2, <1>4, <1>5, <1>6, <1>7, <1>9, <1>10, CallerMoves

LEMMA SocketCallsKeep ==
    ASSUME Inv,
           \/ Bind \/ AcceptThrows
           \/ \E s \in Data : Write(s) \/ HandleInputReady(s) \/ StartFlush(s)
           \/ \E s \in Sockets : Close(s)
    PROVE  Inv'
<1>1. NoJob \in Jobs /\ ListeningJob \in Jobs
  BY DEF Jobs, ListeningJob
<1>2. CASE AcceptThrows
  <2> DEFINE d == [sock[Listener] EXCEPT !.posted = {}]
  <2>1. sock[Listener] \in SocketStates /\ Live(Listener)
    BY <1>2, Owners DEF Inv, Typed, AcceptThrows
  <2>2. d \in SocketStates /\ d.phase = "live"
    BY <2>1 DEF Live, SocketStates
  <2>3. Idle \in Calls /\ Idle.at = "idle"
    BY IdleCall
  <2>4. Calling(Listener, d, Idle)
    BY <1>2 DEF AcceptThrows
  <2> HIDE DEF d
  <2>5. Fits(Owner(Listener), Idle, sock)
    BY <2>3 DEF Fits
  <2> QED
    BY <2>1, <2>2, <2>3, <2>4, <2>5, CallingKeeps, Owners
<1>3. ASSUME NEW s \in Data, Write(s) PROVE Inv'
  <2> DEFINE d == [sock[s] EXCEPT !.output = TRUE]
  <2>1. sock[s] \in SocketStates /\ Live(s) /\ s \in Sockets
    BY <1>3 DEF Inv, Typed, Write, Sockets
  <2>2. d \in SocketStates /\ d.phase = "live"
    BY <2>1 DEF Live, SocketStates
  <2> DEFINE n == IF sock[s].output THEN Idle ELSE MakingJob(s, d, "idle")
  <2>3. Calling(s, d, n)
    BY <1>3 DEF Write
  <2> HIDE DEF d
  <2>4. n \in Calls /\ n.at \in {"idle", "job"} /\ (n.at = "job" => n.socket = s /\ n.after = "idle")
    BY <2>1, <2>2, IdleCall, MakingCall
  <2> HIDE DEF n
  <2>5. Fits(Owner(s), n, sock)
    BY <2>1, <2>4 DEF Fits, Live
  <2> QED
    BY <2>1, <2>2, <2>3, <2>4, <2>5, CallingKeeps
<1>4. ASSUME NEW s \in Data, HandleInputReady(s) \/ StartFlush(s) PROVE Inv'
  <2>1. sock[s] \in SocketStates /\ Live(s) /\ s \in Sockets
    BY <1>4 DEF Inv, Typed, HandleInputReady, StartFlush, Sockets
  <2>2. PICK d \in {sock[s], [sock[s] EXCEPT !.posted = @ \ {"inputReady"}]},
             at \in {"read", "flush"} : Calling(s, d, Doing(at, s))
    BY <1>4 DEF HandleInputReady, StartFlush
  <2>3. d \in SocketStates /\ d.phase = "live"
    BY <2>1 DEF Live, SocketStates
  <2> DEFINE n == Doing(at, s)
  <2>4. n \in Calls /\ n.at = at /\ n.socket = s /\ n.after = "idle"
    BY <2>1, DoingCall
  <2>5. Calling(s, d, n)
    BY <2>2
  <2> HIDE DEF n
  <2>6. Fits(Owner(s), n, sock)
    BY <2>1, <2>4 DEF Fits, Live
  <2> QED
    BY <2>1, <2>3, <2>4, <2>5, <2>6, CallingKeeps
<1>5. ASSUME NEW s \in Sockets, Close(s) PROVE Inv'
  <2> DEFINE n == Setting(s, NoJob, "shut")
  <2>1. sock[s] \in SocketStates /\ Live(s)
    BY <1>5 DEF Inv, Typed, Close
  <2>2. n \in Calls /\ n.at = "lock" /\ n.socket = s /\ n.job = NoJob /\ n.after = "shut"
    BY <1>1, SettingCall
  <2>3. Calling(s, sock[s], n)
    BY <1>5 DEF Close
  <2> HIDE DEF n
  <2>4. Fits(Owner(s), n, sock)
    BY <2>1, <2>2 DEF Fits, Live
  <2> QED
    BY <2>1, <2>2, <2>3, <2>4, CallingKeeps DEF Live
<1>6. CASE Bind
  <2> DEFINE n == Setting(Listener, ListeningJob, "idle")
  <2>1. Born \in SocketStates /\ Born.phase = "live"
    BY DEF Born, FreshSocket, SocketStates
  <2>2. n \in Calls /\ n.at = "lock" /\ n.socket = Listener /\ n.after = "idle"
    BY <1>1, Owners, SettingCall
  <2> HIDE DEF n
  <2>3. call' = [call EXCEPT ![ListenerOwner] = n] /\ sock' = [sock EXCEPT ![Listener] = Born]
        /\ peer' = peer /\ ListStays /\ UNCHANGED <<service, listLocker>>
        /\ call[ListenerOwner].at = "idle" /\ sock[Listener].phase = "free"
    BY <1>6, Owners DEF Bind, Calling, ListStays, listVars, serviceVars, n
  <2>4. ListenerOwner \in Callers
    BY Owners
  <2>5. Locks'
    BY <2>2, <2>3, <2>4, LocksStay
  <2>6. \A t \in Sockets : sock'[t] = IF t = Listener THEN Born ELSE sock[t]
    BY <2>3 DEF Inv, Typed
  <2>7. sock' \in [Sockets -> SocketStates] /\ peer' \in [Sockets -> PeerStates]
    BY <2>1, <2>3 DEF Inv, Typed
  <2>8. Fits(ListenerOwner, n, sock')
    BY <2>1, <2>2, <2>6, Owners DEF Fits
  <2>9. \A t \in Sockets : sock'[t].phase = "closed" => Gone(t)
    BY <2>1, <2>6 DEF Gone
  <2>10. \A t \in Sockets : sock[t].phase = "live" => sock'[t].phase = "live"
    BY <2>1, <2>6
  <2> QED
    BY <2>2, <2>3, <2>4, <2>5, <2>7, <2>8, <2>9, <2>10, CallerMoves
<1> QED
  BY <1>2, <1>3, <1>4, <1>5, <1>6

\* A new socket, connected or about to be, gets its job.
LEMMA BirthKeeps ==
    ASSUME Inv, NEW s \in Data, NEW d \in SocketStates, NEW after \in {"idle", "listen"},
           d.phase = "live", call[Owner(s)].at = "idle", sock[s].phase = "free",
           ListStays, UNCHANGED <<service, listLocker>>,
           call' = [call EXCEPT ![Owner(s)] = MakingJob(s, d, after)],
           sock' \in [Sockets -> SocketStates], peer' \in [Sockets -> PeerStates],
           \A t \in Sockets : sock'[t].phase = IF t = s THEN "live" ELSE sock[t].phase,
           after = "listen" => Owner(s) = ListenerOwner /\ sock[Listener].phase = "live"
    PROVE  Inv'
<1> DEFINE n == MakingJob(s, d, after)
<1>1. s \in Sockets /\ Owner(s) \in Callers
  BY Owners DEF Sockets
<1>2. n \in Calls /\ n.at = "job" /\ n.socket = s /\ n.after = after
  BY <1>1, MakingCall
<1>3. call' = [call EXCEPT ![Owner(s)] = n]
  OBVIOUS
<1> HIDE DEF n
<1>4. Locks'
  BY <1>1, <1>2, <1>3, LocksStay
<1>5. Fits(Owner(s), n, sock')
  BY <1>1, <1>2, Owners DEF Fits
<1>6. \A t \in Sockets : sock'[t].phase = "closed" => Gone(t)
  BY DEF Gone
<1> QED
  BY <1>1, <1>2, <1>3, <1>4, <1>5, <1>6, CallerMoves

LEMMA BornTypes ==
    /\ Born \in SocketStates /\ Born.phase = "live"
    /\ Post(OnConnected(Born), "connected") \in SocketStates
    /\ Post(OnConnected(Born), "connected").phase = "live"
    /\ [Born EXCEPT !.writable = TRUE] \in SocketStates
    /\ [Born EXCEPT !.writable = TRUE].phase = "live"
  BY DEF Born, FreshSocket, Post, OnConnected, SocketStates, Posts

LEMMA AcceptKeeps == ASSUME Inv, NEW s \in Incoming, Accept(s) PROVE Inv'
<1> DEFINE d == Post(OnConnected(Born), "connected")
<1>1. s \in Data /\ s \in Sockets /\ s # Listener /\ Owner(s) = ListenerOwner
  BY Owners DEF Data
<1>2. d \in SocketStates /\ d.phase = "live"
  BY BornTypes
<1>3. sock' = [sock EXCEPT ![s] = d, ![Listener].posted = {}]
      /\ call' = [call EXCEPT ![Owner(s)] = MakingJob(s, d, "listen")]
      /\ peer' = [peer EXCEPT ![Listener].arrived = FALSE]
      /\ ListStays /\ UNCHANGED <<service, listLocker>>
      /\ sock[s].phase = "free" /\ sock[Listener].phase = "live" /\ call[Owner(s)].at = "idle"
  BY <1>1 DEF Accept, ListStays, listVars, serviceVars, Live
<1> HIDE DEF d
<1>4. sock[Listener] \in SocketStates /\ peer[Listener] \in PeerStates
  BY Owners DEF Inv, Typed
<1>5. [sock[Listener] EXCEPT !.posted = {}] \in SocketStates
      /\ [sock[Listener] EXCEPT !.posted = {}].phase = sock[Listener].phase
      /\ [peer[Listener] EXCEPT !.arrived = FALSE] \in PeerStates
  BY <1>4 DEF SocketStates, PeerStates
<1>6. \A t \in Sockets : sock'[t] = IF t = s THEN d
        ELSE IF t = Listener THEN [sock[Listener] EXCEPT !.posted = {}] ELSE sock[t]
  BY <1>1, <1>3, Owners DEF Inv, Typed
<1>7. sock' \in [Sockets -> SocketStates] /\ peer' \in [Sockets -> PeerStates]
  BY <1>2, <1>3, <1>5, <1>6, Owners DEF Inv, Typed
<1>8. \A t \in Sockets : sock'[t].phase = IF t = s THEN "live" ELSE sock[t].phase
  BY <1>2, <1>5, <1>6
<1> QED
  BY <1>1, <1>2, <1>3, <1>7, <1>8, BirthKeeps

LEMMA ConnectKeeps == ASSUME Inv, NEW s \in Outgoing, Connect(s) PROVE Inv'
<1>1. s \in Data /\ s \in Sockets
  BY Owners DEF Data
<1>2. PICK d \in {Post(OnConnected(Born), "connected"), [Born EXCEPT !.writable = TRUE]} :
         /\ sock' = [sock EXCEPT ![s] = d]
         /\ peer' = [peer EXCEPT ![s].state = IF d.connected THEN "open" ELSE "dialing"]
         /\ call' = [call EXCEPT ![Owner(s)] = MakingJob(s, d, "idle")]
  BY DEF Connect
<1>3. d \in SocketStates /\ d.phase = "live"
  BY BornTypes
<1>4. ListStays /\ UNCHANGED <<service, listLocker>> /\ sock[s].phase = "free"
      /\ call[Owner(s)].at = "idle"
  BY DEF Connect, ListStays, listVars, serviceVars
<1>5. \A t \in Sockets : sock'[t] = IF t = s THEN d ELSE sock[t]
  BY <1>2 DEF Inv, Typed
<1>6. sock' \in [Sockets -> SocketStates]
  BY <1>1, <1>2, <1>3 DEF Inv, Typed
<1>7. peer' \in [Sockets -> PeerStates]
  BY <1>1, <1>2 DEF Inv, Typed, PeerStates
<1>8. \A t \in Sockets : sock'[t].phase = IF t = s THEN "live" ELSE sock[t].phase
  BY <1>3, <1>5
<1> QED
  BY <1>1, <1>2, <1>3, <1>4, <1>6, <1>7, <1>8, BirthKeeps

LEMMA PeersKeep ==
    ASSUME Inv, \/ MakePipe
                \/ \E s \in Sockets : Arrives(s)
                \/ \E s \in Data : PeerChanges(s) \/ PeerGoes(s)
    PROVE  Inv'
<1>1. ListStays /\ UNCHANGED <<listLocker, sock, call>>
  BY DEF MakePipe, Arrives, PeerChanges, PeerGoes, Peer, ListStays, listVars, serviceVars
<1>2. \A s \in Sockets : peer[s] \in PeerStates
  BY DEF Inv, Typed
<1>3. peer' \in [Sockets -> PeerStates]
  <2>1. CASE MakePipe
    BY <2>1 DEF MakePipe, Inv, Typed
  <2>2. ASSUME NEW s \in Sockets, Arrives(s) \/ PeerChanges(s) \/ PeerGoes(s)
        PROVE  peer' \in [Sockets -> PeerStates]
    <3>1. PICK p \in PeerStates : peer' = [peer EXCEPT ![s] = p]
      <4>1. \E p \in {[peer[s] EXCEPT !.arrived = TRUE], [peer[s] EXCEPT !.state = "open"],
                      [peer[s] EXCEPT !.state = "shut"], [state |-> "gone", arrived |-> FALSE],
                      [state |-> "gone", arrived |-> peer[s].arrived]} :
              peer' = [peer EXCEPT ![s] = p]
        BY <2>2 DEF Arrives, PeerChanges, PeerGoes, Peer
      <4>2. peer[s] \in PeerStates
        BY <1>2, <2>2 DEF Sockets
      <4> QED
        BY <4>1, <4>2 DEF PeerStates
    <3> QED
      BY <3>1 DEF Inv, Typed
  <2> QED
    BY <2>1, <2>2 DEF Sockets
<1>4. Typed' /\ Locks' /\ CallsFit'
  BY <1>1, <1>3 DEF Inv, Typed, Locks, CallsFit, Fits, Owner, ListStays
<1>5. Listed'
  BY <1>1, ListedStays
<1>6. Forgotten'
  BY <1>1 DEF Inv, Forgotten, Gone, Owner, ListStays
<1> QED
  BY <1>4, <1>5, <1>6 DEF Inv

-----------------------------------------------------------------------------
(* Steps of a thread that has the list *)

LEMMA FollowingCall ==
    ASSUME Inv, NEW c \in Callers, call[c].at = "edit"
    PROVE  /\ Following(c) \in Calls /\ Following(c).at \in {"idle", "lock", "shut"}
           /\ Fits(c, Following(c), sock)
           /\ Following(c).at = "shut" =>
                Following(c).socket = call[c].socket /\ call[c].job = NoJob
<1> DEFINE k == call[c]
<1>1. k \in Calls /\ Fits(c, k, sock) /\ k.at = "edit"
  BY DEF Inv, Typed, CallsFit
<1> HIDE DEF k
<1>2. k.socket \in Sockets /\ k.after \in {"idle", "listen", "shut"}
  BY <1>1 DEF Calls
<1>3. CASE k.after = "idle"
  <2>1. Following(c) = Idle
    BY <1>3 DEF Following, k
  <2> QED
    BY <2>1, IdleCall DEF Fits
<1>4. CASE k.after = "listen"
  <2> DEFINE n == Setting(Listener, ListeningJob, "idle")
  <2>1. Following(c) = n
    BY <1>4 DEF Following, k
  <2>2. n \in Calls /\ n.at = "lock" /\ n.socket = Listener /\ n.after = "idle"
    <3>1. ListeningJob \in Jobs
      BY DEF Jobs, ListeningJob
    <3> QED
      BY <3>1, SettingCall, Owners
  <2> HIDE DEF n
  <2>3. Fits(c, n, sock)
    BY <1>1, <1>4, <2>2, Owners DEF Fits
  <2> QED
    BY <2>1, <2>2, <2>3
<1>5. CASE k.after = "shut"
  <2> DEFINE n == Doing("shut", k.socket)
  <2>1. Following(c) = n
    BY <1>5 DEF Following, k
  <2>2. n \in Calls /\ n.at = "shut" /\ n.socket = k.socket /\ n.after = "idle"
    BY <1>2, DoingCall
  <2> HIDE DEF n
  <2>3. Fits(c, n, sock) /\ k.job = NoJob
    BY <1>1, <1>5, <2>2 DEF Fits
  <2> QED
    BY <2>1, <2>2, <2>3 DEF k
<1> QED
  BY <1>2, <1>3, <1>4, <1>5

LEMMA EditKeeps == ASSUME Inv, NEW c \in Callers, EditJobList(c) PROVE Inv'
<1> DEFINE s == call[c].socket
           job == call[c].job
           n == Following(c)
<1>1. call[c] \in Calls /\ call[c].at = "edit" /\ Fits(c, call[c], sock)
      /\ s \in Sockets /\ job \in Jobs /\ Owner(s) = c /\ sock[s].phase = "live"
  BY DEF Inv, Typed, CallsFit, EditJobList, Calls, Fits
<1>2. jobs' = ListWith(s, job) /\ update' = (update \/ Outdates(s, job))
      /\ listLocker' = Nobody /\ call' = [call EXCEPT ![c] = n]
      /\ UNCHANGED <<service, pfds, cursor, sock, peer>>
  BY DEF EditJobList, serviceVars
<1>3. n \in Calls /\ n.at \in {"idle", "lock", "shut"} /\ Fits(c, n, sock)
      /\ (n.at = "shut" => n.socket = s /\ job = NoJob)
  BY <1>1, FollowingCall
<1> HIDE DEF n
<1>4. \A b \in Callers : call'[b] = IF b = c THEN n ELSE call[b]
  BY <1>2 DEF Inv, Typed
<1>5. /\ jobs' \in Seq(ListJobs) /\ Unique(jobs')
      /\ \A i \in 1..Len(jobs') :
           IF jobs'[i].socket = s THEN jobs'[i].job = job
           ELSE i \in 1..Len(jobs) /\ jobs'[i] = jobs[i]
      /\ ~Outdates(s, job) => jobs' = jobs
  BY <1>1, <1>2, ListIsSet DEF Inv, Typed, Listed
<1>6. service \notin {"poll", "run", "sweep"} /\ \A b \in Callers : b # c => call[b].at # "edit"
  BY <1>1, Owners DEF Inv, Locks
<1>7. Typed'
  <2>1. update' \in BOOLEAN
    BY <1>2 DEF Outdates, Inv, Typed
  <2>2. call' \in [Callers -> Calls]
    BY <1>2, <1>3 DEF Inv, Typed
  <2> QED
    BY <1>2, <1>5, <2>1, <2>2 DEF Inv, Typed
<1>8. Locks'
  BY <1>2, <1>3, <1>4, <1>6, Owners DEF Locks
<1>9. CallsFit'
  BY <1>2, <1>3, <1>4 DEF CallsFit, Inv, Fits, Owner
<1>10. Listed'
  <2>1. ~update' => ~update /\ jobs' = jobs
    BY <1>2, <1>5
  <2>2. ~update' => Matched'
    BY <1>2, <2>1 DEF Inv, Listed, Matched
  <2> QED
    BY <1>2, <1>5, <1>6, <2>2 DEF Listed, PollMatchesJobs
<1>11. Forgotten'
  <2> SUFFICES ASSUME NEW t \in Sockets, Gone(t)', NEW i \in 1..Len(jobs'), jobs'[i].socket = t
               PROVE  jobs'[i].job = NoJob
    BY <1>2, <1>6 DEF Forgotten
  <2>1. Owner(t) \in Callers
    BY Owners
  <2>2. CASE t = s
    <3>1. n.at = "shut"
      BY <1>1, <1>2, <1>4, <2>2 DEF Gone, Owner
    <3> QED
      BY <1>3, <1>5, <2>2, <3>1
  <2>3. CASE t # s
    <3>1. Gone(t)
      <4>1. Gone(t)' = (sock[t].phase = "closed"
                          \/ (call'[Owner(t)].at = "shut" /\ call'[Owner(t)].socket = t))
        BY <1>2 DEF Gone, Owner
      <4> QED
        BY <1>3, <1>4, <2>1, <2>3, <4>1 DEF Gone
    <3> QED
      BY <1>5, <2>3, <3>1 DEF Inv, Forgotten
  <2> QED
    BY <2>2, <2>3
<1> QED
  BY <1>7, <1>8, <1>9, <1>10, <1>11 DEF Inv

-----------------------------------------------------------------------------
(* Steps of the service thread *)

LEMMA ApproachKeeps == ASSUME Inv, AwaitJobs \/ ServiceLocksLock PROVE Inv'
<1>1. UNCHANGED <<listLocker, jobs, update, pfds, cursor, sock, peer, call>>
      /\ service \in {"ready", "lock"} /\ service' \in {"lock", "list"}
  BY DEF AwaitJobs, ServiceLocksLock, listVars
<1>2. Typed' /\ Locks' /\ CallsFit'
  BY <1>1 DEF Inv, Typed, Locks, CallsFit, Fits, Owner
<1>3. Listed'
  BY <1>1 DEF Inv, Listed, Unique, Matched, HasJob, Count, PollMatchesJobs
<1>4. Forgotten'
  BY <1>1 DEF Inv, Forgotten, Gone, Owner
<1> QED
  BY <1>2, <1>3, <1>4 DEF Inv

LEMMA EntryTypes ==
    ASSUME NEW e \in ListJobs
    PROVE  EntryOf(e) \in Entries /\ EntryOf(e).socket = e.socket
<1>1. e.socket \in Sockets /\ e.job \in Jobs
  BY DEF ListJobs
<1>2. e.job.read \in BOOLEAN /\ e.job.write \in BOOLEAN
  <2>1. CASE e.job = NoJob
    BY <2>1 DEF NoJob
  <2>2. CASE e.job # NoJob
    BY <1>1, <2>2 DEF Jobs
  <2> QED
    BY <2>1, <2>2
<1> QED
  BY <1>1, <1>2 DEF EntryOf, Entries

LEMMA CollectKeeps == ASSUME Inv, ServiceLocksList PROVE Inv'
<1> DEFINE kept == JobsIn(jobs)
<1>1. service = "list" /\ listLocker = Nobody /\ listLocker' = Service
      /\ UNCHANGED <<jobs, cursor, sock, peer, call>> /\ update' = FALSE
      /\ service' = (IF pfds' = <<>> THEN "sweep" ELSE "poll")
      /\ pfds' = IF update THEN [i \in DOMAIN kept |-> EntryOf(kept[i])] ELSE pfds
  BY DEF ServiceLocksList
<1>2. /\ kept \in Seq(ListJobs)
      /\ \A j \in 1..Len(jobs) : HasJob(jobs, j) =>
           Count(jobs, j) \in 1..Len(kept) /\ kept[Count(jobs, j)] = jobs[j]
      /\ \A i \in 1..Len(kept) : \E j \in 1..Len(jobs) : HasJob(jobs, j) /\ kept[i] = jobs[j]
  BY JobsInFacts DEF Inv, Typed
<1> HIDE DEF kept
<1>3. pfds' \in Seq(Entries) /\ Matched'
  <2>1. CASE update
    <3>1. pfds' = [i \in 1..Len(kept) |-> EntryOf(kept[i])]
      BY <1>1, <1>2, <2>1
    <3>2. \A i \in 1..Len(kept) :
            EntryOf(kept[i]) \in Entries /\ EntryOf(kept[i]).socket = kept[i].socket
      <4>1. \A i \in 1..Len(kept) : kept[i] \in ListJobs
        BY <1>2
      <4> QED
        BY <4>1, EntryTypes
    <3>3. Len(kept) \in Nat
      BY <1>2
    <3>4. pfds' \in Seq(Entries) /\ Len(pfds') = Len(kept)
          /\ \A i \in 1..Len(kept) : pfds'[i].socket = kept[i].socket
      BY <3>1, <3>2, <3>3
    <3>5. ASSUME NEW j \in 1..Len(jobs), HasJob(jobs, j)
          PROVE  Count(jobs, j) \in 1..Len(pfds') /\ pfds'[Count(jobs, j)].socket = jobs[j].socket
      <4>1. Count(jobs, j) \in 1..Len(kept) /\ kept[Count(jobs, j)] = jobs[j]
        BY <1>2, <3>5
      <4> QED
        BY <3>4, <4>1
    <3>6. ASSUME NEW i \in 1..Len(pfds')
          PROVE  \E j \in 1..Len(jobs) : HasJob(jobs, j) /\ jobs[j].socket = pfds'[i].socket
      <4>1. i \in 1..Len(kept) /\ pfds'[i].socket = kept[i].socket
        BY <3>4
      <4>2. PICK j \in 1..Len(jobs) : HasJob(jobs, j) /\ kept[i] = jobs[j]
        BY <1>2, <4>1
      <4> QED
        BY <4>1, <4>2
    <3>7. Matched'
      <4>1. jobs' = jobs
        BY <1>1
      <4> QED
        BY <3>5, <3>6, <4>1 DEF Matched, HasJob, Count
    <3> QED
      BY <3>4, <3>7
  <2>2. CASE ~update
    BY <1>1, <2>2 DEF Inv, Typed, Listed, Matched, HasJob, Count
  <2> QED
    BY <2>1, <2>2 DEF Inv, Typed
<1>4. Typed'
  BY <1>1, <1>3 DEF Inv, Typed
<1>5. Locks'
  BY <1>1, Owners DEF Inv, Typed, Locks
<1>6. CallsFit'
  BY <1>1 DEF Inv, CallsFit, Fits, Owner
<1>7. Listed'
  BY <1>1, <1>3 DEF Inv, Listed, Unique, PollMatchesJobs
<1>8. Forgotten'
  <2>1. \A s \in Sockets : Gone(s)' <=> Gone(s)
    BY <1>1 DEF Gone, Owner
  <2>2. ASSUME NEW s \in Sockets, Gone(s), NEW i \in 1..Len(pfds'), pfds'[i].socket = s
        PROVE  FALSE
    <3>1. PICK j \in 1..Len(jobs) : jobs[j].job # NoJob /\ jobs[j].socket = s
      BY <1>1, <1>3, <2>2 DEF Matched, HasJob
    <3> QED
      BY <2>2, <3>1 DEF Inv, Forgotten
  <2> QED
    BY <1>1, <2>1, <2>2 DEF Inv, Forgotten
<1> QED
  BY <1>4, <1>5, <1>6, <1>7, <1>8 DEF Inv

\* What was polled is written into the entries, and wiped out afterwards.
LEMMA EntriesMarked ==
    ASSUME pfds \in Seq(Entries), NEW got \in [DOMAIN pfds -> SUBSET Polled],
           pfds' = [i \in DOMAIN pfds |-> [pfds[i] EXCEPT !.got = got[i]]]
    PROVE  /\ pfds' \in Seq(Entries) /\ Len(pfds') = Len(pfds) /\ Len(pfds) \in Nat
           /\ \A i \in 1..Len(pfds) : pfds'[i].socket = pfds[i].socket
<1>1. DOMAIN pfds = 1..Len(pfds) /\ Len(pfds) \in Nat /\ \A i \in 1..Len(pfds) : pfds[i] \in Entries
  OBVIOUS
<1>2. \A i \in 1..Len(pfds) : pfds'[i] = [pfds[i] EXCEPT !.got = got[i]]
  BY <1>1
<1>3. ASSUME NEW i \in 1..Len(pfds)
      PROVE  pfds'[i] \in Entries /\ pfds'[i].socket = pfds[i].socket
  <2>1. pfds[i] \in Entries /\ got[i] \in SUBSET Polled /\ pfds'[i] = [pfds[i] EXCEPT !.got = got[i]]
    BY <1>1, <1>2
  <2> QED
    BY <2>1 DEF Entries, Polled
<1>4. pfds' \in [1..Len(pfds) -> Entries]
  <2>1. DOMAIN pfds' = 1..Len(pfds) /\ pfds' = [i \in DOMAIN pfds' |-> pfds'[i]]
    BY <1>1
  <2> QED
    BY <1>3, <2>1
<1>5. pfds' \in Seq(Entries) /\ Len(pfds') = Len(pfds)
  BY <1>1, <1>4
<1> QED
  BY <1>1, <1>3, <1>5

\* Matched is about the sockets of the entries only.
LEMMA MatchedStays ==
    ASSUME Matched, jobs' = jobs, Len(pfds') = Len(pfds), Len(pfds) \in Nat,
           \A i \in 1..Len(pfds) : pfds'[i].socket = pfds[i].socket
    PROVE  Matched'
<1>1. ASSUME NEW j \in 1..Len(jobs), HasJob(jobs, j)
      PROVE  Count(jobs, j) \in 1..Len(pfds') /\ pfds'[Count(jobs, j)].socket = jobs[j].socket
  <2>1. Count(jobs, j) \in 1..Len(pfds) /\ pfds[Count(jobs, j)].socket = jobs[j].socket
    BY <1>1 DEF Matched
  <2> QED
    BY <2>1
<1>2. ASSUME NEW i \in 1..Len(pfds')
      PROVE  \E j \in 1..Len(jobs) : HasJob(jobs, j) /\ jobs[j].socket = pfds'[i].socket
  BY DEF Matched
<1> QED
  BY <1>1, <1>2 DEF Matched

LEMMA PollKeeps == ASSUME Inv, Poll PROVE Inv'
<1>1. PICK failed \in SUBSET {i \in DOMAIN pfds : peer[pfds[i].socket].state = "gone"} :
        LET Got(i) == Reports(pfds[i], peer[pfds[i].socket])
                      \cup (IF i \in failed THEN {"error"} ELSE {})
            reported == \E i \in DOMAIN pfds : Got(i) # {}
        IN  /\ pfds' = [i \in DOMAIN pfds |-> [pfds[i] EXCEPT !.got = Got(i)]]
            /\ service' = IF reported THEN "run" ELSE "sweep"
  BY DEF Poll
<1> DEFINE got == [i \in DOMAIN pfds |-> Reports(pfds[i], peer[pfds[i].socket])
                                         \cup (IF i \in failed THEN {"error"} ELSE {})]
<1>2. got \in [DOMAIN pfds -> SUBSET Polled]
      /\ pfds' = [i \in DOMAIN pfds |-> [pfds[i] EXCEPT !.got = got[i]]]
  BY <1>1 DEF Polled, Reports
<1> HIDE DEF got
<1>3. /\ pfds' \in Seq(Entries) /\ Len(pfds') = Len(pfds) /\ Len(pfds) \in Nat
      /\ \A i \in 1..Len(pfds) : pfds'[i].socket = pfds[i].socket
  BY <1>2, EntriesMarked DEF Inv, Typed
<1>4. service = "poll" /\ service' \in {"run", "sweep"} /\ (service' = "run" => pfds # <<>>)
      /\ cursor' = [job |-> 1, entry |-> 1]
      /\ UNCHANGED <<listLocker, jobs, update, sock, peer, call>>
  <2>1. service' = "run" => DOMAIN pfds # {}
    BY <1>1
  <2> QED
    BY <1>1, <2>1 DEF Poll, listVars
<1>5. ~update /\ Matched
  BY <1>4 DEF Inv, Listed
<1>6. service' = "run" => 1 \in 1..Len(jobs) /\ 1 \in 1..Len(pfds)
  <2>1. pfds # <<>> => 1 \in 1..Len(pfds)
    BY <1>3 DEF Inv, Typed
  <2>2. Len(jobs) \in Nat
    BY DEF Inv, Typed
  <2> QED
    BY <1>4, <1>5, <2>1, <2>2 DEF Matched
<1>7. Typed' /\ Locks' /\ CallsFit'
  BY <1>3, <1>4 DEF Inv, Typed, Locks, CallsFit, Fits, Owner
<1>8. Matched'
  BY <1>3, <1>4, <1>5, MatchedStays
<1>9. PollMatchesJobs'
  <2> SUFFICES ASSUME service' = "run", NEW j \in 1..Len(jobs), HasJob(jobs, j)
               PROVE  LET i == 1 + Count(jobs, j - 1)
                      IN  i <= Len(pfds) /\ pfds'[i].socket = jobs[j].socket
    BY <1>3, <1>4 DEF PollMatchesJobs, HasJob, Count
  <2>1. j - 1 \in Nat /\ (j - 1) + 1 = j
    BY DEF Inv, Typed
  <2>2. Count(jobs, j) = Count(jobs, j - 1) + 1 /\ Count(jobs, j - 1) \in Nat
    BY <2>1, Counting
  <2>3. Count(jobs, j) \in 1..Len(pfds) /\ pfds[Count(jobs, j)].socket = jobs[j].socket
    BY <1>5 DEF Matched
  <2> QED
    BY <1>3, <2>2, <2>3
<1>10. Listed'
  BY <1>4, <1>5, <1>6, <1>3, <1>8, <1>9 DEF Inv, Listed, Unique
<1>11. Forgotten'
  BY <1>3, <1>4 DEF Inv, Forgotten, Gone, Owner
<1> QED
  BY <1>7, <1>10, <1>11 DEF Inv

LEMMA SweepKeeps == ASSUME Inv, Sweep PROVE Inv'
<1>1. service = "sweep" /\ service' = "ready" /\ listLocker' = Nobody
      /\ jobs' = JobsIn(jobs) /\ update' = (update \/ jobs' # jobs)
      /\ cursor' = [job |-> 1, entry |-> 1] /\ UNCHANGED <<sock, peer, call>>
      /\ pfds' = [i \in DOMAIN pfds |-> [pfds[i] EXCEPT !.got = {}]]
  BY DEF Sweep
<1> DEFINE got == [i \in DOMAIN pfds |-> {}]
<1>2. /\ pfds' \in Seq(Entries) /\ Len(pfds') = Len(pfds) /\ Len(pfds) \in Nat
      /\ \A i \in 1..Len(pfds) : pfds'[i].socket = pfds[i].socket
  <2>1. got \in [DOMAIN pfds -> SUBSET Polled]
        /\ pfds' = [i \in DOMAIN pfds |-> [pfds[i] EXCEPT !.got = got[i]]]
    BY <1>1
  <2> HIDE DEF got
  <2> QED
    BY <2>1, EntriesMarked DEF Inv, Typed
<1>3. /\ jobs' \in Seq(ListJobs) /\ Unique(jobs')
      /\ \A i \in 1..Len(jobs') : \E j \in 1..Len(jobs) : jobs'[i] = jobs[j]
  BY <1>1, SweptList DEF Inv, Typed, Listed
<1>4. Typed'
  BY <1>1, <1>2, <1>3 DEF Inv, Typed
<1>5. Locks'
  BY <1>1, Owners DEF Inv, Locks
<1>6. CallsFit'
  BY <1>1 DEF Inv, CallsFit, Fits, Owner
<1>7. ~update' => Matched'
  <2> SUFFICES ASSUME ~update' PROVE Matched'
    OBVIOUS
  <2>1. ~update /\ jobs' = jobs
    BY <1>1
  <2> QED
    BY <1>2, <2>1, MatchedStays DEF Inv, Listed
<1>8. Listed'
  BY <1>1, <1>3, <1>7 DEF Listed, PollMatchesJobs
<1>9. Forgotten'
  <2>1. \A s \in Sockets : Gone(s)' <=> Gone(s)
    BY <1>1 DEF Gone, Owner
  <2> QED
    BY <1>1, <1>3, <2>1 DEF Inv, Forgotten
<1> QED
  BY <1>4, <1>5, <1>6, <1>8, <1>9 DEF Inv

\* The jobs between two places.
Between(q, a, b) == Cardinality({k \in a..b : q[k].job # NoJob})

LEMMA BetweenNext ==
    ASSUME NEW q, NEW a \in Nat, NEW b \in Int, a <= b
    PROVE  /\ Between(q, a + 1, b) \in Nat
           /\ Between(q, a, b) = IF HasJob(q, a) THEN Between(q, a + 1, b) + 1
                                 ELSE Between(q, a + 1, b)
<1> DEFINE S == {k \in (a + 1)..b : q[k].job # NoJob}
<1>1. IsFiniteSet(S)
  <2>1. IsFiniteSet((a + 1)..b) /\ S \in SUBSET ((a + 1)..b)
    BY FS_Interval
  <2> QED
    BY <2>1, FS_Subset
<1>2. {k \in a..b : q[k].job # NoJob} = IF HasJob(q, a) THEN S \cup {a} ELSE S
  <2>1. a..b = ((a + 1)..b) \cup {a}
    OBVIOUS
  <2> QED
    BY <2>1 DEF HasJob
<1>3. a \notin S
  OBVIOUS
<1> QED
  BY <1>1, <1>2, <1>3, FS_AddElement, FS_CardinalityType DEF Between

LEMMA BetweenSame ==
    ASSUME NEW q, NEW r, NEW a, NEW b, \A k \in a..b : q[k] = r[k]
    PROVE  Between(q, a, b) = Between(r, a, b)
<1>1. {k \in a..b : q[k].job # NoJob} = {k \in a..b : r[k].job # NoJob}
  OBVIOUS
<1> QED
  BY <1>1 DEF Between

\* The entry of each job that is still to run.
Ahead(q, at, entries) ==
    \A j \in at.job..Len(q) : HasJob(q, j) =>
        LET i == at.entry + Between(q, at.job, j - 1)
        IN  i <= Len(entries) /\ entries[i].socket = q[j].socket

LEMMA PollMatchesIsAhead == PollMatchesJobs <=> (service = "run" => Ahead(jobs, cursor, pfds))
  BY DEF PollMatchesJobs, Ahead, HasJob, Between

LEMMA AheadNext ==
    ASSUME NEW q \in Seq(ListJobs), NEW at \in [job : Nat, entry : Nat], at.job \in 1..Len(q),
           NEW entries, Ahead(q, at, entries), NEW r \in Seq(ListJobs), Len(r) = Len(q),
           \A k \in 1..Len(q) : k # at.job => r[k] = q[k],
           NEW new \in [job : Nat, entry : Nat], new.job = at.job + 1,
           new.entry = IF HasJob(q, at.job) THEN at.entry + 1 ELSE at.entry
    PROVE  Ahead(r, new, entries)
<1> SUFFICES ASSUME NEW j \in new.job..Len(r), HasJob(r, j)
             PROVE  LET i == new.entry + Between(r, new.job, j - 1)
                    IN  i <= Len(entries) /\ entries[i].socket = r[j].socket
  BY DEF Ahead
<1>1. at.job \in Nat /\ at.entry \in Nat /\ j \in Int /\ at.job <= j - 1 /\ j \in at.job..Len(q)
      /\ j # at.job /\ j \in 1..Len(q)
  OBVIOUS
<1>2. r[j] = q[j] /\ HasJob(q, j)
  BY <1>1 DEF HasJob
<1>3. Between(r, at.job + 1, j - 1) = Between(q, at.job + 1, j - 1)
  <2>1. \A k \in (at.job + 1)..(j - 1) : r[k] = q[k]
    BY <1>1
  <2> QED
    BY <2>1, BetweenSame
<1>4. /\ Between(q, at.job + 1, j - 1) \in Nat
      /\ Between(q, at.job, j - 1) = IF HasJob(q, at.job) THEN Between(q, at.job + 1, j - 1) + 1
                                     ELSE Between(q, at.job + 1, j - 1)
  BY <1>1, BetweenNext
<1>5. new.entry + Between(r, new.job, j - 1) = at.entry + Between(q, at.job, j - 1)
  BY <1>1, <1>3, <1>4
<1>6. LET i == at.entry + Between(q, at.job, j - 1)
      IN  i <= Len(entries) /\ entries[i].socket = q[j].socket
  BY <1>1, <1>2 DEF Ahead
<1> QED
  BY <1>2, <1>5, <1>6

LEMMA RunKeeps == ASSUME Inv, RunJob PROVE Inv'
<1> DEFINE p == cursor.job
           e == jobs[p]
           s == jobs[p].socket
           job == jobs[p].job
           got == pfds[cursor.entry].got
<1>1. service = "run" /\ cursor \in [job : Nat, entry : Nat] /\ p \in 1..Len(jobs)
      /\ cursor.entry \in 1..Len(pfds) /\ e \in ListJobs /\ s \in Sockets /\ job \in Jobs
      /\ sock[s] \in SocketStates
  <2>1. service = "run"
    BY DEF RunJob
  <2>2. cursor \in [job : Nat, entry : Nat] /\ p \in 1..Len(jobs) /\ cursor.entry \in 1..Len(pfds)
    BY <2>1 DEF Inv, Typed, Listed
  <2>3. e \in ListJobs
    BY <2>2 DEF Inv, Typed
  <2>4. s \in Sockets /\ job \in Jobs
    BY <2>3 DEF ListJobs
  <2>5. sock[s] \in SocketStates
    BY <2>4 DEF Inv, Typed
  <2> QED
    BY <2>1, <2>2, <2>3, <2>4, <2>5
<1>2. UNCHANGED <<listLocker, pfds, call>> /\ service' \in {"run", "sweep"}
      /\ (service' = "run" => cursor'.entry <= Len(pfds) /\ cursor'.job <= Len(jobs))
  <2>1. cursor' \in [job : Nat, entry : Nat]
    BY <1>1 DEF RunJob
  <2>2. Len(pfds) \in Nat /\ Len(jobs) \in Nat
    BY DEF Inv, Typed
  <2> QED
    BY <2>1, <2>2 DEF RunJob
<1>3. /\ cursor' \in [job : Nat, entry : Nat] /\ cursor'.job = p + 1
      /\ cursor'.entry = IF HasJob(jobs, p) THEN cursor.entry + 1 ELSE cursor.entry
  BY <1>1 DEF RunJob, HasJob
<1>4. PICK new \in Jobs :
        /\ jobs' = [jobs EXCEPT ![p] = [e EXCEPT !.job = new]]
        /\ update' = (update \/ new # job)
        /\ job = NoJob => new = NoJob
        /\ sock' \in [Sockets -> SocketStates] /\ peer' \in [Sockets -> PeerStates]
        /\ \A t \in Sockets : sock'[t].phase = sock[t].phase
  <2>1. CASE job = NoJob
    <3>1. jobs' = jobs /\ update' = update /\ sock' = sock /\ peer' = peer
      BY <2>1 DEF RunJob
    <3>2. jobs = [jobs EXCEPT ![p] = [e EXCEPT !.job = job]]
      <4>1. e = [e EXCEPT !.job = job]
        BY <1>1 DEF ListJobs
      <4>2. jobs = [jobs EXCEPT ![p] = e]
        BY <1>1 DEF Inv, Typed
      <4> QED
        BY <4>1, <4>2
    <3> QED
      BY <1>1, <2>1, <3>1, <3>2 DEF Inv, Typed
  <2>2. CASE job # NoJob
    <3>1. PICK o \in RunOutcomes(sock[s], job, got, peer[s]) :
            /\ sock' = [sock EXCEPT ![s] = o.socket]
            /\ SaveJob(s, job, o)
            /\ peer' = IF s \in Data /\ "read" \in got /\ sock[s].readable /\ o.socket.input
                       THEN [peer EXCEPT ![s].arrived = FALSE] ELSE peer
      BY <2>2 DEF RunJob
    <3>2. o.socket \in SocketStates /\ o.socket.phase = sock[s].phase /\ o.job \in Jobs
      BY <1>1, <2>2, <3>1, RunTypes
    <3>3. jobs' = [jobs EXCEPT ![p] = [e EXCEPT !.job = o.job]] /\ update' = (update \/ o.job # job)
      BY <3>1 DEF SaveJob
    <3>4. sock' \in [Sockets -> SocketStates] /\ \A t \in Sockets : sock'[t].phase = sock[t].phase
      BY <1>1, <3>1, <3>2 DEF Inv, Typed
    <3>5. peer' \in [Sockets -> PeerStates]
      <4>1. peer[s] \in PeerStates
        BY <1>1 DEF Inv, Typed
      <4>2. [peer[s] EXCEPT !.arrived = FALSE] \in PeerStates
        BY <4>1 DEF PeerStates
      <4>3. peer' = [peer EXCEPT ![s] = [peer[s] EXCEPT !.arrived = FALSE]] \/ peer' = peer
        BY <3>1
      <4> QED
        BY <1>1, <4>2, <4>3 DEF Inv, Typed
    <3> QED
      BY <2>2, <3>2, <3>3, <3>4, <3>5
  <2> QED
    BY <2>1, <2>2
<1> DEFINE f == [e EXCEPT !.job = new]
<1>5. f \in ListJobs /\ f.socket = s /\ f.job = new /\ (new = job => f = e)
  BY <1>1 DEF ListJobs
<1>6. jobs' = [jobs EXCEPT ![p] = f]
  BY <1>4
<1> HIDE DEF f
<1>7. /\ jobs' \in Seq(ListJobs) /\ Len(jobs') = Len(jobs) /\ jobs'[p] = f
      /\ \A k \in 1..Len(jobs) : k # p => jobs'[k] = jobs[k]
  BY <1>1, <1>5, <1>6 DEF Inv, Typed
<1>8. new = job => jobs' = jobs
  BY <1>1, <1>5, <1>6 DEF Inv, Typed
<1>9. Typed'
  <2>1. update' \in BOOLEAN
    BY <1>4 DEF Inv, Typed
  <2> QED
    BY <1>2, <1>3, <1>4, <1>7, <2>1 DEF Inv, Typed
<1>10. Locks'
  BY <1>1, <1>2 DEF Inv, Locks
<1>11. CallsFit'
  <2>1. \A c \in Callers : call[c].socket \in Sockets
    BY DEF Inv, Typed, Calls
  <2> QED
    BY <1>2, <1>4, <2>1, Owners DEF Inv, CallsFit, Fits, Owner
<1>12. Listed'
  <2>1. Unique(jobs')
    <3>1. \A k \in 1..Len(jobs) : jobs'[k].socket = jobs[k].socket
      BY <1>5, <1>7
    <3> QED
      BY <1>7, <3>1 DEF Inv, Listed, Unique
  <2>2. ~update' => Matched'
    <3> SUFFICES ASSUME ~update' PROVE Matched'
      OBVIOUS
    <3>1. ~update /\ new = job
      BY <1>4
    <3>2. jobs' = jobs /\ pfds' = pfds /\ Matched
      BY <1>2, <1>8, <3>1 DEF Inv, Listed
    <3> QED
      BY <3>2, MatchedStays DEF Inv, Typed
  <2>3. PollMatchesJobs'
    <3>1. Ahead(jobs, cursor, pfds)
      BY <1>1, PollMatchesIsAhead DEF Inv, Listed
    <3>2. Ahead(jobs', cursor', pfds)
      <4>1. jobs \in Seq(ListJobs)
        BY DEF Inv, Typed
      <4> QED
        BY <1>1, <1>3, <1>7, <3>1, <4>1, AheadNext
    <3>3. Ahead(jobs', cursor', pfds')
      BY <1>2, <3>2
    <3> QED
      BY <3>3 DEF PollMatchesJobs, Ahead, HasJob, Between
  <2>4. service' = "run" => cursor'.job \in 1..Len(jobs') /\ cursor'.entry \in 1..Len(pfds')
    BY <1>1, <1>2, <1>3, <1>7
  <2> QED
    BY <1>2, <2>1, <2>2, <2>3, <2>4 DEF Listed
<1>13. Forgotten'
  <2>1. ASSUME NEW t \in Sockets PROVE Gone(t)' <=> Gone(t)
    BY <1>2, <1>4 DEF Gone, Owner
  <2>2. ASSUME NEW t \in Sockets, Gone(t), NEW i \in 1..Len(jobs'), jobs'[i].socket = t
        PROVE  jobs'[i].job = NoJob
    <3>1. CASE i = p
      <4>1. s = t
        BY <1>5, <1>7, <2>2, <3>1
      <4>2. job = NoJob
        BY <1>1, <2>2, <4>1 DEF Inv, Forgotten
      <4> QED
        BY <1>4, <1>5, <1>7, <3>1, <4>2
    <3>2. CASE i # p
      BY <1>7, <2>2, <3>2 DEF Inv, Forgotten
    <3> QED
      BY <3>1, <3>2
  <2> QED
    BY <1>1, <1>2, <2>1, <2>2 DEF Inv, Forgotten
<1> QED
  BY <1>9, <1>10, <1>11, <1>12, <1>13 DEF Inv

-----------------------------------------------------------------------------
(* The theorems *)

LEMMA InvKept == Inv /\ [Next]_vars => Inv'
<1> SUFFICES ASSUME Inv, [Next]_vars PROVE Inv'
  OBVIOUS
<1>1. CASE ServiceStep
  BY <1>1, ApproachKeeps, CollectKeeps, PeersKeep, PollKeeps, RunKeeps, SweepKeeps DEF ServiceStep
<1>2. ASSUME NEW c \in Callers, CallerStep(c) PROVE Inv'
  BY <1>2, MakeJobKeeps, TakingLocksKeeps, EditKeeps, ReadKeeps, FlushReturnsKeeps,
     CloseSocketKeeps DEF CallerStep
<1>3. CASE \/ Bind \/ AcceptThrows
           \/ \E s \in Data : Write(s) \/ HandleInputReady(s) \/ StartFlush(s)
           \/ \E s \in Sockets : Close(s)
  BY <1>3, SocketCallsKeep
<1>4. CASE (\E s \in Incoming : Accept(s)) \/ (\E s \in Outgoing : Connect(s))
  BY <1>4, AcceptKeeps, ConnectKeeps
<1>5. CASE \/ \E s \in Sockets : Arrives(s)
           \/ \E s \in Data : PeerChanges(s) \/ PeerGoes(s)
  BY <1>5, PeersKeep
<1>6. CASE UNCHANGED vars
  <2>1. ListStays /\ UNCHANGED <<listLocker, sock, peer, call>>
    BY <1>6 DEF vars, ListStays
  <2>2. Listed'
    BY <2>1, ListedStays
  <2> QED
    BY <2>1, <2>2 DEF Inv, Typed, Locks, CallsFit, Fits, Owner, ListStays, Forgotten, Gone
<1> QED
  BY <1>1, <1>2, <1>3, <1>4, <1>5, <1>6 DEF Next

LEMMA InvHolds == Spec => []Inv
  BY InvInit, InvKept, PTL DEF Spec

\* Every job is run with what was polled for its own socket, for any number of sockets
\* and of threads that change the list meanwhile (SocketMultiplexer::serviceThread).
THEOREM PollKept == Spec => []PollMatchesJobs
<1>1. Inv => PollMatchesJobs
  BY DEF Inv, Listed
<1> QED
  BY <1>1, InvHolds, PTL

\* A closed socket has no job and is not polled, for any number of sockets and threads
\* (TCPSocket::close, SocketMultiplexer::removeSocket).
THEOREM ClosedForgotten == Spec => []ClosedIsForgotten
<1>1. Inv => ClosedIsForgotten
  <2> SUFFICES ASSUME Inv, NEW s \in Sockets, sock[s].phase = "closed"
               PROVE  /\ \A i \in DOMAIN jobs : jobs[i].socket = s => jobs[i].job = NoJob
                      /\ service \in {"poll", "run"} => \A i \in DOMAIN pfds : pfds[i].socket # s
    BY DEF ClosedIsForgotten
  <2>1. DOMAIN jobs = 1..Len(jobs) /\ DOMAIN pfds = 1..Len(pfds)
    BY DEF Inv, Typed
  <2> QED
    BY <2>1 DEF Inv, Forgotten, Gone
<1> QED
  BY <1>1, InvHolds, PTL

-----------------------------------------------------------------------------
(* What a service of a socket needs *)

\* n is what became of a socket d: it wants nothing that it did not want.
Shrunk(n, d) ==
    /\ n.connected => d.connected
    /\ n.readable => d.readable
    /\ n.writable => d.writable
    /\ n.output => d.output
    /\ d.connected /\ ~n.connected => ~n.writable

\* The end of a connection that was up: nobody is there, and it is announced.
Sound(d, gone) ==
    "connected" \in d.posted =>
        /\ ~d.writable => gone
        /\ ~d.connected => ~d.readable /\ ~d.writable /\ "disconnected" \in d.posted
        /\ ~d.readable /\ ~d.writable /\ ~d.input => "disconnected" \in d.posted

\* A job that connects is for a socket that never was connected, or will find
\* nobody there.
Suits(job, d, gone) ==
    /\ job.kind # "listening"
    /\ job.kind = "connecting" /\ "connected" \in d.posted => gone /\ "disconnected" \in d.posted

Covers(job, d) ==
    /\ "read" \in Wanted(d) => job.read
    /\ "write" \in Wanted(d) => job.write

Moving == {"lock", "poke", "list", "edit"}
Changing == Moving \cup {"job", "shut"}

NoneIn(s, q) == \A i \in 1..Len(q) : q[i].socket = s => q[i].job = NoJob
CoveredIn(s, d, q) ==
    \A w \in Wanted(d) : \E i \in 1..Len(q) :
        /\ q[i].socket = s
        /\ w = "read" => q[i].job.read
        /\ w = "write" => q[i].job.write

\* What holds of a data socket s that is d, with gone as its peer, n as the call of its
\* owner, q as the jobs and es as the entries.
Announced(s, d, n) ==
    d.input /\ ~d.brokeOff => "inputReady" \in d.posted \/ (n.at = "read" /\ n.socket = s)
Suited(s, d, gone, q) == \A i \in 1..Len(q) : q[i].socket = s => Suits(q[i].job, d, gone)
Unknown(s, d, q, es) ==
    d.phase = "free" => NoneIn(s, q) /\ \A i \in 1..Len(es) : es[i].socket # s
CallSound(s, d, gone, n, q) ==
    n.socket = s =>
        /\ n.at = "job" => Shrunk(d, n.seen)
        /\ n.at \in Moving => Suits(n.job, d, gone) /\ (n.after # "shut" => Covers(n.job, d))
        /\ n.at \in Moving \cup {"job"} /\ n.after # "shut" /\ "connected" \notin d.posted
             => NoneIn(s, q)
Interest(s, d, n, q) ==
    d.phase = "live" /\ ~(n.socket = s /\ n.at \in Changing) => CoveredIn(s, d, q)
Errors(s, gone, es, at) ==
    at = "run" => \A i \in 1..Len(es) : es[i].socket = s /\ "error" \in es[i].got => gone

Good(s, d, gone, n, q, es, at) ==
    /\ Sound(d, gone) /\ Announced(s, d, n) /\ Suited(s, d, gone, q) /\ Unknown(s, d, q, es)
    /\ CallSound(s, d, gone, n, q) /\ Interest(s, d, n, q) /\ Errors(s, gone, es, at)

\* The listening socket d, with n as the call of its owner.
Listens(q) == \E i \in 1..Len(q) : q[i] = [socket |-> Listener, job |-> ListeningJob]
ListenerGood(d, n, q) ==
    /\ ~AcceptFails /\ d.phase = "live" =>
         \/ "connecting" \in d.posted
         \/ Listens(q)
         \/ n.at \in Moving \cup {"shut"} /\ n.socket = Listener
         \/ n.at \in Moving \cup {"job"} /\ n.after = "listen"
    /\ n.socket = Listener => /\ n.at # "job"
                              /\ n.at \in Moving => n.job = ListeningJob \/ n.after = "shut"
    /\ \A i \in 1..Len(q) : q[i].socket = Listener => q[i].job \in {ListeningJob, NoJob}

PeerGone(s) == peer[s].state = "gone"

Serviced ==
    /\ \A s \in Data : Good(s, sock[s], PeerGone(s), call[Owner(s)], jobs, pfds, service)
    /\ ListenerGood(sock[Listener], call[ListenerOwner], jobs)

-----------------------------------------------------------------------------
(* Sockets and jobs *)

\* n is what running a job or reading made of d.
Becomes(n, d, gone) ==
    /\ n \in SocketStates /\ Sound(n, gone) /\ Shrunk(n, d)
    /\ d.posted \subseteq n.posted
    /\ n.input /\ ~n.brokeOff => (d.input /\ ~d.brokeOff) \/ "inputReady" \in n.posted

LEMMA ShrunkCovers ==
    ASSUME NEW d \in SocketStates, NEW n \in SocketStates, NEW job \in Jobs,
           Shrunk(n, d), Covers(job, d)
    PROVE  Covers(job, n) /\ Wanted(n) \subseteq Wanted(d)
  BY DEF Shrunk, Covers, Wanted, HasOutput, SocketStates

LEMMA BecomesStays ==
    ASSUME NEW d \in SocketStates, NEW gone, Sound(d, gone)
    PROVE  Becomes(d, d, gone)
  BY DEF Becomes, Shrunk, SocketStates

LEMMA BecomesOn ==
    ASSUME NEW d \in SocketStates, NEW e, NEW n, NEW gone,
           Becomes(e, d, gone), Becomes(n, e, gone)
    PROVE  Becomes(n, d, gone)
  BY DEF Becomes, Shrunk, SocketStates

\* newJob, with the mutex or without it while the flags go down.
LEMMA JobCovers ==
    ASSUME NEW d \in SocketStates, NEW n \in SocketStates, NEW gone \in BOOLEAN, n.phase = "live",
           Shrunk(n, d), Sound(n, gone), NEW job \in UnlockedJobs(d, n)
    PROVE  job \in Jobs /\ Covers(job, n) /\ Suits(job, n, gone)
<1>1. PICK a \in Glimpses(d, n), b \in Glimpses(d, n) : job = JobFrom(a, b)
  BY DEF UnlockedJobs
<1>2. ASSUME NEW g \in Glimpses(d, n)
      PROVE  /\ g \in SocketStates /\ g.phase = "live"
             /\ g.connected \in {d.connected, n.connected}
             /\ g.readable \in {d.readable, n.readable}
             /\ g.writable \in {d.writable, n.writable}
             /\ g.output \in {d.output, n.output}
  <2>1. PICK conn \in {d.connected, n.connected}, rd \in {d.readable, n.readable},
             wr \in {d.writable, n.writable}, out \in {d.output, n.output} :
          g = [n EXCEPT !.connected = conn, !.readable = rd, !.writable = wr, !.output = out]
    BY DEF Glimpses
  <2>2. conn \in BOOLEAN /\ rd \in BOOLEAN /\ wr \in BOOLEAN /\ out \in BOOLEAN
    BY DEF SocketStates
  <2> QED
    BY <2>1, <2>2 DEF SocketStates
<1>3. job \in Jobs
  BY GlimpseTypes
<1> DEFINE Within(g) ==
      /\ g \in SocketStates /\ g.phase = "live"
      /\ n.connected => g.connected
      /\ n.readable => g.readable
      /\ n.writable => g.writable
      /\ n.output => g.output
      /\ ~n.connected /\ n.writable => ~g.connected
<1>4. Within(a) /\ Within(b)
  BY <1>2 DEF Shrunk, SocketStates
<1>5. Covers(job, n)
  BY <1>1, <1>4 DEF JobFrom, Covers, Wanted, HasOutput, NoJob, SocketStates
<1>6. Suits(job, n, gone)
  <2>1. job.kind # "listening" /\ (job.kind = "connecting" => ~n.connected)
    BY <1>1, <1>4 DEF JobFrom, NoJob
  <2> QED
    BY <2>1 DEF Suits, Sound, SocketStates
<1> QED
  BY <1>3, <1>5, <1>6

LEMMA NewJobCovers ==
    ASSUME NEW n \in SocketStates, NEW gone \in BOOLEAN, n.phase = "live", Sound(n, gone)
    PROVE  NewJob(n) \in Jobs /\ Covers(NewJob(n), n) /\ Suits(NewJob(n), n, gone)
<1>1. Shrunk(n, n)
  BY DEF Shrunk
<1>2. n = [n EXCEPT !.connected = n.connected, !.readable = n.readable,
                    !.writable = n.writable, !.output = n.output]
  BY DEF SocketStates
<1>3. n \in Glimpses(n, n)
  BY <1>2 DEF Glimpses
<1>4. NewJob(n) \in UnlockedJobs(n, n)
  BY <1>3 DEF NewJob, UnlockedJobs
<1> QED
  BY <1>1, <1>4, JobCovers

LEMMA EndBecomes ==
    ASSUME NEW d \in SocketStates, NEW gone \in BOOLEAN, gone, Sound(d, gone)
    PROVE  /\ Becomes(Post(OnDisconnected(d), "disconnected"), d, gone)
           /\ Becomes(OnDisconnected(Post(d, "disconnected")), d, gone)
           /\ Becomes(OverIf(~d.readable /\ ~d.input, OnOutputShutdown(d)), d, gone)
  BY DEF Becomes, Sound, Shrunk, SocketStates, Post, Posts, OnDisconnected, OnOutputShutdown, OverIf

LEMMA WriteBecomes ==
    ASSUME NEW d \in SocketStates, NEW p \in PeerStates, Sound(d, p.state = "gone"),
           NEW w \in WriteOutcomes(d, p)
    PROVE  Becomes(w.socket, d, p.state = "gone")
<1> DEFINE less == [d EXCEPT !.output = FALSE]
           ended == OverIf(~d.readable /\ ~d.input, OnOutputShutdown(d))
           lost == Post(OnDisconnected(d), "disconnected")
<1>1. Becomes(d, d, p.state = "gone")
  BY BecomesStays
<1>2. Becomes(less, d, p.state = "gone")
  BY DEF Becomes, Sound, Shrunk, SocketStates
<1>3. p.state = "gone" => Becomes(ended, d, p.state = "gone") /\ Becomes(lost, d, p.state = "gone")
  BY EndBecomes
<1>4. \/ w \in {Retry(d), New(d), New(less)}
      \/ p.state = "gone" /\ w \in {New(ended), New(lost)}
  BY DEF WriteOutcomes
<1> HIDE DEF less, ended, lost
<1> QED
  BY <1>1, <1>2, <1>3, <1>4 DEF Retry, New

LEMMA ReadBecomes ==
    ASSUME NEW w, w.socket \in SocketStates, NEW p \in PeerStates,
           Sound(w.socket, p.state = "gone"), NEW o \in ReadOutcomes(w, p)
    PROVE  Becomes(o.socket, w.socket, p.state = "gone")
<1> DEFINE d == w.socket
           more == [(IF d.input THEN d ELSE Post(d, "inputReady")) EXCEPT !.input = TRUE]
           hung == [OverIf(~d.writable /\ ~d.input, d) EXCEPT !.readable = FALSE]
           lost == Post(OnDisconnected(d), "disconnected")
           kept == [d EXCEPT !.input = TRUE, !.brokeOff = @ \/ ~d.input]
<1>1. d \in SocketStates /\ Sound(d, p.state = "gone")
  OBVIOUS
<1>2. \/ o \in {Retry(more), New(hung), w}
      \/ p.state = "gone" /\ o = New(lost)
      \/ p.state = "gone" /\ o = [socket |-> kept, result |-> w.result]
  BY DEF ReadOutcomes, Hungup, Unsaid
<1> HIDE DEF d
<1>3. Becomes(d, d, p.state = "gone")
  BY <1>1, BecomesStays
<1>4. Becomes(more, d, p.state = "gone")
  BY <1>1 DEF Becomes, Sound, Shrunk, SocketStates, Post, Posts
<1>5. Becomes(hung, d, p.state = "gone")
  BY <1>1 DEF Becomes, Sound, Shrunk, SocketStates, Post, Posts, OverIf
<1>6. p.state = "gone" => Becomes(lost, d, p.state = "gone")
  BY <1>1, EndBecomes
<1>7. Becomes(kept, d, p.state = "gone")
  BY <1>1 DEF Becomes, Sound, Shrunk, SocketStates
<1> HIDE DEF more, hung, lost, kept
<1> QED
  BY <1>2, <1>3, <1>4, <1>5, <1>6, <1>7 DEF Retry, New, d

LEMMA EmptiedBecomes ==
    ASSUME NEW d \in SocketStates, NEW gone \in BOOLEAN, Sound(d, gone)
    PROVE  Becomes(Emptied(d), d, gone) /\ ~Emptied(d).input /\ Emptied(d).posted \subseteq Posts
  BY DEF Becomes, Sound, Shrunk, SocketStates, Post, Posts, Emptied

\* Running a job keeps what it means for a socket to be sound, and the job that is
\* saved covers what the socket wants if the one before did.
LEMMA RunBecomes ==
    ASSUME NEW d \in SocketStates, d.phase = "live", NEW job \in Jobs, job # NoJob, NEW got,
           NEW p \in PeerStates, "error" \in got => p.state = "gone",
           Sound(d, p.state = "gone"), Suits(job, d, p.state = "gone"),
           NEW o \in RunOutcomes(d, job, got, p)
    PROVE  /\ "connected" \in d.posted => Becomes(o.socket, d, p.state = "gone")
           /\ Sound(o.socket, p.state = "gone") /\ Suits(o.job, o.socket, p.state = "gone")
           /\ o.socket.input /\ ~o.socket.brokeOff =>
                (d.input /\ ~d.brokeOff) \/ "inputReady" \in o.socket.posted
           /\ d.posted \subseteq o.socket.posted
           /\ Covers(job, d) => Covers(o.job, o.socket)
<1> DEFINE gone == p.state = "gone"
<1>1. o.socket \in SocketStates /\ o.socket.phase = "live" /\ o.job \in Jobs
  BY RunTypes
<1>2. CASE job.kind = "connecting"
  <2>1. o \in ServiceConnecting(d, job, got, p)
    BY <1>2 DEF RunOutcomes
  <2> DEFINE failed == OnDisconnected(Post(d, "connectionFailed"))
             up == Post(OnConnected(d), "connected")
  <2>2. \/ gone /\ o = [socket |-> failed, job |-> NewJob(failed)]
        \/ ~gone /\ o = [socket |-> up, job |-> NewJob(up)]
        \/ ~gone /\ o = [socket |-> d, job |-> job]
    BY <2>1 DEF ServiceConnecting
  <2>3. CASE gone /\ o = [socket |-> failed, job |-> NewJob(failed)]
    <3>1. failed \in SocketStates /\ failed.phase = "live"
      BY FlagTypes DEF Posts
    <3>2. Sound(failed, gone) /\ d.posted \subseteq failed.posted /\ Shrunk(failed, d) /\ ~failed.input
      BY <1>2, <2>3 DEF Sound, Suits, Shrunk, SocketStates, Post, Posts, OnDisconnected, OnOutputShutdown
    <3> HIDE DEF failed
    <3>3. Covers(NewJob(failed), failed) /\ Suits(NewJob(failed), failed, gone)
      BY <3>1, <3>2, NewJobCovers
    <3> QED
      BY <2>3, <3>1, <3>2, <3>3 DEF Becomes
  <2>4. CASE ~gone /\ o = [socket |-> up, job |-> NewJob(up)]
    <3>1. up \in SocketStates /\ up.phase = "live"
      BY FlagTypes DEF Posts
    <3>2. "connected" \notin d.posted
      BY <1>2, <2>4 DEF Suits
    <3>3. Sound(up, gone) /\ d.posted \subseteq up.posted /\ up.input = d.input
          /\ up.brokeOff = d.brokeOff
      BY DEF Sound, SocketStates, Post, Posts, OnConnected
    <3> HIDE DEF up
    <3>4. Covers(NewJob(up), up) /\ Suits(NewJob(up), up, gone)
      BY <3>1, <3>3, NewJobCovers
    <3> QED
      BY <2>4, <3>2, <3>3, <3>4
  <2>5. CASE ~gone /\ o = [socket |-> d, job |-> job]
    BY <2>5, BecomesStays
  <2> QED
    BY <2>2, <2>3, <2>4, <2>5
<1>3. CASE job.kind = "connected"
  <2>1. o \in ServiceConnected(d, job, got, p)
    BY <1>3 DEF RunOutcomes
  <2>2. CASE "error" \in got
    <3> DEFINE over == OnDisconnected(Post(d, "disconnected"))
    <3>1. over \in SocketStates /\ over.phase = "live"
      BY FlagTypes DEF Posts
    <3>2. Becomes(over, d, gone)
      BY <2>2, EndBecomes
    <3>3. o = [socket |-> over, job |-> NewJob(over)]
      BY <2>1, <2>2 DEF ServiceConnected
    <3> HIDE DEF over
    <3>4. Covers(NewJob(over), over) /\ Suits(NewJob(over), over, gone)
      BY <3>1, <3>2, NewJobCovers DEF Becomes
    <3> QED
      BY <3>2, <3>3, <3>4 DEF Becomes
  <2>3. CASE "error" \notin got
    <3>1. PICK w, r :
            /\ w \in WriteOutcomes(d, p) \cup {Retry(d)}
            /\ r \in ReadOutcomes(w, p) \cup {w}
            /\ o = Kept(job, r)
      BY <2>1, <2>3 DEF ServiceConnected
    <3>2. w.socket \in SocketStates /\ Becomes(w.socket, d, gone)
      BY <3>1, WriteBecomes, BecomesStays DEF Retry, Becomes
    <3>3. Becomes(r.socket, w.socket, gone)
      BY <3>1, <3>2, ReadBecomes, BecomesStays DEF Becomes
    <3>4. Becomes(r.socket, d, gone) /\ r.socket = o.socket
      BY <3>1, <3>2, <3>3, BecomesOn DEF Kept
    <3>5. o.job = NewJob(o.socket) \/ o.job = job
      BY <3>1, <3>4 DEF Kept
    <3>6. Suits(job, o.socket, gone)
      BY <1>3 DEF Suits
    <3>7. Covers(job, d) => Covers(job, o.socket)
      BY <1>1, <3>4, ShrunkCovers DEF Becomes
    <3>8. Covers(NewJob(o.socket), o.socket) /\ Suits(NewJob(o.socket), o.socket, gone)
      BY <1>1, <3>4, NewJobCovers DEF Becomes
    <3> QED
      BY <3>4, <3>5, <3>6, <3>7, <3>8 DEF Becomes
  <2> QED
    BY <2>2, <2>3
<1> QED
  BY <1>2, <1>3 DEF Jobs, NoJob, Suits

-----------------------------------------------------------------------------
(* What a socket needs, kept *)

\* A call n that does not change the job of s, and does not read from it.
Away(n, s) == ~(n.socket = s /\ n.at \in Changing \cup {"read"})

LEMMA StaysGood ==
    ASSUME NEW s, NEW d, NEW gone \in BOOLEAN, NEW after \in BOOLEAN, NEW n, NEW q, NEW es,
           NEW at, NEW next, Good(s, d, gone, n, q, es, at), gone => after,
           next = "run" => at = "run"
    PROVE  Good(s, d, after, n, q, es, next)
  BY DEF Good, Sound, Suited, Suits, CallSound, Errors

LEMMA AwayGood ==
    ASSUME NEW s, NEW d, NEW gone, NEW n, NEW m, NEW q, NEW es, NEW at,
           Good(s, d, gone, n, q, es, at), Away(n, s), Away(m, s)
    PROVE  Good(s, d, gone, m, q, es, at)
  BY DEF Good, Announced, CallSound, Interest, Away, Changing

\* A list with the same jobs for s.
SameJobs(s, q, r) ==
    /\ \A i \in 1..Len(r) : r[i].socket = s => \E j \in 1..Len(q) : q[j] = r[i]
    /\ \A j \in 1..Len(q) : q[j].socket = s /\ q[j].job # NoJob =>
         \E i \in 1..Len(r) : r[i] = q[j]

LEMMA ListGood ==
    ASSUME NEW s, NEW d, NEW gone, NEW n, NEW q, NEW r, NEW es, NEW at,
           Good(s, d, gone, n, q, es, at), SameJobs(s, q, r)
    PROVE  Good(s, d, gone, n, r, es, at)
<1>1. NoneIn(s, q) => NoneIn(s, r)
  BY DEF NoneIn, SameJobs
<1>2. CoveredIn(s, d, q) => CoveredIn(s, d, r)
  <2> SUFFICES ASSUME CoveredIn(s, d, q), NEW w \in Wanted(d)
               PROVE  \E i \in 1..Len(r) : /\ r[i].socket = s
                                           /\ w = "read" => r[i].job.read
                                           /\ w = "write" => r[i].job.write
    BY DEF CoveredIn
  <2>1. w \in {"read", "write"}
    BY DEF Wanted
  <2>2. PICK j \in 1..Len(q) : q[j].socket = s /\ (w = "read" => q[j].job.read)
                               /\ (w = "write" => q[j].job.write)
    BY DEF CoveredIn
  <2>3. q[j].job # NoJob
    BY <2>1, <2>2 DEF NoJob
  <2> QED
    BY <2>2, <2>3 DEF SameJobs
<1>3. Suited(s, d, gone, q) => Suited(s, d, gone, r)
  BY DEF Suited, SameJobs
<1> QED
  BY <1>1, <1>2, <1>3 DEF Good, Unknown, CallSound, Interest

LEMMA ListenerList ==
    ASSUME NEW d, NEW n, NEW q, NEW r, ListenerGood(d, n, q), SameJobs(Listener, q, r)
    PROVE  ListenerGood(d, n, r)
<1>1. Listens(q) => Listens(r)
  <2> SUFFICES ASSUME NEW j \in 1..Len(q), q[j] = [socket |-> Listener, job |-> ListeningJob]
               PROVE  Listens(r)
    BY DEF Listens
  <2>1. q[j].socket = Listener /\ q[j].job # NoJob
    BY DEF ListeningJob, NoJob
  <2> QED
    BY <2>1 DEF SameJobs, Listens
<1>2. \A i \in 1..Len(r) : r[i].socket = Listener => r[i].job \in {ListeningJob, NoJob}
  BY DEF ListenerGood, SameJobs
<1> QED
  BY <1>1, <1>2 DEF ListenerGood

LEMMA ListenerAway ==
    ASSUME NEW d, NEW n, NEW m, NEW q, ListenerGood(d, n, q), n.at \notin Changing,
           Away(m, Listener)
    PROVE  ListenerGood(d, m, q)
  BY DEF ListenerGood, Away, Changing, Moving

LEMMA DataSockets ==
    /\ Listener \notin Data /\ Data \subseteq Sockets /\ Sockets = Data \cup {Listener}
    /\ \A s \in Data : s # Listener /\ Owner(s) \in Callers
    /\ ListenerOwner \in Callers /\ Owner(Listener) = ListenerOwner
  BY Owners, SocketMultiplexerAssumption DEF Data, Sockets

\* A step of one thread that leaves the list and the service thread alone: it is enough
\* to look at the sockets of the thread.
LEMMA OwnSockets ==
    ASSUME Inv, Serviced, UNCHANGED <<jobs, pfds, service>>, NEW c \in Callers, NEW n,
           call' = [call EXCEPT ![c] = n],
           \A t \in Data : Owner(t) # c => sock'[t] = sock[t] /\ (PeerGone(t))' = PeerGone(t),
           \A t \in Data : Owner(t) = c =>
             Good(t, sock'[t], (PeerGone(t))', n, jobs, pfds, service),
           c # ListenerOwner => sock'[Listener] = sock[Listener],
           c = ListenerOwner => ListenerGood(sock'[Listener], n, jobs)
    PROVE  Serviced'
<1>1. \A b \in Callers : call'[b] = IF b = c THEN n ELSE call[b]
  BY DEF Inv, Typed
<1>2. ASSUME NEW t \in Data
      PROVE  Good(t, sock'[t], (PeerGone(t))', call'[Owner(t)], jobs', pfds', service')
  <2>1. CASE Owner(t) = c
    BY <1>1, <2>1
  <2>2. CASE Owner(t) # c
    <3>1. call'[Owner(t)] = call[Owner(t)]
      BY <1>1, <2>2, DataSockets
    <3> QED
      BY <2>2, <3>1 DEF Serviced
  <2> QED
    BY <2>1, <2>2
<1>3. ListenerGood(sock'[Listener], call'[ListenerOwner], jobs')
  <2>1. CASE c = ListenerOwner
    BY <1>1, <2>1
  <2>2. CASE c # ListenerOwner
    <3>1. call'[ListenerOwner] = call[ListenerOwner]
      BY <1>1, <2>2, DataSockets
    <3> QED
      BY <2>2, <3>1 DEF Serviced
  <2> QED
    BY <2>1, <2>2
<1> QED
  BY <1>2, <1>3 DEF Serviced

\* A call on the data socket s by its owner, which was in no call.
LEMMA CallOnData ==
    ASSUME Inv, Serviced, UNCHANGED <<jobs, pfds, service>>, NEW s \in Data, NEW d, NEW n,
           call[Owner(s)].at = "idle", n.socket = s \/ n.at = "idle",
           call' = [call EXCEPT ![Owner(s)] = n], sock' = [sock EXCEPT ![s] = d],
           \A t \in Data : t # s => (PeerGone(t))' = PeerGone(t),
           Good(s, d, (PeerGone(s))', n, jobs, pfds, service)
    PROVE  Serviced'
<1>1. Owner(s) \in Callers /\ s # Listener /\ s \in Sockets
  BY DataSockets
<1>2. sock'[s] = d /\ \A t \in Sockets : t # s => sock'[t] = sock[t]
  BY <1>1 DEF Inv, Typed
<1>3. ASSUME NEW t \in Data, Owner(t) = Owner(s)
      PROVE  Good(t, sock'[t], (PeerGone(t))', n, jobs, pfds, service)
  <2>1. CASE t = s
    BY <1>2, <2>1
  <2>2. CASE t # s
    <3>1. Good(t, sock[t], PeerGone(t), call[Owner(s)], jobs, pfds, service)
      BY <1>3 DEF Serviced
    <3>2. Away(call[Owner(s)], t) /\ Away(n, t)
      BY <2>2 DEF Away, Changing, Moving
    <3>3. Good(t, sock[t], PeerGone(t), n, jobs, pfds, service)
      BY <3>1, <3>2, AwayGood
    <3>4. sock'[t] = sock[t] /\ (PeerGone(t))' = PeerGone(t)
      BY <1>2, <2>2, DataSockets
    <3> QED
      BY <3>3, <3>4
  <2> QED
    BY <2>1, <2>2
<1>4. Owner(s) = ListenerOwner => ListenerGood(sock'[Listener], n, jobs)
  <2> SUFFICES ASSUME Owner(s) = ListenerOwner PROVE ListenerGood(sock'[Listener], n, jobs)
    OBVIOUS
  <2>1. ListenerGood(sock[Listener], call[Owner(s)], jobs)
    BY DEF Serviced
  <2>2. call[Owner(s)].at \notin Changing /\ Away(n, Listener)
    BY <1>1 DEF Away, Changing, Moving
  <2>3. sock'[Listener] = sock[Listener]
    BY <1>1, <1>2, DataSockets
  <2> QED
    BY <2>1, <2>2, <2>3, ListenerAway
<1>5. sock'[Listener] = sock[Listener] /\ \A t \in Data : Owner(t) # Owner(s) =>
        sock'[t] = sock[t] /\ (PeerGone(t))' = PeerGone(t)
  BY <1>1, <1>2, DataSockets
<1> QED
  BY <1>1, <1>3, <1>4, <1>5, OwnSockets

-----------------------------------------------------------------------------
(* Callers *)

LEMMA BoolGone == \A s \in Data : PeerGone(s) \in BOOLEAN
  BY DEF PeerGone

Births == {Post(OnConnected(Born), "connected"), [Born EXCEPT !.writable = TRUE]}

LEMMA BirthGood ==
    ASSUME NEW s \in Data, NEW free, NEW gone, NEW n, NEW q, NEW es, NEW at,
           Good(s, free, gone, n, q, es, at), free.phase = "free",
           NEW d \in Births,
           NEW m, m.at = "job", m.socket = s, m.seen = d
    PROVE  Good(s, d, FALSE, m, q, es, at)
<1>1. NoneIn(s, q) /\ \A i \in 1..Len(es) : es[i].socket # s
  BY DEF Good, Unknown
<1>2. d.phase = "live" /\ ~d.input /\ d.writable
      /\ ("connected" \in d.posted => d.connected /\ d.readable)
  BY DEF Births, Post, OnConnected, Born, FreshSocket
<1>3. Sound(d, FALSE) /\ Announced(s, d, m) /\ Unknown(s, d, q, es) /\ Errors(s, FALSE, es, at)
  BY <1>1, <1>2 DEF Sound, Announced, Unknown, Errors
<1>4. Suited(s, d, FALSE, q)
  BY <1>1 DEF Suited, Suits, NoneIn, NoJob
<1>5. CallSound(s, d, FALSE, m, q)
  BY <1>1 DEF CallSound, Shrunk, Moving
<1>6. Interest(s, d, m, q)
  BY DEF Interest, Changing
<1> QED
  BY <1>3, <1>4, <1>5, <1>6 DEF Good

LEMMA ConnectServes == ASSUME Inv, Serviced, NEW s \in Outgoing, Connect(s) PROVE Serviced'
<1>1. s \in Data /\ s \in Sockets /\ sock[s].phase = "free" /\ call[Owner(s)].at = "idle"
  BY Owners DEF Connect, Data
<1>2. PICK d \in Births :
        /\ sock' = [sock EXCEPT ![s] = d]
        /\ peer' = [peer EXCEPT ![s].state = IF d.connected THEN "open" ELSE "dialing"]
        /\ call' = [call EXCEPT ![Owner(s)] = MakingJob(s, d, "idle")]
  BY DEF Connect, Births
<1>3. UNCHANGED <<jobs, pfds, service>>
  BY DEF Connect, listVars, serviceVars
<1>4. ~(PeerGone(s))' /\ \A t \in Data : t # s => (PeerGone(t))' = PeerGone(t)
  <2>1. peer'[s].state \in {"open", "dialing"}
    BY <1>1, <1>2 DEF Inv, Typed, PeerStates
  <2>2. \A t \in Data : t # s => peer'[t] = peer[t]
    BY <1>2, DataSockets DEF Inv, Typed
  <2> QED
    BY <2>1, <2>2 DEF PeerGone
<1> DEFINE m == MakingJob(s, d, "idle")
<1>5. m.at = "job" /\ m.socket = s /\ m.seen = d
  BY DEF MakingJob
<1>6. call' = [call EXCEPT ![Owner(s)] = m]
  BY <1>2
<1> HIDE DEF m
<1>7. Good(s, d, FALSE, m, jobs, pfds, service)
  <2>1. Good(s, sock[s], PeerGone(s), call[Owner(s)], jobs, pfds, service)
    BY <1>1 DEF Serviced
  <2> QED
    BY <1>1, <1>5, <2>1, BirthGood
<1>8. Good(s, d, (PeerGone(s))', m, jobs, pfds, service)
  <2>1. (PeerGone(s))' = FALSE
    BY <1>4 DEF PeerGone
  <2> QED
    BY <1>7, <2>1
<1>9. sock' = [sock EXCEPT ![s] = d]
  BY <1>2
<1> QED
  BY <1>1, <1>3, <1>4, <1>5, <1>6, <1>8, <1>9, CallOnData

LEMMA AcceptServes == ASSUME Inv, Serviced, NEW s \in Incoming, Accept(s) PROVE Serviced'
<1> DEFINE c == ListenerOwner
           d == Post(OnConnected(Born), "connected")
           m == MakingJob(s, d, "listen")
<1>1. s \in Data /\ s \in Sockets /\ s # Listener /\ Owner(s) = c /\ c \in Callers
      /\ sock[s].phase = "free" /\ call[c].at = "idle"
  BY Owners, DataSockets DEF Accept, Data
<1>2. /\ sock' = [sock EXCEPT ![s] = d, ![Listener].posted = {}]
      /\ call' = [call EXCEPT ![c] = m]
      /\ peer' = [peer EXCEPT ![Listener].arrived = FALSE]
      /\ UNCHANGED <<jobs, pfds, service>>
  BY DEF Accept, listVars, serviceVars
<1>3. m.at = "job" /\ m.socket = s /\ m.seen = d /\ m.after = "listen"
  BY DEF MakingJob
<1>4. d \in Births
  BY DEF Births
<1> HIDE DEF d, m
<1>5. sock'[s] = d /\ \A t \in Data : t # s => sock'[t] = sock[t]
  BY <1>1, <1>2, DataSockets DEF Inv, Typed
<1>6. \A t \in Data : (PeerGone(t))' = PeerGone(t)
  <2>1. \A t \in Data : peer'[t] = peer[t]
    BY <1>2, DataSockets DEF Inv, Typed
  <2> QED
    BY <2>1 DEF PeerGone
<1>7. ASSUME NEW t \in Data, Owner(t) = c
      PROVE  Good(t, sock'[t], (PeerGone(t))', m, jobs, pfds, service)
  <2>1. Good(t, sock[t], PeerGone(t), call[c], jobs, pfds, service)
    BY <1>7 DEF Serviced
  <2>2. CASE t = s
    <3>1. Good(s, d, FALSE, m, jobs, pfds, service)
      BY <1>1, <1>3, <1>4, <2>1, <2>2, BirthGood
    <3>2. Good(s, d, PeerGone(s), m, jobs, pfds, service)
      BY <1>1, <3>1, BoolGone, StaysGood
    <3> QED
      BY <1>5, <1>6, <2>2, <3>2
  <2>3. CASE t # s
    <3>1. Away(call[c], t) /\ Away(m, t)
      BY <1>1, <1>3, <2>3 DEF Away, Changing, Moving
    <3>2. Good(t, sock[t], PeerGone(t), m, jobs, pfds, service)
      BY <2>1, <3>1, AwayGood
    <3> QED
      BY <1>5, <1>6, <2>3, <3>2
  <2> QED
    BY <2>2, <2>3
<1>8. ListenerGood(sock'[Listener], m, jobs)
  <2>1. \A i \in 1..Len(jobs) : jobs[i].socket = Listener => jobs[i].job \in {ListeningJob, NoJob}
    BY DEF Serviced, ListenerGood
  <2> QED
    BY <1>1, <1>3, <2>1 DEF ListenerGood
<1>9. \A t \in Data : Owner(t) # c => sock'[t] = sock[t] /\ (PeerGone(t))' = PeerGone(t)
  BY <1>1, <1>5, <1>6
<1> QED
  BY <1>1, <1>2, <1>7, <1>8, <1>9, OwnSockets

\* A call on the listening socket by its owner, which was in no call.
LEMMA CallOnListener ==
    ASSUME Inv, Serviced, UNCHANGED <<jobs, pfds, service, peer>>, NEW n, NEW d,
           call[ListenerOwner].at = "idle", n.socket = Listener \/ n.at = "idle",
           call' = [call EXCEPT ![ListenerOwner] = n], sock' = [sock EXCEPT ![Listener] = d],
           ListenerGood(d, n, jobs)
    PROVE  Serviced'
<1>1. sock'[Listener] = d /\ \A t \in Data : sock'[t] = sock[t]
  BY DataSockets DEF Inv, Typed
<1>2. \A t \in Data : (PeerGone(t))' = PeerGone(t)
  BY DEF PeerGone
<1>3. ASSUME NEW t \in Data, Owner(t) = ListenerOwner
      PROVE  Good(t, sock'[t], (PeerGone(t))', n, jobs, pfds, service)
  <2>1. Good(t, sock[t], PeerGone(t), call[ListenerOwner], jobs, pfds, service)
    BY <1>3 DEF Serviced
  <2>2. Away(call[ListenerOwner], t) /\ Away(n, t)
    BY DataSockets DEF Away, Changing, Moving
  <2>3. Good(t, sock[t], PeerGone(t), n, jobs, pfds, service)
    BY <2>1, <2>2, AwayGood
  <2> QED
    BY <1>1, <1>2, <2>3
<1> QED
  BY <1>1, <1>2, <1>3, DataSockets, OwnSockets

LEMMA ListenerCallsServe ==
    ASSUME Inv, Serviced, Bind \/ AcceptThrows \/ Close(Listener) PROVE Serviced'
<1>1. \A i \in 1..Len(jobs) : jobs[i].socket = Listener => jobs[i].job \in {ListeningJob, NoJob}
  BY DEF Serviced, ListenerGood
<1>2. CASE Bind
  <2> DEFINE n == Setting(Listener, ListeningJob, "idle")
  <2>1. n.at = "lock" /\ n.socket = Listener /\ n.job = ListeningJob
    BY DEF Setting
  <2>2. Calling(Listener, Born, n)
    BY <1>2 DEF Bind
  <2> HIDE DEF n
  <2>3. ListenerGood(Born, n, jobs)
    BY <1>1, <2>1 DEF ListenerGood, Moving
  <2> QED
    BY <2>1, <2>2, <2>3, DataSockets, CallOnListener DEF Calling, listVars, serviceVars
<1>3. CASE AcceptThrows
  <2> DEFINE d == [sock[Listener] EXCEPT !.posted = {}]
  <2>1. Calling(Listener, d, Idle) /\ AcceptFails
    BY <1>3 DEF AcceptThrows
  <2>2. ListenerGood(d, Idle, jobs)
    BY <1>1, <2>1, IdleCall DEF ListenerGood, Moving
  <2> HIDE DEF d
  <2> QED
    BY <2>1, <2>2, IdleCall, DataSockets, CallOnListener DEF Calling, listVars, serviceVars
<1>4. CASE Close(Listener)
  <2> DEFINE n == Setting(Listener, NoJob, "shut")
  <2>1. n.at = "lock" /\ n.socket = Listener /\ n.after = "shut"
    BY DEF Setting
  <2>2. Calling(Listener, sock[Listener], n)
    BY <1>4 DEF Close
  <2> HIDE DEF n
  <2>3. ListenerGood(sock[Listener], n, jobs)
    BY <1>1, <2>1 DEF ListenerGood, Moving
  <2> QED
    BY <2>1, <2>2, <2>3, DataSockets, CallOnListener DEF Calling, listVars, serviceVars
<1> QED
  BY <1>2, <1>3, <1>4

\* Calls on a data socket that is there.
LEMMA CallingServes ==
    ASSUME Inv, Serviced, NEW s \in Data, NEW d, NEW n, Calling(s, d, n),
           n.socket = s \/ n.at = "idle",
           Good(s, d, PeerGone(s), n, jobs, pfds, service)
    PROVE  Serviced'
<1>1. UNCHANGED <<jobs, pfds, service>> /\ call[Owner(s)].at = "idle"
      /\ call' = [call EXCEPT ![Owner(s)] = n] /\ sock' = [sock EXCEPT ![s] = d] /\ peer' = peer
  BY DEF Calling, listVars, serviceVars
<1>2. \A t \in Data : (PeerGone(t))' = PeerGone(t)
  BY <1>1 DEF PeerGone
<1> QED
  BY <1>1, <1>2, CallOnData

LEMMA DataCallsServe ==
    ASSUME Inv, Serviced, NEW s \in Data,
           Write(s) \/ HandleInputReady(s) \/ StartFlush(s) \/ Close(s)
    PROVE  Serviced'
<1> DEFINE d == sock[s]
           gone == PeerGone(s)
           n == call[Owner(s)]
<1>1. Good(s, d, gone, n, jobs, pfds, service)
  BY DEF Serviced
<1>2. d \in SocketStates /\ d.phase = "live" /\ n.at = "idle"
  BY DataSockets DEF Inv, Typed, Live, Write, HandleInputReady, StartFlush, Close, Calling
<1> HIDE DEF d, gone, n
<1>3. Away(n, s) /\ Away(Idle, s)
  BY <1>2, IdleCall DEF Away, Changing, Moving
<1>4. CASE Write(s)
  <2>1. CASE d.output
    <3>1. d = [d EXCEPT !.output = TRUE]
      BY <1>2, <2>1 DEF SocketStates
    <3>2. Calling(s, d, Idle)
      BY <1>4, <2>1, <3>1 DEF Write, d
    <3>3. Good(s, d, gone, Idle, jobs, pfds, service)
      BY <1>1, <1>3, AwayGood
    <3> QED
      BY <3>2, <3>3, IdleCall, CallingServes DEF gone
  <2>2. CASE ~d.output
    <3> DEFINE f == [d EXCEPT !.output = TRUE]
               m == MakingJob(s, f, "idle")
    <3>1. Calling(s, f, m) /\ "connected" \in d.posted
      BY <1>4, <2>2 DEF Write, d
    <3>2. /\ f.phase = "live" /\ f.posted = d.posted /\ f.connected = d.connected
          /\ f.readable = d.readable /\ f.writable = d.writable /\ f.input = d.input
          /\ f.brokeOff = d.brokeOff
      BY <1>2 DEF SocketStates
    <3>3. m.at = "job" /\ m.socket = s /\ m.seen = f
      BY DEF MakingJob
    <3> HIDE DEF f, m
    <3>4. Sound(f, gone) /\ Suited(s, f, gone, jobs) /\ Errors(s, gone, pfds, service)
      BY <1>1, <3>2 DEF Good, Sound, Suited, Suits
    <3>5. Announced(s, f, m) /\ Unknown(s, f, jobs, pfds)
      BY <1>1, <1>2, <3>2 DEF Good, Announced, Unknown
    <3>6. CallSound(s, f, gone, m, jobs)
      BY <3>1, <3>2, <3>3 DEF CallSound, Shrunk, Moving
    <3>7. Interest(s, f, m, jobs)
      BY <3>3 DEF Interest, Changing
    <3>8. Good(s, f, gone, m, jobs, pfds, service)
      BY <3>4, <3>5, <3>6, <3>7 DEF Good
    <3> QED
      BY <3>1, <3>3, <3>8, CallingServes DEF gone
  <2> QED
    BY <2>1, <2>2
<1>5. CASE HandleInputReady(s)
  <2> DEFINE f == [d EXCEPT !.posted = @ \ {"inputReady"}]
             m == Doing("read", s)
  <2>1. Calling(s, f, m)
    BY <1>5 DEF HandleInputReady, d
  <2>2. /\ f.phase = "live" /\ f.posted = d.posted \ {"inputReady"} /\ f.connected = d.connected
        /\ f.readable = d.readable /\ f.writable = d.writable /\ f.input = d.input
        /\ f.output = d.output
    BY <1>2 DEF SocketStates
  <2>3. m.at = "read" /\ m.socket = s
    BY DEF Doing
  <2> HIDE DEF f, m
  <2>4. Sound(f, gone) /\ Suited(s, f, gone, jobs) /\ Errors(s, gone, pfds, service)
    BY <1>1, <2>2 DEF Good, Sound, Suited, Suits
  <2>5. Announced(s, f, m) /\ Unknown(s, f, jobs, pfds) /\ CallSound(s, f, gone, m, jobs)
    BY <1>1, <2>2, <2>3 DEF Good, Announced, Unknown, CallSound, Moving
  <2>6. Interest(s, f, m, jobs)
    <3>1. Wanted(f) = Wanted(d)
      BY <2>2 DEF Wanted, HasOutput
    <3> QED
      BY <1>1, <1>2, <2>2, <3>1 DEF Good, Interest, CoveredIn, Changing, Moving
  <2>7. Good(s, f, gone, m, jobs, pfds, service)
    BY <2>4, <2>5, <2>6 DEF Good
  <2> QED
    BY <2>1, <2>3, <2>7, CallingServes DEF gone
<1>6. CASE StartFlush(s)
  <2> DEFINE m == Doing("flush", s)
  <2>1. Calling(s, d, m) /\ m.at = "flush" /\ m.socket = s
    BY <1>6 DEF StartFlush, Doing, d
  <2> HIDE DEF m
  <2>2. Away(m, s)
    BY <2>1 DEF Away, Changing, Moving
  <2>3. Good(s, d, gone, m, jobs, pfds, service)
    BY <1>1, <1>3, <2>2, AwayGood
  <2> QED
    BY <2>1, <2>3, CallingServes DEF gone
<1>7. CASE Close(s)
  <2> DEFINE m == Setting(s, NoJob, "shut")
  <2>1. Calling(s, d, m)
    BY <1>7 DEF Close, d
  <2>2. m.at = "lock" /\ m.socket = s /\ m.job = NoJob /\ m.after = "shut"
    BY DEF Setting
  <2> HIDE DEF m
  <2>3. Announced(s, d, m)
    BY <1>1, <1>2 DEF Good, Announced
  <2>4. CallSound(s, d, gone, m, jobs) /\ Interest(s, d, m, jobs)
    BY <2>2 DEF CallSound, Interest, Suits, NoJob, Moving, Changing
  <2>5. Good(s, d, gone, m, jobs, pfds, service)
    BY <1>1, <2>3, <2>4 DEF Good
  <2> QED
    BY <2>1, <2>2, <2>5, CallingServes DEF gone
<1> QED
  BY <1>4, <1>5, <1>6, <1>7

-----------------------------------------------------------------------------
(* Calls on their way *)

\* A call that waits for the output to be gone ends.
LEMMA CallEnds ==
    ASSUME Inv, Serviced, UNCHANGED <<jobs, pfds, service, sock, peer>>, NEW c \in Callers,
           call' = [call EXCEPT ![c] = Idle], call[c].at = "flush"
    PROVE  Serviced'
<1>1. Idle.at = "idle"
  BY IdleCall
<1>2. \A t \in Data : (PeerGone(t))' = PeerGone(t)
  BY DEF PeerGone
<1>3. ASSUME NEW t \in Data, Owner(t) = c
      PROVE  Good(t, sock'[t], (PeerGone(t))', Idle, jobs, pfds, service)
  <2>1. Good(t, sock[t], PeerGone(t), call[c], jobs, pfds, service)
    BY <1>3 DEF Serviced
  <2>2. Away(call[c], t) /\ Away(Idle, t)
    BY <1>1 DEF Away, Changing, Moving
  <2> QED
    BY <1>2, <2>1, <2>2, AwayGood
<1>4. c = ListenerOwner => ListenerGood(sock[Listener], Idle, jobs)
  <2>1. Away(Idle, Listener) /\ call[c].at \notin Changing
    BY <1>1 DEF Away, Changing, Moving
  <2> QED
    BY <2>1, ListenerAway DEF Serviced
<1> QED
  BY <1>2, <1>3, <1>4, OwnSockets

LEMMA FlushReturnsServes == ASSUME Inv, Serviced, NEW c \in Callers, FlushReturns(c) PROVE Serviced'
  BY CallEnds DEF FlushReturns, listVars, serviceVars

\* The next step of a call that sets a job.
LEMMA MovesOnServes ==
    ASSUME Inv, Serviced, UNCHANGED <<jobs, pfds, service, sock, peer>>, NEW c \in Callers,
           NEW at \in Moving, call[c].at \in Moving, call' = [call EXCEPT ![c].at = at]
    PROVE  Serviced'
<1> DEFINE n == call[c]
           m == [n EXCEPT !.at = at]
<1>1. n \in Calls
  BY DEF Inv, Typed
<1>2. /\ m.at \in Moving /\ n.at \in Moving /\ m.socket = n.socket /\ m.job = n.job
      /\ m.seen = n.seen /\ m.after = n.after
  BY <1>1 DEF Calls
<1>3. call' = [call EXCEPT ![c] = m]
  OBVIOUS
<1> HIDE DEF m
<1>4. \A t \in Data : (PeerGone(t))' = PeerGone(t)
  BY DEF PeerGone
<1>5. ASSUME NEW t \in Data, Owner(t) = c
      PROVE  Good(t, sock[t], PeerGone(t), m, jobs, pfds, service)
  <2>1. Good(t, sock[t], PeerGone(t), n, jobs, pfds, service)
    BY <1>5 DEF Serviced
  <2> HIDE DEF n
  <2> QED
    BY <1>2, <2>1 DEF Good, Announced, CallSound, Interest, Changing, Moving
<1>6. c = ListenerOwner => ListenerGood(sock[Listener], m, jobs)
  <2>1. c = ListenerOwner => ListenerGood(sock[Listener], n, jobs)
    BY DEF Serviced
  <2> HIDE DEF n
  <2> QED
    BY <1>2, <2>1 DEF ListenerGood, Moving
<1>7. ASSUME NEW t \in Data, Owner(t) = c
      PROVE  Good(t, sock'[t], (PeerGone(t))', m, jobs, pfds, service)
  BY <1>4, <1>5, <1>7
<1>8. c = ListenerOwner => ListenerGood(sock'[Listener], m, jobs)
  BY <1>6
<1>9. sock' = sock /\ UNCHANGED <<jobs, pfds, service>>
  OBVIOUS
<1> HIDE DEF n
<1> QED
  BY <1>3, <1>4, <1>7, <1>8, <1>9, OwnSockets

LEMMA TakingLocksServes ==
    ASSUME Inv, Serviced, NEW c \in Callers,
           LockJobListLock(c) \/ UnblockPollSocket(c) \/ LockJobList(c)
    PROVE  Serviced'
<1>1. CASE LockJobListLock(c)
  BY <1>1, MovesOnServes DEF LockJobListLock, Moving, listVars, serviceVars
<1>2. CASE UnblockPollSocket(c)
  BY <1>2, MovesOnServes DEF UnblockPollSocket, Moving, listVars, serviceVars
<1>3. CASE LockJobList(c)
  BY <1>3, MovesOnServes DEF LockJobList, Moving, listVars, serviceVars
<1> QED
  BY <1>1, <1>2, <1>3

LEMMA MakeJobServes == ASSUME Inv, Serviced, NEW c \in Callers, MakeJob(c) PROVE Serviced'
<1> DEFINE n == call[c]
           s == call[c].socket
<1>1. n \in Calls /\ n.at = "job" /\ Fits(c, n, sock) /\ s \in Sockets /\ n.seen \in SocketStates
  BY DEF Inv, Typed, CallsFit, MakeJob, Calls
<1>2. Owner(s) = c /\ sock[s].phase = "live" /\ n.after # "shut"
  BY <1>1 DEF Fits
<1>3. s \in Data
  BY <1>1, <1>2, DataSockets DEF Serviced, ListenerGood
<1>4. PICK job \in UnlockedJobs(n.seen, sock[s]) : call' = [call EXCEPT ![c] = Setting(s, job, n.after)]
  <2>1. PICK job \in UnlockedJobs(n.seen, sock[s]) :
          call' = [call EXCEPT ![c] = Setting(@.socket, job, @.after)]
    BY DEF MakeJob
  <2> QED
    BY <2>1
<1>5. UNCHANGED <<jobs, pfds, service, sock, peer>>
  BY DEF MakeJob, listVars, serviceVars
<1> DEFINE m == Setting(s, job, n.after)
<1>6. m.at = "lock" /\ m.socket = s /\ m.job = job /\ m.after = n.after
  BY DEF Setting
<1>7. call' = [call EXCEPT ![c] = m]
  BY <1>4
<1> HIDE DEF m
<1>8. \A t \in Data : (PeerGone(t))' = PeerGone(t)
  BY <1>5 DEF PeerGone
<1>9. ASSUME NEW t \in Data, Owner(t) = c
      PROVE  Good(t, sock'[t], (PeerGone(t))', m, jobs, pfds, service)
  <2>1. Good(t, sock[t], PeerGone(t), n, jobs, pfds, service)
    BY <1>9 DEF Serviced
  <2>2. CASE t = s
    <3>1. sock[s] \in SocketStates /\ PeerGone(s) \in BOOLEAN
      BY <1>1, <1>3, BoolGone DEF Inv, Typed
    <3>2. Shrunk(sock[s], n.seen) /\ Sound(sock[s], PeerGone(s))
      BY <1>1, <2>1, <2>2 DEF Good, CallSound
    <3>3. Covers(job, sock[s]) /\ Suits(job, sock[s], PeerGone(s))
      BY <1>1, <1>2, <3>1, <3>2, JobCovers
    <3>4. CallSound(s, sock[s], PeerGone(s), m, jobs)
      BY <1>1, <1>2, <1>6, <2>1, <2>2, <3>3 DEF Good, CallSound, Moving
    <3>5. Announced(s, sock[s], m) /\ Interest(s, sock[s], m, jobs)
      BY <1>1, <1>6, <2>1, <2>2 DEF Good, Announced, Interest, Changing, Moving
    <3> QED
      BY <1>5, <1>8, <2>1, <2>2, <3>4, <3>5 DEF Good
  <2>3. CASE t # s
    <3>1. Away(n, t) /\ Away(m, t)
      BY <1>6, <2>3 DEF Away
    <3> QED
      BY <1>5, <1>8, <2>1, <3>1, AwayGood
  <2> QED
    BY <2>2, <2>3
<1>10. c = ListenerOwner => ListenerGood(sock'[Listener], m, jobs)
  <2>1. c = ListenerOwner => ListenerGood(sock[Listener], n, jobs)
    BY DEF Serviced
  <2>2. s # Listener /\ n.socket = s
    BY <1>3, DataSockets
  <2> HIDE DEF n, s
  <2> QED
    BY <1>1, <1>5, <1>6, <2>1, <2>2 DEF ListenerGood, Moving
<1>11. sock' = sock /\ \A t \in Data : (PeerGone(t))' = PeerGone(t)
  BY <1>5, <1>8
<1> HIDE DEF n, s
<1> QED
  BY <1>5, <1>7, <1>9, <1>10, <1>11, OwnSockets

LEMMA EmptiedGood ==
    ASSUME NEW s \in Data, NEW d \in SocketStates, NEW gone \in BOOLEAN, NEW n, NEW q, NEW es,
           NEW at, Good(s, d, gone, n, q, es, at), n.at = "read", n.socket = s
    PROVE  /\ Good(s, Emptied(d), gone, n, q, es, at)
           /\ ~d.input => Good(s, Emptied(d), gone, Idle, q, es, at)
<1> DEFINE f == Emptied(d)
<1>1. Becomes(f, d, gone) /\ ~f.input
  BY EmptiedBecomes DEF Good
<1>2. f.phase = d.phase /\ ("connected" \in f.posted => "connected" \in d.posted)
  BY DEF Emptied, Post, SocketStates, Posts
<1> HIDE DEF f
<1>3. Sound(f, gone) /\ Suited(s, f, gone, q) /\ Unknown(s, f, q, es) /\ Errors(s, gone, es, at)
  BY <1>1, <1>2 DEF Good, Becomes, Suited, Suits, Unknown
<1>4. CoveredIn(s, d, q) => CoveredIn(s, f, q)
  <2>1. Wanted(f) \subseteq Wanted(d)
    BY <1>1 DEF Becomes, Shrunk, Wanted, HasOutput, SocketStates
  <2> QED
    BY <2>1 DEF CoveredIn
<1>5. ASSUME NEW m, m.at \in {"read", "idle"}
      PROVE  Good(s, f, gone, m, q, es, at)
  <2>1. Announced(s, f, m) /\ CallSound(s, f, gone, m, q)
    BY <1>1, <1>5 DEF Announced, CallSound, Moving
  <2>2. Interest(s, f, m, q)
    BY <1>2, <1>4 DEF Good, Interest, Changing, Moving
  <2> QED
    BY <1>3, <2>1, <2>2 DEF Good
<1> QED
  BY <1>5, IdleCall DEF f

LEMMA ReadServes == ASSUME Inv, Serviced, NEW c \in Callers, Read(c) PROVE Serviced'
<1> DEFINE n == call[c]
           s == call[c].socket
           m == IF sock[s].input THEN n ELSE Idle
<1>1. n \in Calls /\ n.at = "read" /\ s \in Sockets /\ Owner(s) = c
  BY DEF Inv, Typed, CallsFit, Fits, Read, Calls
<1>2. /\ UNCHANGED <<jobs, pfds, service, peer>>
      /\ sock' = [sock EXCEPT ![s] = Emptied(sock[s])] /\ call' = [call EXCEPT ![c] = m]
  BY DEF Read, listVars, serviceVars
<1>3. m.at \in {"read", "idle"} /\ (m = n \/ (m = Idle /\ ~sock[s].input))
  BY <1>1, IdleCall
<1> HIDE DEF m
<1>4. \A t \in Data : (PeerGone(t))' = PeerGone(t)
  BY <1>2 DEF PeerGone
<1>5. sock'[s] = Emptied(sock[s]) /\ \A t \in Sockets : t # s => sock'[t] = sock[t]
  BY <1>1, <1>2 DEF Inv, Typed
<1>6. sock[s] \in SocketStates
  BY <1>1 DEF Inv, Typed
<1>7. ASSUME NEW t \in Data, Owner(t) = c
      PROVE  Good(t, sock'[t], PeerGone(t), m, jobs, pfds, service)
  <2>1. Good(t, sock[t], PeerGone(t), n, jobs, pfds, service)
    BY <1>7 DEF Serviced
  <2>2. CASE t = s
    <3>1. PeerGone(s) \in BOOLEAN
      BY <2>2, BoolGone
    <3>2. /\ Good(s, Emptied(sock[s]), PeerGone(s), n, jobs, pfds, service)
          /\ ~sock[s].input => Good(s, Emptied(sock[s]), PeerGone(s), Idle, jobs, pfds, service)
      BY <1>1, <1>6, <2>1, <2>2, <3>1, EmptiedGood
    <3> QED
      BY <1>3, <1>5, <2>2, <3>2
  <2>3. CASE t # s
    <3>1. Away(n, t) /\ Away(Idle, t)
      BY <2>3, IdleCall DEF Away, Changing, Moving
    <3>2. Good(t, sock[t], PeerGone(t), m, jobs, pfds, service)
      BY <1>3, <2>1, <3>1, AwayGood
    <3> QED
      BY <1>5, <2>3, <3>2, DataSockets
  <2> QED
    BY <2>2, <2>3
<1>8. c = ListenerOwner => ListenerGood(sock'[Listener], m, jobs)
  <2> SUFFICES ASSUME c = ListenerOwner PROVE ListenerGood(sock'[Listener], m, jobs)
    OBVIOUS
  <2>1. ListenerGood(sock[Listener], n, jobs)
    BY DEF Serviced
  <2>2. n.at \notin Changing /\ m.at \notin Changing \cup {"job"}
    BY <1>1, <1>3 DEF Changing, Moving
  <2>3. sock[Listener] \in SocketStates
    BY DataSockets DEF Inv, Typed
  <2>4. /\ sock'[Listener].phase = sock[Listener].phase
        /\ sock[Listener].posted \subseteq sock'[Listener].posted
    <3>1. CASE s = Listener
      <4>1. Emptied(sock[Listener]).phase = sock[Listener].phase
            /\ sock[Listener].posted \subseteq Emptied(sock[Listener]).posted
        BY <2>3 DEF Emptied, Post, SocketStates
      <4> QED
        BY <1>5, <3>1, <4>1
    <3>2. CASE s # Listener
      BY <1>5, <3>2, DataSockets
    <3> QED
      BY <3>1, <3>2
  <2> QED
    BY <2>1, <2>2, <2>4 DEF ListenerGood, Changing, Moving
<1>9. c # ListenerOwner => sock'[Listener] = sock[Listener]
  BY <1>1, <1>5, DataSockets
<1>10. \A t \in Data : Owner(t) # c => sock'[t] = sock[t]
  BY <1>1, <1>5, DataSockets
<1> QED
  BY <1>2, <1>4, <1>7, <1>8, <1>9, <1>10, OwnSockets

LEMMA CloseSocketServes == ASSUME Inv, Serviced, NEW c \in Callers, CloseSocket(c) PROVE Serviced'
<1> DEFINE n == call[c]
           s == call[c].socket
<1>1. n \in Calls /\ n.at = "shut" /\ s \in Sockets /\ Owner(s) = c
  BY DEF Inv, Typed, CallsFit, Fits, CloseSocket, Calls
<1>2. /\ UNCHANGED <<jobs, pfds, service>>
      /\ sock' = [sock EXCEPT ![s] = ClosedSocket] /\ call' = [call EXCEPT ![c] = Idle]
      /\ peer' = [peer EXCEPT ![s] = [state |-> "gone", arrived |-> FALSE]]
  BY DEF CloseSocket, listVars, serviceVars
<1>3. sock'[s] = ClosedSocket /\ \A t \in Sockets : t # s => sock'[t] = sock[t]
  BY <1>1, <1>2 DEF Inv, Typed
<1>4. \A t \in Data : t = s => (PeerGone(t))' = TRUE
  BY <1>1, <1>2 DEF PeerGone, Inv, Typed
<1>5. \A t \in Data : t # s => (PeerGone(t))' = PeerGone(t)
  BY <1>1, <1>2, DataSockets DEF PeerGone, Inv, Typed
<1>6. ClosedSocket.phase = "closed" /\ ClosedSocket.posted = {} /\ ~ClosedSocket.input
  BY DEF ClosedSocket, FreshSocket
<1>7. ASSUME NEW t \in Data, Owner(t) = c
      PROVE  Good(t, sock'[t], (PeerGone(t))', Idle, jobs, pfds, service)
  <2>1. Good(t, sock[t], PeerGone(t), n, jobs, pfds, service)
    BY <1>7 DEF Serviced
  <2>2. CASE t = s
    <3> DEFINE d == ClosedSocket
    <3>1. Sound(d, TRUE) /\ Announced(s, d, Idle) /\ Unknown(s, d, jobs, pfds)
          /\ Errors(s, TRUE, pfds, service)
      BY <1>6 DEF Sound, Announced, Unknown, Errors
    <3>2. Suited(s, d, TRUE, jobs)
      BY <1>6, <2>1, <2>2 DEF Good, Suited, Suits
    <3>3. CallSound(s, d, TRUE, Idle, jobs) /\ Interest(s, d, Idle, jobs)
      BY <1>6, IdleCall DEF CallSound, Interest, Moving
    <3>4. Good(s, d, TRUE, Idle, jobs, pfds, service)
      BY <3>1, <3>2, <3>3 DEF Good
    <3> QED
      BY <1>3, <1>4, <2>2, <3>4
  <2>3. CASE t # s
    <3>1. Away(n, t) /\ Away(Idle, t)
      BY <2>3, IdleCall DEF Away, Changing, Moving
    <3>2. Good(t, sock[t], PeerGone(t), Idle, jobs, pfds, service)
      BY <2>1, <3>1, AwayGood
    <3> QED
      BY <1>3, <1>5, <2>3, <3>2, DataSockets
  <2> QED
    BY <2>2, <2>3
<1>8. c = ListenerOwner => ListenerGood(sock'[Listener], Idle, jobs)
  <2> SUFFICES ASSUME c = ListenerOwner PROVE ListenerGood(sock'[Listener], Idle, jobs)
    OBVIOUS
  <2>1. ListenerGood(sock[Listener], n, jobs)
    BY DEF Serviced
  <2>2. CASE s = Listener
    BY <1>3, <1>6, <2>1, <2>2, IdleCall DEF ListenerGood, Moving
  <2>3. CASE s # Listener
    <3>1. sock'[Listener] = sock[Listener]
      BY <1>3, <2>3, DataSockets
    <3> QED
      BY <1>1, <2>1, <2>3, <3>1, IdleCall DEF ListenerGood, Moving
  <2> QED
    BY <2>2, <2>3
<1>9. c # ListenerOwner => sock'[Listener] = sock[Listener]
  BY <1>1, <1>3, DataSockets
<1>10. \A t \in Data : Owner(t) # c => sock'[t] = sock[t] /\ (PeerGone(t))' = PeerGone(t)
  BY <1>1, <1>3, <1>5, DataSockets
<1> QED
  BY <1>2, <1>7, <1>8, <1>9, <1>10, OwnSockets

LEMMA EditServes == ASSUME Inv, Serviced, NEW c \in Callers, EditJobList(c) PROVE Serviced'
<1> DEFINE n == call[c]
           s == call[c].socket
           job == call[c].job
           m == Following(c)
           r == ListWith(s, job)
<1>1. n \in Calls /\ n.at = "edit" /\ Fits(c, n, sock) /\ s \in Sockets /\ job \in Jobs
      /\ n.after \in {"idle", "listen", "shut"}
  BY DEF Inv, Typed, CallsFit, EditJobList, Calls
<1>2. /\ Owner(s) = c /\ sock[s].phase = "live"
      /\ n.after = "listen" => c = ListenerOwner
      /\ n.after = "shut" => job = NoJob
  BY <1>1 DEF Fits
<1>3. /\ jobs' = r /\ call' = [call EXCEPT ![c] = m]
      /\ UNCHANGED <<pfds, service, sock, peer>>
  BY DEF EditJobList, serviceVars
<1>4. /\ r \in Seq(ListJobs)
      /\ \A i \in 1..Len(r) :
           IF r[i].socket = s THEN r[i].job = job ELSE i \in 1..Len(jobs) /\ r[i] = jobs[i]
      /\ \A i \in 1..Len(jobs) : jobs[i].socket # s => i \in 1..Len(r) /\ r[i] = jobs[i]
      /\ job # NoJob => \E i \in 1..Len(r) : r[i].socket = s
  <2>1. jobs \in Seq(ListJobs) /\ Unique(jobs)
    BY DEF Inv, Typed, Listed
  <2>2. s \in Sockets /\ job \in Jobs /\ r = ListWith(s, job)
    BY <1>1
  <2> HIDE DEF r, s, job
  <2> QED
    BY <2>1, <2>2, ListIsSet
<1>5. /\ n.after = "idle" => m.at = "idle"
      /\ n.after = "listen" => m.at = "lock" /\ m.socket = Listener /\ m.job = ListeningJob
      /\ n.after = "shut" => m.at = "shut" /\ m.socket = s
  BY IdleCall DEF Following, Setting, Doing
<1> HIDE DEF m, r, n, s, job
<1>6. n.socket = s /\ n.job = job /\ n = call[c]
  BY DEF n, s, job
<1>7. \A t \in Sockets : t # s => SameJobs(t, jobs, r)
  BY <1>4 DEF SameJobs
<1>8. \A t \in Data : (PeerGone(t))' = PeerGone(t)
  BY <1>3 DEF PeerGone
<1>9. ASSUME NEW t \in Data, Owner(t) = c
      PROVE  Good(t, sock[t], PeerGone(t), m, r, pfds, service)
  <2>1. Good(t, sock[t], PeerGone(t), n, jobs, pfds, service)
    BY <1>6, <1>9 DEF Serviced
  <2>2. CASE t = s
    <3> DEFINE d == sock[s]
               gone == PeerGone(s)
    <3>1. Suits(job, d, gone) /\ (n.after # "shut" => Covers(job, d))
      BY <1>1, <1>6, <2>1, <2>2 DEF Good, CallSound, Moving
    <3>2. Sound(d, gone) /\ Unknown(s, d, r, pfds) /\ Errors(s, gone, pfds, service)
      BY <1>2, <2>1, <2>2 DEF Good, Unknown
    <3>3. Announced(s, d, m)
      BY <1>1, <2>1, <2>2 DEF Good, Announced
    <3>4. Suited(s, d, gone, r)
      BY <1>4, <3>1 DEF Suited
    <3>5. CallSound(s, d, gone, m, r)
      BY <1>1, <1>5, <2>2, DataSockets DEF CallSound, Moving
    <3>6. Interest(s, d, m, r)
      <4>1. CASE n.after = "shut"
        BY <1>5, <4>1 DEF Interest, Changing
      <4>2. CASE n.after # "shut"
        <5>1. Covers(job, d)
          BY <3>1, <4>2
        <5>2. ASSUME NEW w \in Wanted(d)
              PROVE  \E i \in 1..Len(r) : /\ r[i].socket = s
                                          /\ w = "read" => r[i].job.read
                                          /\ w = "write" => r[i].job.write
          <6>1. w \in {"read", "write"}
            BY DEF Wanted
          <6>2. job # NoJob /\ (w = "read" => job.read) /\ (w = "write" => job.write)
            BY <5>1, <5>2, <6>1 DEF Covers, NoJob
          <6>3. PICK i \in 1..Len(r) : r[i].socket = s
            BY <1>4, <6>2
          <6>4. r[i].job = job
            BY <1>4, <6>3
          <6> QED
            BY <6>2, <6>3, <6>4
        <5>3. CoveredIn(s, d, r)
          BY <5>2 DEF CoveredIn
        <5> QED
          BY <5>3 DEF Interest
      <4> QED
        BY <4>1, <4>2
    <3>7. Good(s, d, gone, m, r, pfds, service)
      BY <3>2, <3>3, <3>4, <3>5, <3>6 DEF Good
    <3> QED
      BY <2>2, <3>7
  <2>3. CASE t # s
    <3>1. Away(n, t) /\ Away(m, t)
      BY <1>1, <1>5, <1>6, <2>3, DataSockets DEF Away, Changing, Moving
    <3>2. Good(t, sock[t], PeerGone(t), m, jobs, pfds, service)
      BY <2>1, <3>1, AwayGood
    <3> QED
      BY <1>7, <2>3, <3>2, DataSockets, ListGood
  <2> QED
    BY <2>2, <2>3
<1>10. ASSUME NEW t \in Data
       PROVE  Good(t, sock'[t], (PeerGone(t))', call'[Owner(t)], jobs', pfds', service')
  <2>1. \A b \in Callers : call'[b] = IF b = c THEN m ELSE call[b]
    BY <1>3 DEF Inv, Typed
  <2>2. CASE Owner(t) = c
    BY <1>3, <1>8, <1>9, <2>1, <2>2
  <2>3. CASE Owner(t) # c
    <3>1. Good(t, sock[t], PeerGone(t), call[Owner(t)], jobs, pfds, service)
      BY DEF Serviced
    <3>2. SameJobs(t, jobs, r)
      BY <1>2, <1>7, <2>3, DataSockets
    <3>3. Good(t, sock[t], PeerGone(t), call[Owner(t)], r, pfds, service)
      BY <3>1, <3>2, ListGood
    <3>4. call'[Owner(t)] = call[Owner(t)]
      BY <2>1, <2>3, DataSockets
    <3> QED
      BY <1>3, <1>8, <3>3, <3>4
  <2> QED
    BY <2>2, <2>3
<1>11. ListenerGood(sock[Listener], call'[ListenerOwner], r)
  <2>1. \A b \in Callers : call'[b] = IF b = c THEN m ELSE call[b]
    BY <1>3 DEF Inv, Typed
  <2>2. ListenerGood(sock[Listener], call[ListenerOwner], jobs)
    BY DEF Serviced
  <2>3. CASE c # ListenerOwner
    <3>1. s # Listener
      BY <1>2, <2>3, DataSockets
    <3>2. ListenerGood(sock[Listener], call[ListenerOwner], r)
      BY <1>7, <2>2, <3>1, DataSockets, ListenerList
    <3> QED
      BY <2>1, <2>3, <3>2, DataSockets
  <2>4. CASE c = ListenerOwner /\ s # Listener
    <3>1. ListenerGood(sock[Listener], n, r)
      BY <1>6, <1>7, <2>2, <2>4, DataSockets, ListenerList
    <3>2. ListenerGood(sock[Listener], m, r)
      BY <1>1, <1>5, <1>6, <2>4, <3>1 DEF ListenerGood, Moving
    <3> QED
      BY <2>1, <2>4, <3>2, DataSockets
  <2>5. CASE c = ListenerOwner /\ s = Listener
    <3>1. job = ListeningJob \/ n.after = "shut"
      BY <1>1, <1>6, <2>2, <2>5 DEF ListenerGood, Moving
    <3>2. \A i \in 1..Len(r) : r[i].socket = Listener => r[i].job \in {ListeningJob, NoJob}
      BY <1>2, <1>4, <2>5, <3>1
    <3>3. job = ListeningJob => Listens(r)
      <4> SUFFICES ASSUME job = ListeningJob PROVE Listens(r)
        OBVIOUS
      <4>1. job # NoJob
        BY DEF ListeningJob, NoJob
      <4>2. PICK i \in 1..Len(r) : r[i].socket = Listener
        BY <1>4, <2>5, <4>1
      <4>3. r[i] \in ListJobs /\ r[i].job = ListeningJob
        BY <1>4, <2>5, <4>2
      <4>4. r[i] = [socket |-> Listener, job |-> ListeningJob]
        BY <4>2, <4>3 DEF ListJobs
      <4> QED
        BY <4>4 DEF Listens
    <3>4. ListenerGood(sock[Listener], m, r)
      BY <1>1, <1>5, <2>5, <3>1, <3>2, <3>3 DEF ListenerGood, Moving
    <3> QED
      BY <2>1, <2>5, <3>4, DataSockets
  <2> QED
    BY <2>3, <2>4, <2>5
<1> QED
  BY <1>3, <1>10, <1>11 DEF Serviced

-----------------------------------------------------------------------------
(* The service thread and the peers *)

\* A step that changes neither a socket nor a job.
LEMMA NothingServed ==
    ASSUME Serviced, UNCHANGED <<jobs, sock, call, pfds>>, service' = "run" => service = "run",
           \A t \in Data : PeerGone(t) => (PeerGone(t))'
    PROVE  Serviced'
<1>1. ASSUME NEW t \in Data
      PROVE  Good(t, sock'[t], (PeerGone(t))', call'[Owner(t)], jobs', pfds', service')
  <2>1. Good(t, sock[t], PeerGone(t), call[Owner(t)], jobs, pfds, service)
    BY DEF Serviced
  <2>2. PeerGone(t) \in BOOLEAN /\ (PeerGone(t))' \in BOOLEAN
    BY DEF PeerGone
  <2> QED
    BY <2>1, <2>2, StaysGood
<1> QED
  BY <1>1 DEF Serviced

LEMMA ApproachServes == ASSUME Serviced, AwaitJobs \/ ServiceLocksLock \/ MakePipe PROVE Serviced'
<1>1. UNCHANGED <<jobs, sock, call, pfds, peer>> /\ (service' = "run" => service = "run")
  BY DEF AwaitJobs, ServiceLocksLock, MakePipe, listVars, serviceVars
<1>2. \A t \in Data : PeerGone(t) => (PeerGone(t))'
  BY <1>1 DEF PeerGone
<1> QED
  BY <1>1, <1>2, NothingServed

LEMMA PeersServe ==
    ASSUME Inv, Serviced,
           \/ \E s \in Sockets : Arrives(s)
           \/ \E s \in Data : PeerChanges(s) \/ PeerGoes(s)
    PROVE  Serviced'
<1>1. PICK s \in Sockets : Arrives(s) \/ PeerChanges(s) \/ PeerGoes(s)
  BY DataSockets
<1>2. PICK p : Peer(s, p) /\ (peer[s].state = "gone" => p.state = "gone")
  <2>1. peer[s] \in PeerStates
    BY DEF Inv, Typed
  <2>2. CASE Arrives(s)
    BY <2>1, <2>2 DEF Arrives
  <2>3. CASE PeerChanges(s)
    BY <2>1, <2>3 DEF PeerChanges
  <2>4. CASE PeerGoes(s)
    BY <2>4 DEF PeerGoes
  <2> QED
    BY <1>1, <2>2, <2>3, <2>4
<1>3. UNCHANGED <<jobs, sock, call, pfds, service>> /\ peer' = [peer EXCEPT ![s] = p]
  BY <1>2 DEF Peer, listVars, serviceVars
<1>4. \A t \in Data : PeerGone(t) => (PeerGone(t))'
  <2>1. \A t \in Data : peer'[t] = IF t = s THEN p ELSE peer[t]
    BY <1>3, DataSockets DEF Inv, Typed
  <2> QED
    BY <1>2, <2>1 DEF PeerGone
<1> QED
  BY <1>3, <1>4, NothingServed

\* New poll entries are those of jobs.
LEMMA EntriesServe ==
    ASSUME Serviced, UNCHANGED <<jobs, sock, call, peer>>,
           \A i \in 1..Len(pfds') : \/ \E j \in 1..Len(jobs) : HasJob(jobs, j)
                                          /\ jobs[j].socket = pfds'[i].socket
                                    \/ \E j \in 1..Len(pfds) : pfds[j].socket = pfds'[i].socket,
           service' = "run" => \A t \in Data, i \in 1..Len(pfds') :
             pfds'[i].socket = t /\ "error" \in pfds'[i].got => PeerGone(t)
    PROVE  Serviced'
<1>1. ASSUME NEW t \in Data
      PROVE  Good(t, sock[t], PeerGone(t), call[Owner(t)], jobs, pfds', service')
  <2>1. Good(t, sock[t], PeerGone(t), call[Owner(t)], jobs, pfds, service)
    BY DEF Serviced
  <2>2. Unknown(t, sock[t], jobs, pfds')
    BY <2>1 DEF Good, Unknown, NoneIn, HasJob
  <2>3. Errors(t, PeerGone(t), pfds', service')
    BY DEF Errors
  <2> QED
    BY <2>1, <2>2, <2>3 DEF Good
<1>2. \A t \in Data : (PeerGone(t))' = PeerGone(t)
  BY DEF PeerGone
<1> QED
  BY <1>1, <1>2 DEF Serviced

LEMMA CollectServes == ASSUME Inv, Inv', Serviced, ServiceLocksList PROVE Serviced'
<1>1. UNCHANGED <<jobs, sock, call, peer>> /\ update' = FALSE /\ service' # "run"
  BY DEF ServiceLocksList
<1>2. Matched'
  BY <1>1 DEF Inv, Listed
<1>3. \A i \in 1..Len(pfds') : \E j \in 1..Len(jobs) :
        HasJob(jobs, j) /\ jobs[j].socket = pfds'[i].socket
  BY <1>1, <1>2 DEF Matched, HasJob
<1> QED
  BY <1>1, <1>3, EntriesServe

LEMMA PollServes == ASSUME Inv, Inv', Serviced, Poll PROVE Serviced'
<1>1. PICK failed \in SUBSET {i \in DOMAIN pfds : peer[pfds[i].socket].state = "gone"} :
        pfds' = [i \in DOMAIN pfds |->
                   [pfds[i] EXCEPT !.got = Reports(pfds[i], peer[pfds[i].socket])
                                           \cup (IF i \in failed THEN {"error"} ELSE {})]]
  BY DEF Poll
<1>2. UNCHANGED <<jobs, sock, call, peer>> /\ update' = update /\ service = "poll"
  BY DEF Poll, listVars
<1>3. ~update /\ Matched'
  BY <1>2 DEF Inv, Listed
<1>4. \A i \in 1..Len(pfds') : \E j \in 1..Len(jobs) :
        HasJob(jobs, j) /\ jobs[j].socket = pfds'[i].socket
  BY <1>2, <1>3 DEF Matched, HasJob
<1>5. ASSUME NEW t \in Data, NEW i \in 1..Len(pfds'), pfds'[i].socket = t, "error" \in pfds'[i].got
      PROVE  PeerGone(t)
  <2>1. i \in DOMAIN pfds /\ pfds[i] \in Entries
    <3>1. DOMAIN pfds' = DOMAIN pfds /\ DOMAIN pfds = 1..Len(pfds) /\ DOMAIN pfds' = 1..Len(pfds')
      BY <1>1 DEF Inv, Typed
    <3> QED
      BY <3>1 DEF Inv, Typed
  <2> DEFINE got == Reports(pfds[i], peer[pfds[i].socket])
                    \cup (IF i \in failed THEN {"error"} ELSE {})
  <2>2. pfds'[i] = [pfds[i] EXCEPT !.got = got]
    BY <1>1, <2>1
  <2>3. "error" \in got => i \in failed
    BY DEF Reports
  <2> HIDE DEF got
  <2>4. pfds'[i].socket = pfds[i].socket /\ pfds'[i].got = got
    BY <2>1, <2>2 DEF Entries
  <2> QED
    BY <1>5, <2>3, <2>4 DEF PeerGone
<1> QED
  BY <1>2, <1>4, <1>5, EntriesServe

LEMMA SweepServes == ASSUME Inv, Serviced, Sweep PROVE Serviced'
<1> DEFINE r == JobsIn(jobs)
<1>1. UNCHANGED <<sock, call, peer>> /\ jobs' = r /\ service' = "ready"
  BY DEF Sweep
<1>2. /\ \A i \in 1..Len(r) : \E j \in 1..Len(jobs) : r[i] = jobs[j]
      /\ \A j \in 1..Len(jobs) : jobs[j].job # NoJob => \E i \in 1..Len(r) : r[i] = jobs[j]
  <2>1. jobs \in Seq(ListJobs) /\ Unique(jobs)
    BY DEF Inv, Typed, Listed
  <2> QED
    BY <2>1, SweptList
<1> HIDE DEF r
<1>3. \A s \in Sockets : SameJobs(s, jobs, r)
  BY <1>2 DEF SameJobs
<1>4. Len(pfds') = Len(pfds) /\ \A i \in 1..Len(pfds) : pfds'[i].socket = pfds[i].socket
  <2> DEFINE got == [i \in DOMAIN pfds |-> {}]
  <2>1. got \in [DOMAIN pfds -> SUBSET Polled]
        /\ pfds' = [i \in DOMAIN pfds |-> [pfds[i] EXCEPT !.got = got[i]]]
    BY DEF Sweep
  <2> HIDE DEF got
  <2> QED
    BY <2>1, EntriesMarked DEF Inv, Typed
<1>5. ASSUME NEW t \in Data
      PROVE  Good(t, sock[t], PeerGone(t), call[Owner(t)], r, pfds', "ready")
  <2>1. Good(t, sock[t], PeerGone(t), call[Owner(t)], r, pfds, service)
    BY <1>3, DataSockets, ListGood DEF Serviced
  <2>2. Unknown(t, sock[t], r, pfds')
    BY <1>4, <2>1 DEF Good, Unknown
  <2> QED
    BY <2>1, <2>2 DEF Good, Errors
<1>6. ListenerGood(sock[Listener], call[ListenerOwner], r)
  BY <1>3, DataSockets, ListenerList DEF Serviced
<1>7. \A t \in Data : (PeerGone(t))' = PeerGone(t)
  BY <1>1 DEF PeerGone
<1> QED
  BY <1>1, <1>5, <1>6, <1>7 DEF Serviced

\* The place of the list that the service thread is at.
LEMMA AtPlace ==
    ASSUME Inv, RunJob
    PROVE  /\ service = "run" /\ cursor.job \in 1..Len(jobs) /\ jobs[cursor.job] \in ListJobs
           /\ jobs[cursor.job].socket \in Sockets /\ jobs[cursor.job].job \in Jobs
           /\ cursor.entry \in 1..Len(pfds) /\ pfds[cursor.entry] \in Entries
           /\ jobs[cursor.job].job # NoJob =>
                pfds[cursor.entry].socket = jobs[cursor.job].socket
<1>1. service = "run"
  BY DEF RunJob
<1>2. cursor.job \in 1..Len(jobs) /\ cursor.entry \in 1..Len(pfds)
      /\ cursor \in [job : Nat, entry : Nat]
  BY <1>1 DEF Inv, Typed, Listed
<1>3. jobs[cursor.job] \in ListJobs /\ pfds[cursor.entry] \in Entries
  BY <1>2 DEF Inv, Typed
<1>4. ASSUME jobs[cursor.job].job # NoJob
      PROVE  pfds[cursor.entry].socket = jobs[cursor.job].socket
  <2>1. Ahead(jobs, cursor, pfds)
    BY <1>1, PollMatchesIsAhead DEF Inv, Listed
  <2>2. cursor.job \in cursor.job..Len(jobs) /\ Between(jobs, cursor.job, cursor.job - 1) = 0
    <3>1. cursor.job \in Nat /\ Len(jobs) \in Nat
      BY <1>2 DEF Inv, Typed
    <3>2. {k \in cursor.job..(cursor.job - 1) : jobs[k].job # NoJob} = {}
      BY <3>1
    <3>3. Between(jobs, cursor.job, cursor.job - 1) = 0
      BY <3>2, FS_EmptySet DEF Between
    <3> QED
      BY <1>2, <3>1, <3>3
  <2>3. pfds[cursor.entry + 0].socket = jobs[cursor.job].socket
    BY <1>4, <2>1, <2>2 DEF Ahead, HasJob
  <2> QED
    BY <1>2, <2>3
<1> QED
  BY <1>1, <1>2, <1>3, <1>4 DEF ListJobs

\* The list r is q with another job for s, which is at place k.
Replaced(s, q, r, k, job) ==
    /\ k \in 1..Len(q) /\ q[k].socket = s /\ q[k].job # NoJob
    /\ \A i \in 1..Len(q) : q[i].socket = s => i = k
    /\ Len(r) = Len(q) /\ r[k].socket = s /\ r[k].job = job
    /\ \A i \in 1..Len(q) : i # k => r[i] = q[i]

\* What RunBecomes says of an outcome.
Ran(o, d, gone, job) ==
    /\ "connected" \in d.posted => Becomes(o.socket, d, gone)
    /\ Sound(o.socket, gone) /\ Suits(o.job, o.socket, gone)
    /\ o.socket.input /\ ~o.socket.brokeOff =>
         (d.input /\ ~d.brokeOff) \/ "inputReady" \in o.socket.posted
    /\ d.posted \subseteq o.socket.posted
    /\ Covers(job, d) => Covers(o.job, o.socket)

\* A call on s that closes it takes the job away.
Closing(s, n) ==
    /\ n.socket = s /\ n.after = "shut" /\ n.at # "idle" => n.at # "job" /\ n.job = NoJob
    /\ n.job \in Jobs /\ n.seen \in SocketStates

LEMMA RunGood ==
    ASSUME NEW s \in Data, NEW d \in SocketStates, NEW n, NEW gone \in BOOLEAN, NEW q, NEW es,
           NEW at, NEW next, NEW o, NEW r, NEW k, d.phase = "live",
           Good(s, d, gone, n, q, es, at), next = "run" => at = "run",
           Replaced(s, q, r, k, o.job), Ran(o, d, gone, q[k].job), Closing(s, n),
           o.socket \in SocketStates, o.socket.phase = "live"
    PROVE  Good(s, o.socket, gone, n, r, es, next)
<1> DEFINE f == o.socket
<1>1. Sound(f, gone) /\ Announced(s, f, n) /\ Unknown(s, f, r, es) /\ Errors(s, gone, es, next)
  BY DEF Good, Announced, Unknown, Errors, Ran
<1>2. Suited(s, f, gone, r)
  <2>1. \A i \in 1..Len(r) : r[i].socket = s => i = k
    BY DEF Replaced
  <2> QED
    BY <2>1 DEF Suited, Replaced, Ran
<1>3. ~NoneIn(s, q)
  BY DEF NoneIn, Replaced
<1>4. CallSound(s, f, gone, n, r)
  <2> SUFFICES ASSUME n.socket = s, n.at \in Moving \cup {"job"} PROVE CallSound(s, f, gone, n, r)
    BY DEF CallSound
  <2>1. CASE n.after = "shut"
    <3>1. Suits(n.job, f, gone)
      BY <2>1 DEF Suits, NoJob, Moving, Closing
    <3>2. n.at # "job"
      BY <2>1 DEF Moving, Closing
    <3> QED
      BY <2>1, <3>1, <3>2 DEF CallSound
  <2>2. CASE n.after # "shut"
    <3>1. "connected" \in d.posted
      BY <1>3, <2>2 DEF Good, CallSound
    <3>2. Becomes(f, d, gone) /\ "connected" \in f.posted
      BY <3>1 DEF Ran
    <3>3. n.at = "job" => Shrunk(f, n.seen)
      <4>1. n.at = "job" => Shrunk(d, n.seen)
        BY DEF Good, CallSound
      <4>2. n.seen \in SocketStates /\ Shrunk(f, d)
        BY <3>2 DEF Becomes, Closing
      <4> HIDE DEF f
      <4> QED
        BY <4>1, <4>2 DEF Shrunk
    <3>4. n.at \in Moving => Suits(n.job, f, gone)
      <4>1. n.at \in Moving => Suits(n.job, d, gone)
        BY DEF Good, CallSound
      <4> QED
        BY <3>1, <4>1 DEF Suits, Ran, Becomes
    <3>5. n.at \in Moving => Covers(n.job, f)
      <4>1. n.at \in Moving => Covers(n.job, d)
        BY <2>2 DEF Good, CallSound
      <4> QED
        BY <3>2, <4>1, ShrunkCovers DEF Becomes, Closing
    <3> QED
      BY <3>2, <3>3, <3>4, <3>5 DEF CallSound
  <2> QED
    BY <2>1, <2>2
<1>5. Interest(s, f, n, r)
  <2> SUFFICES ASSUME ~(n.socket = s /\ n.at \in Changing) PROVE CoveredIn(s, f, r)
    BY DEF Interest
  <2>1. CoveredIn(s, d, q)
    BY DEF Good, Interest
  <2>2. Covers(q[k].job, d)
    BY <2>1 DEF CoveredIn, Covers, Replaced
  <2>3. Covers(o.job, f)
    BY <2>2 DEF Ran
  <2>4. \A w \in Wanted(f) : w \in {"read", "write"}
    BY DEF Wanted
  <2> QED
    BY <2>3, <2>4 DEF Covers, CoveredIn, Replaced
<1> QED
  BY <1>1, <1>2, <1>4, <1>5 DEF Good

LEMMA RunServes == ASSUME Inv, Inv', Serviced, RunJob PROVE Serviced'
<1> DEFINE k == cursor.job
           e == jobs[k]
           s == e.socket
           job == e.job
           got == pfds[cursor.entry].got
<1>1. service = "run" /\ k \in 1..Len(jobs) /\ e \in ListJobs /\ s \in Sockets /\ job \in Jobs
      /\ cursor.entry \in 1..Len(pfds) /\ pfds[cursor.entry] \in Entries
      /\ (job # NoJob => pfds[cursor.entry].socket = s)
  BY AtPlace
<1>2. UNCHANGED <<pfds, call>>
  BY DEF RunJob
<1>3. CASE job = NoJob
  <2>1. UNCHANGED <<jobs, sock, peer>>
    BY <1>3 DEF RunJob
  <2>2. \A t \in Data : PeerGone(t) => (PeerGone(t))'
    BY <2>1 DEF PeerGone
  <2> QED
    BY <1>1, <1>2, <2>1, <2>2, NothingServed
<1>4. CASE job # NoJob
  <2>1. PICK o \in RunOutcomes(sock[s], job, got, peer[s]) :
          /\ sock' = [sock EXCEPT ![s] = o.socket]
          /\ SaveJob(s, job, o)
          /\ peer' = IF s \in Data /\ "read" \in got /\ sock[s].readable /\ o.socket.input
                     THEN [peer EXCEPT ![s].arrived = FALSE] ELSE peer
    BY <1>4 DEF RunJob
  <2> DEFINE f == [e EXCEPT !.job = o.job]
  <2>2. f.socket = s /\ f.job = o.job
    BY <1>1 DEF ListJobs
  <2>3. jobs' = [jobs EXCEPT ![k] = f]
    BY <2>1 DEF SaveJob
  <2> HIDE DEF f
  <2>4. /\ Len(jobs') = Len(jobs) /\ jobs'[k] = f
        /\ \A i \in 1..Len(jobs) : i # k => jobs'[i] = jobs[i]
    BY <1>1, <2>3 DEF Inv, Typed
  <2>5. \A i \in 1..Len(jobs) : jobs[i].socket = s => i = k
    BY <1>1 DEF Inv, Listed, Unique
  <2>6. \A t \in Sockets : t # s => SameJobs(t, jobs, jobs')
    BY <2>2, <2>4 DEF SameJobs
  <2>7. /\ \A t \in Sockets : t # s => sock'[t] = sock[t]
        /\ sock'[s] = o.socket /\ sock[s] \in SocketStates /\ peer[s] \in PeerStates
    BY <1>1, <2>1 DEF Inv, Typed
  <2>8. \A t \in Data : (PeerGone(t))' = PeerGone(t)
    <3>1. \A t \in Sockets : peer'[t].state = peer[t].state
      <4>1. \A t \in Sockets : peer[t] \in PeerStates
        BY DEF Inv, Typed
      <4>2. peer' = peer \/ peer' = [peer EXCEPT ![s].arrived = FALSE]
        BY <2>1
      <4> QED
        BY <1>1, <4>1, <4>2 DEF Inv, Typed, PeerStates
    <3> QED
      BY <3>1, DataSockets DEF PeerGone
  <2>9. sock[s].phase \in {"live", "free"}
    BY <1>1, <1>4, <2>7 DEF Inv, Forgotten, Gone, SocketStates
  <2>10. o.socket \in SocketStates /\ o.socket.phase = sock[s].phase /\ o.job \in Jobs
    BY <1>1, <1>4, <2>7, RunTypes
  <2>11. ASSUME NEW t \in Data
         PROVE  Good(t, sock'[t], (PeerGone(t))', call[Owner(t)], jobs', pfds, service')
    <3>1. Good(t, sock[t], PeerGone(t), call[Owner(t)], jobs, pfds, service)
      BY DEF Serviced
    <3>2. CASE t # s
      <4>1. Good(t, sock[t], PeerGone(t), call[Owner(t)], jobs', pfds, service)
        BY <2>6, <3>1, <3>2, DataSockets, ListGood
      <4>2. Good(t, sock[t], PeerGone(t), call[Owner(t)], jobs', pfds, service')
        BY <1>1, <4>1, BoolGone, StaysGood
      <4> QED
        BY <2>7, <2>8, <3>2, <4>2, DataSockets
    <3>3. CASE t = s
      <4> DEFINE n == call[Owner(t)]
                 d == sock[t]
                 p == peer[t]
      <4>1. Good(t, d, p.state = "gone", n, jobs, pfds, service)
        BY <3>1 DEF PeerGone
      <4>2. d \in SocketStates /\ p \in PeerStates /\ d.phase = "live"
        BY <1>1, <1>4, <2>7, <2>9, <3>3, <4>1 DEF Good, Unknown, NoneIn
      <4>3. "error" \in got => p.state = "gone"
        BY <1>1, <1>4, <3>3, <4>1 DEF Good, Errors
      <4>4. Sound(d, p.state = "gone") /\ Suits(job, d, p.state = "gone")
        BY <1>1, <3>3, <4>1 DEF Good, Suited
      <4>5. o \in RunOutcomes(d, job, got, p)
        BY <2>1, <3>3
      <4>6. n \in Calls /\ Fits(Owner(t), n, sock)
        BY DataSockets DEF Inv, Typed, CallsFit
      <4>7. o.socket \in SocketStates /\ o.socket.phase = "live" /\ sock'[t] = o.socket
        BY <2>7, <2>10, <3>3, <4>2
      <4> HIDE DEF n, d, p, got, job, s
      <4>8. Ran(o, d, p.state = "gone", job)
        BY <1>1, <1>4, <4>2, <4>3, <4>4, <4>5, RunBecomes DEF Ran
      <4>9. Closing(t, n)
        BY <4>6 DEF Fits, Calls, Closing
      <4>10. Good(t, o.socket, p.state = "gone", n, jobs', pfds, service')
        <5>1. jobs[k].socket = t /\ jobs[k].job = job /\ f.socket = t
          BY <2>2, <3>3 DEF s, job
        <5>2. Replaced(t, jobs, jobs', k, o.job)
          BY <1>1, <1>4, <2>2, <2>4, <2>5, <3>3, <5>1 DEF Replaced
        <5>3. (p.state = "gone") \in BOOLEAN
          OBVIOUS
        <5>4. Ran(o, d, p.state = "gone", jobs[k].job)
          BY <4>8, <5>1
        <5> HIDE DEF k, e
        <5> QED
          BY <1>1, <4>1, <4>2, <4>7, <4>9, <5>2, <5>3, <5>4, RunGood
      <4> QED
        BY <2>8, <4>7, <4>10 DEF PeerGone, n, p
    <3> QED
      BY <3>2, <3>3
  <2>12. ListenerGood(sock'[Listener], call[ListenerOwner], jobs')
    <3>1. ListenerGood(sock[Listener], call[ListenerOwner], jobs)
      BY DEF Serviced
    <3>2. CASE s # Listener
      BY <2>6, <2>7, <3>1, <3>2, DataSockets, ListenerList
    <3>3. CASE s = Listener
      <4>1. job = ListeningJob
        BY <1>1, <1>4, <3>1, <3>3 DEF ListenerGood
      <4>2. o \in {[socket |-> Post(sock[s], "connecting"), job |-> NoJob],
                   [socket |-> sock[s], job |-> job]}
        BY <2>1, <4>1 DEF RunOutcomes, ServiceListening, ListeningJob
      <4>3. \A i \in 1..Len(jobs') :
              jobs'[i].socket = Listener => jobs'[i].job \in {ListeningJob, NoJob}
        BY <2>2, <2>4, <3>1, <4>1, <4>2 DEF ListenerGood
      <4>4. CASE o = [socket |-> Post(sock[s], "connecting"), job |-> NoJob]
        <5>1. "connecting" \in sock'[s].posted
          <6>1. sock'[s] = Post(sock[s], "connecting")
            BY <2>7, <4>4
          <6>2. "connecting" \in Post(sock[s], "connecting").posted
            BY <2>7 DEF Post, SocketStates
          <6> QED
            BY <6>1, <6>2
        <5> QED
          BY <3>1, <3>3, <4>3, <5>1 DEF ListenerGood
      <4>5. CASE o = [socket |-> sock[s], job |-> job]
        <5>1. f = e
          BY <1>1, <4>5 DEF f, ListJobs
        <5>2. \A i \in 1..Len(jobs) : jobs'[i] = jobs[i]
          BY <2>4, <5>1
        <5>3. sock'[Listener] = sock[Listener]
          BY <2>7, <3>3, <4>5
        <5>4. SameJobs(Listener, jobs, jobs')
          BY <2>4, <5>2 DEF SameJobs
        <5> QED
          BY <3>1, <5>3, <5>4, ListenerList
      <4> QED
        BY <4>2, <4>4, <4>5
    <3> QED
      BY <3>2, <3>3
  <2> QED
    BY <1>2, <2>11, <2>12 DEF Serviced
<1> QED
  BY <1>3, <1>4

-----------------------------------------------------------------------------
(* The theorems *)

LEMMA ServicedInit == Init => Serviced
<1> SUFFICES ASSUME Init PROVE Serviced
  OBVIOUS
<1>1. jobs = <<>> /\ pfds = <<>> /\ service = "ready"
      /\ \A s \in Sockets : sock[s] = FreshSocket
      /\ \A c \in Callers : call[c] = Idle
  BY DEF Init
<1>2. Idle.at = "idle" /\ FreshSocket.phase = "free" /\ FreshSocket.posted = {}
      /\ ~FreshSocket.input /\ Len(jobs) = 0 /\ Len(pfds) = 0
  BY <1>1, IdleCall DEF FreshSocket
<1>3. ASSUME NEW s \in Data
      PROVE  Good(s, FreshSocket, PeerGone(s), Idle, jobs, pfds, service)
  <2>1. Sound(FreshSocket, PeerGone(s)) /\ Announced(s, FreshSocket, Idle)
        /\ Suited(s, FreshSocket, PeerGone(s), jobs) /\ Unknown(s, FreshSocket, jobs, pfds)
        /\ Errors(s, PeerGone(s), pfds, service)
    BY <1>1, <1>2 DEF Sound, Announced, Suited, Unknown, NoneIn, Errors
  <2>2. CallSound(s, FreshSocket, PeerGone(s), Idle, jobs) /\ Interest(s, FreshSocket, Idle, jobs)
    BY <1>2 DEF CallSound, Interest, Moving
  <2> QED
    BY <2>1, <2>2 DEF Good
<1>4. ListenerGood(FreshSocket, Idle, jobs)
  BY <1>2 DEF ListenerGood, Moving
<1> QED
  BY <1>1, <1>3, <1>4, DataSockets DEF Serviced

LEMMA ServicedKept == Inv /\ Inv' /\ Serviced /\ [Next]_vars => Serviced'
<1> SUFFICES ASSUME Inv, Inv', Serviced, [Next]_vars PROVE Serviced'
  OBVIOUS
<1>1. CASE ServiceStep
  BY <1>1, ApproachServes, CollectServes, PollServes, RunServes, SweepServes DEF ServiceStep
<1>2. ASSUME NEW c \in Callers, CallerStep(c) PROVE Serviced'
  BY <1>2, MakeJobServes, TakingLocksServes, EditServes, ReadServes, FlushReturnsServes,
     CloseSocketServes DEF CallerStep
<1>3. CASE Bind \/ AcceptThrows
  BY <1>3, ListenerCallsServe
<1>4. ASSUME NEW s \in Data, Write(s) \/ HandleInputReady(s) \/ StartFlush(s) PROVE Serviced'
  BY <1>4, DataCallsServe
<1>5. ASSUME NEW s \in Sockets, Close(s) PROVE Serviced'
  BY <1>5, DataCallsServe, ListenerCallsServe, DataSockets
<1>6. CASE (\E s \in Incoming : Accept(s)) \/ (\E s \in Outgoing : Connect(s))
  BY <1>6, AcceptServes, ConnectServes
<1>7. CASE \/ \E s \in Sockets : Arrives(s)
           \/ \E s \in Data : PeerChanges(s) \/ PeerGoes(s)
  BY <1>7, PeersServe
<1>8. CASE UNCHANGED vars
  <2>1. UNCHANGED <<jobs, sock, call, pfds, service, peer>>
    BY <1>8 DEF vars
  <2>2. \A t \in Data : PeerGone(t) => (PeerGone(t))'
    BY <2>1 DEF PeerGone
  <2> QED
    BY <2>1, <2>2, NothingServed
<1> QED
  BY <1>1, <1>2, <1>3, <1>4, <1>5, <1>6, <1>7, <1>8 DEF Next

LEMMA ServicedHolds == Spec => []Serviced
  BY InvHolds, ServicedInit, ServicedKept, PTL DEF Spec

\* A socket is serviced for everything it waits for, whichever thread set its job last and
\* however the flags changed while it was made (TCPSocket::setJob and newJob,
\* SocketMultiplexer::serviceThread).
THEOREM InterestHolds == Spec => []InterestKept
<1>1. Inv /\ Serviced => InterestKept
  <2> SUFFICES ASSUME Inv, Serviced, NEW s \in Data, Live(s), Settled(s), NEW w \in Wanted(sock[s])
               PROVE  \E i \in DOMAIN jobs : /\ jobs[i].socket = s
                                             /\ w = "read" => jobs[i].job.read
                                             /\ w = "write" => jobs[i].job.write
    BY DEF InterestKept
  <2>1. Interest(s, sock[s], call[Owner(s)], jobs)
    BY DEF Serviced, Good
  <2>2. CoveredIn(s, sock[s], jobs)
    BY <2>1 DEF Interest, Live, Settled, Changing, Moving
  <2>3. DOMAIN jobs = 1..Len(jobs)
    BY DEF Inv, Typed
  <2> QED
    BY <2>2, <2>3 DEF CoveredIn
<1> QED
  BY <1>1, InvHolds, ServicedHolds, PTL

\* What was received is announced to the owner of the socket, or the owner is reading it,
\* but for the bytes of a read that broke off with an error (TCPSocket::doRead, read).
THEOREM InputKept == Spec => []InputAnnounced
<1>1. Serviced => InputAnnounced
  BY DEF Serviced, Good, Announced, InputAnnounced
<1> QED
  BY <1>1, ServicedHolds, PTL

\* The end of a connection is announced, whichever of its two directions and its input ended
\* last (TCPSocket::doRead, doWrite, read).
THEOREM EndKept == Spec => []EndAnnounced
<1>1. Serviced => EndAnnounced
  BY DEF Serviced, Good, Sound, EndAnnounced
<1> QED
  BY <1>1, ServicedHolds, PTL

\* The listening socket goes on listening after each connection, if accepting never fails
\* (TCPListenSocket::serviceListening, accept).
THEOREM ListenerKept == ASSUME ~AcceptFails PROVE Spec => []ListenerResumes
<1>1. Inv /\ Serviced => ListenerResumes
  <2> SUFFICES ASSUME Inv, Serviced, Live(Listener), call[ListenerOwner].at = "idle"
               PROVE  \/ "connecting" \in sock[Listener].posted
                      \/ \E i \in DOMAIN jobs : jobs[i] = [socket |-> Listener, job |-> ListeningJob]
    BY DEF ListenerResumes
  <2>1. ListenerGood(sock[Listener], call[ListenerOwner], jobs)
    BY DEF Serviced
  <2>2. "connecting" \in sock[Listener].posted \/ Listens(jobs)
    BY <2>1 DEF ListenerGood, Live, Moving
  <2>3. DOMAIN jobs = 1..Len(jobs)
    BY DEF Inv, Typed
  <2> QED
    BY <2>2, <2>3 DEF Listens
<1> QED
  BY <1>1, InvHolds, ServicedHolds, PTL
=============================================================================
