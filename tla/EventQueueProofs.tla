-------------------------- MODULE EventQueueProofs --------------------------
(***************************************************************************)
(* Theorems about EventQueue, for any threads, events and timers, and any  *)
(* number of buffers and of loops within loops.                            *)
(*                                                                         *)
(* Account says, of a list w of the ids that wait, a list o of the ids     *)
(* that are free, and a set D of the ids in the table, that every id below *)
(* their number is in exactly one of the lists, once, and that those that  *)
(* wait are those in the table.  It is what makes the size of the table a  *)
(* new id when no old one is free.                                         *)
(***************************************************************************)
EXTENDS EventQueue, FiniteSetTheorems, SequenceTheorems, TLAPS

Account(w, o, D) ==
    /\ Range(w) = D /\ IsInjective(w)
    /\ IsInjective(o) /\ Range(o) \cap D = {}
    /\ Range(o) \cup D = 0..(Len(w) + Len(o) - 1)

-----------------------------------------------------------------------------
(* Lists without repetitions *)

\* For sequences, the two notions of the library in terms of positions.
LEMMA Positions ==
    ASSUME NEW s \in Seq(Nat)
    PROVE  /\ Len(s) \in Nat
           /\ \A i \in 1..Len(s) : s[i] \in Nat /\ s[i] \in Range(s)
           /\ \A y \in Range(s) : \E i \in 1..Len(s) : y = s[i]
           /\ IsInjective(s) <=> \A i, j \in 1..Len(s) : s[i] = s[j] => i = j
<1>1. DOMAIN s = 1..Len(s) /\ Len(s) \in Nat
  OBVIOUS
<1>2. \A i \in 1..Len(s) : s[i] \in Nat /\ s[i] \in Range(s)
  BY <1>1 DEF Range
<1>3. \A y \in Range(s) : \E i \in 1..Len(s) : y = s[i]
  BY <1>1 DEF Range
<1>4. IsInjective(s) <=> \A i, j \in 1..Len(s) : s[i] = s[j] => i = j
  BY <1>1, Zenon DEF IsInjective
<1> QED
  BY <1>1, <1>2, <1>3, <1>4

LEMMA AppendNew ==
    ASSUME NEW s \in Seq(Nat), IsInjective(s), NEW x \in Nat, x \notin Range(s)
    PROVE  /\ Append(s, x) \in Seq(Nat) /\ Len(Append(s, x)) = Len(s) + 1
           /\ IsInjective(Append(s, x)) /\ Range(Append(s, x)) = Range(s) \cup {x}
<1> DEFINE a == Append(s, x)
<1>1. /\ a \in Seq(Nat) /\ Len(a) = Len(s) + 1 /\ a[Len(s) + 1] = x
      /\ \A i \in 1..Len(s) : a[i] = s[i]
      /\ Len(s) \in Nat
  OBVIOUS
<1> HIDE DEF a
<1>2. Range(a) = Range(s) \cup {x}
  <2>1. ASSUME NEW y \in Range(a) PROVE y \in Range(s) \cup {x}
    <3>1. PICK i \in 1..Len(a) : y = a[i]
      BY <1>1, Positions
    <3>2. CASE i \in 1..Len(s)
      BY <1>1, <3>1, <3>2, Positions
    <3>3. CASE i = Len(s) + 1
      BY <1>1, <3>1, <3>3
    <3> QED
      BY <1>1, <3>2, <3>3
  <2>2. ASSUME NEW y \in Range(s) PROVE y \in Range(a)
    <3>1. PICK i \in 1..Len(s) : y = s[i]
      BY Positions
    <3>2. i \in 1..Len(a) /\ a[i] = y
      BY <1>1, <3>1
    <3> QED
      BY <1>1, <3>2, Positions
  <2>3. x \in Range(a)
    <3>1. Len(a) \in 1..Len(a) /\ a[Len(a)] = x
      BY <1>1
    <3> QED
      BY <1>1, <3>1, Positions
  <2> QED
    BY <2>1, <2>2, <2>3
<1>3. IsInjective(a)
  <2>1. \A i, j \in 1..Len(s) : s[i] = s[j] => i = j
    BY Positions
  <2>2. \A i \in 1..Len(s) : a[i] # x
    BY <1>1, Positions
  <2>3. ASSUME NEW i \in 1..Len(a), NEW j \in 1..Len(a), a[i] = a[j] PROVE i = j
    <3>1. CASE i \in 1..Len(s) /\ j \in 1..Len(s)
      BY <1>1, <2>1, <2>3, <3>1
    <3>2. CASE i \notin 1..Len(s) \/ j \notin 1..Len(s)
      BY <1>1, <2>2, <2>3, <3>2
    <3> QED
      BY <3>1, <3>2
  <2> QED
    BY <1>1, <2>3, Positions
<1> QED
  BY <1>1, <1>2, <1>3 DEF a

LEMMA TailOfList ==
    ASSUME NEW s \in Seq(Nat), IsInjective(s), s # <<>>
    PROVE  /\ Tail(s) \in Seq(Nat) /\ Len(Tail(s)) = Len(s) - 1 /\ Head(s) \in Nat
           /\ IsInjective(Tail(s)) /\ Head(s) \in Range(s) /\ Range(Tail(s)) = Range(s) \ {Head(s)}
<1> DEFINE t == Tail(s)
<1>1. /\ t \in Seq(Nat) /\ Len(t) = Len(s) - 1 /\ \A i \in 1..Len(t) : t[i] = s[i + 1]
      /\ Len(s) \in Nat /\ Len(s) > 0 /\ Head(s) = s[1] /\ Head(s) \in Nat
  OBVIOUS
<1> HIDE DEF t
<1>2. \A i, j \in 1..Len(s) : s[i] = s[j] => i = j
  BY Positions
<1>3. Head(s) \in Range(s)
  BY <1>1, Positions
<1>4. IsInjective(t)
  <2>1. ASSUME NEW i \in 1..Len(t), NEW j \in 1..Len(t), t[i] = t[j] PROVE i = j
    <3>1. i + 1 \in 1..Len(s) /\ j + 1 \in 1..Len(s)
      BY <1>1
    <3>2. s[i + 1] = t[i] /\ s[j + 1] = t[j]
      BY <1>1, Zenon
    <3>3. s[i + 1] = s[j + 1]
      BY <2>1, <3>2, Zenon
    <3>4. i + 1 = j + 1
      BY <1>2, <3>1, <3>3, Zenon
    <3> QED
      BY <3>4
  <2> QED
    BY <1>1, <2>1, Positions
<1>5. Range(t) = Range(s) \ {Head(s)}
  <2>1. ASSUME NEW y \in Range(t) PROVE y \in Range(s) /\ y # Head(s)
    <3>1. PICK i \in 1..Len(t) : y = t[i]
      BY <1>1, Positions
    <3>2. i + 1 \in 1..Len(s) /\ 1 \in 1..Len(s) /\ y = s[i + 1] /\ i + 1 # 1
      BY <1>1, <3>1
    <3>3. s[i + 1] # s[1]
      BY <1>2, <3>2
    <3> QED
      BY <1>1, <3>2, <3>3, Positions
  <2>2. ASSUME NEW y \in Range(s), y # Head(s) PROVE y \in Range(t)
    <3>1. PICK i \in 1..Len(s) : y = s[i]
      BY Positions
    <3>2. i - 1 \in 1..Len(t) /\ t[i - 1] = y
      BY <1>1, <2>2, <3>1
    <3> QED
      BY <1>1, <3>2, Positions
  <2> QED
    BY <2>1, <2>2
<1> QED
  BY <1>1, <1>3, <1>4, <1>5 DEF t

LEMMA FrontOfList ==
    ASSUME NEW s \in Seq(Nat), IsInjective(s), s # <<>>
    PROVE  LET f == SubSeq(s, 1, Len(s) - 1)
               x == s[Len(s)]
           IN  /\ f \in Seq(Nat) /\ Len(f) = Len(s) - 1 /\ x \in Nat
               /\ IsInjective(f) /\ x \in Range(s) /\ Range(f) = Range(s) \ {x}
<1> DEFINE f == SubSeq(s, 1, Len(s) - 1)
           x == s[Len(s)]
<1>1. /\ Len(s) \in Nat /\ Len(s) > 0 /\ Len(s) \in 1..Len(s) /\ x \in Nat
  OBVIOUS
<1>2. /\ f \in Seq(Nat) /\ Len(f) = Len(s) - 1 /\ \A i \in 1..Len(f) : f[i] = s[i]
  <2>1. \A i \in 1..(Len(s) - 1) : s[i] \in Nat
    BY <1>1, Positions
  <2>3. /\ f \in Seq(Nat) /\ Len(f) = IF 1 <= Len(s) - 1 THEN Len(s) - 1 - 1 + 1 ELSE 0
        /\ \A i \in 1..(Len(s) - 1 - 1 + 1) : f[i] = s[1 + i - 1]
    <3> HIDE DEF f
    <3>1. Len(s) - 1 \in Int /\ 1 \in Int
      BY <1>1
    <3> QED
      BY <2>1, <3>1, SubSeqProperties DEF f
  <2> HIDE DEF f
  <2>4. Len(f) = Len(s) - 1
    <3>1. Len(f) = IF 1 <= Len(s) - 1 THEN Len(s) - 1 - 1 + 1 ELSE 0
      BY <2>3
    <3>2. CASE 1 <= Len(s) - 1
      <4>1. Len(f) = Len(s) - 1 - 1 + 1
        BY <3>1, <3>2
      <4> QED
        BY <1>1, <4>1
    <3>3. CASE ~(1 <= Len(s) - 1)
      <4>1. Len(f) = 0
        BY <3>1, <3>3
      <4>2. \A n \in Nat : n > 0 /\ ~(1 <= n - 1) => n - 1 = 0
        OBVIOUS
      <4>3. Len(s) - 1 = 0
        BY <1>1, <3>3, <4>2
      <4> QED
        BY <4>1, <4>3, Zenon
    <3> QED
      BY <3>2, <3>3
  <2>5. \A i \in 1..Len(f) : f[i] = s[i]
    BY <1>1, <2>3, <2>4
  <2> QED
    BY <2>3, <2>4, <2>5
<1>3. \A i, j \in 1..Len(s) : s[i] = s[j] => i = j
  BY Positions
<1>4. x \in Range(s)
  BY <1>1, Positions
<1> HIDE DEF f
<1>5. IsInjective(f)
  <2>1. ASSUME NEW i \in 1..Len(f), NEW j \in 1..Len(f), f[i] = f[j] PROVE i = j
    <3>1. i \in 1..Len(s) /\ j \in 1..Len(s)
      BY <1>1, <1>2
    <3>2. s[i] = f[i] /\ s[j] = f[j]
      BY <1>2, Zenon
    <3>3. s[i] = s[j]
      BY <2>1, <3>2, Zenon
    <3> QED
      BY <1>3, <3>1, <3>3, Zenon
  <2> QED
    BY <1>2, <2>1, Positions
<1>6. Range(f) = Range(s) \ {x}
  <2>1. ASSUME NEW y \in Range(f) PROVE y \in Range(s) /\ y # x
    <3>1. PICK i \in 1..Len(f) : y = f[i]
      BY <1>2, Positions
    <3>2. i \in 1..Len(s) /\ y = s[i] /\ i # Len(s)
      BY <1>1, <1>2, <3>1
    <3>3. s[i] # s[Len(s)]
      BY <1>1, <1>3, <3>2
    <3> QED
      BY <3>2, <3>3, Positions
  <2>2. ASSUME NEW y \in Range(s), y # x PROVE y \in Range(f)
    <3>1. PICK i \in 1..Len(s) : y = s[i]
      BY Positions
    <3>2. i \in 1..Len(f) /\ f[i] = y
      BY <1>1, <1>2, <2>2, <3>1
    <3> QED
      BY <1>2, <3>2, Positions
  <2> QED
    BY <2>1, <2>2
<1> QED
  BY <1>1, <1>2, <1>4, <1>5, <1>6 DEF f

-----------------------------------------------------------------------------
(* The ids stay accounted for *)

\* No id is free: the size of the table is a new one.
LEMMA StoreFresh ==
    ASSUME NEW w \in Seq(Nat), NEW o \in Seq(Nat), NEW D, Account(w, o, D), o = <<>>
    PROVE  LET x == Cardinality(D)
           IN  x \in Nat \ D /\ Account(Append(w, x), o, D \cup {x})
<1>1. D = 0..(Len(w) - 1) /\ Len(w) \in Nat /\ Range(o) = {} /\ Len(o) = 0
  <2>1. Len(w) \in Nat /\ Len(o) = 0 /\ 1..0 = {}
    OBVIOUS
  <2>2. Range(o) = {}
    BY <2>1, Positions
  <2>3. D = 0..(Len(w) + Len(o) - 1)
    BY <2>2 DEF Account
  <2>4. Len(w) + Len(o) - 1 = Len(w) - 1
    BY <2>1
  <2> QED
    BY <2>1, <2>2, <2>3, <2>4
<1>2. Cardinality(D) = Len(w)
  BY <1>1, FS_Interval, SMTT(60)
<1>3. Len(w) \notin D /\ D \cup {Len(w)} = 0..Len(w)
  BY <1>1
<1>4. /\ Len(Append(w, Len(w))) = Len(w) + 1 /\ IsInjective(Append(w, Len(w)))
      /\ Range(Append(w, Len(w))) = D \cup {Len(w)}
  BY <1>1, <1>3, AppendNew DEF Account
<1> QED
  BY <1>1, <1>2, <1>3, <1>4 DEF Account

\* An id is free: the last one is used again.
LEMMA StoreOld ==
    ASSUME NEW w \in Seq(Nat), NEW o \in Seq(Nat), NEW D, Account(w, o, D), o # <<>>
    PROVE  LET x == o[Len(o)]
           IN  x \in Nat \ D /\ Account(Append(w, x), SubSeq(o, 1, Len(o) - 1), D \cup {x})
<1> DEFINE x == o[Len(o)]
           f == SubSeq(o, 1, Len(o) - 1)
<1>1. /\ Len(f) = Len(o) - 1 /\ x \in Nat /\ IsInjective(f) /\ x \in Range(o) /\ Range(f) = Range(o) \ {x}
      /\ Len(o) \in Nat /\ Len(w) \in Nat
  BY FrontOfList DEF Account
<1> HIDE DEF x, f
<1>2. x \notin D
  BY <1>1 DEF Account
<1>3. /\ Len(Append(w, x)) = Len(w) + 1 /\ IsInjective(Append(w, x))
      /\ Range(Append(w, x)) = D \cup {x}
  BY <1>1, <1>2, AppendNew DEF Account
<1>4. Range(f) \cap (D \cup {x}) = {} /\ Range(f) \cup (D \cup {x}) = Range(o) \cup D
  BY <1>1 DEF Account
<1>5. Account(Append(w, x), f, D \cup {x})
  <2>1. Len(Append(w, x)) + Len(f) - 1 = Len(w) + Len(o) - 1
    BY <1>1, <1>3
  <2> QED
    BY <1>1, <1>3, <1>4, <2>1 DEF Account
<1> QED
  BY <1>1, <1>2, <1>5 DEF x, f

\* The id that is taken out becomes free.
LEMMA Release ==
    ASSUME NEW w \in Seq(Nat), NEW o \in Seq(Nat), NEW D, Account(w, o, D), w # <<>>
    PROVE  Head(w) \in D /\ Account(Tail(w), Append(o, Head(w)), D \ {Head(w)})
<1> DEFINE x == Head(w)
<1>1. /\ Len(Tail(w)) = Len(w) - 1 /\ x \in Nat /\ IsInjective(Tail(w)) /\ x \in Range(w)
      /\ Range(Tail(w)) = Range(w) \ {x} /\ Len(o) \in Nat /\ Len(w) \in Nat
  BY TailOfList DEF Account
<1> HIDE DEF x
<1>2. /\ Len(Append(o, x)) = Len(o) + 1 /\ IsInjective(Append(o, x))
      /\ Range(Append(o, x)) = Range(o) \cup {x}
  BY <1>1, AppendNew DEF Account
<1>3. Range(Append(o, x)) \cap (D \ {x}) = {}
      /\ Range(Append(o, x)) \cup (D \ {x}) = Range(o) \cup D
  BY <1>1, <1>2 DEF Account
<1>4. Account(Tail(w), Append(o, x), D \ {x})
  <2>1. Len(Tail(w)) + Len(Append(o, x)) - 1 = Len(w) + Len(o) - 1
    BY <1>1, <1>2
  <2> QED
    BY <1>1, <1>2, <1>3, <2>1 DEF Account
<1> QED
  BY <1>1, <1>4 DEF x, Account

-----------------------------------------------------------------------------
(* The id that was taken out, and those in the buffer *)

LEMMA Joined ==
    ASSUME NEW p \in Seq(Nat), NEW b \in Seq(Nat)
    PROVE  /\ p \o b \in Seq(Nat)
           /\ \A x \in Nat : p \o Append(b, x) = Append(p \o b, x)
           /\ p = <<>> => p \o b = b
           /\ p = <<>> /\ b # <<>> => <<Head(b)>> \in Seq(Nat) /\ <<Head(b)>> \o Tail(b) = b
           /\ Len(p) = 1 => p \o b # <<>> /\ Head(p \o b) = p[1] /\ Tail(p \o b) = b
<1>1. /\ p \o b \in Seq(Nat) /\ Len(p \o b) = Len(p) + Len(b)
      /\ \A i \in 1..Len(p) + Len(b) : (p \o b)[i] = IF i <= Len(p) THEN p[i] ELSE b[i - Len(p)]
  BY ConcatProperties
<1>2. Len(p) \in Nat /\ Len(b) \in Nat
  OBVIOUS
<1>3. ASSUME NEW x \in Nat PROVE p \o Append(b, x) = Append(p \o b, x)
  <2>1. <<x>> \in Seq(Nat)
    OBVIOUS
  <2>2. Append(b, x) = b \o <<x>> /\ Append(p \o b, x) = (p \o b) \o <<x>>
    BY <1>1, AppendIsConcat
  <2> QED
    BY <2>1, <2>2, ConcatAssociative
<1>4. ASSUME p = <<>> PROVE p \o b = b
  BY <1>4, ConcatEmptySeq
<1>5. ASSUME b # <<>>
      PROVE  <<Head(b)>> \in Seq(Nat) /\ <<Head(b)>> \o Tail(b) = b
  <2> DEFINE h == <<Head(b)>>
             t == Tail(b)
  <2>1. /\ Head(b) \in Nat /\ Head(b) = b[1] /\ t \in Seq(Nat) /\ Len(t) = Len(b) - 1
        /\ \A i \in 1..Len(t) : t[i] = b[i + 1]
    BY <1>5, HeadTailProperties
  <2>2. h \in Seq(Nat) /\ Len(h) = 1 /\ h[1] = b[1]
    BY <2>1
  <2> HIDE DEF h, t
  <2>3. /\ h \o t \in Seq(Nat) /\ Len(h \o t) = Len(h) + Len(t)
        /\ \A i \in 1..Len(h) + Len(t) : (h \o t)[i] = IF i <= Len(h) THEN h[i] ELSE t[i - Len(h)]
    <3>1. h \in Seq(Nat) /\ t \in Seq(Nat)
      BY <2>1, <2>2
    <3> QED
      BY <3>1, ConcatProperties
  <2>4. Len(h \o t) = Len(b)
    BY <1>2, <2>1, <2>2, <2>3
  <2>5. ASSUME NEW i \in 1..Len(b) PROVE (h \o t)[i] = b[i]
    <3>1. CASE i = 1
      BY <1>2, <2>1, <2>2, <2>3, <3>1
    <3>2. CASE i > 1
      <4>1. i - 1 \in 1..Len(t) /\ i \in 1..Len(h) + Len(t) /\ ~(i <= Len(h))
        BY <1>2, <2>1, <2>2, <3>2
      <4>2. (h \o t)[i] = t[i - 1] /\ t[i - 1] = b[(i - 1) + 1]
        BY <2>1, <2>2, <2>3, <4>1
      <4>3. (i - 1) + 1 = i
        OBVIOUS
      <4> QED
        BY <4>2, <4>3
    <3>3. i = 1 \/ i > 1
      BY <1>2
    <3> QED
      BY <3>1, <3>2, <3>3, Zenon
  <2>6. h \o t = b
    BY <2>3, <2>4, <2>5, SeqEqual
  <2> QED
    BY <2>2, <2>6 DEF h, t
<1>6. ASSUME Len(p) = 1
      PROVE  p \o b # <<>> /\ Head(p \o b) = p[1] /\ Tail(p \o b) = b
  <2> DEFINE c == p \o b
             t == Tail(c)
  <2>1. c \in Seq(Nat) /\ Len(c) = Len(b) + 1 /\ c # <<>> /\ 1 \in 1..Len(p) + Len(b)
    BY <1>1, <1>2, <1>6
  <2>2. c[1] = p[1] /\ \A i \in 1..Len(b) : c[i + 1] = b[i]
    BY <1>1, <1>2, <1>6
  <2> HIDE DEF c
  <2>3. Head(c) = c[1] /\ t \in Seq(Nat) /\ Len(t) = Len(c) - 1
        /\ \A i \in 1..Len(t) : t[i] = c[i + 1]
    BY <2>1, HeadTailProperties
  <2> HIDE DEF t
  <2>4. Len(t) = Len(b) /\ \A i \in 1..Len(t) : t[i] = b[i]
    BY <1>2, <2>1, <2>2, <2>3
  <2>5. t = b
    BY <2>3, <2>4, SeqEqual
  <2> QED
    BY <2>1, <2>2, <2>3, <2>5 DEF c, t
<1> QED
  BY <1>1, <1>3, <1>4, <1>5, <1>6

-----------------------------------------------------------------------------
(* The events, seen through the table *)

Seen(w, T) == [i \in DOMAIN w |-> T[w[i]]]

LEMMA SeenIsSeq ==
    ASSUME NEW w \in Seq(Nat), NEW T \in [Range(w) -> Events]
    PROVE  /\ Seen(w, T) \in Seq(Events) /\ Len(Seen(w, T)) = Len(w)
           /\ \A i \in 1..Len(w) : Seen(w, T)[i] = T[w[i]]
<1>1. DOMAIN w = 1..Len(w) /\ Len(w) \in Nat
  OBVIOUS
<1>2. \A i \in 1..Len(w) : T[w[i]] \in Events
  BY Positions
<1>3. Seen(w, T) \in [1..Len(w) -> Events]
  BY <1>1, <1>2 DEF Seen
<1> QED
  BY <1>1, <1>3 DEF Seen

\* With U for the table T, the event e is stored under the new id x.
Adds(w, T, x, e, U) ==
    /\ w \in Seq(Nat) /\ IsInjective(w) /\ T \in [Range(w) -> Events]
    /\ x \in Nat /\ x \notin Range(w) /\ e \in Events
    /\ U \in [Range(w) \cup {x} -> Events] /\ U[x] = e /\ \A i \in Range(w) : U[i] = T[i]

\* With U for the table T, the first id is not there any more.
Drops(w, T, U) ==
    /\ w \in Seq(Nat) /\ IsInjective(w) /\ w # <<>> /\ T \in [Range(w) -> Events]
    /\ U \in [Range(w) \ {Head(w)} -> Events]
    /\ \A i \in Range(w) \ {Head(w)} : U[i] = T[i]

\* Storing an event adds it at the end of what is seen.
LEMMA SeenStore ==
    ASSUME NEW w, NEW T, NEW x, NEW e, NEW U, Adds(w, T, x, e, U)
    PROVE  Seen(Append(w, x), U) = Append(Seen(w, T), e)
<1>0. /\ w \in Seq(Nat) /\ IsInjective(w) /\ T \in [Range(w) -> Events]
      /\ x \in Nat /\ x \notin Range(w) /\ e \in Events
      /\ U \in [Range(w) \cup {x} -> Events] /\ U[x] = e
      /\ \A i \in Range(w) : U[i] = T[i]
  BY DEF Adds
<1> DEFINE a == Append(w, x)
           old == Seen(w, T)
           new == Seen(a, U)
<1>1. /\ a \in Seq(Nat) /\ Len(a) = Len(w) + 1 /\ a[Len(w) + 1] = x
      /\ \A i \in 1..Len(w) : a[i] = w[i]
      /\ Len(w) \in Nat
  BY <1>0
<1>2. Range(a) = Range(w) \cup {x}
  BY <1>0, AppendNew
<1>3. U \in [Range(w) \cup {x} -> Events] /\ U[x] = e /\ \A i \in Range(w) : U[i] = T[i]
  BY <1>0
<1> HIDE DEF a
<1>4. /\ new \in Seq(Events) /\ Len(new) = Len(a)
      /\ \A i \in 1..Len(a) : new[i] = U[a[i]]
  <2>1. a \in Seq(Nat) /\ U \in [Range(a) -> Events]
    BY <1>1, <1>2, <1>3
  <2> QED
    BY <2>1, SeenIsSeq
<1>5. /\ old \in Seq(Events) /\ Len(old) = Len(w)
      /\ \A i \in 1..Len(w) : old[i] = T[w[i]]
  BY <1>0, SeenIsSeq
<1> HIDE DEF old, new
<1>6. /\ Append(old, e) \in Seq(Events) /\ Len(Append(old, e)) = Len(old) + 1
      /\ \A i \in 1..Len(old) : Append(old, e)[i] = old[i]
      /\ Append(old, e)[Len(old) + 1] = e
  BY <1>0, <1>5, AppendProperties
<1>7. ASSUME NEW i \in 1..Len(new) PROVE new[i] = Append(old, e)[i]
  <2>1. CASE i \in 1..Len(w)
    <3>1. w[i] \in Range(w) /\ new[i] = U[w[i]]
      BY <1>0, <1>1, <1>4, <2>1, Positions
    <3> QED
      BY <1>3, <1>5, <1>6, <2>1, <3>1
  <2>2. CASE i = Len(w) + 1
    BY <1>1, <1>3, <1>4, <1>5, <1>6, <2>2
  <2>3. i \in 1..Len(w) \/ i = Len(w) + 1
    <3>1. Len(new) = Len(w) + 1
      BY <1>1, <1>4
    <3> QED
      BY <1>1, <3>1
  <2> QED
    BY <2>1, <2>2, <2>3, Zenon
<1>8. Len(new) = Len(Append(old, e))
  BY <1>1, <1>4, <1>5, <1>6
<1>9. new = Append(old, e)
  BY <1>4, <1>6, <1>7, <1>8, SeqEqual
<1> QED
  BY <1>9 DEF new, old, a

\* Taking the first id out takes the first event out, and leaves the others.
LEMMA SeenRelease ==
    ASSUME NEW w, NEW T, NEW U, Drops(w, T, U)
    PROVE  /\ Seen(w, T) # <<>> /\ Head(Seen(w, T)) = T[Head(w)]
           /\ Seen(Tail(w), U) = Tail(Seen(w, T))
<1>0. /\ w \in Seq(Nat) /\ IsInjective(w) /\ w # <<>> /\ T \in [Range(w) -> Events]
      /\ U \in [Range(w) \ {Head(w)} -> Events]
      /\ \A i \in Range(w) \ {Head(w)} : U[i] = T[i]
  BY DEF Drops
<1> DEFINE x == Head(w)
           t == Tail(w)
           old == Seen(w, T)
           new == Seen(t, U)
<1>1. /\ t \in Seq(Nat) /\ Len(t) = Len(w) - 1 /\ \A i \in 1..Len(t) : t[i] = w[i + 1]
      /\ Len(w) \in Nat /\ Len(w) > 0 /\ x = w[1]
  BY <1>0, HeadTailProperties
<1>2. Range(t) = Range(w) \ {x}
  BY <1>0, TailOfList
<1>3. U \in [Range(w) \ {x} -> Events] /\ \A i \in Range(w) \ {x} : U[i] = T[i]
  BY <1>0
<1> HIDE DEF t, x
<1>4. /\ new \in Seq(Events) /\ Len(new) = Len(t)
      /\ \A i \in 1..Len(t) : new[i] = U[t[i]]
  <2>1. t \in Seq(Nat) /\ U \in [Range(t) -> Events]
    BY <1>1, <1>2, <1>3
  <2> QED
    BY <2>1, SeenIsSeq
<1>5. /\ old \in Seq(Events) /\ Len(old) = Len(w)
      /\ \A i \in 1..Len(w) : old[i] = T[w[i]]
  BY <1>0, SeenIsSeq
<1> HIDE DEF old, new
<1>6. old # <<>> /\ Head(old) = T[x]
  BY <1>1, <1>5
<1>7. /\ Tail(old) \in Seq(Events) /\ Len(Tail(old)) = Len(old) - 1
      /\ \A i \in 1..Len(Tail(old)) : Tail(old)[i] = old[i + 1]
  BY <1>5, <1>6, HeadTailProperties
<1>8. ASSUME NEW i \in 1..Len(new) PROVE new[i] = Tail(old)[i]
  <2>1. i \in 1..Len(t) /\ i \in 1..Len(Tail(old)) /\ i + 1 \in 1..Len(w)
    BY <1>1, <1>4, <1>5, <1>7
  <2>2. t[i] = w[i + 1] /\ t[i] \in Range(w) \ {x}
    BY <1>0, <1>1, <1>2, <2>1, Positions
  <2> QED
    BY <1>3, <1>4, <1>5, <1>7, <2>1, <2>2
<1>9. Len(new) = Len(Tail(old))
  BY <1>1, <1>4, <1>5, <1>7
<1>10. new = Tail(old)
  BY <1>4, <1>7, <1>8, <1>9, SeqEqual
<1> QED
  BY <1>6, <1>10 DEF new, old, t, x

-----------------------------------------------------------------------------
(* The inductive invariant *)

Typed ==
    /\ ready \in BOOLEAN /\ pending \in Seq(Events)
    /\ table \in [DOMAIN table -> Events]
    /\ oldIds \in Seq(Nat) /\ buffer \in Seq(Nat) /\ popped \in Seq(Nat)
    /\ call \in [Threads -> Events \cup {NoEvent}]

\* An id is out of the buffer, and its event still in the table, only between the
\* two halves of getting an event.
OneOut == IF main = "popped" THEN Len(popped) = 1 ELSE popped = <<>>

Started == main = "outside" \/ ready

\* No thread still holds an event for which it found the queue not ready.
Settled == StartRaces \/ ~ready \/ \A t \in Threads : call[t] = NoEvent

QInv == Typed /\ OneOut /\ Started /\ Settled /\ IdsAccounted

Queue == Seen(Waiting, table)

LEMMA AccountedInit == Init => QInv /\ Queue = <<>>
<1> SUFFICES ASSUME Init PROVE QInv /\ Queue = <<>>
  OBVIOUS
<1>1. <<>> \in Seq(Nat) /\ <<>> \in Seq(Events) /\ Len(<<>>) = 0 /\ DOMAIN <<>> = {}
  OBVIOUS
<1>2. Waiting = <<>>
  BY <1>1, Joined DEF Init, Waiting
<1>3. Range(<<>>) = {} /\ IsInjective(<<>>)
  BY <1>1 DEF Range, IsInjective
<1>4. table \in [DOMAIN table -> Events] /\ DOMAIN table = {}
  BY DEF Init
<1>5. IdsAccounted
  BY <1>1, <1>2, <1>3, <1>4 DEF Init, IdsAccounted
<1>6. Queue = <<>>
  <2>1. Queue \in Seq(Events) /\ Len(Queue) = 0
    BY <1>1, <1>2, <1>3, <1>4, SeenIsSeq DEF Queue
  <2> QED
    BY <2>1
<1>7. Typed /\ OneOut /\ Started /\ Settled
  BY <1>1, <1>4 DEF Init, Typed, OneOut, Started, Settled
<1> QED
  BY <1>5, <1>6, <1>7 DEF QInv

\* What does not touch the stored events, or only moves the first id out.
LEMMA NothingStored ==
    ASSUME QInv, UNCHANGED <<table, oldIds>>, Waiting' = Waiting
    PROVE  IdsAccounted' /\ Queue' = Queue
  BY DEF QInv, IdsAccounted, Queue, Seen

\* addEventToBuffer
LEMMA StoreStep ==
    ASSUME QInv, NEW e \in Events, AddEventToBuffer(e), UNCHANGED popped
    PROVE  /\ table' \in [DOMAIN table' -> Events] /\ oldIds' \in Seq(Nat) /\ buffer' \in Seq(Nat)
           /\ IdsAccounted' /\ Queue' = Append(Queue, e)
<1> DEFINE D == DOMAIN table
<1>1. /\ Waiting \in Seq(Nat) /\ oldIds \in Seq(Nat) /\ Account(Waiting, oldIds, D)
      /\ table \in [D -> Events] /\ buffer \in Seq(Nat) /\ popped \in Seq(Nat)
  BY Joined DEF QInv, Typed, IdsAccounted, Account, Waiting
<1>2. /\ NewId \in Nat \ D /\ oldIds' \in Seq(Nat)
      /\ Account(Append(Waiting, NewId), oldIds', D \cup {NewId})
  <2>1. CASE oldIds = <<>>
    <3>1. NewId = Cardinality(D) /\ oldIds' = oldIds
      BY <2>1 DEF NewId, AddEventToBuffer
    <3> QED
      BY <1>1, <2>1, <3>1, StoreFresh
  <2>2. CASE oldIds # <<>>
    <3>1. NewId = oldIds[Len(oldIds)] /\ oldIds' = SubSeq(oldIds, 1, Len(oldIds) - 1)
      BY <2>2 DEF NewId, AddEventToBuffer
    <3>2. IsInjective(oldIds)
      BY <1>1 DEF Account
    <3>3. SubSeq(oldIds, 1, Len(oldIds) - 1) \in Seq(Nat)
      BY <1>1, <2>2, <3>2, FrontOfList
    <3> QED
      BY <1>1, <2>2, <3>1, <3>3, StoreOld
  <2> QED
    BY <2>1, <2>2
<1>3. Waiting' = Append(Waiting, NewId) /\ buffer' \in Seq(Nat)
  <2>1. buffer' = Append(buffer, NewId) /\ popped' = popped
    BY DEF AddEventToBuffer
  <2>2. Append(buffer, NewId) \in Seq(Nat)
    BY <1>1, <1>2
  <2> QED
    BY <1>1, <1>2, <2>1, <2>2, Joined, SMTT(60) DEF Waiting
<1>4. table' = [i \in D \cup {NewId} |-> IF i = NewId THEN e ELSE table[i]]
  BY DEF AddEventToBuffer
<1>5. table' \in [D \cup {NewId} -> Events] /\ DOMAIN table' = D \cup {NewId}
  BY <1>1, <1>4
<1>6. IdsAccounted'
  BY <1>2, <1>3, <1>5 DEF IdsAccounted, Account
<1>7. Queue' = Append(Queue, e)
  <2>1. Range(Waiting) = D /\ IsInjective(Waiting)
    BY <1>1 DEF Account
  <2>2. Seen(Append(Waiting, NewId), table') = Append(Seen(Waiting, table), e)
    <3>1. table'[NewId] = e /\ \A i \in D : table'[i] = table[i]
      BY <1>2, <1>4
    <3>2. Adds(Waiting, table, NewId, e, table')
      BY <1>1, <1>2, <1>5, <2>1, <3>1 DEF Adds
    <3> QED
      BY <3>2, SeenStore
  <2>3. Queue' = Seen(Append(Waiting, NewId), table')
    BY <1>3 DEF Queue, Seen
  <2> QED
    BY <2>2, <2>3 DEF Queue
<1> QED
  BY <1>2, <1>3, <1>5, <1>6, <1>7

\* getEvent and removeEvent, the latter with what was taken out
LEMMA ReleaseStep ==
    ASSUME QInv, main = "popped", RemoveEvent(popped[1]), popped' = <<>>, UNCHANGED buffer
    PROVE  /\ table' \in [DOMAIN table' -> Events] /\ oldIds' \in Seq(Nat)
           /\ IdsAccounted'
           /\ Queue # <<>> /\ Head(Queue) = table[popped[1]] /\ Queue' = Tail(Queue)
<1> DEFINE D == DOMAIN table
           x == Head(Waiting)
<1>1. /\ Waiting \in Seq(Nat) /\ oldIds \in Seq(Nat) /\ Account(Waiting, oldIds, D)
      /\ table \in [D -> Events] /\ buffer \in Seq(Nat) /\ popped \in Seq(Nat) /\ Len(popped) = 1
  BY Joined DEF QInv, Typed, OneOut, IdsAccounted, Account, Waiting
<1>2. Waiting # <<>> /\ x = popped[1] /\ Tail(Waiting) = buffer
  BY <1>1, Joined DEF Waiting
<1>3. Waiting' = Tail(Waiting)
  <2>1. <<>> \in Seq(Nat) /\ <<>> \o buffer = buffer
    BY <1>1, ConcatEmptySeq
  <2> QED
    BY <1>2, <2>1 DEF Waiting
<1>4. table' = [i \in D \ {x} |-> table[i]] /\ oldIds' = Append(oldIds, x)
  BY <1>2 DEF RemoveEvent
<1>5. x \in Nat
  BY <1>1, <1>2, HeadTailProperties
<1>6. oldIds' \in Seq(Nat)
  BY <1>1, <1>4, <1>5, AppendProperties
<1>7. table' \in [D \ {x} -> Events] /\ DOMAIN table' = D \ {x}
      /\ \A i \in D \ {x} : table'[i] = table[i]
  BY <1>1, <1>4
<1>8. IdsAccounted'
  <2>1. Account(Tail(Waiting), Append(oldIds, x), D \ {x})
    BY <1>1, <1>2, Release
  <2> QED
    BY <1>3, <1>4, <1>7, <2>1 DEF IdsAccounted, Account
<1>9. Queue # <<>> /\ Head(Queue) = table[popped[1]] /\ Queue' = Tail(Queue)
  <2>1. Range(Waiting) = D /\ IsInjective(Waiting)
    BY <1>1 DEF Account
  <2>2. /\ Seen(Waiting, table) # <<>> /\ Head(Seen(Waiting, table)) = table[x]
        /\ Seen(Tail(Waiting), table') = Tail(Seen(Waiting, table))
    <3>1. Drops(Waiting, table, table')
      BY <1>1, <1>2, <1>7, <2>1 DEF Drops
    <3> QED
      BY <3>1, SeenRelease
  <2>3. Queue' = Seen(Tail(Waiting), table')
    BY <1>3 DEF Queue, Seen
  <2> QED
    BY <1>2, <2>2, <2>3 DEF Queue
<1> QED
  BY <1>6, <1>7, <1>8, <1>9

\* adoptBuffer
LEMMA DiscardStep ==
    ASSUME DiscardEvents, popped = <<>>, UNCHANGED popped
    PROVE  /\ table' \in [DOMAIN table' -> Events] /\ oldIds' \in Seq(Nat) /\ buffer' \in Seq(Nat)
           /\ IdsAccounted' /\ Queue' = <<>>
<1>1. <<>> \in Seq(Nat) /\ <<>> \in Seq(Events) /\ Len(<<>>) = 0 /\ DOMAIN <<>> = {}
  OBVIOUS
<1>2. Waiting' = <<>>
  BY <1>1, Joined DEF DiscardEvents, Waiting
<1>3. Range(<<>>) = {} /\ IsInjective(<<>>)
  BY <1>1 DEF Range, IsInjective
<1>4. table' \in [DOMAIN table' -> Events] /\ DOMAIN table' = {} /\ oldIds' = <<>> /\ buffer' = <<>>
  BY DEF DiscardEvents
<1>5. IdsAccounted'
  BY <1>1, <1>2, <1>3, <1>4 DEF IdsAccounted
<1>6. Queue' = <<>>
  <2>1. Seen(Waiting', table') \in Seq(Events) /\ Len(Seen(Waiting', table')) = 0
    BY <1>1, <1>2, <1>3, <1>4, SeenIsSeq
  <2>2. Queue' = Seen(Waiting', table')
    BY DEF Queue, Seen
  <2> QED
    BY <2>1, <2>2
<1> QED
  BY <1>1, <1>4, <1>5, <1>6

-----------------------------------------------------------------------------
(* Every step *)

\* What a step may do to what is promised.
Promised == [Delivery!Next]_(Delivery!vars)

LEMMA PromisedSteps ==
    /\ UNCHANGED <<ready, pending, handled>> /\ Queue' = Queue => Promised
    /\ ready' = TRUE /\ UNCHANGED <<pending, handled>> /\ Queue' = Queue => Promised
    /\ \A e \in Events : ~ready /\ pending' = Append(pending, e)
                         /\ UNCHANGED <<ready, handled>> /\ Queue' = Queue => Promised
    /\ \A e \in Events : ready /\ UNCHANGED <<ready, pending, handled>>
                         /\ Queue' = Append(Queue, e) => Promised
    /\ ready /\ pending # <<>> /\ pending' = Tail(pending) /\ UNCHANGED <<ready, handled>>
       /\ Queue' = Append(Queue, Head(pending)) => Promised
    /\ ready /\ Queue # <<>> /\ handled' = Append(handled, Head(Queue))
       /\ Queue' = Tail(Queue) /\ UNCHANGED <<ready, pending>> => Promised
    /\ Queue' = <<>> /\ UNCHANGED <<ready, pending, handled>> => Promised
<1> DEFINE q == [i \in DOMAIN Waiting |-> table[Waiting[i]]]
<1>1. Queue = q /\ Queue' = q'
  BY DEF Queue, Seen
<1> HIDE DEF q
<1>2. ASSUME UNCHANGED <<ready, pending, handled>>, q' = q PROVE Promised
  BY <1>2 DEF Promised, Delivery!vars, q
<1>3. ASSUME ready' = TRUE, UNCHANGED <<pending, handled>>, q' = q PROVE Promised
  BY <1>3 DEF Promised, Delivery!Next, Delivery!Start, q
<1>4. ASSUME NEW e \in Events, ~ready, pending' = Append(pending, e), UNCHANGED <<ready, handled>>,
             q' = q
      PROVE  Promised
  BY <1>4 DEF Promised, Delivery!Next, Delivery!PostEarly, q
<1>5. ASSUME NEW e \in Events, ready, UNCHANGED <<ready, pending, handled>>, q' = Append(q, e)
      PROVE  Promised
  BY <1>5 DEF Promised, Delivery!Next, Delivery!Post, q
<1>6. ASSUME ready, pending # <<>>, pending' = Tail(pending), UNCHANGED <<ready, handled>>,
             q' = Append(q, Head(pending))
      PROVE  Promised
  BY <1>6 DEF Promised, Delivery!Next, Delivery!Admit, q
<1>7. ASSUME ready, q # <<>>, handled' = Append(handled, Head(q)), q' = Tail(q),
             UNCHANGED <<ready, pending>>
      PROVE  Promised
  BY <1>7 DEF Promised, Delivery!Next, Delivery!Deliver, q
<1>8. ASSUME q' = <<>>, UNCHANGED <<ready, pending, handled>> PROVE Promised
  BY <1>8 DEF Promised, Delivery!Next, Delivery!Discard, q
<1> QED
  BY <1>1, <1>2, <1>3, <1>4, <1>5, <1>6, <1>7, <1>8

\* No step disturbs what is typed, nor the accounts, and each does what is promised,
\* if the loop does not start while a thread is posting.
Good == QInv' /\ (~StartRaces => Promised)

\* addEvent, once the loop has started
LEMMA PostStep ==
    ASSUME QInv, NEW e \in Events, AddEvent(e), ready, UNCHANGED <<ready, popped, main, call, handled>>
    PROVE  Good
<1>1. AddEventToBuffer(e) /\ UNCHANGED pending
  BY DEF AddEvent
<1>2. /\ table' \in [DOMAIN table' -> Events] /\ oldIds' \in Seq(Nat) /\ buffer' \in Seq(Nat)
      /\ IdsAccounted' /\ Queue' = Append(Queue, e)
  BY <1>1, StoreStep
<1>3. QInv'
  BY <1>1, <1>2 DEF QInv, Typed, OneOut, Started, Settled
<1>4. Promised
  BY <1>1, <1>2, PromisedSteps
<1> QED
  BY <1>3, <1>4 DEF Good

\* An event that is kept aside
LEMMA KeepStep ==
    ASSUME QInv, NEW e \in Events, pending' = Append(pending, e), ~StartRaces => ~ready,
           UNCHANGED <<ready, storeVars, loopVars, handled>>,
           call' \in [Threads -> Events \cup {NoEvent}], ready => Settled'
    PROVE  Good
<1>1. IdsAccounted' /\ Queue' = Queue
  BY NothingStored DEF storeVars, loopVars, Waiting
<1>2. pending' \in Seq(Events)
  BY DEF QInv, Typed
<1>3. QInv'
  BY <1>1, <1>2 DEF QInv, Typed, OneOut, Started, Settled, storeVars, loopVars
<1>4. ~StartRaces => Promised
  BY <1>1, PromisedSteps
<1> QED
  BY <1>3, <1>4 DEF Good

\* A step that changes nothing of what is promised
LEMMA OtherStep ==
    ASSUME QInv, UNCHANGED <<ready, pending, handled, table, oldIds>>, Waiting' = Waiting,
           Typed', OneOut', Started', Settled'
    PROVE  Good
<1>1. IdsAccounted' /\ Queue' = Queue
  BY NothingStored
<1>2. Promised
  BY <1>1, PromisedSteps
<1> QED
  BY <1>1, <1>2 DEF Good, QInv

LEMMA EveryStep == QInv /\ [Next]_vars => Good
<1> SUFFICES ASSUME QInv, [Next]_vars PROVE Good
  OBVIOUS
<1> USE DEF storeVars, loopVars, timerVars
<1>1. ASSUME NEW t \in Threads, ThreadPushes(t) PROVE Good
  <2>1. call[t] \in Events /\ (~StartRaces => ~ready)
    BY <1>1 DEF ThreadPushes, QInv, Typed, Settled
  <2>2. call' \in [Threads -> Events \cup {NoEvent}] /\ (ready => Settled')
    BY <1>1 DEF ThreadPushes, QInv, Typed, Settled
  <2> QED
    BY <1>1, <2>1, <2>2, KeepStep DEF ThreadPushes
<1>2. ASSUME NEW t \in Threads, NEW e \in Events, ThreadPosts(t, e) PROVE Good
  BY <1>2, PostStep DEF ThreadPosts
<1>3. ASSUME NEW t \in Threads, NEW e \in Events, ThreadTestsReady(t, e) PROVE Good
  <2>1. Typed' /\ OneOut' /\ Started' /\ Settled' /\ Waiting' = Waiting
    BY <1>3 DEF ThreadTestsReady, QInv, Typed, OneOut, Started, Settled, Waiting
  <2> QED
    BY <1>3, <2>1, OtherStep DEF ThreadTestsReady
<1>4. ASSUME NEW e \in Events, MainPosts(e) PROVE Good
  <2>1. CASE ready
    BY <1>4, <2>1, PostStep DEF MainPosts
  <2>2. CASE ~ready
    <3>1. pending' = Append(pending, e) /\ UNCHANGED <<ready, storeVars, loopVars, call, handled>>
      BY <1>4, <2>2 DEF MainPosts, AddEvent
    <3> QED
      BY <2>2, <3>1, KeepStep DEF QInv, Typed
  <2> QED
    BY <2>1, <2>2
<1>5. CASE EnterLoop
  <2>1. ready' = TRUE /\ UNCHANGED <<pending, table, oldIds, buffer, popped, call, handled>>
        /\ main' = "draining" /\ main # "popped"
    BY <1>5 DEF EnterLoop, OutsideOrHandling
  <2>2. IdsAccounted' /\ Queue' = Queue
    BY <2>1, NothingStored DEF Waiting
  <2>3. Settled'
    BY <1>5 DEF EnterLoop, Settled
  <2>4. QInv'
    BY <2>1, <2>2, <2>3 DEF QInv, Typed, OneOut, Started
  <2> QED
    BY <2>1, <2>2, <2>4, PromisedSteps DEF Good
<1>6. CASE Drain
  <2>1. ready /\ UNCHANGED <<ready, popped, call, handled>> /\ main = "draining"
    BY <1>6 DEF Drain, DrainPending, QInv, Started
  <2>2. CASE pending = <<>>
    <3>1. UNCHANGED <<pending, table, oldIds, buffer>> /\ main' = "getting"
      BY <1>6, <2>2 DEF Drain, DrainPending
    <3>2. Typed' /\ OneOut' /\ Started' /\ Settled' /\ Waiting' = Waiting
      BY <2>1, <3>1 DEF QInv, Typed, OneOut, Started, Settled, Waiting
    <3> QED
      BY <2>1, <3>1, <3>2, OtherStep
  <2>3. CASE pending # <<>>
    <3>1. AddEventToBuffer(Head(pending)) /\ pending' = Tail(pending) /\ UNCHANGED main
      BY <1>6, <2>3 DEF Drain, DrainPending
    <3>2. Head(pending) \in Events /\ pending' \in Seq(Events)
      BY <2>3, <3>1, HeadTailProperties DEF QInv, Typed
    <3>3. /\ table' \in [DOMAIN table' -> Events] /\ oldIds' \in Seq(Nat) /\ buffer' \in Seq(Nat)
          /\ IdsAccounted' /\ Queue' = Append(Queue, Head(pending))
      BY <2>1, <3>1, <3>2, StoreStep
    <3>4. QInv'
      BY <2>1, <3>1, <3>2, <3>3 DEF QInv, Typed, OneOut, Started, Settled
    <3>5. Promised
      BY <2>1, <2>3, <3>1, <3>3, PromisedSteps
    <3> QED
      BY <3>4, <3>5 DEF Good
  <2> QED
    BY <2>2, <2>3
<1>7. CASE PopId
  <2>1. /\ main = "getting" /\ buffer # <<>> /\ popped = <<>>
        /\ popped' = <<Head(buffer)>> /\ buffer' = Tail(buffer) /\ main' = "popped"
        /\ UNCHANGED <<ready, pending, table, oldIds, call, handled>>
    BY <1>7 DEF PopId, QInv, OneOut
  <2>2. popped \in Seq(Nat) /\ buffer \in Seq(Nat)
    BY DEF QInv, Typed
  <2>3. Waiting' = Waiting /\ popped' \in Seq(Nat)
    BY <2>1, <2>2, Joined DEF Waiting
  <2>4. buffer' \in Seq(Nat) /\ Len(popped') = 1
    BY <2>1, <2>2, HeadTailProperties
  <2>5. Typed' /\ OneOut' /\ Started' /\ Settled'
    BY <2>1, <2>3, <2>4 DEF QInv, Typed, OneOut, Started, Settled
  <2> QED
    BY <2>1, <2>3, <2>5, OtherStep
<1>8. CASE TakeEvent
  <2>1. /\ main = "popped" /\ RemoveEvent(popped[1]) /\ popped' = <<>> /\ main' # "popped"
        /\ handled' = Append(handled, table[popped[1]])
        /\ UNCHANGED <<ready, pending, buffer, call>>
    BY <1>8 DEF TakeEvent
  <2>2. /\ table' \in [DOMAIN table' -> Events] /\ oldIds' \in Seq(Nat) /\ IdsAccounted'
        /\ Queue # <<>> /\ Head(Queue) = table[popped[1]] /\ Queue' = Tail(Queue)
    BY <2>1, ReleaseStep
  <2>3. ready /\ popped' \in Seq(Nat)
    BY <2>1 DEF QInv, Started
  <2>4. QInv'
    BY <2>1, <2>2, <2>3 DEF QInv, Typed, OneOut, Started, Settled
  <2>5. Promised
    BY <2>1, <2>2, <2>3, PromisedSteps
  <2> QED
    BY <2>4, <2>5 DEF Good
<1>9. CASE CheckTimers
  <2>1. Typed' /\ OneOut' /\ Started' /\ Settled' /\ Waiting' = Waiting
    BY <1>9 DEF CheckTimers, QInv, Typed, OneOut, Started, Settled, Waiting
  <2> QED
    BY <1>9, <2>1, OtherStep DEF CheckTimers
<1>10. CASE HandlerReturns
  <2>1. Typed' /\ OneOut' /\ Started' /\ Settled' /\ Waiting' = Waiting
    BY <1>10 DEF HandlerReturns, QInv, Typed, OneOut, Started, Settled, Waiting
  <2> QED
    BY <1>10, <2>1, OtherStep DEF HandlerReturns
<1>11. CASE AdoptBuffer
  <2>1. /\ main # "popped" /\ popped = <<>> /\ DiscardEvents
        /\ UNCHANGED <<ready, pending, main, popped, call, handled>>
    BY <1>11 DEF AdoptBuffer, OutsideOrHandling, QInv, OneOut
  <2>2. /\ table' \in [DOMAIN table' -> Events] /\ oldIds' \in Seq(Nat) /\ buffer' \in Seq(Nat)
        /\ IdsAccounted' /\ Queue' = <<>>
    BY <2>1, DiscardStep
  <2>3. QInv'
    BY <2>1, <2>2 DEF QInv, Typed, OneOut, Started, Settled
  <2> QED
    BY <2>1, <2>2, <2>3, PromisedSteps DEF Good
<1>12. ASSUME NEW t \in Timers, NewTimer(t) \/ DeleteTimer(t) PROVE Good
  <2>1. UNCHANGED <<ready, pending, storeVars, loopVars, call, handled>>
    BY <1>12 DEF NewTimer, DeleteTimer
  <2>2. Typed' /\ OneOut' /\ Started' /\ Settled' /\ Waiting' = Waiting
    BY <2>1 DEF QInv, Typed, OneOut, Started, Settled, Waiting
  <2> QED
    BY <2>1, <2>2, OtherStep
<1>13. CASE Tick \/ UNCHANGED vars
  <2>1. UNCHANGED <<ready, pending, storeVars, loopVars, call, handled>>
    BY <1>13 DEF Tick, vars
  <2>2. Typed' /\ OneOut' /\ Started' /\ Settled' /\ Waiting' = Waiting
    BY <2>1 DEF QInv, Typed, OneOut, Started, Settled, Waiting
  <2> QED
    BY <2>1, <2>2, OtherStep
<1> QED
  BY <1>1, <1>2, <1>3, <1>4, <1>5, <1>6, <1>7, <1>8, <1>9, <1>10, <1>11, <1>12, <1>13
  DEF Next, MainStep

-----------------------------------------------------------------------------
(* The theorems *)

\* However events are posted, taken out and discarded, also when the loop starts
\* while a thread is posting, an id in the buffer stands for an event in the table
\* that no other id stands for, and no id is both used and free
\* (EventQueue::saveEvent, removeEvent).
THEOREM IdsStayAccounted == Spec => []IdsAccounted
<1>1. Init => QInv
  BY AccountedInit
<1>2. QInv /\ [Next]_vars => QInv'
  BY EveryStep DEF Good
<1>3. QInv => IdsAccounted
  BY DEF QInv
<1> QED
  BY <1>1, <1>2, <1>3, PTL DEF Spec

\* If no thread is in addEvent while the loop starts, the buffer and the table of
\* events do what is promised of the queue: events are taken out as they were posted,
\* in the order in which they were let in (EventQueue::addEvent, getEvent, loop).
THEOREM QueueDelivers == ASSUME ~StartRaces PROVE Spec => DeliversInOrder
<1>1. Init => QInv /\ Delivery!Init
  <2>1. ASSUME Init PROVE Delivery!Init
    <3>1. Queue = <<>> /\ ready = FALSE /\ pending = <<>> /\ handled = <<>>
      BY <2>1, AccountedInit DEF Init
    <3> QED
      BY <3>1 DEF Delivery!Init, Queue, Seen
  <2> QED
    BY <2>1, AccountedInit
<1>2. QInv /\ [Next]_vars => QInv' /\ [Delivery!Next]_(Delivery!vars)
  BY EveryStep DEF Good, Promised
<1> QED
  BY <1>1, <1>2, PTL DEF Spec, DeliversInOrder, Delivery!Spec

-----------------------------------------------------------------------------
(* Timers *)

TimersTyped == timers \in [Timers -> TimerStates] /\ clock \in Nat

\* For each queued timer of a table T with c on the clock
ExactIn(T, c) ==
    \A t \in Timers : T[t].state = "queued" => T[t].left - c = Duration[t] - T[t].age

LEMMA ExactMeans == TimersExact <=> ExactIn(timers, clock)
  BY DEF TimersExact, ExactIn, Queued

\* Counting down moves what is on the clock into the timers.
LEMMA CountedDownExact ==
    ASSUME TimersTyped, TimersExact
    PROVE  CountedDown \in [Timers -> TimerStates] /\ ExactIn(CountedDown, 0)
<1>1. ASSUME NEW t \in Timers, t \in Queued
      PROVE  /\ CountedDown[t].left = timers[t].left - clock /\ CountedDown[t].age = timers[t].age
             /\ CountedDown[t] \in TimerStates
             /\ timers[t].left - clock = Duration[t] - timers[t].age
  <2>1. timers[t] \in TimerStates /\ clock \in Int
    BY DEF TimersTyped
  <2>2. CountedDown[t] = [timers[t] EXCEPT !.left = @ - clock]
    BY <1>1 DEF CountedDown
  <2>3. timers[t].left - clock \in Int
    BY <2>1 DEF TimerStates
  <2> QED
    BY <1>1, <2>1, <2>2, <2>3 DEF TimerStates, TimersExact
<1>2. ASSUME NEW t \in Timers, t \notin Queued PROVE CountedDown[t] = timers[t]
  BY <1>2 DEF CountedDown
<1>3. ASSUME NEW t \in Timers PROVE CountedDown[t] \in TimerStates
  BY <1>1, <1>2 DEF TimersTyped
<1>4. CountedDown \in [Timers -> TimerStates]
  BY <1>3 DEF CountedDown
<1>5. ASSUME NEW t \in Timers, CountedDown[t].state = "queued"
      PROVE  CountedDown[t].left - 0 = Duration[t] - CountedDown[t].age
  <2>1. t \in Queued
    BY <1>2, <1>5 DEF Queued
  <2>2. CountedDown[t].left \in Int
    BY <1>3 DEF TimerStates
  <2> QED
    BY <1>1, <2>1, <2>2
<1> QED
  BY <1>4, <1>5 DEF ExactIn

LEMMA TimersStep == TimersTyped /\ TimersExact /\ [Next]_vars => TimersTyped' /\ TimersExact'
<1> SUFFICES ASSUME TimersTyped, TimersExact, [Next]_vars
             PROVE  TimersTyped' /\ ExactIn(timers', clock')
  BY ExactMeans DEF TimersExact, ExactIn, Queued
<1> USE DEF timerVars
<1>1. ASSUME UNCHANGED timerVars PROVE TimersTyped' /\ ExactIn(timers', clock')
  BY <1>1, ExactMeans DEF TimersTyped
<1>2. \A t \in Timers : Duration[t] \in Nat \ {0} /\ timers[t] \in TimerStates
  BY EventQueueAssumption DEF TimersTyped
<1>3. ASSUME NEW t \in Timers, NewTimer(t) PROVE TimersTyped' /\ ExactIn(timers', clock')
  <2>1. /\ clock' = clock /\ clock \in Nat
        /\ timers' = [timers EXCEPT ![t] = [state |-> "queued", left |-> Duration[t] + clock, age |-> 0]]
    BY <1>3 DEF NewTimer, InitialTime, TimersTyped
  <2>2. [state |-> "queued", left |-> Duration[t] + clock, age |-> 0] \in TimerStates
    BY <1>2, <2>1 DEF TimerStates
  <2>3. TimersTyped'
    BY <2>1, <2>2 DEF TimersTyped
  <2>4. (Duration[t] + clock) - clock = Duration[t] - 0
    BY <1>2, <2>1
  <2> QED
    BY <2>1, <2>3, <2>4, ExactMeans DEF ExactIn, TimersTyped
<1>4. ASSUME NEW t \in Timers, DeleteTimer(t) PROVE TimersTyped' /\ ExactIn(timers', clock')
  <2>1. clock' = clock /\ timers' = [timers EXCEPT ![t] = NoTimer]
    BY <1>4 DEF DeleteTimer
  <2>2. NoTimer \in TimerStates /\ NoTimer.state # "queued"
    BY DEF NoTimer, TimerStates
  <2> QED
    BY <2>1, <2>2, ExactMeans DEF ExactIn, TimersTyped
<1>5. CASE CheckTimers
  <2>1. clock' = 0 /\ CountedDown \in [Timers -> TimerStates] /\ ExactIn(CountedDown, 0)
    BY <1>5, CountedDownExact DEF CheckTimers
  <2>2. CASE timers' = CountedDown
    BY <2>1, <2>2 DEF TimersTyped
  <2>3. ASSUME NEW t \in Timers, timers' = [CountedDown EXCEPT ![t] = Refilled(t)]
        PROVE  TimersTyped' /\ ExactIn(timers', clock')
    <3>1. Refilled(t) \in TimerStates
      BY <1>2 DEF Refilled, TimerStates
    <3>2. Refilled(t).left - 0 = Duration[t] - Refilled(t).age
      BY <1>2 DEF Refilled
    <3> QED
      BY <2>1, <2>3, <3>1, <3>2 DEF ExactIn, TimersTyped
  <2> QED
    BY <1>5, <2>2, <2>3 DEF CheckTimers, Queued
<1>6. CASE Tick
  <2> DEFINE older(t) == [timers[t] EXCEPT !.age = @ + 1]
  <2>1. clock' = clock + 1 /\ clock \in Nat
        /\ timers' = [t \in Timers |-> IF t \in Queued THEN older(t) ELSE timers[t]]
    BY <1>6 DEF Tick, TimersTyped
  <2>2. ASSUME NEW t \in Timers
        PROVE  older(t) \in TimerStates /\ older(t).left = timers[t].left
               /\ older(t).age = timers[t].age + 1 /\ older(t).state = timers[t].state
    BY <1>2 DEF TimerStates
  <2> HIDE DEF older
  <2>3. TimersTyped'
    BY <1>2, <2>1, <2>2 DEF TimersTyped
  <2>4. ASSUME NEW t \in Timers, timers'[t].state = "queued"
        PROVE  timers'[t].left - clock' = Duration[t] - timers'[t].age
    <3>1. t \in Queued
      BY <2>1, <2>4 DEF Queued
    <3>2. timers[t].left - clock = Duration[t] - timers[t].age
      BY <3>1 DEF TimersExact
    <3>3. timers'[t].left = timers[t].left /\ timers'[t].age = timers[t].age + 1
      BY <2>1, <2>2, <3>1
    <3>4. timers[t].left \in Int /\ timers[t].age \in Nat /\ Duration[t] \in Nat
      BY <1>2 DEF TimerStates
    <3> QED
      BY <2>1, <3>2, <3>3, <3>4
  <2> QED
    BY <2>3, <2>4 DEF ExactIn
<1>7. CASE UNCHANGED vars
  BY <1>1, <1>7 DEF vars
<1>8. ASSUME NEW t \in Threads, ThreadPushes(t) PROVE UNCHANGED timerVars
  BY <1>8 DEF ThreadPushes
<1>9. ASSUME NEW t \in Threads, NEW e \in Events, ThreadPosts(t, e) \/ ThreadTestsReady(t, e)
      PROVE  UNCHANGED timerVars
  BY <1>9 DEF ThreadPosts, ThreadTestsReady
<1>10. ASSUME NEW e \in Events, MainPosts(e) PROVE UNCHANGED timerVars
  BY <1>10 DEF MainPosts
<1>11. CASE EnterLoop \/ Drain \/ PopId \/ TakeEvent \/ HandlerReturns \/ AdoptBuffer
  BY <1>1, <1>11 DEF EnterLoop, Drain, PopId, TakeEvent, HandlerReturns, AdoptBuffer
<1> QED
  BY <1>1, <1>3, <1>4, <1>5, <1>6, <1>7, <1>8, <1>9, <1>10, <1>11 DEF Next, MainStep

\* Whatever timers are made, fire and are deleted, and whenever the loop looks at
\* them, none is early or late by more than the loop is, and none gains or loses
\* time on what its clock holds (EventQueue::newTimer, hasTimerExpired).
THEOREM TimersStayExact == Spec => []TimersExact
<1>1. Init => TimersTyped /\ TimersExact
  <2> SUFFICES ASSUME Init PROVE TimersTyped /\ TimersExact
    OBVIOUS
  <2>1. NoTimer \in TimerStates /\ NoTimer.state # "queued"
    BY DEF NoTimer, TimerStates
  <2> QED
    BY <2>1 DEF Init, TimersTyped, TimersExact, Queued
<1> QED
  BY <1>1, TimersStep, PTL DEF Spec
=============================================================================
