-------------------------- MODULE EventPathProofs --------------------------
(***************************************************************************)
(* Proofs about EventPath for every number of queues and every size.       *)
(***************************************************************************)
EXTENDS EventPath, FiniteSetTheorems, TLAPS

-----------------------------------------------------------------------------
(* Sequences without duplicates, as sets of entries. *)

LEMMA AppendEntries ==
    ASSUME NEW S, NEW s \in Seq(S), NEW e \in S
    PROVE  /\ Append(s, e) \in Seq(S)
           /\ Entries(Append(s, e)) = Entries(s) \cup {e}
           /\ Distinct(s) /\ e \notin Entries(s) => Distinct(Append(s, e))
  <1>1. /\ Append(s, e) \in Seq(S)
        /\ DOMAIN Append(s, e) = 1..(Len(s) + 1)
        /\ DOMAIN s = 1..Len(s)
        /\ Len(s) \in Nat
        /\ \A i \in 1..Len(s) : Append(s, e)[i] = s[i]
        /\ Append(s, e)[Len(s) + 1] = e
    OBVIOUS
  <1>2. Entries(Append(s, e)) = Entries(s) \cup {e}
    BY <1>1, \A i \in 1..(Len(s) + 1) : i \in 1..Len(s) \/ i = Len(s) + 1,
       Len(s) + 1 \in 1..(Len(s) + 1), 1..Len(s) \subseteq 1..(Len(s) + 1) DEF Entries
  <1>3. Distinct(s) /\ e \notin Entries(s) => Distinct(Append(s, e))
    BY <1>1 DEF Entries, Distinct
  <1> QED BY <1>1, <1>2, <1>3

LEMMA TailEntries ==
    ASSUME NEW S, NEW s \in Seq(S), s # <<>>
    PROVE  /\ Tail(s) \in Seq(S)
           /\ Head(s) \in S /\ Head(s) \in Entries(s)
           /\ Distinct(s) => Distinct(Tail(s)) /\ Entries(Tail(s)) = Entries(s) \ {Head(s)}
  <1>1. /\ Tail(s) \in Seq(S) /\ Head(s) \in S
        /\ Head(s) = s[1] /\ 1 \in DOMAIN s
        /\ DOMAIN s = 1..Len(s) /\ Len(s) \in Nat /\ Len(s) >= 1
        /\ DOMAIN Tail(s) = 1..(Len(s) - 1)
        /\ \A i \in 1..(Len(s) - 1) : Tail(s)[i] = s[i + 1]
    OBVIOUS
  <1>2. Distinct(s) => Distinct(Tail(s))
    BY <1>1 DEF Distinct
  <1>3. ASSUME Distinct(s)
        PROVE  Entries(Tail(s)) = Entries(s) \ {Head(s)}
    <2>1. ASSUME NEW i \in 1..(Len(s) - 1)
          PROVE  Tail(s)[i] \in Entries(s) \ {Head(s)}
      BY <1>1, <1>3 DEF Entries, Distinct
    <2>2. ASSUME NEW j \in DOMAIN s, s[j] # Head(s)
          PROVE  s[j] \in Entries(Tail(s))
      <3>1. j - 1 \in 1..(Len(s) - 1) /\ Tail(s)[j - 1] = s[j]
        BY <1>1, <2>2
      <3> QED BY <3>1, <1>1 DEF Entries
    <2> QED BY <1>1, <2>1, <2>2 DEF Entries
  <1>4. Head(s) \in Entries(s)
    BY <1>1 DEF Entries
  <1> QED BY <1>1, <1>2, <1>3, <1>4

LEMMA EntriesType ==
    ASSUME NEW S, NEW s \in Seq(S)
    PROVE  Entries(s) \subseteq S
  BY DEF Entries

\* A sequence without duplicates is as long as it has entries.
LEMMA DistinctLength ==
    ASSUME NEW S, IsFiniteSet(S), NEW s \in Seq(S), Distinct(s)
    PROVE  /\ Len(s) \in Nat /\ Len(s) = Cardinality(Entries(s))
           /\ IsFiniteSet(Entries(s)) /\ Entries(s) \subseteq S
           /\ Len(s) <= Cardinality(S)
  <1> DEFINE n == Len(s)
  <1>1. n \in Nat /\ DOMAIN s = 1..n
    OBVIOUS
  <1>2. s \in [1..n -> Entries(s)]
    BY <1>1 DEF Entries
  <1>3. s \in Injection(1..n, Entries(s)) /\ s \in Surjection(1..n, Entries(s))
    BY <1>1, <1>2 DEF Distinct, Injection, IsInjective, Surjection, Entries
  <1>4. IsFiniteSet(1..n) /\ Cardinality(1..n) = n
    <2>1. 1 \in Int /\ n \in Int /\ n >= 0 BY <1>1
    <2> HIDE DEF n
    <2>2. Cardinality(1..n) = IF 1 > n THEN 0 ELSE n - 1 + 1 BY <2>1, FS_Interval, Zenon
    <2>3. IsFiniteSet(1..n) BY <2>1, FS_Interval, Zenon
    <2> QED BY <2>1, <2>2, <2>3
  <1>5. IsFiniteSet(Entries(s)) /\ Cardinality(Entries(s)) = Cardinality(1..n)
    BY <1>3, <1>4, FS_Surjection, Zenon
  <1>6. Entries(s) \subseteq S
    BY EntriesType
  <1>7. Cardinality(Entries(s)) <= Cardinality(S)
    BY <1>6, FS_Subset
  <1> QED BY <1>1, <1>4, <1>5, <1>6, <1>7

LEMMA SameSequence ==
    ASSUME NEW S, NEW s \in Seq(S), NEW t \in Seq(S), Len(s) = Len(t),
           \A i \in 1..Len(s) : s[i] = t[i]
    PROVE  s = t
  OBVIOUS

LEMMA Suffix ==
    ASSUME NEW S, NEW s \in Seq(S), NEW n \in Nat, n <= Len(s)
    PROVE  /\ SubSeq(s, n + 1, Len(s)) \in Seq(S)
           /\ Len(SubSeq(s, n + 1, Len(s))) = Len(s) - n
           /\ \A i \in 1..(Len(s) - n) : SubSeq(s, n + 1, Len(s))[i] = s[i + n]
  OBVIOUS

\* What happens to the unread suffix when an entry is added, when one is read and
\* when the read ones are released.
LEMMA SuffixSteps ==
    ASSUME NEW S, NEW s \in Seq(S), NEW n \in Nat, n <= Len(s)
    PROVE  LET u == SubSeq(s, n + 1, Len(s)) IN
           /\ \A e \in S : SubSeq(Append(s, e), n + 1, Len(Append(s, e))) = Append(u, e)
           /\ n < Len(s) => /\ u # <<>> /\ Head(u) = s[n + 1]
                            /\ SubSeq(s, n + 1 + 1, Len(s)) = Tail(u)
           /\ SubSeq(u, 0 + 1, Len(u)) = u
  <1> DEFINE u == SubSeq(s, n + 1, Len(s))
  <1>1. /\ u \in Seq(S) /\ Len(u) = Len(s) - n
        /\ \A i \in 1..(Len(s) - n) : u[i] = s[i + n]
    BY Suffix
  <1> HIDE DEF u
  <1>2. ASSUME NEW e \in S
        PROVE  SubSeq(Append(s, e), n + 1, Len(Append(s, e))) = Append(u, e)
    <2> DEFINE a == Append(s, e)  v == SubSeq(a, n + 1, Len(a))  w == Append(u, e)
    <2>1. /\ a \in Seq(S) /\ Len(a) = Len(s) + 1 /\ a[Len(s) + 1] = e
          /\ \A i \in 1..Len(s) : a[i] = s[i]
      OBVIOUS
    <2>2. /\ w \in Seq(S) /\ Len(w) = Len(s) - n + 1 /\ w[Len(s) - n + 1] = e
          /\ \A i \in 1..(Len(s) - n) : w[i] = u[i]
      BY <1>1
    <2> HIDE DEF a, w
    <2>3. /\ v \in Seq(S) /\ Len(v) = Len(s) - n + 1
          /\ \A i \in 1..(Len(s) - n + 1) : v[i] = a[i + n]
      BY <2>1, Suffix
    <2> HIDE DEF v
    <2>4. ASSUME NEW i \in 1..Len(v)
          PROVE  v[i] = w[i]
      <3>1. i \in 1..(Len(s) - n + 1) /\ Len(s) \in Nat BY <2>3
      <3>2. v[i] = a[i + n] BY <2>3, <3>1
      <3>3. CASE i = Len(s) - n + 1
        <4>1. i + n = Len(s) + 1 BY <3>1, <3>3
        <4> QED BY <2>1, <2>2, <3>2, <3>3, <4>1
      <3>4. CASE i # Len(s) - n + 1
        <4>1. i \in 1..(Len(s) - n) /\ i + n \in 1..Len(s) BY <3>1, <3>4
        <4>2. v[i] = s[i + n] BY <2>1, <3>2, <4>1
        <4>3. w[i] = u[i] BY <2>2, <4>1
        <4> QED BY <1>1, <4>1, <4>2, <4>3
      <3> QED BY <3>3, <3>4
    <2>5. v = w BY <2>2, <2>3, <2>4, SameSequence
    <2> QED BY <2>5 DEF v, w, a
  <1>3. ASSUME n < Len(s)
        PROVE  /\ u # <<>> /\ Head(u) = s[n + 1]
               /\ SubSeq(s, n + 1 + 1, Len(s)) = Tail(u)
    <2> DEFINE v == SubSeq(s, n + 1 + 1, Len(s))
    <2>1. /\ v \in Seq(S) /\ Len(v) = Len(s) - (n + 1)
          /\ \A i \in 1..(Len(s) - (n + 1)) : v[i] = s[i + (n + 1)]
      BY <1>3, Suffix
    <2> HIDE DEF v
    <2>2. u # <<>> /\ Head(u) = s[n + 1]
      BY <1>1, <1>3
    <2>3. /\ Tail(u) \in Seq(S) /\ Len(Tail(u)) = Len(s) - n - 1
          /\ \A i \in 1..(Len(s) - n - 1) : Tail(u)[i] = u[i + 1]
      BY <1>1, <1>3, <2>2
    <2>4. ASSUME NEW i \in 1..Len(v)
          PROVE  v[i] = Tail(u)[i]
      <3>1. i \in 1..(Len(s) - n - 1) /\ i + 1 \in 1..(Len(s) - n) BY <1>3, <2>1
      <3>2. v[i] = s[i + (n + 1)] BY <2>1, <3>1
      <3>3. u[i + 1] = s[i + 1 + n] BY <1>1, <3>1
      <3>4. i + (n + 1) = i + 1 + n BY <3>1
      <3>5. Tail(u)[i] = u[i + 1] BY <2>3, <3>1
      <3> QED BY <3>2, <3>3, <3>4, <3>5
    <2>5. Len(v) = Len(Tail(u))
      <3>1. Len(s) \in Nat OBVIOUS
      <3>2. Len(s) - (n + 1) = Len(s) - n - 1 BY <3>1
      <3> QED BY <2>1, <2>3, <3>2
    <2>6. v = Tail(u) BY <2>1, <2>3, <2>4, <2>5, SameSequence
    <2> QED BY <2>2, <2>6 DEF v
  <1>4. SubSeq(u, 0 + 1, Len(u)) = u
    BY <1>1
  <1> QED BY <1>2, <1>3, <1>4 DEF u
LEMMA SuffixAppend ==
    ASSUME NEW S, NEW s \in Seq(S), NEW n \in Nat, n <= Len(s), NEW e \in S
    PROVE  SubSeq(Append(s, e), n + 1, Len(Append(s, e))) = Append(SubSeq(s, n + 1, Len(s)), e)
  BY SuffixSteps, Zenon

LEMMA SuffixRead ==
    ASSUME NEW S, NEW s \in Seq(S), NEW n \in Nat, n < Len(s)
    PROVE  /\ SubSeq(s, n + 1, Len(s)) # <<>>
           /\ Head(SubSeq(s, n + 1, Len(s))) = s[n + 1]
           /\ SubSeq(s, n + 1 + 1, Len(s)) = Tail(SubSeq(s, n + 1, Len(s)))
  <1>1. n <= Len(s) OBVIOUS
  <1> QED BY <1>1, SuffixSteps, Zenon

LEMMA SuffixWhole ==
    ASSUME NEW S, NEW s \in Seq(S), NEW n \in Nat, n <= Len(s)
    PROVE  LET u == SubSeq(s, n + 1, Len(s)) IN SubSeq(u, 0 + 1, Len(u)) = u
  BY SuffixSteps, Zenon

-----------------------------------------------------------------------------
(* The inductive invariant. *)

\* The program counters agree with what they count.
Counters ==
    /\ \A q \in CQ : /\ avail[q] <= occ[q]
                     /\ poll[q] # "off" => sched[q]
    /\ k <= snap /\ snap <= Len(eq)
    /\ isr # "loop" => k = 0 /\ snap = 0

\* A queue that is not started is empty, and stays armed until its ring is active.
Starting ==
    \A q \in CQ : /\ stage[q] # "ring" => occ[q] = 0
                  /\ stage[q] = "armed" => armed[q]

Sided == \A s \in Side : \A q \in Entries(fifo[s]) : SideOf(q) = s

\* The entries the handler saw when it read the head are of different queues, and
\* remain so while it works through them.
SnapDistinct == \A i, j \in 1..snap : eq[i] = eq[j] => i = j

EqNotified == eqArmed \/ irqPending \/ isr # "idle"

Inv ==
    /\ TypeOK /\ Counters /\ Starting /\ Sided /\ SnapDistinct
    /\ OneNotification /\ NeverMissed /\ ArmedMeansEmpty
    /\ EqNotified /\ EqServed
LEMMA Sides ==
    /\ IsFiniteSet(CQ) /\ Cardinality(CQ) \in Nat
    /\ \A q \in CQ : SideOf(q) \in Side
    /\ \A s \in Side : LET qs == {q \in CQ : SideOf(q) = s} IN
          IsFiniteSet(qs) /\ Cardinality(qs) \in Nat /\ Cardinality(qs) <= FifoDepth
  <1>1. IsFiniteSet(CQ) /\ Cardinality(CQ) \in Nat
    BY QueueAssumption, FS_Union, FS_CardinalityType DEF CQ
  <1>2. /\ {q \in CQ : SideOf(q) = "tx"} = TxCq
        /\ {q \in CQ : SideOf(q) = "rx"} = RxCq
    BY QueueAssumption DEF CQ, SideOf
  <1>3. Cardinality(TxCq) \in Nat /\ Cardinality(RxCq) \in Nat
    BY QueueAssumption, FS_CardinalityType
  <1>4. \A s \in Side : LET qs == {q \in CQ : SideOf(q) = s} IN
          IsFiniteSet(qs) /\ Cardinality(qs) \in Nat /\ Cardinality(qs) <= FifoDepth
    BY <1>2, <1>3, QueueAssumption, CapacityAssumption DEF Side
  <1> QED BY <1>1, <1>4 DEF SideOf, Side

THEOREM InitInv == Init => Inv
  <1> SUFFICES ASSUME Init PROVE Inv OBVIOUS
  <1>1. TypeOK
    <2>1. <<>> \in Seq(CQ) /\ 0 \in 0..CplSize /\ 0 \in Nat
      BY QueueAssumption
    <2> QED BY <2>1 DEF Init, TypeOK
  <1>2. Counters /\ Starting /\ SnapDistinct /\ EqNotified /\ EqServed
    BY DEF Init, Counters, Starting, SnapDistinct, EqNotified, EqServed
  <1>3. /\ \A s \in Side : Entries(fifo[s]) = {} /\ Distinct(fifo[s])
        /\ Entries(evw) = {} /\ Distinct(evw) /\ Unread = <<>>
    BY DEF Init, Entries, Distinct, Unread
  <1>4. Entries(Unread) = {} /\ Distinct(Unread)
    BY <1>3 DEF Entries, Distinct
  <1>5. OneNotification
    BY <1>3, <1>4, Sides DEF Init, OneNotification, At
  <1>6. Sided /\ NeverMissed /\ ArmedMeansEmpty
    BY <1>3 DEF Init, Sided, NeverMissed, ArmedMeansEmpty
  <1> QED BY <1>1, <1>2, <1>5, <1>6 DEF Inv

\* A queue with no event in its FIFO finds room there for one.
LEMMA FifoHasRoom ==
    ASSUME TypeOK, Sided, NEW q \in CQ, Distinct(fifo[SideOf(q)]),
           q \notin Entries(fifo[SideOf(q)])
    PROVE  Len(fifo[SideOf(q)]) < FifoDepth
  <1> DEFINE s == SideOf(q)  qs == {p \in CQ : SideOf(p) = s}  f == Append(fifo[s], q)
  <1>1. s \in Side /\ fifo[s] \in Seq(CQ)
    BY Sides DEF TypeOK
  <1>2. /\ f \in Seq(CQ) /\ Len(f) = Len(fifo[s]) + 1 /\ Len(fifo[s]) \in Nat
        /\ Entries(f) = Entries(fifo[s]) \cup {q} /\ Distinct(f)
    BY <1>1, AppendEntries
  <1>3. Entries(f) \subseteq qs
    BY <1>1, <1>2, EntriesType DEF Sided
  <1>4. f \in Seq(qs)
    BY <1>2, <1>3 DEF Entries
  <1>5. Len(f) <= Cardinality(qs)
    BY <1>1, <1>2, <1>4, Sides, DistinctLength
  <1>6. Cardinality(qs) \in Nat /\ Cardinality(qs) <= FifoDepth
    BY <1>1, Sides
  <1>7. Len(fifo[s]) \in Nat /\ Len(fifo[s]) + 1 <= Cardinality(qs)
    BY <1>2, <1>5
  <1> HIDE DEF qs, f, s
  <1>8. Len(fifo[s]) < FifoDepth
    BY <1>6, <1>7, CapacityAssumption
  <1> QED BY <1>8 DEF s

\* Firing an event adds it to its FIFO, at most once.
LEMMA Fire ==
    ASSUME Inv, NEW q \in CQ, q \notin Entries(fifo[SideOf(q)]), PushEvent(q)
    PROVE  /\ fifo' \in [Side -> Seq(CQ)]
           /\ \A s \in Side : Distinct(fifo'[s])
           /\ Sided'
           /\ \A p \in CQ : p \in Entries(fifo'[SideOf(p)])
                              <=> p = q \/ p \in Entries(fifo[SideOf(p)])
  <1> DEFINE s == SideOf(q)
  <1>1. /\ s \in Side /\ fifo \in [Side -> Seq(CQ)] /\ fifo[s] \in Seq(CQ)
        /\ \A t \in Side : Distinct(fifo[t])
    BY Sides DEF Inv, TypeOK, OneNotification
  <1>2. fifo' = [fifo EXCEPT ![s] = Append(fifo[s], q)]
    BY <1>1, FifoHasRoom DEF PushEvent, Inv
  <1>3. /\ Append(fifo[s], q) \in Seq(CQ) /\ Distinct(Append(fifo[s], q))
        /\ Entries(Append(fifo[s], q)) = Entries(fifo[s]) \cup {q}
    BY <1>1, AppendEntries
  <1>4. Sided'
    BY <1>1, <1>2, <1>3 DEF Sided, Inv
  <1>5. \A p \in CQ : p \in Entries(fifo'[SideOf(p)])
                       <=> p = q \/ p \in Entries(fifo[SideOf(p)])
    BY <1>1, <1>2, <1>3, Sides
  <1> QED BY <1>1, <1>2, <1>3, <1>4, <1>5

\* Writing the arm register of a queue whose event is not in the FIFO moves the
\* notification to the arm bit of an empty queue or to the FIFO.
LEMMA ArmEffect ==
    ASSUME Inv, NEW q \in CQ, q \notin Entries(fifo[SideOf(q)]), Arm(q)
    PROVE  /\ fifo' \in [Side -> Seq(CQ)] /\ armed' \in [CQ -> BOOLEAN]
           /\ \A s \in Side : Distinct(fifo'[s])
           /\ Sided'
           /\ \A p \in CQ \ {q} : /\ p \in Entries(fifo'[SideOf(p)])
                                       <=> p \in Entries(fifo[SideOf(p)])
                                  /\ armed'[p] = armed[p]
           /\ q \in Entries(fifo'[SideOf(q)]) <=> occ[q] > 0
           /\ armed'[q] <=> occ[q] = 0
  <1>1. armed \in [CQ -> BOOLEAN] /\ occ[q] \in Nat
    BY DEF Inv, TypeOK
  <1>2. CASE occ[q] > 0
    <2>1. armed' = [armed EXCEPT ![q] = FALSE] /\ PushEvent(q)
      BY <1>2 DEF Arm
    <2> QED BY <1>1, <1>2, <2>1, Fire
  <1>3. CASE ~(occ[q] > 0)
    <2>1. armed' = [armed EXCEPT ![q] = TRUE] /\ fifo' = fifo /\ occ[q] = 0
      BY <1>1, <1>3 DEF Arm
    <2>2. /\ fifo \in [Side -> Seq(CQ)] /\ Sided
          /\ \A s \in Side : Distinct(fifo[s])
      BY DEF Inv, TypeOK, OneNotification
    <2>3. Sided'
      BY <2>1, <2>2 DEF Sided
    <2> QED BY <1>1, <1>3, <2>1, <2>2, <2>3
  <1> QED BY <1>2, <1>3
-----------------------------------------------------------------------------
(* Where a notification is, and what moving it does to the invariant. *)

LEMMA AtPlaces ==
    ASSUME NEW q
    PROVE  /\ At("armed", q) <=> armed[q]
           /\ At("fifo", q) <=> q \in Entries(fifo[SideOf(q)])
           /\ At("evw", q) <=> q \in Entries(evw)
           /\ At("eq", q) <=> q \in Entries(Unread)
           /\ At("napi", q) <=> sched[q]
           /\ At("arming", q) <=> arming[q] > 0
  BY DEF At

LEMMA Located ==
    ASSUME OneNotification, NEW q \in CQ, NEW h \in Place, At(h, q)
    PROVE  stage[q] \in {"armed", "ring"} /\ OnlyAt(h, q)
  BY DEF OneNotification, OnlyAt

LEMMA Still ==
    ASSUME Inv, UNCHANGED <<fifo, evw, eq, k, armed, sched, missed, arming, stage>>
    PROVE  OneNotification' /\ NeverMissed' /\ Sided'
  <1>1. UNCHANGED Unread
    BY DEF Unread
  <1>2. OneNotification'
    BY <1>1 DEF Inv, OneNotification, OnlyAt, At, Distinct, Entries
  <1>3. NeverMissed' /\ Sided'
    BY DEF Inv, NeverMissed, Sided, Entries
  <1> QED BY <1>2, <1>3

LEMMA IrqStill ==
    ASSUME Inv, UNCHANGED <<eq, eqArmed, irqPending, isr, snap, k>>
    PROVE  SnapDistinct' /\ EqNotified' /\ EqServed'
  BY DEF Inv, SnapDistinct, EqNotified, EqServed

\* A step that moves the notification of q to h and touches no other.
LEMMA Moved ==
    ASSUME OneNotification, NEW q \in CQ, NEW h \in Place,
           stage'[q] \in {"armed", "ring"}, OnlyAt(h, q)',
           \A p \in CQ \ {q} : /\ stage'[p] = stage[p]
                               /\ \A g \in Place : At(g, p)' <=> At(g, p),
           \A s \in Side : Distinct(fifo'[s]),
           Distinct(evw'), Distinct(Unread'),
           \A p \in CQ : arming'[p] <= 1
    PROVE  OneNotification'
  <1>1. ASSUME NEW p \in CQ
        PROVE  IF stage'[p] \in {"armed", "ring"}
               THEN \E g \in Place : OnlyAt(g, p)'
               ELSE \A g \in Place : ~At(g, p)'
    <2>1. CASE p = q
      BY <2>1
    <2>2. CASE p # q
      <3>1. \A g \in Place : OnlyAt(g, p)' <=> OnlyAt(g, p)
        BY <2>2 DEF OnlyAt
      <3> QED BY <2>2, <3>1 DEF OneNotification
    <2> QED BY <2>1, <2>2
  <1> QED BY <1>1 DEF OneNotification, Distinct

-----------------------------------------------------------------------------
(* Every action keeps the invariant. *)

LEMMA CplCommitInv ==
    ASSUME Inv, NEW q \in CQ, CplCommit(q)
    PROVE  Inv'
  <1> USE DEF nic, irq, port, napi
  <1>1. /\ UNCHANGED <<evw, eq, k, snap, sched, missed, arming, stage, avail, poll,
                       eqArmed, irqPending, isr>>
        /\ occ' = [occ EXCEPT ![q] = @ + 1] /\ occ[q] < CplSize /\ stage[q] = "ring"
    BY DEF CplCommit
  <1>2. Unread' = Unread
    BY <1>1 DEF Unread
  <1>3. SnapDistinct' /\ EqNotified' /\ EqServed'
    BY <1>1, IrqStill
  <1>4. Counters' /\ NeverMissed'
    BY <1>1, SMTT(30) DEF Inv, TypeOK, Counters, NeverMissed
  <1>5. CASE armed[q]
    <2>1. armed' = [armed EXCEPT ![q] = FALSE] /\ PushEvent(q)
      BY <1>5 DEF CplCommit
    <2>2. OnlyAt("armed", q) /\ stage[q] \in {"armed", "ring"}
      BY <1>5, AtPlaces, Located DEF Inv, Place
    <2>3. q \notin Entries(fifo[SideOf(q)])
      BY <2>2, AtPlaces DEF OnlyAt, Place
    <2>4. /\ fifo' \in [Side -> Seq(CQ)] /\ Sided'
          /\ \A s \in Side : Distinct(fifo'[s])
          /\ \A p \in CQ : p \in Entries(fifo'[SideOf(p)])
                              <=> p = q \/ p \in Entries(fifo[SideOf(p)])
      BY <2>1, <2>3, Fire
    <2>5. TypeOK'
      BY <1>1, <2>1, <2>4, QueueAssumption, SMTT(30) DEF Inv, TypeOK, CplCommit
    <2>6. OnlyAt("fifo", q)'
      BY <1>1, <1>2, <2>1, <2>2, <2>4 DEF OnlyAt, At, Place, Inv, TypeOK
    <2>7. \A p \in CQ \ {q} : \A g \in Place : At(g, p)' <=> At(g, p)
      BY <1>1, <1>2, <2>1, <2>4 DEF At, Inv, TypeOK
    <2>8. OneNotification'
      BY <1>1, <1>2, <2>2, <2>4, <2>6, <2>7, Moved DEF Inv, OneNotification, Place
    <2>9. ArmedMeansEmpty' /\ Starting'
      BY <1>1, <2>1 DEF Inv, TypeOK, ArmedMeansEmpty, Starting
    <2> QED BY <1>3, <1>4, <2>4, <2>5, <2>8, <2>9 DEF Inv
  <1>6. CASE ~armed[q]
    <2>1. UNCHANGED <<armed, fifo>>
      BY <1>6 DEF CplCommit
    <2>2. OneNotification' /\ Sided'
      BY <1>1, <2>1, Still
    <2>3. TypeOK'
      BY <1>1, <2>1, QueueAssumption, SMTT(30) DEF Inv, TypeOK, CplCommit
    <2>4. ArmedMeansEmpty' /\ Starting'
      BY <1>1, <1>6, <2>1 DEF Inv, TypeOK, ArmedMeansEmpty, Starting
    <2> QED BY <1>3, <1>4, <2>2, <2>3, <2>4 DEF Inv
  <1> QED BY <1>5, <1>6

\* The EQ and its write engine hold at most two events of every queue, and one less
\* when the notification of some queue is elsewhere: the unread entries and the
\* writes under way are of different queues, and so are the processed entries.
LEMMA EqBound ==
    ASSUME Inv
    PROVE  /\ Len(eq) \in Nat /\ Len(evw) \in Nat
           /\ Len(eq) + Len(evw) <= 2 * Cardinality(CQ)
           /\ \A q \in CQ : At("fifo", q) => Len(eq) + Len(evw) < 2 * Cardinality(CQ)
  <1> DEFINE U == Entries(Unread)  W == Entries(evw)  n == Cardinality(CQ)
  <1>1. /\ eq \in Seq(CQ) /\ evw \in Seq(CQ) /\ k \in Nat /\ Len(eq) \in Nat
        /\ k <= snap /\ snap <= Len(eq) /\ snap \in Nat /\ Len(evw) \in Nat
    BY DEF Inv, TypeOK, Counters
  <1>2. Unread \in Seq(CQ) /\ Len(Unread) = Len(eq) - k
    BY <1>1, Suffix DEF Unread
  <1>3. U \cap W = {}
    <2>1. SUFFICES ASSUME NEW p \in CQ, p \in U, p \in W
                   PROVE  FALSE
      BY <1>2, EntriesType
    <2>2. At("eq", p) /\ At("evw", p) BY <2>1, AtPlaces
    <2>3. OnlyAt("eq", p) BY <2>2, Located DEF Inv, Place
    <2> QED BY <2>2, <2>3 DEF OnlyAt, Place
  <1>4. /\ IsFiniteSet(U) /\ Cardinality(U) = Len(eq) - k /\ U \subseteq CQ
        /\ IsFiniteSet(W) /\ Cardinality(W) = Len(evw) /\ W \subseteq CQ
    BY <1>1, <1>2, Sides, DistinctLength DEF Inv, OneNotification
  <1>5. /\ IsFiniteSet(U \cup W) /\ U \cup W \subseteq CQ
        /\ Cardinality(U \cup W) = Len(eq) - k + Len(evw)
    <2> HIDE DEF U, W
    <2>1. /\ IsFiniteSet(U \cup W)
          /\ Cardinality(U \cup W) = Cardinality(U) + Cardinality(W) - Cardinality(U \cap W)
      BY <1>4, FS_Union, Zenon
    <2>2. Cardinality(U \cap W) = 0
      BY <1>3, FS_EmptySet, Zenon
    <2> QED BY <1>1, <1>4, <2>1, <2>2
  <1>6. Len(eq) - k + Len(evw) <= n
    <2>1. U \cup W \in SUBSET CQ BY <1>5
    <2>2. Cardinality(U \cup W) <= n BY <2>1, Sides, FS_Subset
    <2> QED BY <1>5, <2>2
  <1>7. snap <= n
    <2> DEFINE r == SubSeq(eq, 1, snap)
    <2>1. r \in Seq(CQ) /\ Len(r) = snap /\ \A i \in 1..snap : r[i] = eq[i]
      BY <1>1
    <2>2. Distinct(r)
      BY <2>1 DEF Distinct, Inv, SnapDistinct
    <2> QED BY <2>1, <2>2, Sides, DistinctLength, ZenonT(30)
  <1>8. ASSUME NEW q \in CQ, At("fifo", q)
        PROVE  Len(eq) - k + Len(evw) + 1 <= n
    <2>1. OnlyAt("fifo", q) BY <1>8, Located DEF Inv, Place
    <2>2. q \notin U \cup W BY <2>1, AtPlaces DEF OnlyAt, Place
    <2> HIDE DEF U, W
    <2>3. Cardinality(U \cup W \cup {q}) = Cardinality(U \cup W) + 1
      BY <1>5, <2>2, FS_AddElement
    <2>4. U \cup W \cup {q} \in SUBSET CQ BY <1>5
    <2>5. Cardinality(U \cup W \cup {q}) <= n BY <2>4, Sides, FS_Subset
    <2> QED BY <1>5, <2>3, <2>5
  <1>9. n \in Nat
    BY Sides
  <1> HIDE DEF n
  <1>10. Len(eq) + Len(evw) <= 2 * n
    BY <1>1, <1>6, <1>7, <1>9
  <1>11. \A q \in CQ : At("fifo", q) => Len(eq) + Len(evw) < 2 * n
    BY <1>1, <1>7, <1>8, <1>9
  <1> QED BY <1>1, <1>10, <1>11 DEF n

LEMMA EqHasRoom ==
    ASSUME Inv, NEW q \in CQ, At("fifo", q)
    PROVE  Len(eq) + Len(evw) < EqSize
  <1> DEFINE n == Cardinality(CQ)
  <1>1. Len(eq) + Len(evw) < 2 * n /\ Len(eq) \in Nat /\ Len(evw) \in Nat
    BY EqBound
  <1>2. n \in Nat /\ 2 * n <= EqSize /\ EqSize \in Nat
    BY Sides, CapacityAssumption
  <1> HIDE DEF n
  <1> QED BY <1>1, <1>2

LEMMA EventRequestInv ==
    ASSUME Inv, NEW s \in Side, EventRequest(s)
    PROVE  Inv'
  <1> USE DEF nic, irq, port, napi
  <1>0. /\ fifo[s] # <<>> /\ fifo[s] \in Seq(CQ) /\ fifo \in [Side -> Seq(CQ)]
        /\ evw \in Seq(CQ)
    BY DEF EventRequest, Inv, TypeOK
  <1> PICK q \in CQ : q = Head(fifo[s])
    BY <1>0, TailEntries
  <1>1. /\ UNCHANGED <<occ, armed, eq, k, snap, sched, missed, arming, stage, portUp, avail,
                       poll, eqArmed, irqPending, isr>>
        /\ fifo' = [fifo EXCEPT ![s] = Tail(fifo[s])]
    BY DEF EventRequest
  <1>2. /\ Tail(fifo[s]) \in Seq(CQ) /\ q \in CQ /\ q \in Entries(fifo[s])
        /\ Distinct(Tail(fifo[s])) /\ Entries(Tail(fifo[s])) = Entries(fifo[s]) \ {q}
    BY <1>0, TailEntries DEF Inv, OneNotification
  <1>3. SideOf(q) = s /\ At("fifo", q)
    BY <1>2, AtPlaces DEF Inv, Sided
  <1>4. OnlyAt("fifo", q) /\ stage[q] \in {"armed", "ring"}
    BY <1>2, <1>3, Located DEF Inv, Place
  <1>5. evw' = Append(evw, q)
    BY <1>0, <1>1, <1>2, <1>3, EqHasRoom DEF EventRequest
  <1>6. q \notin Entries(evw) /\ q \notin Entries(Unread) /\ ~armed[q] /\ ~sched[q]
        /\ ~(arming[q] > 0)
    BY <1>4, AtPlaces DEF OnlyAt, Place
  <1>7. evw' \in Seq(CQ) /\ Distinct(evw') /\ Entries(evw') = Entries(evw) \cup {q}
    BY <1>0, <1>2, <1>5, <1>6, AppendEntries DEF Inv, OneNotification
  <1>8. Unread' = Unread
    BY <1>1 DEF Unread
  <1>9. SnapDistinct' /\ EqNotified' /\ EqServed'
    BY <1>1, IrqStill
  <1>10. Counters' /\ NeverMissed' /\ Starting' /\ ArmedMeansEmpty'
    BY <1>1 DEF Inv, Counters, NeverMissed, Starting, ArmedMeansEmpty
  <1>11. TypeOK'
    BY <1>0, <1>1, <1>2, <1>7 DEF Inv, TypeOK
  <1>12. Sided' /\ \A t \in Side : Distinct(fifo'[t])
    BY <1>0, <1>1, <1>2 DEF Inv, Sided, OneNotification
  <1>13. OnlyAt("evw", q)'
    <2>1. q \notin Entries(fifo'[SideOf(q)]) /\ q \in Entries(evw') /\ q \notin Entries(Unread')
      BY <1>0, <1>1, <1>2, <1>3, <1>6, <1>7, <1>8
    <2> QED BY <1>1, <1>6, <2>1 DEF OnlyAt, At, Place
  <1>14. \A p \in CQ \ {q} : \A g \in Place : At(g, p)' <=> At(g, p)
    BY <1>0, <1>1, <1>2, <1>7, <1>8, Sides DEF At
  <1>15. OneNotification'
    <2>1. OneNotification /\ (\A p \in CQ : arming'[p] <= 1) /\ Distinct(Unread')
      BY <1>1, <1>8 DEF Inv, OneNotification
    <2>2. stage'[q] \in {"armed", "ring"} /\ (\A p \in CQ \ {q} : stage'[p] = stage[p])
          /\ "evw" \in Place
      BY <1>1, <1>4 DEF Place
    <2> QED BY <1>2, <1>7, <1>12, <1>13, <1>14, <2>1, <2>2, Moved
  <1> QED BY <1>9, <1>10, <1>11, <1>12, <1>15 DEF Inv

LEMMA EventCommitInv ==
    ASSUME Inv, EventCommit
    PROVE  Inv'
  <1> USE DEF nic, irq, port, napi
  <1>0. evw # <<>> /\ evw \in Seq(CQ) /\ eq \in Seq(CQ)
    BY DEF EventCommit, Inv, TypeOK
  <1> PICK q \in CQ : q = Head(evw)
    BY <1>0, TailEntries
  <1>1. /\ UNCHANGED <<occ, armed, fifo, k, snap, sched, missed, arming, stage, portUp, avail,
                       poll, isr>>
        /\ evw' = Tail(evw) /\ eq' = Append(eq, q) /\ eq \in Seq(CQ)
        /\ k \in Nat /\ snap \in Nat /\ Len(eq) \in Nat /\ k <= snap /\ snap <= Len(eq)
    BY DEF EventCommit, Inv, TypeOK, Counters
  <1>2. /\ Tail(evw) \in Seq(CQ) /\ q \in CQ /\ q \in Entries(evw)
        /\ Distinct(Tail(evw)) /\ Entries(Tail(evw)) = Entries(evw) \ {q}
    BY <1>0, TailEntries DEF Inv, OneNotification
  <1>3. OnlyAt("evw", q) /\ stage[q] \in {"armed", "ring"}
    BY <1>2, AtPlaces, Located DEF Inv, Place
  <1>4. q \notin Entries(fifo[SideOf(q)]) /\ q \notin Entries(Unread) /\ ~armed[q]
        /\ ~sched[q] /\ ~(arming[q] > 0)
    BY <1>3, AtPlaces DEF OnlyAt, Place
  <1>5. Unread \in Seq(CQ) /\ Unread' = Append(Unread, q)
    <2>1. k <= Len(eq) BY <1>1
    <2>2. Unread \in Seq(CQ) BY <1>1, <2>1, Suffix DEF Unread
    <2>3. SubSeq(Append(eq, q), k + 1, Len(Append(eq, q))) = Append(SubSeq(eq, k + 1, Len(eq)), q)
      <3>1. eq \in Seq(CQ) /\ k \in Nat /\ k <= Len(eq) /\ q \in CQ BY <1>1
      <3>2. \A n \in Nat : n <= Len(eq) =>
               SubSeq(Append(eq, q), n + 1, Len(Append(eq, q))) = Append(SubSeq(eq, n + 1, Len(eq)), q)
        BY <3>1, SuffixAppend, Zenon
      <3> QED BY <3>1, <3>2, Zenon
    <2> QED BY <1>1, <2>2, <2>3 DEF Unread
  <1>6. Distinct(Unread') /\ Entries(Unread') = Entries(Unread) \cup {q}
    BY <1>2, <1>4, <1>5, AppendEntries DEF Inv, OneNotification
  <1>7. /\ eq' \in Seq(CQ) /\ Len(eq') = Len(eq) + 1
        /\ \A i \in 1..Len(eq) : eq'[i] = eq[i]
    BY <1>1, <1>2
  <1>8. SnapDistinct'
    BY <1>1, <1>7 DEF Inv, SnapDistinct
  <1>9. EqNotified' /\ EqServed'
    BY <1>1, <1>7 DEF Inv, TypeOK, EqNotified, EqServed, EventCommit
  <1>10. Counters' /\ NeverMissed' /\ Starting' /\ ArmedMeansEmpty'
    BY <1>1, <1>7 DEF Inv, Counters, NeverMissed, Starting, ArmedMeansEmpty
  <1>11. TypeOK'
    BY <1>1, <1>2, <1>7 DEF Inv, TypeOK, EventCommit
  <1>12. Sided' /\ \A t \in Side : Distinct(fifo'[t])
    BY <1>1 DEF Inv, Sided, OneNotification
  <1>13. OnlyAt("eq", q)'
    <2>1. q \notin Entries(fifo'[SideOf(q)]) /\ q \notin Entries(evw') /\ q \in Entries(Unread')
      BY <1>1, <1>2, <1>4, <1>6
    <2> QED BY <1>1, <1>4, <2>1 DEF OnlyAt, At, Place
  <1>14. \A p \in CQ \ {q} : \A g \in Place : At(g, p)' <=> At(g, p)
    BY <1>1, <1>2, <1>6 DEF At
  <1>15. OneNotification'
    <2>1. OneNotification /\ (\A p \in CQ : arming'[p] <= 1) /\ Distinct(evw')
      BY <1>1, <1>2 DEF Inv, OneNotification
    <2>2. stage'[q] \in {"armed", "ring"} /\ (\A p \in CQ \ {q} : stage'[p] = stage[p])
          /\ "eq" \in Place
      BY <1>1, <1>3 DEF Place
    <2> QED BY <1>2, <1>6, <1>12, <1>13, <1>14, <2>1, <2>2, Moved
  <1> QED BY <1>8, <1>9, <1>10, <1>11, <1>12, <1>15 DEF Inv
LEMMA EqProcessEntryInv ==
    ASSUME Inv, EqProcessEntry
    PROVE  Inv'
  <1> USE DEF nic, irq, port, napi
  <1>1. /\ UNCHANGED <<occ, armed, fifo, evw, eq, eqArmed, irqPending, isr, snap, stage, portUp,
                       poll, avail, arming>>
        /\ isr = "loop" /\ k < snap /\ snap <= Len(eq) /\ k' = k + 1
        /\ k \in Nat /\ snap \in Nat /\ eq \in Seq(CQ) /\ Len(eq) \in Nat
    BY DEF EqProcessEntry, Inv, TypeOK, Counters
  <1> PICK q \in CQ : q = eq[k + 1]
    BY <1>1
  <1>2. /\ Unread # <<>> /\ Head(Unread) = q /\ Unread \in Seq(CQ)
        /\ Unread' = Tail(Unread)
    <2>1. k < Len(eq) /\ k <= Len(eq) BY <1>1
    <2>2. Unread \in Seq(CQ) BY <1>1, <2>1, Suffix DEF Unread
    <2>3. /\ Unread # <<>> /\ Head(Unread) = eq[k + 1]
          /\ SubSeq(eq, k + 1 + 1, Len(eq)) = Tail(Unread)
      BY <1>1, <2>1, SuffixRead, Zenon DEF Unread
    <2> QED BY <1>1, <2>2, <2>3 DEF Unread
  <1>3. /\ q \in Entries(Unread) /\ Distinct(Unread')
        /\ Entries(Unread') = Entries(Unread) \ {q}
    BY <1>2, TailEntries DEF Inv, OneNotification
  <1>4. OnlyAt("eq", q) /\ stage[q] \in {"armed", "ring"}
    BY <1>3, AtPlaces, Located DEF Inv, Place
  <1>5. /\ q \notin Entries(fifo[SideOf(q)]) /\ q \notin Entries(evw) /\ ~armed[q]
        /\ ~sched[q] /\ ~(arming[q] > 0)
    BY <1>4, AtPlaces DEF OnlyAt, Place
  <1>6. HasHandler(q)
    BY <1>4, <1>5 DEF HasHandler, Inv, Starting
  <1>7. sched' = [sched EXCEPT ![q] = TRUE] /\ missed' = [missed EXCEPT ![q] = missed[q] \/ sched[q]]
    BY <1>6 DEF EqProcessEntry, NapiSchedule
  <1>8. missed' = missed
    <2>1. missed \in [CQ -> BOOLEAN] /\ missed[q] = (missed[q] \/ sched[q])
      BY <1>5 DEF Inv, TypeOK
    <2> QED BY <1>7, <2>1
  <1>9. SnapDistinct' /\ EqNotified' /\ EqServed' /\ NeverMissed' /\ ArmedMeansEmpty' /\ Sided'
    BY <1>1, <1>8 DEF Inv, SnapDistinct, EqNotified, EqServed, NeverMissed, ArmedMeansEmpty, Sided,
                      Entries
  <1>10. Counters' /\ Starting'
    <2>1. k' = k + 1 /\ k < snap /\ k \in Nat /\ snap \in Nat /\ isr = "loop"
      BY <1>1 DEF Inv, TypeOK
    <2>2. \A p \in CQ : sched[p] => sched'[p]
      BY <1>7 DEF Inv, TypeOK
    <2> QED BY <1>1, <2>1, <2>2 DEF Inv, Counters, Starting
  <1>11. TypeOK'
    <2>1. sched \in [CQ -> BOOLEAN] /\ k + 1 \in Nat
      BY <1>1 DEF Inv, TypeOK
    <2>2. sched' \in [CQ -> BOOLEAN]
      BY <1>7, <2>1
    <2> QED BY <1>1, <1>8, <2>1, <2>2 DEF Inv, TypeOK
  <1>12. OnlyAt("napi", q)'
    <2>1. q \notin Entries(Unread') /\ sched'[q] BY <1>3, <1>7 DEF Inv, TypeOK
    <2>2. /\ q \notin Entries(fifo'[SideOf(q)]) /\ q \notin Entries(evw') /\ ~armed'[q]
          /\ ~(arming'[q] > 0)
      BY <1>1, <1>5
    <2>3. At("napi", q)'
      BY <2>1 DEF At
    <2>4. \A g \in Place : g # "napi" => ~At(g, q)'
      BY <2>1, <2>2 DEF At
    <2> QED BY <2>3, <2>4, Zenon DEF OnlyAt
  <1>13. \A p \in CQ \ {q} : \A g \in Place : At(g, p)' <=> At(g, p)
    <2>1. \A p \in CQ \ {q} : sched'[p] = sched[p]
      BY <1>7 DEF Inv, TypeOK
    <2>2. \A p \in CQ \ {q} : p \in Entries(Unread') <=> p \in Entries(Unread)
      BY <1>3
    <2> QED BY <1>1, <2>1, <2>2 DEF At
  <1>14. OneNotification'
    <2>1. OneNotification /\ (\A p \in CQ : arming'[p] <= 1) /\ Distinct(evw')
          /\ \A s \in Side : Distinct(fifo'[s])
      BY <1>1 DEF Inv, OneNotification
    <2>2. stage'[q] \in {"armed", "ring"} /\ (\A p \in CQ \ {q} : stage'[p] = stage[p])
          /\ "napi" \in Place
      BY <1>1, <1>4 DEF Place
    <2> QED BY <1>3, <1>12, <1>13, <2>1, <2>2, Moved
  <1> QED BY <1>9, <1>10, <1>11, <1>14 DEF Inv

LEMMA EqRetireInv ==
    ASSUME Inv, EqRetire
    PROVE  Inv'
  <1> USE DEF nic, irq, port, napi
  <1>1. /\ UNCHANGED <<occ, armed, fifo, evw, eqArmed, irqPending, stage, portUp, sched, missed,
                       poll, avail, arming>>
        /\ isr' = "arm" /\ k' = 0 /\ snap' = 0 /\ eq' = Unread
        /\ k \in Nat /\ k <= Len(eq) /\ eq \in Seq(CQ)
    BY DEF EqRetire, Inv, TypeOK, Counters, Unread
  <1>2. eq' \in Seq(CQ)
    BY <1>1, Suffix DEF Unread
  <1>3. Unread' = Unread
    BY <1>1, SuffixWhole, Zenon DEF Unread
  <1>4. TypeOK'
    BY <1>1, <1>2 DEF Inv, TypeOK
  <1>5. OneNotification' /\ NeverMissed' /\ Sided'
    BY <1>1, <1>3 DEF Inv, OneNotification, OnlyAt, At, Distinct, Entries, NeverMissed, Sided
  <1>6. Counters' /\ Starting' /\ ArmedMeansEmpty'
    BY <1>1, <1>2 DEF Inv, Counters, Starting, ArmedMeansEmpty
  <1>7. SnapDistinct' /\ EqNotified' /\ EqServed'
    BY <1>1 DEF Inv, SnapDistinct, EqNotified, EqServed
  <1> QED BY <1>4, <1>5, <1>6, <1>7 DEF Inv

\* The steps of the interrupt side that move no event.
LEMMA IrqInv ==
    ASSUME Inv, SharedVectorRaises \/ IrqEnter \/ EqReadHead \/ EqArm
    PROVE  Inv'
  <1> USE DEF nic, irq, port, napi
  <1>1. /\ UNCHANGED <<occ, armed, fifo, evw, eq, stage, portUp, sched, missed, poll, avail,
                       arming>>
        /\ k' = k
    BY DEF SharedVectorRaises, IrqEnter, EqReadHead, EqArm
  <1>2. OneNotification' /\ NeverMissed' /\ Sided'
    BY <1>1, Still
  <1>3. TypeOK'
    <2>1. Len(eq) \in Nat BY DEF Inv, TypeOK
    <2>2. CASE SharedVectorRaises BY <1>1, <2>2 DEF Inv, TypeOK, SharedVectorRaises
    <2>3. CASE IrqEnter BY <1>1, <2>3 DEF Inv, TypeOK, IrqEnter
    <2>4. CASE EqReadHead BY <1>1, <2>1, <2>4 DEF Inv, TypeOK, EqReadHead
    <2>5. CASE EqArm BY <1>1, <2>5 DEF Inv, TypeOK, EqArm
    <2> QED BY <2>2, <2>3, <2>4, <2>5
  <1>4. Counters' /\ Starting' /\ ArmedMeansEmpty'
    BY <1>1 DEF Inv, TypeOK, Counters, Starting, ArmedMeansEmpty, SharedVectorRaises, IrqEnter,
                EqReadHead, EqArm
  <1>5. EqNotified' /\ EqServed'
    BY <1>1 DEF Inv, EqNotified, EqServed, SharedVectorRaises, IrqEnter, EqReadHead, EqArm
  <1>6. SnapDistinct'
    <2>1. CASE EqReadHead
      <3>1. k = 0 /\ snap' = Len(eq) /\ eq' = eq /\ eq \in Seq(CQ)
        BY <2>1 DEF EqReadHead, Inv, TypeOK, Counters
      <3>2. Unread = eq
        BY <3>1 DEF Unread
      <3> QED BY <3>1, <3>2 DEF SnapDistinct, Inv, OneNotification, Distinct
    <2>2. CASE SharedVectorRaises \/ IrqEnter \/ EqArm
      BY <2>2, <1>1 DEF Inv, SnapDistinct, SharedVectorRaises, IrqEnter, EqArm
    <2> QED BY <2>1, <2>2
  <1> QED BY <1>2, <1>3, <1>4, <1>5, <1>6 DEF Inv
LEMMA PollInv ==
    ASSUME Inv, NEW q \in CQ,
           PollPortDown(q) \/ PollReadHead(q) \/ \E n \in 0..Smaller(avail[q], Budget) : PollRetireN(q, n)
    PROVE  Inv'
  <1> USE DEF nic, irq, port, napi
  <1>1. UNCHANGED <<armed, fifo, evw, eq, eqArmed, irqPending, isr, snap, k, stage, portUp,
                    sched, missed, arming>>
    BY DEF PollPortDown, PollReadHead, PollRetireN
  <1>2. OneNotification' /\ NeverMissed' /\ Sided'
    BY <1>1, Still
  <1>3. SnapDistinct' /\ EqNotified' /\ EqServed'
    BY <1>1, IrqStill
  <1>4. /\ occ \in [CQ -> 0..CplSize] /\ avail \in [CQ -> 0..CplSize]
        /\ poll \in [CQ -> {"off", "loop", "complete"}]
        /\ avail[q] <= occ[q] /\ Budget \in Nat /\ CplSize \in Nat
        /\ poll[q] # "off" => sched[q]
    BY QueueAssumption DEF Inv, TypeOK, Counters
  <1>5. /\ occ' \in [CQ -> 0..CplSize] /\ avail' \in [CQ -> 0..CplSize]
        /\ poll' \in [CQ -> {"off", "loop", "complete"}]
        /\ avail'[q] <= occ'[q] /\ (poll'[q] # "off" => sched[q]) /\ occ'[q] <= occ[q]
        /\ \A p \in CQ \ {q} : occ'[p] = occ[p] /\ avail'[p] = avail[p] /\ poll'[p] = poll[p]
    <2>1. CASE PollPortDown(q)
      BY <1>4, <2>1 DEF PollPortDown
    <2>2. CASE PollReadHead(q)
      BY <1>4, <2>2 DEF PollReadHead
    <2>3. CASE \E n \in 0..Smaller(avail[q], Budget) : PollRetireN(q, n)
      <3> PICK n \in 0..Smaller(avail[q], Budget) : PollRetireN(q, n)
        BY <2>3
      <3>1. n \in Nat /\ n <= avail[q] /\ avail[q] \in Nat /\ occ[q] \in 0..CplSize
        BY <1>4 DEF Smaller
      <3>3. n <= occ[q] /\ occ[q] - n \in 0..CplSize /\ 0 <= occ[q] - n
        BY <1>4, <3>1
      <3>2. /\ occ' = [occ EXCEPT ![q] = occ[q] - n] /\ avail' = [avail EXCEPT ![q] = 0]
            /\ poll[q] = "loop"
            /\ poll' = [poll EXCEPT ![q] = IF n = Budget THEN "off" ELSE "complete"]
        BY DEF PollRetireN
      <3>4. /\ occ' \in [CQ -> 0..CplSize] /\ occ'[q] = occ[q] - n
            /\ \A p \in CQ \ {q} : occ'[p] = occ[p]
        BY <1>4, <3>2, <3>3
      <3>5. /\ avail' \in [CQ -> 0..CplSize] /\ avail'[q] = 0
            /\ \A p \in CQ \ {q} : avail'[p] = avail[p]
        BY <1>4, <3>2
      <3>6. /\ poll' \in [CQ -> {"off", "loop", "complete"}]
            /\ \A p \in CQ \ {q} : poll'[p] = poll[p]
        BY <1>4, <3>2
      <3>7. sched[q] BY <1>4, <3>2
      <3> QED BY <3>1, <3>3, <3>4, <3>5, <3>6, <3>7
    <2> QED BY <2>1, <2>2, <2>3
  <1>6. TypeOK'
    BY <1>1, <1>5 DEF Inv, TypeOK
  <1>7. Counters'
    BY <1>1, <1>5 DEF Inv, Counters
  <1>8. Starting' /\ ArmedMeansEmpty'
    BY <1>1, <1>4, <1>5 DEF Inv, Starting, ArmedMeansEmpty
  <1> QED BY <1>2, <1>3, <1>6, <1>7, <1>8 DEF Inv

LEMMA PollCompleteInv ==
    ASSUME Inv, NEW q \in CQ, PollComplete(q)
    PROVE  Inv'
  <1> USE DEF nic, irq, port, napi
  <1>1. /\ UNCHANGED <<occ, armed, fifo, evw, eq, eqArmed, irqPending, isr, snap, k, stage, portUp,
                       avail>>
        /\ poll[q] = "complete" /\ ~missed[q] /\ sched[q] /\ arming \in [CQ -> Nat]
        /\ sched' = [sched EXCEPT ![q] = FALSE] /\ missed' = [missed EXCEPT ![q] = FALSE]
        /\ poll' = [poll EXCEPT ![q] = "off"] /\ arming' = [arming EXCEPT ![q] = arming[q] + 1]
    BY DEF PollComplete, Inv, TypeOK, Counters, NeverMissed
  <1>2. OnlyAt("napi", q) /\ stage[q] \in {"armed", "ring"}
    BY <1>1, AtPlaces, Located DEF Inv, Place
  <1>3. /\ q \notin Entries(fifo[SideOf(q)]) /\ q \notin Entries(evw) /\ ~armed[q]
        /\ q \notin Entries(Unread) /\ ~(arming[q] > 0)
    BY <1>2, AtPlaces DEF OnlyAt, Place
  <1>4. Unread' = Unread
    BY <1>1 DEF Unread
  <1>5. SnapDistinct' /\ EqNotified' /\ EqServed'
    BY <1>1, IrqStill
  <1>6. TypeOK'
    BY <1>1 DEF Inv, TypeOK
  <1>7. Counters' /\ Starting' /\ ArmedMeansEmpty' /\ NeverMissed' /\ Sided'
    BY <1>1 DEF Inv, TypeOK, Counters, Starting, ArmedMeansEmpty, NeverMissed, Sided
  <1>8. arming'[q] = 1 /\ \A p \in CQ : arming'[p] <= 1
    BY <1>1, <1>3 DEF Inv, OneNotification
  <1>9. OnlyAt("arming", q)'
    BY <1>1, <1>3, <1>4, <1>8 DEF OnlyAt, At, Place, Inv, TypeOK
  <1>10. \A p \in CQ \ {q} : \A g \in Place : At(g, p)' <=> At(g, p)
    BY <1>1, <1>4 DEF At, Inv, TypeOK
  <1>11. OneNotification'
    <2>1. OneNotification /\ Distinct(evw') /\ Distinct(Unread')
          /\ \A s \in Side : Distinct(fifo'[s])
      BY <1>1, <1>4 DEF Inv, OneNotification
    <2>2. stage'[q] \in {"armed", "ring"} /\ (\A p \in CQ \ {q} : stage'[p] = stage[p])
          /\ "arming" \in Place
      BY <1>1, <1>2 DEF Place
    <2> QED BY <1>8, <1>9, <1>10, <2>1, <2>2, Moved
  <1> QED BY <1>5, <1>6, <1>7, <1>11 DEF Inv

\* The two writers of the arm register: a poll that is done and mqnic_start_port.
LEMMA ArmInv ==
    ASSUME Inv, NEW q \in CQ, ArmCq(q) \/ StartArm(q)
    PROVE  Inv'
  <1> USE DEF nic, irq, port, napi
  <1>1. /\ UNCHANGED <<occ, evw, eq, eqArmed, irqPending, isr, snap, k, portUp, sched, missed, poll,
                       avail>>
        /\ Arm(q)
    BY DEF ArmCq, StartArm
  <1>2. Unread' = Unread
    BY <1>1 DEF Unread
  <1>3. /\ q \notin Entries(fifo[SideOf(q)]) /\ q \notin Entries(evw) /\ ~armed[q]
        /\ q \notin Entries(Unread) /\ ~sched[q]
    <2>1. CASE ArmCq(q)
      <3>1. OnlyAt("arming", q)
        BY <2>1, AtPlaces, Located DEF ArmCq, Inv, Place
      <3> QED BY <3>1, AtPlaces DEF OnlyAt, Place
    <2>2. CASE StartArm(q)
      <3>1. \A g \in Place : ~At(g, q)
        BY <2>2 DEF StartArm, Inv, OneNotification
      <3> QED BY <3>1, AtPlaces DEF Place
    <2> QED BY <1>1, <2>1, <2>2 DEF ArmCq, StartArm
  <1>4. /\ fifo' \in [Side -> Seq(CQ)] /\ armed' \in [CQ -> BOOLEAN]
        /\ \A s \in Side : Distinct(fifo'[s])
        /\ Sided'
        /\ \A p \in CQ \ {q} : /\ p \in Entries(fifo'[SideOf(p)])
                                    <=> p \in Entries(fifo[SideOf(p)])
                               /\ armed'[p] = armed[p]
        /\ q \in Entries(fifo'[SideOf(q)]) <=> occ[q] > 0
        /\ armed'[q] <=> occ[q] = 0
    BY <1>1, <1>3, ArmEffect
  <1>5. /\ arming' \in [CQ -> Nat] /\ arming'[q] = 0
        /\ \A p \in CQ \ {q} : arming'[p] = arming[p]
        /\ \A p \in CQ : arming'[p] <= 1
    <2>1. /\ arming \in [CQ -> Nat] /\ \A p \in CQ : arming[p] <= 1
      BY DEF Inv, TypeOK, OneNotification
    <2>2. CASE ArmCq(q)
      BY <2>1, <2>2 DEF ArmCq
    <2>3. CASE StartArm(q)
      <3>1. \A g \in Place : ~At(g, q)
        BY <2>3 DEF StartArm, Inv, OneNotification
      <3>2. ~(arming[q] > 0) BY <3>1, AtPlaces DEF Place
      <3> QED BY <2>1, <2>3, <3>2 DEF StartArm
    <2> QED BY <2>2, <2>3
  <1>6. /\ stage' \in [CQ -> {"down", "napi", "armed", "ring"}]
        /\ stage'[q] \in {"armed", "ring"}
        /\ \A p \in CQ \ {q} : stage'[p] = stage[p]
        /\ stage'[q] = "armed" => occ[q] = 0
    <2>1. /\ stage \in [CQ -> {"down", "napi", "armed", "ring"}]
          /\ stage[q] # "ring" => occ[q] = 0
      BY DEF Inv, TypeOK, Starting
    <2>2. CASE ArmCq(q)
      <3>1. stage' = stage /\ stage[q] \in {"armed", "ring"}
        BY <2>2, AtPlaces, Located DEF ArmCq, Inv, Place
      <3> QED BY <2>1, <3>1
    <2>3. CASE StartArm(q)
      BY <2>1, <2>3 DEF StartArm
    <2> QED BY <2>2, <2>3
  <1>7. TypeOK'
    BY <1>1, <1>4, <1>5, <1>6 DEF Inv, TypeOK
  <1>8. SnapDistinct' /\ EqNotified' /\ EqServed'
    BY <1>1, IrqStill
  <1>9. Counters' /\ NeverMissed'
    BY <1>1 DEF Inv, Counters, NeverMissed
  <1>10. Starting' /\ ArmedMeansEmpty'
    BY <1>1, <1>4, <1>6 DEF Inv, Starting, ArmedMeansEmpty
  <1>11. \A p \in CQ \ {q} : \A g \in Place : At(g, p)' <=> At(g, p)
    BY <1>1, <1>2, <1>4, <1>5 DEF At
  <1>12. OneNotification'
    <2>1. OneNotification /\ Distinct(evw') /\ Distinct(Unread')
      BY <1>1, <1>2 DEF Inv, OneNotification
    <2>2. occ[q] \in Nat
      BY DEF Inv, TypeOK
    <2>3. CASE occ[q] = 0
      <3>1. OnlyAt("armed", q)'
        BY <1>1, <1>2, <1>3, <1>4, <1>5, <2>3 DEF OnlyAt, At, Place
      <3>2. "armed" \in Place BY DEF Place
      <3> QED BY <1>4, <1>5, <1>6, <1>11, <2>1, <3>1, <3>2, Moved
    <2>4. CASE occ[q] > 0
      <3>1. OnlyAt("fifo", q)'
        BY <1>1, <1>2, <1>3, <1>4, <1>5, <2>4 DEF OnlyAt, At, Place
      <3>2. "fifo" \in Place BY DEF Place
      <3> QED BY <1>4, <1>5, <1>6, <1>11, <2>1, <3>1, <3>2, Moved
    <2> QED BY <2>2, <2>3, <2>4
  <1> QED BY <1>4, <1>7, <1>8, <1>9, <1>10, <1>12 DEF Inv

LEMMA StartInv ==
    ASSUME Inv, PortUp \/ \E q \in CQ : StartNapi(q) \/ StartRing(q)
    PROVE  Inv'
  <1> USE DEF nic, irq, port, napi
  <1>1. UNCHANGED <<occ, armed, fifo, evw, eq, eqArmed, irqPending, isr, snap, k, sched, missed,
                    poll, avail, arming>>
    BY DEF PortUp, StartNapi, StartRing
  <1>2. /\ stage \in [CQ -> {"down", "napi", "armed", "ring"}]
        /\ stage' \in [CQ -> {"down", "napi", "armed", "ring"}]
        /\ \A p \in CQ : \/ stage'[p] = stage[p]
                         \/ stage[p] = "down" /\ stage'[p] = "napi"
                         \/ stage[p] = "armed" /\ stage'[p] = "ring"
    BY DEF PortUp, StartNapi, StartRing, Inv, TypeOK
  <1>3. TypeOK'
    BY <1>1, <1>2 DEF Inv, TypeOK, PortUp, StartNapi, StartRing
  <1>4. SnapDistinct' /\ EqNotified' /\ EqServed'
    BY <1>1, IrqStill
  <1>5. Counters' /\ NeverMissed' /\ ArmedMeansEmpty' /\ Sided'
    BY <1>1 DEF Inv, Counters, NeverMissed, ArmedMeansEmpty, Sided
  <1>6. Starting'
    BY <1>1, <1>2 DEF Inv, Starting
  <1>7. Unread' = Unread
    BY <1>1 DEF Unread
  <1>8. \A p \in CQ : \A g \in Place : At(g, p)' <=> At(g, p)
    BY <1>1, <1>7 DEF At
  <1>9. \A p \in CQ : \A g \in Place : OnlyAt(g, p)' <=> OnlyAt(g, p)
    BY <1>8 DEF OnlyAt
  <1>10. \A p \in CQ : stage'[p] \in {"armed", "ring"} <=> stage[p] \in {"armed", "ring"}
    BY <1>2
  <1>11. OneNotification'
    BY <1>1, <1>7, <1>8, <1>9, <1>10 DEF Inv, OneNotification, Distinct
  <1> QED BY <1>3, <1>4, <1>5, <1>6, <1>11 DEF Inv
-----------------------------------------------------------------------------
(* The theorems. *)

THEOREM StepInv == Inv /\ [Next]_vars => Inv'
  <1> SUFFICES ASSUME Inv, [Next]_vars PROVE Inv' OBVIOUS
  <1>1. CASE UNCHANGED vars
    <2>1. UNCHANGED <<occ, armed, fifo, evw, eq, eqArmed, irqPending, isr, snap, k, stage, portUp,
                      sched, missed, poll, avail, arming>>
      BY <1>1 DEF vars, nic, irq, port, napi
    <2>2. OneNotification' /\ NeverMissed' /\ Sided' /\ SnapDistinct' /\ EqNotified' /\ EqServed'
      BY <2>1, Still, IrqStill
    <2>3. TypeOK' /\ Counters' /\ Starting' /\ ArmedMeansEmpty'
      BY <2>1 DEF Inv, TypeOK, Counters, Starting, ArmedMeansEmpty
    <2> QED BY <2>2, <2>3 DEF Inv
  <1>2. ASSUME NEW q \in CQ, CplCommit(q) PROVE Inv'
    BY <1>2, CplCommitInv
  <1>3. ASSUME NEW q \in CQ, PollPortDown(q) \/ PollReadHead(q) \/ PollRetire(q) \/ PollNoSkb(q)
        PROVE  Inv'
    <2>1. avail[q] \in Nat /\ Budget \in Nat
      BY QueueAssumption DEF Inv, TypeOK
    <2>2. CASE PollPortDown(q) \/ PollReadHead(q)
      BY <2>2, PollInv
    <2>3. CASE PollRetire(q) \/ PollNoSkb(q)
      <3>1. \E n \in 0..Smaller(avail[q], Budget) : PollRetireN(q, n)
        BY <2>1, <2>3 DEF PollRetire, PollNoSkb, Smaller
      <3> QED BY <3>1, PollInv
    <2> QED BY <1>3, <2>2, <2>3
  <1>4. ASSUME NEW q \in CQ, PollComplete(q) PROVE Inv'
    BY <1>4, PollCompleteInv
  <1>5. ASSUME NEW q \in CQ, ArmCq(q) \/ StartArm(q) PROVE Inv'
    BY <1>5, ArmInv
  <1>6. ASSUME NEW s \in Side, EventRequest(s) PROVE Inv'
    BY <1>6, EventRequestInv
  <1>7. CASE EventCommit
    BY <1>7, EventCommitInv
  <1>8. CASE SharedVectorRaises \/ IrqEnter \/ EqReadHead \/ EqArm
    BY <1>8, IrqInv
  <1>9. CASE EqProcessEntry
    BY <1>9, EqProcessEntryInv
  <1>10. CASE EqRetire
    BY <1>10, EqRetireInv
  <1>11. CASE PortUp \/ \E q \in CQ : StartNapi(q) \/ StartRing(q)
    BY <1>11, StartInv
  <1> QED
    BY <1>1, <1>2, <1>3, <1>4, <1>5, <1>6, <1>7, <1>8, <1>9, <1>10, <1>11
    DEF Next, PollStep, IrqStep, StartStep

THEOREM SafetyInv == Safety => []Inv
  BY InitInv, StepInv, PTL DEF Safety

\* The model's variables keep their types: no counter of the driver or of the NIC
\* leaves its range (mqnic_cq.c, mqnic_eq.c, cpl_queue_manager.v).
THEOREM TypeCorrect == Safety => []TypeOK
  <1>1. Inv => TypeOK BY DEF Inv
  <1> QED BY <1>1, SafetyInv, PTL

\* No wake-up is lost or doubled, for any number of queues, ring sizes and budget:
\* the notification of a started CQ is always in exactly one place.
THEOREM NotificationConserved == Safety => []OneNotification
  <1>1. Inv => OneNotification BY DEF Inv
  <1> QED BY <1>1, SafetyInv, PTL

\* The arm register never ends up set over a queue that holds completions.
THEOREM ArmedQueuesAreEmpty == Safety => []ArmedMeansEmpty
  <1>1. Inv => ArmedMeansEmpty BY DEF Inv
  <1> QED BY <1>1, SafetyInv, PTL

\* The ignored return value of napi_complete is always "completed".
THEOREM NapiNeverRescheduled == Safety => []NeverMissed
  <1>1. Inv => NeverMissed BY DEF Inv
  <1> QED BY <1>1, SafetyInv, PTL

\* An EQ with entries has its interrupt pending or its handler running.
THEOREM EventQueueServed == Safety => []EqServed
  <1>1. Inv => EqServed BY DEF Inv
  <1> QED BY <1>1, SafetyInv, PTL
\* The FIFOs and the EQ never hold more than the capacities the ASSUME asks for, so
\* no event is discarded.
THEOREM EventsNeverDiscarded == Safety => []NoEventDiscarded
  <1>1. Inv => NoEventDiscarded
    <2> SUFFICES ASSUME Inv PROVE NoEventDiscarded OBVIOUS
    <2>1. ASSUME NEW s \in Side
          PROVE  Len(fifo[s]) <= Cardinality({q \in CQ : SideOf(q) = s})
      <3> DEFINE qs == {q \in CQ : SideOf(q) = s}
      <3>1. fifo[s] \in Seq(CQ) /\ Distinct(fifo[s]) /\ Entries(fifo[s]) \subseteq qs
        BY EntriesType DEF Inv, TypeOK, OneNotification, Sided
      <3>2. fifo[s] \in Seq(qs)
        BY <3>1 DEF Entries
      <3> QED BY <3>1, <3>2, Sides, DistinctLength
    <2> QED BY <2>1, EqBound DEF NoEventDiscarded
  <1> QED BY <1>1, SafetyInv, PTL

\* The event path implements the bounded buffer of CplDelivery (its safety part):
\* the NIC adds completions one at a time and a poll takes only what is there.
THEOREM ImplementsDelivery == Safety => Delivery!Safety
  <1>1. Init => Delivery!Init
    BY DEF Init, Delivery!Init
  <1>2. ASSUME Inv, [Next]_vars
        PROVE  [Delivery!Next]_occ
    <2> USE DEF nic, irq, port, napi
    <2>1. CASE UNCHANGED occ
      BY <2>1
    <2>2. ASSUME NEW q \in CQ, CplCommit(q)
          PROVE  Delivery!Next
      BY <2>2 DEF CplCommit, Delivery!Next, Delivery!Publish
    <2>3. ASSUME NEW q \in CQ, NEW n \in 0..Smaller(avail[q], Budget), PollRetireN(q, n)
          PROVE  [Delivery!Next]_occ
      <3>1. /\ occ \in [CQ -> 0..CplSize] /\ avail[q] \in Nat /\ avail[q] <= occ[q] /\ Budget \in Nat
            /\ occ' = [occ EXCEPT ![q] = occ[q] - n]
        BY <1>2, <2>3, QueueAssumption DEF PollRetireN, Inv, TypeOK, Counters
      <3>2. n \in Nat /\ n <= occ[q] /\ occ[q] \in Nat
        BY <3>1 DEF Smaller
      <3>3. CASE n = 0
        BY <3>1, <3>2, <3>3
      <3>4. CASE n # 0
        <4>1. n \in 1..occ[q] BY <3>2, <3>4
        <4>2. Delivery!Take(q) BY <3>1, <4>1 DEF Delivery!Take
        <4> QED BY <4>2 DEF Delivery!Next
      <3> QED BY <3>3, <3>4
    <2>4. ASSUME NEW q \in CQ, PollRetire(q) \/ PollNoSkb(q)
          PROVE  [Delivery!Next]_occ
      <3>1. avail[q] \in Nat /\ Budget \in Nat
        BY <1>2, QueueAssumption DEF Inv, TypeOK
      <3>2. \E n \in 0..Smaller(avail[q], Budget) : PollRetireN(q, n)
        BY <2>4, <3>1 DEF PollRetire, PollNoSkb, Smaller
      <3> QED BY <2>3, <3>2
    <2>5. ASSUME NEW q \in CQ, PollPortDown(q) \/ PollReadHead(q) \/ PollComplete(q) \/ ArmCq(q)
                               \/ StartNapi(q) \/ StartArm(q) \/ StartRing(q)
          PROVE  UNCHANGED occ
      BY <2>5 DEF PollPortDown, PollReadHead, PollComplete, ArmCq, StartNapi, StartArm, StartRing
    <2>6. CASE \/ \E s \in Side : EventRequest(s)
               \/ EventCommit \/ SharedVectorRaises \/ IrqStep \/ PortUp
      BY <2>6 DEF EventRequest, EventCommit, SharedVectorRaises, IrqStep, IrqEnter, EqReadHead,
                  EqProcessEntry, EqRetire, EqArm, PortUp
    <2>7. CASE UNCHANGED vars
      BY <2>7 DEF vars
    <2> QED BY <1>2, <2>2, <2>4, <2>5, <2>6, <2>7 DEF Next, PollStep, StartStep
  <1> QED BY <1>1, <1>2, SafetyInv, PTL DEF Safety, Delivery!Safety
=============================================================================
