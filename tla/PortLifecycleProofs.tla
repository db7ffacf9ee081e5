------------------------- MODULE PortLifecycleProofs -------------------------
(***************************************************************************)
(* What stopping and starting a port promises, for any number of rings of  *)
(* any size, any budget and any number of restarts: a ring that was        *)
(* stopped is not polled until it runs again, a null pointer is followed   *)
(* only inside mqnic_stop_port, and no buffer is left when the port is     *)
(* down.  As long as every start is clean (CleanStart), that is, finds no  *)
(* completion of the last life: the NIC keeps what it may use, every       *)
(* completion has its buffer, and no running ring is forgotten.            *)
(***************************************************************************)
EXTENDS PortLifecycle, TLAPS, FiniteSetTheorems, WellFoundedInduction

\* Where the thread is, the rings are in the stages it takes them through.
StagesFollowPhase ==
    /\ phase \in {"down", "sleep"} => \A q \in Rings : stage[q] = "down"
    /\ phase = "starting" => \A q \in Rings : stage[q] \in {"down", "cq", "armed", "ring"}
    /\ phase \in {"up", "closing"} => \A q \in Rings : stage[q] = "ring"
    /\ phase = "stopping" => \A q \in Rings : stage[q] \in {"down", "ring", "unring", "uncq"}

\* A handler that was found set is still set, or the port is being stopped.
CallingFollowsPhase ==
    calling # None => calling \in Rings /\ (HasHandler(calling) \/ phase \in {"stopping", "sleep"})

\* A ring is scheduled only between getting its handler and losing its NAPI context.
ScheduledIsServed ==
    \A q \in Rings :
        /\ sched[q] => stage[q] \in {"ring", "unring", "uncq"}
        /\ poll[q] # "off" => sched[q]

Typed ==
    /\ phase \in {"down", "starting", "up", "closing", "stopping", "sleep"}
    /\ stage \in [Rings -> {"down", "cq", "armed", "ring", "unring", "uncq"}]
    /\ sched \in [Rings -> BOOLEAN]
    /\ missed \in [Rings -> BOOLEAN]
    /\ poll \in [Rings -> {"off", "loop", "complete"}]

Inv == Typed /\ StagesFollowPhase /\ CallingFollowsPhase /\ ScheduledIsServed /\ OopsOnlyInStop

\* Nothing runs before the port is opened.
LEMMA InitInv == Init => Inv
BY RingAssumption DEF Init, Inv, Typed, StagesFollowPhase, CallingFollowsPhase, ScheduledIsServed,
    OopsOnlyInStop, Rings

\* A step that changes none of the invariant's variables keeps it.
LEMMA KeepInv ==
    ASSUME Inv, oops' = "no", UNCHANGED <<phase, stage, calling, sched, missed, poll>>
    PROVE  Inv'
BY DEF Inv, Typed, StagesFollowPhase, CallingFollowsPhase, ScheduledIsServed, OopsOnlyInStop, HasHandler

\* Nor does one of the thread that takes no ring to another stage, if where it goes the
\* rings may be in the stages they are in and no handler is about to be called that was
\* not before.
LEMMA PhaseInv ==
    ASSUME Inv, oops' = "no", UNCHANGED <<stage, calling, sched, missed, poll>>,
           phase' \in {"down", "starting", "up", "closing", "stopping", "sleep"},
           StagesFollowPhase',
           calling # None => HasHandler(calling) \/ phase' \in {"stopping", "sleep"}
    PROVE  Inv'
BY DEF Inv, Typed, StagesFollowPhase, CallingFollowsPhase, ScheduledIsServed, OopsOnlyInStop, HasHandler

\* The NIC, the senders and the arming of a queue move neither the thread nor a poll.
LEMMA OtherInv ==
    ASSUME Inv, NEW q \in Rings,
           Fetch(q) \/ Complete(q) \/ ArmCq(q) \/ XmitTest(q) \/ XmitPost(q)
    PROVE  Inv'
<1>1. oops' = "no" /\ UNCHANGED <<phase, stage, calling, sched, missed, poll>>
  BY DEF Fetch, Complete, ArmCq, XmitTest, XmitPost, Alive, thread, event, napi
<1> QED
  BY <1>1, KeepInv

\* The handler finds a queue's handler set, or calls it.
LEMMA EventInv ==
    ASSUME Inv, NEW q \in Rings, EventTest(q) \/ EventCall(q)
    PROVE  Inv'
<1>1. CASE EventTest(q)
  <2>1. oops' = "no" /\ UNCHANGED <<phase, stage, sched, missed, poll>>
    BY <1>1 DEF EventTest, Alive, thread, napi
  <2>2. calling' = None \/ (calling' = q /\ HasHandler(q))
    BY <1>1 DEF EventTest
  <2> QED
    BY <2>1, <2>2 DEF Inv, Typed, StagesFollowPhase, CallingFollowsPhase, ScheduledIsServed,
        OopsOnlyInStop, HasHandler
<1>2. CASE EventCall(q)
  <2>1. calling' = None /\ UNCHANGED <<phase, stage, poll>>
    BY <1>2 DEF EventCall, thread
  <2>2. q # None /\ calling = q
    BY <1>2, RingAssumption DEF EventCall, Rings
  <2>3. HasHandler(q) \/ phase \in {"stopping", "sleep"}
    BY <2>2 DEF Inv, CallingFollowsPhase
  <2>4. CASE Alive /\ NapiSchedule(q)
    <3>1. NapiOn(q) => stage[q] \in {"ring", "unring", "uncq"}
      BY <2>3 DEF Inv, StagesFollowPhase, NapiOn, CqActive, HasHandler
    <3>2. sched' \in [Rings -> BOOLEAN] /\ missed' \in [Rings -> BOOLEAN]
      BY <2>4 DEF NapiSchedule, Inv, Typed
    <3>3. \A r \in Rings : sched'[r] => sched[r] \/ (r = q /\ NapiOn(q))
      BY <2>4 DEF NapiSchedule, Inv, Typed
    <3>4. \A r \in Rings : sched[r] => sched'[r]
      BY <2>4 DEF NapiSchedule, Inv, Typed
    <3>5. ScheduledIsServed'
      BY <2>1, <3>1, <3>3, <3>4 DEF Inv, ScheduledIsServed
    <3> QED
      BY <2>1, <2>4, <3>2, <3>5 DEF Inv, Typed, StagesFollowPhase, CallingFollowsPhase,
          OopsOnlyInStop, HasHandler, Alive
  <2>5. CASE ~HasHandler(q) /\ oops' = "event" /\ UNCHANGED <<sched, missed>>
    BY <2>1, <2>3, <2>5 DEF Inv, Typed, StagesFollowPhase, CallingFollowsPhase, ScheduledIsServed,
        OopsOnlyInStop, HasHandler
  <2> QED
    BY <1>2, <2>4, <2>5 DEF EventCall
<1> QED
  BY <1>1, <1>2

\* A poll runs only for a ring that is served, and stays scheduled until it is through.
LEMMA PollInv ==
    ASSUME Inv, NEW q \in Rings, PollStep(q)
    PROVE  Inv'
<1>1. UNCHANGED <<phase, stage, calling>>
  BY DEF PollStep, PollNoRing, PollPortDown, PollReadHead, PollRun, PollComplete, thread, event
<1>2. sched[q] /\ stage[q] \in {"ring", "unring", "uncq"}
  BY DEF PollStep, PollNoRing, PollPortDown, PollReadHead, PollRun, PollComplete, Inv, Typed,
      ScheduledIsServed
<1>3. CASE PollNoRing(q)
  <2>1. \E r \in Rings : stage[r] \in {"unring", "uncq"}
    BY <1>2, <1>3 DEF PollNoRing, HasHandler
  <2> QED
    BY <1>1, <1>3, <2>1 DEF PollNoRing, napi, Inv, Typed, StagesFollowPhase, CallingFollowsPhase,
        ScheduledIsServed, OopsOnlyInStop, HasHandler
<1>4. CASE ~PollNoRing(q)
  <2>1. oops' = "no"
    BY <1>4 DEF PollStep, PollPortDown, PollReadHead, PollRun, PollComplete, Alive
  <2>2. \E s \in BOOLEAN : sched' = [sched EXCEPT ![q] = s]
    <3>1. CASE PollRun(q)
      BY <3>1, Zenon DEF PollRun
    <3>2. CASE ~PollRun(q)
      <4>1. PollComplete(q) \/ UNCHANGED sched
        BY <1>4, <3>2 DEF PollStep, PollPortDown, PollReadHead
      <4>2. PollComplete(q) => sched' = [sched EXCEPT ![q] = missed[q]] /\ missed[q] \in BOOLEAN
        BY DEF PollComplete, Inv, Typed
      <4>3. sched = [sched EXCEPT ![q] = TRUE]
        BY <1>2 DEF Inv, Typed
      <4> QED
        BY <4>1, <4>2, <4>3
    <3> QED
      BY <3>1, <3>2
  <2>3. missed' \in [Rings -> BOOLEAN]
    BY <1>4 DEF PollStep, PollPortDown, PollReadHead, PollRun, PollComplete, Inv, Typed
  <2>4. \E p \in {"off", "loop", "complete"} :
            poll' = [poll EXCEPT ![q] = p] /\ (p # "off" => sched'[q])
    <3>1. CASE PollRun(q)
      <4> DEFINE n == Largest({d \in 0..Smaller(seen[q], Budget) : Processable(q, d)})
      <4>1. sched' = [sched EXCEPT ![q] = n # Budget \/ NapiOn(q)]
        BY <3>1 DEF PollRun
      <4>2. poll' = [poll EXCEPT ![q] = IF n = Budget THEN "off" ELSE "complete"]
        BY <3>1 DEF PollRun
      <4> HIDE DEF n
      <4> QED
        BY <4>1, <4>2 DEF Inv, Typed
    <3>2. CASE PollPortDown(q)
      BY <1>2, <3>2 DEF PollPortDown
    <3>3. CASE PollReadHead(q)
      BY <1>2, <3>3 DEF PollReadHead
    <3>4. CASE PollComplete(q)
      BY <3>4 DEF PollComplete
    <3> QED
      BY <1>4, <3>1, <3>2, <3>3, <3>4 DEF PollStep
  <2>5. Typed' /\ ScheduledIsServed'
    BY <1>1, <1>2, <2>2, <2>3, <2>4 DEF Inv, Typed, ScheduledIsServed
  <2> QED
    BY <1>1, <2>1, <2>5 DEF Inv, StagesFollowPhase, CallingFollowsPhase, OopsOnlyInStop, HasHandler
<1> QED
  BY <1>3, <1>4

\* The thread takes one ring to its next stage; while another ring is on its way, it is
\* that ring's turn.
LEMMA StageInv ==
    ASSUME Inv, NEW q \in Rings,
           StartCq(q) \/ StartArm(q) \/ StartRing(q) \/ StopRing(q) \/ StopCq(q) \/ StopNapi(q)
    PROVE  Inv'
<1>1. oops' = "no" /\ UNCHANGED <<phase, calling, sched, missed, poll>>
  BY DEF StartCq, StartArm, StartRing, StopRing, StopCq, StopNapi, Alive, event, napi
<1>2. PICK s \in {"down", "cq", "armed", "ring", "unring", "uncq"} : stage' = [stage EXCEPT ![q] = s]
  BY DEF StartCq, StartArm, StartRing, StopRing, StopCq, StopNapi
<1>3. \/ phase = "starting" /\ s \in {"cq", "armed", "ring"} /\ stage[q] \in {"down", "cq", "armed"}
      \/ phase = "stopping" /\ s \in {"unring", "uncq"}
      \/ phase = "stopping" /\ s = "down" /\ ~sched[q]
  BY <1>2 DEF StartCq, StartArm, StartRing, StopRing, StopCq, StopNapi, Inv, Typed, StagesFollowPhase
<1>4. Typed' /\ StagesFollowPhase'
  BY <1>1, <1>2, <1>3 DEF Inv, Typed, StagesFollowPhase
<1>5. CallingFollowsPhase'
  BY <1>1, <1>2, <1>3 DEF Inv, Typed, CallingFollowsPhase, HasHandler
<1>6. ScheduledIsServed'
  BY <1>1, <1>2, <1>3 DEF Inv, Typed, ScheduledIsServed
<1> QED
  BY <1>1, <1>4, <1>5, <1>6 DEF Inv, OopsOnlyInStop

\* The other steps of the thread.
LEMMA ThreadInv ==
    ASSUME Inv, StartPort \/ PortUp \/ StopQueues \/ PortDown \/ StopSleep \/ FreeBuffers
    PROVE  Inv'
<1>1. oops' = "no" /\ UNCHANGED <<stage, calling, sched, missed, poll>>
  BY DEF StartPort, PortUp, StopQueues, PortDown, StopSleep, FreeBuffers, Alive, event, napi
<1>2. phase' \in {"down", "starting", "up", "closing", "stopping", "sleep"}
  BY DEF StartPort, PortUp, StopQueues, PortDown, StopSleep, FreeBuffers
<1>3. StagesFollowPhase'
  BY <1>1 DEF StartPort, PortUp, StopQueues, PortDown, StopSleep, FreeBuffers, Inv, StagesFollowPhase
<1>4. calling # None => HasHandler(calling) \/ phase' \in {"stopping", "sleep"}
  BY DEF StartPort, PortUp, StopQueues, PortDown, StopSleep, FreeBuffers, Settled, Inv,
      CallingFollowsPhase
<1> QED
  BY <1>1, <1>2, <1>3, <1>4, PhaseInv

\* Every step keeps the invariant.
THEOREM NextInv == Inv /\ [Next]_vars => Inv'
<1> SUFFICES ASSUME Inv, [Next]_vars PROVE Inv'
  OBVIOUS
<1>1. CASE Starting
  BY <1>1, ThreadInv, StageInv DEF Starting
<1>2. CASE StopQueues
  BY <1>2, ThreadInv
<1>3. CASE Stopping
  BY <1>3, ThreadInv, StageInv DEF Stopping
<1>4. ASSUME NEW q \in Rings, Running(q) PROVE Inv'
  BY <1>4, OtherInv, EventInv, PollInv DEF Running
<1>5. ASSUME NEW q \in Tx, XmitTest(q) \/ XmitPost(q) PROVE Inv'
  BY <1>5, OtherInv DEF Rings
<1>6. CASE UNCHANGED vars
  BY <1>6 DEF vars, thread, event, napi, Inv, Typed, StagesFollowPhase, CallingFollowsPhase,
      ScheduledIsServed, OopsOnlyInStop, HasHandler
<1> QED
  BY <1>1, <1>2, <1>3, <1>4, <1>5, <1>6 DEF Next

\* A ring that was stopped is not polled until it runs again: napi_disable comes after
\* the handler is gone, and no handler call outlives the sleep (mqnic_netdev.c:133-153).
THEOREM StoppedIsQuietTheorem == Spec => []StoppedIsQuiet
<1>1. Inv => StoppedIsQuiet
  BY DEF Inv, ScheduledIsServed, StoppedIsQuiet
<1> QED
  BY <1>1, InitInv, NextInv, PTL DEF Spec

\* A null pointer is followed only inside mqnic_stop_port, by a poll of the ring it is
\* taking down or by a handler that was found set (mqnic_netdev.c:134-150, mqnic_eq.c:244).
THEOREM OopsOnlyInStopTheorem == Spec => []OopsOnlyInStop
<1>1. Inv => OopsOnlyInStop
  BY DEF Inv
<1> QED
  BY <1>1, InitInv, NextInv, PTL DEF Spec

-----------------------------------------------------------------------------
(* Pointers, slots and the greatest number of a property.                   *)

\* Every integer is a multiple of M and a remainder, which is what % computes.
LEMMA Division ==
    ASSUME NEW M \in Nat, M > 0, NEW a \in Int
    PROVE  \E k \in Int, r \in 0..M - 1 : a = M * k + r /\ a % M = r
<1>1. a % M \in 0..M - 1
  OBVIOUS
<1>2. \E k \in Int : a = M * k + (a % M)
  OBVIOUS
<1> QED
  BY <1>1, <1>2

\* The remainder of a multiple and a part smaller than M is that part.
LEMMA Remainder ==
    ASSUME NEW M \in Nat, M > 0, NEW k \in Int, NEW r \in 0..M - 1
    PROVE  (M * k + r) % M = r
OBVIOUS

\* A multiple of M does not change the remainder.
LEMMA Congruent ==
    ASSUME NEW M \in Nat, M > 0, NEW a \in Int, NEW k \in Int
    PROVE  (M * k + a) % M = a % M
<1>1. PICK l \in Int, r \in 0..M - 1 : a = M * l + r /\ a % M = r
  BY Division
<1>2. M * k + a = M * (k + l) + r
  BY <1>1
<1>3. (M * (k + l) + r) % M = r
  BY Remainder
<1> QED
  BY <1>1, <1>2, <1>3

\* A remainder may be taken before a sum.
LEMMA ModSum ==
    ASSUME NEW M \in Nat, M > 0, NEW a \in Int, NEW b \in Int
    PROVE  ((a % M) + b) % M = (a + b) % M
<1>1. PICK k \in Int, r \in 0..M - 1 : a = M * k + r /\ a % M = r
  BY Division
<1>2. a + b = M * k + (r + b) /\ r + b \in Int
  BY <1>1
<1>3. (M * k + (r + b)) % M = (r + b) % M
  BY <1>2, Congruent, Zenon
<1> QED
  BY <1>1, <1>2, <1>3, Zenon

\* Remainders may be taken before a difference.
LEMMA ModDifference ==
    ASSUME NEW M \in Nat, M > 0, NEW a \in Int, NEW b \in Int
    PROVE  ((a % M) - (b % M)) % M = (a - b) % M
<1>1. PICK k \in Int, r \in 0..M - 1 : a = M * k + r /\ a % M = r
  BY Division
<1>2. PICK l \in Int, s \in 0..M - 1 : b = M * l + s /\ b % M = s
  BY Division
<1>3. a - b = M * (k - l) + (r - s) /\ k - l \in Int /\ r - s \in Int
  BY <1>1, <1>2
<1>4. (M * (k - l) + (r - s)) % M = (r - s) % M
  BY <1>3, Congruent, Zenon
<1> QED
  BY <1>1, <1>2, <1>3, <1>4, Zenon

\* A remainder may be taken modulo twice the size first.
LEMMA ModTwice ==
    ASSUME NEW S \in Nat, S > 0, NEW a \in Int
    PROVE  (a % (2 * S)) % S = a % S
<1>1. 2 * S \in Nat /\ 2 * S > 0
  OBVIOUS
<1>2. PICK k \in Int, r \in 0..2 * S - 1 : a = (2 * S) * k + r /\ a % (2 * S) = r
  BY <1>1, Division
<1>3. a = S * (2 * k) + r /\ 2 * k \in Int /\ r \in Int
  BY <1>2
<1>4. (S * (2 * k) + r) % S = r % S
  BY <1>3, Congruent, Zenon
<1> QED
  BY <1>2, <1>3, <1>4, Zenon

\* Every ring has slots.
LEMMA Sizes == \A q \in Rings : Size(q) \in Nat /\ Size(q) > 0 /\ 2 * Size(q) \in Nat /\ 2 * Size(q) > 0
BY RingAssumption DEF Size, Rings

\* Every position has a pointer within its width and a slot of the ring.
LEMMA Ranges ==
    ASSUME NEW q \in Rings, NEW a \in Int
    PROVE  Ptr(q, a) \in Pointers(q) /\ Ptr(q, a) \in Nat /\ Slot(q, a) \in 0..Size(q) - 1
BY Sizes DEF Ptr, Slot, Pointers

\* A pointer moves as its position does.
LEMMA PtrAdd ==
    ASSUME NEW q \in Rings, NEW a \in Int, NEW d \in Int
    PROVE  Ptr(q, Ptr(q, a) + d) = Ptr(q, a + d)
<1>1. 2 * Size(q) \in Nat /\ 2 * Size(q) > 0
  BY Sizes
<1>2. ((a % (2 * Size(q))) + d) % (2 * Size(q)) = (a + d) % (2 * Size(q))
  BY <1>1, ModSum, Zenon
<1> QED
  BY <1>2, Zenon DEF Ptr

\* The slot of a pointer, moved or not, is that of its position.
LEMMA SlotAdd ==
    ASSUME NEW q \in Rings, NEW a \in Int, NEW d \in Int
    PROVE  Slot(q, Ptr(q, a) + d) = Slot(q, a + d) /\ Slot(q, Ptr(q, a)) = Slot(q, a)
<1>1. Size(q) \in Nat /\ Size(q) > 0
  BY Sizes
<1>2. (a % (2 * Size(q))) % Size(q) = a % Size(q)
  BY <1>1, ModTwice, Zenon
<1>3. Ptr(q, a) \in Int
  BY Ranges
<1>4. (Ptr(q, a) + d) % Size(q) = ((Ptr(q, a) % Size(q)) + d) % Size(q)
  BY <1>1, <1>3, ModSum, Zenon
<1>5. ((a % Size(q)) + d) % Size(q) = (a + d) % Size(q)
  BY <1>1, ModSum, Zenon
<1>6. Ptr(q, a) % Size(q) = a % Size(q)
  BY <1>2, Zenon DEF Ptr
<1> QED
  BY <1>4, <1>5, <1>6, Zenon DEF Slot

\* How far apart the pointers of two positions are.
LEMMA Gap ==
    ASSUME NEW q \in Rings, NEW a \in Int, NEW b \in Int, a - b \in 0..Size(q)
    PROVE  Ahead(q, Ptr(q, a), Ptr(q, b)) = a - b
<1>1. 2 * Size(q) \in Nat /\ 2 * Size(q) > 0
  BY Sizes
<1>2. (a - b) % (2 * Size(q)) = a - b
  BY Sizes
<1>3. ((a % (2 * Size(q))) - (b % (2 * Size(q)))) % (2 * Size(q)) = (a - b) % (2 * Size(q))
  BY <1>1, ModDifference, Zenon
<1> QED
  BY <1>2, <1>3, Zenon DEF Ahead, Ptr

\* A set of numbers up to n that is not empty has a greatest.
LEMMA GreatestExists ==
    ASSUME NEW n \in Nat, NEW S \in SUBSET (0..n), S # {}
    PROVE  \E i \in S : \A j \in S : j <= i
<1> DEFINE T == {i..n : i \in S}
<1>1. IsFiniteSet(0..n)
  BY FS_Interval
<1>2. T \subseteq FiniteSubsetsOf(0..n) /\ T # {}
  <2>1. \A i \in S : i..n \subseteq 0..n
    OBVIOUS
  <2>2. T \subseteq SUBSET (0..n) /\ T # {}
    BY <2>1
  <2> QED
    BY <1>1, <2>2, FS_FiniteSubsetsOfFinite
<1>3. IsWellFoundedOn(StrictSubsetOrdering(0..n), FiniteSubsetsOf(0..n))
  BY FS_StrictSubsetOrderingWellFounded
<1> HIDE DEF T
<1>4. \E x \in T : \A y \in T : ~(<<y, x>> \in StrictSubsetOrdering(0..n))
  BY <1>2, <1>3, WFMin
<1>5. PICK i \in S : \A j \in S : ~(<<j..n, i..n>> \in StrictSubsetOrdering(0..n))
  BY <1>4 DEF T
<1>6. SUFFICES ASSUME NEW j \in S PROVE j <= i
  OBVIOUS
<1>7. i \in Nat /\ j \in Nat
  OBVIOUS
<1>8. ASSUME i < j PROVE <<j..n, i..n>> \in StrictSubsetOrdering(0..n)
  <2>1. i \in i..n /\ i \notin j..n
    BY <1>7, <1>8
  <2>2. j..n \subseteq i..n /\ i..n \subseteq 0..n /\ j..n # i..n
    BY <1>7, <1>8, <2>1
  <2> QED
    BY <2>2 DEF StrictSubsetOrdering
<1> QED
  BY <1>5, <1>7, <1>8

\* How many completions a poll processes: as many as it can.
LEMMA ProcessedCount ==
    ASSUME NEW q \in Rings, NEW m \in Nat
    PROVE  /\ Largest({d \in 0..m : Processable(q, d)}) \in 0..m
           /\ \A x \in 0..m : Processable(q, x) => x <= Largest({d \in 0..m : Processable(q, d)})
<1> DEFINE S == {d \in 0..m : Processable(q, d)}
<1>1. Processable(q, 0)
  BY DEF Processable
<1>2. S \in SUBSET (0..m) /\ S # {}
  BY <1>1
<1> HIDE DEF S
<1>3. Largest(S) \in S /\ \A x \in S : x <= Largest(S)
  BY <1>2, GreatestExists DEF Largest
<1>4. Largest(S) \in 0..m
  BY <1>2, <1>3
<1> QED
  BY <1>3, <1>4 DEF S

\* How many slots from a pointer on are empty: what a poll cleans and a refill fills.
LEMMA EmptyCount ==
    ASSUME NEW q \in Rings, NEW p, NEW m \in Nat, NEW left
    PROVE  /\ Empty(q, p, m, left) \in 0..m
           /\ \A i \in 0..Empty(q, p, m, left) - 1 : Slot(q, p + i) \notin left
<1> DEFINE S == {d \in 0..m : \A i \in 0..d - 1 : Slot(q, p + i) \notin left}
<1>1. S \in SUBSET (0..m) /\ S # {}
  <2>1. 0 \in S
    OBVIOUS
  <2> QED
    BY <2>1
<1> HIDE DEF S
<1>2. Largest(S) \in S
  BY <1>1, GreatestExists DEF Largest
<1>3. Empty(q, p, m, left) \in S
  BY <1>2 DEF Empty, S
<1> QED
  BY <1>3 DEF S

-----------------------------------------------------------------------------
(* Types.  Inv has those of the thread and of NAPI.                          *)

\* A step that changes a function changes it for one ring.
Update(f, g, q, S) == g = f \/ \E x \in S : g = [f EXCEPT ![q] = x]

\* The driver's copy of a CQ's head never runs ahead of it.
SeenIsThere == \A q \in Rings : seen[q] <= Len(cpl[q])

\* A step that keeps the type of what it changes keeps every type.
LEMMA TypeKept ==
    ASSUME TypeOK, Inv', NEW q \in Rings,
           life' \in Nat, portUp' \in BOOLEAN, txOpen' \subseteq Tx, xmit' \subseteq Tx,
           Update(head, head', q, Pointers(q)), Update(clean, clean', q, Pointers(q)),
           Update(fetched, fetched', q, Pointers(q)), Update(done, done', q, Pointers(q)),
           Update(buf, buf', q, SUBSET (0..Size(q) - 1)), Update(cpl, cpl', q, Seq(0..Size(q) - 1)),
           Update(seen, seen', q, Nat), Update(armed, armed', q, BOOLEAN),
           Update(ev, ev', q, Nat), Update(arming, arming', q, Nat),
           oops' \in {"no", "poll", "event"}
    PROVE  TypeOK'
<1>1. \A v \in {head, clean, fetched, done}' : DOMAIN v = Rings /\ \A r \in Rings : v[r] \in Pointers(r)
  <2>1. ASSUME NEW v, NEW w, Update(v, w, q, Pointers(q)),
               DOMAIN v = Rings, \A r \in Rings : v[r] \in Pointers(r)
        PROVE  DOMAIN w = Rings /\ \A r \in Rings : w[r] \in Pointers(r)
    BY <2>1 DEF Update
  <2>2. \A v \in {head, clean, fetched, done} :
            DOMAIN v = Rings /\ \A r \in Rings : v[r] \in Pointers(r)
    BY DEF TypeOK
  <2>3. DOMAIN head' = Rings /\ \A r \in Rings : head'[r] \in Pointers(r)
    BY <2>1, <2>2, Zenon
  <2>4. DOMAIN clean' = Rings /\ \A r \in Rings : clean'[r] \in Pointers(r)
    BY <2>1, <2>2, Zenon
  <2>5. DOMAIN fetched' = Rings /\ \A r \in Rings : fetched'[r] \in Pointers(r)
    BY <2>1, <2>2, Zenon
  <2>6. DOMAIN done' = Rings /\ \A r \in Rings : done'[r] \in Pointers(r)
    BY <2>1, <2>2, Zenon
  <2> QED
    BY <2>3, <2>4, <2>5, <2>6, Zenon
<1>2. DOMAIN buf' = Rings /\ \A r \in Rings : buf'[r] \subseteq 0..Size(r) - 1
  <2>1. ASSUME NEW v, NEW w, Update(v, w, q, SUBSET (0..Size(q) - 1)),
               DOMAIN v = Rings, \A r \in Rings : v[r] \subseteq 0..Size(r) - 1
        PROVE  DOMAIN w = Rings /\ \A r \in Rings : w[r] \subseteq 0..Size(r) - 1
    <3>1. CASE w = v
      BY <2>1, <3>1
    <3>2. CASE \E x \in SUBSET (0..Size(q) - 1) : w = [v EXCEPT ![q] = x]
      <4>1. PICK x \in SUBSET (0..Size(q) - 1) : w = [v EXCEPT ![q] = x]
        BY <3>2
      <4>2. DOMAIN w = Rings /\ w[q] = x /\ \A r \in Rings \ {q} : w[r] = v[r]
        BY <2>1, <4>1
      <4>3. w[q] \subseteq 0..Size(q) - 1
        BY <4>2
      <4>4. \A r \in Rings \ {q} : w[r] \subseteq 0..Size(r) - 1
        BY <2>1, <4>2
      <4>5. \A r \in Rings : w[r] \subseteq 0..Size(r) - 1
        BY <4>3, <4>4, Zenon
      <4> QED
        BY <4>2, <4>5
    <3> QED
      BY <2>1, <3>1, <3>2 DEF Update
  <2> QED
    BY <2>1, Zenon DEF TypeOK
<1>3. DOMAIN cpl' = Rings /\ \A r \in Rings : cpl'[r] \in Seq(0..Size(r) - 1)
  BY DEF Update, TypeOK
<1>4. seen' \in [Rings -> Nat] /\ ev' \in [Rings -> Nat] /\ arming' \in [Rings -> Nat]
  <2>1. ASSUME NEW v, NEW w, Update(v, w, q, Nat), v \in [Rings -> Nat] PROVE w \in [Rings -> Nat]
    BY <2>1 DEF Update
  <2>2. seen \in [Rings -> Nat] /\ ev \in [Rings -> Nat] /\ arming \in [Rings -> Nat]
    BY DEF TypeOK
  <2> QED
    BY <2>1, <2>2, Zenon
<1>5. armed' \in [Rings -> BOOLEAN]
  BY DEF Update, TypeOK
<1>6. Typed' /\ calling' \in Rings \cup {None}
  BY DEF Inv, CallingFollowsPhase
<1>7. /\ (phase \in {"down", "starting", "up", "closing", "stopping", "sleep"})'
      /\ (stage \in [Rings -> {"down", "cq", "armed", "ring", "unring", "uncq"}])'
      /\ (sched \in [Rings -> BOOLEAN] /\ missed \in [Rings -> BOOLEAN])'
      /\ (poll \in [Rings -> {"off", "loop", "complete"}])'
  BY <1>6 DEF Typed
<1> QED
  BY <1>1, <1>2, <1>3, <1>4, <1>5, <1>6, <1>7 DEF TypeOK, Pointers, Size

\* What a ring's variables hold.
LEMMA RingTypes ==
    ASSUME TypeOK, NEW q \in Rings
    PROVE  /\ head[q] \in Pointers(q) /\ clean[q] \in Pointers(q) /\ fetched[q] \in Pointers(q)
           /\ done[q] \in Pointers(q) /\ Pointers(q) \subseteq Int
           /\ buf[q] \in SUBSET (0..Size(q) - 1) /\ cpl[q] \in Seq(0..Size(q) - 1) /\ Len(cpl[q]) \in Nat
           /\ seen[q] \in Nat /\ armed[q] \in BOOLEAN /\ ev[q] \in Nat /\ arming[q] \in Nat
<1>1. head[q] \in Pointers(q) /\ clean[q] \in Pointers(q) /\ fetched[q] \in Pointers(q) /\ done[q] \in Pointers(q)
  BY DEF TypeOK
<1>2. buf[q] \in SUBSET (0..Size(q) - 1) /\ cpl[q] \in Seq(0..Size(q) - 1)
  BY DEF TypeOK
<1>3. seen[q] \in Nat /\ armed[q] \in BOOLEAN /\ ev[q] \in Nat /\ arming[q] \in Nat
  BY DEF TypeOK
<1>4. Pointers(q) \subseteq Int
  BY Sizes DEF Pointers
<1>5. Len(cpl[q]) \in Nat
  BY <1>2
<1> QED
  BY <1>1, <1>2, <1>3, <1>4, <1>5

\* Arming a queue sends an event or sets the bit.
LEMMA ArmType ==
    ASSUME TypeOK, NEW q \in Rings, Arm(q)
    PROVE  Update(armed, armed', q, BOOLEAN) /\ Update(ev, ev', q, Nat)
<1>1. ev[q] + 1 \in Nat
  BY RingTypes
<1>2. CASE cpl[q] # <<>>
  <2>1. armed' = [armed EXCEPT ![q] = FALSE] /\ ev' = [ev EXCEPT ![q] = ev[q] + 1]
    BY <1>2 DEF Arm
  <2> QED
    BY <1>1, <2>1 DEF Update
<1>3. CASE cpl[q] = <<>>
  <2>1. armed' = [armed EXCEPT ![q] = TRUE] /\ ev' = ev
    BY <1>3 DEF Arm
  <2> QED
    BY <2>1 DEF Update
<1> QED
  BY <1>2, <1>3

\* The NIC's steps.
LEMMA NicTypes ==
    ASSUME TypeOK, SeenIsThere, Inv', NEW q \in Rings, Fetch(q) \/ Complete(q)
    PROVE  TypeOK' /\ SeenIsThere'
<1>1. /\ life' = life /\ portUp' = portUp /\ txOpen' = txOpen /\ xmit' = xmit /\ oops' = "no"
      /\ head' = head /\ clean' = clean /\ buf' = buf /\ seen' = seen /\ arming' = arming
  <2>1. CASE Fetch(q)
    BY <2>1 DEF Fetch, Alive, thread, senders, ring, cq, napi
  <2>2. CASE Complete(q)
    BY <2>2 DEF Complete, Alive, thread, senders, ring, napi
  <2> QED
    BY <2>1, <2>2
<1>2. /\ life \in Nat /\ portUp \in BOOLEAN /\ txOpen \subseteq Tx /\ xmit \subseteq Tx
  BY DEF TypeOK
<1>3. /\ Update(fetched, fetched', q, Pointers(q)) /\ Update(done, done', q, Pointers(q))
  <2>1. Ptr(q, fetched[q] + 1) \in Pointers(q) /\ Ptr(q, done[q] + 1) \in Pointers(q)
    <3>1. fetched[q] + 1 \in Int /\ done[q] + 1 \in Int
      BY RingTypes
    <3> QED
      BY <3>1, Ranges
  <2>2. CASE Fetch(q)
    <3>1. fetched' = [fetched EXCEPT ![q] = Ptr(q, fetched[q] + 1)] /\ done' = done
      BY <2>2 DEF Fetch
    <3> QED
      BY <2>1, <3>1 DEF Update
  <2>3. CASE Complete(q)
    <3>1. done' = [done EXCEPT ![q] = Ptr(q, done[q] + 1)] /\ fetched' = fetched
      BY <2>3 DEF Complete
    <3> QED
      BY <2>1, <3>1 DEF Update
  <2> QED
    BY <2>2, <2>3
<1>4. /\ Update(cpl, cpl', q, Seq(0..Size(q) - 1)) /\ Update(armed, armed', q, BOOLEAN)
      /\ Update(ev, ev', q, Nat) /\ \A r \in Rings : Len(cpl[r]) <= Len(cpl'[r])
  <2>1. CASE UNCHANGED <<cpl, ev, armed>>
    BY <2>1, RingTypes DEF Update
  <2>2. CASE /\ cpl' = [cpl EXCEPT ![q] = Append(@, Slot(q, done[q]))]
             /\ ev' = [ev EXCEPT ![q] = @ + IF armed[q] THEN 1 ELSE 0]
             /\ armed' = [armed EXCEPT ![q] = FALSE]
    <3>1. Slot(q, done[q]) \in 0..Size(q) - 1
      BY RingTypes, Ranges
    <3>2. /\ Append(cpl[q], Slot(q, done[q])) \in Seq(0..Size(q) - 1)
          /\ Len(cpl[q]) <= Len(Append(cpl[q], Slot(q, done[q])))
      BY <3>1, RingTypes
    <3>3. ev[q] + (IF armed[q] THEN 1 ELSE 0) \in Nat
      BY RingTypes
    <3>4. ASSUME NEW r \in Rings PROVE Len(cpl[r]) <= Len(cpl'[r])
      <4>1. CASE r = q
        BY <2>2, <3>2, <4>1 DEF TypeOK
      <4>2. CASE r # q
        <5>1. cpl'[r] = cpl[r]
          BY <2>2, <4>2 DEF TypeOK
        <5> QED
          BY <5>1, RingTypes
      <4> QED
        BY <4>1, <4>2
    <3> QED
      BY <2>2, <3>2, <3>3, <3>4 DEF Update
  <2> QED
    BY <2>1, <2>2 DEF Fetch, Complete, cq, event
<1>5. SeenIsThere'
  <2> SUFFICES ASSUME NEW r \in Rings PROVE seen'[r] <= Len(cpl'[r])
    BY DEF SeenIsThere
  <2>1. seen'[r] = seen[r] /\ seen[r] \in Nat /\ seen[r] <= Len(cpl[r]) /\ Len(cpl[r]) \in Nat
    BY <1>1, RingTypes DEF SeenIsThere
  <2>2. Len(cpl'[r]) \in Nat
    <3>1. cpl'[r] \in Seq(0..Size(r) - 1)
      <4>1. cpl[r] \in Seq(0..Size(r) - 1) /\ DOMAIN cpl = Rings
        BY DEF TypeOK
      <4>2. CASE cpl' = cpl
        BY <4>1, <4>2
      <4>3. CASE \E x \in Seq(0..Size(q) - 1) : cpl' = [cpl EXCEPT ![q] = x]
        <5>1. PICK x \in Seq(0..Size(q) - 1) : cpl' = [cpl EXCEPT ![q] = x]
          BY <4>3
        <5> QED
          BY <4>1, <5>1
      <4> QED
        BY <1>4, <4>2, <4>3 DEF Update
    <3> QED
      BY <3>1
  <2> QED
    BY <1>4, <2>1, <2>2
<1>6. /\ Update(head, head', q, Pointers(q)) /\ Update(clean, clean', q, Pointers(q))
      /\ Update(buf, buf', q, SUBSET (0..Size(q) - 1)) /\ Update(seen, seen', q, Nat)
      /\ Update(arming, arming', q, Nat)
  BY <1>1 DEF Update
<1> QED
  BY <1>1, <1>2, <1>3, <1>4, <1>5, <1>6, TypeKept

\* The handler's steps.
LEMMA EventTypes ==
    ASSUME TypeOK, SeenIsThere, Inv', NEW q \in Rings, EventTest(q) \/ EventCall(q)
    PROVE  TypeOK' /\ SeenIsThere'
<1>1. /\ life' = life /\ portUp' = portUp /\ txOpen' = txOpen /\ xmit' = xmit
      /\ head' = head /\ clean' = clean /\ buf' = buf /\ fetched' = fetched /\ done' = done
      /\ cpl' = cpl /\ seen' = seen /\ armed' = armed /\ arming' = arming
  BY DEF EventTest, EventCall, thread, senders, ring, dma, cq, napi
<1>2. oops' \in {"no", "poll", "event"}
  BY DEF EventTest, EventCall, Alive
<1>3. Update(ev, ev', q, Nat)
  <2>1. ev[q] > 0 => ev[q] - 1 \in Nat
    BY RingTypes
  <2> QED
    BY <2>1 DEF EventTest, EventCall, Update
<1>4. life \in Nat /\ portUp \in BOOLEAN /\ txOpen \subseteq Tx /\ xmit \subseteq Tx
  BY DEF TypeOK
<1>5. /\ Update(head, head', q, Pointers(q)) /\ Update(clean, clean', q, Pointers(q))
      /\ Update(fetched, fetched', q, Pointers(q)) /\ Update(done, done', q, Pointers(q))
      /\ Update(buf, buf', q, SUBSET (0..Size(q) - 1)) /\ Update(cpl, cpl', q, Seq(0..Size(q) - 1))
      /\ Update(seen, seen', q, Nat) /\ Update(armed, armed', q, BOOLEAN)
      /\ Update(arming, arming', q, Nat)
  BY <1>1 DEF Update
<1>6. SeenIsThere'
  BY <1>1 DEF SeenIsThere
<1> QED
  BY <1>1, <1>2, <1>3, <1>4, <1>5, <1>6, TypeKept

\* The steps of a poll other than its run, and the arming after it.
LEMMA PollTypes ==
    ASSUME TypeOK, SeenIsThere, Inv', NEW q \in Rings,
           PollNoRing(q) \/ PollPortDown(q) \/ PollReadHead(q) \/ PollComplete(q) \/ ArmCq(q)
    PROVE  TypeOK' /\ SeenIsThere'
<1>1. /\ life' = life /\ portUp' = portUp /\ txOpen' = txOpen /\ xmit' = xmit
      /\ head' = head /\ clean' = clean /\ buf' = buf /\ fetched' = fetched /\ done' = done
      /\ cpl' = cpl
  BY DEF PollNoRing, PollPortDown, PollReadHead, PollComplete, ArmCq, thread, senders, ring, dma, cq
<1>2. oops' \in {"no", "poll", "event"}
  BY DEF PollNoRing, PollPortDown, PollReadHead, PollComplete, ArmCq, Alive
<1>3. seen' = seen \/ seen' = [seen EXCEPT ![q] = Len(cpl[q])]
  BY DEF PollNoRing, PollPortDown, PollReadHead, PollComplete, ArmCq, cq
<1>4. arming[q] + 1 \in Nat /\ (arming[q] > 0 => arming[q] - 1 \in Nat)
  BY RingTypes
<1>5. Update(arming, arming', q, Nat)
  BY <1>4 DEF PollNoRing, PollPortDown, PollReadHead, PollComplete, ArmCq, napi, Update
<1>6. Update(armed, armed', q, BOOLEAN) /\ Update(ev, ev', q, Nat)
  <2>1. Arm(q) \/ (armed' = armed /\ ev' = ev)
    BY DEF PollNoRing, PollPortDown, PollReadHead, PollComplete, ArmCq, event
  <2> QED
    BY <2>1, ArmType DEF Update
<1>7. life \in Nat /\ portUp \in BOOLEAN /\ txOpen \subseteq Tx /\ xmit \subseteq Tx
  BY DEF TypeOK
<1>8. /\ Update(head, head', q, Pointers(q)) /\ Update(clean, clean', q, Pointers(q))
      /\ Update(fetched, fetched', q, Pointers(q)) /\ Update(done, done', q, Pointers(q))
      /\ Update(buf, buf', q, SUBSET (0..Size(q) - 1)) /\ Update(cpl, cpl', q, Seq(0..Size(q) - 1))
  BY <1>1 DEF Update
<1>9. Update(seen, seen', q, Nat)
  BY <1>3, RingTypes DEF Update
<1>10. SeenIsThere'
  <2> SUFFICES ASSUME NEW r \in Rings PROVE seen'[r] <= Len(cpl[r])
    BY <1>1 DEF SeenIsThere
  <2>1. seen'[r] = seen[r] \/ seen'[r] = Len(cpl[r])
    BY <1>3 DEF TypeOK
  <2> QED
    BY <2>1, RingTypes DEF SeenIsThere
<1> QED
  BY <1>1, <1>2, <1>5, <1>6, <1>7, <1>8, <1>9, <1>10, TypeKept

\* How many slots a refill fills: none, or empty ones, as many as are free at most.
LEMMA RefilledCount ==
    ASSUME NEW q \in Rings, head[q] \in Int, NEW from \in Int, NEW left,
           NEW more, more = Refilled(q, from, left)
    PROVE  more \in Nat /\ (more = 0 \/ more <= Size(q) - Ahead(q, head[q], from))
<1> DEFINE free == Size(q) - Ahead(q, head[q], from)
<1>1. free \in Int /\ Threshold \in Nat
  <2>1. head[q] - from \in Int
    OBVIOUS
  <2>2. Ahead(q, head[q], from) \in Nat
    BY <2>1, Ranges DEF Ahead
  <2> QED
    BY <2>2, Sizes, RingAssumption
<1>2. CASE free < Threshold
  <2>1. more = 0
    BY <1>2 DEF Refilled
  <2> QED
    BY <2>1
<1>3. CASE ~(free < Threshold)
  <2>1. more = Empty(q, head[q], free, left)
    BY <1>3 DEF Refilled
  <2>2. free \in Nat
    BY <1>1, <1>3
  <2> HIDE DEF free
  <2>3. more \in 0..free
    BY <2>1, <2>2, EmptyCount
  <2> QED
    BY <2>2, <2>3 DEF free
<1> QED
  BY <1>2, <1>3

\* What a run of a poll does: n completions are taken, clean_tail_ptr passes d empty slots,
\* more slots are filled.
Ran(q, n, d, more, left) ==
    /\ cpl' = [cpl EXCEPT ![q] = SubSeq(cpl[q], n + 1, Len(cpl[q]))]
    /\ seen' = [seen EXCEPT ![q] = seen[q] - n]
    /\ clean' = [clean EXCEPT ![q] = Ptr(q, clean[q] + d)]
    /\ \A i \in 0..d - 1 : Slot(q, clean[q] + i) \notin left
    /\ head' = [head EXCEPT ![q] = Ptr(q, head[q] + more)]
    /\ buf' = [buf EXCEPT ![q] = left \cup {Slot(q, head[q] + i) : i \in 0..more - 1}]
    /\ txOpen' = txOpen \cup IF q \in Tx /\ Ahead(q, head[q], Ptr(q, clean[q] + d)) < FullSize
                             THEN {q} ELSE {}
    /\ more = 0 \/ (q \in Rx /\ more <= Size(q) - Ahead(q, head[q], Ptr(q, clean[q] + d)))

\* It processes all it can, and takes those packets or pages and no other.
Took(q, n, left) ==
    /\ left = buf[q] \ {cpl[q][i] : i \in 1..n}
    /\ \A x \in 0..Smaller(seen[q], Budget) : Processable(q, x) => x <= n
    /\ sched' = [sched EXCEPT ![q] = n # Budget \/ NapiOn(q)]

\* A run of a poll is of that form.
LEMMA PollRuns ==
    ASSUME TypeOK, NEW q \in Rings, PollRun(q)
    PROVE  \E n \in 0..seen[q], d \in 0..Ahead(q, fetched[q], clean[q]), more \in Nat,
              left \in SUBSET buf[q] : Ran(q, n, d, more, left) /\ Took(q, n, left)
<1> DEFINE n == Largest({x \in 0..Smaller(seen[q], Budget) : Processable(q, x)})
           left == buf[q] \ {cpl[q][i] : i \in 1..n}
           d == Empty(q, clean[q], Ahead(q, fetched[q], clean[q]), left)
           to == CleanTo(q, left)
           more == IF q \in Rx THEN Refilled(q, to, left) ELSE 0
<1>1. n \in 0..seen[q]
  <2>1. Smaller(seen[q], Budget) \in 0..seen[q]
    BY RingTypes, RingAssumption DEF Smaller
  <2>2. n \in 0..Smaller(seen[q], Budget)
    BY <2>1, ProcessedCount
  <2> QED
    BY <2>1, <2>2, RingTypes
<1>1a. \A x \in 0..Smaller(seen[q], Budget) : Processable(q, x) => x <= n
  <2>1. Smaller(seen[q], Budget) \in Nat
    BY RingTypes, RingAssumption DEF Smaller
  <2> QED
    BY <2>1, ProcessedCount
<1>1b. sched' = [sched EXCEPT ![q] = n # Budget \/ NapiOn(q)]
  BY DEF PollRun
<1>2. to = Ptr(q, clean[q] + d)
  BY DEF CleanTo
<1>3. head[q] \in Int /\ clean[q] \in Int /\ fetched[q] \in Int
  BY RingTypes
<1> HIDE DEF n
<1>4. left \in SUBSET buf[q] /\ Took(q, n, left)
  BY <1>1a, <1>1b DEF Took
<1> HIDE DEF left
<1>5. d \in 0..Ahead(q, fetched[q], clean[q]) /\ \A i \in 0..d - 1 : Slot(q, clean[q] + i) \notin left
  <2>1. Ahead(q, fetched[q], clean[q]) \in Nat
    <3>1. fetched[q] - clean[q] \in Int
      BY <1>3
    <3> QED
      BY <3>1, Ranges DEF Ahead
  <2> QED
    BY <2>1, EmptyCount
<1>6. to \in Int /\ Ahead(q, fetched[q], clean[q]) \in Nat
  <2>1. fetched[q] - clean[q] \in Int
    BY <1>3
  <2>2. Ahead(q, fetched[q], clean[q]) \in Nat
    BY <2>1, Ranges DEF Ahead
  <2>3. clean[q] + d \in Int
    BY <1>3, <1>5, <2>2
  <2> QED
    BY <1>2, <2>2, <2>3, Ranges
<1>7. more \in Nat /\ (more = 0 \/ (q \in Rx /\ more <= Size(q) - Ahead(q, head[q], to)))
  BY <1>3, <1>6, RefilledCount
<1>8. /\ cpl' = [cpl EXCEPT ![q] = SubSeq(cpl[q], n + 1, Len(cpl[q]))]
      /\ seen' = [seen EXCEPT ![q] = seen[q] - n]
      /\ clean' = [clean EXCEPT ![q] = to]
      /\ head' = [head EXCEPT ![q] = Ptr(q, head[q] + more)]
      /\ buf' = [buf EXCEPT ![q] = left \cup {Slot(q, head[q] + i) : i \in 0..more - 1}]
      /\ txOpen' = txOpen \cup IF q \in Tx /\ Ahead(q, head[q], to) < FullSize THEN {q} ELSE {}
  BY DEF PollRun, n, left
<1> HIDE DEF to, d, more
<1>9. Ran(q, n, d, more, left)
  BY <1>2, <1>5, <1>7, <1>8 DEF Ran
<1> QED
  BY <1>1, <1>4, <1>5, <1>7, <1>9

\* The start of a ring: the NIC begins at the head and a receive ring gets pages.
LEMMA RingStarts ==
    ASSUME TypeOK, NEW q \in Rings, StartRing(q)
    PROVE  \E more \in Nat :
              /\ more = 0 \/ (q \in Rx /\ more <= Size(q) - Ahead(q, head[q], clean[q]))
              /\ fetched' = [fetched EXCEPT ![q] = head[q]] /\ done' = [done EXCEPT ![q] = head[q]]
              /\ head' = [head EXCEPT ![q] = Ptr(q, head[q] + more)]
              /\ buf' = [buf EXCEPT ![q] = buf[q] \cup {Slot(q, head[q] + i) : i \in 0..more - 1}]
<1> DEFINE more == IF q \in Rx THEN Refilled(q, clean[q], buf[q]) ELSE 0
<1>1. head[q] \in Int /\ clean[q] \in Int
  BY RingTypes
<1>2. more \in Nat /\ (more = 0 \/ (q \in Rx /\ more <= Size(q) - Ahead(q, head[q], clean[q])))
  BY <1>1, RefilledCount
<1>3. /\ fetched' = [fetched EXCEPT ![q] = head[q]] /\ done' = [done EXCEPT ![q] = head[q]]
      /\ head' = [head EXCEPT ![q] = Ptr(q, head[q] + more)]
      /\ buf' = [buf EXCEPT ![q] = buf[q] \cup {Slot(q, head[q] + i) : i \in 0..more - 1}]
  BY DEF StartRing, more
<1> HIDE DEF more
<1> QED
  BY <1>2, <1>3

\* The first n entries of a sequence, and what is left without them.
LEMMA Part ==
    ASSUME NEW S, NEW s \in Seq(S), NEW n \in Nat, n <= Len(s)
    PROVE  /\ SubSeq(s, 1, n) \in Seq(S) /\ Len(SubSeq(s, 1, n)) = n
           /\ SubSeq(s, n + 1, Len(s)) \in Seq(S) /\ Len(SubSeq(s, n + 1, Len(s))) = Len(s) - n
OBVIOUS

LEMMA Rest ==
    ASSUME NEW S, NEW s \in Seq(S), NEW n \in Nat, n <= Len(s)
    PROVE  /\ Len(SubSeq(s, n + 1, Len(s))) = Len(s) - n
           /\ \A i \in 1..Len(s) - n : SubSeq(s, n + 1, Len(s))[i] = s[n + i]
OBVIOUS

\* The positions a run of a poll moves, and what it takes from the queue.
LEMMA RunTypes ==
    ASSUME TypeOK, SeenIsThere, Inv', NEW q \in Rings, PollRun(q)
    PROVE  TypeOK' /\ SeenIsThere'
<1>1. PICK n \in 0..seen[q], d \in 0..Ahead(q, fetched[q], clean[q]), more \in Nat,
           left \in SUBSET buf[q] : Ran(q, n, d, more, left)
  BY PollRuns
<1>2. /\ life' = life /\ portUp' = portUp /\ xmit' = xmit /\ fetched' = fetched /\ done' = done
      /\ armed' = armed /\ ev' = ev /\ arming' = arming /\ oops' = "no"
  BY DEF PollRun, Alive, thread, dma, event
<1>3. life \in Nat /\ portUp \in BOOLEAN /\ txOpen \subseteq Tx /\ xmit \subseteq Tx
  BY DEF TypeOK
<1>4. txOpen' \subseteq Tx
  <2>1. (txOpen' = txOpen \cup {q} /\ q \in Tx) \/ txOpen' = txOpen
    BY <1>1 DEF Ran
  <2> QED
    BY <1>3, <2>1
<1>5. fetched[q] - clean[q] \in Int /\ head[q] \in Int /\ clean[q] \in Int
  BY RingTypes
<1>6. d \in Int
  BY <1>1, <1>5, Ranges DEF Ahead
<1>7. clean[q] + d \in Int /\ head[q] + more \in Int
  BY <1>5, <1>6
<1>8. Update(clean, clean', q, Pointers(q)) /\ Update(head, head', q, Pointers(q))
  <2>1. Ptr(q, clean[q] + d) \in Pointers(q) /\ Ptr(q, head[q] + more) \in Pointers(q)
    BY <1>7, Ranges
  <2> QED
    BY <1>1, <2>1 DEF Ran, Update
<1>9. Update(buf, buf', q, SUBSET (0..Size(q) - 1))
  <2>1. ASSUME NEW i \in 0..more - 1 PROVE Slot(q, head[q] + i) \in 0..Size(q) - 1
    <3>1. head[q] + i \in Int
      BY <1>5
    <3> QED
      BY <3>1, Ranges
  <2>2. left \cup {Slot(q, head[q] + i) : i \in 0..more - 1} \in SUBSET (0..Size(q) - 1)
    <3>1. buf[q] \in SUBSET (0..Size(q) - 1)
      BY RingTypes
    <3> QED
      BY <2>1, <3>1
  <2> QED
    BY <1>1, <2>2 DEF Ran, Update
<1>10. n \in Nat /\ n <= Len(cpl[q]) /\ seen[q] - n \in Nat /\ seen[q] <= Len(cpl[q]) /\ Len(cpl[q]) \in Nat
  <2>1. seen[q] \in Nat /\ Len(cpl[q]) \in Nat /\ seen[q] <= Len(cpl[q])
    BY RingTypes DEF SeenIsThere
  <2>2. \A k, m \in Nat : \A x \in 0..k : k <= m => x \in Nat /\ x <= m /\ k - x \in Nat
    OBVIOUS
  <2> QED
    BY <2>1, <2>2, Zenon
<1>11. /\ SubSeq(cpl[q], n + 1, Len(cpl[q])) \in Seq(0..Size(q) - 1)
       /\ Len(SubSeq(cpl[q], n + 1, Len(cpl[q]))) = Len(cpl[q]) - n
  <2>1. cpl[q] \in Seq(0..Size(q) - 1)
    BY RingTypes
  <2> QED
    BY <1>10, <2>1, Part, Zenon
<1>12. Update(cpl, cpl', q, Seq(0..Size(q) - 1)) /\ Update(seen, seen', q, Nat)
  BY <1>1, <1>10, <1>11 DEF Ran, Update
<1>13. /\ Update(fetched, fetched', q, Pointers(q)) /\ Update(done, done', q, Pointers(q))
       /\ Update(armed, armed', q, BOOLEAN) /\ Update(ev, ev', q, Nat)
       /\ Update(arming, arming', q, Nat)
  BY <1>2 DEF Update
<1>14. SeenIsThere'
  <2> SUFFICES ASSUME NEW r \in Rings PROVE seen'[r] <= Len(cpl'[r])
    BY DEF SeenIsThere
  <2>1. CASE r = q
    <3>1. seen'[q] = seen[q] - n /\ Len(cpl'[q]) = Len(cpl[q]) - n
      BY <1>1, <1>11 DEF Ran, TypeOK
    <3>2. seen[q] - n <= Len(cpl[q]) - n
      <4>1. seen[q] \in Nat
        BY RingTypes
      <4>2. \A k, m, x \in Nat : k <= m => k - x <= m - x
        OBVIOUS
      <4> QED
        BY <1>10, <4>1, <4>2, Zenon
    <3> QED
      BY <2>1, <3>1, <3>2, Zenon
  <2>2. CASE r # q
    <3>1. seen'[r] = seen[r] /\ cpl'[r] = cpl[r]
      BY <1>1, <2>2 DEF Ran, TypeOK
    <3> QED
      BY <3>1 DEF SeenIsThere
  <2> QED
    BY <2>1, <2>2
<1> QED
  BY <1>2, <1>3, <1>4, <1>8, <1>9, <1>12, <1>13, <1>14, TypeKept

\* A sender posts at the head.
LEMMA SenderTypes ==
    ASSUME TypeOK, SeenIsThere, Inv', NEW q \in Tx, XmitTest(q) \/ XmitPost(q)
    PROVE  TypeOK' /\ SeenIsThere'
<1>1. q \in Rings
  BY DEF Rings
<1>2. /\ life' = life /\ portUp' = portUp /\ oops' = "no" /\ clean' = clean
      /\ fetched' = fetched /\ done' = done /\ cpl' = cpl /\ seen' = seen
      /\ armed' = armed /\ ev' = ev /\ arming' = arming
  BY DEF XmitTest, XmitPost, Alive, thread, ring, dma, cq, event, napi
<1>3. /\ life \in Nat /\ portUp \in BOOLEAN /\ txOpen \subseteq Tx /\ xmit \subseteq Tx
  BY DEF TypeOK
<1>4. txOpen' \subseteq Tx /\ xmit' \subseteq Tx
  BY <1>3 DEF XmitTest, XmitPost
<1>5. Update(head, head', q, Pointers(q)) /\ Update(buf, buf', q, SUBSET (0..Size(q) - 1))
  <2>1. head[q] \in Int /\ head[q] + 1 \in Int
    BY <1>1, RingTypes
  <2>2. Ptr(q, head[q] + 1) \in Pointers(q) /\ Slot(q, head[q]) \in 0..Size(q) - 1
    BY <1>1, <2>1, Ranges
  <2>3. buf[q] \cup {Slot(q, head[q])} \in SUBSET (0..Size(q) - 1)
    BY <1>1, <2>2, RingTypes
  <2> QED
    BY <2>2, <2>3 DEF XmitTest, XmitPost, ring, Update
<1>6. /\ Update(clean, clean', q, Pointers(q))
      /\ Update(fetched, fetched', q, Pointers(q)) /\ Update(done, done', q, Pointers(q))
      /\ Update(cpl, cpl', q, Seq(0..Size(q) - 1)) /\ Update(seen, seen', q, Nat)
      /\ Update(armed, armed', q, BOOLEAN) /\ Update(ev, ev', q, Nat)
      /\ Update(arming, arming', q, Nat)
  BY <1>2 DEF Update
<1>7. SeenIsThere'
  BY <1>2 DEF SeenIsThere
<1> QED
  BY <1>1, <1>2, <1>3, <1>4, <1>5, <1>6, <1>7, TypeKept

\* The thread's steps on one ring.
LEMMA StageTypes ==
    ASSUME TypeOK, SeenIsThere, Inv', NEW q \in Rings,
           StartCq(q) \/ StartArm(q) \/ StartRing(q) \/ StopRing(q) \/ StopCq(q) \/ StopNapi(q)
    PROVE  TypeOK' /\ SeenIsThere'
<1>1. /\ life' = life /\ portUp' = portUp /\ txOpen' = txOpen /\ xmit' = xmit /\ oops' = "no"
      /\ clean' = clean /\ seen' = seen /\ arming' = arming
  BY DEF StartCq, StartArm, StartRing, StopRing, StopCq, StopNapi, Alive, senders, ring, cq, napi
<1>2. /\ life \in Nat /\ portUp \in BOOLEAN /\ txOpen \subseteq Tx /\ xmit \subseteq Tx
  BY DEF TypeOK
<1>3. Update(armed, armed', q, BOOLEAN) /\ Update(ev, ev', q, Nat)
  <2>1. \/ Arm(q) \/ (armed' = armed /\ ev' = ev)
        \/ (armed' = [armed EXCEPT ![q] = FALSE] /\ ev' = ev)
    BY DEF StartCq, StartArm, StartRing, StopRing, StopCq, StopNapi, event
  <2> QED
    BY <2>1, ArmType DEF Update
<1>4. Update(cpl, cpl', q, Seq(0..Size(q) - 1)) /\ SeenIsThere'
  <2>1. CASE cpl' = cpl
    BY <1>1, <2>1 DEF Update, SeenIsThere
  <2>2. CASE cpl' = [cpl EXCEPT ![q] = SubSeq(@, 1, seen[q])]
    <3>1. seen[q] \in Nat /\ Len(cpl[q]) \in Nat /\ seen[q] <= Len(cpl[q]) /\ cpl[q] \in Seq(0..Size(q) - 1)
      BY RingTypes DEF SeenIsThere
    <3>2. SubSeq(cpl[q], 1, seen[q]) \in Seq(0..Size(q) - 1) /\ Len(SubSeq(cpl[q], 1, seen[q])) = seen[q]
      BY <3>1, Part, ZenonT(30)
    <3>3. ASSUME NEW r \in Rings PROVE seen'[r] <= Len(cpl'[r])
      <4>1. CASE r = q
        BY <1>1, <2>2, <3>1, <3>2, <4>1 DEF TypeOK
      <4>2. CASE r # q
        BY <1>1, <2>2, <4>2 DEF TypeOK, SeenIsThere
      <4> QED
        BY <4>1, <4>2
    <3> QED
      BY <2>2, <3>2, <3>3 DEF Update, SeenIsThere
  <2> QED
    BY <2>1, <2>2 DEF StartCq, StartArm, StartRing, StopRing, StopCq, StopNapi, cq
<1>5. /\ Update(head, head', q, Pointers(q)) /\ Update(buf, buf', q, SUBSET (0..Size(q) - 1))
      /\ Update(fetched, fetched', q, Pointers(q)) /\ Update(done, done', q, Pointers(q))
  <2>1. CASE head' = head /\ buf' = buf /\ fetched' = fetched /\ done' = done
    BY <2>1 DEF Update
  <2>2. CASE StartRing(q)
    <3>1. PICK more \in Nat :
              /\ fetched' = [fetched EXCEPT ![q] = head[q]] /\ done' = [done EXCEPT ![q] = head[q]]
              /\ head' = [head EXCEPT ![q] = Ptr(q, head[q] + more)]
              /\ buf' = [buf EXCEPT ![q] = buf[q] \cup {Slot(q, head[q] + i) : i \in 0..more - 1}]
      BY <2>2, RingStarts
    <3>2. head[q] \in Int /\ head[q] \in Pointers(q) /\ head[q] + more \in Int
      BY RingTypes
    <3>3. Ptr(q, head[q] + more) \in Pointers(q)
      BY <3>2, Ranges
    <3>4. ASSUME NEW i \in 0..more - 1 PROVE Slot(q, head[q] + i) \in 0..Size(q) - 1
      <4>1. head[q] + i \in Int
        BY <3>2
      <4> QED
        BY <4>1, Ranges
    <3>5. buf[q] \cup {Slot(q, head[q] + i) : i \in 0..more - 1} \in SUBSET (0..Size(q) - 1)
      BY <3>4, RingTypes
    <3> QED
      BY <3>1, <3>2, <3>3, <3>5 DEF Update
  <2> QED
    BY <2>1, <2>2 DEF StartCq, StartArm, StopRing, StopCq, StopNapi, ring, dma
<1> QED
  BY <1>1, <1>2, <1>3, <1>4, <1>5, TypeKept DEF Update

\* The thread's steps on the port.
LEMMA ThreadTypes ==
    ASSUME TypeOK, SeenIsThere, Inv', StartPort \/ PortUp \/ StopQueues \/ PortDown \/ StopSleep
    PROVE  TypeOK' /\ SeenIsThere'
<1>1. /\ head' = head /\ clean' = clean /\ fetched' = fetched /\ done' = done /\ buf' = buf
      /\ cpl' = cpl /\ seen' = seen /\ armed' = armed /\ ev' = ev /\ arming' = arming /\ oops' = "no"
  BY DEF StartPort, PortUp, StopQueues, PortDown, StopSleep, Alive, ring, dma, cq, event, napi
<1>2. life' \in Nat /\ portUp' \in BOOLEAN /\ txOpen' \subseteq Tx /\ xmit' \subseteq Tx
  <2>1. life \in Nat /\ portUp \in BOOLEAN /\ txOpen \subseteq Tx /\ xmit \subseteq Tx /\ life + 1 \in Nat
    BY DEF TypeOK
  <2> QED
    BY <2>1 DEF StartPort, PortUp, StopQueues, PortDown, StopSleep, senders
<1>3. Typed' /\ calling' \in Rings \cup {None}
  BY DEF Inv, CallingFollowsPhase
<1>4. SeenIsThere'
  BY <1>1 DEF SeenIsThere
<1> QED
  BY <1>1, <1>2, <1>3, <1>4 DEF TypeOK, Typed, Pointers, Size

\* The buffers are freed, and the pointers start again.
LEMMA FreeTypes ==
    ASSUME TypeOK, SeenIsThere, Inv', FreeBuffers
    PROVE  TypeOK' /\ SeenIsThere'
<1>1. /\ fetched' = fetched /\ done' = done /\ life' = life /\ portUp' = portUp
      /\ txOpen' = txOpen /\ xmit' = xmit
      /\ cpl' = cpl /\ seen' = seen /\ armed' = armed /\ ev' = ev /\ arming' = arming /\ oops' = "no"
  BY DEF FreeBuffers, Alive, senders, dma, cq, event, napi
<1>2. Typed' /\ calling' \in Rings \cup {None}
  BY DEF Inv, CallingFollowsPhase
<1>3. SeenIsThere'
  BY <1>1 DEF SeenIsThere
<1>4. DOMAIN head' = Rings /\ DOMAIN clean' = Rings /\ \A r \in Rings : head'[r] = 0 /\ clean'[r] = 0
  BY DEF FreeBuffers
<1>5. \A r \in Rings : 0 \in Pointers(r)
  BY Sizes DEF Pointers
<1>6. DOMAIN buf' = Rings /\ \A r \in Rings : buf'[r] \subseteq buf[r]
  BY DEF FreeBuffers
<1>7. \A r \in Rings : buf'[r] \subseteq 0..Size(r) - 1
  BY <1>6 DEF TypeOK
<1>8. \A v \in {head, clean, fetched, done}' : DOMAIN v = Rings /\ \A r \in Rings : v[r] \in Pointers(r)
  BY <1>1, <1>4, <1>5 DEF TypeOK
<1> QED
  BY <1>1, <1>2, <1>3, <1>6, <1>7, <1>8 DEF TypeOK, Typed, Pointers, Size

\* At the start.
LEMMA InitTypes == Init => TypeOK /\ SeenIsThere
<1> SUFFICES ASSUME Init PROVE TypeOK /\ SeenIsThere
  OBVIOUS
<1>1. \A r \in Rings : 0 \in Pointers(r)
  BY Sizes DEF Pointers
<1>2. \A v \in {head, clean, fetched, done} : DOMAIN v = Rings /\ \A r \in Rings : v[r] \in Pointers(r)
  BY <1>1 DEF Init
<1>3. DOMAIN cpl = Rings /\ \A r \in Rings : cpl[r] = <<>> /\ cpl[r] \in Seq(0..Size(r) - 1)
  BY DEF Init
<1>4. SeenIsThere
  BY <1>3 DEF Init, SeenIsThere
<1>5. DOMAIN buf = Rings /\ \A r \in Rings : buf[r] \subseteq 0..Size(r) - 1
  BY DEF Init
<1> QED
  BY <1>2, <1>3, <1>4, <1>5 DEF Init, TypeOK

\* Every step keeps the types.
LEMMA NextTypes ==
    ASSUME Inv, TypeOK, SeenIsThere, [Next]_vars
    PROVE  TypeOK' /\ SeenIsThere'
<1>1. Inv'
  BY NextInv
<1>2. CASE Starting
  BY <1>1, <1>2, ThreadTypes, StageTypes DEF Starting
<1>3. CASE StopQueues
  BY <1>1, <1>3, ThreadTypes
<1>4. CASE Stopping
  BY <1>1, <1>4, ThreadTypes, FreeTypes, StageTypes DEF Stopping
<1>5. ASSUME NEW q \in Rings, Running(q) PROVE TypeOK' /\ SeenIsThere'
  BY <1>1, <1>5, NicTypes, EventTypes, PollTypes, RunTypes DEF Running, PollStep
<1>6. ASSUME NEW q \in Tx, XmitTest(q) \/ XmitPost(q) PROVE TypeOK' /\ SeenIsThere'
  BY <1>1, <1>6, SenderTypes
<1>7. CASE UNCHANGED vars
  BY <1>7 DEF vars, thread, senders, ring, dma, cq, event, napi, TypeOK, SeenIsThere, Pointers, Size
<1> QED
  BY <1>2, <1>3, <1>4, <1>5, <1>6, <1>7 DEF Next

\* Every variable keeps its type: no pointer leaves its width, and the driver's copy of a
\* CQ's head stays within what the CQ holds, restarts included (mqnic_cq.c:120-139).
THEOREM TypeCorrect == Spec => []TypeOK
<1>1. Init => Inv /\ TypeOK /\ SeenIsThere
  BY InitInv, InitTypes
<1>2. Inv /\ TypeOK /\ SeenIsThere /\ [Next]_vars => (Inv /\ TypeOK /\ SeenIsThere)'
  BY NextInv, NextTypes
<1> QED
  BY <1>1, <1>2, PTL DEF Spec

-----------------------------------------------------------------------------
(* What is left in a ring.  A pointer is a position modulo twice the ring's  *)
(* size: c is that of clean_tail_ptr, h that of head_ptr, t the NIC's tail.  *)

\* The buffers of a ring lie between the two pointers, which are not further apart than
\* the ring has slots; the NIC's tail, as long as a poll may run, is between them too.
\* An open transmit queue, or one with a sender inside, has room for a packet.
InPlace(q, c, h) ==
    /\ c <= h /\ h - c <= Size(q)
    /\ clean[q] = Ptr(q, c) /\ head[q] = Ptr(q, h)
    /\ buf[q] \subseteq {Slot(q, i) : i \in c..h - 1}
    /\ stage[q] \in {"ring", "unring", "uncq"} => \E t \in c..h : fetched[q] = Ptr(q, t)
    /\ q \in txOpen \cup xmit => h - c < FullSize
    /\ q \in Tx /\ phase = "starting" => h = c
    /\ phase = "down" => h = c

RingsInPlace == \A q \in Rings : \E c, h \in Int : InPlace(q, c, h)

\* No sender is inside, and no poll past its tests, before the port is up or once it is down.
Quiet ==
    /\ portUp => phase \in {"up", "closing"}
    /\ phase \in {"down", "starting"} => xmit = {} /\ \A q \in Rings : poll[q] # "loop"

\* A ring whose variables do not change stays in place, if the senders come no closer
\* and the port does not start or stop.
LEMMA StaysInPlace ==
    ASSUME NEW q \in Rings, NEW c \in Int, NEW h \in Int, InPlace(q, c, h),
           head'[q] = head[q], clean'[q] = clean[q], buf'[q] \subseteq buf[q],
           fetched'[q] = fetched[q],
           stage'[q] \in {"ring", "unring", "uncq"} => stage[q] \in {"ring", "unring", "uncq"},
           q \in txOpen' \cup xmit' => q \in txOpen \cup xmit \/ h - c < FullSize,
           phase' \in {"down", "starting"} => phase \in {"down", phase'}
    PROVE  InPlace(q, c, h)'
BY DEF InPlace, Ptr, Slot, Size, FullSize

\* The thread, and with it the port, stays where it is: the other actors keep Quiet.
LEMMA QuietKept ==
    ASSUME Inv, Inv', TypeOK, Quiet, [Next]_vars
    PROVE  Quiet'
<1>1. CASE Starting
  <2>1. CASE StartPort
    BY <2>1 DEF StartPort, Quiet, senders, napi
  <2>2. CASE PortUp
    BY <2>2 DEF PortUp, Quiet
  <2>3. ASSUME NEW q \in Rings, StartCq(q) \/ StartArm(q) \/ StartRing(q) PROVE Quiet'
    BY <2>3 DEF StartCq, StartArm, StartRing, Quiet, senders, napi
  <2> QED
    BY <1>1, <2>1, <2>2, <2>3 DEF Starting
<1>2. CASE StopQueues
  BY <1>2 DEF StopQueues, Quiet
<1>3. CASE Stopping
  <2>1. CASE PortDown \/ StopSleep
    BY <2>1 DEF PortDown, StopSleep, Quiet
  <2>2. CASE FreeBuffers
    <3>1. phase' = "down" /\ xmit' = {} /\ portUp' = portUp /\ phase = "sleep"
      BY <2>2 DEF FreeBuffers, Settled, senders
    <3>2. \A q \in Rings : poll'[q] # "loop"
      BY <3>1 DEF Inv, StagesFollowPhase, ScheduledIsServed
    <3> QED
      BY <3>1, <3>2 DEF Quiet
  <2>3. ASSUME NEW q \in Rings, StopRing(q) \/ StopCq(q) \/ StopNapi(q) PROVE Quiet'
    BY <2>3 DEF StopRing, StopCq, StopNapi, Quiet, senders, napi
  <2> QED
    BY <1>3, <2>1, <2>2, <2>3 DEF Stopping
<1>4. ASSUME NEW q \in Rings, Running(q) PROVE Quiet'
  <2>1. phase' = phase /\ portUp' = portUp /\ xmit' = xmit
    BY <1>4 DEF Running, Fetch, Complete, EventTest, EventCall, PollStep, PollNoRing, PollPortDown,
        PollReadHead, PollRun, PollComplete, ArmCq, thread, senders
  <2>2. \A r \in Rings : poll'[r] = "loop" => poll[r] = "loop" \/ portUp
    <3>1. poll' = poll \/ portUp \/ \E p \in {"off", "complete"} : poll' = [poll EXCEPT ![q] = p]
      <4>1. CASE PollRun(q)
        BY <4>1, Zenon DEF PollRun
      <4>2. CASE ~PollRun(q)
        BY <1>4, <4>2 DEF Running, Fetch, Complete, EventTest, EventCall, PollStep, PollNoRing,
            PollPortDown, PollReadHead, PollComplete, ArmCq, napi
      <4> QED
        BY <4>1, <4>2
    <3> QED
      BY <3>1 DEF TypeOK
  <2> QED
    BY <2>1, <2>2 DEF Quiet
<1>5. ASSUME NEW q \in Tx, XmitTest(q) \/ XmitPost(q) PROVE Quiet'
  BY <1>5 DEF XmitTest, XmitPost, thread, napi, Quiet
<1>6. CASE UNCHANGED vars
  BY <1>6 DEF vars, thread, senders, napi, Quiet
<1> QED
  BY <1>1, <1>2, <1>3, <1>4, <1>5, <1>6 DEF Next

\* Slots of positions move with them.
LEMMA Window ==
    ASSUME NEW q \in Rings, NEW h \in Int, NEW m \in Nat, head[q] = Ptr(q, h)
    PROVE  /\ Ptr(q, head[q] + m) = Ptr(q, h + m)
           /\ {Slot(q, head[q] + i) : i \in 0..m - 1} = {Slot(q, i) : i \in h..h + m - 1}
<1>1. Ptr(q, head[q] + m) = Ptr(q, h + m)
  BY PtrAdd
<1>2. ASSUME NEW i \in 0..m - 1 PROVE Slot(q, head[q] + i) = Slot(q, h + i) /\ h + i \in h..h + m - 1
  <2>1. i \in Int
    OBVIOUS
  <2>2. Slot(q, Ptr(q, h) + i) = Slot(q, h + i)
    BY <2>1, SlotAdd
  <2> QED
    BY <2>2
<1>3. ASSUME NEW i \in h..h + m - 1 PROVE Slot(q, i) = Slot(q, head[q] + (i - h)) /\ i - h \in 0..m - 1
  <2>1. i - h \in Int /\ i - h \in 0..m - 1 /\ h + (i - h) = i
    OBVIOUS
  <2>2. Slot(q, Ptr(q, h) + (i - h)) = Slot(q, h + (i - h))
    BY <2>1, SlotAdd
  <2> QED
    BY <2>1, <2>2
<1> QED
  BY <1>1, <1>2, <1>3

\* The same without naming the positions.
LEMMA RestsInPlace ==
    ASSUME RingsInPlace, NEW r \in Rings,
           head'[r] = head[r], clean'[r] = clean[r], buf'[r] \subseteq buf[r],
           fetched'[r] = fetched[r],
           stage'[r] \in {"ring", "unring", "uncq"} => stage[r] \in {"ring", "unring", "uncq"},
           r \in txOpen' \cup xmit' => r \in txOpen \cup xmit,
           phase' \in {"down", "starting"} => phase \in {"down", phase'}
    PROVE  \E c, h \in Int : InPlace(r, c, h)'
<1>1. PICK c \in Int, h \in Int : InPlace(r, c, h)
  BY DEF RingsInPlace
<1>2. InPlace(r, c, h)'
  BY <1>1, StaysInPlace
<1> QED
  BY <1>2

\* The NIC takes a slot: its tail stays behind the head.
LEMMA FetchPlaces ==
    ASSUME Inv, TypeOK, RingsInPlace, NEW q \in Rings, Fetch(q)
    PROVE  RingsInPlace'
<1>1. /\ head' = head /\ clean' = clean /\ buf' = buf /\ stage' = stage /\ txOpen' = txOpen
      /\ xmit' = xmit /\ phase' = phase
      /\ fetched' = [fetched EXCEPT ![q] = Ptr(q, fetched[q] + 1)]
  BY DEF Fetch, thread, senders, ring
<1>2. ASSUME NEW r \in Rings, r # q PROVE \E c, h \in Int : InPlace(r, c, h)'
  <2>1. fetched'[r] = fetched[r]
    BY <1>1, <1>2 DEF TypeOK
  <2> QED
    BY <1>1, <2>1, RestsInPlace
<1>3. \E c, h \in Int : InPlace(q, c, h)'
  <2>1. PICK c \in Int, h \in Int : InPlace(q, c, h)
    BY DEF RingsInPlace
  <2>2. PICK t \in c..h : fetched[q] = Ptr(q, t)
    BY <2>1 DEF InPlace, Fetch, HasHandler
  <2>3. t \in Int /\ t + 1 \in c..h
    <3>1. t # h
      BY <2>1, <2>2 DEF InPlace, Fetch
    <3> QED
      BY <3>1
  <2>4. fetched'[q] = Ptr(q, t + 1)
    <3>1. fetched'[q] = Ptr(q, fetched[q] + 1)
      BY <1>1 DEF TypeOK
    <3>2. Ptr(q, Ptr(q, t) + 1) = Ptr(q, t + 1)
      BY <2>3, PtrAdd
    <3> QED
      BY <2>2, <3>1, <3>2
  <2>5. InPlace(q, c, h)'
    BY <1>1, <2>1, <2>3, <2>4 DEF InPlace, Ptr, Slot, Size, FullSize
  <2> QED
    BY <2>5
<1> QED
  BY <1>2, <1>3 DEF RingsInPlace

\* A sender posts a packet: its queue had room, and is stopped if it has none left.
LEMMA PostPlaces ==
    ASSUME Inv, TypeOK, Quiet, RingsInPlace, NEW q \in Tx, XmitPost(q)
    PROVE  RingsInPlace'
<1>1. /\ q \in xmit /\ xmit' = xmit \ {q} /\ clean' = clean /\ fetched' = fetched
      /\ stage' = stage /\ phase' = phase
      /\ head' = [head EXCEPT ![q] = Ptr(q, head[q] + 1)]
      /\ buf' = [buf EXCEPT ![q] = buf[q] \cup {Slot(q, head[q])}]
      /\ txOpen' = IF Ahead(q, head'[q], clean[q]) >= FullSize THEN txOpen \ {q} ELSE txOpen
  BY DEF XmitPost, thread, dma
<1>2. q \in Rings /\ phase \notin {"down", "starting"}
  BY <1>1 DEF Rings, Quiet
<1>3. ASSUME NEW r \in Rings, r # q PROVE \E c, h \in Int : InPlace(r, c, h)'
  <2>1. head'[r] = head[r] /\ buf'[r] = buf[r] /\ (r \in txOpen' \cup xmit' => r \in txOpen \cup xmit)
    BY <1>1, <1>3 DEF TypeOK
  <2> QED
    BY <1>1, <2>1, RestsInPlace
<1>4. \E c, h \in Int : InPlace(q, c, h)'
  <2>1. PICK c \in Int, h \in Int : InPlace(q, c, h)
    BY <1>2 DEF RingsInPlace
  <2>2. c <= h /\ h - c < FullSize /\ FullSize <= Size(q) /\ FullSize \in Nat
    BY <1>1, <2>1, RingAssumption DEF InPlace, FullSize, Size
  <2>3. head'[q] = Ptr(q, h + 1) /\ clean'[q] = Ptr(q, c)
    <3>1. head'[q] = Ptr(q, head[q] + 1) /\ clean'[q] = clean[q]
      BY <1>1, <1>2 DEF TypeOK
    <3>2. Ptr(q, Ptr(q, h) + 1) = Ptr(q, h + 1)
      BY <1>2, PtrAdd
    <3> QED
      BY <2>1, <3>1, <3>2 DEF InPlace
  <2>4. buf'[q] \subseteq {Slot(q, i) : i \in c..(h + 1) - 1}
    <3>1. buf'[q] = buf[q] \cup {Slot(q, head[q])}
      BY <1>1, <1>2 DEF TypeOK
    <3>2. Slot(q, head[q]) = Slot(q, h)
      <4>1. Slot(q, Ptr(q, h)) = Slot(q, h)
        BY <1>2, SlotAdd, 0 \in Int
      <4> QED
        BY <2>1, <4>1 DEF InPlace
    <3>3. buf[q] \subseteq {Slot(q, i) : i \in c..h - 1}
      BY <2>1 DEF InPlace
    <3>4. h \in c..(h + 1) - 1 /\ c..h - 1 \subseteq c..(h + 1) - 1
      BY <2>2
    <3> QED
      BY <3>1, <3>2, <3>3, <3>4
  <2>5. q \in txOpen' \cup xmit' => (h + 1) - c < FullSize
    <3>1. (h + 1) - c \in 0..Size(q)
      BY <1>2, <2>2, Sizes
    <3>2. Ahead(q, Ptr(q, h + 1), Ptr(q, c)) = (h + 1) - c
      BY <1>2, <3>1, Gap
    <3>3. Ahead(q, head'[q], clean[q]) = (h + 1) - c
      BY <1>1, <2>3, <3>2
    <3> QED
      BY <1>1, <2>2, <3>3
  <2>6. stage'[q] \in {"ring", "unring", "uncq"} => \E t \in c..h + 1 : fetched'[q] = Ptr(q, t)
    <3>1. c..h \subseteq c..h + 1
      OBVIOUS
    <3> QED
      BY <1>1, <2>1, <3>1 DEF InPlace
  <2>7. c <= h + 1 /\ (h + 1) - c <= Size(q) /\ h + 1 \in Int
    BY <1>2, <2>2, Sizes
  <2>8. InPlace(q, c, h + 1)'
    BY <1>1, <1>2, <2>3, <2>4, <2>5, <2>6, <2>7 DEF InPlace, Ptr, Slot, Size, FullSize
  <2> QED
    BY <2>7, <2>8
<1> QED
  BY <1>3, <1>4 DEF RingsInPlace

\* A run of a poll: clean_tail_ptr passes empty slots only, no further than the NIC's
\* tail, and a refill stops before the ring is overrun.
LEMMA RunPlaces ==
    ASSUME Inv, TypeOK, Quiet, RingsInPlace, NEW q \in Rings, PollRun(q)
    PROVE  RingsInPlace'
<1>1. PICK n \in 0..seen[q], d \in 0..Ahead(q, fetched[q], clean[q]), more \in Nat,
           left \in SUBSET buf[q] : Ran(q, n, d, more, left)
  BY PollRuns
<1>2. phase' = phase /\ stage' = stage /\ xmit' = xmit /\ fetched' = fetched /\ poll[q] = "loop"
  BY DEF PollRun, thread, dma
<1>3. phase \notin {"down", "starting"} /\ stage[q] \in {"ring", "unring", "uncq"}
  BY <1>2 DEF Quiet, Inv, ScheduledIsServed
<1>4. ASSUME NEW r \in Rings, r # q PROVE \E c, h \in Int : InPlace(r, c, h)'
  <2>1. head'[r] = head[r] /\ clean'[r] = clean[r] /\ buf'[r] = buf[r]
    BY <1>1, <1>4 DEF Ran, TypeOK
  <2>2. r \in txOpen' => r \in txOpen
    BY <1>1, <1>4 DEF Ran
  <2> QED
    BY <1>2, <2>1, <2>2, RestsInPlace
<1>5. \E c, h \in Int : InPlace(q, c, h)'
  <2>1. PICK c \in Int, h \in Int : InPlace(q, c, h)
    BY DEF RingsInPlace
  <2>2. c <= h /\ h - c <= Size(q) /\ clean[q] = Ptr(q, c) /\ head[q] = Ptr(q, h)
        /\ buf[q] \subseteq {Slot(q, i) : i \in c..h - 1}
    BY <2>1 DEF InPlace
  <2>3. PICK t \in c..h : fetched[q] = Ptr(q, t)
    BY <1>3, <2>1 DEF InPlace
  <2>4. d \in Nat /\ c + d <= t
    <3>1. t - c \in 0..Size(q)
      BY <2>2, Sizes
    <3>2. Ahead(q, Ptr(q, t), Ptr(q, c)) = t - c
      BY <3>1, Gap
    <3>3. d \in 0..t - c
      BY <1>1, <2>2, <2>3, <3>2
    <3> QED
      BY <3>3
  <2>5. c + d \in Int /\ c + d <= h /\ h - (c + d) \in 0..Size(q) /\ t \in Int
    BY <2>2, <2>4, Sizes
  <2>6. Ptr(q, clean[q] + d) = Ptr(q, c + d)
    <3>1. Ptr(q, Ptr(q, c) + d) = Ptr(q, c + d)
      BY <2>4, PtrAdd
    <3> QED
      BY <2>2, <3>1
  <2>7. Ahead(q, head[q], Ptr(q, clean[q] + d)) = h - (c + d)
    <3>1. Ahead(q, Ptr(q, h), Ptr(q, c + d)) = h - (c + d)
      BY <2>5, Gap
    <3> QED
      BY <2>2, <2>6, <3>1
  <2>8. /\ Ptr(q, head[q] + more) = Ptr(q, h + more)
        /\ {Slot(q, head[q] + i) : i \in 0..more - 1} = {Slot(q, i) : i \in h..h + more - 1}
    BY <2>2, Window
  <2>9. clean'[q] = Ptr(q, c + d) /\ head'[q] = Ptr(q, h + more)
    BY <1>1, <2>6, <2>8 DEF Ran, TypeOK
  <2>10. h + more \in Int /\ c + d <= h + more /\ (h + more) - (c + d) <= Size(q)
    <3>1. more = 0 \/ more <= Size(q) - (h - (c + d))
      BY <1>1, <2>7 DEF Ran
    <3> QED
      BY <2>5, <3>1, Sizes
  <2>11. buf'[q] \subseteq {Slot(q, i) : i \in c + d..h + more - 1}
    <3>1. buf'[q] = left \cup {Slot(q, i) : i \in h..h + more - 1}
      BY <1>1, <2>8 DEF Ran, TypeOK
    <3>2. h..h + more - 1 \subseteq c + d..h + more - 1
      BY <2>5
    <3>3. ASSUME NEW s \in left PROVE s \in {Slot(q, i) : i \in c + d..h + more - 1}
      <4>1. PICK i \in c..h - 1 : s = Slot(q, i)
        BY <2>2, <3>3
      <4>2. ~(i < c + d)
        <5>1. SUFFICES ASSUME i < c + d PROVE FALSE
          OBVIOUS
        <5>2. i - c \in 0..d - 1 /\ c + (i - c) = i /\ i - c \in Int
          BY <2>4, <5>1
        <5>3. Slot(q, Ptr(q, c) + (i - c)) = Slot(q, c + (i - c))
          BY <5>2, SlotAdd
        <5>4. Slot(q, clean[q] + (i - c)) \notin left
          BY <1>1, <5>2 DEF Ran
        <5> QED
          BY <2>2, <3>3, <4>1, <5>2, <5>3, <5>4
      <4>3. i \in c + d..h + more - 1
        BY <2>4, <4>2
      <4> QED
        BY <4>1, <4>3
    <3> QED
      BY <3>1, <3>2, <3>3
  <2>12. q \in txOpen' \cup xmit' => (h + more) - (c + d) < FullSize
    <3>1. CASE q \in Tx
      <4>1. more = 0
        BY <1>1, <3>1, RingAssumption DEF Ran
      <4>2. q \in txOpen' \cup xmit' => q \in txOpen \cup xmit \/ h - (c + d) < FullSize
        BY <1>1, <1>2, <2>7 DEF Ran
      <4>3. q \in txOpen \cup xmit => h - c < FullSize
        BY <2>1 DEF InPlace
      <4>4. FullSize \in Int /\ (h - c < FullSize => h - (c + d) < FullSize)
        BY <2>4, RingAssumption DEF FullSize
      <4> QED
        BY <4>1, <4>2, <4>3, <4>4
    <3>2. CASE q \notin Tx
      <4>1. q \notin txOpen /\ q \notin xmit
        BY <3>2 DEF TypeOK
      <4>2. q \notin txOpen'
        BY <1>1, <3>2, <4>1 DEF Ran
      <4> QED
        BY <1>2, <4>1, <4>2
    <3> QED
      BY <3>1, <3>2
  <2>13. fetched'[q] = Ptr(q, t) /\ t \in c + d..h + more
    BY <1>2, <2>3, <2>4
  <2>14. InPlace(q, c + d, h + more)'
    BY <1>2, <1>3, <2>9, <2>10, <2>11, <2>12, <2>13 DEF InPlace, Ptr, Slot, Size, FullSize
  <2> QED
    BY <2>5, <2>10, <2>14
<1> QED
  BY <1>4, <1>5 DEF RingsInPlace

\* A ring starts: the NIC's tail is put at the head before the refill.
LEMMA StartPlaces ==
    ASSUME Inv, TypeOK, RingsInPlace, NEW q \in Rings, StartRing(q)
    PROVE  RingsInPlace'
<1>1. PICK more \in Nat :
          /\ more = 0 \/ (q \in Rx /\ more <= Size(q) - Ahead(q, head[q], clean[q]))
          /\ fetched' = [fetched EXCEPT ![q] = head[q]] /\ done' = [done EXCEPT ![q] = head[q]]
          /\ head' = [head EXCEPT ![q] = Ptr(q, head[q] + more)]
          /\ buf' = [buf EXCEPT ![q] = buf[q] \cup {Slot(q, head[q] + i) : i \in 0..more - 1}]
  BY RingStarts
<1>2. /\ phase' = phase /\ txOpen' = txOpen /\ xmit' = xmit /\ clean' = clean
      /\ stage[q] = "armed" /\ stage' = [stage EXCEPT ![q] = "ring"]
  BY DEF StartRing, senders
<1>3. phase = "starting"
  BY <1>2 DEF Inv, Typed, StagesFollowPhase
<1>4. ASSUME NEW r \in Rings, r # q PROVE \E c, h \in Int : InPlace(r, c, h)'
  <2>1. /\ head'[r] = head[r] /\ buf'[r] = buf[r] /\ fetched'[r] = fetched[r] /\ stage'[r] = stage[r]
    BY <1>1, <1>2, <1>4 DEF TypeOK
  <2> QED
    BY <1>2, <2>1, RestsInPlace
<1>5. \E c, h \in Int : InPlace(q, c, h)'
  <2>1. PICK c \in Int, h \in Int : InPlace(q, c, h)
    BY DEF RingsInPlace
  <2>2. /\ c <= h /\ h - c <= Size(q) /\ clean[q] = Ptr(q, c) /\ head[q] = Ptr(q, h)
        /\ buf[q] \subseteq {Slot(q, i) : i \in c..h - 1} /\ h - c \in 0..Size(q)
    BY <2>1, Sizes DEF InPlace
  <2>3. Ahead(q, head[q], clean[q]) = h - c
    <3>1. Ahead(q, Ptr(q, h), Ptr(q, c)) = h - c
      BY <2>2, Gap
    <3> QED
      BY <2>2, <3>1
  <2>4. h + more \in Int /\ c <= h + more /\ (h + more) - c <= Size(q)
    BY <1>1, <2>2, <2>3, Sizes
  <2>5. /\ Ptr(q, head[q] + more) = Ptr(q, h + more)
        /\ {Slot(q, head[q] + i) : i \in 0..more - 1} = {Slot(q, i) : i \in h..h + more - 1}
    BY <2>2, Window
  <2>6. head'[q] = Ptr(q, h + more) /\ clean'[q] = Ptr(q, c) /\ fetched'[q] = Ptr(q, h)
    BY <1>1, <1>2, <2>2, <2>5 DEF TypeOK
  <2>7. buf'[q] \subseteq {Slot(q, i) : i \in c..h + more - 1}
    <3>1. buf'[q] = buf[q] \cup {Slot(q, i) : i \in h..h + more - 1}
      BY <1>1, <2>5 DEF TypeOK
    <3>2. h..h + more - 1 \subseteq c..h + more - 1 /\ c..h - 1 \subseteq c..h + more - 1
      BY <2>2
    <3> QED
      BY <2>2, <3>1, <3>2
  <2>8. h \in c..h + more
    BY <2>2
  <2>9. /\ q \in txOpen' \cup xmit' => (h + more) - c < FullSize
        /\ q \in Tx => h + more = c
    <3>1. CASE q \in Tx
      <4>1. more = 0 /\ h = c
        BY <1>1, <1>3, <2>1, <3>1, RingAssumption DEF InPlace
      <4>2. FullSize > 0 /\ FullSize \in Int /\ (h + more) - c = 0 /\ h + more = c
        BY <4>1, RingAssumption DEF FullSize
      <4> QED
        BY <4>2
    <3>2. CASE q \notin Tx
      BY <1>2, <3>2 DEF TypeOK
    <3> QED
      BY <3>1, <3>2
  <2>10. InPlace(q, c, h + more)'
    BY <1>2, <1>3, <2>4, <2>6, <2>7, <2>8, <2>9 DEF InPlace, Ptr, Slot, Size, FullSize
  <2> QED
    BY <2>4, <2>10
<1> QED
  BY <1>4, <1>5 DEF RingsInPlace

\* The transmit queues are opened when nothing was posted yet.
LEMMA UpPlaces ==
    ASSUME Inv, TypeOK, RingsInPlace, PortUp
    PROVE  RingsInPlace'
<1>1. /\ phase = "starting" /\ phase' = "up" /\ txOpen' = Tx /\ xmit' = xmit /\ stage' = stage
      /\ head' = head /\ clean' = clean /\ buf' = buf /\ fetched' = fetched
  BY DEF PortUp, ring, dma
<1> SUFFICES ASSUME NEW r \in Rings PROVE \E c, h \in Int : InPlace(r, c, h)'
  BY DEF RingsInPlace
<1>2. PICK c \in Int, h \in Int : InPlace(r, c, h)
  BY DEF RingsInPlace
<1>3. r \in txOpen' \cup xmit' => r \in txOpen \cup xmit \/ h - c < FullSize
  <2>1. r \in Tx => h - c = 0
    BY <1>1, <1>2 DEF InPlace
  <2>2. FullSize > 0
    BY RingAssumption DEF FullSize
  <2> QED
    BY <1>1, <2>1, <2>2
<1>4. InPlace(r, c, h)'
  BY <1>1, <1>2, <1>3, StaysInPlace
<1> QED
  BY <1>4

\* What is released is all there is, and every ring starts again at zero.
LEMMA FreePlaces ==
    ASSUME Inv, TypeOK, RingsInPlace, FreeBuffers
    PROVE  RingsInPlace' /\ \A q \in Rings : buf'[q] = {}
<1>1. /\ phase = "sleep" /\ stage' = stage /\ txOpen' = txOpen /\ xmit' = xmit
      /\ DOMAIN buf' = Rings /\ \A q \in Rings : buf'[q] = buf[q] \ Released(q)
      /\ \A q \in Rings : head'[q] = 0 /\ clean'[q] = 0
  BY DEF FreeBuffers, senders
<1>2. ASSUME NEW q \in Rings PROVE buf'[q] = {}
  <2>1. PICK c \in Int, h \in Int : InPlace(q, c, h)
    BY DEF RingsInPlace
  <2>2. /\ h - c \in 0..Size(q) /\ clean[q] = Ptr(q, c) /\ head[q] = Ptr(q, h)
        /\ buf[q] \subseteq {Slot(q, i) : i \in c..h - 1}
    BY <2>1, Sizes DEF InPlace
  <2>3. Ahead(q, head[q], clean[q]) = h - c
    <3>1. Ahead(q, Ptr(q, h), Ptr(q, c)) = h - c
      BY <2>2, Gap
    <3> QED
      BY <2>2, <3>1
  <2>4. ASSUME NEW i \in c..h - 1 PROVE Slot(q, i) \in Released(q)
    <3>1. i - c \in Int /\ i - c \in 0..(h - c) - 1 /\ c + (i - c) = i
      OBVIOUS
    <3>2. Slot(q, Ptr(q, c) + (i - c)) = Slot(q, c + (i - c))
      BY <3>1, SlotAdd
    <3> QED
      BY <2>2, <2>3, <3>1, <3>2 DEF Released
  <2> QED
    BY <1>1, <2>2, <2>4
<1>3. ASSUME NEW q \in Rings PROVE InPlace(q, 0, 0)'
  <2>1. Ptr(q, 0) = 0 /\ Size(q) \in Nat
    BY Sizes DEF Ptr
  <2>2. stage'[q] = "down"
    BY <1>1 DEF Inv, StagesFollowPhase
  <2>3. q \in txOpen' \cup xmit' => 0 < FullSize
    BY RingAssumption DEF FullSize
  <2> QED
    BY <1>1, <1>2, <2>1, <2>2, <2>3 DEF InPlace, Ptr, Slot, Size, FullSize
<1> QED
  BY <1>2, <1>3, 0 \in Int, Zenon DEF RingsInPlace

\* Every other step leaves the positions alone.
LEMMA OtherPlaces ==
    ASSUME Inv, RingsInPlace,
           UNCHANGED <<head, clean, buf, fetched>>,
           \A r \in Rings : stage'[r] \in {"ring", "unring", "uncq"} => stage[r] \in {"ring", "unring", "uncq"},
           txOpen' \cup xmit' \subseteq txOpen \cup xmit,
           phase' \in {"down", "starting"} => phase \in {"down", phase'}
    PROVE  RingsInPlace'
<1> SUFFICES ASSUME NEW r \in Rings PROVE \E c, h \in Int : InPlace(r, c, h)'
  BY DEF RingsInPlace
<1> QED
  BY RestsInPlace

\* At the start every ring is empty.
LEMMA InitPlaces == Init => Quiet /\ RingsInPlace
<1> SUFFICES ASSUME Init PROVE Quiet /\ RingsInPlace
  OBVIOUS
<1>1. Quiet
  BY DEF Init, Quiet
<1>2. ASSUME NEW q \in Rings PROVE InPlace(q, 0, 0)
  <2>1. Ptr(q, 0) = 0 /\ Size(q) \in Nat
    BY Sizes DEF Ptr
  <2> QED
    BY <2>1 DEF Init, InPlace
<1> QED
  BY <1>1, <1>2, 0 \in Int, Zenon DEF RingsInPlace

\* Every step keeps the rings in place.
LEMMA NextPlaces ==
    ASSUME Inv, TypeOK, Quiet, RingsInPlace, [Next]_vars
    PROVE  RingsInPlace'
<1>1. CASE Starting
  <2>1. CASE StartPort
    <3>1. /\ UNCHANGED <<head, clean, buf, fetched, stage, txOpen, xmit>> /\ phase = "down"
      BY <2>1 DEF StartPort, senders, ring, dma
    <3> QED
      BY <3>1, OtherPlaces
  <2>2. ASSUME NEW q \in Rings, StartCq(q) \/ StartArm(q) PROVE RingsInPlace'
    <3>1. /\ UNCHANGED <<head, clean, buf, fetched, txOpen, xmit, phase>>
          /\ stage' = [stage EXCEPT ![q] = "cq"] \/ stage' = [stage EXCEPT ![q] = "armed"]
      BY <2>2 DEF StartCq, StartArm, senders, ring, dma
    <3>2. \A r \in Rings : stage'[r] \in {"ring", "unring", "uncq"} => stage[r] \in {"ring", "unring", "uncq"}
      BY <3>1 DEF TypeOK
    <3> QED
      BY <3>1, <3>2, OtherPlaces
  <2> QED
    BY <1>1, <2>1, <2>2, UpPlaces, StartPlaces DEF Starting
<1>2. CASE StopQueues
  <2>1. UNCHANGED <<head, clean, buf, fetched, stage>> /\ txOpen' = {} /\ xmit' = xmit /\ phase' = "closing"
    BY <1>2 DEF StopQueues, ring, dma
  <2> QED
    BY <2>1, OtherPlaces
<1>3. CASE Stopping
  <2>1. CASE PortDown \/ StopSleep
    <3>1. /\ UNCHANGED <<head, clean, buf, fetched, stage, txOpen, xmit>>
          /\ phase' \in {"stopping", "sleep"}
      BY <2>1 DEF PortDown, StopSleep, senders, ring, dma
    <3> QED
      BY <3>1, OtherPlaces
  <2>2. ASSUME NEW q \in Rings, StopRing(q) \/ StopCq(q) \/ StopNapi(q) PROVE RingsInPlace'
    <3>1. /\ UNCHANGED <<head, clean, buf, fetched, txOpen, xmit, phase>>
          /\ \/ stage[q] \in {"ring", "unring"} /\ \E s \in {"unring", "uncq"} : stage' = [stage EXCEPT ![q] = s]
             \/ stage' = [stage EXCEPT ![q] = "down"]
      BY <2>2 DEF StopRing, StopCq, StopNapi, senders, ring, dma
    <3>2. \A r \in Rings : stage'[r] \in {"ring", "unring", "uncq"} => stage[r] \in {"ring", "unring", "uncq"}
      BY <3>1 DEF TypeOK
    <3> QED
      BY <3>1, <3>2, OtherPlaces
  <2> QED
    BY <1>3, <2>1, <2>2, FreePlaces DEF Stopping
<1>4. ASSUME NEW q \in Rings, Running(q) PROVE RingsInPlace'
  <2>1. CASE Fetch(q)
    BY <2>1, FetchPlaces
  <2>2. CASE PollRun(q)
    BY <2>2, RunPlaces
  <2>3. CASE ~Fetch(q) /\ ~PollRun(q)
    <3>1. UNCHANGED <<head, clean, buf, fetched, stage, txOpen, xmit, phase>>
      BY <1>4, <2>3 DEF Running, Complete, EventTest, EventCall, PollStep, PollNoRing, PollPortDown,
          PollReadHead, PollComplete, ArmCq, thread, senders, ring, dma
    <3> QED
      BY <3>1, OtherPlaces
  <2> QED
    BY <2>1, <2>2, <2>3
<1>5. ASSUME NEW q \in Tx, XmitTest(q) \/ XmitPost(q) PROVE RingsInPlace'
  <2>1. CASE XmitTest(q)
    <3>1. UNCHANGED <<head, clean, buf, fetched, stage, txOpen, phase>> /\ q \in txOpen /\ xmit' = xmit \cup {q}
      BY <2>1 DEF XmitTest, thread, ring, dma
    <3> QED
      BY <3>1, OtherPlaces
  <2>2. CASE XmitPost(q)
    BY <2>2, PostPlaces
  <2> QED
    BY <1>5, <2>1, <2>2
<1>6. CASE UNCHANGED vars
  <2>1. UNCHANGED <<head, clean, buf, fetched, stage, txOpen, xmit, phase>>
    BY <1>6 DEF vars, thread, senders, ring, dma
  <2> QED
    BY <2>1, OtherPlaces
<1> QED
  BY <1>1, <1>2, <1>3, <1>4, <1>5, <1>6 DEF Next

\* Once the port is stopped no ring holds a packet or a page, whatever the sizes, the budget
\* and the threshold: what mqnic_free_tx_buf and mqnic_free_rx_buf walk over is everything
\* that was posted and not yet cleaned, the packet of a sender that a late poll let in after
\* netif_tx_disable included (mqnic_netdev.c:118-160, mqnic_tx.c:340).
THEOREM NothingLeftHeld == Spec => []NothingHeld
<1> DEFINE All == Inv /\ TypeOK /\ SeenIsThere /\ Quiet /\ RingsInPlace
<1>1. Init => All
  BY InitInv, InitTypes, InitPlaces
<1>2. All /\ [Next]_vars => All'
  BY NextInv, NextTypes, QuietKept, NextPlaces
<1>3. All => NothingHeld
  <2> SUFFICES ASSUME All, phase = "down", NEW q \in Rings PROVE buf[q] = {}
    BY DEF NothingHeld
  <2>1. PICK c \in Int, h \in Int : InPlace(q, c, h)
    BY DEF RingsInPlace
  <2> QED
    BY <2>1 DEF InPlace
<1> QED
  BY <1>1, <1>2, <1>3, PTL DEF Spec

-----------------------------------------------------------------------------
(* What the NIC may use and what the polls will find, across restarts.       *)

\* A CQ that is about to be started holds nothing its driver has seen: whatever the last life
\* left in it was processed or is forgotten.  (Otherwise the restart finds stale completions;
\* the run port_lifecycle_stale has that case.)
CleanStart == \A q \in Rings : phase = "starting" /\ stage[q] = "down" => seen[q] = 0

\* Positions less than a ring apart have different slots.
LEMMA SlotsDiffer ==
    ASSUME NEW q \in Rings, NEW i \in Int, NEW j \in Int, i < j, j - i < Size(q)
    PROVE  Slot(q, i) # Slot(q, j)
<1>1. Size(q) \in Nat /\ Size(q) > 0
  BY Sizes
<1>2. SUFFICES ASSUME i % Size(q) = j % Size(q) PROVE FALSE
  BY DEF Slot
<1>3. ((j % Size(q)) - (i % Size(q))) % Size(q) = (j - i) % Size(q)
  BY <1>1, ModDifference, Zenon
<1>4. (j - i) % Size(q) = j - i
  BY <1>1
<1>5. (j % Size(q)) - (i % Size(q)) = 0
  <2>1. j % Size(q) \in Int
    BY <1>1
  <2> QED
    BY <1>2, <2>1
<1>6. 0 % Size(q) = 0
  BY <1>1
<1>7. (j - i) % Size(q) = 0
  BY <1>3, <1>5, <1>6, Zenon
<1> QED
  BY <1>4, <1>7

\* The ring belongs to this life: it was started and its buffers are not freed yet.
Live(q) == stage[q] \in {"ring", "unring", "uncq"} \/ (stage[q] = "down" /\ phase \in {"stopping", "sleep"})

\* The NIC has completed up to d and taken up to t.  What it has not completed has its
\* packet or page, and so has what its CQ names, each slot once.
Tracked(q, c, d, t, h) ==
    /\ c <= d /\ d <= t /\ t <= h /\ h - c <= Size(q)
    /\ clean[q] = Ptr(q, c) /\ done[q] = Ptr(q, d) /\ fetched[q] = Ptr(q, t) /\ head[q] = Ptr(q, h)
    /\ \A i \in d..h - 1 : Slot(q, i) \in buf[q]
    /\ stage[q] # "down" =>
          /\ \A i \in 1..Len(cpl[q]) : cpl[q][i] \in buf[q] /\ \E p \in c..d - 1 : cpl[q][i] = Slot(q, p)
          /\ \A i, j \in 1..Len(cpl[q]) : cpl[q][i] = cpl[q][j] => i = j

\* A ring that is not started has no buffer and nothing under way; its CQ, once active, is empty.
AtRest(q) ==
    /\ done[q] = fetched[q] /\ buf[q] = {} /\ head[q] = clean[q]
    /\ stage[q] # "down" => cpl[q] = <<>>

Followed(q) == IF Live(q) THEN \E c, d, t, h \in Int : Tracked(q, c, d, t, h) ELSE AtRest(q)
BuffersFollowed == \A q \in Rings : Followed(q)

\* What makes every start clean: the port is started once only, or a poll may process all
\* that a CQ holds, and then leaves nothing behind.
NothingStale == Lives <= 1 \/ (TxSize <= Budget /\ RxSize <= Budget)

NoneLeft ==
    /\ phase # "down" => life > 0
    /\ \A q \in Rings :
          /\ Len(cpl[q]) <= Size(q)
          /\ Size(q) <= Budget /\ poll[q] # "loop" => seen[q] = 0
          /\ stage[q] = "down" /\ (phase = "starting" \/ (phase = "down" /\ life < Lives)) => seen[q] = 0

\* What appending does to a sequence.
LEMMA Appended ==
    ASSUME NEW S, NEW s \in Seq(S), NEW e
    PROVE  /\ Len(Append(s, e)) = Len(s) + 1 /\ Len(s) \in Nat
           /\ \A i \in 1..Len(s) : Append(s, e)[i] = s[i]
           /\ Append(s, e)[Len(s) + 1] = e
OBVIOUS

\* A ring none of whose variables change is followed as before, whatever stage it is taken to,
\* if it stays started or stays stopped.
LEMMA StaysFollowed ==
    ASSUME NEW r \in Rings, Followed(r),
           head'[r] = head[r], clean'[r] = clean[r], buf'[r] = buf[r], fetched'[r] = fetched[r],
           done'[r] = done[r], cpl'[r] = cpl[r], Live(r)' <=> Live(r),
           stage'[r] # "down" => stage[r] # "down"
    PROVE  Followed(r)'
<1>1. CASE Live(r)
  <2>1. PICK c \in Int, d \in Int, t \in Int, h \in Int : Tracked(r, c, d, t, h)
    BY <1>1 DEF Followed
  <2>2. /\ c <= d /\ d <= t /\ t <= h /\ h - c <= Size(r)
        /\ clean'[r] = Ptr(r, c) /\ done'[r] = Ptr(r, d) /\ fetched'[r] = Ptr(r, t) /\ head'[r] = Ptr(r, h)
        /\ \A i \in d..h - 1 : Slot(r, i) \in buf'[r]
    BY <2>1, Zenon DEF Tracked
  <2>3. stage'[r] # "down" =>
           /\ \A i \in 1..Len(cpl'[r]) : cpl'[r][i] \in buf'[r] /\ \E p \in c..d - 1 : cpl'[r][i] = Slot(r, p)
           /\ \A i, j \in 1..Len(cpl'[r]) : cpl'[r][i] = cpl'[r][j] => i = j
    <3>1. stage[r] # "down" =>
             /\ \A i \in 1..Len(cpl[r]) : cpl[r][i] \in buf[r] /\ \E p \in c..d - 1 : cpl[r][i] = Slot(r, p)
             /\ \A i, j \in 1..Len(cpl[r]) : cpl[r][i] = cpl[r][j] => i = j
      BY <2>1, Zenon DEF Tracked
    <3> QED
      BY <3>1
  <2>4. Tracked(r, c, d, t, h)'
    BY <2>2, <2>3, Zenon DEF Tracked, Ptr, Slot, Size
  <2> QED
    BY <1>1, <2>4 DEF Followed
<1>2. CASE ~Live(r)
  <2>1. AtRest(r)'
    BY <1>2 DEF Followed, AtRest
  <2> QED
    BY <1>2, <2>1 DEF Followed
<1> QED
  BY <1>1, <1>2

\* The NIC takes a slot.
LEMMA FetchFollows ==
    ASSUME Inv, TypeOK, BuffersFollowed, NEW q \in Rings, Fetch(q)
    PROVE  BuffersFollowed'
<1>1. /\ head' = head /\ clean' = clean /\ buf' = buf /\ stage' = stage /\ done' = done /\ cpl' = cpl
      /\ phase' = phase /\ fetched' = [fetched EXCEPT ![q] = Ptr(q, fetched[q] + 1)]
      /\ stage[q] = "ring" /\ fetched[q] # head[q]
  BY DEF Fetch, thread, ring, cq, HasHandler
<1>2. \A r \in Rings : Live(r)' <=> Live(r)
  BY <1>1 DEF Live
<1>3. ASSUME NEW r \in Rings, r # q PROVE Followed(r)'
  <2>1. fetched'[r] = fetched[r]
    BY <1>1, <1>3 DEF TypeOK
  <2> QED
    BY <1>1, <1>2, <2>1, StaysFollowed DEF BuffersFollowed
<1>4. Followed(q)'
  <2>1. Live(q) /\ Live(q)'
    BY <1>1, <1>2 DEF Live
  <2>2. PICK c \in Int, d \in Int, t \in Int, h \in Int : Tracked(q, c, d, t, h)
    BY <2>1 DEF Followed, BuffersFollowed
  <2>3. t # h
    BY <1>1, <2>2 DEF Tracked
  <2>4. fetched'[q] = Ptr(q, t + 1)
    <3>1. fetched'[q] = Ptr(q, fetched[q] + 1)
      BY <1>1 DEF TypeOK
    <3>2. Ptr(q, Ptr(q, t) + 1) = Ptr(q, t + 1)
      BY PtrAdd, 1 \in Int
    <3> QED
      BY <2>2, <3>1, <3>2 DEF Tracked
  <2>5. t + 1 \in Int /\ d <= t + 1 /\ t + 1 <= h
    BY <2>2, <2>3 DEF Tracked
  <2>6. Tracked(q, c, d, t + 1, h)'
    BY <1>1, <2>2, <2>4, <2>5 DEF Tracked, Ptr, Slot, Size
  <2> QED
    BY <2>1, <2>5, <2>6 DEF Followed
<1> QED
  BY <1>3, <1>4 DEF BuffersFollowed

\* The NIC completes a slot it has taken; the CQ names it if it is active and not full.
LEMMA CompleteFollows ==
    ASSUME Inv, TypeOK, BuffersFollowed, NEW q \in Rings, Complete(q)
    PROVE  BuffersFollowed'
<1>1. /\ head' = head /\ clean' = clean /\ buf' = buf /\ stage' = stage /\ fetched' = fetched
      /\ phase' = phase /\ done' = [done EXCEPT ![q] = Ptr(q, done[q] + 1)]
      /\ done[q] # fetched[q]
      /\ cpl' = cpl \/ cpl' = [cpl EXCEPT ![q] = Append(cpl[q], Slot(q, done[q]))]
  BY DEF Complete, thread, ring
<1>2. \A r \in Rings : Live(r)' <=> Live(r)
  BY <1>1 DEF Live
<1>3. ASSUME NEW r \in Rings, r # q PROVE Followed(r)'
  <2>1. done'[r] = done[r] /\ cpl'[r] = cpl[r]
    BY <1>1, <1>3 DEF TypeOK
  <2> QED
    BY <1>1, <1>2, <2>1, StaysFollowed DEF BuffersFollowed
<1>4. Followed(q)'
  <2>1. Live(q) /\ Live(q)'
    BY <1>1, <1>2 DEF BuffersFollowed, Followed, AtRest
  <2>2. PICK c \in Int, d \in Int, t \in Int, h \in Int : Tracked(q, c, d, t, h)
    BY <2>1 DEF Followed, BuffersFollowed
  <2>3. d # t
    BY <1>1, <2>2 DEF Tracked
  <2>4. d + 1 \in Int /\ c <= d + 1 /\ d + 1 <= t /\ d \in d..h - 1 /\ c <= d /\ h - c <= Size(q) /\ d < h
    BY <2>2, <2>3 DEF Tracked
  <2>5. done'[q] = Ptr(q, d + 1)
    <3>1. done'[q] = Ptr(q, done[q] + 1)
      BY <1>1 DEF TypeOK
    <3>2. Ptr(q, Ptr(q, d) + 1) = Ptr(q, d + 1)
      BY PtrAdd, 1 \in Int
    <3> QED
      BY <2>2, <3>1, <3>2 DEF Tracked
  <2>6. Slot(q, done[q]) = Slot(q, d) /\ Slot(q, d) \in buf[q]
    <3>1. Slot(q, Ptr(q, d)) = Slot(q, d)
      BY SlotAdd, 0 \in Int
    <3> QED
      BY <2>2, <2>4, <3>1 DEF Tracked
  <2>7. ASSUME stage[q] # "down"
        PROVE  /\ \A i \in 1..Len(cpl'[q]) : cpl'[q][i] \in buf[q] /\ \E p \in c..(d + 1) - 1 : cpl'[q][i] = Slot(q, p)
               /\ \A i, j \in 1..Len(cpl'[q]) : cpl'[q][i] = cpl'[q][j] => i = j
    <3>1. /\ \A i \in 1..Len(cpl[q]) : cpl[q][i] \in buf[q] /\ \E p \in c..d - 1 : cpl[q][i] = Slot(q, p)
          /\ \A i, j \in 1..Len(cpl[q]) : cpl[q][i] = cpl[q][j] => i = j
      BY <2>2, <2>7 DEF Tracked
    <3>2. \A i \in 1..Len(cpl[q]) : cpl[q][i] # Slot(q, d)
      <4> SUFFICES ASSUME NEW i \in 1..Len(cpl[q]) PROVE cpl[q][i] # Slot(q, d)
        OBVIOUS
      <4>1. PICK p \in c..d - 1 : cpl[q][i] = Slot(q, p)
        BY <3>1
      <4>2. p < d /\ d - p < Size(q) /\ p \in Int
        BY <2>4, Sizes
      <4> QED
        BY <4>1, <4>2, SlotsDiffer
    <3>3. c..d - 1 \subseteq c..(d + 1) - 1 /\ d \in c..(d + 1) - 1
      BY <2>4
    <3>4. CASE cpl' = cpl
      BY <3>1, <3>3, <3>4
    <3>5. CASE cpl' = [cpl EXCEPT ![q] = Append(cpl[q], Slot(q, done[q]))]
      <4>1. cpl'[q] = Append(cpl[q], Slot(q, d)) /\ cpl[q] \in Seq(0..Size(q) - 1)
        BY <2>6, <3>5, RingTypes DEF TypeOK
      <4>2. /\ Len(cpl'[q]) = Len(cpl[q]) + 1 /\ Len(cpl[q]) \in Nat
            /\ \A i \in 1..Len(cpl[q]) : cpl'[q][i] = cpl[q][i]
            /\ cpl'[q][Len(cpl[q]) + 1] = Slot(q, d)
        BY <4>1, Appended
      <4>3. \A i \in 1..Len(cpl'[q]) : i \in 1..Len(cpl[q]) \/ i = Len(cpl[q]) + 1
        BY <4>2
      <4>4. ASSUME NEW i \in 1..Len(cpl'[q])
            PROVE  cpl'[q][i] \in buf[q] /\ \E p \in c..(d + 1) - 1 : cpl'[q][i] = Slot(q, p)
        <5>1. CASE i \in 1..Len(cpl[q])
          <6>1. cpl'[q][i] = cpl[q][i]
            BY <4>2, <5>1
          <6>2. PICK p \in c..d - 1 : cpl[q][i] = Slot(q, p)
            BY <3>1, <5>1
          <6>3. p \in c..(d + 1) - 1
            BY <3>3
          <6> QED
            BY <3>1, <5>1, <6>1, <6>2, <6>3
        <5>2. CASE i = Len(cpl[q]) + 1
          BY <2>6, <3>3, <4>2, <5>2
        <5> QED
          BY <4>3, <5>1, <5>2
      <4>5. ASSUME NEW i \in 1..Len(cpl'[q]), NEW j \in 1..Len(cpl'[q]), cpl'[q][i] = cpl'[q][j] PROVE i = j
        BY <3>1, <3>2, <4>2, <4>3, <4>5
      <4> QED
        BY <4>4, <4>5
    <3> QED
      BY <1>1, <3>4, <3>5
  <2>8. \A i \in d + 1..h - 1 : Slot(q, i) \in buf[q]
    <3>1. d + 1..h - 1 \subseteq d..h - 1
      OBVIOUS
    <3> QED
      BY <2>2, <3>1 DEF Tracked
  <2>9. Tracked(q, c, d + 1, t, h)'
    BY <1>1, <2>2, <2>4, <2>5, <2>7, <2>8 DEF Tracked, Ptr, Slot, Size
  <2> QED
    BY <2>1, <2>4, <2>9 DEF Followed
<1> QED
  BY <1>3, <1>4 DEF BuffersFollowed

\* A sender posts: its ring is started, and has a slot left.
LEMMA PostFollows ==
    ASSUME Inv, TypeOK, Quiet, RingsInPlace, BuffersFollowed, NEW q \in Tx, XmitPost(q)
    PROVE  BuffersFollowed'
<1>1. /\ q \in xmit /\ clean' = clean /\ fetched' = fetched /\ done' = done /\ cpl' = cpl
      /\ stage' = stage /\ phase' = phase
      /\ head' = [head EXCEPT ![q] = Ptr(q, head[q] + 1)]
      /\ buf' = [buf EXCEPT ![q] = buf[q] \cup {Slot(q, head[q])}]
  BY DEF XmitPost, thread, dma, cq
<1>2. q \in Rings /\ phase \notin {"down", "starting"}
  BY <1>1 DEF Rings, Quiet
<1>3. \A r \in Rings : Live(r)' <=> Live(r)
  BY <1>1 DEF Live
<1>4. ASSUME NEW r \in Rings, r # q PROVE Followed(r)'
  <2>1. head'[r] = head[r] /\ buf'[r] = buf[r]
    BY <1>1, <1>4 DEF TypeOK
  <2> QED
    BY <1>1, <1>3, <2>1, StaysFollowed DEF BuffersFollowed
<1>5. Followed(q)'
  <2>1. Live(q) /\ Live(q)'
    BY <1>2, <1>3 DEF Live, Inv, Typed, StagesFollowPhase
  <2>2. PICK c \in Int, d \in Int, t \in Int, h \in Int : Tracked(q, c, d, t, h)
    BY <1>2, <2>1 DEF Followed, BuffersFollowed
  <2>3. h - c < FullSize /\ FullSize <= Size(q) /\ FullSize \in Nat /\ Size(q) \in Nat
    <3>1. PICK b \in Int, g \in Int : InPlace(q, b, g)
      BY <1>2 DEF RingsInPlace
    <3>2. g - b \in 0..Size(q) /\ h - c \in 0..Size(q)
      BY <1>2, <2>2, <3>1, Sizes DEF InPlace, Tracked
    <3>3. Ahead(q, Ptr(q, g), Ptr(q, b)) = g - b /\ Ahead(q, Ptr(q, h), Ptr(q, c)) = h - c
      BY <1>2, <3>2, Gap
    <3>4. Ptr(q, g) = Ptr(q, h) /\ Ptr(q, b) = Ptr(q, c)
      <4>1. head[q] = Ptr(q, g) /\ clean[q] = Ptr(q, b)
        BY <3>1 DEF InPlace
      <4>2. head[q] = Ptr(q, h) /\ clean[q] = Ptr(q, c)
        BY <2>2 DEF Tracked
      <4> QED
        BY <4>1, <4>2
    <3>5. g - b = h - c
      BY <3>3, <3>4
    <3>6. g - b < FullSize
      BY <1>1, <3>1 DEF InPlace
    <3>7. FullSize <= Size(q) /\ FullSize \in Nat /\ Size(q) \in Nat
      BY RingAssumption DEF FullSize, Size
    <3> QED
      BY <3>5, <3>6, <3>7
  <2>4. head'[q] = Ptr(q, h + 1) /\ buf'[q] = buf[q] \cup {Slot(q, h)}
    <3>1. head'[q] = Ptr(q, head[q] + 1) /\ buf'[q] = buf[q] \cup {Slot(q, head[q])} /\ head[q] = Ptr(q, h)
      BY <1>1, <1>2, <2>2 DEF TypeOK, Tracked
    <3>2. Ptr(q, Ptr(q, h) + 1) = Ptr(q, h + 1) /\ Slot(q, Ptr(q, h)) = Slot(q, h)
      BY <1>2, PtrAdd, SlotAdd, 0 \in Int, 1 \in Int
    <3> QED
      BY <3>1, <3>2
  <2>5. \A i \in d..(h + 1) - 1 : Slot(q, i) \in buf'[q]
    <3> SUFFICES ASSUME NEW i \in d..(h + 1) - 1 PROVE Slot(q, i) \in buf'[q]
      OBVIOUS
    <3>1. i \in d..h - 1 \/ i = h
      OBVIOUS
    <3> QED
      BY <2>2, <2>4, <3>1 DEF Tracked
  <2>6. h + 1 \in Int /\ t <= h + 1 /\ (h + 1) - c <= Size(q)
    BY <2>2, <2>3 DEF Tracked
  <2>7. buf[q] \subseteq buf'[q]
    BY <2>4
  <2>8. Tracked(q, c, d, t, h + 1)'
    BY <1>1, <2>2, <2>4, <2>5, <2>6, <2>7 DEF Tracked, Ptr, Slot, Size
  <2> QED
    BY <2>1, <2>6, <2>8 DEF Followed
<1> QED
  BY <1>4, <1>5 DEF BuffersFollowed

\* A ring starts, with its CQ empty and nothing under way.
LEMMA StartFollows ==
    ASSUME Inv, TypeOK, BuffersFollowed, NEW q \in Rings, StartRing(q)
    PROVE  BuffersFollowed'
<1>1. PICK more \in Nat :
          /\ more = 0 \/ (q \in Rx /\ more <= Size(q) - Ahead(q, head[q], clean[q]))
          /\ fetched' = [fetched EXCEPT ![q] = head[q]] /\ done' = [done EXCEPT ![q] = head[q]]
          /\ head' = [head EXCEPT ![q] = Ptr(q, head[q] + more)]
          /\ buf' = [buf EXCEPT ![q] = buf[q] \cup {Slot(q, head[q] + i) : i \in 0..more - 1}]
  BY RingStarts
<1>2. /\ phase' = phase /\ clean' = clean /\ cpl' = cpl
      /\ stage[q] = "armed" /\ stage' = [stage EXCEPT ![q] = "ring"]
  BY DEF StartRing, cq
<1>3. ASSUME NEW r \in Rings, r # q PROVE Followed(r)'
  <2>1. /\ head'[r] = head[r] /\ buf'[r] = buf[r] /\ fetched'[r] = fetched[r] /\ stage'[r] = stage[r]
        /\ done'[r] = done[r]
    BY <1>1, <1>2, <1>3 DEF TypeOK
  <2>2. Live(r)' <=> Live(r)
    BY <1>2, <2>1 DEF Live
  <2> QED
    BY <1>2, <2>1, <2>2, StaysFollowed DEF BuffersFollowed
<1>4. Followed(q)'
  <2>1. AtRest(q)
    BY <1>2 DEF BuffersFollowed, Followed, Live
  <2>2. stage'[q] = "ring" /\ Live(q)'
    BY <1>2 DEF TypeOK, Live
  <2>3. PICK h \in Int : h = head[q]
    BY RingTypes
  <2>4. Ptr(q, h) = h /\ h \in Int /\ h - h = 0
    <3>1. h \in 0..2 * Size(q) - 1 /\ 2 * Size(q) \in Nat /\ 2 * Size(q) > 0
      BY <2>3, RingTypes, Sizes DEF Pointers
    <3>2. \A m \in Nat : m > 0 => \A x \in 0..m - 1 : x % m = x
      OBVIOUS
    <3>3. h % (2 * Size(q)) = h
      BY <3>1, <3>2, Zenon
    <3> QED
      BY <3>3 DEF Ptr
  <2>5. head[q] = Ptr(q, h) /\ clean[q] = Ptr(q, h)
    BY <2>1, <2>3, <2>4 DEF AtRest
  <2>6. Ahead(q, head[q], clean[q]) = 0
    <3>1. h - h \in 0..Size(q)
      BY <2>4, Sizes
    <3>2. Ahead(q, Ptr(q, h), Ptr(q, h)) = h - h
      BY <3>1, Gap
    <3> QED
      BY <2>4, <2>5, <3>2
  <2>7. more <= Size(q) /\ h + more \in Int /\ h <= h + more /\ (h + more) - h <= Size(q)
    BY <1>1, <2>6, Sizes
  <2>8. /\ Ptr(q, head[q] + more) = Ptr(q, h + more)
        /\ {Slot(q, head[q] + i) : i \in 0..more - 1} = {Slot(q, i) : i \in h..h + more - 1}
    BY <2>5, Window
  <2>9. /\ head'[q] = Ptr(q, h + more) /\ clean'[q] = Ptr(q, h) /\ fetched'[q] = Ptr(q, h)
        /\ done'[q] = Ptr(q, h) /\ buf'[q] = buf[q] \cup {Slot(q, i) : i \in h..h + more - 1}
    BY <1>1, <1>2, <2>5, <2>8 DEF TypeOK
  <2>10. \A i \in h..(h + more) - 1 : Slot(q, i) \in buf'[q]
    BY <2>9
  <2>11. Len(cpl'[q]) = 0
    BY <1>2, <2>1 DEF AtRest
  <2>12. Tracked(q, h, h, h, h + more)'
    BY <2>7, <2>9, <2>10, <2>11 DEF Tracked, Ptr, Slot, Size
  <2> QED
    BY <2>2, <2>7, <2>12 DEF Followed
<1> QED
  BY <1>3, <1>4 DEF BuffersFollowed

\* A poll takes the packets or pages its completions name: completed ones, each once.
LEMMA RunFollows ==
    ASSUME Inv, TypeOK, SeenIsThere, Quiet, BuffersFollowed, NEW q \in Rings, PollRun(q)
    PROVE  BuffersFollowed'
<1>1. PICK n \in 0..seen[q], e \in 0..Ahead(q, fetched[q], clean[q]), more \in Nat,
           left \in SUBSET buf[q] : Ran(q, n, e, more, left) /\ Took(q, n, left)
  BY PollRuns
<1>2. phase' = phase /\ stage' = stage /\ fetched' = fetched /\ done' = done /\ poll[q] = "loop"
  BY DEF PollRun, thread, dma
<1>3. stage[q] \in {"ring", "unring", "uncq"} /\ Live(q) /\ \A r \in Rings : Live(r)' <=> Live(r)
  BY <1>2 DEF Live, Inv, ScheduledIsServed
<1>4. ASSUME NEW r \in Rings, r # q PROVE Followed(r)'
  <2>1. head'[r] = head[r] /\ clean'[r] = clean[r] /\ buf'[r] = buf[r] /\ cpl'[r] = cpl[r]
    BY <1>1, <1>4 DEF Ran, TypeOK
  <2> QED
    BY <1>2, <1>3, <2>1, StaysFollowed DEF BuffersFollowed
<1>5. Followed(q)'
  <2>1. PICK c \in Int, d \in Int, t \in Int, h \in Int : Tracked(q, c, d, t, h)
    BY <1>3 DEF Followed, BuffersFollowed
  <2>2. /\ c <= d /\ d <= t /\ t <= h /\ h - c <= Size(q) /\ Size(q) \in Nat
        /\ clean[q] = Ptr(q, c) /\ done[q] = Ptr(q, d) /\ fetched[q] = Ptr(q, t) /\ head[q] = Ptr(q, h)
        /\ \A i \in d..h - 1 : Slot(q, i) \in buf[q]
    BY <2>1, Sizes DEF Tracked
  <2>3. /\ \A i \in 1..Len(cpl[q]) : cpl[q][i] \in buf[q] /\ \E p \in c..d - 1 : cpl[q][i] = Slot(q, p)
        /\ \A i, j \in 1..Len(cpl[q]) : cpl[q][i] = cpl[q][j] => i = j
    BY <1>3, <2>1 DEF Tracked
  <2>4. n \in Nat /\ n <= Len(cpl[q]) /\ Len(cpl[q]) \in Nat
    <3>1. seen[q] \in Nat /\ Len(cpl[q]) \in Nat /\ seen[q] <= Len(cpl[q])
      BY RingTypes DEF SeenIsThere
    <3>2. \A k, m \in Nat : \A x \in 0..k : k <= m => x \in Nat /\ x <= m
      OBVIOUS
    <3> QED
      BY <3>1, <3>2, Zenon
  <2>5. left = buf[q] \ {cpl[q][i] : i \in 1..n}
    BY <1>1 DEF Took
  <2>6. \A i \in d..h - 1 : Slot(q, i) \in left
    <3> SUFFICES ASSUME NEW i \in d..h - 1, NEW j \in 1..n PROVE cpl[q][j] # Slot(q, i)
      BY <2>2, <2>5
    <3>1. PICK p \in c..d - 1 : cpl[q][j] = Slot(q, p)
      <4>1. j \in 1..Len(cpl[q])
        BY <2>4
      <4> QED
        BY <2>3, <4>1
    <3>2. p < i /\ i - p < Size(q) /\ p \in Int /\ i \in Int
      BY <2>2
    <3> QED
      BY <3>1, <3>2, SlotsDiffer
  <2>7. /\ Len(cpl'[q]) = Len(cpl[q]) - n
        /\ \A i \in 1..Len(cpl[q]) - n : cpl'[q][i] = cpl[q][n + i]
    <3>1. cpl'[q] = SubSeq(cpl[q], n + 1, Len(cpl[q])) /\ cpl[q] \in Seq(0..Size(q) - 1)
      BY <1>1, RingTypes DEF Ran, TypeOK
    <3>2. /\ Len(SubSeq(cpl[q], n + 1, Len(cpl[q]))) = Len(cpl[q]) - n
          /\ \A i \in 1..Len(cpl[q]) - n : SubSeq(cpl[q], n + 1, Len(cpl[q]))[i] = cpl[q][n + i]
      BY <2>4, <3>1, Rest, Zenon
    <3> QED
      BY <3>1, <3>2, Zenon
  <2>8. \A i \in 1..Len(cpl'[q]) : n + i \in 1..Len(cpl[q]) /\ n + i \notin 1..n /\ cpl'[q][i] = cpl[q][n + i]
    BY <2>4, <2>7
  <2>9. \A i \in 1..Len(cpl'[q]) : cpl'[q][i] \in left
    <3> SUFFICES ASSUME NEW i \in 1..Len(cpl'[q]) PROVE cpl'[q][i] \in left
      OBVIOUS
    <3>1. cpl[q][n + i] \in buf[q]
      BY <2>3, <2>8
    <3>2. \A j \in 1..n : cpl[q][j] # cpl[q][n + i]
      <4> SUFFICES ASSUME NEW j \in 1..n, cpl[q][j] = cpl[q][n + i] PROVE FALSE
        OBVIOUS
      <4>1. j \in 1..Len(cpl[q])
        BY <2>4
      <4>2. j = n + i
        BY <2>3, <2>8, <4>1
      <4> QED
        BY <2>8, <4>2
    <3> QED
      BY <2>5, <2>8, <3>1, <3>2
  <2>10. e \in Nat /\ c + e <= t /\ \A i \in c..c + e - 1 : Slot(q, i) \notin left
    <3>1. t - c \in 0..Size(q)
      BY <2>2
    <3>2. Ahead(q, Ptr(q, t), Ptr(q, c)) = t - c
      BY <3>1, Gap
    <3>3. e \in 0..t - c
      BY <1>1, <2>2, <3>2
    <3>4. ASSUME NEW i \in c..c + e - 1 PROVE Slot(q, i) \notin left
      <4>1. i - c \in 0..e - 1 /\ c + (i - c) = i /\ i - c \in Int
        BY <3>3
      <4>2. Slot(q, Ptr(q, c) + (i - c)) = Slot(q, c + (i - c))
        BY <4>1, SlotAdd
      <4>3. Slot(q, clean[q] + (i - c)) \notin left
        BY <1>1, <4>1 DEF Ran
      <4> QED
        BY <2>2, <4>1, <4>2, <4>3
    <3> QED
      BY <3>3, <3>4
  <2>11. c + e <= d
    <3> SUFFICES ASSUME d < c + e PROVE FALSE
      BY <2>10
    <3>1. d \in c..c + e - 1 /\ d \in d..h - 1
      BY <2>2, <2>10
    <3> QED
      BY <2>6, <2>10, <3>1
  <2>12. /\ Ptr(q, clean[q] + e) = Ptr(q, c + e) /\ Ahead(q, head[q], Ptr(q, clean[q] + e)) = h - (c + e)
    <3>1. Ptr(q, Ptr(q, c) + e) = Ptr(q, c + e)
      BY <2>10, PtrAdd
    <3>2. h - (c + e) \in 0..Size(q) /\ c + e \in Int
      BY <2>2, <2>10
    <3>3. Ahead(q, Ptr(q, h), Ptr(q, c + e)) = h - (c + e)
      BY <3>2, Gap
    <3> QED
      BY <2>2, <3>1, <3>3
  <2>13. /\ Ptr(q, head[q] + more) = Ptr(q, h + more)
         /\ {Slot(q, head[q] + i) : i \in 0..more - 1} = {Slot(q, i) : i \in h..h + more - 1}
    BY <2>2, Window
  <2>14. /\ clean'[q] = Ptr(q, c + e) /\ head'[q] = Ptr(q, h + more)
         /\ buf'[q] = left \cup {Slot(q, i) : i \in h..h + more - 1}
    BY <1>1, <2>12, <2>13 DEF Ran, TypeOK
  <2>15. /\ h + more \in Int /\ c + e \in Int /\ c + e <= d /\ t <= h + more
         /\ (h + more) - (c + e) <= Size(q)
    <3>1. more = 0 \/ more <= Size(q) - (h - (c + e))
      BY <1>1, <2>12 DEF Ran
    <3> QED
      BY <2>2, <2>10, <2>11, <3>1
  <2>16. \A i \in d..(h + more) - 1 : Slot(q, i) \in buf'[q]
    <3> SUFFICES ASSUME NEW i \in d..(h + more) - 1 PROVE Slot(q, i) \in buf'[q]
      OBVIOUS
    <3>1. i \in d..h - 1 \/ i \in h..h + more - 1
      OBVIOUS
    <3> QED
      BY <2>6, <2>14, <3>1
  <2>17. ASSUME NEW i \in 1..Len(cpl'[q])
         PROVE  cpl'[q][i] \in buf'[q] /\ \E p \in c + e..d - 1 : cpl'[q][i] = Slot(q, p)
    <3>1. cpl'[q][i] \in left
      BY <2>9
    <3>2. PICK p \in c..d - 1 : cpl'[q][i] = Slot(q, p)
      BY <2>3, <2>8
    <3>3. ~(p \in c..c + e - 1)
      BY <2>10, <3>1, <3>2
    <3>4. p \in c + e..d - 1
      BY <2>10, <3>3
    <3> QED
      BY <2>14, <3>1, <3>2, <3>4
  <2>18. ASSUME NEW i \in 1..Len(cpl'[q]), NEW j \in 1..Len(cpl'[q]), cpl'[q][i] = cpl'[q][j] PROVE i = j
    <3>1. PICK k \in Nat, m \in Nat : k = n + i /\ m = n + j
      BY <2>4
    <3>2. k \in 1..Len(cpl[q]) /\ m \in 1..Len(cpl[q]) /\ cpl[q][k] = cpl[q][m]
      BY <2>8, <2>18, <3>1
    <3>3. k = m
      BY <2>3, <3>2
    <3> QED
      BY <2>4, <3>1, <3>3
  <2>19. Tracked(q, c + e, d, t, h + more)'
    BY <1>2, <2>2, <2>14, <2>15, <2>16, <2>17, <2>18 DEF Tracked, Ptr, Slot, Size
  <2> QED
    BY <1>3, <2>15, <2>19 DEF Followed
<1> QED
  BY <1>4, <1>5 DEF BuffersFollowed


\* A step of the thread, the handler or a sender that leaves the rings alone, and neither
\* starts nor frees one.
LEMMA OtherFollows ==
    ASSUME BuffersFollowed,
           UNCHANGED <<head, clean, buf, fetched, done, cpl>>,
           \A r \in Rings : (Live(r)' <=> Live(r)) /\ (stage'[r] # "down" => stage[r] # "down")
    PROVE  BuffersFollowed'
<1> SUFFICES ASSUME NEW r \in Rings PROVE Followed(r)'
  BY DEF BuffersFollowed
<1> QED
  BY StaysFollowed DEF BuffersFollowed

\* A CQ is activated: its driver has seen nothing that it has not processed.
LEMMA ActivationFollows ==
    ASSUME CleanStart, Inv, TypeOK, BuffersFollowed, NEW q \in Rings, StartCq(q)
    PROVE  BuffersFollowed'
<1>1. /\ UNCHANGED <<head, clean, buf, fetched, done, phase>>
      /\ phase = "starting" /\ stage[q] = "down" /\ stage' = [stage EXCEPT ![q] = "cq"]
      /\ cpl' = [cpl EXCEPT ![q] = SubSeq(cpl[q], 1, seen[q])]
  BY DEF StartCq, ring, dma
<1>2. ASSUME NEW r \in Rings, r # q PROVE Followed(r)'
  <2>1. stage'[r] = stage[r] /\ cpl'[r] = cpl[r]
    BY <1>1, <1>2 DEF TypeOK
  <2>2. Live(r)' <=> Live(r)
    BY <1>1, <2>1 DEF Live
  <2> QED
    BY <1>1, <2>1, <2>2, StaysFollowed DEF BuffersFollowed
<1>3. Followed(q)'
  <2>1. AtRest(q)
    BY <1>1 DEF BuffersFollowed, Followed, Live
  <2>2. seen[q] = 0
    BY <1>1 DEF CleanStart
  <2>3. cpl'[q] = <<>>
    <3>1. cpl'[q] = SubSeq(cpl[q], 1, 0) /\ cpl[q] \in Seq(0..Size(q) - 1)
      BY <1>1, <2>2, RingTypes DEF TypeOK
    <3> QED
      BY <3>1
  <2>4. stage'[q] = "cq" /\ ~Live(q)'
    BY <1>1 DEF TypeOK, Live
  <2>5. AtRest(q)'
    BY <1>1, <2>1, <2>3 DEF AtRest
  <2> QED
    BY <2>4, <2>5 DEF Followed
<1> QED
  BY <1>2, <1>3 DEF BuffersFollowed

\* What the NIC had taken it has completed, and what was posted is freed.
LEMMA FreeFollows ==
    ASSUME Inv, TypeOK, RingsInPlace, FreeBuffers
    PROVE  BuffersFollowed'
<1>1. /\ phase = "sleep" /\ phase' = "down" /\ stage' = stage /\ fetched' = fetched /\ done' = done
      /\ \A q \in Rings : head'[q] = 0 /\ clean'[q] = 0 /\ done[q] = fetched[q]
  BY DEF FreeBuffers, Settled, dma
<1>2. \A q \in Rings : buf'[q] = {}
  BY FreePlaces
<1>3. \A q \in Rings : stage'[q] = "down"
  BY <1>1 DEF Inv, StagesFollowPhase
<1> QED
  BY <1>1, <1>2, <1>3 DEF BuffersFollowed, Followed, Live, AtRest

\* Every step keeps the packets and pages where they are looked for.
LEMMA NextFollows ==
    ASSUME CleanStart, Inv, TypeOK, SeenIsThere, Quiet, RingsInPlace, BuffersFollowed, [Next]_vars
    PROVE  BuffersFollowed'
<1>1. CASE Starting
  <2>1. CASE StartPort
    <3>1. /\ UNCHANGED <<head, clean, buf, fetched, done, cpl, stage>>
          /\ phase = "down" /\ phase' = "starting"
      BY <2>1 DEF StartPort, ring, dma, cq
    <3> QED
      BY <3>1, OtherFollows DEF Live
  <2>2. CASE PortUp
    <3>1. /\ UNCHANGED <<head, clean, buf, fetched, done, cpl, stage>>
          /\ \A r \in Rings : stage[r] = "ring"
      BY <2>2 DEF PortUp, ring, dma, cq
    <3> QED
      BY <3>1, OtherFollows DEF Live
  <2>3. ASSUME NEW q \in Rings, StartArm(q) PROVE BuffersFollowed'
    <3>1. /\ UNCHANGED <<head, clean, buf, fetched, done, cpl, phase>>
          /\ stage[q] = "cq" /\ stage' = [stage EXCEPT ![q] = "armed"]
      BY <2>3 DEF StartArm, ring, dma, cq
    <3>2. \A r \in Rings : (Live(r)' <=> Live(r)) /\ (stage'[r] # "down" => stage[r] # "down")
      BY <3>1 DEF Live, TypeOK
    <3> QED
      BY <3>1, <3>2, OtherFollows
  <2> QED
    BY <1>1, <2>1, <2>2, <2>3, ActivationFollows, StartFollows DEF Starting
<1>2. CASE StopQueues
  <2>1. /\ UNCHANGED <<head, clean, buf, fetched, done, cpl, stage>>
        /\ phase = "up" /\ \A r \in Rings : stage[r] = "ring"
    BY <1>2 DEF StopQueues, ring, dma, cq, Inv, StagesFollowPhase
  <2> QED
    BY <2>1, OtherFollows DEF Live
<1>3. CASE Stopping
  <2>1. CASE PortDown
    <3>1. /\ UNCHANGED <<head, clean, buf, fetched, done, cpl, stage>>
          /\ phase = "closing" /\ \A r \in Rings : stage[r] = "ring"
      BY <2>1 DEF PortDown, ring, dma, cq, Inv, StagesFollowPhase
    <3> QED
      BY <3>1, OtherFollows DEF Live
  <2>2. CASE StopSleep
    <3>1. /\ UNCHANGED <<head, clean, buf, fetched, done, cpl, stage>>
          /\ phase = "stopping" /\ phase' = "sleep"
      BY <2>2 DEF StopSleep, ring, dma, cq
    <3> QED
      BY <3>1, OtherFollows DEF Live
  <2>3. ASSUME NEW q \in Rings, StopRing(q) \/ StopCq(q) \/ StopNapi(q) PROVE BuffersFollowed'
    <3>1. /\ UNCHANGED <<head, clean, buf, fetched, done, cpl, phase>>
          /\ stage[q] \in {"ring", "unring", "uncq"}
          /\ \E s \in {"unring", "uncq", "down"} :
                stage' = [stage EXCEPT ![q] = s] /\ (s = "down" => stage[q] = "uncq")
      BY <2>3 DEF StopRing, StopCq, StopNapi, ring, dma, cq
    <3>2. stage[q] = "uncq" => phase = "stopping"
      BY DEF Inv, Typed, StagesFollowPhase
    <3>3. \A r \in Rings : (Live(r)' <=> Live(r)) /\ (stage'[r] # "down" => stage[r] # "down")
      BY <3>1, <3>2 DEF Live, TypeOK
    <3> QED
      BY <3>1, <3>3, OtherFollows
  <2> QED
    BY <1>3, <2>1, <2>2, <2>3, FreeFollows DEF Stopping
<1>4. ASSUME NEW q \in Rings, Running(q) PROVE BuffersFollowed'
  <2>1. CASE ~Fetch(q) /\ ~Complete(q) /\ ~PollRun(q)
    <3>1. UNCHANGED <<head, clean, buf, fetched, done, cpl, stage, phase>>
      BY <1>4, <2>1 DEF Running, EventTest, EventCall, PollStep, PollNoRing, PollPortDown,
          PollReadHead, PollComplete, ArmCq, thread, ring, dma, cq
    <3> QED
      BY <3>1, OtherFollows DEF Live
  <2> QED
    BY <2>1, FetchFollows, CompleteFollows, RunFollows
<1>5. ASSUME NEW q \in Tx, XmitTest(q) \/ XmitPost(q) PROVE BuffersFollowed'
  <2>1. CASE XmitTest(q)
    <3>1. UNCHANGED <<head, clean, buf, fetched, done, cpl, stage, phase>>
      BY <2>1 DEF XmitTest, thread, ring, dma, cq
    <3> QED
      BY <3>1, OtherFollows DEF Live
  <2> QED
    BY <1>5, <2>1, PostFollows
<1>6. CASE UNCHANGED vars
  <2>1. UNCHANGED <<head, clean, buf, fetched, done, cpl, stage, phase>>
    BY <1>6 DEF vars, thread, ring, dma, cq
  <2> QED
    BY <2>1, OtherFollows DEF Live
<1> QED
  BY <1>1, <1>2, <1>3, <1>4, <1>5, <1>6 DEF Next


\* A poll whose budget is at least what its CQ holds processes all it has seen.
LEMMA RunLeavesNone ==
    ASSUME Inv, TypeOK, SeenIsThere, NoneLeft, BuffersFollowed, NEW q \in Rings, PollRun(q)
    PROVE  /\ Len(cpl'[q]) <= Size(q)
           /\ Size(q) <= Budget => seen'[q] = 0
           /\ \A r \in Rings \ {q} : cpl'[r] = cpl[r] /\ seen'[r] = seen[r] /\ poll'[r] = poll[r]
           /\ stage[q] # "down"
<1>1. PICK n \in 0..seen[q], e \in 0..Ahead(q, fetched[q], clean[q]), more \in Nat,
           left \in SUBSET buf[q] : Ran(q, n, e, more, left) /\ Took(q, n, left)
  BY PollRuns
<1>2. stage[q] \in {"ring", "unring", "uncq"}
  BY DEF PollRun, Inv, ScheduledIsServed
<1>3. /\ seen[q] \in Nat /\ Len(cpl[q]) \in Nat /\ seen[q] <= Len(cpl[q])
      /\ Len(cpl[q]) <= Size(q) /\ Size(q) \in Nat /\ Budget \in Nat
  BY RingTypes, Sizes, RingAssumption DEF SeenIsThere, NoneLeft
<1>4. n \in Nat /\ n <= Len(cpl[q])
  <2>1. \A k, m \in Nat : \A x \in 0..k : k <= m => x \in Nat /\ x <= m
    OBVIOUS
  <2> QED
    BY <1>3, <2>1, Zenon
<1>5. Len(cpl'[q]) <= Size(q)
  <2>1. cpl'[q] = SubSeq(cpl[q], n + 1, Len(cpl[q])) /\ cpl[q] \in Seq(0..Size(q) - 1)
    BY <1>1, RingTypes DEF Ran, TypeOK
  <2>2. Len(SubSeq(cpl[q], n + 1, Len(cpl[q]))) = Len(cpl[q]) - n
    BY <1>4, <2>1, Rest, Zenon
  <2>3. Len(cpl'[q]) = Len(cpl[q]) - n
    BY <2>1, <2>2, Zenon
  <2> QED
    BY <1>3, <1>4, <2>3
<1>6. ASSUME Size(q) <= Budget PROVE seen'[q] = 0
  <2>1. Smaller(seen[q], Budget) = seen[q]
    BY <1>3, <1>6 DEF Smaller
  <2>2. Processable(q, seen[q])
    <3>1. PICK c \in Int, d \in Int, t \in Int, h \in Int : Tracked(q, c, d, t, h)
      BY <1>2 DEF Followed, BuffersFollowed, Live
    <3>2. /\ \A i \in 1..Len(cpl[q]) : cpl[q][i] \in buf[q]
          /\ \A i, j \in 1..Len(cpl[q]) : cpl[q][i] = cpl[q][j] => i = j
      BY <1>2, <3>1 DEF Tracked
    <3>3. 1..seen[q] \subseteq 1..Len(cpl[q])
      BY <1>3
    <3> QED
      BY <3>2, <3>3 DEF Processable, Rings
  <2>3. seen[q] \in 0..Smaller(seen[q], Budget)
    BY <1>3, <2>1
  <2>4. seen[q] <= n
    BY <1>1, <2>2, <2>3 DEF Took
  <2>5. seen'[q] = seen[q] - n
    BY <1>1 DEF Ran, TypeOK
  <2>6. n <= seen[q]
    BY <1>1, <1>3
  <2> QED
    BY <1>3, <1>4, <2>4, <2>5, <2>6
<1>7. ASSUME NEW r \in Rings, r # q PROVE cpl'[r] = cpl[r] /\ seen'[r] = seen[r] /\ poll'[r] = poll[r]
  <2>1. cpl'[r] = cpl[r] /\ seen'[r] = seen[r]
    BY <1>1, <1>7 DEF Ran, TypeOK
  <2>2. \E p \in {"off", "complete"} : poll' = [poll EXCEPT ![q] = p]
    BY Zenon DEF PollRun
  <2>3. poll'[r] = poll[r]
    BY <1>7, <2>2 DEF TypeOK
  <2> QED
    BY <2>1, <2>3
<1> QED
  BY <1>2, <1>5, <1>6, <1>7

\* Nothing a poll has seen is left when a CQ is started.
LEMMA NextLeavesNone ==
    ASSUME NothingStale, Inv, TypeOK, SeenIsThere, NoneLeft, BuffersFollowed, [Next]_vars
    PROVE  NoneLeft'
<1>1. /\ phase # "down" => life > 0
      /\ life \in Nat
      /\ \A r \in Rings : Len(cpl[r]) <= Size(r)
      /\ \A r \in Rings : Size(r) <= Budget /\ poll[r] # "loop" => seen[r] = 0
      /\ \A r \in Rings : stage[r] = "down" /\ (phase = "starting" \/ (phase = "down" /\ life < Lives))
                             => seen[r] = 0
  BY DEF NoneLeft, TypeOK
<1>2. ASSUME UNCHANGED <<cpl, seen, poll, life, phase>>,
             \A r \in Rings : stage'[r] = "down" => stage[r] = "down" \/ phase = "stopping"
      PROVE  NoneLeft'
  BY <1>1, <1>2 DEF NoneLeft, Size
<1>3. CASE Starting
  <2>1. CASE StartPort
    <3>1. /\ UNCHANGED <<cpl, seen, poll, stage>> /\ phase = "down" /\ life < Lives
          /\ phase' = "starting" /\ life' = life + 1
      BY <2>1 DEF StartPort, cq, napi
    <3> QED
      BY <1>1, <3>1 DEF NoneLeft, Size
  <2>2. CASE PortUp
    <3>1. /\ UNCHANGED <<cpl, seen, poll, stage, life>> /\ phase = "starting" /\ phase' = "up"
      BY <2>2 DEF PortUp, cq, napi
    <3> QED
      BY <1>1, <3>1 DEF NoneLeft, Size
  <2>3. ASSUME NEW q \in Rings, StartArm(q) \/ StartRing(q) PROVE NoneLeft'
    <3>1. /\ UNCHANGED <<cpl, seen, poll, life, phase>>
          /\ \E s \in {"armed", "ring"} : stage' = [stage EXCEPT ![q] = s]
      BY <2>3 DEF StartArm, StartRing, cq, napi
    <3>2. \A r \in Rings : stage'[r] = "down" => stage[r] = "down"
      BY <3>1 DEF TypeOK
    <3> QED
      BY <1>2, <3>1, <3>2
  <2>4. ASSUME NEW q \in Rings, StartCq(q) PROVE NoneLeft'
    <3>1. /\ UNCHANGED <<seen, poll, life, phase>> /\ phase = "starting"
          /\ stage[q] = "down" /\ stage' = [stage EXCEPT ![q] = "cq"]
          /\ cpl' = [cpl EXCEPT ![q] = SubSeq(cpl[q], 1, seen[q])]
      BY <2>4 DEF StartCq, napi
    <3>2. \A r \in Rings : stage'[r] = "down" => stage[r] = "down"
      BY <3>1 DEF TypeOK
    <3>3. Len(cpl'[q]) = 0
      <4>1. cpl'[q] = SubSeq(cpl[q], 1, 0) /\ cpl[q] \in Seq(0..Size(q) - 1)
        BY <1>1, <3>1, RingTypes DEF TypeOK
      <4> QED
        BY <4>1
    <3>4. ASSUME NEW r \in Rings PROVE Len(cpl'[r]) <= Size(r)
      <4>1. CASE r = q
        BY <3>3, <4>1, Sizes
      <4>2. CASE r # q
        BY <1>1, <3>1, <4>2 DEF TypeOK
      <4> QED
        BY <4>1, <4>2
    <3> QED
      BY <1>1, <3>1, <3>2, <3>4 DEF NoneLeft, Size
  <2> QED
    BY <1>3, <2>1, <2>2, <2>3, <2>4 DEF Starting
<1>4. CASE StopQueues \/ PortDown \/ StopSleep
  <2>1. /\ UNCHANGED <<cpl, seen, poll, stage, life>> /\ phase # "down"
        /\ phase' \in {"closing", "stopping", "sleep"}
    BY <1>4 DEF StopQueues, PortDown, StopSleep, cq, napi
  <2> QED
    BY <1>1, <2>1 DEF NoneLeft, Size
<1>5. CASE FreeBuffers
  <2>1. /\ UNCHANGED <<cpl, seen, poll, stage, life>> /\ phase = "sleep" /\ phase' = "down"
    BY <1>5 DEF FreeBuffers, cq, napi
  <2>2. ASSUME life < Lives, NEW r \in Rings PROVE seen[r] = 0
    <3>1. TxSize <= Budget /\ RxSize <= Budget
      BY <1>1, <2>1, <2>2, RingAssumption DEF NothingStale
    <3>2. Size(r) <= Budget
      BY <3>1 DEF Size
    <3>3. poll[r] # "loop"
      BY <2>1 DEF Inv, StagesFollowPhase, ScheduledIsServed
    <3> QED
      BY <1>1, <3>2, <3>3
  <2> QED
    BY <1>1, <2>1, <2>2 DEF NoneLeft, Size
<1>6. ASSUME NEW q \in Rings, StopRing(q) \/ StopCq(q) \/ StopNapi(q) PROVE NoneLeft'
  <2>1. /\ UNCHANGED <<cpl, seen, poll, life, phase>>
        /\ stage[q] \in {"ring", "unring", "uncq"}
        /\ \E s \in {"unring", "uncq", "down"} :
              stage' = [stage EXCEPT ![q] = s] /\ (s = "down" => stage[q] = "uncq")
    BY <1>6 DEF StopRing, StopCq, StopNapi, cq, napi
  <2>2. stage[q] = "uncq" => phase = "stopping"
    BY DEF Inv, Typed, StagesFollowPhase
  <2>3. \A r \in Rings : stage'[r] = "down" => stage[r] = "down" \/ phase = "stopping"
    BY <2>1, <2>2 DEF TypeOK
  <2> QED
    BY <1>2, <2>1, <2>3
<1>7. ASSUME NEW q \in Rings, Running(q) PROVE NoneLeft'
  <2>1. UNCHANGED <<phase, life, stage>>
    BY <1>7 DEF Running, Fetch, Complete, EventTest, EventCall, PollStep, PollNoRing, PollPortDown,
        PollReadHead, PollRun, PollComplete, ArmCq, thread
  <2>2. CASE Complete(q)
    <3>1. /\ UNCHANGED <<seen, poll>>
          /\ cpl' = cpl \/ (Len(cpl[q]) < Size(q) /\ cpl' = [cpl EXCEPT ![q] = Append(cpl[q], Slot(q, done[q]))])
      BY <2>2 DEF Complete, napi
    <3>2. ASSUME NEW r \in Rings PROVE Len(cpl'[r]) <= Size(r)
      <4>1. CASE r = q /\ cpl' # cpl
        <5>1. cpl'[q] = Append(cpl[q], Slot(q, done[q])) /\ cpl[q] \in Seq(0..Size(q) - 1)
          BY <3>1, <4>1, RingTypes DEF TypeOK
        <5>2. Len(cpl'[q]) = Len(cpl[q]) + 1 /\ Len(cpl[q]) \in Nat
          BY <5>1, Appended
        <5> QED
          BY <3>1, <4>1, <5>2, Sizes
      <4>2. CASE r # q \/ cpl' = cpl
        BY <1>1, <3>1, <4>2 DEF TypeOK
      <4> QED
        BY <4>1, <4>2
    <3> QED
      BY <1>1, <2>1, <3>1, <3>2 DEF NoneLeft, Size
  <2>3. CASE PollReadHead(q)
    <3>1. /\ cpl' = cpl /\ stage[q] = "ring"
          /\ seen' = [seen EXCEPT ![q] = Len(cpl[q])] /\ poll' = [poll EXCEPT ![q] = "loop"]
      BY <2>3 DEF PollReadHead, HasHandler
    <3>2. poll'[q] = "loop" /\ \A r \in Rings \ {q} : seen'[r] = seen[r] /\ poll'[r] = poll[r]
      BY <3>1 DEF TypeOK
    <3> QED
      BY <1>1, <2>1, <3>1, <3>2 DEF NoneLeft, Size
  <2>4. CASE PollRun(q)
    <3>1. /\ Len(cpl'[q]) <= Size(q)
          /\ Size(q) <= Budget => seen'[q] = 0
          /\ \A r \in Rings \ {q} : cpl'[r] = cpl[r] /\ seen'[r] = seen[r] /\ poll'[r] = poll[r]
          /\ stage[q] # "down"
      BY <2>4, RunLeavesNone
    <3> QED
      BY <1>1, <2>1, <3>1 DEF NoneLeft, Size
  <2>5. CASE ~Complete(q) /\ ~PollReadHead(q) /\ ~PollRun(q)
    <3>1. /\ UNCHANGED <<cpl, seen>>
          /\ poll' = poll \/ (poll[q] = "off" /\ poll' = [poll EXCEPT ![q] = "complete"])
                          \/ (poll[q] = "complete" /\ poll' = [poll EXCEPT ![q] = "off"])
      BY <1>7, <2>5 DEF Running, Fetch, EventTest, EventCall, PollStep, PollNoRing, PollPortDown,
          PollComplete, ArmCq, cq, napi
    <3>2. \A r \in Rings : poll'[r] # "loop" => poll[r] # "loop"
      BY <3>1 DEF TypeOK
    <3> QED
      BY <1>1, <2>1, <3>1, <3>2 DEF NoneLeft, Size
  <2> QED
    BY <2>2, <2>3, <2>4, <2>5
<1>8. ASSUME NEW q \in Tx, XmitTest(q) \/ XmitPost(q) PROVE NoneLeft'
  <2>1. UNCHANGED <<cpl, seen, poll, life, phase, stage>>
    BY <1>8 DEF XmitTest, XmitPost, thread, cq, napi
  <2> QED
    BY <1>2, <2>1
<1>9. CASE UNCHANGED vars
  <2>1. UNCHANGED <<cpl, seen, poll, life, phase, stage>>
    BY <1>9 DEF vars, thread, cq, napi
  <2> QED
    BY <1>2, <2>1
<1> QED
  BY <1>3, <1>4, <1>5, <1>6, <1>7, <1>8, <1>9 DEF Next, Stopping


\* Before the first start nothing has happened.
LEMMA InitFollows == Init => NoneLeft /\ BuffersFollowed
<1> SUFFICES ASSUME Init PROVE NoneLeft /\ BuffersFollowed
  OBVIOUS
<1>1. NoneLeft
  <2>1. \A q \in Rings : Len(cpl[q]) = 0
    BY DEF Init
  <2> QED
    BY <2>1, Sizes DEF Init, NoneLeft
<1>2. BuffersFollowed
  BY DEF Init, BuffersFollowed, Followed, Live, AtRest
<1> QED
  BY <1>1, <1>2

\* What the steps keep together.
Kept == Inv /\ TypeOK /\ SeenIsThere /\ Quiet /\ RingsInPlace /\ BuffersFollowed

LEMMA InitKept == Init => Kept
BY InitInv, InitTypes, InitPlaces, InitFollows DEF Kept

LEMMA NextKept ==
    ASSUME CleanStart, Kept, [Next]_vars
    PROVE  Kept'
<1>1. Inv'
  BY NextInv DEF Kept
<1> QED
  BY <1>1, NextTypes, QuietKept, NextPlaces, NextFollows DEF Kept

\* A port that is opened once, or whose polls may process all that a CQ holds, never starts
\* with a completion of its last life (mqnic_cq.c:120-139).
THEOREM StartsAreClean ==
    ASSUME NothingStale
    PROVE  Spec => []CleanStart
<1>1. Init => Kept /\ NoneLeft
  BY InitKept, InitFollows
<1>2. NoneLeft => CleanStart
  BY DEF NoneLeft, CleanStart
<1>3. (Kept /\ NoneLeft) /\ [Next]_vars => (Kept /\ NoneLeft)'
  <2> SUFFICES ASSUME Kept, NoneLeft, [Next]_vars PROVE Kept' /\ NoneLeft'
    OBVIOUS
  <2>1. Kept'
    BY <1>2, NextKept
  <2>2. NoneLeft'
    BY NextLeavesNone DEF Kept
  <2> QED
    BY <2>1, <2>2
<1> QED
  BY <1>1, <1>2, <1>3, PTL DEF Spec

\* The slots between two pointers are those of the positions between them.
LEMMA BetweenPositions ==
    ASSUME NEW q \in Rings, NEW b \in Int, NEW a \in Int, a - b \in 0..Size(q)
    PROVE  Between(q, Ptr(q, b), Ptr(q, a)) \subseteq {Slot(q, i) : i \in b..a - 1}
<1>1. Ahead(q, Ptr(q, a), Ptr(q, b)) = a - b
  BY Gap
<1>2. ASSUME NEW k \in 0..(a - b) - 1 PROVE Slot(q, Ptr(q, b) + k) \in {Slot(q, i) : i \in b..a - 1}
  <2>1. k \in Int /\ b + k \in b..a - 1
    OBVIOUS
  <2>2. Slot(q, Ptr(q, b) + k) = Slot(q, b + k)
    BY <2>1, SlotAdd
  <2> QED
    BY <2>1, <2>2
<1> QED
  BY <1>1, <1>2 DEF Between

\* Nothing the NIC may use is released, whatever the number of rings, their sizes, the
\* threshold and the order of the steps: not by a poll, which takes only what was completed,
\* nor by the freeing of the buffers, which comes when the transfers under way have ended,
\* though the rings restart with their pointers at zero (mqnic_netdev.c:133-161).
THEOREM BuffersOutliveTransfers == Spec /\ []CleanStart => []NicKeepsBuffers
<1>1. Init => Kept
  BY InitKept
<1>2. CleanStart /\ Kept /\ [Next]_vars => Kept'
  BY NextKept
<1>3. Kept => NicKeepsBuffers
  <2> SUFFICES ASSUME Kept, NEW q \in Rings PROVE NicOwned(q) \subseteq buf[q]
    BY DEF NicKeepsBuffers
  <2>1. CASE Live(q)
    <3>1. PICK c \in Int, d \in Int, t \in Int, h \in Int : Tracked(q, c, d, t, h)
      BY <2>1 DEF Kept, BuffersFollowed, Followed
    <3>2. /\ c <= d /\ d <= t /\ t <= h /\ h - c <= Size(q)
          /\ done[q] = Ptr(q, d) /\ fetched[q] = Ptr(q, t) /\ head[q] = Ptr(q, h)
          /\ \A i \in d..h - 1 : Slot(q, i) \in buf[q]
      BY <3>1 DEF Tracked
    <3>3. t - d \in 0..Size(q) /\ h - t \in 0..Size(q)
      BY <3>2, Sizes
    <3>4. /\ Between(q, done[q], fetched[q]) \subseteq {Slot(q, i) : i \in d..t - 1}
          /\ Between(q, fetched[q], head[q]) \subseteq {Slot(q, i) : i \in t..h - 1}
      BY <3>2, <3>3, BetweenPositions
    <3>5. d..t - 1 \subseteq d..h - 1 /\ t..h - 1 \subseteq d..h - 1
      BY <3>2
    <3> QED
      BY <3>2, <3>4, <3>5 DEF NicOwned
  <2>2. CASE ~Live(q)
    <3>1. done[q] = fetched[q] /\ ~HasHandler(q)
      BY <2>2 DEF Kept, BuffersFollowed, Followed, AtRest, Live, HasHandler
    <3>2. Ahead(q, fetched[q], done[q]) = 0
      <4>1. fetched[q] - done[q] = 0
        BY <3>1, RingTypes DEF Kept
      <4> QED
        BY <4>1, Sizes DEF Ahead, Ptr
    <3> QED
      BY <3>1, <3>2 DEF NicOwned, Between
  <2> QED
    BY <2>1, <2>2
<1> QED
  BY <1>1, <1>2, <1>3, PTL DEF Spec

\* A poll of a running ring finds a packet or a page behind every completion, so the "null
\* page" branch of mqnic_process_rx_cq (mqnic_rx.c:350-356) is dead code unless a restart
\* leaves completions behind.
THEOREM CompletionsHaveBuffers == Spec /\ []CleanStart => []CompletedHasBuffer
<1>1. Init => Kept
  BY InitKept
<1>2. CleanStart /\ Kept /\ [Next]_vars => Kept'
  BY NextKept
<1>3. Kept => CompletedHasBuffer
  BY DEF Kept, BuffersFollowed, Followed, Live, Tracked, HasHandler, CompletedHasBuffer
<1> QED
  BY <1>1, <1>2, <1>3, PTL DEF Spec

-----------------------------------------------------------------------------
(* That a running ring is not forgotten. *)

\* A CQ that was armed for its ring's start stays armed until the ring runs: nothing is
\* completed to it meanwhile.
ArmedForStart == \A q \in Rings : stage[q] = "armed" => armed[q]

\* Before its ring runs an active CQ is empty, and nothing is under way for it.
LEMMA RestsBeforeStart ==
    ASSUME Kept, NEW q \in Rings, stage[q] \in {"cq", "armed"}
    PROVE  cpl[q] = <<>> /\ done[q] = fetched[q]
BY DEF Kept, BuffersFollowed, Followed, AtRest, Live

\* A step that leaves the event path of a ring alone, and does not start it, does not
\* forget it.
LEMMA StaysRemembered ==
    ASSUME ArmedForStart, NotForgotten, NEW r \in Rings,
           cpl'[r] = cpl[r], armed'[r] = armed[r], ev'[r] = ev[r], calling = r => calling' = r,
           sched[r] => sched'[r], arming'[r] = arming[r],
           stage'[r] \in {"armed", "ring"} => stage[r] = stage'[r]
    PROVE  /\ stage'[r] = "armed" => armed'[r]
           /\ stage'[r] = "ring" =>
                (armed'[r] /\ cpl'[r] = <<>>) \/ ev'[r] > 0 \/ calling' = r \/ sched'[r] \/ arming'[r] > 0
BY DEF ArmedForStart, NotForgotten, HasHandler

\* No step loses a ring.
LEMMA NextRemembers ==
    ASSUME Kept, ArmedForStart, NotForgotten, [Next]_vars
    PROVE  ArmedForStart' /\ NotForgotten'
<1> DEFINE Remembered(r) ==
              /\ stage'[r] = "armed" => armed'[r]
              /\ stage'[r] = "ring" =>
                   (armed'[r] /\ cpl'[r] = <<>>) \/ ev'[r] > 0 \/ calling' = r \/ sched'[r] \/ arming'[r] > 0
<1>1. TypeOK
  BY DEF Kept
<1>2. (\A r \in Rings : Remembered(r)) => ArmedForStart' /\ NotForgotten'
  BY DEF ArmedForStart, NotForgotten, HasHandler
<1>3. CASE Starting
  <2>1. CASE StartPort \/ PortUp
    <3>1. UNCHANGED <<cpl, armed, ev, calling, sched, arming, stage>>
      BY <2>1 DEF StartPort, PortUp, cq, event, napi
    <3> QED
      BY <1>2, <3>1, StaysRemembered
  <2>2. ASSUME NEW q \in Rings, StartCq(q) PROVE \A r \in Rings : Remembered(r)
    <3>1. /\ UNCHANGED <<ev, calling, sched, arming>> /\ stage' = [stage EXCEPT ![q] = "cq"]
          /\ armed' = [armed EXCEPT ![q] = FALSE]
          /\ cpl' = [cpl EXCEPT ![q] = SubSeq(cpl[q], 1, seen[q])]
      BY <2>2 DEF StartCq, event, napi
    <3>2. stage'[q] = "cq"
      BY <1>1, <3>1 DEF TypeOK
    <3>3. ASSUME NEW r \in Rings, r # q PROVE Remembered(r)
      <4>1. stage'[r] = stage[r] /\ armed'[r] = armed[r] /\ cpl'[r] = cpl[r]
        BY <1>1, <3>1, <3>3 DEF TypeOK
      <4> QED
        BY <3>1, <4>1, StaysRemembered
    <3> QED
      BY <3>2, <3>3
  <2>3. ASSUME NEW q \in Rings, StartArm(q) PROVE \A r \in Rings : Remembered(r)
    <3>1. /\ UNCHANGED <<cpl, calling, sched, arming>>
          /\ stage[q] = "cq" /\ stage' = [stage EXCEPT ![q] = "armed"] /\ Arm(q)
      BY <2>3 DEF StartArm, cq, napi
    <3>2. armed' = [armed EXCEPT ![q] = TRUE] /\ ev' = ev
      BY <3>1, RestsBeforeStart DEF Arm
    <3>3. stage'[q] = "armed" /\ armed'[q]
      BY <1>1, <3>1, <3>2 DEF TypeOK
    <3>4. ASSUME NEW r \in Rings, r # q PROVE Remembered(r)
      <4>1. stage'[r] = stage[r] /\ armed'[r] = armed[r]
        BY <1>1, <3>1, <3>2, <3>4 DEF TypeOK
      <4> QED
        BY <3>1, <3>2, <4>1, StaysRemembered
    <3> QED
      BY <3>3, <3>4
  <2>4. ASSUME NEW q \in Rings, StartRing(q) PROVE \A r \in Rings : Remembered(r)
    <3>1. /\ UNCHANGED <<cpl, armed, ev, calling, sched, arming>>
          /\ stage[q] = "armed" /\ stage' = [stage EXCEPT ![q] = "ring"]
      BY <2>4 DEF StartRing, cq, event, napi
    <3>2. armed[q] /\ cpl[q] = <<>>
      BY <3>1, RestsBeforeStart DEF ArmedForStart
    <3>3. Remembered(q)
      BY <1>1, <3>1, <3>2 DEF TypeOK
    <3>4. ASSUME NEW r \in Rings, r # q PROVE Remembered(r)
      <4>1. stage'[r] = stage[r]
        BY <1>1, <3>1, <3>4 DEF TypeOK
      <4> QED
        BY <3>1, <4>1, StaysRemembered
    <3> QED
      BY <3>3, <3>4
  <2> QED
    BY <1>2, <1>3, <2>1, <2>2, <2>3, <2>4 DEF Starting
<1>4. CASE StopQueues \/ PortDown \/ StopSleep \/ FreeBuffers
  <2>1. UNCHANGED <<cpl, armed, ev, calling, sched, arming, stage>>
    BY <1>4 DEF StopQueues, PortDown, StopSleep, FreeBuffers, cq, event, napi
  <2> QED
    BY <1>2, <2>1, StaysRemembered
<1>5. ASSUME NEW q \in Rings, StopRing(q) \/ StopCq(q) \/ StopNapi(q) PROVE \A r \in Rings : Remembered(r)
  <2>1. /\ UNCHANGED <<cpl, ev, calling, sched, arming>>
        /\ \E s \in {"unring", "uncq", "down"} : stage' = [stage EXCEPT ![q] = s]
        /\ armed' = armed \/ armed' = [armed EXCEPT ![q] = FALSE]
    BY <1>5 DEF StopRing, StopCq, StopNapi, cq, event, napi
  <2>2. stage'[q] \notin {"armed", "ring"}
    BY <1>1, <2>1 DEF TypeOK
  <2>3. ASSUME NEW r \in Rings, r # q PROVE Remembered(r)
    <3>1. stage'[r] = stage[r] /\ armed'[r] = armed[r]
      BY <1>1, <2>1, <2>3 DEF TypeOK
    <3> QED
      BY <2>1, <3>1, StaysRemembered
  <2> QED
    BY <2>2, <2>3
<1>6. ASSUME NEW q \in Rings, Fetch(q) PROVE \A r \in Rings : Remembered(r)
  <2>1. UNCHANGED <<cpl, armed, ev, calling, sched, arming, stage>>
    BY <1>6 DEF Fetch, thread, cq, event, napi
  <2> QED
    BY <2>1, StaysRemembered
<1>7. ASSUME NEW q \in Rings, Complete(q) PROVE \A r \in Rings : Remembered(r)
  <2>1. /\ UNCHANGED <<calling, sched, arming, stage>> /\ done[q] # fetched[q]
        /\ \/ UNCHANGED <<cpl, ev, armed>>
           \/ /\ cpl' = [cpl EXCEPT ![q] = Append(cpl[q], Slot(q, done[q]))]
              /\ ev' = [ev EXCEPT ![q] = ev[q] + IF armed[q] THEN 1 ELSE 0]
              /\ armed' = [armed EXCEPT ![q] = FALSE]
    BY <1>7 DEF Complete, thread, event, napi
  <2>2. CASE UNCHANGED <<cpl, ev, armed>>
    BY <2>1, <2>2, StaysRemembered
  <2>3. CASE /\ cpl' = [cpl EXCEPT ![q] = Append(cpl[q], Slot(q, done[q]))]
             /\ ev' = [ev EXCEPT ![q] = ev[q] + IF armed[q] THEN 1 ELSE 0]
             /\ armed' = [armed EXCEPT ![q] = FALSE]
    <3>1. stage'[q] # "armed"
      BY <2>1, RestsBeforeStart
    <3>2. ev[q] \in Nat /\ ev'[q] = ev[q] + IF armed[q] THEN 1 ELSE 0
      BY <1>1, <2>3 DEF TypeOK
    <3>3. armed[q] \/ ~armed[q]
      OBVIOUS
    <3>4. armed[q] => ev'[q] > 0
      BY <3>2
    <3>5. ~armed[q] => ev'[q] = ev[q]
      BY <3>2
    <3>6. Remembered(q)
      BY <2>1, <3>1, <3>4, <3>5, Zenon DEF NotForgotten, HasHandler
    <3>7. ASSUME NEW r \in Rings, r # q PROVE Remembered(r)
      <4>1. cpl'[r] = cpl[r] /\ armed'[r] = armed[r] /\ ev'[r] = ev[r]
        BY <1>1, <2>3, <3>7 DEF TypeOK
      <4> QED
        BY <2>1, <4>1, StaysRemembered
    <3> QED
      BY <3>6, <3>7
  <2> QED
    BY <2>1, <2>2, <2>3
<1>8. ASSUME NEW q \in Rings, EventTest(q) PROVE \A r \in Rings : Remembered(r)
  <2>1. /\ UNCHANGED <<cpl, armed, sched, arming, stage>> /\ calling = None
        /\ ev' = [ev EXCEPT ![q] = ev[q] - 1]
        /\ stage[q] = "ring" => calling' = q
    BY <1>8 DEF EventTest, thread, cq, napi, HasHandler
  <2>2. Remembered(q)
    BY <2>1 DEF ArmedForStart
  <2>3. ASSUME NEW r \in Rings, r # q PROVE Remembered(r)
    <3>1. ev'[r] = ev[r] /\ calling # r
      BY <1>1, <2>1, <2>3, RingAssumption DEF TypeOK, Rings
    <3> QED
      BY <2>1, <3>1, StaysRemembered
  <2> QED
    BY <2>2, <2>3
<1>9. ASSUME NEW q \in Rings, EventCall(q) PROVE \A r \in Rings : Remembered(r)
  <2>1. UNCHANGED <<cpl, armed, ev, arming, stage>> /\ calling = q
    BY <1>9 DEF EventCall, thread, cq
  <2>2. /\ sched' = [sched EXCEPT ![q] = TRUE] \/ sched' = sched
        /\ stage[q] = "ring" => sched' = [sched EXCEPT ![q] = TRUE]
    BY <1>9 DEF EventCall, NapiSchedule, NapiOn, CqActive, HasHandler
  <2>3. Remembered(q)
    BY <1>1, <2>1, <2>2 DEF TypeOK, ArmedForStart
  <2>4. ASSUME NEW r \in Rings, r # q PROVE Remembered(r)
    <3>1. sched'[r] = sched[r]
      BY <1>1, <2>2, <2>4 DEF TypeOK
    <3> QED
      BY <2>1, <2>4, <3>1, StaysRemembered
  <2> QED
    BY <2>3, <2>4
<1>10. ASSUME NEW q \in Rings, PollNoRing(q) \/ PollPortDown(q) \/ PollReadHead(q)
       PROVE  \A r \in Rings : Remembered(r)
  <2>1. UNCHANGED <<cpl, armed, ev, calling, sched, arming, stage>>
    BY <1>10 DEF PollNoRing, PollPortDown, PollReadHead, thread, cq, event, napi
  <2> QED
    BY <2>1, StaysRemembered
<1>11. ASSUME NEW q \in Rings, PollRun(q) PROVE \A r \in Rings : Remembered(r)
  <2>1. UNCHANGED <<armed, ev, calling, arming, stage>> /\ poll[q] = "loop"
    BY <1>11 DEF PollRun, thread, event
  <2>2. PICK n \in 0..seen[q], d \in 0..Ahead(q, fetched[q], clean[q]), more \in Nat,
             left \in SUBSET buf[q] : Ran(q, n, d, more, left) /\ Took(q, n, left)
    BY <1>1, <1>11, PollRuns
  <2>3. stage[q] = "ring" => sched'[q]
    <3>1. sched' = [sched EXCEPT ![q] = n # Budget \/ NapiOn(q)]
      BY <2>2 DEF Took
    <3>2. stage[q] = "ring" => NapiOn(q)
      BY DEF NapiOn, CqActive
    <3> QED
      BY <1>1, <3>1, <3>2 DEF TypeOK
  <2>4. stage[q] # "armed"
    BY <2>1 DEF Kept, Inv, ScheduledIsServed
  <2>5. ASSUME NEW r \in Rings, r # q PROVE Remembered(r)
    <3>1. cpl'[r] = cpl[r]
      BY <1>1, <2>2, <2>5 DEF Ran, TypeOK
    <3>2. sched'[r] = sched[r]
      BY <1>1, <2>2, <2>5 DEF Took, TypeOK
    <3> QED
      BY <2>1, <3>1, <3>2, StaysRemembered
  <2> QED
    BY <2>1, <2>3, <2>4, <2>5
<1>12. ASSUME NEW q \in Rings, PollComplete(q) PROVE \A r \in Rings : Remembered(r)
  <2>1. /\ UNCHANGED <<cpl, armed, ev, calling, stage>>
        /\ sched' = [sched EXCEPT ![q] = missed[q]]
        /\ arming' = [arming EXCEPT ![q] = arming[q] + 1]
    BY <1>12 DEF PollComplete, thread, cq, event
  <2>2. arming'[q] > 0
    BY <1>1, <2>1 DEF TypeOK
  <2>3. Remembered(q)
    BY <2>1, <2>2 DEF ArmedForStart
  <2>4. ASSUME NEW r \in Rings, r # q PROVE Remembered(r)
    <3>1. sched'[r] = sched[r] /\ arming'[r] = arming[r]
      BY <1>1, <2>1, <2>4 DEF TypeOK
    <3> QED
      BY <2>1, <3>1, StaysRemembered
  <2> QED
    BY <2>3, <2>4
<1>13. ASSUME NEW q \in Rings, ArmCq(q) PROVE \A r \in Rings : Remembered(r)
  <2>1. /\ UNCHANGED <<cpl, calling, sched, stage>>
        /\ arming' = [arming EXCEPT ![q] = arming[q] - 1]
        /\ IF CqActive(q) THEN Arm(q) ELSE UNCHANGED <<armed, ev>>
    BY <1>13 DEF ArmCq, thread, cq
  <2>2. /\ armed' = armed \/ \E a \in BOOLEAN : armed' = [armed EXCEPT ![q] = a]
        /\ ev' = ev \/ ev' = [ev EXCEPT ![q] = ev[q] + 1]
    BY <2>1 DEF Arm
  <2>3. ASSUME stage[q] \in {"armed", "ring"}
        PROVE  IF cpl[q] # <<>> THEN ev'[q] > 0 /\ stage[q] # "armed" ELSE armed'[q]
    <3>1. Arm(q)
      BY <2>1, <2>3 DEF CqActive
    <3>2. CASE cpl[q] # <<>>
      <4>1. ev' = [ev EXCEPT ![q] = ev[q] + 1] /\ stage[q] # "armed"
        BY <3>1, <3>2, RestsBeforeStart DEF Arm
      <4>2. ev'[q] > 0
        BY <1>1, <4>1 DEF TypeOK
      <4> QED
        BY <3>2, <4>1, <4>2
    <3>3. CASE cpl[q] = <<>>
      <4>1. armed' = [armed EXCEPT ![q] = TRUE]
        BY <3>1, <3>3 DEF Arm
      <4>2. armed'[q]
        BY <1>1, <4>1 DEF TypeOK
      <4> QED
        BY <3>3, <4>2
    <3> QED
      BY <3>2, <3>3
  <2>4. Remembered(q)
    BY <2>1, <2>3
  <2>5. ASSUME NEW r \in Rings, r # q PROVE Remembered(r)
    <3>1. armed'[r] = armed[r] /\ ev'[r] = ev[r] /\ arming'[r] = arming[r]
      BY <1>1, <2>1, <2>2, <2>5 DEF TypeOK
    <3> QED
      BY <2>1, <3>1, StaysRemembered
  <2> QED
    BY <2>4, <2>5
<1>14. ASSUME NEW q \in Tx, XmitTest(q) \/ XmitPost(q) PROVE \A r \in Rings : Remembered(r)
  <2>1. UNCHANGED <<cpl, armed, ev, calling, sched, arming, stage>>
    BY <1>14 DEF XmitTest, XmitPost, thread, cq, event, napi
  <2> QED
    BY <2>1, StaysRemembered
<1>15. CASE UNCHANGED vars
  <2>1. UNCHANGED <<cpl, armed, ev, calling, sched, arming, stage>>
    BY <1>15 DEF vars, thread, cq, event, napi
  <2> QED
    BY <1>2, <2>1, StaysRemembered
<1>16. CASE Stopping
  BY <1>2, <1>4, <1>5, <1>16 DEF Stopping
<1>17. ASSUME NEW q \in Rings, Running(q) PROVE ArmedForStart' /\ NotForgotten'
  <2>1. \A r \in Rings : Remembered(r)
    BY <1>6, <1>7, <1>8, <1>9, <1>10, <1>11, <1>12, <1>13, <1>17 DEF Running, PollStep
  <2> QED
    BY <1>2, <2>1
<1> HIDE DEF Remembered
<1> QED
  BY <1>2, <1>3, <1>4, <1>14, <1>15, <1>16, <1>17 DEF Next

\* A running ring is always on somebody's list, whatever the NIC, the handler, the polls and
\* the stops and restarts of the port do in between: its CQ is empty and armed, or an event
\* is on its way, or the handler, a poll or an arming will get to it (mqnic_netdev.c:48-83;
\* the CQ is armed in line 56, before line 64 sets the handler).
THEOREM RingsAreRemembered == Spec /\ []CleanStart => []NotForgotten
<1>1. Init => Kept /\ ArmedForStart /\ NotForgotten
  <2>1. Init => ArmedForStart /\ NotForgotten
    BY DEF Init, ArmedForStart, NotForgotten, HasHandler
  <2> QED
    BY <2>1, InitKept
<1>2. CleanStart /\ (Kept /\ ArmedForStart /\ NotForgotten) /\ [Next]_vars
          => (Kept /\ ArmedForStart /\ NotForgotten)'
  BY NextKept, NextRemembers
<1> QED
  BY <1>1, <1>2, PTL DEF Spec
=============================================================================
