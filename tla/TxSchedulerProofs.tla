------------------------- MODULE TxSchedulerProofs -------------------------
(***************************************************************************)
(* Proofs about TxScheduler: at every depth of the pipeline and for any    *)
(* number of queues and requests, a queue has one place in the round while *)
(* it is scheduled and none otherwise, so that the FIFO of the round       *)
(* cannot overflow; an entry of the table is in use for one request that   *)
(* is under way somewhere, and for no other; and while descriptors wait,   *)
(* their queue is active or something under way will make it so.           *)
(***************************************************************************)
EXTENDS TxScheduler, TLAPS, FiniteSetTheorems, WellFoundedInduction

\* The parts of the type invariant that the arguments below need.
PipeShape ==
    \A j \in Stages :
        pipe[j].op # "none" =>
            pipe[j].queue \in Queues /\ pipe[j].index \in Ops /\ pipe[j].filled \in BOOLEAN
FifoShape ==
    /\ rr \in Seq(Queues) /\ {ringing, doorbells} \subseteq Seq(Queues) /\ writes \subseteq Queues
    /\ txReq \in Requests \cup {None} /\ asked \in Seq(Requests)
    /\ {fetched, finish} \subseteq Seq(Answers)

Shape == ram \in [Queues -> Words] /\ table \in [Ops -> Entries] /\ PipeShape /\ FifoShape

\* Two operations of one queue are never in the pipeline together.
OneOpPerQueue ==
    \A j, k \in Stages :
        pipe[j].op # "none" /\ pipe[k].op # "none" /\ pipe[j].queue = pipe[k].queue => j = k

\* The word an operation carries is the one in the RAM.
Coherent == \A j \in Stages : pipe[j].op # "none" => pipe[j].word = ram[pipe[j].queue]

Inv == Shape /\ OneOpPerQueue /\ Coherent /\ ScheduledOnce

\* There is a first and a last stage, and every other one has a successor.
LEMMA StageFacts ==
    /\ 0 \in Stages /\ Last \in Stages /\ Last # 0
    /\ \A j \in Stages : j # 0 => j - 1 \in Stages /\ j - 1 # Last
    /\ \A j \in Stages : j # Last => j + 1 \in Stages /\ j + 1 # 0 /\ (j + 1) - 1 = j
BY ParamAssumption DEF Stages, Last

\* A set of table indexes that is not empty has a least element: the priority encoder
\* finds an entry when there is one.
LEMMA LeastExists ==
    ASSUME NEW S \in SUBSET Ops, S # {}
    PROVE  \E i \in S : \A j \in S : i <= j
<1> DEFINE T == {0..i : i \in S}
<1>1. IsFiniteSet(Ops)
  BY FS_Interval, ParamAssumption DEF Ops
<1>2. T \subseteq FiniteSubsetsOf(Ops) /\ T # {}
  <2>1. \A i \in S : 0..i \subseteq Ops
    BY ParamAssumption DEF Ops
  <2>2. T \subseteq SUBSET Ops /\ T # {}
    BY <2>1
  <2> QED
    BY <1>1, <2>2, FS_FiniteSubsetsOfFinite
<1>3. IsWellFoundedOn(StrictSubsetOrdering(Ops), FiniteSubsetsOf(Ops))
  BY FS_StrictSubsetOrderingWellFounded
<1> HIDE DEF T
<1>4. \E x \in T : \A y \in T : ~(<<y, x>> \in StrictSubsetOrdering(Ops))
  BY <1>2, <1>3, WFMin
<1>5. PICK i \in S : \A j \in S : ~(<<0..j, 0..i>> \in StrictSubsetOrdering(Ops))
  BY <1>4 DEF T
<1>6. SUFFICES ASSUME NEW j \in S PROVE i <= j
  OBVIOUS
<1>7. i \in Nat /\ j \in Nat
  BY ParamAssumption DEF Ops
<1>8. ASSUME j < i PROVE <<0..j, 0..i>> \in StrictSubsetOrdering(Ops)
  <2>1. i \in 0..i /\ i \notin 0..j
    BY <1>7, <1>8
  <2>2. 0..j \subseteq 0..i /\ 0..i \subseteq Ops /\ 0..j # 0..i
    BY <1>7, <1>8, <2>1, ParamAssumption DEF Ops
  <2> QED
    BY <2>2 DEF StrictSubsetOrdering
<1> QED
  BY <1>5, <1>7, <1>8

\* The entry a request takes is free.
LEMMA FreeOpIsFree == Free # {} => FreeOp \in Ops /\ ~table[FreeOp].active
<1>1. Free \in SUBSET Ops
  BY DEF Free
<1> QED
  BY <1>1, LeastExists DEF FreeOp, Free

\* What may enter the pipeline: an operation of a queue that is not in it, carrying the
\* queue's word; a request takes the next turn of the round and a free entry.
Fresh(e) ==
    /\ e.op # "none" =>
          /\ e.queue \in Queues /\ ~Hazard(e.queue) /\ e.word = ram[e.queue]
          /\ e.index \in Ops /\ e.filled \in BOOLEAN
    /\ e.op = "req" => rr # <<>> /\ e.queue = Head(rr) /\ Free # {}

\* Every clock edge shifts in one fresh operation, or none.
LEMMA Enters ==
    ASSUME Shape, Tick
    PROVE  /\ \E e : Shift(e) /\ Fresh(e)
           /\ writes' \subseteq Queues /\ doorbells' \in Seq(Queues) /\ finish' \in Seq(Answers)
<1>0. 0 \in Ops
  BY ParamAssumption DEF Ops
<1>1. ASSUME NEW q \in Queues, EnterWrite(q)
      PROVE  Shift(Stage("write", q, 0, FALSE)) /\ Fresh(Stage("write", q, 0, FALSE))
  BY <1>0, <1>1 DEF EnterWrite, AcceptWrite, Fresh, Stage
<1>2. ASSUME EnterDoorbell
      PROVE  LET e == Stage("doorbell", Head(doorbells), 0, FALSE) IN Shift(e) /\ Fresh(e)
  BY <1>0, <1>2 DEF EnterDoorbell, AcceptDoorbell, Fresh, Stage, Shape, FifoShape
<1>3. ASSUME EnterComplete
      PROVE  \E e : Shift(e) /\ Fresh(e)
  <2> DEFINE i == Head(finish).op
             e == Stage("complete", table[i].queue, i, Head(finish).filled \/ table[i].doorbell)
  <2>1. i \in Ops /\ Head(finish).filled \in BOOLEAN
    <3>1. finish \in Seq(Answers) /\ finish # <<>>
      BY <1>3 DEF EnterComplete, AcceptComplete, Shape, FifoShape
    <3>2. Head(finish) \in Answers
      BY <3>1
    <3> QED
      BY <3>2 DEF Answers
  <2>2. table[i].queue \in Queues /\ table[i].doorbell \in BOOLEAN
    BY <2>1 DEF Shape, Entries
  <2>3. Fresh(e)
    BY <1>3, <2>1, <2>2 DEF EnterComplete, AcceptComplete, Fresh, Stage
  <2> QED
    BY <1>3, <2>3 DEF EnterComplete
<1>4. ASSUME EnterReq
      PROVE  LET e == Stage("req", Head(rr), FreeOp, FALSE) IN Shift(e) /\ Fresh(e)
  BY <1>4, FreeOpIsFree DEF EnterReq, AcceptReq, Fresh, Stage, Shape, FifoShape
<1>5. ASSUME EnterNone
      PROVE  Shift(Idle) /\ Fresh(Idle)
  BY <1>5 DEF EnterNone, Fresh, Idle
<1>6. \E e : Shift(e) /\ Fresh(e)
  BY <1>1, <1>2, <1>3, <1>4, <1>5 DEF Tick
<1>7. writes' \subseteq Queues /\ doorbells' \in Seq(Queues) /\ finish' \in Seq(Answers)
  <2>1. writes \subseteq Queues /\ doorbells \in Seq(Queues) /\ finish \in Seq(Answers)
    BY DEF Shape, FifoShape
  <2>2. writes' \subseteq writes
    BY DEF Tick, EnterWrite, EnterDoorbell, EnterComplete, EnterReq, EnterNone
  <2>3. doorbells' = doorbells \/ (doorbells # <<>> /\ doorbells' = Tail(doorbells))
    BY DEF Tick, EnterWrite, EnterDoorbell, EnterComplete, EnterReq, EnterNone, AcceptDoorbell
  <2>4. finish' = finish \/ (finish # <<>> /\ finish' = Tail(finish))
    BY DEF Tick, EnterWrite, EnterDoorbell, EnterComplete, EnterReq, EnterNone, AcceptComplete
  <2>5. doorbells' \in Seq(Queues)
    BY <2>1, <2>3, SMTT(30)
  <2>6. finish' \in Seq(Answers)
    BY <2>1, <2>4, SMTT(30)
  <2> QED
    BY <2>1, <2>2, <2>5, <2>6
<1> QED
  BY <1>6, <1>7

\* The last stage writes the flags of its own queue's word and no other.
LEMMA FlagsWritten ==
    ASSUME Shape, q0 \in Queues, NEW enabled \in BOOLEAN, NEW active \in BOOLEAN,
           NEW scheduled \in BOOLEAN
    PROVE  /\ Flags(enabled, active, scheduled) \in [Queues -> Words]
           /\ Flags(enabled, active, scheduled)[q0].scheduled = scheduled
           /\ \A q \in Queues : q # q0 => Flags(enabled, active, scheduled)[q] = ram[q]
<1> DEFINE f == Flags(enabled, active, scheduled)
           v == [ram[q0] EXCEPT !.enabled = enabled, !.active = active, !.scheduled = scheduled]
<1>1. ram \in [Queues -> Words] /\ ram[q0] \in Words
  BY DEF Shape
<1>2. v \in Words /\ v.scheduled = scheduled
  BY <1>1 DEF Words
<1>3. f = [ram EXCEPT ![q0] = v]
  BY <1>1 DEF Flags
<1> HIDE DEF v, f
<1>4. f \in [Queues -> Words] /\ f[q0] = v /\ \A q \in Queues : q # q0 => f[q] = ram[q]
  BY <1>1, <1>2, <1>3
<1> QED
  BY <1>2, <1>4 DEF f

\* The entries of the table stay entries, whatever operation writes them.
LEMMA EntriesKept ==
    ASSUME NEW t \in [Ops -> Entries]
    PROVE  Kept(t) \in [Ops -> Entries]
<1>1. (CHOOSE q \in Queues : TRUE) \in Queues
  BY ParamAssumption
<1>2. FreeEntry \in Entries
  BY <1>1, ParamAssumption DEF FreeEntry, Entries, Ops
<1>3. \A j \in Ops : [FreeEntry EXCEPT !.next = t[j].next] \in Entries
  BY <1>2 DEF Entries
<1> QED
  BY <1>3 DEF Kept

\* The table that the last stage finds holds entries.
LEMMA StartedShape ==
    ASSUME Shape, Tick
    PROVE  Started \in [Ops -> Entries]
<1>1. PICK e : Shift(e) /\ Fresh(e)
  BY Enters
<1>2. pipe'[0] = e
  BY <1>1, StageFacts DEF Shift
<1>3. CASE Entering
  <2>1. FreeOp \in Ops /\ Head(rr) \in Queues
    BY <1>1, <1>2, <1>3, FreeOpIsFree DEF Entering, Fresh
  <2> DEFINE o == [table[FreeOp] EXCEPT !.active = TRUE, !.queue = Head(rr), !.doorbell = FALSE]
  <2>2. table \in [Ops -> Entries]
    BY DEF Shape
  <2>3. o \in Entries
    <3>1. table[FreeOp] \in Entries
      BY <2>1, <2>2
    <3> QED
      BY <2>1, <3>1 DEF Entries
  <2>4. Started = [table EXCEPT ![FreeOp] = o]
    BY <1>3, <2>1, <2>2 DEF Started, Entries
  <2> QED
    BY <2>1, <2>2, <2>3, <2>4
<1>4. CASE ~Entering
  BY <1>4 DEF Started, Shape
<1> QED
  BY <1>3, <1>4

\* What the operation at the last stage does to the RAM, the table and the round: it
\* leaves other queues alone; its own joins the round when it becomes scheduled, and
\* after its turn if it stays so.
Effect(joins) ==
    /\ \A q \in Queues : q # q0 => ram'[q] = ram[q]
    /\ rr' = IF joins THEN Append(Turned, q0) ELSE Turned
    /\ cur.op = "req" => (ram'[q0].scheduled <=> joins)
    /\ cur.op # "req" => (ram'[q0].scheduled <=> ram[q0].scheduled \/ joins)
    /\ cur.op # "req" => (joins => ~ram[q0].scheduled)

\* Every clock edge performs the operation at the last stage, if there is one.
LEMMA Executes ==
    ASSUME Shape, Coherent, Tick
    PROVE  /\ ram' \in [Queues -> Words] /\ table' \in [Ops -> Entries]
           /\ txReq' \in Requests \cup {None}
           /\ cur.op = "none" => ram' = ram /\ rr' = Turned
           /\ cur.op # "none" => \E joins \in BOOLEAN : Effect(joins)
<1> DEFINE w == cur.word
<1>1. Started \in [Ops -> Entries] /\ table \in [Ops -> Entries]
  BY StartedShape DEF Shape
<1>2. ASSUME cur.op # "none"
      PROVE  /\ q0 \in Queues /\ cur.index \in Ops /\ cur.filled \in BOOLEAN
             /\ w = ram[q0] /\ w \in Words
  BY <1>2, StageFacts DEF Shape, PipeShape, Coherent, cur, q0
<1>3. ASSUME cur.op # "none"
      PROVE  tail0 \in Ops /\ w.enabled \in BOOLEAN /\ w.active \in BOOLEAN /\ w.scheduled \in BOOLEAN
  BY <1>2, <1>3 DEF Words, tail0
<1>4. txReq \in Requests \cup {None}
  BY DEF Shape, FifoShape
<1>5. ASSUME ExecDoorbell
      PROVE  /\ ram' \in [Queues -> Words] /\ table' \in [Ops -> Entries] /\ txReq' = txReq
             /\ cur.op \notin {"none", "req"} /\ Effect(w.enabled /\ ~w.scheduled)
  <2>1. cur.op = "doorbell"
    BY <1>5 DEF ExecDoorbell
  <2> DEFINE t == IF TailActive THEN [Started EXCEPT ![tail0].doorbell = TRUE] ELSE Started
  <2>2. t \in [Ops -> Entries]
    <3>1. tail0 \in Ops /\ Started[tail0] \in Entries
      BY <1>1, <1>3, <2>1
    <3>2. [Started[tail0] EXCEPT !.doorbell = TRUE] \in Entries
      BY <3>1 DEF Entries
    <3> QED
      BY <1>1, <3>1, <3>2
  <2>3. table' \in [Ops -> Entries]
    BY <1>5, <2>2, EntriesKept DEF ExecDoorbell
  <2>4. ram' = Flags(w.enabled, TRUE, w.scheduled \/ w.enabled)
    BY <1>5 DEF ExecDoorbell
  <2>5. /\ ram' \in [Queues -> Words]
        /\ ram'[q0].scheduled = (w.scheduled \/ w.enabled)
        /\ \A q \in Queues : q # q0 => ram'[q] = ram[q]
    <3>1. q0 \in Queues /\ w.enabled \in BOOLEAN /\ TRUE \in BOOLEAN
      BY <1>2, <1>3, <2>1
    <3>2. (w.scheduled \/ w.enabled) \in BOOLEAN
      BY Zenon
    <3> QED
      BY <2>4, <3>1, <3>2, FlagsWritten, ZenonT(30)
  <2>6. rr' = IF w.enabled /\ ~w.scheduled THEN Append(Turned, q0) ELSE Turned
    BY <1>5 DEF ExecDoorbell, Schedule
  <2>7. Effect(w.enabled /\ ~w.scheduled)
    BY <1>2, <2>1, <2>5, <2>6 DEF Effect
  <2> QED
    BY <1>5, <2>1, <2>3, <2>5, <2>7 DEF ExecDoorbell
<1>6. ASSUME ExecWrite
      PROVE  /\ ram' \in [Queues -> Words] /\ table' \in [Ops -> Entries] /\ txReq' = txReq
             /\ cur.op \notin {"none", "req"} /\ Effect(w.active /\ ~w.scheduled)
  <2>1. cur.op = "write"
    BY <1>6 DEF ExecWrite
  <2>2. table' \in [Ops -> Entries]
    BY <1>1, <1>6, EntriesKept DEF ExecWrite
  <2>3. ram' = Flags(TRUE, w.active, w.scheduled \/ w.active)
    BY <1>6 DEF ExecWrite
  <2>4. /\ ram' \in [Queues -> Words]
        /\ ram'[q0].scheduled = (w.scheduled \/ w.active)
        /\ \A q \in Queues : q # q0 => ram'[q] = ram[q]
    <3>1. q0 \in Queues /\ w.active \in BOOLEAN /\ TRUE \in BOOLEAN
      BY <1>2, <1>3, <2>1
    <3> DEFINE both == w.scheduled \/ w.active
               enabled == TRUE
               active == w.active
    <3>2. /\ both \in BOOLEAN /\ enabled \in BOOLEAN /\ active \in BOOLEAN
          /\ ram' = Flags(enabled, active, both)
      BY <2>3, <3>1, Zenon
    <3> HIDE DEF both, enabled, active
    <3>3. /\ Flags(enabled, active, both) \in [Queues -> Words]
          /\ Flags(enabled, active, both)[q0].scheduled = both
          /\ \A q \in Queues : q # q0 => Flags(enabled, active, both)[q] = ram[q]
      <4>1. \A e, a, b \in BOOLEAN :
                /\ Flags(e, a, b) \in [Queues -> Words] /\ Flags(e, a, b)[q0].scheduled = b
                /\ \A q \in Queues : q # q0 => Flags(e, a, b)[q] = ram[q]
        BY <3>1, FlagsWritten
      <4>2. Flags(enabled, active, both) \in [Queues -> Words]
        BY <3>2, <4>1, Zenon
      <4>3. Flags(enabled, active, both)[q0].scheduled = both
        BY <3>2, <4>1, Zenon
      <4>4. ASSUME NEW q \in Queues, q # q0 PROVE Flags(enabled, active, both)[q] = ram[q]
        BY <3>1, <4>4 DEF Flags, Shape
      <4> QED
        BY <4>2, <4>3, <4>4, Zenon
    <3> QED
      BY <3>2, <3>3, Zenon DEF both
  <2>5. rr' = IF w.active /\ ~w.scheduled THEN Append(Turned, q0) ELSE Turned
    BY <1>6 DEF ExecWrite, Schedule
  <2>6. Effect(w.active /\ ~w.scheduled)
    BY <1>2, <2>1, <2>4, <2>5 DEF Effect
  <2> QED
    BY <1>6, <2>1, <2>2, <2>4, <2>6 DEF ExecWrite
<1>7. ASSUME ExecComplete
      PROVE  /\ ram' \in [Queues -> Words] /\ table' \in [Ops -> Entries] /\ txReq' = txReq
             /\ cur.op \notin {"none", "req"} /\ Effect(cur.filled /\ ~w.scheduled)
  <2>1. cur.op = "complete"
    BY <1>7 DEF ExecComplete
  <2> DEFINE i == cur.index
             o == table[i]
             before(j) == j = o.prev /\ ~o.isHead
             after(j) == j = o.next /\ i # tail0
             t == [j \in Ops |-> [Started[j] EXCEPT !.active   = @ /\ j # i,
                                !.doorbell = @ \/ (before(j) /\ o.doorbell),
                                !.next     = IF before(j) THEN o.next ELSE @,
                                !.prev     = IF after(j) THEN o.prev ELSE @,
                                !.isHead   = IF after(j) THEN o.isHead ELSE @]]
  <2>2. o \in Entries
    BY <1>1, <1>2, <2>1
  <2>3. t \in [Ops -> Entries]
    <3> SUFFICES ASSUME NEW j \in Ops PROVE t[j] \in Entries
      OBVIOUS
    <3>1. Started[j] \in Entries
      BY <1>1
    <3>2. /\ o.next \in Ops /\ o.prev \in Ops /\ o.isHead \in BOOLEAN
          /\ Started[j].next \in Ops /\ Started[j].prev \in Ops /\ Started[j].isHead \in BOOLEAN
          /\ Started[j].active \in BOOLEAN /\ Started[j].doorbell \in BOOLEAN
      BY <2>2, <3>1 DEF Entries
    <3>3. /\ (Started[j].active /\ j # i) \in BOOLEAN
          /\ (Started[j].doorbell \/ (before(j) /\ o.doorbell)) \in BOOLEAN
      BY Zenon
    <3>4. /\ (IF before(j) THEN o.next ELSE Started[j].next) \in Ops
          /\ (IF after(j) THEN o.prev ELSE Started[j].prev) \in Ops
          /\ (IF after(j) THEN o.isHead ELSE Started[j].isHead) \in BOOLEAN
      BY <3>2, Zenon
    <3> HIDE DEF o, before, after
    <3>5. t[j] = [Started[j] EXCEPT !.active   = Started[j].active /\ j # i,
                            !.doorbell = Started[j].doorbell \/ (before(j) /\ o.doorbell),
                            !.next     = IF before(j) THEN o.next ELSE Started[j].next,
                            !.prev     = IF after(j) THEN o.prev ELSE Started[j].prev,
                            !.isHead   = IF after(j) THEN o.isHead ELSE Started[j].isHead]
      BY Zenon
    <3> HIDE DEF t
    <3> QED
      BY <3>1, <3>3, <3>4, <3>5, Zenon DEF Entries
  <2>4. table' = Kept(t)
    BY <1>7 DEF ExecComplete
  <2>5. table' \in [Ops -> Entries]
    BY <2>3, <2>4, EntriesKept
  <2>6. ram' = Flags(w.enabled, cur.filled, w.scheduled \/ cur.filled)
    BY <1>7 DEF ExecComplete
  <2>7. /\ ram' \in [Queues -> Words]
        /\ ram'[q0].scheduled = (w.scheduled \/ cur.filled)
        /\ \A q \in Queues : q # q0 => ram'[q] = ram[q]
    <3>1. q0 \in Queues /\ w.enabled \in BOOLEAN /\ cur.filled \in BOOLEAN
      BY <1>2, <1>3, <2>1
    <3> DEFINE s == w.scheduled \/ cur.filled
    <3>2. s \in BOOLEAN
      BY Zenon
    <3>3. ram' = Flags(w.enabled, cur.filled, s)
      BY <2>6
    <3> DEFINE e == w.enabled
               f == cur.filled
               r == Flags(e, f, s)
    <3>4. e \in BOOLEAN /\ f \in BOOLEAN /\ q0 \in Queues
      BY <3>1
    <3> HIDE DEF s, e, f
    <3>5. /\ r \in [Queues -> Words] /\ r[q0].scheduled = s
          /\ \A q \in Queues : q # q0 => r[q] = ram[q]
      BY <3>2, <3>4, FlagsWritten
    <3> HIDE DEF r
    <3>6. ram' = r
      BY <3>3 DEF r, e, f
    <3> QED
      BY <3>5, <3>6 DEF s
  <2>8. rr' = IF cur.filled /\ ~w.scheduled THEN Append(Turned, q0) ELSE Turned
    BY <1>7 DEF ExecComplete, Schedule
  <2>9. Effect(cur.filled /\ ~w.scheduled)
    BY <1>2, <2>1, <2>7, <2>8 DEF Effect
  <2> QED
    BY <1>7, <2>1, <2>5, <2>7, <2>9 DEF ExecComplete
<1>8. ASSUME ExecReq
      PROVE  /\ ram' \in [Queues -> Words] /\ table' \in [Ops -> Entries]
             /\ txReq' \in Requests \cup {None} /\ cur.op = "req"
             /\ \E joins \in BOOLEAN : Effect(joins)
  <2>1. cur.op = "req"
    BY <1>8 DEF ExecReq
  <2> DEFINE i == cur.index
             go == w.enabled /\ w.active /\ w.scheduled
             follows == TailActive /\ i # tail0
             t == [j \in Ops |-> [Started[j] EXCEPT
                                    !.next   = IF follows /\ j = tail0 THEN i ELSE @,
                                    !.prev   = IF j = i THEN tail0 ELSE @,
                                    !.isHead = IF j = i THEN ~follows ELSE @]]
  <2>2. CASE go
    <3>1. t \in [Ops -> Entries]
      <4> SUFFICES ASSUME NEW j \in Ops PROVE t[j] \in Entries
        OBVIOUS
      <4>1. Started[j] \in Entries /\ i \in Ops /\ tail0 \in Ops
        BY <1>1, <1>2, <1>3, <2>1
      <4> QED
        BY <4>1 DEF Entries
    <3>2. table' = Kept(t)
      BY <1>8, <2>2 DEF ExecReq
    <3>3. table' \in [Ops -> Entries]
      BY <3>1, <3>2, EntriesKept
    <3> DEFINE f == Flags(w.enabled, w.active, TRUE)
    <3>4. ram' = [f EXCEPT ![q0].tail = i]
      BY <1>8, <2>2 DEF ExecReq
    <3>5. /\ f \in [Queues -> Words] /\ f[q0].scheduled = TRUE
          /\ \A q \in Queues : q # q0 => f[q] = ram[q]
      <4>1. q0 \in Queues /\ w.enabled \in BOOLEAN /\ w.active \in BOOLEAN /\ TRUE \in BOOLEAN
        BY <1>2, <1>3, <2>1
      <4> QED
        BY <4>1, FlagsWritten, Zenon
    <3> HIDE DEF f
    <3>6. /\ ram' \in [Queues -> Words] /\ ram'[q0].scheduled = TRUE
          /\ \A q \in Queues : q # q0 => ram'[q] = ram[q]
      BY <1>2, <2>1, <3>4, <3>5 DEF Words
    <3>7. rr' = Append(Turned, q0) /\ txReq' = [queue |-> q0, op |-> i]
      BY <1>8, <2>2 DEF ExecReq
    <3>8. txReq' \in Requests
      BY <1>2, <2>1, <3>7 DEF Requests
    <3>9. Effect(TRUE)
      BY <2>1, <3>6, <3>7 DEF Effect
    <3> QED
      BY <2>1, <3>3, <3>6, <3>8, <3>9
  <2>3. CASE ~go
    <3>1. table' = Kept([Started EXCEPT ![i].active = FALSE])
      BY <1>8, <2>3 DEF ExecReq
    <3>2. [Started EXCEPT ![i].active = FALSE] \in [Ops -> Entries]
      BY <1>1, <1>2, <2>1 DEF Entries
    <3>3. table' \in [Ops -> Entries]
      BY <3>1, <3>2, EntriesKept
    <3>4. ram' = Flags(w.enabled, w.active, FALSE) /\ rr' = Turned /\ txReq' = txReq
      BY <1>8, <2>3 DEF ExecReq
    <3>5. /\ ram' \in [Queues -> Words] /\ ram'[q0].scheduled = FALSE
          /\ \A q \in Queues : q # q0 => ram'[q] = ram[q]
      <4>1. q0 \in Queues /\ w.enabled \in BOOLEAN /\ w.active \in BOOLEAN /\ FALSE \in BOOLEAN
        BY <1>2, <1>3, <2>1
      <4> QED
        <5>1. LET new == Flags(w.enabled, w.active, FALSE) IN
              /\ new \in [Queues -> Words] /\ new[q0].scheduled = FALSE
              /\ \A q \in Queues : q # q0 => new[q] = ram[q]
          BY <4>1, FlagsWritten, Zenon
        <5> QED
          BY <3>4, <5>1, Zenon
    <3>6. Effect(FALSE)
      BY <2>1, <3>4, <3>5 DEF Effect
    <3> QED
      BY <1>4, <2>1, <3>3, <3>4, <3>5, <3>6
  <2> QED
    BY <2>2, <2>3
<1>9. ASSUME ExecNone
      PROVE  /\ ram' = ram /\ table' \in [Ops -> Entries] /\ txReq' = txReq
             /\ cur.op = "none" /\ rr' = Turned
  BY <1>1, <1>9, EntriesKept DEF ExecNone
<1>10. CASE ExecDoorbell
  BY <1>4, <1>5, <1>10
<1>11. CASE ExecWrite
  BY <1>4, <1>6, <1>11
<1>12. CASE ExecComplete
  BY <1>4, <1>7, <1>12
<1>13. CASE ExecReq
  BY <1>8, <1>13
<1>14. CASE ExecNone
  BY <1>4, <1>9, <1>14 DEF Shape
<1> QED
  BY <1>10, <1>11, <1>12, <1>13, <1>14 DEF Tick

In(s, q) == \E j \in DOMAIN s : s[j] = q
Distinct(s) == \A j, k \in DOMAIN s : s[j] = s[k] => j = k

\* The queue at the head of the round leaves it.
LEMMA TailLeaves ==
    ASSUME NEW s \in Seq(Queues), s # <<>>, Distinct(s)
    PROVE  /\ Tail(s) \in Seq(Queues) /\ Distinct(Tail(s)) /\ ~In(Tail(s), Head(s))
           /\ \A q : In(s, q) <=> In(Tail(s), q) \/ q = Head(s)
<1>1. /\ Tail(s) \in Seq(Queues) /\ Len(s) \in Nat /\ Len(s) >= 1 /\ Head(s) = s[1]
      /\ DOMAIN s = 1..Len(s) /\ DOMAIN Tail(s) = 1..Len(s) - 1
      /\ \A j \in 1..Len(s) - 1 : Tail(s)[j] = s[j + 1]
  OBVIOUS
<1>2. \A j \in DOMAIN Tail(s) : j + 1 \in DOMAIN s /\ j + 1 # 1
  BY <1>1
<1>3. Distinct(Tail(s))
  <2> SUFFICES ASSUME NEW j \in DOMAIN Tail(s), NEW k \in DOMAIN Tail(s), Tail(s)[j] = Tail(s)[k]
               PROVE  j = k
    BY DEF Distinct
  <2>1. j + 1 = k + 1
    BY <1>1, <1>2 DEF Distinct
  <2> QED
    BY <1>1, <2>1
<1>4. ~In(Tail(s), Head(s))
  <2> SUFFICES ASSUME NEW j \in DOMAIN Tail(s), Tail(s)[j] = Head(s) PROVE FALSE
    BY DEF In
  <2>1. s[j + 1] = s[1] /\ 1 \in DOMAIN s
    BY <1>1
  <2> QED
    BY <1>2, <2>1 DEF Distinct
<1>5. ASSUME NEW q PROVE In(s, q) <=> In(Tail(s), q) \/ q = Head(s)
  <2>1. ASSUME NEW j \in DOMAIN s, s[j] = q, j # 1 PROVE In(Tail(s), q)
    <3>1. j - 1 \in DOMAIN Tail(s) /\ Tail(s)[j - 1] = q
      BY <1>1, <2>1
    <3> QED
      BY <3>1 DEF In
  <2>2. In(Tail(s), q) => In(s, q)
    BY <1>1, <1>2 DEF In
  <2>3. q = Head(s) => In(s, q)
    BY <1>1 DEF In
  <2> QED
    BY <1>1, <2>1, <2>2, <2>3 DEF In
<1> QED
  BY <1>1, <1>3, <1>4, <1>5

\* A queue that is not in the round joins it at the end.
LEMMA AppendJoins ==
    ASSUME NEW s \in Seq(Queues), NEW q \in Queues, Distinct(s), ~In(s, q)
    PROVE  /\ Append(s, q) \in Seq(Queues) /\ Distinct(Append(s, q))
           /\ \A p : In(Append(s, q), p) <=> In(s, p) \/ p = q
<1> DEFINE t == Append(s, q)
<1>1. /\ t \in Seq(Queues) /\ Len(s) \in Nat /\ DOMAIN s = 1..Len(s)
      /\ DOMAIN t = 1..Len(s) + 1 /\ t[Len(s) + 1] = q
      /\ \A j \in 1..Len(s) : t[j] = s[j]
  OBVIOUS
<1> HIDE DEF t
<1>2. \A j \in DOMAIN t : j \in DOMAIN s \/ j = Len(s) + 1
  BY <1>1
<1>3. \A j \in DOMAIN s : t[j] = s[j] /\ t[j] # q /\ j \in DOMAIN t
  BY <1>1 DEF In
<1>4. Len(s) + 1 \in DOMAIN t
  BY <1>1
<1>5. Distinct(t)
  BY <1>1, <1>2, <1>3 DEF Distinct
<1>6. \A p : In(t, p) <=> In(s, p) \/ p = q
  BY <1>1, <1>2, <1>3, <1>4 DEF In
<1> QED
  BY <1>1, <1>5, <1>6 DEF t

\* A request that enters takes the queue at the head out of the round.
LEMMA TurnTaken ==
    ASSUME Shape, Distinct(rr), NEW e, Shift(e), Fresh(e)
    PROVE  /\ Turned \in Seq(Queues) /\ Distinct(Turned)
           /\ e.op = "req" => ~In(Turned, e.queue)
           /\ \A q : In(rr, q) <=> In(Turned, q) \/ (e.op = "req" /\ q = e.queue)
<1>1. Entering <=> e.op = "req"
  BY StageFacts DEF Entering, Shift
<1>2. rr \in Seq(Queues)
  BY DEF Shape, FifoShape
<1>3. CASE Entering
  BY <1>1, <1>2, <1>3, TailLeaves DEF Turned, Fresh
<1>4. CASE ~Entering
  BY <1>1, <1>2, <1>4 DEF Turned
<1> QED
  BY <1>3, <1>4

\* ScheduledOnce in the terms of the lemmas above.
LEMMA RoundOf ==
    ScheduledOnce <=>
        /\ Distinct(rr)
        /\ \A q \in Queues : /\ ram[q].scheduled <=> In(rr, q) \/ Asking(q)
                             /\ ~(In(rr, q) /\ Asking(q))
BY Zenon DEF ScheduledOnce, InRound, Distinct, In

\* A clock edge changes the word of no other queue than the one at the last stage.
LEMMA OthersKept ==
    ASSUME Shape, Coherent, Tick, NEW q \in Queues, cur.op = "none" \/ q # q0
    PROVE  ram'[q] = ram[q]
<1>1. CASE cur.op = "none"
  BY <1>1, Executes
<1>2. CASE cur.op # "none"
  <2>1. PICK joins \in BOOLEAN : Effect(joins)
    BY <1>2, Executes
  <2> QED
    BY <1>2, <2>1 DEF Effect
<1> QED
  BY <1>1, <1>2

\* The FIFO of the round holds queues after every clock edge.
LEMMA RoundShape ==
    ASSUME Inv, Tick
    PROVE  rr' \in Seq(Queues)
<1>1. PICK e : Shift(e) /\ Fresh(e)
  BY Enters DEF Inv
<1>2. Distinct(rr)
  BY RoundOf DEF Inv
<1>3. Turned \in Seq(Queues)
  BY <1>1, <1>2, TurnTaken DEF Inv
<1>4. CASE cur.op = "none"
  BY <1>3, <1>4, Executes DEF Inv
<1>5. CASE cur.op # "none"
  <2>1. PICK joins \in BOOLEAN : Effect(joins)
    BY <1>5, Executes DEF Inv
  <2>2. q0 \in Queues
    BY <1>5, StageFacts DEF Inv, Shape, PipeShape, cur, q0
  <2> QED
    BY <1>3, <2>1, <2>2 DEF Effect
<1> QED
  BY <1>4, <1>5

\* A clock edge keeps the shapes of the registers.
LEMMA TickShape ==
    ASSUME Inv, Tick
    PROVE  Shape'
<1>1. PICK e : Shift(e) /\ Fresh(e)
  BY Enters DEF Inv
<1>2. ram' \in [Queues -> Words] /\ table' \in [Ops -> Entries] /\ txReq' \in Requests \cup {None}
  BY Executes DEF Inv
<1>3. PipeShape'
  <2> SUFFICES ASSUME NEW j \in Stages, pipe'[j].op # "none"
               PROVE  /\ pipe'[j].queue \in Queues /\ pipe'[j].index \in Ops
                      /\ pipe'[j].filled \in BOOLEAN
    BY DEF PipeShape
  <2>1. CASE j = 0
    BY <1>1, <2>1 DEF Shift, Fresh
  <2>2. CASE j # 0
    <3>1. pipe'[j] = pipe[j - 1] /\ j - 1 \in Stages
      BY <1>1, <2>2, StageFacts DEF Shift
    <3> QED
      BY <3>1 DEF Inv, Shape, PipeShape
  <2> QED
    BY <2>1, <2>2
<1>4. FifoShape'
  <2>1. writes' \subseteq Queues /\ doorbells' \in Seq(Queues) /\ finish' \in Seq(Answers)
    BY Enters DEF Inv
  <2>2. rr' \in Seq(Queues)
    BY RoundShape
  <2>3. ringing' = ringing /\ asked' = asked /\ fetched' = fetched
    BY DEF Tick, engine
  <2>4. ringing \in Seq(Queues) /\ asked \in Seq(Requests) /\ fetched \in Seq(Answers)
    BY DEF Inv, Shape, FifoShape
  <2> QED
    BY <1>2, <2>1, <2>2, <2>3, <2>4 DEF FifoShape
<1> QED
  BY <1>2, <1>3, <1>4 DEF Shape

\* The pipeline admits no second operation of a queue.
LEMMA TickOneOp ==
    ASSUME Inv, Tick
    PROVE  OneOpPerQueue'
<1>1. PICK e : Shift(e) /\ Fresh(e)
  BY Enters DEF Inv
<1>2. /\ pipe'[0] = e
      /\ \A j \in Stages : j # 0 => pipe'[j] = pipe[j - 1] /\ j - 1 \in Stages
  BY <1>1, StageFacts DEF Shift
<1>3. e.op # "none" => ~Hazard(e.queue)
  BY <1>1 DEF Fresh
<1>4. SUFFICES ASSUME NEW j \in Stages, NEW k \in Stages, pipe'[j].op # "none", pipe'[k].op # "none",
                      pipe'[j].queue = pipe'[k].queue
               PROVE  j = k
  BY DEF OneOpPerQueue
<1>5. CASE j = 0 \/ k = 0
  BY <1>2, <1>3, <1>4, <1>5 DEF Hazard
<1>6. CASE j # 0 /\ k # 0
  <2>1. j - 1 = k - 1
    BY <1>2, <1>4, <1>6 DEF Inv, OneOpPerQueue
  <2> QED
    BY <2>1 DEF Stages
<1> QED
  BY <1>5, <1>6

\* Because it does not, the word an operation carries is still the one in the RAM when
\* the operation is performed: the read at its entry is never stale.
LEMMA TickCoherent ==
    ASSUME Inv, Tick
    PROVE  Coherent'
<1>1. PICK e : Shift(e) /\ Fresh(e)
  BY Enters DEF Inv
<1>2. SUFFICES ASSUME NEW j \in Stages, pipe'[j].op # "none"
               PROVE  pipe'[j].word = ram'[pipe'[j].queue]
  BY DEF Coherent
<1>3. CASE j = 0
  <2>1. pipe'[j] = e
    BY <1>1, <1>3, StageFacts DEF Shift
  <2>2. e.queue \in Queues /\ ~Hazard(e.queue) /\ e.word = ram[e.queue]
    BY <1>1, <1>2, <2>1 DEF Fresh
  <2>3. cur.op = "none" \/ e.queue # q0
    BY <2>2, StageFacts DEF Hazard, cur, q0
  <2> QED
    BY <2>1, <2>2, <2>3, OthersKept DEF Inv
<1>4. CASE j # 0
  <2>1. pipe'[j] = pipe[j - 1] /\ j - 1 \in Stages /\ j - 1 # Last /\ Last \in Stages
    BY <1>1, <1>4, StageFacts DEF Shift
  <2> DEFINE q == pipe[j - 1].queue
  <2>2. q \in Queues /\ pipe[j - 1].word = ram[q]
    BY <1>2, <2>1 DEF Inv, Shape, PipeShape, Coherent
  <2>3. cur.op = "none" \/ q # q0
    BY <1>2, <2>1 DEF Inv, OneOpPerQueue, cur, q0
  <2>4. ram'[q] = ram[q]
    BY <2>2, <2>3, OthersKept DEF Inv
  <2> QED
    BY <2>1, <2>2, <2>4
<1> QED
  BY <1>3, <1>4

\* A queue is asked for by the request that has entered or by one that moved on.
LEMMA AskingMoves ==
    ASSUME Inv, NEW e, Shift(e), Fresh(e), NEW q
    PROVE  /\ Asking(q)' <=> (e.op = "req" /\ e.queue = q)
                            \/ \E j \in Stages : j # Last /\ pipe[j].op = "req" /\ pipe[j].queue = q
           /\ Asking(q) <=> (cur.op = "req" /\ q0 = q)
                            \/ \E j \in Stages : j # Last /\ pipe[j].op = "req" /\ pipe[j].queue = q
<1>1. pipe'[0] = e
  BY StageFacts DEF Shift
<1>2. \A j \in Stages : j # 0 => pipe'[j] = pipe[j - 1] /\ j - 1 \in Stages /\ j - 1 # Last
  BY StageFacts DEF Shift
<1>3. \A j \in Stages : j # Last => pipe'[j + 1] = pipe[j] /\ j + 1 \in Stages
  <2> SUFFICES ASSUME NEW j \in Stages, j # Last
               PROVE  pipe'[j + 1] = pipe[j] /\ j + 1 \in Stages
    OBVIOUS
  <2>1. j + 1 \in Stages /\ j + 1 # 0 /\ (j + 1) - 1 = j
    BY StageFacts
  <2> QED
    BY <2>1 DEF Shift
<1>4. ASSUME Asking(q)'
      PROVE  (e.op = "req" /\ e.queue = q)
             \/ \E j \in Stages : j # Last /\ pipe[j].op = "req" /\ pipe[j].queue = q
  <2>1. PICK j \in Stages : pipe'[j].op = "req" /\ pipe'[j].queue = q
    BY <1>4 DEF Asking
  <2> QED
    BY <1>1, <1>2, <2>1
<1>5. ASSUME NEW j \in Stages, j # Last, pipe[j].op = "req", pipe[j].queue = q
      PROVE  Asking(q)'
  BY <1>3, <1>5 DEF Asking
<1>6. (e.op = "req" /\ e.queue = q) => Asking(q)'
  BY <1>1, StageFacts DEF Asking
<1>7. Asking(q) <=> (cur.op = "req" /\ q0 = q)
                    \/ \E j \in Stages : j # Last /\ pipe[j].op = "req" /\ pipe[j].queue = q
  BY StageFacts DEF Asking, cur, q0
<1> QED
  BY <1>4, <1>5, <1>6, <1>7

\* A clock edge keeps every queue's place in the round: only the queue at the last stage
\* can join, no other operation of it is under way, and the flag it carries tells whether
\* it is there.
LEMMA TickRound ==
    ASSUME Inv, Tick
    PROVE  ScheduledOnce'
<1>1. PICK e : Shift(e) /\ Fresh(e)
  BY Enters DEF Inv
<1> DEFINE Moving(q) == \E j \in Stages : j # Last /\ pipe[j].op = "req" /\ pipe[j].queue = q
           Taken(q) == e.op = "req" /\ e.queue = q
           Now(q) == \E j \in Stages : pipe'[j].op = "req" /\ pipe'[j].queue = q
<1>2. /\ Turned \in Seq(Queues) /\ Distinct(Turned)
      /\ \A q : Taken(q) => ~In(Turned, q)
      /\ \A q : In(rr, q) <=> In(Turned, q) \/ Taken(q)
  BY <1>1, TurnTaken, RoundOf DEF Inv
<1>3. \A q : /\ Now(q) <=> Taken(q) \/ Moving(q)
             /\ Asking(q) <=> (cur.op = "req" /\ q0 = q) \/ Moving(q)
  BY <1>1, AskingMoves DEF Asking
<1>4. \A q \in Queues : /\ ram[q].scheduled <=> In(rr, q) \/ Asking(q)
                        /\ ~(In(rr, q) /\ Asking(q))
  BY RoundOf DEF Inv
<1>5. SUFFICES /\ Distinct(rr')
               /\ \A q \in Queues : /\ ram'[q].scheduled <=> In(rr', q) \/ Now(q)
                                    /\ ~(In(rr', q) /\ Now(q))
  BY Zenon DEF ScheduledOnce, InRound, Distinct, In, Asking
<1> HIDE DEF Moving, Taken, Now
\* A queue that is not at the last stage: its request may move or enter, its flag stays.
<1>6. ASSUME NEW q \in Queues, ram'[q] = ram[q], In(rr', q) <=> In(Turned, q),
             cur.op = "none" \/ q # q0
      PROVE  /\ ram'[q].scheduled <=> In(rr', q) \/ Now(q)
             /\ ~(In(rr', q) /\ Now(q))
  BY <1>2, <1>3, <1>4, <1>6
<1>7. CASE cur.op = "none"
  <2>1. rr' = Turned /\ ram' = ram
    BY <1>7, Executes DEF Inv
  <2> QED
    BY <1>2, <1>6, <1>7, <2>1
<1>8. CASE cur.op # "none"
  <2>1. PICK joins \in BOOLEAN : Effect(joins)
    BY <1>8, Executes DEF Inv
  <2>2. q0 \in Queues
    BY <1>8, StageFacts DEF Inv, Shape, PipeShape, cur, q0
  <2>3. ~Moving(q0) /\ ~Taken(q0)
    <3>1. ~Moving(q0)
      BY <1>8, StageFacts DEF Moving, Inv, OneOpPerQueue, cur, q0
    <3>2. ~Taken(q0)
      BY <1>1, <1>8, StageFacts DEF Taken, Fresh, Hazard, cur, q0
    <3> QED
      BY <3>1, <3>2
  <2>4. cur.op # "req" => (ram[q0].scheduled <=> In(Turned, q0))
    BY <1>2, <1>3, <1>4, <2>2, <2>3
  <2>5. cur.op = "req" => ~In(Turned, q0)
    BY <1>2, <1>3, <1>4, <2>2, <2>3
  <2>6. joins => ~In(Turned, q0)
    BY <2>1, <2>4, <2>5 DEF Effect
  <2>7. /\ Distinct(rr')
        /\ \A q : In(rr', q) <=> In(Turned, q) \/ (joins /\ q = q0)
    <3>1. CASE joins
      BY <1>2, <2>1, <2>2, <2>6, <3>1, AppendJoins DEF Effect
    <3>2. CASE ~joins
      BY <1>2, <2>1, <3>2 DEF Effect
    <3> QED
      BY <3>1, <3>2
  <2>8. ram'[q0].scheduled <=> In(Turned, q0) \/ joins
    BY <2>1, <2>4, <2>5 DEF Effect
  <2>9. ASSUME NEW q \in Queues
        PROVE  /\ ram'[q].scheduled <=> In(rr', q) \/ Now(q)
               /\ ~(In(rr', q) /\ Now(q))
    <3>1. CASE q = q0
      BY <1>3, <2>3, <2>7, <2>8, <3>1
    <3>2. CASE q # q0
      <4>1. ram'[q] = ram[q]
        BY <2>1, <3>2 DEF Effect
      <4> QED
        BY <1>6, <2>7, <3>2, <4>1
    <3> QED
      BY <3>1, <3>2
  <2> QED
    BY <2>7, <2>9
<1> QED
  BY <1>7, <1>8

\* The neighbours of the scheduler touch neither its registers nor the round.
LEMMA NeighbourInv ==
    ASSUME Inv, UNCHANGED scheduler, FifoShape'
    PROVE  Inv'
<1>1. ram' = ram /\ table' = table /\ pipe' = pipe /\ rr' = rr
  BY DEF scheduler
<1>2. Shape'
  BY <1>1 DEF Inv, Shape, PipeShape
<1>3. OneOpPerQueue' /\ Coherent'
  BY <1>1 DEF Inv, OneOpPerQueue, Coherent
<1>4. ScheduledOnce'
  BY <1>1 DEF Inv, ScheduledOnce, InRound, Asking
<1> QED
  BY <1>2, <1>3, <1>4 DEF Inv

\* Shape, one operation per queue, fresh words and the round together are inductive.
LEMMA StepInv ==
    ASSUME Inv, [Next]_vars
    PROVE  Inv'
<1>1. /\ rr \in Seq(Queues) /\ ringing \in Seq(Queues) /\ doorbells \in Seq(Queues)
      /\ writes \subseteq Queues /\ txReq \in Requests \cup {None} /\ asked \in Seq(Requests)
      /\ fetched \in Seq(Answers) /\ finish \in Seq(Answers)
  BY DEF Inv, Shape, FifoShape
<1>2. CASE Tick
  BY <1>2, TickShape, TickOneOp, TickCoherent, TickRound DEF Inv
<1>3. CASE Ring
  <2>1. Head(ringing) \in Queues /\ Tail(ringing) \in Seq(Queues)
    BY <1>1, <1>3 DEF Ring
  <2>2. FifoShape'
    BY <1>1, <1>3, <2>1 DEF Ring, FifoShape, scheduler, driver, engine
  <2> QED
    BY <1>3, <2>2, NeighbourInv DEF Ring
<1>4. CASE Accept
  <2>1. txReq \in Requests
    BY <1>1, <1>4 DEF Accept
  <2>2. FifoShape'
    BY <1>1, <1>4, <2>1 DEF Accept, FifoShape, scheduler, driver
  <2> QED
    BY <1>4, <2>2, NeighbourInv DEF Accept
<1>5. CASE Dequeue
  <2>1. Head(asked) \in Requests /\ Tail(asked) \in Seq(Requests)
    BY <1>1, <1>5 DEF Dequeue
  <2>2. [op |-> Head(asked).op, filled |-> backlog[Head(asked).queue] > 0] \in Answers
    BY <2>1 DEF Requests, Answers
  <2>3. asked' \in Seq(Requests) /\ fetched' \in Seq(Answers)
    BY <1>1, <1>5, <2>1, <2>2 DEF Dequeue
  <2>4. FifoShape'
    BY <1>1, <1>5, <2>3 DEF Dequeue, FifoShape, scheduler, driver
  <2> QED
    BY <1>5, <2>4, NeighbourInv DEF Dequeue
<1>6. ASSUME NEW j \in DOMAIN fetched, Answer(j)
      PROVE  Inv'
  <2>1. fetched[j] \in Answers /\ j \in 1..Len(fetched) /\ Len(fetched) \in Nat
    BY <1>1
  <2>2. SubSeq(fetched, 1, j - 1) \in Seq(Answers) /\ SubSeq(fetched, j + 1, Len(fetched)) \in Seq(Answers)
    BY <1>1, <2>1, SMTT(30)
  <2>3. fetched' \in Seq(Answers) /\ finish' \in Seq(Answers)
    <3>1. SubSeq(fetched, 1, j - 1) \o SubSeq(fetched, j + 1, Len(fetched)) \in Seq(Answers)
      BY <2>2
    <3>2. Append(finish, fetched[j]) \in Seq(Answers)
      BY <1>1, <2>1
    <3> QED
      BY <1>6, <3>1, <3>2 DEF Answer
  <2>4. FifoShape'
    BY <1>1, <1>6, <2>3 DEF Answer, FifoShape, scheduler, driver
  <2> QED
    BY <1>6, <2>4, NeighbourInv DEF Answer
<1>7. CASE AnswerEmpty
  BY <1>6, <1>7 DEF AnswerEmpty
<1>8. CASE AnswerSent
  <2>1. 1 \in DOMAIN fetched
    BY <1>1, <1>8 DEF AnswerSent
  <2> QED
    BY <1>6, <1>8, <2>1 DEF AnswerSent
<1>9. ASSUME NEW q \in Queues, Post(q)
      PROVE  Inv'
  <2>1. FifoShape'
    BY <1>1, <1>9 DEF Post, FifoShape, scheduler, driver, engine
  <2> QED
    BY <1>9, <2>1, NeighbourInv DEF Post
<1>10. CASE Deactivate
  <2>1. FifoShape'
    BY <1>1, <1>10 DEF Deactivate, FifoShape, scheduler, engine
  <2> QED
    BY <1>10, <2>1, NeighbourInv DEF Deactivate
<1>11. CASE Activate
  <2>1. FifoShape'
    BY <1>1, <1>11 DEF Activate, FifoShape, scheduler, engine
  <2> QED
    BY <1>11, <2>1, NeighbourInv DEF Activate
<1>12. CASE UNCHANGED vars
  <2>1. FifoShape'
    BY <1>1, <1>12 DEF FifoShape, vars, scheduler, driver, engine
  <2> QED
    BY <1>12, <2>1, NeighbourInv DEF vars
<1> QED
  BY <1>2, <1>3, <1>4, <1>5, <1>7, <1>8, <1>9, <1>10, <1>11, <1>12 DEF Next

\* Nothing is in the pipeline and nothing is scheduled at the start.
LEMMA InitInv == Init => Inv
<1> SUFFICES ASSUME Init PROVE Inv
  OBVIOUS
<1>1. 0 \in Ops
  BY ParamAssumption DEF Ops
<1>2. (CHOOSE q \in Queues : TRUE) \in Queues
  BY ParamAssumption
<1>3. ram \in [Queues -> Words] /\ table \in [Ops -> Entries]
  BY <1>1, <1>2 DEF Init, Words, Entries, FreeEntry
<1>4. \A j \in Stages : pipe[j].op = "none"
  BY DEF Init, Idle
<1>5. FifoShape
  BY DEF Init, FifoShape
<1>6. PipeShape /\ OneOpPerQueue /\ Coherent
  BY <1>4 DEF PipeShape, OneOpPerQueue, Coherent
<1>7. ScheduledOnce
  <2>1. \A q \in Queues : ~Asking(q)
    BY <1>4 DEF Asking
  <2> QED
    BY <2>1 DEF Init, ScheduledOnce, InRound
<1> QED
  BY <1>3, <1>5, <1>6, <1>7 DEF Inv, Shape

\* A queue has exactly one place in the round while it is scheduled, and none otherwise,
\* whatever doorbells, answers and restarts come in whatever order and however long the
\* pipeline is (tx_scheduler_rr.v:613-621, 648-676, 700-714).
THEOREM ScheduledOnceAlways == Safety => []ScheduledOnce
<1>1. Safety => []Inv
  BY InitInv, StepInv, PTL DEF Safety
<1>2. Inv => ScheduledOnce
  BY DEF Inv
<1> QED
  BY <1>1, <1>2, PTL

-----------------------------------------------------------------------------
(* The entries of the table.                                                 *)

\* Where request i may be: in the pipeline, at the output, or in one of the sequences.
InPipeline(i) == \E j \in Stages : pipe[j].op \in {"req", "complete"} /\ pipe[j].index = i
AtOutput(i) == txReq # None /\ txReq.op = i
Holds(s, i) == \E j \in DOMAIN s : s[j].op = i

\* No request is twice in one of them.
OncePiped ==
    \A j, k \in Stages :
        pipe[j].op \in {"req", "complete"} /\ pipe[k].op \in {"req", "complete"}
        /\ pipe[j].index = pipe[k].index => j = k
OnceIn(s) == \A j, k \in DOMAIN s : s[j].op = s[k].op => j = k

\* A request is in at most one of them, and in one exactly while its entry is in use.
Placed(i) ==
    /\ table[i].active <=> InPipeline(i) \/ AtOutput(i) \/ Holds(asked, i) \/ Holds(fetched, i)
                           \/ Holds(finish, i)
    /\ InPipeline(i) => ~(AtOutput(i) \/ Holds(asked, i) \/ Holds(fetched, i) \/ Holds(finish, i))
    /\ AtOutput(i) => ~(Holds(asked, i) \/ Holds(fetched, i) \/ Holds(finish, i))
    /\ Holds(asked, i) => ~(Holds(fetched, i) \/ Holds(finish, i))
    /\ Holds(fetched, i) => ~Holds(finish, i)

\* A request enters the pipeline when no other is there and the output is free.
OneRequest ==
    \A j \in Stages : pipe[j].op = "req" =>
        txReq = None /\ \A k \in Stages : pipe[k].op = "req" => j = k

OpsPlaced ==
    /\ OncePiped /\ OnceIn(asked) /\ OnceIn(fetched) /\ OnceIn(finish)
    /\ OneRequest /\ \A i \in Ops : Placed(i)

\* A set with at most one element has one or none.
LEMMA OneOrNone ==
    ASSUME NEW S, \A j, k \in S : j = k
    PROVE  Cardinality(S) = IF S = {} THEN 0 ELSE 1
<1>1. CASE S = {}
  BY <1>1, FS_EmptySet
<1>2. CASE S # {}
  <2>1. PICK j \in S : S = {j}
    BY <1>2
  <2> QED
    BY <1>2, <2>1, FS_Singleton
<1> QED
  BY <1>1, <1>2

\* That is what OpsAccounted counts.
LEMMA PlacesCounted ==
    ASSUME Shape, OpsPlaced, pipe \in [Stages -> {pipe[j] : j \in Stages}], NEW i \in Ops
    PROVE  Places(i) = IF table[i].active THEN 1 ELSE 0
<1> DEFINE P == {j \in DOMAIN pipe : pipe[j].op \in {"req", "complete"} /\ pipe[j].index = i}
           A == {j \in DOMAIN asked : asked[j].op = i}
           F == {j \in DOMAIN fetched : fetched[j].op = i}
           G == {j \in DOMAIN finish : finish[j].op = i}
           R == IF txReq # None /\ txReq.op = i THEN 1 ELSE 0
<1>1. Cardinality(P) = IF InPipeline(i) THEN 1 ELSE 0
  <2>1. \A j, k \in P : j = k
    BY DEF OpsPlaced, OncePiped
  <2>2. P = {} <=> ~InPipeline(i)
    BY DEF InPipeline
  <2> HIDE DEF P
  <2> QED
    BY <2>1, <2>2, OneOrNone
<1>2. Cardinality(A) = IF Holds(asked, i) THEN 1 ELSE 0
  <2>1. \A j, k \in A : j = k
    BY DEF OpsPlaced, OnceIn
  <2>2. A = {} <=> ~Holds(asked, i)
    BY DEF Holds
  <2> HIDE DEF A
  <2> QED
    BY <2>1, <2>2, OneOrNone
<1>3. Cardinality(F) = IF Holds(fetched, i) THEN 1 ELSE 0
  <2>1. \A j, k \in F : j = k
    BY DEF OpsPlaced, OnceIn
  <2>2. F = {} <=> ~Holds(fetched, i)
    BY DEF Holds
  <2> HIDE DEF F
  <2> QED
    BY <2>1, <2>2, OneOrNone
<1>4. Cardinality(G) = IF Holds(finish, i) THEN 1 ELSE 0
  <2>1. \A j, k \in G : j = k
    BY DEF OpsPlaced, OnceIn
  <2>2. G = {} <=> ~Holds(finish, i)
    BY DEF Holds
  <2> HIDE DEF G
  <2> QED
    BY <2>1, <2>2, OneOrNone
<1>5. R = IF AtOutput(i) THEN 1 ELSE 0
  BY DEF AtOutput
<1>6. Places(i) = Cardinality(P) + R + Cardinality(A) + Cardinality(F) + Cardinality(G)
  BY DEF Places, Count
<1>7. Placed(i)
  BY DEF OpsPlaced
<1> HIDE DEF P, A, F, G, R
<1> QED
  BY <1>1, <1>2, <1>3, <1>4, <1>5, <1>6, <1>7 DEF Placed

\* The request at the head of a sequence leaves it.
LEMMA HeadLeaves ==
    ASSUME NEW S, NEW s \in Seq(S), s # <<>>, OnceIn(s)
    PROVE  /\ OnceIn(Tail(s)) /\ ~Holds(Tail(s), Head(s).op)
           /\ \A i : Holds(s, i) <=> Holds(Tail(s), i) \/ i = Head(s).op
<1>1. /\ Len(s) \in Nat /\ Len(s) >= 1 /\ Head(s) = s[1]
      /\ DOMAIN s = 1..Len(s) /\ DOMAIN Tail(s) = 1..Len(s) - 1
      /\ \A j \in 1..Len(s) - 1 : Tail(s)[j] = s[j + 1]
  OBVIOUS
<1>2. \A j \in DOMAIN Tail(s) : j + 1 \in DOMAIN s /\ j + 1 # 1 /\ Tail(s)[j] = s[j + 1]
  BY <1>1
<1>3. \A j \in DOMAIN s : j # 1 => j - 1 \in DOMAIN Tail(s) /\ Tail(s)[j - 1] = s[j]
  BY <1>1
<1>4. OnceIn(Tail(s))
  <2> SUFFICES ASSUME NEW j \in DOMAIN Tail(s), NEW k \in DOMAIN Tail(s), Tail(s)[j].op = Tail(s)[k].op
               PROVE  j = k
    BY DEF OnceIn
  <2>1. j + 1 = k + 1
    BY <1>2 DEF OnceIn
  <2> QED
    BY <1>1, <2>1
<1>5. 1 \in DOMAIN s
  BY <1>1
<1>6. ~Holds(Tail(s), Head(s).op)
  BY <1>1, <1>2, <1>5 DEF Holds, OnceIn
<1>7. ASSUME NEW i PROVE Holds(s, i) <=> Holds(Tail(s), i) \/ i = Head(s).op
  <2>1. Holds(Tail(s), i) => Holds(s, i)
    BY <1>2 DEF Holds
  <2>2. i = Head(s).op => Holds(s, i)
    BY <1>1, <1>5 DEF Holds
  <2>3. Holds(s, i) => Holds(Tail(s), i) \/ i = Head(s).op
    <3> SUFFICES ASSUME NEW j \in DOMAIN s, s[j].op = i PROVE Holds(Tail(s), i) \/ i = Head(s).op
      BY DEF Holds
    <3>1. j = 1 => i = Head(s).op
      BY <1>1
    <3>2. j # 1 => Holds(Tail(s), i)
      BY <1>3 DEF Holds
    <3> QED
      BY <3>1, <3>2
  <2> QED
    BY <2>1, <2>2, <2>3
<1> QED
  BY <1>4, <1>6, <1>7

\* One that is not in the sequence joins it at the end.
LEMMA EndJoins ==
    ASSUME NEW S, NEW s \in Seq(S), NEW e \in S, OnceIn(s), ~Holds(s, e.op)
    PROVE  /\ OnceIn(Append(s, e))
           /\ \A i : Holds(Append(s, e), i) <=> Holds(s, i) \/ i = e.op
<1> DEFINE t == Append(s, e)
<1>1. /\ Len(s) \in Nat /\ DOMAIN s = 1..Len(s) /\ DOMAIN t = 1..Len(s) + 1 /\ t[Len(s) + 1] = e
      /\ \A j \in 1..Len(s) : t[j] = s[j]
  OBVIOUS
<1> HIDE DEF t
<1>2. \A j \in DOMAIN t : j \in DOMAIN s \/ j = Len(s) + 1
  BY <1>1
<1>3. \A j \in DOMAIN s : t[j] = s[j] /\ t[j].op # e.op /\ j \in DOMAIN t
  BY <1>1 DEF Holds
<1>4. Len(s) + 1 \in DOMAIN t
  BY <1>1
<1>5. OnceIn(t)
  BY <1>1, <1>2, <1>3 DEF OnceIn
<1>6. \A i : Holds(t, i) <=> Holds(s, i) \/ i = e.op
  BY <1>1, <1>2, <1>3, <1>4 DEF Holds
<1> QED
  BY <1>5, <1>6 DEF t

\* Two sequences in one.
LEMMA Joined ==
    ASSUME NEW S, NEW a \in Seq(S), NEW b \in Seq(S)
    PROVE  /\ a \o b \in Seq(S) /\ Len(a \o b) = Len(a) + Len(b)
           /\ \A k \in 1..Len(a) + Len(b) : (a \o b)[k] = IF k <= Len(a) THEN a[k] ELSE b[k - Len(a)]
OBVIOUS

\* What is left of a sequence that one leaves from any place.
LEMMA LeftOut ==
    ASSUME NEW S, NEW s \in Seq(S), NEW j \in DOMAIN s
    PROVE  LET t == SubSeq(s, 1, j - 1) \o SubSeq(s, j + 1, Len(s)) IN
           /\ t \in Seq(S) /\ Len(t) = Len(s) - 1
           /\ \A k \in 1..Len(s) - 1 : t[k] = IF k < j THEN s[k] ELSE s[k + 1]
<1> DEFINE t == SubSeq(s, 1, j - 1) \o SubSeq(s, j + 1, Len(s))
           a == SubSeq(s, 1, j - 1)
           b == SubSeq(s, j + 1, Len(s))
<1>1. Len(s) \in Nat /\ DOMAIN s = 1..Len(s) /\ j \in 1..Len(s)
  OBVIOUS
<1>2. /\ a \in Seq(S) /\ Len(a) = j - 1
      /\ \A k \in 1..j - 1 : a[k] = s[k]
  BY <1>1
<1>3. /\ b \in Seq(S) /\ Len(b) = Len(s) - j
      /\ \A k \in 1..Len(s) - j : b[k] = s[j + k]
  BY <1>1
<1> HIDE DEF a, b
<1>4. t = a \o b
  BY DEF a, b
<1>5. /\ t \in Seq(S) /\ Len(t) = Len(a) + Len(b)
      /\ \A k \in 1..Len(a) + Len(b) : t[k] = IF k <= Len(a) THEN a[k] ELSE b[k - Len(a)]
  <2> HIDE DEF t
  <2>1. a \in Seq(S) /\ b \in Seq(S)
    BY <1>2, <1>3
  <2> QED
    BY <1>4, <2>1, Joined, Zenon
<1> HIDE DEF t
<1>6. t \in Seq(S) /\ Len(t) = Len(s) - 1
  BY <1>1, <1>2, <1>3, <1>5
<1>7. ASSUME NEW k \in 1..Len(s) - 1 PROVE t[k] = IF k < j THEN s[k] ELSE s[k + 1]
  <2>1. t[k] = IF k <= j - 1 THEN a[k] ELSE b[k - (j - 1)]
    <3>1. k \in 1..Len(a) + Len(b) /\ Len(a) = j - 1
      BY <1>1, <1>2, <1>3
    <3>2. t[k] = IF k <= Len(a) THEN a[k] ELSE b[k - Len(a)]
      BY <1>5, <3>1, Zenon
    <3> QED
      BY <3>1, <3>2
  <2>2. CASE k < j
    BY <1>1, <1>2, <2>1, <2>2
  <2>3. CASE ~(k < j)
    <3>1. k - (j - 1) \in 1..Len(s) - j /\ j + (k - (j - 1)) = k + 1
      BY <1>1, <2>3
    <3>2. b[k - (j - 1)] = s[k + 1]
      BY <1>3, <3>1
    <3> QED
      BY <1>1, <2>1, <2>3, <3>2
  <2> QED
    BY <2>2, <2>3
<1> QED
  BY <1>6, <1>7 DEF t

\* One leaves the sequence from any place.
LEMMA AnyLeaves ==
    ASSUME NEW S, NEW s \in Seq(S), NEW j \in DOMAIN s, OnceIn(s)
    PROVE  LET t == SubSeq(s, 1, j - 1) \o SubSeq(s, j + 1, Len(s)) IN
           /\ t \in Seq(S) /\ OnceIn(t) /\ ~Holds(t, s[j].op)
           /\ \A i : Holds(s, i) <=> Holds(t, i) \/ i = s[j].op
<1> DEFINE t == SubSeq(s, 1, j - 1) \o SubSeq(s, j + 1, Len(s))
<1>1. Len(s) \in Nat /\ DOMAIN s = 1..Len(s) /\ j \in 1..Len(s)
  OBVIOUS
<1>2. /\ t \in Seq(S) /\ Len(t) = Len(s) - 1
      /\ \A k \in 1..Len(s) - 1 : t[k] = IF k < j THEN s[k] ELSE s[k + 1]
  BY LeftOut
<1> HIDE DEF t
<1>4. t \in Seq(S) /\ Len(t) = Len(s) - 1 /\ DOMAIN t = 1..Len(s) - 1
  BY <1>1, <1>2
<1>5. \A k \in 1..Len(s) - 1 : t[k] = IF k < j THEN s[k] ELSE s[k + 1]
  BY <1>2
<1>6. \A k \in DOMAIN t : \E l \in DOMAIN s : l # j /\ t[k] = s[l] /\ l = IF k < j THEN k ELSE k + 1
  BY <1>1, <1>4, <1>5
<1>7. \A l \in DOMAIN s : l # j => \E k \in DOMAIN t : t[k] = s[l]
  <2> SUFFICES ASSUME NEW l \in DOMAIN s, l # j PROVE \E k \in DOMAIN t : t[k] = s[l]
    OBVIOUS
  <2>1. CASE l < j
    <3>1. l \in DOMAIN t /\ t[l] = s[l]
      BY <1>1, <1>4, <1>5, <2>1
    <3> QED
      BY <3>1
  <2>2. CASE ~(l < j)
    <3>1. l - 1 \in DOMAIN t /\ t[l - 1] = s[l]
      BY <1>1, <1>4, <1>5, <2>2
    <3> QED
      BY <3>1
  <2> QED
    BY <2>1, <2>2
<1>8. OnceIn(t)
  <2> SUFFICES ASSUME NEW k \in DOMAIN t, NEW m \in DOMAIN t, t[k].op = t[m].op PROVE k = m
    BY DEF OnceIn
  <2>1. (IF k < j THEN k ELSE k + 1) = (IF m < j THEN m ELSE m + 1)
    BY <1>6 DEF OnceIn
  <2> QED
    BY <1>1, <1>4, <2>1
<1>9. ~Holds(t, s[j].op)
  BY <1>6 DEF Holds, OnceIn
<1>10. \A i : Holds(s, i) <=> Holds(t, i) \/ i = s[j].op
  BY <1>6, <1>7 DEF Holds
<1> QED
  BY <1>4, <1>8, <1>9, <1>10 DEF t


\* A request goes on to the output, or its entry is released.
Goes == cur.op = "req" /\ cur.word.enabled /\ cur.word.active /\ cur.word.scheduled
Ends == cur.op = "complete" \/ (cur.op = "req" /\ ~Goes)

\* Clearing the free entries releases none and takes none.
LEMMA KeptActive ==
    ASSUME NEW t \in [Ops -> Entries], NEW j \in Ops
    PROVE  Kept(t)[j].active <=> t[j].active
<1>1. t[j].active \in BOOLEAN
  BY DEF Entries
<1>2. CASE t[j].active
  BY <1>2 DEF Kept
<1>3. CASE ~t[j].active
  BY <1>3 DEF Kept, FreeEntry
<1> QED
  BY <1>2, <1>3

\* The entry a request takes when it enters is in use from then on.
LEMMA StartedActive ==
    ASSUME Shape, Tick, NEW j \in Ops
    PROVE  Started[j].active <=> table[j].active \/ (Entering /\ j = FreeOp)
<1>1. table \in [Ops -> Entries]
  BY DEF Shape
<1>2. CASE Entering
  BY <1>1, <1>2 DEF Started, Entries
<1>3. CASE ~Entering
  BY <1>3 DEF Started
<1> QED
  BY <1>2, <1>3

\* What a clock edge does to the entries and to the output.
LEMMA TickTable ==
    ASSUME Shape, Tick
    PROVE  /\ \A j \in Ops : table'[j].active <=>
                 (table[j].active \/ (Entering /\ j = FreeOp)) /\ ~(Ends /\ j = cur.index)
           /\ txReq' = IF Goes THEN [queue |-> q0, op |-> cur.index] ELSE txReq
<1>1. Started \in [Ops -> Entries]
  BY StartedShape
<1>2. \A j \in Ops : Started[j].active <=> table[j].active \/ (Entering /\ j = FreeOp)
  BY StartedActive
<1>3. cur.op # "none" => cur.index \in Ops
  BY StageFacts DEF Shape, PipeShape, cur
<1>4. SUFFICES /\ \A j \in Ops : table'[j].active <=> Started[j].active /\ ~(Ends /\ j = cur.index)
               /\ txReq' = IF Goes THEN [queue |-> q0, op |-> cur.index] ELSE txReq
  BY <1>2
<1>5. CASE ExecDoorbell
  <2> DEFINE t == IF TailActive THEN [Started EXCEPT ![tail0].doorbell = TRUE] ELSE Started
  <2>1. cur.op = "doorbell" /\ ~Goes /\ ~Ends /\ txReq' = txReq /\ table' = Kept(t)
    BY <1>5 DEF ExecDoorbell, Goes, Ends
  <2>2. t \in [Ops -> Entries] /\ \A j \in Ops : t[j].active = Started[j].active
    BY <1>1 DEF Entries
  <2> HIDE DEF t
  <2>3. \A j \in Ops : table'[j].active <=> t[j].active
    BY <2>1, <2>2, KeptActive
  <2> QED
    BY <2>1, <2>2, <2>3
<1>6. CASE ExecWrite \/ ExecNone
  <2>1. ~Goes /\ ~Ends /\ txReq' = txReq /\ table' = Kept(Started)
    BY <1>6 DEF ExecWrite, ExecNone, Goes, Ends
  <2> QED
    BY <1>1, <2>1, KeptActive
<1>7. CASE ExecReq
  <2> DEFINE i == cur.index
             follows == TailActive /\ i # tail0
             t == [j \in Ops |-> [Started[j] EXCEPT
                                    !.next   = IF follows /\ j = tail0 THEN i ELSE @,
                                    !.prev   = IF j = i THEN tail0 ELSE @,
                                    !.isHead = IF j = i THEN ~follows ELSE @]]
             u == [Started EXCEPT ![i].active = FALSE]
  <2>1. CASE Goes
    <3>1. table' = Kept(t) /\ txReq' = [queue |-> q0, op |-> cur.index] /\ ~Ends
      BY <1>7, <2>1 DEF ExecReq, Goes, Ends
    <3>2. ASSUME NEW j \in Ops PROVE t[j].active = Started[j].active /\ t[j].active \in BOOLEAN
      <4>1. Started[j] \in Entries /\ t[j] = [Started[j] EXCEPT
                                    !.next   = IF follows /\ j = tail0 THEN i ELSE @,
                                    !.prev   = IF j = i THEN tail0 ELSE @,
                                    !.isHead = IF j = i THEN ~follows ELSE @]
        BY <1>1
      <4> HIDE DEF t, follows
      <4>2. t[j].active = Started[j].active
        BY <4>1 DEF Entries
      <4> QED
        BY <4>1, <4>2 DEF Entries
    <3> HIDE DEF t
    <3>3. ASSUME NEW j \in Ops PROVE Kept(t)[j].active <=> t[j].active
      <4>1. CASE t[j].active
        BY <4>1 DEF Kept
      <4>2. CASE ~t[j].active
        BY <4>2 DEF Kept, FreeEntry
      <4> QED
        BY <4>1, <4>2
    <3> QED
      BY <2>1, <3>1, <3>2, <3>3
  <2>2. CASE ~Goes
    <3>1. table' = Kept(u) /\ txReq' = txReq /\ Ends
      BY <1>7, <2>2 DEF ExecReq, Goes, Ends
    <3>2. i \in Ops
      BY <1>3, <1>7 DEF ExecReq
    <3>3. u \in [Ops -> Entries] /\ \A j \in Ops : u[j].active <=> Started[j].active /\ j # i
      BY <1>1, <3>2 DEF Entries
    <3> HIDE DEF u
    <3>4. \A j \in Ops : table'[j].active <=> u[j].active
      BY <3>1, <3>3, KeptActive
    <3> QED
      BY <2>2, <3>1, <3>3, <3>4
  <2> QED
    BY <2>1, <2>2
<1>8. CASE ExecComplete
  <2> DEFINE i == cur.index
             o == table[i]
             before(j) == j = o.prev /\ ~o.isHead
             after(j) == j = o.next /\ i # tail0
             t == [j \in Ops |-> [Started[j] EXCEPT !.active   = @ /\ j # i,
                                !.doorbell = @ \/ (before(j) /\ o.doorbell),
                                !.next     = IF before(j) THEN o.next ELSE @,
                                !.prev     = IF after(j) THEN o.prev ELSE @,
                                !.isHead   = IF after(j) THEN o.isHead ELSE @]]
  <2>1. table' = Kept(t) /\ txReq' = txReq /\ Ends /\ ~Goes
    BY <1>8 DEF ExecComplete, Goes, Ends
  <2>2. \A j \in Ops : t[j].active <=> Started[j].active /\ j # i
    BY <1>1, ZenonT(30) DEF Entries
  <2>3. \A j \in Ops : Kept(t)[j].active <=> t[j].active
    BY ZenonT(60) DEF Kept, FreeEntry
  <2> HIDE DEF t
  <2> QED
    BY <2>1, <2>2, <2>3
<1> QED
  BY <1>5, <1>6, <1>7, <1>8 DEF Tick

\* What enters the pipeline of the requests: one at the head of the answers, which it
\* leaves, or one with an entry that was free, when the output is.
LEMMA EntersOnce ==
    ASSUME Shape, Tick
    PROVE  \E e : /\ Shift(e) /\ Fresh(e)
                  /\ e.op = "req" => e.index = FreeOp /\ txReq = None /\ ~InPipe("req")
                  /\ IF e.op = "complete"
                     THEN finish # <<>> /\ e.index = Head(finish).op /\ finish' = Tail(finish)
                     ELSE finish' = finish
<1>1. ASSUME NEW q \in Queues, EnterWrite(q)
      PROVE  LET e == Stage("write", q, 0, FALSE) IN Shift(e) /\ e.op = "write" /\ finish' = finish
  BY <1>1 DEF EnterWrite, Stage
<1>2. ASSUME EnterDoorbell
      PROVE  LET e == Stage("doorbell", Head(doorbells), 0, FALSE) IN
             Shift(e) /\ e.op = "doorbell" /\ finish' = finish
  BY <1>2 DEF EnterDoorbell, Stage
<1>3. ASSUME EnterComplete
      PROVE  \E e : /\ Shift(e) /\ e.op = "complete" /\ e.index = Head(finish).op
                    /\ finish # <<>> /\ finish' = Tail(finish)
  BY <1>3 DEF EnterComplete, AcceptComplete, Stage
<1>4. ASSUME EnterReq
      PROVE  LET e == Stage("req", Head(rr), FreeOp, FALSE) IN
             /\ Shift(e) /\ e.op = "req" /\ e.index = FreeOp /\ finish' = finish
             /\ txReq = None /\ ~InPipe("req")
  BY <1>4 DEF EnterReq, AcceptReq, Stage
<1>5. ASSUME EnterNone
      PROVE  Shift(Idle) /\ Idle.op = "none" /\ finish' = finish
  BY <1>5 DEF EnterNone, Idle
<1>6. \E e : /\ Shift(e)
             /\ e.op = "req" => e.index = FreeOp /\ txReq = None /\ ~InPipe("req")
             /\ IF e.op = "complete"
                THEN finish # <<>> /\ e.index = Head(finish).op /\ finish' = Tail(finish)
                ELSE finish' = finish
  BY <1>1, <1>2, <1>3, <1>4, <1>5 DEF Tick
<1>7. ASSUME NEW d, NEW e, Shift(d), Shift(e) PROVE d = e
  BY <1>7, StageFacts DEF Shift
<1>8. PICK d : Shift(d) /\ Fresh(d)
  BY Enters
<1> QED
  BY <1>6, <1>7, <1>8


\* A request in the pipeline has entered or moved on; all but the one at the last stage move.
LEMMA PipelineMoves ==
    ASSUME NEW e, Shift(e), NEW i
    PROVE  /\ InPipeline(i)' <=> (e.op \in {"req", "complete"} /\ e.index = i)
                \/ \E j \in Stages : j # Last /\ pipe[j].op \in {"req", "complete"} /\ pipe[j].index = i
           /\ InPipeline(i) <=> (cur.op \in {"req", "complete"} /\ cur.index = i)
                \/ \E j \in Stages : j # Last /\ pipe[j].op \in {"req", "complete"} /\ pipe[j].index = i
<1>1. pipe'[0] = e
  BY StageFacts DEF Shift
<1>2. \A j \in Stages : j # 0 => pipe'[j] = pipe[j - 1] /\ j - 1 \in Stages /\ j - 1 # Last
  BY StageFacts DEF Shift
<1>3. ASSUME NEW j \in Stages, j # Last
      PROVE  pipe'[j + 1] = pipe[j] /\ j + 1 \in Stages
  <2>1. j + 1 \in Stages /\ j + 1 # 0 /\ (j + 1) - 1 = j
    BY <1>3, StageFacts
  <2> QED
    BY <2>1 DEF Shift
<1>4. ASSUME InPipeline(i)'
      PROVE  (e.op \in {"req", "complete"} /\ e.index = i)
             \/ \E j \in Stages : j # Last /\ pipe[j].op \in {"req", "complete"} /\ pipe[j].index = i
  <2>1. PICK j \in Stages : pipe'[j].op \in {"req", "complete"} /\ pipe'[j].index = i
    BY <1>4 DEF InPipeline
  <2> QED
    BY <1>1, <1>2, <2>1
<1>5. ASSUME NEW j \in Stages, j # Last, pipe[j].op \in {"req", "complete"}, pipe[j].index = i
      PROVE  InPipeline(i)'
  BY <1>3, <1>5 DEF InPipeline
<1>6. (e.op \in {"req", "complete"} /\ e.index = i) => InPipeline(i)'
  BY <1>1, StageFacts DEF InPipeline
<1>7. InPipeline(i) <=> (cur.op \in {"req", "complete"} /\ cur.index = i)
          \/ \E j \in Stages : j # Last /\ pipe[j].op \in {"req", "complete"} /\ pipe[j].index = i
  BY StageFacts DEF InPipeline, cur
<1> QED
  BY <1>4, <1>5, <1>6, <1>7

\* A clock edge takes a request from one place to the next, or releases it.
LEMMA TickPlaced ==
    ASSUME Shape, OpsPlaced, Tick
    PROVE  OpsPlaced'
<1>1. PICK e : /\ Shift(e) /\ Fresh(e)
               /\ e.op = "req" => e.index = FreeOp /\ txReq = None /\ ~InPipe("req")
               /\ IF e.op = "complete"
                  THEN finish # <<>> /\ e.index = Head(finish).op /\ finish' = Tail(finish)
                  ELSE finish' = finish
  BY EntersOnce
<1>2. /\ pipe'[0] = e
      /\ \A j \in Stages : j # 0 => pipe'[j] = pipe[j - 1] /\ j - 1 \in Stages /\ j - 1 # Last
      /\ Entering <=> e.op = "req"
      /\ asked' = asked /\ fetched' = fetched
  BY <1>1, StageFacts DEF Shift, Entering, Tick, engine
<1>3. /\ \A j \in Ops : table'[j].active <=>
             (table[j].active \/ (Entering /\ j = FreeOp)) /\ ~(Ends /\ j = cur.index)
      /\ txReq' = IF Goes THEN [queue |-> q0, op |-> cur.index] ELSE txReq
  BY TickTable
<1>4. /\ OncePiped /\ OnceIn(asked) /\ OnceIn(fetched) /\ OnceIn(finish)
      /\ OneRequest /\ \A i \in Ops : Placed(i)
  BY DEF OpsPlaced
<1>5. finish \in Seq(Answers) /\ txReq \in Requests \cup {None}
  BY DEF Shape, FifoShape
<1>6. e.op = "req" => FreeOp \in Ops /\ ~table[FreeOp].active
  BY <1>1, FreeOpIsFree DEF Fresh
<1>7. e.op = "req" => ~InPipeline(e.index)
  BY <1>1, <1>4, <1>6 DEF Placed
<1>8. e.op = "complete" => Holds(finish, e.index) /\ ~Holds(finish', e.index)
  <2> SUFFICES ASSUME e.op = "complete" PROVE Holds(finish, e.index) /\ ~Holds(finish', e.index)
    OBVIOUS
  <2>1. finish # <<>> /\ e.index = Head(finish).op /\ finish' = Tail(finish)
    BY <1>1
  <2> QED
    BY <1>4, <1>5, <2>1, HeadLeaves
<1>9. OnceIn(finish') /\ \A i : Holds(finish, i) <=> Holds(finish', i) \/ (e.op = "complete" /\ i = e.index)
  <2>1. CASE e.op = "complete"
    <3>1. finish # <<>> /\ e.index = Head(finish).op /\ finish' = Tail(finish)
      BY <1>1, <2>1
    <3> QED
      BY <1>4, <1>5, <2>1, <3>1, HeadLeaves
  <2>2. CASE e.op # "complete"
    BY <1>1, <1>4, <2>2
  <2> QED
    BY <2>1, <2>2
<1>10. e.op \in {"req", "complete"} => e.index \in Ops /\ ~InPipeline(e.index)
  <2>1. e.op \in {"req", "complete"} => e.index \in Ops
    BY <1>1 DEF Fresh
  <2>2. e.op = "complete" => ~InPipeline(e.index)
    BY <1>4, <1>8, <2>1 DEF Placed
  <2> QED
    BY <1>7, <2>1, <2>2
<1>11. OncePiped'
  <2> SUFFICES ASSUME NEW j \in Stages, NEW k \in Stages, pipe'[j].op \in {"req", "complete"},
                      pipe'[k].op \in {"req", "complete"}, pipe'[j].index = pipe'[k].index
               PROVE  j = k
    BY DEF OncePiped
  <2>1. CASE j = 0 /\ k # 0
    BY <1>2, <1>10, <2>1 DEF InPipeline
  <2>2. CASE j # 0 /\ k = 0
    BY <1>2, <1>10, <2>2 DEF InPipeline
  <2>3. CASE j # 0 /\ k # 0
    <3>1. j - 1 = k - 1
      BY <1>2, <1>4, <2>3 DEF OncePiped
    <3> QED
      BY <3>1 DEF Stages
  <2> QED
    BY <2>1, <2>2, <2>3
<1>12. OneRequest'
  <2> SUFFICES ASSUME NEW j \in Stages, pipe'[j].op = "req"
               PROVE  txReq' = None /\ \A k \in Stages : pipe'[k].op = "req" => j = k
    BY DEF OneRequest
  <2>1. CASE j = 0
    <3>1. txReq = None /\ \A k \in Stages : pipe[k].op # "req"
      BY <1>1, <1>2, <2>1 DEF InPipe
    <3>2. ~Goes
      BY <3>1, StageFacts DEF Goes, cur
    <3> QED
      BY <1>2, <1>3, <2>1, <3>1, <3>2
  <2>2. CASE j # 0
    <3>1. pipe[j - 1].op = "req" /\ j - 1 \in Stages /\ j - 1 # Last
      BY <1>2, <2>2
    <3>2. txReq = None /\ \A k \in Stages : pipe[k].op = "req" => j - 1 = k
      BY <1>4, <3>1 DEF OneRequest
    <3>3. ~Goes /\ e.op # "req"
      BY <1>1, <3>1, <3>2, StageFacts DEF Goes, cur, InPipe
    <3>4. ASSUME NEW k \in Stages, pipe'[k].op = "req" PROVE j = k
      <4>1. k # 0
        BY <1>2, <3>3, <3>4
      <4>2. j - 1 = k - 1
        BY <1>2, <3>2, <3>4, <4>1
      <4> QED
        BY <4>2 DEF Stages
    <3> QED
      BY <1>3, <3>2, <3>3, <3>4
  <2> QED
    BY <2>1, <2>2
<1>13. ASSUME NEW i \in Ops PROVE Placed(i)'
  <2> DEFINE Moving == \E j \in Stages : j # Last /\ pipe[j].op \in {"req", "complete"} /\ pipe[j].index = i
             Arrives == e.op \in {"req", "complete"} /\ e.index = i
             Leaves == cur.op \in {"req", "complete"} /\ cur.index = i
  <2>1. /\ InPipeline(i)' <=> Arrives \/ Moving
        /\ InPipeline(i) <=> Leaves \/ Moving
    BY <1>1, PipelineMoves
  <2>2. Leaves => ~Moving
    BY <1>4, StageFacts DEF OncePiped, cur
  <2>3. /\ Holds(asked, i)' <=> Holds(asked, i)
        /\ Holds(fetched, i)' <=> Holds(fetched, i)
    BY <1>2 DEF Holds
  <2>4. /\ Holds(finish, i)' <=> Holds(finish', i)
        /\ Holds(finish, i) <=> Holds(finish', i) \/ (e.op = "complete" /\ Arrives)
        /\ e.op = "complete" /\ Arrives => ~Holds(finish', i)
    BY <1>8, <1>9 DEF Holds
  <2>5. AtOutput(i)' <=> (Goes /\ Leaves) \/ AtOutput(i)
    <3>1. CASE Goes
      <4>1. cur.op = "req" /\ txReq = None
        BY <1>4, <3>1, StageFacts DEF Goes, OneRequest, cur
      <4>2. txReq' # None
        <5>1. q0 \in Queues /\ cur.index \in Ops
          BY <4>1, StageFacts DEF Shape, PipeShape, cur, q0
        <5>2. txReq' = [queue |-> q0, op |-> cur.index]
          BY <1>3, <3>1
        <5> QED
          BY <5>1, <5>2, NoneAssumption DEF Requests
      <4>3. txReq'.op = cur.index
        BY <1>3, <3>1
      <4> QED
        BY <3>1, <4>1, <4>2, <4>3 DEF AtOutput
    <3>2. CASE ~Goes
      BY <1>3, <3>2 DEF AtOutput
    <3> QED
      BY <3>1, <3>2
  <2>6. table'[i].active <=> (table[i].active \/ (e.op = "req" /\ Arrives)) /\ ~(Ends /\ Leaves)
    BY <1>1, <1>2, <1>3 DEF Ends
  <2>7. Leaves => Goes \/ Ends
    BY DEF Ends
  <2>8. ~(Goes /\ Ends)
    BY DEF Goes, Ends
  <2>9. e.op = "req" /\ Arrives => ~table[i].active
    BY <1>1, <1>6
  <2>10. Placed(i)
    BY <1>4
  <2>11. Arrives => e.op = "req" \/ e.op = "complete"
    OBVIOUS
  <2> HIDE DEF Moving, Arrives, Leaves
  <2> QED
    BY <2>1, <2>2, <2>3, <2>4, <2>5, <2>6, <2>7, <2>8, <2>9, <2>10, <2>11 DEF Placed
<1> QED
  BY <1>2, <1>4, <1>9, <1>11, <1>12, <1>13 DEF OpsPlaced


\* The neighbours hand requests and answers on, and leave the pipeline and the table alone.
LEMMA NeighbourPlaced ==
    ASSUME OpsPlaced, UNCHANGED scheduler,
           OnceIn(asked'), OnceIn(fetched'), OnceIn(finish'),
           txReq' = txReq \/ txReq' = None,
           \A i \in Ops :
               /\ AtOutput(i) \/ Holds(asked, i) \/ Holds(fetched, i) \/ Holds(finish, i) <=>
                  AtOutput(i)' \/ Holds(asked', i) \/ Holds(fetched', i) \/ Holds(finish', i)
               /\ AtOutput(i)' => ~(Holds(asked', i) \/ Holds(fetched', i) \/ Holds(finish', i))
               /\ Holds(asked', i) => ~(Holds(fetched', i) \/ Holds(finish', i))
               /\ Holds(fetched', i) => ~Holds(finish', i)
    PROVE  OpsPlaced'
<1>1. pipe' = pipe /\ table' = table
  BY DEF scheduler
<1>2. OncePiped' /\ OneRequest' /\ \A i \in Ops : InPipeline(i)' <=> InPipeline(i)
  BY <1>1 DEF OpsPlaced, OncePiped, OneRequest, InPipeline
<1>3. ASSUME NEW i \in Ops PROVE Placed(i)'
  <2>1. Placed(i) /\ (InPipeline(i)' <=> InPipeline(i)) /\ table'[i].active = table[i].active
    BY <1>1, <1>2 DEF OpsPlaced
  <2>2. /\ Holds(asked, i)' <=> Holds(asked', i)
        /\ Holds(fetched, i)' <=> Holds(fetched', i)
        /\ Holds(finish, i)' <=> Holds(finish', i)
    BY DEF Holds
  <2> QED
    BY <2>1, <2>2, Zenon DEF Placed
<1>4. OnceIn(asked)' /\ OnceIn(fetched)' /\ OnceIn(finish)'
  BY DEF OnceIn
<1> QED
  BY <1>2, <1>3, <1>4 DEF OpsPlaced

\* Every step keeps each request in one place while its entry is in use.
LEMMA StepPlaced ==
    ASSUME Inv, OpsPlaced, [Next]_vars
    PROVE  OpsPlaced'
<1>1. /\ txReq \in Requests \cup {None} /\ asked \in Seq(Requests)
      /\ fetched \in Seq(Answers) /\ finish \in Seq(Answers)
  BY DEF Inv, Shape, FifoShape
<1>2. /\ OnceIn(asked) /\ OnceIn(fetched) /\ OnceIn(finish)
      /\ \A i \in Ops :
            /\ AtOutput(i) => ~(Holds(asked, i) \/ Holds(fetched, i) \/ Holds(finish, i))
            /\ Holds(asked, i) => ~(Holds(fetched, i) \/ Holds(finish, i))
            /\ Holds(fetched, i) => ~Holds(finish, i)
  BY DEF OpsPlaced, Placed
<1>3. CASE Tick
  BY <1>3, TickPlaced DEF Inv
<1>4. CASE Accept
  <2>1. /\ UNCHANGED scheduler /\ fetched' = fetched /\ finish' = finish
        /\ txReq # None /\ txReq' = None /\ asked' = Append(asked, txReq)
    BY <1>4 DEF Accept
  <2>2. txReq \in Requests /\ txReq.op \in Ops
    BY <1>1, <2>1 DEF Requests
  <2>3. AtOutput(txReq.op)
    BY <2>1 DEF AtOutput
  <2>4. ~Holds(asked, txReq.op)
    BY <1>2, <2>2, <2>3
  <2>5. OnceIn(asked') /\ \A i : Holds(asked', i) <=> Holds(asked, i) \/ i = txReq.op
    BY <1>1, <1>2, <2>1, <2>2, <2>4, EndJoins
  <2>6. ASSUME NEW i \in Ops
        PROVE  ~AtOutput(i)' /\ (AtOutput(i) <=> i = txReq.op)
    BY <2>1 DEF AtOutput
  <2> QED
    BY <1>2, <2>1, <2>5, <2>6, NeighbourPlaced
<1>5. CASE Dequeue
  <2> DEFINE a == [op |-> Head(asked).op, filled |-> backlog[Head(asked).queue] > 0]
  <2>1. /\ UNCHANGED scheduler /\ txReq' = txReq /\ finish' = finish
        /\ asked # <<>> /\ asked' = Tail(asked) /\ fetched' = Append(fetched, a)
    BY <1>5 DEF Dequeue
  <2>2. a \in Answers /\ a.op = Head(asked).op /\ a.op \in Ops
    <3>1. Head(asked) \in Requests
      BY <1>1, <2>1
    <3>2. Head(asked).op \in Ops
      BY <3>1 DEF Requests
    <3>3. a \in Answers
      BY <3>2 DEF Answers
    <3> QED
      BY <3>2, <3>3
  <2> HIDE DEF a
  <2>3. /\ OnceIn(asked') /\ ~Holds(asked', a.op)
        /\ \A i : Holds(asked, i) <=> Holds(asked', i) \/ i = a.op
    BY <1>1, <1>2, <2>1, <2>2, HeadLeaves
  <2>4. ~Holds(fetched, a.op)
    BY <1>2, <2>2, <2>3
  <2>5. OnceIn(fetched') /\ \A i : Holds(fetched', i) <=> Holds(fetched, i) \/ i = a.op
    BY <1>1, <1>2, <2>1, <2>2, <2>4, EndJoins
  <2>6. \A i \in Ops : AtOutput(i)' <=> AtOutput(i)
    BY <2>1 DEF AtOutput
  <2> QED
    BY <1>2, <2>1, <2>2, <2>3, <2>5, <2>6, NeighbourPlaced
<1>6. ASSUME NEW j \in DOMAIN fetched, Answer(j)
      PROVE  OpsPlaced'
  <2>1. /\ UNCHANGED scheduler /\ txReq' = txReq /\ asked' = asked
        /\ finish' = Append(finish, fetched[j])
        /\ fetched' = SubSeq(fetched, 1, j - 1) \o SubSeq(fetched, j + 1, Len(fetched))
    BY <1>6 DEF Answer
  <2>2. fetched[j] \in Answers /\ fetched[j].op \in Ops
    <3>1. fetched[j] \in Answers
      BY <1>1
    <3> QED
      BY <3>1 DEF Answers
  <2>3. /\ OnceIn(fetched') /\ ~Holds(fetched', fetched[j].op)
        /\ \A i : Holds(fetched, i) <=> Holds(fetched', i) \/ i = fetched[j].op
    <3> DEFINE t == SubSeq(fetched, 1, j - 1) \o SubSeq(fetched, j + 1, Len(fetched))
    <3>1. fetched \in Seq(Answers) /\ OnceIn(fetched)
      BY <1>1, <1>2
    <3>2. /\ OnceIn(t) /\ ~Holds(t, fetched[j].op)
          /\ \A i : Holds(fetched, i) <=> Holds(t, i) \/ i = fetched[j].op
      BY <3>1, AnyLeaves
    <3>3. fetched' = t
      BY <2>1
    <3> HIDE DEF t
    <3> QED
      BY <3>2, <3>3
  <2>4. ~Holds(finish, fetched[j].op)
    BY <1>2, <2>2, <2>3
  <2>5. OnceIn(finish') /\ \A i : Holds(finish', i) <=> Holds(finish, i) \/ i = fetched[j].op
    BY <1>1, <1>2, <2>1, <2>2, <2>4, EndJoins
  <2>6. \A i \in Ops : AtOutput(i)' <=> AtOutput(i)
    BY <2>1 DEF AtOutput
  <2> QED
    BY <1>2, <2>1, <2>2, <2>3, <2>5, <2>6, NeighbourPlaced
<1>7. CASE AnswerEmpty
  BY <1>6, <1>7 DEF AnswerEmpty
<1>8. CASE AnswerSent
  <2>1. 1 \in DOMAIN fetched
    BY <1>1, <1>8 DEF AnswerSent
  <2> QED
    BY <1>6, <1>8, <2>1 DEF AnswerSent
<1>9. ASSUME UNCHANGED <<ram, table, pipe, rr, txReq, asked, fetched, finish>>
      PROVE  OpsPlaced'
  BY <1>2, <1>9, NeighbourPlaced DEF AtOutput, scheduler
<1>10. ASSUME NEW q \in Queues, Post(q)
       PROVE  OpsPlaced'
  BY <1>9, <1>10 DEF Post, scheduler, engine
<1>11. CASE Ring \/ Deactivate \/ Activate \/ UNCHANGED vars
  BY <1>9, <1>11 DEF Ring, Deactivate, Activate, vars, scheduler, engine
<1> QED
  BY <1>3, <1>4, <1>5, <1>7, <1>8, <1>10, <1>11 DEF Next

\* At the start no entry is in use and no request under way.
LEMMA InitPlaced == Init => OpsPlaced
<1> SUFFICES ASSUME Init PROVE OpsPlaced
  OBVIOUS
<1>1. /\ \A j \in Stages : pipe[j].op = "none"
      /\ \A i \in Ops : ~table[i].active
      /\ asked = <<>> /\ fetched = <<>> /\ finish = <<>> /\ txReq = None
  BY DEF Init, Idle, FreeEntry
<1>2. \A i : ~Holds(<<>>, i)
  BY DEF Holds
<1>3. OnceIn(<<>>)
  BY DEF OnceIn
<1>4. OncePiped /\ OneRequest /\ \A i : ~InPipeline(i) /\ ~AtOutput(i)
  BY <1>1 DEF OncePiped, OneRequest, InPipeline, AtOutput
<1> QED
  BY <1>1, <1>2, <1>3, <1>4 DEF OpsPlaced, Placed


-----------------------------------------------------------------------------
(* The types of the registers, and what is counted. *)

Operations == {Idle} \cup [op : Kinds, queue : Queues, index : Ops, filled : BOOLEAN, word : Words]

\* The rest of the type invariant.
Registers ==
    /\ pipe \in [Stages -> Operations]
    /\ Len(ringing) + Len(doorbells) <= Doorbells
    /\ enable \in BOOLEAN /\ backlog \in [Queues -> 0..MaxBacklog]

\* An operation that enters is one.
LEMMA StageTyped ==
    ASSUME Shape, NEW op \in Kinds, NEW q \in Queues, NEW i \in Ops, NEW filled \in BOOLEAN
    PROVE  Stage(op, q, i, filled) \in Operations
BY DEF Shape, Stage, Operations

LEMMA EntersTyped ==
    ASSUME Shape, Tick
    PROVE  /\ \E e \in Operations : Shift(e)
           /\ doorbells' = doorbells \/ (doorbells # <<>> /\ doorbells' = Tail(doorbells))
<1>0. 0 \in Ops
  BY ParamAssumption DEF Ops
<1>1. ASSUME NEW q \in Queues, EnterWrite(q)
      PROVE  \E e \in Operations : Shift(e)
  BY <1>0, <1>1, StageTyped DEF EnterWrite, Kinds
<1>2. ASSUME EnterDoorbell
      PROVE  \E e \in Operations : Shift(e)
  <2>1. Head(doorbells) \in Queues
    BY <1>2 DEF EnterDoorbell, AcceptDoorbell, Shape, FifoShape
  <2> QED
    BY <1>0, <1>2, <2>1, StageTyped DEF EnterDoorbell, Kinds
<1>3. ASSUME EnterComplete
      PROVE  \E e \in Operations : Shift(e)
  <2> DEFINE i == Head(finish).op
             f == Head(finish).filled \/ table[i].doorbell
  <2>1. finish \in Seq(Answers) /\ finish # <<>>
    BY <1>3 DEF EnterComplete, AcceptComplete, Shape, FifoShape
  <2>2. i \in Ops
    <3>1. Head(finish) \in Answers
      BY <2>1
    <3> QED
      BY <3>1 DEF Answers
  <2>3. table[i].queue \in Queues
    BY <2>2 DEF Shape, Entries
  <2>4. f \in BOOLEAN
    BY Zenon
  <2>5. Shift(Stage("complete", table[i].queue, i, f))
    BY <1>3 DEF EnterComplete
  <2> HIDE DEF i, f
  <2>6. Stage("complete", table[i].queue, i, f) \in Operations
    BY <2>2, <2>3, <2>4, StageTyped DEF Kinds
  <2> QED
    BY <2>5, <2>6
<1>4. ASSUME EnterReq
      PROVE  \E e \in Operations : Shift(e)
  <2>1. Head(rr) \in Queues /\ FreeOp \in Ops
    BY <1>4, FreeOpIsFree DEF EnterReq, AcceptReq, Shape, FifoShape
  <2> QED
    BY <1>4, <2>1, StageTyped DEF EnterReq, Kinds
<1>5. ASSUME EnterNone
      PROVE  \E e \in Operations : Shift(e)
  BY <1>5 DEF EnterNone, Operations
<1>6. \E e \in Operations : Shift(e)
  BY <1>1, <1>2, <1>3, <1>4, <1>5 DEF Tick
<1>7. doorbells' = doorbells \/ (doorbells # <<>> /\ doorbells' = Tail(doorbells))
  BY DEF Tick, EnterWrite, EnterDoorbell, EnterComplete, EnterReq, EnterNone, AcceptDoorbell
<1> QED
  BY <1>6, <1>7

\* Every step keeps the registers in their types.
LEMMA StepRegisters ==
    ASSUME Inv, Registers, [Next]_vars
    PROVE  Registers'
<1>1. /\ ringing \in Seq(Queues) /\ doorbells \in Seq(Queues) /\ Len(ringing) + Len(doorbells) <= Doorbells
      /\ Len(ringing) \in Nat /\ Len(doorbells) \in Nat
      /\ pipe \in [Stages -> Operations] /\ enable \in BOOLEAN /\ backlog \in [Queues -> 0..MaxBacklog]
  BY DEF Inv, Shape, FifoShape, Registers
<1>2. Doorbells \in Nat /\ MaxBacklog \in Nat
  BY ParamAssumption
<1>3. CASE Tick
  <2>1. PICK e \in Operations : Shift(e)
    BY <1>3, EntersTyped DEF Inv
  <2>2. pipe' \in [Stages -> Operations]
    <3>1. ASSUME NEW j \in Stages PROVE (IF j = 0 THEN e ELSE pipe[j - 1]) \in Operations
      BY <1>1, StageFacts
    <3> QED
      BY <2>1, <3>1 DEF Shift
  <2>3. doorbells' = doorbells \/ (doorbells # <<>> /\ doorbells' = Tail(doorbells))
    BY <1>3, EntersTyped DEF Inv
  <2>4. ringing' = ringing /\ enable' = enable /\ backlog' = backlog
    BY <1>3 DEF Tick
  <2>5. Len(ringing') + Len(doorbells') <= Doorbells
    <3>1. doorbells # <<>> => Len(Tail(doorbells)) <= Len(doorbells) /\ Len(Tail(doorbells)) \in Nat
      BY <1>1
    <3> QED
      BY <1>1, <1>2, <2>3, <2>4, <3>1
  <2> QED
    BY <1>1, <2>2, <2>4, <2>5 DEF Registers
<1>4. CASE Ring
  <2>1. ringing # <<>> /\ doorbells' = Append(doorbells, Head(ringing)) /\ ringing' = Tail(ringing)
    BY <1>4 DEF Ring
  <2>2. Len(ringing') = Len(ringing) - 1 /\ Len(doorbells') = Len(doorbells) + 1
    BY <1>1, <2>1
  <2>3. Len(ringing') + Len(doorbells') <= Doorbells
    BY <1>1, <1>2, <2>2
  <2> QED
    BY <1>1, <1>4, <2>3 DEF Ring, scheduler, driver, Registers
<1>5. ASSUME NEW q \in Queues, Post(q)
      PROVE  Registers'
  <2>1. /\ backlog[q] < MaxBacklog /\ Len(ringing) + Len(doorbells) < Doorbells
        /\ backlog' = [backlog EXCEPT ![q] = backlog[q] + 1]
        /\ ringing' = Append(ringing, q) /\ doorbells' = doorbells /\ pipe' = pipe /\ enable' = enable
    BY <1>5 DEF Post, scheduler, driver
  <2>2. backlog' \in [Queues -> 0..MaxBacklog]
    BY <1>1, <1>2, <2>1
  <2>3. Len(ringing') = Len(ringing) + 1
    BY <1>1, <2>1
  <2> QED
    BY <1>1, <1>2, <2>1, <2>2, <2>3 DEF Registers
<1>6. CASE Dequeue
  <2>1. /\ backlog' = [backlog EXCEPT ![Head(asked).queue] = IF @ > 0 THEN @ - 1 ELSE 0]
        /\ ringing' = ringing /\ doorbells' = doorbells /\ pipe' = pipe /\ enable' = enable
    BY <1>6 DEF Dequeue, scheduler, driver
  <2>2. backlog' \in [Queues -> 0..MaxBacklog]
    <3>1. ASSUME NEW n \in 0..MaxBacklog PROVE (IF n > 0 THEN n - 1 ELSE 0) \in 0..MaxBacklog
      BY <1>2
    <3> DEFINE q == Head(asked).queue
               left == IF backlog[q] > 0 THEN backlog[q] - 1 ELSE 0
    <3>2. backlog' = [backlog EXCEPT ![q] = left]
      BY <2>1
    <3>3. q \in Queues => left \in 0..MaxBacklog
      BY <1>1, <3>1
    <3> HIDE DEF q, left
    <3> QED
      BY <1>1, <3>2, <3>3
  <2> QED
    BY <1>1, <2>1, <2>2 DEF Registers
<1>7. CASE Deactivate \/ Activate
  <2>1. /\ ringing' = ringing /\ doorbells' = doorbells /\ pipe' = pipe /\ enable' \in BOOLEAN
        /\ backlog' = backlog \/ backlog' = [q \in Queues |-> 0]
    BY <1>7 DEF Deactivate, Activate, scheduler
  <2> QED
    BY <1>1, <1>2, <2>1 DEF Registers
<1>8. CASE Accept \/ AnswerEmpty \/ AnswerSent \/ UNCHANGED vars
  <2>1. ringing' = ringing /\ doorbells' = doorbells /\ pipe' = pipe /\ enable' = enable /\ backlog' = backlog
    BY <1>8 DEF Accept, AnswerEmpty, AnswerSent, Answer, vars, scheduler, driver
  <2> QED
    BY <1>1, <2>1 DEF Registers
<1> QED
  BY <1>3, <1>4, <1>5, <1>6, <1>7, <1>8 DEF Next

LEMMA InitRegisters == Init => Registers
<1> SUFFICES ASSUME Init PROVE Registers
  OBVIOUS
<1>1. Len(ringing) = 0 /\ Len(doorbells) = 0
  BY DEF Init
<1> QED
  BY <1>1, ParamAssumption DEF Init, Registers, Operations

\* The places of a sequence are as many as it is long.
LEMMA PlacesOf == \A n \in Nat : Cardinality(1..n) = n
<1> SUFFICES ASSUME NEW n \in Nat PROVE Cardinality(1..n) = n
  OBVIOUS
<1>1. 1 \in Int /\ n \in Int
  OBVIOUS
<1>2. Cardinality(1..n) = IF 1 > n THEN 0 ELSE n - 1 + 1
  BY <1>1, FS_Interval
<1> QED
  BY <1>2

\* A sequence of at most one answer for each request is no longer than the table.
LEMMA OncePerEntry ==
    ASSUME NEW s \in Seq(Answers), OnceIn(s)
    PROVE  Len(s) <= OpTableSize
<1>1. Len(s) \in Nat /\ DOMAIN s = 1..Len(s) /\ \A j \in 1..Len(s) : s[j] \in Answers
  OBVIOUS
<1> DEFINE f == [j \in 1..Len(s) |-> s[j].op]
<1>2. f \in Injection(1..Len(s), Ops)
  <2>1. ASSUME NEW j \in 1..Len(s) PROVE s[j].op \in Ops
    BY <1>1 DEF Answers
  <2>2. f \in [1..Len(s) -> Ops]
    BY <2>1
  <2>3. ASSUME NEW i \in 1..Len(s), NEW j \in 1..Len(s), f[i] = f[j] PROVE i = j
    BY <1>1, <2>3 DEF OnceIn
  <2> QED
    BY <2>2, <2>3 DEF Injection, IsInjective
<1>3. /\ OpTableSize \in Nat /\ OpTableSize > 0
      /\ IsFiniteSet(Ops) /\ Cardinality(Ops) = OpTableSize
  <2>1. OpTableSize \in Nat /\ OpTableSize > 0
    BY ParamAssumption
  <2>2. 0 \in Int /\ OpTableSize - 1 \in Int /\ ~(0 > OpTableSize - 1) /\ (OpTableSize - 1) - 0 + 1 = OpTableSize
    BY <2>1
  <2>3. IsFiniteSet(0..(OpTableSize - 1)) /\ Cardinality(0..(OpTableSize - 1)) = OpTableSize
    BY <2>2, FS_Interval
  <2> QED
    BY <2>1, <2>3 DEF Ops
<1> HIDE DEF f
<1>4. Cardinality(1..Len(s)) <= Cardinality(Ops)
  BY <1>2, <1>3, FS_Injection
<1>5. Cardinality(1..Len(s)) = Len(s)
  BY <1>1, PlacesOf
<1> QED
  BY <1>3, <1>4, <1>5

\* The FIFOs, whose ready nobody looks at, have room.
LEMMA RoundIsShort ==
    ASSUME Inv
    PROVE  RoundFits
<1>1. rr \in Seq(Queues) /\ Distinct(rr)
  BY RoundOf DEF Inv, Shape, FifoShape
<1>2. Len(rr) \in Nat /\ rr \in [1..Len(rr) -> Queues] /\ DOMAIN rr = 1..Len(rr)
  BY <1>1
<1>3. rr \in Injection(1..Len(rr), Queues)
  BY <1>1, <1>2 DEF Distinct, Injection, IsInjective
<1>4. Cardinality(1..Len(rr)) <= Cardinality(Queues)
  BY <1>3, FS_Injection, ParamAssumption
<1>5. Cardinality(1..Len(rr)) = Len(rr)
  BY <1>2, PlacesOf
<1> QED
  BY <1>4, <1>5 DEF RoundFits

LEMMA AlwaysPlaced == Safety => [](Inv /\ OpsPlaced /\ Registers)
<1>1. Init => Inv /\ OpsPlaced /\ Registers
  BY InitInv, InitPlaced, InitRegisters
<1>2. (Inv /\ OpsPlaced /\ Registers) /\ [Next]_vars => (Inv /\ OpsPlaced /\ Registers)'
  BY StepInv, StepPlaced, StepRegisters
<1> QED
  BY <1>1, <1>2, PTL DEF Safety

\* The registers keep their types at every depth of the pipeline, and no FIFO of the scheduler
\* gets more than it holds: one place for every queue in the round, one for every entry of the
\* table among the answers (tx_scheduler_rr.v:176-375).
THEOREM TypeCorrect == Safety => []TypeOK
<1>1. ASSUME Inv, OpsPlaced, Registers PROVE TypeOK
  <2>1. Len(rr) <= Cardinality(Queues)
    BY <1>1, RoundIsShort DEF RoundFits
  <2>2. Len(finish) <= OpTableSize
    BY <1>1, OncePerEntry DEF Inv, Shape, FifoShape, OpsPlaced
  <2> QED
    BY <1>1, <2>1, <2>2 DEF TypeOK, Inv, Shape, FifoShape, Registers, Operations
<1> QED
  BY <1>1, AlwaysPlaced, PTL

\* An entry of the table is in use exactly while one request is under way, in the pipeline,
\* in the engine or among the answers: none is leaked and none is given out twice, whatever
\* answers overtake each other (tx_scheduler_rr.v:576-581, 667-668, 697-698).
THEOREM EntriesAccounted == Safety => []OpsAccounted
<1>1. ASSUME Inv, OpsPlaced, Registers PROVE OpsAccounted
  <2>1. pipe \in [Stages -> {pipe[j] : j \in Stages}]
    BY <1>1 DEF Registers
  <2> QED
    BY <1>1, <2>1, PlacesCounted DEF OpsAccounted, Inv
<1> QED
  BY <1>1, AlwaysPlaced, PTL

\* The FIFO of the round holds at most one entry for each queue: with a place for every
\* queue its ready, which nobody looks at, is never low (tx_scheduler_rr.v:336-375).
THEOREM RoundNeverOverflows == Safety => []RoundFits
<1>1. Safety => []Inv
  BY InitInv, StepInv, PTL DEF Safety
<1> QED
  BY <1>1, RoundIsShort, PTL

-----------------------------------------------------------------------------
(* The doorbells.                                                            *)

\* The requests that have left the scheduler, in the order in which they will return to it
\* but for the packets among them, which an empty answer overtakes: the answers, those
\* looked at, those asked for, the one at the output.
Length == Len(finish) + Len(fetched) + Len(asked) + IF txReq = None THEN 0 ELSE 1
Line == 1..Length

\* The request at place p of a line made of these parts, and whether its ring has been looked
\* at, and what was found.
OpIn(answers, looked, waiting, req, p) ==
    LET f == p - Len(answers)
        a == f - Len(looked)
    IN IF f <= 0 THEN answers[p].op ELSE IF a <= 0 THEN looked[f].op
       ELSE IF a <= Len(waiting) THEN waiting[a].op ELSE req.op

KindOf(answer) == IF answer.filled THEN "full" ELSE "empty"
KindIn(answers, looked, p) ==
    LET f == p - Len(answers)
        a == f - Len(looked)
    IN IF f <= 0 THEN KindOf(answers[p]) ELSE IF a <= 0 THEN KindOf(looked[f]) ELSE "open"

OpAt(p) == OpIn(finish, fetched, asked, txReq, p)
KindAt(p) == KindIn(finish, fetched, p)
Owner(p) == table[OpAt(p)].queue

\* An entry of the table names the queue of its request.
Owned ==
    /\ \A j \in DOMAIN asked : table[asked[j].op].queue = asked[j].queue
    /\ txReq # None => table[txReq.op].queue = txReq.queue
    /\ \A j \in Stages :
          pipe[j].op \in {"req", "complete"} => table[pipe[j].index].queue = pipe[j].queue

\* The tail of a queue is still under way, no earlier than any of its requests that was not
\* given a packet: there a doorbell can be recorded.
TailLast ==
    \A p \in Line :
        KindAt(p) # "full" =>
            \E r \in Line : r >= p /\ OpAt(r) = ram[Owner(p)].tail /\ Owner(r) = Owner(p)

\* A doorbell of q is on its way to the last stage.
Bell(q) ==
    \/ \E j \in DOMAIN ringing : ringing[j] = q
    \/ \E j \in DOMAIN doorbells : doorbells[j] = q
    \/ \E j \in Stages : pipe[j].op = "doorbell" /\ pipe[j].queue = q

\* Descriptors of q wait, and their doorbell was executed.
Waits(q) == backlog[q] > 0 /\ ~Bell(q)

\* The request at r will look at the ring of q, or bring q back when answered.
Tells(r, q) == Owner(r) = q /\ (KindAt(r) # "empty" \/ table[OpAt(r)].doorbell)

\* While descriptors of its queue wait, a request that found the ring empty and has no
\* doorbell recorded is followed by one that tells.
FollowedInLine ==
    \A p \in Line :
        KindAt(p) = "empty" /\ ~table[OpAt(p)].doorbell /\ Waits(Owner(p)) =>
            \E r \in Line : r > p /\ Tells(r, Owner(p))
FollowedInPipe ==
    \A j \in Stages :
        pipe[j].op = "complete" /\ ~pipe[j].filled /\ Waits(pipe[j].queue) =>
            \E r \in Line : Tells(r, pipe[j].queue)

\* And the queue is active, or is going to be.
Remembered ==
    \A q \in Queues : Waits(q) =>
        \/ ram[q].active
        \/ \E j \in Stages : pipe[j].op = "complete" /\ pipe[j].queue = q /\ pipe[j].filled
        \/ \E r \in Line : Tells(r, q)

Enrolled == \A q \in Queues : ram[q].enabled /\ ram[q].active => ram[q].scheduled

Followed == TailLast /\ FollowedInLine /\ FollowedInPipe /\ Remembered
Told == Owned /\ Enrolled /\ Followed

\* The parts of a line follow each other: the answers, the answers of the reads still to
\* come, the requests that wait and the one at the output.
LEMMA PartFinish ==
    ASSUME NEW s, NEW t, NEW u, NEW r, NEW p \in Nat, Len(s) \in Nat, p <= Len(s)
    PROVE  OpIn(s, t, u, r, p) = s[p].op /\ KindIn(s, t, p) = KindOf(s[p])
<1>1. p - Len(s) <= 0
  OBVIOUS
<1> QED
  BY <1>1 DEF OpIn, KindIn

LEMMA PartFetched ==
    ASSUME NEW s, NEW t, NEW u, NEW r, NEW p \in Nat, Len(s) \in Nat, Len(t) \in Nat,
           p > Len(s), p <= Len(s) + Len(t)
    PROVE  /\ OpIn(s, t, u, r, p) = t[p - Len(s)].op
           /\ KindIn(s, t, p) = KindOf(t[p - Len(s)])
<1>1. ~(p - Len(s) <= 0) /\ p - Len(s) - Len(t) <= 0
  OBVIOUS
<1> QED
  BY <1>1 DEF OpIn, KindIn

LEMMA PartOpen ==
    ASSUME NEW s, NEW t, NEW p \in Nat, Len(s) \in Nat, Len(t) \in Nat, p > Len(s) + Len(t)
    PROVE  KindIn(s, t, p) = "open"
<1>1. ~(p - Len(s) <= 0) /\ ~(p - Len(s) - Len(t) <= 0)
  OBVIOUS
<1> QED
  BY <1>1 DEF KindIn

LEMMA PartAsked ==
    ASSUME NEW s, NEW t, NEW u, NEW r, NEW p \in Nat,
           Len(s) \in Nat, Len(t) \in Nat, Len(u) \in Nat,
           p > Len(s) + Len(t), p <= Len(s) + Len(t) + Len(u)
    PROVE  OpIn(s, t, u, r, p) = u[p - Len(s) - Len(t)].op
<1>1. /\ ~(p - Len(s) <= 0) /\ ~(p - Len(s) - Len(t) <= 0)
      /\ p - Len(s) - Len(t) <= Len(u)
  OBVIOUS
<1> QED
  BY <1>1 DEF OpIn

LEMMA PartRequest ==
    ASSUME NEW s, NEW t, NEW u, NEW r, NEW p \in Nat,
           Len(s) \in Nat, Len(t) \in Nat, Len(u) \in Nat, p > Len(s) + Len(t) + Len(u)
    PROVE  OpIn(s, t, u, r, p) = r.op
<1>1. /\ ~(p - Len(s) <= 0) /\ ~(p - Len(s) - Len(t) <= 0)
      /\ ~(p - Len(s) - Len(t) <= Len(u))
  OBVIOUS
<1> QED
  BY <1>1 DEF OpIn

\* So do those of the line of requests under way.
LEMMA LineParts ==
    ASSUME Shape
    PROVE  /\ Len(finish) \in Nat /\ Len(fetched) \in Nat /\ Len(asked) \in Nat
           /\ \A p : OpAt(p) = OpIn(finish, fetched, asked, txReq, p)
                     /\ KindAt(p) = KindIn(finish, fetched, p)
BY DEF OpAt, KindAt, Shape, FifoShape

LEMMA PlaceFinish ==
    ASSUME Shape, NEW p \in Nat, p <= Len(finish)
    PROVE  OpAt(p) = finish[p].op /\ KindAt(p) = KindOf(finish[p])
BY LineParts, PartFinish

LEMMA PlaceFetched ==
    ASSUME Shape, NEW p \in Nat, p > Len(finish), p <= Len(finish) + Len(fetched)
    PROVE  OpAt(p) = fetched[p - Len(finish)].op /\ KindAt(p) = KindOf(fetched[p - Len(finish)])
BY LineParts, PartFetched

LEMMA PlaceOpen ==
    ASSUME Shape, NEW p \in Nat, p > Len(finish) + Len(fetched)
    PROVE  KindAt(p) = "open"
BY LineParts, PartOpen

LEMMA PlaceAsked ==
    ASSUME Shape, NEW p \in Nat,
           p > Len(finish) + Len(fetched), p <= Len(finish) + Len(fetched) + Len(asked)
    PROVE  OpAt(p) = asked[p - Len(finish) - Len(fetched)].op
BY LineParts, PartAsked

LEMMA PlaceRequest ==
    ASSUME Shape, NEW p \in Nat, p > Len(finish) + Len(fetched) + Len(asked)
    PROVE  OpAt(p) = txReq.op
BY LineParts, PartRequest

\* Which request is at which place.
LEMMA LineIs ==
    ASSUME Shape
    PROVE  /\ Length \in Nat /\ Len(finish) \in Nat /\ Len(fetched) \in Nat /\ Len(asked) \in Nat
           /\ \A j \in 1..Len(finish) :
                 /\ j \in Line /\ OpAt(j) = finish[j].op /\ KindAt(j) = KindOf(finish[j])
                 /\ j \in DOMAIN finish
           /\ \A j \in 1..Len(fetched) : LET p == Len(finish) + j IN
                 /\ p \in Line /\ OpAt(p) = fetched[j].op /\ KindAt(p) = KindOf(fetched[j])
                 /\ j \in DOMAIN fetched
           /\ \A j \in 1..Len(asked) : LET p == Len(finish) + Len(fetched) + j IN
                 /\ p \in Line /\ OpAt(p) = asked[j].op /\ KindAt(p) = "open"
                 /\ j \in DOMAIN asked
           /\ txReq # None => /\ Length \in Line /\ OpAt(Length) = txReq.op
                              /\ KindAt(Length) = "open"
           /\ \A p \in Line :
                 \/ p \in 1..Len(finish)
                 \/ \E j \in 1..Len(fetched) : p = Len(finish) + j
                 \/ \E j \in 1..Len(asked) : p = Len(finish) + Len(fetched) + j
                 \/ txReq # None /\ p = Length
<1>1. /\ Len(finish) \in Nat /\ Len(fetched) \in Nat /\ Len(asked) \in Nat
      /\ DOMAIN finish = 1..Len(finish) /\ DOMAIN fetched = 1..Len(fetched)
      /\ DOMAIN asked = 1..Len(asked)
  BY DEF Shape, FifoShape
<1> DEFINE n == IF txReq = None THEN 0 ELSE 1
<1>2. n \in {0, 1} /\ (n = 1 <=> txReq # None) /\ Length = Len(finish) + Len(fetched) + Len(asked) + n
  BY DEF Length
<1> HIDE DEF n
<1>3. Length \in Nat
  BY <1>1, <1>2
<1>4. ASSUME NEW j \in 1..Len(finish)
      PROVE  j \in Line /\ OpAt(j) = finish[j].op /\ KindAt(j) = KindOf(finish[j])
  <2>1. j \in Nat /\ j <= Len(finish) /\ j \in Line
    BY <1>1, <1>2 DEF Line
  <2> QED
    BY <2>1, PlaceFinish
<1>5. ASSUME NEW j \in 1..Len(fetched)
      PROVE  LET p == Len(finish) + j IN
             p \in Line /\ OpAt(p) = fetched[j].op /\ KindAt(p) = KindOf(fetched[j])
  <2> DEFINE p == Len(finish) + j
  <2>1. p \in Nat /\ p > Len(finish) /\ p <= Len(finish) + Len(fetched) /\ p - Len(finish) = j
    BY <1>1
  <2>2. p \in Line
    BY <1>1, <1>2 DEF Line
  <2> HIDE DEF p
  <2>3. OpAt(p) = fetched[j].op /\ KindAt(p) = KindOf(fetched[j])
    BY <2>1, PlaceFetched
  <2> QED
    BY <2>2, <2>3 DEF p
<1>6. ASSUME NEW j \in 1..Len(asked)
      PROVE  LET p == Len(finish) + Len(fetched) + j IN
             p \in Line /\ OpAt(p) = asked[j].op /\ KindAt(p) = "open"
  <2> DEFINE p == Len(finish) + Len(fetched) + j
  <2>1. /\ p \in Nat /\ p > Len(finish) + Len(fetched)
        /\ p <= Len(finish) + Len(fetched) + Len(asked) /\ p - Len(finish) - Len(fetched) = j
    BY <1>1
  <2>2. p \in Line
    BY <1>1, <1>2 DEF Line
  <2> HIDE DEF p
  <2>3. OpAt(p) = asked[j].op /\ KindAt(p) = "open"
    BY <2>1, PlaceAsked, PlaceOpen
  <2> QED
    BY <2>2, <2>3 DEF p
<1>7. ASSUME txReq # None
      PROVE  Length \in Line /\ OpAt(Length) = txReq.op /\ KindAt(Length) = "open"
  <2>1. /\ Length > Len(finish) + Len(fetched) + Len(asked) /\ Length >= 1
        /\ Length > Len(finish) + Len(fetched)
    BY <1>1, <1>2, <1>7
  <2>2. OpAt(Length) = txReq.op /\ KindAt(Length) = "open"
    BY <1>3, <2>1, PlaceRequest, PlaceOpen
  <2> QED
    BY <1>3, <2>1, <2>2 DEF Line
<1>8. ASSUME NEW p \in Line
      PROVE  \/ p \in 1..Len(finish)
             \/ \E j \in 1..Len(fetched) : p = Len(finish) + j
             \/ \E j \in 1..Len(asked) : p = Len(finish) + Len(fetched) + j
             \/ txReq # None /\ p = Length
  <2>1. p \in Nat /\ p >= 1 /\ p <= Length
    BY <1>3 DEF Line
  <2>2. CASE p <= Len(finish)
    BY <1>1, <2>1, <2>2
  <2>3. CASE p > Len(finish) /\ p <= Len(finish) + Len(fetched)
    <3>1. p - Len(finish) \in 1..Len(fetched) /\ p = Len(finish) + (p - Len(finish))
      BY <1>1, <2>1, <2>3
    <3> QED
      BY <3>1
  <2>4. CASE p > Len(finish) + Len(fetched) /\ p <= Len(finish) + Len(fetched) + Len(asked)
    <3> DEFINE j == p - Len(finish) - Len(fetched)
    <3>1. j \in 1..Len(asked) /\ p = Len(finish) + Len(fetched) + j
      BY <1>1, <2>1, <2>4
    <3> QED
      BY <3>1
  <2>5. CASE p > Len(finish) + Len(fetched) + Len(asked)
    BY <1>1, <1>2, <2>1, <2>5
  <2> QED
    BY <1>1, <2>1, <2>2, <2>3, <2>4, <2>5
<1> QED
  BY <1>1, <1>3, <1>4, <1>5, <1>6, <1>7, <1>8

\* A request in the line has its entry, and is not in the pipeline.
LEMMA LineEntry ==
    ASSUME Shape, OpsPlaced, NEW p \in Line
    PROVE  /\ OpAt(p) \in Ops /\ table[OpAt(p)].active /\ ~InPipeline(OpAt(p))
           /\ Owner(p) \in Queues
<1>1. \A i \in Ops : AtOutput(i) \/ Holds(asked, i) \/ Holds(fetched, i) \/ Holds(finish, i) =>
          table[i].active /\ ~InPipeline(i)
  BY DEF OpsPlaced, Placed
<1>2. SUFFICES OpAt(p) \in Ops /\ (\/ AtOutput(OpAt(p)) \/ Holds(asked, OpAt(p))
                                  \/ Holds(fetched, OpAt(p)) \/ Holds(finish, OpAt(p)))
  <2>1. OpAt(p) \in Ops => table[OpAt(p)] \in Entries
    BY DEF Shape
  <2> QED
    BY <1>1, <2>1 DEF Owner, Entries
<1>3. /\ \A j \in DOMAIN finish : finish[j].op \in Ops
      /\ \A j \in DOMAIN fetched : fetched[j].op \in Ops
      /\ \A j \in DOMAIN asked : asked[j].op \in Ops
      /\ txReq # None => txReq.op \in Ops
  <2>1. /\ \A j \in DOMAIN finish : finish[j] \in Answers
        /\ \A j \in DOMAIN fetched : fetched[j] \in Answers
        /\ \A j \in DOMAIN asked : asked[j] \in Requests
        /\ txReq # None => txReq \in Requests
    BY DEF Shape, FifoShape
  <2> QED
    BY <2>1 DEF Answers, Requests
<1>4. CASE p \in 1..Len(finish)
  BY <1>3, <1>4, LineIs DEF Holds
<1>5. CASE \E j \in 1..Len(fetched) : p = Len(finish) + j
  BY <1>3, <1>5, LineIs DEF Holds
<1>6. CASE \E j \in 1..Len(asked) : p = Len(finish) + Len(fetched) + j
  BY <1>3, <1>6, LineIs DEF Holds
<1>7. CASE txReq # None /\ p = Length
  BY <1>3, <1>7, LineIs DEF AtOutput
<1> QED
  BY <1>4, <1>5, <1>6, <1>7, LineIs

\* An entry in use that is not released keeps its queue and its doorbell over a clock edge,
\* and a doorbell that is executed is recorded with the tail.
LEMMA TickStarted ==
    ASSUME Shape, Tick, NEW i \in Ops, Started[i].active, ~(Ends /\ i = cur.index)
    PROVE  /\ table'[i].queue = Started[i].queue
           /\ Started[i].doorbell => table'[i].doorbell
           /\ cur.op = "doorbell" /\ i = tail0 /\ table[i].active /\ table[i].queue = q0 =>
                 table'[i].doorbell
<1>1. Started \in [Ops -> Entries] /\ table \in [Ops -> Entries]
  BY StartedShape DEF Shape
<1>2. Started[i].active
  OBVIOUS
<1>3. \A t \in [Ops -> Entries] : t[i].active => Kept(t)[i] = t[i]
  BY DEF Kept
<1>4. CASE ExecDoorbell
  <2> DEFINE t == IF TailActive THEN [Started EXCEPT ![tail0].doorbell = TRUE] ELSE Started
  <2>1. cur.op = "doorbell" /\ table' = Kept(t)
    BY <1>4 DEF ExecDoorbell
  <2>2. /\ t[i].active /\ t[i].queue = Started[i].queue
        /\ Started[i].doorbell => t[i].doorbell
        /\ TailActive /\ i = tail0 => t[i].doorbell
    <3>1. CASE TailActive /\ i = tail0
      <4>1. t[i] = [Started[i] EXCEPT !.doorbell = TRUE]
        BY <1>1, <3>1
      <4> QED
        BY <1>1, <1>2, <4>1 DEF Entries
    <3>2. CASE ~(TailActive /\ i = tail0)
      <4>1. t[i] = Started[i]
        BY <1>1, <3>2
      <4> QED
        BY <1>2, <3>2, <4>1
    <3> QED
      BY <3>1, <3>2
  <2>2a. t[i].active => Kept(t)[i] = t[i]
    BY DEF Kept
  <2>3. i = tail0 /\ table[i].active /\ table[i].queue = q0 => TailActive
    BY DEF TailActive
  <2> HIDE DEF t
  <2> QED
    BY <2>1, <2>2, <2>2a, <2>3
<1>5. CASE ExecWrite \/ ExecNone
  BY <1>1, <1>2, <1>3, <1>5 DEF ExecWrite, ExecNone
<1>6. CASE ExecReq
  <2> DEFINE follows == TailActive /\ cur.index # tail0
             t == [j \in Ops |-> [Started[j] EXCEPT
                                    !.next   = IF follows /\ j = tail0 THEN cur.index ELSE @,
                                    !.prev   = IF j = cur.index THEN tail0 ELSE @,
                                    !.isHead = IF j = cur.index THEN ~follows ELSE @]]
             u == [Started EXCEPT ![cur.index].active = FALSE]
  <2>1. cur.op = "req"
    BY <1>6 DEF ExecReq
  <2>2. CASE Goes
    <3>1. table' = Kept(t)
      BY <1>6, <2>2 DEF ExecReq, Goes
    <3>2. /\ t[i].active = Started[i].active /\ t[i].queue = Started[i].queue
          /\ t[i].doorbell = Started[i].doorbell
      BY <1>1 DEF Entries
    <3>3. t[i].active => Kept(t)[i] = t[i]
      BY DEF Kept
    <3> HIDE DEF t
    <3> QED
      BY <1>2, <2>1, <3>1, <3>2, <3>3
  <2>3. CASE ~Goes
    <3>1. table' = Kept(u) /\ i # cur.index
      BY <1>6, <2>1, <2>3 DEF ExecReq, Goes, Ends
    <3>2. u[i] = Started[i]
      BY <1>1, <3>1
    <3>3. u[i].active => Kept(u)[i] = u[i]
      BY DEF Kept
    <3> HIDE DEF u
    <3> QED
      BY <1>2, <2>1, <3>1, <3>2, <3>3
  <2> QED
    BY <2>2, <2>3
<1>7. CASE ExecComplete
  <2> DEFINE k == cur.index
             o == table[k]
             before(j) == j = o.prev /\ ~o.isHead
             after(j) == j = o.next /\ k # tail0
             t == [j \in Ops |-> [Started[j] EXCEPT !.active   = @ /\ j # k,
                                !.doorbell = @ \/ (before(j) /\ o.doorbell),
                                !.next     = IF before(j) THEN o.next ELSE @,
                                !.prev     = IF after(j) THEN o.prev ELSE @,
                                !.isHead   = IF after(j) THEN o.isHead ELSE @]]
  <2>1. cur.op = "complete" /\ table' = Kept(t) /\ i # k
    BY <1>7 DEF ExecComplete, Ends
  <2>2. t[i].active /\ t[i].queue = Started[i].queue /\ (Started[i].doorbell => t[i].doorbell)
    <3>1. Started[i] \in Entries
      BY <1>1
    <3> HIDE DEF o, k
    <3>2. /\ t[i].active <=> Started[i].active /\ i # k
          /\ t[i].queue = Started[i].queue
          /\ t[i].doorbell <=> Started[i].doorbell \/ (before(i) /\ o.doorbell)
      <4> HIDE DEF before, after
      <4> QED
        BY <3>1 DEF Entries
    <3> QED
      BY <1>2, <2>1, <3>2
  <2>3. t[i].active => Kept(t)[i] = t[i]
    BY DEF Kept
  <2> HIDE DEF t
  <2> QED
    BY <1>2, <2>1, <2>2, <2>3
<1> QED
  BY <1>4, <1>5, <1>6, <1>7 DEF Tick

\* The entries of requests under way are among them.
LEMMA TickEntry ==
    ASSUME Shape, Tick, NEW i \in Ops, table[i].active, ~(Ends /\ i = cur.index)
    PROVE  /\ table'[i].queue = table[i].queue
           /\ table[i].doorbell => table'[i].doorbell
           /\ cur.op = "doorbell" /\ i = tail0 /\ table[i].queue = q0 => table'[i].doorbell
<1>1. table \in [Ops -> Entries]
  BY DEF Shape
<1>2. CASE Entering
  <2>1. PICK e : Shift(e) /\ Fresh(e)
    BY Enters
  <2>2. e.op = "req"
    BY <1>2, <2>1, StageFacts DEF Entering, Shift
  <2>3. FreeOp # i
    BY <2>1, <2>2, FreeOpIsFree DEF Fresh
  <2>4. Started[i] = table[i]
    BY <1>1, <1>2, <2>3 DEF Started
  <2> QED
    BY <2>4, TickStarted
<1>3. CASE ~Entering
  BY <1>3, TickStarted DEF Started
<1> QED
  BY <1>2, <1>3

\* So is the one a request takes when it enters.
LEMMA TickTaken ==
    ASSUME Shape, OpsPlaced, Tick, Entering
    PROVE  table'[pipe'[0].index].queue = pipe'[0].queue
<1>1. PICK e : /\ Shift(e) /\ Fresh(e)
               /\ e.op = "req" => e.index = FreeOp /\ txReq = None /\ ~InPipe("req")
               /\ IF e.op = "complete"
                  THEN finish # <<>> /\ e.index = Head(finish).op /\ finish' = Tail(finish)
                  ELSE finish' = finish
  BY EntersOnce
<1>2. pipe'[0] = e /\ e.op = "req"
  BY <1>1, StageFacts DEF Shift, Entering
<1>3. FreeOp \in Ops /\ ~table[FreeOp].active /\ e.queue = Head(rr) /\ e.index = FreeOp
  BY <1>1, <1>2, FreeOpIsFree DEF Fresh
<1>4. Started[FreeOp].active /\ Started[FreeOp].queue = Head(rr)
  <2>1. table \in [Ops -> Entries]
    BY DEF Shape
  <2> QED
    BY <1>3, <2>1 DEF Started, Entries
<1>5. ~(Ends /\ FreeOp = cur.index)
  <2>1. Ends => InPipeline(cur.index)
    BY StageFacts DEF Ends, InPipeline, cur
  <2>2. ~InPipeline(FreeOp)
    BY <1>3 DEF OpsPlaced, Placed
  <2> QED
    BY <2>1, <2>2
<1> QED
  BY <1>2, <1>3, <1>4, <1>5, TickStarted

\* What a clock edge does to the word of a queue: a doorbell makes it active, an answer as
\* active as it says, and a request that goes becomes its tail.
LEMMA TickWord ==
    ASSUME Inv, Tick, Enrolled, NEW q \in Queues
    PROVE  /\ ram'[q].tail = IF Goes /\ q = q0 THEN cur.index ELSE ram[q].tail
           /\ cur.op = "doorbell" /\ q = q0 => ram'[q].active
           /\ cur.op = "complete" /\ q = q0 => (ram'[q].active <=> cur.filled)
           /\ ~(cur.op \in {"doorbell", "complete"} /\ q = q0) => (ram'[q].active <=> ram[q].active)
           /\ ram'[q].enabled /\ ram'[q].active => ram'[q].scheduled
<1> DEFINE w == cur.word
<1>1. ram \in [Queues -> Words]
  BY DEF Inv, Shape
<1>2. ASSUME cur.op # "none"
      PROVE  q0 \in Queues /\ cur.index \in Ops /\ w = ram[q0] /\ w \in Words
  BY <1>1, <1>2, StageFacts DEF Inv, Shape, PipeShape, Coherent, cur, q0
<1>3. ram[q].enabled /\ ram[q].active => ram[q].scheduled
  BY DEF Enrolled
<1>4. \A e, a, s :
          cur.op # "none" /\ ram' = Flags(e, a, s) =>
              /\ q # q0 => ram'[q] = ram[q]
              /\ q = q0 => /\ ram'[q].enabled = e /\ ram'[q].active = a
                           /\ ram'[q].scheduled = s /\ ram'[q].tail = ram[q].tail
  BY <1>1, <1>2 DEF Flags, Words
<1>5. CASE ExecDoorbell
  <2>1. cur.op = "doorbell" /\ ram' = Flags(w.enabled, TRUE, w.scheduled \/ w.enabled) /\ ~Goes
    BY <1>5 DEF ExecDoorbell, Goes
  <2>2. /\ q # q0 => ram'[q] = ram[q]
        /\ q = q0 => /\ ram'[q].enabled = w.enabled /\ ram'[q].active = TRUE
                     /\ ram'[q].scheduled = (w.scheduled \/ w.enabled) /\ ram'[q].tail = ram[q].tail
    BY <1>4, <2>1
  <2>3. CASE q # q0
    BY <1>3, <2>1, <2>2, <2>3
  <2>4. CASE q = q0
    BY <1>2, <1>3, <2>1, <2>2, <2>4
  <2> QED
    BY <2>3, <2>4
<1>6. CASE ExecWrite
  <2>1. cur.op = "write" /\ ram' = Flags(TRUE, w.active, w.scheduled \/ w.active) /\ ~Goes
    BY <1>6 DEF ExecWrite, Goes
  <2>2. /\ q # q0 => ram'[q] = ram[q]
        /\ q = q0 => /\ ram'[q].enabled = TRUE /\ ram'[q].active = w.active
                     /\ ram'[q].scheduled = (w.scheduled \/ w.active) /\ ram'[q].tail = ram[q].tail
    BY <1>4, <2>1
  <2>3. CASE q # q0
    BY <1>3, <2>1, <2>2, <2>3
  <2>4. CASE q = q0
    BY <1>2, <1>3, <2>1, <2>2, <2>4
  <2> QED
    BY <2>3, <2>4
<1>7. CASE ExecComplete
  <2>1. /\ cur.op = "complete" /\ ~Goes
        /\ ram' = Flags(w.enabled, cur.filled, w.scheduled \/ cur.filled)
    BY <1>7 DEF ExecComplete, Goes
  <2>2. /\ q # q0 => ram'[q] = ram[q]
        /\ q = q0 => /\ ram'[q].enabled = w.enabled /\ ram'[q].active = cur.filled
                     /\ ram'[q].scheduled = (w.scheduled \/ cur.filled) /\ ram'[q].tail = ram[q].tail
    BY <1>4, <2>1
  <2>3. CASE q # q0
    BY <1>3, <2>1, <2>2, <2>3
  <2>4. CASE q = q0
    BY <1>2, <1>3, <2>1, <2>2, <2>4
  <2> QED
    BY <2>3, <2>4
<1>8. CASE ExecReq
  <2>1. cur.op = "req"
    BY <1>8 DEF ExecReq
  <2>2. CASE Goes
    <3>1. ram' = [Flags(w.enabled, w.active, TRUE) EXCEPT ![q0].tail = cur.index]
      BY <1>8, <2>2 DEF ExecReq, Goes
    <3>2. /\ q # q0 => ram'[q] = ram[q]
          /\ q = q0 => /\ ram'[q].enabled = w.enabled /\ ram'[q].active = w.active
                       /\ ram'[q].scheduled = TRUE /\ ram'[q].tail = cur.index
      BY <1>1, <1>2, <2>1, <3>1 DEF Flags, Words
    <3> QED
      BY <1>2, <1>3, <2>1, <2>2, <3>2
  <2>3. CASE ~Goes
    <3>1. ram' = Flags(w.enabled, w.active, FALSE)
      BY <1>8, <2>3 DEF ExecReq, Goes
    <3>2. ram[q0].scheduled
      BY <1>2, <2>1, StageFacts DEF Inv, ScheduledOnce, Asking, cur, q0
    <3>3. ~(w.enabled /\ w.active)
      BY <1>2, <2>1, <2>3, <3>2 DEF Goes
    <3>4. /\ q # q0 => ram'[q] = ram[q]
          /\ q = q0 => /\ ram'[q].enabled = w.enabled /\ ram'[q].active = w.active
                       /\ ram'[q].scheduled = FALSE /\ ram'[q].tail = ram[q].tail
      BY <1>4, <2>1, <3>1
    <3>5. CASE q # q0
      BY <1>3, <2>1, <2>3, <3>4, <3>5
    <3>6. CASE q = q0
      BY <1>2, <2>1, <2>3, <3>3, <3>4, <3>6
    <3> QED
      BY <3>5, <3>6
  <2> QED
    BY <2>2, <2>3
<1>9. CASE ExecNone
  BY <1>3, <1>9 DEF ExecNone, Goes
<1> QED
  BY <1>5, <1>6, <1>7, <1>8, <1>9 DEF Tick

\* A doorbell stays on its way over a clock edge until it is executed.
LEMMA TickBell ==
    ASSUME Shape, Tick, NEW q \in Queues, Bell(q)
    PROVE  Bell(q)' \/ (cur.op = "doorbell" /\ cur.queue = q)
<1>1. ringing' = ringing
  BY DEF Tick
<1>2. PICK e : Shift(e)
  BY Enters
<1>3. CASE \E j \in DOMAIN ringing : ringing[j] = q
  BY <1>1, <1>3 DEF Bell
<1>4. CASE \E j \in DOMAIN doorbells : doorbells[j] = q
  <2>1. PICK j \in DOMAIN doorbells : doorbells[j] = q
    BY <1>4
  <2>2. CASE doorbells' = doorbells
    BY <2>1, <2>2 DEF Bell
  <2>3. CASE doorbells' # doorbells
    <3>1. EnterDoorbell
      BY <2>3 DEF Tick, EnterWrite, EnterComplete, EnterReq, EnterNone
    <3>2. /\ doorbells \in Seq(Queues) /\ doorbells # <<>> /\ doorbells' = Tail(doorbells)
          /\ Shift(Stage("doorbell", Head(doorbells), 0, FALSE))
      BY <3>1 DEF EnterDoorbell, AcceptDoorbell, Shape, FifoShape
    <3>3. pipe'[0].op = "doorbell" /\ pipe'[0].queue = Head(doorbells)
      BY <3>2, StageFacts DEF Shift, Stage
    <3>4. CASE j = 1
      BY <2>1, <3>2, <3>3, <3>4, StageFacts DEF Bell
    <3>5. CASE j # 1
      <4>1. j - 1 \in DOMAIN doorbells' /\ doorbells'[j - 1] = q
        BY <2>1, <3>2, <3>5
      <4> QED
        BY <4>1 DEF Bell
    <3> QED
      BY <3>4, <3>5
  <2> QED
    BY <2>2, <2>3
<1>5. CASE \E j \in Stages : pipe[j].op = "doorbell" /\ pipe[j].queue = q
  <2>1. PICK j \in Stages : pipe[j].op = "doorbell" /\ pipe[j].queue = q
    BY <1>5
  <2>2. CASE j = Last
    BY <2>1, <2>2 DEF cur
  <2>3. CASE j # Last
    <3>1. j + 1 \in Stages /\ j + 1 # 0 /\ (j + 1) - 1 = j
      BY <2>3, StageFacts
    <3>2. pipe'[j + 1] = pipe[j]
      BY <1>2, <3>1 DEF Shift
    <3> QED
      BY <2>1, <3>1, <3>2 DEF Bell
  <2> QED
    BY <2>2, <2>3
<1> QED
  BY <1>3, <1>4, <1>5 DEF Bell

\* What a clock edge does to the line: its first request may return to the pipeline, and one
\* that goes joins it at the end.
Returns == pipe'[0].op = "complete"

LEMMA TickLine ==
    ASSUME Shape, OpsPlaced, Tick, NEW g \in {0, 1}, g = 1 <=> Returns
    PROVE  /\ g <= Length /\ Length' = Length - g + IF Goes THEN 1 ELSE 0
           /\ \A p \in 1..Length - g : OpAt(p)' = OpAt(p + g) /\ KindAt(p)' = KindAt(p + g)
           /\ Goes => \A p : p = Length' => OpAt(p)' = cur.index /\ KindAt(p)' = "open"
           /\ Returns => /\ pipe'[0].index = OpAt(1) /\ pipe'[0].queue = Owner(1)
                         /\ KindAt(1) # "open"
                         /\ pipe'[0].filled <=> KindAt(1) = "full" \/ table[OpAt(1)].doorbell
<1>1. /\ finish \in Seq(Answers) /\ fetched' = fetched /\ asked' = asked
      /\ Len(finish) \in Nat /\ Len(fetched) \in Nat /\ Len(asked) \in Nat
  BY LineIs DEF Tick, engine, Shape, FifoShape
<1>2. IF Returns
      THEN /\ finish # <<>> /\ finish' = Tail(finish) /\ pipe'[0].index = Head(finish).op
           /\ pipe'[0].queue = table[Head(finish).op].queue
           /\ pipe'[0].filled <=> Head(finish).filled \/ table[Head(finish).op].doorbell
      ELSE finish' = finish
  <2>1. \A e : Shift(e) => pipe'[0] = e
    BY StageFacts DEF Shift
  <2>2. ASSUME EnterComplete
        PROVE  /\ Returns /\ finish # <<>> /\ finish' = Tail(finish) /\ pipe'[0].index = Head(finish).op
               /\ pipe'[0].queue = table[Head(finish).op].queue
               /\ pipe'[0].filled <=> Head(finish).filled \/ table[Head(finish).op].doorbell
    <3> DEFINE i == Head(finish).op
               f == Head(finish).filled \/ table[i].doorbell
    <3>1. /\ Shift(Stage("complete", table[i].queue, i, f))
          /\ finish # <<>> /\ finish' = Tail(finish)
      BY <2>2 DEF EnterComplete, AcceptComplete
    <3>2. pipe'[0] = Stage("complete", table[i].queue, i, f)
      BY <2>1, <3>1
    <3>3. f \in BOOLEAN
      BY Zenon
    <3> HIDE DEF f
    <3>4. /\ pipe'[0].op = "complete" /\ pipe'[0].index = i /\ pipe'[0].queue = table[i].queue
          /\ pipe'[0].filled = f
      BY <3>2 DEF Stage
    <3>5. pipe'[0].filled <=> f
      BY <3>3, <3>4
    <3> QED
      BY <3>1, <3>4, <3>5, Zenon DEF Returns, f
  <2>3. ASSUME EnterDoorbell \/ EnterReq \/ EnterNone \/ \E q \in Queues : EnterWrite(q)
        PROVE  ~Returns /\ finish' = finish
    <3>1. \A q, i, f : /\ Stage("write", q, i, f).op # "complete"
                       /\ Stage("doorbell", q, i, f).op # "complete"
                       /\ Stage("req", q, i, f).op # "complete" /\ Idle.op # "complete"
      BY DEF Stage, Idle
    <3> QED
      BY <2>1, <2>3, <3>1 DEF EnterDoorbell, EnterReq, EnterNone, EnterWrite, Returns
  <2> QED
    BY <2>2, <2>3 DEF Tick
<1>3. /\ g \in {0, 1} /\ (g = 1 <=> Returns) /\ Len(finish') = Len(finish) - g
      /\ g <= Len(finish)
      /\ \A j \in 1..Len(finish) - g : finish'[j] = finish[j + g]
  <2>1. finish # <<>> => /\ Len(finish) >= 1 /\ Len(Tail(finish)) = Len(finish) - 1
                         /\ \A j \in 1..Len(finish) - 1 : Tail(finish)[j] = finish[j + 1]
    BY <1>1
  <2>2. CASE Returns
    <3>1. g = 1 /\ finish # <<>> /\ finish' = Tail(finish)
      BY <1>2, <2>2
    <3> QED
      BY <2>1, <2>2, <3>1
  <2>3. CASE ~Returns
    <3>1. g = 0 /\ finish' = finish /\ Len(finish) \in Nat
      BY <1>1, <1>2, <2>3
    <3>2. \A j \in 1..Len(finish) - g : j + g = j
      BY <3>1
    <3> QED
      BY <2>3, <3>1, <3>2
  <2> QED
    BY <2>2, <2>3
<1>4. txReq' = IF Goes THEN [queue |-> q0, op |-> cur.index] ELSE txReq
  BY TickTable
<1>5. Goes => txReq = None /\ txReq' # None /\ txReq'.op = cur.index
  <2> SUFFICES ASSUME Goes PROVE txReq = None /\ txReq' # None /\ txReq'.op = cur.index
    OBVIOUS
  <2>1. cur.op = "req" /\ Last \in Stages
    BY StageFacts DEF Goes
  <2>2. txReq = None /\ q0 \in Queues /\ cur.index \in Ops
    BY <2>1 DEF OpsPlaced, OneRequest, Shape, PipeShape, cur, q0
  <2>3. [queue |-> q0, op |-> cur.index] \in Requests
    BY <2>2 DEF Requests
  <2>4. txReq' = [queue |-> q0, op |-> cur.index]
    BY <1>4
  <2>5. txReq'.op = cur.index
    BY <2>4
  <2> QED
    BY <2>2, <2>3, <2>4, <2>5, NoneAssumption, Zenon
<1> DEFINE m == IF txReq = None THEN 0 ELSE 1
           n == IF txReq' = None THEN 0 ELSE 1
           h == IF Goes THEN 1 ELSE 0
<1>6. m \in {0, 1} /\ n = m + h /\ h \in {0, 1} /\ (h = 1 <=> Goes) /\ (Goes => m = 0)
      /\ (n = 0 \/ m = 1 \/ Goes)
  BY <1>4, <1>5
<1>7. /\ Length = Len(finish) + Len(fetched) + Len(asked) + m
      /\ Length' = Len(finish') + Len(fetched) + Len(asked) + n
  BY <1>1 DEF Length
<1>8. m = 1 => txReq' = txReq
  BY <1>4, <1>6
<1> HIDE DEF m, n, h
<1>9. g <= Length /\ Length' = Length - g + h
  BY <1>1, <1>3, <1>6, <1>7
<1>10. ASSUME NEW p \in 1..Length - g
       PROVE  OpAt(p)' = OpAt(p + g) /\ KindAt(p)' = KindAt(p + g)
  <2> DEFINE k == p + g
  <2>1. /\ p \in Nat /\ k \in Nat /\ p >= 1 /\ k - Len(finish) = p - Len(finish') /\ k = p + g
        /\ k <= Length /\ Len(finish) \in Nat /\ Len(fetched) \in Nat /\ Len(asked) \in Nat
        /\ Len(finish') \in Nat /\ Len(finish') = Len(finish) - g /\ g \in {0, 1}
    BY <1>1, <1>3, <1>6, <1>7
  <2> HIDE DEF k
  <2>2. /\ OpAt(p)' = OpIn(finish', fetched, asked, txReq', p)
        /\ KindAt(p)' = KindIn(finish', fetched, p)
    BY <1>1 DEF OpAt, KindAt
  <2>3. CASE p <= Len(finish')
    <3>1. k <= Len(finish) /\ finish'[p] = finish[k]
      BY <1>1, <1>3, <2>1, <2>3
    <3>2. OpAt(p)' = finish'[p].op /\ KindAt(p)' = KindOf(finish'[p])
      BY <2>1, <2>2, <2>3, PartFinish
    <3>3. OpAt(k) = finish[k].op /\ KindAt(k) = KindOf(finish[k])
      BY <2>1, <3>1, PlaceFinish
    <3> QED
      BY <2>1, <3>1, <3>2, <3>3
  <2>4. CASE p > Len(finish') /\ p <= Len(finish') + Len(fetched)
    <3>1. k > Len(finish) /\ k <= Len(finish) + Len(fetched)
      BY <2>1, <2>4
    <3>2. /\ OpAt(p)' = fetched[p - Len(finish')].op
          /\ KindAt(p)' = KindOf(fetched[p - Len(finish')])
      BY <2>1, <2>2, <2>4, PartFetched
    <3>3. /\ OpAt(k) = fetched[k - Len(finish)].op
          /\ KindAt(k) = KindOf(fetched[k - Len(finish)])
      BY <2>1, <3>1, PlaceFetched
    <3> QED
      BY <2>1, <3>2, <3>3
  <2>5. CASE p > Len(finish') + Len(fetched)
    <3>1. k > Len(finish) + Len(fetched)
      BY <2>1, <2>5
    <3>2. KindAt(p)' = "open" /\ KindAt(k) = "open"
      BY <2>1, <2>2, <2>5, <3>1, PartOpen, PlaceOpen
    <3>3. CASE p <= Len(finish') + Len(fetched) + Len(asked)
      <4>1. k <= Len(finish) + Len(fetched) + Len(asked)
        BY <2>1, <3>3
      <4>2. OpAt(p)' = asked[p - Len(finish') - Len(fetched)].op
        BY <2>1, <2>2, <2>5, <3>3, PartAsked
      <4>3. OpAt(k) = asked[k - Len(finish) - Len(fetched)].op
        BY <2>1, <3>1, <4>1, PlaceAsked
      <4> QED
        BY <2>1, <3>2, <4>2, <4>3
    <3>4. CASE p > Len(finish') + Len(fetched) + Len(asked)
      <4>1. k > Len(finish) + Len(fetched) + Len(asked) /\ m = 1
        BY <1>6, <1>7, <2>1, <3>4
      <4>2. OpAt(p)' = txReq'.op
        BY <2>1, <2>2, <3>4, PartRequest
      <4>3. OpAt(k) = txReq.op
        BY <2>1, <4>1, PlaceRequest
      <4> QED
        BY <1>8, <2>1, <3>2, <4>1, <4>2, <4>3
    <3> QED
      BY <2>1, <3>3, <3>4
  <2> QED
    BY <2>1, <2>3, <2>4, <2>5 DEF k
<1>11. ASSUME Goes, NEW p, p = Length' PROVE OpAt(p)' = cur.index /\ KindAt(p)' = "open"
  <2>1. /\ p \in Nat /\ p > Len(finish') + Len(fetched) + Len(asked)
        /\ Len(finish') \in Nat /\ Len(fetched) \in Nat /\ Len(asked) \in Nat
    BY <1>1, <1>3, <1>6, <1>7, <1>11
  <2>2. /\ OpAt(p)' = OpIn(finish', fetched, asked, txReq', p)
        /\ KindAt(p)' = KindIn(finish', fetched, p)
    BY <1>1 DEF OpAt, KindAt
  <2>3. p > Len(finish') + Len(fetched)
    BY <2>1
  <2>4. OpAt(p)' = txReq'.op /\ KindAt(p)' = "open"
    BY <2>1, <2>2, <2>3, PartOpen, PartRequest
  <2> QED
    BY <1>5, <1>11, <2>4
<1>12. ASSUME Returns
       PROVE  /\ pipe'[0].index = OpAt(1) /\ pipe'[0].queue = Owner(1) /\ KindAt(1) # "open"
              /\ pipe'[0].filled <=> KindAt(1) = "full" \/ table[OpAt(1)].doorbell
  <2>1. 1 <= Len(finish) /\ Head(finish) = finish[1]
    BY <1>1, <1>3, <1>12
  <2>2. OpAt(1) = finish[1].op /\ KindAt(1) = KindOf(finish[1])
    BY <2>1, PlaceFinish
  <2>3. (KindAt(1) = "full" <=> finish[1].filled) /\ KindAt(1) # "open"
    BY <2>2 DEF KindOf
  <2> QED
    BY <1>2, <1>12, <2>1, <2>2, <2>3 DEF Owner
<1> QED
  BY <1>9, <1>10, <1>11, <1>12 DEF h

\* What a clock edge leaves of a request in the line.
LEMMA TickPlace ==
    ASSUME Shape, OpsPlaced, Tick, NEW g \in {0, 1}, g = 1 <=> Returns, NEW k \in Line
    PROVE  /\ table'[OpAt(k)].queue = Owner(k)
           /\ table[OpAt(k)].doorbell => table'[OpAt(k)].doorbell
           /\ cur.op = "doorbell" /\ OpAt(k) = tail0 /\ Owner(k) = q0 => table'[OpAt(k)].doorbell
           /\ k > g =>
                 \E p \in Line' :
                    /\ p = k - g /\ OpAt(p)' = OpAt(k) /\ KindAt(p)' = KindAt(k)
                    /\ Owner(p)' = Owner(k) /\ \A q : Tells(k, q) => Tells(p, q)'
<1>1. OpAt(k) \in Ops /\ table[OpAt(k)].active /\ ~InPipeline(OpAt(k))
  BY LineEntry
<1>2. ~(Ends /\ OpAt(k) = cur.index)
  <2>1. Ends => InPipeline(cur.index)
    BY StageFacts DEF Ends, InPipeline, cur
  <2> QED
    BY <1>1, <2>1
<1>3. /\ table'[OpAt(k)].queue = Owner(k)
      /\ table[OpAt(k)].doorbell => table'[OpAt(k)].doorbell
      /\ cur.op = "doorbell" /\ OpAt(k) = tail0 /\ Owner(k) = q0 => table'[OpAt(k)].doorbell
  BY <1>1, <1>2, TickEntry DEF Owner
<1>4. ASSUME k > g
      PROVE  \E p \in Line' :
                /\ p = k - g /\ OpAt(p)' = OpAt(k) /\ KindAt(p)' = KindAt(k)
                /\ Owner(p)' = Owner(k) /\ \A q : Tells(k, q) => Tells(p, q)'
  <2>1. /\ Length \in Nat /\ g <= Length
        /\ Length' = Length - g + IF Goes THEN 1 ELSE 0
    BY LineIs, TickLine
  <2>2. PICK p : p = k - g
    OBVIOUS
  <2>3. p \in 1..Length - g /\ p + g = k /\ p \in 1..Length'
    BY <1>4, <2>1, <2>2 DEF Line
  <2>4. /\ \A j \in 1..Length - g : \A m : m = j + g => OpAt(j)' = OpAt(m) /\ KindAt(j)' = KindAt(m)
        /\ p \in Line'
    BY <2>3, TickLine DEF Line
  <2>5. OpAt(p)' = OpAt(k) /\ KindAt(p)' = KindAt(k)
    BY <2>3, <2>4
  <2>6. Owner(p)' = Owner(k)
    BY <1>3, <2>5 DEF Owner
  <2>7. ASSUME NEW q, Tells(k, q) PROVE Tells(p, q)'
    BY <1>3, <2>5, <2>6, <2>7 DEF Tells
  <2> QED
    BY <2>2, <2>4, <2>5, <2>6, <2>7
<1> QED
  BY <1>3, <1>4

LEMMA TickOwned ==
    ASSUME Shape, OpsPlaced, Owned, Tick
    PROVE  Owned'
<1>1. ASSUME NEW i \in Ops, table[i].active, ~(Ends /\ i = cur.index)
      PROVE  table'[i].queue = table[i].queue
  BY <1>1, TickEntry
<1>2. ASSUME NEW i \in Ops, Ends, i = cur.index
      PROVE  InPipeline(i)
  BY <1>2, StageFacts DEF Ends, InPipeline, cur
<1>3. \A i \in Ops : /\ AtOutput(i) \/ Holds(asked, i) => table[i].active /\ ~InPipeline(i)
                     /\ InPipeline(i) => table[i].active
  BY DEF OpsPlaced, Placed
<1>4. ASSUME NEW j \in DOMAIN asked' PROVE table'[asked'[j].op].queue = asked'[j].queue
  <2>1. asked' = asked /\ asked[j] \in Requests
    BY <1>4 DEF Tick, engine, Shape, FifoShape
  <2>2. asked[j].op \in Ops /\ Holds(asked, asked[j].op) /\ table[asked[j].op].queue = asked[j].queue
    BY <1>4, <2>1 DEF Holds, Owned, Requests
  <2> QED
    BY <1>1, <1>2, <1>3, <2>1, <2>2
<1>5. ASSUME NEW j \in Stages, pipe[j].op \in {"req", "complete"}, ~(Ends /\ j = Last)
      PROVE  table'[pipe[j].index].queue = pipe[j].queue
  <2>1. pipe[j].index \in Ops /\ InPipeline(pipe[j].index)
    BY <1>5 DEF Shape, PipeShape, InPipeline
  <2>2. Ends => pipe[j].index # cur.index
    BY <1>5, StageFacts DEF OpsPlaced, OncePiped, Ends, cur
  <2> QED
    BY <1>1, <1>3, <1>5, <2>1, <2>2 DEF Owned
<1>6. ASSUME txReq' # None PROVE table'[txReq'.op].queue = txReq'.queue
  <2>1. txReq' = IF Goes THEN [queue |-> q0, op |-> cur.index] ELSE txReq
    BY TickTable
  <2>2. CASE Goes
    <3>1. ~Ends /\ cur.op = "req"
      BY <2>2 DEF Goes, Ends
    <3> QED
      BY <1>5, <2>1, <2>2, <3>1, StageFacts DEF cur, q0
  <2>3. CASE ~Goes
    <3>1. txReq' = txReq /\ txReq \in Requests
      BY <1>6, <2>1, <2>3 DEF Shape, FifoShape
    <3>2. txReq.op \in Ops /\ AtOutput(txReq.op) /\ table[txReq.op].queue = txReq.queue
      BY <1>6, <3>1 DEF Requests, AtOutput, Owned
    <3> QED
      BY <1>1, <1>2, <1>3, <3>1, <3>2
  <2> QED
    BY <2>2, <2>3
<1>7. ASSUME NEW j \in Stages, pipe'[j].op \in {"req", "complete"}
      PROVE  table'[pipe'[j].index].queue = pipe'[j].queue
  <2>1. CASE j # 0
    <3>1. PICK e : Shift(e)
      BY Enters
    <3>2. j - 1 \in Stages /\ j - 1 # Last /\ pipe'[j] = pipe[j - 1]
      BY <2>1, <3>1, StageFacts DEF Shift
    <3> QED
      BY <1>5, <1>7, <3>2
  <2>2. CASE j = 0 /\ pipe'[j].op = "req"
    BY <2>2, TickTaken DEF Entering
  <2>3. CASE j = 0 /\ pipe'[j].op = "complete"
    <3>1. PICK g \in {0, 1} : g = 1
      OBVIOUS
    <3>2. g = 1 <=> Returns
      BY <2>3, <3>1 DEF Returns
    <3>3. 1 \in Line /\ pipe'[0].index = OpAt(1) /\ pipe'[0].queue = Owner(1)
      BY <3>1, <3>2, TickLine, LineIs DEF Line
    <3>4. table'[OpAt(1)].queue = Owner(1)
      BY <3>2, <3>3, TickPlace
    <3> QED
      BY <2>3, <3>3, <3>4
  <2> QED
    BY <1>7, <2>1, <2>2, <2>3
<1> QED
  BY <1>4, <1>6, <1>7 DEF Owned

\* Every clock edge keeps what is told.
LEMMA TickTold ==
    ASSUME Inv, OpsPlaced, Told, Tick
    PROVE  Told'
<1>1. /\ Shape /\ OneOpPerQueue /\ Coherent /\ Owned /\ Enrolled /\ TailLast /\ FollowedInLine
      /\ FollowedInPipe /\ Remembered
  BY DEF Inv, Told, Followed
<1>0. PICK g \in {0, 1} : g = 1 <=> Returns
  OBVIOUS
<1>2. /\ Length \in Nat /\ g <= Length
      /\ Length' = Length - g + IF Goes THEN 1 ELSE 0
  BY <1>0, <1>1, LineIs, TickLine
<1>3. Owned'
  BY <1>1, TickOwned
<1>4. \A q \in Queues :
         /\ ram'[q].tail = IF Goes /\ q = q0 THEN cur.index ELSE ram[q].tail
         /\ cur.op = "doorbell" /\ q = q0 => ram'[q].active
         /\ cur.op = "complete" /\ q = q0 => (ram'[q].active <=> cur.filled)
         /\ ~(cur.op \in {"doorbell", "complete"} /\ q = q0) => (ram'[q].active <=> ram[q].active)
         /\ ram'[q].enabled /\ ram'[q].active => ram'[q].scheduled
  BY <1>1, TickWord
<1>5. Enrolled'
  BY <1>4 DEF Enrolled
<1>6. PICK e : Shift(e) /\ Fresh(e)
  BY <1>1, Enters
<1>7. /\ pipe'[0] = e
      /\ \A j \in Stages : j # 0 => pipe'[j] = pipe[j - 1] /\ j - 1 \in Stages /\ j - 1 # Last
      /\ \A j \in Stages : j # Last => pipe'[j + 1] = pipe[j] /\ j + 1 \in Stages
  <2>1. \A j \in Stages : j # Last => j + 1 \in Stages /\ j + 1 # 0 /\ (j + 1) - 1 = j
    BY StageFacts
  <2> QED
    BY <1>6, <2>1, StageFacts DEF Shift
<1>8. ASSUME NEW q \in Queues, Waits(q)'
      PROVE  Waits(q) \/ (cur.op = "doorbell" /\ q0 = q /\ backlog[q] > 0)
  <2>1. backlog' = backlog
    BY DEF Tick
  <2> QED
    BY <1>1, <1>8, <2>1, TickBell DEF Waits, q0
\* A request that returns finds no operation of its queue in the pipeline.
<1>9. ASSUME Returns
      PROVE  /\ 1 \in Line /\ Owner(1) \in Queues /\ e.queue = Owner(1) /\ KindAt(1) # "open"
             /\ e.filled <=> KindAt(1) = "full" \/ table[OpAt(1)].doorbell
             /\ e.op = "complete" /\ \A j \in Stages : pipe[j].op # "none" => pipe[j].queue # Owner(1)
  <2>1. 1 \in Line
    BY <1>0, <1>2, <1>9 DEF Line
  <2>2. /\ e.queue = Owner(1) /\ KindAt(1) # "open" /\ e.op = "complete"
        /\ e.filled <=> KindAt(1) = "full" \/ table[OpAt(1)].doorbell
    BY <1>0, <1>1, <1>7, <1>9, TickLine DEF Returns
  <2>3. Owner(1) \in Queues /\ \A j \in Stages : pipe[j].op # "none" => pipe[j].queue # Owner(1)
    BY <1>6, <2>2 DEF Fresh, Hazard
  <2> QED
    BY <2>1, <2>2, <2>3
\* The others stay in the line.
<1>10. ASSUME NEW k \in Line, ~(Returns /\ k = 1)
       PROVE  \E p \in Line' :
                 /\ p = k - g /\ OpAt(p)' = OpAt(k) /\ KindAt(p)' = KindAt(k)
                 /\ Owner(p)' = Owner(k) /\ \A q : Tells(k, q) => Tells(p, q)'
  <2>1. k > g
    BY <1>0, <1>2, <1>10 DEF Line
  <2> QED
    BY <1>0, <1>1, <2>1, TickPlace
<1>11. ASSUME NEW p \in Line'
       PROVE  \/ Goes /\ p = Length'
              \/ \E k \in Line : /\ k = p + g /\ ~(Returns /\ k = 1)
                                 /\ OpAt(p)' = OpAt(k) /\ KindAt(p)' = KindAt(k)
                                 /\ Owner(p)' = Owner(k) /\ Owner(k) \in Queues
  <2>1. CASE Goes /\ p = Length'
    BY <2>1
  <2>2. CASE ~(Goes /\ p = Length')
    <3>1. PICK k : k = p + g
      OBVIOUS
    <3>2. k \in Line /\ ~(Returns /\ k = 1) /\ p = k - g
      BY <1>0, <1>2, <1>11, <2>2, <3>1 DEF Line
    <3>3. Owner(k) \in Queues
      BY <1>1, <3>2, LineEntry
    <3> QED
      BY <1>10, <3>1, <3>2, <3>3
  <2> QED
    BY <2>1, <2>2
<1>12. TailLast'
  <2> SUFFICES ASSUME NEW p \in Line', KindAt(p)' # "full", NEW q, q = Owner(p)'
               PROVE  \E r \in Line' : r >= p /\ OpAt(r)' = ram'[q].tail /\ Owner(r)' = q
    BY DEF TailLast
  <2>1. ASSUME Goes
        PROVE  \E r \in Line' : /\ r = Length' /\ q0 \in Queues /\ ram'[q0].tail = cur.index
                                /\ OpAt(r)' = cur.index /\ Owner(r)' = q0
    <3>1. PICK r : r = Length'
      OBVIOUS
    <3>2. r \in Line'
      BY <1>0, <1>2, <2>1, <3>1 DEF Line
    <3>3. cur.op = "req" /\ q0 \in Queues /\ cur.index \in Ops
      BY <1>1, <2>1, StageFacts DEF Goes, Shape, PipeShape, cur, q0
    <3>4. OpAt(r)' = cur.index
      BY <1>0, <1>1, <2>1, <3>1, TickLine
    <3>5. table'[cur.index].queue = q0
      <4>1. txReq' = [queue |-> q0, op |-> cur.index]
        BY <1>1, <2>1, TickTable
      <4>2. txReq' # None
        BY <3>3, <4>1, NoneAssumption DEF Requests
      <4> QED
        BY <1>3, <4>1, <4>2 DEF Owned
    <3>6. Owner(r)' = q0
      BY <3>4, <3>5 DEF Owner
    <3> QED
      BY <1>4, <2>1, <3>1, <3>2, <3>3, <3>4, <3>6
  <2>2. CASE Goes /\ p = Length'
    <3>1. PICK r \in Line' : /\ r = Length' /\ ram'[q0].tail = cur.index
                             /\ OpAt(r)' = cur.index /\ Owner(r)' = q0
      BY <2>1, <2>2
    <3>2. r = p /\ r >= p
      BY <1>0, <1>2, <2>2, <3>1 DEF Line
    <3> QED
      BY <3>1, <3>2
  <2>3. CASE ~(Goes /\ p = Length')
    <3>1. PICK k \in Line : /\ k = p + g /\ ~(Returns /\ k = 1) /\ KindAt(p)' = KindAt(k)
                            /\ q = Owner(k) /\ q \in Queues
      BY <1>11, <2>3
    <3>2. PICK r \in Line : r >= k /\ OpAt(r) = ram[q].tail /\ Owner(r) = q
      BY <1>1, <3>1 DEF TailLast
    <3>3. CASE Goes /\ q = q0
      <4>1. Length' >= p
        BY <1>0, <1>2 DEF Line
      <4> QED
        BY <2>1, <3>3, <4>1
    <3>4. CASE ~(Goes /\ q = q0)
      <4>1. ram'[q].tail = ram[q].tail
        BY <1>4, <3>1, <3>4
      <4>2. ~(Returns /\ r = 1) /\ r - g >= p
        BY <1>0, <1>2, <3>1, <3>2 DEF Line
      <4> QED
        BY <1>10, <3>2, <4>1, <4>2
    <3> QED
      BY <3>3, <3>4
  <2> QED
    BY <2>2, <2>3
<1>13. FollowedInLine'
  <2> SUFFICES ASSUME NEW p \in Line', KindAt(p)' = "empty", ~table'[OpAt(p)'].doorbell,
                      NEW q, q = Owner(p)', Waits(q)'
               PROVE  \E r \in Line' : r > p /\ Tells(r, q)'
    BY DEF FollowedInLine, Waits, Bell, Tells
  <2>1. ~(Goes /\ p = Length')
    BY <1>0, <1>1, TickLine
  <2>2. PICK k \in Line : /\ k = p + g /\ ~(Returns /\ k = 1) /\ OpAt(p)' = OpAt(k)
                          /\ KindAt(k) = "empty" /\ q = Owner(k) /\ q \in Queues
    BY <1>11, <2>1
  <2>3. ~table'[OpAt(k)].doorbell /\ ~table[OpAt(k)].doorbell
    BY <1>0, <1>1, <2>2, TickPlace
  <2>4. ASSUME NEW r \in Line, r > k
        PROVE  \E s \in Line' : /\ s > p /\ OpAt(s)' = OpAt(r) /\ Owner(s)' = Owner(r)
                                /\ \A w : Tells(r, w) => Tells(s, w)'
    <3>1. ~(Returns /\ r = 1) /\ r - g > p
      BY <1>0, <1>2, <2>2, <2>4 DEF Line
    <3> QED
      BY <1>10, <3>1
  <2>5. CASE Waits(q)
    <3>1. PICK r \in Line : r > k /\ Tells(r, q)
      BY <1>1, <2>2, <2>3, <2>5 DEF FollowedInLine
    <3> QED
      BY <2>4, <3>1
  <2>6. CASE cur.op = "doorbell" /\ q0 = q
    <3>1. PICK r \in Line : r >= k /\ OpAt(r) = ram[q].tail /\ Owner(r) = q
      BY <1>1, <2>2 DEF TailLast
    <3>2. tail0 = ram[q].tail
      BY <1>1, <2>6, StageFacts DEF Coherent, tail0, q0, cur
    <3>3. table'[OpAt(r)].doorbell
      BY <1>0, <1>1, <2>6, <3>1, <3>2, TickPlace
    <3>4. r > k
      BY <1>2, <2>3, <3>1, <3>3 DEF Line
    <3>5. PICK s \in Line' : s > p /\ OpAt(s)' = OpAt(r) /\ Owner(s)' = q
      BY <2>4, <3>1, <3>4
    <3>6. Tells(s, q)'
      BY <3>3, <3>5 DEF Tells
    <3> QED
      BY <3>5, <3>6
  <2> QED
    BY <1>8, <2>2, <2>5, <2>6
<1>14. FollowedInPipe'
  <2> SUFFICES ASSUME NEW j \in Stages, pipe'[j].op = "complete", ~pipe'[j].filled,
                      NEW q, q = pipe'[j].queue, Waits(q)'
               PROVE  \E r \in Line' : Tells(r, q)'
    BY DEF FollowedInPipe, Waits, Bell, Tells
  <2>1. CASE j = 0
    <3>1. Returns /\ pipe'[j] = e
      BY <1>7, <2>1 DEF Returns
    <3>2. /\ KindAt(1) \notin {"full", "open"} /\ ~table[OpAt(1)].doorbell
          /\ q = Owner(1) /\ q \in Queues /\ 1 \in Line
      BY <1>9, <3>1
    <3>3. KindAt(1) = "empty"
      BY <3>2 DEF KindAt, KindIn, KindOf
    <3>4. ~(cur.op = "doorbell" /\ q0 = q)
      BY <1>9, <3>1, <3>2, StageFacts DEF cur, q0
    <3>5. Waits(q)
      BY <1>8, <3>2, <3>4
    <3>6. PICK r \in Line : r > 1 /\ Tells(r, q)
      BY <1>1, <3>2, <3>3, <3>5 DEF FollowedInLine
    <3>7. r # 1
      BY <3>6
    <3> QED
      BY <1>10, <3>6, <3>7
  <2>2. CASE j # 0
    <3>1. pipe'[j] = pipe[j - 1] /\ j - 1 \in Stages /\ j - 1 # Last
      BY <1>7, <2>2
    <3>2. q = pipe[j - 1].queue /\ q \in Queues
      BY <1>1, <3>1 DEF Shape, PipeShape
    <3>3. ~(cur.op = "doorbell" /\ q0 = q)
      BY <1>1, <3>1, <3>2, StageFacts DEF OneOpPerQueue, cur, q0
    <3>4. Waits(q)
      BY <1>8, <3>2, <3>3
    <3>5. PICK r \in Line : Tells(r, q)
      BY <1>1, <3>1, <3>2, <3>4 DEF FollowedInPipe
    <3>6. ~(Returns /\ r = 1)
      BY <1>9, <3>1, <3>2, <3>5 DEF Tells
    <3> QED
      BY <1>10, <3>5, <3>6
  <2> QED
    BY <2>1, <2>2
<1>15. Remembered'
  <2> SUFFICES ASSUME NEW q \in Queues, Waits(q)'
               PROVE  \/ ram'[q].active
                      \/ \E j \in Stages : pipe'[j].op = "complete" /\ pipe'[j].queue = q /\ pipe'[j].filled
                      \/ \E r \in Line' : Tells(r, q)'
    BY DEF Remembered
  <2>1. CASE cur.op = "doorbell" /\ q0 = q
    BY <1>4, <2>1
  <2>2. CASE Waits(q) /\ cur.op = "complete" /\ q0 = q
    <3>1. CASE cur.filled
      BY <1>4, <2>2, <3>1
    <3>2. CASE ~cur.filled
      <4>1. PICK r \in Line : Tells(r, q)
        BY <1>1, <2>2, <3>2, StageFacts DEF FollowedInPipe, cur, q0
      <4>2. ~(Returns /\ r = 1)
        BY <1>9, <2>2, <4>1, StageFacts DEF Tells, cur, q0
      <4> QED
        BY <1>10, <4>1, <4>2
    <3> QED
      BY <3>1, <3>2
  <2>3. CASE Waits(q) /\ ~(cur.op \in {"doorbell", "complete"} /\ q0 = q)
    <3>1. ram'[q].active <=> ram[q].active
      BY <1>4, <2>3
    <3>2. CASE ram[q].active
      BY <3>1, <3>2
    <3>3. CASE \E j \in Stages : pipe[j].op = "complete" /\ pipe[j].queue = q /\ pipe[j].filled
      <4>1. PICK j \in Stages : pipe[j].op = "complete" /\ pipe[j].queue = q /\ pipe[j].filled
        BY <3>3
      <4>2. j # Last
        BY <2>3, <4>1 DEF cur, q0
      <4> QED
        BY <1>7, <4>1, <4>2
    <3>4. CASE \E r \in Line : Tells(r, q)
      <4>1. PICK r \in Line : Tells(r, q)
        BY <3>4
      <4>2. CASE Returns /\ r = 1
        <5>1. e.op = "complete" /\ e.queue = q /\ KindAt(1) # "open"
          BY <1>9, <4>1, <4>2 DEF Tells
        <5>2. KindAt(1) = "full" \/ table[OpAt(1)].doorbell
          BY <4>1, <4>2, <5>1 DEF Tells, KindAt, KindIn, KindOf
        <5>3. e.filled
          BY <1>9, <4>2, <5>2
        <5> QED
          BY <1>7, <5>1, <5>3, StageFacts
      <4>3. CASE ~(Returns /\ r = 1)
        BY <1>10, <4>1, <4>3
      <4> QED
        BY <4>2, <4>3
    <3> QED
      BY <1>1, <2>3, <3>2, <3>3, <3>4 DEF Remembered
  <2> QED
    BY <1>8, <2>1, <2>2, <2>3
<1> QED
  BY <1>3, <1>5, <1>12, <1>13, <1>14, <1>15 DEF Told, Followed

\* A step that leaves the scheduler alone and moves the places of the line by m keeps the
\* rest, if no request that got no packet is overtaken by the later ones, and none that finds
\* its ring empty leaves descriptors waiting.
LEMMA LineMoves ==
    ASSUME Shape, OpsPlaced, Followed, ram' = ram, table' = table, pipe' = pipe, NEW m,
           \A k \in Line : \E p \in Line' :
               /\ p = m[k] /\ OpAt(p)' = OpAt(k)
               /\ KindAt(p)' # "full" => KindAt(k) # "full"
               /\ KindAt(p)' = "empty" => KindAt(k) = "empty" \/ \A q : q = Owner(k) => ~Waits(q)',
           \A p \in Line' : \E k \in Line : p = m[k],
           \A k, r \in Line : KindAt(k) # "full" /\ r > k => m[r] > m[k],
           \A q \in Queues : Waits(q)' => Waits(q)
    PROVE  Followed'
<1>1. TailLast /\ FollowedInLine /\ FollowedInPipe /\ Remembered /\ Length \in Nat
  BY LineIs DEF Followed
<1>2. ASSUME NEW k \in Line, NEW p \in Line', p = m[k]
      PROVE  /\ OpAt(p)' = OpAt(k) /\ Owner(p)' = Owner(k) /\ Owner(k) \in Queues
             /\ KindAt(p)' # "full" => KindAt(k) # "full"
             /\ KindAt(p)' = "empty" =>
                   KindAt(k) = "empty" \/ \A q : q = Owner(k) => ~Waits(q)'
             /\ table'[OpAt(p)'].doorbell = table[OpAt(k)].doorbell
  BY <1>2, LineEntry DEF Owner
<1>3. ASSUME NEW r \in Line, NEW q, Waits(q)', Tells(r, q)
      PROVE  \E s \in Line' : s = m[r] /\ Tells(s, q)'
  <2>1. PICK s \in Line' : s = m[r]
    OBVIOUS
  <2> QED
    BY <1>2, <1>3, <2>1 DEF Tells
<1>4. TailLast'
  <2> SUFFICES ASSUME NEW p \in Line', KindAt(p)' # "full", NEW q, q = Owner(p)'
               PROVE  \E r \in Line' : r >= p /\ OpAt(r)' = ram'[q].tail /\ Owner(r)' = q
    BY DEF TailLast
  <2>1. PICK k \in Line : p = m[k]
    OBVIOUS
  <2>2. KindAt(k) # "full" /\ q = Owner(k)
    BY <1>2, <2>1
  <2>3. PICK r \in Line : r >= k /\ OpAt(r) = ram[q].tail /\ Owner(r) = q
    BY <1>1, <2>2 DEF TailLast
  <2>4. PICK s \in Line' : s = m[r]
    OBVIOUS
  <2>5. r = k \/ r > k
    BY <1>1, <2>3 DEF Line
  <2>6. s >= p
    <3>1. s \in Int /\ p \in Int
      BY DEF Line
    <3> QED
      BY <2>1, <2>2, <2>4, <2>5, <3>1
  <2> QED
    BY <1>2, <2>3, <2>4, <2>6
<1>5. FollowedInLine'
  <2> SUFFICES ASSUME NEW p \in Line', KindAt(p)' = "empty", ~table'[OpAt(p)'].doorbell,
                      NEW q, q = Owner(p)', Waits(q)'
               PROVE  \E r \in Line' : r > p /\ Tells(r, q)'
    BY DEF FollowedInLine, Waits, Bell, Tells
  <2>1. PICK k \in Line : p = m[k]
    OBVIOUS
  <2>2. KindAt(k) = "empty" /\ ~table[OpAt(k)].doorbell /\ q = Owner(k) /\ Waits(q)
    BY <1>2, <2>1
  <2>3. PICK r \in Line : r > k /\ Tells(r, q)
    BY <1>1, <2>2 DEF FollowedInLine
  <2>4. m[r] > m[k]
    BY <2>2, <2>3
  <2> QED
    BY <1>3, <2>1, <2>3, <2>4
<1>6. FollowedInPipe'
  <2> SUFFICES ASSUME NEW j \in Stages, pipe[j].op = "complete", ~pipe[j].filled,
                      NEW q, q = pipe[j].queue, Waits(q)'
               PROVE  \E r \in Line' : Tells(r, q)'
    BY DEF FollowedInPipe, Waits, Bell, Tells
  <2>1. q \in Queues
    BY DEF Shape, PipeShape
  <2>2. PICK r \in Line : Tells(r, q)
    BY <1>1, <2>1 DEF FollowedInPipe
  <2> QED
    BY <1>3, <2>2
<1>7. Remembered'
  <2> SUFFICES ASSUME NEW q \in Queues, Waits(q)'
               PROVE  \/ ram[q].active
                      \/ \E j \in Stages : pipe[j].op = "complete" /\ pipe[j].queue = q /\ pipe[j].filled
                      \/ \E r \in Line' : Tells(r, q)'
    BY DEF Remembered
  <2>1. CASE \E r \in Line : Tells(r, q)
    BY <1>3, <2>1
  <2> QED
    BY <1>1, <2>1 DEF Remembered
<1> QED
  BY <1>4, <1>5, <1>6, <1>7 DEF Followed

\* The places stay what they are.
LEMMA LineStays ==
    ASSUME Shape, OpsPlaced, Followed, ram' = ram, table' = table, pipe' = pipe,
           Length' = Length,
           \A p \in Line :
               /\ OpAt(p)' = OpAt(p)
               /\ KindAt(p)' # "full" => KindAt(p) # "full"
               /\ KindAt(p)' = "empty" => KindAt(p) = "empty" \/ \A q : q = Owner(p) => ~Waits(q)',
           \A q \in Queues : Waits(q)' => Waits(q)
    PROVE  Followed'
<1>1. PICK m : m = [k \in Line |-> k]
  OBVIOUS
<1>2. Line' = Line /\ \A k \in Line : m[k] = k
  BY <1>1 DEF Line
<1>3. \A k \in Line : \E p \in Line' :
          /\ p = m[k] /\ OpAt(p)' = OpAt(k)
          /\ KindAt(p)' # "full" => KindAt(k) # "full"
          /\ KindAt(p)' = "empty" => KindAt(k) = "empty" \/ \A q : q = Owner(k) => ~Waits(q)'
  BY <1>2
<1>4. /\ \A p \in Line' : \E k \in Line : p = m[k]
      /\ \A k, r \in Line : KindAt(k) # "full" /\ r > k => m[r] > m[k]
  BY <1>2
<1> QED
  BY <1>3, <1>4, LineMoves

\* A request that is taken from the output keeps its place.
LEMMA AcceptFollowed ==
    ASSUME Shape, OpsPlaced, Followed, Accept
    PROVE  Followed'
<1>1. /\ ram' = ram /\ table' = table /\ pipe' = pipe /\ fetched' = fetched /\ finish' = finish
      /\ txReq # None /\ txReq' = None /\ asked' = Append(asked, txReq)
      /\ UNCHANGED <<ringing, doorbells, backlog>>
  BY DEF Accept, scheduler
<1>2. /\ asked \in Seq(Requests) /\ txReq \in Requests
      /\ Len(finish) \in Nat /\ Len(fetched) \in Nat /\ Len(asked) \in Nat
  BY <1>1, LineIs DEF Shape, FifoShape
<1>3. /\ Len(asked') = Len(asked) + 1 /\ asked'[Len(asked) + 1] = txReq
      /\ \A j \in 1..Len(asked) : asked'[j] = asked[j]
  BY <1>1, <1>2
<1>4. Length' = Length /\ Length = Len(finish) + Len(fetched) + Len(asked) + 1
  BY <1>1, <1>2, <1>3 DEF Length
<1>5. ASSUME NEW p \in Line
      PROVE  OpAt(p)' = OpAt(p) /\ KindAt(p)' = KindAt(p)
  <2>1. /\ p \in Nat /\ p <= Length
        /\ Len(finish) \in Nat /\ Len(fetched) \in Nat /\ Len(asked) \in Nat
    BY <1>2, <1>4 DEF Line
  <2>2. KindAt(p)' = KindAt(p) /\ OpAt(p)' = OpIn(finish, fetched, asked', txReq', p)
    BY <1>1 DEF KindAt, OpAt
  <2>3. CASE p <= Len(finish) + Len(fetched)
    <3>1. CASE p <= Len(finish)
      BY <2>1, <2>2, <3>1, PartFinish, PlaceFinish
    <3>2. CASE p > Len(finish)
      BY <2>1, <2>2, <2>3, <3>2, PartFetched, PlaceFetched
    <3> QED
      BY <2>1, <3>1, <3>2
  <2>4. CASE p > Len(finish) + Len(fetched) /\ p <= Len(finish) + Len(fetched) + Len(asked)
    <3>1. PICK j : j = p - Len(finish) - Len(fetched)
      OBVIOUS
    <3>1a. /\ j \in 1..Len(asked) /\ Len(asked') \in Nat
           /\ p <= Len(finish) + Len(fetched) + Len(asked')
      BY <1>3, <2>1, <2>4, <3>1
    <3>2. OpAt(p)' = asked'[j].op
      BY <2>1, <2>2, <2>4, <3>1, <3>1a, PartAsked
    <3>3. OpAt(p) = asked[j].op
      BY <2>1, <2>4, <3>1, PlaceAsked
    <3> QED
      BY <1>3, <2>2, <3>1a, <3>2, <3>3
  <2>5. CASE p > Len(finish) + Len(fetched) + Len(asked)
    <3>1. /\ p - Len(finish) - Len(fetched) = Len(asked) + 1
          /\ p > Len(finish) + Len(fetched) /\ p <= Len(finish) + Len(fetched) + Len(asked')
          /\ Len(asked') \in Nat
      BY <1>3, <1>4, <2>1, <2>5
    <3>2. OpAt(p)' = asked'[Len(asked) + 1].op
      BY <2>1, <2>2, <3>1, PartAsked
    <3>3. OpAt(p) = txReq.op
      BY <2>1, <2>5, PlaceRequest
    <3> QED
      BY <1>3, <2>2, <3>2, <3>3
  <2> QED
    BY <2>1, <2>3, <2>4, <2>5
<1>6. \A q \in Queues : Waits(q)' => Waits(q)
  BY <1>1 DEF Waits, Bell
<1> QED
  BY <1>1, <1>4, <1>5, <1>6, LineStays

\* A request whose ring is looked at keeps its place; that of an empty ring leaves nothing
\* waiting.
LEMMA DequeueFollowed ==
    ASSUME Shape, OpsPlaced, Owned, Followed, Dequeue
    PROVE  Followed'
<1>0. PICK w : w = Head(asked).queue
  OBVIOUS
<1> DEFINE a == [op |-> Head(asked).op, filled |-> backlog[w] > 0]
<1>1. /\ ram' = ram /\ table' = table /\ pipe' = pipe /\ finish' = finish /\ txReq' = txReq
      /\ asked # <<>> /\ asked' = Tail(asked) /\ fetched' = Append(fetched, a)
      /\ backlog' = [backlog EXCEPT ![w] = IF @ > 0 THEN @ - 1 ELSE 0]
      /\ UNCHANGED <<ringing, doorbells>>
  BY <1>0 DEF Dequeue, scheduler
<1>2. /\ asked \in Seq(Requests) /\ fetched \in Seq(Answers)
      /\ Len(finish) \in Nat /\ Len(fetched) \in Nat /\ Len(asked) \in Nat
  BY LineIs DEF Shape, FifoShape
<1>3. /\ Len(asked) >= 1 /\ Head(asked) = asked[1] /\ 1 \in DOMAIN asked
      /\ Len(asked') = Len(asked) - 1
      /\ \A j \in 1..Len(asked) - 1 : asked'[j] = asked[j + 1]
  BY <1>1, <1>2
<1>4. asked[1] \in Requests /\ w \in Queues /\ a \in Answers
  <2>1. asked[1] \in Requests
    BY <1>2, <1>3
  <2>2. asked[1].op \in Ops /\ asked[1].queue \in Queues
    BY <2>1 DEF Requests
  <2>3. (backlog[w] > 0) \in BOOLEAN
    OBVIOUS
  <2>4. a \in Answers
    BY <1>3, <2>2, <2>3 DEF Answers
  <2> QED
    BY <1>0, <1>3, <2>1, <2>2, <2>4
<1>5. a.op = asked[1].op /\ (a.filled <=> backlog[w] > 0)
  BY <1>3
<1> HIDE DEF a
<1>6. /\ Len(fetched') = Len(fetched) + 1 /\ fetched'[Len(fetched) + 1] = a
      /\ \A j \in 1..Len(fetched) : fetched'[j] = fetched[j]
  BY <1>1, <1>2, <1>4
<1> DEFINE n == IF txReq = None THEN 0 ELSE 1
<1>7. /\ n \in {0, 1} /\ Length = Len(finish) + Len(fetched) + Len(asked) + n
      /\ Length' = Len(finish) + Len(fetched') + Len(asked') + n
  BY <1>1 DEF Length
<1> HIDE DEF n
<1>8. Length' = Length /\ Length \in Nat
  BY <1>2, <1>3, <1>6, <1>7
<1>9. ~a.filled => ~Waits(w)'
  BY <1>1, <1>4, <1>5 DEF Waits
<1>10. ASSUME NEW p \in Line
       PROVE  /\ OpAt(p)' = OpAt(p)
              /\ KindAt(p)' # "full" => KindAt(p) # "full"
              /\ KindAt(p)' = "empty" => KindAt(p) = "empty" \/ \A q : q = Owner(p) => ~Waits(q)'
  <2>1. /\ p \in Nat /\ p <= Length
        /\ Len(finish) \in Nat /\ Len(fetched) \in Nat /\ Len(asked) \in Nat
        /\ Len(fetched') = Len(fetched) + 1 /\ Len(asked') = Len(asked) - 1 /\ Len(asked) >= 1
        /\ Len(fetched') \in Nat /\ Len(asked') \in Nat
    BY <1>2, <1>3, <1>6, <1>8 DEF Line
  <2>2. /\ KindAt(p)' = KindIn(finish, fetched', p)
        /\ OpAt(p)' = OpIn(finish, fetched', asked', txReq, p)
    BY <1>1 DEF KindAt, OpAt
  <2>3. CASE p <= Len(finish)
    <3>1. OpAt(p)' = finish[p].op /\ KindAt(p)' = KindOf(finish[p])
      BY <2>1, <2>2, <2>3, PartFinish
    <3>2. OpAt(p) = finish[p].op /\ KindAt(p) = KindOf(finish[p])
      BY <2>1, <2>3, PlaceFinish
    <3> QED
      BY <3>1, <3>2
  <2>4. CASE p > Len(finish) /\ p <= Len(finish) + Len(fetched)
    <3>1. PICK j : j = p - Len(finish)
      OBVIOUS
    <3>2. j \in 1..Len(fetched) /\ p <= Len(finish) + Len(fetched')
      BY <2>1, <2>4, <3>1
    <3>3. OpAt(p)' = fetched'[j].op /\ KindAt(p)' = KindOf(fetched'[j])
      BY <2>1, <2>2, <2>4, <3>1, <3>2, PartFetched
    <3>4. OpAt(p) = fetched[j].op /\ KindAt(p) = KindOf(fetched[j])
      BY <2>1, <2>4, <3>1, PlaceFetched
    <3> QED
      BY <1>6, <3>2, <3>3, <3>4
  <2>5. CASE p = Len(finish) + Len(fetched) + 1
    <3>1. /\ p - Len(finish) = Len(fetched) + 1 /\ p - Len(finish) - Len(fetched) = 1
          /\ p > Len(finish) /\ p <= Len(finish) + Len(fetched')
          /\ p > Len(finish) + Len(fetched) /\ p <= Len(finish) + Len(fetched) + Len(asked)
      BY <2>1, <2>5
    <3>2. OpAt(p)' = a.op /\ KindAt(p)' = KindOf(a)
      <4>1. /\ OpAt(p)' = fetched'[p - Len(finish)].op
            /\ KindAt(p)' = KindOf(fetched'[p - Len(finish)])
        BY <2>1, <2>2, <3>1, PartFetched
      <4> QED
        BY <1>6, <3>1, <4>1
    <3>3. OpAt(p) = asked[1].op /\ KindAt(p) = "open"
      BY <2>1, <3>1, PlaceAsked, PlaceOpen
    <3>4. Owner(p) = w
      BY <1>0, <1>3, <3>3 DEF Owner, Owned
    <3>5. KindOf(a) = "empty" => ~a.filled
      BY DEF KindOf
    <3> QED
      BY <1>5, <1>9, <3>2, <3>3, <3>4, <3>5
  <2>6. CASE p > Len(finish) + Len(fetched) + 1
    <3>1. /\ p > Len(finish) + Len(fetched') /\ p > Len(finish) + Len(fetched)
          /\ p - Len(finish) - Len(fetched') = (p - Len(finish) - Len(fetched)) - 1
          /\ Len(finish) + Len(fetched') + Len(asked') = Len(finish) + Len(fetched) + Len(asked)
      BY <2>1, <2>6
    <3>2. KindAt(p)' = "open" /\ KindAt(p) = "open"
      BY <2>1, <2>2, <3>1, PartOpen, PlaceOpen
    <3>3. CASE p <= Len(finish) + Len(fetched) + Len(asked)
      <4>1. PICK j : j = p - Len(finish) - Len(fetched)
        OBVIOUS
      <4>2. j - 1 \in 1..Len(asked) - 1 /\ j = (j - 1) + 1 /\ p - Len(finish) - Len(fetched') = j - 1
        BY <2>1, <2>6, <3>1, <3>3, <4>1
      <4>3. OpAt(p)' = asked'[j - 1].op
        BY <2>1, <2>2, <3>1, <3>3, <4>2, PartAsked
      <4>4. OpAt(p) = asked[j].op
        BY <2>1, <3>1, <3>3, <4>1, PlaceAsked
      <4> QED
        BY <1>3, <3>2, <4>2, <4>3, <4>4
    <3>4. CASE p > Len(finish) + Len(fetched) + Len(asked)
      <4>1. OpAt(p)' = txReq.op
        BY <2>1, <2>2, <3>1, <3>4, PartRequest
      <4>2. OpAt(p) = txReq.op
        BY <2>1, <3>4, PlaceRequest
      <4> QED
        BY <3>2, <4>1, <4>2
    <3> QED
      BY <2>1, <3>3, <3>4
  <2> QED
    BY <2>1, <2>3, <2>4, <2>5, <2>6
<1>11. ASSUME NEW q \in Queues, Waits(q)'
       PROVE  Waits(q)
  <2>1. Bell(q)' <=> Bell(q)
    BY <1>1 DEF Bell
  <2>2. backlog'[q] > 0 => backlog[q] > 0
    BY <1>1, <1>4
  <2> QED
    BY <1>11, <2>1, <2>2 DEF Waits
<1> QED
  BY <1>1, <1>8, <1>10, <1>11, LineStays

\* An answer overtakes the packets before it, and nothing else.
LEMMA AnswerFollowed ==
    ASSUME Shape, OpsPlaced, Followed, NEW j \in DOMAIN fetched, Answer(j),
           \A k \in 1..j - 1 : fetched[k].filled
    PROVE  Followed'
<1>1. /\ ram' = ram /\ table' = table /\ pipe' = pipe /\ asked' = asked /\ txReq' = txReq
      /\ finish' = Append(finish, fetched[j])
      /\ fetched' = SubSeq(fetched, 1, j - 1) \o SubSeq(fetched, j + 1, Len(fetched))
      /\ UNCHANGED <<ringing, doorbells, backlog>>
  BY DEF Answer, scheduler
<1>2. finish \in Seq(Answers) /\ fetched \in Seq(Answers) /\ Len(asked) \in Nat
  BY LineIs DEF Shape, FifoShape
<1>3. PICK n : n = Len(finish)
  OBVIOUS
<1>4. PICK l : l = Len(fetched)
  OBVIOUS
<1>5. /\ n \in Nat /\ l \in Nat /\ j \in 1..l /\ fetched[j] \in Answers
      /\ \A k \in 1..j - 1 : k \in 1..l /\ fetched[k].filled
  BY <1>2, <1>3, <1>4
<1>6. /\ Len(finish') = n + 1 /\ finish'[n + 1] = fetched[j]
      /\ \A k \in 1..n : finish'[k] = finish[k]
  BY <1>1, <1>2, <1>3, <1>5
<1>7. /\ Len(fetched') = l - 1
      /\ \A k \in 1..l - 1 : fetched'[k] = IF k < j THEN fetched[k] ELSE fetched[k + 1]
  BY <1>1, <1>2, <1>4, LeftOut
<1> DEFINE x == IF txReq = None THEN 0 ELSE 1
<1>8. /\ x \in {0, 1} /\ Length = n + l + Len(asked) + x
      /\ Length' = Len(finish') + Len(fetched') + Len(asked) + x
  BY <1>1, <1>3, <1>4 DEF Length
<1> HIDE DEF x
<1>9. Length \in Nat /\ Length' = Length /\ Line' = Line /\ l >= 1 /\ n + l <= Length
  <2>1. Length \in Nat /\ Length' = Length /\ l >= 1 /\ n + l <= Length
    BY <1>2, <1>5, <1>6, <1>7, <1>8
  <2> QED
    BY <2>1 DEF Line
<1>10. PICK m : m = [k \in Line |-> IF k = n + j THEN n + 1
                                    ELSE IF n < k /\ k < n + j THEN k + 1 ELSE k]
  OBVIOUS
<1>11. \A k \in Line : /\ k \in Nat /\ k >= 1 /\ k <= Length
                       /\ k = n + j => m[k] = n + 1
                       /\ n < k /\ k < n + j => m[k] = k + 1
                       /\ k <= n \/ k > n + j => m[k] = k
  BY <1>5, <1>9, <1>10 DEF Line
<1>12. ASSUME NEW k \in Line
       PROVE  \E p \in Line' : p = m[k] /\ OpAt(p)' = OpAt(k) /\ KindAt(p)' = KindAt(k)
  <2>0. PICK p : p = m[k]
    OBVIOUS
  <2>1. /\ KindAt(p)' = KindIn(finish', fetched', p)
        /\ OpAt(p)' = OpIn(finish', fetched', asked, txReq, p)
    BY <1>1 DEF KindAt, OpAt
  <2>2. Len(finish') \in Nat /\ Len(fetched') \in Nat
    BY <1>5, <1>6, <1>7
  <2>2a. /\ k \in Nat /\ Len(finish') = n + 1 /\ Len(fetched') = l - 1
         /\ Len(asked) \in Nat /\ n \in Nat /\ l \in Nat /\ Len(finish) = n /\ Len(fetched) = l
    BY <1>2, <1>3, <1>4, <1>5, <1>6, <1>7, <1>11
  <2>3. CASE k <= n
    <3>1. p = k /\ p \in Nat /\ p <= Len(finish') /\ k \in 1..n /\ p \in Line'
      BY <1>5, <1>6, <1>9, <1>11, <2>0, <2>3
    <3>2. OpAt(p)' = finish'[p].op /\ KindAt(p)' = KindOf(finish'[p])
      BY <2>1, <2>2, <3>1, PartFinish
    <3>3. OpAt(k) = finish[k].op /\ KindAt(k) = KindOf(finish[k])
      BY <2>2a, <2>3, PlaceFinish
    <3> QED
      BY <1>6, <2>0, <3>1, <3>2, <3>3
  <2>4. CASE k = n + j
    <3>1. /\ p = n + 1 /\ p \in Nat /\ p <= Len(finish')
          /\ k > n /\ k <= n + l /\ k - n = j /\ p \in Line'
      BY <1>5, <1>6, <1>9, <1>11, <2>0, <2>4 DEF Line
    <3>2. OpAt(p)' = finish'[p].op /\ KindAt(p)' = KindOf(finish'[p])
      BY <2>1, <2>2, <3>1, PartFinish
    <3>3. OpAt(k) = fetched[j].op /\ KindAt(k) = KindOf(fetched[j])
      BY <2>2a, <3>1, PlaceFetched
    <3> QED
      BY <1>6, <2>0, <3>1, <3>2, <3>3
  <2>5. CASE n < k /\ k < n + j
    <3>0. PICK i : i = k - n
      OBVIOUS
    <3>0a. p = k + 1 /\ k \in Nat /\ p \in Line'
      <4>1. p = k + 1
        BY <1>11, <2>0, <2>5
      <4> QED
        BY <1>5, <1>9, <2>2a, <2>5, <4>1 DEF Line
    <3>1. /\ p = k + 1 /\ p \in Nat /\ p > Len(finish') /\ p <= Len(finish') + Len(fetched')
          /\ k > n /\ k <= n + l /\ i < j /\ i \in 1..l - 1 /\ p - Len(finish') = i /\ p \in Line'
      BY <1>5, <2>2a, <2>5, <3>0, <3>0a
    <3>2. OpAt(p)' = fetched'[i].op /\ KindAt(p)' = KindOf(fetched'[i])
      BY <2>1, <2>2, <3>1, PartFetched
    <3>3. OpAt(k) = fetched[i].op /\ KindAt(k) = KindOf(fetched[i])
      BY <2>2a, <3>0, <3>1, PlaceFetched
    <3> QED
      BY <1>7, <2>0, <3>1, <3>2, <3>3
  <2>6. CASE n + j < k /\ k <= n + l
    <3>0. PICK i : i = k - n
      OBVIOUS
    <3>0a. p = k /\ k \in Nat /\ p \in Line'
      BY <1>5, <1>9, <1>11, <2>0, <2>6
    <3>1. /\ p = k /\ p \in Nat /\ p > Len(finish') /\ p <= Len(finish') + Len(fetched')
          /\ k > n /\ k <= n + l /\ ~(i - 1 < j) /\ i - 1 \in 1..l - 1 /\ (i - 1) + 1 = i
          /\ p - Len(finish') = i - 1 /\ p \in Line'
      BY <1>5, <2>2a, <2>6, <3>0, <3>0a
    <3>2. OpAt(p)' = fetched'[i - 1].op /\ KindAt(p)' = KindOf(fetched'[i - 1])
      BY <2>1, <2>2, <3>1, PartFetched
    <3>3. OpAt(k) = fetched[i].op /\ KindAt(k) = KindOf(fetched[i])
      BY <2>2a, <3>0, <3>1, PlaceFetched
    <3> QED
      BY <1>7, <2>0, <3>1, <3>2, <3>3
  <2>7. CASE n + l < k
    <3>1. /\ p = k /\ p \in Nat /\ Len(finish') + Len(fetched') = n + l /\ p \in Line'
          /\ p > Len(finish') + Len(fetched') /\ k > n + j
          /\ p - Len(finish') - Len(fetched') = k - n - l
      BY <1>5, <1>6, <1>7, <1>9, <1>11, <2>0, <2>7
    <3>2. KindAt(p)' = "open" /\ KindAt(k) = "open"
      BY <2>1, <2>2, <2>2a, <2>7, <3>1, PartOpen, PlaceOpen
    <3>3. CASE k <= n + l + Len(asked)
      <4>1. OpAt(p)' = asked[k - n - l].op
        BY <2>1, <2>2, <2>2a, <3>1, <3>3, PartAsked
      <4>2. OpAt(k) = asked[k - n - l].op
        BY <2>2a, <2>7, <3>3, PlaceAsked
      <4> QED
        BY <2>0, <3>1, <3>2, <4>1, <4>2
    <3>4. CASE k > n + l + Len(asked)
      <4>1. OpAt(p)' = txReq.op
        BY <2>1, <2>2, <2>2a, <3>1, <3>4, PartRequest
      <4>2. OpAt(k) = txReq.op
        BY <2>2a, <3>4, PlaceRequest
      <4> QED
        BY <2>0, <3>1, <3>2, <4>1, <4>2
    <3> QED
      BY <2>2a, <3>3, <3>4
  <2> QED
    BY <1>5, <2>2a, <2>3, <2>4, <2>5, <2>6, <2>7
<1>13. ASSUME NEW p \in Line' PROVE \E k \in Line : p = m[k]
  <2>1. p \in Nat /\ p >= 1 /\ p <= Length
    BY <1>9, <1>13 DEF Line
  <2>2. CASE p <= n \/ p > n + j
    BY <1>9, <1>11, <1>13, <2>2
  <2>3. CASE p = n + 1
    <3>1. n + j \in Line
      BY <1>5, <1>9 DEF Line
    <3> QED
      BY <1>11, <2>3, <3>1
  <2>4. CASE n + 1 < p /\ p <= n + j
    <3>1. p - 1 \in Line /\ n < p - 1 /\ p - 1 < n + j /\ (p - 1) + 1 = p
      BY <1>5, <1>9, <2>1, <2>4 DEF Line
    <3> QED
      BY <1>11, <3>1
  <2> QED
    BY <1>5, <2>1, <2>2, <2>3, <2>4
<1>14. ASSUME NEW k \in Line, NEW r \in Line, KindAt(k) # "full", r > k
       PROVE  m[r] > m[k]
  <2>1. ~(n < k /\ k < n + j)
    <3> SUFFICES ASSUME n < k, k < n + j PROVE KindAt(k) = "full"
      BY <1>14
    <3>1. k - n \in 1..j - 1 /\ k <= n + l
      BY <1>5, <1>11
    <3>2. KindAt(k) = KindOf(fetched[k - n])
      <4>1. /\ k \in Nat /\ k > Len(finish) /\ k <= Len(finish) + Len(fetched)
            /\ Len(finish) = n
        BY <1>3, <1>4, <1>11, <3>1
      <4> QED
        BY <4>1, PlaceFetched
    <3> QED
      BY <1>5, <3>1, <3>2 DEF KindOf
  <2> QED
    BY <1>5, <1>11, <1>14, <2>1
<1>15. \A q \in Queues : Waits(q)' => Waits(q)
  BY <1>1 DEF Waits, Bell
<1>16. \A k \in Line : \E p \in Line' :
          /\ p = m[k] /\ OpAt(p)' = OpAt(k)
          /\ KindAt(p)' # "full" => KindAt(k) # "full"
          /\ KindAt(p)' = "empty" => KindAt(k) = "empty" \/ \A q : q = Owner(k) => ~Waits(q)'
  BY <1>12
<1> QED
  BY <1>1, <1>13, <1>14, <1>15, <1>16, LineMoves

\* So does every step.
LEMMA StepTold ==
    ASSUME Inv, OpsPlaced, Told, [Next]_vars
    PROVE  Told'
<1>1. Shape /\ Owned /\ Enrolled /\ Followed
  BY DEF Inv, Told
<1>2. CASE Tick
  BY <1>2, TickTold
<1>3. ASSUME ram' = ram, table' = table, pipe' = pipe
      PROVE  /\ Enrolled'
             /\ asked' = asked /\ (txReq' = txReq \/ txReq' = None) => Owned'
  <2>1. Enrolled'
    BY <1>1, <1>3 DEF Enrolled
  <2>2. ASSUME asked' = asked, txReq' = txReq \/ txReq' = None PROVE Owned'
    BY <1>1, <1>3, <2>2 DEF Owned
  <2> QED
    BY <2>1, <2>2
<1>4. ASSUME ram' = ram, table' = table, pipe' = pipe,
             UNCHANGED <<asked, fetched, finish, txReq>>, \A q \in Queues : Waits(q)' => Waits(q)
      PROVE  Told'
  <2>1. Length' = Length
    BY <1>4 DEF Length
  <2>2. \A p \in Line : OpAt(p)' = OpAt(p) /\ KindAt(p)' = KindAt(p)
    BY <1>4 DEF OpAt, KindAt
  <2>3. Followed'
    BY <1>1, <1>4, <2>1, <2>2, LineStays
  <2> QED
    BY <1>3, <1>4, <2>3 DEF Told
<1>5. CASE Accept
  <2>1. /\ ram' = ram /\ table' = table /\ pipe' = pipe
        /\ txReq # None /\ txReq' = None /\ asked' = Append(asked, txReq)
    BY <1>5 DEF Accept, scheduler
  <2>2. asked \in Seq(Requests) /\ txReq \in Requests /\ table[txReq.op].queue = txReq.queue
    BY <1>1, <2>1 DEF Shape, FifoShape, Owned
  <2>3. ASSUME NEW j \in DOMAIN asked' PROVE j \in DOMAIN asked \/ asked'[j] = txReq
    BY <2>1, <2>2, <2>3
  <2>4. ASSUME NEW j \in DOMAIN asked' PROVE table[asked'[j].op].queue = asked'[j].queue
    <3>1. j \in DOMAIN asked => asked'[j] = asked[j]
      BY <2>1, <2>2
    <3> QED
      BY <1>1, <2>2, <2>3, <3>1 DEF Owned
  <2>5. Owned'
    BY <1>1, <2>1, <2>4 DEF Owned
  <2> QED
    BY <1>1, <1>3, <1>5, <2>1, <2>5, AcceptFollowed DEF Told
<1>6. CASE Dequeue
  <2>1. /\ ram' = ram /\ table' = table /\ pipe' = pipe
        /\ asked # <<>> /\ txReq' = txReq /\ asked' = Tail(asked)
    BY <1>6 DEF Dequeue, scheduler
  <2>2. asked \in Seq(Requests)
    BY <1>1 DEF Shape, FifoShape
  <2>3. ASSUME NEW j \in DOMAIN asked' PROVE table[asked'[j].op].queue = asked'[j].queue
    <3>1. j + 1 \in DOMAIN asked /\ asked'[j] = asked[j + 1]
      BY <2>1, <2>2, <2>3
    <3> QED
      BY <1>1, <3>1 DEF Owned
  <2>4. Owned'
    BY <1>1, <2>1, <2>3 DEF Owned
  <2> QED
    BY <1>1, <1>3, <1>6, <2>1, <2>4, DequeueFollowed DEF Told
<1>7. ASSUME NEW j \in DOMAIN fetched, Answer(j), \A k \in 1..j - 1 : fetched[k].filled
      PROVE  Told'
  <2>1. ram' = ram /\ table' = table /\ pipe' = pipe /\ asked' = asked /\ txReq' = txReq
    BY <1>7 DEF Answer, scheduler
  <2> QED
    BY <1>1, <1>3, <1>7, <2>1, AnswerFollowed DEF Told
<1>8. CASE AnswerEmpty
  BY <1>7, <1>8 DEF AnswerEmpty
<1>9. CASE AnswerSent
  <2>1. 1 \in DOMAIN fetched /\ Answer(1) /\ \A k \in 1..1 - 1 : fetched[k].filled
    BY <1>1, <1>9 DEF AnswerSent, Shape, FifoShape
  <2> QED
    BY <1>7, <2>1
<1>10. ASSUME NEW q \in Queues, Post(q)
       PROVE  Told'
  <2>1. /\ ram' = ram /\ table' = table /\ pipe' = pipe /\ doorbells' = doorbells
        /\ UNCHANGED <<asked, fetched, finish, txReq>>
        /\ backlog' = [backlog EXCEPT ![q] = @ + 1] /\ ringing' = Append(ringing, q)
    BY <1>10 DEF Post, scheduler, engine
  <2>2. ringing \in Seq(Queues)
    BY <1>1 DEF Shape, FifoShape
  <2>3. /\ Len(ringing) + 1 \in DOMAIN ringing' /\ ringing'[Len(ringing) + 1] = q
        /\ \A j \in DOMAIN ringing : j \in DOMAIN ringing' /\ ringing'[j] = ringing[j]
    BY <2>1, <2>2
  <2>4. Bell(q)' /\ \A w : Bell(w) => Bell(w)'
    BY <2>1, <2>3 DEF Bell
  <2>5. ASSUME NEW w \in Queues, Waits(w)' PROVE Waits(w)
    BY <2>1, <2>4, <2>5 DEF Waits
  <2> QED
    BY <1>4, <2>1, <2>5
<1>11. CASE Ring
  <2>1. /\ ram' = ram /\ table' = table /\ pipe' = pipe /\ backlog' = backlog
        /\ UNCHANGED <<asked, fetched, finish, txReq>>
        /\ ringing # <<>> /\ ringing' = Tail(ringing)
        /\ doorbells' = Append(doorbells, Head(ringing))
    BY <1>11 DEF Ring, scheduler, engine
  <2>2. ringing \in Seq(Queues) /\ doorbells \in Seq(Queues)
    BY <1>1 DEF Shape, FifoShape
  <2>3. /\ \A j \in DOMAIN ringing :
              j = 1 \/ (j - 1 \in DOMAIN ringing' /\ ringing'[j - 1] = ringing[j])
        /\ Len(doorbells) + 1 \in DOMAIN doorbells' /\ doorbells'[Len(doorbells) + 1] = ringing[1]
        /\ \A j \in DOMAIN doorbells : j \in DOMAIN doorbells' /\ doorbells'[j] = doorbells[j]
    BY <2>1, <2>2
  <2>4. ASSUME NEW w, Bell(w) PROVE Bell(w)'
    <3>1. CASE \E j \in DOMAIN ringing : ringing[j] = w
      <4>1. PICK j \in DOMAIN ringing : ringing[j] = w
        BY <3>1
      <4>2. \/ \E k \in DOMAIN doorbells' : doorbells'[k] = w
            \/ \E k \in DOMAIN ringing' : ringing'[k] = w
        BY <2>3, <4>1
      <4> QED
        BY <4>2 DEF Bell
    <3>2. CASE \E j \in DOMAIN doorbells : doorbells[j] = w
      BY <2>3, <3>2 DEF Bell
    <3>3. CASE \E j \in Stages : pipe[j].op = "doorbell" /\ pipe[j].queue = w
      BY <2>1, <3>3 DEF Bell
    <3> QED
      BY <2>4, <3>1, <3>2, <3>3 DEF Bell
  <2>5. \A w \in Queues : Waits(w)' => Waits(w)
    BY <2>1, <2>4 DEF Waits
  <2> QED
    BY <1>4, <2>1, <2>5
<1>12. CASE Activate
  <2>1. /\ ram' = ram /\ table' = table /\ pipe' = pipe
        /\ UNCHANGED <<asked, fetched, finish, txReq>>
        /\ backlog' = [q \in Queues |-> 0]
    BY <1>12 DEF Activate, scheduler, engine
  <2>2. \A w \in Queues : ~Waits(w)'
    BY <2>1 DEF Waits
  <2> QED
    BY <1>4, <2>1, <2>2
<1>13. CASE Deactivate \/ UNCHANGED vars
  <2>1. /\ ram' = ram /\ table' = table /\ pipe' = pipe
        /\ UNCHANGED <<asked, fetched, finish, txReq, ringing, doorbells, backlog>>
    BY <1>13 DEF Deactivate, vars, scheduler, engine
  <2>2. \A w \in Queues : Waits(w)' => Waits(w)
    BY <2>1 DEF Waits, Bell
  <2> QED
    BY <1>4, <2>1, <2>2
<1> QED
  BY <1>2, <1>5, <1>6, <1>8, <1>9, <1>10, <1>11, <1>12, <1>13 DEF Next

\* At the start nothing waits and nothing is under way.
LEMMA InitTold == Init => Told
<1> SUFFICES ASSUME Init PROVE Told
  OBVIOUS
<1>1. /\ \A j \in Stages : pipe[j].op = "none"
      /\ \A q \in Queues : ~ram[q].active /\ backlog[q] = 0
      /\ asked = <<>> /\ fetched = <<>> /\ finish = <<>> /\ txReq = None
  BY DEF Init, Idle
<1>2. Length = 0 /\ Line = {}
  <2>1. Len(<<>>) = 0
    OBVIOUS
  <2>2. Length = 0
    BY <1>1, <2>1 DEF Length
  <2> QED
    BY <2>2 DEF Line
<1>3. Owned /\ Enrolled
  BY <1>1 DEF Owned, Enrolled
<1>4. \A q \in Queues : ~Waits(q)
  BY <1>1 DEF Waits
<1>5. TailLast /\ FollowedInLine /\ FollowedInPipe
  BY <1>1, <1>2 DEF TailLast, FollowedInLine, FollowedInPipe
<1>6. Remembered
  BY <1>4 DEF Remembered
<1> QED
  BY <1>3, <1>5, <1>6 DEF Told, Followed

\* A request that tells is one of those the property names.
LEMMA TellsIs ==
    ASSUME Shape, OpsPlaced, Owned, NEW q \in Queues, NEW r \in Line, Tells(r, q)
    PROVE  \E i \in Ops : WillTell(i, q)
<1>1. PICK i \in Ops : i = OpAt(r)
  BY LineEntry
<1>2. table[i].active /\ table[i].queue = q /\ (KindAt(r) # "empty" \/ table[i].doorbell)
  BY <1>1, LineEntry DEF Tells, Owner
<1>3. SUFFICES ASSUME KindAt(r) # "empty", ~table[i].doorbell
               PROVE  \/ txReq = [queue |-> q, op |-> i] \/ \E j \in DOMAIN asked : asked[j].op = i
                      \/ \E s \in {fetched, finish} : \E j \in DOMAIN s : s[j] = [op |-> i, filled |-> TRUE]
  BY <1>2 DEF WillTell
<1>4. \A a \in Answers : KindOf(a) # "empty" /\ a.op = i => a = [op |-> i, filled |-> TRUE]
  BY DEF KindOf, Answers
<1>5. /\ \A j \in DOMAIN finish : finish[j] \in Answers
      /\ \A j \in DOMAIN fetched : fetched[j] \in Answers
  BY DEF Shape, FifoShape
<1>6. CASE r \in 1..Len(finish)
  BY <1>1, <1>3, <1>4, <1>5, <1>6, LineIs
<1>7. CASE \E j \in 1..Len(fetched) : r = Len(finish) + j
  <2>1. PICK j \in 1..Len(fetched) : r = Len(finish) + j
    BY <1>7
  <2>2. j \in DOMAIN fetched /\ OpAt(r) = fetched[j].op /\ KindAt(r) = KindOf(fetched[j])
    BY <2>1, LineIs
  <2> QED
    BY <1>1, <1>3, <1>4, <1>5, <2>2
<1>8. CASE \E j \in 1..Len(asked) : r = Len(finish) + Len(fetched) + j
  <2>1. PICK j \in 1..Len(asked) : r = Len(finish) + Len(fetched) + j
    BY <1>8
  <2>2. j \in DOMAIN asked /\ OpAt(r) = asked[j].op
    BY <2>1, LineIs
  <2> QED
    BY <1>1, <2>2
<1>9. CASE txReq # None /\ r = Length
  <2>1. txReq \in Requests /\ txReq.op = i /\ table[i].queue = txReq.queue
    BY <1>1, <1>9, LineIs DEF Shape, FifoShape, Owned
  <2>2. txReq = [queue |-> q, op |-> i]
    BY <1>2, <2>1 DEF Requests
  <2> QED
    BY <2>2
<1> QED
  BY <1>6, <1>7, <1>8, <1>9, LineIs

\* No doorbell is lost, for any number of queues, requests and stages: while descriptors
\* wait in a ring, its doorbell is on its way, or its queue is active, or a request under
\* way will make it so, whatever answers cross the doorbell; and an active queue that is
\* enabled is in the round (tx_scheduler_rr.v:613-627, 648-676, 690-714).
THEOREM DoorbellsNeverLost == Safety => []DoorbellsKept
<1>1. ASSUME Inv, OpsPlaced, Told PROVE DoorbellsKept
  <2>1. Shape /\ Owned /\ Enrolled /\ Remembered
    BY <1>1 DEF Inv, Told, Followed
  <2>2. ASSUME NEW q \in Queues, backlog[q] > 0
        PROVE  \/ \E s \in {ringing, doorbells} : \E j \in DOMAIN s : s[j] = q
               \/ \E j \in Stages : pipe[j].op = "doorbell" /\ pipe[j].queue = q
               \/ \E j \in Stages : pipe[j].op = "complete" /\ pipe[j].queue = q /\ pipe[j].filled
               \/ ram[q].active
               \/ \E i \in Ops : WillTell(i, q)
    <3>1. CASE Bell(q)
      BY <3>1 DEF Bell
    <3>2. CASE Waits(q)
      BY <1>1, <2>1, <3>2, TellsIs DEF Remembered
    <3> QED
      BY <2>2, <3>1, <3>2 DEF Waits
  <2> QED
    BY <2>1, <2>2 DEF DoorbellsKept, Enrolled
<1>2. Safety => []Told
  <2>1. Safety => [](Inv /\ OpsPlaced)
    BY AlwaysPlaced, PTL
  <2>2. Inv /\ OpsPlaced /\ Told /\ [Next]_vars => Told'
    BY StepTold
  <2> QED
    BY <2>1, <2>2, InitTold, PTL DEF Safety
<1> QED
  BY <1>1, <1>2, AlwaysPlaced, PTL
=============================================================================
