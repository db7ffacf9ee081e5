----------------------- MODULE CplQueueManagerProofs -----------------------
(***************************************************************************)
(* Proofs about CplQueueManager: at every depth of the pipeline, for any   *)
(* number of queues and operations, the RAM word an operation is executed  *)
(* on is the one in the RAM, no answer overwrites another, and the slots   *)
(* that were granted follow the head without a gap and stay within the     *)
(* queue; and the manager implements CplQueue, in which every operation    *)
(* happens at once.                                                        *)
(*                                                                         *)
(* The third is about three things that wrap: the table, in which entries  *)
(* have an age; the pointers of a queue, which have a distance to its      *)
(* tail; and the pipeline.  Fits says what a queue's entries, ordered by   *)
(* age, have to do with its head and tail, and how that survives each      *)
(* thing that can happen to them; the rest says which of these a clock     *)
(* edge does.                                                              *)
(*                                                                         *)
(* For the last, the operations that CplQueue lists are found at places    *)
(* that two lemmas count: a commit in the pipeline at its rank from the    *)
(* last stage, an entry of the table at its age.  A clock edge shifts both *)
(* lists, and hands the oldest entry from one to the other.                *)
(***************************************************************************)
EXTENDS CplQueueManager, FiniteSetTheorems, TLAPS

\* The parts of the type invariant that the arguments below need.
Shape ==
    /\ ram = [q \in Queues |-> ram[q]]
    /\ \A j \in Stages : pipe[j].op # "none" => pipe[j].queue \in Queues
    /\ \A i \in Ops : table[i].queue \in Queues
    /\ finishPtr \in Ops
    /\ {req, rd} \subseteq Queues \cup {None}
    /\ wr # None => wr.queue \in Queues

\* Two operations of one queue are never in the pipeline together.
OneOpPerQueue ==
    \A j, k \in Stages :
        pipe[j].op # "none" /\ pipe[k].op # "none" /\ pipe[j].queue = pipe[k].queue => j = k

\* Nor are two that answer at the same port.
OneOpPerPort ==
    \A j, k \in Stages :
        pipe[j].op \in {"req", "read", "write"} /\ pipe[k].op = pipe[j].op => j = k

Inv == Shape /\ OneOpPerQueue /\ OneOpPerPort /\ Coherent /\ AnswersKept

\* There is a first and a last stage, and every other one has a successor.
LEMMA StageFacts ==
    /\ 0 \in Stages /\ Last \in Stages
    /\ \A j \in Stages : j # 0 => j - 1 \in Stages /\ j - 1 # Last
BY ParamAssumption DEF Stages, Last

\* Nothing is in the pipeline at first.
THEOREM InitInv == Init => Inv
<1> SUFFICES ASSUME Init PROVE Inv
  OBVIOUS
<1>1. \A j \in Stages : pipe[j].op = "none"
  BY DEF Init, Idle
<1>2. Shape
  <2>1. ram = [q \in Queues |-> ram[q]]
    BY DEF Init
  <2>2. \A i \in Ops : table[i].queue \in Queues
    BY DEF Init
  <2>3. finishPtr \in Ops
    BY ParamAssumption DEF Init, Ops
  <2>4. {req, rd} \subseteq Queues \cup {None} /\ (wr # None => wr.queue \in Queues)
    BY DEF Init
  <2> QED
    BY <1>1, <2>1, <2>2, <2>3, <2>4 DEF Shape
<1>3. OneOpPerQueue /\ OneOpPerPort /\ Coherent
  BY <1>1 DEF OneOpPerQueue, OneOpPerPort, Coherent
<1>4. AnswersKept
  BY <1>1 DEF AnswersKept, InPipe
<1> QED
  BY <1>2, <1>3, <1>4 DEF Inv

\* What may enter the pipeline: an operation of a queue that is not in it, carrying
\* the queue's word, whose answer will find its port free.
Fresh(e, bReady, rReady, respReady) ==
    /\ e.op # "none" =>
          e.queue \in Queues /\ ~Hazard(e.queue) /\ e.word = ram[e.queue]
    /\ e.op = "req" => ~InPipe("req") /\ (resp = None \/ respReady)
    /\ e.op = "read" => ~InPipe("read") /\ (rdata = None \/ rReady)
    /\ e.op = "write" => ~InPipe("write") /\ (~bvalid \/ bReady)

LEMMA Entering ==
    ASSUME NEW bReady, NEW rReady, NEW respReady, Shape, Enter(bReady, rReady, respReady)
    PROVE  \E e : Shift(e) /\ Fresh(e, bReady, rReady, respReady)
<1>1. CASE AcceptWrite(bReady) /\ Shift(Stage("write", wr.queue, wr))
  <2>1. Fresh(Stage("write", wr.queue, wr), bReady, rReady, respReady)
    BY <1>1 DEF Fresh, Stage, AcceptWrite, Shape
  <2> QED
    BY <1>1, <2>1
<1>2. CASE AcceptRead(bReady, rReady) /\ Shift(Stage("read", rd, None))
  <2>1. Fresh(Stage("read", rd, None), bReady, rReady, respReady)
    BY <1>2 DEF Fresh, Stage, AcceptRead, Shape
  <2> QED
    BY <1>2, <2>1
<1>3. CASE /\ AcceptCommit(bReady, rReady)
           /\ Shift(Stage("commit", table[finishPtr].queue, table[finishPtr].ptr))
  <2>1. Fresh(Stage("commit", table[finishPtr].queue, table[finishPtr].ptr),
              bReady, rReady, respReady)
    BY <1>3 DEF Fresh, Stage, AcceptCommit, Shape
  <2> QED
    BY <1>3, <2>1
<1>4. CASE AcceptReq(bReady, rReady, respReady) /\ Shift(Stage("req", req, None))
  <2>1. Fresh(Stage("req", req, None), bReady, rReady, respReady)
    BY <1>4 DEF Fresh, Stage, AcceptReq, Shape
  <2> QED
    BY <1>4, <2>1
<1>5. CASE Shift(Idle)
  <2>1. Fresh(Idle, bReady, rReady, respReady)
    BY DEF Fresh, Idle
  <2> QED
    BY <1>5, <2>1
<1> QED
  BY <1>1, <1>2, <1>3, <1>4, <1>5 DEF Enter

\* The last stage writes the word of its own queue and no other.
LEMMA Executing ==
    ASSUME NEW bReady, NEW rReady, NEW respReady, Shape, Execute(respReady, bReady, rReady)
    PROVE  /\ ram' = [q \in Queues |-> ram'[q]]
           /\ \A q \in Queues : cur.op = "none" \/ q # cur.queue => ram'[q] = ram[q]
<1>1. CASE ExecReq
  BY <1>1 DEF ExecReq, StartEn, Shape
<1>2. CASE ExecCommit
  BY <1>2 DEF ExecCommit, Shape
<1>3. CASE ExecWrite
  BY <1>3 DEF ExecWrite, Shape
<1>4. CASE cur.op \in {"read", "none"} /\ UNCHANGED ram
  BY <1>4 DEF Shape
<1> QED
  BY <1>1, <1>2, <1>3, <1>4 DEF Execute

\* One clock edge preserves the invariant.
LEMMA TickInv ==
    ASSUME Inv, NEW respReady, NEW bReady, NEW rReady, NEW tag,
           Tick(respReady, bReady, rReady, tag)
    PROVE  Inv'
<1> USE StageFacts
<1>1. PICK e : Shift(e) /\ Fresh(e, bReady, rReady, respReady)
  BY Entering DEF Inv, Tick
<1>2. pipe'[0] = e /\ \A j \in Stages : j # 0 => pipe'[j] = pipe[j - 1]
  BY <1>1 DEF Shift
<1>3. /\ ram' = [q \in Queues |-> ram'[q]]
      /\ \A q \in Queues : cur.op = "none" \/ q # cur.queue => ram'[q] = ram[q]
  BY Executing DEF Inv, Tick
<1>4. Shape'
  <2>1. \A j \in Stages : pipe'[j].op # "none" => pipe'[j].queue \in Queues
    BY <1>1, <1>2 DEF Fresh, Inv, Shape
  <2>2. \A i \in Ops : table'[i].queue \in Queues
    <3>1. StartEn => cur.queue \in Queues
      BY DEF StartEn, cur, Inv, Shape
    <3>2. \A i \in Ops : table'[i].queue = IF StartEn /\ i = startPtr THEN cur.queue
                                           ELSE table[i].queue
      BY DEF Tick, Tables
    <3> QED
      BY <3>1, <3>2 DEF Inv, Shape
  <2>3. finishPtr' \in Ops
    BY ParamAssumption DEF Tick, Tables, NextOp, Ops, Inv, Shape
  <2>4. {req, rd}' \subseteq Queues \cup {None}
    BY ParamAssumption DEF Tick, EnqueueUser, Driver, Inv, Shape
  <2>5. wr' # None => wr'.queue \in Queues
    <3>1. \A w \in NewWrites : w.queue \in Queues
      BY DEF NewWrites, Writes
    <3>2. wr' = wr \/ wr' \in NewWrites \/ wr' = None
      BY DEF Tick, Driver
    <3> QED
      BY <3>1, <3>2 DEF Inv, Shape
  <2> QED
    BY <1>3, <2>1, <2>2, <2>3, <2>4, <2>5 DEF Shape
<1>5. OneOpPerQueue'
  <2> SUFFICES ASSUME NEW j \in Stages, NEW k \in Stages, j # k,
                      pipe'[j].op # "none", pipe'[k].op # "none", pipe'[j].queue = pipe'[k].queue
               PROVE  FALSE
    BY DEF OneOpPerQueue
  <2>1. CASE j = 0
    BY <2>1, <1>1, <1>2 DEF Fresh, Hazard
  <2>2. CASE k = 0
    BY <2>2, <1>1, <1>2 DEF Fresh, Hazard
  <2>3. CASE j # 0 /\ k # 0
    <3>1. j - 1 = k - 1
      BY <2>3, <1>2 DEF Inv, OneOpPerQueue
    <3> QED
      BY <3>1 DEF Stages
  <2> QED
    BY <2>1, <2>2, <2>3
<1>6. OneOpPerPort'
  <2> SUFFICES ASSUME NEW j \in Stages, NEW k \in Stages, j # k,
                      pipe'[j].op \in {"req", "read", "write"}, pipe'[k].op = pipe'[j].op
               PROVE  FALSE
    BY DEF OneOpPerPort
  <2>1. CASE j = 0
    BY <2>1, <1>1, <1>2 DEF Fresh, InPipe
  <2>2. CASE k = 0
    BY <2>2, <1>1, <1>2 DEF Fresh, InPipe
  <2>3. CASE j # 0 /\ k # 0
    <3>1. j - 1 = k - 1
      BY <2>3, <1>2 DEF Inv, OneOpPerPort
    <3> QED
      BY <3>1 DEF Stages
  <2> QED
    BY <2>1, <2>2, <2>3
<1>7. Coherent'
  <2> SUFFICES ASSUME NEW j \in Stages, pipe'[j].op # "none"
               PROVE  pipe'[j].word = ram'[pipe'[j].queue]
    BY DEF Coherent
  <2>1. CASE j = 0
    BY <2>1, <1>1, <1>2, <1>3 DEF Fresh, Hazard, cur
  <2>2. CASE j # 0
    <3>1. pipe[j - 1].queue \in Queues /\ pipe[j - 1].word = ram[pipe[j - 1].queue]
      BY <2>2, <1>2 DEF Inv, Shape, Coherent
    <3>2. cur.op = "none" \/ pipe[j - 1].queue # cur.queue
      BY <2>2, <1>2 DEF Inv, OneOpPerQueue, cur
    <3> QED
      BY <2>2, <1>2, <1>3, <3>1, <3>2
  <2> QED
    BY <2>1, <2>2
<1>8. AnswersKept'
  <2>1. \A op \in {"req", "read", "write"} :
          InPipe(op)' => \/ e.op = op
                         \/ InPipe(op) /\ cur.op # op
    BY <1>2 DEF InPipe, Inv, OneOpPerPort, cur
  <2>2. InPipe("req")' => resp' = None
    <3>1. cur.op # "req" => resp' = IF respReady THEN None ELSE resp
      BY DEF Tick, Execute, ExecReq
    <3>2. e.op = "req" => cur.op # "req"
      BY <1>1 DEF Fresh, InPipe, cur
    <3> QED
      BY <1>1, <2>1, <3>1, <3>2 DEF Fresh, Inv, AnswersKept
  <2>3. InPipe("read")' => rdata' = None
    <3>1. e.op = "read" => cur.op # "read"
      BY <1>1 DEF Fresh, InPipe, cur
    <3>2. cur.op # "read" => rdata' = IF rReady THEN None ELSE rdata
      BY DEF Tick, Execute
    <3> QED
      BY <1>1, <2>1, <3>1, <3>2 DEF Fresh, Inv, AnswersKept
  <2>4. InPipe("write")' => ~bvalid'
    <3>1. e.op = "write" => cur.op # "write"
      BY <1>1 DEF Fresh, InPipe, cur
    <3>2. cur.op # "write" => (bvalid' <=> bvalid /\ ~bReady)
      BY DEF Tick, Execute
    <3> QED
      BY <1>1, <2>1, <3>1, <3>2 DEF Fresh, Inv, AnswersKept
  <2> QED
    BY <2>2, <2>3, <2>4 DEF AnswersKept
<1> QED
  BY <1>4, <1>5, <1>6, <1>7, <1>8 DEF Inv

\* The invariant is inductive.
THEOREM StepInv == Inv /\ [Next]_vars => Inv'
<1> SUFFICES ASSUME Inv, [Next]_vars PROVE Inv'
  OBVIOUS
<1>1. CASE Next
  BY <1>1, TickInv DEF Next
<1>2. CASE UNCHANGED vars
  BY <1>2 DEF vars, manager, ports, Inv, Shape, OneOpPerQueue, OneOpPerPort, Coherent,
              AnswersKept, InPipe
<1> QED
  BY <1>1, <1>2

\* So it holds in every reachable state.
THEOREM SafetyInv == Safety => []Inv
BY InitInv, StepInv, PTL DEF Safety

\* The word an operation carries is the one in the RAM until it is executed, however
\* deep the pipeline (cpl_queue_manager.v:386-392, 704-719).
THEOREM WordsCoherent == Safety => []Coherent
<1>1. Inv => Coherent
  BY DEF Inv
<1> QED
  BY <1>1, SafetyInv, PTL

\* Every answer finds its register empty or taken in that cycle, however late the
\* answers are taken (cpl_queue_manager.v:395-427).
THEOREM AnswersNeverLost == Safety => []AnswersKept
<1>1. Inv => AnswersKept
  BY DEF Inv
<1> QED
  BY <1>1, SafetyInv, PTL


-----------------------------------------------------------------------------
(* The types of the registers. *)

Operations ==
    {Idle} \cup Carries("write", Writes) \cup Carries("commit", Ptrs)
           \cup Carries("read", {None}) \cup Carries("req", {None})
Entries == [active : BOOLEAN, commit : BOOLEAN, queue : Queues, ptr : Ptrs]

\* A remainder is below its modulus.
LEMMA Wraps ==
    /\ \A x \in Int : (x % PtrMod) \in Ptrs
    /\ \A i \in Int : NextOp(i) \in Ops
    /\ Ops \subseteq Int /\ Ptrs \subseteq Int /\ 0 \in Ops /\ 0 \in Ptrs
<1>1. PtrMod \in Nat /\ PtrMod > 0 /\ OpTableSize \in Nat /\ OpTableSize > 0
  BY ParamAssumption
<1>2. \A x \in Int : (x % PtrMod) \in 0..PtrMod - 1
  BY <1>1
<1>3. \A x \in Int : (x % OpTableSize) \in 0..OpTableSize - 1
  BY <1>1
<1> QED
  BY <1>1, <1>2, <1>3 DEF Ptrs, Ops, NextOp

\* What an operation carries.
LEMMA Carried ==
    ASSUME NEW e \in Operations
    PROVE  /\ e.op \in {"none", "write", "commit", "read", "req"}
           /\ e.op # "none" => e.queue \in Queues /\ e.word \in Words
           /\ e.op = "write" => e.data \in Writes
           /\ e.op = "commit" => e.data \in Ptrs
BY DEF Operations, Carries, Idle

\* What is carried from stage 0 is of the right kind.
LEMMA StageTyped ==
    ASSUME NEW op \in {"write", "commit", "read", "req"}, NEW q \in Queues, NEW D, NEW data \in D,
           ram \in [Queues -> Words]
    PROVE  Stage(op, q, data) \in Carries(op, D)
BY DEF Stage, Carries

LEMMA EntersTyped ==
    ASSUME TypeOK, NEW bReady, NEW rReady, NEW respReady, Enter(bReady, rReady, respReady)
    PROVE  pipe' \in [Stages -> Operations]
<1>1. /\ ram \in [Queues -> Words] /\ {req, rd} \subseteq Queues \cup {None}
      /\ wr \in Writes \cup {None} /\ finishPtr \in Ops /\ table \in [Ops -> Entries]
      /\ pipe \in [Stages -> Operations]
  BY DEF TypeOK, Operations, Entries
<1>2. ASSUME NEW e \in Operations, Shift(e) PROVE pipe' \in [Stages -> Operations]
  <2>1. ASSUME NEW j \in Stages PROVE (IF j = 0 THEN e ELSE pipe[j - 1]) \in Operations
    BY <1>1, StageFacts
  <2> QED
    BY <1>2, <2>1 DEF Shift
<1>3. CASE AcceptWrite(bReady) /\ Shift(Stage("write", wr.queue, wr))
  <2>1. wr \in Writes /\ wr.queue \in Queues
    BY <1>1, <1>3 DEF AcceptWrite, Writes
  <2>2. Stage("write", wr.queue, wr) \in Carries("write", Writes)
    BY <1>1, <2>1, StageTyped
  <2> QED
    BY <1>2, <1>3, <2>2 DEF Operations
<1>4. CASE AcceptRead(bReady, rReady) /\ Shift(Stage("read", rd, None))
  <2>1. Stage("read", rd, None) \in Carries("read", {None})
    BY <1>1, <1>4, StageTyped DEF AcceptRead
  <2> QED
    BY <1>2, <1>4, <2>1 DEF Operations
<1>5. CASE Shift(Stage("commit", table[finishPtr].queue, table[finishPtr].ptr))
  <2>1. table[finishPtr].queue \in Queues /\ table[finishPtr].ptr \in Ptrs
    BY <1>1 DEF Entries
  <2>2. Stage("commit", table[finishPtr].queue, table[finishPtr].ptr) \in Carries("commit", Ptrs)
    BY <1>1, <2>1, StageTyped
  <2> QED
    BY <1>2, <1>5, <2>2 DEF Operations
<1>6. CASE AcceptReq(bReady, rReady, respReady) /\ Shift(Stage("req", req, None))
  <2>1. Stage("req", req, None) \in Carries("req", {None})
    BY <1>1, <1>6, StageTyped DEF AcceptReq
  <2> QED
    BY <1>2, <1>6, <2>1 DEF Operations
<1>7. CASE Shift(Idle)
  BY <1>2, <1>7 DEF Operations
<1> DEFINE w == AcceptWrite(bReady)
           r == AcceptRead(bReady, rReady)
           c == AcceptCommit(bReady, rReady)
           a == AcceptReq(bReady, rReady, respReady)
<1>8. \/ w /\ Shift(Stage("write", wr.queue, wr))
      \/ r /\ Shift(Stage("read", rd, None))
      \/ c /\ Shift(Stage("commit", table[finishPtr].queue, table[finishPtr].ptr))
      \/ a /\ Shift(Stage("req", req, None))
      \/ Shift(Idle)
  BY DEF Enter
<1> QED
  BY <1>3, <1>4, <1>5, <1>6, <1>7, <1>8

\* A register write leaves a word of the RAM one.
LEMMA WrittenTyped ==
    ASSUME NEW w \in Writes, NEW word \in Words, NEW old \in Words
    PROVE  Written(w, word, old) \in Words
<1>1. /\ w.reg \in {"tail", "head"} => w.data \in Ptrs
      /\ w.reg \in {"arm", "active"} => w.data \in BOOLEAN
  BY DEF Writes
<1>2. word.active \in BOOLEAN /\ word.armed \in BOOLEAN
  BY DEF Words
<1>3. CASE w.reg = "tail"
  BY <1>1, <1>3 DEF Written, Words
<1>4. CASE w.reg = "head"
  BY <1>1, <1>4 DEF Written, Words
<1>5. CASE w.reg = "active"
  <2>1. w.data \in BOOLEAN
    BY <1>1, <1>5
  <2>2. Written(w, word, old) = [old EXCEPT !.active = w.data, !.armed = word.armed]
    BY <1>5 DEF Written
  <2> QED
    BY <1>2, <2>1, <2>2 DEF Words
<1>6. CASE w.reg = "arm"
  <2> DEFINE armed == w.data /\ word.head = word.tail
  <2>1. armed \in BOOLEAN
    BY <1>1, <1>6
  <2>2. Written(w, word, old) = [old EXCEPT !.active = word.active, !.armed = armed]
    BY <1>6 DEF Written
  <2> HIDE DEF armed
  <2> QED
    BY <1>2, <2>1, <2>2 DEF Words
<1>7. w.reg \in {"tail", "head", "active", "arm"}
  BY DEF Writes
<1> QED
  BY <1>3, <1>4, <1>5, <1>6, <1>7

\* The head a queue will have is a pointer, as is the one after it.
LEMMA HeadsTyped ==
    ASSUME TypeOK, NEW q, NEW word \in Words
    PROVE  ActiveHead(q, word) \in Ptrs /\ ((ActiveHead(q, word) + 1) % PtrMod) \in Ptrs
<1>1. ActiveHead(q, word) \in Ptrs
  <2>1. word.op \in Ops /\ word.head \in Ptrs /\ table[word.op].ptr \in Ptrs
    BY DEF TypeOK, Words
  <2> QED
    BY <2>1 DEF ActiveHead
<1>2. (ActiveHead(q, word) + 1) \in Int
  BY <1>1 DEF Ptrs
<1>3. ((ActiveHead(q, word) + 1) % PtrMod) \in Ptrs
  BY <1>2, Wraps
<1> QED
  BY <1>1, <1>3


\* The words of the RAM stay words, whatever the last stage performs.
LEMMA RamTyped ==
    ASSUME TypeOK, NEW bReady, NEW rReady, NEW respReady, Execute(respReady, bReady, rReady)
    PROVE  ram' \in [Queues -> Words] /\ event' \in Queues \cup {None}
<1>1. ram \in [Queues -> Words] /\ startPtr \in Ops /\ cur \in Operations
  BY StageFacts DEF TypeOK, cur, Operations
<1>2. /\ cur.op # "none" => cur.queue \in Queues /\ cur.word \in Words
      /\ cur.op = "write" => cur.data \in Writes
      /\ cur.op = "commit" => cur.data \in Ptrs
  BY <1>1, Carried
<1>3. CASE ExecReq
  <2>1. [ram[cur.queue] EXCEPT !.op = startPtr] \in Words
    BY <1>1, <1>2, <1>3 DEF ExecReq, Words
  <2> QED
    BY <1>1, <1>3, <2>1 DEF ExecReq
<1>4. CASE ExecCommit
  <2> DEFINE old == ram[cur.queue]
             armed == old.armed /\ ~cur.word.armed
             active == IF cur.word.armed THEN cur.word.active ELSE old.active
             new == [old EXCEPT !.head = cur.data, !.armed = armed, !.active = active]
  <2>1. cur.data \in Ptrs /\ old \in Words /\ cur.queue \in Queues /\ cur.word.active \in BOOLEAN
    BY <1>1, <1>2, <1>4 DEF ExecCommit, Words
  <2>2. armed \in BOOLEAN
    BY <2>1
  <2>3. active \in BOOLEAN
    BY <2>1 DEF Words
  <2>4. ram' = [ram EXCEPT ![cur.queue] = new]
    BY <1>1, <1>4, <2>1 DEF ExecCommit
  <2>5. event' \in Queues \cup {None}
    BY <1>2, <1>4 DEF ExecCommit
  <2> HIDE DEF armed, active, old
  <2>6. new \in Words
    BY <2>1, <2>2, <2>3 DEF Words
  <2> HIDE DEF new
  <2> QED
    BY <1>1, <2>4, <2>5, <2>6
<1>5. CASE ExecWrite
  <2> DEFINE new == Written(cur.data, cur.word, ram[cur.queue])
  <2>1. new \in Words
    BY <1>1, <1>2, <1>5, WrittenTyped DEF ExecWrite
  <2>2. ram' = [ram EXCEPT ![cur.queue] = new]
    BY <1>5 DEF ExecWrite
  <2>3. event' \in Queues \cup {None}
    BY <1>2, <1>5 DEF ExecWrite
  <2> HIDE DEF new
  <2> QED
    BY <1>1, <2>1, <2>2, <2>3
<1>6. CASE event' = None /\ UNCHANGED ram
  BY <1>1, <1>6
<1> QED
  BY <1>3, <1>4, <1>5, <1>6 DEF Execute

\* The answers of the three ports keep their types.
LEMMA AnswersTyped ==
    ASSUME TypeOK, NEW bReady, NEW rReady, NEW respReady, Execute(respReady, bReady, rReady)
    PROVE  resp' \in Responses \cup {None} /\ rdata' \in Ptrs \cup {None} /\ bvalid' \in BOOLEAN
<1>1. startPtr \in Ops /\ cur \in Operations /\ resp \in Responses \cup {None}
      /\ rdata \in Ptrs \cup {None}
  BY StageFacts DEF TypeOK, cur, Operations
<1>2. cur.op # "none" => cur.queue \in Queues /\ cur.word \in Words
  BY <1>1, Carried
<1>3. resp' \in Responses \cup {None}
  <2>1. CASE ExecReq
    <3>1. ActiveHead(cur.queue, cur.word) \in Ptrs /\ cur.queue \in Queues
      BY <1>2, <2>1, HeadsTyped DEF ExecReq
    <3> DEFINE status == IF ~cur.word.active THEN "error" ELSE IF StartEn THEN "ok" ELSE "full"
    <3>2. status \in {"ok", "full", "error"}
      OBVIOUS
    <3>3. resp' = [queue |-> cur.queue, ptr |-> ActiveHead(cur.queue, cur.word), op |-> startPtr,
                   status |-> status]
      BY <2>1 DEF ExecReq
    <3> HIDE DEF status
    <3> QED
      BY <1>1, <3>1, <3>2, <3>3 DEF Responses
  <2>2. CASE resp' = IF respReady THEN None ELSE resp
    BY <1>1, <2>2
  <2> QED
    BY <2>1, <2>2 DEF Execute
<1>4. rdata' \in Ptrs \cup {None}
  <2>1. cur.op = "read" => cur.word.head \in Ptrs
    BY <1>2 DEF Words
  <2> QED
    BY <1>1, <2>1 DEF Execute
<1>5. bvalid' \in BOOLEAN
  BY DEF Execute
<1> QED
  BY <1>3, <1>4, <1>5

\* The table stays one, and its pointers stay below its size.
LEMMA TablesTyped ==
    ASSUME TypeOK, NEW finishEn, NEW tag, Tables(finishEn, tag)
    PROVE  table' \in [Ops -> Entries] /\ startPtr' \in Ops /\ finishPtr' \in Ops
<1>1. startPtr \in Ops /\ finishPtr \in Ops /\ cur \in Operations /\ table \in [Ops -> Entries]
  BY StageFacts DEF TypeOK, cur, Operations, Entries
<1>2. ASSUME StartEn
      PROVE  cur.queue \in Queues /\ ((ActiveHead(cur.queue, cur.word) + 1) % PtrMod) \in Ptrs
  BY <1>1, <1>2, Carried, HeadsTyped DEF StartEn
<1>3. startPtr' \in Ops /\ finishPtr' \in Ops
  BY <1>1, Wraps DEF Tables
<1> DEFINE active(i) == (table[i].active /\ ~(finishEn /\ i = finishPtr)) \/ (StartEn /\ i = startPtr)
           commit(i) == (table[i].commit /\ ~(StartEn /\ i = startPtr)) \/ i = tag
           queue(i) == IF StartEn /\ i = startPtr THEN cur.queue ELSE table[i].queue
           ptr(i) == IF StartEn /\ i = startPtr
                     THEN (ActiveHead(cur.queue, cur.word) + 1) % PtrMod ELSE table[i].ptr
<1>4. table' = [i \in Ops |-> [active |-> active(i), commit |-> commit(i), queue |-> queue(i),
                              ptr |-> ptr(i)]]
  BY DEF Tables
<1>5. ASSUME NEW i \in Ops
      PROVE  active(i) \in BOOLEAN /\ commit(i) \in BOOLEAN /\ queue(i) \in Queues /\ ptr(i) \in Ptrs
  <2>1. table[i].queue \in Queues /\ table[i].ptr \in Ptrs
    BY <1>1 DEF Entries
  <2>2. active(i) \in BOOLEAN /\ commit(i) \in BOOLEAN
    OBVIOUS
  <2>3. queue(i) \in Queues
    BY <1>2, <2>1
  <2>4. ptr(i) \in Ptrs
    BY <1>2, <2>1
  <2> QED
    BY <2>2, <2>3, <2>4
<1> HIDE DEF active, commit, queue, ptr
<1>6. \A i \in Ops : [active |-> active(i), commit |-> commit(i), queue |-> queue(i),
                     ptr |-> ptr(i)] \in Entries
  BY <1>5 DEF Entries
<1> QED
  BY <1>3, <1>4, <1>6

\* What the driver asks for is typed, and so is the tail it remembers.
LEMMA DriverTyped ==
    ASSUME TypeOK, Driver
    PROVE  /\ wr' \in Writes \cup {None} /\ rd' \in Queues \cup {None}
           /\ sent' \in [Queues -> Ptrs]
<1>1. wr \in Writes \cup {None} /\ rd \in Queues \cup {None} /\ sent \in [Queues -> Ptrs]
  BY DEF TypeOK
<1>2. wr' \in Writes \cup {None}
  BY <1>1 DEF Driver, NewWrites
<1>3. rd' \in Queues \cup {None}
  BY <1>1, ParamAssumption DEF Driver
<1>4. sent' \in [Queues -> Ptrs]
  <2>1. wr' # None /\ wr'.reg = "tail" => wr'.data \in Ptrs
    BY <1>2 DEF Writes
  <2> QED
    BY <1>1, <2>1 DEF Driver
<1> QED
  BY <1>2, <1>3, <1>4

\* What the user holds was granted to it.
LEMMA UserTyped ==
    ASSUME TypeOK, NEW respReady, NEW tag, EnqueueUser(respReady, tag)
    PROVE  req' \in Queues \cup {None} /\ held' \subseteq Ops
<1>1. req \in Queues \cup {None} /\ held \subseteq Ops /\ resp \in Responses \cup {None}
  BY DEF TypeOK
<1>2. resp # None => resp.op \in Ops
  BY <1>1 DEF Responses
<1> QED
  BY <1>1, <1>2 DEF EnqueueUser

LEMMA InitTyped == Init => TypeOK
<1> SUFFICES ASSUME Init PROVE TypeOK
  OBVIOUS
<1>1. 0 \in Ops /\ 0 \in Ptrs
  BY Wraps
<1>2. ram \in [Queues -> Words]
  BY <1>1 DEF Init, Words
<1>3. table \in [Ops -> Entries]
  BY <1>1 DEF Init, Entries
<1>4. pipe \in [Stages -> Operations]
  BY DEF Init, Operations
<1> QED
  BY <1>1, <1>2, <1>3, <1>4 DEF Init, TypeOK, Operations, Entries

LEMMA TickTyped ==
    ASSUME TypeOK, NEW respReady, NEW bReady, NEW rReady, NEW tag,
           Tick(respReady, bReady, rReady, tag)
    PROVE  TypeOK'
<1>1. ram' \in [Queues -> Words] /\ event' \in Queues \cup {None}
  BY RamTyped DEF Tick
<1>2. resp' \in Responses \cup {None} /\ rdata' \in Ptrs \cup {None} /\ bvalid' \in BOOLEAN
  BY AnswersTyped DEF Tick
<1>3. table' \in [Ops -> Entries] /\ startPtr' \in Ops /\ finishPtr' \in Ops
  BY TablesTyped DEF Tick
<1>4. pipe' \in [Stages -> Operations]
  BY EntersTyped DEF Tick
<1>5. /\ wr' \in Writes \cup {None} /\ rd' \in Queues \cup {None} /\ sent' \in [Queues -> Ptrs]
      /\ req' \in Queues \cup {None} /\ held' \subseteq Ops
  BY DriverTyped, UserTyped DEF Tick
<1>6. reqReady' \in BOOLEAN /\ wrReady' \in BOOLEAN /\ rdReady' \in BOOLEAN
  BY DEF Tick, AcceptWrite, AcceptRead, AcceptReq
<1> QED
  BY <1>1, <1>2, <1>3, <1>4, <1>5, <1>6 DEF TypeOK, Entries, Operations

\* Every register of the manager, and what its users remember, keep their types at every
\* depth of the pipeline (cpl_queue_manager.v:183-262).
THEOREM TypeCorrect == Safety => []TypeOK
<1>1. TypeOK /\ [Next]_vars => TypeOK'
  <2> SUFFICES ASSUME TypeOK, [Next]_vars PROVE TypeOK'
    OBVIOUS
  <2>1. CASE Next
    BY <2>1, TickTyped DEF Next
  <2>2. CASE UNCHANGED vars
    BY <2>2 DEF vars, manager, ports, TypeOK
  <2> QED
    BY <2>1, <2>2
<1> QED
  BY <1>1, InitTyped, PTL DEF Safety


-----------------------------------------------------------------------------
(* Pointers and ages: distances that go around. *)

\* What a remainder is within one turn.
LEMMA Around ==
    ASSUME NEW M \in Nat, M > 0, NEW a \in Int
    PROVE  /\ 0 <= a /\ a < M => (a % M) = a
           /\ -M <= a /\ a < 0 => (a % M) = a + M
           /\ a = M => (a % M) = 0
<1>1. ASSUME 0 <= a, a < M PROVE (a % M) = a
  BY <1>1
<1>2. ASSUME -M <= a, a < 0 PROVE (a % M) = a + M
  <2>1. ASSUME NEW r \in 0..M - 1 PROVE (M * (-1) + r) % M = r
    OBVIOUS
  <2>2. a + M \in 0..M - 1 /\ M * (-1) + (a + M) = a
    BY <1>2
  <2> QED
    BY <2>1, <2>2
<1>3. ASSUME a = M PROVE (a % M) = 0
  <2>1. (M * 1 + 0) % M = 0
    OBVIOUS
  <2> QED
    BY <1>3, <2>1
<1> QED
  BY <1>1, <1>2, <1>3

\* How far a pointer is ahead of another.
LEMMA Distance ==
    ASSUME NEW x \in Ptrs, NEW y \in Ptrs
    PROVE  Used(x, y) = IF y <= x THEN x - y ELSE x - y + PtrMod
<1>1. PtrMod \in Nat /\ PtrMod > 0 /\ x \in Int /\ y \in Int /\ x - y \in Int
      /\ 0 <= x /\ x < PtrMod /\ 0 <= y /\ y < PtrMod
  BY ParamAssumption DEF Ptrs
<1>2. /\ 0 <= x - y /\ x - y < PtrMod => ((x - y) % PtrMod) = x - y
      /\ -PtrMod <= x - y /\ x - y < 0 => ((x - y) % PtrMod) = x - y + PtrMod
  BY <1>1, Around
<1> QED
  BY <1>1, <1>2 DEF Used

LEMMA Advance ==
    ASSUME NEW x \in Ptrs
    PROVE  ((x + 1) % PtrMod) = IF x + 1 = PtrMod THEN 0 ELSE x + 1
<1>1. PtrMod \in Nat /\ PtrMod > 0 /\ x + 1 \in Int /\ 0 <= x + 1 /\ x + 1 <= PtrMod
  BY ParamAssumption DEF Ptrs
<1>2. /\ 0 <= x + 1 /\ x + 1 < PtrMod => ((x + 1) % PtrMod) = x + 1
      /\ x + 1 = PtrMod => ((x + 1) % PtrMod) = 0
  BY <1>1, Around
<1> QED
  BY <1>1, <1>2

\* Distances are natural numbers below the modulus, and tell pointers apart.
LEMMA Distances ==
    ASSUME NEW x \in Ptrs, NEW y \in Ptrs, NEW z \in Ptrs
    PROVE  /\ Used(x, z) \in Nat /\ Used(x, z) < PtrMod /\ Used(x, x) = 0
           /\ Used(x, z) = Used(y, z) => x = y
<1>1. /\ PtrMod \in Nat /\ PtrMod > 0
      /\ x \in 0..PtrMod - 1 /\ y \in 0..PtrMod - 1 /\ z \in 0..PtrMod - 1
  BY ParamAssumption DEF Ptrs
<1>2. /\ Used(x, z) = IF z <= x THEN x - z ELSE x - z + PtrMod
      /\ Used(y, z) = IF z <= y THEN y - z ELSE y - z + PtrMod
      /\ Used(x, x) = IF x <= x THEN x - x ELSE x - x + PtrMod
  BY Distance
<1>3. Used(x, z) \in Nat /\ Used(x, z) < PtrMod
  BY <1>1, <1>2
<1>4. Used(x, x) = 0
  BY <1>1, <1>2
<1>5. Used(x, z) = Used(y, z) => x = y
  BY <1>1, <1>2
<1> QED
  BY <1>3, <1>4, <1>5

\* One step ahead.
LEMMA Further ==
    ASSUME NEW x \in Ptrs, NEW z \in Ptrs, Used(x, z) + 1 < PtrMod
    PROVE  ((x + 1) % PtrMod) \in Ptrs /\ Used((x + 1) % PtrMod, z) = Used(x, z) + 1
<1> DEFINE y == (x + 1) % PtrMod
<1>1. y = IF x + 1 = PtrMod THEN 0 ELSE x + 1
  BY Advance
<1>2. PtrMod \in Nat /\ PtrMod > 0 /\ x \in 0..PtrMod - 1 /\ z \in 0..PtrMod - 1
  BY ParamAssumption DEF Ptrs
<1> HIDE DEF y
<1>3. y \in Ptrs
  BY <1>1, <1>2 DEF Ptrs
<1>4. /\ Used(x, z) = IF z <= x THEN x - z ELSE x - z + PtrMod
      /\ Used(y, z) = IF z <= y THEN y - z ELSE y - z + PtrMod
  BY <1>3, Distance
<1>5. Used(y, z) = Used(x, z) + 1
  BY <1>1, <1>2, <1>4
<1> QED
  BY <1>3, <1>5 DEF y

\* A distance from a pointer in between.
LEMMA Rebase ==
    ASSUME NEW x \in Ptrs, NEW y \in Ptrs, NEW z \in Ptrs, Used(y, z) <= Used(x, z)
    PROVE  Used(x, y) = Used(x, z) - Used(y, z)
<1>1. /\ Used(x, z) = IF z <= x THEN x - z ELSE x - z + PtrMod
      /\ Used(y, z) = IF z <= y THEN y - z ELSE y - z + PtrMod
      /\ Used(x, y) = IF y <= x THEN x - y ELSE x - y + PtrMod
  BY Distance
<1> QED
  BY <1>1, ParamAssumption DEF Ptrs

\* A pointer between s and h is no further from z than h, and no closer than s.
LEMMA InBetween ==
    ASSUME NEW p \in Ptrs, NEW s \in Ptrs, NEW h \in Ptrs, NEW z \in Ptrs,
           Used(p, s) <= Used(h, s), Used(s, z) <= Used(h, z)
    PROVE  Used(s, z) <= Used(p, z) /\ Used(p, z) <= Used(h, z)
<1>1. /\ Used(p, s) = IF s <= p THEN p - s ELSE p - s + PtrMod
      /\ Used(h, s) = IF s <= h THEN h - s ELSE h - s + PtrMod
      /\ Used(s, z) = IF z <= s THEN s - z ELSE s - z + PtrMod
      /\ Used(h, z) = IF z <= h THEN h - z ELSE h - z + PtrMod
      /\ Used(p, z) = IF z <= p THEN p - z ELSE p - z + PtrMod
  BY Distance
<1> QED
  BY <1>1, ParamAssumption DEF Ptrs

\* How many places of the table after f an entry is.
After(f, i) == (i - f) % OpTableSize

LEMMA AfterIs ==
    ASSUME NEW f \in Ops, NEW i \in Ops
    PROVE  /\ After(f, i) = IF f <= i THEN i - f ELSE i - f + OpTableSize
           /\ NextOp(i) = IF i + 1 = OpTableSize THEN 0 ELSE i + 1
<1>1. /\ OpTableSize \in Nat /\ OpTableSize > 0 /\ i \in Int /\ f \in Int
      /\ i - f \in Int /\ i + 1 \in Int
      /\ 0 <= i /\ i < OpTableSize /\ 0 <= f /\ f < OpTableSize
  BY ParamAssumption DEF Ops
<1> DEFINE d == (i - f) % OpTableSize
           n == (i + 1) % OpTableSize
<1>2. /\ 0 <= i - f /\ i - f < OpTableSize => d = i - f
      /\ -OpTableSize <= i - f /\ i - f < 0 => d = i - f + OpTableSize
  BY <1>1, Around
<1>3. /\ 0 <= i + 1 /\ i + 1 < OpTableSize => n = i + 1
      /\ i + 1 = OpTableSize => n = 0
  BY <1>1, Around
<1>4. After(f, i) = d /\ NextOp(i) = n
  BY DEF After, NextOp
<1> HIDE DEF d, n
<1>5. d = IF f <= i THEN i - f ELSE i - f + OpTableSize
  BY <1>1, <1>2
<1>6. n = IF i + 1 = OpTableSize THEN 0 ELSE i + 1
  BY <1>1, <1>3
<1> QED
  BY <1>4, <1>5, <1>6, Zenon

\* Entries have different ages, below the size of the table; the next one is one older.
LEMMA Ages ==
    ASSUME NEW f \in Ops
    PROVE  /\ \A i \in Ops : After(f, i) \in Nat /\ After(f, i) < OpTableSize
           /\ \A i, k \in Ops : After(f, i) = After(f, k) => i = k
           /\ After(f, f) = 0
           /\ \A i \in Ops : NextOp(i) \in Ops
           /\ \A i \in Ops : After(f, NextOp(i)) = IF After(f, i) = OpTableSize - 1 THEN 0
                                                   ELSE After(f, i) + 1
           /\ \A i \in Ops : After(NextOp(f), i) = IF i = f THEN OpTableSize - 1
                                                   ELSE After(f, i) - 1
<1>1. OpTableSize \in Nat /\ OpTableSize > 0 /\ Ops = 0..OpTableSize - 1
  BY ParamAssumption DEF Ops
<1>2. \A i \in Ops : NextOp(i) \in Ops
  BY Wraps
<1>3. ASSUME NEW i \in Ops
      PROVE  /\ After(f, i) = IF f <= i THEN i - f ELSE i - f + OpTableSize
             /\ NextOp(i) = IF i + 1 = OpTableSize THEN 0 ELSE i + 1
             /\ After(f, NextOp(i)) = IF f <= NextOp(i) THEN NextOp(i) - f
                                      ELSE NextOp(i) - f + OpTableSize
             /\ NextOp(f) = IF f + 1 = OpTableSize THEN 0 ELSE f + 1
             /\ After(NextOp(f), i) = IF NextOp(f) <= i THEN i - NextOp(f)
                                      ELSE i - NextOp(f) + OpTableSize
  BY <1>2, AfterIs
<1>4. ASSUME NEW i \in Ops
      PROVE  /\ After(f, i) \in Nat /\ After(f, i) < OpTableSize
             /\ After(f, NextOp(i)) = IF After(f, i) = OpTableSize - 1 THEN 0 ELSE After(f, i) + 1
             /\ After(NextOp(f), i) = IF i = f THEN OpTableSize - 1 ELSE After(f, i) - 1
  <2>1. /\ OpTableSize \in Int /\ i \in Int /\ f \in Int
        /\ 0 <= i /\ i < OpTableSize /\ 0 <= f /\ f < OpTableSize
    BY <1>1
  <2>2. After(f, i) \in Nat /\ After(f, i) < OpTableSize
    BY <1>3, <2>1
  <2>3. After(f, NextOp(i)) = IF After(f, i) = OpTableSize - 1 THEN 0 ELSE After(f, i) + 1
    BY <1>3, <2>1
  <2>4. After(NextOp(f), i) = IF i = f THEN OpTableSize - 1 ELSE After(f, i) - 1
    BY <1>3, <2>1
  <2> QED
    BY <2>2, <2>3, <2>4
<1>5. ASSUME NEW i \in Ops, NEW k \in Ops, After(f, i) = After(f, k) PROVE i = k
  <2>1. /\ After(f, i) = IF f <= i THEN i - f ELSE i - f + OpTableSize
        /\ After(f, k) = IF f <= k THEN k - f ELSE k - f + OpTableSize
    BY <1>3
  <2>2. /\ OpTableSize \in Int /\ i \in Int /\ k \in Int /\ f \in Int
        /\ 0 <= i /\ i < OpTableSize /\ 0 <= k /\ k < OpTableSize
    BY <1>1
  <2> DEFINE a == After(f, i)
             b == After(f, k)
  <2>3. /\ a = IF f <= i THEN i - f ELSE i - f + OpTableSize
        /\ b = IF f <= k THEN k - f ELSE k - f + OpTableSize
        /\ a = b
    BY <1>5, <2>1, Zenon
  <2> HIDE DEF a, b
  <2> QED
    BY <2>2, <2>3
<1>6. After(f, f) = 0
  <2>1. After(f, f) = IF f <= f THEN f - f ELSE f - f + OpTableSize
    BY <1>3
  <2> QED
    BY <1>1, <2>1
<1> QED
  BY <1>2, <1>4, <1>5, <1>6


-----------------------------------------------------------------------------
(* The slots of one queue. *)

\* The entries S, which end at P and are A old, have the slots behind h, of which the
\* first c are on their way to the head; t is the tail.
Fits(h, t, c, S, P, A) ==
    /\ \A i, k \in S : A[i] < A[k] => Used(P[i], t) < Used(P[k], t)
    /\ \E n \in Used(h, t) + c..Size :
          /\ \A i \in S : Used(P[i], t) \in Used(h, t) + c + 1..n
          /\ \A d \in Used(h, t) + c + 1..n : \E i \in S : Used(P[i], t) = d

\* Entries that stay, in the order they had.
LEMMA FitsSame ==
    ASSUME NEW h, NEW t, NEW c, NEW S, NEW P, NEW A, Fits(h, t, c, S, P, A), NEW Q, NEW B,
           \A i \in S : Q[i] = P[i], \A i, k \in S : B[i] < B[k] => A[i] < A[k]
    PROVE  Fits(h, t, c, S, Q, B)
<1>1. \A i, k \in S : B[i] < B[k] => Used(Q[i], t) < Used(Q[k], t)
  BY DEF Fits
<1>2. PICK n \in Used(h, t) + c..Size :
          /\ \A i \in S : Used(P[i], t) \in Used(h, t) + c + 1..n
          /\ \A d \in Used(h, t) + c + 1..n : \E i \in S : Used(P[i], t) = d
  BY DEF Fits
<1>3. /\ \A i \in S : Used(Q[i], t) \in Used(h, t) + c + 1..n
      /\ \A d \in Used(h, t) + c + 1..n : \E i \in S : Used(Q[i], t) = d
  BY <1>2
<1> QED
  BY <1>1, <1>2, <1>3 DEF Fits

\* The committed entry reaches the head.
LEMMA FitsCommit ==
    ASSUME NEW h \in Ptrs, NEW t \in Ptrs, NEW S, NEW P, NEW A, Fits(h, t, 1, S, P, A)
    PROVE  /\ Fits((h + 1) % PtrMod, t, 0, S, P, A)
           /\ Used((h + 1) % PtrMod, t) = Used(h, t) + 1
<1>1. PICK n \in Used(h, t) + 1..Size :
          /\ \A i \in S : Used(P[i], t) \in Used(h, t) + 1 + 1..n
          /\ \A d \in Used(h, t) + 1 + 1..n : \E i \in S : Used(P[i], t) = d
  BY DEF Fits
<1> DEFINE g == (h + 1) % PtrMod
<1>2. Used(h, t) \in Nat /\ Used(h, t) + 1 < PtrMod
  BY <1>1, Distances, ParamAssumption
<1>3. Used(g, t) = Used(h, t) + 1
  BY <1>2, Further
<1> HIDE DEF g
<1>4. /\ n \in Used(g, t) + 0..Size
      /\ \A i \in S : Used(P[i], t) \in Used(g, t) + 0 + 1..n
      /\ \A d \in Used(g, t) + 0 + 1..n : \E i \in S : Used(P[i], t) = d
  BY <1>1, <1>2, <1>3
<1>5. Fits(g, t, 0, S, P, A)
  BY <1>4 DEF Fits
<1> QED
  BY <1>3, <1>5 DEF g

\* The oldest entry is on its way: its slot is the one at the head.
LEMMA FitsFinish ==
    ASSUME NEW h \in Ptrs, NEW t \in Ptrs, NEW S \in SUBSET Ops, NEW P \in [Ops -> Ptrs], NEW A,
           Fits(h, t, 0, S, P, A), NEW o \in S, \A i \in S \ {o} : A[o] < A[i]
    PROVE  P[o] = (h + 1) % PtrMod /\ Fits(h, t, 1, S \ {o}, P, A)
<1>1. PICK n \in Used(h, t) + 0..Size :
          /\ \A i \in S : Used(P[i], t) \in Used(h, t) + 0 + 1..n
          /\ \A d \in Used(h, t) + 0 + 1..n : \E i \in S : Used(P[i], t) = d
  BY DEF Fits
<1> DEFINE u == Used(h, t)
<1>2. u \in Nat /\ Size \in Nat /\ Size < PtrMod /\ PtrMod \in Nat
  BY Distances, ParamAssumption
<1>3. n \in Nat /\ u <= n /\ n <= Size
  BY <1>1, <1>2
<1>4. \A i \in S : Used(P[i], t) \in Nat /\ u + 1 <= Used(P[i], t) /\ Used(P[i], t) <= n
  BY <1>1, <1>2, <1>3
<1>5. \A d \in u + 1..n : \E i \in S : Used(P[i], t) = d
  BY <1>1, <1>2
<1>6. \A i \in S \ {o} : Used(P[o], t) < Used(P[i], t)
  BY DEF Fits
<1>7. Used(P[o], t) = u + 1
  <2>1. u + 1 <= n
    BY <1>2, <1>3, <1>4
  <2>2. PICK i \in S : Used(P[i], t) = u + 1
    BY <1>2, <1>3, <1>5, <2>1
  <2> QED
    BY <1>2, <1>4, <1>6, <2>2
<1>8. P[o] = (h + 1) % PtrMod
  <2>1. u + 1 < PtrMod
    BY <1>2, <1>3, <1>4, <1>7
  <2>2. ((h + 1) % PtrMod) \in Ptrs /\ Used((h + 1) % PtrMod, t) = u + 1
    BY <2>1, Further
  <2>3. P[o] \in Ptrs
    OBVIOUS
  <2> QED
    BY <1>7, <2>2, <2>3, Distances
<1>9. Fits(h, t, 1, S \ {o}, P, A)
  <2>1. \A i, k \in S \ {o} : A[i] < A[k] => Used(P[i], t) < Used(P[k], t)
    BY DEF Fits
  <2>2. n \in u + 1..Size
    BY <1>2, <1>3, <1>4, <1>7
  <2>3. \A i \in S \ {o} : Used(P[i], t) \in u + 1 + 1..n
    BY <1>2, <1>3, <1>4, <1>6, <1>7
  <2>4. ASSUME NEW d \in u + 1 + 1..n PROVE \E i \in S \ {o} : Used(P[i], t) = d
    <3>1. d \in u + 1..n /\ d # u + 1
      BY <1>2, <1>3
    <3> QED
      BY <1>5, <1>7, <3>1
  <2> QED
    BY <2>1, <2>2, <2>3, <2>4 DEF Fits
<1> QED
  BY <1>8, <1>9

\* A new entry, younger than all, gets the slot behind the youngest if the queue has room.
LEMMA FitsGrow ==
    ASSUME NEW h \in Ptrs, NEW t \in Ptrs, NEW S \in SUBSET Ops, NEW P \in [Ops -> Ptrs], NEW A,
           Fits(h, t, 0, S, P, A), NEW top \in Ptrs, Used(top, t) < Size,
           S = {} => top = h,
           \A y \in S : (\A i \in S \ {y} : A[i] < A[y]) => top = P[y],
           S # {} => \E y \in S : \A i \in S \ {y} : A[i] < A[y],
           NEW s \in Ops, s \notin S,
           NEW Q, Q[s] = (top + 1) % PtrMod, \A i \in S : Q[i] = P[i],
           NEW B, \A i \in S : B[i] < B[s] /\ ~(B[s] < B[i]), ~(B[s] < B[s]),
           \A i, k \in S : B[i] < B[k] => A[i] < A[k]
    PROVE  Fits(h, t, 0, S \cup {s}, Q, B)
<1>1. PICK n \in Used(h, t) + 0..Size :
          /\ \A i \in S : Used(P[i], t) \in Used(h, t) + 0 + 1..n
          /\ \A d \in Used(h, t) + 0 + 1..n : \E i \in S : Used(P[i], t) = d
  BY DEF Fits
<1> DEFINE u == Used(h, t)
<1>2. u \in Nat /\ Size \in Nat /\ Size < PtrMod /\ PtrMod \in Nat
  BY Distances, ParamAssumption
<1>3. n \in Nat /\ u <= n /\ n <= Size
  BY <1>1, <1>2
<1>4. \A i \in S : Used(P[i], t) \in Nat /\ u + 1 <= Used(P[i], t) /\ Used(P[i], t) <= n
  BY <1>1, <1>2, <1>3
<1>5. \A d \in u + 1..n : \E i \in S : Used(P[i], t) = d
  BY <1>1, <1>2
<1>6. Used(top, t) = n
  <2>1. CASE S = {}
    <3>1. ~(u + 1 <= n)
      BY <1>2, <1>3, <1>5, <2>1
    <3> QED
      BY <1>2, <1>3, <2>1, <3>1
  <2>2. CASE S # {}
    <3>1. PICK y \in S : \A i \in S \ {y} : A[i] < A[y]
      BY <2>2
    <3>2. top = P[y]
      BY <3>1
    <3>3. \A i \in S \ {y} : Used(P[i], t) < Used(P[y], t)
      BY <3>1 DEF Fits
    <3>4. u + 1 <= n
      BY <1>2, <1>3, <1>4
    <3>5. PICK i \in S : Used(P[i], t) = n
      BY <1>2, <1>3, <1>5, <3>4
    <3> QED
      BY <1>3, <1>4, <3>2, <3>3, <3>5
  <2> QED
    BY <2>1, <2>2
<1>7. Used(Q[s], t) = n + 1 /\ n + 1 <= Size
  BY <1>2, <1>3, <1>6, Further
<1>8. \A i, k \in S \cup {s} : B[i] < B[k] => Used(Q[i], t) < Used(Q[k], t)
  <2>1. \A i, k \in S : B[i] < B[k] => Used(Q[i], t) < Used(Q[k], t)
    BY DEF Fits
  <2>2. \A i \in S : Used(Q[i], t) < Used(Q[s], t)
    BY <1>3, <1>4, <1>7
  <2> QED
    BY <2>1, <2>2
<1>9. n + 1 \in u + 0..Size
  BY <1>2, <1>3, <1>7
<1>10. \A i \in S \cup {s} : Used(Q[i], t) \in u + 0 + 1..n + 1
  BY <1>2, <1>3, <1>4, <1>7
<1>11. ASSUME NEW d \in u + 0 + 1..n + 1 PROVE \E i \in S \cup {s} : Used(Q[i], t) = d
  <2>1. d = n + 1 \/ d \in u + 1..n
    BY <1>2, <1>3
  <2> QED
    BY <1>5, <1>7, <2>1
<1> QED
  BY <1>8, <1>9, <1>10, <1>11 DEF Fits

\* The tail moves up to a place that is not behind the head.
LEMMA FitsTail ==
    ASSUME NEW h \in Ptrs, NEW t \in Ptrs, NEW c \in {0, 1}, NEW S \in SUBSET Ops,
           NEW P \in [Ops -> Ptrs], NEW A,
           Fits(h, t, c, S, P, A), NEW x \in Ptrs, Used(x, t) <= Used(h, t)
    PROVE  Fits(h, x, c, S, P, A)
<1>1. PICK n \in Used(h, t) + c..Size :
          /\ \A i \in S : Used(P[i], t) \in Used(h, t) + c + 1..n
          /\ \A d \in Used(h, t) + c + 1..n : \E i \in S : Used(P[i], t) = d
  BY DEF Fits
<1> DEFINE u == Used(h, t)
           v == Used(x, t)
<1>2. u \in Nat /\ v \in Nat /\ v <= u /\ Size \in Nat
  BY Distances, ParamAssumption
<1>3. n \in Nat /\ u + c <= n /\ n <= Size
  BY <1>1, <1>2
<1>4. \A i \in S : Used(P[i], t) \in Nat /\ u + c + 1 <= Used(P[i], t) /\ Used(P[i], t) <= n
  BY <1>1, <1>2, <1>3
<1>5. Used(h, x) = u - v
  BY Rebase
<1>6. ASSUME NEW i \in S PROVE Used(P[i], x) = Used(P[i], t) - v
  <2>1. P[i] \in Ptrs /\ Used(x, t) <= Used(P[i], t)
    BY <1>2, <1>4
  <2> QED
    BY <2>1, Rebase
<1>7. \A i, k \in S : A[i] < A[k] => Used(P[i], x) < Used(P[k], x)
  <2> SUFFICES ASSUME NEW i \in S, NEW k \in S, A[i] < A[k] PROVE Used(P[i], x) < Used(P[k], x)
    OBVIOUS
  <2>1. Used(P[i], t) < Used(P[k], t)
    BY DEF Fits
  <2> QED
    BY <1>2, <1>4, <1>6, <2>1
<1>8. n - v \in Used(h, x) + c..Size
  BY <1>2, <1>3, <1>5
<1>9. \A i \in S : Used(P[i], x) \in Used(h, x) + c + 1..n - v
  BY <1>2, <1>3, <1>4, <1>5, <1>6
<1>10. ASSUME NEW d \in Used(h, x) + c + 1..n - v PROVE \E i \in S : Used(P[i], x) = d
  <2>1. d + v \in Used(h, t) + c + 1..n
    BY <1>2, <1>3, <1>5
  <2>2. PICK i \in S : Used(P[i], t) = d + v
    BY <1>1, <2>1
  <2>3. d \in Int
    BY <1>2, <1>3, <1>5
  <2> QED
    BY <1>2, <1>6, <2>2, <2>3
<1> QED
  BY <1>7, <1>8, <1>9, <1>10 DEF Fits

\* A queue without slots fits wherever its head is, up to its size.
LEMMA FitsEmpty ==
    ASSUME NEW h \in Ptrs, NEW t \in Ptrs, NEW P, NEW A, Used(h, t) <= Size
    PROVE  Fits(h, t, 0, {}, P, A)
<1>1. Used(h, t) \in Nat /\ Size \in Nat
  BY Distances, ParamAssumption
<1>2. Used(h, t) \in Used(h, t) + 0..Size /\ (Used(h, t) + 0 + 1..Used(h, t)) = {}
  BY <1>1
<1> QED
  BY <1>2 DEF Fits

\* The head of a queue is no further from its tail than the size.
LEMMA FitsBounded ==
    ASSUME NEW h \in Ptrs, NEW t \in Ptrs, NEW c \in {0, 1}, NEW S, NEW P, NEW A,
           Fits(h, t, c, S, P, A)
    PROVE  Used(h, t) + c <= Size
<1>1. PICK n : n \in Used(h, t) + c..Size
  BY DEF Fits
<1>2. Used(h, t) \in Nat /\ Size \in Nat
  BY Distances, ParamAssumption
<1> QED
  BY <1>1, <1>2


-----------------------------------------------------------------------------
(* What a clock edge does, part by part. *)

\* Operation e enters, the others move on, and the table follows.
Moves(e) ==
    /\ pipe'[0] = e /\ \A j \in Stages : j # 0 => pipe'[j] = pipe[j - 1]
    /\ e.op # "none" => ~Hazard(e.queue)
    /\ e.op = "req" => ~InPipe("req") /\ ~table[startPtr].active
    /\ e.op = "write" => ~InPipe("write") /\ wr # None /\ e.queue = wr.queue /\ e.data = wr
    /\ e.op = "commit" => /\ table[finishPtr].active
                          /\ e.queue = table[finishPtr].queue /\ e.data = table[finishPtr].ptr
    /\ wrReady' <=> e.op = "write"
    /\ \A i \in Ops :
          /\ table'[i].active <=> \/ table[i].active /\ ~(e.op = "commit" /\ i = finishPtr)
                                  \/ StartEn /\ i = startPtr
          /\ ~(StartEn /\ i = startPtr) =>
                table'[i].queue = table[i].queue /\ table'[i].ptr = table[i].ptr
    /\ StartEn => /\ table'[startPtr].queue = cur.queue
                  /\ table'[startPtr].ptr = (ActiveHead(cur.queue, cur.word) + 1) % PtrMod
    /\ startPtr' = IF StartEn THEN NextOp(startPtr) ELSE startPtr
    /\ finishPtr' = IF e.op = "commit" THEN NextOp(finishPtr) ELSE finishPtr

LEMMA TickMoves ==
    ASSUME TypeOK, NEW respReady, NEW bReady, NEW rReady, NEW tag,
           Tick(respReady, bReady, rReady, tag)
    PROVE  \E e : Moves(e)
<1> DEFINE w == AcceptWrite(bReady)
           r == AcceptRead(bReady, rReady)
           c == AcceptCommit(bReady, rReady)
           a == AcceptReq(bReady, rReady, respReady)
           oldest == table[finishPtr]
<1>1. PICK e : /\ Shift(e)
               /\ \/ w /\ e = Stage("write", wr.queue, wr)
                  \/ r /\ e = Stage("read", rd, None)
                  \/ c /\ e = Stage("commit", oldest.queue, oldest.ptr)
                  \/ a /\ e = Stage("req", req, None)
                  \/ ~w /\ ~r /\ ~c /\ ~a /\ e = Idle
  BY DEF Tick, Enter
<1>2. /\ w => ~r /\ ~c /\ ~a
      /\ r => ~c /\ ~a
      /\ c => ~a
  BY DEF AcceptRead, AcceptCommit, AcceptReq
<1>3. /\ \A q, d : /\ Stage("write", q, d).op = "write" /\ Stage("read", q, d).op = "read"
                   /\ Stage("commit", q, d).op = "commit" /\ Stage("req", q, d).op = "req"
      /\ \A o, q, d : Stage(o, q, d).queue = q /\ Stage(o, q, d).data = d
      /\ Idle.op = "none"
  BY DEF Stage, Idle
<1>4. /\ w => wr # None /\ ~InPipe("write") /\ ~Hazard(wr.queue)
      /\ r => ~Hazard(rd)
      /\ c => oldest.active /\ ~Hazard(oldest.queue)
      /\ a => ~InPipe("req") /\ ~Hazard(req) /\ ~table[startPtr].active
  BY DEF AcceptWrite, AcceptRead, AcceptCommit, AcceptReq
<1>5. /\ wrReady' <=> w
      /\ Tables(c, tag)
  BY DEF Tick
<1> HIDE DEF w, r, c, a, oldest
<1>6. (e.op = "write" <=> w) /\ (e.op = "commit" <=> c)
  BY <1>1, <1>2, <1>3
<1>7. /\ e.op # "none" => ~Hazard(e.queue)
      /\ e.op = "req" => ~InPipe("req") /\ ~table[startPtr].active
      /\ e.op = "write" => ~InPipe("write") /\ wr # None /\ e.queue = wr.queue /\ e.data = wr
      /\ e.op = "commit" => oldest.active /\ e.queue = oldest.queue /\ e.data = oldest.ptr
  BY <1>1, <1>2, <1>3, <1>4
<1>8. pipe'[0] = e /\ \A j \in Stages : j # 0 => pipe'[j] = pipe[j - 1]
  BY <1>1, StageFacts DEF Shift
<1>9. \A i \in Ops :
          /\ table'[i].active <=> \/ table[i].active /\ ~(c /\ i = finishPtr)
                                  \/ StartEn /\ i = startPtr
          /\ ~(StartEn /\ i = startPtr) =>
                table'[i].queue = table[i].queue /\ table'[i].ptr = table[i].ptr
          /\ StartEn /\ i = startPtr =>
                /\ table'[i].queue = cur.queue
                /\ table'[i].ptr = (ActiveHead(cur.queue, cur.word) + 1) % PtrMod
  BY <1>5 DEF Tables
<1>10. /\ startPtr' = IF StartEn THEN NextOp(startPtr) ELSE startPtr
       /\ finishPtr' = IF c THEN NextOp(finishPtr) ELSE finishPtr
  BY <1>5 DEF Tables
<1>11. startPtr \in Ops
  BY DEF TypeOK
<1>12. \A i \in Ops :
          /\ table'[i].active <=> \/ table[i].active /\ ~(e.op = "commit" /\ i = finishPtr)
                                  \/ StartEn /\ i = startPtr
          /\ ~(StartEn /\ i = startPtr) =>
                table'[i].queue = table[i].queue /\ table'[i].ptr = table[i].ptr
  BY <1>6, <1>9
<1>13. StartEn => /\ table'[startPtr].queue = cur.queue
                  /\ table'[startPtr].ptr = (ActiveHead(cur.queue, cur.word) + 1) % PtrMod
  BY <1>9, <1>11
<1> QED
  BY <1>5, <1>6, <1>7, <1>8, <1>10, <1>12, <1>13 DEF Moves, oldest

\* What the operation at the last stage does to the word of queue q.
Performs(q) ==
    /\ ram'[q].op = IF StartEn /\ cur.queue = q THEN startPtr ELSE ram[q].op
    /\ ~(cur.op \in {"commit", "write"} /\ cur.queue = q) =>
          ram'[q].head = ram[q].head /\ ram'[q].tail = ram[q].tail /\ ram'[q].active = ram[q].active
    /\ cur.op = "commit" /\ cur.queue = q => ram'[q].head = cur.data /\ ram'[q].tail = ram[q].tail
    /\ cur.op = "write" /\ cur.queue = q =>
          /\ ram'[q].tail = IF cur.data.reg = "tail" THEN cur.data.data ELSE ram[q].tail
          /\ ram'[q].head = IF cur.data.reg = "head" /\ ~ram[q].active THEN cur.data.data
                            ELSE ram[q].head

LEMMA TickPerforms ==
    ASSUME TypeOK, Inv, NEW respReady, NEW bReady, NEW rReady,
           Execute(respReady, bReady, rReady), NEW q \in Queues
    PROVE  Performs(q)
<1>1. ram \in [Queues -> Words] /\ cur \in Operations /\ ram[q] \in Words
  BY StageFacts DEF TypeOK, cur, Operations
<1>2. /\ cur.op # "none" => cur.queue \in Queues /\ cur.word = ram[cur.queue]
      /\ cur.op = "write" => cur.data \in Writes
      /\ cur.op = "commit" => cur.data \in Ptrs
  BY <1>1, Carried, StageFacts DEF Inv, Coherent, cur
<1>3. StartEn => cur.op = "req"
  BY DEF StartEn
<1>4. CASE ExecReq
  BY <1>1, <1>3, <1>4 DEF ExecReq, Performs, Words
<1>5. CASE ExecCommit
  <2>1. cur.op = "commit" /\ cur.queue \in Queues
    BY <1>2, <1>5 DEF ExecCommit
  <2>2. /\ q # cur.queue => ram'[q] = ram[q]
        /\ q = cur.queue => /\ ram'[q].head = cur.data /\ ram'[q].tail = ram[q].tail
                            /\ ram'[q].op = ram[q].op
    BY <1>1, <1>5, <2>1 DEF ExecCommit, Words
  <2> QED
    BY <1>3, <2>1, <2>2 DEF Performs
<1>6. CASE ExecWrite
  <2> DEFINE new == Written(cur.data, cur.word, ram[cur.queue])
  <2>1. cur.op = "write" /\ cur.queue \in Queues /\ cur.data \in Writes /\ cur.word = ram[cur.queue]
    BY <1>2, <1>6 DEF ExecWrite
  <2>2. ram' = [ram EXCEPT ![cur.queue] = new]
    BY <1>6 DEF ExecWrite
  <2>3. /\ new.op = ram[cur.queue].op
        /\ new.tail = IF cur.data.reg = "tail" THEN cur.data.data ELSE ram[cur.queue].tail
        /\ new.head = IF cur.data.reg = "head" /\ ~cur.word.active THEN cur.data.data
                      ELSE ram[cur.queue].head
    <3>1. ram[cur.queue] \in Words
      BY <1>1, <2>1
    <3>2. cur.data.reg \in {"tail", "head", "active", "arm"}
      BY <2>1 DEF Writes
    <3>3. CASE cur.data.reg = "tail"
      BY <3>1, <3>3 DEF Written, Words
    <3>4. CASE cur.data.reg = "head"
      BY <3>1, <3>4 DEF Written, Words
    <3>5. CASE cur.data.reg = "active"
      BY <3>1, <3>5 DEF Written, Words
    <3>6. CASE cur.data.reg = "arm"
      BY <3>1, <3>6 DEF Written, Words
    <3> QED
      BY <3>2, <3>3, <3>4, <3>5, <3>6
  <2> HIDE DEF new
  <2>4. (q # cur.queue => ram'[q] = ram[q]) /\ (q = cur.queue => ram'[q] = new)
    BY <1>1, <2>1, <2>2
  <2> QED
    BY <1>3, <2>1, <2>3, <2>4 DEF Performs
<1>7. CASE cur.op \in {"read", "none"} /\ UNCHANGED ram
  BY <1>3, <1>7 DEF Performs
<1> QED
  BY <1>4, <1>5, <1>6, <1>7 DEF Execute


-----------------------------------------------------------------------------
(* The operation table is a window that moves on, and the words know its youngest entries. *)

\* The entries in use are those from finishPtr up to startPtr; a request is in the pipeline
\* only while there is one left for it.
Window ==
    /\ InPipe("req") => ~table[startPtr].active
    /\ IF table[startPtr].active THEN startPtr = finishPtr /\ \A i \in Ops : table[i].active
       ELSE \A i \in Ops : table[i].active <=> Age(i) < Age(startPtr)

\* The word of a queue names its youngest entry as long as it has one.
Youngest ==
    \A q \in Queues : Mine(q) # {} =>
        ram[q].op \in Mine(q) /\ \A k \in Mine(q) : Age(k) <= Age(ram[q].op)

LEMMA AgeIs == \A i : Age(i) = After(finishPtr, i)
BY DEF Age, After

\* A request at the last stage is the only one, and finds its entry unused.
LEMMA StartsUnused ==
    ASSUME TypeOK, Inv, Window, NEW e, Moves(e), StartEn
    PROVE  /\ cur.op = "req" /\ cur.queue \in Queues /\ ~table[startPtr].active
           /\ ~InPipe("req")'
<1>1. cur.op = "req" /\ InPipe("req")
  BY StageFacts DEF StartEn, InPipe, cur
<1>2. cur.queue \in Queues
  BY <1>1, StageFacts DEF Inv, Shape, cur
<1>3. ASSUME NEW j \in Stages PROVE pipe'[j].op # "req"
  <2>1. CASE j = 0
    BY <1>1, <2>1 DEF Moves
  <2>2. CASE j # 0
    <3>1. pipe'[j] = pipe[j - 1] /\ j - 1 \in Stages /\ j - 1 # Last
      BY <2>2, StageFacts DEF Moves
    <3> QED
      BY <1>1, <3>1, StageFacts DEF Inv, OneOpPerPort, cur
  <2> QED
    BY <2>1, <2>2
<1> QED
  BY <1>1, <1>2, <1>3 DEF Window, InPipe

LEMMA WindowMoves ==
    ASSUME TypeOK, Inv, Window, NEW e, Moves(e)
    PROVE  Window'
<1> DEFINE N == OpTableSize
           f == finishPtr
           s == startPtr
           A(i) == After(f, i)
           fin == e.op = "commit"
<1>1. /\ f \in Ops /\ s \in Ops /\ N \in Nat /\ N > 0
  BY ParamAssumption DEF TypeOK
<1>2. /\ \A i \in Ops : A(i) \in Nat /\ A(i) < N
      /\ \A i, k \in Ops : A(i) = A(k) => i = k
      /\ A(f) = 0 /\ NextOp(s) \in Ops /\ NextOp(f) \in Ops
      /\ A(NextOp(s)) = IF A(s) = N - 1 THEN 0 ELSE A(s) + 1
      /\ \A i \in Ops : After(NextOp(f), i) = IF i = f THEN N - 1 ELSE A(i) - 1
  BY <1>1, Ages
<1>3. IF table[s].active THEN s = f /\ \A i \in Ops : table[i].active
      ELSE \A i \in Ops : table[i].active <=> A(i) < A(s)
  BY AgeIs DEF Window
<1>4. /\ \A i \in Ops : table'[i].active <=> \/ table[i].active /\ ~(fin /\ i = f)
                                             \/ StartEn /\ i = s
      /\ startPtr' = IF StartEn THEN NextOp(s) ELSE s
      /\ finishPtr' = IF fin THEN NextOp(f) ELSE f
      /\ fin => table[f].active
  BY DEF Moves
<1>5. StartEn => ~table[s].active /\ ~InPipe("req")'
  BY StartsUnused
<1>6. (InPipe("req") => ~table[startPtr].active)'
  <2>1. CASE StartEn
    BY <1>5, <2>1
  <2>2. CASE ~StartEn
    <3>1. ASSUME InPipe("req")' PROVE InPipe("req") \/ e.op = "req"
      <4>1. PICK j \in Stages : pipe'[j].op = "req"
        BY <3>1 DEF InPipe
      <4>2. j # 0 => pipe'[j] = pipe[j - 1] /\ j - 1 \in Stages
        BY StageFacts DEF Moves
      <4>3. j = 0 => pipe'[j] = e
        BY DEF Moves
      <4> QED
        BY <4>1, <4>2, <4>3 DEF InPipe
    <3>2. InPipe("req")' => ~table[s].active
      BY <3>1 DEF Window, Moves
    <3> QED
      BY <1>1, <1>4, <2>2, <3>2
  <2> QED
    BY <2>1, <2>2
<1> DEFINE B(i) == After(finishPtr', i)
           on(i) == table'[i].active
<1>7. IF on(startPtr') THEN startPtr' = finishPtr' /\ \A i \in Ops : on(i)
      ELSE \A i \in Ops : on(i) <=> B(i) < B(startPtr')
  <2>1. CASE ~fin /\ ~StartEn
    BY <1>1, <1>3, <1>4, <2>1
  <2>2. CASE ~fin /\ StartEn
    <3>1. startPtr' = NextOp(s) /\ finishPtr' = f /\ \A i \in Ops : on(i) <=> A(i) < A(s) \/ i = s
      BY <1>1, <1>3, <1>4, <1>5, <2>2
    <3>2. CASE A(s) = N - 1
      <4>1. NextOp(s) = f
        BY <1>1, <1>2, <3>2
      <4>2. \A i \in Ops : A(i) < A(s) \/ i = s
        BY <1>1, <1>2, <3>2
      <4> QED
        BY <1>1, <3>1, <4>1, <4>2
    <3>3. CASE A(s) # N - 1
      <4>1. A(NextOp(s)) = A(s) + 1
        BY <1>2, <3>3
      <4>2. \A i \in Ops : A(i) < A(s) \/ i = s <=> A(i) < A(NextOp(s))
        BY <1>1, <1>2, <4>1
      <4> QED
        BY <1>2, <3>1, <4>1, <4>2
    <3> QED
      BY <3>2, <3>3
  <2>3. CASE fin /\ ~StartEn
    <3>1. startPtr' = s /\ finishPtr' = NextOp(f) /\ \A i \in Ops : on(i) <=> table[i].active /\ i # f
      BY <1>1, <1>4, <2>3
    <3>2. CASE table[s].active
      <4>1. s = f /\ \A i \in Ops : on(i) <=> i # f
        BY <1>3, <3>1, <3>2
      <4>2. \A i \in Ops : i # f <=> B(i) < B(s)
        BY <1>1, <1>2, <3>1, <4>1
      <4> QED
        BY <1>1, <3>1, <4>1, <4>2
    <3>3. CASE ~table[s].active
      <4>1. s # f /\ ~on(s) /\ \A i \in Ops : on(i) <=> A(i) < A(s) /\ i # f
        BY <1>1, <1>3, <1>4, <2>3, <3>1, <3>3
      <4>2. \A i \in Ops : A(i) < A(s) /\ i # f <=> B(i) < B(s)
        BY <1>1, <1>2, <3>1, <4>1
      <4> QED
        BY <1>1, <3>1, <4>1, <4>2
    <3> QED
      BY <3>2, <3>3
  <2>4. CASE fin /\ StartEn
    <3>1. /\ startPtr' = NextOp(s) /\ finishPtr' = NextOp(f) /\ s # f
          /\ \A i \in Ops : on(i) <=> (A(i) < A(s) /\ i # f) \/ i = s
      BY <1>1, <1>3, <1>4, <1>5, <2>4
    <3>2. B(NextOp(s)) = A(s)
      BY <1>1, <1>2, <3>1
    <3>3. \A i \in Ops : (A(i) < A(s) /\ i # f) \/ i = s <=> B(i) < A(s)
      BY <1>1, <1>2, <3>1
    <3> QED
      BY <1>2, <3>1, <3>2, <3>3
  <2> QED
    BY <2>1, <2>2, <2>3, <2>4
<1> HIDE DEF A, B, on, fin, s, f, N
<1>8. (IF table[startPtr].active THEN startPtr = finishPtr /\ \A i \in Ops : table[i].active
       ELSE \A i \in Ops : table[i].active <=> Age(i) < Age(startPtr))'
  BY <1>7 DEF on, B, Age, After
<1> QED
  BY <1>6, <1>8 DEF Window

\* Entries of a queue come and go with its operations.
LEMMA MineMoves ==
    ASSUME TypeOK, Inv, Window, NEW e, Moves(e), NEW q \in Queues
    PROVE  /\ \A i \in Ops :
                 i \in Mine(q)' <=> \/ i \in Mine(q) /\ ~(e.op = "commit" /\ i = finishPtr)
                                    \/ StartEn /\ i = startPtr /\ cur.queue = q
           /\ StartEn => startPtr \notin Mine(q)
           /\ Mine(q) \subseteq Ops /\ Mine(q)' \subseteq Ops
           /\ \A i \in Mine(q) : table'[i].ptr = table[i].ptr
<1>1. StartEn => ~table[startPtr].active
  BY StartsUnused
<1>2. startPtr \in Ops
  BY DEF TypeOK
<1>3. ASSUME NEW i \in Ops
      PROVE  i \in Mine(q)' <=> \/ i \in Mine(q) /\ ~(e.op = "commit" /\ i = finishPtr)
                                \/ StartEn /\ i = startPtr /\ cur.queue = q
  BY <1>1 DEF Moves, Mine
<1>4. \A i \in Mine(q) : table'[i].ptr = table[i].ptr
  BY <1>1 DEF Moves, Mine
<1> QED
  BY <1>1, <1>2, <1>3, <1>4 DEF Mine

\* The order of the entries that stay is kept, and a new one is younger than all.
LEMMA AgesMove ==
    ASSUME TypeOK, Inv, Window, NEW e, Moves(e)
    PROVE  /\ \A i, k \in Ops : ~(e.op = "commit" /\ finishPtr \in {i, k}) =>
                 (After(finishPtr', i) < After(finishPtr', k)
                     <=> After(finishPtr, i) < After(finishPtr, k))
           /\ StartEn => \A i \in Ops : table[i].active /\ ~(e.op = "commit" /\ i = finishPtr) =>
                 After(finishPtr', i) < After(finishPtr', startPtr)
<1> DEFINE N == OpTableSize
           f == finishPtr
           s == startPtr
           A(i) == After(f, i)
           B(i) == After(finishPtr', i)
<1>1. f \in Ops /\ s \in Ops /\ N \in Nat /\ N > 0
  BY ParamAssumption DEF TypeOK
<1>2. /\ \A i \in Ops : A(i) \in Nat /\ A(i) < N
      /\ A(f) = 0
      /\ \A i \in Ops : After(NextOp(f), i) = IF i = f THEN N - 1 ELSE A(i) - 1
  BY <1>1, Ages
<1>3. \A i \in Ops : B(i) = IF e.op # "commit" THEN A(i) ELSE IF i = f THEN N - 1 ELSE A(i) - 1
  BY <1>2 DEF Moves
<1>4. ASSUME StartEn
      PROVE  /\ \A i \in Ops : table[i].active => A(i) < A(s)
             /\ e.op = "commit" => s # f
  BY <1>1, <1>4, AgeIs, StartsUnused DEF Window, Moves
<1> HIDE DEF A, B, N, f, s
<1>5. ASSUME NEW i \in Ops, NEW k \in Ops, ~(e.op = "commit" /\ (i = f \/ k = f))
      PROVE  B(i) < B(k) <=> A(i) < A(k)
  BY <1>2, <1>3, <1>5
<1>6. ASSUME StartEn, NEW i \in Ops, table[i].active, ~(e.op = "commit" /\ i = f)
      PROVE  B(i) < B(s)
  <2>1. A(i) < A(s)
    BY <1>4, <1>6
  <2> QED
    BY <1>1, <1>2, <1>3, <1>4, <1>6, <2>1
<1> QED
  BY <1>5, <1>6 DEF A, B, f, s

LEMMA YoungestMoves ==
    ASSUME TypeOK, Inv, Window, Youngest, NEW e, Moves(e), NEW q \in Queues, Performs(q), Mine(q)' # {}
    PROVE  /\ ram'[q].op \in Mine(q)'
           /\ \A k \in Mine(q)' : After(finishPtr', k) <= After(finishPtr', ram'[q].op)
<1> DEFINE fin == e.op = "commit"
           M == Mine(q)
           W == Mine(q)'
           A(i) == After(finishPtr, i)
           B(i) == After(finishPtr', i)
<1>1. /\ \A i \in Ops : i \in W <=> (i \in M /\ ~(fin /\ i = finishPtr))
                                     \/ (StartEn /\ i = startPtr /\ cur.queue = q)
      /\ M \subseteq Ops /\ W \subseteq Ops /\ finishPtr \in Ops /\ startPtr \in Ops
      /\ \A i \in M : table[i].active
  <2>1. /\ \A i \in Ops : i \in W <=> (i \in M /\ ~(fin /\ i = finishPtr))
                                       \/ (StartEn /\ i = startPtr /\ cur.queue = q)
        /\ M \subseteq Ops /\ W \subseteq Ops
    BY MineMoves
  <2>2. finishPtr \in Ops /\ startPtr \in Ops
    BY DEF TypeOK
  <2>3. \A i \in M : table[i].active
    BY DEF Mine
  <2> QED
    BY <2>1, <2>2, <2>3
<1>2. /\ \A i \in Ops : A(i) \in Nat
      /\ \A i, k \in Ops : A(i) = A(k) => i = k
      /\ A(finishPtr) = 0
      /\ finishPtr' \in Ops
  BY <1>1, Ages DEF Moves
<1>3. \A i \in Ops : B(i) \in Nat
  BY <1>2, Ages
<1>4. /\ \A i, k \in Ops : ~(fin /\ finishPtr \in {i, k}) => (B(i) < B(k) <=> A(i) < A(k))
      /\ StartEn => \A i \in Ops : table[i].active /\ ~(fin /\ i = finishPtr) => B(i) < B(startPtr)
  BY AgesMove
<1>5. M # {} => ram[q].op \in M /\ \A k \in M : A(k) <= A(ram[q].op)
  BY AgeIs DEF Youngest
<1>6. ram'[q].op = IF StartEn /\ cur.queue = q THEN startPtr ELSE ram[q].op
  BY DEF Performs
<1> HIDE DEF fin, M, W, A, B
<1>7. CASE StartEn /\ cur.queue = q
  <2>1. ram'[q].op = startPtr /\ startPtr \in W
    BY <1>1, <1>6, <1>7
  <2>2. ASSUME NEW k \in W PROVE B(k) <= B(startPtr)
    <3>1. k = startPtr \/ B(k) < B(startPtr)
      BY <1>1, <1>4, <1>7
    <3> QED
      BY <1>1, <1>3, <3>1
  <2> QED
    BY <2>1, <2>2 DEF W, B
<1>8. CASE ~(StartEn /\ cur.queue = q)
  <2> DEFINE y == ram[q].op
  <2>1. ram'[q].op = y /\ \A i \in Ops : i \in W <=> i \in M /\ ~(fin /\ i = finishPtr)
    BY <1>1, <1>6, <1>8
  <2>2. PICK i \in W : TRUE
    BY DEF W
  <2>3. i \in M /\ i \in Ops /\ ~(fin /\ i = finishPtr)
    BY <1>1, <2>1
  <2>4. y \in M /\ y \in Ops /\ \A k \in M : A(k) <= A(y)
    BY <1>1, <1>5, <2>3
  <2> HIDE DEF y
  <2>5. ~(fin /\ y = finishPtr)
    BY <1>1, <1>2, <2>3, <2>4
  <2>6. y \in W
    BY <2>1, <2>4, <2>5
  <2>7. ASSUME NEW k \in W PROVE B(k) <= B(y)
    <3>1. k \in M /\ k \in Ops /\ ~(fin /\ k = finishPtr)
      BY <1>1, <2>1
    <3>2. A(k) <= A(y) /\ (B(y) < B(k) <=> A(y) < A(k))
      BY <1>4, <2>4, <2>5, <3>1
    <3> QED
      BY <1>2, <1>3, <2>4, <3>1, <3>2
  <2> QED
    BY <2>1, <2>6, <2>7 DEF W, B
<1> QED
  BY <1>7, <1>8


-----------------------------------------------------------------------------
(* The register writes under way: tails do not pass the head, heads wait for quiet. *)

WritesTo(j, q) == pipe[j].op = "write" /\ pipe[j].queue = q

\* A write is in the pipeline for its own queue, and stays asked for until ready is seen.
WritesKept ==
    /\ \A j \in Stages : pipe[j].op = "write" => pipe[j].data.queue = pipe[j].queue
    /\ wrReady => wr # None /\ pipe[0].op = "write" /\ pipe[0].data = wr

\* From its tail, a queue has first the tails under way, then the last one the driver has
\* written, then its head.
TailsFollow ==
    /\ \A q \in Queues : Ahead(q, sent[q]) <= Ahead(q, ram[q].head)
    /\ \A j \in Stages, q \in Queues : WritesTo(j, q) /\ pipe[j].data.reg = "tail" =>
           Ahead(q, pipe[j].data.data) <= Ahead(q, sent[q])
    /\ wr # None /\ wr.reg = "tail" => wr.data = sent[wr.queue]

\* The head of q may become p: the queue is idle, and p is not behind what was taken.
Rewindable(q, p) ==
    /\ ~ram[q].active /\ Mine(q) = {} /\ ~Committing(q)
    /\ Ahead(q, sent[q]) <= Ahead(q, p) /\ Ahead(q, p) <= Ahead(q, ram[q].head)

HeadsWait ==
    /\ \A j \in Stages, q \in Queues : WritesTo(j, q) /\ pipe[j].data.reg = "head" =>
           Rewindable(q, pipe[j].data.data)
    /\ wr # None /\ ~wrReady /\ wr.reg = "head" =>
           Rewindable(wr.queue, wr.data) /\ \A j \in Stages : ~WritesTo(j, wr.queue)

\* An operation of the pipeline was in it before, before the last stage and of another queue
\* than the one that leaves, or has just entered.
LEMMA PipeMoves ==
    ASSUME Inv, NEW e, Moves(e), NEW j \in Stages
    PROVE  \/ j = 0 /\ pipe'[j] = e
           \/ /\ j # 0 /\ j - 1 \in Stages /\ j - 1 # Last /\ pipe'[j] = pipe[j - 1]
              /\ pipe[j - 1].op # "none" /\ cur.op # "none" => pipe[j - 1].queue # cur.queue
BY StageFacts DEF Moves, Inv, OneOpPerQueue, cur

\* Where nothing of a queue leaves, and where what leaves is its commit.
LEMMA CommitMoves ==
    ASSUME Inv, NEW e, Moves(e), NEW q
    PROVE  /\ Committing(q)' => (e.op = "commit" /\ e.queue = q)
                                 \/ (Committing(q) /\ ~(cur.op # "none" /\ cur.queue = q))
           /\ (e.op = "commit" /\ e.queue = q) => Committing(q)' /\ ~Committing(q)
           /\ Committing(q) /\ ~(cur.op # "none" /\ cur.queue = q) => Committing(q)'
<1>1. ASSUME Committing(q)'
      PROVE  (e.op = "commit" /\ e.queue = q) \/ (Committing(q) /\ ~(cur.op # "none" /\ cur.queue = q))
  <2>1. PICK j \in Stages : pipe'[j].op = "commit" /\ pipe'[j].queue = q
    BY <1>1 DEF Committing
  <2> QED
    BY <2>1, PipeMoves DEF Committing
<1>2. ASSUME e.op = "commit", e.queue = q PROVE Committing(q)' /\ ~Committing(q)
  <2>1. pipe'[0] = e /\ ~Hazard(q) /\ 0 \in Stages
    BY <1>2, StageFacts DEF Moves
  <2> QED
    BY <1>2, <2>1 DEF Committing, Hazard
<1>3. ASSUME Committing(q), ~(cur.op # "none" /\ cur.queue = q) PROVE Committing(q)'
  <2>1. PICK j \in Stages : pipe[j].op = "commit" /\ pipe[j].queue = q
    BY <1>3 DEF Committing
  <2>2. j # Last
    BY <1>3, <2>1 DEF cur
  <2>3. j + 1 \in Stages /\ j + 1 # 0 /\ (j + 1) - 1 = j
    BY <2>2, ParamAssumption DEF Stages, Last
  <2>4. pipe'[j + 1] = pipe[j]
    BY <2>3 DEF Moves
  <2> QED
    BY <2>1, <2>3, <2>4 DEF Committing
<1> QED
  BY <1>1, <1>2, <1>3

LEMMA WritesMove ==
    ASSUME TypeOK, Inv, WritesKept, NEW e, Moves(e), Driver
    PROVE  WritesKept'
<1>1. ASSUME NEW j \in Stages, pipe'[j].op = "write" PROVE pipe'[j].data.queue = pipe'[j].queue
  <2>1. CASE j = 0 /\ pipe'[j] = e
    BY <1>1, <2>1 DEF Moves
  <2>2. CASE j - 1 \in Stages /\ pipe'[j] = pipe[j - 1]
    BY <1>1, <2>2 DEF WritesKept
  <2> QED
    BY <2>1, <2>2, PipeMoves
<1>2. ASSUME wrReady' PROVE wr' # None /\ pipe'[0].op = "write" /\ pipe'[0].data = wr'
  <2>1. e.op = "write" /\ ~InPipe("write") /\ wr # None /\ e.data = wr /\ pipe'[0] = e
    BY <1>2 DEF Moves
  <2>2. ~wrReady
    BY <2>1, StageFacts DEF WritesKept, InPipe
  <2>3. wr' = wr
    BY <2>1, <2>2 DEF Driver
  <2> QED
    BY <2>1, <2>3
<1> QED
  BY <1>1, <1>2 DEF WritesKept

\* While no write of its own has been taken, the driver keeps asking for it.
LEMMA DriverKeeps ==
    ASSUME TypeOK, Inv, WritesKept, NEW e, Moves(e), Driver
    PROVE  /\ wr # None /\ ~wrReady => wr' = wr /\ sent' = sent
           /\ e.op = "write" => wr # None /\ ~wrReady
           /\ wr = None \/ wrReady =>
                 /\ wr' \in NewWrites \cup {None}
                 /\ sent' = IF wr' # None /\ wr'.reg = "tail"
                            THEN [sent EXCEPT ![wr'.queue] = wr'.data] ELSE sent
<1>1. e.op = "write" => wr # None /\ ~wrReady
  BY StageFacts DEF Moves, WritesKept, InPipe
<1>2. wr # None /\ ~wrReady => wr' = wr /\ sent' = sent
  BY DEF Driver
<1>3. wr = None \/ wrReady =>
          /\ wr' \in NewWrites \cup {None}
          /\ sent' = IF wr' # None /\ wr'.reg = "tail"
                     THEN [sent EXCEPT ![wr'.queue] = wr'.data] ELSE sent
  BY DEF Driver
<1> QED
  BY <1>1, <1>2, <1>3


-----------------------------------------------------------------------------
(* The slots in every state. *)

Ends == [i \in Ops |-> table[i].ptr]
EntryAges == [i \in Ops |-> Age(i)]
Commits(q) == IF Committing(q) THEN 1 ELSE 0

\* SlotsFollowHead of one queue.
SlotsOf(q) ==
    /\ \A j \in Stages : pipe[j].op = "commit" /\ pipe[j].queue = q =>
           pipe[j].data = (ram[q].head + 1) % PtrMod
    /\ Fits(ram[q].head, ram[q].tail, Commits(q), Mine(q), Ends, EntryAges)

\* How head and tail of a queue move.
LEMMA PointersMove ==
    ASSUME TypeOK, Inv, WritesKept, TailsFollow, HeadsWait, NEW q \in Queues, SlotsOf(q),
           Performs(q)
    PROVE  \/ /\ ~(cur.op = "commit" /\ cur.queue = q)
              /\ ram'[q].head = ram[q].head /\ ram'[q].tail = ram[q].tail
           \/ /\ cur.op = "commit" /\ cur.queue = q
              /\ ram'[q].head = (ram[q].head + 1) % PtrMod /\ ram'[q].tail = ram[q].tail
           \/ /\ cur.op = "write" /\ cur.queue = q
              /\ ram'[q].head = ram[q].head
              /\ Used(ram'[q].tail, ram[q].tail) <= Used(sent[q], ram[q].tail)
           \/ /\ WritesTo(Last, q) /\ pipe[Last].data.reg = "head"
              /\ ram'[q].tail = ram[q].tail /\ Rewindable(q, ram'[q].head)
<1>1. CASE ~(cur.op \in {"commit", "write"} /\ cur.queue = q)
  BY <1>1 DEF Performs
<1>2. CASE cur.op = "commit" /\ cur.queue = q
  <2>1. cur.data = (ram[q].head + 1) % PtrMod
    BY <1>2, StageFacts DEF SlotsOf, cur
  <2> QED
    BY <1>2, <2>1 DEF Performs
<1>3. CASE cur.op = "write" /\ cur.queue = q
  <2>1. WritesTo(Last, q) /\ Last \in Stages /\ pipe[Last] = cur
    BY <1>3, StageFacts DEF WritesTo, cur
  <2>2. /\ ram'[q].tail = IF cur.data.reg = "tail" THEN cur.data.data ELSE ram[q].tail
        /\ ram'[q].head = IF cur.data.reg = "head" /\ ~ram[q].active THEN cur.data.data
                          ELSE ram[q].head
    BY <1>3 DEF Performs
  <2>3. CASE cur.data.reg = "tail"
    <3>1. Ahead(q, cur.data.data) <= Ahead(q, sent[q])
      BY <2>1, <2>3 DEF TailsFollow
    <3> QED
      BY <1>3, <2>2, <2>3, <3>1 DEF Ahead
  <2>4. CASE cur.data.reg = "head"
    <3>1. Rewindable(q, cur.data.data)
      BY <2>1, <2>4 DEF HeadsWait
    <3>2. ~ram[q].active
      BY <3>1 DEF Rewindable
    <3> QED
      BY <2>1, <2>2, <2>4, <3>1, <3>2
  <2>5. CASE cur.data.reg \notin {"tail", "head"}
    BY <1>3, <2>2, <2>5
  <2> QED
    BY <2>3, <2>4, <2>5
<1> QED
  BY <1>1, <1>2, <1>3

\* The last tail the driver has written stays, or moves towards the head, which then does
\* not move back.
LEMMA SentMoves ==
    ASSUME TypeOK, Inv, WritesKept, NEW e, Moves(e), Driver, NEW q \in Queues
    PROVE  \/ sent'[q] = sent[q]
           \/ /\ Used(sent'[q], sent[q]) <= Used(ram[q].head, sent[q]) /\ HeadSettled(q)
              /\ (wr = None \/ wrReady) /\ wr' # None /\ wr'.reg = "tail" /\ wr'.queue = q
<1>1. CASE wr # None /\ ~wrReady
  BY <1>1, DriverKeeps
<1>2. CASE wr = None \/ wrReady
  <2>1. /\ wr' \in NewWrites \cup {None}
        /\ sent' = IF wr' # None /\ wr'.reg = "tail"
                   THEN [sent EXCEPT ![wr'.queue] = wr'.data] ELSE sent
    BY <1>2, DriverKeeps
  <2>2. CASE wr' # None /\ wr'.reg = "tail"
    <3>1. wr' \in NewWrites
      BY <2>1, <2>2
    <3>2. HeadSettled(wr'.queue) /\ wr'.data \in Between(wr'.queue)
      BY <2>2, <3>1 DEF NewWrites
    <3>3. Used(wr'.data, sent[wr'.queue]) <= Used(ram[wr'.queue].head, sent[wr'.queue])
      BY <3>2 DEF Between
    <3>4. sent'[q] = IF q = wr'.queue THEN wr'.data ELSE sent[q]
      BY <2>1, <2>2 DEF TypeOK
    <3> QED
      BY <1>2, <2>2, <3>2, <3>3, <3>4
  <2>3. CASE ~(wr' # None /\ wr'.reg = "tail")
    BY <2>1, <2>3
  <2> QED
    BY <2>2, <2>3
<1> QED
  BY <1>1, <1>2

LEMMA TailsMove ==
    ASSUME TypeOK, TypeOK', Inv, WritesKept, TailsFollow, HeadsWait, NEW q \in Queues, SlotsOf(q),
           NEW e, Moves(e), Driver, Performs(q)
    PROVE  /\ Used(sent'[q], ram'[q].tail) <= Used(ram'[q].head, ram'[q].tail)
           /\ \A j \in Stages : pipe'[j].op = "write" /\ pipe'[j].queue = q /\ pipe'[j].data.reg = "tail" =>
                 Used(pipe'[j].data.data, ram'[q].tail) <= Used(sent'[q], ram'[q].tail)
<1> DEFINE h == ram[q].head
           t == ram[q].tail
           s == sent[q]
           H == ram'[q].head
           T == ram'[q].tail
           S == sent'[q]
<1>1. h \in Ptrs /\ t \in Ptrs /\ s \in Ptrs /\ H \in Ptrs /\ T \in Ptrs /\ S \in Ptrs
  BY DEF TypeOK, Words
<1>2. Used(s, t) <= Used(h, t)
  BY DEF TailsFollow, Ahead
<1>3. Used(s, t) <= Used(S, t) /\ Used(S, t) <= Used(h, t)
  <2>1. CASE S = s
    <3>1. Used(s, t) \in Nat
      BY <1>1, Distances
    <3> QED
      BY <1>2, <2>1, <3>1
  <2>2. CASE Used(S, s) <= Used(h, s)
    <3> HIDE DEF h, t, s, S
    <3> QED
      BY <1>1, <1>2, <2>2, InBetween
  <2> QED
    BY <2>1, <2>2, SentMoves
<1>4. \/ H = h /\ T = t
      \/ cur.op = "commit" /\ cur.queue = q /\ H = (h + 1) % PtrMod /\ T = t
      \/ cur.op = "write" /\ H = h /\ Used(T, t) <= Used(s, t)
      \/ WritesTo(Last, q) /\ pipe[Last].data.reg = "head" /\ T = t /\ Rewindable(q, H)
  BY PointersMove
<1>5. \A x \in {h, t, s, H, T, S}, y \in {h, t, s, H, T, S} : Used(x, y) \in Nat
  BY <1>1, Distances
<1>6. Used(S, T) <= Used(H, T)
  <2>1. CASE H = h /\ T = t
    BY <1>3, <2>1
  <2>2. CASE cur.op = "commit" /\ cur.queue = q /\ H = (h + 1) % PtrMod /\ T = t
    <3>1. Committing(q)
      BY <2>2, StageFacts DEF Committing, cur
    <3>2. Fits(h, t, 1, Mine(q), Ends, EntryAges)
      BY <3>1 DEF SlotsOf, Commits
    <3>3. Used(H, t) = Used(h, t) + 1
      BY <1>1, <2>2, <3>2, FitsCommit
    <3> QED
      BY <1>3, <1>5, <2>2, <3>3
  <2>3. CASE H = h /\ Used(T, t) <= Used(s, t)
    <3>1. Used(T, t) <= Used(S, t) /\ Used(T, t) <= Used(h, t)
      BY <1>3, <1>5, <2>3
    <3>2. Used(S, T) = Used(S, t) - Used(T, t) /\ Used(h, T) = Used(h, t) - Used(T, t)
      BY <1>1, <3>1, Rebase
    <3> QED
      BY <1>3, <1>5, <2>3, <3>2
  <2>4. CASE WritesTo(Last, q) /\ pipe[Last].data.reg = "head" /\ T = t /\ Rewindable(q, H)
    <3>1. ~HeadSettled(q)
      BY <2>4, StageFacts DEF HeadSettled, WritesTo
    <3>2. S = s
      BY <3>1, SentMoves
    <3> QED
      BY <2>4, <3>2 DEF Rewindable, Ahead
  <2> QED
    BY <1>4, <2>1, <2>2, <2>3, <2>4
<1>7. ASSUME NEW j \in Stages, pipe'[j].op = "write", pipe'[j].queue = q, pipe'[j].data.reg = "tail"
      PROVE  Used(pipe'[j].data.data, T) <= Used(S, T)
  <2> DEFINE x == pipe'[j].data.data
  <2>1. cur.op # "write"
    <3>1. CASE j = 0 /\ pipe'[j] = e
      <4>1. ~InPipe("write")
        BY <1>7, <3>1 DEF Moves
      <4> QED
        BY <4>1, StageFacts DEF InPipe, cur
    <3>2. CASE j - 1 \in Stages /\ j - 1 # Last /\ pipe'[j] = pipe[j - 1]
      BY <1>7, <3>2, StageFacts DEF Inv, OneOpPerPort, cur
    <3> QED
      BY <3>1, <3>2, PipeMoves
  <2>2. T = t
    BY <1>4, <2>1 DEF WritesTo, cur
  <2>3. Used(x, t) <= Used(S, t)
    <3>1. CASE j = 0 /\ pipe'[j] = e
      <4>1. wr # None /\ e.queue = wr.queue /\ e.data = wr /\ sent' = sent
        BY <1>7, <3>1, DriverKeeps DEF Moves
      <4>2. x = S
        BY <1>7, <3>1, <4>1 DEF TailsFollow
      <4> QED
        BY <1>5, <4>2
    <3>2. CASE j - 1 \in Stages /\ j - 1 # Last /\ pipe'[j] = pipe[j - 1]
      <4>1. Used(x, t) <= Used(s, t)
        BY <1>7, <3>2 DEF TailsFollow, WritesTo, Ahead
      <4>2. pipe'[j] \in Operations /\ pipe'[j].data \in Writes
        BY <1>7, Carried DEF TypeOK, Operations
      <4>3. x \in Ptrs
        BY <1>7, <4>2 DEF Writes
      <4>4. Used(x, t) \in Nat
        BY <1>1, <4>3, Distances
      <4> QED
        BY <1>3, <1>5, <4>1, <4>4
    <3> QED
      BY <3>1, <3>2, PipeMoves
  <2> QED
    BY <2>2, <2>3
<1> QED
  BY <1>6, <1>7


\* Rewindable of the next state.
Rewound(q, p) ==
    /\ ~ram'[q].active
    /\ \A i \in Ops : ~(table'[i].active /\ table'[i].queue = q)
    /\ \A j \in Stages : ~(pipe'[j].op = "commit" /\ pipe'[j].queue = q)
    /\ Used(sent'[q], ram'[q].tail) <= Used(p, ram'[q].tail)
    /\ Used(p, ram'[q].tail) <= Used(ram'[q].head, ram'[q].tail)

\* An idle queue stays idle until the write of its head leaves the pipeline.
LEMMA RewindKept ==
    ASSUME TypeOK, Inv, Window, NEW e, Moves(e), NEW q \in Queues, Performs(q), NEW p,
           Rewindable(q, p), sent'[q] = sent[q],
           ~(cur.op \in {"commit", "write"} /\ cur.queue = q)
    PROVE  Rewound(q, p)
<1>1. ~ram[q].active /\ Mine(q) = {} /\ ~Committing(q)
  BY DEF Rewindable
<1>2. /\ ram'[q].head = ram[q].head /\ ram'[q].tail = ram[q].tail
      /\ ram'[q].active = ram[q].active
  BY DEF Performs
<1>3. ~(StartEn /\ cur.queue = q)
  <2>1. cur.op # "none" => cur.word = ram[cur.queue]
    BY StageFacts DEF Inv, Coherent, cur
  <2> QED
    BY <1>1, <2>1 DEF StartEn
<1>4. \A i \in Ops : ~(table'[i].active /\ table'[i].queue = q)
  <2>1. Mine(q)' = {}
    BY <1>1, <1>3, MineMoves
  <2> QED
    BY <2>1 DEF Mine
<1>5. ~(e.op = "commit" /\ e.queue = q)
  <2>1. finishPtr \in Ops
    BY DEF TypeOK
  <2>2. e.op = "commit" => table[finishPtr].active /\ e.queue = table[finishPtr].queue
    BY DEF Moves
  <2> QED
    BY <1>1, <2>1, <2>2 DEF Mine
<1>6. \A j \in Stages : ~(pipe'[j].op = "commit" /\ pipe'[j].queue = q)
  <2>1. ~Committing(q)'
    BY <1>1, <1>5, CommitMoves
  <2> QED
    BY <2>1 DEF Committing
<1>7. Used(sent[q], ram[q].tail) <= Used(p, ram[q].tail)
      /\ Used(p, ram[q].tail) <= Used(ram[q].head, ram[q].tail)
  BY DEF Rewindable, Ahead
<1>8. ~ram'[q].active
  BY <1>1, <1>2
<1>9. Used(sent'[q], ram'[q].tail) <= Used(p, ram'[q].tail)
      /\ Used(p, ram'[q].tail) <= Used(ram'[q].head, ram'[q].tail)
  BY <1>2, <1>7
<1> QED
  BY <1>4, <1>6, <1>8, <1>9 DEF Rewound

\* A write of a head, in the pipeline, finds its queue idle ...
LEMMA HeadWritesMove ==
    ASSUME TypeOK, TypeOK', Inv, Window, WritesKept, HeadsWait, NEW e, Moves(e), Driver,
           \A q \in Queues : Performs(q),
           NEW j \in Stages, NEW q \in Queues, pipe'[j].op = "write", pipe'[j].queue = q,
           pipe'[j].data.reg = "head"
    PROVE  Rewound(q, pipe'[j].data.data)
<1>1. CASE j = 0 /\ pipe'[j] = e
  <2>1. wr # None /\ ~wrReady /\ e.queue = wr.queue /\ e.data = wr /\ sent' = sent /\ ~Hazard(q)
    BY <1>1, DriverKeeps DEF Moves
  <2>2. Rewindable(q, wr.data)
    BY <1>1, <2>1 DEF HeadsWait
  <2>3. ~(cur.op # "none" /\ cur.queue = q)
    BY <2>1, StageFacts DEF Hazard, cur
  <2>4. Rewound(q, wr.data)
    BY <2>1, <2>2, <2>3, RewindKept
  <2> QED
    BY <1>1, <2>1, <2>4
<1>2. CASE /\ j # 0 /\ j - 1 \in Stages /\ pipe'[j] = pipe[j - 1]
           /\ (pipe[j - 1].op # "none" /\ cur.op # "none" => pipe[j - 1].queue # cur.queue)
  <2>1. Rewindable(q, pipe[j - 1].data.data)
    BY <1>2 DEF HeadsWait, WritesTo
  <2>2. ~HeadSettled(q)
    BY <1>2 DEF HeadSettled
  <2>3. sent'[q] = sent[q]
    BY <2>2, SentMoves
  <2>4. ~(cur.op \in {"commit", "write"} /\ cur.queue = q)
    BY <1>2
  <2>5. Rewound(q, pipe[j - 1].data.data)
    BY <2>1, <2>3, <2>4, RewindKept
  <2> QED
    BY <1>2, <2>5
<1> QED
  BY <1>1, <1>2, PipeMoves

\* ... as does one that is still asked for, and no other write of that queue is in the pipeline.
LEMMA HeadAskedMoves ==
    ASSUME TypeOK, TypeOK', Inv, Window, WritesKept, TailsFollow, HeadsWait, NEW e, Moves(e), Driver,
           \A q \in Queues : Performs(q), wr' # None, ~wrReady', wr'.reg = "head"
    PROVE  /\ Rewound(wr'.queue, wr'.data)
           /\ \A j \in Stages : ~(pipe'[j].op = "write" /\ pipe'[j].queue = wr'.queue)
<1>1. wr' \in Writes /\ wr'.queue \in Queues /\ wr'.data \in Ptrs
  <2>1. wr' \in Writes
    BY DEF TypeOK
  <2> QED
    BY <2>1 DEF Writes
<1>2. PICK q \in Queues : q = wr'.queue
  BY <1>1
<1>3. e.op # "write"
  BY DEF Moves
<1>4. ASSUME \A j \in Stages : ~WritesTo(j, q)
      PROVE  \A j \in Stages : ~(pipe'[j].op = "write" /\ pipe'[j].queue = q)
  <2> SUFFICES ASSUME NEW j \in Stages, pipe'[j].op = "write", pipe'[j].queue = q PROVE FALSE
    OBVIOUS
  <2>1. CASE j = 0 /\ pipe'[j] = e
    BY <1>3, <2>1
  <2>2. CASE j - 1 \in Stages /\ pipe'[j] = pipe[j - 1]
    BY <1>4, <2>2 DEF WritesTo
  <2> QED
    BY <2>1, <2>2, PipeMoves
<1>5. CASE wr # None /\ ~wrReady
  <2>1. wr' = wr /\ sent' = sent
    BY <1>5, DriverKeeps
  <2>2. Rewindable(q, wr.data) /\ \A j \in Stages : ~WritesTo(j, q)
    BY <1>2, <1>5, <2>1 DEF HeadsWait
  <2>3. ~(cur.op \in {"commit", "write"} /\ cur.queue = q)
    BY <2>2, StageFacts DEF Rewindable, Committing, WritesTo, cur
  <2>4. Rewound(q, wr.data)
    BY <2>1, <2>2, <2>3, RewindKept
  <2> QED
    BY <1>2, <1>4, <2>1, <2>2, <2>4
<1>6. CASE wr = None \/ wrReady
  <2>1. wr' \in NewWrites /\ sent' = sent
    BY <1>6, DriverKeeps
  <2>2. Quiet(q) /\ wr'.data \in Between(q)
    BY <1>2, <2>1 DEF NewWrites
  <2>3. /\ ~ram[q].active /\ Mine(q) = {}
        /\ \A j \in Stages : pipe[j].op = "none" \/ pipe[j].queue # q
    BY <2>2 DEF Quiet, Mine
  <2>4. ~Committing(q) /\ (\A j \in Stages : ~WritesTo(j, q))
        /\ ~(cur.op \in {"commit", "write"} /\ cur.queue = q)
    BY <2>3, StageFacts DEF Committing, WritesTo, cur
  <2>5. PICK p \in Ptrs : p = wr'.data
    BY <1>1
  <2>6. Rewindable(q, p)
    <3>1. ram[q].head \in Ptrs /\ ram[q].tail \in Ptrs /\ sent[q] \in Ptrs
      BY DEF TypeOK, Words
    <3>2. Used(p, sent[q]) <= Used(ram[q].head, sent[q])
      BY <2>2, <2>5 DEF Between
    <3>3. Used(sent[q], ram[q].tail) <= Used(ram[q].head, ram[q].tail)
      BY DEF TailsFollow, Ahead
    <3>4. Used(sent[q], ram[q].tail) <= Used(p, ram[q].tail)
          /\ Used(p, ram[q].tail) <= Used(ram[q].head, ram[q].tail)
      BY <3>1, <3>2, <3>3, InBetween
    <3> QED
      BY <2>3, <2>4, <3>4 DEF Rewindable, Ahead
  <2>7. Rewound(q, p)
    BY <2>1, <2>4, <2>6, RewindKept
  <2> QED
    BY <1>2, <1>4, <2>4, <2>5, <2>7
<1> QED
  BY <1>5, <1>6

LEMMA HeadsMove ==
    ASSUME TypeOK, TypeOK', Inv, Window, WritesKept, TailsFollow, HeadsWait, NEW e, Moves(e), Driver,
           \A q \in Queues : Performs(q)
    PROVE  HeadsWait'
<1>1. ASSUME NEW j \in Stages, NEW q \in Queues, pipe'[j].op = "write", pipe'[j].queue = q,
             pipe'[j].data.reg = "head"
      PROVE  Rewound(q, pipe'[j].data.data)
  BY <1>1, HeadWritesMove
<1>2. ASSUME wr' # None, ~wrReady', wr'.reg = "head"
      PROVE  /\ Rewound(wr'.queue, wr'.data)
             /\ \A j \in Stages : ~(pipe'[j].op = "write" /\ pipe'[j].queue = wr'.queue)
  BY <1>2, HeadAskedMoves
<1>3. ASSUME NEW j \in Stages, NEW q \in Queues, pipe'[j].op = "write", pipe'[j].queue = q,
             pipe'[j].data.reg = "head"
      PROVE  Rewindable(q, pipe[j].data.data)'
  BY <1>1, <1>3 DEF Rewindable, Rewound, Ahead, Mine, Committing
<1>4. ASSUME wr' # None, ~wrReady', wr'.reg = "head"
      PROVE  Rewindable(wr.queue, wr.data)' /\ \A j \in Stages : ~WritesTo(j, wr.queue)'
  BY <1>2, <1>4 DEF Rewindable, Rewound, Ahead, Mine, Committing, WritesTo
<1> QED
  BY <1>3, <1>4 DEF HeadsWait, WritesTo

\* A tail that is asked for is the last one the driver has written.
LEMMA TailAskedMoves ==
    ASSUME TypeOK, Inv, WritesKept, TailsFollow, NEW e, Moves(e), Driver,
           wr' # None, wr'.reg = "tail"
    PROVE  wr'.data = sent'[wr'.queue]
<1>1. CASE wr # None /\ ~wrReady
  <2>1. wr' = wr /\ sent' = sent
    BY <1>1, DriverKeeps
  <2> QED
    BY <1>1, <2>1 DEF TailsFollow
<1>2. CASE wr = None \/ wrReady
  <2>1. wr' \in NewWrites /\ sent' = [sent EXCEPT ![wr'.queue] = wr'.data]
    BY <1>2, DriverKeeps
  <2>2. wr'.queue \in Queues
    BY <2>1 DEF NewWrites, Writes
  <2> QED
    BY <2>1, <2>2 DEF TypeOK
<1> QED
  BY <1>1, <1>2

LEMMA TailsKept ==
    ASSUME TypeOK, TypeOK', Inv, WritesKept, TailsFollow, HeadsWait, \A q \in Queues : SlotsOf(q),
           NEW e, Moves(e), Driver, \A q \in Queues : Performs(q)
    PROVE  TailsFollow'
<1>1. ASSUME NEW q \in Queues
      PROVE  /\ Used(sent'[q], ram'[q].tail) <= Used(ram'[q].head, ram'[q].tail)
             /\ \A j \in Stages : pipe'[j].op = "write" /\ pipe'[j].queue = q /\ pipe'[j].data.reg = "tail" =>
                   Used(pipe'[j].data.data, ram'[q].tail) <= Used(sent'[q], ram'[q].tail)
  BY TailsMove
<1>2. wr' # None /\ wr'.reg = "tail" => wr'.data = sent'[wr'.queue]
  BY TailAskedMoves
<1> QED
  BY <1>1, <1>2 DEF TailsFollow, WritesTo, Ahead


\* Whether a commit of q is in the pipeline changes with a commit that enters or leaves.
LEMMA CommitsMove ==
    ASSUME Inv, NEW e, Moves(e), NEW q, ~(e.op = "commit" /\ e.queue = q)
    PROVE  /\ cur.op = "commit" /\ cur.queue = q => Commits(q) = 1 /\ Commits(q)' = 0
           /\ ~(cur.op = "commit" /\ cur.queue = q) => Commits(q)' = Commits(q)
           /\ ~(cur.op = "commit" /\ cur.queue = q) /\ cur.op # "none" /\ cur.queue = q =>
                 Commits(q) = 0
           /\ Commits(q) \in {0, 1}
<1>1. ASSUME Committing(q), cur.op # "none", cur.queue = q
      PROVE  cur.op = "commit"
  <2>1. PICK j \in Stages : pipe[j].op = "commit" /\ pipe[j].queue = q
    BY <1>1 DEF Committing
  <2>2. j = Last
    BY <1>1, <2>1, StageFacts DEF Inv, OneOpPerQueue, cur
  <2> QED
    BY <2>1, <2>2 DEF cur
<1>2. cur.op = "commit" /\ cur.queue = q => Committing(q)
  BY StageFacts DEF Committing, cur
<1>3. cur.op = "commit" /\ cur.queue = q => ~Committing(q)'
  BY CommitMoves
<1>4. ~(cur.op = "commit" /\ cur.queue = q) => (Committing(q)' <=> Committing(q))
  BY <1>1, CommitMoves
<1> QED
  BY <1>1, <1>2, <1>3, <1>4 DEF Commits

\* A commit in the pipeline carries the place behind the head.
LEMMA CommitDataMoves ==
    ASSUME TypeOK, Inv, NEW e, Moves(e), NEW q \in Queues, Performs(q), SlotsOf(q),
           e.op = "commit" /\ e.queue = q => e.data = (ram[q].head + 1) % PtrMod,
           NEW j \in Stages, pipe'[j].op = "commit", pipe'[j].queue = q
    PROVE  pipe'[j].data = (ram'[q].head + 1) % PtrMod
<1>1. CASE j = 0 /\ pipe'[j] = e
  <2>1. ~Hazard(q)
    BY <1>1 DEF Moves
  <2>2. ~(cur.op # "none" /\ cur.queue = q)
    BY <2>1, StageFacts DEF Hazard, cur
  <2>3. ram'[q].head = ram[q].head
    BY <2>2 DEF Performs
  <2> QED
    BY <1>1, <2>3
<1>2. CASE /\ j - 1 \in Stages /\ pipe'[j] = pipe[j - 1]
           /\ (pipe[j - 1].op # "none" /\ cur.op # "none" => pipe[j - 1].queue # cur.queue)
  <2>1. ~(cur.op # "none" /\ cur.queue = q)
    BY <1>2
  <2>2. ram'[q].head = ram[q].head
    BY <2>1 DEF Performs
  <2>3. pipe[j - 1].data = (ram[q].head + 1) % PtrMod
    BY <1>2 DEF SlotsOf
  <2> QED
    BY <1>2, <2>2, <2>3
<1> QED
  BY <1>1, <1>2, PipeMoves

LEMMA AgesOf ==
    /\ \A i \in Ops : EntryAges[i] = After(finishPtr, i)
    /\ \A i \in Ops : EntryAges'[i] = After(finishPtr', i)
    /\ \A i \in Ops : Ends[i] = table[i].ptr /\ Ends'[i] = table'[i].ptr
BY DEF EntryAges, Age, After, Ends

\* The oldest entry enters the pipeline: it is the commit of the slot at the head.
LEMMA SlotsFinish ==
    ASSUME TypeOK, TypeOK', Inv, Window, NEW e, Moves(e), NEW q \in Queues, Performs(q), SlotsOf(q),
           e.op = "commit", e.queue = q
    PROVE  /\ e.data = (ram[q].head + 1) % PtrMod
           /\ Fits(ram'[q].head, ram'[q].tail, Commits(q)', Mine(q)', Ends', EntryAges')
<1> DEFINE o == finishPtr
<1>1. ~Hazard(q) /\ o \in Mine(q) /\ o \in Ops /\ e.data = table[o].ptr
  BY DEF Moves, Mine, TypeOK
<1>2. ~(cur.op # "none" /\ cur.queue = q)
  BY <1>1, StageFacts DEF Hazard, cur
<1>3. ram'[q].head = ram[q].head /\ ram'[q].tail = ram[q].tail
  BY <1>2 DEF Performs
<1>4. Commits(q) = 0 /\ Commits(q)' = 1
  BY CommitMoves DEF Commits
<1>5. Mine(q)' = Mine(q) \ {o} /\ Mine(q) \subseteq Ops
  <2>1. ~(StartEn /\ cur.queue = q)
    BY <1>2 DEF StartEn
  <2> QED
    BY <2>1, MineMoves
<1>6. /\ ram[q].head \in Ptrs /\ ram[q].tail \in Ptrs
      /\ Ends \in [Ops -> Ptrs]
  BY DEF TypeOK, Words, Ends
<1>7. \A i \in Mine(q) \ {o} : EntryAges[o] < EntryAges[i]
  <2>1. \A i \in Mine(q) \ {o} : EntryAges[o] = After(o, o) /\ EntryAges[i] = After(o, i) /\ i \in Ops
    BY <1>1, <1>5, AgesOf
  <2>2. /\ \A i \in Ops : After(o, i) \in Nat
        /\ \A i, k \in Ops : After(o, i) = After(o, k) => i = k
        /\ After(o, o) = 0
    BY <1>1, Ages
  <2> HIDE DEF o
  <2>3. ASSUME NEW i \in Mine(q) \ {o} PROVE After(o, o) < After(o, i)
    <3>1. i \in Ops /\ i # o
      BY <2>1
    <3>2. After(o, i) # 0
      BY <1>1, <2>2, <3>1
    <3> QED
      BY <2>2, <3>1, <3>2
  <2> QED
    BY <2>1, <2>3
<1>8. Fits(ram[q].head, ram[q].tail, 0, Mine(q), Ends, EntryAges)
  BY <1>4 DEF SlotsOf
<1>9. /\ Ends[o] = (ram[q].head + 1) % PtrMod
      /\ Fits(ram[q].head, ram[q].tail, 1, Mine(q) \ {o}, Ends, EntryAges)
  BY <1>1, <1>5, <1>6, <1>7, <1>8, FitsFinish
<1>10. \A i \in Mine(q) \ {o} : Ends'[i] = Ends[i]
  BY <1>5, AgesOf, MineMoves
<1>11. \A i, k \in Mine(q) \ {o} : EntryAges'[i] < EntryAges'[k] => EntryAges[i] < EntryAges[k]
  BY <1>5, AgesOf, AgesMove
<1>12. Fits(ram[q].head, ram[q].tail, 1, Mine(q) \ {o}, Ends', EntryAges')
  BY <1>9, <1>10, <1>11, FitsSame
<1>13. e.data = (ram[q].head + 1) % PtrMod
  BY <1>1, <1>9, AgesOf
<1> QED
  BY <1>3, <1>4, <1>5, <1>12, <1>13


\* The next place of a queue is the end of its youngest entry, or the head if it has none.
LEMMA TopIs ==
    ASSUME TypeOK, Youngest, NEW q \in Queues
    PROVE  /\ Mine(q) = {} => ActiveHead(q, ram[q]) = ram[q].head
           /\ \A y \in Mine(q) : (\A i \in Mine(q) \ {y} : EntryAges[i] < EntryAges[y]) =>
                 ActiveHead(q, ram[q]) = Ends[y]
           /\ Mine(q) # {} => \E y \in Mine(q) : \A i \in Mine(q) \ {y} : EntryAges[i] < EntryAges[y]
<1> DEFINE y0 == ram[q].op
           A(i) == After(finishPtr, i)
<1>1. y0 \in Ops /\ finishPtr \in Ops /\ Mine(q) \subseteq Ops
  BY DEF TypeOK, Words, Mine
<1>2. y0 \in Mine(q) => ActiveHead(q, ram[q]) = table[y0].ptr
  BY DEF Mine, ActiveHead
<1>3. y0 \notin Mine(q) => ActiveHead(q, ram[q]) = ram[q].head
  BY <1>1 DEF Mine, ActiveHead
<1>4. Mine(q) # {} => y0 \in Mine(q) /\ \A k \in Mine(q) : A(k) <= A(y0)
  BY AgeIs DEF Youngest
<1>5. \A i \in Ops : EntryAges[i] = A(i) /\ A(i) \in Nat /\ Ends[i] = table[i].ptr
  BY <1>1, AgesOf, Ages
<1>6. \A i, k \in Ops : A(i) = A(k) => i = k
  BY <1>1, Ages
<1> HIDE DEF A, y0
<1>7. ASSUME NEW y \in Mine(q), \A i \in Mine(q) \ {y} : EntryAges[i] < EntryAges[y]
      PROVE  y = y0
  <2> SUFFICES ASSUME y # y0 PROVE FALSE
    OBVIOUS
  <2>1. y0 \in Mine(q) /\ A(y) <= A(y0)
    BY <1>4, <1>7
  <2>2. A(y0) < A(y)
    BY <1>1, <1>5, <1>7, <2>1
  <2> QED
    BY <1>1, <1>5, <2>1, <2>2
<1>8. ASSUME Mine(q) # {}, NEW i \in Mine(q) \ {y0} PROVE EntryAges[i] < EntryAges[y0]
  <2>1. A(i) <= A(y0) /\ i # y0 /\ i \in Ops
    BY <1>1, <1>4, <1>8
  <2>2. A(i) # A(y0)
    BY <1>1, <1>6, <2>1
  <2> QED
    BY <1>1, <1>5, <2>1, <2>2
<1>9. Mine(q) = {} => ActiveHead(q, ram[q]) = ram[q].head
  BY <1>3
<1>10. \A y \in Mine(q) : (\A i \in Mine(q) \ {y} : EntryAges[i] < EntryAges[y]) =>
          ActiveHead(q, ram[q]) = Ends[y]
  BY <1>1, <1>2, <1>5, <1>7
<1>11. Mine(q) # {} => \E y \in Mine(q) : \A i \in Mine(q) \ {y} : EntryAges[i] < EntryAges[y]
  BY <1>4, <1>8
<1> QED
  BY <1>9, <1>10, <1>11

\* A request that finds room takes the slot behind the youngest.
LEMMA SlotsGrow ==
    ASSUME TypeOK, TypeOK', Inv, Window, Youngest, NEW e, Moves(e), NEW q \in Queues, Performs(q),
           SlotsOf(q), ~(e.op = "commit" /\ e.queue = q), StartEn, cur.queue = q
    PROVE  Fits(ram'[q].head, ram'[q].tail, Commits(q)', Mine(q)', Ends', EntryAges')
<1> DEFINE s == startPtr
           top == ActiveHead(q, ram[q])
<1>1. cur.op = "req" /\ cur.word = ram[q]
  BY StageFacts DEF StartEn, Inv, Coherent, cur
<1>2. ram'[q].head = ram[q].head /\ ram'[q].tail = ram[q].tail
  BY <1>1 DEF Performs
<1>3. Commits(q) = 0 /\ Commits(q)' = 0
  BY <1>1, CommitsMove
<1>4. s \in Ops /\ finishPtr \in Ops /\ s \notin Mine(q) /\ Mine(q) \subseteq Ops
  BY MineMoves DEF TypeOK
<1>5. \A i \in Mine(q) : table[i].active /\ ~(e.op = "commit" /\ i = finishPtr)
  BY DEF Moves, Mine
<1>6. Mine(q)' = Mine(q) \cup {s}
  BY <1>4, <1>5, MineMoves
<1>7. /\ ram[q].head \in Ptrs /\ ram[q].tail \in Ptrs
      /\ Ends \in [Ops -> Ptrs] /\ ram[q] \in Words
  BY DEF TypeOK, Words, Ends
<1>8. top \in Ptrs
  BY <1>7, HeadsTyped
<1>9. Used(top, ram[q].tail) < Size
  BY <1>1 DEF StartEn
<1>10. Ends'[s] = (top + 1) % PtrMod
  BY <1>1, <1>4, AgesOf DEF Moves
<1>11. \A i \in Mine(q) : Ends'[i] = Ends[i]
  BY <1>4, AgesOf, MineMoves
<1>12. \A i, k \in Mine(q) : EntryAges'[i] < EntryAges'[k] => EntryAges[i] < EntryAges[k]
  BY <1>4, <1>5, AgesOf, AgesMove
<1>13. \A i \in Ops : EntryAges'[i] \in Nat
  <2>1. finishPtr' \in Ops
    BY DEF TypeOK
  <2> QED
    BY <2>1, AgesOf, Ages
<1>14. \A i \in Mine(q) : EntryAges'[i] < EntryAges'[s]
  BY <1>4, <1>5, AgesOf, AgesMove
<1>15. /\ \A i \in Mine(q) : EntryAges'[i] < EntryAges'[s] /\ ~(EntryAges'[s] < EntryAges'[i])
       /\ ~(EntryAges'[s] < EntryAges'[s])
  BY <1>4, <1>13, <1>14
<1>16. Fits(ram[q].head, ram[q].tail, 0, Mine(q), Ends, EntryAges)
  BY <1>3 DEF SlotsOf
<1>17. /\ Mine(q) = {} => top = ram[q].head
       /\ \A y \in Mine(q) : (\A i \in Mine(q) \ {y} : EntryAges[i] < EntryAges[y]) => top = Ends[y]
       /\ Mine(q) # {} => \E y \in Mine(q) : \A i \in Mine(q) \ {y} : EntryAges[i] < EntryAges[y]
  BY TopIs
<1> HIDE DEF s, top
<1>18. Fits(ram[q].head, ram[q].tail, 0, Mine(q) \cup {s}, Ends', EntryAges')
  <2>1. PICK h \in Ptrs, t \in Ptrs, S \in SUBSET Ops, P \in [Ops -> Ptrs], x \in Ptrs :
           h = ram[q].head /\ t = ram[q].tail /\ S = Mine(q) /\ P = Ends /\ x = top
    BY <1>4, <1>7, <1>8
  <2>2. PICK A, Q, B : A = EntryAges /\ Q = Ends' /\ B = EntryAges'
    OBVIOUS
  <2>3. Fits(h, t, 0, S, P, A) /\ Used(x, t) < Size /\ s \in Ops /\ s \notin S
    BY <1>4, <1>9, <1>16, <2>1, <2>2
  <2>4. /\ S = {} => x = h
        /\ \A y \in S : (\A i \in S \ {y} : A[i] < A[y]) => x = P[y]
        /\ S # {} => \E y \in S : \A i \in S \ {y} : A[i] < A[y]
    BY <1>17, <2>1, <2>2
  <2>5. Q[s] = (x + 1) % PtrMod /\ \A i \in S : Q[i] = P[i]
    BY <1>10, <1>11, <2>1, <2>2
  <2>6. /\ \A i \in S : B[i] < B[s] /\ ~(B[s] < B[i])
        /\ ~(B[s] < B[s])
        /\ \A i, k \in S : B[i] < B[k] => A[i] < A[k]
    BY <1>12, <1>15, <2>1, <2>2
  <2>7. Fits(h, t, 0, S \cup {s}, Q, B)
    BY <2>3, <2>4, <2>5, <2>6, FitsGrow
  <2> QED
    BY <2>1, <2>2, <2>7
<1> QED
  BY <1>2, <1>3, <1>6, <1>18

\* Nothing else changes the slots of a queue but its head and its tail.
LEMMA SlotsStay ==
    ASSUME TypeOK, TypeOK', Inv, Window, WritesKept, TailsFollow, HeadsWait, NEW e, Moves(e),
           NEW q \in Queues, Performs(q), SlotsOf(q), ~(e.op = "commit" /\ e.queue = q),
           ~(StartEn /\ cur.queue = q)
    PROVE  Fits(ram'[q].head, ram'[q].tail, Commits(q)', Mine(q)', Ends', EntryAges')
<1> DEFINE h == ram[q].head
           t == ram[q].tail
           H == ram'[q].head
           T == ram'[q].tail
<1>1. /\ h \in Ptrs /\ t \in Ptrs /\ H \in Ptrs /\ T \in Ptrs /\ sent[q] \in Ptrs
      /\ Ends \in [Ops -> Ptrs] /\ Mine(q) \subseteq Ops
  BY DEF TypeOK, Words, Ends, Mine
<1>2. \A i \in Mine(q) : ~(e.op = "commit" /\ i = finishPtr)
  BY DEF Moves, Mine
<1>3. Mine(q)' = Mine(q)
  BY <1>1, <1>2, MineMoves
<1>4. \A i \in Mine(q) : Ends'[i] = Ends[i]
  BY <1>1, AgesOf, MineMoves
<1>5. \A i, k \in Mine(q) : EntryAges'[i] < EntryAges'[k] => EntryAges[i] < EntryAges[k]
  BY <1>1, <1>2, AgesOf, AgesMove
<1>6. Fits(h, t, Commits(q), Mine(q), Ends, EntryAges)
  BY DEF SlotsOf
<1>7. SUFFICES Fits(H, T, Commits(q)', Mine(q), Ends, EntryAges)
  BY <1>3, <1>4, <1>5, FitsSame
<1>8. CASE ~(cur.op = "commit" /\ cur.queue = q) /\ H = h /\ T = t
  BY <1>6, <1>8, CommitsMove
<1>9. CASE cur.op = "commit" /\ cur.queue = q /\ H = (h + 1) % PtrMod /\ T = t
  <2>1. Commits(q) = 1 /\ Commits(q)' = 0
    BY <1>9, CommitsMove
  <2> QED
    BY <1>1, <1>6, <1>9, <2>1, FitsCommit
<1>10. CASE cur.op = "write" /\ cur.queue = q /\ H = h /\ Used(T, t) <= Used(sent[q], t)
  <2>1. Commits(q) = 0 /\ Commits(q)' = 0
    BY <1>10, CommitsMove
  <2>2. Used(sent[q], t) <= Used(h, t)
    BY DEF TailsFollow, Ahead
  <2>3. Used(T, t) \in Nat /\ Used(sent[q], t) \in Nat /\ Used(h, t) \in Nat
    BY <1>1, Distances
  <2>4. Used(T, t) <= Used(h, t)
    BY <1>10, <2>2, <2>3
  <2>5. Fits(h, t, 0, Mine(q), Ends, EntryAges)
    BY <1>6, <2>1
  <2> HIDE DEF h, t, T
  <2>6. Fits(h, T, 0, Mine(q), Ends, EntryAges)
    BY <1>1, <2>4, <2>5, FitsTail
  <2> QED
    BY <1>10, <2>1, <2>6
<1>11. CASE WritesTo(Last, q) /\ T = t /\ Rewindable(q, H)
  <2>1. cur.op = "write" /\ cur.queue = q
    BY <1>11 DEF WritesTo, cur
  <2>2. Commits(q) = 0 /\ Commits(q)' = 0
    BY <2>1, CommitsMove
  <2>3. Mine(q) = {} /\ Used(H, t) <= Used(h, t)
    BY <1>11 DEF Rewindable, Ahead
  <2>4. Used(h, t) <= Size
    <3>1. Used(h, t) + 0 <= Size
      BY <1>1, <1>6, <2>2, FitsBounded
    <3>2. Used(h, t) \in Nat
      BY <1>1, Distances
    <3> QED
      BY <3>1, <3>2
  <2>5. Used(H, t) \in Nat /\ Used(h, t) \in Nat /\ Size \in Nat
    BY <1>1, Distances, ParamAssumption
  <2>6. Used(H, t) <= Size
    BY <2>3, <2>4, <2>5
  <2> HIDE DEF h, t, T, H
  <2>7. Fits(H, t, 0, {}, Ends, EntryAges)
    BY <1>1, <2>6, FitsEmpty
  <2> QED
    BY <1>11, <2>2, <2>3, <2>7
<1> QED
  BY <1>8, <1>9, <1>10, <1>11, PointersMove

LEMMA SlotsMove ==
    ASSUME TypeOK, TypeOK', Inv, Window, Youngest, WritesKept, TailsFollow, HeadsWait,
           NEW e, Moves(e), NEW q \in Queues, Performs(q), SlotsOf(q)
    PROVE  SlotsOf(q)'
<1>1. e.op = "commit" /\ e.queue = q => e.data = (ram[q].head + 1) % PtrMod
  BY SlotsFinish
<1>2. \A j \in Stages : pipe'[j].op = "commit" /\ pipe'[j].queue = q =>
          pipe'[j].data = (ram'[q].head + 1) % PtrMod
  BY <1>1, CommitDataMoves
<1>3. Fits(ram'[q].head, ram'[q].tail, Commits(q)', Mine(q)', Ends', EntryAges')
  <2>1. CASE e.op = "commit" /\ e.queue = q
    BY <2>1, SlotsFinish
  <2>2. CASE ~(e.op = "commit" /\ e.queue = q) /\ StartEn /\ cur.queue = q
    BY <2>2, SlotsGrow
  <2>3. CASE ~(e.op = "commit" /\ e.queue = q) /\ ~(StartEn /\ cur.queue = q)
    BY <2>3, SlotsStay
  <2> QED
    BY <2>1, <2>2, <2>3
<1> QED
  BY <1>2, <1>3 DEF SlotsOf



-----------------------------------------------------------------------------
(* The slots of every queue. *)

SlotInv ==
    /\ TypeOK /\ Inv /\ Window /\ Youngest /\ WritesKept /\ TailsFollow /\ HeadsWait
    /\ \A q \in Queues : SlotsOf(q)

THEOREM InitSlotInv == Init => SlotInv
<1> SUFFICES ASSUME Init PROVE SlotInv
  OBVIOUS
<1>1. TypeOK /\ Inv
  BY InitTyped, InitInv
<1>2. /\ \A j \in Stages : pipe[j].op = "none"
      /\ \A i \in Ops : ~table[i].active
      /\ startPtr = 0 /\ finishPtr = 0 /\ wr = None /\ ~wrReady
      /\ \A q \in Queues : ram[q].head = 0 /\ ram[q].tail = 0 /\ sent[q] = 0
  BY DEF Init, Idle
<1>3. 0 \in Ops /\ 0 \in Ptrs
  BY Wraps
<1>4. Window
  <2>1. \A i \in Ops : Age(i) \in Nat
    BY <1>2, <1>3, Ages, AgeIs
  <2>2. Age(startPtr) = 0
    BY <1>2, <1>3, Ages, AgeIs
  <2>3. \A i \in Ops : ~(Age(i) < Age(startPtr))
    BY <2>1, <2>2
  <2> QED
    BY <1>2, <1>3, <2>3 DEF Window, InPipe
<1>5. \A q \in Queues : Mine(q) = {} /\ ~Committing(q)
  BY <1>2 DEF Mine, Committing
<1>6. Used(0, 0) = 0
  BY <1>3, Distances
<1>7. Youngest
  BY <1>5 DEF Youngest
<1>8. WritesKept /\ TailsFollow /\ HeadsWait
  <2>1. WritesKept /\ HeadsWait
    BY <1>2 DEF WritesKept, HeadsWait, WritesTo
  <2>2. \A q \in Queues : Ahead(q, sent[q]) <= Ahead(q, ram[q].head)
    BY <1>2, <1>6 DEF Ahead
  <2> QED
    BY <1>2, <2>1, <2>2 DEF TailsFollow, WritesTo
<1>9. ASSUME NEW q \in Queues PROVE SlotsOf(q)
  <2>1. Used(0, 0) <= Size
    BY <1>6, ParamAssumption
  <2>2. Fits(0, 0, 0, {}, Ends, EntryAges)
    BY <1>3, <2>1, FitsEmpty
  <2>3. Commits(q) = 0 /\ Mine(q) = {}
    BY <1>5 DEF Commits
  <2> QED
    BY <1>2, <2>2, <2>3 DEF SlotsOf
<1> QED
  BY <1>1, <1>4, <1>7, <1>8, <1>9 DEF SlotInv

\* Every part of the invariant survives a clock edge.
LEMMA TickSlots ==
    ASSUME SlotInv, NEW respReady, NEW bReady, NEW rReady, NEW tag,
           Tick(respReady, bReady, rReady, tag)
    PROVE  SlotInv'
<1>1. /\ TypeOK /\ Inv /\ Window /\ Youngest /\ WritesKept /\ TailsFollow /\ HeadsWait
      /\ \A q \in Queues : SlotsOf(q)
  BY DEF SlotInv
<1>2. TypeOK' /\ Inv'
  BY <1>1, TickTyped, TickInv
<1>3. PICK e : Moves(e)
  BY <1>1, TickMoves
<1>4. Driver /\ Execute(respReady, bReady, rReady)
  BY DEF Tick
<1>5. \A q \in Queues : Performs(q)
  BY <1>1, <1>4, TickPerforms
<1>6. Window' /\ WritesKept'
  BY <1>1, <1>3, <1>4, WindowMoves, WritesMove
<1>7. Youngest'
  <2>1. ASSUME NEW q \in Queues, Mine(q)' # {}
        PROVE  /\ ram'[q].op \in Mine(q)'
               /\ \A k \in Mine(q)' : After(finishPtr', k) <= After(finishPtr', ram'[q].op)
    BY <1>1, <1>3, <1>5, <2>1, YoungestMoves
  <2> QED
    BY <2>1 DEF Youngest, Age, After
<1>8. TailsFollow' /\ HeadsWait'
  BY <1>1, <1>2, <1>3, <1>4, <1>5, TailsKept, HeadsMove
<1>9. ASSUME NEW q \in Queues PROVE SlotsOf(q)'
  BY <1>1, <1>2, <1>3, <1>5, SlotsMove
<1> QED
  BY <1>2, <1>6, <1>7, <1>8, <1>9 DEF SlotInv

LEMMA StutterSlots == SlotInv /\ UNCHANGED vars => SlotInv'
<1> SUFFICES ASSUME SlotInv, UNCHANGED vars PROVE SlotInv'
  OBVIOUS
<1> USE DEF vars, manager, ports
<1>1. TypeOK'
  BY DEF SlotInv, TypeOK
<1>2. Inv'
  BY StepInv DEF SlotInv
<1>3. Window' /\ Youngest'
  BY DEF SlotInv, Window, Youngest, InPipe, Age, Mine
<1>4. WritesKept'
  BY DEF SlotInv, WritesKept
<1>5. TailsFollow'
  BY DEF SlotInv, TailsFollow, WritesTo, Ahead
<1>6. HeadsWait'
  BY DEF SlotInv, HeadsWait, WritesTo, Rewindable, Mine, Committing, Ahead
<1>7. \A q \in Queues : SlotsOf(q)'
  <2>1. Ends' = Ends /\ EntryAges' = EntryAges
    BY DEF Ends, EntryAges, Age
  <2>2. \A q \in Queues : Mine(q)' = Mine(q) /\ Commits(q)' = Commits(q)
    BY DEF Mine, Commits, Committing
  <2> QED
    BY <2>1, <2>2 DEF SlotInv, SlotsOf
<1> QED
  BY <1>1, <1>2, <1>3, <1>4, <1>5, <1>6, <1>7 DEF SlotInv

THEOREM StepSlotInv == SlotInv /\ [Next]_vars => SlotInv'
<1>1. ASSUME SlotInv, Next PROVE SlotInv'
  <2>1. PICK respReady \in Ready("resp"), bReady \in Ready("b"), rReady \in Ready("r"),
             tag \in held \cup {None} : Tick(respReady, bReady, rReady, tag)
    BY <1>1 DEF Next
  <2> QED
    BY <1>1, <2>1, TickSlots
<1> QED
  BY <1>1, StutterSlots

\* The slots of one queue are those the property names.
LEMMA SlotsAsStated ==
    ASSUME TypeOK, NEW q \in Queues, SlotsOf(q)
    PROVE  LET first == Ahead(q, ram[q].head) + IF Committing(q) THEN 1 ELSE 0 IN
           /\ \A j \in Stages : pipe[j].op = "commit" /\ pipe[j].queue = q =>
                  pipe[j].data = (ram[q].head + 1) % PtrMod
           /\ \A i, k \in Mine(q) : Age(i) < Age(k) => Ahead(q, table[i].ptr) < Ahead(q, table[k].ptr)
           /\ \E n \in first..Size : {Ahead(q, table[i].ptr) : i \in Mine(q)} = first + 1..n
<1> DEFINE t == ram[q].tail
           first == Used(ram[q].head, t) + Commits(q)
<1>1. \A i \in Mine(q) : EntryAges[i] = Age(i) /\ Ends[i] = table[i].ptr
  BY DEF EntryAges, Ends, Mine
<1>2. /\ \A i, k \in Mine(q) : EntryAges[i] < EntryAges[k] => Used(Ends[i], t) < Used(Ends[k], t)
      /\ \E n \in first..Size :
            /\ \A i \in Mine(q) : Used(Ends[i], t) \in first + 1..n
            /\ \A d \in first + 1..n : \E i \in Mine(q) : Used(Ends[i], t) = d
  BY DEF SlotsOf, Fits
<1> HIDE DEF first
<1>3. \A i, k \in Mine(q) : Age(i) < Age(k) => Used(table[i].ptr, t) < Used(table[k].ptr, t)
  BY <1>1, <1>2
<1>4. PICK n \in first..Size :
          /\ \A i \in Mine(q) : Used(table[i].ptr, t) \in first + 1..n
          /\ \A d \in first + 1..n : \E i \in Mine(q) : Used(table[i].ptr, t) = d
  BY <1>1, <1>2
<1>5. {Used(table[i].ptr, t) : i \in Mine(q)} = first + 1..n
  BY <1>4
<1>6. \A j \in Stages : pipe[j].op = "commit" /\ pipe[j].queue = q =>
          pipe[j].data = (ram[q].head + 1) % PtrMod
  BY DEF SlotsOf
<1> QED
  BY <1>3, <1>4, <1>5, <1>6 DEF Ahead, Commits, first

\* For any number of queues and table entries and at every depth of the pipeline, the
\* slots granted follow the head without a gap, in the order of the grants, and stay
\* within the queue (cpl_queue_manager.v:292-296, 507-536, 622-630).
THEOREM SlotsInOrder == Safety => []SlotsFollowHead
<1>1. SlotInv => SlotsFollowHead
  <2> SUFFICES ASSUME SlotInv PROVE SlotsFollowHead
    OBVIOUS
  <2>1. TypeOK /\ \A q \in Queues : SlotsOf(q)
    BY DEF SlotInv
  <2> QED
    BY <2>1, SlotsAsStated DEF SlotsFollowHead
<1> QED
  BY <1>1, InitSlotInv, StepSlotInv, PTL DEF Safety


-----------------------------------------------------------------------------
(* The commits in the pipeline, counted from the last stage on. *)

\* Which place a stage of S has, counted from the last.
Rank(S, j) == Cardinality({k \in S : k >= j})

\* Places go from 1 to the number of stages, and a later stage has an earlier place.
LEMMA RankFacts ==
    ASSUME NEW S, S \subseteq Stages
    PROVE  /\ IsFiniteSet(S) /\ Cardinality(S) \in Nat
           /\ \A j \in S : Rank(S, j) \in 1..Cardinality(S)
           /\ \A j, k \in S : j < k => Rank(S, k) < Rank(S, j)
           /\ \A j, k \in S : Rank(S, j) = Rank(S, k) => j = k
           /\ \A d \in 1..Cardinality(S) : \E j \in S : Rank(S, j) = d
<1> DEFINE From(j) == {k \in S : k >= j}
<1>1. IsFiniteSet(S) /\ Cardinality(S) \in Nat /\ S \subseteq Int
  <2>1. IsFiniteSet(Stages) /\ Stages \subseteq Int
    BY ParamAssumption, FS_Interval DEF Stages
  <2>2. IsFiniteSet(S)
    BY <2>1, FS_Subset
  <2> QED
    BY <2>1, <2>2, FS_CardinalityType
<1>2. ASSUME NEW j \in S
      PROVE  /\ IsFiniteSet(From(j)) /\ Cardinality(From(j)) \in Nat
             /\ Cardinality(From(j)) <= Cardinality(S) /\ Cardinality(From(j)) # 0
  <2>1. From(j) \in SUBSET S /\ j \in From(j)
    BY <1>1
  <2>2. IsFiniteSet(From(j)) /\ Cardinality(From(j)) <= Cardinality(S)
    BY <1>1, <2>1, FS_Subset
  <2>3. Cardinality(From(j)) # 0
    BY <2>1, <2>2, FS_EmptySet
  <2> QED
    BY <2>2, <2>3, FS_CardinalityType
<1>3. ASSUME NEW j \in S, NEW k \in S, j < k PROVE Cardinality(From(k)) < Cardinality(From(j))
  <2>1. j \in Int /\ k \in Int /\ \A m \in S : m \in Int
    BY <1>1
  <2> HIDE DEF From
  <2>4. From(k) \subseteq From(j) /\ j \in From(j) /\ j \notin From(k)
    <3>1. \A m \in S : m >= k => m >= j
      BY <1>3, <2>1
    <3>2. j >= j /\ ~(j >= k)
      BY <1>3, <2>1
    <3> QED
      BY <3>1, <3>2, Zenon DEF From
  <2>2. /\ Cardinality(From(k)) <= Cardinality(From(j))
        /\ Cardinality(From(j)) = Cardinality(From(k)) => From(j) = From(k)
    BY <1>2, <2>4, FS_Subset
  <2>3. Cardinality(From(k)) # Cardinality(From(j))
    BY <2>2, <2>4
  <2> QED
    BY <1>2, <2>2, <2>3
<1>4. \A j \in S : Rank(S, j) = Cardinality(From(j))
  BY DEF Rank
<1> HIDE DEF From
<1>5. \A j \in S : Rank(S, j) \in 1..Cardinality(S)
  BY <1>1, <1>2, <1>4
<1>6. \A j, k \in S : j < k => Rank(S, k) < Rank(S, j)
  BY <1>3, <1>4
<1>7. ASSUME NEW j \in S, NEW k \in S, Rank(S, j) = Rank(S, k) PROVE j = k
  <2>1. j \in Int /\ k \in Int /\ Rank(S, j) \in Int /\ Rank(S, k) \in Int
    BY <1>1, <1>5
  <2>2. ~(j < k) /\ ~(k < j)
    BY <1>6, <1>7, <2>1
  <2> QED
    BY <2>1, <2>2
<1>8. ASSUME NEW d \in 1..Cardinality(S) PROVE \E j \in S : Rank(S, j) = d
  <2> DEFINE T == 1..Cardinality(S)
             f == [j \in S |-> Rank(S, j)]
  <2>1. IsFiniteSet(T) /\ Cardinality(T) = Cardinality(S)
    BY <1>1, FS_Interval
  <2>2. f \in Injection(S, T)
    BY <1>5, <1>7 DEF Injection, IsInjective
  <2> HIDE DEF f, T
  <2>3. f \in Surjection(S, T)
    BY <2>1, <2>2, FS_Injection
  <2> QED
    BY <2>3 DEF Surjection, f, T
<1> QED
  BY <1>1, <1>5, <1>6, <1>7, <1>8

\* The place of a stage in the set T of those a step moves on from S: one less if the
\* last stage was in S.
LEMMA RanksMove ==
    ASSUME NEW S, S \subseteq Stages, NEW T, T \subseteq Stages,
           \A j \in Stages : j # 0 => (j \in T <=> j - 1 \in S)
    PROVE  LET x == IF Last \in S THEN 1 ELSE 0
               n == IF 0 \in T THEN 1 ELSE 0
           IN  /\ Cardinality(T) = Cardinality(S) - x + n
               /\ \A j \in T : j # 0 => Rank(T, j) = Rank(S, j - 1) - x
               /\ 0 \in T => Rank(T, 0) = Cardinality(T)
               /\ Last \in S => Rank(S, Last) = 1
<1> DEFINE x == IF Last \in S THEN 1 ELSE 0
           n == IF 0 \in T THEN 1 ELSE 0
<1>1. /\ Pipeline \in Nat /\ Pipeline >= 2
      /\ \A j : j \in Stages <=> j \in Nat /\ j < Pipeline
      /\ Last = Pipeline - 1
  BY ParamAssumption DEF Stages, Last
<1>2. ASSUME NEW A, NEW B, A \subseteq Stages, B \subseteq Stages, 
             \A k \in B : k # 0 /\ k - 1 \in A,
             \A k \in A : k + 1 \in B
      PROVE  Cardinality(A) = Cardinality(B)
  <2> DEFINE f == [k \in A |-> k + 1]
  <2>1. IsFiniteSet(A)
    BY <1>2, RankFacts
  <2>2. f \in [A -> B]
    BY <1>2
  <2>3. f \in Bijection(A, B)
    <3>1. \A k, m \in A : f[k] = f[m] => k = m
      BY <1>1, <1>2
    <3>2. \A m \in B : \E k \in A : f[k] = m
      <4> TAKE m \in B
      <4>1. m - 1 \in A /\ f[m - 1] = m
        BY <1>1, <1>2
      <4> QED
        BY <4>1
    <3> HIDE DEF f
    <3>3. f \in Injection(A, B)
      BY <2>2, <3>1 DEF Injection, IsInjective
    <3>4. f \in Surjection(A, B)
      BY <2>2, <3>2 DEF Surjection
    <3> QED
      BY <3>3, <3>4 DEF Bijection
  <2> HIDE DEF f
  <2>4. ExistsBijection(A, B)
    BY <2>3 DEF ExistsBijection
  <2> QED
    BY <2>1, <2>4, FS_Bijection
<1>3. IsFiniteSet(S) /\ IsFiniteSet(T) /\ Cardinality(S) \in Nat /\ Cardinality(T) \in Nat
  BY RankFacts
<1>4. Cardinality(S \ {Last}) = Cardinality(S) - x
  <2>1. Cardinality(S \ {Last}) = IF Last \in S THEN Cardinality(S) - 1 ELSE Cardinality(S)
    BY <1>3, FS_RemoveElement
  <2> QED
    BY <1>3, <2>1
<1>5. Cardinality(T \ {0}) = Cardinality(T) - n
  <2>1. Cardinality(T \ {0}) = IF 0 \in T THEN Cardinality(T) - 1 ELSE Cardinality(T)
    BY <1>3, FS_RemoveElement
  <2> QED
    BY <1>3, <2>1
<1>6. Cardinality(S \ {Last}) = Cardinality(T \ {0})
  <2> DEFINE A == S \ {Last}
             B == T \ {0}
  <2>1. \A k \in B : k # 0 /\ k - 1 \in A
    BY <1>1
  <2>2. \A k \in A : k + 1 \in B
    BY <1>1
  <2> QED
    BY <1>2, <2>1, <2>2
<1>7. ASSUME NEW j \in T, j # 0 PROVE Rank(T, j) = Rank(S, j - 1) - x
  <2> DEFINE U == {k \in S : k >= j - 1}
             A == U \ {Last}
             B == {k \in T : k >= j}
  <2>1. \A k \in B : k # 0 /\ k - 1 \in A
    BY <1>1, <1>7
  <2>2. \A k \in A : k + 1 \in B
    BY <1>1, <1>7
  <2>3. Cardinality(A) = Cardinality(B)
    BY <1>2, <2>1, <2>2
  <2>4. IsFiniteSet(U) /\ (Last \in U <=> Last \in S)
    BY <1>1, <1>3, <1>7, FS_Subset
  <2>5. Cardinality(A) = Cardinality(U) - x
    <3>1. Cardinality(A) = IF Last \in U THEN Cardinality(U) - 1 ELSE Cardinality(U)
      BY <2>4, FS_RemoveElement
    <3>2. Cardinality(U) \in Nat
      BY <2>4, FS_CardinalityType
    <3> QED
      BY <2>4, <3>1, <3>2
  <2>6. Rank(T, j) = Cardinality(B) /\ Rank(S, j - 1) = Cardinality(U)
    BY DEF Rank
  <2> QED
    BY <2>3, <2>5, <2>6
<1>8. 0 \in T => Rank(T, 0) = Cardinality(T)
  <2>1. {k \in T : k >= 0} = T
    BY <1>1
  <2> QED
    BY <2>1 DEF Rank
<1>9. Last \in S => Rank(S, Last) = 1
  <2> SUFFICES ASSUME Last \in S PROVE Rank(S, Last) = 1
    OBVIOUS
  <2>1. \A k \in S : k \in Nat /\ k <= Last
    BY <1>1
  <2>2. Last \in Nat
    BY <1>1
  <2>3. \A k \in S : k >= Last <=> k = Last
    BY <2>1, <2>2
  <2>4. {k \in S : k >= Last} = {Last}
    BY <2>3, Zenon
  <2> QED
    BY <2>4, FS_Singleton DEF Rank
<1>10. Cardinality(T) = Cardinality(S) - x + n
  BY <1>3, <1>4, <1>5, <1>6
<1> QED
  BY <1>7, <1>8, <1>9, <1>10


\* An outstanding operation.
Slots == [queue : Queues, slot : Ptrs, done : BOOLEAN]
Item(s) == [queue |-> s.queue, slot |-> (s.data - 1) % PtrMod, done |-> TRUE]

\* The item of a commit in the pipeline stands at the place of its stage.
FinishingPlaces ==
    /\ CommitStages \subseteq Stages
    /\ Finishing \in Seq(Slots) /\ Len(Finishing) = Cardinality(CommitStages)
    /\ \A j \in CommitStages : /\ Rank(CommitStages, j) \in 1..Len(Finishing)
                               /\ Finishing[Rank(CommitStages, j)] = Item(pipe[j])

LEMMA FinishingIs == TypeOK => FinishingPlaces
<1> SUFFICES ASSUME TypeOK PROVE FinishingPlaces
  OBVIOUS
<1> DEFINE S == CommitStages
           N == Cardinality(S)
           At(d) == CHOOSE j \in S : Rank(S, j) = d
<1>1. S \subseteq Stages /\ pipe \in [Stages -> Operations]
  BY DEF CommitStages, TypeOK, Operations
<1>2. /\ N \in Nat
      /\ \A j \in S : Rank(S, j) \in 1..N
      /\ \A j, k \in S : Rank(S, j) = Rank(S, k) => j = k
      /\ \A d \in 1..N : \E j \in S : Rank(S, j) = d
  BY <1>1, RankFacts
<1>3. Finishing = [d \in 1..N |-> Item(pipe[At(d)])]
  BY DEF Finishing, Item, Rank
<1>4. ASSUME NEW j \in S PROVE Item(pipe[j]) \in Slots
  <2>1. pipe[j].queue \in Queues /\ pipe[j].data \in Ptrs
    BY <1>1, Carried DEF CommitStages
  <2>2. pipe[j].data - 1 \in Int
    BY <2>1 DEF Ptrs
  <2>3. ((pipe[j].data - 1) % PtrMod) \in Ptrs
    BY <2>2, Wraps
  <2> QED
    BY <2>1, <2>3 DEF Item, Slots
<1> HIDE DEF S, N
<1>5. \A d \in 1..N : At(d) \in S /\ Rank(S, At(d)) = d
  BY <1>2
<1>6. \A j \in S : At(Rank(S, j)) = j
  BY <1>2, <1>5
<1> HIDE DEF At
<1>7. Finishing \in Seq(Slots) /\ Len(Finishing) = N
  <2>1. \A d \in 1..N : Item(pipe[At(d)]) \in Slots
    BY <1>4, <1>5
  <2> QED
    BY <1>2, <1>3, <2>1
<1>8. \A j \in S : Rank(S, j) \in 1..N /\ Finishing[Rank(S, j)] = Item(pipe[j])
  BY <1>2, <1>3, <1>6
<1> QED
  BY <1>1, <1>7, <1>8 DEF FinishingPlaces, S, N


\* Commits move on with the pipeline.
LEMMA CommitStagesMove ==
    ASSUME NEW e, Moves(e)
    PROVE  /\ \A j \in Stages : j # 0 => (j \in CommitStages' <=> j - 1 \in CommitStages)
           /\ 0 \in CommitStages' <=> e.op = "commit"
           /\ Last \in CommitStages <=> cur.op = "commit"
<1> USE StageFacts DEF CommitStages
<1>1. pipe'[0] = e /\ \A j \in Stages : j # 0 => pipe'[j] = pipe[j - 1]
  BY DEF Moves
<1>2. \A j \in Stages : j # 0 => (j \in CommitStages' <=> j - 1 \in CommitStages)
  BY <1>1
<1>3. 0 \in CommitStages' <=> e.op = "commit"
  BY <1>1
<1>4. Last \in CommitStages <=> cur.op = "commit"
  BY DEF cur
<1> QED
  BY <1>2, <1>3, <1>4

\* The first leaves when the last stage performs it; one that enters comes last.
LEMMA FinishingMoves ==
    ASSUME TypeOK, TypeOK', NEW e, Moves(e)
    PROVE  LET x == IF cur.op = "commit" THEN 1 ELSE 0
               n == IF e.op = "commit" THEN 1 ELSE 0
           IN  /\ Len(Finishing') = Len(Finishing) - x + n
               /\ \A i \in 1..Len(Finishing) - x : Finishing'[i] = Finishing[i + x]
               /\ e.op = "commit" => Finishing'[Len(Finishing')] = Item(e)
               /\ cur.op = "commit" => Len(Finishing) >= 1 /\ Finishing[1] = Item(cur)
<1> DEFINE x == IF cur.op = "commit" THEN 1 ELSE 0
           n == IF e.op = "commit" THEN 1 ELSE 0
<1>1. PICK S, T : S = CommitStages /\ T = CommitStages'
  OBVIOUS
<1>2. PICK a, b : a = Finishing /\ b = Finishing'
  OBVIOUS
<1>3. /\ S \subseteq Stages /\ Len(a) = Cardinality(S) /\ Len(a) \in Nat
      /\ \A j \in S : Rank(S, j) \in 1..Len(a) /\ a[Rank(S, j)] = Item(pipe[j])
  BY <1>1, <1>2, FinishingIs DEF FinishingPlaces
<1>4. /\ T \subseteq Stages /\ Len(b) = Cardinality(T) /\ Len(b) \in Nat
      /\ \A j \in T : Rank(T, j) \in 1..Len(b) /\ b[Rank(T, j)] = Item(pipe'[j])
  <2>1. (TypeOK => FinishingPlaces)'
    BY FinishingIs, PTL
  <2> QED
    BY <1>1, <1>2, <2>1 DEF FinishingPlaces
<1>5. /\ \A j \in Stages : j # 0 => (j \in T <=> j - 1 \in S)
      /\ 0 \in T <=> e.op = "commit"
      /\ Last \in S <=> cur.op = "commit"
  BY <1>1, CommitStagesMove
<1>6. /\ Cardinality(T) = Cardinality(S) - x + n
      /\ \A j \in T : j # 0 => Rank(T, j) = Rank(S, j - 1) - x
      /\ 0 \in T => Rank(T, 0) = Cardinality(T)
      /\ Last \in S => Rank(S, Last) = 1
  BY <1>3, <1>4, <1>5, RanksMove
<1>7. pipe'[0] = e /\ \A j \in Stages : j # 0 => pipe'[j] = pipe[j - 1]
  BY DEF Moves
<1>8. x \in 0..1 /\ n \in 0..1
  OBVIOUS
<1>9. Len(b) = Len(a) - x + n
  BY <1>3, <1>4, <1>6
<1>10. ASSUME NEW i \in 1..Len(a) - x PROVE b[i] = a[i + x]
  <2>1. i \in 1..Cardinality(T)
    BY <1>3, <1>4, <1>8, <1>9
  <2>2. PICK j \in T : Rank(T, j) = i
    BY <1>4, <2>1, RankFacts
  <2>3. j # 0
    <3>1. 0 \in T => n = 1 /\ Rank(T, 0) = Len(b)
      BY <1>4, <1>5, <1>6
    <3> QED
      BY <1>3, <1>8, <1>9, <2>2, <3>1
  <2>4. j - 1 \in S /\ Rank(S, j - 1) - x = i
    BY <1>4, <1>5, <1>6, <2>2, <2>3
  <2>5. Rank(S, j - 1) = i + x
    BY <1>3, <1>8, <2>4
  <2>6. b[i] = Item(pipe'[j]) /\ a[i + x] = Item(pipe[j - 1])
    BY <1>3, <1>4, <2>2, <2>4, <2>5
  <2> QED
    BY <1>4, <1>7, <2>3, <2>6
<1>11. e.op = "commit" => b[Len(b)] = Item(e)
  BY <1>4, <1>5, <1>6, <1>7
<1>12. cur.op = "commit" => Len(a) >= 1 /\ a[1] = Item(cur)
  BY <1>3, <1>5, <1>6 DEF cur
<1> QED
  BY <1>2, <1>9, <1>10, <1>11, <1>12


-----------------------------------------------------------------------------
(* The entries of the table, oldest first. *)

Place(o) == [queue |-> o.queue, slot |-> (o.ptr - 1) % PtrMod, done |-> o.commit]

\* The entry of each age.
LEMMA AgedEntry ==
    ASSUME NEW f \in Ops, NEW d \in Nat, d < OpTableSize
    PROVE  ((f + d) % OpTableSize) \in Ops /\ After(f, (f + d) % OpTableSize) = d
<1> DEFINE i == (f + d) % OpTableSize
<1>1. /\ OpTableSize \in Nat /\ OpTableSize > 0 /\ f \in Int /\ 0 <= f /\ f < OpTableSize
      /\ \A k : k \in Ops <=> k \in Int /\ 0 <= k /\ k < OpTableSize
  BY ParamAssumption DEF Ops
<1>2. f + d < OpTableSize => i = f + d
  BY <1>1, Around
<1>3. f + d >= OpTableSize => i = f + d - OpTableSize
  <2> SUFFICES ASSUME f + d >= OpTableSize PROVE i = f + d - OpTableSize
    OBVIOUS
  <2>1. ASSUME NEW r \in 0..OpTableSize - 1 PROVE (OpTableSize * 1 + r) % OpTableSize = r
    BY <1>1
  <2>2. f + d - OpTableSize \in 0..OpTableSize - 1
    BY <1>1
  <2>3. OpTableSize * 1 + (f + d - OpTableSize) = f + d
    BY <1>1
  <2> QED
    BY <2>1, <2>2, <2>3
<1> HIDE DEF i
<1>4. i \in Ops
  BY <1>1, <1>2, <1>3
<1>5. After(f, i) = IF f <= i THEN i - f ELSE i - f + OpTableSize
  BY <1>4, AfterIs
<1> QED
  BY <1>1, <1>2, <1>3, <1>4, <1>5 DEF i

\* An entry stands at the place of its age.
WaitingPlaces ==
    /\ Waiting \in Seq(Slots) /\ Len(Waiting) = InUse
    /\ \A i \in Ops : table[i].active =>
          /\ After(finishPtr, i) + 1 \in 1..InUse
          /\ Waiting[After(finishPtr, i) + 1] = Place(table[i])
    /\ \A d \in 1..InUse : \E i \in Ops : table[i].active /\ After(finishPtr, i) + 1 = d

LEMMA WaitingIs == TypeOK /\ Window => WaitingPlaces
<1> SUFFICES ASSUME TypeOK, Window PROVE WaitingPlaces
  OBVIOUS
<1> DEFINE A(i) == After(finishPtr, i)
           At(d) == (finishPtr + d - 1) % OpTableSize
<1>1. finishPtr \in Ops /\ startPtr \in Ops /\ OpTableSize \in Nat /\ Ops \subseteq Int
  BY ParamAssumption, Wraps DEF TypeOK
<1>2. \A i \in Ops : A(i) \in Nat /\ A(i) < OpTableSize
  BY <1>1, Ages
<1>3. \A i, k \in Ops : A(i) = A(k) => i = k
  BY <1>1, Ages
<1>4. /\ InUse \in Nat /\ InUse <= OpTableSize
      /\ \A i \in Ops : table[i].active <=> A(i) < InUse
  <2>1. Age(startPtr) = A(startPtr) /\ \A i \in Ops : Age(i) = A(i)
    BY <1>1, AgeIs
  <2>2. CASE table[startPtr].active
    BY <1>1, <1>2, <2>2 DEF Window, InUse
  <2>3. CASE ~table[startPtr].active
    BY <1>1, <1>2, <2>1, <2>3 DEF Window, InUse
  <2> QED
    BY <2>2, <2>3
<1>5. ASSUME NEW d \in 1..InUse PROVE At(d) \in Ops /\ A(At(d)) = d - 1
  <2>1. d - 1 \in Nat /\ d - 1 < OpTableSize /\ finishPtr + (d - 1) = finishPtr + d - 1
    BY <1>1, <1>4
  <2>2. ((finishPtr + (d - 1)) % OpTableSize) \in Ops
        /\ After(finishPtr, (finishPtr + (d - 1)) % OpTableSize) = d - 1
    BY <1>1, <2>1, AgedEntry
  <2> QED
    BY <2>1, <2>2
<1>6. Waiting = [d \in 1..InUse |-> Place(table[At(d)])]
  BY DEF Waiting, Place
<1>7. ASSUME NEW i \in Ops PROVE Place(table[i]) \in Slots
  <2>1. table[i].queue \in Queues /\ table[i].ptr \in Ptrs /\ table[i].commit \in BOOLEAN
    BY <1>7 DEF TypeOK
  <2>2. table[i].ptr - 1 \in Int
    BY <2>1 DEF Ptrs
  <2>3. ((table[i].ptr - 1) % PtrMod) \in Ptrs
    BY <2>2, Wraps
  <2> QED
    BY <2>1, <2>3 DEF Place, Slots
<1> HIDE DEF A, At
<1>8. Waiting \in Seq(Slots) /\ Len(Waiting) = InUse
  <2>1. \A d \in 1..InUse : Place(table[At(d)]) \in Slots
    BY <1>5, <1>7
  <2> QED
    BY <1>4, <1>6, <2>1
<1>9. ASSUME NEW i \in Ops, table[i].active
      PROVE  A(i) + 1 \in 1..InUse /\ Waiting[A(i) + 1] = Place(table[i])
  <2>1. A(i) + 1 \in 1..InUse
    BY <1>2, <1>4, <1>9
  <2>2. At(A(i) + 1) \in Ops /\ A(At(A(i) + 1)) = A(i)
    BY <1>2, <1>5, <2>1
  <2>3. At(A(i) + 1) = i
    BY <1>3, <2>2
  <2> QED
    BY <1>6, <2>1, <2>3
<1>10. ASSUME NEW d \in 1..InUse PROVE \E i \in Ops : table[i].active /\ A(i) + 1 = d
  <2>1. At(d) \in Ops /\ A(At(d)) = d - 1
    BY <1>5
  <2>2. table[At(d)].active /\ A(At(d)) + 1 = d
    BY <1>4, <2>1
  <2> QED
    BY <2>1, <2>2
<1> QED
  BY <1>8, <1>9, <1>10 DEF WaitingPlaces, A


\* A clock edge finishes only a committed entry, and takes back no commit.
Records(e) ==
    /\ e.op = "commit" => table[finishPtr].commit
    /\ \A i \in Ops : table[i].commit /\ ~(StartEn /\ i = startPtr) => table'[i].commit

LEMMA TickRecords ==
    ASSUME NEW respReady, NEW bReady, NEW rReady, NEW tag, NEW e, Moves(e),
           Tick(respReady, bReady, rReady, tag)
    PROVE  Records(e)
<1>1. e.op = "commit" => table[finishPtr].commit
  <2> DEFINE c == AcceptCommit(bReady, rReady)
  <2>1. pipe'[0] = e
    BY DEF Moves
  <2>2. c => table[finishPtr].commit
    BY DEF AcceptCommit
  <2>3. ASSUME NEW n, Shift(n) PROVE pipe'[0] = n
    BY <2>3, StageFacts DEF Shift
  <2> HIDE DEF c
  <2>4. c \/ \E n : Shift(n) /\ n.op # "commit"
    <3>1. \A q, d : /\ Stage("write", q, d).op # "commit" /\ Stage("read", q, d).op # "commit"
                    /\ Stage("req", q, d).op # "commit"
      BY DEF Stage
    <3>2. Idle.op # "commit"
      BY DEF Idle
    <3> QED
      BY <3>1, <3>2 DEF Tick, Enter, c
  <2> QED
    BY <2>1, <2>2, <2>3, <2>4
<1>2. \A i \in Ops : table[i].commit /\ ~(StartEn /\ i = startPtr) => table'[i].commit
  BY DEF Tick, Tables
<1> QED
  BY <1>1, <1>2 DEF Records

\* One entry leaves for a commit that enters the pipeline, one comes with a grant; the
\* new one is the youngest.
LEMMA InUseMoves ==
    ASSUME TypeOK, Inv, Window, NEW e, Moves(e)
    PROVE  LET n == IF e.op = "commit" THEN 1 ELSE 0
               y == IF StartEn THEN 1 ELSE 0
           IN  /\ InUse' = InUse - n + y
               /\ \A i \in Ops : table[i].active /\ ~(e.op = "commit" /\ i = finishPtr) =>
                      After(finishPtr', i) = After(finishPtr, i) - n
               /\ StartEn => After(finishPtr', startPtr) = InUse - n
<1> DEFINE N == OpTableSize
           f == finishPtr
           s == startPtr
           A(i) == After(f, i)
           fin == e.op = "commit"
           n == IF fin THEN 1 ELSE 0
           y == IF StartEn THEN 1 ELSE 0
<1>1. /\ f \in Ops /\ s \in Ops /\ N \in Nat /\ N > 0
  BY ParamAssumption DEF TypeOK
<1>2. /\ \A i \in Ops : A(i) \in Nat /\ A(i) < N
      /\ \A i, k \in Ops : A(i) = A(k) => i = k
      /\ A(f) = 0 /\ NextOp(s) \in Ops /\ NextOp(f) \in Ops
      /\ A(NextOp(s)) = IF A(s) = N - 1 THEN 0 ELSE A(s) + 1
      /\ \A i \in Ops : After(NextOp(f), i) = IF i = f THEN N - 1 ELSE A(i) - 1
  BY <1>1, Ages
<1>3. /\ IF table[s].active THEN s = f /\ \A i \in Ops : table[i].active
         ELSE \A i \in Ops : table[i].active <=> A(i) < A(s)
      /\ InUse = IF table[s].active THEN N ELSE A(s)
  BY AgeIs DEF Window, InUse
<1>4. /\ \A i \in Ops : table'[i].active <=> \/ table[i].active /\ ~(fin /\ i = f)
                                             \/ StartEn /\ i = s
      /\ startPtr' = IF StartEn THEN NextOp(s) ELSE s
      /\ finishPtr' = IF fin THEN NextOp(f) ELSE f
      /\ fin => table[f].active
  BY DEF Moves
<1>5. StartEn => ~table[s].active
  BY StartsUnused
<1> DEFINE B(i) == After(finishPtr', i)
           on(i) == table'[i].active
<1>6. InUse' = IF on(startPtr') THEN N ELSE B(startPtr')
  BY DEF InUse, Age, After
<1>7. \A i \in Ops : table[i].active /\ ~(fin /\ i = f) => B(i) = A(i) - n
  BY <1>1, <1>2, <1>4
<1>8. ASSUME StartEn PROVE B(s) = InUse - n
  <2>1. ~table[s].active /\ InUse = A(s) /\ (fin => s # f)
    BY <1>1, <1>3, <1>4, <1>5, <1>8
  <2> QED
    BY <1>1, <1>2, <1>4, <2>1
<1>9. InUse' = InUse - n + y
  <2>1. CASE ~fin /\ ~StartEn
    BY <1>1, <1>2, <1>3, <1>4, <1>6, <2>1
  <2>2. CASE ~fin /\ StartEn
    <3>1. startPtr' = NextOp(s) /\ finishPtr' = f /\ \A i \in Ops : on(i) <=> A(i) < A(s) \/ i = s
      BY <1>1, <1>3, <1>4, <1>5, <2>2
    <3>2. InUse = A(s)
      BY <1>3, <1>5, <2>2
    <3>3. CASE A(s) = N - 1
      <4>1. NextOp(s) = f
        BY <1>1, <1>2, <3>3
      <4>2. on(f)
        BY <1>1, <1>2, <3>1, <3>3
      <4> QED
        BY <1>1, <1>6, <2>2, <3>1, <3>2, <3>3, <4>1, <4>2
    <3>4. CASE A(s) # N - 1
      <4>1. A(NextOp(s)) = A(s) + 1
        BY <1>2, <3>4
      <4>2. ~on(NextOp(s))
        BY <1>1, <1>2, <3>1, <4>1
      <4> QED
        BY <1>1, <1>2, <1>6, <2>2, <3>1, <3>2, <4>1, <4>2
    <3> QED
      BY <3>3, <3>4
  <2>3. CASE fin /\ ~StartEn
    <3>1. startPtr' = s /\ finishPtr' = NextOp(f) /\ \A i \in Ops : on(i) <=> table[i].active /\ i # f
      BY <1>1, <1>4, <2>3
    <3>2. CASE table[s].active
      <4>1. s = f /\ ~on(s) /\ InUse = N
        BY <1>1, <1>3, <3>1, <3>2
      <4>2. B(s) = N - 1
        BY <1>1, <1>2, <3>1, <4>1
      <4> QED
        BY <1>1, <1>6, <2>3, <3>1, <4>1, <4>2
    <3>3. CASE ~table[s].active
      <4>1. s # f /\ ~on(s) /\ InUse = A(s)
        BY <1>1, <1>3, <1>4, <2>3, <3>1, <3>3
      <4>2. B(s) = A(s) - 1
        BY <1>1, <1>2, <3>1, <4>1
      <4> QED
        BY <1>1, <1>2, <1>6, <2>3, <3>1, <4>1, <4>2
    <3> QED
      BY <3>2, <3>3
  <2>4. CASE fin /\ StartEn
    <3>1. /\ startPtr' = NextOp(s) /\ finishPtr' = NextOp(f) /\ s # f /\ InUse = A(s)
          /\ \A i \in Ops : on(i) <=> (A(i) < A(s) /\ i # f) \/ i = s
      BY <1>1, <1>3, <1>4, <1>5, <2>4
    <3>2. B(NextOp(s)) = A(s)
      BY <1>1, <1>2, <3>1
    <3>3. ~on(NextOp(s))
      <4>1. \A i \in Ops : on(i) => B(i) < A(s)
        BY <1>1, <1>2, <3>1
      <4> QED
        BY <1>1, <1>2, <3>2, <4>1
    <3> QED
      BY <1>1, <1>2, <1>6, <2>4, <3>1, <3>2, <3>3
  <2> QED
    BY <2>1, <2>2, <2>3, <2>4
<1> QED
  BY <1>7, <1>8, <1>9

\* A pointer is the one before the next, and the next of the one before.
LEMMA BackAndForth ==
    ASSUME NEW p \in Ptrs
    PROVE  /\ ((((p + 1) % PtrMod) - 1) % PtrMod) = p
           /\ ((((p - 1) % PtrMod) + 1) % PtrMod) = p
<1>1. PtrMod \in Nat /\ PtrMod > 1 /\ p \in Int /\ 0 <= p /\ p < PtrMod
  BY ParamAssumption DEF Ptrs
<1> DEFINE up == (p + 1) % PtrMod
           down == (p - 1) % PtrMod
<1>2. up = IF p + 1 = PtrMod THEN 0 ELSE p + 1
  BY Advance
<1>3. down = IF p = 0 THEN PtrMod - 1 ELSE p - 1
  <2>1. /\ 0 <= p - 1 => down = p - 1
        /\ p - 1 < 0 => down = p - 1 + PtrMod
    BY <1>1, Around
  <2> HIDE DEF down
  <2> QED
    BY <1>1, <2>1
<1> HIDE DEF up, down
<1>4. ((up - 1) % PtrMod) = p
  <2>1. up - 1 \in Int /\ up \in Int
    BY <1>1, <1>2
  <2>2. /\ 0 <= up - 1 /\ up - 1 < PtrMod => ((up - 1) % PtrMod) = up - 1
        /\ -PtrMod <= up - 1 /\ up - 1 < 0 => ((up - 1) % PtrMod) = up - 1 + PtrMod
    BY <1>1, <2>1, Around
  <2> QED
    BY <1>1, <1>2, <2>2
<1>5. ((down + 1) % PtrMod) = p
  <2>1. down \in Ptrs
    BY <1>1, <1>3 DEF Ptrs
  <2>2. ((down + 1) % PtrMod) = IF down + 1 = PtrMod THEN 0 ELSE down + 1
    BY <2>1, Advance
  <2> QED
    BY <1>1, <1>3, <2>2
<1> QED
  BY <1>4, <1>5 DEF up, down

\* Two items stand for the same grant, which is committed if it was before.
Continues(new, old) == new.queue = old.queue /\ new.slot = old.slot /\ (old.done => new.done)

\* The oldest entry leaves when a commit enters the pipeline; a grant comes last.
LEMMA WaitingMoves ==
    ASSUME TypeOK, TypeOK', Inv, Window, Window', NEW e, Moves(e),
           Records(e)
    PROVE  LET n == IF e.op = "commit" THEN 1 ELSE 0
               y == IF StartEn THEN 1 ELSE 0
           IN  /\ Len(Waiting') = Len(Waiting) - n + y
               /\ \A i \in 1..Len(Waiting) - n : Continues(Waiting'[i], Waiting[i + n])
               /\ StartEn => /\ Waiting'[Len(Waiting')].queue = cur.queue
                             /\ Waiting'[Len(Waiting')].slot = ActiveHead(cur.queue, cur.word)
               /\ e.op = "commit" => Len(Waiting) >= 1 /\ Waiting[1] = Item(e)
<1> DEFINE fin == e.op = "commit"
           n == IF fin THEN 1 ELSE 0
           y == IF StartEn THEN 1 ELSE 0
<1>1. PICK f, g, s, u, v : f = finishPtr /\ g = finishPtr' /\ s = startPtr /\ u = Waiting /\ v = Waiting'
  OBVIOUS
<1>2. /\ Len(u) = InUse /\ Len(u) \in Nat
      /\ \A i \in Ops : table[i].active =>
            After(f, i) + 1 \in 1..Len(u) /\ u[After(f, i) + 1] = Place(table[i])
      /\ \A d \in 1..Len(u) : \E i \in Ops : table[i].active /\ After(f, i) + 1 = d
  BY <1>1, WaitingIs DEF WaitingPlaces
<1>3. /\ Len(v) = InUse' /\ Len(v) \in Nat
      /\ \A i \in Ops : table'[i].active =>
            After(g, i) + 1 \in 1..Len(v) /\ v[After(g, i) + 1] = Place(table'[i])
  <2>1. (TypeOK /\ Window => WaitingPlaces)'
    BY WaitingIs, PTL
  <2> QED
    BY <1>1, <2>1 DEF WaitingPlaces
<1>4. /\ InUse' = InUse - n + y
      /\ \A i \in Ops : table[i].active /\ ~(fin /\ i = f) => After(g, i) = After(f, i) - n
      /\ StartEn => After(g, s) = InUse - n
  BY <1>1, InUseMoves
<1>5. /\ \A i \in Ops : table'[i].active <=> \/ table[i].active /\ ~(fin /\ i = f)
                                             \/ StartEn /\ i = s
      /\ \A i \in Ops : ~(StartEn /\ i = s) =>
            table'[i].queue = table[i].queue /\ table'[i].ptr = table[i].ptr
      /\ StartEn => /\ table'[s].queue = cur.queue
                    /\ table'[s].ptr = (ActiveHead(cur.queue, cur.word) + 1) % PtrMod
      /\ fin => table[f].active /\ e.queue = table[f].queue /\ e.data = table[f].ptr
  BY <1>1 DEF Moves
<1>6. StartEn => ~table[s].active
  BY <1>1, StartsUnused
<1>7. f \in Ops /\ s \in Ops /\ After(f, f) = 0 /\ \A i \in Ops : After(f, i) \in Nat
  <2>1. f \in Ops /\ s \in Ops
    BY <1>1 DEF TypeOK
  <2> QED
    BY <2>1, Ages
<1>8. n \in 0..1 /\ y \in 0..1
  OBVIOUS
<1>9. ASSUME NEW i \in 1..Len(u) - n PROVE Continues(v[i], u[i + n])
  <2>1. PICK k \in Ops : table[k].active /\ After(f, k) + 1 = i + n
    <3>1. i + n \in 1..Len(u)
      BY <1>2, <1>8
    <3> QED
      BY <1>2, <3>1
  <2>2. ~(fin /\ k = f) /\ ~(StartEn /\ k = s)
    BY <1>6, <1>7, <2>1
  <2>3. After(g, k) + 1 = i /\ table'[k].active
    BY <1>4, <1>5, <1>7, <1>8, <2>1, <2>2
  <2>4. v[i] = Place(table'[k]) /\ u[i + n] = Place(table[k])
    BY <1>2, <1>3, <2>1, <2>3
  <2>5. /\ table'[k].queue = table[k].queue /\ table'[k].ptr = table[k].ptr
        /\ table[k].commit => table'[k].commit
    BY <1>1, <1>5, <2>2 DEF Records
  <2> QED
    BY <2>4, <2>5 DEF Continues, Place
<1>10. ASSUME StartEn
       PROVE  v[Len(v)].queue = cur.queue /\ v[Len(v)].slot = ActiveHead(cur.queue, cur.word)
  <2>1. After(g, s) + 1 = Len(v) /\ table'[s].active
    BY <1>2, <1>3, <1>4, <1>5, <1>7, <1>8, <1>10
  <2>2. v[Len(v)] = Place(table'[s])
    BY <1>3, <1>7, <2>1
  <2>3. ActiveHead(cur.queue, cur.word) \in Ptrs
    <3>1. cur \in Operations
      BY StageFacts DEF TypeOK, cur, Operations
    <3>2. cur.word \in Words
      BY <1>10, <3>1, Carried DEF StartEn
    <3> QED
      BY <3>2, HeadsTyped
  <2> DEFINE p == ActiveHead(cur.queue, cur.word)
  <2>4. (((p + 1) % PtrMod) - 1) % PtrMod = p
    <3> HIDE DEF p
    <3>1. p \in Ptrs
      BY <2>3 DEF p
    <3> QED
      BY <3>1, BackAndForth
  <2> QED
    BY <1>5, <1>10, <2>2, <2>4 DEF Place
<1>11. ASSUME fin PROVE Len(u) >= 1 /\ u[1] = Item(e)
  <2>1. u[1] = Place(table[f]) /\ 1 \in 1..Len(u)
    BY <1>2, <1>5, <1>7, <1>11
  <2>2. table[f].commit = TRUE
    <3>1. table[f].commit \in BOOLEAN /\ table[f].commit
      BY <1>1, <1>7, <1>11 DEF TypeOK, Records
    <3> QED
      BY <3>1
  <2>3. e.queue = table[f].queue /\ e.data = table[f].ptr
    BY <1>5, <1>11
  <2>4. Place(table[f]) = Item(e)
    BY <2>2, <2>3 DEF Place, Item
  <2>5. Len(u) >= 1
    BY <1>2, <2>1
  <2> QED
    BY <2>1, <2>4, <2>5
<1> QED
  BY <1>1, <1>2, <1>3, <1>4, <1>9, <1>10, <1>11


-----------------------------------------------------------------------------
(* The outstanding operations. *)

\* A list after another.
LEMMA Joined ==
    ASSUME NEW T, NEW a \in Seq(T), NEW b \in Seq(T)
    PROVE  /\ a \o b \in Seq(T) /\ Len(a \o b) = Len(a) + Len(b)
           /\ \A i \in 1..Len(a) : (a \o b)[i] = a[i]
           /\ \A i \in 1..Len(b) : (a \o b)[Len(a) + i] = b[i]
OBVIOUS

\* A commit at the last stage takes the first away, a grant adds one at the end, and the
\* others stay in their order.
LEMMA OutstandingMoves ==
    ASSUME TypeOK, TypeOK', Inv, Window, Window', NEW e, Moves(e),
           Records(e)
    PROVE  LET x == IF cur.op = "commit" THEN 1 ELSE 0
               y == IF StartEn THEN 1 ELSE 0
           IN  /\ Outstanding \in Seq(Slots) /\ Outstanding' \in Seq(Slots)
               /\ Len(Outstanding') = Len(Outstanding) - x + y
               /\ \A i \in 1..Len(Outstanding) - x : Continues(Outstanding'[i], Outstanding[i + x])
               /\ StartEn => /\ Outstanding'[Len(Outstanding')].queue = cur.queue
                             /\ Outstanding'[Len(Outstanding')].slot = ActiveHead(cur.queue, cur.word)
               /\ cur.op = "commit" => Len(Outstanding) >= 1 /\ Outstanding[1] = Item(cur)
<1> DEFINE x == IF cur.op = "commit" THEN 1 ELSE 0
           y == IF StartEn THEN 1 ELSE 0
           n == IF e.op = "commit" THEN 1 ELSE 0
<1>1. PICK a, b, u, v : a = Finishing /\ b = Finishing' /\ u = Waiting /\ v = Waiting'
  OBVIOUS
<1>2. a \in Seq(Slots) /\ u \in Seq(Slots)
  BY <1>1, FinishingIs, WaitingIs DEF FinishingPlaces, WaitingPlaces
<1>3. b \in Seq(Slots) /\ v \in Seq(Slots)
  <2>1. (TypeOK => FinishingPlaces)'
    BY FinishingIs, PTL
  <2>2. (TypeOK /\ Window => WaitingPlaces)'
    BY WaitingIs, PTL
  <2> QED
    BY <1>1, <2>1, <2>2 DEF FinishingPlaces, WaitingPlaces
<1>4. /\ Len(b) = Len(a) - x + n
      /\ \A i \in 1..Len(a) - x : b[i] = a[i + x]
      /\ e.op = "commit" => b[Len(b)] = Item(e)
      /\ cur.op = "commit" => Len(a) >= 1 /\ a[1] = Item(cur)
  BY <1>1, FinishingMoves
<1>5. /\ Len(v) = Len(u) - n + y
      /\ \A i \in 1..Len(u) - n : Continues(v[i], u[i + n])
      /\ StartEn => v[Len(v)].queue = cur.queue /\ v[Len(v)].slot = ActiveHead(cur.queue, cur.word)
      /\ e.op = "commit" => Len(u) >= 1 /\ u[1] = Item(e)
  BY <1>1, WaitingMoves
<1>6. Outstanding = a \o u /\ Outstanding' = b \o v
  BY <1>1 DEF Outstanding
<1>7. PICK o, w : o = a \o u /\ w = b \o v
  OBVIOUS
<1>8. /\ o \in Seq(Slots) /\ Len(o) = Len(a) + Len(u)
      /\ \A i \in 1..Len(a) : o[i] = a[i]
      /\ \A i \in 1..Len(u) : o[Len(a) + i] = u[i]
  BY <1>2, <1>7, Joined
<1>9. /\ w \in Seq(Slots) /\ Len(w) = Len(b) + Len(v)
      /\ \A i \in 1..Len(b) : w[i] = b[i]
      /\ \A i \in 1..Len(v) : w[Len(b) + i] = v[i]
  BY <1>3, <1>7, Joined
<1>10. /\ Len(a) \in Nat /\ Len(b) \in Nat /\ Len(u) \in Nat /\ Len(v) \in Nat
       /\ x \in 0..1 /\ y \in 0..1 /\ n \in 0..1
       /\ n = 1 <=> e.op = "commit"
       /\ x = 1 <=> cur.op = "commit"
       /\ y = 1 <=> StartEn
  BY <1>2, <1>3
<1> HIDE DEF x, y, n
<1>11. Len(w) = Len(o) - x + y
  BY <1>4, <1>5, <1>8, <1>9, <1>10
<1>12. ASSUME NEW i \in 1..Len(o) - x PROVE Continues(w[i], o[i + x])
  <2>1. CASE i \in 1..Len(a) - x
    <3>1. w[i] = b[i] /\ o[i + x] = a[i + x] /\ b[i] = a[i + x]
      BY <1>4, <1>8, <1>9, <1>10, <2>1
    <3> QED
      BY <3>1 DEF Continues
  <2>2. CASE n = 1 /\ i = Len(b)
    <3>1. w[i] = b[Len(b)] /\ b[Len(b)] = Item(e)
      BY <1>4, <1>9, <1>10, <2>2
    <3>2. i + x = Len(a) + 1 /\ 1 \in 1..Len(u)
      BY <1>4, <1>5, <1>10, <2>2
    <3>3. o[i + x] = Item(e)
      BY <1>5, <1>8, <1>10, <2>2, <3>2
    <3> QED
      BY <3>1, <3>3 DEF Continues
  <2>3. CASE i > Len(b)
    <3>1. PICK k \in Int : k = i - Len(b)
      BY <1>10
    <3>2. k \in 1..Len(u) - n /\ k + n \in 1..Len(u) /\ k \in 1..Len(v)
      <4>1. /\ Len(b) = Len(a) - x + n /\ Len(o) = Len(a) + Len(u)
            /\ Len(v) = Len(u) - n + y /\ i <= Len(o) - x
        BY <1>4, <1>5, <1>8, <1>10, <1>12
      <4> QED
        BY <1>10, <2>3, <3>1, <4>1
    <3>3. i = Len(b) + k /\ i + x = Len(a) + (k + n)
      BY <1>4, <1>10, <3>1
    <3>4. w[i] = v[k] /\ o[i + x] = u[k + n]
      BY <1>8, <1>9, <3>2, <3>3
    <3> QED
      BY <1>5, <3>2, <3>4
  <2> QED
    BY <1>4, <1>10, <1>12, <2>1, <2>2, <2>3
<1>13. ASSUME StartEn
       PROVE  w[Len(w)].queue = cur.queue /\ w[Len(w)].slot = ActiveHead(cur.queue, cur.word)
  <2>1. y = 1 /\ Len(v) >= 1
    <3>1. Len(u) >= n
      BY <1>5, <1>10
    <3> QED
      BY <1>5, <1>10, <1>13, <3>1
  <2>2. w[Len(w)] = v[Len(v)]
    BY <1>9, <1>10, <2>1
  <2> QED
    BY <1>5, <1>13, <2>2
<1>14. cur.op = "commit" => Len(o) >= 1 /\ o[1] = Item(cur)
  BY <1>4, <1>8, <1>10
<1> QED
  BY <1>6, <1>7, <1>8, <1>9, <1>11, <1>12, <1>13, <1>14 DEF x, y

Marked(ops, done) == [i \in DOMAIN ops |-> [ops[i] EXCEPT !.done = @ \/ i \in done]]

\* Items that stay in place are as Committed of CplQueue says: some are marked done.
LEMMA MarkedDone ==
    ASSUME NEW a \in Seq(Slots), NEW b \in Seq(Slots), Len(b) = Len(a),
           \A i \in 1..Len(a) : Continues(b[i], a[i])
    PROVE  \E done \in SUBSET DOMAIN a : b = Marked(a, done)
<1> DEFINE D == {i \in DOMAIN a : b[i].done}
<1>1. /\ DOMAIN a = 1..Len(a) /\ DOMAIN b = 1..Len(a)
      /\ \A i \in 1..Len(a) : a[i] \in Slots /\ b[i] \in Slots
      /\ b = [i \in 1..Len(a) |-> b[i]]
  OBVIOUS
<1>2. ASSUME NEW i \in 1..Len(a) PROVE b[i] = [a[i] EXCEPT !.done = @ \/ i \in D]
  <2>1. i \in D <=> b[i].done
    BY <1>1
  <2>2. PICK r \in Slots, s \in Slots : r = a[i] /\ s = b[i]
    BY <1>1
  <2>3. s.queue = r.queue /\ s.slot = r.slot /\ (r.done => s.done)
    BY <2>2 DEF Continues
  <2>4. r.done \in BOOLEAN /\ s.done \in BOOLEAN
    BY DEF Slots
  <2>5. PICK c \in BOOLEAN : c = (r.done \/ i \in D)
    OBVIOUS
  <2>6. c = s.done
    BY <2>1, <2>2, <2>3, <2>4, <2>5
  <2>7. s = [r EXCEPT !.done = c]
    BY <2>3, <2>6 DEF Slots
  <2> QED
    BY <2>2, <2>5, <2>7
<1> HIDE DEF D
<1>3. b = Marked(a, D)
  BY <1>1, <1>2 DEF Marked
<1>4. D \in SUBSET DOMAIN a
  BY DEF D
<1> QED
  BY <1>3, <1>4


\* The queue and the slot of an item.
LEMMA ItemParts ==
    /\ \A o : Place(o).queue = o.queue /\ Place(o).slot = (o.ptr - 1) % PtrMod
    /\ \A o : Item(o).queue = o.queue /\ Item(o).slot = (o.data - 1) % PtrMod /\ Item(o).done
BY DEF Place, Item

\* The operation whose item is at each place.
LEMMA ItemsOf ==
    ASSUME TypeOK, Window, NEW q \in Queues, ~Committing(q)
    PROVE  /\ Outstanding \in Seq(Slots)
           /\ \A i \in Mine(q) :
                 /\ Len(Finishing) + After(finishPtr, i) + 1 \in DOMAIN Outstanding
                 /\ Outstanding[Len(Finishing) + After(finishPtr, i) + 1] = Place(table[i])
           /\ \A d \in DOMAIN Outstanding : Outstanding[d].queue = q =>
                 \E i \in Mine(q) : d = Len(Finishing) + After(finishPtr, i) + 1
<1>1. PICK a, u, o : a = Finishing /\ u = Waiting /\ o = a \o u
  OBVIOUS
<1>2. /\ CommitStages \subseteq Stages
      /\ a \in Seq(Slots) /\ Len(a) = Cardinality(CommitStages)
      /\ \A j \in CommitStages : a[Rank(CommitStages, j)] = Item(pipe[j])
  BY <1>1, FinishingIs DEF FinishingPlaces
<1>3. /\ u \in Seq(Slots) /\ Len(u) = InUse
      /\ \A i \in Ops : table[i].active =>
            After(finishPtr, i) + 1 \in 1..Len(u) /\ u[After(finishPtr, i) + 1] = Place(table[i])
      /\ \A d \in 1..Len(u) : \E i \in Ops : table[i].active /\ After(finishPtr, i) + 1 = d
  BY <1>1, WaitingIs DEF WaitingPlaces
<1>4. /\ o \in Seq(Slots) /\ Len(o) = Len(a) + Len(u)
      /\ \A i \in 1..Len(a) : o[i] = a[i]
      /\ \A i \in 1..Len(u) : o[Len(a) + i] = u[i]
  <2>1. a \in Seq(Slots) /\ u \in Seq(Slots) /\ o = a \o u
    BY <1>1, <1>2, <1>3
  <2> QED
    BY <2>1, Joined
<1>5. Len(a) \in Nat /\ Len(u) \in Nat /\ DOMAIN o = 1..Len(o)
  BY <1>2, <1>3, <1>4
<1>6. \A i \in Ops : After(finishPtr, i) \in Nat
  <2>1. finishPtr \in Ops
    BY DEF TypeOK
  <2> QED
    BY <2>1, Ages
<1>7. ASSUME NEW d \in 1..Len(a) PROVE a[d].queue # q
  <2>1. PICK j \in CommitStages : Rank(CommitStages, j) = d
    BY <1>2, RankFacts
  <2>2. a[d].queue = pipe[j].queue /\ pipe[j].op = "commit" /\ j \in Stages
    BY <1>2, <2>1, ItemParts DEF CommitStages
  <2> QED
    BY <2>2 DEF Committing
<1>8. ASSUME NEW i \in Mine(q)
      PROVE  /\ Len(a) + After(finishPtr, i) + 1 \in DOMAIN o
             /\ o[Len(a) + After(finishPtr, i) + 1] = Place(table[i])
  <2>1. PICK k : k = After(finishPtr, i)
    OBVIOUS
  <2>2. i \in Ops /\ table[i].active
    BY DEF Mine
  <2>3. k \in Nat /\ k + 1 \in 1..Len(u) /\ u[k + 1] = Place(table[i])
    BY <1>3, <1>6, <2>1, <2>2
  <2>4. Len(a) + k + 1 = Len(a) + (k + 1) /\ Len(a) + k + 1 \in 1..Len(o)
    BY <1>4, <1>5, <2>3
  <2> QED
    BY <1>4, <1>5, <2>1, <2>3, <2>4
<1>9. ASSUME NEW d \in DOMAIN o, o[d].queue = q
      PROVE  \E i \in Mine(q) : d = Len(a) + After(finishPtr, i) + 1
  <2>1. d \notin 1..Len(a)
    BY <1>4, <1>7, <1>9
  <2>2. PICK k \in 1..Len(u) : d = Len(a) + k
    <3>1. d - Len(a) \in 1..Len(u) /\ d = Len(a) + (d - Len(a))
      BY <1>4, <1>5, <2>1
    <3> QED
      BY <3>1
  <2>3. PICK i \in Ops : table[i].active /\ After(finishPtr, i) + 1 = k
    BY <1>3
  <2>4. o[d] = Place(table[i])
    BY <1>3, <1>4, <2>2, <2>3
  <2>5. i \in Mine(q)
    BY <1>9, <2>3, <2>4, ItemParts DEF Mine
  <2>6. d = Len(a) + After(finishPtr, i) + 1
    BY <1>5, <1>6, <2>2, <2>3
  <2> QED
    BY <2>5, <2>6
<1>10. o = Outstanding
  BY <1>1 DEF Outstanding
<1> QED
  BY <1>1, <1>4, <1>8, <1>9, <1>10

\* What CplQueue takes to be the next place of a queue is what the manager computes,
\* unless a commit of the queue is on its way.
LEMMA TopsAgree ==
    ASSUME TypeOK, Window, Youngest, NEW q \in Queues, ~Committing(q)
    PROVE  Atomic!Top(q) = ActiveHead(q, ram[q])
<1>1. PICK o, N, mine, y : /\ o = Outstanding /\ N = Len(Finishing) /\ y = ram[q].op
                           /\ mine = {d \in DOMAIN o : o[d].queue = q}
  OBVIOUS
<1> DEFINE A(i) == After(finishPtr, i)
           At(i) == N + A(i) + 1
<1>2. Atomic!Top(q) = IF mine = {} THEN ram[q].head
                      ELSE (o[CHOOSE d \in mine : \A k \in mine : k <= d].slot + 1) % PtrMod
  BY <1>1 DEF Atomic!Top
<1>3. /\ \A i \in Mine(q) : At(i) \in DOMAIN o /\ o[At(i)] = Place(table[i])
      /\ \A d \in mine : \E i \in Mine(q) : d = At(i)
  BY <1>1, ItemsOf
<1>4. N \in Nat /\ finishPtr \in Ops /\ Mine(q) \subseteq Ops
      /\ \A i \in Mine(q) : A(i) \in Nat /\ table[i].queue = q /\ table[i].ptr \in Ptrs
  <2>1. N \in Nat
    BY <1>1, FinishingIs DEF FinishingPlaces
  <2>2. finishPtr \in Ops /\ Mine(q) \subseteq Ops
    BY DEF TypeOK, Mine
  <2>3. \A i \in Mine(q) : table[i].queue = q /\ table[i].ptr \in Ptrs
    BY DEF TypeOK, Mine
  <2> QED
    BY <2>1, <2>2, <2>3, Ages
<1>5. CASE Mine(q) = {}
  <2>1. mine = {}
    BY <1>3, <1>5
  <2>2. ActiveHead(q, ram[q]) = ram[q].head
    BY <1>5, TopIs
  <2> QED
    BY <1>2, <2>1, <2>2
<1>6. CASE Mine(q) # {}
  <2>1. y \in Mine(q) /\ \A k \in Mine(q) : A(k) <= A(y)
    BY <1>1, <1>6, AgeIs DEF Youngest
  <2>2. \A i \in Mine(q) : At(i) \in mine
    <3>1. ASSUME NEW i \in Mine(q) PROVE At(i) \in DOMAIN o /\ o[At(i)].queue = q
      <4>1. At(i) \in DOMAIN o /\ o[At(i)] = Place(table[i]) /\ table[i].queue = q
        BY <1>3, <1>4
      <4> HIDE DEF At
      <4> QED
        BY <4>1, ItemParts
    <3> HIDE DEF At
    <3> QED
      BY <1>1, <3>1
  <2>3. ActiveHead(q, ram[q]) = table[y].ptr
    BY <1>1, <2>1 DEF ActiveHead, Mine
  <2> HIDE DEF At
  <2>4. \A d \in mine : d <= At(y)
    BY <1>3, <1>4, <2>1 DEF At
  <2>5. \A d \in mine : d \in Int
    BY <1>3, <1>4 DEF At
  <2>6. (CHOOSE d \in mine : \A k \in mine : k <= d) = At(y)
    <3>1. PICK c : c = CHOOSE d \in mine : \A k \in mine : k <= d
      OBVIOUS
    <3>2. c \in mine /\ \A k \in mine : k <= c
      BY <2>1, <2>2, <2>4, <3>1
    <3>3. c = At(y)
      BY <2>1, <2>2, <2>4, <2>5, <3>2
    <3> QED
      BY <3>1, <3>3
  <2>7. o[At(y)].slot = (table[y].ptr - 1) % PtrMod
    BY <1>3, <2>1, ItemParts
  <2>8. ((((table[y].ptr - 1) % PtrMod) + 1) % PtrMod) = table[y].ptr
    BY <1>4, <2>1, BackAndForth
  <2>9. mine # {}
    BY <2>1, <2>2
  <2> QED
    BY <1>2, <2>3, <2>6, <2>7, <2>8, <2>9
<1> QED
  BY <1>5, <1>6


-----------------------------------------------------------------------------
(* Each clock edge is a step of CplQueue. *)

\* What CplQueue sees of a word, of the RAM and of an answer.
Seen(word) == [head |-> word.head, tail |-> word.tail, armed |-> word.armed, active |-> word.active]
View(r) == [q \in Queues |-> Seen(r[q])]
Answer(a) == IF a = None THEN None ELSE [queue |-> a.queue, slot |-> a.ptr, status |-> a.status]

\* So the step of CplQueue may take them for committed.
LEMMA CommittedIs ==
    ASSUME NEW new \in Seq(Slots), Outstanding' \in Seq(Slots), Len(Outstanding') = Len(new),
           \A i \in 1..Len(new) : Continues(Outstanding'[i], new[i])
    PROVE  Atomic!Committed(new)
<1>1. PICK b \in Seq(Slots) : b = Outstanding'
  OBVIOUS
<1>2. Len(b) = Len(new) /\ \A i \in 1..Len(new) : Continues(b[i], new[i])
  BY <1>1
<1>3. \E done \in SUBSET DOMAIN new : b = Marked(new, done)
  BY <1>2, MarkedDone
<1> QED
  BY <1>1, <1>3 DEF Atomic!Committed, Marked

\* Where nothing is granted and no head moves, the operations stay as they are.
LEMMA NothingCommitted ==
    ASSUME TypeOK, TypeOK', Inv, Window, Window', NEW e, Moves(e),
           Records(e),
           cur.op # "commit", ~StartEn
    PROVE  Atomic!Committed(Outstanding)
<1>1. PICK o, w : o = Outstanding /\ w = Outstanding'
  OBVIOUS
<1>2. /\ o \in Seq(Slots) /\ w \in Seq(Slots)
      /\ Len(w) = Len(o) - 0 + 0
      /\ \A i \in 1..Len(o) - 0 : Continues(w[i], o[i + 0])
  BY <1>1, OutstandingMoves
<1>3. Len(w) = Len(o) /\ \A i \in 1..Len(o) : Continues(w[i], o[i])
  BY <1>2
<1>4. Atomic!Committed(o)
  BY <1>1, <1>2, <1>3, CommittedIs
<1> QED
  BY <1>1, <1>4

\* A request is answered with the next place of its queue, and granted it if there is room.
LEMMA RequestStep ==
    ASSUME TypeOK, TypeOK', Inv, Window, Window', Youngest, NEW e, Moves(e),
           Records(e),
           ExecReq
    PROVE  cur.queue \in Queues /\ Atomic!Request(cur.queue)
<1>1. PICK q, o, w : q = cur.queue /\ o = Outstanding /\ w = Outstanding'
  OBVIOUS
<1>2. /\ cur.op = "req" /\ q \in Queues /\ cur.word = ram[q] /\ InPipe("req")
      /\ ram \in [Queues -> Words] /\ ram[q] \in Words
  <2>1. cur.op = "req" /\ InPipe("req")
    BY StageFacts DEF ExecReq, InPipe, cur
  <2>2. q \in Queues /\ cur.word = ram[q]
    BY <1>1, <2>1, StageFacts DEF Inv, Shape, Coherent, cur
  <2> QED
    BY <2>1, <2>2 DEF TypeOK
<1>3. ~Committing(q)
  <2> SUFFICES ASSUME NEW j \in Stages, pipe[j].op = "commit", pipe[j].queue = q PROVE FALSE
    BY DEF Committing
  <2>1. pipe[Last].op = "req" /\ pipe[Last].queue = q
    BY <1>1, <1>2 DEF cur
  <2>2. j = Last
    BY <2>1, StageFacts DEF Inv, OneOpPerQueue
  <2> QED
    BY <2>1, <2>2
<1>4. PICK p : p = ActiveHead(q, ram[q])
  OBVIOUS
<1>5. Atomic!Top(q) = p /\ p \in Ptrs
  BY <1>2, <1>3, <1>4, TopsAgree, HeadsTyped
<1>6. StartEn <=> ram[q].active /\ Used(p, ram[q].tail) < Size
  BY <1>1, <1>2, <1>4 DEF StartEn
<1>7. Used(p, ram[q].tail) \in Nat /\ Size \in Nat
  BY <1>2, <1>5, Distances, ParamAssumption DEF Words
<1> DEFINE status == IF ~ram[q].active THEN "error"
                     ELSE IF Used(p, ram[q].tail) >= Size THEN "full" ELSE "ok"
<1>8. status = (IF ~ram[q].active THEN "error" ELSE IF StartEn THEN "ok" ELSE "full")
      /\ (status = "ok" <=> StartEn) /\ status \in {"ok", "full", "error"}
  BY <1>6, <1>7
<1>9. Answer(resp) = None
  BY <1>2 DEF Inv, AnswersKept, Answer
<1>10. Answer(resp') = [queue |-> q, slot |-> p, status |-> status]
  <2> HIDE DEF status
  <2>1. resp' = [queue |-> q, ptr |-> p, op |-> startPtr, status |-> status]
    BY <1>1, <1>2, <1>4, <1>8 DEF ExecReq
  <2>2. resp' \in Responses
    BY <1>2, <1>5, <1>8, <2>1 DEF Responses, TypeOK
  <2>3. resp' # None
    BY <2>2, NoneAssumption
  <2> QED
    BY <2>1, <2>3 DEF Answer
<1>11. View(ram') = View(ram) /\ event' = None
  <2>1. ram' = IF StartEn THEN [ram EXCEPT ![q].op = startPtr] ELSE ram
    BY <1>1 DEF ExecReq
  <2>2. ASSUME NEW c \in Queues PROVE Seen(ram'[c]) = Seen(ram[c])
    <3>1. ram[c] \in Words
      BY <1>2
    <3>2. /\ ram'[c].head = ram[c].head /\ ram'[c].tail = ram[c].tail
          /\ ram'[c].armed = ram[c].armed /\ ram'[c].active = ram[c].active
      BY <1>2, <2>1, <3>1 DEF Words
    <3> QED
      BY <3>2 DEF Seen
  <2> QED
    BY <2>2 DEF View, ExecReq
<1>12. PICK r : r = [queue |-> q, slot |-> p, done |-> FALSE]
  OBVIOUS
<1>13. /\ o \in Seq(Slots) /\ w \in Seq(Slots)
       /\ Len(w) = Len(o) - 0 + IF StartEn THEN 1 ELSE 0
       /\ \A i \in 1..Len(o) - 0 : Continues(w[i], o[i + 0])
       /\ StartEn => w[Len(w)].queue = q /\ w[Len(w)].slot = p
  BY <1>1, <1>2, <1>4, OutstandingMoves
<1>14. Atomic!Committed(IF status = "ok" THEN Append(o, r) ELSE o)
  <2>1. PICK new : new = IF StartEn THEN Append(o, r) ELSE o
    OBVIOUS
  <2>2. r \in Slots
    BY <1>2, <1>5, <1>12 DEF Slots
  <2>3. CASE StartEn
    <3>1. /\ new \in Seq(Slots) /\ Len(new) = Len(o) + 1 /\ new[Len(o) + 1] = r
          /\ \A i \in 1..Len(o) : new[i] = o[i]
      BY <1>13, <2>1, <2>2, <2>3
    <3>2. Len(w) = Len(new) /\ Len(o) \in Nat
      BY <1>13, <2>3, <3>1
    <3>3. Continues(w[Len(o) + 1], r)
      BY <1>12, <1>13, <2>3, <3>1, <3>2 DEF Continues
    <3>4. \A i \in 1..Len(o) : Continues(w[i], o[i])
      BY <1>13
    <3>5. \A i \in 1..Len(new) : Continues(w[i], new[i])
      BY <3>1, <3>2, <3>3, <3>4
    <3>6. Atomic!Committed(new)
      BY <1>1, <1>13, <3>1, <3>2, <3>5, CommittedIs
    <3> QED
      BY <1>8, <2>1, <2>3, <3>6
  <2>4. CASE ~StartEn
    <3>1. Len(w) = Len(o) /\ \A i \in 1..Len(o) : Continues(w[i], o[i])
      BY <1>13, <2>4
    <3>2. Atomic!Committed(o)
      BY <1>1, <1>13, <3>1, CommittedIs
    <3> QED
      BY <1>8, <2>4, <3>2
  <2> QED
    BY <2>3, <2>4
<1>15. Atomic!Request(q)
  <2>1. View(ram)[q].active = ram[q].active /\ View(ram)[q].tail = ram[q].tail
    BY <1>2 DEF View, Seen
  <2>2. status = IF ~View(ram)[q].active THEN "error"
                 ELSE IF Atomic!Distance(p, View(ram)[q].tail) >= Size THEN "full" ELSE "ok"
    BY <2>1 DEF Atomic!Distance, Used
  <2> HIDE DEF status
  <2>3. Atomic!Committed(IF status = "ok" THEN Append(Outstanding, [queue |-> q, slot |-> p, done |-> FALSE])
                         ELSE Outstanding)
    BY <1>1, <1>12, <1>14
  <2> QED
    BY <1>5, <1>9, <1>10, <1>11, <2>2, <2>3 DEF Atomic!Request, Answer, View, Seen
<1> QED
  BY <1>1, <1>2, <1>15


\* A commit moves the head to the end of the oldest slot.
LEMMA CommitStep ==
    ASSUME TypeOK, TypeOK', Inv, Window, Window', NEW e, Moves(e),
           Records(e),
           ExecCommit, Answer(resp') \in {Answer(resp), None}
    PROVE  Atomic!MoveHead
<1>1. PICK q, o, w : q = cur.queue /\ o = Outstanding /\ w = Outstanding'
  OBVIOUS
<1>2. /\ cur.op = "commit" /\ ~StartEn /\ q \in Queues /\ cur.word = ram[q] /\ cur.data \in Ptrs
      /\ ram \in [Queues -> Words]
  <2>1. cur.op = "commit" /\ ~StartEn
    BY DEF ExecCommit, StartEn
  <2>2. cur \in Operations /\ ram \in [Queues -> Words]
    BY StageFacts DEF TypeOK, cur, Operations
  <2>3. q \in Queues /\ cur.data \in Ptrs
    BY <1>1, <2>1, <2>2, Carried
  <2>4. cur.word = ram[q]
    BY <1>1, <2>1, StageFacts DEF Inv, Coherent, cur
  <2> QED
    BY <2>1, <2>2, <2>3, <2>4
<1>3. /\ o \in Seq(Slots) /\ w \in Seq(Slots)
      /\ Len(w) = Len(o) - 1 + 0
      /\ \A i \in 1..Len(o) - 1 : Continues(w[i], o[i + 1])
      /\ Len(o) >= 1 /\ o[1] = Item(cur)
  BY <1>1, <1>2, OutstandingMoves
<1>4. /\ o # <<>> /\ Head(o).done /\ Head(o).queue = q
      /\ ((Head(o).slot + 1) % PtrMod) = cur.data
  <2>1. o # <<>> /\ Head(o) = Item(cur)
    BY <1>3
  <2>2. ((((cur.data - 1) % PtrMod) + 1) % PtrMod) = cur.data
    BY <1>2, BackAndForth
  <2> QED
    BY <1>1, <2>1, <2>2, ItemParts
<1>5. Atomic!Committed(Tail(o))
  <2>1. PICK new : new = Tail(o)
    OBVIOUS
  <2>2. /\ new \in Seq(Slots) /\ Len(new) = Len(o) - 1
        /\ \A i \in 1..Len(new) : new[i] = o[i + 1]
    BY <1>3, <2>1
  <2>3. Len(w) = Len(new) /\ \A i \in 1..Len(new) : Continues(w[i], new[i])
    BY <1>3, <2>2
  <2>4. Atomic!Committed(new)
    BY <1>1, <1>3, <2>2, <2>3, CommittedIs
  <2> QED
    BY <2>1, <2>4
<1>6. View(ram') = [View(ram) EXCEPT ![q].head = cur.data, ![q].armed = FALSE]
  <2>1. ASSUME NEW c \in Queues
        PROVE  Seen(ram'[c]) = IF c = q THEN [Seen(ram[c]) EXCEPT !.head = cur.data, !.armed = FALSE]
                               ELSE Seen(ram[c])
    <3>1. ram[c] \in Words
      BY <1>2
    <3>2. c # q => ram'[c] = ram[c]
      BY <1>1, <1>2 DEF ExecCommit
    <3>3. c = q => /\ ram'[c].head = cur.data /\ ram'[c].tail = ram[c].tail
                   /\ ram'[c].armed = FALSE /\ ram'[c].active = ram[c].active
      <4> SUFFICES ASSUME c = q
                   PROVE  /\ ram'[c].head = cur.data /\ ram'[c].tail = ram[c].tail
                          /\ ram'[c].armed = FALSE /\ ram'[c].active = ram[c].active
        OBVIOUS
      <4>1. PICK b, a : b = (ram[c].armed /\ ~cur.word.armed)
                        /\ a = IF cur.word.armed THEN cur.word.active ELSE ram[c].active
        OBVIOUS
      <4>2. ram' = [ram EXCEPT ![c].head = cur.data, ![c].armed = b, ![c].active = a]
        BY <1>1, <4>1 DEF ExecCommit
      <4>3. b = FALSE /\ a = ram[c].active
        BY <1>2, <4>1
      <4> QED
        BY <1>2, <3>1, <4>2, <4>3 DEF Words
    <3> QED
      BY <3>2, <3>3 DEF Seen
  <2> QED
    BY <1>2, <2>1 DEF View
<1>7. event' = IF View(ram)[q].armed THEN q ELSE None
  BY <1>1, <1>2 DEF ExecCommit, View, Seen
<1>8. /\ Outstanding # <<>> /\ Head(Outstanding).done
      /\ View(ram') = [View(ram) EXCEPT
             ![Head(Outstanding).queue].head = (Head(Outstanding).slot + 1) % PtrMod,
             ![Head(Outstanding).queue].armed = FALSE]
      /\ event' = IF View(ram)[Head(Outstanding).queue].armed THEN Head(Outstanding).queue ELSE None
      /\ Atomic!Committed(Tail(Outstanding))
  BY <1>1, <1>4, <1>5, <1>6, <1>7
<1> QED
  BY <1>8 DEF Atomic!MoveHead, View, Seen, Answer

\* A register write configures its queue, arms it or changes nothing.
LEMMA WriteStep ==
    ASSUME TypeOK, Inv, Atomic!Committed(Outstanding), ExecWrite,
           Answer(resp') \in {Answer(resp), None}
    PROVE  Atomic!Next
<1>1. PICK q, w : q = cur.queue /\ w = cur.data
  OBVIOUS
<1>2. /\ q \in Queues /\ cur.word = ram[q] /\ w \in Writes
      /\ ram \in [Queues -> Words] /\ ram[q] \in Words
  <2>1. cur.op = "write"
    BY DEF ExecWrite
  <2>2. cur \in Operations /\ ram \in [Queues -> Words]
    BY StageFacts DEF TypeOK, cur, Operations
  <2>3. q \in Queues /\ w \in Writes
    BY <1>1, <2>1, <2>2, Carried
  <2>4. cur.word = ram[q]
    BY <1>1, <2>1, StageFacts DEF Inv, Coherent, cur
  <2> QED
    BY <2>1, <2>2, <2>3, <2>4
<1> DEFINE new == Written(w, ram[q], ram[q])
<1>3. /\ ram' = [ram EXCEPT ![q] = new]
      /\ event' = IF w.reg = "arm" /\ w.data /\ ram[q].head # ram[q].tail THEN q ELSE None
  BY <1>1, <1>2 DEF ExecWrite
<1>4. /\ ram[q].armed \in BOOLEAN /\ ram[q].active \in BOOLEAN
      /\ View(ram)[q] = Seen(ram[q])
      /\ w.reg \in {"tail", "head"} => w.data \in 0..PtrMod - 1
      /\ w.reg \in {"active", "arm"} => w.data \in BOOLEAN
      /\ w.reg \in {"tail", "head", "active", "arm"}
  BY <1>2 DEF Words, View, Writes, Ptrs
<1>5. View(ram') = [View(ram) EXCEPT ![q] = Seen(new)]
  <2> HIDE DEF new
  <2> QED
    BY <1>2, <1>3 DEF View
<1>6. CASE w.reg = "tail"
  <2>1. Seen(new) = [Seen(ram[q]) EXCEPT !.tail = w.data]
    BY <1>2, <1>6 DEF Written, Seen, Words
  <2>2. View(ram') = [View(ram) EXCEPT ![q].tail = w.data]
    BY <1>4, <1>5, <2>1
  <2>3. event' = None
    BY <1>3, <1>6
  <2>4. Atomic!Configure(q)
    BY <1>4, <1>6, <2>2, <2>3 DEF Atomic!Configure, View, Seen, Answer
  <2> QED
    BY <1>2, <2>4 DEF Atomic!Next
<1>7. CASE w.reg = "head"
  <2>1. event' = None
    BY <1>3, <1>7
  <2>2. CASE ram[q].active
    <3>1. new = ram[q]
      BY <1>7, <2>2 DEF Written
    <3>2. View(ram') = View(ram)
      BY <1>2, <1>3, <3>1
    <3>3. Atomic!Pass
      BY <2>1, <3>2 DEF Atomic!Pass, View, Seen, Answer
    <3> QED
      BY <3>3 DEF Atomic!Next
  <2>3. CASE ~ram[q].active
    <3>1. Seen(new) = [Seen(ram[q]) EXCEPT !.head = w.data]
      BY <1>2, <1>7, <2>3 DEF Written, Seen, Words
    <3>2. View(ram') = [View(ram) EXCEPT ![q].head = w.data]
      BY <1>4, <1>5, <3>1
    <3>3. ~View(ram)[q].active
      BY <1>4, <2>3 DEF Seen
    <3>4. Atomic!Configure(q)
      BY <1>4, <1>7, <2>1, <3>2, <3>3 DEF Atomic!Configure, View, Seen, Answer
    <3> QED
      BY <1>2, <3>4 DEF Atomic!Next
  <2> QED
    BY <2>2, <2>3
<1>8. CASE w.reg = "active"
  <2>1. event' = None
    BY <1>3, <1>8
  <2>2. new = [ram[q] EXCEPT !.active = w.data, !.armed = ram[q].armed]
    BY <1>8 DEF Written
  <2> HIDE DEF new
  <2>3. Seen(new) = [Seen(ram[q]) EXCEPT !.active = w.data]
    BY <1>2, <2>2 DEF Seen, Words
  <2>4. View(ram') = [View(ram) EXCEPT ![q].active = w.data]
    BY <1>4, <1>5, <2>3
  <2>5. Atomic!Configure(q)
    BY <1>4, <1>8, <2>1, <2>4 DEF Atomic!Configure, View, Seen, Answer
  <2> QED
    BY <1>2, <2>5 DEF Atomic!Next
<1>9. CASE w.reg = "arm"
  <2>1. PICK b : b = (w.data /\ ram[q].head = ram[q].tail)
    OBVIOUS
  <2>2. new = [ram[q] EXCEPT !.active = ram[q].active, !.armed = b]
    BY <1>9, <2>1 DEF Written
  <2> HIDE DEF new
  <2>3. Seen(new) = [Seen(ram[q]) EXCEPT !.armed = b]
    BY <1>2, <2>2 DEF Seen, Words
  <2>4. View(ram') = [View(ram) EXCEPT ![q].armed = b]
    BY <1>4, <1>5, <2>3
  <2>5. View(ram)[q].head = ram[q].head /\ View(ram)[q].tail = ram[q].tail
    BY <1>4 DEF Seen
  <2>6. CASE ~w.data
    <3>1. b = FALSE /\ event' = None
      BY <1>3, <2>1, <2>6
    <3>2. Atomic!Configure(q)
      BY <2>4, <3>1 DEF Atomic!Configure, View, Seen, Answer
    <3> QED
      BY <1>2, <3>2 DEF Atomic!Next
  <2>7. CASE w.data /\ ram[q].head = ram[q].tail
    <3>1. b = TRUE /\ event' = None
      BY <1>3, <2>1, <2>7
    <3>2. Atomic!Arm(q)
      BY <2>4, <2>5, <2>7, <3>1 DEF Atomic!Arm, View, Seen, Answer
    <3> QED
      BY <1>2, <3>2 DEF Atomic!Next
  <2>8. CASE w.data /\ ram[q].head # ram[q].tail
    <3>1. b = FALSE /\ event' = q
      BY <1>3, <1>9, <2>1, <2>8
    <3>2. Atomic!Arm(q)
      BY <2>4, <2>5, <2>8, <3>1 DEF Atomic!Arm, View, Seen, Answer
    <3> QED
      BY <1>2, <3>2 DEF Atomic!Next
  <2> QED
    BY <2>6, <2>7, <2>8
<1> QED
  BY <1>4, <1>6, <1>7, <1>8, <1>9

\* So every clock edge is a step of CplQueue.
LEMMA TickAtomic ==
    ASSUME SlotInv, SlotInv', NEW respReady, NEW bReady, NEW rReady, NEW tag,
           Tick(respReady, bReady, rReady, tag)
    PROVE  Atomic!Next
<1>1. TypeOK /\ Inv /\ Window /\ Youngest /\ TypeOK' /\ Window'
  BY DEF SlotInv
<1>2. PICK e : Moves(e)
  BY <1>1, TickMoves
<1>3. Records(e)
  BY <1>2, TickRecords
<1>4. \/ ExecReq
      \/ /\ \/ ExecCommit
            \/ ExecWrite
            \/ cur.op \in {"read", "none"} /\ event' = None /\ UNCHANGED ram
         /\ resp' \in {resp, None}
  BY DEF Tick, Execute
<1>5. resp' \in {resp, None} => Answer(resp') \in {Answer(resp), None}
  BY DEF Answer
<1>6. cur.op \notin {"commit", "req"} => Atomic!Committed(Outstanding)
  <2>1. cur.op # "req" => ~StartEn
    BY DEF StartEn
  <2> QED
    BY <1>1, <1>2, <1>3, <2>1, NothingCommitted
<1>7. CASE ExecReq
  <2>1. cur.queue \in Queues /\ Atomic!Request(cur.queue)
    BY <1>1, <1>2, <1>3, <1>7, RequestStep
  <2> QED
    BY <2>1 DEF Atomic!Next
<1>8. CASE ExecCommit /\ resp' \in {resp, None}
  <2>1. Atomic!MoveHead
    BY <1>1, <1>2, <1>3, <1>5, <1>8, CommitStep
  <2> QED
    BY <2>1 DEF Atomic!Next
<1>9. CASE ExecWrite /\ resp' \in {resp, None}
  <2>1. Atomic!Committed(Outstanding)
    BY <1>6, <1>9 DEF ExecWrite
  <2> QED
    BY <1>1, <1>5, <1>9, <2>1, WriteStep
<1>10. CASE /\ cur.op \in {"read", "none"} /\ event' = None /\ UNCHANGED ram
            /\ resp' \in {resp, None}
  <2>1. Atomic!Committed(Outstanding) /\ Answer(resp') \in {Answer(resp), None}
    BY <1>5, <1>6, <1>10
  <2>2. Atomic!Pass
    BY <1>10, <2>1 DEF Atomic!Pass, Answer
  <2> QED
    BY <2>2 DEF Atomic!Next
<1> QED
  BY <1>4, <1>7, <1>8, <1>9, <1>10

\* What CplQueue sees depends on the manager's registers alone.
LEMMA StutterAtomic ==
    ASSUME UNCHANGED vars
    PROVE  UNCHANGED Atomic!vars
<1>1. /\ ram' = ram /\ table' = table /\ startPtr' = startPtr /\ finishPtr' = finishPtr
      /\ pipe' = pipe /\ resp' = resp /\ event' = event
  BY DEF vars, manager, ports
<1>2. Finishing' = Finishing
  BY <1>1 DEF Finishing, CommitStages
<1>3. Waiting' = Waiting
  BY <1>1 DEF Waiting, InUse, Age
<1>4. Outstanding' = Outstanding
  BY <1>2, <1>3 DEF Outstanding
<1> QED
  BY <1>1, <1>4 DEF Atomic!vars

\* At first no operation is outstanding.
LEMMA InitAtomic == Init => Atomic!Init
<1> SUFFICES ASSUME Init PROVE Atomic!Init
  OBVIOUS
<1>1. SlotInv
  BY InitSlotInv
<1>2. TypeOK /\ Window
  BY <1>1 DEF SlotInv
<1>3. /\ \A j \in Stages : pipe[j].op = "none"
      /\ \A i \in Ops : ~table[i].active
      /\ startPtr = finishPtr
  BY DEF Init, Idle
<1>4. Finishing \in Seq(Slots) /\ Len(Finishing) = 0
  <2>1. CommitStages = {}
    BY <1>3 DEF CommitStages
  <2>2. Cardinality(CommitStages) = 0
    BY <2>1, FS_EmptySet
  <2> QED
    BY <1>2, <2>2, FinishingIs DEF FinishingPlaces
<1>5. Waiting \in Seq(Slots) /\ Len(Waiting) = 0
  <2>1. startPtr \in Ops /\ ~table[startPtr].active
    BY <1>2, <1>3 DEF TypeOK
  <2>2. Age(startPtr) = 0
    BY <1>3, <2>1, Ages, AgeIs
  <2>3. InUse = 0
    BY <2>1, <2>2 DEF InUse
  <2> QED
    BY <1>2, <2>3, WaitingIs DEF WaitingPlaces
<1>6. Outstanding = <<>>
  <2>1. PICK a \in Seq(Slots), b \in Seq(Slots) : a = Finishing /\ b = Waiting
    BY <1>4, <1>5
  <2>2. a \o b = <<>>
    BY <1>4, <1>5, <2>1
  <2> QED
    BY <2>1, <2>2 DEF Outstanding
<1> QED
  BY <1>6 DEF Init, Atomic!Init

\* At every depth of the pipeline, with any number of queues and of operations under way,
\* the manager implements CplQueue: whatever is spread over the pipeline, the table and the
\* ports, every operation takes effect at once, in the order of the grants
\* (cpl_queue_manager.v:386-630).
THEOREM OperationsAtomic == Safety => Atomicity
<1>1. SlotInv /\ SlotInv' /\ [Next]_vars => [Atomic!Next]_(Atomic!vars)
  <2>1. ASSUME SlotInv, SlotInv', Next PROVE Atomic!Next
    <3>1. PICK respReady \in Ready("resp"), bReady \in Ready("b"), rReady \in Ready("r"),
               tag \in held \cup {None} : Tick(respReady, bReady, rReady, tag)
      BY <2>1 DEF Next
    <3> QED
      BY <2>1, <3>1, TickAtomic
  <2> QED
    BY <2>1, StutterAtomic
<1> QED
  BY <1>1, InitAtomic, InitSlotInv, StepSlotInv, PTL DEF Safety, Atomicity, Atomic!Spec
=============================================================================
