----------------------------- MODULE TxScheduler -----------------------------
(***************************************************************************)
(* The round-robin transmit scheduler, clock cycle by clock cycle          *)
(* (tx_scheduler_rr.v), between the doorbells of the queue manager and the *)
(* transmit engine that answers its requests.                              *)
(*                                                                         *)
(* A doorbell makes a queue active and puts it into the round-robin FIFO,  *)
(* where it stays while it is active: each turn sends one transmit request *)
(* and puts it back.  An answer of length zero (the ring was empty) makes  *)
(* the queue inactive again, but the ring may have been filled since, and  *)
(* other requests of the queue may be under way: the doorbell is recorded  *)
(* with the last request of the queue, and the requests of one queue are   *)
(* linked so that a finished one can pass its doorbell on.                 *)
(*                                                                         *)
(* SCHED_CTRL_ENABLE is 0 (mqnic_tx_scheduler_block_rr.v:214).  Register   *)
(* reads, the initialisation of the RAM and the count of active queues     *)
(* (an unconnected output) are left out.                                   *)
(***************************************************************************)
EXTENDS Integers, FiniteSets, Sequences

CONSTANTS
    Queues,       \* queue numbers
    Pipeline,     \* PIPELINE
    OpTableSize,  \* OP_TABLE_SIZE
    None,
    MaxBacklog,   \* bound: descriptors of a ring that are rung and not fetched
    Doorbells     \* DEPTH of the doorbell FIFO, which the driver does not outrun

ASSUME ParamAssumption ==
    /\ Pipeline \in Nat /\ Pipeline >= 2 /\ OpTableSize \in Nat \ {0}
    /\ None \notin Queues /\ Queues # {} /\ IsFiniteSet(Queues)
    /\ MaxBacklog \in Nat \ {0} /\ Doorbells \in Nat \ {0}

Stages == 0..Pipeline - 1
Last == Pipeline - 1
Ops == 0..OpTableSize - 1

VARIABLES
    ram,       \* queue_ram
    table,     \* op_table_*
    pipe,      \* the pipeline registers, with the RAM word each stage carries
    ringing,   \* doorbells on their way through the FIFO
    doorbells, \* those that have reached its output
    rr,        \* rr_fifo: the queues that are scheduled
    txReq,     \* m_axis_tx_req
    finish,    \* finish_fifo and finish_*_reg: answers to be processed
    enable,    \* the scheduler's enable register
    writes,    \* queues to enable, whose write has not reached the scheduler
    backlog,   \* descriptors rung and not fetched, by queue
    asked,     \* requests whose ring the queue manager has not looked at
    fetched    \* the others: those that found it empty, and packets not yet sent

scheduler == <<ram, table, pipe, rr>>
driver    == <<enable, writes>>
engine    == <<asked, fetched>>
vars      == <<scheduler, ringing, doorbells, txReq, finish, driver, backlog, engine>>

Words == [enabled : BOOLEAN, active : BOOLEAN, scheduled : BOOLEAN, tail : Ops]
Entries == [active : BOOLEAN, queue : Queues, doorbell : BOOLEAN,
            isHead : BOOLEAN, next : Ops, prev : Ops]
Idle == [op |-> "none"]
Kinds == {"write", "doorbell", "complete", "req"}
Requests == [queue : Queues, op : Ops]
Answers == [op : Ops, filled : BOOLEAN]

ASSUME NoneAssumption == None \notin Requests

\* Every register holds what its width and its encoding allow, and the FIFOs of the
\* scheduler, whose ready nobody looks at, have room (tx_scheduler_rr.v:176-375).
TypeOK ==
    /\ ram \in [Queues -> Words]
    /\ table \in [Ops -> Entries]
    /\ pipe \in [Stages -> {Idle} \cup [op : Kinds, queue : Queues, index : Ops,
                                        filled : BOOLEAN, word : Words]]
    /\ {ringing, doorbells} \subseteq Seq(Queues) /\ Len(ringing) + Len(doorbells) <= Doorbells
    /\ rr \in Seq(Queues) /\ Len(rr) <= Cardinality(Queues)
    /\ txReq \in Requests \cup {None}
    /\ finish \in Seq(Answers) /\ Len(finish) <= OpTableSize
    /\ enable \in BOOLEAN /\ writes \subseteq Queues
    /\ backlog \in [Queues -> 0..MaxBacklog]
    /\ asked \in Seq(Requests) /\ fetched \in Seq(Answers)

FreeEntry == [active |-> FALSE, queue |-> CHOOSE q \in Queues : TRUE, doorbell |-> FALSE,
              isHead |-> FALSE, next |-> 0, prev |-> 0]

\* After the initialisation; mqnic_activate_port is about to enable the queues.
Init ==
    /\ ram = [q \in Queues |-> [enabled |-> FALSE, active |-> FALSE, scheduled |-> FALSE, tail |-> 0]]
    /\ table = [i \in Ops |-> FreeEntry]
    /\ pipe = [j \in Stages |-> Idle]
    /\ ringing = <<>> /\ doorbells = <<>> /\ rr = <<>> /\ txReq = None /\ finish = <<>>
    /\ enable = TRUE /\ writes = Queues
    /\ backlog = [q \in Queues |-> 0]
    /\ asked = <<>> /\ fetched = <<>>

-----------------------------------------------------------------------------
(* Stage 0: one operation enters, by priority: a register write (if one has  *)
(* arrived), a doorbell, an answer, a request.                               *)

Hazard(q) == \E j \in Stages : pipe[j].op # "none" /\ pipe[j].queue = q
InPipe(op) == \E j \in Stages : pipe[j].op = op

Free == {i \in Ops : ~table[i].active}
FreeOp == CHOOSE i \in Free : \A j \in Free : i <= j

AcceptWrite(q) == q \in writes /\ ~InPipe("write") /\ ~Hazard(q)

AcceptDoorbell == doorbells # <<>> /\ ~Hazard(Head(doorbells))

AcceptComplete ==
    /\ ~AcceptDoorbell
    /\ finish # <<>> /\ pipe[0].op # "complete" /\ ~Hazard(table[Head(finish).op].queue)

AcceptReq ==
    /\ ~AcceptDoorbell /\ ~AcceptComplete
    /\ enable /\ Free # {} /\ rr # <<>> /\ txReq = None
    /\ ~InPipe("req") /\ ~Hazard(Head(rr))

Stage(op, q, i, filled) ==
    [op |-> op, queue |-> q, index |-> i, filled |-> filled, word |-> ram[q]]

Shift(entering) == pipe' = [j \in Stages |-> IF j = 0 THEN entering ELSE pipe[j - 1]]

EnterWrite(q) ==
    /\ AcceptWrite(q)
    /\ Shift(Stage("write", q, 0, FALSE))
    /\ writes' = writes \ {q}
    /\ UNCHANGED <<doorbells, finish>>

EnterDoorbell ==
    /\ AcceptDoorbell
    /\ Shift(Stage("doorbell", Head(doorbells), 0, FALSE))
    /\ doorbells' = Tail(doorbells)
    /\ UNCHANGED <<writes, finish>>

\* Mutant: the answer is not marked as taken.
EnterCompleteAgain ==
    LET i == Head(finish).op IN
    /\ AcceptComplete
    /\ Shift(Stage("complete", table[i].queue, i, Head(finish).filled \/ table[i].doorbell))
    /\ UNCHANGED <<writes, doorbells, finish>>

\* Mutant: an answer counts as a packet, whatever its length.
EnterCompleteFilled ==
    LET i == Head(finish).op IN
    /\ AcceptComplete
    /\ Shift(Stage("complete", table[i].queue, i, TRUE))
    /\ finish' = Tail(finish)
    /\ UNCHANGED <<writes, doorbells>>

\* An answer is taken with the doorbell that came after its request.
EnterComplete ==
    LET i == Head(finish).op IN
    /\ AcceptComplete
    /\ Shift(Stage("complete", table[i].queue, i, Head(finish).filled \/ table[i].doorbell))
    /\ finish' = Tail(finish)
    /\ UNCHANGED <<writes, doorbells>>

EnterReq ==
    /\ AcceptReq
    /\ Shift(Stage("req", Head(rr), FreeOp, FALSE))
    /\ UNCHANGED <<writes, doorbells, finish>>

EnterNone ==
    /\ ~AcceptDoorbell /\ ~AcceptComplete /\ ~AcceptReq
    /\ Shift(Idle)
    /\ UNCHANGED <<writes, doorbells, finish>>

\* The table and the FIFO that the operation at the last stage finds: a request that
\* enters in this cycle takes a free entry and leaves the FIFO.
Entering == pipe'[0].op = "req"

Started ==
    IF Entering
    THEN [table EXCEPT ![FreeOp].active = TRUE, ![FreeOp].queue = Head(rr), ![FreeOp].doorbell = FALSE]
    ELSE table

\* A free entry keeps its next index, which its next user may follow; its other fields are
\* written before they are read, and are not told apart.
Kept(t) == [j \in Ops |-> IF t[j].active THEN t[j] ELSE [FreeEntry EXCEPT !.next = t[j].next]]

Turned == IF Entering THEN Tail(rr) ELSE rr

-----------------------------------------------------------------------------
(* The last stage: the operation is performed on the word it carries. The    *)
(* three flags share a byte and are written together.                        *)

cur == pipe[Last]
q0 == cur.queue
tail0 == cur.word.tail

\* queue_tail_active
TailActive == table[tail0].active /\ table[tail0].queue = q0

Flags(enabled, active, scheduled) ==
    [ram EXCEPT ![q0].enabled = enabled, ![q0].active = active, ![q0].scheduled = scheduled]

\* Mutant: a queue that is in the round joins it again.
ScheduleAlways(needed) == rr' = IF needed THEN Append(Turned, q0) ELSE Turned

\* The queue joins the round if it has to and is not there.
Schedule(needed) ==
    rr' = IF needed /\ ~cur.word.scheduled THEN Append(Turned, q0) ELSE Turned

\* Mutant: the doorbell is not recorded with a request under way.
ExecDoorbellOnce ==
    /\ cur.op = "doorbell"
    /\ ram' = Flags(cur.word.enabled, TRUE, cur.word.scheduled \/ cur.word.enabled)
    /\ Schedule(cur.word.enabled)
    /\ table' = Kept(Started)
    /\ UNCHANGED txReq

\* The doorbell is recorded with the last request, so that it is not lost.
ExecDoorbell ==
    /\ cur.op = "doorbell"
    /\ ram' = Flags(cur.word.enabled, TRUE, cur.word.scheduled \/ cur.word.enabled)
    /\ Schedule(cur.word.enabled)
    /\ table' = Kept(IF TailActive THEN [Started EXCEPT ![tail0].doorbell = TRUE] ELSE Started)
    /\ UNCHANGED txReq

\* An enabled, active queue sends a request, linked to the one before, and is put back;
\* another one leaves the round.
ExecReq ==
    LET i == cur.index
        go == cur.word.enabled /\ cur.word.active /\ cur.word.scheduled
        follows == TailActive /\ i # tail0
    IN
    /\ cur.op = "req"
    /\ IF go
       THEN /\ ram' = [Flags(cur.word.enabled, cur.word.active, TRUE) EXCEPT ![q0].tail = i]
            /\ rr' = Append(Turned, q0)
            /\ txReq' = [queue |-> q0, op |-> i]
            /\ table' = Kept([j \in Ops |->
                  [Started[j] EXCEPT !.next   = IF follows /\ j = tail0 THEN i ELSE @,
                                     !.prev   = IF j = i THEN tail0 ELSE @,
                                     !.isHead = IF j = i THEN ~follows ELSE @]])
       ELSE /\ ram' = Flags(cur.word.enabled, cur.word.active, FALSE)
            /\ rr' = Turned
            /\ table' = Kept([Started EXCEPT ![i].active = FALSE])
            /\ UNCHANGED txReq

\* Mutant: an answer does not bring the queue back into the round.
ExecCompleteIdles ==
    LET i == cur.index IN
    /\ cur.op = "complete"
    /\ ram' = Flags(cur.word.enabled, cur.filled, cur.word.scheduled)
    /\ rr' = Turned
    /\ table' = Kept([Started EXCEPT ![i].active = FALSE])
    /\ UNCHANGED txReq

\* The entry is unlinked and released; its doorbell passes to the request before it. The
\* queue stays active if there was a packet or a doorbell since.
ExecComplete ==
    LET i == cur.index
        o == table[i]
    IN
    /\ cur.op = "complete"
    /\ ram' = Flags(cur.word.enabled, cur.filled, cur.word.scheduled \/ cur.filled)
    /\ Schedule(cur.filled)
    /\ table' = Kept([j \in Ops |->
          LET before == j = o.prev /\ ~o.isHead
              after  == j = o.next /\ i # tail0
          IN [Started[j] EXCEPT !.active   = @ /\ j # i,
                                !.doorbell = @ \/ (before /\ o.doorbell),
                                !.next     = IF before THEN o.next ELSE @,
                                !.prev     = IF after THEN o.prev ELSE @,
                                !.isHead   = IF after THEN o.isHead ELSE @]])
    /\ UNCHANGED txReq

ExecWrite ==
    /\ cur.op = "write"
    /\ ram' = Flags(TRUE, cur.word.active, cur.word.scheduled \/ cur.word.active)
    /\ Schedule(cur.word.active)
    /\ table' = Kept(Started)
    /\ UNCHANGED txReq

ExecNone ==
    /\ cur.op = "none"
    /\ rr' = Turned /\ table' = Kept(Started)
    /\ UNCHANGED <<ram, txReq>>

\* A clock edge.
Tick ==
    /\ EnterDoorbell \/ EnterComplete \/ EnterReq \/ EnterNone \/ \E q \in Queues : EnterWrite(q)
    /\ ExecDoorbell \/ ExecReq \/ ExecComplete \/ ExecWrite \/ ExecNone
    /\ UNCHANGED <<enable, ringing, backlog, engine>>

-----------------------------------------------------------------------------
(* The neighbours. *)

\* The bridge waits for the answer of each register write, which is given when it is
\* executed: nothing the driver does next overtakes the enabling of the queues.
Written == writes = {} /\ ~InPipe("write")

\* The driver moves the head of a ring while its port is up; the queue manager sends a
\* doorbell, which some cycles later is at the output of the FIFO.
Post(q) ==
    /\ enable /\ Written
    /\ backlog[q] < MaxBacklog /\ Len(ringing) + Len(doorbells) < Doorbells
    /\ backlog' = [backlog EXCEPT ![q] = @ + 1]
    /\ ringing' = Append(ringing, q)
    /\ UNCHANGED <<scheduler, doorbells, txReq, finish, driver, engine>>

Ring ==
    /\ ringing # <<>>
    /\ doorbells' = Append(doorbells, Head(ringing))
    /\ ringing' = Tail(ringing)
    /\ UNCHANGED <<scheduler, txReq, finish, driver, backlog, engine>>

\* tx_engine.v takes the request and asks for a descriptor.
Accept ==
    /\ txReq # None
    /\ asked' = Append(asked, txReq) /\ txReq' = None
    /\ UNCHANGED <<scheduler, ringing, doorbells, finish, driver, backlog, fetched>>

\* The queue manager answers in order: a descriptor, or none.
Dequeue ==
    LET q == Head(asked).queue IN
    /\ asked # <<>>
    /\ asked' = Tail(asked)
    /\ fetched' = Append(fetched, [op |-> Head(asked).op, filled |-> backlog[q] > 0])
    /\ backlog' = [backlog EXCEPT ![q] = IF @ > 0 THEN @ - 1 ELSE 0]
    /\ UNCHANGED <<scheduler, ringing, doorbells, txReq, finish, driver>>

Answer(j) ==
    /\ finish' = Append(finish, fetched[j])
    /\ fetched' = SubSeq(fetched, 1, j - 1) \o SubSeq(fetched, j + 1, Len(fetched))
    /\ UNCHANGED <<scheduler, ringing, doorbells, txReq, driver, backlog, asked>>

\* early_tx_req_status: a request that found nothing is answered at once, long before a
\* descriptor that was found after it has been read and its packet sent. The engine has one
\* register for these answers and lets a finished packet go first (tx_engine.v:611-613,
\* 808-819); that an answer still waiting there is overwritten by the next is left out.
AnswerEmpty ==
    \E j \in DOMAIN fetched :
        ~fetched[j].filled /\ (\A k \in 1..j - 1 : fetched[k].filled) /\ Answer(j)

\* finish_tx_req_status: packets are finished in order, each after reads over PCIe that take
\* longer than a doorbell's way through the FIFO.
AnswerSent == ringing = <<>> /\ fetched # <<>> /\ Head(fetched).filled /\ Answer(1)

\* mqnic_deactivate_port
Deactivate ==
    /\ enable /\ Written
    /\ enable' = FALSE
    /\ UNCHANGED <<scheduler, ringing, doorbells, txReq, finish, writes, backlog, engine>>

\* What the driver expects of the 20 ms it sleeps after a stop.
Settled ==
    /\ \A j \in Stages : pipe[j].op = "none"
    /\ {ringing, doorbells, finish, asked, fetched} = {<<>>} /\ txReq = None

\* mqnic_activate_port, after the rings were deactivated, emptied and rewound.
Activate ==
    /\ ~enable /\ Settled
    /\ backlog' = [q \in Queues |-> 0]
    /\ enable' = TRUE /\ writes' = Queues
    /\ UNCHANGED <<scheduler, ringing, doorbells, txReq, finish, engine>>

Next ==
    \/ Tick \/ Ring \/ Accept \/ Dequeue \/ AnswerEmpty \/ AnswerSent
    \/ \E q \in Queues : Post(q)
    \/ Deactivate \/ Activate

\* The clock runs, doorbells get through their FIFO and the engine does not stop.
Fairness ==
    /\ WF_vars(Tick) /\ WF_vars(Ring)
    /\ WF_vars(Accept \/ Dequeue \/ AnswerEmpty \/ AnswerSent)

Safety == Init /\ [][Next]_vars
Spec == Safety /\ Fairness

-----------------------------------------------------------------------------
(* Properties. *)

InRound(q) == \E j \in DOMAIN rr : rr[j] = q
Asking(q) == \E j \in Stages : pipe[j].op = "req" /\ pipe[j].queue = q

\* A queue has exactly one place in the round, the FIFO or its turn in the pipeline, while
\* its scheduled bit is set, and none otherwise: no queue is forgotten or gets two turns
\* (tx_scheduler_rr.v:613-621, 648-676, 700-714).
ScheduledOnce ==
    /\ \A j, k \in DOMAIN rr : rr[j] = rr[k] => j = k
    /\ \A q \in Queues : /\ ram[q].scheduled <=> InRound(q) \/ Asking(q)
                         /\ ~(InRound(q) /\ Asking(q))

\* Therefore the FIFO, whose ready nobody looks at, has room (tx_scheduler_rr.v:336-375).
RoundFits == Len(rr) <= Cardinality(Queues)

Count(s, Test(_)) == Cardinality({j \in DOMAIN s : Test(s[j])})

\* The places where request i can be.
Places(i) ==
    Count(pipe, LAMBDA s : s.op \in {"req", "complete"} /\ s.index = i)
    + (IF txReq # None /\ txReq.op = i THEN 1 ELSE 0)
    + Count(asked, LAMBDA r : r.op = i)
    + Count(fetched, LAMBDA f : f.op = i)
    + Count(finish, LAMBDA f : f.op = i)

\* An entry of the table is in use exactly while one request is under way: none is
\* leaked, none is given out twice (tx_scheduler_rr.v:576-581, 667-668, 697-698).
OpsAccounted == \A i \in Ops : Places(i) = IF table[i].active THEN 1 ELSE 0

\* Request i of queue q will find the backlog, or bring the queue back when answered.
WillTell(i, q) ==
    /\ table[i].active /\ table[i].queue = q
    /\ \/ table[i].doorbell
       \/ txReq = [queue |-> q, op |-> i] \/ \E j \in DOMAIN asked : asked[j].op = i
       \/ \E s \in {fetched, finish} : \E j \in DOMAIN s : s[j] = [op |-> i, filled |-> TRUE]

\* No doorbell is lost: while descriptors wait, their doorbell is on its way, or the
\* queue is active, or a request under way will make it so - whatever answers cross the
\* doorbell (tx_scheduler_rr.v:623-627, 690-695).  And an active queue that is enabled
\* is in the round.
DoorbellsKept ==
    enable =>
    \A q \in Queues :
        /\ backlog[q] > 0 =>
              \/ \E s \in {ringing, doorbells} : \E j \in DOMAIN s : s[j] = q
              \/ \E j \in Stages : pipe[j].op = "doorbell" /\ pipe[j].queue = q
              \/ \E j \in Stages : pipe[j].op = "complete" /\ pipe[j].queue = q /\ pipe[j].filled
              \/ ram[q].active
              \/ \E i \in Ops : WillTell(i, q)
        /\ ram[q].enabled /\ ram[q].active => ram[q].scheduled

\* A ring with work is served again and again while its port is up.
Served ==
    \A q \in Queues :
        <>[](enable /\ ram[q].enabled /\ backlog[q] > 0) => []<><<backlog'[q] < backlog[q]>>_vars

\* Once all rings are empty the round empties too: answers, doorbells and the doorbells
\* passed between requests do not keep a queue asking for ever.
Quiesces ==
    <>[](enable /\ \A q \in Queues : backlog[q] = 0) => <>[](\A q \in Queues : ~ram[q].scheduled)
=============================================================================
