--------------------------- MODULE CplQueueManager ---------------------------
(***************************************************************************)
(* The completion (and event) queue manager, clock cycle by clock cycle    *)
(* (cpl_queue_manager.v).                                                  *)
(*                                                                         *)
(* Queue states live in a RAM that takes Pipeline cycles to read.  An      *)
(* operation enters at stage 0, where its RAM word is fetched, and is      *)
(* executed on that copy when it leaves the last stage; a hazard check     *)
(* keeps two operations of one queue out of the pipeline.  An enqueue      *)
(* takes an entry of the operation table, which holds the head the queue   *)
(* will have; committed entries are finished in order, and only then does  *)
(* the head in the RAM move.                                               *)
(*                                                                         *)
(* The user of the enqueue ports (cpl_write.v) and the AXI-Lite master     *)
(* hold a request until its ready; both may be slow to take an answer.     *)
(* enable is tied high, and the driver never sets the continuous bit and   *)
(* never changes a queue's size: all three are left out.                   *)
(***************************************************************************)
EXTENDS Integers, FiniteSets, Sequences

CONSTANTS
    Queues,       \* queue numbers
    Pipeline,     \* PIPELINE
    OpTableSize,  \* OP_TABLE_SIZE
    PtrMod,       \* 2^QUEUE_PTR_WIDTH
    Size,         \* entries of a queue: 2^log_size
    None,
    Regs,         \* bound: the registers the driver writes
    Readers,      \* bound: the queues whose head it reads
    Slow,         \* bound: the answers that may be taken late
    Posted        \* whether the master asks again before it has the last answer

ASSUME ParamAssumption ==
    /\ Pipeline \in Nat /\ Pipeline >= 2 /\ OpTableSize \in Nat \ {0}
    /\ Size \in Nat \ {0} /\ PtrMod \in Nat /\ PtrMod > Size /\ PtrMod % Size = 0
    /\ None \notin Queues
    /\ Regs \subseteq {"tail", "arm", "active", "head"} /\ Readers \subseteq Queues
    /\ Slow \subseteq {"resp", "b", "r"} /\ Posted \in BOOLEAN

Stages == 0..Pipeline - 1
Last == Pipeline - 1
Ops == 0..OpTableSize - 1
Ptrs == 0..PtrMod - 1

VARIABLES
    ram,        \* queue_ram
    table,      \* op_table_*
    startPtr,   \* op_table_start_ptr_reg
    finishPtr,  \* op_table_finish_ptr_reg
    pipe,       \* the pipeline registers, with the RAM word each stage carries
    req,        \* s_axis_enqueue_req: the queue asked for
    reqReady,   \* its ready
    resp,       \* m_axis_enqueue_resp
    held,       \* operations granted to the user and not yet committed by it
    wr,         \* s_axil_aw and w: the register write asked for
    wrReady,
    bvalid,     \* s_axil_b: the write's answer
    rd,         \* s_axil_ar: the queue whose head is read
    rdReady,
    rdata,      \* s_axil_r: the read's answer
    event,      \* m_axis_event_source
    sent        \* the driver's last tail for each queue

manager == <<ram, table, startPtr, finishPtr, pipe>>
ports   == <<req, reqReady, resp, held, wr, wrReady, bvalid, rd, rdReady, rdata, event, sent>>
vars    == <<manager, ports>>

Words == [head : Ptrs, tail : Ptrs, armed : BOOLEAN, active : BOOLEAN, op : Ops]
Writes == [queue : Queues, reg : {"tail", "head"}, data : Ptrs]
              \cup [queue : Queues, reg : {"arm", "active"}, data : BOOLEAN]
Responses == [queue : Queues, ptr : Ptrs, op : Ops, status : {"ok", "full", "error"}]

\* None stands for a port that offers nothing.
ASSUME NoneAssumption == None \notin Responses

Idle == [op |-> "none"]
Carries(op, data) == [op : {op}, queue : Queues, data : data, word : Words]

\* Every register of the manager holds what its width and its encoding allow (183-262).
TypeOK ==
    /\ ram \in [Queues -> Words]
    /\ table \in [Ops -> [active : BOOLEAN, commit : BOOLEAN, queue : Queues, ptr : Ptrs]]
    /\ {startPtr, finishPtr} \subseteq Ops
    /\ pipe \in [Stages -> {Idle} \cup Carries("write", Writes) \cup Carries("commit", Ptrs)
                               \cup Carries("read", {None}) \cup Carries("req", {None})]
    /\ {req, rd, event} \subseteq Queues \cup {None}
    /\ resp \in Responses \cup {None} /\ held \subseteq Ops
    /\ wr \in Writes \cup {None} /\ rdata \in Ptrs \cup {None}
    /\ {reqReady, wrReady, bvalid, rdReady} \subseteq BOOLEAN
    /\ sent \in [Queues -> Ptrs]

\* Queues the driver has configured; nothing under way.
Init ==
    /\ ram = [q \in Queues |-> [head |-> 0, tail |-> 0, armed |-> FALSE, active |-> TRUE, op |-> 0]]
    /\ \E q \in Queues :
          table = [i \in Ops |-> [active |-> FALSE, commit |-> FALSE, queue |-> q, ptr |-> 0]]
    /\ startPtr = 0 /\ finishPtr = 0
    /\ pipe = [j \in Stages |-> Idle]
    /\ req = None /\ reqReady = FALSE /\ resp = None /\ held = {}
    /\ wr = None /\ wrReady = FALSE /\ bvalid = FALSE
    /\ rd = None /\ rdReady = FALSE /\ rdata = None
    /\ event = None
    /\ sent = [q \in Queues |-> 0]

-----------------------------------------------------------------------------
(* Stage 0: one operation enters, by priority. *)

\* Mutant: the stage being executed is not looked at.
HazardBeforeLast(q) == \E j \in Stages \ {Last} : pipe[j].op # "none" /\ pipe[j].queue = q

Hazard(q) == \E j \in Stages : pipe[j].op # "none" /\ pipe[j].queue = q

InPipe(op) == \E j \in Stages : pipe[j].op = op

AcceptWrite(bReady) ==
    wr # None /\ (~bvalid \/ bReady) /\ ~InPipe("write") /\ ~Hazard(wr.queue)

AcceptRead(bReady, rReady) ==
    /\ ~AcceptWrite(bReady)
    /\ rd # None /\ (rdata = None \/ rReady) /\ ~InPipe("read") /\ ~Hazard(rd)

\* Mutant: a waiting request goes first.
AcceptCommitLast(bReady, rReady) ==
    LET o == table[finishPtr] IN
    /\ ~AcceptWrite(bReady) /\ ~AcceptRead(bReady, rReady) /\ req = None
    /\ o.active /\ o.commit /\ pipe[0].op # "commit" /\ ~Hazard(o.queue)

\* The oldest operation is finished once committed.
AcceptCommit(bReady, rReady) ==
    LET o == table[finishPtr] IN
    /\ ~AcceptWrite(bReady) /\ ~AcceptRead(bReady, rReady)
    /\ o.active /\ o.commit /\ pipe[0].op # "commit" /\ ~Hazard(o.queue)

\* Mutant: a response that was not taken yet does not hold the next request.
AcceptReqBlindly(bReady, rReady, respReady) ==
    /\ ~AcceptWrite(bReady) /\ ~AcceptRead(bReady, rReady) /\ ~AcceptCommit(bReady, rReady)
    /\ ~table[startPtr].active
    /\ req # None /\ ~InPipe("req") /\ ~Hazard(req)

AcceptReq(bReady, rReady, respReady) ==
    /\ ~AcceptWrite(bReady) /\ ~AcceptRead(bReady, rReady) /\ ~AcceptCommit(bReady, rReady)
    /\ ~table[startPtr].active
    /\ req # None /\ (resp = None \/ respReady) /\ ~InPipe("req") /\ ~Hazard(req)

Stage(op, q, data) == [op |-> op, queue |-> q, data |-> data, word |-> ram[q]]

Shift(entering) == pipe' = [j \in Stages |-> IF j = 0 THEN entering ELSE pipe[j - 1]]

Enter(bReady, rReady, respReady) ==
    \/ AcceptWrite(bReady) /\ Shift(Stage("write", wr.queue, wr))
    \/ AcceptRead(bReady, rReady) /\ Shift(Stage("read", rd, None))
    \/ /\ AcceptCommit(bReady, rReady)
       /\ Shift(Stage("commit", table[finishPtr].queue, table[finishPtr].ptr))
    \/ AcceptReq(bReady, rReady, respReady) /\ Shift(Stage("req", req, None))
    \/ /\ ~AcceptWrite(bReady) /\ ~AcceptRead(bReady, rReady)
       /\ ~AcceptCommit(bReady, rReady) /\ ~AcceptReq(bReady, rReady, respReady)
       /\ Shift(Idle)

-----------------------------------------------------------------------------
(* The last stage: the operation is performed on the word it carries. *)

cur == pipe[Last]
\* Mutant: the pointers to the table are as wide as the tags.
NextOpUnwrapped(i) == i + 1

NextOp(i) == (i + 1) % OpTableSize
Used(head, tail) == (head - tail) % PtrMod

\* Mutant: the head in the RAM, as if no operation were outstanding.
ActiveHeadIdle(q, word) == word.head

\* The head the queue will have: that of its youngest operation, if any is left.
ActiveHead(q, word) ==
    LET o == table[word.op] IN IF o.active /\ o.queue = q THEN o.ptr ELSE word.head

StartEn ==
    /\ cur.op = "req" /\ cur.word.active
    /\ Used(ActiveHead(cur.queue, cur.word), cur.word.tail) < Size

ExecReq ==
    /\ cur.op = "req"
    /\ resp' = [queue |-> cur.queue, ptr |-> ActiveHead(cur.queue, cur.word), op |-> startPtr,
                status |-> IF ~cur.word.active THEN "error" ELSE IF StartEn THEN "ok" ELSE "full"]
    /\ ram' = IF StartEn THEN [ram EXCEPT ![cur.queue].op = startPtr] ELSE ram
    /\ event' = None

\* An armed queue announces the new head, once.
ExecCommit ==
    /\ cur.op = "commit"
    /\ ram' = [ram EXCEPT ![cur.queue].head = cur.data, ![cur.queue].armed = @ /\ ~cur.word.armed,
                          ![cur.queue].active = IF cur.word.armed THEN cur.word.active ELSE @]
    /\ event' = IF cur.word.armed THEN cur.queue ELSE None

\* Mutant: a queue is armed whatever it holds.
WrittenBlindly(w, word, old) ==
    CASE w.reg = "tail"   -> [old EXCEPT !.tail = w.data]
      [] w.reg = "head"   -> IF word.active THEN old ELSE [old EXCEPT !.head = w.data]
      [] w.reg = "active" -> [old EXCEPT !.active = w.data, !.armed = word.armed]
      [] w.reg = "arm"    -> [old EXCEPT !.active = word.active, !.armed = w.data]

\* Registers 2 to 4 and 6, on the word old: the head can be written only while the
\* queue is inactive, and arming a queue that holds something fires at once. The
\* armed and active bits share a byte, so writing one rewrites the other as carried.
Written(w, word, old) ==
    CASE w.reg = "tail"   -> [old EXCEPT !.tail = w.data]
      [] w.reg = "head"   -> IF word.active THEN old ELSE [old EXCEPT !.head = w.data]
      [] w.reg = "active" -> [old EXCEPT !.active = w.data, !.armed = word.armed]
      [] w.reg = "arm"    -> [old EXCEPT !.active = word.active,
                                         !.armed = w.data /\ word.head = word.tail]

ExecWrite ==
    LET w == cur.data IN
    /\ cur.op = "write"
    /\ ram' = [ram EXCEPT ![cur.queue] = Written(w, cur.word, @)]
    /\ event' = IF w.reg = "arm" /\ w.data /\ cur.word.head # cur.word.tail
                THEN cur.queue ELSE None

Execute(respReady, bReady, rReady) ==
    LET answered == IF respReady THEN None ELSE resp IN
    /\ \/ ExecReq
       \/ ExecCommit /\ resp' = answered
       \/ ExecWrite /\ resp' = answered
       \/ cur.op \in {"read", "none"} /\ resp' = answered /\ event' = None /\ UNCHANGED ram
    /\ bvalid' = (cur.op = "write" \/ (bvalid /\ ~bReady))
    /\ rdata' = IF cur.op = "read" THEN cur.word.head ELSE IF rReady THEN None ELSE rdata

\* Starting an operation, finishing the oldest, and recording a commit.
Tables(finishEn, tag) ==
    /\ table' = [i \in Ops |->
          [active |-> (table[i].active /\ ~(finishEn /\ i = finishPtr)) \/ (StartEn /\ i = startPtr),
           commit |-> (table[i].commit /\ ~(StartEn /\ i = startPtr)) \/ i = tag,
           queue  |-> IF StartEn /\ i = startPtr THEN cur.queue ELSE table[i].queue,
           ptr    |-> IF StartEn /\ i = startPtr
                      THEN (ActiveHead(cur.queue, cur.word) + 1) % PtrMod ELSE table[i].ptr]]
    /\ startPtr' = IF StartEn THEN NextOp(startPtr) ELSE startPtr
    /\ finishPtr' = IF finishEn THEN NextOp(finishPtr) ELSE finishPtr

-----------------------------------------------------------------------------
(* The users of the ports. A request is held until ready is seen.            *)

\* cpl_write.v: any queue may be asked for; a granted operation is committed some
\* time after its response was taken. tag is None or the operation committed now.
EnqueueUser(respReady, tag) ==
    /\ IF req = None \/ reqReady THEN req' \in Queues \cup {None} ELSE UNCHANGED req
    /\ held' = (held \ {tag}) \cup
                IF respReady /\ resp # None /\ resp.status = "ok" THEN {resp.op} ELSE {}

\* The driver has waited for the operations of an inactive queue to finish
\* (mqnic_stop_port's msleep) before it writes the head back.
Quiet(q) ==
    /\ ~ram[q].active
    /\ \A i \in Ops : ~(table[i].active /\ table[i].queue = q)
    /\ \A j \in Stages : pipe[j].op = "none" \/ pipe[j].queue # q

Between(q) == {p \in Ptrs : Used(p, sent[q]) <= Used(ram[q].head, sent[q])}

\* The driver writes tails up to a head it may have read, and knows the heads it wrote.
HeadSettled(q) == ~\E j \in Stages : pipe[j].op = "write" /\ pipe[j].queue = q /\ pipe[j].data.reg = "head"

\* It disarms a queue right after its deactivation, which may still be in the pipeline,
\* with operations outstanding (mqnic_cq.c:152-154).
Deactivated(q) ==
    \/ ~ram[q].active
    \/ \E j \in Stages : pipe[j].op = "write" /\ pipe[j].queue = q
                          /\ pipe[j].data.reg = "active" /\ ~pipe[j].data.data

NewWrites ==
    {w \in Writes :
        /\ w.reg \in Regs
        /\ w.reg = "tail" => HeadSettled(w.queue) /\ w.data \in Between(w.queue) \ {sent[w.queue]}
        /\ w.reg = "head" => w.data \in Between(w.queue) /\ Quiet(w.queue)
        /\ w.reg = "arm"  => w.data \/ Deactivated(w.queue)}

MayAsk ==
    \/ Posted
    \/ /\ wr = None /\ rd = None /\ ~bvalid /\ rdata = None
       /\ ~InPipe("write") /\ ~InPipe("read")

Driver ==
    /\ IF wr # None /\ ~wrReady THEN UNCHANGED wr
       ELSE wr' \in (IF MayAsk THEN NewWrites ELSE {}) \cup {None}
    /\ sent' = IF wr' # None /\ (wr = None \/ wrReady) /\ wr'.reg = "tail"
               THEN [sent EXCEPT ![wr'.queue] = wr'.data] ELSE sent
    /\ IF rd # None /\ ~rdReady THEN UNCHANGED rd
       ELSE rd' \in (IF MayAsk THEN Readers ELSE {}) \cup {None}
    /\ Posted \/ wr' = None \/ rd' = None

\* A clock edge.
Tick(respReady, bReady, rReady, tag) ==
    /\ Enter(bReady, rReady, respReady)
    /\ Execute(respReady, bReady, rReady)
    /\ Tables(AcceptCommit(bReady, rReady), tag)
    /\ wrReady' = AcceptWrite(bReady)
    /\ rdReady' = AcceptRead(bReady, rReady)
    /\ reqReady' = AcceptReq(bReady, rReady, respReady)
    /\ EnqueueUser(respReady, tag)
    /\ Driver

Ready(channel) == IF channel \in Slow THEN BOOLEAN ELSE {TRUE}

Next ==
    \E respReady \in Ready("resp"), bReady \in Ready("b"), rReady \in Ready("r"),
       tag \in held \cup {None} :
        Tick(respReady, bReady, rReady, tag)

\* The clock runs; the user takes every response and commits what it was granted.
Fairness ==
    /\ WF_vars(Next)
    /\ WF_vars(resp # None /\ \E tag \in held \cup {None} : Tick(TRUE, TRUE, TRUE, tag))
    /\ \A i \in Ops : WF_vars(i \in held /\ \E r \in Ready("resp") : Tick(r, TRUE, TRUE, i))

Safety == Init /\ [][Next]_vars
Spec == Safety /\ Fairness

-----------------------------------------------------------------------------
(* Properties. *)

\* The operations the pipeline is finishing, from the last stage on.
CommitStages == {j \in Stages : pipe[j].op = "commit"}
Finishing ==
    [d \in 1..Cardinality(CommitStages) |->
        LET j == CHOOSE j \in CommitStages : Cardinality({k \in CommitStages : k >= j}) = d
        IN [queue |-> pipe[j].queue, slot |-> (pipe[j].data - 1) % PtrMod, done |-> TRUE]]

\* Those of the table, oldest first.
Age(i) == (i - finishPtr) % OpTableSize
InUse == IF table[startPtr].active THEN OpTableSize ELSE Age(startPtr)
Waiting ==
    [d \in 1..InUse |->
        LET o == table[(finishPtr + d - 1) % OpTableSize]
        IN [queue |-> o.queue, slot |-> (o.ptr - 1) % PtrMod, done |-> o.commit]]

Outstanding == Finishing \o Waiting

Atomic == INSTANCE CplQueue WITH
    queue  <- [q \in Queues |-> [head |-> ram[q].head, tail |-> ram[q].tail,
                                armed |-> ram[q].armed, active |-> ram[q].active]],
    ops    <- Outstanding,
    answer <- IF resp = None THEN None
              ELSE [queue |-> resp.queue, slot |-> resp.ptr, status |-> resp.status],
    notice <- event

\* Spread over the pipeline, the table and the ports, operations still take effect
\* one at a time, in the order CplQueue allows (cpl_queue_manager.v:386-630).
Atomicity == Atomic!Spec

\* The word an operation carries is the one in the RAM until it is executed, so a
\* write never undoes what another operation did meanwhile (386-392, 704-719).
Coherent == \A j \in Stages : pipe[j].op # "none" => pipe[j].word = ram[pipe[j].queue]

Mine(q) == {i \in Ops : table[i].active /\ table[i].queue = q}
Ahead(q, p) == Used(p, ram[q].tail)
Committing(q) == \E j \in Stages : pipe[j].op = "commit" /\ pipe[j].queue = q

\* The slots granted to a queue follow its head without a gap, in the order of the
\* grants, and never pass its tail by more than its size: no completion is written over
\* one that the driver has not taken, though the grants outrun the head (292-296). A
\* commit in the pipeline moves the head by one; an entry's ptr is the end of its slot.
SlotsFollowHead ==
    \A q \in Queues :
        LET first == Ahead(q, ram[q].head) + IF Committing(q) THEN 1 ELSE 0 IN
        /\ \A j \in Stages : pipe[j].op = "commit" /\ pipe[j].queue = q =>
               pipe[j].data = (ram[q].head + 1) % PtrMod
        /\ \A i, k \in Mine(q) : Age(i) < Age(k) => Ahead(q, table[i].ptr) < Ahead(q, table[k].ptr)
        /\ \E n \in first..Size : {Ahead(q, table[i].ptr) : i \in Mine(q)} = first + 1..n

\* Every answer finds its register empty or taken in that cycle (396-427).
AnswersKept ==
    /\ InPipe("req") => resp = None
    /\ InPipe("read") => rdata = None
    /\ InPipe("write") => ~bvalid

\* A request is taken in the end, however the driver's accesses, which go first, and
\* the operations of other queues are interleaved with it, provided the driver waits
\* for the answer to an access before the next; and a committed operation reaches the
\* head of its queue (396-437, 622-628).
NothingStarves ==
    /\ req # None ~> reqReady
    /\ \A i \in Ops : table[i].active /\ table[i].commit ~> ~table[i].active
=============================================================================
