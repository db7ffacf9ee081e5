------------------------------ MODULE CplQueue ------------------------------
(***************************************************************************)
(* What a completion queue manager promises: every operation on a queue    *)
(* happens at once.  Its user asks for a slot, fills it and commits; heads *)
(* move in the order the slots were granted; an armed queue announces the  *)
(* next move, or what it already holds, exactly once.                      *)
(***************************************************************************)
EXTENDS Integers, Sequences

CONSTANTS Queues, PtrMod, Size, None

VARIABLES
    queue,   \* head, tail, armed and active of each
    ops,     \* slots granted and not yet passed by the head, oldest first
    answer,  \* the last answer to a request, until it is taken
    notice   \* the queue announced in this step

vars == <<queue, ops, answer, notice>>

Distance(p, q) == (p - q) % PtrMod

\* The first slot of q that is not granted.
Top(q) ==
    LET mine == {i \in DOMAIN ops : ops[i].queue = q} IN
    IF mine = {} THEN queue[q].head
    ELSE (ops[CHOOSE i \in mine : \A k \in mine : k <= i].slot + 1) % PtrMod

Init ==
    /\ queue = [q \in Queues |-> [head |-> 0, tail |-> 0, armed |-> FALSE, active |-> TRUE]]
    /\ ops = <<>> /\ answer = None /\ notice = None

\* Any number of the granted slots may be committed along with a step.
Committed(new) ==
    \E done \in SUBSET DOMAIN new :
        ops' = [i \in DOMAIN new |-> [new[i] EXCEPT !.done = @ \/ i \in done]]

Request(q) ==
    LET status == IF ~queue[q].active THEN "error"
                  ELSE IF Distance(Top(q), queue[q].tail) >= Size THEN "full" ELSE "ok"
    IN
    /\ answer = None
    /\ answer' = [queue |-> q, slot |-> Top(q), status |-> status]
    /\ Committed(IF status = "ok" THEN Append(ops, [queue |-> q, slot |-> Top(q), done |-> FALSE])
                 ELSE ops)
    /\ notice' = None /\ UNCHANGED queue

MoveHead ==
    /\ ops # <<>> /\ Head(ops).done
    /\ LET q == Head(ops).queue IN
          /\ queue' = [queue EXCEPT ![q].head = (Head(ops).slot + 1) % PtrMod, ![q].armed = FALSE]
          /\ notice' = IF queue[q].armed THEN q ELSE None
    /\ Committed(Tail(ops))
    /\ answer' \in {answer, None}

Configure(q) ==
    /\ \/ \E p \in 0..PtrMod - 1 : queue' = [queue EXCEPT ![q].tail = p]
       \/ \E p \in 0..PtrMod - 1 : ~queue[q].active /\ queue' = [queue EXCEPT ![q].head = p]
       \/ \E b \in BOOLEAN : queue' = [queue EXCEPT ![q].active = b]
       \/ queue' = [queue EXCEPT ![q].armed = FALSE]
    /\ notice' = None
    /\ Committed(ops) /\ answer' \in {answer, None}

Arm(q) ==
    /\ IF queue[q].head = queue[q].tail
       THEN queue' = [queue EXCEPT ![q].armed = TRUE] /\ notice' = None
       ELSE queue' = [queue EXCEPT ![q].armed = FALSE] /\ notice' = q
    /\ Committed(ops) /\ answer' \in {answer, None}

Pass ==
    /\ notice' = None /\ UNCHANGED queue
    /\ Committed(ops) /\ answer' \in {answer, None}

Next == MoveHead \/ Pass \/ \E q \in Queues : Request(q) \/ Configure(q) \/ Arm(q)

Spec == Init /\ [][Next]_vars
=============================================================================
