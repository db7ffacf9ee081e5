------------------------------ MODULE EventPath ------------------------------
(***************************************************************************)
(* How a completion makes the driver run: the completion queues (CQs) of   *)
(* one interface, the event queue (EQ) they report to, its MSI vector and  *)
(* the NAPI contexts that drain the CQs.                                   *)
(*                                                                         *)
(* A CQ that is armed owes the host one event.  The NIC pays it when a     *)
(* completion is committed, the event travels through an event FIFO and    *)
(* the event write engine into the EQ, the EQ raises its interrupt, the    *)
(* interrupt handler schedules the NAPI context of the CQ, and the poll    *)
(* arms the CQ again when it has nothing left to do.  One notification     *)
(* circulates per CQ; nothing ever creates a second one, so if one is lost *)
(* the CQ is never served again.                                           *)
(*                                                                         *)
(* NIC side: cpl_queue_manager.v, cpl_write.v, event_mux.v and             *)
(* mqnic_interface.v.  Host side: mqnic_eq.c, mqnic_cq.c, mqnic_irq.c, the *)
(* poll functions of mqnic_tx.c and mqnic_rx.c and the start-up loop of    *)
(* mqnic_netdev.c.  Ring contents are abstracted to the number of entries  *)
(* between tail and head; register writes take effect where they are       *)
(* issued (delaying one is the same as delaying the thread that issues it).*)
(***************************************************************************)
EXTENDS Integers, Sequences, FiniteSets

CONSTANTS
    TxCq,       \* completion queues of the transmit rings
    RxCq,       \* completion queues of the receive rings
    CplSize,    \* entries of a completion queue
    EqSize,     \* entries of the event queue
    FifoDepth,  \* entries of each of the two event FIFOs
    Budget      \* NAPI weight: completions one poll may process

CQ == TxCq \cup RxCq
Side == {"tx", "rx"}
SideOf(q) == IF q \in TxCq THEN "tx" ELSE "rx"

ASSUME QueueAssumption ==
    /\ IsFiniteSet(TxCq) /\ IsFiniteSet(RxCq) /\ TxCq \cap RxCq = {}
    /\ CplSize \in Nat \ {0} /\ Budget \in Nat \ {0}

\* Every queue of a side may fire while the write engine is busy, and the event
\* queue may hold one processed and one fresh entry of every queue.
ASSUME CapacityAssumption ==
    /\ FifoDepth \in Nat /\ EqSize \in Nat
    /\ Cardinality(TxCq) <= FifoDepth /\ Cardinality(RxCq) <= FifoDepth
    /\ 2 * Cardinality(CQ) <= EqSize

VARIABLES
    occ,        \* committed, unread completions of each CQ (head - tail in the NIC)
    armed,      \* arm bit of each CQ
    fifo,       \* events waiting in tx_event_fifo and rx_event_fifo
    evw,        \* events with an EQ slot reserved whose write is not committed
    eq,         \* events in the EQ between its tail and head registers
    eqArmed,    \* arm bit of the EQ
    irqPending, \* the MSI vector is pending
    isr,        \* where the interrupt handler is
    snap,       \* EQ entries the handler saw when it read the head pointer
    k,          \* EQ entries it has processed since
    stage,      \* progress of mqnic_start_port for each CQ
    portUp,     \* priv->port_up
    sched,      \* NAPI_STATE_SCHED of each CQ's context
    missed,     \* NAPI_STATE_MISSED of each CQ's context
    poll,       \* where the poll of each CQ is
    avail,      \* completions that poll saw when it read the head pointer
    arming      \* polls that completed NAPI and have not yet armed the CQ

nic   == <<armed, fifo, evw, eq, eqArmed>>
irq   == <<irqPending, isr, snap, k>>
port  == <<stage, portUp>>
napi  == <<sched, missed, poll, avail, arming>>
vars  == <<occ, nic, irq, port, napi>>

Smaller(a, b) == IF a <= b THEN a ELSE b

\* Counters stay within the queues they count, queues hold CQs, program counters
\* stay in the code.
TypeOK ==
    /\ occ \in [CQ -> 0..CplSize]
    /\ armed \in [CQ -> BOOLEAN]
    /\ fifo \in [Side -> Seq(CQ)]
    /\ evw \in Seq(CQ) /\ eq \in Seq(CQ)
    /\ eqArmed \in BOOLEAN /\ irqPending \in BOOLEAN
    /\ isr \in {"idle", "read", "loop", "arm"}
    /\ snap \in Nat /\ k \in Nat
    /\ stage \in [CQ -> {"down", "napi", "armed", "ring"}]
    /\ portUp \in BOOLEAN
    /\ sched \in [CQ -> BOOLEAN] /\ missed \in [CQ -> BOOLEAN]
    /\ poll \in [CQ -> {"off", "loop", "complete"}]
    /\ avail \in [CQ -> 0..CplSize]
    /\ arming \in [CQ -> Nat]

\* The interface is created (its EQ active and armed), no port started yet.
Init ==
    /\ occ = [q \in CQ |-> 0]
    /\ armed = [q \in CQ |-> FALSE]
    /\ fifo = [s \in Side |-> <<>>]
    /\ evw = <<>> /\ eq = <<>>
    /\ eqArmed = TRUE /\ irqPending = FALSE
    /\ isr = "idle" /\ snap = 0 /\ k = 0
    /\ stage = [q \in CQ |-> "down"]
    /\ portUp = FALSE
    /\ sched = [q \in CQ |-> FALSE] /\ missed = [q \in CQ |-> FALSE]
    /\ poll = [q \in CQ |-> "off"]
    /\ avail = [q \in CQ |-> 0]
    /\ arming = [q \in CQ |-> 0]

-----------------------------------------------------------------------------
(* The NIC. *)

\* An event leaves the queue manager for the FIFO of its side.  The FIFO's ready
\* is not connected: an event that meets a full FIFO is gone.
PushEvent(q) ==
    LET s == SideOf(q) IN
    fifo' = IF Len(fifo[s]) < FifoDepth
            THEN [fifo EXCEPT ![s] = Append(@, q)]
            ELSE fifo

\* Mutant: completions are committed to a full queue.
CplCommitWhenFull(q) ==
    /\ stage[q] = "ring" /\ (q \in TxCq => portUp)
    /\ occ' = [occ EXCEPT ![q] = @ + 1]
    /\ IF armed[q]
       THEN armed' = [armed EXCEPT ![q] = FALSE] /\ PushEvent(q)
       ELSE UNCHANGED <<armed, fifo>>
    /\ UNCHANGED <<evw, eq, eqArmed, irq, port, napi>>

\* A completion is committed: the head advances and an armed queue fires.
CplCommit(q) ==
    /\ stage[q] = "ring" /\ (q \in TxCq => portUp)
    /\ occ[q] < CplSize
    /\ occ' = [occ EXCEPT ![q] = @ + 1]
    /\ IF armed[q]
       THEN armed' = [armed EXCEPT ![q] = FALSE] /\ PushEvent(q)
       ELSE UNCHANGED <<armed, fifo>>
    /\ UNCHANGED <<evw, eq, eqArmed, irq, port, napi>>

\* Mutant: arming a queue that is not empty fires and leaves it armed.
ArmAndFire(q) ==
    /\ armed' = [armed EXCEPT ![q] = TRUE]
    /\ IF occ[q] > 0 THEN PushEvent(q) ELSE UNCHANGED fifo

\* A write to the arm register: a queue that is not empty fires at once and
\* stays disarmed.
Arm(q) ==
    IF occ[q] > 0
    THEN armed' = [armed EXCEPT ![q] = FALSE] /\ PushEvent(q)
    ELSE armed' = [armed EXCEPT ![q] = TRUE] /\ UNCHANGED fifo

\* The event write engine takes an event from the FIFO the multiplexer grants
\* and asks for an EQ slot; with none left the event is discarded.
EventRequest(s) ==
    /\ fifo[s] # <<>>
    /\ fifo' = [fifo EXCEPT ![s] = Tail(@)]
    /\ evw' = IF Len(eq) + Len(evw) < EqSize THEN Append(evw, Head(fifo[s])) ELSE evw
    /\ UNCHANGED <<occ, armed, eq, eqArmed, irq, port, napi>>

\* The oldest event write has reached host memory and is committed: the EQ's
\* head advances and an armed EQ raises its interrupt.
EventCommit ==
    /\ evw # <<>>
    /\ evw' = Tail(evw)
    /\ eq' = Append(eq, Head(evw))
    /\ eqArmed' = FALSE
    /\ irqPending' = (irqPending \/ eqArmed)
    /\ UNCHANGED <<occ, armed, fifo, isr, snap, k, port, napi>>

-----------------------------------------------------------------------------
(* The interrupt handler: mqnic_process_eq, then mqnic_arm_eq. *)

\* Another EQ on the same vector raises it.
SharedVectorRaises ==
    /\ ~irqPending /\ irqPending' = TRUE
    /\ UNCHANGED <<occ, nic, isr, snap, k, port, napi>>

IrqEnter ==
    /\ irqPending /\ isr = "idle"
    /\ irqPending' = FALSE /\ isr' = "read"
    /\ UNCHANGED <<occ, nic, snap, k, port, napi>>

EqReadHead ==
    /\ isr = "read"
    /\ snap' = Len(eq) /\ isr' = "loop"
    /\ UNCHANGED <<occ, nic, irqPending, k, port, napi>>

\* The ring's handler is set when the ring is activated; an event of a queue
\* that has none is skipped.
HasHandler(q) == stage[q] = "ring"

NapiSchedule(q) ==
    /\ sched' = [sched EXCEPT ![q] = TRUE]
    /\ missed' = [missed EXCEPT ![q] = @ \/ sched[q]]

EqProcessEntry ==
    /\ isr = "loop" /\ k < snap
    /\ k' = k + 1
    /\ LET q == eq[k + 1] IN
       IF HasHandler(q) THEN NapiSchedule(q) ELSE UNCHANGED <<sched, missed>>
    /\ UNCHANGED <<occ, nic, irqPending, isr, snap, port, poll, avail, arming>>

\* Mutant: the tail is written from the NIC's head, not from what was processed.
EqRetireToHead ==
    /\ isr = "loop" /\ k = snap
    /\ eq' = <<>>
    /\ snap' = 0 /\ k' = 0 /\ isr' = "arm"
    /\ UNCHANGED <<occ, armed, fifo, evw, eqArmed, irqPending, port, napi>>

\* One write of the tail pointer releases all the processed entries.
EqRetire ==
    /\ isr = "loop" /\ k = snap
    /\ eq' = SubSeq(eq, k + 1, Len(eq))
    /\ snap' = 0 /\ k' = 0 /\ isr' = "arm"
    /\ UNCHANGED <<occ, armed, fifo, evw, eqArmed, irqPending, port, napi>>

EqArm ==
    /\ isr = "arm" /\ isr' = "idle"
    /\ eqArmed' = (eq = <<>>)
    /\ irqPending' = (irqPending \/ eq # <<>>)
    /\ UNCHANGED <<occ, armed, fifo, evw, eq, snap, k, port, napi>>

-----------------------------------------------------------------------------
(* The poll functions. *)

\* Mutant: the poll of a port that is not up completes NAPI and forgets to arm.
PollPortDownUnarmed(q) ==
    /\ sched[q] /\ poll[q] = "off" /\ ~portUp
    /\ sched' = [sched EXCEPT ![q] = FALSE]
    /\ UNCHANGED <<occ, nic, irq, port, missed, poll, avail, arming>>

\* A ring that is not up is not polled: nothing is done, the poll completes.
PollPortDown(q) ==
    /\ sched[q] /\ poll[q] = "off" /\ ~portUp
    /\ poll' = [poll EXCEPT ![q] = "complete"]
    /\ UNCHANGED <<occ, nic, irq, port, sched, missed, avail, arming>>

PollReadHead(q) ==
    /\ sched[q] /\ poll[q] = "off" /\ portUp
    /\ avail' = [avail EXCEPT ![q] = occ[q]]
    /\ poll' = [poll EXCEPT ![q] = "loop"]
    /\ UNCHANGED <<occ, nic, irq, port, sched, missed, arming>>

\* The poll writes the tail pointer after processing n completions.  With the
\* budget spent it keeps NAPI scheduled and is called again.
PollRetireN(q, n) ==
    /\ poll[q] = "loop"
    /\ occ' = [occ EXCEPT ![q] = @ - n]
    /\ avail' = [avail EXCEPT ![q] = 0]
    /\ poll' = [poll EXCEPT ![q] = IF n = Budget THEN "off" ELSE "complete"]
    /\ UNCHANGED <<nic, irq, port, sched, missed, arming>>

PollRetire(q) == PollRetireN(q, Smaller(avail[q], Budget))

\* A receive poll that cannot get an skb leaves the loop early.
PollNoSkb(q) ==
    /\ q \in RxCq
    /\ \E n \in 0..Smaller(avail[q], Budget) - 1 : PollRetireN(q, n)

\* napi_complete: a context that was scheduled meanwhile stays scheduled.
PollComplete(q) ==
    /\ poll[q] = "complete"
    /\ sched' = [sched EXCEPT ![q] = missed[q]]
    /\ missed' = [missed EXCEPT ![q] = FALSE]
    /\ poll' = [poll EXCEPT ![q] = "off"]
    /\ arming' = [arming EXCEPT ![q] = @ + 1]
    /\ UNCHANGED <<occ, nic, irq, port, avail>>

\* The poll's last act, with NAPI already released: arm the CQ.
ArmCq(q) ==
    /\ arming[q] > 0
    /\ arming' = [arming EXCEPT ![q] = @ - 1]
    /\ Arm(q)
    /\ UNCHANGED <<occ, evw, eq, eqArmed, irq, port, sched, missed, poll, avail>>

-----------------------------------------------------------------------------
(* mqnic_start_port, for every CQ in turn, then the port. *)

\* The CQ is activated, disarmed and empty, and its NAPI context enabled.
StartNapi(q) ==
    /\ stage[q] = "down"
    /\ stage' = [stage EXCEPT ![q] = "napi"]
    /\ UNCHANGED <<occ, nic, irq, portUp, napi>>

StartArm(q) ==
    /\ stage[q] = "napi"
    /\ stage' = [stage EXCEPT ![q] = "armed"]
    /\ Arm(q)
    /\ UNCHANGED <<occ, evw, eq, eqArmed, irq, portUp, napi>>

\* The ring is activated: its handler is set and the NIC may use it.
StartRing(q) ==
    /\ stage[q] = "armed"
    /\ stage' = [stage EXCEPT ![q] = "ring"]
    /\ UNCHANGED <<occ, nic, irq, portUp, napi>>

PortUp ==
    /\ ~portUp /\ \A q \in CQ : stage[q] = "ring"
    /\ portUp' = TRUE
    /\ UNCHANGED <<occ, nic, irq, stage, napi>>

-----------------------------------------------------------------------------

IrqStep == IrqEnter \/ EqReadHead \/ EqProcessEntry \/ EqRetire \/ EqArm

StartStep == PortUp \/ \E q \in CQ : StartNapi(q) \/ StartArm(q) \/ StartRing(q)

PollStep(q) ==
    \/ PollPortDown(q) \/ PollReadHead(q) \/ PollRetire(q) \/ PollComplete(q)

Next ==
    \/ \E q \in CQ :
          CplCommit(q) \/ PollStep(q) \/ PollNoSkb(q) \/ ArmCq(q)
    \/ \E s \in Side : EventRequest(s)
    \/ EventCommit \/ SharedVectorRaises
    \/ IrqStep \/ StartStep

\* The multiplexer is round robin, the write engine and the interrupt are never
\* masked for ever, softirqs serve every scheduled context, and an allocation
\* that keeps being retried succeeds in the end.
Fairness ==
    /\ \A s \in Side : WF_vars(EventRequest(s))
    /\ WF_vars(EventCommit) /\ WF_vars(IrqStep) /\ WF_vars(StartStep)
    /\ \A q \in CQ : WF_vars(PollStep(q)) /\ WF_vars(ArmCq(q))
    /\ \A q \in RxCq : SF_vars(PollRetire(q))

Safety == Init /\ [][Next]_vars
Spec == Safety /\ Fairness
-----------------------------------------------------------------------------
(* Properties. *)

Entries(s) == {s[i] : i \in DOMAIN s}
Distinct(s) == \A i, j \in DOMAIN s : s[i] = s[j] => i = j

\* The EQ entries the handler has not processed yet.
Unread == SubSeq(eq, k + 1, Len(eq))

Place == {"armed", "fifo", "evw", "eq", "napi", "arming"}

\* The notification of q is at h.
At(h, q) ==
    \/ h = "armed"  /\ armed[q]
    \/ h = "fifo"   /\ q \in Entries(fifo[SideOf(q)])
    \/ h = "evw"    /\ q \in Entries(evw)
    \/ h = "eq"     /\ q \in Entries(Unread)
    \/ h = "napi"   /\ sched[q]
    \/ h = "arming" /\ arming[q] > 0

OnlyAt(h, q) == \A g \in Place : At(g, q) <=> g = h

\* Once a CQ has been armed for the first time its notification is in exactly one
\* place, once: the arm bit, an event on its way, or the NAPI context that will
\* arm the queue again.  It is neither lost (the queue would never be served
\* again) nor doubled (two polls would drain one ring), whatever the order of the
\* NIC's commits, the interrupt handler and the polls (mqnic_eq.c:217-278,
\* mqnic_tx.c:351-366, cpl_queue_manager.v:474-494 and 537-569).
OneNotification ==
    /\ \A q \in CQ :
          IF stage[q] \in {"armed", "ring"}
          THEN \E h \in Place : OnlyAt(h, q)
          ELSE \A g \in Place : ~At(g, q)
    /\ \A s \in Side : Distinct(fifo[s])
    /\ Distinct(evw) /\ Distinct(Unread)
    /\ \A q \in CQ : arming[q] <= 1

\* An armed CQ is empty: a completion that slipped in between the poll's last look
\* at the head pointer and its write to the arm register has fired the event
\* (mqnic_tx.c:361-363 against cpl_queue_manager.v:555-568).
ArmedMeansEmpty == \A q \in CQ : armed[q] => occ[q] = 0

\* No event arrives for a CQ whose NAPI context is scheduled, so the return value
\* of napi_complete, which mqnic_tx.c:361 and mqnic_rx.c:452 ignore, is always
\* "completed": arming after a rescheduled poll never happens.
NeverMissed == \A q \in CQ : ~missed[q]

\* Neither event FIFO ever holds more than one event of each of its queues and the
\* EQ never more than two, so the two places that discard an event when full
\* (mqnic_interface.v:2046, cpl_write.v:481-484) discard none. The queues of the run are
\* larger than these bounds: an event too many would exceed a bound before it is discarded.
NoEventDiscarded ==
    /\ \A s \in Side : Len(fifo[s]) <= Cardinality({q \in CQ : SideOf(q) = s})
    /\ Len(eq) + Len(evw) <= 2 * Cardinality(CQ)

\* An EQ that is not empty is being served: its interrupt is pending or the
\* handler is running and will look at the head pointer or the arm register again
\* (mqnic_eq.c:38-46 against an event committed at any moment of the handler).
EqServed == eq # <<>> => irqPending \/ isr # "idle"

\* The event path delivers completions as CplDelivery promises: whatever the
\* interleaving, a CQ with completions is eventually drained by a poll.
Delivery == INSTANCE CplDelivery WITH Queue <- CQ, Capacity <- CplSize, pending <- occ
DeliverySpec == Delivery!Spec
=============================================================================
