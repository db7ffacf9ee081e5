---------------------------- MODULE PortLifecycle ----------------------------
(***************************************************************************)
(* Starting and stopping a port while everything else runs: the thread     *)
(* that opens, closes or changes the MTU of the net device, against the    *)
(* event queue's interrupt handler, the NAPI polls, the senders and the    *)
(* NIC's DMA.                                                              *)
(*                                                                         *)
(* mqnic_start_port and mqnic_stop_port take one ring after the other      *)
(* through the stages below.  A ring restarts with its pointers at zero;   *)
(* its completion queue (CQ) restarts with the head and tail the driver    *)
(* last saw.  EventPath says how one notification travels and TxRing and   *)
(* RxRing how slots are handed over while the port is up; here events are  *)
(* counted, and a slot is followed by who may touch it.                    *)
(*                                                                         *)
(*   down    CQ inactive, NAPI disabled                                    *)
(*   cq      CQ active, NAPI enabled, ring without a handler               *)
(*   armed   the same, CQ armed                                            *)
(*   ring    ring active, its handler and its pointer set in the CQ        *)
(*   unring  ring inactive, handler and pointer cleared                    *)
(*   uncq    CQ inactive too, napi_disable waiting for the poll            *)
(***************************************************************************)
EXTENDS Integers, Sequences, FiniteSets

CONSTANTS
    Tx, Rx,          \* the transmit and the receive rings
    TxSize, RxSize,  \* slots of a ring and entries of its CQ
    Budget,          \* NAPI weight: completions one poll may process
    Threshold,       \* free slots below which a refill does nothing: 8
    Lives,           \* bound: how often the port is started
    None

ASSUME RingAssumption ==
    /\ IsFiniteSet(Tx) /\ IsFiniteSet(Rx) /\ Tx \cap Rx = {} /\ None \notin Tx \cup Rx
    /\ TxSize \in Nat \ {0, 1} /\ RxSize \in Nat \ {0} /\ Budget \in Nat \ {0}
    /\ Threshold \in Nat /\ Lives \in Nat

Rings == Tx \cup Rx
Size(q) == IF q \in Tx THEN TxSize ELSE RxSize
FullSize == TxSize \div 2

VARIABLES
    phase,    \* where the thread that holds state_lock is
    life,     \* how often the port was started
    stage,    \* of each ring
    portUp,   \* priv->port_up
    txOpen,   \* transmit queues that are not stopped
    xmit,     \* senders that have passed the test of port_up
    head,     \* ring->head_ptr
    clean,    \* ring->clean_tail_ptr
    fetched,  \* the NIC's tail: slots it has taken
    done,     \* slots it has completed
    buf,      \* slots that own a packet or a page
    cpl,      \* completions between the CQ's tail and the NIC's head, by slot
    seen,     \* the driver's copy of that head, as a count
    armed,    \* arm bit of each CQ
    ev,       \* events of each CQ the handler has still to process
    calling,  \* CQ whose handler was found set and is about to be called
    sched,    \* NAPI_STATE_SCHED
    missed,   \* NAPI_STATE_MISSED
    poll,     \* where the poll of each ring is
    arming,   \* polls that completed NAPI and have not yet armed the CQ
    oops      \* what followed a null pointer, if anything did

thread == <<phase, life, stage, portUp>>
senders == <<txOpen, xmit>>
ring == <<head, clean, buf>>
dma == <<fetched, done>>
cq == <<cpl, seen>>
event == <<ev, calling>>
napi == <<sched, missed, poll, arming>>
vars == <<thread, senders, ring, dma, cq, armed, event, napi, oops>>

\* Mutant: a pointer is not wrapped.
PtrUnwrapped(q, n) == n
Ptr(q, n) == n % (2 * Size(q))
Slot(q, n) == n % Size(q)
Ahead(q, a, b) == Ptr(q, a - b)
\* The slots from pointer b up to pointer a.
Between(q, b, a) == {Slot(q, b + d) : d \in 0..Ahead(q, a, b) - 1}
Smaller(a, b) == IF a <= b THEN a ELSE b
Largest(S) == CHOOSE k \in S : \A j \in S : j <= k
\* How many of the next n slots from pointer b on, at most, are empty.
Empty(q, b, n, left) == Largest({d \in 0..n : \A i \in 0..d - 1 : Slot(q, b + i) \notin left})

HasHandler(q) == stage[q] = "ring"
CqActive(q) == stage[q] \in {"cq", "armed", "ring", "unring"}
NapiOn(q) == CqActive(q)

Pointers(q) == 0..2 * Size(q) - 1

\* Every variable keeps its type.
TypeOK ==
    /\ phase \in {"down", "starting", "up", "closing", "stopping", "sleep"}
    /\ life \in Nat /\ portUp \in BOOLEAN
    /\ stage \in [Rings -> {"down", "cq", "armed", "ring", "unring", "uncq"}]
    /\ txOpen \subseteq Tx /\ xmit \subseteq Tx
    /\ \A v \in {head, clean, fetched, done} : DOMAIN v = Rings /\ \A q \in Rings : v[q] \in Pointers(q)
    /\ DOMAIN buf = Rings /\ \A q \in Rings : buf[q] \subseteq 0..Size(q) - 1
    /\ DOMAIN cpl = Rings /\ \A q \in Rings : cpl[q] \in Seq(0..Size(q) - 1)
    /\ seen \in [Rings -> Nat] /\ armed \in [Rings -> BOOLEAN]
    /\ ev \in [Rings -> Nat] /\ calling \in Rings \cup {None}
    /\ sched \in [Rings -> BOOLEAN] /\ missed \in [Rings -> BOOLEAN]
    /\ poll \in [Rings -> {"off", "loop", "complete"}] /\ arming \in [Rings -> Nat]
    /\ oops \in {"no", "poll", "event"}

\* The net device is registered and was never opened.
Init ==
    /\ phase = "down" /\ life = 0 /\ portUp = FALSE
    /\ stage = [q \in Rings |-> "down"]
    /\ txOpen = {} /\ xmit = {}
    /\ head = [q \in Rings |-> 0] /\ clean = head /\ fetched = head /\ done = head
    /\ buf = [q \in Rings |-> {}]
    /\ cpl = [q \in Rings |-> <<>>] /\ seen = [q \in Rings |-> 0]
    /\ armed = [q \in Rings |-> FALSE]
    /\ ev = [q \in Rings |-> 0] /\ calling = None
    /\ sched = armed /\ missed = armed
    /\ poll = [q \in Rings |-> "off"] /\ arming = ev
    /\ oops = "no"

\* A null pointer stops the kernel.
Alive == oops = "no" /\ oops' = "no"

-----------------------------------------------------------------------------
(* The NIC. *)

\* Mutant: the queue is armed whatever it holds.
ArmBlindly(q) == armed' = [armed EXCEPT ![q] = TRUE] /\ UNCHANGED ev

\* An armed queue that gets a completion, or a queue that holds one when it is
\* armed, sends an event and is disarmed.
Arm(q) ==
    IF cpl[q] # <<>>
    THEN armed' = [armed EXCEPT ![q] = FALSE] /\ ev' = [ev EXCEPT ![q] = @ + 1]
    ELSE armed' = [armed EXCEPT ![q] = TRUE] /\ UNCHANGED ev

\* A packet is taken for transmission, or one has arrived for the slot.
Fetch(q) ==
    /\ HasHandler(q) /\ fetched[q] # head[q]
    /\ fetched' = [fetched EXCEPT ![q] = Ptr(q, @ + 1)]
    /\ Alive /\ UNCHANGED <<thread, senders, ring, done, cq, armed, event, napi>>

\* Work under way goes on though its ring was deactivated; a completion for a queue
\* that is inactive or full is dropped.
Complete(q) ==
    /\ done[q] # fetched[q]
    /\ done' = [done EXCEPT ![q] = Ptr(q, @ + 1)]
    /\ IF CqActive(q) /\ Len(cpl[q]) < Size(q)
       THEN /\ cpl' = [cpl EXCEPT ![q] = Append(@, Slot(q, done[q]))]
            /\ ev' = [ev EXCEPT ![q] = @ + IF armed[q] THEN 1 ELSE 0]
            /\ armed' = [armed EXCEPT ![q] = FALSE]
       ELSE UNCHANGED <<cpl, ev, armed>>
    /\ Alive /\ UNCHANGED <<thread, senders, ring, fetched, seen, calling, napi>>

-----------------------------------------------------------------------------
(* The interrupt handler, mqnic_process_eq, an event at a time. *)

NapiSchedule(q) ==
    IF NapiOn(q)
    THEN sched' = [sched EXCEPT ![q] = TRUE] /\ missed' = [missed EXCEPT ![q] = @ \/ sched[q]]
    ELSE UNCHANGED <<sched, missed>>

\* The handler is tested; the event of a queue that has none is skipped.
EventTest(q) ==
    /\ calling = None /\ ev[q] > 0
    /\ ev' = [ev EXCEPT ![q] = @ - 1]
    /\ calling' = IF HasHandler(q) THEN q ELSE None
    /\ Alive /\ UNCHANGED <<thread, senders, ring, dma, cq, armed, napi>>

\* It is called: a build may keep the value it tested or read it again.
EventCall(q) ==
    /\ calling = q /\ calling' = None
    /\ \/ Alive /\ NapiSchedule(q)
       \/ ~HasHandler(q) /\ oops = "no" /\ oops' = "event" /\ UNCHANGED <<sched, missed>>
    /\ UNCHANGED <<thread, senders, ring, dma, cq, armed, ev, poll, arming>>

-----------------------------------------------------------------------------
(* The polls. *)

\* The poll follows the CQ's pointer to its ring before it tests anything.
PollNoRing(q) ==
    /\ sched[q] /\ poll[q] = "off" /\ ~HasHandler(q)
    /\ oops = "no" /\ oops' = "poll"
    /\ UNCHANGED <<thread, senders, ring, dma, cq, armed, event, napi>>

PollPortDown(q) ==
    /\ sched[q] /\ poll[q] = "off" /\ HasHandler(q) /\ ~portUp
    /\ poll' = [poll EXCEPT ![q] = "complete"]
    /\ Alive /\ UNCHANGED <<thread, senders, ring, dma, cq, armed, event, sched, missed, arming>>

PollReadHead(q) ==
    /\ sched[q] /\ poll[q] = "off" /\ HasHandler(q) /\ portUp
    /\ seen' = [seen EXCEPT ![q] = Len(cpl[q])]
    /\ poll' = [poll EXCEPT ![q] = "loop"]
    /\ Alive /\ UNCHANGED <<thread, senders, ring, dma, cpl, armed, event, sched, missed, arming>>

\* A receive poll stops at a completion whose slot has no page.
Processable(q, n) ==
    \/ q \in Tx
    \/ /\ \A i \in 1..n : cpl[q][i] \in buf[q]
       /\ \A i, j \in 1..n : cpl[q][i] = cpl[q][j] => i = j

\* clean_tail_ptr moves over the slots that are empty, up to the NIC's tail.
CleanTo(q, left) ==
    Ptr(q, clean[q] + Empty(q, clean[q], Ahead(q, fetched[q], clean[q]), left))

\* The slots a refill fills: it stops at the first that still has its page.  A page
\* is always to be had here; RxRing has the other case.
Refilled(q, from, left) ==
    LET free == Size(q) - Ahead(q, head[q], from) IN
    IF free < Threshold THEN 0 ELSE Empty(q, head[q], free, left)

\* Completions are processed up to the budget and the tails written, then slots are
\* cleaned, a stopped queue woken and the receive ring refilled.  With the budget
\* spent NAPI stays scheduled, unless it is being disabled.
PollRun(q) ==
    LET n == Largest({d \in 0..Smaller(seen[q], Budget) : Processable(q, d)})
        left == buf[q] \ {cpl[q][i] : i \in 1..n}
        to == CleanTo(q, left)
        more == IF q \in Rx THEN Refilled(q, to, left) ELSE 0
    IN
    /\ poll[q] = "loop"
    /\ cpl' = [cpl EXCEPT ![q] = SubSeq(@, n + 1, Len(@))]
    /\ seen' = [seen EXCEPT ![q] = @ - n]
    /\ clean' = [clean EXCEPT ![q] = to]
    /\ head' = [head EXCEPT ![q] = Ptr(q, @ + more)]
    /\ buf' = [buf EXCEPT ![q] = left \cup {Slot(q, head[q] + i) : i \in 0..more - 1}]
    /\ txOpen' = txOpen \cup IF q \in Tx /\ Ahead(q, head[q], to) < FullSize THEN {q} ELSE {}
    /\ poll' = [poll EXCEPT ![q] = IF n = Budget THEN "off" ELSE "complete"]
    /\ sched' = [sched EXCEPT ![q] = n # Budget \/ NapiOn(q)]
    /\ Alive /\ UNCHANGED <<thread, xmit, dma, armed, event, missed, arming>>

\* napi_complete: a context that was scheduled meanwhile stays scheduled.
PollComplete(q) ==
    /\ poll[q] = "complete" /\ poll' = [poll EXCEPT ![q] = "off"]
    /\ sched' = [sched EXCEPT ![q] = missed[q]] /\ missed' = [missed EXCEPT ![q] = FALSE]
    /\ arming' = [arming EXCEPT ![q] = @ + 1]
    /\ Alive /\ UNCHANGED <<thread, senders, ring, dma, cq, armed, event>>

\* mqnic_arm_cq, with NAPI already released: only an active queue is armed. The test of
\* active and the write of the register are one step.
ArmCq(q) ==
    /\ arming[q] > 0 /\ arming' = [arming EXCEPT ![q] = @ - 1]
    /\ IF CqActive(q) THEN Arm(q) ELSE UNCHANGED <<armed, ev>>
    /\ Alive /\ UNCHANGED <<thread, senders, ring, dma, cq, calling, sched, missed, poll>>

-----------------------------------------------------------------------------
(* mqnic_start_xmit. *)

XmitTest(q) ==
    /\ q \in txOpen \ xmit /\ portUp
    /\ xmit' = xmit \cup {q}
    /\ Alive /\ UNCHANGED <<thread, txOpen, ring, dma, cq, armed, event, napi>>

\* The packet is posted; a full queue is stopped.
XmitPost(q) ==
    /\ q \in xmit /\ xmit' = xmit \ {q}
    /\ head' = [head EXCEPT ![q] = Ptr(q, @ + 1)]
    /\ buf' = [buf EXCEPT ![q] = @ \cup {Slot(q, head[q])}]
    /\ txOpen' = IF Ahead(q, head'[q], clean[q]) >= FullSize THEN txOpen \ {q} ELSE txOpen
    /\ Alive /\ UNCHANGED <<thread, clean, dma, cq, armed, event, napi>>

-----------------------------------------------------------------------------
(* mqnic_start_port, receive rings first. *)

Others(q, stages) == \A r \in Rings \ {q} : stage[r] \in stages

\* mqnic_open, or mqnic_change_mtu after it has stopped the port.
StartPort ==
    /\ phase = "down" /\ life < Lives
    /\ phase' = "starting" /\ life' = life + 1
    /\ Alive /\ UNCHANGED <<stage, portUp, senders, ring, dma, cq, armed, event, napi>>

\* Mutant: the CQ keeps the head the NIC has, as if its registers were not written.
StartCqAsLeft(q) ==
    /\ phase = "starting" /\ stage[q] = "down" /\ Others(q, {"down", "ring"})
    /\ q \in Tx => \A r \in Rx : stage[r] = "ring"
    /\ stage' = [stage EXCEPT ![q] = "cq"]
    /\ armed' = [armed EXCEPT ![q] = FALSE]
    /\ Alive /\ UNCHANGED <<phase, life, portUp, senders, ring, dma, cq, event, napi>>

\* The CQ is given the driver's head and tail: completions the driver has not seen
\* are forgotten, those it has seen stay.
StartCq(q) ==
    /\ phase = "starting" /\ stage[q] = "down" /\ Others(q, {"down", "ring"})
    /\ q \in Tx => \A r \in Rx : stage[r] = "ring"
    /\ stage' = [stage EXCEPT ![q] = "cq"]
    /\ cpl' = [cpl EXCEPT ![q] = SubSeq(@, 1, seen[q])]
    /\ armed' = [armed EXCEPT ![q] = FALSE]
    /\ Alive /\ UNCHANGED <<phase, life, portUp, senders, ring, dma, seen, event, napi>>

StartArm(q) ==
    /\ stage[q] = "cq" /\ stage' = [stage EXCEPT ![q] = "armed"]
    /\ Arm(q)
    /\ Alive /\ UNCHANGED <<phase, life, portUp, senders, ring, dma, cq, calling, napi>>

\* The NIC is given the ring's pointers, and the receive ring its pages.
StartRing(q) ==
    LET more == IF q \in Rx THEN Refilled(q, clean[q], buf[q]) ELSE 0 IN
    /\ stage[q] = "armed" /\ stage' = [stage EXCEPT ![q] = "ring"]
    /\ fetched' = [fetched EXCEPT ![q] = head[q]] /\ done' = [done EXCEPT ![q] = head[q]]
    /\ head' = [head EXCEPT ![q] = Ptr(q, @ + more)]
    /\ buf' = [buf EXCEPT ![q] = @ \cup {Slot(q, head[q] + i) : i \in 0..more - 1}]
    /\ Alive /\ UNCHANGED <<phase, life, portUp, senders, clean, cq, armed, event, napi>>

PortUp ==
    /\ phase = "starting" /\ \A q \in Rings : stage[q] = "ring"
    /\ phase' = "up" /\ portUp' = TRUE /\ txOpen' = Tx
    /\ Alive /\ UNCHANGED <<life, stage, xmit, ring, dma, cq, armed, event, napi>>

-----------------------------------------------------------------------------
(* mqnic_stop_port, transmit rings first. *)

\* netif_tx_disable waits for the senders that are inside.
StopQueues ==
    /\ phase = "up" /\ xmit = {}
    /\ phase' = "closing" /\ txOpen' = {}
    /\ Alive /\ UNCHANGED <<life, stage, portUp, xmit, ring, dma, cq, armed, event, napi>>

PortDown ==
    /\ phase = "closing" /\ phase' = "stopping" /\ portUp' = FALSE
    /\ Alive /\ UNCHANGED <<life, stage, senders, ring, dma, cq, armed, event, napi>>

StopRing(q) ==
    /\ phase = "stopping" /\ stage[q] = "ring" /\ Others(q, {"down", "ring"})
    /\ q \in Rx => \A t \in Tx : stage[t] = "down"
    /\ stage' = [stage EXCEPT ![q] = "unring"]
    /\ Alive /\ UNCHANGED <<phase, life, portUp, senders, ring, dma, cq, armed, event, napi>>

StopCq(q) ==
    /\ stage[q] = "unring" /\ stage' = [stage EXCEPT ![q] = "uncq"]
    /\ armed' = [armed EXCEPT ![q] = FALSE]
    /\ Alive /\ UNCHANGED <<phase, life, portUp, senders, ring, dma, cq, event, napi>>

\* Mutant: NAPI is deleted without waiting for the poll.
StopNapiAtOnce(q) ==
    /\ stage[q] = "uncq" /\ stage' = [stage EXCEPT ![q] = "down"]
    /\ Alive /\ UNCHANGED <<phase, life, portUp, senders, ring, dma, cq, armed, event, napi>>

\* napi_disable returns.
StopNapi(q) ==
    /\ stage[q] = "uncq" /\ ~sched[q] /\ stage' = [stage EXCEPT ![q] = "down"]
    /\ Alive /\ UNCHANGED <<phase, life, portUp, senders, ring, dma, cq, armed, event, napi>>

StopSleep ==
    /\ phase = "stopping" /\ \A q \in Rings : stage[q] = "down"
    /\ phase' = "sleep"
    /\ Alive /\ UNCHANGED <<life, stage, portUp, senders, ring, dma, cq, armed, event, napi>>

\* 20 ms are enough for the NIC to finish what it has taken, and for what cannot be
\* preempted (a sender, the end of a poll, the handler) to return; an event that is
\* still on its way may be later.
Settled ==
    /\ xmit = {} /\ calling = None
    /\ \A q \in Rings : done[q] = fetched[q] /\ arming[q] = 0

\* Mutant: only what the NIC has taken is released.
ReleasedTaken(q) == {Slot(q, clean[q] + d) : d \in 0..Ahead(q, fetched[q], clean[q]) - 1}
Released(q) == {Slot(q, clean[q] + d) : d \in 0..Ahead(q, head[q], clean[q]) - 1}

\* Mutant: the buffers are freed without the sleep.
FreeBuffersAtOnce ==
    /\ phase = "sleep" /\ phase' = "down"
    /\ buf' = [q \in Rings |-> buf[q] \ Released(q)]
    /\ head' = [q \in Rings |-> 0] /\ clean' = head'
    /\ Alive /\ UNCHANGED <<life, stage, portUp, senders, dma, cq, armed, event, napi>>

\* mqnic_free_tx_buf and mqnic_free_rx_buf, for every ring.
FreeBuffers ==
    /\ phase = "sleep" /\ Settled
    /\ phase' = "down"
    /\ buf' = [q \in Rings |-> buf[q] \ Released(q)]
    /\ head' = [q \in Rings |-> 0] /\ clean' = head'
    /\ Alive /\ UNCHANGED <<life, stage, portUp, senders, dma, cq, armed, event, napi>>

-----------------------------------------------------------------------------
PollStep(q) ==
    PollNoRing(q) \/ PollPortDown(q) \/ PollReadHead(q) \/ PollRun(q) \/ PollComplete(q)

Starting == StartPort \/ PortUp \/ \E q \in Rings : StartCq(q) \/ StartArm(q) \/ StartRing(q)

Stopping ==
    \/ PortDown \/ StopSleep \/ FreeBuffers
    \/ \E q \in Rings : StopRing(q) \/ StopCq(q) \/ StopNapi(q)

Running(q) ==
    \/ Fetch(q) \/ Complete(q)
    \/ EventTest(q) \/ EventCall(q)
    \/ PollStep(q) \/ ArmCq(q)

Next ==
    \/ Starting \/ StopQueues \/ Stopping
    \/ \E q \in Rings : Running(q)
    \/ \E q \in Tx : XmitTest(q) \/ XmitPost(q)

Spec == Init /\ [][Next]_vars
-----------------------------------------------------------------------------
(* Properties. *)

\* The slots the NIC may read or write: those it has taken, whatever the ring's
\* state, and those it may take.
NicOwned(q) ==
    Between(q, done[q], fetched[q]) \cup IF HasHandler(q) THEN Between(q, fetched[q], head[q]) ELSE {}

\* No packet or page is released while the NIC may still use it, though the rings
\* are taken down with transfers under way and restarted with their pointers at
\* zero (mqnic_netdev.c:133-161).
NicKeepsBuffers == \A q \in Rings : NicOwned(q) \subseteq buf[q]

\* The completions that a poll of a running ring will find belong to packets and
\* pages that are there: the "null page" branch is not taken (mqnic_rx.c:350-356).
CompletedHasBuffer ==
    \A q \in Rings : HasHandler(q) => \A i \in 1..Len(cpl[q]) : cpl[q][i] \in buf[q]

\* Once the port is stopped nothing is left in a ring, the packet of a sender that a
\* late poll let in after netif_tx_disable included (mqnic_tx.c:340, netdev.c:118-156).
NothingHeld == phase = "down" => \A q \in Rings : buf[q] = {}

\* A running ring is always on somebody's list: its CQ is empty and armed, an event is
\* on its way, or a poll will run or will arm it.  Stopping and restarting must not lose that
\* (mqnic_netdev.c:56 arms before line 64 sets the handler).
NotForgotten ==
    \A q \in Rings : HasHandler(q) =>
        (armed[q] /\ cpl[q] = <<>>) \/ ev[q] > 0 \/ calling = q \/ sched[q] \/ arming[q] > 0

\* A null pointer is followed only while mqnic_stop_port takes the rings down: a poll
\* between a ring's deactivation and the end of its napi_disable (mqnic_netdev.c:134-140,
\* 144-150; mqnic_tx.c:263 is before the test of priv in line 276), or a handler that was
\* found set (mqnic_eq.c:244, 258).  At no other time, a restart with events of the last
\* run still under way included, does a poll or the handler meet one.
OopsOnlyInStop ==
    /\ oops = "poll"  => \E q \in Rings : stage[q] \in {"unring", "uncq"}
    /\ oops = "event" => phase \in {"stopping", "sleep"}

\* A ring whose NAPI was disabled is not polled until it is started again, so the
\* buffers are freed by one thread alone (mqnic_netdev.c:139, 149, 155-160).
StoppedIsQuiet == \A q \in Rings : stage[q] \in {"down", "cq", "armed"} => ~sched[q] /\ poll[q] = "off"
=============================================================================
