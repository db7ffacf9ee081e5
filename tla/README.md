# A TLA+ development for NIC-fDSM

NIC-fDSM is a fork of the Corundum (mqnic) NIC whose FPGA is shared between a host
and the Zynq's ARM cores, which share pages with the host by a distributed shared
memory (DSM) protocol. This directory holds TLA+ models of the parts in which
several agents act on shared state, TLC configurations that check small instances
of them, and theorems that TLAPS proves for every instance. Line numbers are those
of the files under `src/`.

| file | contents |
|---|---|
| `EventPath`, `CplDelivery` | from a completion to the driver's poll; what that path promises |
| `PortLifecycle` | a port started, stopped and started again while everything else runs |
| `DeviceProbe` | devices probed and removed, each step of which may fail |
| `TxScheduler` | the round-robin transmit scheduler clock by clock, between doorbells and engine |
| `*Proofs` | theorems |
| `CplQueueManager`, `CplQueue` | the completion queue manager clock by clock; what it promises |
| `TxRing`, `RxRing` | one transmit and one receive ring, driver and NIC |
| `ProtProcessor` | the two DSM protocol processors and the stream between them |
| `MC*.tla`, `MC*.cfg` | instances for TLC |
| `PROJECT.json` | components, runs, definition-to-source map, mutants, hazards, findings, theorems |

Run a configuration with `tlc -config MCTxRing.cfg MCTxRing`, a proof with
`tlapm EventPathProofs.tla`.

## 1. Inventory of the system

### Driver (`modules/mqnic`)

* **Completion queues** (`mqnic_cq.c`). State: head and tail copies, the ring and
  the handler of the queue's owner, the EQ they report to. Operations: create,
  activate, deactivate, read head, write tail, arm. Shared with the NIC's
  completion queue manager (registers) and `cpl_write.v` (entries).
* **Event queues and interrupts** (`mqnic_eq.c`, `mqnic_irq.c`). The vector's
  handler walks the EQ, calls the handler of each CQ named there, moves the tail and
  arms. Hard: events that arrive while it runs; handlers that come and go.
* **Transmit rings** (`mqnic_tx.c`). `mqnic_start_xmit` runs on any CPU under the
  queue lock, `mqnic_process_tx_cq` in NAPI on another, the NIC fetches and
  completes. Hard: the stop/wake race, doorbell batching, pointers of two widths.
* **Receive rings** (`mqnic_rx.c`). The poll hands pages to the stack and posts new
  ones. Hard: allocation failure at either place, the NIC running dry.
* **Net device and port** (`mqnic_netdev.c`, `mqnic_port.c`). Start and stop of all
  the above in a given order while interrupts, polls, senders and DMA go on. Hard:
  pointers cleared under a poll, late transfers, what a restart finds.
* **Device, interface, interrupts** (`mqnic_main.c`, `mqnic_if.c`, `mqnic_irq.c`).
  Probe in fifteen steps that can fail, their undoing, the list of devices and
  its ids. Hard: unwinding from every step, handlers that run meanwhile.
* **Message layer** (`mqnic_main_fdsm.c`). Popcorn's kernel messages over the
  FPGA's DMA, send slots and receive work. The Makefile builds `mqnic_main.c` in its
  place.
* Board, i2c, PTP, ethtool, device node: registers and user interface.

### NIC (`fpga/common/rtl`)

* **Queue managers** (`queue_manager.v`, `cpl_queue_manager.v`). Queue states in a
  pipelined RAM, an operation table that finishes operations in order, ports to
  the engines and an AXI-Lite port to the driver. Hard: read-modify-write hazards
  in the pipeline, priorities, full tests with operations outstanding, arm against
  commit.
* **Descriptor fetch, completion write** (`desc_fetch.v`, `cpl_write.v`, `*_op_mux.v`).
  Operation tables around DMA, out-of-order DMA, in-order commits.
* **Event path** (`mqnic_interface.v`, `event_mux.v`). CQ events through FIFOs of 128
  entries and a round-robin multiplexer into the EQs, EQ events to MSI vectors.
* **Schedulers and engines** (`tx_scheduler_rr.v`, `tx_engine.v`, `rx_engine.v`). The scheduler
  keeps the active queues in a FIFO, the round, and the requests under way in a table in which
  those of one queue are linked. Hard: doorbells that cross answers, answers out of order, FIFOs
  whose ready is not looked at.

### The Zynq side (`fpga/mqnic/250S0C/fpga_pcie/ip_repo`)

* **Protocol processors** (`prot_processor.v`, registers in `*_S00_AXI.vhd`). A fault
  posted in registers becomes a frame for the other node; a frame received is
  decoded and passed on. Hard: two state machines, a link without flow control.
* **Frame writers** (`pcie_us_rqrc.v` at the host, `fpga/lib/zynq/dsm_axis_aximm.v` at the ARM;
  `zynq_ps.tcl:1862-1863`). A FIFO of beats that are written to memory word by word; the host's also
  sends the ARM's register accesses. Hard: stalls of PCIe, which the sender does not see.
* **PCIe bridge** (`pcie2axilite_bridge`, the rest of `axilite_2_pcie`, `rr_arb.v`). Tags of
  outstanding requests, arbitration of the one PCIe core.

### What makes each part correct

| part | correct when |
|---|---|
| event path | one notification per CQ: never lost, never doubled; a CQ with completions is polled in the end |
| queue manager | every operation looks atomic; granted slots never overtake the tail; nobody starves |
| scheduler | a queue has one place in the round while it is scheduled; no doorbell or table entry is lost; rings with work are served, and only they in the end |
| transmit ring | slot, packet and completion stay matched; a stopped queue is woken; what is posted is announced |
| receive ring | slot, page and completion stay matched; the NIC does not stay without pages |
| protocol processor | a fault reaches the other node once, whole, and as what it is |
| frame writer | what is passed on reaches memory once, in order and at consecutive addresses; an access told ready is sent (not modelled, see section 6) |
| port | no buffer is freed while the NIC may use it, none is left; a restarted ring sees nothing of its past life and is polled again; pointers are followed only while they are set |
| device | a probe that fails anywhere, and a removal, give back everything once; ids are unique; no handler uses what is gone |

PROJECT.json lists under `hazards` where in the code each could go wrong and
which property would notice.

## 2. Plan

Written, in this order: `EventPath` with `CplDelivery` (everything else depends on
a poll coming), `TxRing` and `RxRing` (assume `CplDelivery`), `CplQueueManager`
with `CplQueue` (the atomic operations that `EventPath` assumes), `ProtProcessor`,
`PortLifecycle` (what the others assume when a port comes up), `DeviceProbe` (what a
port assumes to exist), `TxScheduler` (what turns the doorbell of `TxRing` into a fetch); each
with a module of proofs.

Composition. `CplQueue`'s atomic operations are `EventPath`'s `CplCommit` and `Arm`.
`CplDelivery` is what `EventPath` implements and the rings' fairness assumes.
`PortLifecycle` has the driver's rings, CQs, polls and senders in one module, with events
counted instead of queued; `EventPath`'s `Init` and start-up are its first life. `TxScheduler`'s
`Served` is the fetch that `TxRing` assumes of its NIC once the doorbell is rung.

What would come next: `QueueManager` (doorbells and dequeue, an abstract `DescQueue`) and
`DescFetch` (the operation table that completes descriptors in order), the frame writers' FIFOs, the
tags and the arbiter of the PCIe bridge, and the page keys of two nodes over an atomic `ProtProcessor`,
once the software that keeps them is in the repository. Every invariant and the safety part of
both refinements are proved; what is left to prove is liveness, which is not within the prover's
reach (section 5).

## 3. The modules

### EventPath and CplDelivery

State: of each CQ, `occ` (entries between tail and head), `armed`, and NAPI state
(`sched`, `missed`, `poll`, `avail`, `arming`); the event FIFOs, the event write engine
(`evw`), the EQ, its arm bit and interrupt; the handler's program counter and the
entries it saw (`isr`, `snap`, `k`); the progress of `mqnic_start_port`.

| action | code |
|---|---|
| `CplCommit`, `Arm` | execute stage of the queue manager, commit and register 3 |
| `EventRequest`, `EventCommit` | `cpl_write.v` with the EQ's manager: a full EQ discards |
| `IrqEnter` … `EqArm` | `mqnic_eq_int`, `mqnic_process_eq`, `mqnic_arm_eq` |
| `PollPortDown` … `ArmCq` | the poll functions, one step per register access |
| `StartNapi` … `PortUp` | `mqnic_start_port`, per CQ |

The arm after `napi_complete` is a step of its own, so a delayed register write is
an interleaving like any other. A poll's allocations may fail (`PollNoSkb`).

Assumptions: `CapacityAssumption` says the event FIFOs hold one event of each queue of
their side and the EQ two of each. The driver's EQ of 1024 entries and default queue
counts meet it; the FIFOs (128 entries) are smaller than the number of transmit queues
the 250S0C board is configured with (`TX_QUEUE_INDEX_WIDTH` 13), so for more than 128
active queues of a side `NoEventDiscarded` is not guaranteed. `NoEventDiscarded` bounds what
the queues hold by what the assumption asks for; the queues of the run are one larger, so that
the model's own full tests do not enforce it. Both bounds are reached.

`CplDelivery` promises: completions are published and taken, and a queue that holds
some is taken from in the end. `EventPath` implements it (`occ` for `pending`).

Fairness: the round-robin multiplexer and the write engine (weak), the interrupt and its
handler, softirqs, the start-up thread (weak); `SF(PollRetire)` of the receive CQs: an
allocation that is retried again and again succeeds in the end. No fairness of completions arriving.

### CplQueueManager and CplQueue

One step is one clock edge. State: the RAM, the operation table with its two
pointers, the pipeline registers (operation, queue, data, and the RAM word that
the read pipeline carries along), and the registers of each port. `Enter` is stage
0 with its four priorities, `Execute` the last stage, `Tables` the clocked update of
the table; `EnqueueUser` and `Driver` are the neighbours. A neighbour holds a
request until ready, commits what it was granted in any order and may be slow to
take an answer (`Slow`). The driver writes tails up to heads that exist, arms,
deactivates, disarms, rewinds heads, reactivates. The disarm follows the deactivation at once, with
operations of the queue outstanding, as in `mqnic_deactivate_cq_ring` (`mqnic_cq.c:152-154`). One
access is narrowed: a head is written only when the queue's operations have finished
(`Quiet`), which is what the driver expects of its sleep before it activates a queue again.

Left out: `enable` (tied high), the continuous bit (never set by the driver), base
address, log size and event index (fixed while a queue is active), byte strobes.

`CplQueue` is the specification a user of the manager has in mind: `Request`, `MoveHead`,
`Arm`, register writes, each in one step. The refinement (`Outstanding`) puts the
operations whose commit is in the pipeline before those of the table.

`SlotsFollowHead` speaks of distances: `Ahead` of a pointer from the queue's tail, `Age` of a
table entry from the oldest one. A queue's entries, in the order of their ages, end at the places
that come next after the head, one more if a commit is on its way there, and no further than
`Size` from the tail.

Fairness: the clock; the user takes every response and commits what it was granted.
Register accesses have priority, so liveness needs the driver to wait for the answer
of one access before the next (`Posted = FALSE`): back-to-back accesses could hold
everyone else off for ever. The reset run, safety only, uses `Posted = TRUE`.

### TxRing and RxRing

State: the driver's 32-bit pointers, the NIC's 16-bit registers, which slots hold a
packet or page, the NIC's fetched descriptors, the unread completions, the program
counters of sender and poll. `mqnic_start_xmit` is `XmitPost` or `XmitDrop`, `XmitStop`,
`XmitDoorbell`, `XmitRecheck`; the poll is `PollReadHead` … `PollWake` and, for receive,
`Refill`. `cleanSeen` is the poll's `clean_tail_ptr` as the sending CPU sees it: a buffered
store reaches it at any time (`CleanVisible`) and before the poll's next register read. So the
sender may take the ring for fuller than it is: `RingOrdered` bounds what is in use by one packet
more than half the ring, and what the sender believes to be by two.
The queue lock of the stack serializes senders; none is shared with the poll.

Assumptions: the CQ has as many entries as the ring; completions are written in the
order of the descriptors, after their dequeue is committed; `CplDelivery` holds
(weak fairness of a poll of a queue with completions). In `TxRing` the stack that
announced another packet (`burst`) sends or drops it. In `RxRing` packets keep
arriving and an skb is to be had sooner or later.

### ProtProcessor

One `Tick` is a clock edge of both processors, each reading the beat that the other drives;
`Post` and `TakeBack` are the software's writes of `proc_start`. Page keys are a status
and a node, headers a mode, a key and the write flag; the payload is left out. The
software posts a fault only for an access that the key it holds does not allow. The
static result of `decode_pkey`, which keeps its old value for a key of neither kind, is
a nondeterministic choice. Stores beyond the eight slots of the receive memory are
lost, as the language defines. Left out: `fault_mask`, the reset pause.

`M00_AXIS` may be not ready in any cycle: behind it are `pcie_us_rqrc.v`, whose ready is that of PCIe
(`zynq_ps.tcl:1862`, `pcie_us_rqrc.v:374`), and `dsm_axis_aximm.v`. The processor drives a beat in the
cycles in which it is ready and withdraws it after one cycle, against the rules of the bus. Both modules
register every beat that is driven, ready or not (`pcie_us_rqrc.v:205`, `dsm_axis_aximm.v:74`); what
they keep of it is not modelled (section 6), and no property says that a frame is kept whole.

What not being ready breaks in the processor itself is the memory the frame is passed on
from. The input is stored in every cycle, so while the header waits, the write pointer runs on and comes round to it after `WrMod` cycles.
`HeaderIntact` says that a header passed on names its page with this as the one exception; `waited`, which
is no register, counts the cycles. The exception happens in the run, and nothing in the code
rules it out: PCIe may be not ready for as long as it likes. Narrowing the pointer to the eight slots, as
its memory would suggest, makes the header go under too early (the mutant).

`MayCross` says whether both nodes may fault at once.

### PortLifecycle

The thread that holds `state_lock` (`mqnic_open`, `mqnic_close`, `mqnic_change_mtu`) takes one ring
after the other through the stages in the module's header, in the order of
`mqnic_start_port` and `mqnic_stop_port`.

| action | code |
|---|---|
| `StartCq`, `StopCq` | `mqnic_activate_cq_ring`, which writes back the head and tail the driver last saw, `mqnic_deactivate_cq_ring` |
| `StartRing`, `StopRing` | `mqnic_activate_*_ring` with the refill, `mqnic_deactivate_*_ring`: handler and ring pointer set and cleared |
| `StopNapi` | `napi_disable`, which waits for the poll |
| `StopQueues`, `PortDown` | `netif_tx_disable`, which waits for senders inside; `port_up` cleared |
| `StopSleep`, `FreeBuffers` | `msleep(20)`; `mqnic_free_tx_buf`, `mqnic_free_rx_buf` |
| `Fetch`, `Complete` | the NIC: takes a slot of an active ring; finishes it even if the ring was deactivated |
| `EventTest`, `EventCall` | `mqnic_process_eq`: the handler is tested and then read again |
| `PollNoRing` … `ArmCq` | the polls; `PollRun` is the whole body after the head was read |
| `XmitTest`, `XmitPost` | `mqnic_start_xmit` before and after its test of `port_up` |

A null pointer that is followed stops the model (`oops`). `mqnic_process_tx_cq` reads
`tx_ring->priv` before it tests `priv`, so a poll between `StopRing` and `StopNapi` does; so may
the interrupt handler. `OopsOnlyInStop` says these are the only places; the rest of the
module shows what is true of a stop that gets through.

`Settled` is what the driver expects of its 20 ms: the NIC has finished what it had taken, and
code that cannot be preempted has returned. `NicKeepsBuffers` is violated without the sleep
(its mutant). Left out: failing page allocations (`RxRing`), the threshold of refills (1 here,
8 in the code), the width of the pointers beyond twice the ring, and a deactivation between
the test of `active` and the register write of `mqnic_arm_cq` (`ArmCq` is one step).

### DeviceProbe

`mqnic_pci_probe` goes down the labels of `Labels`; each step takes what it takes
(`held`, and `part` for the fifteen parts of an interface) or goes to the code's fail label, from
where `Unwinding` goes back as `mqnic_pci_remove` does. Two devices are probed at once: the list of
devices and the choice of an id are shared and locked. The event queues' handlers run
whenever their interrupt is registered and may find any completion queue that exists.
`Release` distinguishes what the code tests before it undoes (`mqnic->hw_addr`) from what it
does not. Three ways to bring the kernel down are in the code and in `oops`: `"list"` (a probe
walks over a device that the return at `mqnic_main.c:334` left in the list, or `mqnic_free_id` takes out
the device beside it and writes into it), `"netdev"`
(`mqnic_netdev.c:504` destroys through a pointer not yet set), and `"twice"`, which does not
happen. Left out: i2c clients, what the board and the clock do, one queue of each kind stands
for all.

### TxScheduler

One `Tick` is a clock edge: one operation enters at stage 0 (`EnterDoorbell`, `EnterComplete`,
`EnterReq`, `EnterWrite`, by the code's priorities) and the one at the last stage is performed on
the word it has carried along (`ExecDoorbell`, `ExecReq`, `ExecComplete`, `ExecWrite`). State: the queue
RAM, the operation table, the pipeline, the round (`rr`), the FIFOs of doorbells and answers, the
request register. The neighbours: `Post` moves a ring's head and rings, `Ring` is a doorbell's way
through its FIFO, `Accept`, `Dequeue` and `Answer*` are the engine and the queue manager it asks,
`Deactivate` and `Activate` the driver.

A doorbell is recorded with the queue's last request, so that the empty answer of that request
does not make the queue inactive; a request that finishes passes its doorbell to the one
before it. The links go wrong when the last request finishes first: the `next` index of the one
before then points at a free entry or at another queue's request, whose `prev` and `isHead` are
overwritten (`tx_scheduler_rr.v:688`). `DoorbellsKept` and `Quiesces` show that no doorbell is lost by
that and none kept for ever. `Kept` drops the fields of free entries that are written before
they are read.

Assumptions:

* An empty answer is given before a packet that was fetched later is sent (`AnswerEmpty`,
  `AnswerSent`): the engine answers it at once, the packet needs reads over PCIe. In the other order
  the packet's request, the queue's last, is released first; a doorbell that comes then has no request
  to be recorded with, and the late empty answer makes the queue inactive. TLC finds this
  with three table entries; with the two of the run the order makes no difference.
* No empty answer is lost. The engine has one register for them and lets finished packets go first
  (`tx_engine.v:611-613`, `808-819`), so one that still waits there could be overwritten by the next; its
  table entry would not come back. Listed as a hazard, since the engine is not modelled.
* A packet takes longer to be sent than a doorbell to leave its FIFO's registers, so none is sent while
  one is there (`ringing`).
* The bridge waits for the answer of every register write (`pcie_us_axil_master.v:636`), so a ring
  is posted to after its queue was enabled (`Written`), and the driver does not outrun the
  doorbell FIFO (`Doorbells`).
* `Settled`, as in `PortLifecycle`.

Fairness: the clock runs (`Tick`), a FIFO's registers move on (`Ring`), and the engine goes on while it has
something to do. The driver owes nothing: it need neither post nor deactivate.

## 4. Runs

| run | shows | bounds |
|---|---|---|
| `event_path` | one notification per CQ in all interleavings; implements `CplDelivery` with fairness | 2 transmit CQs, 1 receive CQ, 2 entries, budget 1, FIFOs of 3 and an EQ of 7 entries, one more than the assumed capacity |
| `cpl_queue_manager` | implements `CplQueue`; RAM words coherent; no starvation, commits reach the head | 2 queues of 1 entry, 2 operations, 2 stages; tails, arms and reads, one access at a time |
| `cpl_queue_manager_reset` | implements `CplQueue`; slots never overtake the tail; no answer lost | 1 queue of 2 entries, all registers, posted writes, late answers |
| `tx_ring` | pointers, slots, completions matched; a stopped queue is woken; what is rung is freed | 4 slots, pointers modulo 8 and 16, budget 2, dropped packets |
| `tx_ring_doorbell` | a burst whose last packet is dropped is not announced (violation) | the same |
| `rx_ring` | pointers, pages, completions matched with failing allocations; only a refill of the empty ring that gets no page starves the NIC | 4 slots, threshold 2, budget 2 |
| `prot_processor` | every legal fault arrives, whole, as what it is; what is passed on names its page | frame lengths and pointer width of the code, one fault at a time, `M00_AXIS` ready or not in any cycle |
| `prot_processor_cross` | two simultaneous faults lose both frames (violation) | `MayCross` |
| `port_lifecycle` | stop and restart release everything once, after the NIC is done with it, and lose no wake-up | 1 + 1 rings of 2 slots, 2 lives, budget of a full CQ |
| `port_lifecycle_stale` | with completions left in the CQ a restarted ring hands up a page the NIC owns (violation) | the same, budget 1 |
| `tx_scheduler` | one place in the round per scheduled queue, entries and doorbells conserved, service and quiescence | 2 queues, 2 stages, 2 table entries, 1 descriptor per ring, 1 doorbell at a time |
| `device_probe` | what a probe took is given back once from every step; ids; handlers | 2 devices (interchangeable), 1 interface |

Why the bounds are enough. Two transmit CQs share a FIFO and the write engine, which is
where notifications of different queues meet; a third queue adds no new place. With two entries
and a budget of one a poll finds none, as many as its budget, or more. Rings of
four slots have full, half-full, empty and one-over-half states, and the pointers wrap at
both widths. The queue manager's hazards are between two operations, of one or of two queues;
with two stages and two table entries an operation can be entering, executing, outstanding
and finishing while the table wraps. A ring of two slots and two lives has everything under way
in the first life that can meet the second; rings meet only in the order they are taken down,
which one of each kind shows. `port_lifecycle` says nothing about a port stopped with more
completions pending than a poll takes: that is `port_lifecycle_stale`, and with the driver's
weight of 64 and 1024 entries it can happen. Two devices are needed for ids and the list;
a second interface (`IfCount = 2` with one device) was checked with the same result and is
covered by the proofs. In the scheduler two queues with two table entries have requests of one queue
that are linked, requests of two queues, and entries that change hands; the invariants were also
checked with two doorbells under way, and with one queue, three entries and two descriptors, where
links form chains.

Deadlock is allowed where the system really stops: `rx_ring` (the ring that got no page
receives no more), `port_lifecycle` (after the last life) and both models with an `oops`.

The violations are disagreements between the code and its own comments:

* `mqnic_tx.c:554`: the drop paths ring no doorbell for the packets posted before in the
  same burst ("// enqueue on NIC", line 532).
* `prot_processor.v:439`: a sender drives its frame without looking at ready, and a peer
  that sends does not listen ("Frame Reception logic", line 508).
* `mqnic_cq.c:138`: a reactivated CQ is given back the completions that a poll had seen and not
  processed; they name slots of a ring that starts afresh ("%s: ring %d null page at index %d",
  `mqnic_rx.c:351`).

Properties that hold with an exception name it: a refill of an empty ring that gets no page is
never repeated (`OnlyRefillsStarve`, `mqnic_rx.c:432`); a poll or handler under way follows a cleared
pointer while a port is stopped (`OopsOnlyInStop`); the return at `mqnic_main.c:334` leaves
the device in the list (`NothingLeft`, `ListSound`); a header that `M00_AXIS` keeps waiting for sixteen
cycles is overwritten (`HeaderIntact`, `prot_processor.v:320`).

## 5. Proofs

`EventPathProofs` proves for every set of queues and every size that meets
`QueueAssumption` and `CapacityAssumption`: `TypeOK`, `OneNotification`, `ArmedMeansEmpty`,
`NeverMissed`, `EqServed`, `NoEventDiscarded` as invariants of `Safety`, and that every step
of `EventPath` is a step or a stutter of `CplDelivery` (`ImplementsDelivery`).

The inductive invariant `Inv` adds to the properties: the counters agree (`Counters`: `k` and `snap`
within the EQ; a poll is on only when scheduled), a CQ is unarmed until start-up arms it
(`Starting`), events lie in the FIFO of their side (`Sided`), the entries the handler saw are
distinct (`SnapDistinct`: they were unread at one moment), and the EQ's own notification is
somewhere (`EqNotified`). `OneNotification` alone is not inductive because an arm fires an event
into a FIFO that must have room, and room follows only from the entries being distinct
(`FifoHasRoom`, `EqBound`): the EQ may hold one processed and one unread entry of each queue,
which is why twice the number of CQs is enough. Each action has a lemma; most are
applications of `Located`, `Moved` and `Still`, which say that a step moves the notification of at
most one queue from one place to another.

`CplQueueManagerProofs` proves for every number of queues, pipeline depth and table size that
meets `ParamAssumption`, and whichever registers the driver writes and however late answers
are taken: `TypeOK`, `Coherent` (an operation is executed on the word that is in the RAM),
`AnswersKept` (no answer is overwritten) and `SlotsFollowHead`. For the middle two the inductive
invariant `Inv` adds that two operations of one queue, or two that answer at one port, are never
in the pipeline together (`OneOpPerQueue`, `OneOpPerPort`), and the typing of queue numbers
(`Shape`): `Entering` says what may enter at stage 0, `Executing` that the last stage changes the
word of its own queue only, and `TickInv` moves both along by one stage. The proof fails for a
hazard check that omits a stage, as TLC's mutant does.

`SlotsFollowHead` needs `SlotInv`, which adds to that:

* `Window`: the entries in use are those from the finish pointer up to the start pointer, and a
  request in the pipeline still has its entry. Ages then order the grants.
* `Youngest`: the word of a queue names the youngest of its entries, if it has one. Without it
  `ActiveHead` could be any place, and a new slot would not be the next one.
* `TailsFollow`: from its tail, a queue has the tails still in the pipeline, then the last one
  the driver has written, then its head. A write of the tail therefore never passes the head.
* `HeadsWait`: a write of the head, asked for or in the pipeline, is to a queue that is inactive
  and has nothing under way, and to a place that is not behind what the driver has taken. This
  is what the driver's sleep before it rewinds a queue is for.
* `SlotsOf`: `SlotsFollowHead` of one queue, as the predicate `Fits` of head, tail and entries.

`FitsGrow`, `FitsFinish`, `FitsCommit`, `FitsTail` and `FitsEmpty` say how `Fits` survives a grant, an
entry that starts to finish, its commit, a new tail and a rewound head; the arithmetic they rest
on is in `Distances`, `Further`, `Rebase` and `Ages`. `TickMoves` and `TickPerforms` reduce a clock edge
to what enters, what leaves and what it does to one queue, and `SlotsMove` picks the lemma.

`OperationsAtomic` proves `Atomicity`: from that invariant every clock edge is a step of `CplQueue`, at
every depth of the pipeline and with any number of operations under way. The operations of
`CplQueue` are `Outstanding`: the commits in the pipeline, from the last stage on (`Finishing`), then
the entries of the table, oldest first (`Waiting`). `FinishingIs` and `WaitingIs` say at which place of
the list each stands: a commit at its rank, the number of commits at its stage or after it
(`RankFacts`, which counts), an entry at its age. Ranks fall by one when the last stage performs a
commit (`RanksMove`), ages when the oldest entry starts to finish (`InUseMoves`), and that entry goes
from the first place of one list to the last of the other with the same slot, already committed:
so `OutstandingMoves`, in which a commit takes the first away, a grant adds one at the end and all
others stay in their order. `TopsAgree` says that the place `ActiveHead` computes from the word and
one table entry is the end of the last slot `CplQueue` has granted to the queue; it needs `Youngest`, and that
no commit of the queue is in the pipeline, hence `OneOpPerQueue`. `RequestStep`, `CommitStep` and
`WriteStep` then are the steps of `CplQueue`; they need `Coherent`, and a request needs `AnswersKept`, since
`CplQueue` answers only when the last answer was taken. Besides `ParamAssumption` the theorem uses
`NoneAssumption`: an empty response register is not mistaken for an answer.

`TxRingProofs` and `RxRingProofs` prove `TypeOK`, `RingOrdered` and `SlotsMatchRing` (`PagesMatchRing`) for
rings of every size, pointers of every width that is a multiple of the ring, every budget and
threshold, and every outcome of the allocations. The pointers wrap, at two widths, so neither
property is inductive as it stands: the invariant `Positioned` says that there are natural numbers,
of which the pointers are the remainders, that are in order (`InOrder`), between which the
completions and descriptors lie one by one (`Queued`), and which bound the slots in use (`Held`).
For the transmit ring `InOrder` also says what a poll that found room still may do to a sender that
has since filled the ring: that is where the one and the two packets of `RingOrdered` come from.

`ProtProcessorProofs` proves, for frames of every length and whenever `M00_AXIS` is not ready, `TypeOK`;
and `ModeFitsFault`, `HeadersArrive` and `HeaderIntact` under `~MayCross`. That hypothesis is needed: without
it the run `prot_processor_cross` finds a header that is lost. `Counted` says from which count every
frame is sent and passed on, and that nothing is passed on while one is sent. `Link` relates the
two machines: whose fault is in progress (`OneFault`), how far the receiver is behind the sender (`Paired`), and that what the receiver holds is an answer to
the fault that the sender posted (`Answered`). `HeaderKept` relates the write pointer to the cycles the
header has waited: the pointer is as far ahead of the header, until it comes round.

`PortLifecycleProofs` proves for any number and size of rings, any budget and any number of lives
`TypeOK`, `StoppedIsQuiet`, `OopsOnlyInStop` and `NothingHeld`. For the second and third the inductive
invariant relates the thread's place to the stages of the rings (`StagesFollowPhase`), the handler
that was found set to the ring that still has it or to the stop (`CallingFollowsPhase`), and
scheduling to a NAPI context that exists (`ScheduledIsServed`): without the last, `napi_disable` could
return under a poll. `NothingHeld` needs to know that a ring's buffers lie between its `clean` and
its `head`, which is all that is freed (`RingsInPlace`).

`NicKeepsBuffers`, `CompletedHasBuffer` and `NotForgotten` are proved of every behaviour in which each
start is clean (`CleanStart`: the CQ that is about to be activated has no completion that the driver
saw and did not process), whatever the sizes and the budget. `StartsAreClean` shows when no
behaviour has another kind of start: there is one life only, or a poll's budget is at least a full
CQ, as in `port_lifecycle`. The hypothesis cannot be dropped, since `port_lifecycle_stale` is a
counterexample to `CompletedHasBuffer`; the driver's weight of 64 and 1024 entries do not rule an
unclean start out. The invariant `Kept` follows every slot of a live ring from the post to the
fetch, the completion and the poll (`Tracked`: four positions in order, a buffer behind each slot
not yet completed and each completion unread), and says that a ring at rest has nothing under way
(`AtRest`).

`DeviceProbeProofs` proves `TypeOK`, `NothingLeft`, `ListSound` and `HandlerSafe` for any number of
devices and interfaces. The inductive invariant says what is held at each label
(`HeldAt`), which labels have parts and what the handlers inside use (`PartAt`), and that ids
differ; `TypeOK` then needs that the first free id is below the number of devices, which is a
counting argument (`FreeIdBelow`).

`TxSchedulerProofs` proves for any number of queues, pipeline depth and table size `TypeOK`,
`ScheduledOnce` (a queue is marked scheduled exactly while it has its one place in the round or its turn
is in the pipeline), `RoundFits` (the round never holds more than one entry per queue, so the FIFO that
is as deep as there are queues never overflows) and `OpsAccounted` (an entry of the table is in use
for one request under way and for no other). The inductive invariant adds, as for the queue
manager, one operation per queue in the pipeline and words that match the RAM; `Executes` says what
the last stage may do to a queue's word and to the round, and `TickRound` joins that with the queue
taken from the round at the first stage. `OpsPlaced` says of each table entry in which one of five
places its request is, and that no place has it twice; it carries `OpsAccounted`, and with it the
bound on the FIFOs of the answers that `TypeOK` states.

`DoorbellsNeverLost` proves `DoorbellsKept`: while descriptors wait in a ring, a doorbell of its queue is
on its way, or the queue is active, or a request under way will make it so; and an active queue that
is enabled is in the round. The hard part is that the links of the operation table go wrong
(section 3), so no invariant of the links holds. The proof does without: it puts the requests that
have left the scheduler in one line, in the order in which they return but for packets, which an empty
answer overtakes (`Line`), and says

* `Owned`: the table entry of a request names its queue, whatever its links say;
* `TailLast`: the tail of a queue, where `ExecDoorbell` records, is still in the line and behind every
  request of the queue that was not given a packet, so a doorbell is never recorded with
  a request that is answered too early to notice;
* `FollowedInLine`, `FollowedInPipe`: while descriptors wait and no doorbell is on its way, a request that
  found the ring empty and has no doorbell recorded is followed by one that looks again or has one
  (`Tells`), so the empty answer is not the last word;
* `Remembered`: the queue is active, or about to become so, or a request that tells is in the line;
* `Enrolled`: an enabled and active queue is scheduled, which gives it its place in the round.

`Told` is their conjunction. TLC checked that it is invariant with two table entries before it was
proved. It needs that an empty answer comes before a later packet is sent: in the other order
`DoorbellsKept` itself fails with three table entries (section 3). The theorem rests on that, a
guard of the model, and on no bound. `LineMoves` and `LineStays` say what a clock edge does to the
line, and each conjunct has a lemma for the clock edge and one for each of the neighbours' steps.

`ArmedMeansEmpty`, `NeverMissed`, `EqServed`, `StoppedIsQuiet` and `RoundFits` are proved only: no run
repeats them.

Every invariant that a passing run checks is a theorem, under the hypotheses named above where there
are any, and so are the refinement `Atomicity` and the safety part of the refinement `CplDelivery`.
Only model-checked is liveness: the fairness part of `DeliverySpec`, `Woken`, `RungIsFreed`,
`OnlyRefillsStarve`, `NothingStarves`, `Served` and `Quiesces`.

## 6. Not modelled

* `queue_manager.v`: the dequeue-side sibling of `cpl_queue_manager.v`, with the same pipeline.
* The operation tables and DMA tags of `desc_fetch.v` and `cpl_write.v`: their effect (in-order
  commits, one completion per descriptor, a completion after its dequeue is committed) is an
  assumption of the rings.
* `mqnic_main_fdsm.c`: the Makefile does not build it, and what its `mqnic_init` does after the
  first `return` cannot run; the slots and work queues of its message layer have no behaviour to check.
* The software of the DSM protocol: it is not in the repository. `ProtProcessor` has what the
  registers let it do; the faults it may not post are excluded, so what the processor does with
  them (`prot_processor.v:424`, `411`) is listed as a hazard without a property.
* Of the scheduler: register reads, the initialisation of the RAM, the external schedule control and
  the count of active queues, which is reported only.
* The frame writers, `pcie_us_rqrc.v` at the host and `dsm_axis_aximm.v` at the ARM. What reading them
  showed, and no run checks: the host's keeps a registered beat only while its output FIFO is less than
  half full (`pcie_us_rqrc.v:301`, against line 103), so a beat of a frame can be lost there; it raises the
  ready of the ARM's register write while it sends a word of the DSM instead (312); its address starts over
  whenever its FIFO runs empty (207), also within a frame; and in both modules `full_flg` inverts a bit
  below the wrap bit of the pointer (182; `dsm_axis_aximm.v:55`, where it is only the ready).
* The rest of the PCIe bridge, the engines' data path, DMA, checksums, hashing, PTP: data, or arbitration that the
  modelled parts do not depend on.
* Board, i2c, ethtool, device node and utilities: register access.
* The vendored libraries under `fpga/lib` and the tables the FPGA tools generate (`psu_init*`,
  `*_smc_*`), which are most of the repository's lines: no code of this project.

Liveness under fairness is beyond the prover, and so is induction over data (what a fold or a
recursive function computes for every input); both stay with TLC.
