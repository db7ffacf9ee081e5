------------------------------ MODULE DeviceProbe ------------------------------
(***************************************************************************)
(* Binding the driver to its devices and taking it away again              *)
(* (mqnic_pci_probe, mqnic_pci_remove and what they call), where every     *)
(* step that can fail may fail, another device is probed or removed at the *)
(* same time, and interrupts arrive while interfaces come and go.          *)
(*                                                                         *)
(* A device is followed by what it holds.  mqnic_pci_probe goes down the   *)
(* labels below; a failure, and mqnic_pci_remove, go back through its fail *)
(* labels.  An interface is followed by its parts: the structures and      *)
(* buffers of its queues (one of each kind), its port, its net device and  *)
(* the registration of both its interrupt and its net device.              *)
(***************************************************************************)
EXTENDS Integers, Sequences, FiniteSets

CONSTANTS
    Devices,  \* PCI devices that may be probed at the same time
    IfCount   \* interfaces of a device, at most MQNIC_MAX_IF

ASSUME DeviceAssumption == IsFiniteSet(Devices) /\ IfCount \in Nat \ {0}

Ifs == 0..IfCount - 1
Ids == 0..Cardinality(Devices) - 1
Bars == {"bar0", "bar4", "bar5"}
Buffers == {"tx_buf", "tx_cpl_buf", "rx_buf", "rx_cpl_buf"}

\* mqnic_create_interface and mqnic_create_netdev, in their order.
Created == <<"if", "eq", "eq_buf", "eq_irq", "tx", "tx_cpl", "rx", "rx_cpl", "port",
             "ndev", "tx_buf", "tx_cpl_buf", "rx_buf", "rx_cpl_buf", "registered">>

\* Mutant: the event queues go last.
DestroyedEqLast ==
    <<"registered", "tx_buf", "tx_cpl_buf", "rx_buf", "rx_cpl_buf", "ndev",
      "tx", "tx_cpl", "rx", "rx_cpl", "eq_irq", "eq_buf", "eq", "port", "if">>

\* mqnic_destroy_interface and mqnic_destroy_netdev, in theirs.
Destroyed ==
    <<"registered", "tx_buf", "tx_cpl_buf", "rx_buf", "rx_cpl_buf", "ndev",
      "eq_irq", "eq_buf", "eq", "tx", "tx_cpl", "rx", "rx_cpl", "port", "if">>

Parts == {Created[i] : i \in DOMAIN Created}

VARIABLES
    pc,      \* of each device: the label its probe or removal is at
    held,    \* what it holds: its place in mqnic_devices, BARs, vectors...
    part,    \* the parts of its interfaces that exist
    id,      \* mqnic->id
    inside,  \* what the handler of each interface's event queue is using
    oops     \* what brought the kernel down, if anything did

vars == <<pc, held, part, id, inside, oops>>

Labels ==
    {"none", "enable", "regions", "pa", "bars", "reset", "irqs", "common", "create_if", "misc",
     "bound", "fail_create_if", "fail_common", "fail_map_bars", "fail_regions", "fail_enable_device"}

Resources ==
    {"id", "enabled", "regions", "vectors", "master", "board", "phc", "misc"} \cup Bars

\* Every variable keeps its type.
TypeOK ==
    /\ pc \in [Devices -> Labels]
    /\ held \in [Devices -> SUBSET Resources]
    /\ part \in [Devices -> [Ifs -> SUBSET Parts]]
    /\ id \in [Devices -> Ids]
    /\ inside \in [Devices -> [Ifs -> {"none", "eq", "tx_cpl", "rx_cpl"}]]
    /\ oops \in {"no", "list", "netdev", "twice"}

\* The module is loaded, no device was probed.
Init ==
    /\ pc = [d \in Devices |-> "none"]
    /\ held = [d \in Devices |-> {}]
    /\ part = [d \in Devices |-> [k \in Ifs |-> {}]]
    /\ id = [d \in Devices |-> 0]
    /\ inside = [d \in Devices |-> [k \in Ifs |-> "none"]]
    /\ oops = "no"

Alive == oops = "no" /\ oops' = "no"
Goto(d, label) == pc' = [pc EXCEPT ![d] = label]
Take(d, what) == held' = [held EXCEPT ![d] = @ \cup what]

\* What is released without a test has to be there.
Release(d, tested, untested) ==
    /\ held' = [held EXCEPT ![d] = @ \ (tested \cup untested)]
    /\ oops = "no" /\ oops' = IF untested \subseteq held[d] THEN "no" ELSE "twice"

Listed == {d \in Devices : "id" \in held[d]}
Used == {id[d] : d \in Listed}

-----------------------------------------------------------------------------
(* mqnic_pci_probe. *)

\* Mutant: the number of devices in the list is taken for a free id.
FreeIdCounted(n) == n = Cardinality(Listed)

\* Mutant: the id after the largest is taken.
FreeIdAboveAll(n) == \A m \in Used : m < n

\* mqnic_get_free_id: the smallest that no device has.
FreeId(n) == n \notin Used /\ \A m \in 0..n - 1 : m \in Used

\* mqnic_assign_id, with the list locked.  It reads every device of the list.
Probe(d) ==
    /\ pc[d] = "none" /\ held[d] = {}
    /\ \A e \in Listed : pc[e] # "none"
    /\ \E n \in 0..Cardinality(Devices) : FreeId(n) /\ id' = [id EXCEPT ![d] = n]
    /\ Take(d, {"id"}) /\ Goto(d, "enable")
    /\ Alive /\ UNCHANGED <<part, inside>>

\* The memory of a device whose probe ended is gone, its place in the list may not be.
ProbeReadsFreed(d) ==
    /\ pc[d] = "none" /\ held[d] = {}
    /\ \E e \in Listed : pc[e] = "none"
    /\ oops = "no" /\ oops' = "list"
    /\ UNCHANGED <<pc, held, part, id, inside>>

Enable(d) ==
    /\ pc[d] = "enable"
    /\ \/ Take(d, {"enabled"}) /\ Goto(d, "regions")
       \/ UNCHANGED held /\ Goto(d, "fail_enable_device")
    /\ Alive /\ UNCHANGED <<part, id, inside>>

\* The DMA mask is refused, or the regions are.
Regions(d) ==
    /\ pc[d] = "regions"
    /\ \/ Take(d, {"regions"}) /\ Goto(d, "pa")
       \/ UNCHANGED held /\ Goto(d, "fail_regions")
    /\ Alive /\ UNCHANGED <<part, id, inside>>

\* The buffer behind pa_ptr: without it the probe returns as it is.
AllocPa(d) ==
    /\ pc[d] = "pa"
    /\ \E label \in {"bars", "none"} : Goto(d, label)
    /\ Alive /\ UNCHANGED <<held, part, id, inside>>

\* BAR 0 is mapped, then BARs 4 and 5 if the device has them.
MapBars(d) ==
    /\ pc[d] = "bars"
    /\ \E mapped \in SUBSET Bars :
          /\ mapped # {} => "bar0" \in mapped
          /\ Take(d, mapped)
          /\ \/ "bar0" \in mapped /\ Goto(d, "reset")
             \/ "bar5" \notin mapped /\ Goto(d, "fail_map_bars")
    /\ Alive /\ UNCHANGED <<part, id, inside>>

\* All ones are read from a device that needs a reset.
CheckReset(d) ==
    /\ pc[d] = "reset"
    /\ \E label \in {"irqs", "fail_map_bars"} : Goto(d, label)
    /\ Alive /\ UNCHANGED <<held, part, id, inside>>

\* Mutant: interrupts that failed are undone again by the caller.
IrqInitUndoneTwice(d) ==
    /\ pc[d] = "irqs"
    /\ \/ Take(d, {"vectors"}) /\ Goto(d, "common")
       \/ UNCHANGED held /\ Goto(d, "fail_common")
    /\ Alive /\ UNCHANGED <<part, id, inside>>

\* mqnic_irq_init_pcie undoes what it has done when a vector or a handler fails.
IrqInit(d) ==
    /\ pc[d] = "irqs"
    /\ \/ Take(d, {"vectors"}) /\ Goto(d, "common")
       \/ UNCHANGED held /\ Goto(d, "fail_map_bars")
    /\ Alive /\ UNCHANGED <<part, id, inside>>

\* mqnic_common_probe up to its interfaces.  The BARs may be too small or the board
\* unknown; a clock that fails is done without.
CommonProbe(d) ==
    /\ pc[d] = "common"
    /\ \/ Take(d, {"master"}) /\ Goto(d, "fail_common")
       \/ \E phc \in SUBSET {"phc"} : Take(d, {"master", "board"} \cup phc) /\ Goto(d, "create_if")
    /\ Alive /\ UNCHANGED <<part, id, inside>>

Missing(d, k) == {i \in DOMAIN Created : Created[i] \notin part[d][k]}

\* The next part of interface k, when those before k are complete.
IsNext(d, k, i) ==
    /\ \A j \in 0..k - 1 : Missing(d, j) = {}
    /\ i \in Missing(d, k) /\ \A j \in Missing(d, k) : i <= j

CreatePart(d) ==
    /\ pc[d] = "create_if"
    /\ \E k \in Ifs : \E i \in DOMAIN Created :
          IsNext(d, k, i) /\ part' = [part EXCEPT ![d][k] = @ \cup {Created[i]}]
    /\ Alive /\ UNCHANGED <<pc, held, id, inside>>

\* The interface is destroyed, and then those that were complete.  Giving a handler to
\* the interrupt does not fail.
CreatePartFails(d) ==
    /\ pc[d] = "create_if"
    /\ \E k \in Ifs : \E i \in DOMAIN Created :
          IsNext(d, k, i) /\ Created[i] \notin {"eq_irq", "registered"} \cup Buffers
    /\ Goto(d, "fail_create_if")
    /\ Alive /\ UNCHANGED <<held, part, id, inside>>

\* mqnic_create_netdev destroys the net device through a pointer it has not yet set.
CreateNetdevFails(d) ==
    /\ pc[d] = "create_if"
    /\ \E k \in Ifs : \E i \in DOMAIN Created :
          IsNext(d, k, i) /\ Created[i] \in {"registered"} \cup Buffers
    /\ oops = "no" /\ oops' = "netdev"
    /\ UNCHANGED <<pc, held, part, id, inside>>

InterfacesDone(d) ==
    /\ pc[d] = "create_if" /\ \A k \in Ifs : Missing(d, k) = {}
    /\ Goto(d, "misc")
    /\ Alive /\ UNCHANGED <<held, part, id, inside>>

MiscRegister(d) ==
    /\ pc[d] = "misc"
    /\ \/ Take(d, {"misc"}) /\ Goto(d, "bound")
       \/ UNCHANGED held /\ Goto(d, "fail_create_if")
    /\ Alive /\ UNCHANGED <<part, id, inside>>

-----------------------------------------------------------------------------
(* mqnic_pci_remove, and the way back of mqnic_pci_probe. *)

\* mqnic_common_remove goes on as mqnic_common_probe does from fail_create_if.
Remove(d) ==
    /\ pc[d] = "bound" /\ Goto(d, "fail_create_if")
    /\ Release(d, {}, {"misc"}) /\ UNCHANGED <<part, id, inside>>

Present(d, k) == {i \in DOMAIN Destroyed : Destroyed[i] \in part[d][k]}

\* The interface that failed or is half gone comes first, then the lowest.
Going(d, k) ==
    /\ part[d][k] # {}
    /\ \A j \in Ifs \ {k} : part[d][j] = {} \/ (Missing(d, j) = {} /\ (Missing(d, k) # {} \/ k < j))

\* Unregistering the event queue's interrupt waits for the handlers that are inside.
DestroyPart(d) ==
    /\ pc[d] = "fail_create_if"
    /\ \E k \in Ifs : \E i \in Present(d, k) :
          /\ Going(d, k) /\ \A j \in Present(d, k) : i <= j
          /\ Destroyed[i] = "eq_irq" => inside[d][k] = "none"
          /\ part' = [part EXCEPT ![d][k] = @ \ {Destroyed[i]}]
    /\ Alive /\ UNCHANGED <<pc, held, id, inside>>

\* The clock and the board.
FailCreateIf(d) ==
    /\ pc[d] = "fail_create_if" /\ \A k \in Ifs : part[d][k] = {}
    /\ Goto(d, "fail_common")
    /\ Release(d, {"phc"}, {"board"}) /\ UNCHANGED <<part, id, inside>>

\* Bus mastering and interrupts: freeing one waits for its handler.
FailCommon(d) ==
    /\ pc[d] = "fail_common" /\ \A k \in Ifs : inside[d][k] = "none"
    /\ Goto(d, "fail_map_bars")
    /\ Release(d, {}, {"master", "vectors"}) /\ UNCHANGED <<part, id, inside>>

FailMapBars(d) ==
    /\ pc[d] = "fail_map_bars" /\ Goto(d, "fail_regions")
    /\ Release(d, Bars, {"regions"}) /\ UNCHANGED <<part, id, inside>>

FailRegions(d) ==
    /\ pc[d] = "fail_regions" /\ Goto(d, "fail_enable_device")
    /\ Release(d, {}, {"enabled"}) /\ UNCHANGED <<part, id, inside>>

\* mqnic_free_id; the memory of the device goes with the return.
FailEnableDevice(d) ==
    /\ pc[d] = "fail_enable_device" /\ Goto(d, "none")
    /\ Release(d, {}, {"id"}) /\ UNCHANGED <<part, id, inside>>

\* Taking a device out of the list writes into those beside it.  The order of the list
\* is not kept: any device whose memory is gone may be beside it, or not.
FreeIdBesideFreed(d) ==
    /\ pc[d] = "fail_enable_device"
    /\ \E e \in Listed : pc[e] = "none"
    /\ oops = "no" /\ oops' = "list"
    /\ UNCHANGED <<pc, held, part, id, inside>>

-----------------------------------------------------------------------------
(* mqnic_irq_handler and mqnic_eq_int. *)

HandlerStarts(d, k) ==
    /\ "vectors" \in held[d] /\ "eq_irq" \in part[d][k] /\ inside[d][k] = "none"
    /\ inside' = [inside EXCEPT ![d][k] = "eq"]
    /\ Alive /\ UNCHANGED <<pc, held, part, id>>

\* An event names a completion queue: the handler of one that exists is called.
HandlerFinds(d, k) ==
    /\ inside[d][k] # "none"
    /\ \E c \in {"tx_cpl", "rx_cpl"} \cap part[d][k] : inside' = [inside EXCEPT ![d][k] = c]
    /\ Alive /\ UNCHANGED <<pc, held, part, id>>

HandlerEnds(d, k) ==
    /\ inside[d][k] # "none"
    /\ inside' = [inside EXCEPT ![d][k] = "none"]
    /\ Alive /\ UNCHANGED <<pc, held, part, id>>

-----------------------------------------------------------------------------
Probing(d) ==
    \/ Probe(d) \/ ProbeReadsFreed(d) \/ Enable(d) \/ Regions(d) \/ AllocPa(d) \/ MapBars(d)
    \/ CheckReset(d) \/ IrqInit(d) \/ CommonProbe(d)
    \/ CreatePart(d) \/ CreatePartFails(d) \/ CreateNetdevFails(d) \/ InterfacesDone(d)
    \/ MiscRegister(d)

Unwinding(d) ==
    \/ Remove(d) \/ DestroyPart(d) \/ FailCreateIf(d) \/ FailCommon(d)
    \/ FailMapBars(d) \/ FailRegions(d) \/ FailEnableDevice(d) \/ FreeIdBesideFreed(d)

Handling(d) == \E k \in Ifs : HandlerStarts(d, k) \/ HandlerFinds(d, k) \/ HandlerEnds(d, k)

Next == \E d \in Devices : Probing(d) \/ Unwinding(d) \/ Handling(d)

Spec == Init /\ [][Next]_vars
-----------------------------------------------------------------------------
(* Properties. *)

\* A device that is not bound holds nothing, and nothing was released that was not
\* held, at whatever step the probe failed (mqnic_main.c:210-220, 420-438) - with one
\* exception: without the buffer of lines 332-334 the probe returns with the device in
\* the list, enabled and its regions reserved.
NothingLeft ==
    /\ oops # "twice"
    /\ \A d \in Devices : pc[d] = "none" =>
          /\ held[d] \in {{}, {"id", "enabled", "regions"}}
          /\ \A k \in Ifs : part[d][k] = {}

\* No two devices in the list share an id, whichever are taken out and come back between,
\* and only that return leaves a device in the list whose memory is gone
\* (mqnic_main.c:77-112).
ListSound ==
    /\ \A d, e \in Listed : d # e => id[d] # id[e]
    /\ \A d \in Listed : pc[d] = "none" => held[d] = {"id", "enabled", "regions"}

\* While the handler of an event queue runs, the queue, its interface, the registers
\* and the completion queue it has found are there: destroying the event queues before
\* the completion queues, and both before the BARs, is what keeps it from using freed
\* memory (mqnic_if.c:202-217, mqnic_main.c:228-231, 447-451).
HandlerSafe ==
    \A d \in Devices, k \in Ifs : inside[d][k] # "none" =>
        /\ {"if", "eq", "eq_buf", inside[d][k]} \subseteq part[d][k]
        /\ {"bar0", "vectors", "regions", "enabled"} \subseteq held[d]
=============================================================================
