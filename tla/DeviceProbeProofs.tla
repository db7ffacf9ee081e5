--------------------------- MODULE DeviceProbeProofs ---------------------------
(***************************************************************************)
(* For any number of devices with any number of interfaces: whatever step  *)
(* of a probe fails, the device is left with nothing but in the one way    *)
(* NothingLeft names, ids are unique and below the number of devices, and  *)
(* no interrupt handler meets anything that is gone.                       *)
(***************************************************************************)
EXTENDS DeviceProbe, TLAPS, FiniteSetTheorems

Left == {"id", "enabled", "regions"}

\* What a device holds at each label.
HeldAt(label, h) ==
    /\ label \in Labels
    /\ label = "none" => h = {} \/ h = Left
    /\ label \in {"enable", "fail_enable_device"} => h = {"id"}
    /\ label \in {"regions", "fail_regions"} => h = {"id", "enabled"}
    /\ label \in {"pa", "bars"} => h = Left
    /\ label \in {"reset", "irqs", "fail_map_bars"} => h \ Bars = Left
    /\ label = "common" => h \ Bars = Left \cup {"vectors"}
    /\ label = "fail_common" => h \ Bars = Left \cup {"vectors", "master"}
    /\ label \in {"create_if", "misc", "fail_create_if"} =>
          h \ (Bars \cup {"phc"}) = Left \cup {"vectors", "master", "board"}
    /\ label = "bound" => h \ (Bars \cup {"phc"}) = Left \cup {"vectors", "master", "board", "misc"}
    /\ label \in {"reset", "irqs", "common", "create_if", "misc", "bound", "fail_create_if",
                  "fail_common"} => "bar0" \in h

HeldFollowsPc ==
    /\ pc = [d \in Devices |-> pc[d]] /\ held = [d \in Devices |-> held[d]]
    /\ \A d \in Devices : HeldAt(pc[d], held[d])
    /\ oops # "twice"

\* The parts of an interface of device d, and who uses them.
PartAt(label, p, i) ==
    /\ p # {} => label \in {"create_if", "misc", "bound", "fail_create_if"}
    /\ "eq_irq" \in p => {"if", "eq", "eq_buf"} \subseteq p
    /\ i \in {"none", "eq", "tx_cpl", "rx_cpl"}
    /\ i # "none" => "eq_irq" \in p /\ i \in {"eq"} \cup p

PartsInOrder ==
    /\ part = [d \in Devices |-> [k \in Ifs |-> part[d][k]]]
    /\ inside = [d \in Devices |-> [k \in Ifs |-> inside[d][k]]]
    /\ \A d \in Devices, k \in Ifs : PartAt(pc[d], part[d][k], inside[d][k])

IdsUnique ==
    /\ id = [d \in Devices |-> id[d]]
    /\ \A d, e \in Listed : d # e => id[d] # id[e]

Inv == HeldFollowsPc /\ PartsInOrder /\ IdsUnique

\* A step of one device keeps what it holds in step with its label.
LEMMA HeldStep ==
    ASSUME HeldFollowsPc, NEW d \in Devices, NEW label, NEW h, HeldAt(label, h),
           pc' = [pc EXCEPT ![d] = label], held' = [held EXCEPT ![d] = h], oops' # "twice"
    PROVE  HeldFollowsPc'
BY DEF HeldFollowsPc

\* What the steps of a probe do to what the device holds.
LEMMA ProbingHeld ==
    ASSUME HeldFollowsPc, NEW d \in Devices, Probing(d)
    PROVE  HeldFollowsPc'
<1> USE DEF Take, Goto, Alive
<1>0. HeldAt(pc[d], held[d])
  BY DEF HeldFollowsPc
<1>1. CASE Probe(d)
  <2>1. HeldAt("enable", {} \cup {"id"})
    BY DEF HeldAt, Labels
  <2> QED
    BY <1>1, <2>1, HeldStep DEF Probe
<1>2. CASE ProbeReadsFreed(d) \/ CreateNetdevFails(d)
  BY <1>2 DEF ProbeReadsFreed, CreateNetdevFails, HeldFollowsPc
<1>3. CASE Enable(d)
  <2>1. HeldAt("regions", held[d] \cup {"enabled"}) /\ HeldAt("fail_enable_device", held[d])
    BY <1>0, <1>3 DEF Enable, HeldAt, Labels
  <2> QED
    BY <1>3, <2>1, HeldStep DEF Enable, HeldFollowsPc
<1>4. CASE Regions(d)
  <2>1. HeldAt("pa", held[d] \cup {"regions"}) /\ HeldAt("fail_regions", held[d])
    BY <1>0, <1>4 DEF Regions, HeldAt, Labels, Left
  <2> QED
    BY <1>4, <2>1, HeldStep DEF Regions, HeldFollowsPc
<1>5. CASE AllocPa(d)
  <2>1. HeldAt("bars", held[d]) /\ HeldAt("none", held[d])
    BY <1>0, <1>5 DEF AllocPa, HeldAt, Labels
  <2> QED
    BY <1>5, <2>1, HeldStep DEF AllocPa, HeldFollowsPc
<1>6. CASE MapBars(d)
  <2>1. ASSUME NEW mapped \in SUBSET Bars
        PROVE  /\ HeldAt("fail_map_bars", held[d] \cup mapped)
               /\ "bar0" \in mapped => HeldAt("reset", held[d] \cup mapped)
    BY <1>0, <1>6, <2>1 DEF MapBars, HeldAt, Labels, Left, Bars
  <2> QED
    BY <1>6, <2>1, HeldStep DEF MapBars
<1>7. CASE CheckReset(d)
  <2>1. HeldAt("irqs", held[d]) /\ HeldAt("fail_map_bars", held[d])
    BY <1>0, <1>7 DEF CheckReset, HeldAt, Labels
  <2> QED
    BY <1>7, <2>1, HeldStep DEF CheckReset, HeldFollowsPc
<1>8. CASE IrqInit(d)
  <2>1. HeldAt("common", held[d] \cup {"vectors"}) /\ HeldAt("fail_map_bars", held[d])
    BY <1>0, <1>8 DEF IrqInit, HeldAt, Labels, Left, Bars
  <2> QED
    BY <1>8, <2>1, HeldStep DEF IrqInit, HeldFollowsPc
<1>9. CASE CommonProbe(d)
  <2>1. HeldAt("fail_common", held[d] \cup {"master"})
    BY <1>0, <1>9 DEF CommonProbe, HeldAt, Labels, Left, Bars
  <2>2. ASSUME NEW phc \in SUBSET {"phc"}
        PROVE  HeldAt("create_if", held[d] \cup ({"master", "board"} \cup phc))
    BY <1>0, <1>9, <2>2, ZenonT(30) DEF CommonProbe, HeldAt, Labels, Left, Bars
  <2> QED
    BY <1>9, <2>1, <2>2, HeldStep DEF CommonProbe
<1>10. CASE CreatePart(d)
  BY <1>10 DEF CreatePart, HeldFollowsPc
<1>11. CASE CreatePartFails(d)
  <2>1. HeldAt("fail_create_if", held[d])
    BY <1>0, <1>11 DEF CreatePartFails, HeldAt, Labels
  <2> QED
    BY <1>11, <2>1, HeldStep DEF CreatePartFails, HeldFollowsPc
<1>12. CASE InterfacesDone(d)
  <2>1. HeldAt("misc", held[d])
    BY <1>0, <1>12 DEF InterfacesDone, HeldAt, Labels
  <2> QED
    BY <1>12, <2>1, HeldStep DEF InterfacesDone, HeldFollowsPc
<1>13. CASE MiscRegister(d)
  <2>1. HeldAt("bound", held[d] \cup {"misc"}) /\ HeldAt("fail_create_if", held[d])
    BY <1>0, <1>13 DEF MiscRegister, HeldAt, Labels, Left, Bars
  <2> QED
    BY <1>13, <2>1, HeldStep DEF MiscRegister, HeldFollowsPc
<1> QED
  BY <1>1, <1>2, <1>3, <1>4, <1>5, <1>6, <1>7, <1>8, <1>9, <1>10, <1>11, <1>12, <1>13 DEF Probing

\* The way back releases what is held, whether it tests for it or not.
LEMMA UnwindingHeld ==
    ASSUME HeldFollowsPc, NEW d \in Devices, Unwinding(d)
    PROVE  HeldFollowsPc'
<1>0. HeldAt(pc[d], held[d])
  BY DEF HeldFollowsPc
<1>1. ASSUME NEW label, NEW tested, NEW untested, Goto(d, label), Release(d, tested, untested),
             untested \subseteq held[d], HeldAt(label, held[d] \ (tested \cup untested))
      PROVE  HeldFollowsPc'
  BY <1>1, HeldStep DEF Release, Goto
<1>2. CASE Remove(d)
  <2>1. Goto(d, "fail_create_if") /\ Release(d, {}, {"misc"})
    BY <1>2 DEF Remove
  <2>2. {"misc"} \subseteq held[d] /\ HeldAt("fail_create_if", held[d] \ ({} \cup {"misc"}))
    BY <1>0, <1>2 DEF Remove, HeldAt, Labels, Left, Bars
  <2> QED
    BY <1>1, <2>1, <2>2
<1>3. CASE DestroyPart(d)
  BY <1>3 DEF DestroyPart, HeldFollowsPc, Alive
<1>4. CASE FailCreateIf(d)
  <2>1. Goto(d, "fail_common") /\ Release(d, {"phc"}, {"board"})
    BY <1>4 DEF FailCreateIf
  <2>2. {"board"} \subseteq held[d] /\ HeldAt("fail_common", held[d] \ ({"phc"} \cup {"board"}))
    BY <1>0, <1>4 DEF FailCreateIf, HeldAt, Labels, Left, Bars
  <2> QED
    BY <1>1, <2>1, <2>2
<1>5. CASE FailCommon(d)
  <2>1. Goto(d, "fail_map_bars") /\ Release(d, {}, {"master", "vectors"})
    BY <1>5 DEF FailCommon
  <2>2. {"master", "vectors"} \subseteq held[d] /\ HeldAt("fail_map_bars", held[d] \ ({} \cup {"master", "vectors"}))
    BY <1>0, <1>5 DEF FailCommon, HeldAt, Labels, Left, Bars
  <2> QED
    BY <1>1, <2>1, <2>2
<1>6. CASE FailMapBars(d)
  <2>1. Goto(d, "fail_regions") /\ Release(d, Bars, {"regions"})
    BY <1>6 DEF FailMapBars
  <2>2. {"regions"} \subseteq held[d] /\ HeldAt("fail_regions", held[d] \ (Bars \cup {"regions"}))
    BY <1>0, <1>6 DEF FailMapBars, HeldAt, Labels, Left, Bars
  <2> QED
    BY <1>1, <2>1, <2>2
<1>7. CASE FailRegions(d)
  <2>1. Goto(d, "fail_enable_device") /\ Release(d, {}, {"enabled"})
    BY <1>7 DEF FailRegions
  <2>2. {"enabled"} \subseteq held[d] /\ HeldAt("fail_enable_device", held[d] \ ({} \cup {"enabled"}))
    BY <1>0, <1>7 DEF FailRegions, HeldAt, Labels
  <2> QED
    BY <1>1, <2>1, <2>2
<1>8. CASE FailEnableDevice(d)
  <2>1. Goto(d, "none") /\ Release(d, {}, {"id"})
    BY <1>8 DEF FailEnableDevice
  <2>2. {"id"} \subseteq held[d] /\ HeldAt("none", held[d] \ ({} \cup {"id"}))
    BY <1>0, <1>8 DEF FailEnableDevice, HeldAt, Labels
  <2> QED
    BY <1>1, <2>1, <2>2
<1>9. CASE FreeIdBesideFreed(d)
  BY <1>9 DEF FreeIdBesideFreed, HeldFollowsPc
<1> QED
  BY <1>2, <1>3, <1>4, <1>5, <1>6, <1>7, <1>8, <1>9 DEF Unwinding

\* A step of one device that leaves its interfaces alone.
LEMMA PartLabel ==
    ASSUME HeldFollowsPc, PartsInOrder, NEW d \in Devices, NEW label, Goto(d, label),
           UNCHANGED <<part, inside>>,
           \/ label \in {"create_if", "misc", "bound", "fail_create_if"}
           \/ \A k \in Ifs : part[d][k] = {}
    PROVE  PartsInOrder'
BY DEF HeldFollowsPc, PartsInOrder, PartAt, Goto

\* Writing one entry of a table with a row for each device.
LEMMA TableUpdate ==
    ASSUME NEW f, f = [e \in Devices |-> [j \in Ifs |-> f[e][j]]],
           NEW d \in Devices, NEW k \in Ifs, NEW v
    PROVE  /\ [f EXCEPT ![d][k] = v]
                 = [e \in Devices |-> IF e = d THEN [f[d] EXCEPT ![k] = v] ELSE f[e]]
           /\ [f[d] EXCEPT ![k] = v] = [j \in Ifs |-> IF j = k THEN v ELSE f[d][j]]
           /\ \A e \in Devices : f[e] = [j \in Ifs |-> f[e][j]]
<1>1. \A e \in Devices : f[e] = [j \in Ifs |-> f[e][j]]
  OBVIOUS
<1>2. [f[d] EXCEPT ![k] = v] = [j \in Ifs |-> IF j = k THEN v ELSE f[d][j]]
  BY <1>1
<1>3. [f EXCEPT ![d][k] = v] = [e \in Devices |-> IF e = d THEN [f[d] EXCEPT ![k] = v] ELSE f[e]]
  OBVIOUS
<1> QED
  BY <1>1, <1>2, <1>3

\* A step that changes one interface of one device.
LEMMA PartStep ==
    ASSUME PartsInOrder, NEW d \in Devices, NEW k \in Ifs, NEW p, NEW i, PartAt(pc[d], p, i),
           part' = [part EXCEPT ![d][k] = p], inside' = [inside EXCEPT ![d][k] = i], pc' = pc
    PROVE  PartsInOrder'
<1>1. /\ part' = [e \in Devices |-> IF e = d THEN [part[d] EXCEPT ![k] = p] ELSE part[e]]
      /\ [part[d] EXCEPT ![k] = p] = [j \in Ifs |-> IF j = k THEN p ELSE part[d][j]]
      /\ \A e \in Devices : part[e] = [j \in Ifs |-> part[e][j]]
  BY TableUpdate DEF PartsInOrder
<1>2. /\ inside' = [e \in Devices |-> IF e = d THEN [inside[d] EXCEPT ![k] = i] ELSE inside[e]]
      /\ [inside[d] EXCEPT ![k] = i] = [j \in Ifs |-> IF j = k THEN i ELSE inside[d][j]]
      /\ \A e \in Devices : inside[e] = [j \in Ifs |-> inside[e][j]]
  BY TableUpdate DEF PartsInOrder
<1>3. ASSUME NEW e \in Devices, NEW j \in Ifs
      PROVE  PartAt(pc'[e], part'[e][j], inside'[e][j])
  BY <1>1, <1>2 DEF PartsInOrder
<1>4. /\ part' = [e \in Devices |-> [j \in Ifs |-> part'[e][j]]]
      /\ inside' = [e \in Devices |-> [j \in Ifs |-> inside'[e][j]]]
  <2>1. \A e \in Devices : part'[e] = [j \in Ifs |-> part'[e][j]]
    BY <1>1
  <2>2. \A e \in Devices : inside'[e] = [j \in Ifs |-> inside'[e][j]]
    BY <1>2
  <2>3. part' = [e \in Devices |-> part'[e]] /\ inside' = [e \in Devices |-> inside'[e]]
    BY <1>1, <1>2
  <2> QED
    BY <2>1, <2>2, <2>3
<1> QED
  BY <1>3, <1>4 DEF PartsInOrder

LEMMA PartSame == ASSUME PartsInOrder, UNCHANGED <<pc, part, inside>> PROVE PartsInOrder'
BY DEF PartsInOrder

\* The parts an event queue's interrupt needs come before it and go after it.
LEMMA Order ==
    /\ DOMAIN Created = 1..15 /\ DOMAIN Destroyed = 1..15
    /\ Created[1] = "if" /\ Created[2] = "eq" /\ Created[3] = "eq_buf" /\ Created[4] = "eq_irq"
    /\ \A i \in 1..15 : Created[i] = "eq_irq" => i = 4
    /\ Destroyed[7] = "eq_irq"
    /\ \A i \in 1..15 : Destroyed[i] \in {"if", "eq", "eq_buf", "tx_cpl", "rx_cpl"} => i > 7
BY DEF Created, Destroyed

LEMMA CreatePartInOrder ==
    ASSUME PartsInOrder, NEW d \in Devices, CreatePart(d)
    PROVE  PartsInOrder'
<1>1. PICK k \in Ifs, i \in DOMAIN Created :
          IsNext(d, k, i) /\ part' = [part EXCEPT ![d][k] = @ \cup {Created[i]}]
  BY DEF CreatePart
<1> DEFINE p == part[d][k] \cup {Created[i]}
<1>2. pc[d] = "create_if" /\ UNCHANGED <<pc, inside>>
  BY DEF CreatePart
<1>3. PartAt(pc[d], part[d][k], inside[d][k])
  BY DEF PartsInOrder
<1>4. Created[i] = "eq_irq" => {"if", "eq", "eq_buf"} \subseteq part[d][k]
  <2>1. i \in 1..15 /\ \A j \in 1..15 : Created[j] \notin part[d][k] => i <= j
    BY <1>1, Order DEF IsNext, Missing
  <2> QED
    BY <2>1, Order
<1>5. PartAt(pc[d], p, inside[d][k])
  BY <1>2, <1>3, <1>4 DEF PartAt
<1>6. part' = [part EXCEPT ![d][k] = p] /\ inside' = [inside EXCEPT ![d][k] = inside[d][k]]
  BY <1>1, <1>2 DEF PartsInOrder
<1> HIDE DEF p
<1> QED
  BY <1>2, <1>5, <1>6, PartStep

LEMMA DestroyPartInOrder ==
    ASSUME PartsInOrder, NEW d \in Devices, DestroyPart(d)
    PROVE  PartsInOrder'
<1>1. PICK k \in Ifs : \E i \in Present(d, k) :
          /\ Going(d, k) /\ \A j \in Present(d, k) : i <= j
          /\ Destroyed[i] = "eq_irq" => inside[d][k] = "none"
          /\ part' = [part EXCEPT ![d][k] = @ \ {Destroyed[i]}]
  BY DEF DestroyPart
<1>2. PICK i \in Present(d, k) :
          /\ \A j \in Present(d, k) : i <= j
          /\ Destroyed[i] = "eq_irq" => inside[d][k] = "none"
          /\ part' = [part EXCEPT ![d][k] = @ \ {Destroyed[i]}]
  BY <1>1
<1> DEFINE p == part[d][k] \ {Destroyed[i]}
<1>3. pc[d] = "fail_create_if" /\ UNCHANGED <<pc, inside>>
  BY DEF DestroyPart
<1>4. PartAt(pc[d], part[d][k], inside[d][k])
  BY DEF PartsInOrder
<1>5. i \in 1..15 /\ ("eq_irq" \in part[d][k] => i <= 7)
  BY <1>2, Order DEF Present
<1>6. "eq_irq" \in part[d][k] => Destroyed[i] \notin {"if", "eq", "eq_buf", "tx_cpl", "rx_cpl"}
  BY <1>5, Order
<1>7. "eq_irq" \in p => {"if", "eq", "eq_buf"} \subseteq p
  BY <1>4, <1>6 DEF PartAt
<1>8. inside[d][k] # "none" => inside[d][k] \in {"eq", "tx_cpl", "rx_cpl"}
  BY <1>4 DEF PartAt
<1>9. inside[d][k] # "none" => "eq_irq" \in p /\ inside[d][k] \in {"eq"} \cup p
  BY <1>2, <1>4, <1>6, <1>8 DEF PartAt
<1>10. PartAt(pc[d], p, inside[d][k])
  BY <1>3, <1>4, <1>7, <1>9 DEF PartAt
<1>11. part' = [part EXCEPT ![d][k] = p] /\ inside' = [inside EXCEPT ![d][k] = inside[d][k]]
  BY <1>2, <1>3 DEF PartsInOrder
<1> HIDE DEF p
<1> QED
  BY <1>3, <1>10, <1>11, PartStep

\* The handler starts only where the interrupt is registered, and takes what is there.
LEMMA HandlingInOrder ==
    ASSUME PartsInOrder, NEW d \in Devices, Handling(d)
    PROVE  PartsInOrder'
<1>1. PICK k \in Ifs : HandlerStarts(d, k) \/ HandlerFinds(d, k) \/ HandlerEnds(d, k)
  BY DEF Handling
<1>2. PartAt(pc[d], part[d][k], inside[d][k])
  BY DEF PartsInOrder
<1>3. PICK i \in {"none", "eq", "tx_cpl", "rx_cpl"} :
          /\ inside' = [inside EXCEPT ![d][k] = i]
          /\ i # "none" => "eq_irq" \in part[d][k] /\ i \in {"eq"} \cup part[d][k]
  <2>1. CASE HandlerStarts(d, k)
    BY <2>1 DEF HandlerStarts
  <2>2. CASE HandlerFinds(d, k)
    BY <1>2, <2>2 DEF HandlerFinds, PartAt
  <2>3. CASE HandlerEnds(d, k)
    BY <2>3 DEF HandlerEnds
  <2> QED
    BY <1>1, <2>1, <2>2, <2>3
<1>4. PartAt(pc[d], part[d][k], i)
  BY <1>2, <1>3 DEF PartAt
<1>5. UNCHANGED <<pc, part>>
  BY <1>1 DEF HandlerStarts, HandlerFinds, HandlerEnds
<1>6. part' = [part EXCEPT ![d][k] = part[d][k]]
  BY <1>5 DEF PartsInOrder
<1> QED
  BY <1>3, <1>4, <1>5, <1>6, PartStep

LEMMA NextInOrder ==
    ASSUME HeldFollowsPc, PartsInOrder, NEW d \in Devices, Probing(d) \/ Unwinding(d) \/ Handling(d)
    PROVE  PartsInOrder'
<1>1. pc[d] \notin {"create_if", "misc", "bound", "fail_create_if"} => \A k \in Ifs : part[d][k] = {}
  BY DEF PartsInOrder, PartAt
<1>2. CASE \/ Probe(d) \/ Enable(d) \/ Regions(d) \/ AllocPa(d) \/ MapBars(d) \/ CheckReset(d)
           \/ IrqInit(d) \/ CommonProbe(d)
  <2>1. UNCHANGED <<part, inside>> /\ \A k \in Ifs : part[d][k] = {}
    BY <1>1, <1>2 DEF Probe, Enable, Regions, AllocPa, MapBars, CheckReset, IrqInit, CommonProbe
  <2>2. \E label \in Labels : Goto(d, label)
    BY <1>2 DEF Probe, Enable, Regions, AllocPa, MapBars, CheckReset, IrqInit, CommonProbe, Labels
  <2> QED
    BY <2>1, <2>2, PartLabel
<1>3. CASE ProbeReadsFreed(d) \/ CreateNetdevFails(d) \/ FreeIdBesideFreed(d)
  BY <1>3, PartSame DEF ProbeReadsFreed, CreateNetdevFails, FreeIdBesideFreed
<1>4. CASE CreatePart(d)
  BY <1>4, CreatePartInOrder
<1>5. CASE CreatePartFails(d) \/ InterfacesDone(d) \/ MiscRegister(d) \/ Remove(d)
  <2>1. UNCHANGED <<part, inside>>
    BY <1>5 DEF CreatePartFails, InterfacesDone, MiscRegister, Remove
  <2>2. \E label \in {"misc", "bound", "fail_create_if"} : Goto(d, label)
    BY <1>5 DEF CreatePartFails, InterfacesDone, MiscRegister, Remove
  <2> QED
    BY <2>1, <2>2, PartLabel
<1>6. CASE DestroyPart(d)
  BY <1>6, DestroyPartInOrder
<1>7. CASE FailCreateIf(d) \/ FailCommon(d) \/ FailMapBars(d) \/ FailRegions(d) \/ FailEnableDevice(d)
  <2>1. UNCHANGED <<part, inside>> /\ \A k \in Ifs : part[d][k] = {}
    BY <1>1, <1>7 DEF FailCreateIf, FailCommon, FailMapBars, FailRegions, FailEnableDevice
  <2>2. \E label \in Labels : Goto(d, label)
    BY <1>7 DEF FailCreateIf, FailCommon, FailMapBars, FailRegions, FailEnableDevice, Labels
  <2> QED
    BY <2>1, <2>2, PartLabel
<1>8. CASE Handling(d)
  BY <1>8, HandlingInOrder
<1> QED
  BY <1>2, <1>3, <1>4, <1>5, <1>6, <1>7, <1>8 DEF Probing, Unwinding

\* A free id is nobody's; no other step gives a device an id or puts it into the list.
LEMMA NextIdsUnique ==
    ASSUME HeldFollowsPc, IdsUnique, NEW d \in Devices, Probing(d) \/ Unwinding(d) \/ Handling(d)
    PROVE  IdsUnique'
<1>1. CASE Probe(d)
  <2>1. PICK n : n \notin Used /\ id' = [id EXCEPT ![d] = n]
    BY <1>1 DEF Probe, FreeId
  <2>2. Listed' = Listed \cup {d}
    BY <1>1 DEF Probe, Take, Listed, HeldFollowsPc
  <2>3. \A e \in Listed : id[e] # n
    BY <2>1 DEF Used
  <2>4. d \notin Listed
    BY <1>1 DEF Probe, Listed
  <2>5. id' = [e \in Devices |-> id'[e]] /\ id'[d] = n /\ \A e \in Devices : e # d => id'[e] = id[e]
    BY <2>1 DEF IdsUnique
  <2>6. Listed \subseteq Devices
    BY DEF Listed
  <2> QED
    BY <2>2, <2>3, <2>4, <2>5, <2>6 DEF IdsUnique
<1>2. CASE ~Probe(d)
  <2>1. id' = id
    BY <1>2 DEF Probing, Unwinding, Handling, ProbeReadsFreed, Enable, Regions, AllocPa, MapBars,
        CheckReset, IrqInit, CommonProbe, CreatePart, CreatePartFails, CreateNetdevFails,
        InterfacesDone, MiscRegister, Remove, DestroyPart, FailCreateIf, FailCommon, FailMapBars,
        FailRegions, FailEnableDevice, FreeIdBesideFreed, HandlerStarts, HandlerFinds, HandlerEnds
  <2>2. \E h : held' = [held EXCEPT ![d] = h] /\ ("id" \in h => "id" \in held[d])
    <3>1. CASE held' = held
      <4>1. held' = [held EXCEPT ![d] = held[d]]
        BY <3>1 DEF HeldFollowsPc
      <4> QED
        BY <4>1
    <3>2. CASE held' # held
      <4> DEFINE Takes == \E what : Take(d, what) /\ "id" \notin what
                 Releases == \E tested, untested : Release(d, tested, untested)
      <4>1. ASSUME Enable(d) \/ Regions(d) \/ IrqInit(d) \/ MiscRegister(d) PROVE Takes \/ Releases
        <5>1. \/ Take(d, {"enabled"}) \/ Take(d, {"regions"}) \/ Take(d, {"vectors"})
              \/ Take(d, {"misc"})
          BY <3>2, <4>1 DEF Enable, Regions, IrqInit, MiscRegister
        <5> QED
          BY <5>1
      <4>2. ASSUME MapBars(d) PROVE Takes \/ Releases
        BY <4>2 DEF MapBars, Bars
      <4>3. ASSUME CommonProbe(d) PROVE Takes \/ Releases
        <5>1. PICK phc \in SUBSET {"phc"} : Take(d, {"master"}) \/ Take(d, {"master", "board"} \cup phc)
          BY <4>3 DEF CommonProbe
        <5>2. "id" \notin {"master", "board"} \cup phc /\ "id" \notin {"master"}
          OBVIOUS
        <5> QED
          BY <5>1, <5>2
      <4>4. ASSUME Remove(d) \/ FailCreateIf(d) \/ FailCommon(d) PROVE Takes \/ Releases
        BY <4>4 DEF Remove, FailCreateIf, FailCommon
      <4>5. ASSUME FailMapBars(d) \/ FailRegions(d) \/ FailEnableDevice(d) PROVE Takes \/ Releases
        BY <4>5 DEF FailMapBars, FailRegions, FailEnableDevice
      <4>6. \/ Enable(d) \/ Regions(d) \/ IrqInit(d) \/ MiscRegister(d) \/ MapBars(d)
            \/ CommonProbe(d) \/ Remove(d) \/ FailCreateIf(d) \/ FailCommon(d) \/ FailMapBars(d)
            \/ FailRegions(d) \/ FailEnableDevice(d)
        BY <1>2, <3>2 DEF Probing, Unwinding, Handling,
            ProbeReadsFreed, AllocPa, CheckReset, CreatePart, CreatePartFails, CreateNetdevFails,
            InterfacesDone, DestroyPart, FreeIdBesideFreed, HandlerStarts, HandlerFinds, HandlerEnds
      <4>7. Takes \/ Releases
        <5> HIDE DEF Takes, Releases
        <5> QED
          BY <4>1, <4>2, <4>3, <4>4, <4>5, <4>6
      <4> QED
        BY <4>7 DEF Take, Release
    <3> QED
      BY <3>1, <3>2
  <2>3. Listed' \subseteq Listed
    BY <2>2 DEF Listed, HeldFollowsPc
  <2> QED
    BY <2>1, <2>3 DEF IdsUnique
<1> QED
  BY <1>1, <1>2

LEMMA InitInv == Init => Inv
<1> SUFFICES ASSUME Init PROVE Inv
  OBVIOUS
<1>1. HeldFollowsPc
  BY DEF Init, HeldFollowsPc, HeldAt, Labels
<1>2. PartsInOrder
  BY DEF Init, PartsInOrder, PartAt
<1>3. IdsUnique
  BY DEF Init, IdsUnique, Listed
<1> QED
  BY <1>1, <1>2, <1>3 DEF Inv

\* Every step of a probe, a removal or a handler keeps the invariant.
THEOREM NextInv == Inv /\ [Next]_vars => Inv'
<1> SUFFICES ASSUME Inv, [Next]_vars PROVE Inv'
  OBVIOUS
<1>1. ASSUME NEW d \in Devices, Probing(d) \/ Unwinding(d) \/ Handling(d) PROVE Inv'
  <2>1. HeldFollowsPc'
    <3>1. CASE Handling(d)
      BY <3>1 DEF Handling, HandlerStarts, HandlerFinds, HandlerEnds, Alive, Inv, HeldFollowsPc
    <3> QED
      BY <1>1, <3>1, ProbingHeld, UnwindingHeld DEF Inv
  <2> QED
    BY <1>1, <2>1, NextInOrder, NextIdsUnique DEF Inv
<1>2. CASE UNCHANGED vars
  BY <1>2 DEF vars, Inv, HeldFollowsPc, PartsInOrder, IdsUnique, Listed
<1> QED
  BY <1>1, <1>2 DEF Next

\* A device that is not bound holds nothing, at whatever step its probe failed, but what
\* the early return leaves (mqnic_main.c:332-334); nothing is released twice.
THEOREM NothingLeftTheorem == Spec => []NothingLeft
<1>1. Inv => NothingLeft
  BY SMTT(30) DEF Inv, HeldFollowsPc, HeldAt, PartsInOrder, PartAt, NothingLeft, Left
<1> QED
  BY <1>1, InitInv, NextInv, PTL DEF Spec

\* Ids are unique in the list, and only that return leaves a freed device in it.
THEOREM ListSoundTheorem == Spec => []ListSound
<1>1. Inv => ListSound
  BY DEF Inv, HeldFollowsPc, HeldAt, IdsUnique, Listed, ListSound, Left
<1> QED
  BY <1>1, InitInv, NextInv, PTL DEF Spec

\* The handler of an event queue never meets a queue, an interface or a BAR that is gone.
THEOREM HandlerSafeTheorem == Spec => []HandlerSafe
<1>1. Inv => HandlerSafe
  <2> SUFFICES ASSUME Inv, NEW d \in Devices, NEW k \in Ifs, inside[d][k] # "none"
               PROVE  /\ {"if", "eq", "eq_buf", inside[d][k]} \subseteq part[d][k]
                      /\ {"bar0", "vectors", "regions", "enabled"} \subseteq held[d]
    BY DEF HandlerSafe
  <2>1. PartAt(pc[d], part[d][k], inside[d][k]) /\ HeldAt(pc[d], held[d])
    BY DEF Inv, PartsInOrder, HeldFollowsPc
  <2>2. pc[d] \in {"create_if", "misc", "bound", "fail_create_if"}
    BY <2>1 DEF PartAt
  <2>3. {"bar0", "vectors", "regions", "enabled"} \subseteq held[d]
    BY <2>1, <2>2 DEF HeldAt, Left, Bars
  <2> QED
    BY <2>1, <2>3 DEF PartAt
<1> QED
  BY <1>1, InitInv, NextInv, PTL DEF Spec


-----------------------------------------------------------------------------
(* The types of the variables: the numbers of the devices stay below their count. *)

\* A free number below which all are taken is below the count of the devices: the device
\* that asks for one is not in the list itself.
LEMMA FreeIdBelow ==
    ASSUME id \in [Devices -> Ids], NEW d \in Devices \ Listed, NEW n \in Nat, FreeId(n)
    PROVE  n \in Ids
<1>1. IsFiniteSet(Devices)
  BY DeviceAssumption
<1>2. /\ IsFiniteSet(Devices \ {d}) /\ Cardinality(Devices \ {d}) = Cardinality(Devices) - 1
      /\ Cardinality(Devices) \in Nat
  BY <1>1, FS_RemoveElement, FS_CardinalityType
<1>3. Listed \in SUBSET (Devices \ {d})
  BY DEF Listed
<1>4. /\ IsFiniteSet(Listed) /\ Cardinality(Listed) <= Cardinality(Devices \ {d})
      /\ Cardinality(Listed) \in Nat
  BY <1>2, <1>3, FS_Subset, FS_CardinalityType
<1> DEFINE f == [e \in Listed |-> id[e]]
<1>5. f \in Surjection(Listed, Used)
  BY DEF Used, Surjection
<1>6. IsFiniteSet(Used) /\ Cardinality(Used) <= Cardinality(Listed) /\ Cardinality(Used) \in Nat
  <2> HIDE DEF f
  <2> QED
    BY <1>4, <1>5, FS_Surjection, FS_CardinalityType
<1>7. 0..n - 1 \in SUBSET Used
  BY DEF FreeId
<1>8. Cardinality(0..n - 1) <= Cardinality(Used)
  BY <1>6, <1>7, FS_Subset
<1>9. Cardinality(0..n - 1) = n
  <2>1. 0 \in Int /\ n - 1 \in Int
    OBVIOUS
  <2>2. Cardinality(0..n - 1) = IF 0 > n - 1 THEN 0 ELSE n - 1 - 0 + 1
    BY <2>1, FS_Interval
  <2> QED
    BY <2>2
<1> QED
  BY <1>2, <1>4, <1>6, <1>8, <1>9 DEF Ids

\* What the interfaces and their handlers hold keeps its type when one of them changes.
LEMMA RowTyped ==
    ASSUME NEW S, NEW f \in [Devices -> [Ifs -> S]], NEW d \in Devices, NEW k \in Ifs, NEW v \in S
    PROVE  [f EXCEPT ![d][k] = v] \in [Devices -> [Ifs -> S]]
OBVIOUS

\* A step of one device keeps the types: the labels and resources are those its invariant
\* names, the parts are of those created.
LEMMA StepTyped ==
    ASSUME Inv, TypeOK, NEW d \in Devices, Probing(d) \/ Unwinding(d) \/ Handling(d), Inv'
    PROVE  TypeOK'
<1>1. pc' \in [Devices -> Labels]
  BY DEF Inv, HeldFollowsPc, HeldAt
<1>2. held' \in [Devices -> SUBSET Resources]
  BY DEF Inv, HeldFollowsPc, HeldAt, Labels, Resources, Left, Bars
<1>3. inside' \in [Devices -> [Ifs -> {"none", "eq", "tx_cpl", "rx_cpl"}]]
  <2>1. \A e \in Devices, j \in Ifs : inside'[e][j] \in {"none", "eq", "tx_cpl", "rx_cpl"}
    BY DEF Inv, PartsInOrder, PartAt
  <2>2. inside' = [e \in Devices |-> [j \in Ifs |-> inside'[e][j]]]
    BY DEF Inv, PartsInOrder
  <2> QED
    BY <2>1, <2>2
<1>4. oops' \in {"no", "list", "netdev", "twice"}
  BY DEF TypeOK, Probing, Unwinding, Handling, ProbeReadsFreed, Enable, Regions, AllocPa, MapBars,
      CheckReset, IrqInit, CommonProbe, CreatePart, CreatePartFails, CreateNetdevFails,
      InterfacesDone, MiscRegister, Remove, DestroyPart, FailCreateIf, FailCommon, FailMapBars,
      FailRegions, FailEnableDevice, FreeIdBesideFreed, HandlerStarts, HandlerFinds, HandlerEnds,
      Probe, Alive, Release
<1>5. id' \in [Devices -> Ids]
  <2>1. CASE Probe(d)
    <3>1. PICK n \in 0..Cardinality(Devices) : FreeId(n) /\ id' = [id EXCEPT ![d] = n]
      BY <2>1 DEF Probe
    <3>2. n \in Nat /\ d \in Devices \ Listed
      BY <2>1 DEF Probe, Listed
    <3>3. n \in Ids
      BY <3>1, <3>2, FreeIdBelow DEF TypeOK
    <3> QED
      BY <3>1, <3>3 DEF TypeOK
  <2>2. CASE ~Probe(d)
    <3>1. id' = id
      BY <2>2 DEF Probing, Unwinding, Handling, ProbeReadsFreed, Enable, Regions, AllocPa, MapBars,
          CheckReset, IrqInit, CommonProbe, CreatePart, CreatePartFails, CreateNetdevFails,
          InterfacesDone, MiscRegister, Remove, DestroyPart, FailCreateIf, FailCommon, FailMapBars,
          FailRegions, FailEnableDevice, FreeIdBesideFreed, HandlerStarts, HandlerFinds, HandlerEnds
    <3> QED
      BY <3>1 DEF TypeOK
  <2> QED
    BY <2>1, <2>2
<1>6. part' \in [Devices -> [Ifs -> SUBSET Parts]]
  <2>1. CASE CreatePart(d)
    <3>1. PICK k \in Ifs, i \in DOMAIN Created : part' = [part EXCEPT ![d][k] = @ \cup {Created[i]}]
      BY <2>1 DEF CreatePart
    <3> DEFINE p == part[d][k] \cup {Created[i]}
    <3>2. p \in SUBSET Parts
      BY <3>1 DEF TypeOK, Parts
    <3>3. part' = [part EXCEPT ![d][k] = p]
      BY <3>1
    <3> HIDE DEF p
    <3> QED
      BY <3>2, <3>3, RowTyped DEF TypeOK
  <2>2. CASE DestroyPart(d)
    <3>1. PICK k \in Ifs, i \in DOMAIN Destroyed : part' = [part EXCEPT ![d][k] = @ \ {Destroyed[i]}]
      BY <2>2 DEF DestroyPart, Present
    <3> DEFINE p == part[d][k] \ {Destroyed[i]}
    <3>2. p \in SUBSET Parts
      BY <3>1 DEF TypeOK
    <3>3. part' = [part EXCEPT ![d][k] = p]
      BY <3>1
    <3> HIDE DEF p
    <3> QED
      BY <3>2, <3>3, RowTyped DEF TypeOK
  <2>3. CASE ~CreatePart(d) /\ ~DestroyPart(d)
    <3>1. part' = part
      BY <2>3 DEF Probing, Unwinding, Handling, Probe, ProbeReadsFreed, Enable, Regions, AllocPa,
          MapBars, CheckReset, IrqInit, CommonProbe, CreatePartFails, CreateNetdevFails,
          InterfacesDone, MiscRegister, Remove, FailCreateIf, FailCommon, FailMapBars,
          FailRegions, FailEnableDevice, FreeIdBesideFreed, HandlerStarts, HandlerFinds, HandlerEnds
    <3> QED
      BY <3>1 DEF TypeOK
  <2> QED
    BY <2>1, <2>2, <2>3
<1> QED
  BY <1>1, <1>2, <1>3, <1>4, <1>5, <1>6 DEF TypeOK

\* Every variable keeps its type: above all, a device never gets a number that is not below
\* the count of the devices, whatever left its place in the list (mqnic_main.c:77-112).
THEOREM TypeCorrect == Spec => []TypeOK
<1>1. Init => TypeOK
  <2> SUFFICES ASSUME Init PROVE TypeOK
    OBVIOUS
  <2>1. 0 \in Ids \/ Devices = {}
    <3> SUFFICES ASSUME NEW d \in Devices PROVE 0 \in Ids
      OBVIOUS
    <3>1. IsFiniteSet(Devices) /\ Devices # {}
      BY DeviceAssumption
    <3>2. Cardinality(Devices) \in Nat
      BY <3>1, FS_CardinalityType
    <3>3. Cardinality(Devices) # 0
      BY <3>1, FS_EmptySet
    <3> QED
      BY <3>2, <3>3 DEF Ids
  <2>2. id \in [Devices -> Ids]
    BY <2>1 DEF Init
  <2> QED
    BY <2>2 DEF Init, TypeOK, Labels
<1>2. (Inv /\ TypeOK) /\ [Next]_vars => (Inv /\ TypeOK)'
  <2> SUFFICES ASSUME Inv, TypeOK, [Next]_vars PROVE Inv' /\ TypeOK'
    OBVIOUS
  <2>1. Inv'
    BY NextInv
  <2>2. ASSUME NEW d \in Devices, Probing(d) \/ Unwinding(d) \/ Handling(d) PROVE TypeOK'
    BY <2>1, <2>2, StepTyped
  <2>3. CASE UNCHANGED vars
    BY <2>1, <2>3 DEF vars, TypeOK
  <2> QED
    BY <2>1, <2>2, <2>3 DEF Next
<1> QED
  BY <1>1, <1>2, InitInv, PTL DEF Spec
=============================================================================
