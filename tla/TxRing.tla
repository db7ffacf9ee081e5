------------------------------- MODULE TxRing -------------------------------
(***************************************************************************)
(* One transmit ring: mqnic_start_xmit on the sending CPU, the NIC that    *)
(* fetches descriptors and writes completions, and mqnic_process_tx_cq on  *)
(* the CPU that polls (mqnic_tx.c).                                        *)
(*                                                                         *)
(* The ring lives between four pointers: clean_tail (slots before it are   *)
(* free), tail (fetched by the NIC), the NIC's head (rung) and head        *)
(* (posted).  The driver's pointers are 32 bits wide and the NIC's 16; a   *)
(* register is read by adding the masked difference (SwMod and HwMod       *)
(* below).  The sender stops its queue when half the ring is in use and    *)
(* whoever finds room again wakes it; neither holds a lock the other       *)
(* takes, so the test and the act are separate steps here.                 *)
(*                                                                         *)
(* The completion queue delivers as CplDelivery says: a poll eventually    *)
(* looks at a queue that holds completions.                                *)
(***************************************************************************)
EXTENDS Integers, Sequences

CONSTANTS
    Size,     \* slots of the ring; the CQ has as many entries (mqnic_num_tx_queue_entries)
    SwMod,    \* 2^32: the driver's pointers
    HwMod,    \* 2^16: the NIC's pointers
    Budget,   \* completions one poll may process
    MayDrop   \* whether a packet can be dropped after the queue was picked

ASSUME RingAssumption ==
    /\ Size \in Nat /\ Budget \in Nat \ {0} /\ MayDrop \in BOOLEAN
    /\ Size >= 2 /\ Size % 2 = 0
    /\ HwMod \in Nat /\ HwMod > Size /\ HwMod % Size = 0
    /\ SwMod \in Nat \ {0} /\ SwMod % HwMod = 0

\* ring->full_size
FullSize == Size \div 2

VARIABLES
    head,      \* ring->head_ptr, written by the sender
    tail,      \* ring->tail_ptr, the poll's copy of the NIC's tail
    clean,     \* ring->clean_tail_ptr, as the poll wrote it
    cleanSeen, \* the same as the sending CPU sees it: the store may still be buffered
    skb,       \* which slots hold a packet (tx_info[i].skb)
    hwHead,    \* the NIC's head register: the doorbell
    hwTail,    \* the NIC's tail register
    fetched,   \* slots fetched by the NIC whose completion is not written
    cq,        \* completions the driver has not taken, by slot
    stopped,   \* the stack's queue is stopped
    burst,     \* the stack announced another packet (netdev_xmit_more)
    xmit,      \* where mqnic_start_xmit is
    stopQueue, \* its local stop_queue
    poll,      \* where mqnic_process_tx_cq is
    avail      \* completions it saw when it read the head pointer

sender == <<head, stopped, burst, xmit, stopQueue>>
poller == <<tail, clean, poll, avail>>
nic    == <<hwHead, hwTail, fetched>>
vars   == <<sender, poller, nic, cleanSeen, skb, cq>>

\* Mutant: hw_ptr_mask in place of size_mask.
SlotHwMask(p) == p % HwMod

Slot(p) == p % Size
Ahead(p, q) == (p - q) % SwMod            \* how far p is ahead of q
HwAhead(p, q) == (p - q) % HwMod          \* the same in the NIC's width
IsFull(c) == Ahead(head, c) >= FullSize

\* Pointers stay within their width, tables within the ring, program counters in the code.
TypeOK ==
    /\ {head, tail, clean, cleanSeen} \subseteq 0..SwMod - 1
    /\ {hwHead, hwTail} \subseteq 0..HwMod - 1
    /\ skb \in [0..Size - 1 -> BOOLEAN]
    /\ fetched \in Seq(0..Size - 1) /\ cq \in Seq(0..Size - 1) /\ Len(cq) <= Size
    /\ {stopped, burst, stopQueue} \subseteq BOOLEAN
    /\ xmit \in {"idle", "full?", "doorbell", "recheck"}
    /\ poll \in {"idle", "loop", "tail", "clean", "wake?", "wake"}
    /\ avail \in 0..Size

\* A freshly activated ring, CQ and queue.
Init ==
    /\ head = 0 /\ tail = 0 /\ clean = 0 /\ cleanSeen = 0
    /\ skb = [i \in 0..Size - 1 |-> FALSE]
    /\ hwHead = 0 /\ hwTail = 0 /\ fetched = <<>> /\ cq = <<>>
    /\ stopped = FALSE /\ burst = FALSE /\ xmit = "idle" /\ stopQueue = FALSE
    /\ poll = "idle" /\ avail = 0

-----------------------------------------------------------------------------
(* mqnic_start_xmit. The stack calls it under the queue's lock, and only     *)
(* while the queue is not stopped; xmit_more promises another call, unless   *)
(* this one stops the queue.                                                 *)

\* The packet is mapped and put in the slot at head.
XmitPost(more) ==
    /\ xmit = "idle" /\ ~stopped
    /\ skb' = [skb EXCEPT ![Slot(head)] = TRUE]
    /\ head' = (head + 1) % SwMod
    /\ burst' = more
    /\ xmit' = "full?"
    /\ UNCHANGED <<stopped, stopQueue, poller, nic, cleanSeen, cq>>

\* It cannot be mapped, linearised or checksummed: freed and forgotten.
XmitDrop(more) ==
    /\ MayDrop
    /\ xmit = "idle" /\ ~stopped
    /\ burst' = more
    /\ UNCHANGED <<head, stopped, xmit, stopQueue, poller, nic, cleanSeen, skb, cq>>

XmitStop ==
    /\ xmit = "full?"
    /\ stopQueue' = IsFull(cleanSeen)
    /\ stopped' = IsFull(cleanSeen)
    /\ xmit' = "doorbell"
    /\ UNCHANGED <<head, burst, poller, nic, cleanSeen, skb, cq>>

\* Mutant: the doorbell is left to the next packet even if the queue stopped.
XmitDoorbellLazily ==
    /\ xmit = "doorbell"
    /\ hwHead' = IF ~burst THEN head % HwMod ELSE hwHead
    /\ xmit' = IF stopQueue THEN "recheck" ELSE "idle"
    /\ burst' = (burst /\ ~stopQueue)
    /\ UNCHANGED <<head, stopped, stopQueue, poller, hwTail, fetched, cleanSeen, skb, cq>>

\* The doorbell is rung for the last packet of a burst and when the queue stops;
\* a stopped queue ends the burst.
XmitDoorbell ==
    /\ xmit = "doorbell"
    /\ hwHead' = IF ~burst \/ stopQueue THEN head % HwMod ELSE hwHead
    /\ xmit' = IF stopQueue THEN "recheck" ELSE "idle"
    /\ burst' = (burst /\ ~stopQueue)
    /\ UNCHANGED <<head, stopped, stopQueue, poller, hwTail, fetched, cleanSeen, skb, cq>>

\* The poll may have made room before it could see the queue stopped.
XmitRecheck ==
    /\ xmit = "recheck"
    /\ stopped' = (stopped /\ IsFull(cleanSeen))
    /\ stopQueue' = FALSE
    /\ xmit' = "idle"
    /\ UNCHANGED <<head, burst, poller, nic, cleanSeen, skb, cq>>

-----------------------------------------------------------------------------
(* The NIC. *)

\* A descriptor is handed to the transmit engine and its dequeue committed.
NicFetch ==
    /\ hwTail # hwHead
    /\ hwTail' = (hwTail + 1) % HwMod
    /\ fetched' = Append(fetched, Slot(hwTail))
    /\ UNCHANGED <<sender, poller, hwHead, cleanSeen, skb, cq>>

\* Completions are written in the order of the descriptors; one that finds the CQ
\* full is discarded, and the engine does not look at the status.
NicComplete ==
    /\ fetched # <<>>
    /\ fetched' = Tail(fetched)
    /\ cq' = IF Len(cq) < Size THEN Append(cq, Head(fetched)) ELSE cq
    /\ UNCHANGED <<sender, poller, hwHead, hwTail, cleanSeen, skb>>

-----------------------------------------------------------------------------
(* mqnic_process_tx_cq. *)

\* The register read waits for the poll's own earlier stores.
PollReadHead ==
    /\ poll = "idle" /\ cleanSeen = clean
    /\ avail' = Len(cq)
    /\ poll' = "loop"
    /\ UNCHANGED <<sender, tail, clean, nic, cleanSeen, skb, cq>>

\* Mutant: the CQ's tail is moved to the head that was read, whatever the budget.
PollLoopToHead ==
    LET n == IF avail <= Budget THEN avail ELSE Budget IN
    /\ poll = "loop"
    /\ skb' = [i \in DOMAIN skb |-> skb[i] /\ i \notin {cq[j] : j \in 1..n}]
    /\ cq' = SubSeq(cq, avail + 1, Len(cq))
    /\ avail' = 0
    /\ poll' = "tail"
    /\ UNCHANGED <<sender, tail, clean, nic, cleanSeen>>

\* Every completion taken frees its packet; then the CQ's tail is written.
PollLoop ==
    LET n == IF avail <= Budget THEN avail ELSE Budget IN
    /\ poll = "loop"
    /\ skb' = [i \in DOMAIN skb |-> skb[i] /\ i \notin {cq[j] : j \in 1..n}]
    /\ cq' = SubSeq(cq, n + 1, Len(cq))
    /\ avail' = 0
    /\ poll' = "tail"
    /\ UNCHANGED <<sender, tail, clean, nic, cleanSeen>>

\* Mutant: the register is taken for the pointer.
PollReadTailRaw ==
    /\ poll = "tail"
    /\ tail' = hwTail
    /\ poll' = "clean"
    /\ UNCHANGED <<sender, clean, avail, nic, cleanSeen, skb, cq>>

PollReadTail ==
    /\ poll = "tail"
    /\ tail' = (tail + HwAhead(hwTail, tail)) % SwMod
    /\ poll' = "clean"
    /\ UNCHANGED <<sender, clean, avail, nic, cleanSeen, skb, cq>>

\* clean_tail passes the free slots, up to the first packet still in the ring or
\* to the tail.
PollClean ==
    LET Free(n) == \A d \in 0..n - 1 : ~skb[Slot(clean + d)]
        room == Ahead(tail, clean)
        n == CHOOSE i \in 0..room : Free(i) /\ (i = room \/ ~Free(i + 1))
    IN
    /\ poll = "clean"
    /\ clean' = (clean + n) % SwMod
    /\ poll' = "wake?"
    /\ UNCHANGED <<sender, tail, avail, nic, cleanSeen, skb, cq>>

\* The buffered store of clean_tail reaches the sending CPU.
CleanVisible ==
    /\ cleanSeen # clean
    /\ cleanSeen' = clean
    /\ UNCHANGED <<sender, poller, nic, skb, cq>>

PollTestWake ==
    /\ poll = "wake?"
    /\ poll' = IF stopped /\ ~IsFull(clean) THEN "wake" ELSE "idle"
    /\ UNCHANGED <<sender, tail, clean, avail, nic, cleanSeen, skb, cq>>

PollWake ==
    /\ poll = "wake"
    /\ stopped' = FALSE
    /\ poll' = "idle"
    /\ UNCHANGED <<head, burst, xmit, stopQueue, tail, clean, avail, nic, cleanSeen, skb, cq>>

-----------------------------------------------------------------------------

XmitStep == XmitStop \/ XmitDoorbell \/ XmitRecheck
PollStep == PollLoop \/ PollReadTail \/ PollClean \/ PollTestWake \/ PollWake

Next ==
    \/ \E more \in BOOLEAN : XmitPost(more) \/ XmitDrop(more)
    \/ XmitStep
    \/ NicFetch \/ NicComplete
    \/ PollReadHead \/ PollStep \/ CleanVisible

\* The sender's code and an announced next packet, the NIC, stores, a poll once
\* begun, and a poll of a queue that holds completions (CplDelivery).
Fairness ==
    /\ WF_vars(XmitStep) /\ WF_vars(NicFetch) /\ WF_vars(NicComplete)
    /\ WF_vars(burst /\ \E more \in BOOLEAN : XmitPost(more) \/ XmitDrop(more))
    /\ WF_vars(PollStep) /\ WF_vars(cq # <<>> /\ PollReadHead) /\ WF_vars(CleanVisible)

Safety == Init /\ [][Next]_vars
Spec == Safety /\ Fairness

-----------------------------------------------------------------------------
(* Properties. *)

\* The pointers never pass one another, on either side of the 16/32-bit boundary; at
\* most one packet more than half the ring is in use, for a poll that tested for room
\* and wakes the queue after the sender has filled and stopped it lets one packet
\* through, and to the sender, which may not see the poll's store yet, it looks like one
\* more (mqnic_tx.c:340-341 against 517-526); and the CQ has room for every completion
\* under way, so the NIC discards none (cpl_write.v:481-484).
RingOrdered ==
    /\ Ahead(tail, clean) <= HwAhead(hwTail, clean)
    /\ HwAhead(hwTail, clean) <= HwAhead(hwHead, clean)
    /\ HwAhead(hwHead, clean) <= Ahead(head, clean)
    /\ Ahead(head, clean) <= FullSize + 1
    /\ Ahead(head, cleanSeen) <= FullSize + 2
    /\ Len(cq) + Len(fetched) <= Size

\* A slot holds a packet exactly while its completion is still to come or still to
\* be taken: nothing leaks and nothing is freed early (mqnic_tx.c:301, 430, 517).
SlotsMatchRing ==
    \A i \in 0..Size - 1 :
        skb[i] <=> \/ \E d \in 0..HwAhead(head, hwTail) - 1 : i = Slot(hwTail + d)
                   \/ \E j \in DOMAIN fetched : fetched[j] = i
                   \/ \E j \in DOMAIN cq : cq[j] = i

\* A stopped queue is woken, whichever way the sender and the poll interleave and
\* however late the stores of one are seen by the other (mqnic_tx.c:521-550).
Woken == stopped ~> ~stopped

\* Every packet the NIC was told about is freed in the end.
RungIsFreed ==
    \A i \in 0..Size - 1 :
        (\E d \in 0..HwAhead(hwHead, hwTail) - 1 : i = Slot(hwTail + d)) ~> ~skb[i]

\* Every posted packet is "enqueued on NIC" (mqnic_tx.c:532).
PostedIsRung == head % HwMod # hwHead ~> head % HwMod = hwHead
=============================================================================
