------------------------------- MODULE RxRing -------------------------------
(***************************************************************************)
(* One receive ring: the NIC that fills posted pages, mqnic_process_rx_cq  *)
(* that hands them to the stack, and mqnic_refill_rx_buffers that posts    *)
(* new ones (mqnic_rx.c).                                                  *)
(*                                                                         *)
(* Allocations may fail.  A poll that finds no skb leaves the completion   *)
(* in the CQ, where arming finds it again; a refill that finds no page     *)
(* posts what it has and is not repeated before the next poll.  A poll     *)
(* runs when the CQ holds completions (CplDelivery) or when the last poll  *)
(* used its whole budget.                                                  *)
(***************************************************************************)
EXTENDS Integers, Sequences

CONSTANTS
    Size,       \* slots of the ring; the CQ has as many entries
    SwMod,      \* 2^32: the driver's pointers
    HwMod,      \* 2^16: the NIC's pointers
    Budget,     \* completions one poll may process
    Threshold,  \* free slots below which a refill does nothing: 8
    PagesFail,  \* whether allocating a page can fail
    SkbsFail    \* whether allocating an skb can fail

ASSUME RingAssumption ==
    /\ Size \in Nat \ {0} /\ Budget \in Nat \ {0} /\ Threshold \in 1..Size
    /\ {PagesFail, SkbsFail} \subseteq BOOLEAN
    /\ HwMod \in Nat /\ HwMod > Size /\ HwMod % Size = 0
    /\ SwMod \in Nat \ {0} /\ SwMod % HwMod = 0

VARIABLES
    head,     \* ring->head_ptr
    tail,     \* ring->tail_ptr, the poll's copy of the NIC's tail
    clean,    \* ring->clean_tail_ptr
    page,     \* which slots hold a page (rx_info[i].page)
    hwHead,   \* the NIC's head register
    hwTail,   \* the NIC's tail register
    filling,  \* slots fetched by the NIC whose completion is not written
    cq,       \* completions the driver has not taken, by slot
    poll,     \* where mqnic_process_rx_cq is
    avail,    \* completions it saw when it read the head pointer
    again     \* the last poll used its budget: NAPI calls it again

ring == <<head, tail, clean, page>>
nic  == <<hwHead, hwTail, filling>>
vars == <<ring, nic, cq, poll, avail, again>>

Slots == 0..Size - 1
\* Mutant: hw_ptr_mask in place of size_mask.
SlotHwMask(p) == p % HwMod

Slot(p) == p % Size
Ahead(p, q) == (p - q) % SwMod
HwAhead(p, q) == (p - q) % HwMod
Missing == Size - Ahead(head, clean)

\* Pointers stay within their width, tables within the ring, program counters in the code.
TypeOK ==
    /\ {head, tail, clean} \subseteq 0..SwMod - 1 /\ {hwHead, hwTail} \subseteq 0..HwMod - 1
    /\ page \in [Slots -> BOOLEAN]
    /\ filling \in Seq(Slots) /\ cq \in Seq(Slots) /\ Len(cq) <= Size
    /\ poll \in {"idle", "loop", "tail", "clean", "refill"}
    /\ avail \in 0..Size /\ again \in BOOLEAN

\* mqnic_activate_rx_ring is about to fill the ring.
Init ==
    /\ head = 0 /\ tail = 0 /\ clean = 0
    /\ page = [i \in Slots |-> FALSE]
    /\ hwHead = 0 /\ hwTail = 0 /\ filling = <<>> /\ cq = <<>>
    /\ poll = "refill" /\ avail = 0 /\ again = FALSE

-----------------------------------------------------------------------------
(* The NIC. *)

\* A packet arrives; a descriptor is fetched for it.
NicFetch ==
    /\ hwTail # hwHead
    /\ hwTail' = (hwTail + 1) % HwMod
    /\ filling' = Append(filling, Slot(hwTail))
    /\ UNCHANGED <<ring, hwHead, cq, poll, avail, again>>

\* The page is filled and the completion written, in order; one that finds the CQ
\* full is discarded.
NicComplete ==
    /\ filling # <<>>
    /\ filling' = Tail(filling)
    /\ cq' = IF Len(cq) < Size THEN Append(cq, Head(filling)) ELSE cq
    /\ UNCHANGED <<ring, hwHead, hwTail, poll, avail, again>>

-----------------------------------------------------------------------------
(* The poll. *)

PollReadHead ==
    /\ poll = "idle" /\ (cq # <<>> \/ again)
    /\ avail' = Len(cq)
    /\ poll' = "loop"
    /\ UNCHANGED <<ring, nic, cq, again>>

\* Mutant: a completion without an skb is skipped, not left.
PollLoopSkip ==
    LET n == IF avail <= Budget THEN avail ELSE Budget IN
    /\ poll = "loop"
    /\ \E m \in IF SkbsFail THEN 0..n ELSE {n} :
          page' = [i \in Slots |-> page[i] /\ i \notin {cq[j] : j \in 1..m}]
    /\ cq' = SubSeq(cq, n + 1, Len(cq))
    /\ again' = (n = Budget) /\ avail' = 0
    /\ poll' = "tail"
    /\ UNCHANGED <<head, tail, clean, nic>>

\* Pages go to the stack until the budget is used, none is left, or no skb is to be
\* had; then the CQ's tail is written.
PollLoop ==
    LET n == IF avail <= Budget THEN avail ELSE Budget IN
    /\ poll = "loop"
    /\ \E m \in IF SkbsFail THEN 0..n ELSE {n} :
          /\ page' = [i \in Slots |-> page[i] /\ i \notin {cq[j] : j \in 1..m}]
          /\ cq' = SubSeq(cq, m + 1, Len(cq))
          /\ again' = (m = Budget)
    /\ avail' = 0
    /\ poll' = "tail"
    /\ UNCHANGED <<head, tail, clean, nic>>

\* Mutant: the tail is not read again.
PollReadTailNever ==
    /\ poll = "tail"
    /\ poll' = "clean"
    /\ UNCHANGED <<head, tail, clean, page, nic, cq, avail, again>>

PollReadTail ==
    /\ poll = "tail"
    /\ tail' = (tail + HwAhead(hwTail, tail)) % SwMod
    /\ poll' = "clean"
    /\ UNCHANGED <<head, clean, page, nic, cq, avail, again>>

\* clean_tail passes the free slots, up to the first page still there or the tail.
PollClean ==
    LET Free(n) == \A d \in 0..n - 1 : ~page[Slot(clean + d)]
        room == Ahead(tail, clean)
        n == CHOOSE i \in 0..room : Free(i) /\ (i = room \/ ~Free(i + 1))
    IN
    /\ poll = "clean"
    /\ clean' = (clean + n) % SwMod
    /\ poll' = "refill"
    /\ UNCHANGED <<head, tail, page, nic, cq, avail, again>>

\* Mutant: one slot more than is missing.
RefillOneMore ==
    /\ poll = "refill"
    /\ IF Missing < Threshold THEN UNCHANGED <<head, page, hwHead>>
       ELSE LET n == Missing + 1 IN
               /\ page' = [i \in Slots |-> page[i] \/ i \in {Slot(head + d) : d \in 0..n - 1}]
               /\ head' = (head + n) % SwMod
               /\ hwHead' = (head + n) % HwMod
    /\ poll' = "idle"
    /\ UNCHANGED <<tail, clean, hwTail, filling, cq, avail, again>>

\* mqnic_refill_rx_buffers: pages are posted until none is missing or to be had.
Refill ==
    /\ poll = "refill"
    /\ IF Missing < Threshold THEN UNCHANGED <<head, page, hwHead>>
       ELSE \E n \in IF PagesFail THEN 0..Missing ELSE {Missing} :
               /\ page' = [i \in Slots |-> page[i] \/ i \in {Slot(head + d) : d \in 0..n - 1}]
               /\ head' = (head + n) % SwMod
               /\ hwHead' = (head + n) % HwMod
    /\ poll' = "idle"
    /\ UNCHANGED <<tail, clean, hwTail, filling, cq, avail, again>>

-----------------------------------------------------------------------------

PollStep == PollReadHead \/ PollLoop \/ PollReadTail \/ PollClean \/ Refill

Next == NicFetch \/ NicComplete \/ PollStep

\* Packets keep arriving, polls run, and an skb is to be had sooner or later.
Fairness ==
    /\ WF_vars(NicFetch) /\ WF_vars(NicComplete) /\ WF_vars(PollStep)
    /\ SF_vars(PollLoop /\ cq' # cq)

Safety == Init /\ [][Next]_vars
Spec == Safety /\ Fairness

-----------------------------------------------------------------------------
(* Properties. *)

\* The pointers never pass one another, on either side of the 16/32-bit boundary; no
\* more than the whole ring is posted (mqnic_rx.c:211, 298-311); and the CQ has room
\* for every page out, so the NIC discards no completion (cpl_write.v:481-484).
RingOrdered ==
    /\ Ahead(tail, clean) <= HwAhead(hwTail, clean)
    /\ HwAhead(hwTail, clean) <= HwAhead(hwHead, clean)
    /\ Ahead(head, clean) <= Size
    /\ Len(cq) + Len(filling) + HwAhead(hwHead, hwTail) <= Size

\* A page is in a slot exactly while it is posted, being filled, or waiting in the CQ:
\* none leaks, none is handed up twice, and the "null page" branch is never taken
\* (mqnic_rx.c:350-356).
PagesMatchRing ==
    \A i \in Slots :
        page[i] <=> \/ \E d \in 0..HwAhead(hwHead, hwTail) - 1 : i = Slot(hwTail + d)
                    \/ \E j \in DOMAIN filling : filling[j] = i
                    \/ \E j \in DOMAIN cq : cq[j] = i

\* A NIC that has used up its pages is given another - what is out is completed, polled
\* and replenished - but for a refill of the whole ring that got no page, which nothing
\* repeats.  Neither a missing skb nor a poll that saw an old tail leaves the NIC
\* without pages (mqnic_rx.c:344-432).
OnlyRefillsStarve ==
    hwHead = hwTail ~> hwHead # hwTail \/ (Missing = Size /\ poll = "idle" /\ PagesFail)
=============================================================================
