---------------------------- MODULE CplDelivery ----------------------------
(***************************************************************************)
(* What the event path promises to a driver: completions published by the  *)
(* NIC wait in a bounded buffer, are taken in batches, and a buffer that   *)
(* holds completions is eventually taken from, whatever the NIC does       *)
(* meanwhile.                                                              *)
(***************************************************************************)
EXTENDS Naturals

CONSTANTS Queue, Capacity

VARIABLE pending    \* completions published and not yet taken, per queue

Init == pending = [q \in Queue |-> 0]

Publish(q) ==
    /\ pending[q] < Capacity
    /\ pending' = [pending EXCEPT ![q] = @ + 1]

Take(q) ==
    \E n \in 1..pending[q] : pending' = [pending EXCEPT ![q] = @ - n]

Next == \E q \in Queue : Publish(q) \/ Take(q)

Safety == Init /\ [][Next]_pending
Spec == Safety /\ \A q \in Queue : WF_pending(Take(q))
=============================================================================
