---------------------------- MODULE TxRingProofs ----------------------------
(***************************************************************************)
(* Proofs about TxRing: for rings of every size and pointers of every      *)
(* width, the pointers never pass one another, the CQ has room for every   *)
(* completion, and a slot holds a packet exactly while its completion is   *)
(* still to come or still to be taken.                                     *)
(*                                                                         *)
(* The pointers wrap, so the argument is about positions that do not: the  *)
(* natural number of which a pointer is the remainder.  The invariant says *)
(* that there are positions for all pointers that are in order.            *)
(***************************************************************************)
EXTENDS TxRing, TLAPS

-----------------------------------------------------------------------------
(* Remainders. *)

\* Every integer is a multiple of M and a remainder, which is what % computes.
LEMMA Division ==
    ASSUME NEW M \in Nat, M > 0, NEW a \in Int
    PROVE  \E q \in Int, r \in 0..M - 1 : a = M * q + r /\ a % M = r
<1>1. a % M \in 0..M - 1
  OBVIOUS
<1>2. \E q \in Int : a = M * q + (a % M)
  OBVIOUS
<1> QED
  BY <1>1, <1>2

\* An integer without remainder is a multiple.
LEMMA Divides ==
    ASSUME NEW M \in Nat, M > 0, NEW a \in Int, a % M = 0
    PROVE  \E q \in Int : a = M * q
<1>1. PICK q \in Int, r \in 0..M - 1 : a = M * q + r /\ a % M = r
  BY Division
<1> QED
  BY <1>1

\* The remainder of a multiple and a part smaller than M is that part.
LEMMA Remainder ==
    ASSUME NEW M \in Nat, M > 0, NEW q \in Int, NEW r \in 0..M - 1
    PROVE  (M * q + r) % M = r
OBVIOUS

\* A multiple of M does not change the remainder.
LEMMA Congruent ==
    ASSUME NEW M \in Nat, M > 0, NEW a \in Int, NEW q \in Int
    PROVE  (M * q + a) % M = a % M
<1>1. PICK k \in Int, r \in 0..M - 1 : a = M * k + r /\ a % M = r
  BY Division
<1>2. M * q + a = M * (q + k) + r
  BY <1>1
<1>3. (M * (q + k) + r) % M = r
  BY Remainder
<1> QED
  BY <1>1, <1>2, <1>3

\* A remainder may be taken before a sum.
LEMMA ModSum ==
    ASSUME NEW M \in Nat, M > 0, NEW a \in Int, NEW b \in Int
    PROVE  ((a % M) + b) % M = (a + b) % M
<1>1. PICK k \in Int, r \in 0..M - 1 : a = M * k + r /\ a % M = r
  BY Division
<1>2. a + b = M * k + (r + b) /\ r + b \in Int
  BY <1>1
<1>3. (M * k + (r + b)) % M = (r + b) % M
  BY <1>2, Congruent, Zenon
<1> QED
  BY <1>1, <1>2, <1>3, Zenon

\* Remainders may be taken before a difference.
LEMMA ModDifference ==
    ASSUME NEW M \in Nat, M > 0, NEW a \in Int, NEW b \in Int
    PROVE  ((a % M) - (b % M)) % M = (a - b) % M
<1>1. PICK k \in Int, r \in 0..M - 1 : a = M * k + r /\ a % M = r
  BY Division
<1>2. PICK l \in Int, s \in 0..M - 1 : b = M * l + s /\ b % M = s
  BY Division
<1>3. a - b = M * (k - l) + (r - s) /\ k - l \in Int /\ r - s \in Int
  BY <1>1, <1>2
<1>4. (M * (k - l) + (r - s)) % M = (r - s) % M
  BY <1>3, Congruent, Zenon
<1> QED
  BY <1>1, <1>2, <1>3, <1>4, Zenon

\* A remainder may be taken modulo a larger width first.
LEMMA ModMod ==
    ASSUME NEW M \in Nat, M > 0, NEW N \in Nat, N > 0, N % M = 0, NEW a \in Int
    PROVE  (a % N) % M = a % M
<1>1. PICK k \in Int, r \in 0..N - 1 : a = N * k + r /\ a % N = r
  BY Division
<1>2. PICK l \in Int : N = M * l
  BY Divides
<1>3. a = M * (l * k) + r /\ l * k \in Int /\ r \in Int
  BY <1>1, <1>2
<1>4. (M * (l * k) + r) % M = r % M
  BY <1>3, Congruent, Zenon
<1> QED
  BY <1>1, <1>3, <1>4, Zenon

\* Two positions less than M apart are told apart modulo M.
LEMMA ModInjective ==
    ASSUME NEW M \in Nat, M > 0, NEW a \in Int, NEW b \in Int, a - b \in 0..M - 1, a % M = b % M
    PROVE  a = b
<1>1. (a - b) % M = ((a % M) - (b % M)) % M
  BY ModDifference, Zenon
<1>2. (a - b) % M = a - b /\ a % M \in Int
  OBVIOUS
<1>3. ((a % M) - (a % M)) % M = 0
  BY <1>2
<1> QED
  BY <1>1, <1>2, <1>3

\* What Append does to a queue.
LEMMA Appended ==
    ASSUME NEW S, NEW u \in Seq(S), NEW x \in S
    PROVE  /\ Append(u, x) \in Seq(S) /\ Len(Append(u, x)) = Len(u) + 1
           /\ \A j \in 1..Len(u) : Append(u, x)[j] = u[j]
           /\ Append(u, x)[Len(u) + 1] = x
OBVIOUS

\* What taking the first of a queue leaves.
LEMMA Popped ==
    ASSUME NEW S, NEW u \in Seq(S), u # <<>>
    PROVE  /\ Head(u) = u[1] /\ u[1] \in S /\ Len(u) \in Nat /\ Len(u) >= 1
           /\ Tail(u) \in Seq(S) /\ Len(Tail(u)) = Len(u) - 1
           /\ \A j \in 1..Len(u) - 1 : Tail(u)[j] = u[j + 1]
OBVIOUS

\* What taking the first n of a queue leaves.
LEMMA Rest ==
    ASSUME NEW S, NEW u \in Seq(S), NEW n \in Nat, n <= Len(u)
    PROVE  /\ SubSeq(u, n + 1, Len(u)) \in Seq(S) /\ Len(SubSeq(u, n + 1, Len(u))) = Len(u) - n
           /\ \A j \in 1..Len(u) - n : SubSeq(u, n + 1, Len(u))[j] = u[n + j]
OBVIOUS

-----------------------------------------------------------------------------
(* The pointers of a position. *)

Sw(p) == p % SwMod
Hw(p) == p % HwMod

\* The widths: half a ring and two more is less than the narrow pointers can tell apart.
LEMMA Widths ==
    /\ Size \in Nat /\ Size > 0 /\ FullSize \in Nat /\ FullSize >= 1 /\ Size = 2 * FullSize
    /\ HwMod \in Nat /\ HwMod > 0 /\ SwMod \in Nat /\ SwMod > 0
    /\ HwMod > FullSize + 2 /\ SwMod >= HwMod /\ SwMod % Size = 0
<1>1. Size \in Nat /\ Size > 0 /\ FullSize \in Nat /\ FullSize >= 1 /\ Size = 2 * FullSize
  BY RingAssumption DEF FullSize
<1>2. HwMod \in Nat /\ HwMod > Size /\ SwMod \in Nat /\ SwMod > 0
  BY <1>1, RingAssumption
<1>3. PICK q \in Int : HwMod = Size * q
  <2>1. HwMod \in Int /\ HwMod % Size = 0
    BY <1>2, RingAssumption
  <2> QED
    BY <1>1, <2>1, Divides, Zenon
<1>4. PICK l \in Int : SwMod = HwMod * l
  <2>1. SwMod \in Int /\ HwMod > 0 /\ SwMod % HwMod = 0
    BY <1>1, <1>2, RingAssumption
  <2> QED
    BY <1>2, <2>1, Divides, Zenon
<1>5. HwMod >= 2 * Size
  <2>1. q >= 2
    <3>1. CASE q <= 1
      <4>1. Size * q <= Size
        BY <1>1, <3>1
      <4> QED
        BY <1>1, <1>2, <1>3, <4>1
    <3> QED
      BY <3>1
  <2>2. Size * q >= Size * 2
    BY <1>1, <2>1
  <2> QED
    BY <1>1, <1>3, <2>2
<1>6. SwMod >= HwMod
  <2>1. l >= 1
    <3>1. CASE l <= 0
      <4>1. HwMod * l <= 0
        BY <1>1, <1>2, <3>1
      <4> QED
        BY <1>2, <1>4, <4>1
    <3> QED
      BY <3>1
  <2>2. HwMod * l >= HwMod
    BY <1>1, <1>2, <2>1
  <2> QED
    BY <1>2, <1>4, <2>2
<1>7. SwMod % Size = 0
  <2>1. SwMod = Size * (q * l) + 0 /\ q * l \in Int /\ 0 \in 0..Size - 1
    BY <1>1, <1>2, <1>3, <1>4
  <2> QED
    BY <1>1, <2>1, Remainder, Zenon
<1> QED
  BY <1>1, <1>2, <1>5, <1>6, <1>7

\* Adding to a pointer of the driver.
LEMMA SwAdd == ASSUME NEW a \in Int, NEW d \in Int PROVE (Sw(a) + d) % SwMod = Sw(a + d)
BY Widths, ModSum, Zenon DEF Sw

\* Adding to a pointer of the NIC.
LEMMA HwAdd == ASSUME NEW a \in Int, NEW d \in Int PROVE (Hw(a) + d) % HwMod = Hw(a + d)
BY Widths, ModSum, Zenon DEF Hw

\* The register value of a pointer of the driver, and of one of the NIC.
LEMMA HwOfSw == ASSUME NEW a \in Int PROVE Sw(a) % HwMod = Hw(a) /\ Hw(a) % HwMod = Hw(a)
<1>1. HwMod % HwMod = 0
  BY Widths
<1> QED
  BY <1>1, Widths, RingAssumption, ModMod, Zenon DEF Sw, Hw

\* Every position has a pointer within its width and a slot of the ring.
LEMMA Ranges ==
    ASSUME NEW a \in Int
    PROVE  Sw(a) \in 0..SwMod - 1 /\ Hw(a) \in 0..HwMod - 1 /\ Slot(a) \in 0..Size - 1
BY Widths DEF Sw, Hw, Slot

\* The slot of a pointer, moved or not, is that of its position.
LEMMA SlotOfSum ==
    ASSUME NEW a \in Int, NEW d \in Int
    PROVE  /\ Slot(Sw(a) + d) = Slot(a + d) /\ Slot(Hw(a) + d) = Slot(a + d)
           /\ Slot(Sw(a)) = Slot(a) /\ Slot(Hw(a)) = Slot(a)
<1>1. Sw(a) \in Int /\ Hw(a) \in Int
  BY Ranges, Widths
<1>2. /\ (Sw(a) + d) % Size = ((Sw(a) % Size) + d) % Size
      /\ (Hw(a) + d) % Size = ((Hw(a) % Size) + d) % Size
  BY <1>1, Widths, ModSum, Zenon
<1>3. Sw(a) % Size = a % Size /\ Hw(a) % Size = a % Size
  <2>1. HwMod % Size = 0 /\ SwMod % Size = 0
    BY Widths, RingAssumption, Zenon
  <2>2. (a % SwMod) % Size = a % Size
    BY <2>1, Widths, ModMod, Zenon
  <2>3. (a % HwMod) % Size = a % Size
    BY <2>1, Widths, ModMod, Zenon
  <2> QED
    BY <2>2, <2>3 DEF Sw, Hw
<1>4. ((a % Size) + d) % Size = (a + d) % Size
  BY Widths, ModSum, Zenon
<1> QED
  BY <1>2, <1>3, <1>4, Zenon DEF Slot

\* How far apart two pointers of the driver are.
LEMMA SwGap ==
    ASSUME NEW a \in Int, NEW b \in Int, a - b \in 0..FullSize + 2
    PROVE  Ahead(Sw(a), Sw(b)) = a - b
<1>1. (a - b) % SwMod = a - b
  BY Widths
<1> QED
  BY <1>1, Widths, ModDifference, Zenon DEF Ahead, Sw

\* The same in the width of the NIC, whichever width each pointer has.
LEMMA HwGap ==
    ASSUME NEW a \in Int, NEW b \in Int, a - b \in 0..FullSize + 2,
           NEW x \in {Sw(a), Hw(a)}, NEW y \in {Sw(b), Hw(b)}
    PROVE  HwAhead(x, y) = a - b
<1>1. (a - b) % HwMod = a - b
  BY Widths
<1>2. x \in Int /\ y \in Int
  BY Ranges, Widths
<1>3. x % HwMod = a % HwMod /\ y % HwMod = b % HwMod
  BY HwOfSw, Zenon DEF Hw
<1>4. /\ ((x % HwMod) - (y % HwMod)) % HwMod = (x - y) % HwMod
      /\ ((a % HwMod) - (b % HwMod)) % HwMod = (a - b) % HwMod
  BY <1>2, Widths, ModDifference, Zenon
<1> QED
  BY <1>1, <1>3, <1>4, Zenon DEF HwAhead

\* Two positions less than a ring apart have different slots.
LEMMA SlotsDiffer ==
    ASSUME NEW a \in Int, NEW b \in Int, a - b < Size, b - a < Size, Slot(a) = Slot(b)
    PROVE  a = b
<1>1. a % Size = b % Size
  BY DEF Slot
<1>2. CASE a >= b
  <2>1. a - b \in 0..Size - 1
    BY <1>2, Widths
  <2> QED
    BY <1>1, <2>1, Widths, ModInjective, Zenon
<1>3. CASE b >= a
  <2>1. b - a \in 0..Size - 1
    BY <1>3, Widths
  <2> QED
    BY <1>1, <2>1, Widths, ModInjective, Zenon
<1> QED
  BY <1>2, <1>3

-----------------------------------------------------------------------------
(* The inductive invariant: positions for head, tail, clean, cleanSeen, the  *)
(* NIC's two registers and the next completion to be taken.                  *)

Pointers(h, t, c, s, hh, ht) ==
    /\ head = Sw(h) /\ tail = Sw(t) /\ clean = Sw(c) /\ cleanSeen = Sw(s)
    /\ hwHead = Hw(hh) /\ hwTail = Hw(ht)

\* The sender may post another packet without stopping first.
Open == ~stopped /\ xmit # "full?"

\* Who may still open the queue bounds what is in it: a poll that tested for room and has
\* not yet woken the queue, and a sender that has not seen the last store of that poll.
InOrder(h, t, c, s, hh, ht, k) ==
    /\ s <= c /\ c <= t /\ t <= ht /\ ht <= hh /\ hh <= h /\ c <= k /\ k <= ht
    /\ h - c <= FullSize + 1 /\ h - s <= FullSize + 2
    /\ poll \in {"loop", "tail", "clean"} => s = c
    /\ poll \in {"wake?", "wake"} => h - s <= FullSize + 1
    /\ poll = "wake" => h - c <= FullSize
    /\ Open => /\ h - c <= FullSize /\ h - s <= FullSize + 1
               /\ poll \in {"wake?", "wake"} => h - s <= FullSize
               /\ poll = "wake" => h - c < FullSize

\* What the NIC has fetched is completed in order: first the CQ, then the rest.
Queued(ht, k) ==
    /\ Len(cq) + Len(fetched) = ht - k
    /\ \A j \in 1..Len(cq) : cq[j] = Slot(k + j - 1)
    /\ \A j \in 1..Len(fetched) : fetched[j] = Slot(k + Len(cq) + j - 1)
    /\ poll = "loop" => avail <= Len(cq)

\* The packets are those from the next completion to the head.
Held(h, k) == \A i \in 0..Size - 1 : skb[i] <=> \E p \in k..h - 1 : Slot(p) = i

Unwrapped(h, t, c, s, hh, ht, k) ==
    /\ Pointers(h, t, c, s, hh, ht) /\ InOrder(h, t, c, s, hh, ht, k)
    /\ Queued(ht, k) /\ Held(h, k)

Positioned == \E h, t, c, s, hh, ht, k \in Nat : Unwrapped(h, t, c, s, hh, ht, k)

Inv == TypeOK /\ Positioned

\* The distances the code computes are those of the positions.
Distances(h, t, c, s, hh, ht) ==
    /\ Ahead(tail, clean) = t - c /\ Ahead(head, clean) = h - c /\ Ahead(head, cleanSeen) = h - s
    /\ HwAhead(hwTail, clean) = ht - c /\ HwAhead(hwHead, clean) = hh - c
    /\ HwAhead(hwTail, tail) = ht - t /\ HwAhead(head, hwTail) = h - ht
    /\ HwAhead(head, clean) = h - c

\* The invariant gives positions, and the distances the code computes are theirs.
LEMMA Unwrap ==
    ASSUME Inv
    PROVE  \E h, t, c, s, hh, ht, k \in Nat :
              Unwrapped(h, t, c, s, hh, ht, k) /\ Distances(h, t, c, s, hh, ht)
<1>1. PICK h, t, c, s, hh, ht, k \in Nat : Unwrapped(h, t, c, s, hh, ht, k)
  BY DEF Inv, Positioned
<1>2. /\ t - c \in 0..FullSize + 2 /\ h - c \in 0..FullSize + 2 /\ h - s \in 0..FullSize + 2
      /\ ht - c \in 0..FullSize + 2 /\ hh - c \in 0..FullSize + 2
      /\ ht - t \in 0..FullSize + 2 /\ h - ht \in 0..FullSize + 2
  BY <1>1, Widths DEF Unwrapped, InOrder
<1>3. /\ head = Sw(h) /\ tail = Sw(t) /\ clean = Sw(c) /\ cleanSeen = Sw(s)
      /\ hwHead = Hw(hh) /\ hwTail = Hw(ht)
  BY <1>1 DEF Unwrapped, Pointers
<1>4. Ahead(tail, clean) = t - c /\ Ahead(head, clean) = h - c /\ Ahead(head, cleanSeen) = h - s
  BY <1>2, <1>3, SwGap
<1>5. /\ HwAhead(hwTail, clean) = ht - c /\ HwAhead(hwHead, clean) = hh - c
      /\ HwAhead(head, clean) = h - c
  BY <1>2, <1>3, HwGap
<1>6. HwAhead(hwTail, tail) = ht - t /\ HwAhead(head, hwTail) = h - ht
  BY <1>2, <1>3, HwGap
<1> QED
  BY <1>1, <1>4, <1>5, <1>6 DEF Distances

\* A freshly activated ring has all positions at 0.
LEMMA InitInv == Init => Inv
<1> SUFFICES ASSUME Init PROVE Inv
  OBVIOUS
<1>1. Sw(0) = 0 /\ Hw(0) = 0
  BY Widths DEF Sw, Hw
<1>2. TypeOK
  <2>1. /\ {head, tail, clean, cleanSeen} \subseteq 0..SwMod - 1
        /\ {hwHead, hwTail} \subseteq 0..HwMod - 1
    BY Widths DEF Init
  <2>2. /\ skb \in [0..Size - 1 -> BOOLEAN] /\ avail \in 0..Size
        /\ fetched \in Seq(0..Size - 1) /\ cq \in Seq(0..Size - 1) /\ Len(cq) <= Size
    BY Widths DEF Init
  <2> QED
    BY <2>1, <2>2 DEF Init, TypeOK
<1>3. Pointers(0, 0, 0, 0, 0, 0)
  BY <1>1 DEF Init, Pointers
<1>4. InOrder(0, 0, 0, 0, 0, 0, 0) /\ Queued(0, 0) /\ Held(0, 0)
  <2>1. InOrder(0, 0, 0, 0, 0, 0, 0)
    BY Widths DEF Init, InOrder, Open
  <2>2. Queued(0, 0)
    BY DEF Init, Queued
  <2>3. Held(0, 0)
    BY Widths DEF Init, Held
  <2> QED
    BY <2>1, <2>2, <2>3
<1> QED
  BY <1>2, <1>3, <1>4 DEF Inv, Positioned, Unwrapped

-----------------------------------------------------------------------------
(* Every action keeps the invariant. *)

\* Positions found after a step establish the invariant.
LEMMA Found ==
    ASSUME NEW h \in Nat, NEW t \in Nat, NEW c \in Nat, NEW s \in Nat, NEW hh \in Nat,
           NEW ht \in Nat, NEW k \in Nat,
           TypeOK', Pointers(h, t, c, s, hh, ht)', InOrder(h, t, c, s, hh, ht, k)',
           Queued(ht, k)', Held(h, k)'
    PROVE  Inv'
BY DEF Inv, Positioned, Unwrapped

\* Posting a packet moves head by one and fills its slot.
LEMMA XmitPostInv ==
    ASSUME Inv, NEW more \in BOOLEAN, XmitPost(more)
    PROVE  Inv'
<1>1. PICK h, t, c, s, hh, ht, k \in Nat : Unwrapped(h, t, c, s, hh, ht, k)
  BY DEF Inv, Positioned
<1>2. /\ UNCHANGED <<stopped, stopQueue, poller, nic, cleanSeen, cq>>
      /\ xmit = "idle" /\ ~stopped /\ xmit' = "full?" /\ burst' = more
      /\ head = Sw(h) /\ head' = (head + 1) % SwMod
      /\ skb' = [skb EXCEPT ![Slot(head)] = TRUE]
  BY <1>1 DEF XmitPost, Unwrapped, Pointers
<1>3. h + 1 \in Nat /\ head' = Sw(h + 1) /\ Slot(head) = Slot(h) /\ Slot(h) \in 0..Size - 1
  BY <1>2, SwAdd, SlotOfSum, Ranges
<1>4. TypeOK'
  <2>1. head' \in 0..SwMod - 1 /\ skb' \in [0..Size - 1 -> BOOLEAN]
    BY <1>2, <1>3, Ranges, SMTT(30) DEF Inv, TypeOK
  <2> QED
    BY <1>2, <2>1 DEF Inv, TypeOK, poller, nic
<1>5. Pointers(h + 1, t, c, s, hh, ht)'
  BY <1>1, <1>2, <1>3 DEF Unwrapped, Pointers, poller, nic
<1>6. InOrder(h + 1, t, c, s, hh, ht, k)'
  BY <1>1, <1>2, Widths DEF Unwrapped, InOrder, Open, poller
<1>7. Queued(ht, k)'
  BY <1>1, <1>2 DEF Unwrapped, Queued, poller, nic
<1>8. Held(h + 1, k)'
  <2> SUFFICES ASSUME NEW i \in 0..Size - 1
               PROVE  skb'[i] <=> \E p \in k..h : Slot(p) = i
    BY DEF Held
  <2>1. skb'[i] <=> i = Slot(h) \/ skb[i]
    BY <1>2, <1>3 DEF Inv, TypeOK
  <2>2. skb[i] <=> \E p \in k..h - 1 : Slot(p) = i
    BY <1>1 DEF Unwrapped, Held
  <2>3. k <= h
    BY <1>1 DEF Unwrapped, InOrder
  <2> QED
    BY <2>1, <2>2, <2>3
<1> QED
  BY <1>3, <1>4, <1>5, <1>6, <1>7, <1>8, Found

\* A step that moves no position and fills or empties no slot.
LEMMA Stays ==
    ASSUME NEW h \in Nat, NEW t \in Nat, NEW c \in Nat, NEW s \in Nat, NEW hh \in Nat,
           NEW ht \in Nat, NEW k \in Nat, Unwrapped(h, t, c, s, hh, ht, k), TypeOK',
           UNCHANGED <<head, tail, clean, hwHead, hwTail, cleanSeen, fetched, cq, skb>>,
           poll' # "loop" \/ UNCHANGED <<poll, avail>> \/ avail' <= Len(cq),
           InOrder(h, t, c, s, hh, ht, k)'
    PROVE  Inv'
<1>1. Pointers(h, t, c, s, hh, ht)' /\ Queued(ht, k)' /\ Held(h, k)'
  BY DEF Unwrapped, Pointers, Queued, Held
<1> QED
  BY <1>1, Found

\* Dropping a packet changes no pointer.
LEMMA XmitDropInv ==
    ASSUME Inv, NEW more \in BOOLEAN, XmitDrop(more)
    PROVE  Inv'
<1>1. PICK h, t, c, s, hh, ht, k \in Nat : Unwrapped(h, t, c, s, hh, ht, k)
  BY DEF Inv, Positioned
<1>2. TypeOK' /\ UNCHANGED <<head, stopped, xmit, stopQueue, poller, nic, cleanSeen, skb, cq>>
  BY DEF Inv, TypeOK, XmitDrop, poller, nic
<1>3. InOrder(h, t, c, s, hh, ht, k)'
  BY <1>1, <1>2 DEF Unwrapped, InOrder, Open, poller
<1> QED
  BY <1>1, <1>2, <1>3, Stays DEF poller, nic

\* Stopping, ringing and rechecking: the doorbell takes its register to head.
LEMMA XmitStepInv ==
    ASSUME Inv, XmitStep
    PROVE  Inv'
<1>1. PICK h, t, c, s, hh, ht, k \in Nat :
          Unwrapped(h, t, c, s, hh, ht, k) /\ Distances(h, t, c, s, hh, ht)
  BY Unwrap
<1>2. Ahead(head, cleanSeen) = h - s /\ s <= c
  BY <1>1 DEF Distances, Unwrapped, InOrder
<1>3. CASE XmitStop
  <2>1. /\ UNCHANGED <<head, burst, poller, nic, cleanSeen, skb, cq>>
        /\ xmit = "full?" /\ xmit' = "doorbell"
        /\ stopped' = IsFull(cleanSeen) /\ stopQueue' = IsFull(cleanSeen)
    BY <1>3 DEF XmitStop
  <2>2. IsFull(cleanSeen) \in BOOLEAN /\ (~IsFull(cleanSeen) => h - s < FullSize)
    BY <1>2, Widths DEF IsFull
  <2>3. TypeOK'
    BY <2>1, <2>2 DEF Inv, TypeOK, poller, nic
  <2>4. InOrder(h, t, c, s, hh, ht, k)'
    BY <1>1, <1>2, <2>1, <2>2, Widths DEF Unwrapped, InOrder, Open, poller
  <2> QED
    BY <1>1, <2>1, <2>3, <2>4, Stays DEF poller, nic
<1>4. CASE XmitRecheck
  <2>1. /\ UNCHANGED <<head, burst, poller, nic, cleanSeen, skb, cq>>
        /\ xmit = "recheck" /\ xmit' = "idle" /\ stopQueue' = FALSE
        /\ stopped' = (stopped /\ IsFull(cleanSeen))
    BY <1>4 DEF XmitRecheck
  <2>2. ~stopped' => ~stopped \/ h - s < FullSize
    <3>1. IsFull(cleanSeen) <=> h - s >= FullSize
      BY <1>2, Widths DEF IsFull
    <3>2. ~stopped' => ~stopped \/ ~(h - s >= FullSize)
      BY <2>1, <3>1, Zenon
    <3> QED
      BY <3>2, Widths
  <2>3. TypeOK'
    <3>1. stopped' \in BOOLEAN
      BY <2>1, Zenon
    <3> QED
      BY <2>1, <3>1 DEF Inv, TypeOK, poller, nic
  <2>4. InOrder(h, t, c, s, hh, ht, k)'
    BY <1>1, <1>2, <2>1, <2>2, Widths DEF Unwrapped, InOrder, Open, poller
  <2> QED
    BY <1>1, <2>1, <2>3, <2>4, Stays DEF poller, nic
<1>5. CASE XmitDoorbell
  <2>1. /\ UNCHANGED <<head, stopped, stopQueue, poller, hwTail, fetched, cleanSeen, skb, cq>>
        /\ xmit = "doorbell" /\ xmit' \in {"idle", "recheck"} /\ burst' \in BOOLEAN
    BY <1>5 DEF XmitDoorbell
  <2>2. head % HwMod = Hw(h)
    BY <1>1, HwOfSw DEF Unwrapped, Pointers
  <2>3. PICK n \in {h, hh} : hwHead' = Hw(n)
    BY <1>1, <1>5, <2>2 DEF XmitDoorbell, Unwrapped, Pointers
  <2>4. TypeOK'
    <3>1. hwHead' \in 0..HwMod - 1
      BY <2>3, Ranges
    <3> QED
      BY <2>1, <3>1 DEF Inv, TypeOK, poller
  <2>5. Pointers(h, t, c, s, n, ht)'
    BY <1>1, <2>1, <2>3 DEF Unwrapped, Pointers, poller
  <2>6. InOrder(h, t, c, s, n, ht, k)'
    BY <1>1, <2>1 DEF Unwrapped, InOrder, Open, poller
  <2>7. Queued(ht, k)' /\ Held(h, k)'
    BY <1>1, <2>1 DEF Unwrapped, Queued, Held, poller
  <2> QED
    BY <2>4, <2>5, <2>6, <2>7, Found
<1> QED
  BY <1>3, <1>4, <1>5 DEF XmitStep

\* Fetching a descriptor moves the tail of the NIC by one.
LEMMA NicFetchInv ==
    ASSUME Inv, NicFetch
    PROVE  Inv'
<1>1. PICK h, t, c, s, hh, ht, k \in Nat : Unwrapped(h, t, c, s, hh, ht, k)
  BY DEF Inv, Positioned
<1>2. /\ UNCHANGED <<sender, poller, hwHead, cleanSeen, skb, cq>>
      /\ hwHead = Hw(hh) /\ hwTail = Hw(ht) /\ hwTail # hwHead
      /\ hwTail' = (hwTail + 1) % HwMod /\ fetched' = Append(fetched, Slot(hwTail))
  BY <1>1 DEF NicFetch, Unwrapped, Pointers
<1>3. ht + 1 \in Nat /\ ht < hh
  BY <1>1, <1>2 DEF Unwrapped, InOrder
<1>4. hwTail' = Hw(ht + 1) /\ Slot(hwTail) = Slot(ht) /\ Slot(ht) \in 0..Size - 1
  BY <1>2, HwAdd, SlotOfSum, Ranges
<1>5. /\ fetched \in Seq(0..Size - 1) /\ fetched' = Append(fetched, Slot(ht))
      /\ Len(fetched') = Len(fetched) + 1
      /\ \A j \in 1..Len(fetched) : fetched'[j] = fetched[j]
      /\ fetched'[Len(fetched) + 1] = Slot(ht)
  BY <1>2, <1>4 DEF Inv, TypeOK
<1>6. TypeOK'
  <2>1. hwTail' \in 0..HwMod - 1 /\ fetched' \in Seq(0..Size - 1)
    BY <1>4, <1>5, Ranges
  <2> QED
    BY <1>2, <2>1 DEF Inv, TypeOK, sender, poller
<1>7. Pointers(h, t, c, s, hh, ht + 1)'
  BY <1>1, <1>2, <1>4 DEF Unwrapped, Pointers, sender, poller
<1>8. InOrder(h, t, c, s, hh, ht + 1, k)'
  BY <1>1, <1>2, <1>3 DEF Unwrapped, InOrder, Open, sender, poller
<1>9. Queued(ht + 1, k)'
  <2>1. Len(cq) \in Nat /\ Len(fetched) \in Nat
    BY DEF Inv, TypeOK
  <2>2. /\ Len(cq) + Len(fetched) = ht - k
        /\ \A j \in 1..Len(cq) : cq[j] = Slot(k + j - 1)
        /\ \A j \in 1..Len(fetched) : fetched[j] = Slot(k + Len(cq) + j - 1)
        /\ poll = "loop" => avail <= Len(cq)
    BY <1>1 DEF Unwrapped, Queued
  <2>3. k + Len(cq) + (Len(fetched) + 1) - 1 = ht
    BY <2>1, <2>2
  <2>4. \A j \in 1..Len(fetched') : fetched'[j] = Slot(k + Len(cq) + j - 1)
    <3> SUFFICES ASSUME NEW j \in 1..Len(fetched) + 1
                 PROVE  fetched'[j] = Slot(k + Len(cq) + j - 1)
      BY <1>5
    <3>1. CASE j = Len(fetched) + 1
      BY <1>5, <2>3, <3>1
    <3>2. CASE j # Len(fetched) + 1
      BY <1>5, <2>1, <2>2, <3>2
    <3> QED
      BY <3>1, <3>2
  <2> QED
    <3>1. /\ cq' = cq /\ Len(cq') + Len(fetched') = ht + 1 - k
          /\ poll' = "loop" => avail' <= Len(cq')
      BY <1>2, <1>5, <2>1, <2>2 DEF poller
    <3>2. \A j \in 1..Len(cq') : cq'[j] = Slot(k + j - 1)
      BY <2>2, <3>1
    <3>3. \A j \in 1..Len(fetched') : fetched'[j] = Slot(k + Len(cq') + j - 1)
      BY <2>4, <3>1
    <3> QED
      BY <3>1, <3>2, <3>3 DEF Queued
<1>10. Held(h, k)'
  BY <1>1, <1>2 DEF Unwrapped, Held
<1> QED
  BY <1>3, <1>6, <1>7, <1>8, <1>9, <1>10, Found

\* The CQ has room: no completion is discarded.
LEMMA NicCompleteInv ==
    ASSUME Inv, NicComplete
    PROVE  Inv'
<1>1. PICK h, t, c, s, hh, ht, k \in Nat : Unwrapped(h, t, c, s, hh, ht, k)
  BY DEF Inv, Positioned
<1>2. /\ fetched \in Seq(0..Size - 1) /\ cq \in Seq(0..Size - 1) /\ Len(cq) \in Nat
      /\ Len(fetched) \in Nat /\ fetched # <<>> /\ Len(fetched) >= 1
  BY SMTT(30) DEF Inv, TypeOK, NicComplete
<1>3. /\ Len(cq) + Len(fetched) = ht - k
      /\ \A j \in 1..Len(cq) : cq[j] = Slot(k + j - 1)
      /\ \A j \in 1..Len(fetched) : fetched[j] = Slot(k + Len(cq) + j - 1)
      /\ poll = "loop" => avail <= Len(cq)
  BY <1>1 DEF Unwrapped, Queued
<1>4. Len(cq) < Size
  <2>1. ht - k <= FullSize + 1
    BY <1>1, Widths DEF Unwrapped, InOrder
  <2> QED
    BY <1>2, <1>3, <2>1, Widths
<1>5. /\ UNCHANGED <<sender, poller, hwHead, hwTail, cleanSeen, skb>>
      /\ fetched' = Tail(fetched) /\ cq' = Append(cq, Head(fetched))
  BY <1>4 DEF NicComplete
<1>6. /\ fetched' \in Seq(0..Size - 1) /\ Len(fetched') = Len(fetched) - 1
      /\ \A j \in 1..Len(fetched) - 1 : fetched'[j] = fetched[j + 1]
  BY <1>2, <1>5, Popped, Zenon
<1>7. /\ cq' \in Seq(0..Size - 1) /\ Len(cq') = Len(cq) + 1
      /\ \A j \in 1..Len(cq) : cq'[j] = cq[j]
      /\ cq'[Len(cq) + 1] = fetched[1]
  <2>1. Head(fetched) = fetched[1] /\ fetched[1] \in 0..Size - 1
    BY <1>2, Popped, Zenon
  <2>2. cq' = Append(cq, fetched[1])
    BY <1>5, <2>1
  <2> QED
    BY <1>2, <2>1, <2>2, Appended
<1>8. TypeOK'
  <2>1. Len(cq') <= Size
    BY <1>2, <1>4, <1>7, Widths
  <2> QED
    BY <1>5, <1>6, <1>7, <2>1 DEF Inv, TypeOK, sender, poller
<1>9. Pointers(h, t, c, s, hh, ht)' /\ InOrder(h, t, c, s, hh, ht, k)' /\ Held(h, k)'
  BY <1>1, <1>5 DEF Unwrapped, Pointers, InOrder, Held, Open, sender, poller
<1>10. Queued(ht, k)'
  <2>1. \A j \in 1..Len(cq) + 1 : cq'[j] = Slot(k + j - 1)
    <3>1. fetched[1] = Slot(k + Len(cq) + 1 - 1)
      BY <1>2, <1>3
    <3>2. k + Len(cq) + 1 - 1 = k + (Len(cq) + 1) - 1
      BY <1>2
    <3> TAKE j \in 1..Len(cq) + 1
    <3>3. CASE j = Len(cq) + 1
      BY <1>7, <3>1, <3>2, <3>3
    <3>4. CASE j # Len(cq) + 1
      BY <1>2, <1>3, <1>7, <3>4
    <3> QED
      BY <3>3, <3>4
  <2>2. \A j \in 1..Len(fetched) - 1 : fetched'[j] = Slot(k + (Len(cq) + 1) + j - 1)
    <3> TAKE j \in 1..Len(fetched) - 1
    <3>1. j + 1 \in 1..Len(fetched) /\ k + Len(cq) + (j + 1) - 1 = k + (Len(cq) + 1) + j - 1
      BY <1>2
    <3>2. fetched[j + 1] = Slot(k + Len(cq) + (j + 1) - 1)
      BY <1>3, <3>1
    <3> QED
      BY <1>6, <3>1, <3>2
  <2> QED
    <3>1. Len(cq') + Len(fetched') = ht - k /\ (poll' = "loop" => avail' <= Len(cq'))
      <4>1. avail \in Int /\ avail' = avail /\ poll' = poll
        BY <1>5, Widths DEF Inv, TypeOK, poller
      <4>2. Len(cq') = Len(cq) + 1 /\ Len(fetched') = Len(fetched) - 1
        BY <1>6, <1>7
      <4>3. Len(cq) + Len(fetched) = ht - k /\ (poll = "loop" => avail <= Len(cq))
        BY <1>3
      <4>4. Len(cq) \in Int /\ Len(fetched) \in Int
        BY <1>2
      <4> QED
        BY <4>1, <4>2, <4>3, <4>4
    <3>2. \A j \in 1..Len(cq') : cq'[j] = Slot(k + j - 1)
      BY <1>7, <2>1
    <3>3. \A j \in 1..Len(fetched') : fetched'[j] = Slot(k + Len(cq') + j - 1)
      BY <1>6, <1>7, <2>2
    <3> QED
      BY <3>1, <3>2, <3>3 DEF Queued
<1> QED
  BY <1>8, <1>9, <1>10, Found

\* Pointers that look the same to the poll and the sender are the same position.
LEMMA PollReadHeadInv ==
    ASSUME Inv, PollReadHead
    PROVE  Inv'
<1>1. PICK h, t, c, s, hh, ht, k \in Nat :
          Unwrapped(h, t, c, s, hh, ht, k) /\ Distances(h, t, c, s, hh, ht)
  BY Unwrap
<1>2. /\ UNCHANGED <<sender, tail, clean, nic, cleanSeen, skb, cq>>
      /\ poll = "idle" /\ poll' = "loop" /\ avail' = Len(cq) /\ cleanSeen = clean
  BY DEF PollReadHead
<1>3. s = c
  BY <1>1, <1>2, SMTT(30) DEF Distances
<1>4. Len(cq) \in 0..Size
  BY Widths DEF Inv, TypeOK
<1>5. TypeOK'
  BY <1>2, <1>4 DEF Inv, TypeOK, sender, nic
<1>6. InOrder(h, t, c, s, hh, ht, k)'
  BY <1>1, <1>2, <1>3 DEF Unwrapped, InOrder, Open, sender
<1>7. avail' <= Len(cq)
  BY <1>2, <1>4, Widths
<1> QED
  BY <1>1, <1>2, <1>5, <1>6, <1>7, Stays DEF sender, nic

\* Taking n completions frees the slots of the next n positions.
LEMMA PollLoopInv ==
    ASSUME Inv, PollLoop
    PROVE  Inv'
<1>1. PICK h, t, c, s, hh, ht, k \in Nat : Unwrapped(h, t, c, s, hh, ht, k)
  BY DEF Inv, Positioned
<1>0. PICK n \in Nat : n = (IF avail <= Budget THEN avail ELSE Budget) /\ n <= avail
  <2>1. avail \in Nat /\ Budget \in Nat
    BY RingAssumption, Widths DEF Inv, TypeOK
  <2> QED
    BY <2>1
<1>2. /\ UNCHANGED <<sender, tail, clean, nic, cleanSeen>>
      /\ poll = "loop" /\ poll' = "tail" /\ avail' = 0
      /\ cq' = SubSeq(cq, n + 1, Len(cq))
      /\ skb' = [i \in DOMAIN skb |-> skb[i] /\ i \notin {cq[j] : j \in 1..n}]
  BY <1>0 DEF PollLoop
<1>3. /\ cq \in Seq(0..Size - 1) /\ Len(cq) \in Nat /\ Len(fetched) \in Nat
      /\ skb \in [0..Size - 1 -> BOOLEAN]
      /\ Len(cq) + Len(fetched) = ht - k
      /\ \A j \in 1..Len(cq) : cq[j] = Slot(k + j - 1)
      /\ \A j \in 1..Len(fetched) : fetched[j] = Slot(k + Len(cq) + j - 1)
  BY <1>1, SMTT(30) DEF Inv, TypeOK, Unwrapped, Queued
<1>4. n \in Nat /\ n <= Len(cq)
  <2>1. avail \in 0..Size /\ avail <= Len(cq)
    BY <1>1, <1>2 DEF Inv, TypeOK, Unwrapped, Queued
  <2> QED
    BY <1>0, <1>3, <2>1, Widths
<1>5. /\ cq' \in Seq(0..Size - 1) /\ Len(cq') = Len(cq) - n
      /\ \A j \in 1..Len(cq) - n : cq'[j] = cq[n + j]
  BY <1>2, <1>3, <1>4, Rest
<1>6. TypeOK'
  <2>1. skb' \in [0..Size - 1 -> BOOLEAN] /\ avail' \in 0..Size
    BY <1>2, <1>3, Widths
  <2>2. Len(cq) <= Size
    BY DEF Inv, TypeOK
  <2>3. Len(cq') <= Size
    BY <1>3, <1>4, <1>5, <2>2, Widths
  <2> QED
    BY <1>2, <1>5, <2>1, <2>3 DEF Inv, TypeOK, sender, nic
<1>7. Pointers(h, t, c, s, hh, ht)'
  BY <1>1, <1>2 DEF Unwrapped, Pointers, sender, nic
<1>8. k + n \in Nat /\ k + n <= ht
  BY <1>3, <1>4
<1>9. InOrder(h, t, c, s, hh, ht, k + n)'
  BY <1>1, <1>2, <1>4, <1>8 DEF Unwrapped, InOrder, Open, sender
<1>10. Queued(ht, k + n)'
  <2>1. fetched' = fetched /\ Len(cq') + Len(fetched') = ht - (k + n) /\ poll' # "loop"
    <3>1. fetched' = fetched /\ poll' # "loop"
      BY <1>2 DEF nic
    <3>2. Len(cq') = Len(cq) - n /\ Len(fetched') = Len(fetched)
      BY <1>5, <3>1
    <3> QED
      BY <1>3, <1>4, <3>1, <3>2
  <2>2. \A j \in 1..Len(cq') : cq'[j] = Slot(k + n + j - 1)
    <3> TAKE j \in 1..Len(cq')
    <3>1. n + j \in 1..Len(cq) /\ k + (n + j) - 1 = k + n + j - 1 /\ j \in 1..Len(cq) - n
      BY <1>3, <1>4, <1>5
    <3>2. cq[n + j] = Slot(k + (n + j) - 1)
      BY <1>3, <3>1
    <3> QED
      BY <1>5, <3>1, <3>2
  <2>3. \A j \in 1..Len(fetched') : fetched'[j] = Slot(k + n + Len(cq') + j - 1)
    <3> TAKE j \in 1..Len(fetched')
    <3>1. k + n + Len(cq') + j - 1 = k + Len(cq) + j - 1
      BY <1>3, <1>4, <1>5, SMTT(30)
    <3> QED
      BY <1>3, <2>1, <3>1
  <2> QED
    BY <2>1, <2>2, <2>3 DEF Queued
<1>11. Held(h, k + n)'
  <2> SUFFICES ASSUME NEW i \in 0..Size - 1
               PROVE  skb'[i] <=> \E p \in k + n..h - 1 : Slot(p) = i
    BY <1>2 DEF Held, sender
  <2>1. skb[i] <=> \E p \in k..h - 1 : Slot(p) = i
    BY <1>1 DEF Unwrapped, Held
  <2>2. skb'[i] <=> skb[i] /\ ~\E j \in 1..n : cq[j] = i
    BY <1>2, <1>3
  <2>3. k <= ht /\ ht <= h /\ h - k <= Size
    BY <1>1, Widths DEF Unwrapped, InOrder
  <2>4. (\E j \in 1..n : cq[j] = i) <=> \E p \in k..k + n - 1 : Slot(p) = i
    <3>1. ASSUME NEW j \in 1..n, cq[j] = i PROVE \E p \in k..k + n - 1 : Slot(p) = i
      <4>1. k + j - 1 \in k..k + n - 1 /\ j \in 1..Len(cq)
        BY <1>3, <1>4
      <4>2. Slot(k + j - 1) = i
        BY <1>3, <3>1, <4>1
      <4> QED
        BY <4>1, <4>2
    <3>2. ASSUME NEW p \in k..k + n - 1, Slot(p) = i PROVE \E j \in 1..n : cq[j] = i
      <4>1. p - k + 1 \in 1..n /\ p - k + 1 \in 1..Len(cq) /\ k + (p - k + 1) - 1 = p
        BY <1>3, <1>4
      <4>2. cq[p - k + 1] = Slot(k + (p - k + 1) - 1)
        BY <1>3, <4>1
      <4> QED
        BY <3>2, <4>1, <4>2
    <3> QED
      BY <3>1, <3>2
  <2>5. ASSUME NEW p \in k..k + n - 1, NEW r \in k + n..h - 1, Slot(p) = Slot(r) PROVE FALSE
    <3>1. r - p < Size /\ p - r < Size /\ p # r
      BY <1>4, <2>3, <2>5, Widths
    <3> QED
      BY <2>5, <3>1, SlotsDiffer
  <2>6. \A p \in k..h - 1 : p \in k..k + n - 1 \/ p \in k + n..h - 1
    BY <1>4
  <2>7. \A p \in k + n..h - 1 : p \in k..h - 1
    BY <1>4
  <2> QED
    BY <2>1, <2>2, <2>4, <2>5, <2>6, <2>7
<1> QED
  BY <1>6, <1>7, <1>8, <1>9, <1>10, <1>11, Found

\* Reading the register takes the tail to the position the NIC has reached.
LEMMA PollReadTailInv ==
    ASSUME Inv, PollReadTail
    PROVE  Inv'
<1>1. PICK h, t, c, s, hh, ht, k \in Nat :
          Unwrapped(h, t, c, s, hh, ht, k) /\ Distances(h, t, c, s, hh, ht)
  BY Unwrap
<1>2. /\ UNCHANGED <<sender, clean, avail, nic, cleanSeen, skb, cq>>
      /\ poll = "tail" /\ poll' = "clean" /\ tail' = (tail + HwAhead(hwTail, tail)) % SwMod
  BY DEF PollReadTail
<1>3. tail' = Sw(ht)
  <2>1. tail' = (Sw(t) + (ht - t)) % SwMod
    BY <1>1, <1>2 DEF Distances, Unwrapped, Pointers
  <2>2. t + (ht - t) = ht /\ ht - t \in Int
    OBVIOUS
  <2> QED
    BY <2>1, <2>2, SwAdd
<1>4. TypeOK'
  <2>1. tail' \in 0..SwMod - 1
    BY <1>3, Ranges
  <2> QED
    BY <1>2, <2>1 DEF Inv, TypeOK, sender, nic
<1>5. Pointers(h, ht, c, s, hh, ht)'
  BY <1>1, <1>2, <1>3 DEF Unwrapped, Pointers, sender, nic
<1>6. InOrder(h, ht, c, s, hh, ht, k)'
  BY <1>1, <1>2 DEF Unwrapped, InOrder, Open, sender
<1>7. Queued(ht, k)' /\ Held(h, k)'
  BY <1>1, <1>2 DEF Unwrapped, Queued, Held, nic
<1> QED
  BY <1>4, <1>5, <1>6, <1>7, Found

\* The loop over clean_tail stops: there is a first packet, or there is none before the tail.
LEMMA CleanStops ==
    ASSUME NEW c \in Nat, NEW t \in Nat, NEW k \in Nat, c <= t, c <= k
    PROVE  \E n \in 0..t - c : c + n <= k /\ (n = t - c \/ c + n = k)
<1>1. CASE t <= k
  <2>1. t - c \in 0..t - c
    OBVIOUS
  <2>2. c + (t - c) <= k
    BY <1>1
  <2> QED
    BY <2>1, <2>2, Zenon
<1>2. CASE k < t
  <2>1. k - c \in 0..t - c /\ c + (k - c) = k
    BY <1>2
  <2>2. c + (k - c) <= k
    BY <2>1
  <2> QED
    BY <2>1, <2>2, Zenon
<1> QED
  BY <1>1, <1>2

\* The loop over clean_tail stops at the first packet or at the tail.
LEMMA PollCleanInv ==
    ASSUME Inv, PollClean
    PROVE  Inv'
<1>1. PICK h, t, c, s, hh, ht, k \in Nat :
          Unwrapped(h, t, c, s, hh, ht, k) /\ Distances(h, t, c, s, hh, ht)
  BY Unwrap
<1> DEFINE Free(n) == \A d \in 0..n - 1 : ~skb[Slot(clean + d)]
           Last(n) == Free(n) /\ (n = t - c \/ ~Free(n + 1))
<1>2. Ahead(tail, clean) = t - c /\ clean = Sw(c)
  BY <1>1 DEF Distances, Unwrapped, Pointers
<1>3. /\ c <= t /\ c <= k /\ t <= ht /\ ht <= h /\ k <= ht /\ h - c <= Size /\ s <= c
  BY <1>1, Widths DEF Unwrapped, InOrder
<1>4. \A d \in Nat : Slot(clean + d) = Slot(c + d) /\ Slot(c + d) \in 0..Size - 1
  <2> TAKE d \in Nat
  <2>1. c \in Int /\ d \in Int /\ c + d \in Int
    OBVIOUS
  <2> QED
    BY <1>2, <2>1, SlotOfSum, Ranges, Zenon
<1>5. \A i \in 0..Size - 1 : skb[i] <=> \E p \in k..h - 1 : Slot(p) = i
  BY <1>1 DEF Unwrapped, Held
<1>6. \A n \in Nat : c + n <= k => Free(n)
  <2> SUFFICES ASSUME NEW n \in Nat, c + n <= k, NEW d \in 0..n - 1
               PROVE  ~skb[Slot(c + d)]
    BY <1>4
  <2>1. ASSUME NEW p \in k..h - 1, Slot(p) = Slot(c + d) PROVE FALSE
    <3>1. p - (c + d) < Size /\ (c + d) - p < Size /\ p # c + d
      BY <1>3, Widths
    <3> QED
      BY <2>1, <3>1, SlotsDiffer
  <2>2. Slot(c + d) \in 0..Size - 1
    <3>1. c + d \in Int
      OBVIOUS
    <3> QED
      BY <3>1, Ranges, Zenon
  <2>3. ~\E p \in k..h - 1 : Slot(p) = Slot(c + d)
    BY <2>1, Zenon
  <2>4. skb[Slot(c + d)] <=> \E p \in k..h - 1 : Slot(p) = Slot(c + d)
    BY <1>5, <2>2
  <2> QED
    BY <2>3, <2>4
<1>7. \A n \in Nat : k < c + n /\ k < h => ~Free(n)
  <2> SUFFICES ASSUME NEW n \in Nat, k < c + n, k < h
               PROVE  \E d \in 0..n - 1 : skb[Slot(clean + d)]
    OBVIOUS
  <2>1. k - c \in 0..n - 1 /\ c + (k - c) = k /\ k - c \in Nat
    BY <1>3
  <2>2. skb[Slot(k)]
    <3>1. k \in k..h - 1 /\ Slot(k) \in 0..Size - 1
      BY Ranges
    <3> QED
      BY <1>5, <3>1
  <2>3. Slot(clean + (k - c)) = Slot(k)
    BY <1>4, <2>1
  <2> QED
    BY <2>1, <2>2, <2>3
<1>8. \E n \in 0..t - c : Last(n)
  <2>1. PICK n \in 0..t - c : c + n <= k /\ (n = t - c \/ c + n = k)
    BY <1>3, CleanStops
  <2>2. Free(n)
    BY <1>6, <2>1
  <2>3. n = t - c \/ ~Free(n + 1)
    <3>1. CASE n # t - c
      <4>1. n + 1 \in Nat /\ k < c + (n + 1) /\ k < h
        BY <1>3, <2>1, <3>1
      <4> QED
        BY <1>7, <4>1
    <3> QED
      BY <3>1
  <2> QED
    BY <2>2, <2>3
<1>9. /\ UNCHANGED <<sender, tail, avail, nic, cleanSeen, skb, cq>>
      /\ poll = "clean" /\ poll' = "wake?"
      /\ clean' = (clean + (CHOOSE n \in 0..t - c : Last(n))) % SwMod
  BY <1>2 DEF PollClean
<1>10. PICK n \in 0..t - c : Last(n) /\ clean' = (clean + n) % SwMod
  <2> HIDE DEF Last
  <2> QED
    BY <1>8, <1>9
<1>11. c + n \in Nat /\ c + n <= k /\ c + n <= t /\ c <= c + n
  <2>1. CASE k < h
    <3>1. n \in Nat /\ Free(n)
      BY <1>10
    <3>2. ~(k < c + n)
      BY <1>7, <2>1, <3>1
    <3> HIDE DEF Free
    <3> QED
      BY <1>3, <3>1, <3>2
  <2>2. CASE k >= h
    BY <1>3, <2>2
  <2> QED
    BY <1>3, <2>1, <2>2
<1>12. clean' = Sw(c + n)
  BY <1>2, <1>10, SwAdd
<1> HIDE DEF Last, Free
<1>13. TypeOK'
  <2>1. clean' \in 0..SwMod - 1
    BY <1>11, <1>12, Ranges
  <2> QED
    BY <1>9, <2>1 DEF Inv, TypeOK, sender, nic
<1>14. Pointers(h, t, c + n, s, hh, ht)'
  BY <1>1, <1>9, <1>12 DEF Unwrapped, Pointers, sender, nic
<1>15. InOrder(h, t, c + n, s, hh, ht, k)'
  BY <1>1, <1>3, <1>9, <1>11, Widths DEF Unwrapped, InOrder, Open, sender
<1>16. Queued(ht, k)' /\ Held(h, k)'
  BY <1>1, <1>9 DEF Unwrapped, Queued, Held, nic
<1> QED
  BY <1>11, <1>13, <1>14, <1>15, <1>16, Found

\* The store seen, both copies of clean_tail are at one position.
LEMMA CleanVisibleInv ==
    ASSUME Inv, CleanVisible
    PROVE  Inv'
<1>1. PICK h, t, c, s, hh, ht, k \in Nat : Unwrapped(h, t, c, s, hh, ht, k)
  BY DEF Inv, Positioned
<1>2. cleanSeen' = clean /\ UNCHANGED <<sender, poller, nic, skb, cq>>
  BY DEF CleanVisible
<1>3. TypeOK'
  BY <1>2 DEF Inv, TypeOK, sender, poller, nic
<1>4. Pointers(h, t, c, c, hh, ht)'
  BY <1>1, <1>2 DEF Unwrapped, Pointers, sender, poller, nic
<1>5. InOrder(h, t, c, c, hh, ht, k)'
  BY <1>1, <1>2, Widths DEF Unwrapped, InOrder, Open, sender, poller
<1>6. Queued(ht, k)' /\ Held(h, k)'
  BY <1>1, <1>2 DEF Unwrapped, Queued, Held, poller, nic
<1> QED
  BY <1>3, <1>4, <1>5, <1>6, Found

\* The poll wakes only a queue it saw with room.
LEMMA PollTestWakeInv ==
    ASSUME Inv, PollTestWake
    PROVE  Inv'
<1>1. PICK h, t, c, s, hh, ht, k \in Nat :
          Unwrapped(h, t, c, s, hh, ht, k) /\ Distances(h, t, c, s, hh, ht)
  BY Unwrap
<1>2. /\ UNCHANGED <<sender, tail, clean, avail, nic, cleanSeen, skb, cq>>
      /\ poll = "wake?" /\ poll' \in {"wake", "idle"}
      /\ poll' = "wake" => stopped /\ ~IsFull(clean)
  BY DEF PollTestWake
<1>3. poll' = "wake" => stopped /\ h - c < FullSize
  BY <1>1, <1>2, Widths DEF Distances, IsFull
<1>4. TypeOK'
  BY <1>2 DEF Inv, TypeOK, sender, nic
<1>5. InOrder(h, t, c, s, hh, ht, k)'
  BY <1>1, <1>2, <1>3, Widths DEF Unwrapped, InOrder, Open, sender
<1> QED
  BY <1>1, <1>2, <1>4, <1>5, Stays DEF sender, nic

\* Waking opens the queue; the room seen may have shrunk by then.
LEMMA PollWakeInv ==
    ASSUME Inv, PollWake
    PROVE  Inv'
<1>1. PICK h, t, c, s, hh, ht, k \in Nat : Unwrapped(h, t, c, s, hh, ht, k)
  BY DEF Inv, Positioned
<1>2. /\ UNCHANGED <<head, burst, xmit, stopQueue, tail, clean, avail, nic, cleanSeen, skb, cq>>
      /\ poll = "wake" /\ poll' = "idle" /\ stopped' = FALSE
  BY DEF PollWake
<1>3. TypeOK'
  BY <1>2 DEF Inv, TypeOK, nic
<1>4. InOrder(h, t, c, s, hh, ht, k)'
  BY <1>1, <1>2, Widths DEF Unwrapped, InOrder, Open
<1> QED
  BY <1>1, <1>2, <1>3, <1>4, Stays DEF nic

\* Every step, stuttering included, keeps the invariant.
LEMMA StepInv ==
    ASSUME Inv, [Next]_vars
    PROVE  Inv'
<1>1. CASE UNCHANGED vars
  <2>1. UNCHANGED <<sender, poller, nic, cleanSeen, skb, cq>>
    BY <1>1 DEF vars
  <2>2. TypeOK'
    BY <2>1 DEF Inv, TypeOK, sender, poller, nic
  <2>3. PICK h, t, c, s, hh, ht, k \in Nat : Unwrapped(h, t, c, s, hh, ht, k)
    BY DEF Inv, Positioned
  <2>4. InOrder(h, t, c, s, hh, ht, k)'
    BY <2>1, <2>3 DEF Unwrapped, InOrder, Open, sender, poller
  <2> QED
    BY <2>1, <2>2, <2>3, <2>4, Stays DEF sender, poller, nic
<1>2. CASE \E more \in BOOLEAN : XmitPost(more) \/ XmitDrop(more)
  BY <1>2, XmitPostInv, XmitDropInv
<1>3. CASE XmitStep
  BY <1>3, XmitStepInv
<1>4. CASE NicFetch \/ NicComplete
  BY <1>4, NicFetchInv, NicCompleteInv
<1>5. CASE PollReadHead \/ PollStep \/ CleanVisible
  BY <1>5, PollReadHeadInv, PollLoopInv, PollReadTailInv, PollCleanInv, PollTestWakeInv,
     PollWakeInv, CleanVisibleInv DEF PollStep
<1> QED
  BY <1>1, <1>2, <1>3, <1>4, <1>5 DEF Next

\* Every reachable state has positions in order.
THEOREM Invariance == Safety => []Inv
<1>1. Init => Inv
  BY InitInv
<1>2. Inv /\ [Next]_vars => Inv'
  BY StepInv
<1> QED
  BY <1>1, <1>2, PTL DEF Safety

-----------------------------------------------------------------------------
(* The properties. *)

\* Pointers stay within their width, tables within the ring, program counters in the code.
THEOREM TypeCorrect == Safety => []TypeOK
<1>1. Inv => TypeOK
  BY DEF Inv
<1> QED
  BY <1>1, Invariance, PTL

\* Positions in order make pointers in order.
LEMMA OrderHolds == ASSUME Inv PROVE RingOrdered
<1>1. PICK h, t, c, s, hh, ht, k \in Nat :
          Unwrapped(h, t, c, s, hh, ht, k) /\ Distances(h, t, c, s, hh, ht)
  BY Unwrap
<1>2. /\ c <= t /\ t <= ht /\ ht <= hh /\ hh <= h /\ c <= k
      /\ h - c <= FullSize + 1 /\ h - s <= FullSize + 2 /\ Len(cq) + Len(fetched) = ht - k
  BY <1>1 DEF Unwrapped, InOrder, Queued
<1>3. Len(cq) + Len(fetched) <= Size
  BY <1>2, Widths
<1> QED
  BY <1>1, <1>2, <1>3, Widths DEF Distances, RingOrdered

\* The pointers never pass one another, at most one packet more than half the ring is in
\* use, and the CQ has room for every completion under way (mqnic_tx.c:340-341, 517-526;
\* cpl_write.v:481-484): for rings of every size, pointers of every width, every budget.
THEOREM PointersStayInOrder == Safety => []RingOrdered
<1>1. Inv => RingOrdered
  BY OrderHolds
<1> QED
  BY <1>1, Invariance, PTL

\* Slots of the positions from the next completion to head are those the NIC and the CQ hold.
LEMMA SlotsHold == ASSUME Inv PROVE SlotsMatchRing
<1>1. PICK h, t, c, s, hh, ht, k \in Nat :
          Unwrapped(h, t, c, s, hh, ht, k) /\ Distances(h, t, c, s, hh, ht)
  BY Unwrap
<1>2. /\ Len(cq) + Len(fetched) = ht - k /\ k <= ht /\ ht <= h
      /\ \A j \in 1..Len(cq) : cq[j] = Slot(k + j - 1)
      /\ \A j \in 1..Len(fetched) : fetched[j] = Slot(k + Len(cq) + j - 1)
  BY <1>1 DEF Unwrapped, InOrder, Queued
<1>3. /\ Len(cq) \in Nat /\ Len(fetched) \in Nat
      /\ DOMAIN cq = 1..Len(cq) /\ DOMAIN fetched = 1..Len(fetched)
  BY DEF Inv, TypeOK
<1>4. HwAhead(head, hwTail) = h - ht /\ hwTail = Hw(ht)
  BY <1>1 DEF Distances, Unwrapped, Pointers
<1>5. \A d \in 0..h - ht - 1 : Slot(hwTail + d) = Slot(ht + d)
  BY <1>4, SlotOfSum
<1> SUFFICES ASSUME NEW i \in 0..Size - 1
             PROVE  skb[i] <=> \/ \E d \in 0..h - ht - 1 : i = Slot(hwTail + d)
                               \/ \E j \in 1..Len(fetched) : fetched[j] = i
                               \/ \E j \in 1..Len(cq) : cq[j] = i
  BY <1>3, <1>4 DEF SlotsMatchRing
<1>6. skb[i] <=> \E p \in k..h - 1 : Slot(p) = i
  BY <1>1 DEF Unwrapped, Held
<1>7. ASSUME NEW p \in k..h - 1, Slot(p) = i
      PROVE  \/ \E d \in 0..h - ht - 1 : i = Slot(hwTail + d)
             \/ \E j \in 1..Len(fetched) : fetched[j] = i
             \/ \E j \in 1..Len(cq) : cq[j] = i
  <2>1. CASE p >= ht
    <3>1. p - ht \in 0..h - ht - 1 /\ ht + (p - ht) = p
      BY <1>2, <2>1
    <3>2. Slot(hwTail + (p - ht)) = i
      BY <1>5, <1>7, <3>1
    <3> QED
      BY <3>1, <3>2
  <2>2. CASE p < k + Len(cq)
    <3>1. p - k + 1 \in 1..Len(cq) /\ k + (p - k + 1) - 1 = p
      BY <1>3, <2>2
    <3>2. cq[p - k + 1] = i
      BY <1>2, <1>7, <3>1
    <3> QED
      BY <3>1, <3>2
  <2>3. CASE k + Len(cq) <= p /\ p < ht
    <3> DEFINE j == p - k - Len(cq) + 1
    <3>1. j \in 1..Len(fetched) /\ k + Len(cq) + j - 1 = p
      BY <1>2, <1>3, <2>3
    <3>2. fetched[j] = i
      BY <1>2, <1>7, <3>1
    <3> QED
      BY <3>1, <3>2
  <2> QED
    BY <1>2, <1>3, <2>1, <2>2, <2>3
<1>8. ASSUME NEW d \in 0..h - ht - 1, i = Slot(hwTail + d)
      PROVE  \E p \in k..h - 1 : Slot(p) = i
  <2>1. ht + d \in k..h - 1 /\ Slot(ht + d) = i
    BY <1>2, <1>5, <1>8
  <2> QED
    BY <2>1
<1>9. ASSUME NEW j \in 1..Len(fetched), fetched[j] = i
      PROVE  \E p \in k..h - 1 : Slot(p) = i
  <2>1. k + Len(cq) + j - 1 \in k..h - 1 /\ Slot(k + Len(cq) + j - 1) = i
    BY <1>2, <1>3, <1>9
  <2> QED
    BY <2>1
<1>10. ASSUME NEW j \in 1..Len(cq), cq[j] = i
       PROVE  \E p \in k..h - 1 : Slot(p) = i
  <2>1. k + j - 1 \in k..h - 1 /\ Slot(k + j - 1) = i
    BY <1>2, <1>3, <1>10
  <2> QED
    BY <2>1
<1> QED
  BY <1>6, <1>7, <1>8, <1>9, <1>10

\* A slot holds a packet exactly while its completion is still to come or still to be
\* taken (mqnic_tx.c:301, 430, 517): nothing leaks and nothing is freed early.
THEOREM SlotsFollowTheRing == Safety => []SlotsMatchRing
<1>1. Inv => SlotsMatchRing
  BY SlotsHold
<1> QED
  BY <1>1, Invariance, PTL
=============================================================================
