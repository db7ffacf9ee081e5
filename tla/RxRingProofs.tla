---------------------------- MODULE RxRingProofs ----------------------------
(***************************************************************************)
(* Proofs about RxRing: for rings of every size and pointers of every      *)
(* width, whichever allocations fail, the pointers never pass one another, *)
(* the CQ has room for every page that is out, and a slot holds a page     *)
(* exactly while the NIC or the CQ has it.                                 *)
(*                                                                         *)
(* As in TxRingProofs the argument is about positions: natural numbers of  *)
(* which the pointers are remainders.                                      *)
(***************************************************************************)
EXTENDS RxRing, TLAPS

-----------------------------------------------------------------------------
(* Remainders, and queues: the same lemmas as in TxRingProofs.              *)

\* Every integer is a multiple of M and a remainder, which is what % computes.
LEMMA Division ==
    ASSUME NEW M \in Nat, M > 0, NEW a \in Int
    PROVE  \E q \in Int, r \in 0..M - 1 : a = M * q + r /\ a % M = r
<1>1. a % M \in 0..M - 1
  OBVIOUS
<1>2. \E q \in Int : a = M * q + (a % M)
  OBVIOUS
<1> QED
  BY <1>1, <1>2

\* An integer without remainder is a multiple.
LEMMA Divides ==
    ASSUME NEW M \in Nat, M > 0, NEW a \in Int, a % M = 0
    PROVE  \E q \in Int : a = M * q
<1>1. PICK q \in Int, r \in 0..M - 1 : a = M * q + r /\ a % M = r
  BY Division
<1> QED
  BY <1>1

\* The remainder of a multiple and a part smaller than M is that part.
LEMMA Remainder ==
    ASSUME NEW M \in Nat, M > 0, NEW q \in Int, NEW r \in 0..M - 1
    PROVE  (M * q + r) % M = r
OBVIOUS

\* A multiple of M does not change the remainder.
LEMMA Congruent ==
    ASSUME NEW M \in Nat, M > 0, NEW a \in Int, NEW q \in Int
    PROVE  (M * q + a) % M = a % M
<1>1. PICK k \in Int, r \in 0..M - 1 : a = M * k + r /\ a % M = r
  BY Division
<1>2. M * q + a = M * (q + k) + r
  BY <1>1
<1>3. (M * (q + k) + r) % M = r
  BY Remainder
<1> QED
  BY <1>1, <1>2, <1>3

\* A remainder may be taken before a sum.
LEMMA ModSum ==
    ASSUME NEW M \in Nat, M > 0, NEW a \in Int, NEW b \in Int
    PROVE  ((a % M) + b) % M = (a + b) % M
<1>1. PICK k \in Int, r \in 0..M - 1 : a = M * k + r /\ a % M = r
  BY Division
<1>2. a + b = M * k + (r + b) /\ r + b \in Int
  BY <1>1
<1>3. (M * k + (r + b)) % M = (r + b) % M
  BY <1>2, Congruent, Zenon
<1> QED
  BY <1>1, <1>2, <1>3, Zenon

\* Remainders may be taken before a difference.
LEMMA ModDifference ==
    ASSUME NEW M \in Nat, M > 0, NEW a \in Int, NEW b \in Int
    PROVE  ((a % M) - (b % M)) % M = (a - b) % M
<1>1. PICK k \in Int, r \in 0..M - 1 : a = M * k + r /\ a % M = r
  BY Division
<1>2. PICK l \in Int, s \in 0..M - 1 : b = M * l + s /\ b % M = s
  BY Division
<1>3. a - b = M * (k - l) + (r - s) /\ k - l \in Int /\ r - s \in Int
  BY <1>1, <1>2
<1>4. (M * (k - l) + (r - s)) % M = (r - s) % M
  BY <1>3, Congruent, Zenon
<1> QED
  BY <1>1, <1>2, <1>3, <1>4, Zenon

\* A remainder may be taken modulo a larger width first.
LEMMA ModMod ==
    ASSUME NEW M \in Nat, M > 0, NEW N \in Nat, N > 0, N % M = 0, NEW a \in Int
    PROVE  (a % N) % M = a % M
<1>1. PICK k \in Int, r \in 0..N - 1 : a = N * k + r /\ a % N = r
  BY Division
<1>2. PICK l \in Int : N = M * l
  BY Divides
<1>3. a = M * (l * k) + r /\ l * k \in Int /\ r \in Int
  BY <1>1, <1>2
<1>4. (M * (l * k) + r) % M = r % M
  BY <1>3, Congruent, Zenon
<1> QED
  BY <1>1, <1>3, <1>4, Zenon

\* Two positions less than M apart are told apart modulo M.
LEMMA ModInjective ==
    ASSUME NEW M \in Nat, M > 0, NEW a \in Int, NEW b \in Int, a - b \in 0..M - 1, a % M = b % M
    PROVE  a = b
<1>1. (a - b) % M = ((a % M) - (b % M)) % M
  BY ModDifference, Zenon
<1>2. (a - b) % M = a - b /\ a % M \in Int
  OBVIOUS
<1>3. ((a % M) - (a % M)) % M = 0
  BY <1>2
<1> QED
  BY <1>1, <1>2, <1>3

\* What Append does to a queue.
LEMMA Appended ==
    ASSUME NEW S, NEW u \in Seq(S), NEW x \in S
    PROVE  /\ Append(u, x) \in Seq(S) /\ Len(Append(u, x)) = Len(u) + 1
           /\ \A j \in 1..Len(u) : Append(u, x)[j] = u[j]
           /\ Append(u, x)[Len(u) + 1] = x
OBVIOUS

\* What taking the first of a queue leaves.
LEMMA Popped ==
    ASSUME NEW S, NEW u \in Seq(S), u # <<>>
    PROVE  /\ Head(u) = u[1] /\ u[1] \in S /\ Len(u) \in Nat /\ Len(u) >= 1
           /\ Tail(u) \in Seq(S) /\ Len(Tail(u)) = Len(u) - 1
           /\ \A j \in 1..Len(u) - 1 : Tail(u)[j] = u[j + 1]
OBVIOUS

\* What taking the first n of a queue leaves.
LEMMA Rest ==
    ASSUME NEW S, NEW u \in Seq(S), NEW n \in Nat, n <= Len(u)
    PROVE  /\ SubSeq(u, n + 1, Len(u)) \in Seq(S) /\ Len(SubSeq(u, n + 1, Len(u))) = Len(u) - n
           /\ \A j \in 1..Len(u) - n : SubSeq(u, n + 1, Len(u))[j] = u[n + j]
OBVIOUS

-----------------------------------------------------------------------------
(* The pointers of a position. *)

Sw(p) == p % SwMod
Hw(p) == p % HwMod

\* The widths: a whole ring is less than the narrow pointers can tell apart.
LEMMA Widths ==
    /\ Size \in Nat /\ Size > 0 /\ HwMod \in Nat /\ HwMod > Size /\ HwMod > 0
    /\ SwMod \in Nat /\ SwMod > 0 /\ SwMod >= HwMod /\ SwMod % Size = 0
<1>1. Size \in Nat /\ Size > 0 /\ HwMod \in Nat /\ HwMod > Size /\ SwMod \in Nat /\ SwMod > 0
  BY RingAssumption
<1>2. HwMod > 0
  BY <1>1
<1>3. PICK q \in Int : HwMod = Size * q
  <2>1. HwMod \in Int /\ HwMod % Size = 0
    BY <1>1, RingAssumption
  <2> QED
    BY <1>1, <2>1, Divides, Zenon
<1>4. PICK l \in Int : SwMod = HwMod * l
  <2>1. SwMod \in Int /\ SwMod % HwMod = 0
    BY <1>1, RingAssumption
  <2> QED
    BY <1>1, <1>2, <2>1, Divides, Zenon
<1>5. SwMod >= HwMod
  <2>1. l >= 1
    <3>1. CASE l <= 0
      <4>1. HwMod * l <= 0
        BY <1>1, <1>2, <3>1
      <4> QED
        BY <1>1, <1>4, <4>1
    <3> QED
      BY <3>1
  <2>2. HwMod * l >= HwMod
    BY <1>1, <1>2, <2>1
  <2> QED
    BY <1>1, <1>4, <2>2
<1>6. SwMod % Size = 0
  <2>1. SwMod = Size * (q * l) + 0 /\ q * l \in Int /\ 0 \in 0..Size - 1
    BY <1>1, <1>3, <1>4
  <2> QED
    BY <1>1, <2>1, Remainder, Zenon
<1> QED
  BY <1>1, <1>2, <1>5, <1>6

\* Adding to a pointer of the driver.
LEMMA SwAdd == ASSUME NEW a \in Int, NEW d \in Int PROVE (Sw(a) + d) % SwMod = Sw(a + d)
BY Widths, ModSum, Zenon DEF Sw

\* The register value of a pointer of the driver, and of one of the NIC.
LEMMA HwOfSw == ASSUME NEW a \in Int PROVE Sw(a) % HwMod = Hw(a) /\ Hw(a) % HwMod = Hw(a)
<1>1. HwMod % HwMod = 0
  BY Widths
<1> QED
  BY <1>1, Widths, RingAssumption, ModMod, Zenon DEF Sw, Hw

\* Adding to a pointer of either width and keeping the register's.
LEMMA HwAdd ==
    ASSUME NEW a \in Int, NEW d \in Int
    PROVE  (Sw(a) + d) % HwMod = Hw(a + d) /\ (Hw(a) + d) % HwMod = Hw(a + d)
<1>1. Sw(a) \in Int /\ Hw(a) \in Int
  BY Widths DEF Sw, Hw
<1>2. /\ (Sw(a) + d) % HwMod = ((Sw(a) % HwMod) + d) % HwMod
      /\ (Hw(a) + d) % HwMod = ((Hw(a) % HwMod) + d) % HwMod
  BY <1>1, Widths, ModSum, Zenon
<1>3. ((a % HwMod) + d) % HwMod = (a + d) % HwMod
  BY Widths, ModSum, Zenon
<1> QED
  BY <1>2, <1>3, HwOfSw, Zenon DEF Hw

\* Every position has a pointer within its width and a slot of the ring.
LEMMA Ranges ==
    ASSUME NEW a \in Int
    PROVE  Sw(a) \in 0..SwMod - 1 /\ Hw(a) \in 0..HwMod - 1 /\ Slot(a) \in Slots
BY Widths DEF Sw, Hw, Slot, Slots

\* The slot of a pointer, moved or not, is that of its position.
LEMMA SlotOfSum ==
    ASSUME NEW a \in Int, NEW d \in Int
    PROVE  /\ Slot(Sw(a) + d) = Slot(a + d) /\ Slot(Hw(a) + d) = Slot(a + d)
           /\ Slot(Sw(a)) = Slot(a) /\ Slot(Hw(a)) = Slot(a)
<1>1. Sw(a) \in Int /\ Hw(a) \in Int
  BY Ranges, Widths
<1>2. /\ (Sw(a) + d) % Size = ((Sw(a) % Size) + d) % Size
      /\ (Hw(a) + d) % Size = ((Hw(a) % Size) + d) % Size
  BY <1>1, Widths, ModSum, Zenon
<1>3. Sw(a) % Size = a % Size /\ Hw(a) % Size = a % Size
  <2>1. HwMod % Size = 0 /\ SwMod % Size = 0
    BY Widths, RingAssumption, Zenon
  <2>2. (a % SwMod) % Size = a % Size
    BY <2>1, Widths, ModMod, Zenon
  <2>3. (a % HwMod) % Size = a % Size
    BY <2>1, Widths, ModMod, Zenon
  <2> QED
    BY <2>2, <2>3 DEF Sw, Hw
<1>4. ((a % Size) + d) % Size = (a + d) % Size
  BY Widths, ModSum, Zenon
<1> QED
  BY <1>2, <1>3, <1>4, Zenon DEF Slot

\* How far apart two pointers of the driver are.
LEMMA SwGap ==
    ASSUME NEW a \in Int, NEW b \in Int, a - b \in 0..Size
    PROVE  Ahead(Sw(a), Sw(b)) = a - b
<1>1. (a - b) % SwMod = a - b
  BY Widths
<1> QED
  BY <1>1, Widths, ModDifference, Zenon DEF Ahead, Sw

\* The same in the width of the NIC, whichever width each pointer has.
LEMMA HwGap ==
    ASSUME NEW a \in Int, NEW b \in Int, a - b \in 0..Size,
           NEW x \in {Sw(a), Hw(a)}, NEW y \in {Sw(b), Hw(b)}
    PROVE  HwAhead(x, y) = a - b
<1>1. (a - b) % HwMod = a - b
  BY Widths
<1>2. x \in Int /\ y \in Int
  BY Ranges, Widths
<1>3. x % HwMod = a % HwMod /\ y % HwMod = b % HwMod
  BY HwOfSw, Zenon DEF Hw
<1>4. /\ ((x % HwMod) - (y % HwMod)) % HwMod = (x - y) % HwMod
      /\ ((a % HwMod) - (b % HwMod)) % HwMod = (a - b) % HwMod
  BY <1>2, Widths, ModDifference, Zenon
<1> QED
  BY <1>1, <1>3, <1>4, Zenon DEF HwAhead

\* Two positions less than a ring apart have different slots.
LEMMA SlotsDiffer ==
    ASSUME NEW a \in Int, NEW b \in Int, a - b < Size, b - a < Size, Slot(a) = Slot(b)
    PROVE  a = b
<1>1. a % Size = b % Size
  BY DEF Slot
<1>2. CASE a >= b
  <2>1. a - b \in 0..Size - 1
    BY <1>2, Widths
  <2> QED
    BY <1>1, <2>1, Widths, ModInjective, Zenon
<1>3. CASE b >= a
  <2>1. b - a \in 0..Size - 1
    BY <1>3, Widths
  <2> QED
    BY <1>1, <2>1, Widths, ModInjective, Zenon
<1> QED
  BY <1>2, <1>3

-----------------------------------------------------------------------------
(* The inductive invariant: positions for head, tail, clean, the NIC's tail  *)
(* and the next completion to be taken.  The refill writes head and the      *)
(* NIC's head register at once.                                              *)

Pointers(h, t, c, ht) ==
    /\ head = Sw(h) /\ tail = Sw(t) /\ clean = Sw(c)
    /\ hwHead = Hw(h) /\ hwTail = Hw(ht)

InOrder(h, t, c, ht, k) ==
    /\ c <= t /\ t <= ht /\ ht <= h /\ c <= k /\ k <= ht
    /\ h - c <= Size

\* What the NIC has fetched is completed in order: first the CQ, then the rest.
Queued(ht, k) ==
    /\ Len(cq) + Len(filling) = ht - k
    /\ \A j \in 1..Len(cq) : cq[j] = Slot(k + j - 1)
    /\ \A j \in 1..Len(filling) : filling[j] = Slot(k + Len(cq) + j - 1)
    /\ poll = "loop" => avail <= Len(cq)

\* The pages are those from the next completion to the head.
Held(h, k) == \A i \in Slots : page[i] <=> \E p \in k..h - 1 : Slot(p) = i

Unwrapped(h, t, c, ht, k) ==
    /\ Pointers(h, t, c, ht) /\ InOrder(h, t, c, ht, k)
    /\ Queued(ht, k) /\ Held(h, k)

Positioned == \E h, t, c, ht, k \in Nat : Unwrapped(h, t, c, ht, k)

Inv == TypeOK /\ Positioned

\* The distances the code computes are those of the positions.
Distances(h, t, c, ht) ==
    /\ Ahead(tail, clean) = t - c /\ Ahead(head, clean) = h - c
    /\ HwAhead(hwTail, clean) = ht - c /\ HwAhead(hwHead, clean) = h - c
    /\ HwAhead(hwTail, tail) = ht - t /\ HwAhead(hwHead, hwTail) = h - ht

\* The invariant gives positions, and the distances the code computes are theirs.
LEMMA Unwrap ==
    ASSUME Inv
    PROVE  \E h, t, c, ht, k \in Nat : Unwrapped(h, t, c, ht, k) /\ Distances(h, t, c, ht)
<1>1. PICK h, t, c, ht, k \in Nat : Unwrapped(h, t, c, ht, k)
  BY DEF Inv, Positioned
<1>2. /\ t - c \in 0..Size /\ h - c \in 0..Size /\ ht - c \in 0..Size
      /\ ht - t \in 0..Size /\ h - ht \in 0..Size
  BY <1>1, Widths DEF Unwrapped, InOrder
<1>3. /\ head = Sw(h) /\ tail = Sw(t) /\ clean = Sw(c)
      /\ hwHead = Hw(h) /\ hwTail = Hw(ht)
  BY <1>1 DEF Unwrapped, Pointers
<1>4. Ahead(tail, clean) = t - c /\ Ahead(head, clean) = h - c
  BY <1>2, <1>3, SwGap
<1>5. HwAhead(hwTail, clean) = ht - c /\ HwAhead(hwHead, clean) = h - c
  BY <1>2, <1>3, HwGap
<1>6. HwAhead(hwTail, tail) = ht - t /\ HwAhead(hwHead, hwTail) = h - ht
  BY <1>2, <1>3, HwGap
<1> QED
  BY <1>1, <1>4, <1>5, <1>6 DEF Distances

\* An empty ring has all positions at 0.
LEMMA InitInv == Init => Inv
<1> SUFFICES ASSUME Init PROVE Inv
  OBVIOUS
<1>1. Sw(0) = 0 /\ Hw(0) = 0
  BY Widths DEF Sw, Hw
<1>2. TypeOK
  <2>1. /\ {head, tail, clean} \subseteq 0..SwMod - 1 /\ {hwHead, hwTail} \subseteq 0..HwMod - 1
    BY Widths DEF Init
  <2>2. /\ page \in [Slots -> BOOLEAN] /\ avail \in 0..Size
        /\ filling \in Seq(Slots) /\ cq \in Seq(Slots) /\ Len(cq) <= Size
    BY Widths DEF Init
  <2> QED
    BY <2>1, <2>2 DEF Init, TypeOK
<1>3. Pointers(0, 0, 0, 0)
  BY <1>1 DEF Init, Pointers
<1>4. InOrder(0, 0, 0, 0, 0)
  BY Widths DEF InOrder
<1>5. Queued(0, 0)
  BY DEF Init, Queued
<1>6. Held(0, 0)
  BY DEF Init, Held
<1> QED
  BY <1>2, <1>3, <1>4, <1>5, <1>6 DEF Inv, Positioned, Unwrapped

-----------------------------------------------------------------------------
(* Every action keeps the invariant. *)

\* Positions found after a step establish the invariant.
LEMMA Found ==
    ASSUME NEW h \in Nat, NEW t \in Nat, NEW c \in Nat, NEW ht \in Nat, NEW k \in Nat,
           TypeOK', Pointers(h, t, c, ht)', InOrder(h, t, c, ht, k)',
           Queued(ht, k)', Held(h, k)'
    PROVE  Inv'
BY DEF Inv, Positioned, Unwrapped

\* Fetching a descriptor moves the tail of the NIC by one.
LEMMA NicFetchInv ==
    ASSUME Inv, NicFetch
    PROVE  Inv'
<1>1. PICK h, t, c, ht, k \in Nat : Unwrapped(h, t, c, ht, k)
  BY DEF Inv, Positioned
<1>2. /\ UNCHANGED <<ring, hwHead, cq, poll, avail, again>>
      /\ hwHead = Hw(h) /\ hwTail = Hw(ht) /\ hwTail # hwHead
      /\ hwTail' = (hwTail + 1) % HwMod /\ filling' = Append(filling, Slot(hwTail))
  BY <1>1 DEF NicFetch, Unwrapped, Pointers
<1>3. ht + 1 \in Nat /\ ht < h
  BY <1>1, <1>2 DEF Unwrapped, InOrder
<1>4. hwTail' = Hw(ht + 1) /\ Slot(hwTail) = Slot(ht) /\ Slot(ht) \in Slots
  BY <1>2, HwAdd, SlotOfSum, Ranges
<1>5. /\ filling \in Seq(Slots) /\ filling' = Append(filling, Slot(ht))
      /\ Len(filling') = Len(filling) + 1
      /\ \A j \in 1..Len(filling) : filling'[j] = filling[j]
      /\ filling'[Len(filling) + 1] = Slot(ht)
  BY <1>2, <1>4 DEF Inv, TypeOK
<1>6. TypeOK'
  <2>1. hwTail' \in 0..HwMod - 1 /\ filling' \in Seq(Slots)
    BY <1>4, <1>5, Ranges
  <2> QED
    BY <1>2, <2>1 DEF Inv, TypeOK, ring
<1>7. Pointers(h, t, c, ht + 1)'
  BY <1>1, <1>2, <1>4 DEF Unwrapped, Pointers, ring
<1>8. InOrder(h, t, c, ht + 1, k)'
  BY <1>1, <1>2, <1>3 DEF Unwrapped, InOrder, ring
<1>9. Queued(ht + 1, k)'
  <2>1. Len(cq) \in Nat /\ Len(filling) \in Nat
    BY DEF Inv, TypeOK
  <2>2. /\ Len(cq) + Len(filling) = ht - k
        /\ \A j \in 1..Len(cq) : cq[j] = Slot(k + j - 1)
        /\ \A j \in 1..Len(filling) : filling[j] = Slot(k + Len(cq) + j - 1)
        /\ poll = "loop" => avail <= Len(cq)
    BY <1>1 DEF Unwrapped, Queued
  <2>3. k + Len(cq) + (Len(filling) + 1) - 1 = ht
    BY <2>1, <2>2
  <2>4. \A j \in 1..Len(filling') : filling'[j] = Slot(k + Len(cq) + j - 1)
    <3> SUFFICES ASSUME NEW j \in 1..Len(filling) + 1
                 PROVE  filling'[j] = Slot(k + Len(cq) + j - 1)
      BY <1>5
    <3>1. CASE j = Len(filling) + 1
      BY <1>5, <2>3, <3>1
    <3>2. CASE j # Len(filling) + 1
      BY <1>5, <2>1, <2>2, <3>2
    <3> QED
      BY <3>1, <3>2
  <2> QED
    <3>1. /\ cq' = cq /\ Len(cq') + Len(filling') = ht + 1 - k
          /\ poll' = "loop" => avail' <= Len(cq')
      <4>1. cq' = cq /\ poll' = poll /\ avail' = avail
        BY <1>2
      <4>2. Len(cq) + Len(filling') = ht + 1 - k
        BY <1>5, <2>1, <2>2
      <4> QED
        BY <2>2, <4>1, <4>2
    <3>2. \A j \in 1..Len(cq') : cq'[j] = Slot(k + j - 1)
      BY <2>2, <3>1
    <3>3. \A j \in 1..Len(filling') : filling'[j] = Slot(k + Len(cq') + j - 1)
      BY <2>4, <3>1
    <3> QED
      BY <3>1, <3>2, <3>3 DEF Queued
<1>10. Held(h, k)'
  BY <1>1, <1>2 DEF Unwrapped, Held, ring
<1> QED
  BY <1>3, <1>6, <1>7, <1>8, <1>9, <1>10, Found

\* The CQ has room: no completion is discarded.
LEMMA NicCompleteInv ==
    ASSUME Inv, NicComplete
    PROVE  Inv'
<1>1. PICK h, t, c, ht, k \in Nat : Unwrapped(h, t, c, ht, k)
  BY DEF Inv, Positioned
<1>2. /\ filling \in Seq(Slots) /\ cq \in Seq(Slots) /\ Len(cq) \in Nat
      /\ Len(filling) \in Nat /\ filling # <<>> /\ Len(filling) >= 1
  BY DEF Inv, TypeOK, NicComplete
<1>3. /\ Len(cq) + Len(filling) = ht - k
      /\ \A j \in 1..Len(cq) : cq[j] = Slot(k + j - 1)
      /\ \A j \in 1..Len(filling) : filling[j] = Slot(k + Len(cq) + j - 1)
      /\ poll = "loop" => avail <= Len(cq)
  BY <1>1 DEF Unwrapped, Queued
<1>4. Len(cq) < Size
  <2>1. ht - k <= Size
    BY <1>1, Widths DEF Unwrapped, InOrder
  <2> QED
    BY <1>2, <1>3, <2>1, Widths
<1>5. /\ UNCHANGED <<ring, hwHead, hwTail, poll, avail, again>>
      /\ filling' = Tail(filling) /\ cq' = Append(cq, Head(filling))
  BY <1>4 DEF NicComplete
<1>6. /\ filling' \in Seq(Slots) /\ Len(filling') = Len(filling) - 1
      /\ \A j \in 1..Len(filling) - 1 : filling'[j] = filling[j + 1]
  BY <1>2, <1>5, Popped, Zenon
<1>7. /\ cq' \in Seq(Slots) /\ Len(cq') = Len(cq) + 1
      /\ \A j \in 1..Len(cq) : cq'[j] = cq[j]
      /\ cq'[Len(cq) + 1] = filling[1]
  <2>1. Head(filling) = filling[1] /\ filling[1] \in Slots
    BY <1>2, Popped, Zenon
  <2>2. cq' = Append(cq, filling[1])
    BY <1>5, <2>1
  <2> QED
    BY <1>2, <2>1, <2>2, Appended
<1>8. TypeOK'
  BY <1>4, <1>5, <1>6, <1>7, <1>2, Widths, SMTT(30) DEF Inv, TypeOK, ring
<1>9. Pointers(h, t, c, ht)' /\ InOrder(h, t, c, ht, k)' /\ Held(h, k)'
  BY <1>1, <1>5 DEF Unwrapped, Pointers, InOrder, Held, ring
<1>10. Queued(ht, k)'
  <2>1. \A j \in 1..Len(cq) + 1 : cq'[j] = Slot(k + j - 1)
    <3>1. filling[1] = Slot(k + Len(cq) + 1 - 1)
      BY <1>2, <1>3
    <3>2. k + Len(cq) + 1 - 1 = k + (Len(cq) + 1) - 1
      BY <1>2
    <3> TAKE j \in 1..Len(cq) + 1
    <3>3. CASE j = Len(cq) + 1
      BY <1>7, <3>1, <3>2, <3>3
    <3>4. CASE j # Len(cq) + 1
      <4>1. j \in 1..Len(cq)
        BY <1>2, <3>4
      <4> QED
        BY <1>3, <1>7, <4>1
    <3> QED
      BY <3>3, <3>4
  <2>2. \A j \in 1..Len(filling) - 1 : filling'[j] = Slot(k + (Len(cq) + 1) + j - 1)
    <3> TAKE j \in 1..Len(filling) - 1
    <3>1. j + 1 \in 1..Len(filling) /\ k + Len(cq) + (j + 1) - 1 = k + (Len(cq) + 1) + j - 1
      BY <1>2
    <3>2. filling[j + 1] = Slot(k + Len(cq) + (j + 1) - 1)
      BY <1>3, <3>1
    <3> QED
      BY <1>6, <3>1, <3>2
  <2> QED
    <3>1. Len(cq') + Len(filling') = ht - k /\ (poll' = "loop" => avail' <= Len(cq'))
      <4>1. avail \in Int /\ avail' = avail /\ poll' = poll
        BY <1>5, Widths DEF Inv, TypeOK, ring
      <4>2. Len(cq') = Len(cq) + 1 /\ Len(filling') = Len(filling) - 1
        BY <1>6, <1>7
      <4>3. Len(cq) + Len(filling) = ht - k /\ (poll = "loop" => avail <= Len(cq))
        BY <1>3
      <4>4. Len(cq) \in Int /\ Len(filling) \in Int
        BY <1>2
      <4> QED
        BY <4>1, <4>2, <4>3, <4>4
    <3>2. \A j \in 1..Len(cq') : cq'[j] = Slot(k + j - 1)
      BY <1>7, <2>1
    <3>3. \A j \in 1..Len(filling') : filling'[j] = Slot(k + Len(cq') + j - 1)
      BY <1>6, <1>7, <2>2
    <3> QED
      BY <3>1, <3>2, <3>3 DEF Queued
<1> QED
  BY <1>8, <1>9, <1>10, Found

\* The poll sees completions whenever it looks.
LEMMA PollReadHeadInv ==
    ASSUME Inv, PollReadHead
    PROVE  Inv'
<1>1. PICK h, t, c, ht, k \in Nat : Unwrapped(h, t, c, ht, k)
  BY DEF Inv, Positioned
<1>2. UNCHANGED <<ring, nic, cq, again>> /\ poll' = "loop" /\ avail' = Len(cq)
  BY DEF PollReadHead
<1>3. Len(cq) \in 0..Size
  BY Widths DEF Inv, TypeOK
<1>4. TypeOK'
  BY <1>2, <1>3 DEF Inv, TypeOK, ring, nic
<1>5. Pointers(h, t, c, ht)' /\ InOrder(h, t, c, ht, k)' /\ Held(h, k)'
  BY <1>1, <1>2 DEF Unwrapped, Pointers, InOrder, Held, ring, nic
<1>6. avail' <= Len(cq)
  BY <1>2, <1>3, Widths
<1>7. Queued(ht, k)'
  BY <1>1, <1>2, <1>6 DEF Unwrapped, Queued, nic
<1> QED
  BY <1>4, <1>5, <1>7, Found

\* Handing n pages to the stack empties the slots of the next n positions.
LEMMA PollLoopInv ==
    ASSUME Inv, PollLoop
    PROVE  Inv'
<1>1. PICK h, t, c, ht, k \in Nat : Unwrapped(h, t, c, ht, k)
  BY DEF Inv, Positioned
<1>2. PICK n \in Nat :
          /\ n <= avail
          /\ page' = [i \in Slots |-> page[i] /\ i \notin {cq[j] : j \in 1..n}]
          /\ cq' = SubSeq(cq, n + 1, Len(cq))
          /\ again' = (n = Budget)
  <2> DEFINE most == IF avail <= Budget THEN avail ELSE Budget
  <2>1. most \in Nat /\ most <= avail
    <3>1. avail \in Nat /\ Budget \in Nat
      BY RingAssumption, Widths DEF Inv, TypeOK
    <3> QED
      BY <3>1
  <2>2. \A n \in IF SkbsFail THEN 0..most ELSE {most} : n \in Nat /\ n <= avail
    <3>1. avail \in Nat
      BY Widths DEF Inv, TypeOK
    <3> HIDE DEF most
    <3> QED
      BY <2>1, <3>1
  <2>3. PICK n \in IF SkbsFail THEN 0..most ELSE {most} :
            /\ page' = [i \in Slots |-> page[i] /\ i \notin {cq[j] : j \in 1..n}]
            /\ cq' = SubSeq(cq, n + 1, Len(cq))
            /\ again' = (n = Budget)
    BY DEF PollLoop
  <2> QED
    BY <2>2, <2>3
<1>3. UNCHANGED <<head, tail, clean, nic>> /\ poll = "loop" /\ poll' = "tail" /\ avail' = 0
  BY DEF PollLoop
<1>4. /\ cq \in Seq(Slots) /\ Len(cq) \in Nat /\ Len(filling) \in Nat
      /\ page \in [Slots -> BOOLEAN]
      /\ Len(cq) + Len(filling) = ht - k
      /\ \A j \in 1..Len(cq) : cq[j] = Slot(k + j - 1)
      /\ \A j \in 1..Len(filling) : filling[j] = Slot(k + Len(cq) + j - 1)
  BY <1>1, SMTT(30) DEF Inv, TypeOK, Unwrapped, Queued
<1>5. n <= Len(cq)
  <2>1. avail \in 0..Size /\ avail <= Len(cq)
    BY <1>1, <1>3 DEF Inv, TypeOK, Unwrapped, Queued
  <2> QED
    BY <1>2, <1>4, <2>1, Widths
<1>6. /\ cq' \in Seq(Slots) /\ Len(cq') = Len(cq) - n
      /\ \A j \in 1..Len(cq) - n : cq'[j] = cq[n + j]
  BY <1>2, <1>4, <1>5, Rest
<1>7. TypeOK'
  <2>1. page' \in [Slots -> BOOLEAN] /\ avail' \in 0..Size
    BY <1>2, <1>3, <1>4, Widths
  <2>2. again' \in BOOLEAN
    BY <1>2
  <2>3. Len(cq) <= Size
    BY DEF Inv, TypeOK
  <2>4. Len(cq') <= Size
    BY <1>4, <1>5, <1>6, <2>3, Widths
  <2> QED
    BY <1>3, <1>6, <2>1, <2>2, <2>4 DEF Inv, TypeOK, nic
<1>8. Pointers(h, t, c, ht)'
  BY <1>1, <1>3 DEF Unwrapped, Pointers, nic
<1>9. k + n \in Nat /\ k + n <= ht
  BY <1>4, <1>5
<1>10. InOrder(h, t, c, ht, k + n)'
  BY <1>1, <1>9 DEF Unwrapped, InOrder
<1>11. Queued(ht, k + n)'
  <2>1. filling' = filling /\ Len(cq') + Len(filling') = ht - (k + n) /\ poll' # "loop"
    <3>1. filling' = filling /\ poll' # "loop"
      BY <1>3 DEF nic
    <3>2. Len(cq') = Len(cq) - n /\ Len(filling') = Len(filling)
      BY <1>6, <3>1
    <3> QED
      BY <1>4, <1>5, <3>1, <3>2
  <2>2. \A j \in 1..Len(cq') : cq'[j] = Slot(k + n + j - 1)
    <3> TAKE j \in 1..Len(cq')
    <3>1. n + j \in 1..Len(cq) /\ k + (n + j) - 1 = k + n + j - 1 /\ j \in 1..Len(cq) - n
      BY <1>4, <1>5, <1>6
    <3>2. cq[n + j] = Slot(k + (n + j) - 1)
      BY <1>4, <3>1
    <3> QED
      BY <1>6, <3>1, <3>2
  <2>3. \A j \in 1..Len(filling') : filling'[j] = Slot(k + n + Len(cq') + j - 1)
    <3> TAKE j \in 1..Len(filling')
    <3>1. k + n + Len(cq') + j - 1 = k + Len(cq) + j - 1
      BY <1>4, <1>5, <1>6
    <3> QED
      BY <1>4, <2>1, <3>1
  <2> QED
    BY <2>1, <2>2, <2>3 DEF Queued
<1>12. Held(h, k + n)'
  <2> SUFFICES ASSUME NEW i \in Slots
               PROVE  page'[i] <=> \E p \in k + n..h - 1 : Slot(p) = i
    BY DEF Held
  <2>1. page[i] <=> \E p \in k..h - 1 : Slot(p) = i
    BY <1>1 DEF Unwrapped, Held
  <2>2. page'[i] <=> page[i] /\ ~\E j \in 1..n : cq[j] = i
    BY <1>2, <1>4
  <2>3. k <= ht /\ ht <= h /\ h - k <= Size
    BY <1>1, Widths DEF Unwrapped, InOrder
  <2>4. (\E j \in 1..n : cq[j] = i) <=> \E p \in k..k + n - 1 : Slot(p) = i
    <3>1. ASSUME NEW j \in 1..n, cq[j] = i PROVE \E p \in k..k + n - 1 : Slot(p) = i
      <4>1. k + j - 1 \in k..k + n - 1 /\ j \in 1..Len(cq)
        BY <1>4, <1>5
      <4>2. Slot(k + j - 1) = i
        BY <1>4, <3>1, <4>1
      <4> QED
        BY <4>1, <4>2
    <3>2. ASSUME NEW p \in k..k + n - 1, Slot(p) = i PROVE \E j \in 1..n : cq[j] = i
      <4>1. p - k + 1 \in 1..n /\ p - k + 1 \in 1..Len(cq) /\ k + (p - k + 1) - 1 = p
        BY <1>4, <1>5
      <4>2. cq[p - k + 1] = Slot(k + (p - k + 1) - 1)
        BY <1>4, <4>1
      <4> QED
        BY <3>2, <4>1, <4>2
    <3> QED
      BY <3>1, <3>2
  <2>5. ASSUME NEW p \in k..k + n - 1, NEW r \in k + n..h - 1, Slot(p) = Slot(r) PROVE FALSE
    <3>1. r - p < Size /\ p - r < Size /\ p # r
      BY <1>5, <2>3, <2>5, Widths
    <3> QED
      BY <2>5, <3>1, SlotsDiffer
  <2>6. \A p \in k..h - 1 : p \in k..k + n - 1 \/ p \in k + n..h - 1
    OBVIOUS
  <2>7. \A p \in k + n..h - 1 : p \in k..h - 1
    OBVIOUS
  <2> QED
    BY <2>1, <2>2, <2>4, <2>5, <2>6, <2>7
<1> QED
  BY <1>7, <1>8, <1>9, <1>10, <1>11, <1>12, Found

\* Reading the register takes the tail to the position the NIC has reached.
LEMMA PollReadTailInv ==
    ASSUME Inv, PollReadTail
    PROVE  Inv'
<1>1. PICK h, t, c, ht, k \in Nat : Unwrapped(h, t, c, ht, k) /\ Distances(h, t, c, ht)
  BY Unwrap
<1>2. /\ UNCHANGED <<head, clean, page, nic, cq, avail, again>>
      /\ poll' = "clean" /\ tail' = (tail + HwAhead(hwTail, tail)) % SwMod
  BY DEF PollReadTail
<1>3. tail' = Sw(ht)
  <2>1. tail' = (Sw(t) + (ht - t)) % SwMod
    BY <1>1, <1>2 DEF Distances, Unwrapped, Pointers
  <2>2. t + (ht - t) = ht /\ ht - t \in Int
    OBVIOUS
  <2> QED
    BY <2>1, <2>2, SwAdd
<1>4. TypeOK'
  <2>1. tail' \in 0..SwMod - 1
    BY <1>3, Ranges
  <2> QED
    BY <1>2, <2>1 DEF Inv, TypeOK, nic
<1>5. Pointers(h, ht, c, ht)'
  BY <1>1, <1>2, <1>3 DEF Unwrapped, Pointers, nic
<1>6. InOrder(h, ht, c, ht, k)'
  BY <1>1 DEF Unwrapped, InOrder
<1>7. Queued(ht, k)' /\ Held(h, k)'
  BY <1>1, <1>2 DEF Unwrapped, Queued, Held, nic
<1> QED
  BY <1>4, <1>5, <1>6, <1>7, Found

\* The loop over clean_tail stops: at a first page still there, or at the tail.
LEMMA CleanStops ==
    ASSUME NEW c \in Nat, NEW t \in Nat, NEW k \in Nat, c <= t, c <= k
    PROVE  \E n \in 0..t - c : c + n <= k /\ (n = t - c \/ c + n = k)
<1>1. CASE t <= k
  <2>1. t - c \in 0..t - c
    OBVIOUS
  <2>2. c + (t - c) <= k
    BY <1>1
  <2> QED
    BY <2>1, <2>2, Zenon
<1>2. CASE k < t
  <2>1. k - c \in 0..t - c /\ c + (k - c) = k
    BY <1>2
  <2>2. c + (k - c) <= k
    BY <2>1
  <2> QED
    BY <2>1, <2>2, Zenon
<1> QED
  BY <1>1, <1>2

\* clean_tail passes no page: it stops at the next completion or before.
LEMMA PollCleanInv ==
    ASSUME Inv, PollClean
    PROVE  Inv'
<1>1. PICK h, t, c, ht, k \in Nat : Unwrapped(h, t, c, ht, k) /\ Distances(h, t, c, ht)
  BY Unwrap
<1> DEFINE Free(n) == \A d \in 0..n - 1 : ~page[Slot(clean + d)]
           Last(n) == Free(n) /\ (n = t - c \/ ~Free(n + 1))
<1>2. Ahead(tail, clean) = t - c /\ clean = Sw(c)
  BY <1>1 DEF Distances, Unwrapped, Pointers
<1>3. c <= t /\ c <= k /\ t <= ht /\ ht <= h /\ k <= ht /\ h - c <= Size
  BY <1>1, Widths DEF Unwrapped, InOrder
<1>4. \A d \in Nat : Slot(clean + d) = Slot(c + d) /\ Slot(c + d) \in Slots
  <2> TAKE d \in Nat
  <2>1. c \in Int /\ d \in Int /\ c + d \in Int
    OBVIOUS
  <2> QED
    BY <1>2, <2>1, SlotOfSum, Ranges, Zenon
<1>5. \A i \in Slots : page[i] <=> \E p \in k..h - 1 : Slot(p) = i
  BY <1>1 DEF Unwrapped, Held
<1>6. \A n \in Nat : c + n <= k => Free(n)
  <2> SUFFICES ASSUME NEW n \in Nat, c + n <= k, NEW d \in 0..n - 1
               PROVE  ~page[Slot(c + d)]
    BY <1>4
  <2>1. ASSUME NEW p \in k..h - 1, Slot(p) = Slot(c + d) PROVE FALSE
    <3>1. p - (c + d) < Size /\ (c + d) - p < Size /\ p # c + d
      BY <1>3, Widths
    <3> QED
      BY <2>1, <3>1, SlotsDiffer
  <2>2. Slot(c + d) \in Slots
    <3>1. c + d \in Int
      OBVIOUS
    <3> QED
      BY <3>1, Ranges, Zenon
  <2>3. ~\E p \in k..h - 1 : Slot(p) = Slot(c + d)
    BY <2>1, Zenon
  <2>4. page[Slot(c + d)] <=> \E p \in k..h - 1 : Slot(p) = Slot(c + d)
    BY <1>5, <2>2
  <2> QED
    BY <2>3, <2>4
<1>7. \A n \in Nat : k < c + n /\ k < h => ~Free(n)
  <2> SUFFICES ASSUME NEW n \in Nat, k < c + n, k < h
               PROVE  \E d \in 0..n - 1 : page[Slot(clean + d)]
    OBVIOUS
  <2>1. k - c \in 0..n - 1 /\ c + (k - c) = k /\ k - c \in Nat
    BY <1>3
  <2>2. page[Slot(k)]
    <3>1. k \in k..h - 1 /\ Slot(k) \in Slots
      BY Ranges
    <3> QED
      BY <1>5, <3>1
  <2>3. Slot(clean + (k - c)) = Slot(k)
    BY <1>4, <2>1
  <2> QED
    BY <2>1, <2>2, <2>3
<1>8. \E n \in 0..t - c : Last(n)
  <2>1. PICK n \in 0..t - c : c + n <= k /\ (n = t - c \/ c + n = k)
    BY <1>3, CleanStops
  <2>2. Free(n)
    BY <1>6, <2>1
  <2>3. n = t - c \/ ~Free(n + 1)
    <3>1. CASE n # t - c
      <4>1. n + 1 \in Nat /\ k < c + (n + 1) /\ k < h
        BY <1>3, <2>1, <3>1
      <4> QED
        BY <1>7, <4>1
    <3> QED
      BY <3>1
  <2> QED
    BY <2>2, <2>3
<1>9. /\ UNCHANGED <<head, tail, page, nic, cq, avail, again>> /\ poll' = "refill"
      /\ clean' = (clean + (CHOOSE n \in 0..t - c : Last(n))) % SwMod
  BY <1>2 DEF PollClean
<1>10. PICK n \in 0..t - c : Last(n) /\ clean' = (clean + n) % SwMod
  <2> HIDE DEF Last
  <2> QED
    BY <1>8, <1>9
<1>11. c + n \in Nat /\ c + n <= k /\ c + n <= t /\ c <= c + n
  <2>1. CASE k < h
    <3>1. n \in Nat /\ Free(n)
      BY <1>10
    <3>2. ~(k < c + n)
      BY <1>7, <2>1, <3>1
    <3> HIDE DEF Free
    <3> QED
      BY <1>3, <3>1, <3>2
  <2>2. CASE k >= h
    BY <1>3, <2>2
  <2> QED
    BY <1>3, <2>1, <2>2
<1>12. clean' = Sw(c + n)
  BY <1>2, <1>10, SwAdd
<1> HIDE DEF Last, Free
<1>13. TypeOK'
  <2>1. clean' \in 0..SwMod - 1
    BY <1>11, <1>12, Ranges
  <2> QED
    BY <1>9, <2>1 DEF Inv, TypeOK, nic
<1>14. Pointers(h, t, c + n, ht)'
  BY <1>1, <1>9, <1>12 DEF Unwrapped, Pointers, nic
<1>15. InOrder(h, t, c + n, ht, k)'
  BY <1>1, <1>3, <1>11, Widths DEF Unwrapped, InOrder
<1>16. Queued(ht, k)' /\ Held(h, k)'
  BY <1>1, <1>9 DEF Unwrapped, Queued, Held, nic
<1> QED
  BY <1>11, <1>13, <1>14, <1>15, <1>16, Found

\* A refill posts at most what is missing: the slots of the next n positions, all empty.
LEMMA RefillInv ==
    ASSUME Inv, Refill
    PROVE  Inv'
<1>1. PICK h, t, c, ht, k \in Nat : Unwrapped(h, t, c, ht, k) /\ Distances(h, t, c, ht)
  BY Unwrap
<1>2. /\ UNCHANGED <<tail, clean, hwTail, filling, cq, avail, again>> /\ poll' = "idle"
  BY DEF Refill
<1>3. /\ c <= t /\ t <= ht /\ ht <= h /\ c <= k /\ k <= ht /\ h - c <= Size
      /\ head = Sw(h) /\ tail = Sw(t) /\ clean = Sw(c) /\ hwHead = Hw(h) /\ hwTail = Hw(ht)
  BY <1>1 DEF Unwrapped, InOrder, Pointers
<1>4. Missing = Size - (h - c) /\ Missing \in Nat
  BY <1>1, <1>3, Widths DEF Distances, Missing
<1>5. Held(h, k)
  BY <1>1 DEF Unwrapped
<1>6. PICK n \in Nat :
          /\ n <= Missing
          /\ head' = Sw(h + n) /\ hwHead' = Hw(h + n)
          /\ page' \in [Slots -> BOOLEAN]
          /\ \A i \in Slots : page'[i] <=> page[i] \/ \E d \in 0..n - 1 : Slot(h + d) = i
  <2>1. CASE Missing < Threshold
    <3>1. UNCHANGED <<head, page, hwHead>>
      BY <2>1 DEF Refill
    <3>2. h + 0 = h /\ 0 \in Nat /\ 0 <= Missing /\ 0..0 - 1 = {}
      BY <1>4
    <3>3. page \in [Slots -> BOOLEAN]
      BY DEF Inv, TypeOK
    <3> QED
      BY <1>3, <3>1, <3>2, <3>3
  <2>2. CASE ~(Missing < Threshold)
    <3>1. PICK n \in IF PagesFail THEN 0..Missing ELSE {Missing} :
              /\ page' = [i \in Slots |-> page[i] \/ i \in {Slot(head + d) : d \in 0..n - 1}]
              /\ head' = (head + n) % SwMod
              /\ hwHead' = (head + n) % HwMod
      BY <2>2 DEF Refill
    <3>2. n \in Nat /\ n <= Missing
      BY <1>4
    <3>3. head' = Sw(h + n) /\ hwHead' = Hw(h + n)
      BY <1>3, <3>1, <3>2, SwAdd, HwAdd
    <3>4. \A d \in 0..n - 1 : Slot(head + d) = Slot(h + d)
      <4> TAKE d \in 0..n - 1
      <4>1. h \in Int /\ d \in Int
        BY <3>2
      <4> QED
        BY <1>3, <4>1, SlotOfSum, Zenon
    <3>5. page' \in [Slots -> BOOLEAN]
      BY <3>1
    <3>6. \A i \in Slots : page'[i] <=> page[i] \/ \E d \in 0..n - 1 : Slot(h + d) = i
      BY <3>1, <3>4
    <3> QED
      BY <3>2, <3>3, <3>5, <3>6
  <2> QED
    BY <2>1, <2>2
<1>7. TypeOK'
  <2>1. head' \in 0..SwMod - 1 /\ hwHead' \in 0..HwMod - 1
    <3>1. h + n \in Int
      OBVIOUS
    <3> QED
      BY <1>6, <3>1, Ranges
  <2> QED
    BY <1>2, <1>6, <2>1 DEF Inv, TypeOK
<1>8. Pointers(h + n, t, c, ht)'
  BY <1>2, <1>3, <1>6 DEF Pointers
<1>9. h + n \in Nat /\ InOrder(h + n, t, c, ht, k)'
  <2>1. h + n - c <= Size /\ ht <= h + n
    BY <1>3, <1>4, <1>6, Widths
  <2> QED
    BY <1>3, <2>1 DEF InOrder
<1>10. Queued(ht, k)'
  BY <1>1, <1>2 DEF Unwrapped, Queued
<1>11. Held(h + n, k)'
  <2> SUFFICES ASSUME NEW i \in Slots
               PROVE  page'[i] <=> \E p \in k..h + n - 1 : Slot(p) = i
    BY DEF Held
  <2>1. page[i] <=> \E p \in k..h - 1 : Slot(p) = i
    BY <1>5 DEF Held
  <2>2. page'[i] <=> page[i] \/ \E d \in 0..n - 1 : Slot(h + d) = i
    BY <1>6
  <2>3. ASSUME NEW d \in 0..n - 1, Slot(h + d) = i PROVE \E p \in k..h + n - 1 : Slot(p) = i
    <3>1. h + d \in k..h + n - 1
      BY <1>3
    <3> QED
      BY <2>3, <3>1
  <2>4. ASSUME NEW p \in k..h + n - 1, Slot(p) = i, p \notin k..h - 1
        PROVE  \E d \in 0..n - 1 : Slot(h + d) = i
    <3>1. p - h \in 0..n - 1 /\ h + (p - h) = p
      BY <2>4
    <3> QED
      BY <2>4, <3>1
  <2>5. \A p \in k..h - 1 : p \in k..h + n - 1
    OBVIOUS
  <2> QED
    BY <2>1, <2>2, <2>3, <2>4, <2>5
<1> QED
  BY <1>7, <1>8, <1>9, <1>10, <1>11, Found

\* Every step, stuttering included, keeps the invariant.
LEMMA StepInv ==
    ASSUME Inv, [Next]_vars
    PROVE  Inv'
<1>1. CASE UNCHANGED vars
  <2>1. UNCHANGED <<ring, nic, cq, poll, avail, again>>
    BY <1>1 DEF vars
  <2>2. TypeOK'
    BY <2>1 DEF Inv, TypeOK, ring, nic
  <2>3. PICK h, t, c, ht, k \in Nat : Unwrapped(h, t, c, ht, k)
    BY DEF Inv, Positioned
  <2>4. Pointers(h, t, c, ht)' /\ InOrder(h, t, c, ht, k)'
    BY <2>1, <2>3 DEF Unwrapped, Pointers, InOrder, ring, nic
  <2>5. Queued(ht, k)' /\ Held(h, k)'
    BY <2>1, <2>3 DEF Unwrapped, Queued, Held, ring, nic
  <2> QED
    BY <2>2, <2>4, <2>5, Found
<1>2. CASE NicFetch \/ NicComplete
  BY <1>2, NicFetchInv, NicCompleteInv
<1>3. CASE PollStep
  BY <1>3, PollReadHeadInv, PollLoopInv, PollReadTailInv, PollCleanInv, RefillInv DEF PollStep
<1> QED
  BY <1>1, <1>2, <1>3 DEF Next

\* Every reachable state has positions in order.
THEOREM Invariance == Safety => []Inv
<1>1. Init => Inv
  BY InitInv
<1>2. Inv /\ [Next]_vars => Inv'
  BY StepInv
<1> QED
  BY <1>1, <1>2, PTL DEF Safety

-----------------------------------------------------------------------------
(* The properties. *)

\* Pointers stay within their width, tables within the ring, program counters in the code.
THEOREM TypeCorrect == Safety => []TypeOK
<1>1. Inv => TypeOK
  BY DEF Inv
<1> QED
  BY <1>1, Invariance, PTL

\* Positions in order make pointers in order.
LEMMA OrderHolds == ASSUME Inv PROVE RingOrdered
<1>1. PICK h, t, c, ht, k \in Nat : Unwrapped(h, t, c, ht, k) /\ Distances(h, t, c, ht)
  BY Unwrap
<1>2. /\ c <= t /\ t <= ht /\ ht <= h /\ c <= k
      /\ h - c <= Size /\ Len(cq) + Len(filling) = ht - k
  BY <1>1 DEF Unwrapped, InOrder, Queued
<1>3. Len(cq) + Len(filling) + (h - ht) <= Size
  BY <1>2, Widths
<1> QED
  BY <1>1, <1>2, <1>3, Widths DEF Distances, RingOrdered

\* The pointers never pass one another, no more than the whole ring is posted and the CQ
\* has room for every page out (mqnic_rx.c:211, 298-311; cpl_write.v:481-484): for rings
\* of every size, pointers of every width, every budget and threshold.
THEOREM PointersStayInOrder == Safety => []RingOrdered
<1>1. Inv => RingOrdered
  BY OrderHolds
<1> QED
  BY <1>1, Invariance, PTL

\* Slots of the positions from the next completion to head are those the NIC and the CQ hold.
LEMMA SlotsHold == ASSUME Inv PROVE PagesMatchRing
<1>1. PICK h, t, c, ht, k \in Nat : Unwrapped(h, t, c, ht, k) /\ Distances(h, t, c, ht)
  BY Unwrap
<1>2. /\ Len(cq) + Len(filling) = ht - k /\ k <= ht /\ ht <= h
      /\ \A j \in 1..Len(cq) : cq[j] = Slot(k + j - 1)
      /\ \A j \in 1..Len(filling) : filling[j] = Slot(k + Len(cq) + j - 1)
  BY <1>1 DEF Unwrapped, InOrder, Queued
<1>3. /\ Len(cq) \in Nat /\ Len(filling) \in Nat
      /\ DOMAIN cq = 1..Len(cq) /\ DOMAIN filling = 1..Len(filling)
  BY DEF Inv, TypeOK
<1>4. HwAhead(hwHead, hwTail) = h - ht /\ hwTail = Hw(ht)
  BY <1>1 DEF Distances, Unwrapped, Pointers
<1>5. \A d \in 0..h - ht - 1 : Slot(hwTail + d) = Slot(ht + d)
  BY <1>4, SlotOfSum
<1> SUFFICES ASSUME NEW i \in Slots
             PROVE  page[i] <=> \/ \E d \in 0..h - ht - 1 : i = Slot(hwTail + d)
                                \/ \E j \in 1..Len(filling) : filling[j] = i
                                \/ \E j \in 1..Len(cq) : cq[j] = i
  BY <1>3, <1>4 DEF PagesMatchRing
<1>6. page[i] <=> \E p \in k..h - 1 : Slot(p) = i
  BY <1>1 DEF Unwrapped, Held
<1>7. ASSUME NEW p \in k..h - 1, Slot(p) = i
      PROVE  \/ \E d \in 0..h - ht - 1 : i = Slot(hwTail + d)
             \/ \E j \in 1..Len(filling) : filling[j] = i
             \/ \E j \in 1..Len(cq) : cq[j] = i
  <2>1. CASE p >= ht
    <3>1. p - ht \in 0..h - ht - 1 /\ ht + (p - ht) = p
      BY <1>2, <2>1
    <3>2. Slot(hwTail + (p - ht)) = i
      BY <1>5, <1>7, <3>1
    <3> QED
      BY <3>1, <3>2
  <2>2. CASE p < k + Len(cq)
    <3>1. p - k + 1 \in 1..Len(cq) /\ k + (p - k + 1) - 1 = p
      BY <1>3, <2>2
    <3>2. cq[p - k + 1] = i
      BY <1>2, <1>7, <3>1
    <3> QED
      BY <3>1, <3>2
  <2>3. CASE k + Len(cq) <= p /\ p < ht
    <3> DEFINE j == p - k - Len(cq) + 1
    <3>1. j \in 1..Len(filling) /\ k + Len(cq) + j - 1 = p
      BY <1>2, <1>3, <2>3
    <3>2. filling[j] = i
      BY <1>2, <1>7, <3>1
    <3> QED
      BY <3>1, <3>2
  <2> QED
    BY <1>2, <1>3, <2>1, <2>2, <2>3
<1>8. ASSUME NEW d \in 0..h - ht - 1, i = Slot(hwTail + d)
      PROVE  \E p \in k..h - 1 : Slot(p) = i
  <2>1. ht + d \in k..h - 1 /\ Slot(ht + d) = i
    BY <1>2, <1>5, <1>8
  <2> QED
    BY <2>1
<1>9. ASSUME NEW j \in 1..Len(filling), filling[j] = i
      PROVE  \E p \in k..h - 1 : Slot(p) = i
  <2>1. k + Len(cq) + j - 1 \in k..h - 1 /\ Slot(k + Len(cq) + j - 1) = i
    BY <1>2, <1>3, <1>9
  <2> QED
    BY <2>1
<1>10. ASSUME NEW j \in 1..Len(cq), cq[j] = i
       PROVE  \E p \in k..h - 1 : Slot(p) = i
  <2>1. k + j - 1 \in k..h - 1 /\ Slot(k + j - 1) = i
    BY <1>2, <1>3, <1>10
  <2> QED
    BY <2>1
<1> QED
  BY <1>6, <1>7, <1>8, <1>9, <1>10

\* A page is in a slot exactly while it is posted, being filled, or waiting in the CQ
\* (mqnic_rx.c:350-356): none leaks and none is handed up twice.
THEOREM PagesFollowTheRing == Safety => []PagesMatchRing
<1>1. Inv => PagesMatchRing
  BY SlotsHold
<1> QED
  BY <1>1, Invariance, PTL
=============================================================================
