------------------------- MODULE ProtProcessorProofs -------------------------
(***************************************************************************)
(* Proofs about ProtProcessor: for frames of every length, and however     *)
(* often the module behind M00_AXIS is not ready, the registers keep their *)
(* types; and as long as no fault is posted while the other node is busy,  *)
(* every header arrives and is passed on with its page's key, what the     *)
(* software is told to do fits the fault, and no legal fault raises the    *)
(* fault interrupt.                                                        *)
(***************************************************************************)
EXTENDS ProtProcessor, TLAPS

-----------------------------------------------------------------------------
(* One cycle of one processor. *)

\* The registers the processors of the two nodes may have next.
LEMMA TickSteps ==
    ASSUME Tick, proc \in [Nodes -> Registers]
    PROVE  \E ready \in [Nodes -> BOOLEAN] :
              /\ proc' = [n \in Nodes |-> proc'[n]]
              /\ \A n \in Nodes : proc'[n] \in Cycle(n, ready[n])
              /\ waited' = [n \in Nodes |->
                              IF ~HeaderWaits(n) THEN 0
                              ELSE IF ready[n] \/ waited[n] = WrMod THEN waited[n] ELSE waited[n] + 1]
              /\ UNCHANGED <<start, fault>>
<1>1. PICK ready \in [Nodes -> BOOLEAN] :
        /\ \E o \in Cycle("origin", ready["origin"]), r \in Cycle("remote", ready["remote"]) :
              proc' = [n \in Nodes |-> IF n = "origin" THEN o ELSE r]
        /\ waited' = [n \in Nodes |->
                        IF ~HeaderWaits(n) THEN 0
                        ELSE IF ready[n] \/ waited[n] = WrMod THEN waited[n] ELSE waited[n] + 1]
        /\ UNCHANGED <<start, fault>>
  BY DEF Tick
<1>2. PICK o \in Cycle("origin", ready["origin"]), r \in Cycle("remote", ready["remote"]) :
          proc' = [n \in Nodes |-> IF n = "origin" THEN o ELSE r]
  BY <1>1
<1>3. proc' = [n \in Nodes |-> proc'[n]] /\ \A n \in Nodes : proc'[n] \in Cycle(n, ready[n])
  BY <1>2 DEF Nodes
<1> QED
  BY <1>1, <1>3

-----------------------------------------------------------------------------
(* Types. *)

\* What a frame's header says, and what it is decoded to, is of the right kind.
LEMMA KeyTypes ==
    /\ \A m, n, w : n \in Nodes => encode_pkey(m, n, w) \in Keys
    /\ \A f \in [key : Keys \cup {NoKey}, write : BOOLEAN] : RemoteHeaders(f) \subseteq Headers
    /\ \A f \in [key : Keys \cup {NoKey}, write : BOOLEAN] : OriginHeaders(f) \subseteq Headers
<1>1. \A m, n, w : n \in Nodes => encode_pkey(m, n, w) \in Keys
  BY DEF encode_pkey, Keys, Key
<1>2. "remote" \in Nodes /\ "origin" \in Nodes
  BY DEF Nodes
<1>3. ASSUME NEW f \in [key : Keys \cup {NoKey}, write : BOOLEAN] PROVE RemoteHeaders(f) \subseteq Headers
  <2>1. f.key \in Keys \cup {NoKey} /\ f.write \in BOOLEAN
    OBVIOUS
  <2> DEFINE k == IF f.key = NoKey THEN encode_pkey("rpr", "remote", f.write) ELSE f.key
  <2>2. k \in Keys
    BY <1>1, <1>2, <2>1
  <2> HIDE DEF k
  <2>3. Header("rpr", k, f.write) \in Headers
    BY <2>1, <2>2 DEF Header, Headers
  <2> QED
    BY <2>3 DEF RemoteHeaders, k
<1>4. ASSUME NEW f \in [key : Keys \cup {NoKey}, write : BOOLEAN] PROVE OriginHeaders(f) \subseteq Headers
  <2>1. f.write \in BOOLEAN /\ encode_pkey("inval", "origin", f.write) \in Keys
    BY <1>1, <1>2
  <2>2. \A owns : Header(IF owns THEN "rpr" ELSE "inval", encode_pkey("inval", "origin", f.write), f.write) \in Headers
    BY <2>1 DEF Header, Headers
  <2> QED
    BY <2>2 DEF OriginHeaders
<1> QED
  BY <1>1, <1>3, <1>4

\* The same of what a header is decoded to, and its key is that of a page.
LEMMA DecodedType ==
    ASSUME NEW h \in Headers, NEW n \in Nodes, NEW old \in Modes \cup {None}
    PROVE  Decoded(h, n, old) \in [mode : Modes \cup {None}, key : Keys]
<1>1. h.key \in Keys /\ h.key.nid \in {"un", "grant"} \cup Nodes /\ h.key.status \in {"MODIFIED", "SHARED"}
  BY DEF Headers, Keys
<1>2. /\ Key("MODIFIED", h.key.nid) \in Keys /\ Key(h.key.status, "grant") \in Keys
      /\ Key("MODIFIED", "grant") \in Keys /\ Key("SHARED", "grant") \in Keys
  BY <1>1 DEF Key, Keys
<1>3. {"AAAA", "BBBB", "CCCC", "FFFF"} \subseteq Modes
  BY DEF Modes
<1> DEFINE T == [mode : Modes \cup {None}, key : Keys]
<1>4. \A m \in Modes \cup {None}, k \in Keys : [mode |-> m, key |-> k] \in T
  OBVIOUS
<1> HIDE DEF T
<1>5. /\ [mode |-> "FFFF", key |-> h.key] \in T
      /\ [mode |-> "AAAA", key |-> Key("MODIFIED", h.key.nid)] \in T
      /\ [mode |-> "BBBB", key |-> Key(h.key.status, "grant")] \in T
      /\ [mode |-> "CCCC", key |-> Key(h.key.status, "grant")] \in T
      /\ [mode |-> "CCCC", key |-> h.key] \in T
      /\ [mode |-> "CCCC", key |-> Key("MODIFIED", "grant")] \in T
      /\ [mode |-> "BBBB", key |-> Key("SHARED", "grant")] \in T
      /\ [mode |-> old, key |-> h.key] \in T
  BY <1>1, <1>2, <1>3, <1>4
<1>6. Decoded(h, n, old) \in T
  BY <1>5 DEF Decoded
<1> QED
  BY <1>6 DEF T

Sends == {"send_remote", "send_origin"}

\* Looking for a frame or a request.
LEMMA SeekStep ==
    ASSUME NEW p \in Registers, NEW n \in Nodes, NEW in \in Beats, NEW q \in Seek(p, n, in)
    PROVE  /\ q \in Registers
           /\ q.fwd = None /\ q.cnt = p.cnt /\ q.tx = p.tx /\ q.mode = p.mode /\ q.intr = p.intr
           /\ in # None => q.state = "recv" /\ (p.wr = 0 => q.hdr = in)
           /\ in = None => q.wr = p.wr
           /\ in = None /\ ~start[n] => q.state = "seek"
           /\ in = None /\ start[n] => q.state = IF n = "remote" THEN "send_remote" ELSE "send_origin"
<1> DEFINE next == IF in # None THEN "recv"
                   ELSE IF start[n] THEN IF n = "remote" THEN "send_remote" ELSE "send_origin"
                   ELSE "seek"
           hdr == IF in # None /\ p.wr = 0 THEN in ELSE p.hdr
           wr == IF in # None THEN NextWr(p, FALSE) ELSE p.wr
<1>1. q = [p EXCEPT !.fwd = None, !.state = next, !.hdr = hdr, !.wr = wr]
  BY DEF Seek
<1>2. next \in {"seek", "recv", "idle", "send_remote", "send_origin"} /\ hdr \in Beats
  BY DEF Registers
<1>3. wr \in 0..WrMod - 1
  <2>1. p.wr \in 0..WrMod - 1 /\ WrMod \in Nat /\ WrMod > 0
    BY LinkAssumption DEF Registers
  <2>2. (p.wr + 1) % WrMod \in 0..WrMod - 1
    BY <2>1
  <2> QED
    BY <2>1, <2>2 DEF NextWr
<1>4. /\ in # None => next = "recv" /\ (p.wr = 0 => hdr = in)
      /\ in = None => wr = p.wr
      /\ in = None /\ ~start[n] => next = "seek"
      /\ in = None /\ start[n] => next = IF n = "remote" THEN "send_remote" ELSE "send_origin"
  OBVIOUS
<1> HIDE DEF next, hdr, wr
<1>5. /\ q.fwd = None /\ q.cnt = p.cnt /\ q.tx = p.tx /\ q.mode = p.mode /\ q.intr = p.intr
      /\ q.state = next /\ q.hdr = hdr /\ q.wr = wr
  BY <1>1 DEF Registers
<1>6. q \in Registers
  BY <1>1, <1>2, <1>3 DEF Registers
<1> QED
  BY <1>4, <1>5, <1>6

\* Receiving, decoding and passing a frame on.
LEMMA RecvStep ==
    ASSUME NEW p \in Registers, NEW n \in Nodes, NEW in \in Beats, NEW ready \in BOOLEAN,
           NEW q \in Recv(p, n, in, ready)
    PROVE  /\ q \in Registers
           /\ q.tx = p.tx /\ q.hdr = IF p.wr = 0 THEN in ELSE p.hdr
           /\ ready /\ p.cnt = Np =>
                 q.state = "seek" /\ q.cnt = 0 /\ q.wr = 0 /\ q.fwd = Beat("last")
           /\ ready /\ p.cnt # Np =>
                 /\ q.state = "recv" /\ q.cnt = p.cnt + 1
                 /\ q.fwd = IF p.cnt = 0 THEN [kind |-> "header", mode |-> q.mode, key |-> q.key]
                            ELSE Beat("rest")
           /\ ~ready => q.state = "recv" /\ q.cnt = p.cnt /\ q.fwd = None
           /\ IsHeader(p.hdr) =>
                 /\ q.mode = Decoded(p.hdr, n, p.mode).mode
                 /\ q.intr => p.intr \/ (p.hdr.mode = "rpr" /\ recv_dec(p.hdr.key, n) = "0")
           /\ ~IsHeader(p.hdr) => q.mode = p.mode /\ (q.intr => p.intr)
<1> DEFINE d == IF IsHeader(p.hdr) THEN Decoded(p.hdr, n, p.mode)
                ELSE [mode |-> p.mode, key |-> NoKey]
           bad == IsHeader(p.hdr) /\ p.hdr.mode = "rpr" /\ recv_dec(p.hdr.key, n) = "0"
           beat == CASE p.cnt = 0  -> [kind |-> "header", mode |-> d.mode, key |-> d.key]
                     [] p.cnt = Np -> Beat("last")
                     [] OTHER      -> Beat("rest")
           done == ready /\ p.cnt = Np
           hdr == IF p.wr = 0 THEN in ELSE p.hdr
           wr == NextWr(p, done)
           intr == p.intr \/ bad
           fwd == IF ready THEN beat ELSE None
           cnt == IF ready THEN NextCnt(p, Np) ELSE p.cnt
           next == IF done THEN "seek" ELSE "recv"
<1>1. q = [p EXCEPT !.hdr = hdr, !.wr = wr, !.mode = d.mode, !.key = d.key, !.intr = intr,
                    !.fwd = fwd, !.cnt = cnt, !.state = next]
  BY DEF Recv
<1>2. p.cnt \in 0..Np /\ Np \in Nat /\ Np >= 1 /\ p.hdr \in Beats /\ p.mode \in Modes \cup {None}
  BY LinkAssumption DEF Registers
<1>3. d \in [mode : Modes \cup {None}, key : Keys \cup {NoKey}]
  <2>1. CASE IsHeader(p.hdr)
    <3>1. p.hdr \in Headers
      BY <1>2, <2>1 DEF IsHeader, Beats, Beat
    <3> QED
      BY <1>2, <2>1, <3>1, DecodedType
  <2>2. CASE ~IsHeader(p.hdr)
    BY <1>2, <2>2
  <2> QED
    BY <2>1, <2>2
<1>4. /\ IsHeader(p.hdr) => d.mode = Decoded(p.hdr, n, p.mode).mode
      /\ ~IsHeader(p.hdr) => d.mode = p.mode
  OBVIOUS
<1>5. hdr \in Beats /\ intr \in BOOLEAN
  <2>1. p.intr \in BOOLEAN
    BY DEF Registers
  <2> QED
    BY <1>2, <2>1
<1>6. /\ wr \in 0..WrMod - 1
      /\ done => wr = 0
  <2>1. p.wr \in 0..WrMod - 1 /\ WrMod \in Nat /\ WrMod > 0
    BY LinkAssumption DEF Registers
  <2>2. (p.wr + 1) % WrMod \in 0..WrMod - 1 /\ 0 \in 0..WrMod - 1
    BY <2>1
  <2> QED
    BY <2>2 DEF NextWr
<1> HIDE DEF d
<1>7. /\ cnt \in 0..Np
      /\ ready /\ p.cnt = Np => cnt = 0
      /\ ready /\ p.cnt # Np => cnt = p.cnt + 1
      /\ ~ready => cnt = p.cnt
  BY <1>2 DEF NextCnt
<1>8. /\ fwd \in Passed \cup {Beat("rest"), Beat("last"), None}
      /\ ready /\ p.cnt = Np => fwd = Beat("last")
      /\ ready /\ p.cnt # Np =>
            fwd = IF p.cnt = 0 THEN [kind |-> "header", mode |-> d.mode, key |-> d.key] ELSE Beat("rest")
      /\ ~ready => fwd = None
  <2>1. [kind |-> "header", mode |-> d.mode, key |-> d.key] \in Passed
    BY <1>3 DEF Passed
  <2> QED
    BY <1>2, <2>1
<1>9. /\ next \in {"seek", "recv", "idle", "send_remote", "send_origin"}
      /\ ready /\ p.cnt = Np => next = "seek"
      /\ ~(ready /\ p.cnt = Np) => next = "recv"
  OBVIOUS
<1>10. /\ IsHeader(p.hdr) /\ intr => p.intr \/ (p.hdr.mode = "rpr" /\ recv_dec(p.hdr.key, n) = "0")
       /\ ~IsHeader(p.hdr) /\ intr => p.intr
  OBVIOUS
<1> HIDE DEF bad, beat, wr, intr, fwd, cnt, next
<1>11. /\ q.tx = p.tx /\ q.hdr = hdr /\ q.wr = wr /\ q.mode = d.mode /\ q.key = d.key
       /\ q.intr = intr /\ q.fwd = fwd /\ q.cnt = cnt /\ q.state = next
  BY <1>1 DEF Registers
<1>12. q \in Registers
  <2>1. /\ d.mode \in Modes \cup {None} /\ d.key \in Keys \cup {NoKey}
        /\ hdr \in Beats /\ intr \in BOOLEAN /\ wr \in 0..WrMod - 1 /\ cnt \in 0..Np
        /\ fwd \in Passed \cup {Beat("rest"), Beat("last"), None}
        /\ next \in {"seek", "recv", "idle", "send_remote", "send_origin"}
    BY <1>3, <1>5, <1>6, <1>7, <1>8, <1>9
  <2> HIDE DEF hdr
  <2>2. p.tx \in Beats /\ p.txHdr \in Headers \cup {None}
    BY DEF Registers
  <2>3. q = [state |-> next, cnt |-> cnt, wr |-> wr, hdr |-> hdr, mode |-> d.mode, key |-> d.key,
             intr |-> intr, tx |-> p.tx, txHdr |-> p.txHdr, fwd |-> fwd]
    BY <1>1 DEF Registers
  <2> QED
    BY <2>1, <2>2, <2>3 DEF Registers
<1> QED
  BY <1>4, <1>6, <1>7, <1>8, <1>9, <1>10, <1>11, <1>12

\* Waiting for the request to be taken back.
LEMMA IdleStep ==
    ASSUME NEW p \in Registers, NEW n \in Nodes, NEW q \in IdleState(p, n)
    PROVE  /\ q \in Registers
           /\ q.tx = None /\ q.cnt = p.cnt /\ q.fwd = p.fwd /\ q.mode = p.mode
           /\ q.intr = p.intr /\ q.hdr = p.hdr /\ q.wr = p.wr
           /\ q.state = IF start[n] THEN "idle" ELSE "seek"
BY ZenonT(60) DEF IdleState, Registers, Beats

\* The headers of a fault of node n.
HeadersOf(n, f) == IF n = "remote" THEN RemoteHeaders(f) ELSE OriginHeaders(f)

SendState(n) == IF n = "remote" THEN "send_remote" ELSE "send_origin"

\* Sending one beat of a frame for a fault its copy of the page can cause.
LEMMA SendStep ==
    ASSUME NEW p \in Registers, NEW n \in Nodes, NEW ready \in BOOLEAN,
           p = proc[n], p.state = SendState(n), p.cnt <= SendNp,
           fault[n] \in Faults(n), fault[n] \in [key : Keys \cup {NoKey}, write : BOOLEAN],
           NEW q \in Cycle(n, ready)
    PROVE  /\ q \in Registers
           /\ q.fwd = p.fwd /\ q.intr = p.intr /\ q.mode = p.mode /\ q.hdr = p.hdr /\ q.wr = p.wr
           /\ p.cnt = SendNp => q.cnt = 0 /\ q.state = "idle" /\ q.tx = Beat("last")
           /\ p.cnt # SendNp =>
                 /\ q.cnt = p.cnt + 1 /\ q.state = p.state
                 /\ IF p.cnt = 0 THEN q.tx \in HeadersOf(n, fault[n]) ELSE q.tx = Beat("rest")
<1>1. p.cnt \in 0..SendNp /\ SendNp \in Nat /\ SendNp >= 1 /\ SendNp <= Np /\ Np \in Nat
  BY LinkAssumption DEF Registers
<1>2. \A h : h \in HeadersOf(n, fault[n]) => h \in Headers
  BY KeyTypes DEF HeadersOf
<1>3. PICK h \in HeadersOf(n, fault[n]) :
          q = Send(p, h) \/ \E k \in Keys : q = [Send(p, h) EXCEPT !.key = k]
  <2>1. CASE n = "remote"
    <3>1. ~(fault[n].key.nid = "grant" /\ ~fault[n].write)
      <4>1. \/ fault[n].key \in {NoKey, Key("MODIFIED", "origin")}
            \/ fault[n].write = TRUE
        BY <2>1 DEF Faults
      <4>2. NoKey.nid # "grant" /\ Key("MODIFIED", "origin").nid # "grant"
        BY DEF NoKey, Key
      <4> QED
        BY <4>1, <4>2
    <3>2. q \in SendRemote(p, n)
      BY <2>1 DEF Cycle, SendState
    <3>3. PICK h \in RemoteHeaders(fault[n]) : q = Send(p, h)
      BY <3>1, <3>2 DEF SendRemote
    <3> QED
      BY <2>1, <3>3 DEF HeadersOf
  <2>2. CASE n # "remote"
    <3>1. n = "origin"
      BY <2>2 DEF Nodes
    <3>2. q \in SendOrigin(p, n)
      BY <3>1 DEF Cycle, SendState
    <3>3. encode_pkey("inval", n, fault[n].write) \in Keys
      BY KeyTypes
    <3> QED
      BY <2>2, <3>2, <3>3 DEF SendOrigin, HeadersOf
  <2> QED
    BY <2>1, <2>2
<1> DEFINE tx == CASE p.cnt = SendNp -> Beat("last") [] p.cnt = 0 -> h [] OTHER -> Beat("rest")
           cnt == NextCnt(p, SendNp)
           next == IF p.cnt = SendNp THEN "idle" ELSE p.state
           r == [p EXCEPT !.txHdr = h, !.tx = tx, !.cnt = cnt, !.state = next]
<1>4. q = r \/ \E k \in Keys : q = [r EXCEPT !.key = k]
  BY <1>3 DEF Send
<1>5. /\ cnt \in 0..Np
      /\ p.cnt = SendNp => cnt = 0 /\ next = "idle" /\ tx = Beat("last")
      /\ p.cnt # SendNp =>
            cnt = p.cnt + 1 /\ next = p.state /\ tx = IF p.cnt = 0 THEN h ELSE Beat("rest")
  BY <1>1 DEF NextCnt
<1>6. tx \in Beats /\ h \in Headers /\ next \in {"seek", "recv", "idle", "send_remote", "send_origin"}
  BY <1>2, <1>3 DEF Beats, Registers
<1> HIDE DEF tx, cnt, next
<1>7. /\ r.fwd = p.fwd /\ r.intr = p.intr /\ r.mode = p.mode /\ r.hdr = p.hdr /\ r.wr = p.wr
      /\ r.cnt = cnt /\ r.state = next /\ r.tx = tx
  BY DEF Registers
<1>8. r \in Registers
  BY <1>5, <1>6 DEF Registers
<1> HIDE DEF r
<1>9. /\ q \in Registers
      /\ q.fwd = r.fwd /\ q.intr = r.intr /\ q.mode = r.mode /\ q.hdr = r.hdr /\ q.wr = r.wr
      /\ q.cnt = r.cnt /\ q.state = r.state /\ q.tx = r.tx
  BY <1>4, <1>8 DEF Registers
<1> QED
  BY <1>3, <1>5, <1>7, <1>9

-----------------------------------------------------------------------------
(* Types, whatever crosses and whenever M00_AXIS is not ready.               *)

\* The count of beats: every frame is passed on, and sent, from a count of zero, and nothing
\* is on M00_AXIS while one is sent.
Counted(p) ==
    /\ p.state \in {"seek", "idle"} => p.cnt = 0
    /\ p.state \in Sends => p.cnt <= SendNp
    /\ p.state \in Sends \cup {"idle"} => p.fwd = None

\* A request is taken back only after its frame, and it was for a legal fault.
Posted(n) ==
    /\ start[n] => fault[n] \in Faults(n)
    /\ proc[n].state \in Sends => start[n] /\ proc[n].state = SendState(n)

Inv == TypeOK /\ \A n \in Nodes : Counted(proc[n]) /\ Posted(n)

\* Every node starts with nothing counted or posted.
LEMMA InitInv == Init => Inv
<1> SUFFICES ASSUME Init PROVE Inv
  OBVIOUS
<1>1. 0 \in 0..Np /\ 0 \in 0..WrMod - 1 /\ 0 \in 0..WrMod
  BY LinkAssumption
<1>2. TypeOK
  <2>1. proc \in [Nodes -> Registers]
    BY <1>1 DEF Init, Registers, Beats
  <2> QED
    BY <1>1, <2>1 DEF Init, TypeOK
<1>3. \A n \in Nodes : Counted(proc[n]) /\ Posted(n)
  BY DEF Init, Counted, Posted, Sends
<1> QED
  BY <1>2, <1>3 DEF Inv

\* One cycle of one node.
LEMMA CycleInv ==
    ASSUME Inv, NEW n \in Nodes, NEW ready \in BOOLEAN,
           NEW q \in Cycle(n, ready)
    PROVE  /\ q \in Registers /\ Counted(q)
           /\ q.state \in Sends => start[n] /\ q.state = SendState(n)
<1> DEFINE p == proc[n]
           in == proc[Peer(n)].tx
<1>1. /\ p \in Registers /\ in \in Beats /\ Np \in Nat /\ Np >= 1
      /\ SendNp \in Nat /\ SendNp >= 1 /\ SendNp <= Np
  <2>1. Peer(n) \in Nodes
    BY DEF Peer, Nodes
  <2>2. p \in Registers /\ proc[Peer(n)] \in Registers
    BY <2>1 DEF Inv, TypeOK
  <2> QED
    BY <2>2, LinkAssumption DEF Registers
<1>2. Counted(p) /\ Posted(n)
  BY DEF Inv
<1>3. p.cnt \in 0..Np /\ p.state \in {"seek", "recv", "idle", "send_remote", "send_origin"}
  BY <1>1 DEF Registers
<1>4. CASE p.state = "seek"
  <2>1. q \in Seek(p, n, in)
    BY <1>4 DEF Cycle
  <2> HIDE DEF p, in
  <2>2. /\ q \in Registers /\ q.fwd = None /\ q.cnt = p.cnt
        /\ q.state = "recv" \/ q.state = "seek" \/ (start[n] /\ q.state = SendState(n))
    BY <1>1, <2>1, SeekStep DEF SendState
  <2>3. p.cnt = 0
    BY <1>2, <1>4 DEF Counted
  <2>4. SendState(n) \in Sends
    BY DEF SendState, Sends
  <2>5. Counted(q)
    BY <1>1, <2>2, <2>3, <2>4 DEF Counted, Sends
  <2> QED
    BY <1>1, <2>2, <2>3, <2>5 DEF Sends
<1>5. CASE p.state = "recv"
  <2>1. q \in Recv(p, n, in, ready)
    BY <1>5 DEF Cycle
  <2> HIDE DEF p, in
  <2>2. /\ q \in Registers
        /\ ready /\ p.cnt = Np => q.state = "seek" /\ q.cnt = 0
        /\ ready /\ p.cnt # Np => q.state = "recv"
        /\ ~ready => q.state = "recv"
    BY <1>1, <2>1, RecvStep
  <2> QED
    BY <2>2 DEF Counted, Sends
<1>6. CASE p.state = "idle"
  <2>1. q \in IdleState(p, n)
    BY <1>6 DEF Cycle
  <2> HIDE DEF p, in
  <2>2. q \in Registers /\ q.cnt = p.cnt /\ q.fwd = p.fwd /\ (q.state = "idle" \/ q.state = "seek")
    BY <1>1, <2>1, IdleStep
  <2>3. p.cnt = 0 /\ p.fwd = None
    BY <1>2, <1>6 DEF Counted
  <2> QED
    BY <1>1, <2>2, <2>3 DEF Counted, Sends
<1>7. CASE p.state \in Sends
  <2>1. /\ p.state = SendState(n) /\ start[n] /\ p.cnt <= SendNp /\ p.fwd = None
        /\ fault[n] \in Faults(n) /\ fault[n] \in [key : Keys \cup {NoKey}, write : BOOLEAN]
    BY <1>2, <1>7 DEF Counted, Posted, Inv, TypeOK
  <2>2. /\ q \in Registers /\ q.fwd = p.fwd
        /\ p.cnt = SendNp => q.cnt = 0 /\ q.state = "idle"
        /\ p.cnt # SendNp => q.cnt = p.cnt + 1 /\ q.state = p.state
    BY <1>1, <2>1, SendStep
  <2> HIDE DEF p, in
  <2>3. Counted(q)
    <3>1. CASE p.cnt = SendNp
      BY <2>1, <2>2, <3>1 DEF Counted, Sends
    <3>2. CASE p.cnt # SendNp
      <4>1. q.cnt <= SendNp
        BY <1>1, <1>3, <2>1, <2>2, <3>2
      <4>2. q.state \in Sends /\ q.fwd = None
        BY <1>7, <2>1, <2>2, <3>2
      <4> QED
        BY <2>1, <4>1, <4>2 DEF Counted, Sends
    <3> QED
      BY <3>1, <3>2
  <2>4. q.state \in Sends => start[n] /\ q.state = SendState(n)
    BY <2>1, <2>2 DEF Sends
  <2> QED
    BY <2>2, <2>3, <2>4
<1> QED
  BY <1>3, <1>4, <1>5, <1>6, <1>7 DEF Sends

\* Every step keeps the invariant.
LEMMA StepInv ==
    ASSUME Inv, [Next]_vars
    PROVE  Inv'
<1>1. CASE UNCHANGED vars
  BY <1>1 DEF vars, Inv, TypeOK, Counted, Posted
<1>2. CASE Tick
  <2>1. PICK ready \in [Nodes -> BOOLEAN] :
          /\ proc' = [n \in Nodes |-> proc'[n]]
          /\ \A n \in Nodes : proc'[n] \in Cycle(n, ready[n])
          /\ waited' = [n \in Nodes |->
                          IF ~HeaderWaits(n) THEN 0
                          ELSE IF ready[n] \/ waited[n] = WrMod THEN waited[n] ELSE waited[n] + 1]
          /\ UNCHANGED <<start, fault>>
    BY <1>2, TickSteps DEF Inv, TypeOK
  <2> SUFFICES TypeOK' /\ \A n \in Nodes : (Counted(proc[n]) /\ Posted(n))'
    BY DEF Inv
  <2>2. ASSUME NEW n \in Nodes
        PROVE  /\ proc'[n] \in Registers /\ Counted(proc'[n])
               /\ proc'[n].state \in Sends => start[n] /\ proc'[n].state = SendState(n)
    <3>1. /\ ready[n] \in BOOLEAN
          /\ proc'[n] \in Cycle(n, ready[n])
      BY <2>1
    <3> QED
      BY <3>1, CycleInv
  <2>3. TypeOK'
    <3>1. UNCHANGED <<start, fault>>
      BY <2>1
    <3>2. proc' \in [Nodes -> Registers]
      BY <2>1, <2>2
    <3>3. waited' \in [Nodes -> 0..WrMod]
      <4>1. waited \in [Nodes -> 0..WrMod] /\ WrMod \in Nat
        BY LinkAssumption DEF Inv, TypeOK
      <4> QED
        BY <2>1, <4>1
    <3> QED
      BY <3>1, <3>2, <3>3 DEF TypeOK, Inv
  <2>4. \A n \in Nodes : (Counted(proc[n]) /\ Posted(n))'
    BY <2>1, <2>2 DEF Inv, Posted, Counted
  <2> QED
    BY <2>3, <2>4
<1>3. CASE \E n \in Nodes : Post(n)
  <2>1. PICK n \in Nodes : Post(n)
    BY <1>3
  <2>2. PICK f \in Faults(n) : fault' = [fault EXCEPT ![n] = f]
    BY <2>1 DEF Post
  <2>3. /\ proc[n].state \in {"seek", "recv"} /\ start' = [start EXCEPT ![n] = TRUE]
        /\ UNCHANGED <<proc, waited>>
    BY <2>1 DEF Post
  <2>4. f \in [key : Keys \cup {NoKey}, write : BOOLEAN]
    <3>1. /\ Key("MODIFIED", "origin") \in Keys /\ Key("SHARED", "grant") \in Keys
          /\ Key("MODIFIED", "grant") \in Keys /\ Key("SHARED", "origin") \in Keys
      BY DEF Key, Keys, Nodes
    <3> QED
      BY <3>1 DEF Faults
  <2>5. TypeOK'
    BY <2>2, <2>3, <2>4 DEF Inv, TypeOK
  <2>6. \A m \in Nodes : (Counted(proc[m]))'
    BY <2>3 DEF Inv, Counted
  <2>7. \A m \in Nodes : Posted(m)'
    <3> TAKE m \in Nodes
    <3>1. CASE m = n
      BY <2>2, <2>3, <3>1 DEF Inv, TypeOK, Posted, Sends
    <3>2. CASE m # n
      BY <2>2, <2>3, <3>2 DEF Inv, TypeOK, Posted
    <3> QED
      BY <3>1, <3>2
  <2> QED
    BY <2>5, <2>6, <2>7 DEF Inv
<1>4. CASE \E n \in Nodes : TakeBack(n)
  <2>1. PICK n \in Nodes : TakeBack(n)
    BY <1>4
  <2>2. /\ proc[n].state = "idle" /\ start' = [start EXCEPT ![n] = FALSE]
        /\ UNCHANGED <<proc, waited, fault>>
    BY <2>1 DEF TakeBack
  <2>3. TypeOK'
    BY <2>2 DEF Inv, TypeOK
  <2>4. \A m \in Nodes : (Counted(proc[m]))'
    BY <2>2 DEF Inv, Counted
  <2>5. \A m \in Nodes : Posted(m)'
    <3> TAKE m \in Nodes
    <3>1. CASE m = n
      BY <2>2, <3>1 DEF Inv, TypeOK, Posted, Sends
    <3>2. CASE m # n
      BY <2>2, <3>2 DEF Inv, TypeOK, Posted
    <3> QED
      BY <3>1, <3>2
  <2> QED
    BY <2>3, <2>4, <2>5 DEF Inv
<1> QED
  BY <1>1, <1>2, <1>3, <1>4 DEF Next

\* Every reachable state counts right.
THEOREM Invariance == Safety => []Inv
<1>1. Init => Inv
  BY InitInv
<1>2. Inv /\ [Next]_vars => Inv'
  BY StepInv
<1> QED
  BY <1>1, <1>2, PTL DEF Safety

\* Every register holds what its width and its encoding allow (25-47, 122-149).
THEOREM TypeCorrect == Safety => []TypeOK
<1>1. Inv => TypeOK
  BY DEF Inv
<1> QED
  BY <1>1, Invariance, PTL

-----------------------------------------------------------------------------
(* One fault at a time: none is posted while the other node is busy. p and r *)
(* are the registers of a node and of its peer.                              *)

\* The modes that fit a fault: the page is given up for a write, still read for a read.
Allowed(f) == IF f.write THEN {"AAAA", "CCCC", "FFFF"} ELSE {"BBBB"}

\* A node with a request of its own (mine) is the only one with one, and is still looking
\* for frames only as long as the other is.
OneFault(p, r, mine, its) ==
    /\ mine \/ p.state \in Sends \cup {"idle"} => ~its /\ r.state \in {"seek", "recv"}
    /\ mine => p.state # "recv"
    /\ mine /\ p.state = "seek" => r.state = "seek"

\* Where the receiver is, beat by beat of the sender: it looks for a frame until the header,
\* one of hs, is on the bus, and stays behind the sender from then on.
Paired(p, r, hs) ==
    /\ p.state # "recv" => p.wr = 0
    /\ p.state \in {"seek", "recv"} => p.tx = None
    /\ p.state \in Sends /\ p.cnt = 0 => r.state = "seek" /\ p.tx = None
    /\ p.state \in Sends /\ p.cnt = 1 => r.state = "seek" /\ p.tx \in hs
    /\ p.state \in Sends /\ p.cnt >= 2 =>
          r.state = "recv" /\ r.cnt <= p.cnt - 2 /\ p.tx = Beat("rest")
    /\ p.state = "idle" =>
          \/ p.tx = None
          \/ p.tx = Beat("last") /\ r.state = "recv" /\ r.cnt <= SendNp - 1

\* What a node is told answers the fault f of its peer m: the header it received is one of
\* that fault's, and what it decoded, should later beats run over that header, fits it.
Answered(p, m, f) ==
    /\ p.state = "recv" =>
          /\ f \in Faults(m)
          /\ IF IsHeader(p.hdr) THEN p.hdr \in HeadersOf(m, f) ELSE p.mode \in Allowed(f)
    /\ IsHeader(p.fwd) => p.state = "recv" /\ p.fwd.mode \in Allowed(f)
    /\ ~p.intr

Link ==
    \A n \in Nodes :
        /\ OneFault(proc[n], proc[Peer(n)], start[n], start[Peer(n)])
        /\ Paired(proc[n], proc[Peer(n)], HeadersOf(n, fault[n]))
        /\ Answered(proc[n], Peer(n), fault[Peer(n)])

\* Each of the two nodes is the peer of the other.
LEMMA Peers == \A n \in Nodes : Peer(n) \in Nodes /\ Peer(n) # n /\ Peer(Peer(n)) = n
BY DEF Nodes, Peer

\* Only a header is taken for one.
LEMMA HeaderBeats ==
    /\ ~IsHeader(None) /\ ~IsHeader(Beat("rest")) /\ ~IsHeader(Beat("last"))
    /\ \A h \in Headers : IsHeader(h) /\ h # None /\ h # Beat("rest") /\ h # Beat("last")
    /\ \A m, k : IsHeader([kind |-> "header", mode |-> m, key |-> k]) =>
                    [kind |-> "header", mode |-> m, key |-> k].mode = m
BY NoneAssumption DEF IsHeader, Beat, Headers

\* What the keys of legal headers stand for.
LEMMA DecodedKeys ==
    /\ \A n \in Nodes : /\ recv_dec(Key("MODIFIED", "un"), n) = "C"
                        /\ recv_dec(Key("SHARED", "un"), n) = "B"
                        /\ recv_dec(Key("SHARED", "grant"), n) = "A"
    /\ recv_dec(Key("MODIFIED", "origin"), "origin") = "F"
    /\ recv_dec(Key("MODIFIED", "origin"), "remote") = "D"
    /\ recv_dec(Key("SHARED", "origin"), "remote") = "E"
<1>1. \A s, i : Key(s, i).status = s /\ Key(s, i).nid = i
  BY DEF Key
<1>2. \A n \in Nodes : /\ recv_dec(Key("MODIFIED", "un"), n) = "C"
                       /\ recv_dec(Key("SHARED", "un"), n) = "B"
                       /\ recv_dec(Key("SHARED", "grant"), n) = "A"
  <2>1. /\ Key("SHARED", "un") # Key("MODIFIED", "un") /\ Key("SHARED", "grant") # Key("MODIFIED", "un")
        /\ Key("SHARED", "grant") # Key("SHARED", "un")
    BY <1>1
  <2> TAKE n \in Nodes
  <2>2. n # "un" /\ n # "grant"
    BY DEF Nodes
  <2>3. recv_dec(Key("MODIFIED", "un"), n) = "C"
    BY <1>1, <2>1, <2>2 DEF recv_dec
  <2>4. recv_dec(Key("SHARED", "un"), n) = "B"
    BY <1>1, <2>1, <2>2 DEF recv_dec
  <2>5. recv_dec(Key("SHARED", "grant"), n) = "A"
    BY <1>1, <2>1, <2>2 DEF recv_dec
  <2> QED
    BY <2>3, <2>4, <2>5
<1>3. \A s \in {"MODIFIED", "SHARED"} :
        /\ Key(s, "origin") # Key("MODIFIED", "un") /\ Key(s, "origin") # Key("SHARED", "un")
        /\ Key(s, "origin") # Key("SHARED", "grant")
  BY <1>1
<1>4. recv_dec(Key("MODIFIED", "origin"), "origin") = "F"
  BY <1>1, <1>3 DEF recv_dec
<1>5. recv_dec(Key("MODIFIED", "origin"), "remote") = "D"
  BY <1>1, <1>3 DEF recv_dec
<1>6. recv_dec(Key("SHARED", "origin"), "remote") = "E"
  BY <1>1, <1>3 DEF recv_dec
<1> QED
  BY <1>2, <1>4, <1>5, <1>6

\* The mode a header is decoded to, case by case.
LEMMA DecodedMode ==
    ASSUME NEW h, NEW n, NEW old
    PROVE  /\ h.mode = "inval" => Decoded(h, n, old).mode = "FFFF"
           /\ h.mode = "rpr" /\ recv_dec(h.key, n) = "A" => Decoded(h, n, old).mode = "AAAA"
           /\ h.mode = "rpr" /\ recv_dec(h.key, n) = "B" => Decoded(h, n, old).mode = "BBBB"
           /\ h.mode = "rpr" /\ recv_dec(h.key, n) = "C" => Decoded(h, n, old).mode = "CCCC"
           /\ h.mode = "rpr" /\ recv_dec(h.key, n) = "D" => Decoded(h, n, old).mode = "CCCC"
           /\ h.mode = "rpr" /\ recv_dec(h.key, n) = "E" => Decoded(h, n, old).mode = "BBBB"
           /\ h.mode = "rpr" /\ recv_dec(h.key, n) = "F" =>
                 Decoded(h, n, old).mode = IF h.write THEN "CCCC" ELSE "BBBB"
BY DEF Decoded

\* Every fault the other node can have is decoded to a mode that fits it, and none to the
\* fault interrupt (164-266, 329-376).
LEMMA AnswerFits ==
    ASSUME NEW n \in Nodes, NEW m, m = Peer(n), NEW f \in Faults(m), NEW h \in HeadersOf(m, f),
           NEW old
    PROVE  /\ Decoded(h, n, old).mode \in Allowed(f)
           /\ ~(h.mode = "rpr" /\ recv_dec(h.key, n) = "0")
<1>1. CASE n = "origin"
  <2>1. m = "remote"
    BY <1>1 DEF Peer
  <2>2. h = Header("rpr", IF f.key = NoKey THEN encode_pkey("rpr", "remote", f.write) ELSE f.key, f.write)
    BY <2>1 DEF HeadersOf, RemoteHeaders
  <2>3. /\ f.write \in BOOLEAN
        /\ \/ f.key = NoKey \/ f.key = Key("MODIFIED", "origin")
           \/ f.key = Key("SHARED", "grant") /\ f.write
    BY <2>1 DEF Faults
  <2>4. CASE f.key = NoKey
    <3>1. h.mode = "rpr" /\ h.key = Key(IF f.write THEN "MODIFIED" ELSE "SHARED", "un")
      BY <2>2, <2>4 DEF Header, encode_pkey
    <3>2. CASE f.write
      <4>1. recv_dec(h.key, n) = "C"
        BY <3>1, <3>2, DecodedKeys
      <4> QED
        BY <3>1, <3>2, <4>1, DecodedMode DEF Allowed
    <3>3. CASE ~f.write
      <4>1. recv_dec(h.key, n) = "B"
        BY <3>1, <3>3, DecodedKeys
      <4> QED
        BY <3>1, <3>3, <4>1, DecodedMode DEF Allowed
    <3> QED
      BY <3>2, <3>3
  <2>5. CASE f.key = Key("MODIFIED", "origin")
    <3>1. h.mode = "rpr" /\ h.key = Key("MODIFIED", "origin") /\ h.write = f.write
      BY <2>2, <2>5 DEF Header, Key, NoKey
    <3>2. recv_dec(h.key, n) = "F"
      BY <1>1, <3>1, DecodedKeys
    <3> QED
      BY <2>3, <3>1, <3>2, DecodedMode DEF Allowed
  <2>6. CASE f.key = Key("SHARED", "grant") /\ f.write
    <3>3. f.key # NoKey
      <4>1. NoKey.status = "none" /\ Key("SHARED", "grant").status = "SHARED"
        BY DEF NoKey, Key
      <4> QED
        BY <2>6, <4>1
    <3>1. h.mode = "rpr" /\ h.key = Key("SHARED", "grant")
      BY <2>2, <2>6, <3>3 DEF Header
    <3>2. recv_dec(h.key, n) = "A"
      BY <3>1, DecodedKeys
    <3> QED
      BY <2>6, <3>1, <3>2, DecodedMode DEF Allowed
  <2> QED
    BY <2>3, <2>4, <2>5, <2>6
<1>2. CASE n = "remote"
  <2>1. m = "origin"
    BY <1>2 DEF Peer
  <2>2. PICK owns \in RemoteOwns(f.key) :
          h = Header(IF owns THEN "rpr" ELSE "inval", encode_pkey("inval", "origin", f.write), f.write)
    BY <2>1 DEF HeadersOf, OriginHeaders
  <2>3. /\ f.write \in BOOLEAN
        /\ f.write \/ f.key = Key("MODIFIED", "grant")
    BY <2>1 DEF Faults
  <2>4. /\ h.mode = IF owns THEN "rpr" ELSE "inval"
        /\ h.key = Key(IF f.write THEN "MODIFIED" ELSE "SHARED", "origin")
    BY <2>2 DEF Header, encode_pkey
  <2>5. owns \/ f.write
    <3>1. CASE ~f.write
      <4>1. RemoteOwns(f.key) = {TRUE}
        <5>1. RemoteOwns(Key("MODIFIED", "grant")) = {TRUE}
          <6>1. Key("MODIFIED", "grant") # Key("SHARED", "grant")
            <7>1. Key("MODIFIED", "grant").status # Key("SHARED", "grant").status
              BY DEF Key
            <7> QED
              BY <7>1
          <6> QED
            BY <6>1 DEF RemoteOwns
        <5> QED
          BY <2>3, <3>1, <5>1
      <4> QED
        BY <2>2, <4>1
    <3> QED
      BY <3>1
  <2>6. CASE owns /\ f.write
    <3>1. recv_dec(h.key, n) = "D"
      BY <1>2, <2>4, <2>6, DecodedKeys
    <3> QED
      BY <2>4, <2>6, <3>1, DecodedMode DEF Allowed
  <2>7. CASE owns /\ ~f.write
    <3>1. recv_dec(h.key, n) = "E"
      BY <1>2, <2>4, <2>7, DecodedKeys
    <3> QED
      BY <2>4, <2>7, <3>1, DecodedMode DEF Allowed
  <2>8. CASE ~owns /\ f.write
    BY <2>4, <2>8, DecodedMode DEF Allowed
  <2> QED
    BY <2>5, <2>6, <2>7, <2>8
<1> QED
  BY <1>1, <1>2 DEF Nodes

\* The states a node may be in after a cycle.
LEMMA CycleStates ==
    ASSUME Inv, Link, NEW n \in Nodes, NEW ready \in BOOLEAN, NEW q \in Cycle(n, ready),
           NEW p, p = proc[n], NEW in, in = proc[Peer(n)].tx
    PROVE  /\ p \in Registers /\ in \in Beats /\ p.cnt \in 0..Np
           /\ p.state = "seek" =>
                 /\ p.tx = None /\ p.wr = 0 /\ p.cnt = 0
                 /\ q.fwd = None /\ q.tx = None /\ q.cnt = 0 /\ ~q.intr
                 /\ in # None => q.state = "recv" /\ q.hdr = in
                 /\ in = None => q.wr = 0
                 /\ in = None /\ ~start[n] => q.state = "seek"
                 /\ in = None /\ start[n] => q.state \in Sends
           /\ p.state = "recv" =>
                 /\ q.tx = None /\ q.state \in {"seek", "recv"}
                 /\ q.state = "seek" => q.wr = 0 /\ p.cnt = Np
                 /\ p.cnt # Np => q.state = "recv" /\ q.cnt \in {p.cnt, p.cnt + 1}
           /\ p.state = "idle" =>
                 /\ q.tx = None /\ q.wr = 0 /\ q.fwd = None /\ ~q.intr
                 /\ q.state = IF start[n] THEN "idle" ELSE "seek"
           /\ p.state \in Sends =>
                 /\ start[n] /\ p.cnt <= SendNp
                 /\ q.wr = 0 /\ q.fwd = None /\ ~q.intr
                 /\ p.cnt = SendNp => q.state = "idle" /\ q.tx = Beat("last")
                 /\ p.cnt # SendNp =>
                       /\ q.cnt = p.cnt + 1 /\ q.state \in Sends
                       /\ IF p.cnt = 0 THEN q.tx \in HeadersOf(n, fault[n]) ELSE q.tx = Beat("rest")
<1>1. /\ p \in Registers /\ in \in Beats /\ p.cnt \in 0..Np /\ Counted(p) /\ Posted(n)
  <2>1. p \in Registers /\ proc[Peer(n)] \in Registers
    BY Peers DEF Inv, TypeOK
  <2> QED
    BY <2>1 DEF Registers, Inv
<1>2. /\ Paired(p, proc[Peer(n)], HeadersOf(n, fault[n])) /\ ~p.intr
  BY DEF Link, Answered
<1>3. ASSUME p.state = "seek"
      PROVE  /\ p.tx = None /\ p.wr = 0 /\ p.cnt = 0
             /\ q.fwd = None /\ q.tx = None /\ q.cnt = 0 /\ ~q.intr
             /\ in # None => q.state = "recv" /\ q.hdr = in
             /\ in = None => q.wr = 0
             /\ in = None /\ ~start[n] => q.state = "seek"
             /\ in = None /\ start[n] => q.state \in Sends
  <2>1. p.tx = None /\ p.wr = 0 /\ p.cnt = 0
    BY <1>1, <1>2, <1>3 DEF Paired, Counted
  <2>2. q \in Seek(p, n, in)
    BY <1>3 DEF Cycle
  <2>3. /\ q.fwd = None /\ q.cnt = p.cnt /\ q.tx = p.tx /\ q.intr = p.intr
        /\ in # None => q.state = "recv" /\ (p.wr = 0 => q.hdr = in)
        /\ in = None => q.wr = p.wr
        /\ in = None /\ ~start[n] => q.state = "seek"
        /\ in = None /\ start[n] => q.state = IF n = "remote" THEN "send_remote" ELSE "send_origin"
    BY <1>1, <2>2, SeekStep
  <2> QED
    BY <1>2, <2>1, <2>3 DEF Sends
<1>4. ASSUME p.state = "recv"
      PROVE  /\ q.tx = None /\ q.state \in {"seek", "recv"}
             /\ q.state = "seek" => q.wr = 0 /\ p.cnt = Np
             /\ p.cnt # Np => q.state = "recv" /\ q.cnt \in {p.cnt, p.cnt + 1}
  <2>1. p.tx = None
    BY <1>2, <1>4 DEF Paired
  <2>2. q \in Recv(p, n, in, ready)
    BY <1>4 DEF Cycle
  <2>3. /\ q.tx = p.tx
        /\ ready /\ p.cnt = Np =>
              q.state = "seek" /\ q.cnt = 0 /\ q.wr = 0 /\ q.fwd = Beat("last")
        /\ ready /\ p.cnt # Np =>
              /\ q.state = "recv" /\ q.cnt = p.cnt + 1
              /\ q.fwd = IF p.cnt = 0 THEN [kind |-> "header", mode |-> q.mode, key |-> q.key]
                         ELSE Beat("rest")
        /\ ~ready => q.state = "recv" /\ q.cnt = p.cnt /\ q.fwd = None
    BY <1>1, <2>2, RecvStep
  <2> QED
    BY <2>1, <2>3
<1>5. ASSUME p.state = "idle"
      PROVE  /\ q.tx = None /\ q.wr = 0 /\ q.fwd = None /\ ~q.intr
             /\ q.state = IF start[n] THEN "idle" ELSE "seek"
  <2>1. p.wr = 0 /\ p.fwd = None
    BY <1>1, <1>2, <1>5 DEF Paired, Counted
  <2>2. q \in IdleState(p, n)
    BY <1>5 DEF Cycle
  <2>3. /\ q.tx = None /\ q.wr = p.wr /\ q.fwd = p.fwd /\ q.intr = p.intr
        /\ q.state = IF start[n] THEN "idle" ELSE "seek"
    BY <1>1, <2>2, IdleStep
  <2> QED
    BY <1>2, <2>1, <2>3
<1>6. ASSUME p.state \in Sends
      PROVE  /\ start[n] /\ p.cnt <= SendNp
             /\ q.wr = 0 /\ q.fwd = None /\ ~q.intr
             /\ p.cnt = SendNp => q.state = "idle" /\ q.tx = Beat("last")
             /\ p.cnt # SendNp =>
                   /\ q.cnt = p.cnt + 1 /\ q.state \in Sends
                   /\ IF p.cnt = 0 THEN q.tx \in HeadersOf(n, fault[n]) ELSE q.tx = Beat("rest")
  <2>1. p.wr = 0 /\ p.fwd = None /\ p.cnt <= SendNp
    BY <1>1, <1>2, <1>6 DEF Paired, Counted, Sends
  <2>2. /\ start[n] /\ fault[n] \in Faults(n) /\ p.state = SendState(n)
        /\ fault[n] \in [key : Keys \cup {NoKey}, write : BOOLEAN]
    BY <1>1, <1>6 DEF Posted, Inv, TypeOK
  <2>3. /\ q.fwd = p.fwd /\ q.intr = p.intr /\ q.wr = p.wr
        /\ p.cnt = SendNp => q.state = "idle" /\ q.tx = Beat("last")
        /\ p.cnt # SendNp =>
              /\ q.cnt = p.cnt + 1 /\ q.state = p.state
              /\ IF p.cnt = 0 THEN q.tx \in HeadersOf(n, fault[n]) ELSE q.tx = Beat("rest")
    BY <1>1, <2>1, <2>2, SendStep
  <2>4. p.cnt # SendNp =>
          /\ q.cnt = p.cnt + 1 /\ q.state \in Sends
          /\ IF p.cnt = 0 THEN q.tx \in HeadersOf(n, fault[n]) ELSE q.tx = Beat("rest")
    BY <1>6, <2>3
  <2>5. q.wr = 0 /\ q.fwd = None /\ ~q.intr
    BY <1>2, <2>1, <2>3
  <2> QED
    BY <2>1, <2>2, <2>3, <2>4, <2>5
<1> QED
  BY <1>1, <1>3, <1>4, <1>5, <1>6

\* A cycle starts no second request, and the first is served before the node looks on.
LEMMA CycleOneFault ==
    ASSUME Inv, Link, NEW n \in Nodes, NEW m, m = Peer(n),
           NEW ready \in BOOLEAN, NEW q \in Cycle(n, ready),
           NEW peerReady \in BOOLEAN, NEW r \in Cycle(m, peerReady)
    PROVE  OneFault(q, r, start[n], start[m])
<1> DEFINE p == proc[n]
           o == proc[m]
<1>1. m \in Nodes /\ Peer(m) = n /\ p \in Registers /\ o \in Registers
  BY Peers DEF Inv, TypeOK
<1>2. /\ OneFault(p, o, start[n], start[m]) /\ OneFault(o, p, start[m], start[n])
      /\ Paired(o, p, HeadersOf(m, fault[m]))
  BY <1>1 DEF Link
<1>3. /\ p.state = "seek" =>
            /\ o.tx # None => q.state = "recv"
            /\ o.tx = None /\ ~start[n] => q.state = "seek"
            /\ o.tx = None /\ start[n] => q.state \in Sends
      /\ p.state = "recv" => q.state \in {"seek", "recv"}
      /\ p.state = "idle" => q.state = IF start[n] THEN "idle" ELSE "seek"
      /\ p.state \in Sends => start[n] /\ (q.state = "idle" \/ q.state \in Sends)
  BY <1>1, CycleStates
<1>4. o.state = "recv" => r.state \in {"seek", "recv"}
  BY <1>1, CycleStates
<1>5. o.state = "seek" /\ ~start[m] => r.state \in {"seek", "recv"}
  BY <1>1, CycleStates
<1>6. p.state \in {"seek", "recv", "idle"} \cup Sends
  BY <1>1 DEF Registers, Sends
<1> HIDE DEF p, o
<1>7. start[n] \/ q.state \in Sends \cup {"idle"} => start[n] \/ p.state \in Sends \cup {"idle"}
  BY <1>3, <1>6 DEF Sends
<1>8. start[n] \/ p.state \in Sends \cup {"idle"} => ~start[m] /\ r.state \in {"seek", "recv"}
  BY <1>2, <1>4, <1>5 DEF OneFault
<1>9. start[n] => q.state \in Sends \cup {"idle"}
  <2>1. start[n] /\ p.state = "seek" => o.tx = None
    BY <1>2 DEF OneFault, Paired
  <2>2. start[n] => p.state # "recv"
    BY <1>2 DEF OneFault
  <2> QED
    BY <1>3, <1>6, <2>1, <2>2
<1> QED
  BY <1>7, <1>8, <1>9 DEF OneFault, Sends

\* A cycle takes the receiver on with the sender.
LEMMA CyclePaired ==
    ASSUME Inv, Link, NEW n \in Nodes, NEW m, m = Peer(n),
           NEW ready \in BOOLEAN, NEW q \in Cycle(n, ready),
           NEW peerReady \in BOOLEAN, NEW r \in Cycle(m, peerReady)
    PROVE  Paired(q, r, HeadersOf(n, fault[n]))
<1> DEFINE p == proc[n]
           o == proc[m]
           hs == HeadersOf(n, fault[n])
<1>1. /\ m \in Nodes /\ Peer(m) = n /\ p \in Registers /\ o \in Registers
      /\ p.cnt \in Nat /\ o.cnt \in Nat /\ p.tx \in Beats /\ o.tx \in Beats
  BY Peers, LinkAssumption DEF Inv, TypeOK, Registers
<1>2. /\ OneFault(p, o, start[n], start[m]) /\ Paired(p, o, hs) /\ Paired(o, p, HeadersOf(m, fault[m]))
  BY <1>1 DEF Link
<1>3. hs \subseteq Headers
  BY KeyTypes DEF Inv, TypeOK, HeadersOf
<1>4. /\ SendNp \in Nat /\ SendNp <= Np /\ SendNp >= 1 /\ Np \in Nat
  BY LinkAssumption
<1>5. /\ o.state = "seek" =>
            /\ r.cnt = 0
            /\ p.tx # None => r.state = "recv"
            /\ p.tx = None /\ ~start[m] => r.state = "seek"
      /\ o.state = "recv" /\ o.cnt # Np => r.state = "recv" /\ r.cnt \in {o.cnt, o.cnt + 1}
  <2>1. p.tx = proc[Peer(m)].tx
    BY <1>1
  <2> HIDE DEF p
  <2> QED
    BY <1>1, <2>1, CycleStates
<1>6. CASE p.state = "seek"
  <2>1. /\ q.tx = None /\ q.cnt = 0
        /\ o.tx # None => q.state = "recv"
        /\ o.tx = None => q.wr = 0
        /\ o.tx = None /\ ~start[n] => q.state = "seek"
        /\ o.tx = None /\ start[n] => q.state \in Sends
    BY <1>1, <1>6, CycleStates
  <2>2. q.state \in {"seek", "recv"} \/ (q.state \in Sends /\ start[n])
    BY <2>1
  <2>3. start[n] => r.state = "seek"
    <3>1. start[n] => o.state = "seek" /\ ~start[m] /\ p.tx = None
      BY <1>2, <1>6 DEF OneFault, Paired
    <3> QED
      BY <1>5, <3>1
  <2>4. q.state # "recv" => q.wr = 0
    BY <2>1
  <2> QED
    BY <2>1, <2>2, <2>3, <2>4 DEF Paired, Sends
<1>7. CASE p.state = "recv"
  <2>1. q.tx = None /\ q.state \in {"seek", "recv"} /\ (q.state = "seek" => q.wr = 0)
    BY <1>1, <1>7, CycleStates
  <2> QED
    BY <2>1 DEF Paired, Sends
<1>8. CASE p.state = "idle"
  <2>1. q.tx = None /\ q.wr = 0 /\ q.state \in {"idle", "seek"}
    BY <1>1, <1>8, CycleStates
  <2> QED
    BY <2>1 DEF Paired, Sends
<1>9. CASE p.state \in Sends
  <2>1. /\ p.cnt <= SendNp /\ q.wr = 0 /\ start[n]
        /\ p.cnt = SendNp => q.state = "idle" /\ q.tx = Beat("last")
        /\ p.cnt # SendNp =>
              /\ q.cnt = p.cnt + 1 /\ q.state \in Sends
              /\ IF p.cnt = 0 THEN q.tx \in hs ELSE q.tx = Beat("rest")
    BY <1>1, <1>9, CycleStates
  <2>2. CASE p.cnt = 0
    <3>1. q.cnt = 1 /\ q.state \in Sends /\ q.tx \in hs
      BY <1>4, <2>1, <2>2
    <3>2. o.state = "seek" /\ p.tx = None /\ ~start[m]
      BY <1>2, <1>9, <2>1, <2>2 DEF Paired, OneFault
    <3>3. r.state = "seek"
      BY <1>5, <3>2
    <3> QED
      BY <2>1, <3>1, <3>3 DEF Paired, Sends
  <2>3. CASE p.cnt # 0
    <3>1. r.state = "recv" /\ r.cnt \in Nat /\ r.cnt <= p.cnt - 1
      <4>1. CASE p.cnt = 1
        <5>1. o.state = "seek" /\ p.tx \in Headers
          BY <1>2, <1>3, <1>9, <4>1 DEF Paired
        <5> QED
          BY <1>5, <4>1, <5>1, HeaderBeats
      <4>2. CASE p.cnt >= 2
        <5>1. o.state = "recv" /\ o.cnt <= p.cnt - 2
          BY <1>2, <1>9, <4>2 DEF Paired
        <5>2. o.cnt # Np
          BY <1>1, <1>4, <2>1, <5>1
        <5>3. r.state = "recv" /\ (r.cnt = o.cnt \/ r.cnt = o.cnt + 1)
          BY <1>5, <5>1, <5>2
        <5> QED
          BY <1>1, <5>1, <5>3
      <4> QED
        BY <1>1, <2>3, <4>1, <4>2
    <3>2. CASE p.cnt = SendNp
      <4>1. q.state = "idle" /\ q.tx = Beat("last") /\ q.wr = 0 /\ r.cnt <= SendNp - 1
        BY <2>1, <3>1, <3>2
      <4> QED
        BY <3>1, <4>1 DEF Paired, Sends
    <3>3. CASE p.cnt # SendNp
      <4>1. q.state \in Sends /\ q.cnt = p.cnt + 1 /\ q.tx = Beat("rest") /\ q.wr = 0
        BY <2>1, <2>3, <3>3
      <4>2. q.cnt >= 2 /\ r.cnt <= q.cnt - 2 /\ q.cnt # 0 /\ q.cnt # 1
        BY <1>1, <2>3, <3>1, <4>1
      <4> QED
        BY <3>1, <4>1, <4>2 DEF Paired, Sends
    <3> QED
      BY <3>2, <3>3
  <2> QED
    BY <2>2, <2>3
<1> QED
  BY <1>1, <1>6, <1>7, <1>8, <1>9 DEF Registers, Sends

\* A cycle decodes what the other node asks for, and nothing else.
LEMMA CycleAnswered ==
    ASSUME Inv, Link, NEW n \in Nodes, NEW m, m = Peer(n),
           NEW ready \in BOOLEAN, NEW q \in Cycle(n, ready)
    PROVE  Answered(q, m, fault[m])
<1> DEFINE p == proc[n]
           o == proc[m]
           f == fault[m]
           hs == HeadersOf(m, f)
<1>1. /\ m \in Nodes /\ Peer(m) = n /\ p \in Registers /\ o \in Registers
      /\ p.hdr \in Beats /\ o.tx \in Beats /\ o.cnt \in Nat
  BY Peers, LinkAssumption DEF Inv, TypeOK, Registers
<1>2. Answered(p, m, f) /\ Paired(o, p, hs) /\ Posted(m)
  BY <1>1 DEF Link, Inv
<1>3. hs \subseteq Headers
  BY <1>1, KeyTypes DEF Inv, TypeOK, HeadersOf
<1>4. p.state \in {"seek", "recv", "idle"} \cup Sends /\ o.state \in {"seek", "recv", "idle"} \cup Sends
  BY <1>1 DEF Registers, Sends
<1>5. CASE p.state = "seek"
  <2>1. /\ q.fwd = None /\ ~q.intr
        /\ o.tx # None => q.state = "recv" /\ q.hdr = o.tx
        /\ o.tx = None => q.state = "seek" \/ q.state \in Sends
    BY <1>1, <1>5, CycleStates
  <2>2. ASSUME q.state = "recv"
        PROVE  f \in Faults(m) /\ IsHeader(q.hdr) /\ q.hdr \in hs
    <3>1. o.tx # None /\ q.hdr = o.tx
      BY <2>1, <2>2 DEF Sends
    <3>2. o.state \in Sends /\ o.cnt = 1
      BY <1>1, <1>2, <1>4, <1>5, <3>1 DEF Paired
    <3>3. o.tx \in hs
      BY <1>2, <3>2 DEF Paired
    <3>4. f \in Faults(m)
      BY <1>2, <3>2 DEF Posted
    <3> QED
      BY <1>3, <3>1, <3>3, <3>4, HeaderBeats
  <2> HIDE DEF f, hs
  <2>3. ~IsHeader(q.fwd)
    BY <2>1, HeaderBeats
  <2>4. Answered(q, m, f)
    BY <2>1, <2>2, <2>3 DEF Answered, hs
  <2> QED
    BY <2>4 DEF f
<1>6. CASE p.state = "recv"
  <2>1. q \in Recv(p, n, o.tx, ready)
    BY <1>6 DEF Cycle
  <2>2. /\ f \in Faults(m) /\ ~p.intr
        /\ IF IsHeader(p.hdr) THEN p.hdr \in hs ELSE p.mode \in Allowed(f)
    BY <1>2, <1>6 DEF Answered
  <2>3. /\ q.hdr = IF p.wr = 0 THEN o.tx ELSE p.hdr
        /\ ready /\ p.cnt = Np =>
              q.state = "seek" /\ q.cnt = 0 /\ q.wr = 0 /\ q.fwd = Beat("last")
        /\ ready /\ p.cnt # Np =>
              /\ q.state = "recv" /\ q.cnt = p.cnt + 1
              /\ q.fwd = IF p.cnt = 0 THEN [kind |-> "header", mode |-> q.mode, key |-> q.key]
                         ELSE Beat("rest")
        /\ ~ready => q.state = "recv" /\ q.cnt = p.cnt /\ q.fwd = None
        /\ IsHeader(p.hdr) =>
              /\ q.mode = Decoded(p.hdr, n, p.mode).mode
              /\ q.intr => p.intr \/ (p.hdr.mode = "rpr" /\ recv_dec(p.hdr.key, n) = "0")
        /\ ~IsHeader(p.hdr) => q.mode = p.mode /\ (q.intr => p.intr)
    BY <1>1, <2>1, RecvStep
  <2>4. q.mode \in Allowed(f) /\ ~q.intr
    <3>1. CASE IsHeader(p.hdr)
      <4>1. p.hdr \in hs
        BY <2>2, <3>1
      <4>2. /\ Decoded(p.hdr, n, p.mode).mode \in Allowed(f)
            /\ ~(p.hdr.mode = "rpr" /\ recv_dec(p.hdr.key, n) = "0")
        BY <2>2, <4>1, AnswerFits
      <4> QED
        BY <2>2, <2>3, <3>1, <4>2
    <3>2. CASE ~IsHeader(p.hdr)
      BY <2>2, <2>3, <3>2
    <3> QED
      BY <3>1, <3>2
  <2>5. ~IsHeader(o.tx)
    <3>1. \/ o.tx = None \/ o.tx = Beat("rest") \/ o.tx = Beat("last")
      BY <1>1, <1>2, <1>4, <1>6 DEF Paired
    <3> QED
      BY <3>1, HeaderBeats
  <2>6. IsHeader(q.hdr) => q.hdr \in hs
    BY <2>2, <2>3, <2>5
  <2>7. ASSUME IsHeader(q.fwd) PROVE q.state = "recv" /\ q.fwd.mode \in Allowed(f)
    <3>1. ready /\ p.cnt # Np /\ p.cnt = 0
      BY <2>3, <2>7, HeaderBeats
    <3>2. q.state = "recv" /\ q.fwd = [kind |-> "header", mode |-> q.mode, key |-> q.key]
      BY <2>3, <3>1
    <3> QED
      BY <2>4, <3>2
  <2> HIDE DEF f, hs
  <2>8. Answered(q, m, f)
    BY <2>2, <2>4, <2>6, <2>7 DEF Answered, hs
  <2> QED
    BY <2>8 DEF f
<1>7. CASE p.state = "idle" \/ p.state \in Sends
  <2>1. q.fwd = None /\ ~q.intr /\ q.state # "recv"
    <3>1. CASE p.state = "idle"
      BY <1>1, <3>1, CycleStates
    <3>2. CASE p.state \in Sends
      <4>1. /\ q.fwd = None /\ ~q.intr
            /\ p.cnt = SendNp => q.state = "idle"
            /\ p.cnt # SendNp => q.state \in Sends
        BY <1>1, <3>2, CycleStates
      <4> QED
        BY <4>1 DEF Sends
    <3> QED
      BY <1>7, <3>1, <3>2
  <2> QED
    BY <2>1, HeaderBeats DEF Answered
<1> QED
  BY <1>4, <1>5, <1>6, <1>7

\* Out of reset no fault is posted.
LEMMA InitLink == Init => Link
<1> SUFFICES ASSUME Init, NEW n \in Nodes
             PROVE  /\ OneFault(proc[n], proc[Peer(n)], start[n], start[Peer(n)])
                    /\ Paired(proc[n], proc[Peer(n)], HeadersOf(n, fault[n]))
                    /\ Answered(proc[n], Peer(n), fault[Peer(n)])
  BY DEF Link
<1>1. \A i \in Nodes : /\ proc[i].state = "seek" /\ proc[i].wr = 0 /\ proc[i].tx = None
                       /\ proc[i].fwd = None /\ ~proc[i].intr /\ ~start[i]
  BY DEF Init
<1>2. proc[n].state \notin Sends \cup {"idle"}
  BY <1>1 DEF Sends
<1>3. OneFault(proc[n], proc[Peer(n)], start[n], start[Peer(n)])
  BY <1>1, <1>2 DEF OneFault
<1>4. Paired(proc[n], proc[Peer(n)], HeadersOf(n, fault[n]))
  BY <1>1, <1>2 DEF Paired
<1>5. Answered(proc[n], Peer(n), fault[Peer(n)])
  BY <1>1, HeaderBeats DEF Answered
<1> QED
  BY <1>3, <1>4, <1>5

\* Every step keeps to one fault at a time, as long as none is posted while the other node
\* is busy.
LEMMA StepLink ==
    ASSUME Inv, Link, [Next]_vars, ~MayCross
    PROVE  Link'
<1>1. CASE UNCHANGED vars
  BY <1>1 DEF vars, Link, OneFault, Paired, Answered
<1>2. CASE Tick
  <2>1. PICK ready \in [Nodes -> BOOLEAN] :
          /\ \A n \in Nodes : proc'[n] \in Cycle(n, ready[n])
          /\ UNCHANGED <<start, fault>>
    BY <1>2, TickSteps DEF Inv, TypeOK
  <2>2. ASSUME NEW n \in Nodes
        PROVE  /\ OneFault(proc'[n], proc'[Peer(n)], start[n], start[Peer(n)])
               /\ Paired(proc'[n], proc'[Peer(n)], HeadersOf(n, fault[n]))
               /\ Answered(proc'[n], Peer(n), fault[Peer(n)])
    <3>1. /\ ready[n] \in BOOLEAN /\ ready[Peer(n)] \in BOOLEAN
          /\ proc'[n] \in Cycle(n, ready[n]) /\ proc'[Peer(n)] \in Cycle(Peer(n), ready[Peer(n)])
      BY <2>1, Peers
    <3>2. OneFault(proc'[n], proc'[Peer(n)], start[n], start[Peer(n)])
      BY <3>1, CycleOneFault
    <3>3. Paired(proc'[n], proc'[Peer(n)], HeadersOf(n, fault[n]))
      BY <3>1, CyclePaired
    <3>4. Answered(proc'[n], Peer(n), fault[Peer(n)])
      BY <3>1, CycleAnswered
    <3> QED
      BY <3>2, <3>3, <3>4
  <2>3. start' = start /\ fault' = fault
    BY <2>1
  <2> QED
    BY <2>2, <2>3 DEF Link
<1>3. CASE \E n \in Nodes : Post(n)
  <2>1. PICK n \in Nodes : Post(n)
    BY <1>3
  <2>2. PICK f \in Faults(n) : fault' = [fault EXCEPT ![n] = f]
    BY <2>1 DEF Post
  <2>3. Quiet(n) /\ Quiet(Peer(n)) /\ start' = [start EXCEPT ![n] = TRUE] /\ proc' = proc
    BY <2>1 DEF Post
  <2>4. ASSUME NEW i \in Nodes
        PROVE  /\ OneFault(proc[i], proc[Peer(i)], start'[i], start'[Peer(i)])
               /\ Paired(proc[i], proc[Peer(i)], HeadersOf(i, fault'[i]))
               /\ Answered(proc[i], Peer(i), fault'[Peer(i)])
    <3>1. i = n \/ i = Peer(n)
      BY DEF Nodes, Peer
    <3>2. Quiet(i) /\ Quiet(Peer(i)) /\ Peer(i) \in Nodes /\ Peer(i) # i
      BY <2>3, <3>1, Peers
    <3>3. proc[i].state = "seek" /\ proc[Peer(i)].state = "seek" /\ "seek" \notin Sends \cup {"idle"}
      BY <3>2 DEF Quiet, Sends
    <3>4. ~start'[i] \/ ~start'[Peer(i)]
      <4>1. CASE i = n
        BY <2>3, <3>2, <4>1 DEF Quiet, Inv, TypeOK
      <4>2. CASE i # n
        BY <2>3, <3>2, <4>2 DEF Quiet, Inv, TypeOK
      <4> QED
        BY <4>1, <4>2
    <3>5. OneFault(proc[i], proc[Peer(i)], start'[i], start'[Peer(i)])
      BY <3>3, <3>4 DEF OneFault
    <3>6. proc[i].wr = 0 /\ proc[i].tx = None /\ ~proc[i].intr /\ proc[i].fwd = None
      BY <3>2, <3>3 DEF Link, Paired, Answered, Quiet
    <3>7. Paired(proc[i], proc[Peer(i)], HeadersOf(i, fault'[i]))
      BY <3>3, <3>6 DEF Paired
    <3>8. Answered(proc[i], Peer(i), fault'[Peer(i)])
      BY <3>3, <3>6, HeaderBeats DEF Answered
    <3> QED
      BY <3>5, <3>7, <3>8
  <2> QED
    BY <2>3, <2>4 DEF Link
<1>4. CASE \E n \in Nodes : TakeBack(n)
  <2>1. PICK n \in Nodes : TakeBack(n)
    BY <1>4
  <2>2. /\ proc[n].state = "idle" /\ start' = [start EXCEPT ![n] = FALSE]
        /\ proc' = proc /\ fault' = fault
    BY <2>1 DEF TakeBack
  <2>3. ASSUME NEW i \in Nodes
        PROVE  OneFault(proc[i], proc[Peer(i)], start'[i], start'[Peer(i)])
    <3>1. OneFault(proc[i], proc[Peer(i)], start[i], start[Peer(i)])
      BY <2>3 DEF Link
    <3>2. Peer(i) \in Nodes /\ (start'[i] => start[i]) /\ (start'[Peer(i)] => start[Peer(i)])
      BY <2>2, Peers DEF Inv, TypeOK
    <3> QED
      BY <3>1, <3>2 DEF OneFault
  <2> QED
    BY <2>2, <2>3 DEF Link
<1> QED
  BY <1>1, <1>2, <1>3, <1>4 DEF Next

\* One fault at a time, throughout.
LEMMA LinkInvariance == ASSUME ~MayCross PROVE Safety => [](Inv /\ Link)
<1>1. Init => Inv /\ Link
  BY InitInv, InitLink
<1>2. (Inv /\ Link) /\ [Next]_vars => (Inv /\ Link)'
  BY StepInv, StepLink
<1> QED
  BY <1>1, <1>2, PTL DEF Safety

\* As long as no fault is posted while the other node is busy, what the software is told to do
\* fits the fault, and no legal fault raises the fault interrupt (164-266, 329-376, 426), however
\* the software's side stalls.
THEOREM AnswersFit == ASSUME ~MayCross PROVE Safety => []ModeFitsFault
<1>1. Link => ModeFitsFault
  BY DEF Link, Answered, Allowed, ModeFitsFault
<1> QED
  BY <1>1, LinkInvariance, PTL

\* As long as no fault is posted while the other node is busy, every header a node sends is
\* received, whole, by the other (508), however the software's side stalls.
THEOREM HeadersReceived == ASSUME ~MayCross PROVE Safety => HeadersArrive
<1> DEFINE Arrives ==
      \A n \in Nodes :
          LET h == proc[n].tx IN
          IsHeader(h) /\ proc'[n].tx # h
              => proc[Peer(n)].state = "seek" /\ proc'[Peer(n)].hdr = h
<1>1. ASSUME Inv, Link, Next PROVE Arrives
  <2> SUFFICES ASSUME NEW n \in Nodes, NEW h, h = proc[n].tx, IsHeader(h), proc'[n].tx # h
               PROVE  proc[Peer(n)].state = "seek" /\ proc'[Peer(n)].hdr = h
    OBVIOUS
  <2>1. CASE Tick
    <3>1. PICK ready \in [Nodes -> BOOLEAN] : \A i \in Nodes : proc'[i] \in Cycle(i, ready[i])
      BY <1>1, <2>1, TickSteps DEF Inv, TypeOK
    <3>2. Peer(n) \in Nodes /\ Peer(Peer(n)) = n /\ proc[n] \in Registers
      BY <1>1, Peers DEF Inv, TypeOK
    <3>3. Paired(proc[n], proc[Peer(n)], HeadersOf(n, fault[n])) /\ proc[n].cnt \in Nat
      BY <1>1, <3>2, LinkAssumption DEF Link, Registers
    <3>4. h # None /\ h # Beat("rest") /\ h # Beat("last")
      BY HeaderBeats
    <3>5. proc[n].state \in {"seek", "recv", "idle"} \cup Sends
      BY <3>2 DEF Registers, Sends
    <3>6. proc[Peer(n)].state = "seek"
      BY <3>3, <3>4, <3>5 DEF Paired
    <3>7. proc'[Peer(n)] \in Cycle(Peer(n), ready[Peer(n)]) /\ ready[Peer(n)] \in BOOLEAN
      BY <3>1, <3>2
    <3>8. proc'[Peer(n)].hdr = h
      BY <1>1, <3>2, <3>4, <3>6, <3>7, CycleStates
    <3> QED
      BY <3>6, <3>8
  <2>2. CASE \E i \in Nodes : Post(i) \/ TakeBack(i)
    BY <2>2 DEF Post, TakeBack
  <2> QED
    BY <1>1, <2>1, <2>2 DEF Next
<1>2. Inv /\ Link /\ [Next]_vars => [Arrives]_vars
  BY <1>1
<1>3. [](Inv /\ Link) /\ [][Next]_vars => [][Arrives]_vars
  BY <1>2, PTL
<1> QED
  BY <1>3, LinkInvariance, PTL DEF Safety, HeadersArrive

-----------------------------------------------------------------------------
(* The header while it waits to be passed on. *)

\* The header received is in its slot for as long as the write pointer has not come round,
\* which is as far ahead of it as the header has waited; and what is passed on names a page.
HeaderKept(p, w) ==
    /\ p.state = "recv" /\ p.cnt = 0 /\ w < WrMod =>
          IsHeader(p.hdr) /\ (w < WrMod - 1 => p.wr = w + 1)
    /\ IsHeader(p.fwd) /\ w < WrMod => p.fwd.key \in Keys

\* The pointer steps with a frame's first beat, and on while M00_AXIS is not ready.
LEMMA PointerSteps ==
    ASSUME NEW p \in Registers, NEW n \in Nodes, NEW in \in Beats
    PROVE  /\ in # None => \A q \in Seek(p, n, in) : q.wr = (p.wr + 1) % WrMod
           /\ \A q \in Recv(p, n, in, FALSE) : q.wr = (p.wr + 1) % WrMod
<1>1. ASSUME in # None, NEW q \in Seek(p, n, in) PROVE q.wr = (p.wr + 1) % WrMod
  <2>1. NextWr(p, FALSE) = (p.wr + 1) % WrMod
    BY DEF NextWr
  <2> QED
    BY ZenonT(30), <1>1, <2>1 DEF Seek, Registers
<1>2. ASSUME NEW q \in Recv(p, n, in, FALSE) PROVE q.wr = (p.wr + 1) % WrMod
  <2>1. NextWr(p, FALSE /\ p.cnt = Np) = (p.wr + 1) % WrMod
    BY DEF NextWr
  <2> QED
    BY ZenonT(30), <2>1 DEF Recv, Registers
<1> QED
  BY <1>1, <1>2

\* A frame whose header is in its slot is passed on with the key the header is decoded to.
LEMMA KeyPassedOn ==
    ASSUME NEW p \in Registers, NEW n \in Nodes, NEW in \in Beats, IsHeader(p.hdr),
           NEW ready \in BOOLEAN, NEW q \in Recv(p, n, in, ready)
    PROVE  q.key \in Keys
<1>1. q.key = Decoded(p.hdr, n, p.mode).key
  BY ZenonT(30) DEF Recv, Registers
<1>2. p.hdr \in Headers /\ p.mode \in Modes \cup {None}
  BY DEF IsHeader, Beats, Beat, Registers
<1> QED
  BY <1>1, <1>2, DecodedType

\* A cycle keeps the header in its slot until it is passed on.
LEMMA CycleHeaderKept ==
    ASSUME Inv, Link, NEW n \in Nodes, HeaderKept(proc[n], waited[n]),
           NEW ready \in BOOLEAN, NEW q \in Cycle(n, ready),
           NEW w, w = IF ~HeaderWaits(n) THEN 0
                      ELSE IF ready \/ waited[n] = WrMod THEN waited[n] ELSE waited[n] + 1
    PROVE  HeaderKept(q, w)
<1> DEFINE p == proc[n]
           o == proc[Peer(n)]
<1>1. /\ p \in Registers /\ o \in Registers /\ Peer(n) \in Nodes /\ Peer(Peer(n)) = n
      /\ o.tx \in Beats /\ waited[n] \in 0..WrMod /\ WrMod \in Nat /\ WrMod > 1
      /\ p.wr \in 0..WrMod - 1 /\ p.cnt \in 0..Np /\ Np \in Nat /\ Np >= 1
  BY Peers, LinkAssumption DEF Inv, TypeOK, Registers
<1>2. Paired(o, p, HeadersOf(Peer(n), fault[Peer(n)]))
  BY <1>1 DEF Link
<1>3. p.state \in {"seek", "recv", "idle"} \cup Sends /\ o.state \in {"seek", "recv", "idle"} \cup Sends
  BY <1>1 DEF Registers, Sends
<1>4. CASE p.state = "seek"
  <2>1. /\ q.fwd = None /\ p.wr = 0
        /\ o.tx # None => q.hdr = o.tx
        /\ o.tx = None => q.state = "seek" \/ q.state \in Sends
    BY <1>1, <1>4, CycleStates
  <2>2. w = 0
    BY <1>4 DEF HeaderWaits
  <2>3. ASSUME q.state = "recv" PROVE IsHeader(q.hdr) /\ q.wr = 1
    <3>1. o.tx # None /\ q.hdr = o.tx
      BY <2>1, <2>3 DEF Sends
    <3>2. o.state \in Sends /\ o.cnt = 1
      <4>1. o.cnt \in Nat
        BY <1>1 DEF Registers
      <4> QED
        BY <1>2, <1>3, <1>4, <3>1, <4>1 DEF Paired
    <3>3. o.tx \in Headers
      <4>1. HeadersOf(Peer(n), fault[Peer(n)]) \subseteq Headers
        BY <1>1, KeyTypes DEF Inv, TypeOK, HeadersOf
      <4> QED
        BY <1>2, <3>2, <4>1 DEF Paired
    <3>4. q \in Seek(p, n, o.tx)
      BY <1>4 DEF Cycle
    <3>5. q.wr = (p.wr + 1) % WrMod
      <4> HIDE DEF p, o
      <4>1. p \in Registers /\ o.tx \in Beats /\ o.tx # None
        BY <1>1, <3>1
      <4> QED
        BY <3>4, <4>1, PointerSteps
    <3>6. q.wr = 1
      BY <1>1, <2>1, <3>5
    <3> QED
      BY <3>1, <3>3, <3>6, HeaderBeats
  <2> QED
    BY <1>1, <2>1, <2>2, <2>3, HeaderBeats DEF HeaderKept
<1>5. CASE p.state = "recv"
  <2>1. q \in Recv(p, n, o.tx, ready)
    BY <1>5 DEF Cycle
  <2> HIDE DEF o
  <2>2. /\ q.hdr = IF p.wr = 0 THEN o.tx ELSE p.hdr
        /\ ready /\ p.cnt = Np =>
              q.state = "seek" /\ q.cnt = 0 /\ q.wr = 0 /\ q.fwd = Beat("last")
        /\ ready /\ p.cnt # Np =>
              /\ q.state = "recv" /\ q.cnt = p.cnt + 1
              /\ q.fwd = IF p.cnt = 0 THEN [kind |-> "header", mode |-> q.mode, key |-> q.key]
                         ELSE Beat("rest")
        /\ ~ready => q.state = "recv" /\ q.cnt = p.cnt /\ q.fwd = None
    BY <1>1, <2>1, RecvStep
  <2>3. CASE p.cnt # 0
    <3>1. q.state = "seek" \/ q.cnt # 0
      BY <1>1, <2>2, <2>3
    <3>2. ~IsHeader(q.fwd)
      BY <2>2, <2>3, HeaderBeats
    <3> QED
      BY <3>1, <3>2 DEF HeaderKept
  <2>4. CASE p.cnt = 0 /\ ready
    <3>1. /\ q.state = "recv" /\ q.cnt # 0
          /\ q.fwd = [kind |-> "header", mode |-> q.mode, key |-> q.key]
      BY <1>1, <2>2, <2>4
    <3>2. w = waited[n]
      BY <1>5, <2>4 DEF HeaderWaits
    <3>3. w < WrMod => q.key \in Keys
      BY <1>1, <1>5, <2>1, <2>4, <3>2, KeyPassedOn DEF HeaderKept
    <3> QED
      BY <3>1, <3>3 DEF HeaderKept
  <2>5. CASE p.cnt = 0 /\ ~ready
    <3>1. q.state = "recv" /\ q.cnt = 0 /\ ~IsHeader(q.fwd)
      BY <2>2, <2>5, HeaderBeats
    <3>2. w = IF waited[n] = WrMod THEN WrMod ELSE waited[n] + 1
      BY <1>5, <2>5 DEF HeaderWaits
    <3>3. ASSUME w < WrMod PROVE IsHeader(q.hdr) /\ (w < WrMod - 1 => q.wr = w + 1)
      <4>1. waited[n] < WrMod - 1 /\ w = waited[n] + 1
        BY <1>1, <3>2, <3>3
      <4>2. IsHeader(p.hdr) /\ p.wr = waited[n] + 1
        BY <1>1, <1>5, <2>5, <4>1 DEF HeaderKept
      <4>3. q.hdr = p.hdr
        BY <1>1, <2>2, <4>2
      <4>4. q.wr = (p.wr + 1) % WrMod
        <5> HIDE DEF p
        <5>1. p \in Registers /\ o.tx \in Beats /\ q \in Recv(p, n, o.tx, FALSE)
          BY <1>1, <2>1, <2>5
        <5> QED
          BY <5>1, PointerSteps
      <4>5. w < WrMod - 1 => q.wr = w + 1
        BY <1>1, <4>1, <4>2, <4>4
      <4> QED
        BY <4>2, <4>3, <4>5
    <3> QED
      BY <3>1, <3>3 DEF HeaderKept
  <2> QED
    BY <2>3, <2>4, <2>5
<1>6. CASE p.state = "idle" \/ p.state \in Sends
  <2>1. q.fwd = None /\ q.state # "recv"
    <3>1. CASE p.state = "idle"
      BY <1>1, <3>1, CycleStates
    <3>2. CASE p.state \in Sends
      <4>1. /\ q.fwd = None
            /\ p.cnt = SendNp => q.state = "idle"
            /\ p.cnt # SendNp => q.state \in Sends
        BY <1>1, <3>2, CycleStates
      <4> QED
        BY <4>1 DEF Sends
    <3> QED
      BY <1>6, <3>1, <3>2
  <2> QED
    BY <2>1, HeaderBeats DEF HeaderKept
<1> QED
  BY <1>3, <1>4, <1>5, <1>6

AllKept == \A n \in Nodes : HeaderKept(proc[n], waited[n])

\* Every step keeps the headers.
LEMMA StepAllKept ==
    ASSUME Inv, Link, AllKept, [Next]_vars
    PROVE  AllKept'
<1>1. CASE Tick
  <2>1. PICK ready \in [Nodes -> BOOLEAN] :
          /\ \A n \in Nodes : proc'[n] \in Cycle(n, ready[n])
          /\ waited' = [n \in Nodes |->
                          IF ~HeaderWaits(n) THEN 0
                          ELSE IF ready[n] \/ waited[n] = WrMod THEN waited[n] ELSE waited[n] + 1]
    BY <1>1, TickSteps DEF Inv, TypeOK
  <2>2. ASSUME NEW n \in Nodes PROVE HeaderKept(proc'[n], waited'[n])
    <3>1. /\ ready[n] \in BOOLEAN /\ proc'[n] \in Cycle(n, ready[n])
          /\ waited'[n] = IF ~HeaderWaits(n) THEN 0
                          ELSE IF ready[n] \/ waited[n] = WrMod THEN waited[n] ELSE waited[n] + 1
      BY <2>1
    <3>2. HeaderKept(proc[n], waited[n])
      BY DEF AllKept
    <3> QED
      BY <3>1, <3>2, CycleHeaderKept
  <2> QED
    BY <2>2 DEF AllKept
<1>2. CASE UNCHANGED <<proc, waited>>
  BY <1>2 DEF AllKept, HeaderKept
<1> QED
  BY <1>1, <1>2 DEF Next, Post, TakeBack, vars

\* As long as no fault is posted while the other node is busy, every header passed on names
\* its page, but for one that M00_AXIS kept waiting for WrMod cycles (317-320, 386-396).
THEOREM HeadersPassedOnIntact == ASSUME ~MayCross PROVE Safety => []HeaderIntact
<1>1. Init => AllKept
  BY HeaderBeats DEF Init, AllKept, HeaderKept
<1>2. (Inv /\ Link) /\ AllKept /\ [Next]_vars => AllKept'
  BY StepAllKept
<1>3. AllKept => HeaderIntact
  BY DEF AllKept, HeaderKept, HeaderIntact
<1> QED
  BY <1>1, <1>2, <1>3, LinkInvariance, PTL DEF Safety

=============================================================================
