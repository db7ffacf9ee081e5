---------------------------- MODULE ProtProcessor ----------------------------
(***************************************************************************)
(* Two DSM protocol processors wired to each other, clock cycle by clock   *)
(* cycle (prot_processor.v; zynq_ps.tcl:268-271).  Each serves one node: a *)
(* page fault its software posts becomes a frame for the other node, and a *)
(* frame from the other node is decoded and passed on to its own software. *)
(*                                                                         *)
(* A frame is sent in SendNp + 1 beats, its header first, and passed on in *)
(* Np + 1.  The sender drives M_AXIS without looking at its ready, and the *)
(* receiver stores every cycle's input while it passes a frame on.  A beat *)
(* passed on is driven for one cycle, and not driven in a cycle that finds *)
(* M00_AXIS not ready.  Behind it are pcie_us_rqrc.v, whose ready is that  *)
(* of PCIe (374), and dsm_axis_aximm.v (zynq_ps.tcl:1862-1863): it may be  *)
(* ready or not in any cycle, and what these two do with the beats is left *)
(* out.  One node is the origin of the page, the other is remote.          *)
(* fault_mask, which the software sets to take back a fault interrupt, is  *)
(* left out with the interrupt's handling: ModeFitsFault says that no      *)
(* legal fault raises it.                                                  *)
(***************************************************************************)
EXTENDS Integers

CONSTANTS
    Np,         \* np: 8
    SendNp,     \* send_np: 2
    WrMod,      \* 2^4: wr_ptr
    None,
    MayCross    \* whether a fault is posted while the other node is busy

ASSUME LinkAssumption ==
    /\ Np \in Nat \ {0} /\ SendNp \in 1..Np /\ WrMod \in Nat /\ WrMod > Np + 1
    /\ MayCross \in BOOLEAN

Nodes == {"origin", "remote"}
Peer(n) == IF n = "origin" THEN "remote" ELSE "origin"

VARIABLES
    proc,   \* the registers of each node's processor
    waited, \* history: cycles the header waited for M00_AXIS, up to WrMod
    start,  \* proc_start
    fault   \* the software's registers: p_key and the write flag

vars == <<proc, waited, start, fault>>

\* page_key[19:4] and page_key[3:0]; 0 is the page nobody has asked for.
Key(status, nid) == [status |-> status, nid |-> nid]
NoKey == Key("none", "none")
Keys == [status : {"MODIFIED", "SHARED"}, nid : {"un", "grant"} \cup Nodes]

Header(m, k, w) == [kind |-> "header", mode |-> m, key |-> k, write |-> w]
Beat(kind) == [kind |-> kind]
IsHeader(b) == b # None /\ b.kind = "header"
Headers == [kind : {"header"}, mode : {"rpr", "inval"}, key : Keys, write : BOOLEAN]
Modes == {"AAAA", "BBBB", "CCCC", "FFFF"}

Beats == Headers \cup {Beat("rest"), Beat("last"), None}
Passed == [kind : {"header"}, mode : Modes \cup {None}, key : Keys \cup {NoKey}]

\* A bus without a valid beat is told from every beat.
ASSUME NoneAssumption == None \notin Headers \cup Passed \cup {Beat("rest"), Beat("last")}

Registers ==
    [state : {"seek", "recv", "idle", "send_remote", "send_origin"},
     cnt   : 0..Np,                        \* packet_cnt
     wr    : 0..WrMod - 1,                 \* wr_ptr: what it stores beyond slot 7 is lost
     hdr   : Beats,                        \* s_axis_tdata_pipe[0]: the frame being served
     mode  : Modes \cup {None},            \* page_mode
     key   : Keys \cup {NoKey},            \* page_key, as the software reads it
     intr  : BOOLEAN,                      \* fault_intr
     tx    : Beats,                        \* what M_AXIS drives
     txHdr : Headers \cup {None},          \* m_axis_tdata_pipe[0]
     fwd   : Passed \cup {Beat("rest"), Beat("last"), None}]   \* what M00_AXIS drives

\* Every register holds what its width and its encoding allow (25-47, 122-149).
TypeOK ==
    /\ proc \in [Nodes -> Registers]
    /\ waited \in [Nodes -> 0..WrMod]
    /\ start \in [Nodes -> BOOLEAN]
    /\ fault \in [Nodes -> [key : Keys \cup {NoKey}, write : BOOLEAN]]

\* Both out of reset.
Init ==
    /\ proc = [n \in Nodes |->
                 [state |-> "seek", cnt |-> 0, wr |-> 0, hdr |-> None, mode |-> None, key |-> NoKey,
                  intr |-> FALSE, tx |-> None, txHdr |-> None, fwd |-> None]]
    /\ waited = [n \in Nodes |-> 0]
    /\ start = [n \in Nodes |-> FALSE]
    /\ fault = [n \in Nodes |-> [key |-> NoKey, write |-> FALSE]]

-----------------------------------------------------------------------------
(* Page keys. *)

\* encode_pkey with recv = 0.
encode_pkey(m, n, write) ==
    Key(IF write THEN "MODIFIED" ELSE "SHARED", IF m = "rpr" THEN "un" ELSE n)

\* decode_pkey at the origin: does the remote node own the page? A key of neither
\* kind leaves the function's result as it was, which is either.
RemoteOwns(k) ==
    CASE k = Key("MODIFIED", "grant") -> {TRUE}
      [] k = Key("SHARED", "grant")   -> {FALSE}
      [] OTHER                        -> BOOLEAN

\* Mutant: a claim by the origin is taken for a renewed request.
recv_dec_swapped(k, n) ==
    CASE k = Key("MODIFIED", "un")   -> "C"
      [] k = Key("SHARED", "un")     -> "B"
      [] k = Key("SHARED", "grant")  -> "A"
      [] k.status = "MODIFIED" /\ k.nid \notin {"un", "grant", n} -> "E"
      [] k.status = "SHARED" /\ k.nid \notin {"un", "grant", n}   -> "D"
      [] k.nid = n -> "F"
      [] OTHER -> "0"

\* The code of a key: the branches of the function's else-ifs, made to exclude each other.
recv_dec(k, n) ==
    CASE k = Key("MODIFIED", "un")   -> "C"
      [] k = Key("SHARED", "un")     -> "B"
      [] k = Key("SHARED", "grant")  -> "A"
      [] k.status = "MODIFIED" /\ k.nid \notin {"un", "grant", n} -> "D"
      [] k.status = "SHARED" /\ k.nid \notin {"un", "grant", n}   -> "E"
      [] k.nid = n -> "F"
      [] OTHER -> "0"

\* What the software is told: how to change its copy, and the page's new key. A
\* header that cannot be decoded leaves the mode of the last frame.
Decoded(h, n, old) ==
    LET d == recv_dec(h.key, n) IN
    IF h.mode = "inval" THEN [mode |-> "FFFF", key |-> h.key]
    ELSE CASE d = "A" -> [mode |-> "AAAA", key |-> Key("MODIFIED", h.key.nid)]
           [] d = "B" -> [mode |-> "BBBB", key |-> Key(h.key.status, "grant")]
           [] d = "C" -> [mode |-> "CCCC", key |-> Key(h.key.status, "grant")]
           [] d = "D" -> [mode |-> "CCCC", key |-> h.key]
           [] d = "E" -> [mode |-> "BBBB", key |-> Key(h.key.status, "grant")]
           [] d = "F" -> IF h.write THEN [mode |-> "CCCC", key |-> Key("MODIFIED", "grant")]
                         ELSE [mode |-> "BBBB", key |-> Key("SHARED", "grant")]
           [] OTHER -> [mode |-> old, key |-> h.key]

\* The header of a fault at the remote node, and at the origin.
RemoteHeaders(f) ==
    {Header("rpr", IF f.key = NoKey THEN encode_pkey("rpr", "remote", f.write) ELSE f.key, f.write)}
OriginHeaders(f) ==
    {Header(IF owns THEN "rpr" ELSE "inval", encode_pkey("inval", "origin", f.write), f.write) :
        owns \in RemoteOwns(f.key)}

-----------------------------------------------------------------------------
(* One cycle of node n's processor: p are its registers, in the beat on      *)
(* S_AXIS, ready M00_AXIS's. The result is the set of its next registers.    *)

\* Mutant: the count is left as it is after the last beat.
NextCntKept(p, last) == IF p.cnt = last THEN last ELSE p.cnt + 1

NextCnt(p, last) == IF p.cnt = last THEN 0 ELSE p.cnt + 1

\* Mutant: the write pointer is not reset after a frame.
NextWrRunning(p, done) == (p.wr + 1) % WrMod

\* Mutant: the pointer is as wide as the eight slots need.
NextWrNarrow(p, done) == IF done THEN 0 ELSE (p.wr + 1) % (WrMod \div 2)

NextWr(p, done) == IF done THEN 0 ELSE (p.wr + 1) % WrMod

Seek(p, n, in) ==
    {[p EXCEPT !.fwd = None,
               !.state = IF in # None THEN "recv"
                         ELSE IF start[n] THEN IF n = "remote" THEN "send_remote" ELSE "send_origin"
                         ELSE "seek",
               !.hdr = IF in # None /\ p.wr = 0 THEN in ELSE @,
               !.wr = IF in # None THEN NextWr(p, FALSE) ELSE @]}

\* The frame is decoded anew in every cycle; a beat is put on M00_AXIS in those in
\* which it is ready, and one that finds it not ready is not kept.
Recv(p, n, in, ready) ==
    LET d == IF IsHeader(p.hdr) THEN Decoded(p.hdr, n, p.mode)
             ELSE [mode |-> p.mode, key |-> NoKey]
        bad == IsHeader(p.hdr) /\ p.hdr.mode = "rpr" /\ recv_dec(p.hdr.key, n) = "0"
        beat == CASE p.cnt = 0  -> [kind |-> "header", mode |-> d.mode, key |-> d.key]
                  [] p.cnt = Np -> Beat("last")
                  [] OTHER      -> Beat("rest")
        done == ready /\ p.cnt = Np
    IN
    {[p EXCEPT !.hdr = IF p.wr = 0 THEN in ELSE @,
               !.wr = NextWr(p, done),
               !.mode = d.mode, !.key = d.key,
               !.intr = @ \/ bad,
               !.fwd = IF ready THEN beat ELSE None,
               !.cnt = IF ready THEN NextCnt(p, Np) ELSE @,
               !.state = IF done THEN "seek" ELSE "recv"]}

\* The software takes the request back before the next is looked for.
IdleState(p, n) == {[p EXCEPT !.tx = None, !.state = IF start[n] THEN "idle" ELSE "seek"]}

\* One beat of the frame with header h.
Send(p, h) ==
    [p EXCEPT !.txHdr = h,
              !.tx = CASE p.cnt = SendNp -> Beat("last") [] p.cnt = 0 -> h [] OTHER -> Beat("rest"),
              !.cnt = NextCnt(p, SendNp),
              !.state = IF p.cnt = SendNp THEN "idle" ELSE @]

\* A read fault on a page the node was granted is refused, yet a beat goes out.
SendRemote(p, n) ==
    IF fault[n].key.nid = "grant" /\ ~fault[n].write
    THEN {[Send(p, p.txHdr) EXCEPT !.intr = TRUE, !.state = "idle"]}
    ELSE {Send(p, h) : h \in RemoteHeaders(fault[n])}

SendOrigin(p, n) ==
    {[Send(p, h) EXCEPT !.key = encode_pkey("inval", n, fault[n].write)] : h \in OriginHeaders(fault[n])}

Cycle(n, ready) ==
    LET p == proc[n]
        in == proc[Peer(n)].tx
    IN CASE p.state = "seek"        -> Seek(p, n, in)
         [] p.state = "recv"        -> Recv(p, n, in, ready)
         [] p.state = "idle"        -> IdleState(p, n)
         [] p.state = "send_remote" -> SendRemote(p, n)
         [] p.state = "send_origin" -> SendOrigin(p, n)

HeaderWaits(n) == proc[n].state = "recv" /\ proc[n].cnt = 0

Tick ==
    \E ready \in [Nodes -> BOOLEAN] :
        /\ \E o \in Cycle("origin", ready["origin"]), r \in Cycle("remote", ready["remote"]) :
              proc' = [n \in Nodes |-> IF n = "origin" THEN o ELSE r]
        /\ waited' = [n \in Nodes |->
                        IF ~HeaderWaits(n) THEN 0
                        ELSE IF ready[n] \/ waited[n] = WrMod THEN waited[n] ELSE waited[n] + 1]
        /\ UNCHANGED <<start, fault>>

-----------------------------------------------------------------------------
(* The software. It posts the faults its copy of the page can cause, given  *)
(* the key it was last told.                                                *)

\* The keys with which the node lacks the access.
Faults(n) ==
    IF n = "remote"
    THEN [key : {NoKey, Key("MODIFIED", "origin")}, write : BOOLEAN]
            \cup [key : {Key("SHARED", "grant")}, write : {TRUE}]
    ELSE [key : {Key("MODIFIED", "grant")}, write : BOOLEAN]
            \cup [key : {Key("SHARED", "grant"), Key("SHARED", "origin")}, write : {TRUE}]

Quiet(n) == proc[n].state = "seek" /\ ~start[n] /\ proc[n].tx = None /\ proc[n].fwd = None

Post(n) ==
    /\ proc[n].state \in {"seek", "recv"} /\ ~start[n]
    /\ MayCross \/ (Quiet(n) /\ Quiet(Peer(n)))
    /\ start' = [start EXCEPT ![n] = TRUE]
    /\ \E f \in Faults(n) : fault' = [fault EXCEPT ![n] = f]
    /\ UNCHANGED <<proc, waited>>

TakeBack(n) ==
    /\ start[n] /\ proc[n].state = "idle"
    /\ start' = [start EXCEPT ![n] = FALSE]
    /\ UNCHANGED <<proc, waited, fault>>

Next == Tick \/ \E n \in Nodes : Post(n) \/ TakeBack(n)

Safety == Init /\ [][Next]_vars

-----------------------------------------------------------------------------
(* Properties. *)

\* Every header a node sends is received, whole, by the other
\* (prot_processor.v:508, "Frame Reception logic").
HeadersArrive ==
    [][\A n \in Nodes :
          LET h == proc[n].tx IN
          IsHeader(h) /\ proc'[n].tx # h
              => proc[Peer(n)].state = "seek" /\ proc'[Peer(n)].hdr = h]_vars

\* A header that is passed on names its page, unless M00_AXIS was not ready in all of the
\* WrMod cycles before: the input is stored in every cycle, so the write pointer comes
\* round to the header while it waits (prot_processor.v:317-320, 386-396). The exception
\* can happen, for the ready of pcie_us_rqrc.v is that of PCIe (374).
HeaderIntact ==
    \A n \in Nodes :
        IsHeader(proc[n].fwd) /\ waited[n] < WrMod => proc[n].fwd.key \in Keys

\* What the receiving software is told to do with its copy fits the fault of the
\* other node: it gives the page up for a write, keeps reading it for a read; and no
\* legal fault is answered with the fault interrupt (164-266, 329-376, 426).
ModeFitsFault ==
    \A n \in Nodes :
        /\ ~proc[n].intr
        /\ IsHeader(proc[n].fwd) =>
              proc[n].fwd.mode \in IF fault[Peer(n)].write THEN {"AAAA", "CCCC", "FFFF"} ELSE {"BBBB"}

=============================================================================
