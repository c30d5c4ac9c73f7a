------------------------- MODULE CocotbBench_proofs -------------------------
(***************************************************************************)
(* Proofs about the bench, for every set of calls, wait states, burst      *)
(* length, word width and address map that the assumptions admit: the      *)
(* bridge and the slaves carry out the driver's calls in order, and no     *)
(* wait loop reaches its limit.                                            *)
(***************************************************************************)
EXTENDS CocotbBench, AxiApbBurst_proofs

----------------------------------------------------------------------------
(* The calls, their addresses and their limits.                            *)

\* The calls use the address map of the bridge.
LEMMA SameMap ==
    /\ Words!Request = Request /\ Ordered!Port = Port
    /\ \A a : Ordered!PortOf(a) = PortOf(a)
    /\ \A q, i : /\ Words!BeatAddr(q, i) = BeatAddr(q, i)
                 /\ Ordered!BeatAddr(q, i) = BeatAddr(q, i)
    /\ \A q : Ordered!Legal(q) = Legal(q)
<1>1. /\ Words!Request = Request /\ Ordered!Port = Port
      /\ \A a : Ordered!PortOf(a) = PortOf(a)
      /\ \A q, i : /\ Words!BeatAddr(q, i) = BeatAddr(q, i)
                   /\ Ordered!BeatAddr(q, i) = BeatAddr(q, i)
  BY DEF Words!Request, Request, Words!Addr, Addr, Words!Burst, Burst, Ordered!Port, Port,
         Ordered!PortOf, PortOf, Words!BeatAddr, Ordered!BeatAddr, BeatAddr
<1>2. ASSUME NEW q PROVE Ordered!Legal(q) = Legal(q)
  BY <1>1, Zenon DEF Ordered!Legal, Legal, Ordered!InOneWindow, InOneWindow
<1>. QED BY <1>1, <1>2

LEMMA CallTypes ==
    ASSUME NEW c \in Calls
    PROVE  /\ c # None /\ is_write(c) \in BOOLEAN
           /\ c.q \in Request /\ c.q # None /\ c.q.len \in Nat /\ c.q.len < LenMax + 1
           /\ c.wlast \in Nat /\ Words!Sent(c) \in Nat
           /\ 1 <= Words!Sent(c) /\ Words!Sent(c) <= c.q.len + 1
<1>1. c \in Words!Call /\ c # None
  BY CallAssumption
<1>2. c.q \in Request /\ c.wlast \in Nat
  BY <1>1, SameMap DEF Words!Call
<1>3. c.q.len \in 0 .. LenMax /\ c.q # None
  BY <1>2, PinAssumption DEF Request
<1>4. c.q.len \in Nat /\ c.q.len < LenMax + 1
  BY <1>3, AddressAssumption
<1>5. is_write(c) \in BOOLEAN
  BY DEF is_write, Words!is_write
<1>. QED BY <1>1, <1>2, <1>3, <1>4, <1>5 DEF Words!Sent

\* The beat with WLAST, or the last of the burst, is the last that is sent.
LEMMA LastSent ==
    ASSUME NEW c \in Calls, NEW i \in Nat, i < Words!Sent(c)
    PROVE  i + 1 = Words!Sent(c) <=> i = c.wlast \/ i = c.q.len
BY CallTypes DEF Words!Sent

LEMMA WriteCall ==
    ASSUME NEW c \in Calls, is_write(c)
    PROVE  /\ c.q \in AWRequests
           /\ \A i \in 0 .. Words!Sent(c) - 1 :
                 /\ c.data[i + 1] \in Data
                 /\ WBeatOf(c, i) \in WBeats /\ WBeatOf(c, i) # None
                 /\ WBeatOf(c, i).data = c.data[i + 1]
                 /\ WBeatOf(c, i).last = (i = c.wlast)
<1>1. /\ c.q \in AWRequests
      /\ \A i \in 0 .. Words!Sent(c) - 1 : WBeatOf(c, i) \in WBeats
  BY CallAssumption DEF is_write
<1>2. SUFFICES ASSUME NEW i \in 0 .. Words!Sent(c) - 1
               PROVE  /\ c.data[i + 1] \in Data /\ WBeatOf(c, i) # None
                      /\ WBeatOf(c, i).data = c.data[i + 1]
                      /\ WBeatOf(c, i).last = (i = c.wlast)
  BY <1>1
<1>3. /\ WBeatOf(c, i).data = c.data[i + 1]
      /\ WBeatOf(c, i).last = (i = c.wlast)
  BY Zenon DEF WBeatOf
<1>4. WBeatOf(c, i) \in WBeat /\ WBeatOf(c, i) # None
  BY <1>1, PinAssumption
<1>. QED BY <1>3, <1>4 DEF WBeat

LEMMA ReadCall == ASSUME NEW c \in Calls, ~is_write(c) PROVE c.q \in ARRequests
BY CallAssumption DEF is_write

\* The calls for one beat.
LEMMA SingleCall ==
    ASSUME NEW c \in Calls, c.fn \in {"write", "read"}
    PROVE  c.q.len = 0 /\ c.wlast = 0 /\ Words!Sent(c) = 1
BY CallAssumption DEF Words!Sent

LEMMA CellOf ==
    ASSUME NEW c \in Calls, NEW n \in Nat, n < c.q.len + 1
    PROVE  BeatAddr(c.q, n + 1) \in Words!Cells
<1>1. n + 1 \in 1 .. c.q.len + 1
  BY CallTypes
<1>2. BeatAddr(c.q, n + 1) \in {Words!BeatAddr(c.q, i) : i \in 1 .. c.q.len + 1}
  BY <1>1, SameMap
<1>. QED BY <1>2 DEF Words!Cells

\* What the limits leave for one beat.
LEMMA Limits ==
    ASSUME NEW c \in Calls, NEW wt \in Waits
    PROVE  /\ Edges \in Nat /\ ReadEdges \in Nat /\ Pace(c.q, wt) \in Nat
           /\ Pace(c.q, wt) >= 2 /\ Pace(c.q, wt) <= Edges
           /\ c.fn = "burst_read" => Pace(c.q, wt) <= ReadEdges
           /\ Legal(c.q) => /\ AccessEdges(wt[PortOf(c.q.addr)]) \in Nat
                            /\ AccessEdges(wt[PortOf(c.q.addr)]) >= 1
                            /\ Pace(c.q, wt) = AccessEdges(wt[PortOf(c.q.addr)]) + 4
           /\ ~Legal(c.q) => Pace(c.q, wt) = 2
<1>1. /\ Edges \in Nat /\ ReadEdges \in Nat /\ Pace(c.q, wt) <= Edges
      /\ c.fn = "burst_read" => Pace(c.q, wt) <= ReadEdges
  BY LimitAssumption
<1>2. wt[PortOf(c.q.addr)] \in Nat
  <2>1. PortOf(c.q.addr) \in Port
    BY CallTypes, PortOfType DEF Request
  <2>. QED BY <2>1, SlaveAssumption
<1>. QED BY <1>1, <1>2 DEF Pace, AccessEdges

\* Storing a word twice is storing it once.
LEMMA MergeTwice ==
    ASSUME NEW old, NEW new
    PROVE  Words!Merge(Words!Merge(old, new), new) = Words!Merge(old, new)
BY DEF Words!Merge

----------------------------------------------------------------------------
(* The bridge on APB.                                                      *)

LEMMA PinsType == ASSUME SlaveInv, CallInv PROVE Pins \in Inputs
<1>1. \A p \in Port : [ready |-> slave[p].pready, err |-> FALSE,
                       data |-> slave[p].prdata] \in Answers
  BY SlaveAssumption DEF SlaveInv
<1>2. bready \in BOOLEAN
  BY DEF CallInv
<1>. QED BY <1>1, <1>2 DEF Pins, Inputs

LEMMA PinsAre ==
    ASSUME SlaveInv, axi.sel \in Port
    PROVE  /\ answer(Pins).ready = slave[axi.sel].pready /\ answer(Pins).err = FALSE
           /\ answer(Pins).data = slave[axi.sel].prdata
           /\ b_handshake(Pins) = (bvalid /\ bready)
           /\ r_handshake(Pins) = (rvalid /\ TRUE)
           /\ apb_done(Pins) = (apb_state = "ACCESS" /\ slave[axi.sel].pready)
BY DEF Pins, answer, b_handshake, r_handshake, apb_done

\* A transfer on APB is the one for the next beat of the call.
LEMMA BusBeat ==
    ASSUME IInv, CallInv, apb_state # "IDLE"
    PROVE  /\ pc \in {"w", "b", "r"} /\ call \in Calls /\ Serves(call)
           /\ Legal(call.q) /\ txn_active /\ ~txn_decerr
           /\ axi \in AxiReg /\ axi.sel \in Port /\ axi.sel = PortOf(call.q.addr)
           /\ axi.is_write = is_write(call) /\ axi.is_write \in BOOLEAN
           /\ beat_index \in Nat /\ beat_index < call.q.len + 1
           /\ axi.addr = BeatAddr(call.q, beat_index + 1) /\ axi.addr \in Words!Cells
           /\ \A p \in Port : /\ psel[p] <=> p = axi.sel
                             /\ penable[p] <=> apb_state = "ACCESS" /\ p = axi.sel
           /\ pbus[axi.sel].addr = axi.addr /\ pbus[axi.sel].write = axi.is_write
           /\ axi.is_write => /\ beat_index < Words!Sent(call)
                              /\ pbus[axi.sel].data = call.data[beat_index + 1]
                              /\ pbus[axi.sel].data \in Data
<1>1. /\ ~txn_decerr /\ beat_index < beats_total /\ txn_active
      /\ beat_index \in Nat /\ beats_total \in Nat
  BY AddressAssumption DEF IInv, OpenInv, ApbInv, TypeOK, Count
<1>2. Taken = beat_index + 1
  BY DEF Taken
<1>3. pc \in {"w", "b", "r"}
  BY <1>1, <1>2 DEF CallInv, LoopInv
<1>4. call \in Calls /\ Serves(call)
  BY <1>3 DEF CallInv, LoopInv, ServesWrite, ServesRead
<1>5. axi \in AxiReg /\ axi.sel \in Port /\ axi.is_write \in BOOLEAN
  BY <1>1 DEF IInv, OpenInv, TypeOK, AxiReg
<1>6. /\ Legal(call.q) /\ axi.sel = PortOf(call.q.addr) /\ axi.is_write = is_write(call)
      /\ axi.addr = BeatAddr(call.q, beat_index + 1) /\ beats_total = call.q.len + 1
  BY <1>1, <1>4, Zenon DEF Serves
<1>7. axi.addr \in Words!Cells
  BY <1>1, <1>4, <1>6, CellOf
<1>8. /\ \A p \in Port : /\ psel[p] <=> p = axi.sel
                        /\ penable[p] <=> apb_state = "ACCESS" /\ p = axi.sel
      /\ pbus[axi.sel].addr = axi.addr /\ pbus[axi.sel].write = axi.is_write
  BY <1>5 DEF IInv, PortInv
<1>9. ASSUME axi.is_write
      PROVE  /\ beat_index < Words!Sent(call)
             /\ pbus[axi.sel].data = call.data[beat_index + 1]
             /\ pbus[axi.sel].data \in Data
  <2>1. pc = "w" \/ pc = "b"
    BY <1>3, <1>6, <1>9 DEF CallInv, LoopInv
  <2>2. Words!Sent(call) \in Nat
    BY <1>4, CallTypes
  <2>3. beat_index < Words!Sent(call)
    BY <1>1, <1>2, <2>1, <2>2 DEF CallInv, LoopInv
  <2>4. pbus[axi.sel].data = call.data[beat_index + 1]
    BY <2>1 DEF CallInv, LoopInv, ServesWrite
  <2>5. beat_index \in 0 .. Words!Sent(call) - 1
    BY <1>1, <2>2, <2>3
  <2>. QED BY <1>4, <1>6, <1>9, <2>3, <2>4, <2>5, WriteCall
<1>. QED BY <1>1, <1>3, <1>4, <1>5, <1>6, <1>7, <1>8, <1>9

\* No transfer completes on the edge.
LEMMA Transferring ==
    ASSUME IInv, SlaveInv, CallInv, BenchEdge, apb_state # "IDLE",
           ~(apb_state = "ACCESS" /\ slave[axi.sel].pready)
    PROVE  /\ UNCHANGED <<aw, w, ar, txnRegs, pbus>> /\ apb_state' = "ACCESS"
           /\ bvalid' = FALSE /\ rvalid' = FALSE
           /\ bvalid = FALSE /\ rvalid = FALSE /\ rfifo_valid = FALSE
           /\ ~w_handshake /\ ~aw_handshake /\ ~ar_handshake
<1>1. /\ bvalid = FALSE /\ rvalid = FALSE /\ rfifo_valid = FALSE
      /\ txn_decerr = FALSE
  BY DEF IInv, ApbInv, TypeOK
<1>2. ~apb_done(Pins)
  BY BusBeat, PinsAre
<1>3. /\ ~w_handshake /\ ~aw_handshake /\ ~ar_handshake
      /\ ~b_handshake(Pins) /\ ~r_handshake(Pins) /\ ~b_due /\ ~r_due
  BY <1>1 DEF w_handshake, WREADY, aw_handshake, AWREADY, ar_handshake, ARREADY,
              idle_for_new, b_handshake, r_handshake, b_due, r_due
<1>4. Edge(Pins) /\ Progress(Pins)
  BY <1>3 DEF BenchEdge, Edge, TxnBlock, AcceptWrite, AcceptRead
<1>5. UNCHANGED txnRegs
  <2>1. /\ wlast_err \in BOOLEAN /\ w_done \in BOOLEAN /\ pslverr_acc \in BOOLEAN
        /\ txn_active \in BOOLEAN
    BY DEF IInv, TypeOK
  <2>. QED BY <1>1, <1>2, <1>3, <1>4, <2>1 DEF Progress, txnRegs
<1>6. bvalid' = FALSE /\ rvalid' = FALSE
  BY <1>1, <1>3, <1>4 DEF Edge, BBlock, RBlock, bRegs, rRegs
<1>7. UNCHANGED <<aw, w, ar>>
  BY <1>3, <1>4 DEF Edge, MasterBlock
<1>8. apb_state' = "ACCESS" /\ pbus' = pbus
  BY <1>2, <1>4 DEF Edge, ApbBlock, ApbStartWrite, ApbStartRead, ApbIdle, ApbSetup,
                    ApbWait, ApbComplete, apb_done, apbRegs, apbPins, IInv, TypeOK
<1>. QED BY <1>1, <1>3, <1>5, <1>6, <1>7, <1>8

\* A transfer completes: its beat is counted, a read fills the buffer, and
\* the address moves on to the next beat.
LEMMA Completing ==
    ASSUME IInv, SlaveInv, CallInv, BenchEdge, apb_state = "ACCESS", slave[axi.sel].pready
    PROVE  /\ UNCHANGED <<aw, w, ar, beats_sent, beats_total, txn_active, txn_decerr,
                          pslverr_acc, wlast_err, w_done, pbus>>
           /\ apb_state' = "IDLE" /\ beat_index' = beat_index + 1
           /\ axi' = [axi EXCEPT !.addr = BeatAddr(call.q, beat_index + 1 + 1)]
           /\ rfifo_valid' = ~axi.is_write
           /\ ~axi.is_write => rfifo' = [data |-> slave[axi.sel].prdata, resp |-> "OKAY"]
           /\ bvalid' = FALSE /\ rvalid' = FALSE
           /\ bvalid = FALSE /\ rvalid = FALSE /\ rfifo_valid = FALSE
           /\ ~w_handshake /\ ~aw_handshake /\ ~ar_handshake
<1>1. /\ bvalid = FALSE /\ rvalid = FALSE /\ rfifo_valid = FALSE
      /\ txn_decerr = FALSE /\ beat_index < beats_total
  BY DEF IInv, ApbInv, TypeOK
<1>2. /\ apb_done(Pins) /\ answer(Pins).err = FALSE
      /\ answer(Pins).data = slave[axi.sel].prdata
  BY BusBeat, PinsAre
<1>3. /\ ~w_handshake /\ ~aw_handshake /\ ~ar_handshake
      /\ ~b_handshake(Pins) /\ ~r_handshake(Pins) /\ ~b_due /\ ~r_due
  BY <1>1 DEF w_handshake, WREADY, aw_handshake, AWREADY, ar_handshake, ARREADY,
              idle_for_new, b_handshake, r_handshake, b_due, r_due
<1>4. Edge(Pins) /\ Progress(Pins)
  BY <1>3 DEF BenchEdge, Edge, TxnBlock, AcceptWrite, AcceptRead
<1>5. UNCHANGED <<beats_sent, beats_total, txn_active, txn_decerr, pslverr_acc,
                  wlast_err, w_done>>
  <2>1. /\ wlast_err \in BOOLEAN /\ w_done \in BOOLEAN /\ pslverr_acc \in BOOLEAN
        /\ txn_active \in BOOLEAN
    BY DEF IInv, TypeOK
  <2>. QED BY <1>1, <1>2, <1>3, <1>4, <2>1 DEF Progress
<1>6. bvalid' = FALSE /\ rvalid' = FALSE
  BY <1>1, <1>3, <1>4 DEF Edge, BBlock, RBlock, bRegs, rRegs
<1>7. UNCHANGED <<aw, w, ar>>
  BY <1>3, <1>4 DEF Edge, MasterBlock
<1>8. apb_state' = "IDLE" /\ pbus' = pbus
  BY <1>2, <1>4 DEF Edge, ApbBlock, ApbStartWrite, ApbStartRead, ApbIdle, ApbSetup,
                    ApbWait, ApbComplete, apb_done, apbRegs, apbPins
<1>9. beat_index' = beat_index + 1
  <2>1. beat_index \in Count /\ beat_index < LenMax + 1
    BY <1>1, AddressAssumption DEF IInv, TypeOK, Count
  <2>. QED BY <1>2, <1>4, <2>1, IncExact DEF Progress
<1>10. /\ rfifo_valid' = ~axi.is_write
       /\ ~axi.is_write => rfifo' = [data |-> slave[axi.sel].prdata, resp |-> "OKAY"]
  <2>1. axi.is_write \in BOOLEAN
    BY BusBeat
  <2>. QED BY <1>1, <1>2, <1>3, <1>4, <2>1 DEF Progress
<1>11. axi' = [axi EXCEPT !.addr = BeatAddr(call.q, beat_index + 1 + 1)]
  <2>1. /\ call \in Calls /\ axi \in AxiReg /\ beat_index \in Nat
        /\ axi.bytes = call.q.bytes /\ axi.burst = call.q.burst
        /\ axi.addr = BeatAddr(call.q, beat_index + 1)
    BY BusBeat DEF Serves
  <2>2. call.q \in Request
    BY <2>1, CallTypes
  <2>3. CASE axi.burst = "INCR"
    <3>1. axi' = [axi EXCEPT !.addr = (@ + axi.bytes) % AddrSpace]
      BY <1>2, <1>4, <2>3 DEF Progress
    <3>2. (axi.addr + axi.bytes) % AddrSpace = BeatAddr(call.q, beat_index + 1 + 1)
      BY <2>1, <2>2, <2>3, BeatAddrNext
    <3>. QED BY <3>1, <3>2
  <2>4. CASE axi.burst # "INCR"
    <3>1. axi' = axi
      BY <1>4, <2>4 DEF Progress
    <3>2. BeatAddr(call.q, beat_index + 1 + 1) = axi.addr
      BY <2>1, <2>4 DEF BeatAddr
    <3>. QED BY <2>1, <3>1, <3>2 DEF AxiReg
  <2>. QED BY <2>3, <2>4
<1>. QED BY <1>1, <1>3, <1>5, <1>6, <1>7, <1>8, <1>9, <1>10, <1>11

----------------------------------------------------------------------------
(* The slaves.                                                             *)

Memories == [Words!Cells -> Data]
Slave    == [pready : BOOLEAN, prdata : Data, wait_remaining : Nat, mem : Memories]

LEMMA SlaveTypes ==
    ASSUME SlaveInv, NEW p \in Port
    PROVE  /\ slave[p] \in Slave /\ waits[p] \in Nat
           /\ slave[p].pready \in BOOLEAN /\ slave[p].prdata \in Data
           /\ slave[p].wait_remaining \in Nat /\ slave[p].mem \in Memories
<1>1. slave \in [Port -> Slave] /\ waits[p] \in Nat
  BY SlaveAssumption DEF SlaveInv, Slave, Memories
<1>2. slave[p] \in Slave
  BY <1>1
<1>. QED BY <1>1, <1>2 DEF Slave

\* The write of a beat: one cell of the memory takes the strobed bytes.
LEMMA WriteType ==
    ASSUME SlaveInv, NEW p \in Port, pbus[p].addr \in Words!Cells, pbus[p].data \in Data
    PROVE  Write(p) \in Memories
<1>1. slave[p].mem \in Memories
  BY SlaveTypes
<1>2. slave[p].mem[pbus[p].addr] \in Data
  BY <1>1 DEF Memories
<1>3. Words!Merge(slave[p].mem[pbus[p].addr], pbus[p].data) \in Data
  BY <1>2, SlaveAssumption
<1>. QED BY <1>1, <1>3 DEF Write, Memories

\* A slave that is not selected, or is in its setup cycle, stores nothing.
LEMMA RestRun ==
    ASSUME SlaveInv, NEW p \in Port, ~psel[p]
    PROVE  run(p) \in Slave /\ run(p).mem = slave[p].mem
<1>1. slave[p] \in Slave /\ 0 \in Nat
  BY SlaveTypes
<1>2. run(p) = [[slave[p] EXCEPT !.pready = TRUE] EXCEPT !.wait_remaining = 0]
  BY DEF run
<1> DEFINE s == [slave[p] EXCEPT !.pready = TRUE]
<1>3. s \in Slave /\ s.mem = slave[p].mem
  BY <1>1 DEF Slave
<1> HIDE DEF s
<1>4. [s EXCEPT !.wait_remaining = 0] \in Slave /\ [s EXCEPT !.wait_remaining = 0].mem = s.mem
  BY <1>1, <1>3 DEF Slave
<1>. QED BY <1>2, <1>3, <1>4 DEF s

LEMMA SetupRun ==
    ASSUME SlaveInv, NEW p \in Port, psel[p], ~penable[p], pbus[p].addr \in Words!Cells
    PROVE  /\ run(p) \in Slave /\ run(p).mem = slave[p].mem
           /\ run(p).wait_remaining = waits[p] /\ run(p).pready = (waits[p] = 0)
           /\ ~pbus[p].write => run(p).prdata = slave[p].mem[pbus[p].addr]
<1>1. /\ slave[p] \in Slave /\ waits[p] \in Nat /\ slave[p].mem \in Memories
      /\ slave[p].prdata \in Data
  BY SlaveTypes
<1>2. slave[p].mem[pbus[p].addr] \in Data
  BY <1>1 DEF Memories
<1> DEFINE d == IF pbus[p].write THEN slave[p].prdata ELSE slave[p].mem[pbus[p].addr]
<1>3. d \in Data
  BY <1>1, <1>2
<1>4. run(p) = [slave[p] EXCEPT !.prdata = d, !.wait_remaining = waits[p],
                                !.pready = (waits[p] = 0)]
  BY DEF run, Setup
<1>5. ~pbus[p].write => d = slave[p].mem[pbus[p].addr]
  OBVIOUS
<1>6. (waits[p] = 0) \in BOOLEAN
  OBVIOUS
<1> HIDE DEF d
<1>. QED BY <1>1, <1>3, <1>4, <1>5, <1>6 DEF Slave

LEMMA WaitRun ==
    ASSUME SlaveInv, NEW p \in Port, psel[p], penable[p], slave[p].wait_remaining > 0
    PROVE  /\ run(p) \in Slave /\ run(p).mem = slave[p].mem
           /\ run(p).prdata = slave[p].prdata /\ run(p).pready = FALSE
           /\ run(p).wait_remaining = slave[p].wait_remaining - 1
<1>1. slave[p] \in Slave /\ slave[p].wait_remaining \in Nat
  BY SlaveTypes
<1> DEFINE n == slave[p].wait_remaining - 1
           s == [slave[p] EXCEPT !.pready = FALSE]
<1>2. run(p) = [s EXCEPT !.wait_remaining = n]
  BY DEF run, Access
<1>3. s \in Slave /\ s.mem = slave[p].mem /\ s.prdata = slave[p].prdata /\ s.pready = FALSE
  BY <1>1 DEF Slave
<1>4. n \in Nat
  BY <1>1
<1> HIDE DEF n, s
<1>5. /\ run(p) \in Slave /\ run(p).mem = s.mem /\ run(p).prdata = s.prdata
      /\ run(p).pready = s.pready /\ run(p).wait_remaining = n
  BY <1>2, <1>3, <1>4 DEF Slave
<1>. QED BY <1>3, <1>5 DEF n

LEMMA ReadyRun ==
    ASSUME SlaveInv, NEW p \in Port, psel[p], penable[p], slave[p].wait_remaining = 0,
           pbus[p].write => pbus[p].addr \in Words!Cells /\ pbus[p].data \in Data
    PROVE  /\ run(p) \in Slave
           /\ run(p).mem = IF pbus[p].write THEN Write(p) ELSE slave[p].mem
           /\ run(p).prdata = slave[p].prdata /\ run(p).pready = TRUE
           /\ run(p).wait_remaining = 0
<1>1. slave[p] \in Slave /\ slave[p].mem \in Memories
  BY SlaveTypes
<1> DEFINE m == IF pbus[p].write THEN Write(p) ELSE slave[p].mem
<1>2. m \in Memories
  BY <1>1, WriteType
<1>3. run(p) = [slave[p] EXCEPT !.pready = TRUE, !.mem = m]
  BY DEF run, Access
<1> HIDE DEF m
<1>4. /\ run(p) \in Slave /\ run(p).mem = m
      /\ run(p).prdata = slave[p].prdata /\ run(p).pready = TRUE
      /\ run(p).wait_remaining = 0
  BY <1>1, <1>2, <1>3 DEF Slave
<1>. QED BY <1>4 DEF m

Memory == [p \in Port |-> slave[p].mem]

\* While APB is idle both slaves rest.
LEMMA RestBus ==
    ASSUME IInv, SlaveInv, BenchEdge, apb_state = "IDLE", apb_state' # "ACCESS"
    PROVE  SlaveInv' /\ Memory' = Memory
<1>1. \A p \in Port : ~psel[p]
  BY DEF IInv, PortInv
<1>2. /\ slave' = [p \in Port |-> run(p)] /\ waits' = waits
      /\ \A p \in Port : run(p) \in Slave /\ run(p).mem = slave[p].mem
  BY <1>1, RestRun DEF BenchEdge
<1>3. slave' \in [Port -> Slave] /\ waits' \in Waits
  BY <1>2 DEF SlaveInv
<1>. QED BY <1>2, <1>3 DEF SlaveInv, Slave, Memories, Memory

\* The slave that is not selected rests during a transfer.
LEMMA OtherRests ==
    ASSUME IInv, SlaveInv, CallInv, BenchEdge, apb_state # "IDLE", run(axi.sel) \in Slave
    PROVE  /\ slave' \in [Port -> Slave] /\ waits' \in Waits
           /\ slave'[axi.sel] = run(axi.sel)
           /\ Memory' = [Memory EXCEPT ![axi.sel] = run(axi.sel).mem]
<1>1. axi.sel \in Port /\ \A p \in Port : p # axi.sel => ~psel[p]
  <2>1. axi.sel \in Port
    BY BusBeat
  <2>. QED BY <2>1 DEF IInv, PortInv
<1>2. slave' = [p \in Port |-> run(p)] /\ waits' = waits
  BY DEF BenchEdge
<1>3. \A p \in Port : p # axi.sel => run(p) \in Slave /\ run(p).mem = slave[p].mem
  BY <1>1, RestRun
<1>4. slave' \in [Port -> Slave] /\ waits' \in Waits /\ slave'[axi.sel] = run(axi.sel)
  BY <1>1, <1>2, <1>3 DEF SlaveInv
<1>5. \A p \in Port : slave'[p].mem = IF p = axi.sel THEN run(axi.sel).mem ELSE slave[p].mem
  BY <1>1, <1>2, <1>3
<1>. QED BY <1>1, <1>4, <1>5 DEF Memory

----------------------------------------------------------------------------
(* One edge of a transfer.                                                 *)

\* The slave stores the beat that the bridge is at.
Stores == /\ axi.is_write /\ stored_beats = beat_index
          /\ stored_beats' = stored_beats + 1
          /\ Memory' = [Memory EXCEPT ![axi.sel] = Write(axi.sel)]

NoStore == stored_beats' = stored_beats /\ Memory' = Memory

BusRuns == SlaveInv' /\ BusLeft' = BusLeft - 1 /\ BusLeft \in Nat /\ BusLeft >= 1

LEMMA SetupStep ==
    ASSUME IInv, SlaveInv, CallInv, BenchEdge, apb_state = "SETUP"
    PROVE  BusRuns /\ NoStore
<1> DEFINE p == axi.sel
<1>1. /\ p \in Port /\ psel[p] /\ ~penable[p] /\ pbus[p].addr \in Words!Cells
      /\ pbus[p].write = axi.is_write /\ pbus[p].addr = axi.addr /\ axi.is_write \in BOOLEAN
      /\ txn_active /\ ~txn_decerr
  <2>1. /\ p \in Port /\ pbus[p].addr \in Words!Cells
        /\ pbus[p].write = axi.is_write /\ pbus[p].addr = axi.addr /\ axi.is_write \in BOOLEAN
        /\ txn_active /\ ~txn_decerr
    BY BusBeat
  <2>2. psel[p] /\ ~penable[p]
    BY <2>1 DEF IInv, PortInv
  <2>. QED BY <2>1, <2>2
<1>2. /\ run(p) \in Slave /\ run(p).mem = slave[p].mem
      /\ run(p).wait_remaining = waits[p] /\ run(p).pready = (waits[p] = 0)
      /\ ~axi.is_write => run(p).prdata = slave[p].mem[axi.addr]
  BY <1>1, SetupRun
<1>3. /\ slave' \in [Port -> Slave] /\ waits' \in Waits /\ slave'[p] = run(p)
      /\ Memory' = [Memory EXCEPT ![p] = run(p).mem]
  BY <1>2, OtherRests
<1>4. UNCHANGED <<txnRegs, pbus, waits>> /\ apb_state' = "ACCESS"
  BY Transferring DEF BenchEdge
<1>5. /\ axi' = axi /\ beat_index' = beat_index /\ txn_active' = txn_active
      /\ txn_decerr' = txn_decerr /\ waits' = waits /\ waits[p] \in Nat
  BY <1>1, <1>4, SlaveTypes DEF txnRegs
<1>6. Memory' = Memory
  BY <1>1, <1>2, <1>3 DEF Memory
<1>7. slave'[p].pready <=> waits[p] = 0
  BY <1>2, <1>3
<1>8. SlaveInv'
  <2>1. slave'[axi'.sel].pready => slave'[axi'.sel].wait_remaining = 0
    BY <1>2, <1>3, <1>5, <1>7
  <2>2. waits'[axi'.sel] = 0 => slave'[axi'.sel].pready
    BY <1>5, <1>7
  <2>3. ~axi'.is_write => slave'[axi'.sel].prdata = slave'[axi'.sel].mem[axi'.addr]
    BY <1>2, <1>3, <1>5
  <2>4. ~written_early'
    BY <1>5, <1>7 DEF written_early
  <2>. QED BY <1>3, <2>1, <2>2, <2>3, <2>4 DEF SlaveInv, Slave, Memories
<1>9. BusLeft' = BusLeft - 1 /\ BusLeft \in Nat /\ BusLeft >= 1
  <2>1. BusLeft = 1 + AccessEdges(waits[p])
    BY DEF BusLeft
  <2>2. BusLeft' = IF waits[p] = 0 THEN 1 ELSE waits[p] + 2
    BY <1>2, <1>3, <1>4, <1>5, <1>7 DEF BusLeft
  <2>. QED BY <1>5, <2>1, <2>2 DEF AccessEdges
<1>10. stored_beats' = stored_beats
  <2>1. ~written_early /\ ~written_early'
    BY <1>5, <1>7 DEF written_early
  <2>. QED BY <1>5, <2>1 DEF stored_beats
<1>. QED BY <1>6, <1>8, <1>9, <1>10 DEF BusRuns, NoStore

LEMMA WaitStep ==
    ASSUME IInv, SlaveInv, CallInv, BenchEdge, apb_state = "ACCESS",
           slave[axi.sel].wait_remaining > 0
    PROVE  BusRuns /\ NoStore
<1> DEFINE p == axi.sel
<1>1. /\ p \in Port /\ psel[p] /\ penable[p] /\ axi.is_write \in BOOLEAN
      /\ txn_active /\ ~txn_decerr
  BY BusBeat, Zenon
<1>2. /\ run(p) \in Slave /\ run(p).mem = slave[p].mem
      /\ run(p).prdata = slave[p].prdata /\ run(p).pready = FALSE
      /\ run(p).wait_remaining = slave[p].wait_remaining - 1
  BY <1>1, WaitRun
<1>3. /\ slave' \in [Port -> Slave] /\ waits' \in Waits /\ slave'[p] = run(p)
      /\ Memory' = [Memory EXCEPT ![p] = run(p).mem]
  BY <1>2, OtherRests
<1>4. slave[p].wait_remaining \in Nat /\ waits[p] \in Nat
  BY <1>1, SlaveTypes
<1>5. ~slave[p].pready /\ waits[p] # 0
  BY <1>4 DEF SlaveInv
<1>6. UNCHANGED <<txnRegs, pbus, waits>> /\ apb_state' = "ACCESS"
  BY <1>5, Transferring DEF BenchEdge
<1>7. /\ axi' = axi /\ beat_index' = beat_index /\ txn_active' = txn_active
      /\ txn_decerr' = txn_decerr /\ waits' = waits
  BY <1>6 DEF txnRegs
<1>8. Memory' = Memory
  BY <1>1, <1>2, <1>3 DEF Memory
<1>9. ~slave'[p].pready
  BY <1>2, <1>3
<1>10. ~written_early /\ ~written_early'
  BY <1>5, <1>7, <1>9 DEF written_early
<1>11. SlaveInv'
  <2>1. ~axi.is_write => slave[p].prdata = slave[p].mem[axi.addr]
    BY DEF SlaveInv
  <2>2. ~axi'.is_write => slave'[axi'.sel].prdata = slave'[axi'.sel].mem[axi'.addr]
    BY <1>2, <1>3, <1>7, <2>1
  <2>. QED BY <1>3, <1>5, <1>7, <1>9, <1>10, <2>2 DEF SlaveInv, Slave, Memories
<1>12. BusLeft' = BusLeft - 1 /\ BusLeft \in Nat /\ BusLeft >= 1
  <2>1. BusLeft = slave[p].wait_remaining + 2
    BY <1>5 DEF BusLeft
  <2>2. BusLeft' = slave'[p].wait_remaining + 2
    BY <1>6, <1>7, <1>9 DEF BusLeft
  <2>. QED BY <1>2, <1>3, <1>4, <2>1, <2>2
<1>13. stored_beats' = stored_beats
  BY <1>7, <1>10 DEF stored_beats
<1>. QED BY <1>8, <1>11, <1>12, <1>13 DEF BusRuns, NoStore

LEMMA TwiceWritten ==
    ASSUME SlaveInv, NEW p \in Port, pbus[p].addr \in Words!Cells, pbus[p].data \in Data,
           pbus' = pbus, slave'[p].mem = Write(p)
    PROVE  [slave'[p].mem EXCEPT ![pbus'[p].addr] = Words!Merge(@, pbus'[p].data)]
              = slave'[p].mem
<1> DEFINE a == pbus[p].addr
           d == pbus[p].data
           m == slave[p].mem
<1>1. m \in Memories /\ a \in Words!Cells
  BY SlaveTypes
<1>2. Write(p) = [m EXCEPT ![a] = Words!Merge(m[a], d)]
  BY DEF Write
<1>3. [slave'[p].mem EXCEPT ![pbus'[p].addr] = Words!Merge(@, pbus'[p].data)]
         = [slave'[p].mem EXCEPT ![a] = Words!Merge(slave'[p].mem[a], d)]
  OBVIOUS
<1>4. slave'[p].mem[a] = Words!Merge(m[a], d)
  BY <1>1, <1>2 DEF Memories
<1>5. Words!Merge(slave'[p].mem[a], d) = slave'[p].mem[a]
  BY <1>4, MergeTwice
<1>6. Write(p) \in Memories
  BY WriteType
<1>7. slave'[p].mem \in Memories
  BY <1>6
<1> HIDE DEF a, d, m
<1>. QED BY <1>1, <1>3, <1>5, <1>7 DEF Memories

\* PREADY rises, and a beat of a write is stored an edge before the bridge
\* counts it.
LEMMA ReadyStep ==
    ASSUME IInv, SlaveInv, CallInv, BenchEdge, apb_state = "ACCESS",
           slave[axi.sel].wait_remaining = 0, ~slave[axi.sel].pready
    PROVE  BusRuns /\ (Stores \/ NoStore)
<1> DEFINE p == axi.sel
<1>1. /\ p \in Port /\ psel[p] /\ penable[p] /\ axi.is_write \in BOOLEAN
      /\ pbus[p].addr = axi.addr /\ pbus[p].addr \in Words!Cells
      /\ pbus[p].write = axi.is_write /\ (axi.is_write => pbus[p].data \in Data)
      /\ txn_active /\ ~txn_decerr /\ beat_index \in Nat
  BY BusBeat, Zenon
<1>2. /\ run(p) \in Slave
      /\ run(p).mem = IF axi.is_write THEN Write(p) ELSE slave[p].mem
      /\ run(p).prdata = slave[p].prdata /\ run(p).pready = TRUE
      /\ run(p).wait_remaining = 0
  BY <1>1, ReadyRun
<1>3. /\ slave' \in [Port -> Slave] /\ waits' \in Waits /\ slave'[p] = run(p)
      /\ Memory' = [Memory EXCEPT ![p] = run(p).mem]
  BY <1>2, OtherRests
<1>4. waits[p] \in Nat /\ waits[p] # 0
  BY <1>1, SlaveTypes DEF SlaveInv
<1>5. UNCHANGED <<txnRegs, pbus, waits>> /\ apb_state' = "ACCESS"
  BY Transferring DEF BenchEdge
<1>6. /\ axi' = axi /\ beat_index' = beat_index /\ txn_active' = txn_active
      /\ txn_decerr' = txn_decerr /\ waits' = waits
  BY <1>5 DEF txnRegs
<1>7. slave'[p].pready
  BY <1>2, <1>3
<1>8. ~written_early /\ written_early'
  BY <1>4, <1>5, <1>6, <1>7 DEF written_early
<1>9. SlaveInv'
  <2>1. ~axi'.is_write => slave'[axi'.sel].prdata = slave'[axi'.sel].mem[axi'.addr]
    <3>1. ~axi.is_write => slave[p].prdata = slave[p].mem[axi.addr]
      BY DEF SlaveInv
    <3>. QED BY <1>2, <1>3, <1>6, <3>1
  <2>2. axi'.is_write => (Write(axi.sel) = slave[axi.sel].mem)'
    <3>1. ASSUME axi.is_write
          PROVE  [slave'[p].mem EXCEPT ![pbus'[p].addr] = Words!Merge(@, pbus'[p].data)]
                    = slave'[p].mem
      <4>1. slave'[p].mem = Write(p) /\ pbus' = pbus
        BY <1>2, <1>3, <1>5, <3>1
      <4>. QED BY <1>1, <3>1, <4>1, TwiceWritten
    <3>. QED BY <1>6, <3>1 DEF Write
  <2>3. slave'[axi'.sel].wait_remaining = 0 /\ slave'[axi'.sel].pready
    BY <1>2, <1>3, <1>6
  <2>. QED BY <1>3, <2>1, <2>2, <2>3 DEF SlaveInv, Slave, Memories
<1>10. BusLeft' = BusLeft - 1 /\ BusLeft \in Nat /\ BusLeft >= 1
  BY <1>5, <1>6, <1>7 DEF BusLeft
<1>11. CASE axi.is_write
  <2>1. stored_beats = beat_index /\ stored_beats' = beat_index + 1
    BY <1>1, <1>6, <1>8, <1>11 DEF stored_beats
  <2>. QED BY <1>2, <1>3, <1>9, <1>10, <1>11, <2>1 DEF BusRuns, Stores
<1>12. CASE ~axi.is_write
  <2>1. stored_beats = 0 /\ stored_beats' = 0
    BY <1>6, <1>12 DEF stored_beats
  <2>2. Memory' = Memory
    BY <1>1, <1>2, <1>3, <1>12 DEF Memory
  <2>. QED BY <1>9, <1>10, <2>1, <2>2 DEF BusRuns, NoStore
<1>. QED BY <1>1, <1>11, <1>12

\* The transfer completes; without wait states its beat is stored now.
LEMMA DoneStep ==
    ASSUME IInv, SlaveInv, CallInv, BenchEdge, apb_state = "ACCESS", slave[axi.sel].pready
    PROVE  BusRuns /\ (Stores \/ NoStore)
<1> DEFINE p == axi.sel
<1>1. /\ p \in Port /\ psel[p] /\ penable[p] /\ axi.is_write \in BOOLEAN
      /\ pbus[p].addr = axi.addr /\ pbus[p].addr \in Words!Cells
      /\ pbus[p].write = axi.is_write /\ (axi.is_write => pbus[p].data \in Data)
      /\ txn_active /\ ~txn_decerr /\ beat_index \in Nat /\ axi \in AxiReg
  BY BusBeat, Zenon
<1>2. slave[p].wait_remaining = 0 /\ waits[p] \in Nat /\ slave[p].mem \in Memories
  BY <1>1, SlaveTypes DEF SlaveInv
<1>3. /\ run(p) \in Slave
      /\ run(p).mem = IF axi.is_write THEN Write(p) ELSE slave[p].mem
  BY <1>1, <1>2, ReadyRun
<1>4. /\ slave' \in [Port -> Slave] /\ waits' \in Waits
      /\ Memory' = [Memory EXCEPT ![p] = run(p).mem]
  BY <1>3, OtherRests
<1>5. /\ apb_state' = "IDLE" /\ beat_index' = beat_index + 1
      /\ txn_active' = txn_active /\ txn_decerr' = txn_decerr
      /\ axi' = [axi EXCEPT !.addr = BeatAddr(call.q, beat_index + 1 + 1)]
  BY Completing
<1>6. axi'.is_write = axi.is_write
  BY <1>1, <1>5 DEF AxiReg
<1>7. SlaveInv'
  BY <1>4, <1>5 DEF SlaveInv, Slave, Memories
<1>8. BusLeft' = BusLeft - 1 /\ BusLeft \in Nat /\ BusLeft >= 1
  BY <1>5 DEF BusLeft
<1>9. ~written_early'
  BY <1>5 DEF written_early
<1>10. written_early <=> waits[p] > 0
  BY <1>2 DEF written_early
<1>11. CASE axi.is_write /\ waits[p] = 0
  <2>1. ~written_early
    BY <1>10, <1>11
  <2>2. stored_beats = beat_index /\ stored_beats' = beat_index + 1
    BY <1>1, <1>5, <1>6, <1>9, <1>11, <2>1 DEF stored_beats
  <2>. QED BY <1>3, <1>4, <1>7, <1>8, <1>11, <2>2 DEF BusRuns, Stores
<1>12. CASE axi.is_write /\ waits[p] # 0
  <2>1. written_early /\ Write(p) = slave[p].mem
    BY <1>2, <1>10, <1>12 DEF SlaveInv
  <2>2. stored_beats = beat_index + 1 /\ stored_beats' = beat_index + 1
    BY <1>1, <1>5, <1>6, <1>9, <1>12, <2>1 DEF stored_beats
  <2>3. Memory' = Memory
    BY <1>1, <1>3, <1>4, <1>12, <2>1 DEF Memory
  <2>. QED BY <1>7, <1>8, <2>2, <2>3 DEF BusRuns, NoStore
<1>13. CASE ~axi.is_write
  <2>1. stored_beats = 0 /\ stored_beats' = 0
    BY <1>6, <1>13 DEF stored_beats
  <2>2. Memory' = Memory
    BY <1>1, <1>3, <1>4, <1>13 DEF Memory
  <2>. QED BY <1>7, <1>8, <2>1, <2>2 DEF BusRuns, NoStore
<1>. QED BY <1>1, <1>11, <1>12, <1>13

LEMMA BusStep ==
    ASSUME IInv, SlaveInv, CallInv, BenchEdge, apb_state # "IDLE"
    PROVE  BusRuns /\ (Stores \/ NoStore)
<1>1. apb_state \in {"SETUP", "ACCESS"}
  BY DEF IInv, TypeOK
<1>2. axi.sel \in Port
  BY BusBeat
<1>3. slave[axi.sel].wait_remaining > 0 \/ slave[axi.sel].wait_remaining = 0
  BY <1>2, SlaveTypes
<1>. QED BY <1>1, <1>3, SetupStep, WaitStep, ReadyStep, DoneStep

----------------------------------------------------------------------------
(* The calls, one wait loop after another.                                 *)

Promised == [Ordered!CallsNext]_(Ordered!callVars)

\* What each edge has to show.
EdgeKeeps == SlaveInv' /\ CallInv' /\ Promised

LEMMA Stutters == ASSUME NoStore, call' = call, result' = result PROVE Promised
BY Zenon DEF Promised, NoStore, Memory, Ordered!callVars

LEMMA StoresBeat ==
    ASSUME IInv, SlaveInv, CallInv, apb_state # "IDLE", Stores, call' = call, result' = result
    PROVE  Promised
<1> DEFINE p == axi.sel
           a == axi.addr
           d == call.data[beat_index + 1]
<1>1. /\ call \in Calls /\ Legal(call.q) /\ p = PortOf(call.q.addr) /\ p \in Port
      /\ a = BeatAddr(call.q, beat_index + 1) /\ axi.is_write = is_write(call)
      /\ pbus[p].addr = a
  BY BusBeat
<1>2. axi.is_write /\ stored_beats = beat_index
  BY DEF Stores
<1>3. beat_index < Words!Sent(call) /\ pbus[p].data = d
  BY <1>2, BusBeat
<1>4. call # None
  BY <1>1, CallTypes
<1>5. Write(p) = [slave[p].mem EXCEPT ![a] = Words!Merge(@, d)]
  BY <1>1, <1>3 DEF Write
<1>6. Memory' = [Memory EXCEPT ![p] = Write(p)] /\ Memory[p] = slave[p].mem
  BY <1>1 DEF Stores, Memory
<1>7. Memory' = [Memory EXCEPT ![p][a] = Words!Merge(@, d)]
  BY <1>1, <1>5, <1>6 DEF Memory
<1>8. /\ Ordered!is_write(call) /\ Ordered!Legal(call.q)
      /\ stored_beats < Ordered!Sent(call)
  BY <1>1, <1>2, <1>3, SameMap DEF Ordered!is_write, is_write, Words!is_write,
                                   Ordered!Sent, Words!Sent
<1>9. /\ Ordered!PortOf(call.q.addr) = p /\ Ordered!BeatAddr(call.q, stored_beats + 1) = a
      /\ call.data[stored_beats + 1] = d
  BY <1>1, <1>2, SameMap
<1>10. \A old, new : Ordered!Merge(old, new) = Words!Merge(old, new)
  BY DEF Ordered!Merge, Words!Merge, Ordered!Lanes, Words!Lanes
<1>11. Memory' = [Memory EXCEPT ![p][a] = Ordered!Merge(@, d)]
  BY <1>7, <1>10
<1> HIDE DEF p, a, d
<1>12. Ordered!StoreBeat
  BY <1>4, <1>8, <1>9, <1>11, Zenon DEF Ordered!StoreBeat, Stores, Memory
<1>. QED BY <1>12 DEF Promised, Ordered!CallsNext

\* While the bridge moves a beat it goes on serving the call.
LEMMA BusServes ==
    ASSUME IInv, SlaveInv, CallInv, BenchEdge, apb_state # "IDLE", call' = call
    PROVE  /\ UNCHANGED <<aw, w, ar, w_done, beats_sent, beats_total, txn_decerr>>
           /\ bvalid' = FALSE /\ rvalid' = FALSE /\ bvalid = FALSE /\ rvalid = FALSE
           /\ rfifo_valid = FALSE
           /\ ~w_handshake /\ ~aw_handshake /\ ~ar_handshake
           /\ Taken' = Taken /\ Serves(call)'
           /\ rfifo_valid' => apb_state' = "IDLE" /\ ~axi.is_write
           /\ apb_state' = "IDLE" /\ ~axi.is_write => rfifo_valid'
<1>1. /\ call \in Calls /\ Serves(call) /\ axi \in AxiReg /\ beat_index \in Nat
      /\ axi.is_write \in BOOLEAN
  BY BusBeat
<1>2. CASE apb_state = "ACCESS" /\ slave[axi.sel].pready
  <2>1. /\ UNCHANGED <<aw, w, ar, beats_sent, beats_total, txn_active, txn_decerr,
                       pslverr_acc, wlast_err, w_done, pbus>>
        /\ apb_state' = "IDLE" /\ beat_index' = beat_index + 1
        /\ axi' = [axi EXCEPT !.addr = BeatAddr(call.q, beat_index + 1 + 1)]
        /\ rfifo_valid' = ~axi.is_write
        /\ bvalid' = FALSE /\ rvalid' = FALSE
        /\ bvalid = FALSE /\ rvalid = FALSE /\ rfifo_valid = FALSE
        /\ ~w_handshake /\ ~aw_handshake /\ ~ar_handshake
    BY <1>2, Completing
  <2>2. Taken' = Taken
    BY <1>1, <1>2, <2>1 DEF Taken
  <2>3. /\ axi'.is_write = axi.is_write /\ axi'.sel = axi.sel /\ axi'.bytes = axi.bytes
        /\ axi'.burst = axi.burst /\ axi'.addr = BeatAddr(call.q, beat_index' + 1)
    BY <1>1, <2>1 DEF AxiReg
  <2>4. Serves(call)'
    BY <1>1, <2>1, <2>3, Zenon DEF Serves
  <2>. QED BY <2>1, <2>2, <2>4
<1>3. CASE ~(apb_state = "ACCESS" /\ slave[axi.sel].pready)
  <2>1. /\ UNCHANGED <<aw, w, ar, txnRegs, pbus>> /\ apb_state' = "ACCESS"
        /\ bvalid' = FALSE /\ rvalid' = FALSE
        /\ bvalid = FALSE /\ rvalid = FALSE /\ rfifo_valid = FALSE
        /\ ~w_handshake /\ ~aw_handshake /\ ~ar_handshake
    BY <1>3, Transferring
  <2>2. Taken' = Taken
    BY <2>1 DEF Taken, txnRegs
  <2>3. Serves(call)'
    BY <1>1, <2>1, Zenon DEF Serves, txnRegs
  <2>. QED BY <2>1, <2>2, <2>3 DEF txnRegs
<1>. QED BY <1>2, <1>3

LEMMA BusServesWrite ==
    ASSUME IInv, SlaveInv, CallInv, BenchEdge, apb_state # "IDLE", call' = call,
           ServesWrite(call)
    PROVE  ServesWrite(call)'
<1>1. /\ ar' = ar /\ w_done' = w_done /\ bvalid' = FALSE /\ Serves(call)'
  BY BusServes
<1>2. /\ wlast_err' = wlast_err
      /\ apb_state' # "IDLE" => pbus' = pbus /\ axi' = axi /\ beat_index' = beat_index
  <2>1. CASE apb_state = "ACCESS" /\ slave[axi.sel].pready
    BY <2>1, Completing
  <2>2. CASE ~(apb_state = "ACCESS" /\ slave[axi.sel].pready)
    BY <2>2, Transferring DEF txnRegs
  <2>. QED BY <2>1, <2>2
<1>. QED BY <1>1, <1>2, Zenon DEF ServesWrite

LEMMA BusServesRead ==
    ASSUME IInv, SlaveInv, CallInv, BenchEdge, apb_state # "IDLE", call' = call,
           ServesRead(call), ~is_write(call)
    PROVE  ServesRead(call)' /\ NoStore
<1>1. /\ UNCHANGED <<aw, w, ar, beats_sent>> /\ rvalid' = FALSE /\ Serves(call)'
      /\ rfifo_valid' => apb_state' = "IDLE"
      /\ rfifo_valid = FALSE
  BY BusServes
<1>2. /\ Legal(call.q) /\ axi.sel = PortOf(call.q.addr) /\ axi.sel \in Port
      /\ axi.addr = BeatAddr(call.q, beat_index + 1) /\ ~axi.is_write /\ ~txn_decerr
      /\ txn_active
  BY BusBeat
<1>3. NoStore
  BY <1>2, BusStep DEF Stores
<1>4. ASSUME rfifo_valid'
      PROVE  rfifo' = [data |-> Ordered!Held(call.q, beats_sent + 1)', resp |-> "OKAY"]
  <2>1. apb_state = "ACCESS" /\ slave[axi.sel].pready
    BY <1>1, <1>4, Transferring
  <2>2. rfifo' = [data |-> slave[axi.sel].prdata, resp |-> "OKAY"]
    BY <1>2, <2>1, Completing
  <2>3. slave[axi.sel].prdata = Memory[axi.sel][axi.addr]
    BY <1>2, <2>1 DEF SlaveInv, Memory
  <2>4. beat_index = beats_sent
    BY <1>1, <1>2 DEF IInv, ReadInv, TypeOK, Count
  <2>5. Ordered!Held(call.q, beats_sent + 1)' = Memory'[axi.sel][axi.addr]
    BY <1>1, <1>2, <2>4, SameMap DEF Ordered!Held, Memory
  <2>. QED BY <1>3, <2>2, <2>3, <2>5 DEF NoStore
<1>. QED BY <1>1, <1>3, <1>4, Zenon DEF ServesRead

----------------------------------------------------------------------------
(* Edges with APB idle.                                                    *)

\* The edge on which the bridge accepts the address of the call.
LEMMA AcceptServes ==
    ASSUME IInv, SlaveInv, BenchEdge, CallInv, call \in Calls, call' = call, ~txn_active,
           \/ is_write(call) /\ aw = call.q /\ ar = None
           \/ ~is_write(call) /\ ar = call.q /\ aw = None
    PROVE  /\ aw' = None /\ ar' = None /\ w' = w /\ ~w_handshake
           /\ is_write(call) => aw_handshake
           /\ ~is_write(call) => ar_handshake
           /\ Serves(call)' /\ beat_index' = 0 /\ beats_sent' = 0 /\ txn_active'
           /\ w_done' = FALSE /\ wlast_err' = FALSE /\ rfifo_valid' = FALSE
           /\ apb_state' = "IDLE" /\ bvalid' = FALSE /\ rvalid' = FALSE
           /\ SlaveInv' /\ NoStore /\ Taken' = 0
<1>1. /\ call.q \in Request /\ call.q # None /\ is_write(call) \in BOOLEAN
      /\ call.q.len \in Nat
  BY CallTypes
<1>2. idle_for_new /\ apb_state = "IDLE" /\ rfifo_valid = FALSE /\ txn_active = FALSE
  BY DEF idle_for_new, IInv, OpenInv, TypeOK
<1>3. ~w_handshake
  BY DEF w_handshake, WREADY
<1>4. Edge(Pins) /\ Pins \in Inputs
  BY PinsType DEF BenchEdge
<1>5. /\ apb_state' = "IDLE" /\ psel' = Nobody /\ penable' = Nobody
      /\ pbus' = pbus /\ bvalid' = FALSE /\ b' = b /\ rvalid' = FALSE /\ r' = r
  BY <1>2, <1>4, AcceptQuiet DEF Edge
<1>6. /\ is_write(call) => aw_handshake /\ ~ar_handshake /\ Latch(call.q, TRUE)
      /\ ~is_write(call) => ar_handshake /\ ~aw_handshake /\ Latch(call.q, FALSE)
      /\ rfifo_valid' = FALSE
  BY <1>1, <1>2, <1>4 DEF aw_handshake, AWREADY, ar_handshake, ARREADY, Edge, TxnBlock,
                          AcceptWrite, AcceptRead, Progress
<1>7. aw' = None /\ ar' = None /\ w' = w
  BY <1>3, <1>4, <1>6 DEF Edge, MasterBlock
<1>8. Latch(call.q, is_write(call))
  BY <1>1, <1>6
<1>9. /\ txn_active' = TRUE /\ beat_index' = 0 /\ beats_sent' = 0
      /\ pslverr_acc' = FALSE /\ wlast_err' = FALSE /\ w_done' = FALSE
      /\ beats_total' = call.q.len + 1 /\ axi'.is_write = is_write(call)
  BY <1>1, <1>2, <1>8, LatchInv DEF Latch
<1>10. /\ axi'.bytes = call.q.bytes /\ axi'.burst = call.q.burst
       /\ axi'.sel = PortOf(call.q.addr) /\ axi'.addr = BeatAddr(call.q, 0 + 1)
       /\ txn_decerr' <=> ~Legal(call.q)
  BY <1>1, <1>8, BeatAddrFirst, RefusesIllegal DEF Latch
<1>11. Serves(call)'
  BY <1>9, <1>10, Zenon DEF Serves
<1>12. SlaveInv' /\ Memory' = Memory
  BY <1>2, <1>5, RestBus
<1>13. stored_beats = 0 /\ stored_beats' = 0 /\ Taken' = 0
  BY <1>2, <1>5, <1>9 DEF stored_beats, Taken, written_early
<1>. QED BY <1>3, <1>5, <1>6, <1>7, <1>9, <1>11, <1>12, <1>13 DEF NoStore

\* The edge on which the bridge takes the beat that the call has raised.
LEMMA TakeServes ==
    ASSUME IInv, SlaveInv, CallInv, BenchEdge, call \in Calls, call' = call,
           is_write(call), ServesWrite(call), aw = None, ~w_done, apb_state = "IDLE",
           beat_index < Words!Sent(call), w = WBeatOf(call, beat_index)
    PROVE  /\ w_handshake /\ w' = None /\ aw' = None /\ ar' = None
           /\ ServesWrite(call)' /\ w_done' = (beat_index + 1 = Words!Sent(call))
           /\ bvalid' = FALSE /\ Taken' = beat_index + 1
           /\ SlaveInv' /\ NoStore
           /\ BusLeft' = IF Legal(call.q) THEN 1 + AccessEdges(waits[PortOf(call.q.addr)])
                                          ELSE 0
<1>1. /\ Serves(call) /\ ar = None /\ axi.is_write /\ txn_active /\ axi \in AxiReg
      /\ beats_total = call.q.len + 1 /\ (txn_decerr <=> ~Legal(call.q))
      /\ axi.sel = PortOf(call.q.addr) /\ axi.sel \in Port /\ ~pslverr_acc
  BY DEF ServesWrite, Serves, IInv, OpenInv, TypeOK, AxiReg
<1>2. /\ beat_index \in Nat /\ beat_index < LenMax + 1 /\ beat_index < beats_total
      /\ call.q.len \in Nat /\ beat_index \in 0 .. Words!Sent(call) - 1
  BY <1>1, CallTypes, AddressAssumption DEF IInv, TypeOK, Count
<1>3. /\ bvalid = FALSE /\ rvalid = FALSE /\ rfifo_valid = FALSE /\ w_done = FALSE
      /\ wlast_err = FALSE /\ pslverr_acc = FALSE /\ txn_decerr \in BOOLEAN
  BY <1>1 DEF IInv, WriteInv, TypeOK, ServesWrite
<1>4. /\ w # None /\ w.data = call.data[beat_index + 1]
      /\ w.last = (beat_index = call.wlast)
  BY <1>2, WriteCall
<1>5. w_handshake /\ ~aw_handshake /\ ~ar_handshake
  BY <1>1, <1>2, <1>3, <1>4 DEF w_handshake, WREADY, aw_handshake, ar_handshake
<1>6. /\ Edge(Pins) /\ Progress(Pins)
      /\ ~apb_done(Pins) /\ ~b_handshake(Pins) /\ ~r_handshake(Pins)
      /\ ~b_due /\ ~r_due /\ ~start_read(Pins)
  BY <1>1, <1>3, <1>5 DEF BenchEdge, Edge, TxnBlock, AcceptWrite, AcceptRead, apb_done,
                          b_handshake, r_handshake, b_due, r_due, start_read
<1>7. w' = None /\ aw' = None /\ ar' = None
  BY <1>1, <1>5, <1>6 DEF Edge, MasterBlock
<1>8. bvalid' = FALSE
  BY <1>3, <1>6 DEF Edge, BBlock, bRegs
<1>9. final_beat <=> beat_index = call.q.len
  BY <1>1, <1>2 DEF final_beat
<1>10. beat_index + 1 = Words!Sent(call) <=> beat_index = call.wlast \/ beat_index = call.q.len
  BY <1>2, LastSent
<1>11. w_done' = (beat_index + 1 = Words!Sent(call))
  <2>1. w_done' = (w.last \/ final_beat)
    BY <1>3, <1>5, <1>6 DEF Progress
  <2>. QED BY <1>4, <1>9, <1>10, <2>1
<1>12. wlast_err' <=> w_done' /\ call.wlast # call.q.len
  <2>1. wlast_err' = (w.last # final_beat)
    BY <1>3, <1>5, <1>6 DEF Progress
  <2>. QED BY <1>4, <1>9, <1>10, <1>11, <2>1
<1>13. UNCHANGED <<axi, beats_total, txn_active, txn_decerr>> /\ pslverr_acc' = FALSE
  BY <1>1, <1>3, <1>6 DEF Progress, IInv, TypeOK
<1>14. CASE txn_decerr
  <2>1. beat_index' = beat_index + 1
    BY <1>2, <1>5, <1>6, <1>14, IncExact, AddressAssumption DEF Progress, Count
  <2>2. apb_state' = "IDLE"
    BY <1>6, <1>14 DEF Edge, ApbBlock, ApbIdle, ApbStartWrite, ApbStartRead,
                       start_write, beat_due, ApbSetup, ApbWait, ApbComplete, apb_done
  <2>3. Serves(call)'
    BY <1>1, <1>13, <1>14, Zenon DEF Serves
  <2>4. ServesWrite(call)'
    BY <1>7, <1>8, <1>12, <2>2, <2>3, Zenon DEF ServesWrite
  <2>5. Taken' = beat_index + 1
    BY <1>2, <2>1, <2>2 DEF Taken
  <2>6. SlaveInv' /\ Memory' = Memory
    BY <2>2, RestBus
  <2>7. stored_beats = 0 /\ stored_beats' = 0
    BY <1>13, <1>14 DEF stored_beats
  <2>8. BusLeft' = 0
    BY <2>2 DEF BusLeft
  <2>. QED BY <1>1, <1>5, <1>7, <1>8, <1>11, <1>14, <2>4, <2>5, <2>6, <2>7, <2>8 DEF NoStore
<1>15. CASE ~txn_decerr
  <2>1. beat_index' = beat_index
    BY <1>6, <1>15 DEF Progress
  <2>2. start_write
    BY <1>1, <1>2, <1>5, <1>15 DEF start_write, beat_due
  <2>3. Drive(TRUE, w.data)
    BY <1>6, <2>2 DEF Edge, ApbBlock, ApbIdle, ApbStartWrite, ApbStartRead,
                      ApbSetup, ApbWait, ApbComplete, apb_done
  <2>4. /\ apb_state' = "SETUP" /\ pbus'[axi.sel].data = call.data[beat_index + 1]
    BY <1>1, <1>4, <2>3 DEF Drive, IInv, TypeOK
  <2>5. Serves(call)'
    BY <1>1, <1>13, <2>1, Zenon DEF Serves
  <2>6. ServesWrite(call)'
    BY <1>7, <1>8, <1>12, <1>13, <2>1, <2>4, <2>5, Zenon DEF ServesWrite
  <2>7. Taken' = beat_index + 1
    BY <1>2, <2>1, <2>4 DEF Taken
  <2>8. SlaveInv' /\ Memory' = Memory
    BY <2>4, RestBus
  <2>9. stored_beats = beat_index /\ stored_beats' = beat_index
    BY <1>1, <1>2, <1>13, <1>15, <2>1, <2>4 DEF stored_beats, written_early
  <2>10. BusLeft' = 1 + AccessEdges(waits[PortOf(call.q.addr)])
    BY <1>1, <1>13, <2>4 DEF BusLeft, BenchEdge
  <2>. QED BY <1>1, <1>5, <1>7, <1>8, <1>11, <1>15, <2>6, <2>7, <2>8, <2>9, <2>10 DEF NoStore
<1>. QED BY <1>3, <1>14, <1>15

----------------------------------------------------------------------------
(* The wait loops.                                                         *)

\* Every limit that a loop is entered with leaves time for one beat.
LEMMA OwnLimits ==
    ASSUME SlaveInv, call \in Calls
    PROVE  /\ Edges \in Nat /\ ReadEdges \in Nat /\ Pace(call.q, waits) \in Nat
           /\ Pace(call.q, waits) >= 2 /\ Pace(call.q, waits) <= Edges
           /\ call.fn = "burst_read" => Pace(call.q, waits) <= ReadEdges
           /\ Legal(call.q) =>
                 /\ AccessEdges(waits[PortOf(call.q.addr)]) \in Nat
                 /\ AccessEdges(waits[PortOf(call.q.addr)]) >= 1
                 /\ Pace(call.q, waits) = AccessEdges(waits[PortOf(call.q.addr)]) + 4
           /\ ~Legal(call.q) => Pace(call.q, waits) = 2
<1>1. waits \in Waits
  BY DEF SlaveInv
<1>. QED BY <1>1, Limits

LEMMA IdleLoop ==
    ASSUME BenchInv, BenchEdge, pc = "idle" PROVE EdgeKeeps
<1>1. /\ IInv /\ SlaveInv /\ CallInv /\ ~txn_active /\ call = None
      /\ aw = None /\ w = None /\ ar = None
  BY DEF BenchInv, CallInv, LoopInv
<1>2. UNCHANGED driver
  BY DEF BenchEdge, DriverBlock, WaitBoth, WaitAW, WaitW, WaitB, WaitAR, WaitR, NoLoop
<1>3. apb_state = "IDLE" /\ txn_active = FALSE
  BY <1>1 DEF IInv, OpenInv, TypeOK
<1>4. ~w_handshake /\ ~aw_handshake /\ ~ar_handshake /\ ~beat_due
  BY <1>1 DEF w_handshake, aw_handshake, ar_handshake, beat_due
<1>5. Edge(Pins) /\ Progress(Pins)
  BY <1>4 DEF BenchEdge, Edge, TxnBlock, AcceptWrite, AcceptRead
<1>6. txn_active' = FALSE /\ aw' = None /\ w' = None /\ ar' = None
  BY <1>1, <1>3, <1>4, <1>5 DEF Progress, Edge, MasterBlock
<1>7. apb_state' = "IDLE"
  BY <1>3, <1>4, <1>5 DEF Edge, ApbBlock, ApbIdle, ApbStartWrite, ApbStartRead, start_read,
                          start_write, ApbSetup, ApbWait, ApbComplete, apb_done
<1>8. SlaveInv' /\ Memory' = Memory
  BY <1>1, <1>3, <1>7, RestBus
<1>9. stored_beats = 0 /\ stored_beats' = 0
  BY <1>3, <1>6 DEF stored_beats
<1>10. CallInv'
  BY <1>1, <1>2, <1>6 DEF driver, CallInv, LoopInv
<1>11. Promised
  BY <1>2, <1>8, <1>9, Stutters DEF driver, NoStore
<1>. QED BY <1>8, <1>10, <1>11 DEF EdgeKeeps

LEMMA AWLoop ==
    ASSUME BenchInv, BenchEdge, pc = "aw" PROVE EdgeKeeps
<1>1. /\ IInv /\ SlaveInv /\ CallInv /\ call \in Calls /\ is_write(call) /\ bready
      /\ ~txn_active /\ aw = call.q /\ w = None /\ ar = None /\ beat = 0
  BY DEF BenchInv, CallInv, LoopInv
<1>2. WaitAW
  BY DEF BenchEdge, DriverBlock, WaitBoth, WaitAW, WaitW, WaitB, WaitAR, WaitR, NoLoop
<1>3. call' = call /\ result' = result /\ bready' = bready
  BY <1>2 DEF WaitAW, Again, KeepCall
<1>4. /\ aw' = None /\ ar' = None /\ w' = w /\ aw_handshake
      /\ Serves(call)' /\ w_done' = FALSE /\ wlast_err' = FALSE
      /\ apb_state' = "IDLE" /\ bvalid' = FALSE
      /\ SlaveInv' /\ NoStore /\ Taken' = 0
  BY <1>1, <1>3, AcceptServes
<1>5. pc' = "w" /\ left' = Edges /\ beat' = 0
  BY <1>1, <1>2, <1>4 DEF WaitAW, Enter
<1>6. ServesWrite(call)'
  BY <1>4, Zenon DEF ServesWrite
<1>7. BusLeft' = 0
  BY <1>4 DEF BusLeft
<1>8. Edges \in Nat /\ Edges >= 1
  BY <1>1, OwnLimits
<1>9. 0 < Words!Sent(call)
  BY <1>1, CallTypes
<1>10. CallInv'
  BY <1>1, <1>3, <1>4, <1>5, <1>6, <1>7, <1>8, <1>9 DEF CallInv, LoopInv
<1>. QED BY <1>3, <1>4, <1>10, Stutters DEF EdgeKeeps

\* write waits for both of its handshakes: the address, an edge before the data.
LEMMA BothLoop ==
    ASSUME BenchInv, BenchEdge, pc = "aw_w" PROVE EdgeKeeps
<1>1. /\ IInv /\ SlaveInv /\ CallInv /\ call \in Calls /\ call.fn = "write" /\ bready
      /\ w = WBeatOf(call, 0) /\ ar = None
      /\ left \in Nat /\ bready \in BOOLEAN
  BY DEF BenchInv, CallInv, LoopInv, is_write, Words!is_write
<1>2. is_write(call) /\ Words!Sent(call) = 1
  BY <1>1, SingleCall DEF is_write, Words!is_write
<1>3. WaitBoth
  BY DEF BenchEdge, DriverBlock, WaitBoth, WaitAW, WaitW, WaitB, WaitAR, WaitR, NoLoop
<1>4. call' = call /\ result' = result /\ bready' = bready
  BY <1>3 DEF WaitBoth, Again, KeepCall
<1>5. w # None /\ call.q # None
  BY <1>1, <1>2, WriteCall, CallTypes
<1>6. CASE aw # None
  <2>1. ~txn_active /\ aw = call.q /\ left >= 2
    BY <1>1, <1>6 DEF CallInv, LoopInv
  <2>2. /\ aw' = None /\ ar' = None /\ w' = w /\ ~w_handshake
        /\ Serves(call)' /\ w_done' = FALSE /\ wlast_err' = FALSE
        /\ apb_state' = "IDLE" /\ bvalid' = FALSE
        /\ SlaveInv' /\ NoStore /\ Taken' = 0
    BY <1>1, <1>2, <1>4, <2>1, AcceptServes
  <2>3. pc' = "aw_w" /\ left' = left - 1 /\ left # 1
    BY <1>3, <1>5, <2>1, <2>2 DEF WaitBoth, Again
  <2>4. ServesWrite(call)'
    BY <2>2, Zenon DEF ServesWrite
  <2>5. left' \in Nat /\ left' >= 1
    BY <1>1, <2>1, <2>3
  <2>6. w' = WBeatOf(call, 0)'
    BY <1>1, <1>4, <2>2 DEF WBeatOf
  <2>7. CallInv'
    BY <1>1, <1>2, <1>4, <2>2, <2>3, <2>4, <2>5, <2>6 DEF CallInv, LoopInv
  <2>. QED BY <1>4, <2>2, <2>7, Stutters DEF EdgeKeeps
<1>7. CASE aw = None
  <2>1. ServesWrite(call) /\ ~w_done /\ Taken = 0
    BY <1>1, <1>7 DEF CallInv, LoopInv
  <2>2. apb_state = "IDLE" /\ beat_index = 0
    BY <1>1, <2>1, AddressAssumption DEF Taken, IInv, TypeOK, Count
  <2>3. /\ w_handshake /\ w' = None /\ aw' = None /\ ar' = None
        /\ ServesWrite(call)' /\ w_done' = (beat_index + 1 = Words!Sent(call))
        /\ bvalid' = FALSE /\ Taken' = beat_index + 1
        /\ SlaveInv' /\ NoStore
        /\ BusLeft' = IF Legal(call.q) THEN 1 + AccessEdges(waits[PortOf(call.q.addr)])
                                       ELSE 0
    BY <1>1, <1>2, <1>4, <1>7, <2>1, <2>2, TakeServes
  <2>4. pc' = "b" /\ left' = Edges
    BY <1>3, <1>7, <2>3 DEF WaitBoth, Enter
  <2>5. left' \in Nat /\ left' >= BusLeft' + 2
    BY <1>1, <2>3, <2>4, OwnLimits
  <2>6. w_done' /\ Taken' = 1
    <3>1. beat_index + 1 = 1
      BY <2>2
    <3>. QED BY <1>2, <2>3, <3>1
  <2>7. CallInv'
    BY <1>1, <1>2, <1>4, <2>3, <2>4, <2>5, <2>6 DEF CallInv, LoopInv
  <2>. QED BY <1>4, <2>3, <2>7, Stutters DEF EdgeKeeps
<1>. QED BY <1>6, <1>7

LEMMA WLoop ==
    ASSUME BenchInv, BenchEdge, pc = "w" PROVE EdgeKeeps
<1>1. /\ IInv /\ SlaveInv /\ CallInv /\ call \in Calls /\ is_write(call) /\ bready
      /\ ServesWrite(call) /\ aw = None /\ ~w_done
      /\ beat = Taken /\ beat < Words!Sent(call)
      /\ w \in {None, WBeatOf(call, beat)} /\ left >= BusLeft + 1
      /\ left \in Nat /\ bready \in BOOLEAN
  BY DEF BenchInv, CallInv, LoopInv
<1>2. w # None /\ w = WBeatOf(call, beat)
  BY <1>1 DEF BenchEdge, beat_to_drive
<1>3. WaitW
  BY DEF BenchEdge, DriverBlock, WaitBoth, WaitAW, WaitW, WaitB, WaitAR, WaitR, NoLoop
<1>4. call' = call /\ result' = result /\ bready' = bready
  BY <1>3 DEF WaitW, Again, KeepCall
<1>5. CASE apb_state = "IDLE"
  <2>1. beat_index = beat /\ beat \in Nat
    BY <1>1, <1>5, AddressAssumption DEF Taken, IInv, TypeOK, Count
  <2>2. /\ w_handshake /\ w' = None /\ aw' = None /\ ar' = None
        /\ ServesWrite(call)' /\ w_done' = (beat + 1 = Words!Sent(call))
        /\ bvalid' = FALSE /\ Taken' = beat + 1
        /\ SlaveInv' /\ NoStore
        /\ BusLeft' = IF Legal(call.q) THEN 1 + AccessEdges(waits[PortOf(call.q.addr)])
                                       ELSE 0
    BY <1>1, <1>2, <1>4, <1>5, <2>1, TakeServes
  <2>3. left' = Edges
    BY <1>3, <2>2 DEF WaitW, Enter
  <2>4. left' \in Nat /\ left' >= BusLeft' + 2 /\ left' >= BusLeft' + 1
    BY <1>1, <2>2, <2>3, OwnLimits
  <2>5. CASE beat + 1 = Words!Sent(call)
    <3>1. pc' = "b"
      BY <1>3, <2>2, <2>5 DEF WaitW, Enter
    <3>2. CallInv'
      BY <1>1, <1>4, <2>2, <2>4, <2>5, <3>1 DEF CallInv, LoopInv
    <3>. QED BY <1>4, <2>2, <3>2, Stutters DEF EdgeKeeps
  <2>6. CASE beat + 1 # Words!Sent(call)
    <3>1. pc' = "w" /\ beat' = beat + 1
      BY <1>3, <2>2, <2>6 DEF WaitW, Enter
    <3>2. beat' < Words!Sent(call) /\ beat' = Taken'
      BY <1>1, <2>1, <2>2, <2>6, <3>1, CallTypes
    <3>3. CallInv'
      BY <1>1, <1>4, <2>2, <2>4, <2>6, <3>1, <3>2 DEF CallInv, LoopInv
    <3>. QED BY <1>4, <2>2, <3>3, Stutters DEF EdgeKeeps
  <2>. QED BY <2>5, <2>6
<1>6. CASE apb_state # "IDLE"
  <2>1. /\ UNCHANGED <<aw, w, ar, w_done>> /\ ~w_handshake /\ Taken' = Taken
    BY <1>1, <1>4, <1>6, BusServes
  <2>2. ServesWrite(call)'
    BY <1>1, <1>4, <1>6, BusServesWrite
  <2>3. /\ SlaveInv' /\ BusLeft' = BusLeft - 1 /\ BusLeft \in Nat /\ BusLeft >= 1
        /\ Stores \/ NoStore
    BY <1>1, <1>6, BusStep DEF BusRuns
  <2>4. pc' = "w" /\ left' = left - 1 /\ beat' = beat
    BY <1>1, <1>3, <2>1, <2>3 DEF WaitW, Again
  <2>5. left' \in Nat /\ left' >= BusLeft' + 1
    BY <1>1, <2>3, <2>4
  <2>6. w' = WBeatOf(call, beat)'
    BY <1>2, <1>4, <2>1, <2>4 DEF WBeatOf
  <2>7. CallInv'
    BY <1>1, <1>4, <2>1, <2>2, <2>4, <2>5, <2>6 DEF CallInv, LoopInv
  <2>8. Promised
    BY <1>1, <1>4, <1>6, <2>3, Stutters, StoresBeat
  <2>. QED BY <2>3, <2>7, <2>8 DEF EdgeKeeps
<1>. QED BY <1>5, <1>6

\* The edge on which B comes: the bridge reports what the call is promised.
LEMMA RespondServes ==
    ASSUME IInv, SlaveInv, CallInv, BenchEdge, call \in Calls, call' = call,
           is_write(call), ServesWrite(call), aw = None, w = None, w_done,
           apb_state = "IDLE", ~bvalid
    PROVE  /\ ServesWrite(call)' /\ UNCHANGED <<aw, w, ar, w_done>>
           /\ bvalid' = TRUE /\ Taken' = Taken
           /\ SlaveInv' /\ NoStore /\ BusLeft' = 0
<1>1. /\ Serves(call) /\ ar = None /\ axi.is_write /\ txn_active
      /\ (txn_decerr <=> ~Legal(call.q)) /\ ~pslverr_acc
      /\ wlast_err <=> w_done /\ call.wlast # call.q.len
  BY DEF ServesWrite, Serves
<1>2. /\ bvalid = FALSE /\ rvalid = FALSE /\ rfifo_valid = FALSE /\ w_done = TRUE
      /\ wlast_err \in BOOLEAN /\ pslverr_acc = FALSE /\ txn_active = TRUE
  BY <1>1 DEF IInv, WriteInv, TypeOK
<1>3. /\ ~w_handshake /\ ~aw_handshake /\ ~ar_handshake
      /\ ~b_handshake(Pins) /\ ~r_handshake(Pins) /\ b_due /\ ~r_due
      /\ ~apb_done(Pins) /\ ~start_read(Pins) /\ ~start_write
  BY <1>1, <1>2 DEF w_handshake, aw_handshake, ar_handshake, b_handshake, r_handshake,
                    b_due, r_due, apb_done, start_read, start_write
<1>4. Edge(Pins) /\ Progress(Pins)
  BY <1>3 DEF BenchEdge, Edge, TxnBlock, AcceptWrite, AcceptRead
<1>5. UNCHANGED <<axi, beat_index, beats_total, txn_active, txn_decerr, w_done, wlast_err,
                  pslverr_acc>>
  BY <1>2, <1>3, <1>4 DEF Progress
<1>6. UNCHANGED <<aw, w, ar>>
  BY <1>3, <1>4 DEF Edge, MasterBlock
<1>7. bvalid' = TRUE /\ b' = [id |-> axi.id, resp |-> bresp]
  BY <1>3, <1>4 DEF Edge, BBlock
<1>8. bresp = Ordered!Status(call)
  <2>1. Ordered!Legal(call.q) = Legal(call.q) /\ Ordered!is_write(call)
    BY SameMap DEF Ordered!is_write, is_write, Words!is_write
  <2>. QED BY <1>1, <1>2, <2>1 DEF bresp, Ordered!Status
<1>9. apb_state' = "IDLE"
  BY <1>3, <1>4 DEF Edge, ApbBlock, ApbIdle, ApbStartWrite, ApbStartRead,
                    ApbSetup, ApbWait, ApbComplete, apb_done
<1>10. Serves(call)'
  BY <1>1, <1>5, Zenon DEF Serves
<1>11. b'.resp = Ordered!Status(call)'
  BY <1>7, <1>8 DEF Ordered!Status
<1>12. wlast_err' <=> w_done' /\ call.wlast # call.q.len
  BY <1>1, <1>5, Zenon
<1>13. ServesWrite(call)'
  BY <1>1, <1>6, <1>9, <1>10, <1>11, <1>12, Zenon DEF ServesWrite
<1>14. SlaveInv' /\ Memory' = Memory
  BY <1>9, RestBus
<1>15. stored_beats' = stored_beats
  BY <1>5, <1>9 DEF stored_beats, written_early
<1>16. Taken' = Taken /\ BusLeft' = 0
  BY <1>5, <1>9 DEF Taken, BusLeft
<1>. QED BY <1>5, <1>6, <1>7, <1>13, <1>14, <1>15, <1>16 DEF NoStore

LEMMA BLoop ==
    ASSUME BenchInv, BenchEdge, pc = "b" PROVE EdgeKeeps
<1>1. /\ IInv /\ SlaveInv /\ CallInv /\ call \in Calls /\ is_write(call) /\ bready
      /\ ServesWrite(call) /\ aw = None /\ w_done /\ w = None
      /\ Taken = Words!Sent(call)
      /\ left >= BusLeft + (IF bvalid THEN 1 ELSE 2)
      /\ left \in Nat /\ bready \in BOOLEAN
  BY DEF BenchInv, CallInv, LoopInv
<1>2. WaitB
  BY DEF BenchEdge, DriverBlock, WaitBoth, WaitAW, WaitW, WaitB, WaitAR, WaitR, NoLoop
<1>3. CASE bvalid
  <2>1. /\ result' = [resp |-> b.resp, data |-> <<>>] /\ call' = None /\ pc' = "idle"
        /\ left' = 0 /\ bready' = (bready /\ call.fn # "write")
    BY <1>2, <1>3 DEF WaitB, Return
  <2>2. /\ Serves(call) /\ ar = None /\ axi.is_write /\ txn_active
        /\ (txn_decerr <=> ~Legal(call.q)) /\ b.resp = Ordered!Status(call)
    BY <1>1, <1>3 DEF ServesWrite, Serves
  <2>3. apb_state = "IDLE" /\ rvalid = FALSE /\ rfifo_valid = FALSE
    BY <1>3, <2>2 DEF IInv, ApbInv, WriteInv, TypeOK, BenchInv
  <2>4. b_handshake(Pins)
    BY <1>1, <1>3 DEF b_handshake, Pins
  <2>5. /\ ~w_handshake /\ ~aw_handshake /\ ~ar_handshake /\ ~start_write
        /\ ~start_read(Pins)
    BY <1>1, <2>2 DEF w_handshake, aw_handshake, ar_handshake, start_write, start_read
  <2>6. Edge(Pins) /\ Progress(Pins)
    BY <2>5 DEF BenchEdge, Edge, TxnBlock, AcceptWrite, AcceptRead
  <2>7. txn_active' = FALSE
    BY <2>4, <2>6 DEF Progress
  <2>8. aw' = None /\ w' = None /\ ar' = None
    BY <1>1, <2>2, <2>5, <2>6 DEF Edge, MasterBlock
  <2>9. apb_state' = "IDLE"
    BY <2>3, <2>5, <2>6 DEF Edge, ApbBlock, ApbIdle, ApbStartWrite, ApbStartRead,
                            ApbSetup, ApbWait, ApbComplete, apb_done
  <2>10. SlaveInv' /\ Memory' = Memory
    BY <1>1, <2>3, <2>9, RestBus
  <2>11. CallInv'
    BY <2>1, <2>7, <2>8 DEF CallInv, LoopInv
  <2>12. stored_beats' = 0
    BY <2>7 DEF stored_beats
  <2>13. stored_beats = IF Legal(call.q) THEN Words!Sent(call) ELSE 0
    <3>1. beat_index = Taken
      BY <1>1, <2>3, AddressAssumption DEF Taken, IInv, TypeOK, Count
    <3>2. ~written_early
      BY <2>3 DEF written_early
    <3>3. beat_index + 0 = beat_index
      BY <1>1, AddressAssumption DEF IInv, TypeOK, Count
    <3>. QED BY <1>1, <2>2, <3>1, <3>2, <3>3 DEF stored_beats
  <2>14. Ordered!ReturnWrite
    <3>1. /\ Ordered!is_write(call) /\ Ordered!Legal(call.q) = Legal(call.q)
          /\ Ordered!Sent(call) = Words!Sent(call) /\ call # None
      BY <1>1, SameMap, CallTypes DEF Ordered!is_write, is_write, Words!is_write,
                                      Ordered!Sent, Words!Sent
    <3>2. stored_beats = IF Ordered!Legal(call.q) THEN Ordered!Sent(call) ELSE 0
      BY <2>13, <3>1
    <3>. QED BY <2>1, <2>2, <2>10, <2>12, <3>1, <3>2, Zenon
             DEF Ordered!ReturnWrite, Ordered!Return, Memory
  <2>. QED BY <2>10, <2>11, <2>14 DEF EdgeKeeps, Promised, Ordered!CallsNext
<1>4. CASE ~bvalid
  <2>1. call' = call /\ result' = result /\ bready' = bready
    BY <1>2, <1>4 DEF WaitB, Again, KeepCall
  <2>2. CASE apb_state = "IDLE"
    <3>1. /\ ServesWrite(call)' /\ UNCHANGED <<aw, w, ar, w_done>>
          /\ bvalid' = TRUE /\ Taken' = Taken /\ SlaveInv' /\ NoStore /\ BusLeft' = 0
      BY <1>1, <1>4, <2>1, <2>2, RespondServes
    <3>2. BusLeft = 0
      BY <2>2 DEF BusLeft
    <3>3. pc' = "b" /\ left' = left - 1
      BY <1>1, <1>2, <1>4, <3>2 DEF WaitB, Again
    <3>4. left' \in Nat /\ left' >= BusLeft' + 1
      BY <1>1, <1>4, <3>1, <3>2, <3>3
    <3>5. CallInv'
      BY <1>1, <2>1, <3>1, <3>3, <3>4 DEF CallInv, LoopInv
    <3>. QED BY <2>1, <3>1, <3>5, Stutters DEF EdgeKeeps
  <2>3. CASE apb_state # "IDLE"
    <3>1. /\ UNCHANGED <<aw, w, ar, w_done>> /\ Taken' = Taken /\ bvalid' = FALSE
      BY <1>1, <2>1, <2>3, BusServes
    <3>2. ServesWrite(call)'
      BY <1>1, <2>1, <2>3, BusServesWrite
    <3>3. /\ SlaveInv' /\ BusLeft' = BusLeft - 1 /\ BusLeft \in Nat /\ BusLeft >= 1
          /\ Stores \/ NoStore
      BY <1>1, <2>3, BusStep DEF BusRuns
    <3>4. pc' = "b" /\ left' = left - 1
      BY <1>1, <1>2, <1>4, <3>3 DEF WaitB, Again
    <3>5. left' \in Nat /\ left' >= BusLeft' + 2
      BY <1>1, <1>4, <3>3, <3>4
    <3>6. CallInv'
      BY <1>1, <2>1, <3>1, <3>2, <3>4, <3>5 DEF CallInv, LoopInv
    <3>7. Promised
      BY <1>1, <2>1, <2>3, <3>3, Stutters, StoresBeat
    <3>. QED BY <3>3, <3>6, <3>7 DEF EdgeKeeps
  <2>. QED BY <2>2, <2>3
<1>. QED BY <1>3, <1>4

\* A product of naturals grows with its second factor.
LEMMA Scaled ==
    ASSUME NEW n \in Nat, NEW m \in Nat, NEW k \in Nat, m <= k
    PROVE  /\ n * m \in Nat /\ n * k \in Nat /\ n * m <= n * k
           /\ (n + 1) * m = m + n * m
BY SMT

LEMMA ARLoop ==
    ASSUME BenchInv, BenchEdge, pc = "ar" PROVE EdgeKeeps
<1>1. /\ IInv /\ SlaveInv /\ CallInv /\ call \in Calls /\ ~is_write(call)
      /\ ~txn_active /\ ar = call.q /\ aw = None /\ w = None /\ got = <<>>
      /\ bready \in BOOLEAN
  BY DEF BenchInv, CallInv, LoopInv
<1>2. WaitAR
  BY DEF BenchEdge, DriverBlock, WaitBoth, WaitAW, WaitW, WaitB, WaitAR, WaitR, NoLoop
<1>3. call' = call /\ result' = result /\ bready' = bready
  BY <1>2 DEF WaitAR, Again, KeepCall
<1>4. /\ aw' = None /\ ar' = None /\ w' = None /\ ar_handshake
      /\ Serves(call)' /\ beats_sent' = 0 /\ rfifo_valid' = FALSE
      /\ apb_state' = "IDLE" /\ rvalid' = FALSE
      /\ SlaveInv' /\ NoStore
  BY <1>1, <1>3, AcceptServes
<1>5. /\ pc' = "r" /\ got' = <<>>
      /\ left' = IF call.fn = "read" THEN Edges ELSE (call.q.len + 1) * ReadEdges
  BY <1>1, <1>2, <1>4 DEF WaitAR, Enter
<1>6. ServesRead(call)'
  BY <1>4, Zenon DEF ServesRead
<1>7. got' = [i \in 1 .. beats_sent' |-> Ordered!Held(call.q, i)']
  BY <1>4, <1>5
<1> DEFINE P == Pace(call.q, waits)
           len == call.q.len
<1>8. /\ P \in Nat /\ P >= 2 /\ P <= Edges /\ Edges \in Nat /\ ReadEdges \in Nat
      /\ call.fn = "burst_read" => P <= ReadEdges
      /\ len \in Nat
  BY <1>1, OwnLimits, CallTypes
<1>9. BeatLeft' = P /\ Pace(call.q, waits)' = P /\ beats_total' = len + 1
  <2>1. waits' = waits
    BY DEF BenchEdge
  <2>2. axi'.sel = PortOf(call.q.addr) /\ (txn_decerr' <=> ~Legal(call.q))
        /\ beats_total' = len + 1
    BY <1>3, <1>4 DEF Serves
  <2>. QED BY <1>1, <1>3, <1>4, <2>1, <2>2, OwnLimits DEF BeatLeft, Pace
<1>10. left' \in Nat /\ left' >= P + len * P
  <2>1. CASE call.fn = "read"
    <3>1. len = 0
      BY <1>1, <2>1, SingleCall
    <3>2. left' = Edges
      BY <1>5, <2>1
    <3> HIDE DEF P, len
    <3>. QED BY <1>8, <3>1, <3>2
  <2>2. CASE call.fn # "read"
    <3>1. call.fn = "burst_read"
      <4>1. call \in Words!Call
        BY <1>1, CallAssumption
      <4>. QED BY <1>1, <2>2, <4>1 DEF Words!Call, is_write, Words!is_write
    <3>2. left' = (len + 1) * ReadEdges /\ P <= ReadEdges
      BY <1>5, <1>8, <2>2, <3>1
    <3> HIDE DEF P, len
    <3>3. len + 1 \in Nat
      BY <1>8
    <3>4. /\ (len + 1) * ReadEdges \in Nat /\ (len + 1) * P <= (len + 1) * ReadEdges
      BY <1>8, <3>2, <3>3, Scaled
    <3>5. (len + 1) * P = P + len * P /\ len * P \in Nat
      BY <1>8, Scaled
    <3>. QED BY <1>8, <3>2, <3>4, <3>5
  <2>. QED BY <2>1, <2>2
<1>11. left' >= BeatLeft' + (beats_total' - 1 - beats_sent') * Pace(call.q, waits)'
  <2>1. beats_total' - 1 - beats_sent' = len
    BY <1>4, <1>8, <1>9
  <2> HIDE DEF P, len
  <2>. QED BY <1>9, <1>10, <2>1
<1>12. CallInv'
  BY <1>1, <1>3, <1>5, <1>6, <1>7, <1>10, <1>11 DEF CallInv, LoopInv
<1>. QED BY <1>3, <1>4, <1>12, Stutters DEF EdgeKeeps

----------------------------------------------------------------------------
(* The loop that collects the R beats.                                     *)

\* What holds of a read in the loop.
LEMMA ReadFacts ==
    ASSUME BenchInv, pc = "r"
    PROVE  /\ IInv /\ SlaveInv /\ CallInv /\ call \in Calls /\ ~is_write(call)
           /\ ServesRead(call) /\ Serves(call) /\ aw = None /\ ar = None /\ w = None
           /\ bready \in BOOLEAN /\ left \in Nat
           /\ got = [i \in 1 .. beats_sent |-> Ordered!Held(call.q, i)]
           /\ left >= BeatLeft + (beats_total - 1 - beats_sent) * Pace(call.q, waits)
           /\ txn_active /\ ~axi.is_write /\ axi.sel = PortOf(call.q.addr)
           /\ axi.sel \in Port /\ axi \in AxiReg
           /\ beats_total = call.q.len + 1 /\ (txn_decerr <=> ~Legal(call.q))
           /\ beats_sent \in Nat /\ beats_total \in Nat /\ beats_sent < beats_total
           /\ beats_total - 1 - beats_sent \in Nat
           /\ bvalid = FALSE /\ rvalid \in BOOLEAN /\ rfifo_valid \in BOOLEAN
           /\ stored_beats = 0
<1>1. /\ IInv /\ SlaveInv /\ CallInv /\ call \in Calls /\ ~is_write(call)
      /\ ServesRead(call)
      /\ got = [i \in 1 .. beats_sent |-> Ordered!Held(call.q, i)]
      /\ left >= BeatLeft + (beats_total - 1 - beats_sent) * Pace(call.q, waits)
      /\ bready \in BOOLEAN /\ left \in Nat
  BY Zenon DEF BenchInv, CallInv, LoopInv
<1>2. Serves(call) /\ aw = None /\ ar = None /\ w = None
  BY <1>1 DEF ServesRead
<1>3. /\ txn_active /\ ~axi.is_write /\ axi.sel = PortOf(call.q.addr)
      /\ beats_total = call.q.len + 1 /\ (txn_decerr <=> ~Legal(call.q))
  BY <1>1, <1>2 DEF Serves
<1>4. axi \in AxiReg /\ axi.sel \in Port
  BY <1>1, <1>3 DEF IInv, OpenInv, TypeOK, AxiReg
<1>5. /\ beats_sent \in Nat /\ beats_total \in Nat /\ beats_sent < beats_total
      /\ bvalid = FALSE /\ rvalid \in BOOLEAN /\ rfifo_valid \in BOOLEAN
  BY <1>1, <1>3, AddressAssumption DEF IInv, ReadInv, TypeOK, Count
<1>6. stored_beats = 0
  BY <1>3 DEF stored_beats
<1>7. beats_total - 1 - beats_sent \in Nat
  BY <1>5
<1>. QED BY <1>1, <1>2, <1>3, <1>4, <1>5, <1>6, <1>7, Zenon

LEMMA Edging ==
    ASSUME BenchInv, BenchEdge, pc = "r"
    PROVE  WaitR /\ Edge(Pins) /\ Progress(Pins) /\ ~w_handshake
           /\ ~aw_handshake /\ ~ar_handshake /\ ~start_write
           /\ ~b_handshake(Pins) /\ ~b_due /\ (r_handshake(Pins) <=> rvalid)
           /\ aw' = None /\ ar' = None /\ w' = None /\ bvalid' = FALSE
           /\ waits' = waits
<1>1. /\ aw = None /\ ar = None /\ w = None /\ bvalid = FALSE /\ ~axi.is_write
  BY ReadFacts
<1>2. WaitR
  BY DEF BenchEdge, DriverBlock, WaitBoth, WaitAW, WaitW, WaitB, WaitAR, WaitR, NoLoop
<1>3. /\ ~w_handshake /\ ~aw_handshake /\ ~ar_handshake /\ ~start_write
      /\ ~b_handshake(Pins) /\ ~b_due /\ (r_handshake(Pins) <=> rvalid)
  BY <1>1 DEF w_handshake, aw_handshake, ar_handshake, start_write, b_handshake, b_due,
              r_handshake, Pins
<1>4. Edge(Pins) /\ Progress(Pins) /\ waits' = waits
  BY <1>3 DEF BenchEdge, Edge, TxnBlock, AcceptWrite, AcceptRead
<1>5. aw' = None /\ ar' = None /\ w' = None
  BY <1>1, <1>3, <1>4 DEF Edge, MasterBlock
<1>6. bvalid' = FALSE
  BY <1>1, <1>3, <1>4 DEF Edge, BBlock, bRegs
<1>. QED BY <1>2, <1>3, <1>4, <1>5, <1>6

\* What is read stays what is held while nothing is stored.
LEMMA HeldKept ==
    ASSUME Memory' = Memory, call' = call
    PROVE  \A i : Ordered!Held(call.q, i)' = Ordered!Held(call.q, i)
BY SameMap DEF Ordered!Held, Memory

LEMMA GotNext ==
    ASSUME NEW n \in Nat, got = [i \in 1 .. n |-> Ordered!Held(call.q, i)]
    PROVE  Append(got, Ordered!Held(call.q, n + 1))
              = [i \in 1 .. n + 1 |-> Ordered!Held(call.q, i)]
<1> DEFINE S == {Ordered!Held(call.q, i) : i \in 1 .. n + 1}
           e == Ordered!Held(call.q, n + 1)
           all == [i \in 1 .. n + 1 |-> Ordered!Held(call.q, i)]
<1>1. got \in Seq(S) /\ Len(got) = n
  <2>1. \A i \in 1 .. n : Ordered!Held(call.q, i) \in S
    OBVIOUS
  <2>2. got \in [1 .. n -> S]
    BY <2>1
  <2> HIDE DEF S
  <2>. QED BY <2>2
<1>2. e \in S
  OBVIOUS
<1>3. all \in Seq(S) /\ Len(all) = n + 1
  <2>1. \A i \in 1 .. n + 1 : Ordered!Held(call.q, i) \in S
    OBVIOUS
  <2>2. all \in [1 .. n + 1 -> S]
    BY <2>1
  <2> HIDE DEF S, all
  <2>. QED BY <2>2
<1>4. \A i \in 1 .. n : all[i] = got[i]
  OBVIOUS
<1>5. all[n + 1] = e
  OBVIOUS
<1> HIDE DEF S, e, all
<1>6. /\ Append(got, e) \in Seq(S) /\ Len(Append(got, e)) = n + 1
      /\ \A i \in 1 .. n : Append(got, e)[i] = got[i]
      /\ Append(got, e)[n + 1] = e
  BY <1>1, <1>2
<1>7. \A i \in 1 .. n + 1 : Append(got, e)[i] = all[i]
  <2> SUFFICES ASSUME NEW i \in 1 .. n + 1 PROVE Append(got, e)[i] = all[i]
    OBVIOUS
  <2>1. i \in 1 .. n \/ i = n + 1
    OBVIOUS
  <2>. QED BY <1>4, <1>5, <1>6, <2>1
<1>8. Append(got, e) = all
  BY <1>3, <1>6, <1>7
<1>. QED BY <1>8 DEF e, all

\* An R beat is accepted and it is not the last.
LEMMA TakeBeat ==
    ASSUME BenchInv, BenchEdge, pc = "r", rvalid, beats_sent # beats_total - 1
    PROVE  EdgeKeeps
<1>1. /\ IInv /\ SlaveInv /\ CallInv /\ call \in Calls /\ ~is_write(call)
      /\ ServesRead(call) /\ Serves(call) /\ txn_active
      /\ bready \in BOOLEAN /\ left \in Nat
      /\ got = [i \in 1 .. beats_sent |-> Ordered!Held(call.q, i)]
      /\ left >= BeatLeft + (beats_total - 1 - beats_sent) * Pace(call.q, waits)
      /\ axi.sel = PortOf(call.q.addr) /\ ~axi.is_write
      /\ beats_total = call.q.len + 1 /\ (txn_decerr <=> ~Legal(call.q))
      /\ beats_sent \in Nat /\ beats_total \in Nat /\ beats_sent < beats_total
  BY ReadFacts
<1>2. /\ WaitR /\ Edge(Pins) /\ Progress(Pins) /\ ~w_handshake /\ ~start_write
      /\ ~b_handshake(Pins) /\ r_handshake(Pins)
      /\ aw' = None /\ ar' = None /\ w' = None /\ bvalid' = FALSE /\ waits' = waits
  BY Edging
<1>3. /\ (txn_decerr \/ rfifo_valid) /\ r.last = FALSE /\ apb_state = "IDLE"
  BY <1>1 DEF IInv, ReadInv, ApbInv
<1>4. ~start_read(Pins) /\ ~apb_done(Pins)
  BY <1>3 DEF start_read, beat_due, apb_done
<1>5. /\ UNCHANGED <<axi, beat_index, beats_total, txn_active, txn_decerr, pslverr_acc>>
      /\ rfifo_valid' = FALSE
  <2>1. txn_active \in BOOLEAN /\ pslverr_acc \in BOOLEAN
    BY <1>1 DEF IInv, TypeOK
  <2>. QED BY <1>2, <1>3, <1>4, <2>1 DEF Progress
<1>6. beats_sent' = beats_sent + 1
  <2>1. beats_sent \in Count /\ beats_sent < LenMax + 1
    BY <1>1, AddressAssumption DEF IInv, TypeOK, Count
  <2>. QED BY <1>2, <2>1, IncExact DEF Progress
<1>7. rvalid' = FALSE
  BY <1>2 DEF Edge, RBlock
<1>8. apb_state' = "IDLE"
  BY <1>2, <1>3, <1>4 DEF Edge, ApbBlock, ApbIdle, ApbStartWrite, ApbStartRead,
                          ApbSetup, ApbWait, ApbComplete, apb_done
<1>9. SlaveInv' /\ Memory' = Memory
  BY <1>1, <1>3, <1>8, RestBus DEF BenchInv
<1>10. call.fn # "read"
  <2>1. ASSUME call.fn = "read" PROVE FALSE
    <3>1. call.q.len = 0
      BY <1>1, <2>1, SingleCall
    <3>. QED BY <1>1, <3>1
  <2>. QED BY <2>1
<1> DEFINE P == Pace(call.q, waits)
           k == beats_total - 1 - beats_sent
<1>11. /\ P \in Nat /\ P >= 2 /\ k \in Nat /\ k >= 1
       /\ k - 1 \in Nat /\ beats_total' - 1 - beats_sent' = k - 1
  <2>1. P \in Nat /\ P >= 2
    BY <1>1, OwnLimits
  <2>2. /\ k \in Nat /\ k >= 1 /\ k - 1 \in Nat
        /\ beats_total' = beats_total /\ beats_total - 1 - (beats_sent + 1) = k - 1
    <3>1. /\ beats_sent \in Nat /\ beats_total \in Nat /\ beats_sent < beats_total
          /\ beats_sent # beats_total - 1
      BY <1>1
    <3>2. beats_total' = beats_total
      BY <1>5
    <3>. QED BY <3>1, <3>2
  <2>. QED BY <1>6, <2>1, <2>2
<1>12. left >= 1 + k * P
  BY <1>1, <1>11 DEF BeatLeft
<1>13. (k - 1 + 1) * P = P + (k - 1) * P /\ (k - 1) * P \in Nat /\ k - 1 + 1 = k
  <2> HIDE DEF P, k
  <2>. QED BY <1>11, Scaled
<1>14. left >= 1 + P + (k - 1) * P
  <2> HIDE DEF P, k
  <2>. QED BY <1>11, <1>12, <1>13
<1>15. left - 1 \in Nat /\ left # 1 /\ left - 1 >= P + (k - 1) * P
  <2> DEFINE z == (k - 1) * P
  <2>1. z \in Nat /\ left >= 1 + P + z /\ left \in Nat /\ P \in Nat /\ P >= 2
    BY <1>1, <1>11, <1>13, <1>14
  <2> HIDE DEF P, k, z
  <2>2. left - 1 \in Nat /\ left # 1 /\ left - 1 >= P + z
    BY <2>1
  <2>. QED BY <2>2 DEF z
<1>16. /\ call' = call /\ result' = result /\ bready' = bready /\ pc' = "r"
       /\ left' = left - 1 /\ got' = Append(got, r.data)
  BY <1>2, <1>3, <1>10, <1>15 DEF WaitR, Again, KeepCall
<1>17. BeatLeft' = P
  BY <1>1, <1>2, <1>5, <1>7, <1>8, OwnLimits DEF BeatLeft
<1>18. Pace(call.q, waits)' = P
  BY <1>2, <1>16 DEF Pace
<1>19. left' >= BeatLeft' + (beats_total' - 1 - beats_sent') * Pace(call.q, waits)'
  <2> HIDE DEF P, k
  <2>. QED BY <1>11, <1>15, <1>16, <1>17, <1>18
<1>20. Serves(call)'
  BY <1>1, <1>5, <1>16, Zenon DEF Serves
<1>21. ServesRead(call)'
  BY <1>2, <1>5, <1>7, <1>20, Zenon DEF ServesRead
<1>22. got' = [i \in 1 .. beats_sent' |-> Ordered!Held(call.q, i)']
  <2>1. r.data = Ordered!Held(call.q, beats_sent + 1)
    BY <1>1 DEF ServesRead
  <2>2. got' = [i \in 1 .. beats_sent + 1 |-> Ordered!Held(call.q, i)]
    BY <1>1, <1>16, <2>1, GotNext
  <2>3. \A i : Ordered!Held(call.q, i)' = Ordered!Held(call.q, i)
    BY <1>9, <1>16, HeldKept
  <2>. QED BY <1>6, <2>2, <2>3
<1>23. left' \in Nat
  BY <1>15, <1>16
<1>24. CallInv'
  BY <1>1, <1>16, <1>19, <1>21, <1>22, <1>23 DEF CallInv, LoopInv
<1>25. NoStore
  <2>1. stored_beats = 0 /\ stored_beats' = 0
    BY <1>1, <1>5 DEF stored_beats
  <2>. QED BY <1>9, <2>1 DEF NoStore
<1>. QED BY <1>9, <1>16, <1>24, <1>25, Stutters DEF EdgeKeeps

\* The last R beat is accepted and the call returns what it has collected.
LEMMA LastBeat ==
    ASSUME BenchInv, BenchEdge, pc = "r", rvalid, beats_sent = beats_total - 1
    PROVE  EdgeKeeps
<1>1. /\ IInv /\ SlaveInv /\ CallInv /\ call \in Calls /\ ~is_write(call)
      /\ ServesRead(call) /\ txn_active
      /\ bready \in BOOLEAN
      /\ got = [i \in 1 .. beats_sent |-> Ordered!Held(call.q, i)]
      /\ ~axi.is_write /\ stored_beats = 0
      /\ beats_total = call.q.len + 1 /\ beats_sent \in Nat /\ beats_total \in Nat
  BY ReadFacts
<1>2. /\ WaitR /\ Edge(Pins) /\ Progress(Pins) /\ ~w_handshake /\ ~start_write
      /\ r_handshake(Pins)
      /\ aw' = None /\ ar' = None /\ w' = None /\ waits' = waits
  BY Edging
<1>3. /\ (txn_decerr \/ rfifo_valid) /\ r.last = TRUE /\ apb_state = "IDLE"
  BY <1>1 DEF IInv, ReadInv, ApbInv
<1>4. ~start_read(Pins) /\ ~apb_done(Pins)
  BY <1>3 DEF start_read, beat_due, apb_done
<1>5. txn_active' = FALSE
  BY <1>2, <1>3 DEF Progress
<1>6. apb_state' = "IDLE"
  BY <1>2, <1>3, <1>4 DEF Edge, ApbBlock, ApbIdle, ApbStartWrite, ApbStartRead,
                          ApbSetup, ApbWait, ApbComplete, apb_done
<1>7. SlaveInv' /\ Memory' = Memory
  BY <1>1, <1>3, <1>6, RestBus DEF BenchInv
<1>8. /\ result' = [resp |-> IF call.fn = "read" THEN r.resp ELSE "none",
                    data |-> Append(got, r.data)]
      /\ call' = None /\ pc' = "idle" /\ left' = 0 /\ bready' = bready
  BY <1>2, <1>3 DEF WaitR, Return
<1>9. CallInv'
  BY <1>1, <1>2, <1>5, <1>8 DEF CallInv, LoopInv
<1>10. stored_beats' = 0
  BY <1>5 DEF stored_beats
<1>11. Append(got, r.data) = [i \in 1 .. call.q.len + 1 |-> Ordered!Held(call.q, i)]
  <2>1. r.data = Ordered!Held(call.q, beats_sent + 1)
    BY <1>1 DEF ServesRead
  <2>2. beats_sent + 1 = call.q.len + 1
    BY <1>1
  <2>. QED BY <1>1, <2>1, <2>2, GotNext
<1>12. r.resp = Ordered!Status(call)
  BY <1>1 DEF ServesRead
<1>13. Ordered!ReturnRead
  <2>1. call # None /\ ~Ordered!is_write(call)
    BY <1>1, CallTypes DEF Ordered!is_write, is_write, Words!is_write
  <2>. QED BY <1>7, <1>8, <1>10, <1>11, <1>12, <2>1, Zenon
           DEF Ordered!ReturnRead, Ordered!Return, Memory
<1>. QED BY <1>7, <1>9, <1>13 DEF EdgeKeeps, Promised, Ordered!CallsNext

\* R is raised from the buffer, or with DECERR.
LEMMA OfferBeat ==
    ASSUME BenchInv, BenchEdge, pc = "r", ~rvalid, txn_decerr \/ rfifo_valid
    PROVE  EdgeKeeps
<1>1. /\ IInv /\ SlaveInv /\ CallInv /\ call \in Calls /\ ~is_write(call)
      /\ ServesRead(call) /\ Serves(call) /\ txn_active
      /\ bready \in BOOLEAN /\ left \in Nat
      /\ got = [i \in 1 .. beats_sent |-> Ordered!Held(call.q, i)]
      /\ ~axi.is_write /\ (txn_decerr <=> ~Legal(call.q))
      /\ beats_sent < beats_total
      /\ rfifo_valid \in BOOLEAN /\ rvalid \in BOOLEAN
  BY ReadFacts
<1>2. /\ WaitR /\ Edge(Pins) /\ Progress(Pins) /\ ~w_handshake /\ ~start_write
      /\ ~b_handshake(Pins) /\ ~r_handshake(Pins)
      /\ aw' = None /\ ar' = None /\ w' = None /\ waits' = waits
  BY Edging
<1>3. apb_state = "IDLE" /\ r_due
  BY <1>1 DEF IInv, ApbInv, r_due
<1>4. ~start_read(Pins) /\ ~apb_done(Pins)
  BY <1>3 DEF start_read, beat_due, apb_done
<1>5. /\ UNCHANGED <<axi, beat_index, beats_sent, beats_total, txn_active, txn_decerr,
                     pslverr_acc, rfifo, rfifo_valid>>
  <2>1. txn_active \in BOOLEAN /\ pslverr_acc \in BOOLEAN
    BY <1>1 DEF IInv, TypeOK
  <2>. QED BY <1>1, <1>2, <1>4, <2>1 DEF Progress
<1>6. /\ rvalid' = TRUE
      /\ r'.data = IF txn_decerr THEN Zero ELSE rfifo.data
      /\ r'.resp = IF txn_decerr THEN "DECERR" ELSE rfifo.resp
  BY <1>2, <1>3 DEF Edge, RBlock
<1>7. apb_state' = "IDLE"
  BY <1>2, <1>3, <1>4 DEF Edge, ApbBlock, ApbIdle, ApbStartWrite, ApbStartRead,
                          ApbSetup, ApbWait, ApbComplete, apb_done
<1>8. SlaveInv' /\ Memory' = Memory
  BY <1>1, <1>3, <1>7, RestBus DEF BenchInv
<1> DEFINE rest == (beats_total - 1 - beats_sent) * Pace(call.q, waits)
<1>9. left >= 2 + rest /\ rest \in Nat
  <2>1. left >= BeatLeft + rest
    BY ReadFacts
  <2>2. BeatLeft = 2
    BY DEF BeatLeft
  <2>3. /\ beats_total - 1 - beats_sent \in Nat /\ Pace(call.q, waits) \in Nat
    BY <1>1, ReadFacts, OwnLimits
  <2>4. rest \in Nat
    BY <2>3, Scaled
  <2> HIDE DEF rest
  <2>. QED BY <2>1, <2>2, <2>4
<1>10. left - 1 \in Nat /\ left # 1 /\ left - 1 >= 1 + rest
  <2>1. left \in Nat
    BY <1>1
  <2> HIDE DEF rest
  <2>. QED BY <1>9, <2>1
<1>11. /\ call' = call /\ result' = result /\ bready' = bready /\ pc' = "r"
       /\ left' = left - 1 /\ got' = got
  BY <1>2, <1>10 DEF WaitR, Again, KeepCall
<1>12. BeatLeft' = 1
  BY <1>6 DEF BeatLeft
<1>13. (beats_total' - 1 - beats_sent') * Pace(call.q, waits)' = rest
  BY <1>2, <1>5, <1>11 DEF Pace
<1>14. left' >= BeatLeft' + (beats_total' - 1 - beats_sent') * Pace(call.q, waits)'
  <2> HIDE DEF rest
  <2>. QED BY <1>10, <1>11, <1>12, <1>13
<1>15. Serves(call)'
  BY <1>1, <1>5, <1>11, Zenon DEF Serves
<1>16. \A i : Ordered!Held(call.q, i)' = Ordered!Held(call.q, i)
  BY <1>8, <1>11, HeldKept
<1>17. r'.data = Ordered!Held(call.q, beats_sent + 1) /\ r'.resp = Ordered!Status(call)
  <2>1. Ordered!Legal(call.q) = Legal(call.q) /\ ~Ordered!is_write(call)
    BY <1>1, SameMap DEF Ordered!is_write, is_write, Words!is_write
  <2>2. CASE txn_decerr
    BY <1>1, <1>6, <2>1, <2>2 DEF Ordered!Held, Ordered!Status
  <2>3. CASE ~txn_decerr
    <3>1. rfifo = [data |-> Ordered!Held(call.q, beats_sent + 1), resp |-> "OKAY"]
      BY <1>1, <2>3 DEF ServesRead
    <3>2. Ordered!Status(call) = "OKAY"
      BY <1>1, <2>1, <2>3 DEF Ordered!Status
    <3>. QED BY <1>6, <2>3, <3>1, <3>2
  <2>. QED BY <2>2, <2>3
<1>18. Ordered!Status(call)' = Ordered!Status(call)
  BY <1>11 DEF Ordered!Status
<1>19. Ordered!Held(call.q, beats_sent + 1)' = Ordered!Held(call.q, beats_sent + 1)
  BY <1>5, <1>8, <1>11 DEF Ordered!Held, Memory
<1>20. ServesRead(call)'
  <2>1. rfifo_valid' => rfifo' = [data |-> Ordered!Held(call.q, beats_sent + 1)', resp |-> "OKAY"]
    BY <1>1, <1>5, <1>19 DEF ServesRead
  <2>2. /\ r'.data = Ordered!Held(call.q, beats_sent + 1)'
        /\ r'.resp = Ordered!Status(call)'
    BY <1>17, <1>18, <1>19
  <2>. QED BY <1>2, <1>15, <2>1, <2>2, Zenon DEF ServesRead
<1>21. got' = [i \in 1 .. beats_sent' |-> Ordered!Held(call.q, i)']
  BY <1>1, <1>5, <1>11, <1>16
<1>22. left' \in Nat
  BY <1>10, <1>11
<1>23. CallInv'
  BY <1>1, <1>11, <1>14, <1>20, <1>21, <1>22 DEF CallInv, LoopInv
<1>24. NoStore
  <2>1. stored_beats = 0 /\ stored_beats' = 0
    BY <1>1, <1>5 DEF stored_beats
  <2>. QED BY <1>8, <2>1 DEF NoStore
<1>. QED BY <1>8, <1>11, <1>23, <1>24, Stutters DEF EdgeKeeps

\* The next beat of a read is started on APB.
LEMMA StartBeat ==
    ASSUME BenchInv, BenchEdge, pc = "r", ~rvalid, ~txn_decerr, ~rfifo_valid,
           apb_state = "IDLE"
    PROVE  EdgeKeeps
<1>1. /\ IInv /\ SlaveInv /\ CallInv /\ call \in Calls /\ ~is_write(call)
      /\ ServesRead(call) /\ Serves(call) /\ txn_active
      /\ bready \in BOOLEAN /\ left \in Nat
      /\ got = [i \in 1 .. beats_sent |-> Ordered!Held(call.q, i)]
      /\ ~axi.is_write /\ (txn_decerr <=> ~Legal(call.q))
      /\ axi.sel = PortOf(call.q.addr)
      /\ rfifo_valid \in BOOLEAN /\ rvalid \in BOOLEAN /\ stored_beats = 0
  BY ReadFacts
<1>2. /\ WaitR /\ Edge(Pins) /\ Progress(Pins) /\ ~w_handshake /\ ~start_write
      /\ ~b_handshake(Pins) /\ ~r_handshake(Pins)
      /\ aw' = None /\ ar' = None /\ w' = None /\ waits' = waits
  BY Edging
<1>3. beat_index < beats_total
  <2>1. beats_sent \in Nat /\ beats_total \in Nat /\ beats_sent < beats_total
    BY ReadFacts
  <2>2. beat_index = beats_sent + 0
    BY <1>1 DEF IInv, ReadInv
  <2>. QED BY <2>1, <2>2
<1>4. start_read(Pins) /\ ~apb_done(Pins) /\ ~r_due
  BY <1>1, <1>3 DEF start_read, beat_due, apb_done, r_due
<1>5. /\ UNCHANGED <<axi, beat_index, beats_sent, beats_total, txn_active, txn_decerr,
                     pslverr_acc>>
      /\ rfifo_valid' = FALSE
  <2>1. txn_active \in BOOLEAN /\ pslverr_acc \in BOOLEAN
    BY <1>1 DEF IInv, TypeOK
  <2>. QED BY <1>1, <1>2, <1>4, <2>1 DEF Progress
<1>6. rvalid' = FALSE
  BY <1>1, <1>2, <1>4 DEF Edge, RBlock, rRegs
<1>7. apb_state' = "SETUP"
  BY <1>2, <1>4 DEF Edge, ApbBlock, ApbIdle, ApbStartWrite, ApbStartRead, Drive,
                    ApbSetup, ApbWait, ApbComplete, apb_done
<1>8. SlaveInv' /\ Memory' = Memory
  BY <1>1, <1>7, RestBus DEF BenchInv
<1> DEFINE n == AccessEdges(waits[PortOf(call.q.addr)])
           rest == (beats_total - 1 - beats_sent) * Pace(call.q, waits)
<1>9. n \in Nat /\ BeatLeft = n + 4 /\ BeatLeft' = 1 + n + 2
  <2>1. n \in Nat
    BY <1>1, OwnLimits
  <2>2. BeatLeft = n + 4
    BY <1>1 DEF BeatLeft
  <2>3. BusLeft' = 1 + n
    BY <1>1, <1>2, <1>5, <1>7 DEF BusLeft
  <2>4. BeatLeft' = BusLeft' + 2
    BY <1>5, <1>6, <1>7 DEF BeatLeft
  <2>. QED BY <2>1, <2>2, <2>3, <2>4
<1>10. left >= n + 4 + rest /\ rest \in Nat
  <2>1. left >= BeatLeft + rest
    BY ReadFacts
  <2>2. beats_total - 1 - beats_sent \in Nat /\ Pace(call.q, waits) \in Nat
    BY <1>1, ReadFacts, OwnLimits
  <2>3. rest \in Nat
    BY <2>2, Scaled
  <2> HIDE DEF rest, n
  <2>. QED BY <1>9, <2>1, <2>3
<1>11. left - 1 \in Nat /\ left # 1 /\ left - 1 >= 1 + n + 2 + rest
  <2>1. left \in Nat
    BY <1>1
  <2> HIDE DEF rest, n
  <2>. QED BY <1>9, <1>10, <2>1
<1>12. /\ call' = call /\ result' = result /\ bready' = bready /\ pc' = "r"
       /\ left' = left - 1 /\ got' = got
  BY <1>2, <1>11 DEF WaitR, Again, KeepCall
<1>13. (beats_total' - 1 - beats_sent') * Pace(call.q, waits)' = rest
  BY <1>2, <1>5, <1>12 DEF Pace
<1>14. left' >= BeatLeft' + (beats_total' - 1 - beats_sent') * Pace(call.q, waits)'
  <2> HIDE DEF rest, n
  <2>. QED BY <1>9, <1>11, <1>12, <1>13
<1>15. Serves(call)'
  BY <1>1, <1>5, <1>12, Zenon DEF Serves
<1>16. ServesRead(call)'
  BY <1>2, <1>5, <1>6, <1>15, Zenon DEF ServesRead
<1>17. \A i : Ordered!Held(call.q, i)' = Ordered!Held(call.q, i)
  BY <1>8, <1>12, HeldKept
<1>18. got' = [i \in 1 .. beats_sent' |-> Ordered!Held(call.q, i)']
  BY <1>1, <1>5, <1>12, <1>17
<1>19. left' \in Nat
  BY <1>11, <1>12
<1>20. CallInv'
  BY <1>1, <1>12, <1>14, <1>16, <1>18, <1>19 DEF CallInv, LoopInv
<1>21. NoStore
  <2>1. stored_beats' = 0
    BY <1>1, <1>5 DEF stored_beats
  <2>. QED BY <1>1, <1>8, <2>1 DEF NoStore
<1>. QED BY <1>8, <1>12, <1>20, <1>21, Stutters DEF EdgeKeeps

\* The transfer of a read goes on, or completes and fills the buffer.
LEMMA FetchBeat ==
    ASSUME BenchInv, BenchEdge, pc = "r", apb_state # "IDLE"
    PROVE  EdgeKeeps
<1>1. /\ IInv /\ SlaveInv /\ CallInv /\ call \in Calls /\ ~is_write(call)
      /\ ServesRead(call)
      /\ bready \in BOOLEAN /\ left \in Nat
      /\ got = [i \in 1 .. beats_sent |-> Ordered!Held(call.q, i)]
      /\ ~axi.is_write
  BY ReadFacts
<1>2. WaitR /\ waits' = waits
  BY Edging
<1>3. ~rvalid /\ ~rfifo_valid /\ ~txn_decerr
  BY <1>1 DEF IInv, ApbInv
<1> DEFINE rest == (beats_total - 1 - beats_sent) * Pace(call.q, waits)
<1>4. /\ SlaveInv' /\ BusLeft' = BusLeft - 1 /\ BusLeft \in Nat /\ BusLeft >= 1
  BY <1>1, BusStep DEF BusRuns
<1>5. left >= BusLeft + 2 + rest /\ rest \in Nat
  <2>1. left >= BeatLeft + rest
    BY ReadFacts
  <2>2. BeatLeft = BusLeft + 2
    BY <1>3 DEF BeatLeft
  <2>3. beats_total - 1 - beats_sent \in Nat /\ Pace(call.q, waits) \in Nat
    BY <1>1, ReadFacts, OwnLimits
  <2>4. rest \in Nat
    BY <2>3, Scaled
  <2> HIDE DEF rest
  <2>. QED BY <1>4, <2>1, <2>2, <2>4
<1>6. left - 1 \in Nat /\ left # 1 /\ left - 1 >= BusLeft + 1 + rest
  <2>1. left \in Nat
    BY <1>1
  <2> HIDE DEF rest
  <2>. QED BY <1>4, <1>5, <2>1
<1>7. /\ call' = call /\ result' = result /\ bready' = bready /\ pc' = "r"
      /\ left' = left - 1 /\ got' = got
  BY <1>2, <1>3, <1>6 DEF WaitR, Again, KeepCall
<1>8. /\ UNCHANGED <<aw, w, ar, beats_sent, beats_total, txn_decerr>>
      /\ rvalid' = FALSE
      /\ rfifo_valid' => apb_state' = "IDLE"
      /\ apb_state' = "IDLE" => rfifo_valid'
  BY <1>1, <1>7, BusServes
<1>9. ServesRead(call)' /\ NoStore
  BY <1>1, <1>7, BusServesRead
<1>10. BeatLeft' = BusLeft' + 2
  <2>1. CASE rfifo_valid'
    <3>1. BusLeft' = 0
      BY <1>8, <2>1 DEF BusLeft
    <3>. QED BY <1>8, <2>1, <3>1 DEF BeatLeft
  <2>2. CASE ~rfifo_valid'
    BY <1>3, <1>8, <2>2 DEF BeatLeft
  <2>. QED BY <2>1, <2>2
<1>11. (beats_total' - 1 - beats_sent') * Pace(call.q, waits)' = rest
  BY <1>2, <1>7, <1>8 DEF Pace
<1>12. left' >= BeatLeft' + (beats_total' - 1 - beats_sent') * Pace(call.q, waits)'
  <2> HIDE DEF rest
  <2>. QED BY <1>4, <1>5, <1>6, <1>7, <1>10, <1>11
<1>13. \A i : Ordered!Held(call.q, i)' = Ordered!Held(call.q, i)
  BY <1>7, <1>9, HeldKept DEF NoStore
<1>14. got' = [i \in 1 .. beats_sent' |-> Ordered!Held(call.q, i)']
  BY <1>1, <1>7, <1>8, <1>13
<1>15. left' \in Nat
  BY <1>6, <1>7
<1>16. CallInv'
  BY <1>1, <1>7, <1>9, <1>12, <1>14, <1>15 DEF CallInv, LoopInv
<1>. QED BY <1>4, <1>7, <1>9, <1>16, Stutters DEF EdgeKeeps

LEMMA RLoop ==
    ASSUME BenchInv, BenchEdge, pc = "r" PROVE EdgeKeeps
<1>1. apb_state # "IDLE" => ~rvalid
  BY DEF BenchInv, IInv, ApbInv
<1>. QED BY <1>1, TakeBeat, LastBeat, OfferBeat, StartBeat, FetchBeat

----------------------------------------------------------------------------
(* The steps between edges, and the theorems.                              *)

LEMMA EdgeStep == ASSUME BenchInv, BenchEdge PROVE BenchInv' /\ Promised
<1>1. pc \in {"idle", "aw_w", "aw", "w", "b", "ar", "r"}
  BY DEF BenchInv, CallInv
<1>2. EdgeKeeps
  BY <1>1, IdleLoop, AWLoop, BothLoop, WLoop, BLoop, ARLoop, RLoop
<1>3. IInv'
  <2>1. Pins \in Inputs
    BY PinsType DEF BenchInv
  <2>. QED BY <2>1, EdgeInv DEF BenchInv, BenchEdge
<1>. QED BY <1>2, <1>3 DEF EdgeKeeps, BenchInv

\* Between two edges the call changes nothing but the AXI channels it drives.
LEMMA ChannelsInv ==
    ASSUME IInv, UNCHANGED <<txnRegs, apbRegs, bRegs, rRegs>>,
           aw' \in AWRequests \cup {None}, ar' \in ARRequests \cup {None},
           w' \in WBeats \cup {None}
    PROVE  IInv'
<1>1. TypeOK'
  BY DEF IInv, TypeOK, txnRegs, apbRegs, apbPins, bRegs, rRegs
<1>2. OpenInv' /\ ApbInv' /\ PortInv' /\ WriteInv' /\ ReadInv'
  BY DEF IInv, OpenInv, ApbInv, PortInv, WriteInv, ReadInv,
         txnRegs, apbRegs, apbPins, bRegs, rRegs
<1>. QED BY <1>1, <1>2 DEF IInv

LEMMA SlavesStay ==
    ASSUME SlaveInv, UNCHANGED <<txnRegs, apbRegs, waits, slave>>
    PROVE  SlaveInv' /\ NoStore
<1>1. UNCHANGED <<axi, apb_state, pbus, txn_active, txn_decerr, beat_index, waits, slave>>
  BY DEF txnRegs, apbRegs, apbPins
<1>2. NoStore
  BY <1>1 DEF NoStore, stored_beats, written_early, Memory
<1>3. SlaveInv'
  BY <1>1 DEF SlaveInv, written_early, Write
<1>. QED BY <1>2, <1>3

LEMMA BeginStep ==
    ASSUME BenchInv, NEW c \in Calls, Begin(c) PROVE BenchInv' /\ Promised
<1>1. /\ IInv /\ SlaveInv /\ CallInv /\ pc = "idle" /\ call = None /\ ~txn_active
      /\ aw = None /\ w = None /\ ar = None /\ bready \in BOOLEAN
  BY DEF BenchInv, CallInv, LoopInv, Begin
<1>2. /\ call' = c /\ beat' = 0 /\ got' = <<>> /\ result' = Words!NoResult
      /\ UNCHANGED <<txnRegs, apbRegs, bRegs, rRegs, waits, slave>>
      /\ is_write(c) => BeginWrite(c)
      /\ ~is_write(c) => BeginRead(c)
  BY DEF Begin
<1>3. SlaveInv' /\ NoStore
  BY <1>1, <1>2, SlavesStay
<1>4. Edges \in Nat /\ Edges >= 2
  <2>1. waits \in Waits
    BY <1>1 DEF SlaveInv
  <2>. QED BY <2>1, Limits
<1>5. txn_active' = FALSE
  BY <1>1, <1>2 DEF txnRegs, IInv, TypeOK
<1>6. IInv' /\ CallInv'
  <2>1. CASE is_write(c) /\ c.fn = "write"
    <3>1. /\ aw' = c.q /\ w' = WBeatOf(c, 0) /\ ar' = None
          /\ pc' = "aw_w" /\ left' = Edges /\ bready' = TRUE
      BY <1>1, <1>2, <2>1 DEF BeginWrite, Enter
    <3>2. c.q \in AWRequests /\ WBeatOf(c, 0) \in WBeats /\ c.q # None
      BY <2>1, WriteCall, SingleCall, CallTypes
    <3>3. IInv'
      BY <1>1, <1>2, <3>1, <3>2, ChannelsInv
    <3>4. w' = WBeatOf(call, 0)'
      BY <1>2, <3>1 DEF WBeatOf
    <3>5. CallInv'
      BY <1>2, <1>4, <1>5, <2>1, <3>1, <3>2, <3>4 DEF CallInv, LoopInv
    <3>. QED BY <3>3, <3>5
  <2>2. CASE is_write(c) /\ c.fn # "write"
    <3>1. /\ aw' = c.q /\ w' = None /\ ar' = None
          /\ pc' = "aw" /\ left' = Edges /\ bready' = TRUE
      BY <1>1, <1>2, <2>2 DEF BeginWrite, Enter
    <3>2. c.q \in AWRequests
      BY <2>2, WriteCall
    <3>3. IInv'
      BY <1>1, <1>2, <3>1, <3>2, ChannelsInv
    <3>4. CallInv'
      BY <1>2, <1>4, <1>5, <2>2, <3>1 DEF CallInv, LoopInv, is_write
    <3>. QED BY <3>3, <3>4
  <2>3. CASE ~is_write(c)
    <3>1. /\ ar' = c.q /\ aw' = None /\ w' = None
          /\ pc' = "ar" /\ left' = Edges /\ bready' = bready
      BY <1>1, <1>2, <2>3 DEF BeginRead, Enter
    <3>2. c.q \in ARRequests
      BY <2>3, ReadCall
    <3>3. IInv'
      BY <1>1, <1>2, <3>1, <3>2, ChannelsInv
    <3>4. CallInv'
      BY <1>1, <1>2, <1>4, <1>5, <2>3, <3>1 DEF CallInv, LoopInv, is_write
    <3>. QED BY <3>3, <3>4
  <2>. QED BY <2>1, <2>2, <2>3
<1>7. Ordered!Begin(c)
  <2>1. Ordered!NoResult = Words!NoResult
    BY DEF Ordered!NoResult, Words!NoResult
  <2>. QED BY <1>1, <1>2, <1>3, <2>1, Zenon DEF Ordered!Begin, NoStore, Memory
<1>8. Promised
  BY <1>7 DEF Promised, Ordered!CallsNext
<1>. QED BY <1>3, <1>6, <1>8 DEF BenchInv

LEMMA DriveStep ==
    ASSUME BenchInv, DriveBeat PROVE BenchInv' /\ Promised
<1>1. /\ IInv /\ SlaveInv /\ CallInv /\ pc = "w" /\ call \in Calls /\ is_write(call)
      /\ beat = Taken /\ beat < Words!Sent(call)
  BY DEF BenchInv, CallInv, LoopInv, DriveBeat, beat_to_drive
<1>2. /\ w' = WBeatOf(call, beat)
      /\ UNCHANGED <<aw, ar, txnRegs, apbRegs, bRegs, rRegs, waits, slave, driver>>
  BY DEF DriveBeat
<1>3. UNCHANGED <<bready, call, pc, beat, left, got, result>>
  BY <1>2 DEF driver
<1>4. SlaveInv' /\ NoStore
  BY <1>1, <1>2, SlavesStay
<1>5. IInv'
  <2>1. beat \in Nat /\ Words!Sent(call) \in Nat
    BY <1>1, CallTypes, PinAssumption, AddressAssumption, BurstAssumption
       DEF IInv, TypeOK, Count, Taken
  <2>2. beat \in 0 .. Words!Sent(call) - 1
    BY <1>1, <2>1
  <2>3. w' \in WBeats
    BY <1>1, <1>2, <2>2, WriteCall
  <2>4. aw' \in AWRequests \cup {None} /\ ar' \in ARRequests \cup {None}
    BY <1>1, <1>2 DEF IInv, TypeOK
  <2>. QED BY <1>1, <1>2, <2>3, <2>4, ChannelsInv
<1>6. UNCHANGED <<axi, beat_index, beats_total, txn_active, txn_decerr, pslverr_acc,
                  wlast_err, w_done, apb_state, pbus, bvalid, b, waits, slave, aw, ar>>
  BY <1>2 DEF txnRegs, apbRegs, apbPins, bRegs
<1>7. /\ is_write(call)' = is_write(call) /\ Words!Sent(call)' = Words!Sent(call)
      /\ Taken' = Taken /\ BusLeft' = BusLeft
      /\ WBeatOf(call, beat)' = WBeatOf(call, beat)
  BY <1>3, <1>6 DEF is_write, Words!Sent, Taken, BusLeft, WBeatOf
<1>8. ServesWrite(call)'
  <2>1. ServesWrite(call)
    BY <1>1 DEF CallInv, LoopInv
  <2>2. Serves(call)' = Serves(call)
    BY <1>3, <1>6 DEF Serves, is_write
  <2>3. Ordered!Status(call)' = Ordered!Status(call)
    BY <1>3
  <2>. QED BY <1>3, <1>6, <2>1, <2>2, <2>3 DEF ServesWrite
<1>9. CallInv'
  BY <1>1, <1>2, <1>3, <1>6, <1>7, <1>8 DEF CallInv, LoopInv
<1>. QED BY <1>3, <1>4, <1>5, <1>9, Stutters DEF BenchInv

\* The memories of the slaves that a test starts with.
LEMMA NewSlaves ==
    waits \in Waits /\ slave = [p \in Port |-> NewSlave] /\ apb_state = "IDLE"
    => SlaveInv /\ Memory = Ordered!Blank
<1> SUFFICES ASSUME waits \in Waits, slave = [p \in Port |-> NewSlave],
                    apb_state = "IDLE"
             PROVE  SlaveInv /\ Memory = Ordered!Blank
  OBVIOUS
<1>1. Words!Blank[0] = [a \in Words!Cells |-> Zero]
  BY DEF Words!Blank, Words!Port
<1>2. NewSlave \in [pready : BOOLEAN, prdata : Data, wait_remaining : Nat,
                    mem : [Words!Cells -> Data]]
  BY <1>1, PinAssumption DEF NewSlave
<1>3. SlaveInv
  BY <1>2 DEF SlaveInv
<1>4. Ordered!Cells = Words!Cells
  BY Zenon DEF Ordered!Cells, Words!Cells, Ordered!BeatAddr, Words!BeatAddr
<1>5. NewSlave.mem = Words!Blank[0]
  BY DEF NewSlave
<1>6. Memory = Ordered!Blank
  BY <1>1, <1>4, <1>5, SameMap DEF Memory, Ordered!Blank
<1>. QED BY <1>3, <1>6

LEMMA StartStep ==
    ASSUME BenchInv, start_slaves PROVE BenchInv' /\ Promised
<1>1. IInv'
  BY ResetInv DEF BenchInv, start_slaves
<1>2. /\ apb_state' = "IDLE" /\ txn_active' = FALSE
      /\ aw' = None /\ w' = None /\ ar' = None
      /\ waits' \in Waits /\ slave' = [p \in Port |-> NewSlave]
      /\ bready' = TRUE /\ call' = None /\ pc' = "idle" /\ left' = 0
      /\ result' = Words!NoResult
  BY DEF start_slaves, Reset
<1>3. SlaveInv' /\ Memory' = Ordered!Blank'
  <2>1. (waits \in Waits /\ slave = [p \in Port |-> NewSlave] /\ apb_state = "IDLE")'
    BY <1>2
  <2>2. (SlaveInv /\ Memory = Ordered!Blank)'
    BY <2>1, NewSlaves, PTL
  <2>. QED BY <2>2
<1>4. CallInv'
  BY <1>2 DEF CallInv, LoopInv
<1>5. stored_beats' = 0
  BY <1>2 DEF stored_beats
<1>6. Ordered!Blank' = Ordered!Blank
  OBVIOUS
<1>7. Ordered!NoResult = Words!NoResult
  BY DEF Ordered!NoResult, Words!NoResult
<1>8. Ordered!Restart
  BY <1>2, <1>3, <1>5, <1>6, <1>7, Zenon DEF Ordered!Restart, Memory
<1>. QED BY <1>1, <1>3, <1>4, <1>8 DEF BenchInv, Promised, Ordered!CallsNext

LEMMA Starts == BenchInit => BenchInv /\ Ordered!CallsInit
<1> SUFFICES ASSUME BenchInit PROVE BenchInv /\ Ordered!CallsInit
  OBVIOUS
<1>1. IInv
  BY InitInv DEF BenchInit
<1>2. /\ apb_state = "IDLE" /\ txn_active = FALSE
      /\ aw = None /\ w = None /\ ar = None
      /\ waits \in Waits /\ slave = [p \in Port |-> NewSlave]
      /\ bready = TRUE /\ call = None /\ pc = "idle" /\ left = 0
      /\ result = Words!NoResult
  BY DEF BenchInit, Init
<1>3. SlaveInv /\ Memory = Ordered!Blank
  BY <1>2, NewSlaves
<1>4. CallInv
  BY <1>2 DEF CallInv, LoopInv
<1>5. stored_beats = 0
  BY <1>2 DEF stored_beats
<1>6. Ordered!NoResult = Words!NoResult
  BY DEF Ordered!NoResult, Words!NoResult
<1>7. Ordered!CallsInit
  BY <1>2, <1>3, <1>5, <1>6, Zenon DEF Ordered!CallsInit, Memory
<1>. QED BY <1>1, <1>3, <1>4, <1>7 DEF BenchInv

LEMMA BenchStep == BenchInv /\ [BenchNext]_benchVars => BenchInv' /\ Promised
<1> SUFFICES ASSUME BenchInv, [BenchNext]_benchVars PROVE BenchInv' /\ Promised
  OBVIOUS
<1>1. CASE BenchNext
  BY <1>1, BeginStep, DriveStep, EdgeStep, StartStep DEF BenchNext
<1>2. CASE UNCHANGED benchVars
  <2>1. /\ UNCHANGED <<aw, w, ar, txnRegs, apbRegs, bRegs, rRegs, waits, slave, driver>>
        /\ IInv /\ SlaveInv /\ CallInv
    BY <1>2 DEF benchVars, vars, master, BenchInv
  <2>2. SlaveInv' /\ NoStore
    BY <2>1, SlavesStay
  <2>3. IInv'
    BY <2>1, ChannelsInv DEF IInv, TypeOK
  <2>4. UNCHANGED <<bready, call, pc, beat, left, got, result>>
    BY <2>1 DEF driver
  <2>5. UNCHANGED <<axi, beat_index, beats_sent, beats_total, txn_active, txn_decerr,
                    pslverr_acc, wlast_err, w_done, rfifo, rfifo_valid,
                    apb_state, pbus, bvalid, b, rvalid, r>>
    BY <2>1 DEF txnRegs, apbRegs, apbPins, bRegs, rRegs
  <2>6. /\ Taken' = Taken /\ BusLeft' = BusLeft /\ BeatLeft' = BeatLeft
        /\ Pace(call.q, waits)' = Pace(call.q, waits)
        /\ is_write(call)' = is_write(call) /\ Words!Sent(call)' = Words!Sent(call)
        /\ WBeatOf(call, 0)' = WBeatOf(call, 0) /\ WBeatOf(call, beat)' = WBeatOf(call, beat)
    BY <2>1, <2>4, <2>5 DEF Taken, BusLeft, BeatLeft, Pace, is_write, Words!Sent, WBeatOf
  <2>7. \A i : Ordered!Held(call.q, i)' = Ordered!Held(call.q, i)
    BY <2>2, <2>4, HeldKept DEF NoStore
  <2>8. Serves(call)' <=> Serves(call)
    BY <2>4, <2>5, <2>6 DEF Serves, is_write
  <2>9. Ordered!Status(call)' = Ordered!Status(call)
    BY <2>4
  <2>10. ServesWrite(call)' <=> ServesWrite(call)
    BY <2>1, <2>4, <2>5, <2>8, <2>9 DEF ServesWrite
  <2>11. ServesRead(call)' <=> ServesRead(call)
    BY <2>1, <2>4, <2>5, <2>7, <2>8, <2>9 DEF ServesRead
  <2>12. CallInv'
    BY <2>1, <2>4, <2>5, <2>6, <2>7, <2>10, <2>11 DEF CallInv, LoopInv
  <2>. QED BY <2>1, <2>2, <2>3, <2>4, <2>12, Stutters DEF BenchInv
<1>. QED BY <1>1, <1>2

\* The bridge, the slaves and the call that runs stay in step: in each wait
\* loop of env.py the bridge is as far as the loop supposes and has edges
\* enough left, and a slave repeats an early write only onto itself.
THEOREM InStep == BenchSpec => []BenchInv
<1>1. BenchInit => BenchInv
  BY Starts
<1>2. BenchInv /\ [BenchNext]_benchVars => BenchInv'
  BY BenchStep
<1>. QED BY <1>1, <1>2, PTL DEF BenchSpec

\* No wait loop reaches its limit, whatever the calls and the wait states: none
\* of the AssertionErrors of AXI4Driver is ever raised (env.py).
THEOREM NoLimitReached == BenchSpec => [](pc # "failed")
<1>1. BenchInv => pc # "failed"
  BY DEF BenchInv, CallInv
<1>. QED BY <1>1, InStep, PTL

\* The calls of a test behave as if each beat were stored at once and in order
\* (write, burst_write, read and burst_read of env.py, through the bridge).
THEOREM CallsInOrder == BenchSpec => CallsOrdered
<1>1. BenchInit => Ordered!CallsInit
  BY Starts
<1>2. BenchInv /\ [BenchNext]_benchVars => [Ordered!CallsNext]_(Ordered!callVars)
  BY BenchStep DEF Promised
<1>. QED BY <1>1, <1>2, InStep, PTL DEF BenchSpec, CallsOrdered, Ordered!CallsSpec
=============================================================================
