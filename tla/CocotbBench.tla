---------------------------- MODULE CocotbBench -----------------------------
(***************************************************************************)
(* The burst bridge inside its cocotb bench: the AXI4Driver and the two    *)
(* APBSlave coroutines of cocotb/env.py on its pins.  After RisingEdge a   *)
(* coroutine reads the pins of before the edge, and what it drives is seen *)
(* on the next edge: a handshake that a coroutine sees is the handshake.   *)
(* A driver call raises its channels between two edges and is then one     *)
(* wait loop after another, each with a limit; the tests run their calls   *)
(* one at a time.                                                          *)
(***************************************************************************)
EXTENDS AxiApbBurst, Sequences

CONSTANTS
    Calls,          \* the driver calls that the tests make
    Keep,           \* a byte lane that WSTRB leaves out
    Waits,          \* the wait_cycles arguments of start_slaves, per port
    Edges,          \* limit of a wait loop (64 in the code)
    ReadEdges       \* the same per beat of burst_read (32 in the code)

VARIABLES
    waits,          \* wait_cycles of the slaves of this test
    slave,          \* per port: PREADY, PRDATA, wait_remaining and mem
    bready,         \* BREADY; RREADY stays high
    call, pc, beat, left, got,  \* the call that runs, its wait loop, the beat it
                                \* is at, the edges left, the R beats collected
    result          \* what the last call returned, until the next one

driver    == <<bready, call, pc, beat, left, got, result>>
benchVars == <<vars, waits, slave, driver>>

Words == INSTANCE OrderedCalls
            WITH mem <- [p \in Port |-> slave[p].mem],
                 stored <- 0

is_write(c) == Words!is_write(c)

WBeatOf(c, i) == [data |-> c.data[i + 1], last |-> i = c.wlast]

\* write and read are calls for one beat; the pins can carry every call.
ASSUME CallAssumption ==
    /\ Calls \subseteq Words!Call /\ None \notin Calls
    /\ \A c \in Calls :
          /\ c.fn \in {"write", "read"} => c.q.len = 0 /\ c.wlast = 0
          /\ IF is_write(c)
             THEN /\ c.q \in AWRequests /\ Len(c.data) >= Words!Sent(c)
                  /\ \A i \in 0 .. Words!Sent(c) - 1 : WBeatOf(c, i) \in WBeats
             ELSE c.q \in ARRequests

\* What is stored is a word again, and the pins can carry it.
ASSUME SlaveAssumption ==
    /\ \A old, new \in Data : Words!Merge(old, new) \in Data
    /\ \A ready \in BOOLEAN, word \in Data :
          [ready |-> ready, err |-> FALSE, data |-> word] \in Answers
    /\ Waits \subseteq [Port -> Nat]

\* Access edges of a slave with n wait states, and the edges from one beat of
\* a read to the next when it is accepted at once.
AccessEdges(n) == IF n = 0 THEN 1 ELSE n + 2
Pace(q, wt) == IF Legal(q) THEN AccessEdges(wt[PortOf(q.addr)]) + 4 ELSE 2

\* The limits leave time for the slowest beat, and no more than that is asked.
ASSUME LimitAssumption ==
    /\ Edges \in Nat /\ ReadEdges \in Nat
    /\ \A c \in Calls, wt \in Waits :
          /\ Pace(c.q, wt) <= Edges
          /\ c.fn = "burst_read" => Pace(c.q, wt) <= ReadEdges

----------------------------------------------------------------------------
(* APBSlave.run: one pass of its loop.                                     *)

Write(p) == LET a == pbus[p].addr
            IN  [slave[p].mem EXCEPT ![a] = Words!Merge(@, pbus[p].data)]

\* PREADY still high in the first access cycle, from the idle bus.
Setup_bug(p) ==
    [slave[p] EXCEPT !.prdata = IF pbus[p].write THEN @ ELSE slave[p].mem[pbus[p].addr],
                     !.wait_remaining = waits[p]]

\* PRDATA is preloaded and the wait counter armed.
Setup(p) ==
    [slave[p] EXCEPT !.prdata = IF pbus[p].write THEN @ ELSE slave[p].mem[pbus[p].addr],
                     !.wait_remaining = waits[p],
                     !.pready = (waits[p] = 0)]

\* Once the counter is down every access edge writes: with wait states both
\* the one before the transfer completes and the one on which it does.
Access(p) ==
    IF slave[p].wait_remaining > 0
    THEN [slave[p] EXCEPT !.pready = FALSE, !.wait_remaining = @ - 1]
    ELSE [slave[p] EXCEPT !.pready = TRUE,
                          !.mem = IF pbus[p].write THEN Write(p) ELSE @]

run(p) == IF ~psel[p] THEN [slave[p] EXCEPT !.pready = TRUE, !.wait_remaining = 0]
          ELSE IF ~penable[p] THEN Setup(p) ELSE Access(p)

\* PSLVERR is never driven after reset.
Pins == [bready |-> bready, rready |-> TRUE,
         apb |-> [p \in Port |-> [ready |-> slave[p].pready, err |-> FALSE,
                                  data |-> slave[p].prdata]]]

----------------------------------------------------------------------------
(* AXI4Driver.  A call raises its address, and write its beat with it.     *)

\* The loop loop is entered with a limit of n edges.
Enter(loop, n) == pc' = loop /\ left' = n

\* BREADY is left as the last write call left it.
BeginWrite_bug(c) ==
    /\ aw' = c.q
    /\ w' = IF c.fn = "write" THEN WBeatOf(c, 0) ELSE w
    /\ bready' = (bready \/ c.fn = "write")
    /\ Enter(IF c.fn = "write" THEN "aw_w" ELSE "aw", Edges)
    /\ UNCHANGED ar

BeginWrite(c) ==
    /\ aw' = c.q
    /\ w' = IF c.fn = "write" THEN WBeatOf(c, 0) ELSE w
    /\ bready' = TRUE
    /\ Enter(IF c.fn = "write" THEN "aw_w" ELSE "aw", Edges)
    /\ UNCHANGED ar

BeginRead(c) == /\ ar' = c.q
                /\ Enter("ar", Edges)
                /\ UNCHANGED <<aw, w, bready>>

Begin(c) == /\ pc = "idle"
            /\ call' = c /\ beat' = 0 /\ got' = <<>> /\ result' = Words!NoResult
            /\ IF is_write(c) THEN BeginWrite(c) ELSE BeginRead(c)
            /\ UNCHANGED <<txnRegs, apbRegs, bRegs, rRegs, waits, slave>>

\* The burst writes raise the next beat when the one before is accepted.
beat_to_drive == pc = "w" /\ w = None

DriveBeat == /\ beat_to_drive
             /\ w' = WBeatOf(call, beat)
             /\ UNCHANGED <<aw, ar, txnRegs, apbRegs, bRegs, rRegs, waits, slave, driver>>

(* The wait loops, one edge each.                                          *)

KeepCall == UNCHANGED <<bready, call, result>>

\* Not yet: on the last edge the call raises an AssertionError.
Again == /\ left' = left - 1
         /\ pc' = IF left = 1 THEN "failed" ELSE pc
         /\ UNCHANGED beat /\ KeepCall

\* write drops AWVALID and WVALID each on its own handshake.
WaitBoth == /\ pc = "aw_w"
            /\ IF (aw = None \/ aw_handshake) /\ (w = None \/ w_handshake)
               THEN Enter("b", Edges) /\ UNCHANGED beat /\ KeepCall
               ELSE Again
            /\ UNCHANGED got

WaitAW == /\ pc = "aw"
          /\ IF aw_handshake THEN Enter("w", Edges) /\ UNCHANGED beat /\ KeepCall
                             ELSE Again
          /\ UNCHANGED got

WaitW == /\ pc = "w"
         /\ IF w_handshake
            THEN /\ IF beat + 1 = Words!Sent(call)
                    THEN Enter("b", Edges) /\ UNCHANGED beat
                    ELSE Enter("w", Edges) /\ beat' = beat + 1
                 /\ KeepCall
            ELSE Again
         /\ UNCHANGED got

Return(resp, data) == /\ result' = [resp |-> resp, data |-> data]
                      /\ call' = None /\ pc' = "idle"
                      /\ beat' = 0 /\ left' = 0 /\ got' = <<>>

\* Only write lowers BREADY again.
WaitB == /\ pc = "b"
         /\ IF bvalid
            THEN /\ Return(b.resp, <<>>)
                 /\ bready' = (bready /\ call.fn # "write")
            ELSE Again /\ UNCHANGED got

WaitAR == /\ pc = "ar"
          /\ IF ar_handshake
             THEN /\ Enter("r", IF call.fn = "read" THEN Edges
                                ELSE (call.q.len + 1) * ReadEdges)
                  /\ UNCHANGED beat /\ KeepCall
             ELSE Again
          /\ UNCHANGED got

\* burst_read counts every edge and returns at RLAST.
WaitR == /\ pc = "r"
         /\ IF rvalid /\ (call.fn = "read" \/ r.last)
            THEN /\ Return(IF call.fn = "read" THEN r.resp ELSE "none",
                           Append(got, r.data))
                 /\ UNCHANGED bready
            ELSE /\ Again
                 /\ got' = IF rvalid THEN Append(got, r.data) ELSE got

NoLoop == pc \in {"idle", "failed"} /\ UNCHANGED driver

DriverBlock == WaitBoth \/ WaitAW \/ WaitW \/ WaitB \/ WaitAR \/ WaitR \/ NoLoop

----------------------------------------------------------------------------
BenchEdge == /\ ~beat_to_drive
             /\ Edge(Pins)
             /\ slave' = [p \in Port |-> run(p)]
             /\ DriverBlock
             /\ UNCHANGED waits

NewSlave == [pready |-> TRUE, prdata |-> Zero, wait_remaining |-> 0,
             mem |-> Words!Blank[0]]

\* reset_dut and start_slaves, at the start of the next test; the test before
\* ended, or failed in a call.
start_slaves == /\ pc \in {"idle", "failed"}
                /\ Reset
                /\ waits' \in Waits
                /\ slave' = [p \in Port |-> NewSlave]
                /\ bready' = TRUE
                /\ call' = None /\ pc' = "idle"
                /\ beat' = 0 /\ left' = 0 /\ got' = <<>>
                /\ result' = Words!NoResult

BenchInit == /\ Init
             /\ waits \in Waits
             /\ slave = [p \in Port |-> NewSlave]
             /\ bready = TRUE
             /\ call = None /\ pc = "idle" /\ beat = 0 /\ left = 0 /\ got = <<>>
             /\ result = Words!NoResult

BenchNext == \/ \E c \in Calls : Begin(c)
             \/ DriveBeat \/ BenchEdge \/ start_slaves

\* The clock runs, and a coroutine drives its next beat before the next edge.
BenchSpec == /\ BenchInit /\ [][BenchNext]_benchVars
             /\ WF_benchVars(DriveBeat) /\ WF_benchVars(BenchEdge)
----------------------------------------------------------------------------
(* What the calls promise.                                                 *)

\* A beat is stored when its slave has written it, which with wait states is
\* an edge before the bridge counts it.
written_early ==
    /\ apb_state = "ACCESS" /\ waits[axi.sel] > 0
    /\ slave[axi.sel].pready

stored_beats ==
    IF ~txn_active \/ ~axi.is_write \/ txn_decerr THEN 0
    ELSE beat_index + (IF written_early THEN 1 ELSE 0)

Ordered == INSTANCE OrderedCalls
            WITH mem <- [p \in Port |-> slave[p].mem],
                 stored <- stored_beats

----------------------------------------------------------------------------
(* What the bench holds of the call.                                       *)

\* While it reads, the selected slave drives the word; what it has written
\* early it will write once more.
SlaveInv ==
    /\ waits \in Waits
    /\ slave \in [Port -> [pready : BOOLEAN, prdata : Data, wait_remaining : Nat,
                           mem : [Words!Cells -> Data]]]
    /\ apb_state = "ACCESS" =>
          LET s == slave[axi.sel]
          IN  /\ s.pready => s.wait_remaining = 0
              /\ waits[axi.sel] = 0 => s.pready
              /\ ~axi.is_write => s.prdata = s.mem[axi.addr]
              /\ axi.is_write /\ written_early => Write(axi.sel) = s.mem

\* Beats taken, and the edges until APB is idle again.
Taken == beat_index + (IF apb_state = "IDLE" THEN 0 ELSE 1)

BusLeft ==
    IF apb_state = "IDLE" THEN 0
    ELSE IF apb_state = "SETUP" THEN 1 + AccessEdges(waits[axi.sel])
    ELSE IF slave[axi.sel].pready THEN 1 ELSE slave[axi.sel].wait_remaining + 2

\* The bridge serves call c.
Serves(c) ==
    /\ txn_active /\ axi.is_write = is_write(c) /\ axi.sel = PortOf(c.q.addr)
    /\ axi.bytes = c.q.bytes /\ axi.burst = c.q.burst
    /\ beats_total = c.q.len + 1 /\ (txn_decerr <=> ~Legal(c.q)) /\ ~pslverr_acc
    /\ Legal(c.q) => axi.addr = BeatAddr(c.q, beat_index + 1)

ServesWrite(c) ==
    /\ Serves(c) /\ ar = None
    /\ wlast_err <=> w_done /\ c.wlast # c.q.len
    /\ apb_state # "IDLE" => pbus[axi.sel].data = c.data[beat_index + 1]
    /\ bvalid => b.resp = Ordered!Status(c)

ServesRead(c) ==
    /\ Serves(c) /\ aw = None /\ ar = None /\ w = None
    /\ rfifo_valid => rfifo = [data |-> Ordered!Held(c.q, beats_sent + 1), resp |-> "OKAY"]
    /\ rvalid => /\ r.data = Ordered!Held(c.q, beats_sent + 1)
                 /\ r.resp = Ordered!Status(c)

\* The edges until the R beat that is due has been accepted.
BeatLeft ==
    IF rvalid THEN 1
    ELSE IF txn_decerr \/ rfifo_valid THEN 2
    ELSE IF apb_state = "IDLE" THEN AccessEdges(waits[axi.sel]) + 4 ELSE BusLeft + 2

\* In each wait loop the bridge is as far as the call is, and has edges enough
\* left for what the loop waits for.
LoopInv ==
    /\ pc = "idle" => /\ call = None /\ ~txn_active
                      /\ aw = None /\ w = None /\ ar = None
    /\ pc = "aw_w" => /\ call.fn = "write" /\ w = WBeatOf(call, 0) /\ ar = None
                      /\ IF aw = None
                         THEN ServesWrite(call) /\ ~w_done /\ Taken = 0 /\ left >= 1
                         ELSE ~txn_active /\ aw = call.q /\ left >= 2
    /\ pc = "aw" => /\ is_write(call) /\ ~txn_active /\ aw = call.q
                    /\ w = None /\ ar = None /\ beat = 0 /\ left >= 1
    /\ pc = "w" => /\ is_write(call) /\ ServesWrite(call) /\ aw = None /\ ~w_done
                   /\ beat = Taken /\ beat < Words!Sent(call)
                   /\ w \in {None, WBeatOf(call, beat)} /\ left >= BusLeft + 1
    /\ pc = "b" => /\ is_write(call) /\ ServesWrite(call) /\ aw = None /\ w_done
                   /\ w = None /\ Taken = Words!Sent(call)
                   /\ left >= BusLeft + (IF bvalid THEN 1 ELSE 2)
    /\ pc = "ar" => /\ ~is_write(call) /\ ~txn_active /\ ar = call.q
                    /\ aw = None /\ w = None /\ got = <<>> /\ left >= 1
    /\ pc = "r" => /\ ~is_write(call) /\ ServesRead(call)
                   /\ got = [i \in 1 .. beats_sent |-> Ordered!Held(call.q, i)]
                   /\ left >= BeatLeft + (beats_total - 1 - beats_sent)
                                        * Pace(call.q, waits)

CallInv == /\ pc \in {"idle", "aw_w", "aw", "w", "b", "ar", "r"}
           /\ left \in Nat /\ bready \in BOOLEAN
           /\ pc # "idle" => call \in Calls /\ (is_write(call) => bready)
           /\ LoopInv

BenchInv == IInv /\ SlaveInv /\ CallInv

----------------------------------------------------------------------------
(* Properties.                                                             *)

\* Whatever the wait states, the bridge and the slaves together make the
\* calls of a test behave as if each beat were stored at once and in order:
\* nothing is stored twice, elsewhere, or after the call has returned, a
\* refused call stores nothing, and every read returns what is stored.
CallsOrdered == Ordered!CallsSpec

\* Every call returns: none of its wait loops reaches its limit.
CallsReturn == pc \notin {"idle", "failed"} ~> pc = "idle"
=============================================================================
