-------------------------- MODULE MonitoredBridge --------------------------
(***************************************************************************)
(* The burst bridge inside its UVM bench: the memory slaves of             *)
(* uvm/sv/models/apb_ext_mem_dual.sv on its ports, the monitor processes   *)
(* of uvm/sv/monitors on its pins, and the scoreboard they report to.  On  *)
(* a clock edge every process wakes up on the pins of before the edge; the *)
(* order in which the simulator runs them is free.  The bench resets the   *)
(* bridge once, before it starts.                                          *)
(***************************************************************************)
EXTENDS AxiApbBurst, Scoreboard

CONSTANTS
    ErrAddrs,       \* addresses at which a test makes the slave raise PSLVERR
    Words           \* words of a slave's memory (1024 in the models)

VARIABLES
    mem,        \* what the slaves hold: a word per port and word index
    aw_pend,    \* captured AW requests whose B has not been captured
    w_burst,    \* W beats captured since the last burst was closed
    wd_pend,    \* closed W bursts waiting for their B
    b_late,     \* the B process woke up before its queues were filled
    rd,         \* the read being captured and its beats; None if there is none
    sb          \* the scoreboard

bench == <<mem, aw_pend, w_burst, wd_pend, b_late, rd, sb>>
allVars == <<vars, bench>>

----------------------------------------------------------------------------
(* The slaves: PSTRB and PSLVERR make no difference to the memory.         *)

WordOf(a) == (a \div BusBytes) % Words

\* PRDATA is combinational on PADDR.
SlaveData(p) == IF pbus[p].addr = X THEN Zero ELSE mem[p][WordOf(pbus[p].addr)]

SlaveBlock(in) ==
    mem' = [p \in Port |->
              IF p \in done_at(in) /\ pbus[p].write
              THEN [mem[p] EXCEPT ![WordOf(pbus[p].addr)] = pbus[p].data]
              ELSE mem[p]]

----------------------------------------------------------------------------
(* The write monitor: three processes, one per channel.                    *)

AwSeen == IF aw_handshake THEN Append(aw_pend, aw) ELSE aw_pend

\* A W burst ends with WLAST, or when B is offered after at least one beat.
\* In the mistake the guard on the first beat is dropped.
BArm_bug == bvalid
BArm == bvalid /\ w_burst # <<>>

WSeen == IF w_handshake THEN Append(w_burst, w.data) ELSE w_burst
WClosed_bug == w_handshake /\ w.last      \* the mistake: no end without WLAST
WClosed == IF w_handshake THEN w.last ELSE BArm
BurstsSeen == IF WClosed THEN Append(wd_pend, WSeen) ELSE wd_pend

\* The B process wakes up on the B handshake, or goes on waiting for its
\* queues.  If it runs first on this edge, before the AW and W processes, it
\* sees them as they were.
BReady(first) ==
    IF first THEN aw_pend # <<>> /\ wd_pend # <<>>
             ELSE AwSeen # <<>> /\ BurstsSeen # <<>>

BWoken(in) == b_late \/ b_handshake(in)

WriteMonitor(in, first) ==
    LET pops == BWoken(in) /\ BReady(first)
    IN  /\ w_burst' = IF WClosed THEN <<>> ELSE WSeen
        /\ aw_pend' = IF pops THEN Tail(AwSeen) ELSE AwSeen
        /\ wd_pend' = IF pops THEN Tail(BurstsSeen) ELSE BurstsSeen
        /\ b_late' = (BWoken(in) /\ ~BReady(first))

\* What the write monitor publishes on this edge: at most one burst.
WritesDone(in, first) ==
    IF BWoken(in) /\ BReady(first)
    THEN <<[q |-> Head(AwSeen), data |-> Head(BurstsSeen), resp |-> b.resp]>>
    ELSE <<>>

(* The read monitor: one process for AR and R.                             *)

RdSeen(in) == [rd EXCEPT !.data = Append(@, r.data)]

ReadMonitor(in) ==
    \/ /\ rd = None /\ ar_handshake
       /\ rd' = [q |-> ar, data |-> <<>>]
    \/ /\ rd # None /\ r_handshake(in)
       /\ rd' = IF Len(RdSeen(in).data) = rd.q.len + 1 THEN None ELSE RdSeen(in)
    \/ /\ IF rd = None THEN ~ar_handshake ELSE ~r_handshake(in)
       /\ UNCHANGED rd

ReadsDone(in) ==
    IF rd # None /\ r_handshake(in) /\ r.last
    THEN <<[q |-> rd.q, data |-> RdSeen(in).data, resp |-> r.resp]>> ELSE <<>>

----------------------------------------------------------------------------
(* The scoreboard is called by whichever monitor has something to report.  *)

FromApb(s, in) ==
    IF done_at(in) = {} THEN s
    ELSE ingest_apb(s, Transfer(CHOOSE p \in done_at(in) : TRUE, in))

FromAxi(s, in, first) ==
    LET writes == WritesDone(in, first)
        afterW == IF writes = <<>> THEN s ELSE write_axi_wr(s, Head(writes))
        reads  == ReadsDone(in)
    IN  IF reads = <<>> THEN afterW ELSE write_axi_rd(afterW, Head(reads))

\* Whichever monitor is ahead on this edge reports first; this order is
\* independent of the one among the write monitor's own processes.
Report(in, first, axi_ahead) ==
    sb' = IF axi_ahead THEN FromApb(FromAxi(sb, in, first), in)
                       ELSE FromAxi(FromApb(sb, in), in, first)

----------------------------------------------------------------------------
(* What the bench drives on an edge: the stimulus keeps BREADY and RREADY  *)
(* high; a port that is not selected is not sampled, so its PREADY is TRUE. *)
BenchInputs ==
    {in \in [apb : [Port -> Answers], bready : {TRUE}, rready : {TRUE}] :
        \A p \in Port : /\ psel[p] \/ in.apb[p].ready
                        /\ in.apb[p].err => psel[p] /\ pbus[p].addr \in ErrAddrs
                        /\ in.apb[p].data = SlaveData(p)}

\* An order that makes no difference on this edge, because no B process wakes
\* up or no transfer completes, is not chosen twice.
BenchEdge(in, first, axi_ahead) ==
    /\ (BWoken(in) \/ first) /\ (done_at(in) # {} \/ axi_ahead)
    /\ Edge(in)
    /\ SlaveBlock(in) /\ WriteMonitor(in, first) /\ ReadMonitor(in)
    /\ Report(in, first, axi_ahead)

BenchInit ==
    /\ Init
    /\ mem = [p \in Port |-> [i \in 0 .. Words - 1 |-> Zero]]
    /\ aw_pend = <<>> /\ w_burst = <<>> /\ wd_pend = <<>> /\ b_late = FALSE
    /\ rd = None
    /\ sb = Fresh

BenchNext == \/ MasterStep /\ UNCHANGED bench
             \/ \E in \in BenchInputs :
                    \E first, axi_ahead \in BOOLEAN : BenchEdge(in, first, axi_ahead)

BenchSpec == BenchInit /\ [][BenchNext]_allVars
----------------------------------------------------------------------------
(* What the monitors hold of the open transaction.                         *)

\* A read that is being captured is told from none, and the address that a
\* port has not driven yet from every address.
ASSUME MonitorAssumption ==
    /\ None \notin [q : Request, data : Seq(Data)]
    /\ Words \in Nat \ {0} /\ X \notin Addr

OpenWrite == txn_active /\ axi.is_write
OpenRead  == txn_active /\ ~axi.is_write

\* W beats taken, the one on APB included.
Taken == beat_index + (IF apb_state = "IDLE" THEN 0 ELSE 1)

\* Of an open write: its address, and either the beats taken so far or, once
\* the data phase is over, its closed burst.  A B process that is late holds
\* back one pair, while the bridge has nothing open.
WriteMonitorInv ==
    /\ aw_pend \in Seq(Request) /\ w_burst \in Seq(Data) /\ wd_pend \in Seq(Seq(Data))
    /\ b_late \in BOOLEAN
    /\ Len(aw_pend) = IF OpenWrite \/ b_late THEN 1 ELSE 0
    /\ b_late => ~txn_active /\ Len(wd_pend) = 1 /\ w_burst = <<>>
    /\ OpenWrite => Head(aw_pend).id = axi.id
    /\ OpenWrite /\ wd_pend = <<>> => /\ Len(w_burst) = Taken /\ Taken <= beats_total
                                      /\ w_done => Taken > 0
    /\ OpenWrite /\ wd_pend # <<>> => /\ w_done /\ w_burst = <<>> /\ Len(wd_pend) = 1
                                      /\ Len(Head(wd_pend)) <= beats_total
    /\ ~OpenWrite /\ ~b_late => wd_pend = <<>> /\ w_burst = <<>>

\* Of an open read: its address and the beats that were handed over.
ReadMonitorInv ==
    /\ rd # None <=> OpenRead
    /\ OpenRead => /\ rd \in [q : Request, data : Seq(Data)]
                   /\ Len(rd.data) = beats_sent /\ rd.q.len + 1 = beats_total

MonitorInv == WriteMonitorInv /\ ReadMonitorInv

----------------------------------------------------------------------------
(* Properties.                                                             *)

\* Nothing the bridge does makes the scoreboard report an error: no burst is
\* paired with the data, the response or the transfers of another one, and
\* the shadow answers like the slaves.
NoFalseAlarm == ~sb.mismatch

\* The monitors hold no request, no burst and no read.
MonitorsEmpty == aw_pend = <<>> /\ w_burst = <<>> /\ wd_pend = <<>> /\ rd = None

\* Between transactions nothing waits for its other side, in the monitors or
\* in the scoreboard: the check that report_phase makes when the test ends
\* holds whenever a test may end.
Drained ==
    ~txn_active /\ ~b_late => AllMatched(sb) /\ MonitorsEmpty

\* The pending queues hold at most one entry, that of the open write
\* (bridge_axi_monitor.sv:52-53): a B that is captured late is still paired
\* with its own address and its own data.
PairingExact ==
    /\ Len(aw_pend) <= 1 /\ Len(wd_pend) <= 1
    /\ aw_pend # <<>> /\ txn_active => axi.is_write /\ axi.id = Head(aw_pend).id
    /\ wd_pend # <<>> /\ ~b_late => w_done /\ Len(Head(wd_pend)) <= beats_total
=============================================================================
