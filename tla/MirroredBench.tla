--------------------------- MODULE MirroredBench ----------------------------
(***************************************************************************)
(* The monitored bridge configured as test_bridge_burst_ext,               *)
(* test_bridge_rand_burst and test_bridge_rand_integrity configure it: the *)
(* scoreboard keys its shadow by the address bits that index the slaves'   *)
(* memories, and no test reads a word whose write it made fail.  Then the  *)
(* shadow mirrors the memories, and the scoreboard has nothing to report.  *)
(* test_bridge_stress is outside these assumptions.                        *)
(***************************************************************************)
EXTENDS MonitoredBridge

\* A word that the slave stores although it answers PSLVERR, and the shadow
\* does not.
Spoiled(p, i) ==
    \E q \in AWRequests :
        Legal(q) /\ \E n \in 1 .. q.len + 1 :
            /\ BeatAddr(q, n) \in ErrAddrs
            /\ PortOf(BeatAddr(q, n)) = p /\ WordOf(BeatAddr(q, n)) = i

ASSUME MirrorAssumption ==
    /\ KeyBytes = BusBytes /\ Keys = Words /\ Zeros = Zero
    /\ \A q \in ARRequests :
          Legal(q) => \A n \in 1 .. q.len + 1 :
                         ~Spoiled(PortOf(BeatAddr(q, n)), WordOf(BeatAddr(q, n)))

----------------------------------------------------------------------------
(* The values the scoreboard and the slaves hold.                          *)

Prediction  == [port : Port, addr : Addr, write : BOOLEAN, data : Data]
Observation == [port : Port, addr : Addr, prot : Nat \cup {X}, write : BOOLEAN,
                data : Data, err : BOOLEAN]
Board == [pred_wr : [Port -> Seq(Prediction)], pred_rd : [Port -> Seq(Prediction)],
          buf_wr : [Port -> Seq(Observation)], buf_rd : [Port -> Seq(Observation)],
          slv_shadow : [Port \X (0 .. Keys - 1) -> Data], mismatch : BOOLEAN]

\* A write is held by the monitor until its B is captured, and with it the
\* beats it has captured.
WriteHeld == OpenWrite \/ b_late
Captured  == IF wd_pend # <<>> THEN Head(wd_pend) ELSE w_burst

\* No prediction ever waits: APB is always ahead of the AXI response.  An
\* observation waits only for the transaction that it belongs to.
BoardInv ==
    /\ sb \in Board /\ mem \in [Port -> [0 .. Words - 1 -> Data]]
    /\ ~sb.mismatch
    /\ sb.pred_wr = NoQueue /\ sb.pred_rd = NoQueue
    /\ ~WriteHeld => sb.buf_wr = NoQueue
    /\ ~OpenRead  => sb.buf_rd = NoQueue

----------------------------------------------------------------------------
(* What the open transaction and the scoreboard know of its request q.     *)

\* The latches were loaded from q and have advanced by beat_index beats.
Serves(q) ==
    /\ axi # X /\ axi.bytes = q.bytes /\ axi.burst = q.burst
    /\ axi.sel = PortOf(q.addr)
    /\ beats_total = q.len + 1
    /\ txn_decerr <=> ~Legal(q)
    /\ Legal(q) => axi.addr = BeatAddr(q, beat_index + 1)

\* The observations of one direction are those of the first n beats of q.
Buffered(queues, q, isWrite, n) ==
    \A p \in Port :
        /\ Len(queues[p]) = IF Legal(q) /\ p = PortOf(q.addr) THEN n ELSE 0
        /\ \A i \in DOMAIN queues[p] :
              /\ queues[p][i].port = p /\ queues[p][i].addr = BeatAddr(q, i)
              /\ queues[p][i].write = isWrite

\* Of a write that is held: every observation carries the data captured for
\* its beat, and B tells the scoreboard how many beats there are.
WriteData ==
    /\ Len(Captured) = Taken /\ Taken <= beats_total
    /\ w_done => wlast_err \/ Taken = beats_total
    /\ bvalid \/ b_late => w_done /\ b.resp = bresp
    /\ apb_state # "IDLE" => pbus[axi.sel].data = Captured[Taken]
    /\ \A p \in Port : \A i \in DOMAIN sb.buf_wr[p] : sb.buf_wr[p][i].data = Captured[i]

WriteLink ==
    WriteHeld => LET q == Head(aw_pend)
                 IN  /\ q \in AWRequests /\ Serves(q)
                     /\ Buffered(sb.buf_wr, q, TRUE, beat_index) /\ WriteData

\* The data of beat i of a read.
Word(q, i) ==
    IF Legal(q) THEN mem[PortOf(q.addr)][WordOf(BeatAddr(q, i))] ELSE Zero

\* Of an open read: what the master, the buffer, the R channel and the
\* observations hold are the words of the slave, which nothing writes now.
ReadData(q) ==
    /\ \A i \in DOMAIN rd.data : rd.data[i] = Word(q, i)
    /\ rfifo_valid => rfifo.data = Word(q, beats_sent + 1)
    /\ rvalid => r.data = Word(q, beats_sent + 1) /\ (r.resp = "DECERR" <=> ~Legal(q))
    /\ \A p \in Port : \A i \in DOMAIN sb.buf_rd[p] : sb.buf_rd[p][i].data = Word(q, i)

ReadLink ==
    OpenRead => LET q == rd.q
                IN  /\ q \in ARRequests /\ Serves(q)
                    /\ Buffered(sb.buf_rd, q, FALSE, beat_index) /\ ReadData(q)

\* What a slave holds is what the shadow will hold once the observed writes
\* are committed to it.
ShadowInv ==
    \A p \in Port, i \in 0 .. Words - 1 :
        mem[p][i] = Committed(sb.slv_shadow, sb.buf_wr[p])[<<p, i>>] \/ Spoiled(p, i)

----------------------------------------------------------------------------
\* The scoreboard mirrors the bench in every state, in the middle of a burst
\* and of a late B as well as between transactions (bridge_scoreboard.sv:15-22):
\* its queues are the transfers of the open transaction and nothing else, and
\* its shadow is the slaves' memory but for the writes not yet reported.
MirrorInv == BoardInv /\ WriteLink /\ ReadLink /\ ShadowInv
=============================================================================
