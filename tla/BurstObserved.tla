--------------------------- MODULE BurstObserved ---------------------------
(***************************************************************************)
(* The burst bridge with a passive observer that reads nothing but pins,   *)
(* as the monitors of the UVM bench do: it records the transaction whose   *)
(* address phase was last accepted, the W beats taken, the APB transfers   *)
(* completed and the R beats and B responses delivered since.  The         *)
(* promises of doc/design_contract.md are stated over what it recorded.    *)
(***************************************************************************)
EXTENDS AxiApbBurst, Sequences

VARIABLES
    cur,    \* the last accepted request with its direction; None after reset
    live,   \* its last response has not been taken
    wlog, plog, rlog, blog

obs == <<cur, live, wlog, plog, rlog, blog>>
allVars == <<vars, obs>>

\* Appends v to log when the event happens.
LogIf(log, event, v) == IF event THEN Append(log, v) ELSE log

accept == aw_handshake \/ ar_handshake

Observe(in) ==
    \/ /\ accept
       /\ cur' = [write |-> aw_handshake, q |-> IF aw_handshake THEN aw ELSE ar]
       /\ live' = TRUE
       /\ wlog' = <<>> /\ plog' = <<>> /\ rlog' = <<>> /\ blog' = <<>>
    \/ /\ ~accept
       /\ wlog' = LogIf(wlog, w_handshake, w)
       /\ rlog' = LogIf(rlog, r_handshake(in), r)
       /\ blog' = LogIf(blog, b_handshake(in), b)
       /\ \/ done_at(in) = {} /\ plog' = plog
          \/ \E p \in done_at(in) : plog' = Append(plog, Transfer(p, in))
       /\ live' = (live /\ ~b_handshake(in) /\ ~(r_handshake(in) /\ r.last))
       /\ UNCHANGED cur

ObsInit == /\ Init
           /\ cur = None /\ live = FALSE
           /\ wlog = <<>> /\ plog = <<>> /\ rlog = <<>> /\ blog = <<>>

ObsReset == /\ Reset
            /\ cur' = None /\ live' = FALSE
            /\ wlog' = <<>> /\ plog' = <<>> /\ rlog' = <<>> /\ blog' = <<>>

ObsEdge(in) == Edge(in) /\ Observe(in)

ObsNext == \/ MasterStep /\ UNCHANGED obs
           \/ ObsReset
           \/ \E in \in Inputs : ObsEdge(in)

ObsSpec == ObsInit /\ [][ObsNext]_allVars

Promise == INSTANCE SerialBridge

----------------------------------------------------------------------------
(* What the record has to do with the registers.                           *)

Accepted  == [write : BOOLEAN, q : Request]
Transfers == [port : Port, addr : Addr, prot : Nat, write : BOOLEAN, data : Data,
              err : BOOLEAN]

\* The latches describe the recorded request, and the address register has
\* advanced by one step for each beat done on APB.
LatchLink ==
    live => /\ cur \in Accepted
            /\ axi.id = cur.q.id /\ axi.prot = cur.q.prot
            /\ axi.bytes = cur.q.bytes /\ axi.burst = cur.q.burst
            /\ axi.is_write = cur.write /\ axi.sel = PortOf(cur.q.addr)
            /\ beats_total = cur.q.len + 1
            /\ txn_decerr <=> ~Legal(cur.q)
            /\ Legal(cur.q) => axi.addr = BeatAddr(cur.q, beat_index + 1)

\* beat_index and pslverr_acc summarise the recorded transfers.
TransferLink ==
    live => /\ plog \in Seq(Transfers)
            /\ Len(plog) = IF Legal(cur.q) THEN beat_index ELSE 0
            /\ pslverr_acc <=> \E i \in 1 .. Len(plog) : plog[i].err
            /\ apb_state # "IDLE" => pbus[axi.sel].prot = axi.prot

\* A beat taken is on APB or counted; w_done and wlast_err summarise the
\* beats taken.
WriteLink ==
    live /\ cur.write =>
        /\ wlog \in Seq(WBeats) /\ rlog = <<>> /\ blog = <<>>
        /\ Len(wlog) = beat_index + (IF apb_state = "IDLE" THEN 0 ELSE 1)
        /\ w_done <=> Promise!DataDone
        /\ wlast_err <=> Promise!Malformed
        /\ apb_state # "IDLE" => pbus[axi.sel].data = wlog[Len(wlog)].data
        /\ bvalid => b = [id |-> cur.q.id, resp |-> Promise!Verdict]

\* The read buffer holds what the last transfer returned.
ReadLink ==
    live /\ ~cur.write =>
        /\ rlog \in Seq(RBeat) /\ wlog = <<>> /\ blog = <<>>
        /\ Len(rlog) = beats_sent
        /\ rfifo_valid =>
              rfifo = [data |-> plog[Len(plog)].data,
                       resp |-> IF plog[Len(plog)].err THEN "SLVERR" ELSE "OKAY"]
        /\ rvalid => r = Promise!ReadBeat(Len(rlog) + 1)

\* A read is closed when its last beat was delivered.
ClosedLink ==
    cur # None /\ ~live =>
        /\ cur \in Accepted
        /\ ~cur.write => Len(rlog) = cur.q.len + 1 /\ Len(plog) <= cur.q.len + 1

LinkInv == /\ live = txn_active
           /\ LatchLink /\ TransferLink /\ WriteLink /\ ReadLink /\ ClosedLink

----------------------------------------------------------------------------
(* Properties.                                                             *)

\* The registers and handshakes of the RTL carry out the serial transaction
\* machine of SerialBridge: on every edge they take at most one of its steps,
\* with its addresses, ports, data, responses and order.
KeepsPromise == Promise!Spec

\* B carries the accepted ID and the verdict over the whole burst: it comes
\* only after the data phase ended and every beat is done on APB, and it
\* keeps no error of an earlier transaction (contract, "BRESP policy").
WriteVerdict ==
    bvalid =>
        /\ live /\ cur.write /\ b.id = cur.q.id
        /\ Promise!DataDone
        /\ Legal(cur.q) => Len(plog) = Len(wlog)
        /\ b.resp = Promise!Verdict

\* A read returns exactly ARLEN + 1 beats, the offered one being the next,
\* and the bridge never reads more than one beat ahead of the master
\* (contract, "Read Data Channel").
ReadFaithful ==
    cur # None /\ ~cur.write =>
        /\ rvalid => live /\ r = Promise!ReadBeat(Len(rlog) + 1)
        /\ ~live <=> Len(rlog) = cur.q.len + 1
        /\ Len(plog) <= Len(rlog) + 1 /\ Len(plog) <= cur.q.len + 1

\* One transaction at a time: while one is open no address is accepted, and
\* the two address channels are never accepted on the same edge.
OneTransaction ==
    /\ live => ~AWREADY /\ ~ARREADY
    /\ ~(aw_handshake /\ ar_handshake)
    /\ ~live => ~WREADY /\ ~bvalid /\ ~rvalid /\ apb_state = "IDLE"

\* Each transfer is one setup cycle, then access cycles until the slave's
\* PREADY ends it, with address, control and data held from the setup on
\* (contract, "APB4 Behavior").  Only a step of the master, which changes its
\* pins, or a reset may leave the setup cycle standing.
ApbProtocol ==
    [][\A p \in Port :
          /\ ~psel[p] /\ psel'[p] => ~penable'[p]
          /\ psel[p] /\ psel'[p] => pbus'[p] = pbus[p] /\ (penable[p] => penable'[p])
          /\ psel[p] /\ ~penable[p] => penable'[p] \/ master' # master \/ cur' = None
          /\ psel[p] /\ ~psel'[p] =>
                \/ penable[p] /\ Len(plog') = Len(plog) + 1
                \/ cur' = None]_allVars

\* An offered response is withdrawn by nothing but its handshake (or a reset)
\* and never changes while it is offered.
ResponseHeld ==
    [][/\ bvalid => (bvalid' /\ b' = b) \/ ~live'
       /\ rvalid => \/ rvalid' /\ r' = r /\ rlog' = rlog
                    \/ ~rvalid' /\ rlog' = Append(rlog, r)
                    \/ cur' = None]_allVars
=============================================================================
