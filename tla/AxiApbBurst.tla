---------------------------- MODULE AxiApbBurst ----------------------------
(***************************************************************************)
(* The burst bridge of src/axi4_to_apb4_2x_burst.v: an AXI4 slave that     *)
(* serves one transaction at a time and turns every beat of it into one    *)
(* APB transfer on one of two ports.                                       *)
(*                                                                         *)
(* An Edge is one rising ACLK edge: the four clocked always-blocks take    *)
(* their non-blocking assignments at once, each reading the values from    *)
(* before the edge, with the input pins "in" sampled on it.  Between two   *)
(* edges the AXI master may raise AW, W or AR; as AXI requires it then     *)
(* holds VALID and the payload until the handshake.                        *)
(***************************************************************************)
EXTENDS AxiPins

CONSTANT
    CtrMod          \* 2^width of the beat counters (2^9 in the RTL)

\* The latches of the address phase, and the read buffer.
AxiReg == [id : Nat, addr : Addr, prot : Nat, bytes : Nat \ {0}, burst : Burst,
           is_write : BOOLEAN, sel : Port]
RFifo  == [data : Data, resp : {"OKAY", "SLVERR"}]

ASSUME BurstAssumption ==
    /\ CtrMod \in Nat /\ LenMax + 1 < CtrMod
    /\ X \notin Data \cup AxiReg \cup RFifo

VARIABLES
    axi,                \* the axi_*_reg latches of the accepted address phase
    beat_index, beats_sent, beats_total,
    txn_active, txn_decerr, pslverr_acc, wlast_err, w_done,
    rfifo, rfifo_valid, \* rdata_fifo with rresp_fifo: one read beat
    apb_state

txnRegs == <<axi, beat_index, beats_sent, beats_total, txn_active, txn_decerr,
             pslverr_acc, wlast_err, w_done, rfifo, rfifo_valid>>
apbRegs == <<apb_state, apbPins>>
vars    == <<master, txnRegs, apbRegs, bRegs, rRegs>>

----------------------------------------------------------------------------
(* Combinational logic.  A definition whose name ends in _bug is a         *)
(* plausible mistake in the one below it, kept to show that the properties *)
(* notice it; nothing else refers to it.                                   *)

\* The counters one bit too narrow.
Inc_bug(n) == (n + 1) % (CtrMod \div 2)
Inc(n) == (n + 1) % CtrMod

\* The open transaction is forgotten.
idle_for_new_bug == ~(bvalid \/ rvalid) /\ apb_state = "IDLE"
idle_for_new == ~txn_active /\ ~(bvalid \/ rvalid) /\ apb_state = "IDLE"

AWREADY == idle_for_new /\ ar = None
ARREADY == idle_for_new /\ aw = None

\* W is taken while APB is still busy with the beat before.
WREADY_bug == txn_active /\ axi.is_write /\ ~w_done /\ beat_index < beats_total
WREADY  == /\ txn_active /\ axi.is_write /\ ~w_done /\ beat_index < beats_total
           /\ txn_decerr \/ apb_state = "IDLE"

aw_handshake == aw # None /\ AWREADY
ar_handshake == ar # None /\ ARREADY
w_handshake  == w # None /\ WREADY

\* One beat late.
final_beat_bug == beat_index = beats_total
final_beat == beat_index = beats_total - 1

\* The pins of the selected port, and a transfer that completes on this edge.
answer(in)   == in.apb[axi.sel]
\* PREADY is not sampled.
apb_done_bug(in) == apb_state = "ACCESS"
apb_done(in) == apb_state = "ACCESS" /\ answer(in).ready

----------------------------------------------------------------------------
(* The transaction block: address latches, beat counters, error flags and  *)
(* the one-beat read buffer.                                               *)

Latch(q, isWrite) ==
    /\ axi' = [id |-> q.id, addr |-> q.addr, prot |-> q.prot,
               bytes |-> q.bytes, burst |-> q.burst,
               is_write |-> isWrite, sel |-> PortOf(q.addr)]
    /\ beats_total' = (q.len + 1) % CtrMod
    /\ beat_index' = 0 /\ beats_sent' = 0
    /\ txn_active' = TRUE
    /\ txn_decerr' = param_err(q)
    /\ pslverr_acc' = FALSE /\ wlast_err' = FALSE /\ w_done' = FALSE

AcceptWrite ==
    /\ aw_handshake
    /\ Latch(aw, TRUE)
    /\ UNCHANGED <<rfifo, rfifo_valid>>

AcceptRead ==
    /\ ~aw_handshake /\ ar_handshake
    /\ Latch(ar, FALSE)
    /\ rfifo_valid' = FALSE
    /\ UNCHANGED rfifo

\* The remaining ifs of the block.  An accept excludes all of them, since it
\* needs the bridge idle.
Progress(in) ==
    /\ ~aw_handshake /\ ~ar_handshake
    /\ wlast_err'   = (wlast_err \/ (w_handshake /\ w.last # final_beat))
    /\ w_done'      = (w_done \/ (w_handshake /\ (w.last \/ final_beat)))
    /\ pslverr_acc' = (pslverr_acc \/ (apb_done(in) /\ answer(in).err))
    /\ beat_index'  = IF apb_done(in) \/ (w_handshake /\ txn_decerr)
                      THEN Inc(beat_index) ELSE beat_index
    /\ axi' = IF apb_done(in) /\ axi.burst = "INCR"
              THEN [axi EXCEPT !.addr = (@ + axi.bytes) % AddrSpace] ELSE axi
    /\ LET fetched == apb_done(in) /\ ~axi.is_write
       IN  /\ rfifo' = IF fetched
                       THEN [data |-> answer(in).data,
                             resp |-> IF answer(in).err THEN "SLVERR" ELSE "OKAY"]
                       ELSE rfifo
           /\ rfifo_valid' = ((rfifo_valid \/ fetched) /\ ~r_handshake(in))
    /\ beats_sent' = IF r_handshake(in) THEN Inc(beats_sent) ELSE beats_sent
    /\ txn_active' = (/\ txn_active
                      /\ ~b_handshake(in)
                      /\ ~(r_handshake(in) /\ r.last))
    /\ UNCHANGED <<beats_total, txn_decerr>>

TxnBlock(in) == AcceptWrite \/ AcceptRead \/ Progress(in)

----------------------------------------------------------------------------
(* The APB state machine.                                                  *)

beat_due == txn_active /\ ~txn_decerr /\ beat_index < beats_total

start_write == beat_due /\ axi.is_write /\ w_handshake
\* The read buffer is not checked.
start_read_bug(in) == beat_due /\ ~axi.is_write /\ (~rvalid \/ in.rready)
start_read(in) ==
    beat_due /\ ~axi.is_write /\ ~rfifo_valid /\ (~rvalid \/ in.rready)

\* PWDATA keeps its old value during a read.
Drive(isWrite, data) ==
    /\ pbus' = [pbus EXCEPT ![axi.sel] =
                  [addr |-> axi.addr, prot |-> axi.prot, write |-> isWrite,
                   data |-> data]]
    /\ psel' = [Nobody EXCEPT ![axi.sel] = TRUE]
    /\ penable' = Nobody
    /\ apb_state' = "SETUP"

ApbStartWrite == /\ apb_state = "IDLE" /\ start_write
                 /\ Drive(TRUE, w.data)

ApbStartRead(in) == /\ apb_state = "IDLE" /\ start_read(in)
                    /\ Drive(FALSE, pbus[axi.sel].data)

ApbIdle(in) == /\ apb_state = "IDLE" /\ ~start_write /\ ~start_read(in)
               /\ psel' = Nobody /\ penable' = Nobody
               /\ UNCHANGED <<apb_state, pbus>>

ApbSetup == /\ apb_state = "SETUP"
            /\ penable' = [penable EXCEPT ![axi.sel] = TRUE]
            /\ apb_state' = "ACCESS"
            /\ UNCHANGED <<psel, pbus>>

ApbWait(in) == /\ apb_state = "ACCESS" /\ ~answer(in).ready
               /\ UNCHANGED apbRegs

ApbComplete(in) == /\ apb_done(in)
                   /\ psel' = Nobody /\ penable' = Nobody
                   /\ apb_state' = "IDLE"
                   /\ UNCHANGED pbus

ApbBlock(in) == \/ ApbStartWrite \/ ApbStartRead(in) \/ ApbIdle(in)
                \/ ApbSetup \/ ApbWait(in) \/ ApbComplete(in)

----------------------------------------------------------------------------
(* The write-response and read-data channels.                              *)

\* The last beat may still be on APB.
b_due_bug == txn_active /\ axi.is_write /\ w_done /\ ~bvalid
b_due == txn_active /\ axi.is_write /\ w_done /\ apb_state = "IDLE" /\ ~bvalid

\* A misplaced WLAST is not reported.
bresp_bug == IF txn_decerr THEN "DECERR"
             ELSE IF pslverr_acc THEN "SLVERR" ELSE "OKAY"
bresp == IF txn_decerr THEN "DECERR"
         ELSE IF pslverr_acc \/ wlast_err THEN "SLVERR" ELSE "OKAY"

\* BVALID is a pulse that does not wait for BREADY.
BBlock_bug(in) ==
    IF b_due THEN bvalid' = TRUE /\ b' = [id |-> axi.id, resp |-> bresp]
    ELSE bvalid' = FALSE /\ UNCHANGED b

BBlock(in) ==
    \/ /\ b_handshake(in)
       /\ bvalid' = FALSE
       /\ UNCHANGED b
    \/ /\ ~b_handshake(in) /\ b_due
       /\ bvalid' = TRUE
       /\ b' = [id |-> axi.id, resp |-> bresp]
    \/ /\ ~b_handshake(in) /\ ~b_due
       /\ UNCHANGED bRegs

r_due == /\ txn_active /\ ~axi.is_write /\ beats_sent < beats_total /\ ~rvalid
         /\ txn_decerr \/ rfifo_valid

RBlock(in) ==
    \/ /\ r_handshake(in)
       /\ rvalid' = FALSE
       /\ UNCHANGED r
    \/ /\ ~r_handshake(in) /\ r_due
       /\ rvalid' = TRUE
       /\ r' = [id   |-> axi.id,
                data |-> IF txn_decerr THEN Zero ELSE rfifo.data,
                resp |-> IF txn_decerr THEN "DECERR" ELSE rfifo.resp,
                last |-> beats_sent = beats_total - 1]
    \/ /\ ~r_handshake(in) /\ ~r_due
       /\ UNCHANGED rRegs

----------------------------------------------------------------------------
(* The AXI master's side, and the system.                                  *)

\* A channel whose handshake takes place on the edge goes idle.
MasterBlock ==
    /\ aw' = IF aw_handshake THEN None ELSE aw
    /\ ar' = IF ar_handshake THEN None ELSE ar
    /\ w'  = IF w_handshake THEN None ELSE w

Edge(in) == /\ TxnBlock(in) /\ ApbBlock(in) /\ BBlock(in) /\ RBlock(in)
            /\ MasterBlock

RaiseAW(q) == /\ aw = None /\ (SerialMaster => ar = None)
              /\ aw' = q
              /\ UNCHANGED <<w, ar, txnRegs, apbRegs, bRegs, rRegs>>

RaiseAR(q) == /\ ar = None /\ (SerialMaster => aw = None)
              /\ ar' = q
              /\ UNCHANGED <<aw, w, txnRegs, apbRegs, bRegs, rRegs>>

RaiseW(beat) == /\ w = None
                /\ w' = beat
                /\ UNCHANGED <<aw, ar, txnRegs, apbRegs, bRegs, rRegs>>

MasterStep == \/ \E q \in AWRequests : RaiseAW(q)
              \/ \E q \in ARRequests : RaiseAR(q)
              \/ \E beat \in WBeats : RaiseW(beat)

NoB == [id |-> 0, resp |-> "OKAY"]
NoR == [id |-> 0, data |-> Zero, resp |-> "OKAY", last |-> FALSE]

\* ARESETn falls, at any time.  The reset branches load these registers and
\* leave axi, rfifo and pbus alone; an AXI master drops its VALIDs.
Reset ==
    /\ txn_active' = FALSE
    /\ beat_index' = 0 /\ beats_sent' = 0 /\ beats_total' = 0
    /\ txn_decerr' = FALSE /\ pslverr_acc' = FALSE /\ wlast_err' = FALSE
    /\ w_done' = FALSE /\ rfifo_valid' = FALSE
    /\ apb_state' = "IDLE" /\ psel' = Nobody /\ penable' = Nobody
    /\ bvalid' = FALSE /\ b' = NoB /\ rvalid' = FALSE /\ r' = NoR
    /\ aw' = None /\ w' = None /\ ar' = None
    /\ UNCHANGED <<axi, rfifo, pbus>>

\* After the power-up reset.
Init ==
    /\ txn_active = FALSE
    /\ beat_index = 0 /\ beats_sent = 0 /\ beats_total = 0
    /\ txn_decerr = FALSE /\ pslverr_acc = FALSE /\ wlast_err = FALSE
    /\ w_done = FALSE /\ rfifo_valid = FALSE
    /\ apb_state = "IDLE" /\ psel = Nobody /\ penable = Nobody
    /\ bvalid = FALSE /\ b = NoB /\ rvalid = FALSE /\ r = NoR
    /\ aw = None /\ w = None /\ ar = None
    /\ axi = X /\ rfifo = X
    /\ pbus = [p \in Port |-> NoBus]

Next == MasterStep \/ Reset \/ \E in \in Inputs : Edge(in)

Spec == Init /\ [][Next]_vars

(* Fairness: ACLK keeps running; a slave eventually answers an access, the *)
(* master eventually takes an offered response and supplies a beat WREADY  *)
(* waits for.  These are the bounds that the formal harness assumes        *)
(* (verification/formal/apb4_burst_props.sv:374-384).                      *)

SlaveAnswers == \E in \in Inputs : apb_done(in) /\ Edge(in)
MasterTakes  == \E in \in Inputs : (b_handshake(in) \/ r_handshake(in)) /\ Edge(in)
MasterSends  == WREADY /\ \E beat \in WBeats : RaiseW(beat)

Fairness == /\ WF_vars(\E in \in Inputs : Edge(in))
            /\ WF_vars(SlaveAnswers) /\ WF_vars(MasterTakes) /\ WF_vars(MasterSends)

FairSpec == Spec /\ Fairness

----------------------------------------------------------------------------
(* Invariants.                                                             *)

Count == 0 .. LenMax + 1

\* Every register and channel holds a value of its type; the beat counters
\* never reach the width they are declared with.
TypeOK ==
    /\ aw \in AWRequests \cup {None} /\ ar \in ARRequests \cup {None}
    /\ w \in WBeats \cup {None}
    /\ axi \in AxiReg \cup {X}
    /\ beat_index \in Count /\ beats_sent \in Count /\ beats_total \in Count
    /\ txn_active \in BOOLEAN /\ txn_decerr \in BOOLEAN
    /\ pslverr_acc \in BOOLEAN /\ wlast_err \in BOOLEAN /\ w_done \in BOOLEAN
    /\ rfifo \in RFifo \cup {X}
    /\ rfifo_valid \in BOOLEAN
    /\ apb_state \in {"IDLE", "SETUP", "ACCESS"}
    /\ psel \in [Port -> BOOLEAN] /\ penable \in [Port -> BOOLEAN]
    /\ pbus \in [Port -> Bus]
    /\ bvalid \in BOOLEAN /\ b \in BResp
    /\ rvalid \in BOOLEAN /\ r \in RBeat

\* Nothing is in flight unless a transaction is open, and then the latches
\* were loaded.
OpenInv ==
    /\ txn_active => axi # X
    /\ ~txn_active => /\ apb_state = "IDLE"
                      /\ ~bvalid /\ ~rvalid /\ ~rfifo_valid

\* An APB transfer is for a beat of a legal transaction not yet counted.
ApbInv ==
    apb_state # "IDLE" => /\ ~txn_decerr /\ beat_index < beats_total
                          /\ ~bvalid /\ ~rvalid /\ ~rfifo_valid

\* Every beat that a legal transaction still owes lies in the window of the
\* latched port, so the latch made for the first beat serves all of them.
BeatInv ==
    txn_active /\ ~txn_decerr /\ beat_index < beats_total =>
        /\ PortOf(axi.addr) = axi.sel
        /\ axi.burst = "INCR" =>
              (axi.addr % Window) + (beats_total - 1 - beat_index) * axi.bytes < Window

\* The port outputs follow the state machine and the latched port.
PortInv ==
    \A p \in Port : /\ psel[p] <=> apb_state # "IDLE" /\ axi.sel = p
                    /\ penable[p] <=> apb_state = "ACCESS" /\ axi.sel = p
                    /\ psel[p] => /\ pbus[p].addr = axi.addr
                                  /\ pbus[p].write = axi.is_write

\* While a write still takes data there is a beat left to take; B comes when
\* the data phase is over.
WriteInv ==
    txn_active /\ axi.is_write =>
        /\ ~rvalid /\ ~rfifo_valid
        /\ bvalid => w_done
        /\ ~w_done => beat_index + (IF apb_state = "IDLE" THEN 0 ELSE 1) < beats_total

\* A read is one beat ahead of the master exactly while the buffer is full.
ReadInv ==
    txn_active /\ ~axi.is_write =>
        /\ ~bvalid
        /\ beats_sent < beats_total
        /\ beat_index = IF txn_decerr THEN 0
                        ELSE beats_sent + (IF rfifo_valid THEN 1 ELSE 0)
        /\ txn_decerr => ~rfifo_valid
        /\ rfifo_valid => rfifo # X
        /\ rvalid => /\ txn_decerr \/ rfifo_valid
                     /\ r.last = (beats_sent = beats_total - 1)

IInv == TypeOK /\ OpenInv /\ ApbInv /\ PortInv /\ WriteInv /\ ReadInv

\* APB never has both ports selected, never enables a port it has not
\* selected, and selects a port only while a transaction is open with no
\* response offered (design_contract.md, "APB4 Behavior").
ApbExclusive ==
    OnePort /\ \A p \in Port : psel[p] => txn_active /\ ~bvalid /\ ~rvalid

\* Every APB transfer is made on the port that its own address belongs to,
\* although the port is latched once per transaction and the address advances
\* and wraps (axi4_to_apb4_2x_burst.v:112-121, 207, 229-244).
BeatsInPort == \A p \in Port : psel[p] => PortOf(pbus[p].addr) = p

\* A transaction, once accepted, is brought to an end, whatever WLAST the
\* master drives and however often the slave inserts wait states or fails.
TxnCompletes == txn_active ~> ~txn_active

\* A write address offered is eventually accepted (doc/PLAN.md:54-58).
AwProgress == aw # None ~> aw = None
=============================================================================
