---------------------------- MODULE AxiApbSimple ----------------------------
(***************************************************************************)
(* The single-beat bridge of src/axi4_to_apb4_2x_simple.v: one state       *)
(* machine that collects AW and W in either order, or takes one AR, and    *)
(* runs one APB transfer for it.  An Edge is one rising ACLK edge; between *)
(* edges the master may raise AW, W or AR and holds them until their       *)
(* handshake.                                                              *)
(***************************************************************************)
EXTENDS AxiPins

VARIABLES
    state,
    txn,                    \* id_reg, addr_reg, prot_reg and sel_apb1
    aw_pending, w_pending,  \* the half of a write accepted so far
    wdata                   \* wdata_reg with wstrb_reg

regs == <<state, txn, aw_pending, w_pending, wdata>>
vars == <<master, regs, apbPins, bRegs, rRegs>>

----------------------------------------------------------------------------
(* Combinational logic.  As in AxiApbBurst, a name in _bug is a plausible  *)
(* mistake in the definition below it.                                     *)

\* AW waits for a quiet W channel.
AWREADY_bug == state = "IDLE" /\ ~aw_pending /\ ar = None /\ w = None
AWREADY == state = "IDLE" /\ ~aw_pending /\ ar = None
WREADY  == state = "IDLE" /\ ~w_pending /\ ar = None

\* A read is blocked by AW only.
ARREADY_bug == state = "IDLE" /\ aw = None
ARREADY == state = "IDLE" /\ ~aw_pending /\ ~w_pending /\ aw = None /\ w = None

aw_handshake == aw # None /\ AWREADY
w_handshake  == w # None /\ WREADY
ar_handshake == ar # None /\ ARREADY

\* AxBURST is a don't-care.
refused(q) == q.len # 0 \/ q.bytes # BusBytes

Fields(q) == [id |-> q.id, addr |-> q.addr, prot |-> q.prot, sel |-> PortOf(q.addr)]

----------------------------------------------------------------------------
(* The response registers: offered by the state machine, otherwise dropped *)
(* by their handshake.                                                     *)

OfferB(resp) == bvalid' = TRUE /\ b' = [id |-> txn.id, resp |-> resp]
KeepB(in)    == bvalid' = (bvalid /\ ~b_handshake(in)) /\ b' = b

OfferR(id, data, resp) ==
    rvalid' = TRUE /\ r' = [id |-> id, data |-> data, resp |-> resp, last |-> TRUE]
\* RVALID is a pulse.
KeepR_bug(in) == rvalid' = FALSE /\ r' = r
KeepR(in) == rvalid' = (rvalid /\ ~r_handshake(in)) /\ r' = r

----------------------------------------------------------------------------
(* ST_IDLE.  A write whose two halves are pending, an AR handshake and an  *)
(* AW or W handshake exclude each other.                                   *)

\* PWDATA keeps its old value during a read.
Drive(q, isWrite, data) ==
    /\ pbus' = [pbus EXCEPT ![q.sel] = [addr |-> q.addr, prot |-> q.prot,
                                        write |-> isWrite, data |-> data]]
    /\ psel' = [psel EXCEPT ![q.sel] = TRUE]
    /\ UNCHANGED penable

CollectWrite(in) ==
    /\ state = "IDLE" /\ (aw_handshake \/ w_handshake)
    /\ txn' = IF aw_handshake THEN Fields(aw) ELSE txn
    /\ aw_pending' = (aw_pending \/ aw_handshake)
    /\ w_pending' = (w_pending \/ w_handshake)
    /\ wdata' = IF w_handshake THEN w.data ELSE wdata
    /\ state' = IF aw_handshake /\ refused(aw) THEN "ERR_RESP" ELSE "IDLE"
    /\ KeepB(in) /\ KeepR(in)
    /\ UNCHANGED apbPins

LaunchWrite(in) ==
    /\ state = "IDLE" /\ aw_pending /\ w_pending
    /\ aw_pending' = FALSE /\ w_pending' = FALSE
    /\ Drive(txn, TRUE, wdata)
    /\ state' = "WRITE_APB"
    /\ KeepB(in) /\ KeepR(in)
    /\ UNCHANGED <<txn, wdata>>

RefuseRead(in) ==
    /\ state = "IDLE" /\ ar_handshake /\ refused(ar)
    /\ txn' = Fields(ar)
    /\ OfferR(ar.id, Zero, "DECERR")
    /\ state' = "READ_RESP"
    /\ KeepB(in)
    /\ UNCHANGED <<aw_pending, w_pending, wdata, apbPins>>

LaunchRead(in) ==
    /\ state = "IDLE" /\ ar_handshake /\ ~refused(ar)
    /\ txn' = Fields(ar)
    /\ Drive(Fields(ar), FALSE, pbus[PortOf(ar.addr)].data)
    /\ state' = "READ_APB"
    /\ KeepB(in) /\ KeepR(in)
    /\ UNCHANGED <<aw_pending, w_pending, wdata>>

\* Nothing to do in this state on this edge.
Rest(in) ==
    /\ \/ /\ state = "IDLE" /\ ~(aw_pending /\ w_pending)
          /\ ~aw_handshake /\ ~w_handshake /\ ~ar_handshake
       \/ state = "ERR_RESP" /\ ~(aw_pending /\ w_pending)
       \/ state = "WRITE_RESP" /\ bvalid
       \/ state = "READ_RESP" /\ rvalid
       \/ /\ state \in {"WRITE_APB", "READ_APB"}
          /\ penable[txn.sel] /\ ~in.apb[txn.sel].ready
    /\ KeepB(in) /\ KeepR(in)
    /\ UNCHANGED <<regs, apbPins>>

----------------------------------------------------------------------------
(* ST_WRITE_APB, ST_READ_APB and the response states.                      *)

ApbEnable(in) ==
    /\ state \in {"WRITE_APB", "READ_APB"} /\ ~penable[txn.sel]
    /\ penable' = [penable EXCEPT ![txn.sel] = TRUE]
    /\ KeepB(in) /\ KeepR(in)
    /\ UNCHANGED <<regs, psel, pbus>>

\* PREADY is not sampled.
apb_done_bug(in) == state \in {"WRITE_APB", "READ_APB"} /\ penable[txn.sel]
apb_done(in) == /\ state \in {"WRITE_APB", "READ_APB"}
                /\ penable[txn.sel] /\ in.apb[txn.sel].ready

Status(in) == IF in.apb[txn.sel].err THEN "SLVERR" ELSE "OKAY"

\* PSEL stays up.
Release_bug == /\ penable' = [penable EXCEPT ![txn.sel] = FALSE]
               /\ UNCHANGED <<psel, pbus>>
Release == /\ psel' = [psel EXCEPT ![txn.sel] = FALSE]
           /\ penable' = [penable EXCEPT ![txn.sel] = FALSE]
           /\ UNCHANGED pbus

WriteDone(in) ==
    /\ state = "WRITE_APB" /\ apb_done(in)
    /\ Release
    /\ OfferB(Status(in))
    /\ state' = "WRITE_RESP"
    /\ KeepR(in)
    /\ UNCHANGED <<txn, aw_pending, w_pending, wdata>>

ReadDone(in) ==
    /\ state = "READ_APB" /\ apb_done(in)
    /\ Release
    /\ OfferR(txn.id, in.apb[txn.sel].data, Status(in))
    /\ state' = "READ_RESP"
    /\ KeepB(in)
    /\ UNCHANGED <<txn, aw_pending, w_pending, wdata>>

\* A refused write is answered once its W beat is there too, but WREADY is
\* low in this state.
ErrResp(in) ==
    /\ state = "ERR_RESP" /\ aw_pending /\ w_pending
    /\ aw_pending' = FALSE /\ w_pending' = FALSE
    /\ OfferB("DECERR")
    /\ state' = "WRITE_RESP"
    /\ KeepR(in)
    /\ UNCHANGED <<txn, wdata, apbPins>>

RespDone(in) ==
    /\ \/ state = "WRITE_RESP" /\ ~bvalid
       \/ state = "READ_RESP" /\ ~rvalid
    /\ state' = "IDLE"
    /\ KeepB(in) /\ KeepR(in)
    /\ UNCHANGED <<txn, aw_pending, w_pending, wdata, apbPins>>

----------------------------------------------------------------------------
(* The master's side, and the system.                                      *)

MasterBlock ==
    /\ aw' = IF aw_handshake THEN None ELSE aw
    /\ w'  = IF w_handshake THEN None ELSE w
    /\ ar' = IF ar_handshake THEN None ELSE ar

Edge(in) ==
    /\ MasterBlock
    /\ \/ CollectWrite(in) \/ LaunchWrite(in) \/ RefuseRead(in) \/ LaunchRead(in)
       \/ Rest(in) \/ ApbEnable(in) \/ WriteDone(in) \/ ReadDone(in)
       \/ ErrResp(in) \/ RespDone(in)

\* A master that keeps its reads and writes apart raises AR only while it
\* holds no half of a write, raised or accepted, and the other way round.
WriteOpen == aw # None \/ w # None \/ aw_pending \/ w_pending

RaiseAW(q) == /\ aw = None /\ (SerialMaster => ar = None)
              /\ aw' = q
              /\ UNCHANGED <<w, ar, regs, apbPins, bRegs, rRegs>>

RaiseW(beat) == /\ w = None /\ (SerialMaster => ar = None)
                /\ w' = beat
                /\ UNCHANGED <<aw, ar, regs, apbPins, bRegs, rRegs>>

RaiseAR(q) == /\ ar = None /\ (SerialMaster => ~WriteOpen)
              /\ ar' = q
              /\ UNCHANGED <<aw, w, regs, apbPins, bRegs, rRegs>>

MasterStep == \/ \E q \in AWRequests : RaiseAW(q)
              \/ \E beat \in WBeats : RaiseW(beat)
              \/ \E q \in ARRequests : RaiseAR(q)

\* Reset loads none of the latches and payloads.
Reset ==
    /\ state' = "IDLE" /\ aw_pending' = FALSE /\ w_pending' = FALSE
    /\ bvalid' = FALSE /\ rvalid' = FALSE
    /\ psel' = Nobody /\ penable' = Nobody
    /\ aw' = None /\ w' = None /\ ar' = None
    /\ UNCHANGED <<txn, wdata, pbus, b, r>>

\* After the power-up reset.
Init ==
    /\ state = "IDLE" /\ aw_pending = FALSE /\ w_pending = FALSE
    /\ bvalid = FALSE /\ rvalid = FALSE
    /\ psel = Nobody /\ penable = Nobody
    /\ aw = None /\ w = None /\ ar = None
    /\ txn = X /\ wdata = X /\ b = X /\ r = X
    /\ pbus = [p \in Port |-> NoBus]

Next == MasterStep \/ Reset \/ \E in \in Inputs : Edge(in)

Spec == Init /\ [][Next]_vars

(* Fairness: ACLK keeps running, slaves answer, the master takes responses *)
(* and completes a write it has begun (the bounds the formal harness       *)
(* assumes, verification/formal/apb4_simple_props.sv:256-314).             *)
SlaveAnswers == \E in \in Inputs : apb_done(in) /\ Edge(in)
MasterTakes  == \E in \in Inputs : (b_handshake(in) \/ r_handshake(in)) /\ Edge(in)
MasterPairs  == \/ aw_pending /\ ~w_pending /\ \E beat \in WBeats : RaiseW(beat)
                \/ w_pending /\ ~aw_pending /\ \E q \in AWRequests : RaiseAW(q)

Fairness == /\ WF_vars(\E in \in Inputs : Edge(in))
            /\ WF_vars(SlaveAnswers) /\ WF_vars(MasterTakes) /\ WF_vars(MasterPairs)

FairSpec == Spec /\ Fairness

----------------------------------------------------------------------------
(* Invariants.                                                             *)

States == {"IDLE", "WRITE_APB", "READ_APB", "ERR_RESP", "WRITE_RESP", "READ_RESP"}
Latch  == [id : Nat, addr : Addr, prot : Nat, sel : Port]

\* Every register and channel holds a value of its type, or X while nothing
\* has loaded it.
TypeOK ==
    /\ aw \in AWRequests \cup {None} /\ ar \in ARRequests \cup {None}
    /\ w \in WBeats \cup {None}
    /\ state \in States /\ txn \in Latch \cup {X} /\ wdata \in Data \cup {X}
    /\ aw_pending \in BOOLEAN /\ w_pending \in BOOLEAN
    /\ psel \in [Port -> BOOLEAN] /\ penable \in [Port -> BOOLEAN]
    /\ pbus \in [Port -> Bus]
    /\ bvalid \in BOOLEAN /\ b \in BResp \cup {X}
    /\ rvalid \in BOOLEAN /\ r \in RBeat \cup {X}

\* Halves of a write wait in the idle state, or in the error state for a
\* refused AW; what a state works on was latched before it.
PendingInv ==
    /\ aw_pending \/ w_pending => state \in {"IDLE", "ERR_RESP"}
    /\ state = "ERR_RESP" => aw_pending
    /\ aw_pending \/ state # "IDLE" => txn \in Latch
    /\ w_pending \/ state = "WRITE_APB" => wdata \in Data

\* The port outputs follow the state machine and the latched port.
PortInv ==
    \A p \in Port :
        /\ psel[p] <=> state \in {"WRITE_APB", "READ_APB"} /\ txn.sel = p
        /\ penable[p] => psel[p]
        /\ psel[p] => /\ pbus[p].addr = txn.addr /\ pbus[p].prot = txn.prot
                      /\ pbus[p].write = (state = "WRITE_APB")
                      /\ pbus[p].write => pbus[p].data = wdata

\* Each response is offered in its own state only.
RespInv == /\ bvalid => state = "WRITE_RESP"
           /\ rvalid => state = "READ_RESP"

IInv == TypeOK /\ PendingInv /\ PortInv /\ RespInv

----------------------------------------------------------------------------
(* Properties.                                                             *)

\* A transaction begun, be it by half a write, is brought to an end.
TxnEnds == (state # "IDLE" \/ aw_pending \/ w_pending) ~>
           (state = "IDLE" /\ ~aw_pending /\ ~w_pending)

(* Progress with a master that keeps its reads and writes apart, as the    *)
(* formal harness assumes, and that presents no write the bridge refuses.  *)
Apart  == ar # None => ~WriteOpen
Proper == Apart /\ (aw # None => ~refused(aw))

\* What such a master begins is brought to an end.
ProperTxnEnds == []Proper => TxnEnds
=============================================================================
