------------------------------ MODULE RegBlock ------------------------------
(***************************************************************************)
(* The register file of src/axi3lite_regblock.v: a write FSM and a read    *)
(* FSM on the same clock, independent of each other, with registered READY *)
(* outputs.  An Edge is one rising ACLK edge; between edges the master may *)
(* raise AW, W or AR and holds them until their handshake.  A name in _bug *)
(* is a plausible mistake in the definition below it.                      *)
(***************************************************************************)
EXTENDS Naturals

CONSTANTS
    NRegs,          \* number of registers (32 in the RTL)
    Stride,         \* bytes from one register to the next (4)
    Lanes, Bytes,   \* byte lanes of a register and what a lane may hold
    ZeroByte,
    Writes,         \* the AW payloads the master may present
    Beats,          \* the W beats
    Reads,          \* the AR payloads
    None            \* a channel whose VALID is low

Reg     == 0 .. NRegs - 1
Word    == [Lanes -> Bytes]
Address == [id : Nat, addr : Nat]
Beat    == [id : Nat, data : Word, strb : SUBSET Lanes]
Status  == {"OKAY", "SLVERR"}
BResp   == [id : Nat, resp : Status]
RBeat   == [id : Nat, data : Word, resp : Status]

ASSUME RegAssumption ==
    /\ NRegs \in Nat \ {0} /\ Stride \in Nat \ {0}
    /\ ZeroByte \in Bytes
    /\ Writes \subseteq Address /\ Reads \subseteq Address
    /\ Beats \subseteq Beat
    /\ None \notin Address \cup Beat \cup BResp \cup RBeat

VARIABLES
    aw, w, ar,                              \* the master's channels
    wr_state, wr, awready, wready, bvalid, b,   \* wr: wr_id, wr_idx and wr_range
    rd_state, arready, rvalid, r,
    regfile

master == <<aw, w, ar>>
wRegs  == <<wr_state, wr, awready, wready, bvalid, b, regfile>>
rRegs  == <<rd_state, arready, rvalid, r>>
vars   == <<master, wRegs, rRegs>>

----------------------------------------------------------------------------
(* Address decode and byte lanes.                                          *)

Blank == [l \in Lanes |-> ZeroByte]

\* The address bits below the register index are ignored, those above it
\* decide the range.
RegOf(a)   == (a \div Stride) % NRegs
InRange(a) == a < NRegs * Stride

Merge(old, beat) == [l \in Lanes |-> IF l \in beat.strb THEN beat.data[l] ELSE old[l]]

aw_handshake == aw # None /\ awready
w_handshake  == w # None /\ wready
ar_handshake == ar # None /\ arready

----------------------------------------------------------------------------
(* The write FSM.                                                          *)

WrAccept ==
    /\ wr_state = "IDLE" /\ aw_handshake
    /\ awready' = FALSE /\ wready' = TRUE
    /\ wr' = [id |-> aw.id, idx |-> RegOf(aw.addr), range |-> InRange(aw.addr)]
    /\ wr_state' = "HAVE_AW"
    /\ UNCHANGED <<bvalid, b, regfile>>

\* WREADY is up before the address is known.
WrIdle_bug ==
    /\ wr_state = "IDLE" /\ ~aw_handshake
    /\ awready' = TRUE /\ wready' = TRUE
    /\ UNCHANGED <<wr_state, wr, bvalid, b, regfile>>

WrIdle ==
    /\ wr_state = "IDLE" /\ ~aw_handshake
    /\ awready' = TRUE /\ wready' = FALSE
    /\ UNCHANGED <<wr_state, wr, bvalid, b, regfile>>

\* WID is not compared.
wr_ok_bug == wr.range
wr_ok == wr.range /\ w.id = wr.id

WrData ==
    /\ wr_state = "HAVE_AW" /\ w_handshake
    /\ wready' = FALSE
    /\ bvalid' = TRUE
    /\ b' = [id |-> wr.id, resp |-> IF wr_ok THEN "OKAY" ELSE "SLVERR"]
    /\ regfile' = IF wr_ok THEN [regfile EXCEPT ![wr.idx] = Merge(@, w)] ELSE regfile
    /\ wr_state' = "RESP"
    /\ UNCHANGED <<wr, awready>>

\* B leaves the FSM where it is.
WrResp_bug(bready) ==
    /\ wr_state = "RESP" /\ bvalid /\ bready
    /\ bvalid' = FALSE
    /\ UNCHANGED <<wr_state, wr, awready, wready, b, regfile>>

WrResp(bready) ==
    /\ wr_state = "RESP" /\ bvalid /\ bready
    /\ bvalid' = FALSE
    /\ wr_state' = "IDLE"
    /\ UNCHANGED <<wr, awready, wready, b, regfile>>

WrWait(bready) ==
    /\ \/ wr_state = "HAVE_AW" /\ ~w_handshake
       \/ wr_state = "RESP" /\ ~(bvalid /\ bready)
    /\ UNCHANGED wRegs

WriteBlock(bready) == WrAccept \/ WrIdle \/ WrData \/ WrResp(bready) \/ WrWait(bready)

----------------------------------------------------------------------------
(* The read FSM: RDATA is latched at the AR handshake.                     *)

RdAccept ==
    /\ rd_state = "IDLE" /\ ar_handshake
    /\ arready' = FALSE
    /\ rvalid' = TRUE
    /\ r' = [id   |-> ar.id,
             data |-> IF InRange(ar.addr) THEN regfile[RegOf(ar.addr)] ELSE Blank,
             resp |-> IF InRange(ar.addr) THEN "OKAY" ELSE "SLVERR"]
    /\ rd_state' = "RESP"

RdIdle ==
    /\ rd_state = "IDLE" /\ ~ar_handshake
    /\ arready' = TRUE
    /\ UNCHANGED <<rd_state, rvalid, r>>

\* RVALID is a pulse.
RdResp_bug(rready) ==
    /\ rd_state = "RESP"
    /\ rvalid' = FALSE
    /\ rd_state' = "IDLE"
    /\ UNCHANGED <<arready, r>>

\* R leaves the FSM where it is.
RdResp_stuck_bug(rready) ==
    /\ rd_state = "RESP" /\ rvalid /\ rready
    /\ rvalid' = FALSE
    /\ UNCHANGED <<rd_state, arready, r>>

RdResp(rready) ==
    /\ rd_state = "RESP" /\ rvalid /\ rready
    /\ rvalid' = FALSE
    /\ rd_state' = "IDLE"
    /\ UNCHANGED <<arready, r>>

RdWait(rready) ==
    /\ rd_state = "RESP" /\ ~(rvalid /\ rready)
    /\ UNCHANGED rRegs

ReadBlock(rready) == RdAccept \/ RdIdle \/ RdResp(rready) \/ RdWait(rready)

----------------------------------------------------------------------------
(* The master's side, and the system.                                      *)

MasterBlock ==
    /\ aw' = IF aw_handshake THEN None ELSE aw
    /\ w'  = IF w_handshake THEN None ELSE w
    /\ ar' = IF ar_handshake THEN None ELSE ar

Edge(bready, rready) == WriteBlock(bready) /\ ReadBlock(rready) /\ MasterBlock

RaiseAW(q) == aw = None /\ aw' = q /\ UNCHANGED <<w, ar, wRegs, rRegs>>
RaiseW(beat) == w = None /\ w' = beat /\ UNCHANGED <<aw, ar, wRegs, rRegs>>
RaiseAR(q) == ar = None /\ ar' = q /\ UNCHANGED <<aw, w, wRegs, rRegs>>

MasterStep == \/ \E q \in Writes : RaiseAW(q)
              \/ \E beat \in Beats : RaiseW(beat)
              \/ \E q \in Reads : RaiseAR(q)

NoB == [id |-> 0, resp |-> "OKAY"]
NoR == [id |-> 0, data |-> Blank, resp |-> "OKAY"]
NoWr == [id |-> 0, idx |-> 0, range |-> FALSE]

\* A clock edge with ARESETn low.
Reset ==
    /\ wr_state' = "IDLE" /\ awready' = FALSE /\ wready' = FALSE
    /\ bvalid' = FALSE /\ b' = NoB /\ wr' = NoWr
    /\ regfile' = [i \in Reg |-> Blank]
    /\ rd_state' = "IDLE" /\ arready' = FALSE /\ rvalid' = FALSE /\ r' = NoR
    /\ aw' = None /\ w' = None /\ ar' = None

Init ==
    /\ wr_state = "IDLE" /\ awready = FALSE /\ wready = FALSE
    /\ bvalid = FALSE /\ b = NoB /\ wr = NoWr
    /\ regfile = [i \in Reg |-> Blank]
    /\ rd_state = "IDLE" /\ arready = FALSE /\ rvalid = FALSE /\ r = NoR
    /\ aw = None /\ w = None /\ ar = None

Next == MasterStep \/ Reset \/ \E bready, rready \in BOOLEAN : Edge(bready, rready)

Spec == Init /\ [][Next]_vars

(* Fairness: ACLK keeps running, the master takes its responses and sends  *)
(* the W beat of a write it has begun, as every bench in the repository    *)
(* does.                                                                   *)
TakesB    == \E rready \in BOOLEAN : bvalid /\ Edge(TRUE, rready)
TakesR    == \E bready \in BOOLEAN : rvalid /\ Edge(bready, TRUE)
SendsBeat == wready /\ \E beat \in Beats : RaiseW(beat)

Fairness == /\ WF_vars(\E bready, rready \in BOOLEAN : Edge(bready, rready))
            /\ WF_vars(TakesB) /\ WF_vars(TakesR) /\ WF_vars(SendsBeat)

----------------------------------------------------------------------------
(* Properties.                                                             *)

\* Every register holds a value of its type; the latched index always names
\* a register.
TypeOK ==
    /\ aw \in Writes \cup {None} /\ w \in Beats \cup {None} /\ ar \in Reads \cup {None}
    /\ wr_state \in {"IDLE", "HAVE_AW", "RESP"} /\ rd_state \in {"IDLE", "RESP"}
    /\ awready \in BOOLEAN /\ arready \in BOOLEAN
    /\ wr \in [id : Nat, idx : Reg, range : BOOLEAN]
    /\ b \in BResp
    /\ r \in RBeat
    /\ regfile \in [Reg -> Word]

\* A READY or VALID is up only in the FSM state that serves it.
ChannelInv ==
    /\ awready => wr_state = "IDLE"
    /\ wready = (wr_state = "HAVE_AW")
    /\ bvalid = (wr_state = "RESP")
    /\ arready => rd_state = "IDLE"
    /\ rvalid = (rd_state = "RESP")

IInv == TypeOK /\ ChannelInv

\* A write address offered is accepted and the write brought to an end,
\* whether or not it is refused.
WriteEnds == /\ aw # None ~> aw = None
             /\ wr_state # "IDLE" ~> wr_state = "IDLE"

\* A read offered is accepted and answered, however busy the write side is.
ReadEnds == /\ ar # None ~> ar = None
            /\ rd_state # "IDLE" ~> rd_state = "IDLE"
=============================================================================
