------------------------------ MODULE AxiPins -------------------------------
(***************************************************************************)
(* The pins that both bridges share: the AXI channels as the master drives *)
(* them, the registered B, R and APB outputs, and what the slaves and the  *)
(* master may drive on a clock edge.  A channel whose VALID is low is      *)
(* None.  X is the value of a register that reset does not load: TLC       *)
(* reports an error if a bridge ever looks inside it.                      *)
(***************************************************************************)
EXTENDS AddressMap

CONSTANTS
    AWRequests,     \* the AW payloads the master may present
    ARRequests,     \* the AR payloads
    WBeats,         \* the W beats
    Data,           \* values of WDATA with its WSTRB, of PRDATA and of RDATA
    Answers,        \* what a slave may drive on PREADY, PSLVERR and PRDATA
    Zero,           \* the all-zero RDATA of a decode error
    SerialMaster,   \* TRUE: the master keeps its reads and writes apart
    None, X

Resp == {"OKAY", "SLVERR", "DECERR"}

WBeat  == [data : Data, last : BOOLEAN]
BResp  == [id : Nat, resp : Resp]
RBeat  == [id : Nat, data : Data, resp : Resp, last : BOOLEAN]
Answer == [ready : BOOLEAN, err : BOOLEAN, data : Data]
Inputs == [bready : BOOLEAN, rready : BOOLEAN, apb : [Port -> Answers]]

\* PADDR, PPROT, PWRITE and PWDATA of a port.
Bus == [addr : Addr \cup {X}, prot : Nat \cup {X}, write : BOOLEAN \cup {X},
        data : Data \cup {X}]

ASSUME PinAssumption ==
    /\ AWRequests \subseteq Request /\ ARRequests \subseteq Request
    /\ WBeats \subseteq WBeat /\ Answers \subseteq Answer
    /\ Zero \in Data
    /\ SerialMaster \in BOOLEAN
    /\ None \notin Request \cup WBeat

VARIABLES
    aw, w, ar,          \* None, or the payload the master holds until its handshake
    psel, penable,      \* per port
    pbus,               \* a Bus per port
    bvalid, b,          \* BVALID; BID with BRESP
    rvalid, r           \* RVALID; RID, RDATA, RRESP and RLAST

master  == <<aw, w, ar>>
apbPins == <<psel, penable, pbus>>
bRegs   == <<bvalid, b>>
rRegs   == <<rvalid, r>>

b_handshake(in) == bvalid /\ in.bready
r_handshake(in) == rvalid /\ in.rready

Nobody == [p \in Port |-> FALSE]
NoBus  == [addr |-> X, prot |-> X, write |-> X, data |-> X]

\* Transfers that complete on an edge, as the slaves see them.
done_at(in) == {p \in Port : psel[p] /\ penable[p] /\ in.apb[p].ready}

Transfer(p, in) ==
    [port |-> p, addr |-> pbus[p].addr, prot |-> pbus[p].prot,
     write |-> pbus[p].write,
     data |-> IF pbus[p].write THEN pbus[p].data ELSE in.apb[p].data,
     err |-> in.apb[p].err]

----------------------------------------------------------------------------
\* APB never has both ports selected and never enables a port it has not
\* selected (design_contract.md, "APB4 Behavior").
OnePort == /\ ~(psel[0] /\ psel[1])
           /\ \A p \in Port : penable[p] => psel[p]
=============================================================================
