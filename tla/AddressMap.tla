----------------------------- MODULE AddressMap -----------------------------
(***************************************************************************)
(* Address decode of the bridges: which APB port an address belongs to,    *)
(* the address sequence of a burst, and the check of the accepted request. *)
(* An address is a number below AddrSpace = 2^ADDR_WIDTH; the port bit     *)
(* APB_ADDR_BIT splits the space into windows of Window bytes that belong  *)
(* to port 0 and port 1 in turn.                                           *)
(***************************************************************************)
EXTENDS Naturals

CONSTANTS
    LenMax,         \* largest AxLEN (255 in the RTL)
    Window,         \* 2^APB_ADDR_BIT
    AddrSpace,      \* 2^ADDR_WIDTH
    BusBytes        \* DATA_WIDTH / 8, the only legal bytes per beat

ASSUME AddressAssumption ==
    /\ LenMax \in Nat
    /\ Window \in Nat \ {0} /\ AddrSpace \in Nat \ {0}
    /\ BusBytes \in Nat \ {0}

\* The longest burst is shorter than a window, and the windows tile the
\* address space (2-KB bursts and 2-GB windows in the RTL).
ASSUME WindowAssumption ==
    LenMax * BusBytes < Window /\ AddrSpace % (2 * Window) = 0

Port  == {0, 1}
Addr  == 0 .. AddrSpace - 1
Burst == {"FIXED", "INCR", "WRAP"}

\* An AW or AR payload: len is AxLEN and bytes is 1 << AxSIZE.
Request == [id : Nat, addr : Addr, len : 0 .. LenMax, bytes : Nat \ {0},
            burst : Burst, prot : Nat]

PortOf(a) == (a \div Window) % 2

\* A plausible mistake in cross_apb: AxLEN taken for the number of beats.
cross_apb_bug(q) ==
    /\ q.burst = "INCR"
    /\ PortOf(q.addr) # PortOf((q.addr + (q.len - 1) * q.bytes) % AddrSpace)

\* The RTL compares the port bits of the first and of the last beat only,
\* and the last address wraps with the address width.
cross_apb(q) ==
    /\ q.burst = "INCR"
    /\ PortOf(q.addr) # PortOf((q.addr + q.len * q.bytes) % AddrSpace)

param_err(q) == q.bytes # BusBytes \/ q.burst = "WRAP" \/ cross_apb(q)

----------------------------------------------------------------------------
(* What the contract means by a supported request.                         *)

\* Beats are numbered from 1.
BeatAddr(q, i) ==
    IF q.burst = "INCR" THEN (q.addr + (i - 1) * q.bytes) % AddrSpace ELSE q.addr

\* Every beat of the burst decodes to the same port.
InOneWindow(q) == \A i \in 1 .. q.len + 1 : PortOf(BeatAddr(q, i)) = PortOf(q.addr)

Legal(q) == q.bytes = BusBytes /\ q.burst \in {"FIXED", "INCR"} /\ InOneWindow(q)
=============================================================================
