------------------------- MODULE AxiApbBurst_proofs -------------------------
(***************************************************************************)
(* Proofs about the burst bridge, for every set of requests, beat count,   *)
(* counter width and address map that the assumptions admit.               *)
(***************************************************************************)
EXTENDS AxiApbBurst, TLAPS

----------------------------------------------------------------------------
(* Addresses: comparing the ports of the first and last beat decides about *)
(* the whole burst.                                                        *)

\* Division by m is determined by the quotient and the remainder.
LEMMA Divides ==
    ASSUME NEW m \in Nat \ {0}, NEW x \in Nat
    PROVE  /\ x \div m \in Nat /\ x % m \in 0 .. m - 1
           /\ x = m * (x \div m) + (x % m)
  <1>1. x \div m \in Nat
    BY SMT
  <1>2. x % m \in 0 .. m - 1
    BY SMT
  <1>3. x = m * (x \div m) + (x % m)
    BY SMT
  <1>. QED BY <1>1, <1>2, <1>3

LEMMA Quotient ==
    ASSUME NEW m \in Nat \ {0}, NEW n \in Nat, NEW e \in Nat, e < m
    PROVE  (m * n + e) \div m = n /\ (m * n + e) % m = e
  <1>1. (m * n + e) \div m = n
    BY SMT
  <1>2. (m * n + e) % m = e
    BY SMT
  <1>. QED BY <1>1, <1>2

\* The remainder below the divisor and up to twice the divisor.
LEMMA Wraps ==
    ASSUME NEW m \in Nat \ {0}, NEW x \in Nat, x < m
    PROVE  x % m = x /\ (m + x) % m = x /\ x \div m = 0
  <1>1. (m * 0 + x) % m = x /\ (m * 0 + x) \div m = 0
    BY Quotient
  <1>2. (m * 1 + x) % m = x
    BY Quotient
  <1>3. m * 0 + x = x /\ m * 1 + x = m + x
    BY SMT
  <1>. QED BY <1>1, <1>2, <1>3

\* Neighbouring windows belong to different ports.
LEMMA Parity == ASSUME NEW n \in Nat PROVE (n + 1) % 2 # n % 2
  BY SMT

\* Coordinates of an address: its window n, its offset e in the window, and
\* the number 2k of windows of the address space.
LEMMA Windows ==
    ASSUME NEW a \in Addr
    PROVE  /\ Window \in Nat \ {0} /\ AddrSpace \in Nat \ {0}
           /\ a \in Nat /\ a < AddrSpace
           /\ \E n, e, k \in Nat :
                 /\ n = a \div Window /\ e = a % Window /\ e < Window
                 /\ a = Window * n + e
                 /\ AddrSpace = (2 * Window) * k /\ n < 2 * k
  <1> DEFINE n == a \div Window
             e == a % Window
             k == AddrSpace \div (2 * Window)
  <1>1. Window \in Nat \ {0} /\ AddrSpace \in Nat \ {0} /\ a \in Nat /\ a < AddrSpace
    BY AddressAssumption, SMT DEF Addr
  <1>2. n \in Nat /\ e \in 0 .. Window - 1 /\ a = Window * n + e
    BY <1>1, Divides
  <1>3. k \in Nat /\ AddrSpace = (2 * Window) * k
    <2>1. 2 * Window \in Nat \ {0}
      BY <1>1, SMT
    <2>2. k \in Nat /\ AddrSpace = (2 * Window) * k + (AddrSpace % (2 * Window))
      BY <1>1, <2>1, Divides
    <2>. QED BY <1>1, <2>1, <2>2, WindowAssumption, SMT
  <1>4. n = a \div Window /\ e = a % Window
    OBVIOUS
  <1> HIDE DEF n, e, k
  <1>5. n < 2 * k
    <2>1. SUFFICES ASSUME n >= 2 * k PROVE FALSE
      BY <1>2, <1>3, SMT
    <2>2. Window * n >= Window * (2 * k)
      BY <1>1, <1>2, <1>3, <2>1, SMT
    <2>. QED BY <1>1, <1>2, <1>3, <2>2, SMT
  <1>6. e \in Nat /\ e < Window
    BY <1>1, <1>2, SMT
  <1>. QED BY <1>1, <1>2, <1>3, <1>4, <1>5, <1>6

\* A step that does not leave the window.
LEMMA StaysInside ==
    ASSUME NEW a \in Addr, NEW d \in Nat, (a % Window) + d < Window
    PROVE  /\ PortOf((a + d) % AddrSpace) = PortOf(a)
           /\ ((a + d) % AddrSpace) % Window = (a % Window) + d
  <1>1. Window \in Nat \ {0} /\ AddrSpace \in Nat \ {0} /\ a \in Nat /\ a < AddrSpace
    BY Windows
  <1>2. PICK n, e, k \in Nat : /\ n = a \div Window /\ e = a % Window /\ e < Window
                               /\ a = Window * n + e
                               /\ AddrSpace = (2 * Window) * k /\ n < 2 * k
    BY Windows
  <1>3. a + d = Window * n + (e + d) /\ e + d \in Nat /\ e + d < Window
    BY <1>1, <1>2, SMT
  <1>4. Window * n + (e + d) < Window * (n + 1)
    BY <1>1, <1>2, <1>3, SMT
  <1>5. Window * (n + 1) <= Window * (2 * k)
    BY <1>1, <1>2, SMT
  <1>6. a + d < AddrSpace /\ a + d \in Nat
    BY <1>1, <1>2, <1>3, <1>4, <1>5, SMT
  <1>7. (a + d) % AddrSpace = a + d
    BY <1>1, <1>6, Wraps
  <1>8. (a + d) \div Window = n /\ (a + d) % Window = e + d
    <2> DEFINE m == e + d
    <2>1. m \in Nat /\ m < Window /\ a + d = Window * n + m
      BY <1>3
    <2> HIDE DEF m
    <2>2. (Window * n + m) \div Window = n /\ (Window * n + m) % Window = m
      BY <1>1, <2>1, Quotient
    <2>. QED BY <2>1, <2>2, Zenon DEF m
  <1>. QED BY <1>2, <1>7, <1>8 DEF PortOf

\* A step of less than a window that leaves the window reaches the other port,
\* also where the address wraps.
LEMMA Leaves ==
    ASSUME NEW a \in Addr, NEW d \in Nat, d < Window, (a % Window) + d >= Window
    PROVE  PortOf((a + d) % AddrSpace) # PortOf(a)
  <1>1. Window \in Nat \ {0} /\ AddrSpace \in Nat \ {0} /\ a \in Nat /\ a < AddrSpace
    BY Windows
  <1>2. PICK n, e, k \in Nat : /\ n = a \div Window /\ e = a % Window /\ e < Window
                               /\ a = Window * n + e
                               /\ AddrSpace = (2 * Window) * k /\ n < 2 * k
    BY Windows
  <1> DEFINE f == e + d - Window
  <1>3. f \in Nat /\ f < Window /\ a + d = Window * (n + 1) + f
    BY <1>1, <1>2, SMT
  <1> HIDE DEF f
  <1>4. PortOf(a) = n % 2
    BY <1>2 DEF PortOf
  <1>5. CASE n + 1 < 2 * k
    <2>1. Window * (n + 2) <= Window * (2 * k)
      BY <1>1, <1>2, <1>5, SMT
    <2>2. Window * (n + 1) + f < Window * (n + 2)
      BY <1>1, <1>2, <1>3, SMT
    <2>3. a + d < AddrSpace /\ a + d \in Nat
      BY <1>1, <1>2, <1>3, <2>1, <2>2, SMT
    <2>4. (a + d) % AddrSpace = a + d
      BY <1>1, <2>3, Wraps
    <2>5. (a + d) \div Window = n + 1
      <3> DEFINE m == n + 1
      <3>1. m \in Nat /\ a + d = Window * m + f
        BY <1>3, SMT
      <3> HIDE DEF m
      <3>2. (Window * m + f) \div Window = m
        BY <1>1, <1>3, <3>1, Quotient
      <3>. QED BY <3>1, <3>2, Zenon DEF m
    <2>. QED BY <1>2, <1>4, <2>4, <2>5, Parity DEF PortOf
  <1>6. CASE n + 1 = 2 * k
    <2>1. a + d = AddrSpace + f /\ f < AddrSpace
      BY <1>1, <1>2, <1>3, <1>6, SMT
    <2>2. (a + d) % AddrSpace = f
      BY <1>1, <1>3, <2>1, Wraps
    <2>3. f \div Window = 0
      BY <1>1, <1>3, Wraps
    <2>4. n % 2 = 1
      BY <1>2, <1>6, SMT
    <2>5. PortOf((a + d) % AddrSpace) = 0
      BY <2>2, <2>3, SMT DEF PortOf
    <2>. QED BY <1>4, <2>4, <2>5
  <1>. QED BY <1>2, <1>5, <1>6, SMT

\* Less than a window further on, the port is the same exactly when the step
\* does not leave the window.
LEMMA PortStep ==
    ASSUME NEW a \in Addr, NEW d \in Nat, d < Window
    PROVE  PortOf((a + d) % AddrSpace) = PortOf(a) <=> (a % Window) + d < Window
  <1>1. (a % Window) + d < Window \/ (a % Window) + d >= Window
    BY AddressAssumption, SMT DEF Addr
  <1>. QED BY <1>1, StaysInside, Leaves

\* The step from the first to the last beat is shorter than a window.
LEMMA Reach ==
    ASSUME NEW q \in Request, q.bytes = BusBytes
    PROVE  q.len * q.bytes \in Nat /\ q.len * q.bytes < Window
  <1>1. q.len \in Nat /\ q.len <= LenMax
    BY AddressAssumption, SMT DEF Request
  <1>2. q.len * BusBytes <= LenMax * BusBytes
    BY <1>1, AddressAssumption, SMT
  <1>. QED BY <1>1, <1>2, AddressAssumption, WindowAssumption, SMT

\* A request is refused exactly when it is not a legal one, although the RTL
\* looks at two addresses only (axi4_to_apb4_2x_burst.v:112-121).
THEOREM RefusesIllegal ==
    ASSUME NEW q \in Request PROVE param_err(q) <=> ~Legal(q)
  <1> DEFINE far == q.len * q.bytes
  <1>1. /\ q.addr \in Addr /\ q.len \in Nat /\ q.len <= LenMax
        /\ q.bytes \in Nat /\ q.burst \in {"FIXED", "INCR", "WRAP"}
    BY AddressAssumption, SMT DEF Request, Burst
  <1>2. CASE q.bytes # BusBytes
    BY <1>2 DEF param_err, Legal
  <1>3. CASE q.burst = "WRAP"
    BY <1>3 DEF param_err, Legal
  <1>4. CASE q.bytes = BusBytes /\ q.burst = "FIXED"
    BY <1>4 DEF param_err, Legal, cross_apb, InOneWindow, BeatAddr
  <1>5. CASE q.bytes = BusBytes /\ q.burst = "INCR"
    <2>1. far \in Nat /\ far < Window
      BY <1>5, Reach
    <2>2. ASSUME cross_apb(q) PROVE ~InOneWindow(q)
      <3>1. q.len + 1 \in 1 .. q.len + 1 /\ BeatAddr(q, q.len + 1) = (q.addr + far) % AddrSpace
        BY <1>1, <1>5, SMT DEF BeatAddr
      <3>2. PortOf(BeatAddr(q, q.len + 1)) # PortOf(q.addr)
        BY <2>2, <3>1 DEF cross_apb
      <3>. QED BY <3>1, <3>2 DEF InOneWindow
    <2>3. ASSUME ~cross_apb(q) PROVE InOneWindow(q)
      <3>1. (q.addr % Window) + far < Window
        BY <1>1, <1>5, <2>1, <2>3, PortStep DEF cross_apb
      <3> SUFFICES ASSUME NEW i \in 1 .. q.len + 1
                   PROVE  PortOf(BeatAddr(q, i)) = PortOf(q.addr)
        BY DEF InOneWindow
      <3> DEFINE d == (i - 1) * q.bytes
      <3>2. d \in Nat /\ d <= far
        BY <1>1, SMT
      <3>3. q.addr % Window \in Nat
        BY <1>1, AddressAssumption, SMT DEF Addr
      <3>4. d < Window /\ (q.addr % Window) + d < Window
        <4> HIDE DEF d, far
        <4>. QED BY <2>1, <3>1, <3>2, <3>3, AddressAssumption, SMT
      <3>5. PortOf((q.addr + d) % AddrSpace) = PortOf(q.addr)
        <4> HIDE DEF d
        <4>. QED BY <1>1, <3>2, <3>4, PortStep
      <3>. QED BY <1>5, <3>5 DEF BeatAddr
    <2>. QED BY <1>5, <2>2, <2>3 DEF param_err, Legal
  <1>. QED BY <1>1, <1>2, <1>3, <1>4, <1>5

LEMMA PortOfType == ASSUME NEW a \in Addr PROVE PortOf(a) \in Port
  BY BurstAssumption, PinAssumption, AddressAssumption, SMT DEF PortOf, Port, Addr

LEMMA AddrWraps == ASSUME NEW a \in Nat PROVE a % AddrSpace \in Addr
  BY BurstAssumption, PinAssumption, AddressAssumption, SMT DEF Addr

LEMMA ModAdd ==
    ASSUME NEW m \in Nat \ {0}, NEW x \in Nat, NEW y \in Nat
    PROVE  ((x % m) + y) % m = (x + y) % m
<1> DEFINE n == x \div m
           z == (x % m) + y
           k == z \div m
           e == z % m
<1>1. n \in Nat /\ x % m \in Nat /\ x = m * n + (x % m)
  BY Divides, SMT
<1>2. z \in Nat
  BY <1>1
<1>3. k \in Nat /\ e \in 0 .. m - 1 /\ z = m * k + e
  BY <1>2, Divides
<1> HIDE DEF n, z, k, e
<1>4. x + y = m * n + z
  BY <1>1, SMT DEF z
<1>5. m * n + (m * k + e) = m * (n + k) + e
  BY <1>1, <1>3, SMT
<1>6. x + y = m * (n + k) + e
  BY <1>3, <1>4, <1>5
<1>7. n + k \in Nat /\ e \in Nat /\ e < m
  BY <1>1, <1>3, SMT
<1>8. (m * (n + k) + e) % m = e
  BY <1>7, Quotient
<1>. QED BY <1>6, <1>8 DEF e, z

\* The address of the first beat is that of the request, and the register
\* steps from each beat to the next.
LEMMA BeatAddrFirst ==
    ASSUME NEW q \in Request PROVE BeatAddr(q, 1) = q.addr
<1>1. q.addr \in Nat /\ q.addr < AddrSpace /\ AddrSpace \in Nat \ {0} /\ q.bytes \in Nat
  BY AddressAssumption, SMT DEF Request, Addr
<1>2. q.addr % AddrSpace = q.addr
  BY <1>1, Wraps
<1>3. q.addr + (1 - 1) * q.bytes = q.addr
  BY <1>1, SMT
<1>. QED BY <1>2, <1>3 DEF BeatAddr

LEMMA BeatAddrNext ==
    ASSUME NEW q \in Request, NEW n \in Nat, q.burst = "INCR"
    PROVE  (BeatAddr(q, n + 1) + q.bytes) % AddrSpace = BeatAddr(q, n + 1 + 1)
<1>1. q.addr \in Nat /\ AddrSpace \in Nat \ {0} /\ q.bytes \in Nat
  BY AddressAssumption, SMT DEF Request, Addr
<1> DEFINE x == q.addr + n * q.bytes
<1>2. x \in Nat /\ q.addr + (n + 1 - 1) * q.bytes = x
      /\ q.addr + (n + 1 + 1 - 1) * q.bytes = x + q.bytes
  BY <1>1, SMT
<1> HIDE DEF x
<1>3. ((x % AddrSpace) + q.bytes) % AddrSpace = (x + q.bytes) % AddrSpace
  BY <1>1, <1>2, ModAdd
<1>. QED BY <1>2, <1>3 DEF BeatAddr

\* Each beat of a legal transaction has the port latched for the first.
LEMMA BeatPort ==
    ASSUME NEW q \in Request, Legal(q), NEW n \in Nat, n < q.len + 1
    PROVE  /\ PortOf(BeatAddr(q, n + 1)) = PortOf(q.addr)
           /\ BeatAddr(q, n + 1) \in Addr /\ PortOf(q.addr) \in Port
<1>1. q.len \in Nat /\ q.addr \in Addr /\ q.bytes \in Nat
  BY AddressAssumption, SMT DEF Request
<1>2. n + 1 \in 1 .. q.len + 1
  BY <1>1, SMT
<1>3. PortOf(BeatAddr(q, n + 1)) = PortOf(q.addr)
  BY <1>2 DEF Legal, InOneWindow
<1>4. BeatAddr(q, n + 1) \in Addr
  <2>1. q.addr + (n + 1 - 1) * q.bytes \in Nat
    BY <1>1, AddressAssumption, SMT DEF Addr
  <2>. QED BY <1>1, <2>1, AddrWraps DEF BeatAddr
<1>. QED BY <1>1, <1>3, <1>4, PortOfType

----------------------------------------------------------------------------
(* Consistency of the registers.                                           *)

\* The counters are wide enough for the longest burst: adding one to a beat
\* count below the total does not wrap.
LEMMA IncExact ==
    ASSUME NEW n \in Count, n < LenMax + 1
    PROVE  Inc(n) = n + 1 /\ Inc(n) \in Count
  BY BurstAssumption, PinAssumption, AddressAssumption, SMT DEF Inc, Count

LEMMA InitInv == Init => IInv
<1> SUFFICES ASSUME Init PROVE IInv
  OBVIOUS
<1> USE DEF Init
<1>1. TypeOK
  <2>1. pbus \in [Port -> Bus]
    BY DEF Bus, NoBus
  <2>2. psel \in [Port -> BOOLEAN] /\ penable \in [Port -> BOOLEAN]
    BY DEF Nobody
  <2>3. b \in BResp /\ r \in RBeat
    BY BurstAssumption, PinAssumption, AddressAssumption, SMT DEF NoB, NoR, RBeat, BResp, Resp
  <2>4. 0 \in Count
    BY BurstAssumption, PinAssumption, AddressAssumption DEF Count
  <2>. QED BY <2>1, <2>2, <2>3, <2>4 DEF TypeOK
<1>2. OpenInv /\ ApbInv /\ WriteInv /\ ReadInv
  BY DEF OpenInv, ApbInv, WriteInv, ReadInv
<1>3. PortInv
  BY DEF PortInv, Nobody
<1>. QED BY <1>1, <1>2, <1>3 DEF IInv

\* What an accepted address phase leaves in the registers.
LEMMA LatchInv ==
    ASSUME IInv, idle_for_new, NEW q \in Request, NEW isWrite \in BOOLEAN,
           Latch(q, isWrite)
    PROVE  /\ axi' \in AxiReg /\ axi'.is_write = isWrite
           /\ beats_total' = q.len + 1 /\ beats_total' \in Count
           /\ beats_total' > 0
           /\ txn_decerr' \in BOOLEAN
  <1>1. q.len + 1 \in Count /\ (q.len + 1) % CtrMod = q.len + 1 /\ q.len + 1 > 0
    <2>1. q.len \in Count /\ q.len < LenMax + 1
      BY BurstAssumption, PinAssumption, AddressAssumption DEF Request, Count
    <2>. QED BY <2>1, IncExact, BurstAssumption, PinAssumption, AddressAssumption DEF Inc, Count
  <1>2. PortOf(q.addr) \in Port
    BY PortOfType DEF Request
  <1>3. axi' \in AxiReg /\ axi'.is_write = isWrite
    BY <1>2, SMT DEF Latch, AxiReg, Request
  <1>4. txn_decerr' \in BOOLEAN
    BY DEF Latch, param_err
  <1>. QED BY <1>1, <1>3, <1>4 DEF Latch

\* The answer of the selected slave is one of the answers a slave may give.
LEMMA AnswerType ==
    ASSUME IInv, txn_active, NEW in \in Inputs
    PROVE  /\ axi \in AxiReg
           /\ answer(in) \in Answer
           /\ answer(in).data \in Data /\ answer(in).err \in BOOLEAN
           /\ answer(in).ready \in BOOLEAN
  <1>1. axi \in AxiReg
    BY DEF IInv, OpenInv, TypeOK
  <1>2. axi.sel \in Port
    BY <1>1 DEF AxiReg
  <1>3. in.apb[axi.sel] \in Answer
    BY <1>2, BurstAssumption, PinAssumption, AddressAssumption DEF Inputs
  <1>. QED BY <1>1, <1>3 DEF answer, Answer

\* On an edge that accepts an address nothing else happens.
LEMMA AcceptQuiet ==
    ASSUME IInv, idle_for_new, NEW in \in Inputs,
           ApbBlock(in), BBlock(in), RBlock(in)
    PROVE  /\ apb_state' = "IDLE" /\ psel' = Nobody /\ penable' = Nobody
           /\ pbus' = pbus /\ bvalid' = FALSE /\ b' = b /\ rvalid' = FALSE /\ r' = r
  <1>1. ~txn_active /\ apb_state = "IDLE" /\ bvalid = FALSE /\ rvalid = FALSE
    BY DEF idle_for_new, IInv, TypeOK
  <1>2. ~w_handshake /\ ~beat_due
    BY <1>1 DEF w_handshake, WREADY, beat_due
  <1>3. ApbIdle(in)
    BY <1>1, <1>2 DEF ApbBlock, ApbStartWrite, ApbStartRead, start_write,
                      start_read, ApbSetup, ApbWait, ApbComplete, apb_done
  <1>4. bvalid' = bvalid /\ b' = b
    BY <1>1 DEF BBlock, b_handshake, b_due, bRegs
  <1>5. rvalid' = rvalid /\ r' = r
    BY <1>1 DEF RBlock, r_handshake, r_due, rRegs
  <1>. QED BY <1>1, <1>3, <1>4, <1>5 DEF ApbIdle

LEMMA AcceptInv ==
    ASSUME IInv, NEW in \in Inputs, Edge(in), NEW q \in Request,
           NEW isWrite \in BOOLEAN, idle_for_new, Latch(q, isWrite),
           rfifo' = rfifo, rfifo_valid' = FALSE
    PROVE  IInv'
  <1>1. /\ apb_state' = "IDLE" /\ psel' = Nobody /\ penable' = Nobody
        /\ pbus' = pbus /\ bvalid' = FALSE /\ b' = b /\ rvalid' = FALSE /\ r' = r
    BY AcceptQuiet DEF Edge
  <1>2. /\ axi' \in AxiReg /\ axi'.is_write = isWrite
        /\ beats_total' = q.len + 1 /\ beats_total' \in Count /\ beats_total' > 0
        /\ txn_decerr' \in BOOLEAN
    BY LatchInv
  <1>3. /\ txn_active' = TRUE /\ beat_index' = 0 /\ beats_sent' = 0
        /\ pslverr_acc' = FALSE /\ wlast_err' = FALSE /\ w_done' = FALSE
    BY DEF Latch
  <1>4. /\ aw' \in AWRequests \cup {None} /\ ar' \in ARRequests \cup {None}
        /\ w' \in WBeats \cup {None}
    BY DEF Edge, MasterBlock, IInv, TypeOK
  <1>5. psel' \in [Port -> BOOLEAN] /\ penable' \in [Port -> BOOLEAN]
    BY <1>1 DEF Nobody
  <1>6. 0 \in Count
    BY BurstAssumption, PinAssumption, AddressAssumption DEF Count
  <1>7. TypeOK'
    BY <1>1, <1>2, <1>3, <1>4, <1>5, <1>6 DEF TypeOK, IInv
  <1>8. axi' # X
    BY <1>2, BurstAssumption, PinAssumption, AddressAssumption DEF AxiReg
  <1>9. OpenInv' /\ ApbInv'
    BY <1>1, <1>3, <1>8 DEF OpenInv, ApbInv
  <1>10. WriteInv' /\ ReadInv'
    BY <1>1, <1>2, <1>3 DEF WriteInv, ReadInv
  <1>11. PortInv'
    BY <1>1 DEF PortInv, Nobody
  <1>. QED BY <1>7, <1>9, <1>10, <1>11 DEF IInv

LEMMA RBeatType ==
    ASSUME NEW i \in Nat, NEW d \in Data, NEW s \in Resp, NEW l \in BOOLEAN
    PROVE  [id |-> i, data |-> d, resp |-> s, last |-> l] \in RBeat
  BY DEF RBeat

\* The registers keep their types on an edge that accepts no address.
LEMMA ProgressTypes ==
    ASSUME IInv, NEW in \in Inputs, Edge(in), Progress(in)
    PROVE  TypeOK'
  <1>1. TypeOK
    BY DEF IInv
  <1>2. /\ aw' \in AWRequests \cup {None} /\ ar' \in ARRequests \cup {None}
        /\ w' \in WBeats \cup {None}
    BY <1>1 DEF Edge, MasterBlock, TypeOK
  <1>3. apb_done(in) => txn_active
    BY DEF apb_done, IInv, OpenInv
  <1>4. axi' \in AxiReg \cup {X}
    <2>1. CASE apb_done(in) /\ axi.burst = "INCR"
      <3>1. axi \in AxiReg
        BY <2>1, <1>3, AnswerType
      <3>2. (axi.addr + axi.bytes) % AddrSpace \in Addr
        BY <3>1, AddrWraps, SMT DEF AxiReg, Addr
      <3>3. axi' = [axi EXCEPT !.addr = (@ + axi.bytes) % AddrSpace]
        BY <2>1 DEF Progress
      <3>. QED BY <3>1, <3>2, <3>3 DEF AxiReg
    <2>2. CASE ~(apb_done(in) /\ axi.burst = "INCR")
      BY <2>2, <1>1 DEF Progress, TypeOK
    <2>. QED BY <2>1, <2>2
  <1>5. beat_index' \in Count
    <2>1. CASE apb_done(in) \/ (w_handshake /\ txn_decerr)
      <3>1. beat_index \in Count /\ beat_index < LenMax + 1
        BY <2>1, <1>1, BurstAssumption, PinAssumption, AddressAssumption
           DEF apb_done, w_handshake, WREADY, IInv, ApbInv, TypeOK, Count
      <3>. QED BY <3>1, <2>1, IncExact DEF Progress
    <2>2. CASE ~(apb_done(in) \/ (w_handshake /\ txn_decerr))
      BY <2>2, <1>1 DEF Progress, TypeOK
    <2>. QED BY <2>1, <2>2
  <1>6. beats_sent' \in Count
    <2>1. CASE r_handshake(in)
      <3>1. beats_sent \in Count /\ beats_sent < LenMax + 1
        BY <2>1, <1>1, BurstAssumption, PinAssumption, AddressAssumption
           DEF r_handshake, IInv, ReadInv, WriteInv, OpenInv, TypeOK, Count
      <3>. QED BY <3>1, <2>1, IncExact DEF Progress
    <2>2. CASE ~r_handshake(in)
      BY <2>2, <1>1 DEF Progress, TypeOK
    <2>. QED BY <2>1, <2>2
  <1>7. /\ beats_total' \in Count /\ txn_active' \in BOOLEAN /\ txn_decerr' \in BOOLEAN
        /\ pslverr_acc' \in BOOLEAN /\ wlast_err' \in BOOLEAN /\ w_done' \in BOOLEAN
        /\ rfifo_valid' \in BOOLEAN
    BY <1>1 DEF Progress, TypeOK
  <1>8. rfifo' \in RFifo \cup {X}
    <2>1. CASE apb_done(in) /\ ~axi.is_write
      BY <2>1, <1>3, AnswerType DEF Progress, RFifo
    <2>2. CASE ~(apb_done(in) /\ ~axi.is_write)
      BY <2>2, <1>1 DEF Progress, TypeOK
    <2>. QED BY <2>1, <2>2
  <1>9. /\ apb_state' \in {"IDLE", "SETUP", "ACCESS"}
        /\ psel' \in [Port -> BOOLEAN] /\ penable' \in [Port -> BOOLEAN]
    <2>1. ASSUME NEW isWrite, NEW data, Drive(isWrite, data)
          PROVE  /\ apb_state' \in {"IDLE", "SETUP", "ACCESS"}
                 /\ psel' \in [Port -> BOOLEAN] /\ penable' \in [Port -> BOOLEAN]
      BY <2>1 DEF Drive, Nobody
    <2>2. CASE ApbIdle(in) \/ ApbSetup \/ ApbWait(in) \/ ApbComplete(in)
      BY <2>2, <1>1 DEF ApbIdle, ApbSetup, ApbWait, ApbComplete, apbRegs, apbPins, TypeOK, Nobody
    <2>. QED BY <2>1, <2>2 DEF Edge, ApbBlock, ApbStartWrite, ApbStartRead
  <1>10. pbus' \in [Port -> Bus]
    <2>1. ASSUME NEW isWrite \in BOOLEAN, NEW data \in Data \cup {X}, txn_active,
                 Drive(isWrite, data)
          PROVE  pbus' \in [Port -> Bus]
      <3>1. axi \in AxiReg
        BY <2>1 DEF IInv, OpenInv, TypeOK
      <3>. QED BY <3>1, <2>1, <1>1 DEF Drive, TypeOK, AxiReg, Bus
    <2>2. CASE ApbStartWrite
      <3>1. w.data \in Data
        BY <2>2, <1>1, BurstAssumption, PinAssumption, AddressAssumption
           DEF ApbStartWrite, start_write, w_handshake, TypeOK, WBeat
      <3>. QED BY <3>1, <2>1, <2>2 DEF ApbStartWrite, start_write, beat_due
    <2>3. CASE ApbStartRead(in)
      <3>1. txn_active
        BY <2>3 DEF ApbStartRead, start_read, beat_due
      <3>2. pbus[axi.sel].data \in Data \cup {X}
        BY <3>1, <1>1 DEF IInv, OpenInv, TypeOK, AxiReg, Bus
      <3>. QED BY <3>1, <3>2, <2>1, <2>3 DEF ApbStartRead
    <2>4. CASE ApbIdle(in) \/ ApbSetup \/ ApbWait(in) \/ ApbComplete(in)
      BY <2>4, <1>1 DEF ApbIdle, ApbSetup, ApbWait, ApbComplete, apbRegs, apbPins, TypeOK
    <2>. QED BY <2>2, <2>3, <2>4 DEF Edge, ApbBlock
  <1>11. bvalid' \in BOOLEAN /\ b' \in BResp
    <2>1. b_due => axi \in AxiReg
      BY DEF b_due, IInv, OpenInv, TypeOK
    <2>2. bresp \in Resp
      BY DEF bresp, Resp
    <2>3. b_due => [id |-> axi.id, resp |-> bresp] \in BResp
      BY <2>1, <2>2 DEF AxiReg, BResp
    <2>4. CASE b_due /\ ~b_handshake(in)
      BY <2>3, <2>4 DEF Edge, BBlock
    <2>5. CASE ~b_due \/ b_handshake(in)
      BY <2>5, <1>1 DEF Edge, BBlock, bRegs, TypeOK
    <2>. QED BY <2>4, <2>5
  <1>12. rvalid' \in BOOLEAN /\ r' \in RBeat
    <2>1. r_due => axi \in AxiReg /\ (~txn_decerr => rfifo \in RFifo)
      BY DEF r_due, IInv, OpenInv, ReadInv, TypeOK
    <2>2. CASE r_due /\ ~r_handshake(in)
      <3>1. axi.id \in Nat
        BY <2>1, <2>2 DEF AxiReg
      <3>2. (IF txn_decerr THEN Zero ELSE rfifo.data) \in Data
        BY <2>1, <2>2, BurstAssumption, PinAssumption, AddressAssumption DEF RFifo
      <3>3. (IF txn_decerr THEN "DECERR" ELSE rfifo.resp) \in Resp
        BY <2>1, <2>2 DEF RFifo, Resp
      <3>4. (beats_sent = beats_total - 1) \in BOOLEAN
        OBVIOUS
      <3>5. [id   |-> axi.id,
             data |-> IF txn_decerr THEN Zero ELSE rfifo.data,
             resp |-> IF txn_decerr THEN "DECERR" ELSE rfifo.resp,
             last |-> beats_sent = beats_total - 1] \in RBeat
        BY <3>1, <3>2, <3>3, <3>4, RBeatType, Zenon
      <3>. QED BY <3>5, <2>2, Zenon DEF Edge, RBlock
    <2>3. CASE ~r_due \/ r_handshake(in)
      BY <2>3, <1>1 DEF Edge, RBlock, rRegs, TypeOK
    <2>. QED BY <2>2, <2>3
  <1>. QED
    BY <1>2, <1>4, <1>5, <1>6, <1>7, <1>8, <1>9, <1>10, <1>11, <1>12 DEF TypeOK

Control == OpenInv /\ ApbInv /\ PortInv /\ WriteInv /\ ReadInv

\* No transaction open: the edge changes none of the registers.
LEMMA IdleEdge ==
    ASSUME IInv, NEW in \in Inputs, Edge(in), Progress(in), ~txn_active
    PROVE  Control'
  <1>1. /\ apb_state = "IDLE" /\ bvalid = FALSE /\ rvalid = FALSE
        /\ rfifo_valid = FALSE /\ txn_active = FALSE
    BY DEF IInv, OpenInv, TypeOK
  <1>2. /\ ~w_handshake /\ ~beat_due /\ ~apb_done(in)
        /\ ~b_handshake(in) /\ ~r_handshake(in) /\ ~b_due /\ ~r_due
    BY <1>1 DEF w_handshake, WREADY, beat_due, apb_done, b_handshake, r_handshake,
                b_due, r_due
  <1>3. apb_state' = "IDLE" /\ psel' = Nobody /\ penable' = Nobody
    BY <1>1, <1>2 DEF Edge, ApbBlock, ApbIdle, ApbStartWrite, ApbStartRead,
                      start_write, start_read, ApbSetup, ApbWait, ApbComplete, apb_done
  <1>4. txn_active' = FALSE /\ rfifo_valid' = FALSE
    BY <1>1, <1>2 DEF Progress
  <1>5. bvalid' = FALSE /\ rvalid' = FALSE
    BY <1>1, <1>2 DEF Edge, BBlock, RBlock, bRegs, rRegs
  <1>. QED
    BY <1>3, <1>4, <1>5
       DEF Control, OpenInv, ApbInv, PortInv, WriteInv, ReadInv, Nobody

\* A transfer in its setup cycle, or waiting for the slave.
LEMMA TransferEdge ==
    ASSUME IInv, NEW in \in Inputs, Edge(in), Progress(in), txn_active,
           apb_state # "IDLE", ~apb_done(in)
    PROVE  Control'
  <1>1. /\ bvalid = FALSE /\ rvalid = FALSE /\ rfifo_valid = FALSE
        /\ txn_decerr = FALSE
    BY DEF IInv, ApbInv, TypeOK
  <1>2. /\ ~w_handshake /\ ~b_handshake(in) /\ ~r_handshake(in) /\ ~b_due /\ ~r_due
    BY <1>1 DEF w_handshake, WREADY, b_handshake, r_handshake, b_due, r_due
  <1>3. /\ UNCHANGED <<axi, beat_index, beats_sent, beats_total, txn_active,
                       txn_decerr, w_done, rfifo, rfifo_valid>>
    BY <1>1, <1>2 DEF Progress, IInv, TypeOK
  <1>4. bvalid' = FALSE /\ rvalid' = FALSE
    BY <1>1, <1>2 DEF Edge, BBlock, RBlock, bRegs, rRegs
  <1>5. /\ apb_state' = "ACCESS" /\ psel' = psel /\ pbus' = pbus
        /\ penable' = [penable EXCEPT ![axi.sel] = TRUE]
    <2>1. CASE apb_state = "SETUP"
      BY <2>1 DEF Edge, ApbBlock, ApbStartWrite, ApbStartRead, ApbIdle, ApbSetup,
                  ApbWait, ApbComplete, apb_done
    <2>2. CASE apb_state = "ACCESS"
      <3>1. ApbWait(in)
        BY <2>2 DEF Edge, ApbBlock, ApbStartWrite, ApbStartRead, ApbIdle, ApbSetup,
                    ApbComplete
      <3>2. axi.sel \in Port
        BY DEF IInv, OpenInv, TypeOK, AxiReg
      <3>3. penable[axi.sel] = TRUE
        BY <2>2, <3>2 DEF IInv, PortInv, TypeOK
      <3>. QED BY <2>2, <3>1, <3>2, <3>3 DEF ApbWait, apbRegs, apbPins, IInv, TypeOK
    <2>. QED BY <2>1, <2>2 DEF IInv, TypeOK
  <1>6. OpenInv' /\ ApbInv' /\ WriteInv' /\ ReadInv'
    BY <1>1, <1>3, <1>4, <1>5 DEF IInv, OpenInv, ApbInv, WriteInv, ReadInv
  <1>7. PortInv'
    BY <1>3, <1>5 DEF IInv, TypeOK, PortInv, OpenInv, AxiReg
  <1>. QED BY <1>6, <1>7 DEF Control

\* A transfer completes: its beat is counted, and a read fills the buffer.
LEMMA CompleteEdge ==
    ASSUME IInv, NEW in \in Inputs, Edge(in), Progress(in), txn_active,
           apb_done(in)
    PROVE  Control'
  <1>1. /\ bvalid = FALSE /\ rvalid = FALSE /\ rfifo_valid = FALSE
        /\ txn_decerr = FALSE /\ apb_state = "ACCESS" /\ beat_index < beats_total
    BY DEF IInv, ApbInv, TypeOK, apb_done
  <1>2. ~w_handshake /\ ~b_handshake(in) /\ ~r_handshake(in) /\ ~b_due /\ ~r_due
    BY <1>1 DEF w_handshake, WREADY, b_handshake, r_handshake, b_due, r_due
  <1>3. beat_index' = beat_index + 1
    <2>1. beat_index \in Count /\ beat_index < LenMax + 1
      BY <1>1, BurstAssumption, PinAssumption, AddressAssumption DEF IInv, TypeOK, Count
    <2>. QED BY <2>1, IncExact DEF Progress
  <1>4. /\ UNCHANGED <<beats_sent, beats_total, txn_active, txn_decerr, w_done>>
    BY <1>1, <1>2 DEF Progress, IInv, TypeOK
  <1>5. rfifo_valid' = ~axi.is_write /\ (~axi.is_write => rfifo' # X)
    <2>1. answer(in).data \in Data
      BY AnswerType
    <2>2. axi.is_write \in BOOLEAN
      BY AnswerType DEF AxiReg
    <2>3. rfifo_valid' = ~axi.is_write
      BY <1>1, <1>2, <2>2 DEF Progress
    <2>4. ASSUME ~axi.is_write PROVE rfifo' # X
      <3>1. rfifo' \in RFifo
        BY <2>1, <2>4 DEF Progress, RFifo
      <3>. QED BY <3>1, BurstAssumption, PinAssumption, AddressAssumption
    <2>. QED BY <2>3, <2>4
  <1>6. axi' # X /\ axi'.is_write = axi.is_write
    <2>1. axi \in AxiReg /\ axi \notin {X}
      BY AnswerType, BurstAssumption, PinAssumption, AddressAssumption
    <2>2. CASE axi.burst = "INCR"
      <3>1. axi' = [axi EXCEPT !.addr = (@ + axi.bytes) % AddrSpace]
        BY <2>2 DEF Progress
      <3>2. (axi.addr + axi.bytes) % AddrSpace \in Addr
        BY <2>1, AddrWraps, SMT DEF AxiReg, Addr
      <3>3. axi' \in AxiReg /\ axi'.is_write = axi.is_write
        BY <2>1, <3>1, <3>2 DEF AxiReg
      <3>. QED BY <3>3, BurstAssumption, PinAssumption, AddressAssumption
    <2>3. CASE axi.burst # "INCR"
      BY <2>3, <2>1 DEF Progress
    <2>. QED BY <2>2, <2>3
  <1>7. bvalid' = FALSE /\ rvalid' = FALSE
    BY <1>1, <1>2 DEF Edge, BBlock, RBlock, bRegs, rRegs
  <1>8. apb_state' = "IDLE" /\ psel' = Nobody /\ penable' = Nobody
    BY <1>1 DEF Edge, ApbBlock, ApbStartWrite, ApbStartRead, ApbIdle, ApbSetup,
                ApbWait, ApbComplete, apb_done
  <1>9. OpenInv' /\ ApbInv' /\ PortInv'
    BY <1>4, <1>6, <1>7, <1>8 DEF OpenInv, ApbInv, PortInv, Nobody
  <1>10. WriteInv'
    BY <1>1, <1>3, <1>4, <1>5, <1>6, <1>7, <1>8 DEF IInv, TypeOK, Count, WriteInv
  <1>11. ReadInv'
    <2>1. CASE ~axi.is_write
      <3>1. rfifo_valid' = TRUE /\ rfifo' # X
        BY <1>5, <2>1
      <3>2. beat_index = beats_sent /\ beats_sent < beats_total
        BY <1>1, <2>1 DEF IInv, ReadInv, TypeOK, Count
      <3>. QED BY <1>1, <1>3, <1>4, <1>7, <3>1, <3>2 DEF ReadInv
    <2>2. CASE axi.is_write
      BY <2>2, <1>6 DEF ReadInv
    <2>. QED BY <2>1, <2>2
  <1>. QED BY <1>9, <1>10, <1>11 DEF Control

\* An open write with the bus idle: a beat is taken, or B is raised or held.
LEMMA WriteEdge ==
    ASSUME IInv, NEW in \in Inputs, Edge(in), Progress(in), txn_active,
           apb_state = "IDLE", axi.is_write
    PROVE  Control'
  <1>1. rvalid = FALSE /\ rfifo_valid = FALSE /\ axi \in AxiReg /\ axi # X
    BY AnswerType DEF IInv, OpenInv, WriteInv, TypeOK
  <1>2. ~apb_done(in) /\ ~r_handshake(in) /\ ~r_due /\ ~start_read(in)
    BY <1>1 DEF apb_done, r_handshake, r_due, start_read
  <1>3. rvalid' = FALSE
    BY <1>1, <1>2 DEF Edge, RBlock, rRegs
  <1>4. /\ UNCHANGED <<axi, beats_sent, beats_total, txn_decerr>>
        /\ rfifo_valid' = FALSE
        /\ txn_active' = (txn_active /\ ~b_handshake(in))
    BY <1>1, <1>2 DEF Progress
  <1>5. CASE w_handshake
    <2>1. ~w_done /\ beat_index < beats_total /\ bvalid = FALSE
      BY <1>5 DEF w_handshake, WREADY, IInv, WriteInv, TypeOK
    <2>2. bvalid' = FALSE /\ txn_active' = TRUE
      BY <2>1, <1>4 DEF Edge, BBlock, b_handshake, b_due, bRegs
    <2>3. ~w_done' => ~final_beat
      BY <1>5 DEF Progress
    <2>4. ~w_done' => beat_index + 1 < beats_total
      BY <2>1, <2>3 DEF final_beat, IInv, TypeOK, Count
    <2>5. CASE txn_decerr
      <3>1. beat_index' = beat_index + 1
        <4>1. beat_index \in Count /\ beat_index < LenMax + 1
          BY <2>1, BurstAssumption, PinAssumption, AddressAssumption DEF IInv, TypeOK, Count
        <4>. QED BY <4>1, <1>5, <2>5, IncExact DEF Progress
      <3>2. apb_state' = "IDLE" /\ psel' = Nobody /\ penable' = Nobody
        BY <1>2, <2>5 DEF Edge, ApbBlock, ApbIdle, ApbStartWrite, ApbStartRead,
              start_write, beat_due, ApbSetup, ApbWait, ApbComplete, apb_done
      <3>3. OpenInv' /\ ApbInv'
        BY <1>1, <1>3, <1>4, <2>2, <3>2 DEF OpenInv, ApbInv
      <3>4. PortInv'
        BY <3>2 DEF PortInv, Nobody
      <3>5. WriteInv' /\ ReadInv'
        BY <1>1, <1>3, <1>4, <2>2, <2>4, <3>1, <3>2 DEF WriteInv, ReadInv
      <3>. QED BY <3>3, <3>4, <3>5 DEF Control
    <2>6. CASE ~txn_decerr
      <3>1. beat_index' = beat_index
        BY <1>2, <2>6 DEF Progress
      <3>2. start_write
        BY <1>5, <2>1, <2>6 DEF start_write, beat_due
      <3>3. Drive(TRUE, w.data)
        BY <1>2, <3>2 DEF Edge, ApbBlock, ApbIdle, ApbStartWrite, ApbStartRead,
                          ApbSetup, ApbWait, ApbComplete, apb_done
      <3>4. OpenInv' /\ ApbInv' /\ WriteInv' /\ ReadInv'
        BY <1>1, <1>3, <1>4, <2>1, <2>2, <2>4, <2>6, <3>1, <3>3
           DEF Drive, OpenInv, ApbInv, WriteInv, ReadInv
      <3>5. PortInv'
        BY <1>1, <1>4, <3>3 DEF Drive, PortInv, Nobody, AxiReg, IInv, TypeOK
      <3>. QED BY <3>4, <3>5 DEF Control
    <2>. QED BY <2>5, <2>6
  <1>6. CASE ~w_handshake
    <2>1. apb_state' = "IDLE" /\ psel' = Nobody /\ penable' = Nobody
      BY <1>2, <1>6 DEF Edge, ApbBlock, ApbIdle, ApbStartWrite, ApbStartRead,
                        start_write, ApbSetup, ApbWait, ApbComplete, apb_done
    <2>2. beat_index' = beat_index /\ w_done' = w_done
      BY <1>2, <1>6 DEF Progress, IInv, TypeOK
    <2>3. bvalid' => w_done /\ txn_active'
      BY <1>4 DEF Edge, BBlock, b_handshake, b_due, bRegs, IInv, WriteInv, TypeOK
    <2>4. ~txn_active' => ~bvalid'
      BY <1>4 DEF Edge, BBlock, b_handshake
    <2>5. OpenInv' /\ ApbInv' /\ ReadInv'
      BY <1>1, <1>3, <1>4, <2>1, <2>4 DEF OpenInv, ApbInv, ReadInv
    <2>6. WriteInv'
      BY <1>1, <1>3, <1>4, <2>1, <2>2, <2>3 DEF IInv, WriteInv
    <2>7. PortInv'
      BY <2>1 DEF PortInv, Nobody
    <2>. QED BY <2>5, <2>6, <2>7 DEF Control
  <1>. QED BY <1>5, <1>6

\* An open read with the bus idle: the next beat is started, or an R beat is
\* raised, held or taken.
LEMMA ReadEdge ==
    ASSUME IInv, NEW in \in Inputs, Edge(in), Progress(in), txn_active,
           apb_state = "IDLE", ~axi.is_write
    PROVE  Control'
  <1>1. /\ bvalid = FALSE /\ axi \in AxiReg /\ axi # X
        /\ beats_sent \in Count /\ beats_total \in Count /\ beats_sent < beats_total
        /\ txn_decerr => beat_index = 0
        /\ ~txn_decerr => beat_index = beats_sent + (IF rfifo_valid THEN 1 ELSE 0)
        /\ txn_decerr => ~rfifo_valid
        /\ rfifo_valid => rfifo # X
        /\ rvalid => txn_decerr \/ rfifo_valid
        /\ rvalid => r.last = (beats_sent = beats_total - 1)
        /\ rvalid \in BOOLEAN /\ rfifo_valid \in BOOLEAN
    BY AnswerType DEF IInv, OpenInv, ReadInv, TypeOK
  <1>2. ~apb_done(in) /\ ~b_handshake(in) /\ ~b_due /\ ~w_handshake /\ ~start_write
    BY <1>1 DEF apb_done, b_handshake, b_due, w_handshake, WREADY, start_write
  <1>3. bvalid' = FALSE
    BY <1>1, <1>2 DEF Edge, BBlock, bRegs
  <1>4. UNCHANGED <<axi, beat_index, beats_total, txn_decerr, rfifo>>
    BY <1>2 DEF Progress
  <1>5. CASE start_read(in)
    <2>1. ~txn_decerr /\ ~rfifo_valid /\ ~rvalid /\ beat_index < beats_total
      BY <1>1, <1>5 DEF start_read, beat_due
    <2>2. ~r_handshake(in) /\ ~r_due
      BY <2>1 DEF r_handshake, r_due
    <2>3. /\ rvalid' = FALSE /\ txn_active' = TRUE /\ rfifo_valid' = FALSE
          /\ beats_sent' = beats_sent
      BY <1>1, <1>2, <2>1, <2>2 DEF Edge, RBlock, rRegs, Progress
    <2>4. Drive(FALSE, pbus[axi.sel].data)
      BY <1>2, <1>5 DEF Edge, ApbBlock, ApbIdle, ApbStartWrite, ApbStartRead,
                        ApbSetup, ApbWait, ApbComplete, apb_done
    <2>5. OpenInv' /\ ApbInv' /\ WriteInv' /\ ReadInv'
      BY <1>1, <1>3, <1>4, <2>1, <2>3, <2>4
         DEF Drive, OpenInv, ApbInv, WriteInv, ReadInv
    <2>6. PortInv'
      BY <1>1, <1>4, <2>4 DEF Drive, PortInv, Nobody, AxiReg, IInv, TypeOK
    <2>. QED BY <2>5, <2>6 DEF Control
  <1>6. CASE ~start_read(in)
    <2>1. apb_state' = "IDLE" /\ psel' = Nobody /\ penable' = Nobody
      BY <1>2, <1>6 DEF Edge, ApbBlock, ApbIdle, ApbStartWrite, ApbStartRead,
                        ApbSetup, ApbWait, ApbComplete, apb_done
    <2>2. ApbInv' /\ PortInv'
      BY <2>1 DEF ApbInv, PortInv, Nobody
    <2>3. CASE r_handshake(in)
      <3>1. beats_sent' = beats_sent + 1
        <4>1. beats_sent < LenMax + 1
          BY <1>1, BurstAssumption, PinAssumption, AddressAssumption DEF Count
        <4>. QED BY <1>1, <2>3, <4>1, IncExact DEF Progress
      <3>2. /\ rvalid' = FALSE /\ rfifo_valid' = FALSE
            /\ txn_active' => beats_sent # beats_total - 1
        BY <1>1, <1>2, <2>3 DEF Edge, RBlock, Progress, r_handshake
      <3>3. ReadInv'
        <4>1. ~txn_decerr => rfifo_valid /\ beat_index = beats_sent + 1
          BY <1>1, <2>3 DEF r_handshake
        <4>2. txn_active' => beats_sent + 1 < beats_total
          BY <1>1, <3>2, BurstAssumption, PinAssumption, AddressAssumption DEF Count
        <4>3. beats_sent \in Nat /\ beats_sent' = beats_sent + 1
          BY <1>1, <3>1, BurstAssumption, PinAssumption, AddressAssumption DEF Count
        <4>4. txn_active' => beats_sent' < beats_total'
          BY <1>4, <4>2, <4>3
        <4>5. beat_index' = IF txn_decerr' THEN 0
                            ELSE beats_sent' + (IF rfifo_valid' THEN 1 ELSE 0)
          BY <1>1, <1>4, <3>2, <4>1, <4>3
        <4>. QED BY <1>1, <1>3, <1>4, <3>2, <4>4, <4>5 DEF ReadInv
      <3>. QED BY <1>1, <1>3, <1>4, <2>1, <2>2, <3>2, <3>3
               DEF Control, OpenInv, WriteInv
    <2>4. CASE ~r_handshake(in)
      <3>1. /\ beats_sent' = beats_sent /\ txn_active' = TRUE
            /\ rfifo_valid' = rfifo_valid
        BY <1>1, <1>2, <2>4 DEF Progress
      <3>2. ReadInv'
        <4>1. CASE r_due
          <5>1. rvalid' = TRUE /\ r'.last = (beats_sent = beats_total - 1)
            BY <2>4, <4>1 DEF Edge, RBlock
          <5>. QED BY <1>1, <1>3, <1>4, <3>1, <4>1, <5>1 DEF ReadInv, r_due
        <4>2. CASE ~r_due
          <5>1. rvalid' = rvalid /\ r' = r
            BY <2>4, <4>2 DEF Edge, RBlock, rRegs
          <5>. QED BY <1>1, <1>3, <1>4, <3>1, <5>1 DEF ReadInv
        <4>. QED BY <4>1, <4>2
      <3>. QED BY <1>1, <1>3, <1>4, <2>1, <2>2, <3>1, <3>2
               DEF Control, OpenInv, WriteInv
    <2>. QED BY <2>3, <2>4
  <1>. QED BY <1>5, <1>6

LEMMA EdgeInv ==
    ASSUME IInv, NEW in \in Inputs, Edge(in)
    PROVE  IInv'
  <1>1. CASE AcceptWrite
    <2>1. aw \in Request /\ idle_for_new
      BY <1>1, BurstAssumption, PinAssumption, AddressAssumption
         DEF AcceptWrite, aw_handshake, AWREADY, IInv, TypeOK
    <2>2. rfifo_valid' = FALSE /\ rfifo' = rfifo
      BY <1>1, <2>1 DEF AcceptWrite, idle_for_new, IInv, OpenInv, TypeOK
    <2>. QED BY <1>1, <2>1, <2>2, AcceptInv DEF AcceptWrite
  <1>2. CASE AcceptRead
    <2>1. ar \in Request /\ idle_for_new
      BY <1>2, BurstAssumption, PinAssumption, AddressAssumption DEF AcceptRead, ar_handshake, ARREADY, IInv, TypeOK
    <2>. QED BY <1>2, <2>1, AcceptInv DEF AcceptRead
  <1>3. CASE Progress(in)
    <2>1. TypeOK'
      BY <1>3, ProgressTypes
    <2>2. Control'
      BY <1>3, IdleEdge, TransferEdge, CompleteEdge, WriteEdge, ReadEdge
         DEF apb_done, IInv, TypeOK
    <2>. QED BY <2>1, <2>2 DEF Control, IInv
  <1>. QED BY <1>1, <1>2, <1>3 DEF Edge, TxnBlock

LEMMA ResetInv == ASSUME Reset, IInv PROVE IInv'
  <1> USE DEF Reset
  <1>1. 0 \in Count
    BY BurstAssumption, PinAssumption, AddressAssumption DEF Count
  <1>2. psel' \in [Port -> BOOLEAN] /\ penable' \in [Port -> BOOLEAN]
    BY DEF Nobody
  <1>3. b' \in BResp /\ r' \in RBeat
    BY BurstAssumption, PinAssumption, AddressAssumption DEF NoB, NoR, RBeat, BResp, Resp
  <1>4. TypeOK'
    BY <1>1, <1>2, <1>3 DEF IInv, TypeOK
  <1>5. OpenInv' /\ ApbInv' /\ WriteInv' /\ ReadInv'
    BY DEF OpenInv, ApbInv, WriteInv, ReadInv
  <1>6. PortInv'
    BY DEF PortInv, Nobody
  <1>. QED BY <1>4, <1>5, <1>6 DEF IInv

LEMMA MasterInv == ASSUME MasterStep, IInv PROVE IInv'
  <1>1. /\ aw' \in AWRequests \cup {None} /\ ar' \in ARRequests \cup {None}
        /\ w' \in WBeats \cup {None}
        /\ UNCHANGED <<txnRegs, apbRegs, bRegs, rRegs>>
    BY DEF MasterStep, RaiseAW, RaiseAR, RaiseW, IInv, TypeOK
  <1>2. TypeOK'
    BY <1>1 DEF IInv, TypeOK, txnRegs, apbRegs, apbPins, bRegs, rRegs
  <1>3. OpenInv' /\ ApbInv' /\ PortInv' /\ WriteInv' /\ ReadInv'
    BY <1>1 DEF IInv, OpenInv, ApbInv, PortInv, WriteInv, ReadInv,
                txnRegs, apbRegs, apbPins, bRegs, rRegs
  <1>. QED BY <1>2, <1>3 DEF IInv

LEMMA NextInv == IInv /\ [Next]_vars => IInv'
  <1> SUFFICES ASSUME IInv, [Next]_vars PROVE IInv'
    OBVIOUS
  <1>1. CASE Next
    BY <1>1, EdgeInv, ResetInv, MasterInv DEF Next
  <1>2. CASE UNCHANGED vars
    BY <1>2 DEF vars, master, txnRegs, apbRegs, apbPins, bRegs, rRegs, IInv, TypeOK,
                OpenInv, ApbInv, PortInv, WriteInv, ReadInv
  <1>. QED BY <1>1, <1>2

\* The four always-blocks stay consistent with each other: the registers of
\* the transaction, APB, B and R blocks always describe one and the same beat
\* of one and the same transaction (axi4_to_apb4_2x_burst.v:141-309).
THEOREM Consistent == Spec => []IInv
  BY InitInv, NextInv, PTL DEF Spec

\* Every register keeps its type; in particular no beat counter ever wraps.
THEOREM TypeCorrect == Spec => []TypeOK
  <1>1. IInv => TypeOK
    BY DEF IInv
  <1>. QED BY Consistent, <1>1, PTL

\* The two APB ports are never selected together, and a port is selected only
\* for an open transaction that has no response pending.
THEOREM ExclusivePorts == Spec => []ApbExclusive
  <1>1. IInv => ApbExclusive
    BY DEF IInv, TypeOK, OpenInv, ApbInv, PortInv, ApbExclusive, OnePort, Port
  <1>. QED BY Consistent, <1>1, PTL

----------------------------------------------------------------------------
(* Addresses.                                                              *)

\* The beats of an accepted request are in the window of its first address.
LEMMA LatchBeats ==
    ASSUME IInv, idle_for_new, NEW q \in Request, NEW isWrite \in BOOLEAN,
           Latch(q, isWrite)
    PROVE  BeatInv'
  <1> SUFFICES ASSUME ~txn_decerr'
               PROVE  /\ PortOf(axi'.addr) = axi'.sel
                      /\ axi'.burst = "INCR" =>
                            (axi'.addr % Window)
                               + (beats_total' - 1 - beat_index') * axi'.bytes < Window
    BY DEF BeatInv
  <1>1. /\ axi'.addr = q.addr /\ axi'.sel = PortOf(q.addr)
        /\ axi'.burst = q.burst /\ axi'.bytes = q.bytes
        /\ beat_index' = 0
    BY DEF Latch
  <1>2. beats_total' = q.len + 1
    BY LatchInv
  <1>3. q.len \in Nat /\ q.addr \in Addr
    BY AddressAssumption, SMT DEF Request
  <1>4. q.bytes = BusBytes /\ ~cross_apb(q)
    BY DEF Latch, param_err
  <1>5. ASSUME q.burst = "INCR" PROVE (q.addr % Window) + q.len * q.bytes < Window
    <2>1. PortOf((q.addr + q.len * q.bytes) % AddrSpace) = PortOf(q.addr)
      BY <1>4, <1>5 DEF cross_apb
    <2>2. q.len * q.bytes \in Nat /\ q.len * q.bytes < Window
      BY <1>4, Reach
    <2>. QED BY <1>3, <2>1, <2>2, PortStep
  <1>6. beats_total' - 1 - beat_index' = q.len
    BY <1>1, <1>2, <1>3, SMT
  <1>. QED BY <1>1, <1>5, <1>6

\* What is left of a burst stays in the window when one beat is done.
LEMMA StepBeats ==
    ASSUME NEW a \in Addr, NEW bytes \in Nat \ {0}, NEW left \in Nat \ {0},
           (a % Window) + left * bytes < Window
    PROVE  /\ PortOf((a + bytes) % AddrSpace) = PortOf(a)
           /\ (((a + bytes) % AddrSpace) % Window) + (left - 1) * bytes < Window
  <1>1. a % Window \in Nat
    BY AddressAssumption, SMT DEF Addr
  <1>2. left * bytes = bytes + (left - 1) * bytes /\ (left - 1) * bytes \in Nat
    BY SMT
  <1>3. (a % Window) + bytes < Window
    <2> DEFINE rest == (left - 1) * bytes
    <2>1. rest \in Nat /\ (a % Window) + (bytes + rest) < Window
      BY <1>2
    <2> HIDE DEF rest
    <2>. QED BY <1>1, <2>1, AddressAssumption, SMT
  <1>4. /\ PortOf((a + bytes) % AddrSpace) = PortOf(a)
        /\ ((a + bytes) % AddrSpace) % Window = (a % Window) + bytes
    BY <1>3, StaysInside
  <1>. QED BY <1>1, <1>2, <1>4, AddressAssumption, SMT

LEMMA ProgressBeats ==
    ASSUME IInv, BeatInv, NEW in \in Inputs, Edge(in), Progress(in)
    PROVE  BeatInv'
  <1> SUFFICES ASSUME txn_active', ~txn_decerr', beat_index' < beats_total'
               PROVE  /\ PortOf(axi'.addr) = axi'.sel
                      /\ axi'.burst = "INCR" =>
                            (axi'.addr % Window)
                               + (beats_total' - 1 - beat_index') * axi'.bytes < Window
    BY DEF BeatInv
  <1>1. txn_active /\ ~txn_decerr /\ beats_total' = beats_total
    BY DEF Progress
  <1>2. axi \in AxiReg
    BY <1>1 DEF IInv, TypeOK, OpenInv
  <1>3. CASE apb_done(in)
    <2>1. beat_index < beats_total /\ beat_index \in Nat /\ beats_total \in Nat
      BY <1>3, AddressAssumption DEF apb_done, IInv, ApbInv, TypeOK, Count
    <2>2. beat_index' = beat_index + 1
      <3>1. beat_index \in Count /\ beat_index < LenMax + 1
        BY <2>1, AddressAssumption DEF IInv, TypeOK, Count
      <3>. QED BY <1>3, <3>1, IncExact DEF Progress
    <2>3. /\ PortOf(axi.addr) = axi.sel
          /\ axi.burst = "INCR" =>
                (axi.addr % Window) + (beats_total - 1 - beat_index) * axi.bytes < Window
      BY <1>1, <2>1 DEF BeatInv
    <2>4. CASE axi.burst = "INCR"
      <3> DEFINE left == beats_total - 1 - beat_index
      <3>1. left \in Nat \ {0} /\ beats_total' - 1 - beat_index' = left - 1
        BY <1>1, <2>1, <2>2, SMT
      <3> HIDE DEF left
      <3>2. axi' = [axi EXCEPT !.addr = (@ + axi.bytes) % AddrSpace]
        BY <1>3, <2>4 DEF Progress
      <3>3. /\ axi'.addr = (axi.addr + axi.bytes) % AddrSpace
            /\ axi'.sel = axi.sel /\ axi'.bytes = axi.bytes
        BY <1>2, <3>2 DEF AxiReg
      <3>4. (axi.addr % Window) + left * axi.bytes < Window
        BY <2>3, <2>4 DEF left
      <3>5. axi.addr \in Addr /\ axi.bytes \in Nat \ {0}
        BY <1>2 DEF AxiReg
      <3>6. /\ PortOf((axi.addr + axi.bytes) % AddrSpace) = PortOf(axi.addr)
            /\ (((axi.addr + axi.bytes) % AddrSpace) % Window) + (left - 1) * axi.bytes
                  < Window
        BY <3>1, <3>4, <3>5, StepBeats
      <3>. QED BY <2>3, <3>1, <3>3, <3>6
    <2>5. CASE axi.burst # "INCR"
      BY <2>3, <2>5 DEF Progress
    <2>. QED BY <2>4, <2>5
  <1>4. CASE ~apb_done(in)
    <2>1. axi' = axi /\ beat_index' = beat_index
      BY <1>1, <1>4 DEF Progress
    <2>. QED BY <1>1, <2>1 DEF BeatInv
  <1>. QED BY <1>3, <1>4

\* A legal burst never leaves the port its address was decoded to: every APB
\* transfer is made on the port that its own address belongs to.
THEOREM BeatsKeepPort == Spec => []BeatsInPort
  <1>1. Init => BeatInv
    BY DEF Init, BeatInv
  <1>2. IInv /\ BeatInv /\ [Next]_vars => BeatInv'
    <2> SUFFICES ASSUME IInv, BeatInv, [Next]_vars PROVE BeatInv'
      OBVIOUS
    <2>1. CASE MasterStep
      BY <2>1 DEF MasterStep, RaiseAW, RaiseAR, RaiseW, txnRegs, BeatInv
    <2>2. CASE Reset
      BY <2>2 DEF Reset, BeatInv
    <2>3. ASSUME NEW in \in Inputs, Edge(in) PROVE BeatInv'
      <3>1. CASE AcceptWrite
        <4>1. aw \in Request /\ idle_for_new
          BY <3>1, PinAssumption
             DEF AcceptWrite, aw_handshake, AWREADY, IInv, TypeOK
        <4>. QED BY <3>1, <4>1, LatchBeats DEF AcceptWrite
      <3>2. CASE AcceptRead
        <4>1. ar \in Request /\ idle_for_new
          BY <3>2, PinAssumption
             DEF AcceptRead, ar_handshake, ARREADY, IInv, TypeOK
        <4>. QED BY <3>2, <4>1, LatchBeats DEF AcceptRead
      <3>3. CASE Progress(in)
        BY <2>3, <3>3, ProgressBeats
      <3>. QED BY <2>3, <3>1, <3>2, <3>3 DEF Edge, TxnBlock
    <2>4. CASE UNCHANGED vars
      BY <2>4 DEF vars, txnRegs, BeatInv
    <2>. QED BY <2>1, <2>2, <2>3, <2>4 DEF Next
  <1>3. IInv /\ BeatInv => BeatsInPort
    BY DEF IInv, TypeOK, OpenInv, ApbInv, PortInv, BeatInv, BeatsInPort
  <1>. QED BY Consistent, <1>1, <1>2, <1>3, PTL DEF Spec
=============================================================================
