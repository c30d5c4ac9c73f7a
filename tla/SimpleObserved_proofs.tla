----------------------- MODULE SimpleObserved_proofs -----------------------
(***************************************************************************)
(* Proofs about the single-beat bridge, for every set of requests, beats   *)
(* and slave answers and every address map that the assumptions admit: its *)
(* state machine, latches and port outputs stay consistent, APB and the    *)
(* response channels keep their protocols, and the bridge implements the   *)
(* machine of SingleBeat.                                                  *)
(***************************************************************************)
EXTENDS SimpleObserved, TLAPS

LEMMA PortOfType == ASSUME NEW a \in Addr PROVE PortOf(a) \in Port
  BY AddressAssumption, SMT DEF PortOf, Port, Addr

LEMMA FieldsType == ASSUME NEW q \in Request PROVE Fields(q) \in Latch
  BY PortOfType DEF Fields, Request, Latch

\* What the slave of a port answers on an edge.
LEMMA AnswerType ==
    ASSUME NEW in \in Inputs, NEW p \in Port
    PROVE  /\ in.apb[p].ready \in BOOLEAN /\ in.apb[p].err \in BOOLEAN
           /\ in.apb[p].data \in Data
  BY PinAssumption DEF Inputs, Answer

LEMMA InitInv == Init => IInv
<1> SUFFICES ASSUME Init PROVE IInv
  OBVIOUS
<1>1. pbus \in [Port -> Bus]
  BY DEF Init, NoBus, Bus
<1>2. psel \in [Port -> BOOLEAN] /\ penable \in [Port -> BOOLEAN]
  BY DEF Init, Nobody
<1>3. TypeOK
  BY <1>1, <1>2 DEF Init, TypeOK, States
<1>4. PortInv
  BY DEF Init, PortInv, Nobody
<1>. QED BY <1>3, <1>4 DEF Init, IInv, PendingInv, RespInv

LEMMA ResetInv == ASSUME IInv, Reset PROVE IInv'
<1>1. psel' \in [Port -> BOOLEAN] /\ penable' \in [Port -> BOOLEAN]
  BY DEF Reset, Nobody
<1>2. TypeOK'
  BY <1>1 DEF Reset, IInv, TypeOK, States
<1>3. PortInv'
  BY DEF Reset, PortInv, Nobody
<1>. QED BY <1>2, <1>3 DEF Reset, IInv, PendingInv, RespInv

LEMMA MasterInv == ASSUME IInv, MasterStep PROVE IInv'
<1>1. /\ aw' \in AWRequests \cup {None} /\ ar' \in ARRequests \cup {None}
      /\ w' \in WBeats \cup {None}
      /\ UNCHANGED <<regs, apbPins, bRegs, rRegs>>
  BY DEF MasterStep, RaiseAW, RaiseW, RaiseAR, IInv, TypeOK
<1>. QED BY <1>1 DEF IInv, TypeOK, PendingInv, PortInv, RespInv,
                     regs, apbPins, bRegs, rRegs

\* What an edge of the master and of the response registers that nothing was
\* offered to leaves.
LEMMA MasterBlockType ==
    ASSUME IInv, MasterBlock
    PROVE  /\ aw' \in AWRequests \cup {None} /\ ar' \in ARRequests \cup {None}
           /\ w' \in WBeats \cup {None}
  BY DEF MasterBlock, IInv, TypeOK

LEMMA KeepType ==
    ASSUME IInv, NEW in \in Inputs
    PROVE  /\ KeepB(in) => bvalid' \in BOOLEAN /\ b' \in BResp \cup {X} /\ (bvalid' => bvalid)
           /\ KeepR(in) => rvalid' \in BOOLEAN /\ r' \in RBeat \cup {X} /\ (rvalid' => rvalid)
  BY DEF KeepB, KeepR, b_handshake, r_handshake, IInv, TypeOK

\* A channel whose handshake takes place carries a request or a beat.
LEMMA ChannelType ==
    ASSUME IInv
    PROVE  /\ aw_handshake => aw \in AWRequests /\ aw \in Request /\ aw # None
           /\ ar_handshake => ar \in ARRequests /\ ar \in Request /\ ar # None
           /\ w_handshake => w \in WBeats /\ w.data \in Data /\ w # None
  BY PinAssumption DEF aw_handshake, ar_handshake, w_handshake, IInv, TypeOK, WBeat

\* Driving the port of a latched request.
LEMMA DriveInv ==
    ASSUME IInv, NEW q \in Latch, NEW isWrite \in BOOLEAN, NEW data \in Data \cup {X},
           Drive(q, isWrite, data), state = "IDLE"
    PROVE  /\ pbus' \in [Port -> Bus] /\ psel' \in [Port -> BOOLEAN]
           /\ penable' \in [Port -> BOOLEAN]
           /\ \A p \in Port :
                /\ psel'[p] <=> q.sel = p
                /\ ~penable'[p]
                /\ psel'[p] => pbus'[p] = [addr |-> q.addr, prot |-> q.prot,
                                           write |-> isWrite, data |-> data]
<1>1. \A p \in Port : ~psel[p] /\ ~penable[p]
  BY DEF IInv, PortInv
<1>2. q.sel \in Port
  BY DEF Latch
<1>3. [addr |-> q.addr, prot |-> q.prot, write |-> isWrite, data |-> data] \in Bus
  BY DEF Latch, Bus
<1>. QED BY <1>1, <1>2, <1>3 DEF Drive, IInv, TypeOK

LEMMA EdgeInv ==
    ASSUME IInv, NEW in \in Inputs, Edge(in)
    PROVE  IInv'
<1>0. /\ aw' \in AWRequests \cup {None} /\ ar' \in ARRequests \cup {None}
      /\ w' \in WBeats \cup {None}
  BY MasterBlockType DEF Edge
<1>1. CASE CollectWrite(in)
  <2>1. txn' \in Latch \cup {X} /\ wdata' \in Data \cup {X}
    BY <1>1, ChannelType, FieldsType DEF CollectWrite, IInv, TypeOK
  <2>2. TypeOK'
    BY <1>0, <1>1, <2>1, KeepType
       DEF CollectWrite, apbPins, IInv, TypeOK, States, aw_handshake, w_handshake
  <2>3. PendingInv'
    BY <1>1, ChannelType, FieldsType DEF CollectWrite, IInv, TypeOK, PendingInv
  <2>4. PortInv'
    BY <1>1 DEF CollectWrite, apbPins, IInv, PortInv
  <2>5. RespInv'
    BY <1>1, KeepType DEF CollectWrite, IInv, RespInv
  <2>. QED BY <2>2, <2>3, <2>4, <2>5 DEF IInv
<1>2. CASE LaunchWrite(in)
  <2>1. txn \in Latch /\ wdata \in Data /\ state = "IDLE" /\ txn' = txn /\ wdata' = wdata
    BY <1>2 DEF LaunchWrite, IInv, PendingInv
  <2>2. /\ pbus' \in [Port -> Bus] /\ psel' \in [Port -> BOOLEAN]
        /\ penable' \in [Port -> BOOLEAN]
        /\ \A p \in Port :
             /\ psel'[p] <=> txn.sel = p
             /\ ~penable'[p]
             /\ psel'[p] => pbus'[p] = [addr |-> txn.addr, prot |-> txn.prot,
                                        write |-> TRUE, data |-> wdata]
    BY <1>2, <2>1, DriveInv DEF LaunchWrite
  <2>3. TypeOK'
    BY <1>0, <1>2, <2>1, <2>2, KeepType DEF LaunchWrite, IInv, TypeOK, States
  <2>4. PendingInv'
    BY <1>2, <2>1 DEF LaunchWrite, PendingInv
  <2>5. PortInv'
    <3>1. ASSUME NEW p \in Port, psel'[p]
          PROVE  /\ pbus'[p].addr = txn.addr /\ pbus'[p].prot = txn.prot
                 /\ pbus'[p].write = TRUE /\ pbus'[p].data = wdata
      BY <2>2, <3>1
    <3>2. state' = "WRITE_APB"
      BY <1>2 DEF LaunchWrite
    <3>. QED BY <2>1, <2>2, <3>1, <3>2 DEF PortInv
  <2>6. RespInv'
    BY <1>2, KeepType DEF LaunchWrite, IInv, RespInv
  <2>. QED BY <2>3, <2>4, <2>5, <2>6 DEF IInv
<1>3. CASE RefuseRead(in)
  <2>1. Fields(ar) \in Latch /\ ar.id \in Nat
    BY <1>3, ChannelType, FieldsType DEF RefuseRead, Request
  <2>2. r' \in RBeat /\ rvalid' = TRUE
    BY <1>3, <2>1, PinAssumption DEF RefuseRead, OfferR, RBeat, Resp
  <2>3. TypeOK'
    BY <1>0, <1>3, <2>1, <2>2, KeepType DEF RefuseRead, apbPins, IInv, TypeOK, States
  <2>4. PendingInv'
    BY <1>3, <2>1 DEF RefuseRead, ar_handshake, ARREADY, IInv, PendingInv
  <2>5. PortInv'
    BY <1>3 DEF RefuseRead, apbPins, IInv, PortInv
  <2>6. RespInv'
    BY <1>3, KeepType DEF RefuseRead, IInv, RespInv
  <2>. QED BY <2>3, <2>4, <2>5, <2>6 DEF IInv
<1>4. CASE LaunchRead(in)
  <2>1. Fields(ar) \in Latch /\ state = "IDLE" /\ Fields(ar).sel = PortOf(ar.addr)
        /\ ~aw_pending /\ ~w_pending
    BY <1>4, ChannelType, FieldsType DEF LaunchRead, Fields, ar_handshake, ARREADY
  <2>2. pbus[PortOf(ar.addr)].data \in Data \cup {X}
    BY <2>1 DEF Latch, IInv, TypeOK, Bus
  <2>3. /\ pbus' \in [Port -> Bus] /\ psel' \in [Port -> BOOLEAN]
        /\ penable' \in [Port -> BOOLEAN]
        /\ \A p \in Port :
             /\ psel'[p] <=> Fields(ar).sel = p
             /\ ~penable'[p]
             /\ psel'[p] => pbus'[p] = [addr |-> Fields(ar).addr, prot |-> Fields(ar).prot,
                                        write |-> FALSE, data |-> pbus[PortOf(ar.addr)].data]
    BY <1>4, <2>1, <2>2, DriveInv DEF LaunchRead
  <2>4. TypeOK'
    BY <1>0, <1>4, <2>1, <2>3, KeepType DEF LaunchRead, IInv, TypeOK, States
  <2>5. PendingInv'
    BY <1>4, <2>1 DEF LaunchRead, PendingInv
  <2>6. PortInv'
    <3>1. ASSUME NEW p \in Port, psel'[p]
          PROVE  /\ pbus'[p].addr = Fields(ar).addr /\ pbus'[p].prot = Fields(ar).prot
                 /\ pbus'[p].write = FALSE
      BY <2>3, <3>1
    <3>2. state' = "READ_APB" /\ txn' = Fields(ar)
      BY <1>4 DEF LaunchRead
    <3>. QED BY <2>3, <3>1, <3>2 DEF PortInv
  <2>7. RespInv'
    BY <1>4, KeepType DEF LaunchRead, IInv, RespInv
  <2>. QED BY <2>4, <2>5, <2>6, <2>7 DEF IInv
<1>5. CASE Rest(in)
  <2>1. TypeOK'
    BY <1>0, <1>5, KeepType DEF Rest, regs, apbPins, IInv, TypeOK
  <2>2. PendingInv' /\ PortInv' /\ RespInv'
    BY <1>5, KeepType DEF Rest, regs, apbPins, IInv, PendingInv, PortInv, RespInv
  <2>. QED BY <2>1, <2>2 DEF IInv
<1>6. CASE ApbEnable(in)
  <2>1. txn.sel \in Port /\ psel[txn.sel]
    BY <1>6 DEF ApbEnable, IInv, PendingInv, PortInv, Latch
  <2>2. penable' \in [Port -> BOOLEAN]
    BY <1>6 DEF ApbEnable, IInv, TypeOK
  <2>3. TypeOK'
    BY <1>0, <1>6, <2>2, KeepType DEF ApbEnable, regs, IInv, TypeOK
  <2>4. PortInv'
    BY <1>6, <2>1 DEF ApbEnable, regs, IInv, TypeOK, PortInv
  <2>5. PendingInv' /\ RespInv'
    BY <1>6, KeepType DEF ApbEnable, regs, IInv, PendingInv, RespInv
  <2>. QED BY <2>3, <2>4, <2>5 DEF IInv
<1>7. CASE WriteDone(in) \/ ReadDone(in)
  <2>1. txn \in Latch /\ txn.sel \in Port /\ txn.id \in Nat /\ txn' = txn
    BY <1>7 DEF WriteDone, ReadDone, IInv, PendingInv, Latch
  <2>2. Status(in) \in Resp /\ in.apb[txn.sel].data \in Data
    BY <2>1, AnswerType DEF Status, Resp
  <2>3. /\ psel' \in [Port -> BOOLEAN] /\ penable' \in [Port -> BOOLEAN] /\ pbus' = pbus
        /\ \A p \in Port : ~psel'[p] /\ ~penable'[p]
    BY <1>7, <2>1 DEF WriteDone, ReadDone, Release, IInv, TypeOK, PortInv
  <2>4. PortInv'
    BY <1>7, <2>3 DEF WriteDone, ReadDone, PortInv
  <2>5. CASE WriteDone(in)
    <3>1. b' \in BResp /\ bvalid' = TRUE
      BY <2>1, <2>2, <2>5 DEF WriteDone, OfferB, BResp
    <3>2. TypeOK'
      BY <1>0, <2>3, <2>5, <3>1, KeepType DEF WriteDone, IInv, TypeOK, States
    <3>3. PendingInv' /\ RespInv'
      BY <2>1, <2>5, KeepType DEF WriteDone, IInv, PendingInv, RespInv
    <3>. QED BY <2>4, <3>2, <3>3 DEF IInv
  <2>6. CASE ReadDone(in)
    <3>1. r' \in RBeat /\ rvalid' = TRUE
      BY <2>1, <2>2, <2>6 DEF ReadDone, OfferR, RBeat
    <3>2. TypeOK'
      BY <1>0, <2>3, <2>6, <3>1, KeepType DEF ReadDone, IInv, TypeOK, States
    <3>3. PendingInv' /\ RespInv'
      BY <2>1, <2>6, KeepType DEF ReadDone, IInv, PendingInv, RespInv
    <3>. QED BY <2>4, <3>2, <3>3 DEF IInv
  <2>. QED BY <1>7, <2>5, <2>6
<1>8. CASE ErrResp(in)
  <2>1. txn \in Latch /\ txn.id \in Nat
    BY <1>8 DEF ErrResp, IInv, PendingInv, Latch
  <2>2. b' \in BResp /\ bvalid' = TRUE
    BY <1>8, <2>1 DEF ErrResp, OfferB, BResp, Resp
  <2>3. TypeOK'
    BY <1>0, <1>8, <2>2, KeepType DEF ErrResp, apbPins, IInv, TypeOK, States
  <2>4. PortInv'
    BY <1>8 DEF ErrResp, apbPins, IInv, PortInv
  <2>5. PendingInv' /\ RespInv'
    BY <1>8, <2>1, KeepType DEF ErrResp, IInv, PendingInv, RespInv
  <2>. QED BY <2>3, <2>4, <2>5 DEF IInv
<1>9. CASE RespDone(in)
  <2>1. TypeOK'
    BY <1>0, <1>9, KeepType DEF RespDone, apbPins, IInv, TypeOK, States
  <2>2. PendingInv' /\ PortInv' /\ RespInv'
    BY <1>9, KeepType DEF RespDone, apbPins, IInv, PendingInv, PortInv, RespInv
  <2>. QED BY <2>1, <2>2 DEF IInv
<1>. QED BY <1>1, <1>2, <1>3, <1>4, <1>5, <1>6, <1>7, <1>8, <1>9 DEF Edge

LEMMA NextInv == IInv /\ [Next]_vars => IInv'
<1> SUFFICES ASSUME IInv, [Next]_vars PROVE IInv'
  OBVIOUS
<1>1. CASE UNCHANGED vars
  BY <1>1 DEF vars, master, regs, apbPins, bRegs, rRegs,
              IInv, TypeOK, PendingInv, PortInv, RespInv
<1>. QED BY <1>1, MasterInv, ResetInv, EdgeInv DEF Next

----------------------------------------------------------------------------
(* What the observer records on an edge.                                   *)

\* A transfer completes on the latched port or nowhere.
LEMMA DoneAt ==
    ASSUME IInv, NEW in \in Inputs
    PROVE  /\ apb_done(in) => done_at(in) = {txn.sel}
           /\ ~apb_done(in) => done_at(in) = {}
<1>1. apb_done(in) => txn.sel \in Port /\ psel[txn.sel]
  BY DEF apb_done, IInv, PendingInv, PortInv, Latch
<1>. QED BY <1>1 DEF done_at, apb_done, IInv, PortInv

\* An edge in the idle state records the handshakes of AW, W and AR.
LEMMA IdleRecords ==
    ASSUME IInv, LinkInv, NEW in \in Inputs, Observe(in), state = "IDLE"
    PROVE  /\ wr' = IF aw_handshake THEN aw ELSE wr
           /\ wd' = IF w_handshake THEN w ELSE wd
           /\ rd' = IF ar_handshake THEN ar ELSE rd
           /\ done = None /\ done' = None /\ last' = last
           /\ ~bvalid /\ ~rvalid /\ rd = None
           /\ wr # None <=> aw_pending
           /\ wd # None <=> w_pending
<1>1. ~bvalid /\ ~rvalid
  BY DEF IInv, RespInv
<1>2. ~b_handshake(in) /\ ~r_handshake(in)
  BY <1>1 DEF b_handshake, r_handshake
<1>3. done_at(in) = {}
  BY DoneAt DEF apb_done
<1>4. done = None
  BY <1>1 DEF LinkInv, DoneInv
<1>. QED BY <1>1, <1>2, <1>3, <1>4 DEF Observe, LinkInv, OpenInv, WritePhase, ReadPhase

\* In the other states no address and no beat is accepted.
LEMMA BusyRecords ==
    ASSUME IInv, NEW in \in Inputs, Observe(in), state # "IDLE",
           ~b_handshake(in), ~r_handshake(in)
    PROVE  /\ wr' = wr /\ wd' = wd /\ rd' = rd /\ last' = last
           /\ apb_done(in) => done' = Transfer(txn.sel, in)
           /\ ~apb_done(in) => done' = done
<1>1. ~aw_handshake /\ ~w_handshake /\ ~ar_handshake
  BY DEF aw_handshake, w_handshake, ar_handshake, AWREADY, WREADY, ARREADY
<1>. QED BY <1>1, DoneAt DEF Observe

----------------------------------------------------------------------------
(* The bridge implements SingleBeat, block by block.                       *)

\* The record of a transfer is a record, and so is told from None.
LEMMA AccessRecord ==
    ASSUME NEW q \in Request, NEW isWrite \in BOOLEAN, NEW data \in Data,
           NEW err \in BOOLEAN
    PROVE  Promise!Access(q, isWrite, data, err) # None
<1>1. PortOf(q.addr) \in Port /\ q.addr \in Addr /\ q.prot \in Nat
  BY PortOfType DEF Request
<1>2. Promise!Access(q, isWrite, data, err) \in
         [port : Port, addr : Addr, prot : Nat, write : BOOLEAN, data : Data, err : BOOLEAN]
  BY <1>1, Zenon DEF Promise!Access
<1>. QED BY <1>2, ObserverAssumption, Zenon

Simulates == [Promise!Next]_(Promise!vars) /\ LinkInv'

\* The record is as it was: a stutter of SingleBeat.
LEMMA Stutter == UNCHANGED obs => [Promise!Next]_(Promise!vars)
  BY DEF obs, Promise!vars

LEMMA CollectSim ==
    ASSUME IInv, LinkInv, NEW in \in Inputs, Edge(in), Observe(in), CollectWrite(in)
    PROVE  Simulates
<1>1. /\ state = "IDLE" /\ ~bvalid' /\ ~rvalid'
      /\ aw_handshake => ~aw_pending /\ aw \in AWRequests /\ aw # None
      /\ w_handshake => ~w_pending /\ w \in WBeats /\ w # None
      /\ ~ar_handshake
  BY ChannelType DEF CollectWrite, KeepB, KeepR, IInv, RespInv,
     aw_handshake, w_handshake, ar_handshake, AWREADY, WREADY, ARREADY
<1>2. /\ wr' = IF aw_handshake THEN aw ELSE wr
      /\ wd' = IF w_handshake THEN w ELSE wd
      /\ rd' = rd /\ done' = done /\ last' = last
      /\ done = None /\ rd = None
      /\ wr # None <=> aw_pending
      /\ wd # None <=> w_pending
  BY <1>1, IdleRecords
<1>3. Promise!Next
  <2>1. CASE aw_handshake /\ w_handshake
    <3>1. Promise!TakeBoth(aw, w)
      BY <1>1, <1>2, <2>1 DEF Promise!TakeBoth
    <3>. QED BY <1>1, <2>1, <3>1 DEF Promise!Next
  <2>2. CASE aw_handshake /\ ~w_handshake
    <3>1. Promise!TakeAW(aw)
      BY <1>1, <1>2, <2>2 DEF Promise!TakeAW
    <3>. QED BY <1>1, <2>2, <3>1 DEF Promise!Next
  <2>3. CASE ~aw_handshake /\ w_handshake
    <3>1. Promise!TakeW(w)
      BY <1>1, <1>2, <2>3 DEF Promise!TakeW
    <3>. QED BY <1>1, <2>3, <3>1 DEF Promise!Next
  <2>. QED BY <2>1, <2>2, <2>3 DEF CollectWrite
<1>4. /\ state' \in {"IDLE", "ERR_RESP"} /\ ~WritePhase' /\ ~ReadPhase'
      /\ aw_pending' <=> aw_pending \/ aw_handshake
      /\ w_pending' <=> w_pending \/ w_handshake
  BY <1>1 DEF CollectWrite, WritePhase, ReadPhase
<1>5. OpenInv'
  BY <1>1, <1>2, <1>4 DEF CollectWrite, LinkInv, OpenInv
<1>6. DoneInv'
  <2>1. CASE aw_handshake
    BY <1>1, <1>2, <1>4, <2>1 DEF CollectWrite, DoneInv
  <2>2. CASE ~aw_handshake
    BY <1>1, <1>2, <1>4, <2>2 DEF CollectWrite, LinkInv, DoneInv
  <2>. QED BY <2>1, <2>2
<1>7. OfferInv'
  BY <1>1 DEF OfferInv
<1>. QED BY <1>3, <1>5, <1>6, <1>7 DEF Simulates, LinkInv

LEMMA LaunchWriteSim ==
    ASSUME IInv, LinkInv, NEW in \in Inputs, Observe(in), LaunchWrite(in)
    PROVE  Simulates
<1>1. /\ state = "IDLE" /\ aw_pending /\ w_pending
      /\ ~aw_handshake /\ ~w_handshake /\ ~ar_handshake /\ ~bvalid' /\ ~rvalid'
  BY DEF LaunchWrite, KeepB, KeepR, IInv, RespInv,
     aw_handshake, w_handshake, ar_handshake, AWREADY, WREADY, ARREADY
<1>2. /\ UNCHANGED obs /\ done = None /\ rd = None /\ wr # None /\ wd # None
  BY <1>1, IdleRecords DEF obs
<1>3. WritePhase' /\ ~ReadPhase' /\ state' = "WRITE_APB" /\ ~aw_pending' /\ ~w_pending'
  BY DEF LaunchWrite, WritePhase, ReadPhase
<1>4. OpenInv'
  BY <1>2, <1>3 DEF LaunchWrite, obs, LinkInv, OpenInv
<1>5. DoneInv'
  BY <1>1, <1>2, <1>3 DEF obs, LinkInv, DoneInv
<1>6. OfferInv'
  BY <1>1 DEF OfferInv
<1>. QED BY <1>2, <1>4, <1>5, <1>6, Stutter DEF Simulates, LinkInv

LEMMA ReadSim ==
    ASSUME IInv, LinkInv, NEW in \in Inputs, Observe(in),
           RefuseRead(in) \/ LaunchRead(in)
    PROVE  Simulates
<1>1. /\ state = "IDLE" /\ ar_handshake /\ ar \in ARRequests /\ ar # None
      /\ ~aw_handshake /\ ~w_handshake /\ ~aw_pending /\ ~w_pending
      /\ aw_pending' = aw_pending /\ w_pending' = w_pending
      /\ txn' = Fields(ar)
  BY ChannelType DEF RefuseRead, LaunchRead, aw_handshake, w_handshake, ar_handshake,
     AWREADY, WREADY, ARREADY
<1>2. /\ wr' = None /\ wd' = None /\ rd' = ar /\ done' = None /\ last' = last
      /\ wr = None /\ wd = None /\ rd = None /\ done = None
      /\ ~bvalid /\ ~rvalid
  BY <1>1, IdleRecords
<1>3. Promise!Next
  <2>1. Promise!TakeAR(ar)
    BY <1>2 DEF Promise!TakeAR
  <2>. QED BY <1>1, <2>1 DEF Promise!Next
<1>4. ~bvalid' /\ ~WritePhase'
  BY <1>2 DEF RefuseRead, LaunchRead, KeepB, WritePhase
<1>5. CASE RefuseRead(in)
  <2>1. ReadPhase' /\ rvalid' /\ state' = "READ_RESP" /\ refused(ar)
    BY <1>5 DEF RefuseRead, OfferR, ReadPhase
  <2>2. OpenInv'
    BY <1>1, <1>2, <1>4, <2>1 DEF OpenInv
  <2>3. DoneInv'
    BY <1>1, <1>2, <1>4, <2>1 DEF DoneInv
  <2>4. OfferInv'
    BY <1>2, <1>4, <1>5, <2>1 DEF RefuseRead, OfferR, OfferInv, Promise!Status
  <2>. QED BY <1>3, <2>2, <2>3, <2>4 DEF Simulates, LinkInv
<1>6. CASE LaunchRead(in)
  <2>1. ReadPhase' /\ ~rvalid' /\ state' = "READ_APB" /\ ~refused(ar)
    BY <1>2, <1>6 DEF LaunchRead, KeepR, ReadPhase
  <2>2. OpenInv'
    BY <1>1, <1>2, <1>4, <2>1 DEF OpenInv
  <2>3. DoneInv'
    BY <1>1, <1>2, <1>4, <2>1 DEF DoneInv
  <2>4. OfferInv'
    BY <1>4, <2>1 DEF OfferInv
  <2>. QED BY <1>3, <2>2, <2>3, <2>4 DEF Simulates, LinkInv
<1>. QED BY <1>5, <1>6

\* An edge on which neither the machine nor a response channel moves.
LEMMA QuietSim ==
    ASSUME IInv, LinkInv, UNCHANGED obs, UNCHANGED regs, UNCHANGED bRegs, UNCHANGED rRegs
    PROVE  Simulates
<1>1. UNCHANGED <<state, txn, aw_pending, w_pending, wdata, bvalid, b, rvalid, r,
                  wr, wd, rd, done>>
  BY DEF obs, regs, bRegs, rRegs
<1>2. OpenInv' /\ DoneInv'
  BY <1>1 DEF LinkInv, OpenInv, DoneInv, WritePhase, ReadPhase
<1>3. OfferInv'
  BY <1>1 DEF LinkInv, OfferInv, Promise!Status
<1>. QED BY <1>2, <1>3, Stutter DEF Simulates, LinkInv

\* The master takes the response.
LEMMA GiveBSim ==
    ASSUME IInv, LinkInv, NEW in \in Inputs, Observe(in), b_handshake(in),
           UNCHANGED regs, KeepB(in), KeepR(in)
    PROVE  Simulates
<1>1. /\ bvalid /\ state = "WRITE_RESP" /\ state' = state /\ ~rvalid /\ ~r_handshake(in)
      /\ ~aw_pending /\ ~w_pending /\ ~aw_pending' /\ ~w_pending'
  BY DEF b_handshake, r_handshake, IInv, RespInv, PendingInv, regs
<1>2. last' = b /\ wr' = None /\ wd' = None /\ rd' = None /\ done' = None
  BY <1>1 DEF Observe, Respond
<1>3. Promise!GiveB
  <2>1. wr # None /\ wd # None /\ (refused(wr) \/ done # None)
    BY <1>1 DEF LinkInv, OpenInv, DoneInv, WritePhase
  <2>2. b = [id |-> wr.id, resp |-> Promise!Status(wr)]
    BY <1>1 DEF LinkInv, OfferInv
  <2>. QED BY <1>2, <2>1, <2>2 DEF Promise!GiveB, Promise!Closed
<1>4. ~bvalid' /\ ~rvalid' /\ ~WritePhase' /\ ~ReadPhase'
  BY <1>1 DEF KeepB, KeepR, b_handshake, WritePhase, ReadPhase
<1>5. LinkInv'
  BY <1>1, <1>2, <1>4 DEF LinkInv, OpenInv, DoneInv, OfferInv
<1>. QED BY <1>3, <1>5 DEF Simulates, Promise!Next

LEMMA GiveRSim ==
    ASSUME IInv, LinkInv, NEW in \in Inputs, Observe(in), r_handshake(in),
           UNCHANGED regs, KeepB(in), KeepR(in)
    PROVE  Simulates
<1>1. /\ rvalid /\ state = "READ_RESP" /\ state' = state /\ ~bvalid /\ ~b_handshake(in)
      /\ ~aw_pending /\ ~w_pending /\ ~aw_pending' /\ ~w_pending'
  BY DEF b_handshake, r_handshake, IInv, RespInv, PendingInv, regs
<1>2. last' = r /\ wr' = None /\ wd' = None /\ rd' = None /\ done' = None
  BY <1>1 DEF Observe, Respond
<1>3. Promise!GiveR
  <2>1. rd # None /\ (refused(rd) \/ done # None)
    BY <1>1 DEF LinkInv, OpenInv, DoneInv, ReadPhase
  <2>2. r = [id |-> rd.id, resp |-> Promise!Status(rd), last |-> TRUE,
             data |-> IF refused(rd) THEN Zero ELSE done.data]
    BY <1>1 DEF LinkInv, OfferInv
  <2>. QED BY <1>2, <2>1, <2>2 DEF Promise!GiveR, Promise!Closed
<1>4. ~bvalid' /\ ~rvalid' /\ ~WritePhase' /\ ~ReadPhase'
  BY <1>1 DEF KeepB, KeepR, r_handshake, WritePhase, ReadPhase
<1>5. LinkInv'
  BY <1>1, <1>2, <1>4 DEF LinkInv, OpenInv, DoneInv, OfferInv
<1>. QED BY <1>3, <1>5 DEF Simulates, Promise!Next

\* The machine stands still, or PENABLE rises.
LEMMA RestSim ==
    ASSUME IInv, LinkInv, NEW in \in Inputs, Observe(in), Rest(in) \/ ApbEnable(in)
    PROVE  Simulates
<1>0. UNCHANGED regs /\ KeepB(in) /\ KeepR(in)
  BY DEF Rest, ApbEnable
<1>1. CASE b_handshake(in)
  BY <1>0, <1>1, GiveBSim
<1>2. CASE r_handshake(in)
  BY <1>0, <1>2, GiveRSim
<1>3. CASE ~b_handshake(in) /\ ~r_handshake(in)
  <2>1. UNCHANGED bRegs /\ UNCHANGED rRegs
    BY <1>0, <1>3 DEF KeepB, KeepR, bRegs, rRegs, IInv, TypeOK
  <2>2. UNCHANGED obs
    <3>1. CASE state = "IDLE"
      BY <3>1, IdleRecords DEF Rest, ApbEnable, obs
    <3>2. CASE state # "IDLE"
      <4>1. ~apb_done(in)
        BY <3>2 DEF Rest, ApbEnable, apb_done
      <4>. QED BY <1>3, <3>2, <4>1, BusyRecords DEF obs
    <3>. QED BY <3>1, <3>2
  <2>. QED BY <1>0, <2>1, <2>2, QuietSim
<1>. QED BY <1>1, <1>2, <1>3

LEMMA WriteDoneSim ==
    ASSUME IInv, LinkInv, NEW in \in Inputs, Observe(in), WriteDone(in)
    PROVE  Simulates
<1> DEFINE p == txn.sel
<1>1. /\ state = "WRITE_APB" /\ apb_done(in) /\ ~bvalid /\ ~rvalid
      /\ ~aw_pending /\ ~w_pending
      /\ p \in Port /\ psel[p]
  BY DEF WriteDone, apb_done, IInv, RespInv, PendingInv, PortInv, Latch
<1>2. /\ wr' = wr /\ wd' = wd /\ rd' = rd /\ last' = last
      /\ done' = Transfer(p, in)
  BY <1>1, BusyRecords DEF b_handshake, r_handshake
<1>3. /\ wr # None /\ wd # None /\ rd = None /\ ~refused(wr) /\ done = None
      /\ wr \in AWRequests /\ wr \in Request /\ txn = Fields(wr)
      /\ wd \in WBeats /\ wd.data \in Data /\ wdata = wd.data
  BY <1>1, PinAssumption DEF LinkInv, OpenInv, DoneInv, WritePhase, ReadPhase, WBeat
<1>4. in.apb[p].err \in BOOLEAN
  BY <1>1, AnswerType
<1>5. done' = Promise!Access(wr, TRUE, wd.data, in.apb[p].err)
  <2>1. /\ pbus[p].addr = wr.addr /\ pbus[p].prot = wr.prot /\ p = PortOf(wr.addr)
    BY <1>1, <1>3 DEF IInv, PortInv, Fields
  <2>2. pbus[p].write = TRUE /\ pbus[p].data = wd.data
    BY <1>1, <1>3 DEF IInv, PortInv
  <2>. QED BY <1>2, <2>1, <2>2 DEF Transfer, Promise!Access
<1>6. Promise!Next
  <2>1. Promise!WriteTransfer(in.apb[p].err)
    BY <1>2, <1>3, <1>5 DEF Promise!WriteTransfer, Promise!DoTransfer
  <2>. QED BY <1>4, <2>1 DEF Promise!Next
<1>7. done' # None /\ done'.err = in.apb[p].err
  <2>1. wr \in Request /\ wd.data \in Data /\ in.apb[p].err \in BOOLEAN
    BY <1>3, <1>4, Zenon
  <2>2. TRUE \in BOOLEAN /\ FALSE \in BOOLEAN
    OBVIOUS
  <2> HIDE DEF p
  <2> DEFINE rec == Promise!Access(wr, TRUE, wd.data, in.apb[p].err)
  <2>3. rec # None
    BY <2>1, <2>2, AccessRecord, Zenon
  <2>4. rec.err = in.apb[p].err /\ rec.data = wd.data
    BY Zenon DEF Promise!Access
  <2>. QED BY <1>5, <2>3, <2>4, Zenon
<1>8. /\ state' = "WRITE_RESP" /\ bvalid' /\ ~rvalid' /\ WritePhase' /\ ~ReadPhase'
      /\ UNCHANGED <<txn, aw_pending, w_pending, wdata>>
  BY <1>1 DEF WriteDone, OfferB, KeepR, WritePhase, ReadPhase
<1>9. OpenInv'
  BY <1>1, <1>2, <1>3, <1>8 DEF OpenInv
<1>10. DoneInv'
  BY <1>1, <1>2, <1>3, <1>7, <1>8 DEF DoneInv
<1>11. OfferInv'
  <2>1. b' = [id |-> wr.id, resp |-> IF in.apb[p].err THEN "SLVERR" ELSE "OKAY"]
    BY <1>3 DEF WriteDone, OfferB, Status, Fields
  <2>. QED BY <1>2, <1>3, <1>7, <1>8, <2>1 DEF OfferInv, Promise!Status
<1>. QED BY <1>6, <1>9, <1>10, <1>11 DEF Simulates, LinkInv

LEMMA ReadDoneSim ==
    ASSUME IInv, LinkInv, NEW in \in Inputs, Observe(in), ReadDone(in)
    PROVE  Simulates
<1> DEFINE p == txn.sel
<1>1. /\ state = "READ_APB" /\ apb_done(in) /\ ~bvalid /\ ~rvalid
      /\ ~aw_pending /\ ~w_pending
      /\ p \in Port /\ psel[p]
  BY DEF ReadDone, apb_done, IInv, RespInv, PendingInv, PortInv, Latch
<1>2. /\ wr' = wr /\ wd' = wd /\ rd' = rd /\ last' = last
      /\ done' = Transfer(p, in)
  BY <1>1, BusyRecords DEF b_handshake, r_handshake
<1>3. /\ wr = None /\ wd = None /\ rd # None /\ ~refused(rd) /\ done = None
      /\ rd \in ARRequests /\ rd \in Request /\ txn = Fields(rd)
  BY <1>1, PinAssumption DEF LinkInv, OpenInv, DoneInv, WritePhase, ReadPhase
<1>4. in.apb[p].err \in BOOLEAN /\ in.apb[p].data \in Data
  BY <1>1, AnswerType
<1>5. done' = Promise!Access(rd, FALSE, in.apb[p].data, in.apb[p].err)
  <2>1. /\ pbus[p].addr = rd.addr /\ pbus[p].prot = rd.prot /\ p = PortOf(rd.addr)
    BY <1>1, <1>3 DEF IInv, PortInv, Fields
  <2>2. pbus[p].write = FALSE
    BY <1>1 DEF IInv, PortInv
  <2>. QED BY <1>2, <2>1, <2>2 DEF Transfer, Promise!Access
<1>6. Promise!Next
  <2>1. Promise!ReadTransfer(in.apb[p].data, in.apb[p].err)
    BY <1>2, <1>3, <1>5 DEF Promise!ReadTransfer, Promise!DoTransfer
  <2>. QED BY <1>4, <2>1 DEF Promise!Next
<1>7. done' # None /\ done'.err = in.apb[p].err /\ done'.data = in.apb[p].data
  <2>1. rd \in Request /\ in.apb[p].data \in Data /\ in.apb[p].err \in BOOLEAN
    BY <1>3, <1>4, Zenon
  <2>2. TRUE \in BOOLEAN /\ FALSE \in BOOLEAN
    OBVIOUS
  <2> HIDE DEF p
  <2> DEFINE rec == Promise!Access(rd, FALSE, in.apb[p].data, in.apb[p].err)
  <2>3. rec # None
    BY <2>1, <2>2, AccessRecord, Zenon
  <2>4. rec.err = in.apb[p].err /\ rec.data = in.apb[p].data
    BY Zenon DEF Promise!Access
  <2>. QED BY <1>5, <2>3, <2>4, Zenon
<1>8. /\ state' = "READ_RESP" /\ ~bvalid' /\ rvalid' /\ ~WritePhase' /\ ReadPhase'
      /\ UNCHANGED <<txn, aw_pending, w_pending, wdata>>
  BY <1>1 DEF ReadDone, OfferR, KeepB, WritePhase, ReadPhase
<1>9. OpenInv'
  BY <1>1, <1>2, <1>3, <1>8 DEF OpenInv
<1>10. DoneInv'
  BY <1>1, <1>2, <1>3, <1>7, <1>8 DEF DoneInv
<1>11. OfferInv'
  <2>1. r' = [id |-> rd.id, data |-> in.apb[p].data,
              resp |-> IF in.apb[p].err THEN "SLVERR" ELSE "OKAY", last |-> TRUE]
    BY <1>3 DEF ReadDone, OfferR, Status, Fields
  <2>. QED BY <1>2, <1>3, <1>7, <1>8, <2>1 DEF OfferInv, Promise!Status
<1>. QED BY <1>6, <1>9, <1>10, <1>11 DEF Simulates, LinkInv

\* A refused write is answered without touching APB.
LEMMA ErrRespSim ==
    ASSUME IInv, LinkInv, NEW in \in Inputs, Observe(in), ErrResp(in)
    PROVE  Simulates
<1>1. state = "ERR_RESP" /\ aw_pending /\ w_pending /\ ~bvalid /\ ~rvalid
  BY DEF ErrResp, IInv, RespInv
<1>2. UNCHANGED obs
  BY <1>1, BusyRecords DEF b_handshake, r_handshake, apb_done, obs
<1>3. /\ wr # None /\ wd # None /\ rd = None /\ refused(wr) /\ done = None
      /\ wr \in AWRequests /\ txn = Fields(wr) /\ wd \in WBeats /\ wdata = wd.data
  BY <1>1 DEF LinkInv, OpenInv, DoneInv, WritePhase, ReadPhase
<1>4. /\ state' = "WRITE_RESP" /\ bvalid' /\ ~rvalid' /\ WritePhase' /\ ~ReadPhase'
      /\ ~aw_pending' /\ ~w_pending' /\ txn' = txn /\ wdata' = wdata
  BY <1>1 DEF ErrResp, OfferB, KeepR, WritePhase, ReadPhase
<1>5. OpenInv' /\ DoneInv'
  BY <1>2, <1>3, <1>4 DEF obs, OpenInv, DoneInv
<1>6. OfferInv'
  BY <1>2, <1>3, <1>4 DEF obs, ErrResp, OfferB, Fields, OfferInv, Promise!Status
<1>. QED BY <1>2, <1>5, <1>6, Stutter DEF Simulates, LinkInv

LEMMA RespDoneSim ==
    ASSUME IInv, LinkInv, NEW in \in Inputs, Observe(in), RespDone(in)
    PROVE  Simulates
<1>1. /\ state \in {"WRITE_RESP", "READ_RESP"} /\ ~bvalid /\ ~rvalid
      /\ ~aw_pending /\ ~w_pending
  BY DEF RespDone, IInv, RespInv, PendingInv
<1>2. UNCHANGED obs
  BY <1>1, BusyRecords DEF b_handshake, r_handshake, apb_done, obs
<1>3. wr = None /\ wd = None /\ rd = None /\ done = None
  BY <1>1 DEF LinkInv, OpenInv, DoneInv, WritePhase, ReadPhase
<1>4. /\ state' = "IDLE" /\ ~bvalid' /\ ~rvalid' /\ ~WritePhase' /\ ~ReadPhase'
      /\ ~aw_pending' /\ ~w_pending'
  BY <1>1 DEF RespDone, KeepB, KeepR, WritePhase, ReadPhase
<1>5. LinkInv'
  BY <1>2, <1>3, <1>4 DEF obs, LinkInv, OpenInv, DoneInv, OfferInv
<1>. QED BY <1>2, <1>5, Stutter DEF Simulates

LEMMA ObsInitInv == ObsInit => IInv /\ LinkInv
<1>1. ObsInit => LinkInv
  BY DEF ObsInit, Init, LinkInv, OpenInv, DoneInv, OfferInv, WritePhase, ReadPhase
<1>. QED BY <1>1, InitInv DEF ObsInit

LEMMA StepSim ==
    IInv /\ LinkInv /\ [ObsNext]_allVars => [Promise!Next]_(Promise!vars) /\ LinkInv'
<1> SUFFICES ASSUME IInv, LinkInv, [ObsNext]_allVars PROVE Simulates
  BY DEF Simulates
<1>1. CASE MasterStep /\ UNCHANGED obs
  BY <1>1, QuietSim DEF MasterStep, RaiseAW, RaiseW, RaiseAR
<1>2. CASE ObsReset
  <2>1. Promise!Reset
    BY <1>2 DEF ObsReset, Respond, Promise!Reset, Promise!Closed
  <2>2. LinkInv'
    BY <1>2 DEF ObsReset, Reset, Respond, LinkInv, OpenInv, DoneInv, OfferInv,
                WritePhase, ReadPhase
  <2>. QED BY <2>1, <2>2 DEF Simulates, Promise!Next
<1>3. ASSUME NEW in \in Inputs, ObsEdge(in) PROVE Simulates
  BY <1>3, CollectSim, LaunchWriteSim, ReadSim, RestSim, WriteDoneSim, ReadDoneSim,
     ErrRespSim, RespDoneSim DEF ObsEdge, Edge
<1>4. CASE UNCHANGED allVars
  BY <1>4, QuietSim DEF allVars, vars
<1>. QED BY <1>1, <1>2, <1>3, <1>4 DEF ObsNext

LEMMA ObsStep == [ObsNext]_allVars => [Next]_vars
  BY DEF ObsNext, ObsReset, ObsEdge, Next, allVars

LEMMA Invariant == ObsSpec => [](IInv /\ LinkInv)
<1>1. IInv /\ LinkInv /\ [ObsNext]_allVars => (IInv /\ LinkInv)'
  BY NextInv, ObsStep, StepSim
<1>. QED BY <1>1, ObsInitInv, PTL DEF ObsSpec

\* The registers of the single-beat bridge stay consistent: pending halves,
\* latches, port outputs and offered responses agree with the state machine,
\* a reset in any state included.
THEOREM Consistent == Spec => []IInv
  BY InitInv, NextInv, PTL DEF Spec

\* The single-beat bridge carries out the machine of SingleBeat, whatever the
\* order in which the halves of a write arrive, whatever the slaves answer and
\* whenever a reset falls (axi4_to_apb4_2x_simple.v:106-209).
THEOREM Implements == ObsSpec => KeepsPromise
<1>1. ObsInit => Promise!Init
  BY DEF ObsInit, Promise!Init
<1>. QED BY <1>1, Invariant, StepSim, PTL DEF ObsSpec, KeepsPromise, Promise!Spec

\* The two APB ports are never selected together, and a port that is not
\* selected is not enabled.
THEOREM PortsExclusive == ObsSpec => []OnePort
<1>1. IInv => OnePort
  BY DEF IInv, PortInv, OnePort, Port
<1>. QED BY <1>1, Invariant, PTL

----------------------------------------------------------------------------
(* What a step may never do.                                               *)

LEMMA HeldStep ==
    ASSUME IInv, [ObsNext]_allVars
    PROVE  /\ bvalid => (bvalid' /\ b' = b) \/ (~bvalid' /\ last' \in {b, None})
           /\ rvalid => (rvalid' /\ r' = r) \/ (~rvalid' /\ last' \in {r, None})
<1>1. CASE MasterStep \/ UNCHANGED allVars
  BY <1>1 DEF MasterStep, RaiseAW, RaiseW, RaiseAR, bRegs, rRegs, allVars, vars,
              IInv, TypeOK
<1>2. CASE ObsReset
  BY <1>2 DEF ObsReset, Reset, Respond
<1>3. ASSUME NEW in \in Inputs, Edge(in), Observe(in)
      PROVE  /\ bvalid => (bvalid' /\ b' = b) \/ (~bvalid' /\ last' \in {b, None})
             /\ rvalid => (rvalid' /\ r' = r) \/ (~rvalid' /\ last' \in {r, None})
  <2>1. /\ bvalid => state = "WRITE_RESP" /\ ~rvalid
        /\ rvalid => state = "READ_RESP" /\ ~bvalid
    BY DEF IInv, RespInv
  <2>2. bvalid \/ rvalid => KeepB(in) /\ KeepR(in)
    BY <1>3, <2>1 DEF Edge, CollectWrite, LaunchWrite, RefuseRead, LaunchRead, Rest,
       ApbEnable, WriteDone, ReadDone, ErrResp, RespDone
  <2>. QED BY <1>3, <2>1, <2>2 DEF KeepB, KeepR, Observe, Respond, b_handshake, r_handshake
<1>. QED BY <1>1, <1>2, <1>3 DEF ObsNext, ObsEdge

\* An offered response answers what is open and stays as it is until the
\* master takes it.
THEOREM ResponsesStand == ObsSpec => ResponseHeld
  BY Invariant, HeldStep, PTL DEF ObsSpec, ResponseHeld

\* What a step may do to the pins of port p.
PortStep(p) ==
    /\ ~psel[p] /\ psel'[p] => ~penable'[p]
    /\ psel[p] /\ psel'[p] => pbus'[p] = pbus[p] /\ (penable[p] => penable'[p])
    /\ psel[p] /\ ~psel'[p] => \/ penable[p] /\ done = None /\ done' # None
                               \/ last' = None

LEMMA KeptPins ==
    ASSUME NEW p \in Port, UNCHANGED apbPins PROVE PortStep(p)
  BY DEF apbPins, PortStep

LEMMA ApbStep ==
    ASSUME IInv, LinkInv, [ObsNext]_allVars, NEW p \in Port PROVE PortStep(p)
<1>1. CASE MasterStep \/ UNCHANGED allVars
  BY <1>1, KeptPins DEF MasterStep, RaiseAW, RaiseW, RaiseAR, allVars, vars
<1>2. CASE ObsReset
  BY <1>2 DEF ObsReset, Reset, Respond, Nobody, PortStep
<1>3. ASSUME NEW in \in Inputs, Edge(in), Observe(in) PROVE PortStep(p)
  <2>1. CASE CollectWrite(in) \/ RefuseRead(in) \/ Rest(in) \/ ErrResp(in) \/ RespDone(in)
    BY <2>1, KeptPins DEF CollectWrite, RefuseRead, Rest, ErrResp, RespDone
  <2>2. CASE LaunchWrite(in) \/ LaunchRead(in)
    <3>1. ~psel[p] /\ ~penable[p] /\ penable' = penable
      BY <2>2 DEF LaunchWrite, LaunchRead, Drive, IInv, PortInv
    <3>. QED BY <3>1 DEF PortStep
  <2>3. CASE ApbEnable(in)
    BY <2>3 DEF ApbEnable, IInv, TypeOK, PortStep
  <2>4. CASE WriteDone(in) \/ ReadDone(in)
    <3>1. /\ state \in {"WRITE_APB", "READ_APB"} /\ apb_done(in) /\ done = None
          /\ ~b_handshake(in) /\ ~r_handshake(in)
      BY <2>4 DEF WriteDone, ReadDone, IInv, RespInv, LinkInv, DoneInv,
         b_handshake, r_handshake
    <3>2. state' \in {"WRITE_RESP", "READ_RESP"} /\ (bvalid' \/ rvalid')
      BY <2>4 DEF WriteDone, ReadDone, OfferB, OfferR
    <3>3. wr' = wr /\ rd' = rd
      BY <1>3, <3>1, BusyRecords
    <3>4. LinkInv'
      BY <1>3, <2>4, WriteDoneSim, ReadDoneSim DEF Simulates
    <3>5. done' # None
      <4>1. CASE WriteDone(in)
        BY <3>3, <3>4, <4>1 DEF WriteDone, OfferB, LinkInv, DoneInv
      <4>2. CASE ReadDone(in)
        BY <3>3, <3>4, <4>2 DEF ReadDone, OfferR, LinkInv, DoneInv
      <4>. QED BY <2>4, <4>1, <4>2
    <3>6. txn.sel \in Port /\ penable[txn.sel] /\ (psel[p] => p = txn.sel)
      BY <3>1 DEF apb_done, IInv, PendingInv, PortInv, Latch
    <3>7. ~psel'[p] /\ (psel[p] => penable[p])
      BY <2>4, <3>6 DEF WriteDone, ReadDone, Release, IInv, TypeOK
    <3>. QED BY <3>1, <3>5, <3>7 DEF PortStep
  <2>. QED BY <1>3, <2>1, <2>2, <2>3, <2>4 DEF Edge
<1>. QED BY <1>1, <1>2, <1>3 DEF ObsNext, ObsEdge

\* Each APB transfer is one setup cycle, then access cycles that end with the
\* slave's PREADY, with address, control and data held from the setup on.
THEOREM ApbTransfers == ObsSpec => ApbProtocol
<1>1. IInv /\ LinkInv /\ [ObsNext]_allVars => \A p \in Port : PortStep(p)
  BY ApbStep
<1>. QED BY <1>1, Invariant, PTL DEF ObsSpec, ApbProtocol, PortStep
=============================================================================
