-------------------------- MODULE RegBlock_proofs --------------------------
(***************************************************************************)
(* Proofs about the register block, for every number of registers, stride, *)
(* set of lanes and set of requests that RegAssumption admits: the two     *)
(* FSMs stay consistent with their channels, and the block implements the  *)
(* register file of AtomicRegs.                                            *)
(***************************************************************************)
EXTENDS RegObserved, TLAPS

LEMMA RegOfType == ASSUME NEW a \in Nat PROVE RegOf(a) \in Reg
  BY RegAssumption, SMT DEF RegOf, Reg

LEMMA BlankType == Blank \in Word
  BY RegAssumption DEF Blank, Word

LEMMA MergeType ==
    ASSUME NEW old \in Word, NEW beat \in Beat PROVE Merge(old, beat) \in Word
  BY DEF Merge, Word, Beat

LEMMA InitInv == Init => IInv
<1> SUFFICES ASSUME Init PROVE IInv
  OBVIOUS
<1>1. b \in BResp
  BY DEF Init, NoB, BResp, Status
<1>2. r \in RBeat
  BY BlankType DEF Init, NoR, RBeat, Status
<1>3. wr \in [id : Nat, idx : Reg, range : BOOLEAN]
  BY RegAssumption DEF Init, NoWr, Reg
<1>4. regfile \in [Reg -> Word]
  BY BlankType DEF Init
<1>. QED BY <1>1, <1>2, <1>3, <1>4 DEF Init, IInv, TypeOK, ChannelInv

LEMMA ResetInv == Reset => IInv'
<1> SUFFICES ASSUME Reset PROVE IInv'
  OBVIOUS
<1>1. b' \in BResp
  BY DEF Reset, NoB, BResp, Status
<1>2. r' \in RBeat
  BY BlankType DEF Reset, NoR, RBeat, Status
<1>3. wr' \in [id : Nat, idx : Reg, range : BOOLEAN]
  BY RegAssumption DEF Reset, NoWr, Reg
<1>4. regfile' \in [Reg -> Word]
  BY BlankType DEF Reset
<1>. QED BY <1>1, <1>2, <1>3, <1>4 DEF Reset, IInv, TypeOK, ChannelInv

\* What an edge leaves true of the write side.
WriteSide ==
    /\ wr_state \in {"IDLE", "HAVE_AW", "RESP"}
    /\ awready \in BOOLEAN
    /\ wr \in [id : Nat, idx : Reg, range : BOOLEAN]
    /\ b \in BResp
    /\ regfile \in [Reg -> Word]
    /\ awready => wr_state = "IDLE"
    /\ wready = (wr_state = "HAVE_AW")
    /\ bvalid = (wr_state = "RESP")

LEMMA WriteInv ==
    ASSUME IInv, NEW bready \in BOOLEAN, WriteBlock(bready)
    PROVE  WriteSide'
<1>1. CASE WrAccept
  <2>1. aw \in Address
    BY <1>1, RegAssumption DEF WrAccept, aw_handshake, IInv, TypeOK
  <2>2. RegOf(aw.addr) \in Reg /\ InRange(aw.addr) \in BOOLEAN /\ aw.id \in Nat
    BY <2>1, RegOfType DEF InRange, Address
  <2>. QED BY <1>1, <2>2 DEF WrAccept, WriteSide, IInv, TypeOK, ChannelInv
<1>2. CASE WrIdle
  BY <1>2 DEF WrIdle, WriteSide, IInv, TypeOK, ChannelInv
<1>3. CASE WrData
  <2>1. w \in Beat /\ wr.idx \in Reg /\ wr.id \in Nat
    BY <1>3, RegAssumption DEF WrData, w_handshake, IInv, TypeOK
  <2>2. Merge(regfile[wr.idx], w) \in Word
    BY <2>1, MergeType DEF IInv, TypeOK
  <2>3. regfile' \in [Reg -> Word]
    BY <1>3, <2>1, <2>2 DEF WrData, IInv, TypeOK
  <2>4. b' \in BResp
    BY <1>3, <2>1 DEF WrData, BResp, Status
  <2>. QED BY <1>3, <2>3, <2>4 DEF WrData, WriteSide, IInv, TypeOK, ChannelInv
<1>4. CASE WrResp(bready)
  BY <1>4 DEF WrResp, WriteSide, IInv, TypeOK, ChannelInv
<1>5. CASE WrWait(bready)
  BY <1>5 DEF WrWait, wRegs, WriteSide, IInv, TypeOK, ChannelInv
<1>. QED BY <1>1, <1>2, <1>3, <1>4, <1>5 DEF WriteBlock

\* What an edge leaves true of the read side.
ReadSide ==
    /\ rd_state \in {"IDLE", "RESP"}
    /\ arready \in BOOLEAN
    /\ r \in RBeat
    /\ arready => rd_state = "IDLE"
    /\ rvalid = (rd_state = "RESP")

LEMMA ReadInv ==
    ASSUME IInv, NEW rready \in BOOLEAN, ReadBlock(rready)
    PROVE  ReadSide'
<1>1. CASE RdAccept
  <2>1. ar \in Address
    BY <1>1, RegAssumption DEF RdAccept, ar_handshake, IInv, TypeOK
  <2>2. regfile[RegOf(ar.addr)] \in Word /\ Blank \in Word /\ ar.id \in Nat
    BY <2>1, RegOfType, BlankType DEF Address, IInv, TypeOK
  <2>3. r' \in RBeat
    BY <1>1, <2>2 DEF RdAccept, RBeat, Status
  <2>. QED BY <1>1, <2>3 DEF RdAccept, ReadSide, IInv, TypeOK, ChannelInv
<1>2. CASE RdIdle
  BY <1>2 DEF RdIdle, ReadSide, IInv, TypeOK, ChannelInv
<1>3. CASE RdResp(rready)
  BY <1>3 DEF RdResp, ReadSide, IInv, TypeOK, ChannelInv
<1>4. CASE RdWait(rready)
  BY <1>4 DEF RdWait, rRegs, ReadSide, IInv, TypeOK, ChannelInv
<1>. QED BY <1>1, <1>2, <1>3, <1>4 DEF ReadBlock

LEMMA NextInv == IInv /\ [Next]_vars => IInv'
<1> SUFFICES ASSUME IInv, [Next]_vars PROVE IInv'
  OBVIOUS
<1>1. CASE MasterStep
  BY <1>1 DEF MasterStep, RaiseAW, RaiseW, RaiseAR, wRegs, rRegs,
     IInv, TypeOK, ChannelInv
<1>2. CASE Reset
  BY <1>2, ResetInv
<1>3. ASSUME NEW bready \in BOOLEAN, NEW rready \in BOOLEAN, Edge(bready, rready)
      PROVE  IInv'
  <2>1. WriteSide' /\ ReadSide'
    BY <1>3, WriteInv, ReadInv DEF Edge
  <2>2. aw' \in Writes \cup {None} /\ w' \in Beats \cup {None} /\ ar' \in Reads \cup {None}
    BY <1>3 DEF Edge, MasterBlock, IInv, TypeOK
  <2>. QED BY <2>1, <2>2 DEF WriteSide, ReadSide, IInv, TypeOK, ChannelInv
<1>4. CASE UNCHANGED vars
  BY <1>4 DEF vars, master, wRegs, rRegs, IInv, TypeOK, ChannelInv
<1>. QED BY <1>1, <1>2, <1>3, <1>4 DEF Next

\* In every reachable state the READY and VALID outputs of the register block
\* agree with its two FSMs, and the latched index names a register.
THEOREM Consistent == Spec => []IInv
  BY InitInv, NextInv, PTL DEF Spec

----------------------------------------------------------------------------
(* The block implements AtomicRegs.  The observer's variables only record, *)
(* so IInv holds of the observed block too; LinkInv ties the write latch   *)
(* to the recorded address phase.                                          *)

LEMMA ObsInitInv == ObsInit => IInv /\ LinkInv
  BY InitInv DEF ObsInit, LinkInv, Init

\* The write FSM takes at most one write step of AtomicRegs on an edge.
LEMMA WriteSim ==
    ASSUME IInv, LinkInv, NEW bready \in BOOLEAN, NEW rready \in BOOLEAN,
           Edge(bready, rready), Observe(bready, rready)
    PROVE  (Promise!WriteStep \/ Promise!WriteKeeps) /\ LinkInv'
<1>0. b \in BResp /\ b # None
  BY RegAssumption DEF IInv, TypeOK
<1>1. CASE WrAccept
  <2>1. aw \in Writes /\ awready /\ ~bvalid /\ wop = None
    BY <1>1, RegAssumption DEF WrAccept, aw_handshake, IInv, TypeOK, ChannelInv, LinkInv
  <2>2. wop' = aw /\ blast' = blast /\ ~bvalid' /\ regfile' = regfile
    BY <1>1, <2>1 DEF WrAccept, Observe
  <2>3. Promise!TakeAW(aw)
    BY <2>1, <2>2 DEF Promise!TakeAW
  <2>4. LinkInv'
    BY <1>1, <2>1, <2>2 DEF WrAccept, LinkInv
  <2>. QED BY <2>1, <2>3, <2>4 DEF Promise!WriteStep
<1>2. CASE WrIdle
  <2>1. ~aw_handshake /\ ~bvalid /\ UNCHANGED <<wr_state, wr, bvalid, b, regfile>>
    BY <1>2 DEF WrIdle, IInv, ChannelInv
  <2>2. wop' = wop /\ blast' = blast
    BY <2>1 DEF Observe
  <2>. QED BY <2>1, <2>2 DEF Promise!WriteKeeps, LinkInv
<1>3. CASE WrData
  <2>1. ~aw_handshake /\ ~bvalid /\ w \in Beats /\ w \in Beat
    BY <1>3, RegAssumption
       DEF WrData, aw_handshake, w_handshake, IInv, TypeOK, ChannelInv
  <2>2. wop' = wop /\ blast' = blast
    BY <2>1 DEF Observe
  <2>3. /\ wop \in Writes /\ wop # None
        /\ wr = [id |-> wop.id, idx |-> RegOf(wop.addr), range |-> InRange(wop.addr)]
    BY <1>3, RegAssumption DEF WrData, LinkInv
  <2>4. wr_ok <=> Promise!Accepted(wop, w)
    BY <2>3 DEF wr_ok, Promise!Accepted
  <2>5. wr.idx \in Reg /\ regfile[wr.idx] \in Word
    BY DEF IInv, TypeOK
  <2>6. Merge(regfile[wr.idx], w) = Promise!Merge(regfile[wr.idx], w)
    BY <2>5 DEF Merge, Promise!Merge, Word
  <2>7. regfile' = IF Promise!Accepted(wop, w)
                   THEN [regfile EXCEPT ![RegOf(wop.addr)] =
                            Promise!Merge(regfile[RegOf(wop.addr)], w)]
                   ELSE regfile
    BY <1>3, <2>3, <2>4, <2>6 DEF WrData
  <2>8. Promise!Apply(w)
    BY <1>3, <2>1, <2>2, <2>3, <2>4, <2>7 DEF WrData, Promise!Apply
  <2>9. LinkInv'
    BY <1>3, <2>2, <2>3 DEF WrData, LinkInv
  <2>. QED BY <2>1, <2>8, <2>9 DEF Promise!WriteStep
<1>4. CASE WrResp(bready)
  <2>1. ~aw_handshake /\ bvalid /\ bready /\ ~bvalid' /\ regfile' = regfile
    BY <1>4 DEF WrResp, aw_handshake, IInv, ChannelInv
  <2>2. wop' = None /\ blast' = b
    BY <2>1 DEF Observe
  <2>3. Promise!GiveB
    BY <1>0, <2>1, <2>2 DEF Promise!GiveB
  <2>4. LinkInv'
    BY <1>4, <2>2 DEF WrResp, LinkInv
  <2>. QED BY <2>3, <2>4 DEF Promise!WriteStep
<1>5. CASE WrWait(bready)
  <2>1. ~aw_handshake /\ ~(bvalid /\ bready)
        /\ UNCHANGED <<wr_state, wr, bvalid, b, regfile>>
    BY <1>5 DEF WrWait, wRegs, aw_handshake, IInv, ChannelInv
  <2>2. wop' = wop /\ blast' = blast
    BY <2>1 DEF Observe
  <2>. QED BY <2>1, <2>2 DEF Promise!WriteKeeps, LinkInv
<1>. QED BY <1>1, <1>2, <1>3, <1>4, <1>5 DEF Edge, WriteBlock

\* The read FSM takes at most one read step; it reads the registers as they
\* are before the edge.
LEMMA ReadSim ==
    ASSUME IInv, NEW bready \in BOOLEAN, NEW rready \in BOOLEAN,
           Edge(bready, rready), Observe(bready, rready)
    PROVE  Promise!ReadStep \/ Promise!ReadKeeps
<1>0. r \in RBeat /\ r # None
  BY RegAssumption DEF IInv, TypeOK
<1>1. CASE RdAccept
  <2>1. ar \in Reads /\ ~rvalid
    BY <1>1, RegAssumption DEF RdAccept, ar_handshake, IInv, TypeOK, ChannelInv
  <2>2. rvalid' /\ rlast' = rlast /\ r' = Promise!Answer(ar)
    BY <1>1, <2>1 DEF RdAccept, Observe, Promise!Answer
  <2>. QED BY <2>1, <2>2 DEF Promise!ReadStep, Promise!TakeAR
<1>2. CASE RdIdle
  BY <1>2 DEF RdIdle, Observe, IInv, ChannelInv, Promise!ReadKeeps
<1>3. CASE RdResp(rready)
  BY <1>0, <1>3 DEF RdResp, Observe, Promise!ReadStep, Promise!GiveR
<1>4. CASE RdWait(rready)
  BY <1>4 DEF RdWait, rRegs, Observe, IInv, ChannelInv, Promise!ReadKeeps
<1>. QED BY <1>1, <1>2, <1>3, <1>4 DEF Edge, ReadBlock

LEMMA InitSim == ObsInit => Promise!Init
  BY DEF ObsInit, Init, Reg, Promise!Init, Promise!Cleared

LEMMA StepSim ==
    IInv /\ LinkInv /\ [ObsNext]_allVars => [Promise!Next]_(Promise!vars) /\ LinkInv'
<1> SUFFICES ASSUME IInv, LinkInv, [ObsNext]_allVars
             PROVE  [Promise!Next]_(Promise!vars) /\ LinkInv'
  OBVIOUS
<1>1. CASE MasterStep /\ UNCHANGED obs
  BY <1>1 DEF MasterStep, RaiseAW, RaiseW, RaiseAR, wRegs, rRegs, obs, LinkInv,
     Promise!vars
<1>2. CASE ObsReset
  <2>1. regfile' = [i \in DOMAIN regfile |-> Blank]
    BY <1>2 DEF ObsReset, Reset, IInv, TypeOK
  <2>2. Promise!Reset
    BY <1>2, <2>1 DEF ObsReset, Reset, Promise!Reset
  <2>. QED BY <1>2, <2>2 DEF ObsReset, Reset, LinkInv, Promise!Next
<1>3. ASSUME NEW bready \in BOOLEAN, NEW rready \in BOOLEAN,
             Edge(bready, rready), Observe(bready, rready)
      PROVE  [Promise!Next]_(Promise!vars) /\ LinkInv'
  <2>1. (Promise!WriteStep \/ Promise!WriteKeeps) /\ LinkInv'
    BY <1>3, WriteSim
  <2>2. Promise!ReadStep \/ Promise!ReadKeeps
    BY <1>3, ReadSim
  <2>3. Promise!WriteKeeps /\ Promise!ReadKeeps => UNCHANGED Promise!vars
    BY DEF Promise!WriteKeeps, Promise!ReadKeeps, Promise!vars
  <2>. QED BY <2>1, <2>2, <2>3 DEF Promise!Next
<1>4. CASE UNCHANGED allVars
  BY <1>4 DEF allVars, vars, obs, wRegs, rRegs, LinkInv, Promise!vars
<1>. QED BY <1>1, <1>2, <1>3, <1>4 DEF ObsNext

LEMMA ObsStep == [ObsNext]_allVars => [Next]_vars
  BY DEF ObsNext, ObsReset, Next, allVars

LEMMA ObsInvariant == ObsSpec => [](IInv /\ LinkInv)
<1>1. IInv /\ LinkInv /\ [ObsNext]_allVars => (IInv /\ LinkInv)'
  BY NextInv, ObsStep, StepSim
<1>. QED BY <1>1, ObsInitInv, PTL DEF ObsSpec

\* The register block is an atomic register file: every write takes effect
\* at once in exactly its strobed lanes or not at all, every read returns
\* what its register held at one instant, and every response is that of its
\* own request.
THEOREM Implements == ObsSpec => KeepsPromise
  BY ObsInvariant, InitSim, StepSim, PTL DEF ObsSpec, KeepsPromise, Promise!Spec

\* What ResponseHeld asks of a step.
HeldStep ==
    /\ bvalid => (bvalid' /\ b' = b) \/ (~bvalid' /\ blast' \in {b, None})
    /\ rvalid => (rvalid' /\ r' = r) \/ (~rvalid' /\ rlast' \in {r, None})

\* An offered B or R stands unchanged until the master takes it or the block
\* is reset, whatever the other FSM does on the same edge.
THEOREM ResponsesStand == ObsSpec => ResponseHeld
<1>1. IInv /\ [ObsNext]_allVars => [HeldStep]_allVars
  <2>. SUFFICES ASSUME IInv, ObsNext PROVE HeldStep
    OBVIOUS
  <2>1. CASE MasterStep /\ UNCHANGED obs
    BY <2>1 DEF MasterStep, RaiseAW, RaiseW, RaiseAR, wRegs, rRegs, HeldStep
  <2>2. CASE ObsReset
    BY <2>2 DEF ObsReset, Reset, HeldStep
  <2>3. ASSUME NEW bready \in BOOLEAN, NEW rready \in BOOLEAN,
               Edge(bready, rready), Observe(bready, rready)
        PROVE  HeldStep
    <3>1. ASSUME bvalid
          PROVE  (bvalid' /\ b' = b) \/ (~bvalid' /\ blast' = b)
      BY <2>3, <3>1
         DEF Edge, WriteBlock, WrAccept, WrIdle, WrData, WrResp, WrWait, wRegs, Observe,
             IInv, ChannelInv
    <3>2. ASSUME rvalid
          PROVE  (rvalid' /\ r' = r) \/ (~rvalid' /\ rlast' = r)
      BY <2>3, <3>2
         DEF Edge, ReadBlock, RdAccept, RdIdle, RdResp, RdWait, rRegs, Observe,
             IInv, ChannelInv
    <3>. QED BY <3>1, <3>2 DEF HeldStep
  <2>. QED BY <2>1, <2>2, <2>3 DEF ObsNext
<1>. QED BY <1>1, ObsInvariant, PTL DEF ObsSpec, ResponseHeld, HeldStep
=============================================================================
