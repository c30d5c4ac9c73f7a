----------------------- MODULE MonitoredBridge_proofs -----------------------
(***************************************************************************)
(* Proofs about the monitors of the UVM bench on the burst bridge: however *)
(* the simulator orders their processes on a clock edge, they pair every   *)
(* write address with the data and the response of its own burst.          *)
(***************************************************************************)
EXTENDS MirroredBench, AxiApbBurst_proofs, SequenceTheorems, FiniteSetTheorems,
        WellFoundedInduction

\* Queues of at most two.
LEMMA NothingIn == ASSUME NEW S, NEW s \in Seq(S) PROVE s = <<>> <=> Len(s) = 0
  BY EmptySeq

LEMMA OneIn ==
    ASSUME NEW S, NEW e \in S
    PROVE  /\ Append(<<>>, e) \in Seq(S) /\ Len(Append(<<>>, e)) = 1
           /\ Head(Append(<<>>, e)) = e /\ Append(<<>>, e) # <<>>
  BY EmptySeq, AppendProperties, HeadTailAppend

LEMMA OneOut ==
    ASSUME NEW S, NEW s \in Seq(S), Len(s) = 1
    PROVE  s # <<>> /\ Tail(s) = <<>>
<1>1. s # <<>>
  BY EmptySeq
<1>2. Tail(s) \in Seq(S) /\ Len(Tail(s)) = 0
  BY <1>1, HeadTailProperties
<1>. QED BY <1>1, <1>2, EmptySeq

LEMMA OneBehind ==
    ASSUME NEW S, NEW s \in Seq(S), Len(s) = 1, NEW e \in S
    PROVE  /\ Append(s, e) # <<>> /\ Head(Append(s, e)) = Head(s)
           /\ Tail(Append(s, e)) = Append(<<>>, e)
<1>1. s # <<>> /\ Tail(s) = <<>>
  BY OneOut
<1>2. /\ Head(Append(s, e)) = Head(s)
      /\ Tail(Append(s, e)) = Append(Tail(s), e)
  BY <1>1, HeadTailAppend
<1>3. Append(s, e) # <<>>
  BY AppendProperties
<1>. QED BY <1>1, <1>2, <1>3

LEMMA BenchStep == [BenchNext]_allVars => [Next]_vars
  BY DEF BenchNext, BenchEdge, BenchInputs, Inputs, Next, allVars

\* The bench keeps BREADY and RREADY up, and the pins have their types.
LEMMA BenchPins ==
    ASSUME IInv, NEW in \in BenchInputs
    PROVE  /\ in \in Inputs
           /\ b_handshake(in) <=> bvalid
           /\ r_handshake(in) <=> rvalid
           /\ aw # None => aw \in Request
           /\ ar # None => ar \in Request
           /\ w # None => w.data \in Data /\ w.last \in BOOLEAN
           /\ r.data \in Data
  BY PinAssumption DEF BenchInputs, Inputs, b_handshake, r_handshake, IInv, TypeOK, WBeat, RBeat

----------------------------------------------------------------------------
(* What an edge does to the transaction, as far as the monitors care.      *)

\* An idle bridge.
LEMMA IdleProgress ==
    ASSUME IInv, ~txn_active, NEW in \in BenchInputs, Edge(in)
    PROVE  /\ ~bvalid /\ ~rvalid /\ ~w_handshake
           /\ aw_handshake => /\ OpenWrite' /\ axi'.id = aw.id /\ Taken' = 0
                              /\ beats_total' >= 0 /\ ~w_done'
           /\ ~aw_handshake /\ ar_handshake =>
                 OpenRead' /\ beats_sent' = 0 /\ beats_total' = ar.len + 1
           /\ ~aw_handshake /\ ~ar_handshake => ~txn_active'
<1>1. ~bvalid /\ ~rvalid /\ ~w_handshake /\ apb_state = "IDLE"
  BY DEF IInv, OpenInv, w_handshake, WREADY
<1>2. ASSUME idle_for_new PROVE apb_state' = "IDLE"
  BY <1>2, AcceptQuiet, BenchPins DEF Edge
<1>3. CASE AcceptWrite
  <2>1. aw_handshake /\ idle_for_new /\ aw \in Request /\ Latch(aw, TRUE)
    BY <1>3, BenchPins DEF AcceptWrite, aw_handshake, AWREADY
  <2>2. /\ txn_active' /\ axi'.is_write /\ axi'.id = aw.id /\ beat_index' = 0 /\ ~w_done'
        /\ beats_total' \in Count
    BY <2>1, LatchInv DEF Latch
  <2>. QED BY <1>1, <1>2, <2>1, <2>2 DEF OpenWrite, Taken, Count
<1>4. CASE AcceptRead
  BY <1>1, <1>4, BenchPins, LatchInv
     DEF AcceptRead, ar_handshake, ARREADY, Latch, OpenRead
<1>5. CASE Progress(in)
  BY <1>1, <1>5 DEF Progress
<1>. QED BY <1>3, <1>4, <1>5 DEF Edge, TxnBlock

\* A write with no response offered takes at most one beat.
LEMMA WriteProgress ==
    ASSUME IInv, OpenWrite, ~bvalid, NEW in \in BenchInputs, Edge(in)
    PROVE  /\ ~aw_handshake /\ ~ar_handshake /\ ~rvalid
           /\ OpenWrite' /\ axi'.id = axi.id /\ beats_total' = beats_total
           /\ Taken' = Taken + (IF w_handshake THEN 1 ELSE 0)
           /\ w_handshake => ~w_done /\ Taken < beats_total
           /\ w_done' <=> w_done \/ (w_handshake /\ (w.last \/ final_beat))
<1>1. /\ txn_active /\ axi.is_write /\ rvalid = FALSE /\ axi \in AxiReg
      /\ beat_index \in Count /\ beats_total \in Count
  BY DEF OpenWrite, IInv, WriteInv, OpenInv, TypeOK
<1>2. ~aw_handshake /\ ~ar_handshake /\ Progress(in)
  BY <1>1 DEF Edge, TxnBlock, AcceptWrite, AcceptRead, aw_handshake, ar_handshake, AWREADY,
              ARREADY, idle_for_new
<1>3. /\ axi'.is_write /\ axi'.id = axi.id /\ txn_active' /\ beats_total' = beats_total
      /\ w_done' <=> w_done \/ (w_handshake /\ (w.last \/ final_beat))
  BY <1>1, <1>2 DEF Progress, AxiReg, b_handshake, r_handshake
<1>4. w_handshake => /\ ~w_done /\ beat_index < beats_total /\ apb_state = "IDLE"
  BY DEF w_handshake, WREADY, IInv, ApbInv
<1>5. /\ beat_index' = IF apb_done(in) \/ (w_handshake /\ txn_decerr)
                        THEN Inc(beat_index) ELSE beat_index
      /\ beat_index < beats_total => Inc(beat_index) = beat_index + 1
  <2>1. beat_index < beats_total => beat_index < LenMax + 1
    BY <1>1, AddressAssumption DEF Count
  <2>. QED BY <1>1, <1>2, <2>1, IncExact DEF Progress
<1>6. Taken' = Taken + (IF w_handshake THEN 1 ELSE 0)
  <2>1. CASE apb_state = "IDLE" /\ w_handshake
    <3>1. start_write <=> ~txn_decerr
      BY <1>1, <1>4, <2>1 DEF start_write, beat_due
    <3>2. ~apb_done(in) /\ ~start_read(in)
      BY <1>1, <2>1 DEF apb_done, start_read
    <3>3. apb_state' = IF txn_decerr THEN "IDLE" ELSE "SETUP"
      BY <2>1, <3>1, <3>2
         DEF Edge, ApbBlock, ApbStartWrite, ApbStartRead, ApbIdle, ApbSetup, ApbWait,
             ApbComplete, Drive, apb_done
    <3>. QED BY <1>1, <1>4, <1>5, <2>1, <3>2, <3>3 DEF Taken, Count
  <2>2. CASE apb_state = "IDLE" /\ ~w_handshake
    <3>1. ~start_write /\ ~start_read(in) /\ ~apb_done(in)
      BY <1>1, <2>2 DEF start_write, start_read, apb_done
    <3>2. apb_state' = "IDLE"
      BY <2>2, <3>1
         DEF Edge, ApbBlock, ApbStartWrite, ApbStartRead, ApbIdle, ApbSetup, ApbWait,
             ApbComplete, apb_done
    <3>. QED BY <1>1, <1>5, <2>2, <3>1, <3>2 DEF Taken, Count
  <2>3. CASE apb_state # "IDLE"
    <3>1. ~w_handshake /\ beat_index < beats_total
      BY <1>4, <2>3 DEF IInv, ApbInv
    <3>2. apb_state' = "IDLE" <=> apb_done(in)
      BY <2>3 DEF Edge, ApbBlock, ApbStartWrite, ApbStartRead, ApbIdle, ApbSetup, ApbWait,
                  ApbComplete, apb_done, apbRegs
    <3>. QED BY <1>1, <1>5, <2>3, <3>1, <3>2 DEF Taken, Count
  <2>. QED BY <2>1, <2>2, <2>3
<1>7. w_handshake => Taken < beats_total
  BY <1>1, <1>4 DEF Taken, Count
<1>. QED BY <1>1, <1>2, <1>3, <1>4, <1>6, <1>7, Zenon DEF OpenWrite

----------------------------------------------------------------------------
(* The write monitor.                                                      *)

\* The three queues in the states that an edge leaves them in.
LEMMA NoneHeld ==
    ASSUME ~OpenWrite', aw_pend' = <<>>, w_burst' = <<>>, wd_pend' = <<>>, b_late' = FALSE
    PROVE  WriteMonitorInv'
<1>1. /\ Len(<<>>) = 0
      /\ <<>> \in Seq(Request) /\ <<>> \in Seq(Data) /\ <<>> \in Seq(Seq(Data))
  BY EmptySeq
<1>2. Len(aw_pend') = IF OpenWrite' \/ b_late' THEN 1 ELSE 0
  BY <1>1
<1>. QED BY <1>1, <1>2, Zenon DEF WriteMonitorInv

LEMMA JustOpened ==
    ASSUME OpenWrite', Taken' = 0, beats_total' >= 0, ~w_done', NEW q \in Request,
           aw_pend' = Append(<<>>, q), axi'.id = q.id,
           w_burst' = <<>>, wd_pend' = <<>>, b_late' = FALSE
    PROVE  WriteMonitorInv'
<1>1. /\ Len(<<>>) = 0
      /\ <<>> \in Seq(Request) /\ <<>> \in Seq(Data) /\ <<>> \in Seq(Seq(Data))
  BY EmptySeq
<1>2. aw_pend' \in Seq(Request) /\ Len(aw_pend') = 1 /\ Head(aw_pend') = q
  BY OneIn
<1>. QED BY <1>1, <1>2 DEF WriteMonitorInv

\* Between transactions; a late B process gets its pair off the queues.
LEMMA IdleWriteMonitor ==
    ASSUME IInv, WriteMonitorInv, ~txn_active, NEW in \in BenchInputs, Edge(in),
           NEW first \in BOOLEAN, WriteMonitor(in, first)
    PROVE  /\ WriteMonitorInv'
           /\ w_burst' = <<>> /\ wd_pend' = <<>> /\ b_late' = FALSE
           /\ aw_handshake => aw_pend' = Append(<<>>, aw)
           /\ BWoken(in) <=> b_late
           /\ b_late => /\ BReady(first) /\ Head(AwSeen) = Head(aw_pend)
                        /\ wd_pend # <<>> /\ BurstsSeen = wd_pend
<1>1. /\ ~bvalid /\ ~w_handshake
      /\ aw_handshake => /\ OpenWrite' /\ axi'.id = aw.id /\ Taken' = 0
                         /\ beats_total' >= 0 /\ ~w_done'
      /\ ~aw_handshake => ~OpenWrite'
  BY IdleProgress DEF OpenWrite, OpenRead
<1>2. ~OpenWrite /\ ~BArm /\ ~WClosed /\ WSeen = w_burst /\ BurstsSeen = wd_pend
  BY <1>1 DEF OpenWrite, BArm, WClosed, WSeen, BurstsSeen
<1>3. BWoken(in) <=> b_late
  BY <1>1, BenchPins DEF BWoken
<1>4. w_burst = <<>>
  BY <1>2 DEF WriteMonitorInv
<1>5. /\ AwSeen = IF aw_handshake THEN Append(aw_pend, aw) ELSE aw_pend
      /\ aw_handshake => aw \in Request
  BY BenchPins DEF AwSeen, aw_handshake
<1>6. CASE b_late
  <2>1. Len(aw_pend) = 1 /\ Len(wd_pend) = 1 /\ aw_pend # <<>> /\ wd_pend # <<>>
    BY <1>2, <1>6, NothingIn DEF WriteMonitorInv
  <2>2. AwSeen # <<>> /\ Head(AwSeen) = Head(aw_pend)
    BY <1>5, <2>1, OneBehind, OneIn DEF WriteMonitorInv
  <2>3. BReady(first)
    BY <1>2, <2>1, <2>2 DEF BReady
  <2>4. /\ w_burst' = <<>> /\ b_late' = FALSE
        /\ aw_pend' = Tail(AwSeen) /\ wd_pend' = Tail(wd_pend)
    BY <1>2, <1>3, <1>4, <1>6, <2>3 DEF WriteMonitor
  <2>5. wd_pend' = <<>>
    BY <2>1, <2>4, OneOut DEF WriteMonitorInv
  <2>6. CASE aw_handshake
    <3>1. aw_pend' = Append(<<>>, aw)
      BY <1>5, <2>1, <2>4, <2>6, OneBehind DEF WriteMonitorInv
    <3>. QED BY <1>1, <1>2, <1>3, <1>5, <2>1, <2>2, <2>3, <2>4, <2>5, <2>6, <3>1, JustOpened
  <2>7. CASE ~aw_handshake
    <3>1. aw_pend' = <<>>
      BY <1>5, <2>1, <2>4, <2>7, OneOut DEF WriteMonitorInv
    <3>. QED BY <1>1, <1>2, <1>3, <2>1, <2>2, <2>3, <2>4, <2>5, <2>7, <3>1, NoneHeld
  <2>. QED BY <2>6, <2>7
<1>7. CASE ~b_late
  <2>1. aw_pend = <<>> /\ wd_pend = <<>>
    BY <1>2, <1>7, NothingIn DEF WriteMonitorInv
  <2>2. /\ w_burst' = <<>> /\ b_late' = FALSE /\ aw_pend' = AwSeen /\ wd_pend' = <<>>
    BY <1>2, <1>3, <1>4, <1>7, <2>1 DEF WriteMonitor
  <2>3. CASE aw_handshake
    BY <1>1, <1>3, <1>5, <1>7, <2>1, <2>2, <2>3, JustOpened
  <2>4. CASE ~aw_handshake
    BY <1>1, <1>3, <1>5, <1>7, <2>1, <2>2, <2>4, NoneHeld
  <2>. QED BY <2>3, <2>4
<1>. QED BY <1>6, <1>7 DEF WriteMonitorInv

\* During a read there is nothing for it to see.
LEMMA ReadWriteMonitor ==
    ASSUME IInv, WriteMonitorInv, OpenRead, NEW in \in BenchInputs, Edge(in),
           NEW first \in BOOLEAN, WriteMonitor(in, first)
    PROVE  WriteMonitorInv' /\ ~BWoken(in) /\ ~WriteHeld'
<1>1. ~bvalid /\ ~w_handshake /\ ~aw_handshake /\ ~OpenWrite' /\ ~OpenWrite
  <2>1. ~bvalid /\ ~w_handshake /\ ~aw_handshake /\ ~ar_handshake /\ ~OpenWrite
    BY DEF OpenRead, OpenWrite, IInv, ReadInv, w_handshake, WREADY, aw_handshake, AWREADY,
           ar_handshake, ARREADY, idle_for_new
  <2>2. Progress(in) /\ axi \in AxiReg
    BY <2>1 DEF Edge, TxnBlock, AcceptWrite, AcceptRead, OpenRead, IInv, OpenInv, TypeOK
  <2>3. axi'.is_write = axi.is_write
    BY <2>2 DEF Progress, AxiReg
  <2>. QED BY <2>1, <2>3 DEF OpenRead, OpenWrite
<1>2. ~b_late /\ w_burst = <<>> /\ aw_pend = <<>> /\ wd_pend = <<>>
  BY <1>1, NothingIn DEF WriteMonitorInv, OpenRead
<1>3. /\ ~BArm /\ ~WClosed /\ WSeen = w_burst /\ BurstsSeen = wd_pend /\ AwSeen = aw_pend
      /\ ~BWoken(in)
  BY <1>1, <1>2, BenchPins DEF BArm, WClosed, WSeen, BurstsSeen, AwSeen, BWoken
<1>4. w_burst' = <<>> /\ aw_pend' = <<>> /\ wd_pend' = <<>> /\ b_late' = FALSE
  BY <1>2, <1>3 DEF WriteMonitor
<1>. QED BY <1>1, <1>3, <1>4, NoneHeld DEF WriteHeld

\* B is taken: the pair leaves, on this edge or, if the B process ran before
\* the queues were filled, on the next one.
LEMMA AnsweredWriteMonitor ==
    ASSUME IInv, WriteMonitorInv, OpenWrite, bvalid, NEW in \in BenchInputs, Edge(in),
           NEW first \in BOOLEAN, WriteMonitor(in, first)
    PROVE  /\ WriteMonitorInv' /\ ~txn_active'
           /\ BWoken(in) /\ AwSeen = aw_pend /\ Head(BurstsSeen) = Captured
           /\ BReady(first) => b_late' = FALSE
           /\ ~BReady(first) => aw_pend' = aw_pend /\ Captured' = Captured
<1>1. /\ b_handshake(in) /\ apb_state = "IDLE" /\ w_done /\ ~w_handshake /\ ~aw_handshake
      /\ ~ar_handshake
  BY BenchPins
     DEF OpenWrite, IInv, WriteInv, ApbInv, w_handshake, WREADY, aw_handshake, AWREADY,
         ar_handshake, ARREADY, idle_for_new
<1>2. ~txn_active' /\ ~OpenWrite'
  BY <1>1 DEF Edge, TxnBlock, AcceptWrite, AcceptRead, Progress, OpenWrite
<1>3. BWoken(in) /\ ~b_late /\ AwSeen = aw_pend /\ WSeen = w_burst
  BY <1>1 DEF BWoken, AwSeen, WSeen, WriteMonitorInv, OpenWrite
<1>4. /\ aw_pend \in Seq(Request) /\ w_burst \in Seq(Data) /\ wd_pend \in Seq(Seq(Data))
      /\ Len(aw_pend) = 1 /\ aw_pend # <<>> /\ Tail(aw_pend) = <<>>
  BY <1>3, OneOut DEF WriteMonitorInv
<1>5. CASE wd_pend = <<>>
  <2>1. w_burst # <<>>
    BY <1>1, <1>5, NothingIn DEF WriteMonitorInv
  <2>2. WClosed /\ BurstsSeen = Append(<<>>, w_burst)
    BY <1>1, <1>3, <1>5, <2>1 DEF WClosed, BArm, BurstsSeen
  <2>3. /\ BurstsSeen \in Seq(Seq(Data)) /\ BurstsSeen # <<>> /\ Len(BurstsSeen) = 1
        /\ Tail(BurstsSeen) = <<>> /\ Head(BurstsSeen) = w_burst
    BY <1>4, <2>2, OneIn, OneOut
  <2>7. Captured = w_burst
    BY <1>5 DEF Captured
  <2>4. w_burst' = <<>> /\ <<>> \in Seq(Data)
    BY <2>2, EmptySeq DEF WriteMonitor
  <2>5. CASE first
    <3>1. ~BReady(first)
      BY <1>5, <2>5 DEF BReady
    <3>2. b_late' = TRUE /\ aw_pend' = aw_pend /\ wd_pend' = BurstsSeen
      BY <1>3, <3>1 DEF WriteMonitor
    <3>3. Captured' = w_burst
      BY <2>3, <3>2 DEF Captured
    <3>. QED BY <1>2, <1>3, <1>4, <2>3, <2>4, <2>7, <3>1, <3>2, <3>3 DEF WriteMonitorInv
  <2>6. CASE ~first
    <3>1. BReady(first)
      BY <1>3, <1>4, <2>3, <2>6 DEF BReady
    <3>2. b_late' = FALSE /\ aw_pend' = <<>> /\ wd_pend' = <<>>
      BY <1>3, <1>4, <2>3, <3>1 DEF WriteMonitor
    <3>. QED BY <1>2, <1>3, <2>3, <2>4, <2>7, <3>1, <3>2, NoneHeld
  <2>. QED BY <2>5, <2>6
<1>6. CASE wd_pend # <<>>
  <2>1. w_burst = <<>> /\ Tail(wd_pend) = <<>>
    BY <1>4, <1>6, OneOut DEF WriteMonitorInv
  <2>2. ~WClosed /\ BurstsSeen = wd_pend
    BY <1>1, <2>1 DEF WClosed, BArm, BurstsSeen
  <2>3. BReady(first)
    BY <1>3, <1>4, <1>6, <2>2 DEF BReady
  <2>4. w_burst' = <<>> /\ b_late' = FALSE /\ aw_pend' = <<>> /\ wd_pend' = <<>>
    BY <1>3, <1>4, <2>1, <2>2, <2>3 DEF WriteMonitor
  <2>5. Captured = Head(wd_pend)
    BY <1>6 DEF Captured
  <2>. QED BY <1>2, <1>3, <2>2, <2>3, <2>4, <2>5, NoneHeld
<1>. QED BY <1>5, <1>6

\* Before B is offered: the beats taken are collected until WLAST closes them.
LEMMA OpenWriteMonitor ==
    ASSUME IInv, WriteMonitorInv, OpenWrite, ~bvalid, NEW in \in BenchInputs, Edge(in),
           NEW first \in BOOLEAN, WriteMonitor(in, first)
    PROVE  /\ WriteMonitorInv' /\ ~BWoken(in) /\ b_late' = FALSE /\ aw_pend' = aw_pend
           /\ Captured' = IF w_handshake THEN Append(Captured, w.data) ELSE Captured
<1>1. /\ ~aw_handshake /\ OpenWrite' /\ axi'.id = axi.id /\ beats_total' = beats_total
      /\ Taken' = Taken + (IF w_handshake THEN 1 ELSE 0)
      /\ w_handshake => ~w_done /\ Taken < beats_total
      /\ w_done' <=> w_done \/ (w_handshake /\ (w.last \/ final_beat))
  BY WriteProgress
<1>2. ~b_late /\ ~BWoken(in) /\ ~BArm /\ AwSeen = aw_pend
  BY <1>1, BenchPins DEF BWoken, BArm, AwSeen, WriteMonitorInv, OpenWrite
<1>3. /\ b_late' = FALSE /\ aw_pend' = aw_pend /\ wd_pend' = BurstsSeen
      /\ w_burst' = IF WClosed THEN <<>> ELSE WSeen
  BY <1>2 DEF WriteMonitor
<1>4. /\ aw_pend \in Seq(Request) /\ w_burst \in Seq(Data) /\ wd_pend \in Seq(Seq(Data))
      /\ Len(aw_pend) = 1 /\ Head(aw_pend).id = axi.id
      /\ Taken \in Nat /\ beats_total \in Nat
  BY <1>2 DEF WriteMonitorInv, Taken, IInv, TypeOK, Count
<1>5. CASE w_handshake
  <2>1. wd_pend = <<>> /\ Len(w_burst) = Taken
    BY <1>1, <1>5 DEF WriteMonitorInv
  <2>2. /\ WSeen \in Seq(Data) /\ Len(WSeen) = Taken + 1
    BY <1>4, <1>5, <2>1, BenchPins, AppendProperties DEF WSeen, w_handshake
  <2>3. CASE w.last
    <3>1. WClosed /\ BurstsSeen = Append(<<>>, WSeen)
      BY <1>5, <2>1, <2>3 DEF WClosed, BurstsSeen
    <3>2. /\ wd_pend' \in Seq(Seq(Data)) /\ Len(wd_pend') = 1 /\ Head(wd_pend') = WSeen
          /\ wd_pend' # <<>>
      BY <1>3, <2>2, <3>1, OneIn
    <3>3. w_burst' = <<>> /\ <<>> \in Seq(Data)
      BY <1>3, <3>1, EmptySeq
    <3>4. w_done' /\ Len(Head(wd_pend')) <= beats_total'
      BY <1>1, <1>4, <1>5, <2>2, <2>3, <3>2
    <3>5. Captured' = WSeen /\ Captured = w_burst /\ WSeen = Append(w_burst, w.data)
      BY <1>5, <2>1, <3>2 DEF Captured, WSeen
    <3>. QED BY <1>1, <1>2, <1>3, <1>4, <1>5, <3>2, <3>3, <3>4, <3>5 DEF WriteMonitorInv
  <2>4. CASE ~w.last
    <3>1. ~WClosed /\ BurstsSeen = <<>>
      BY <1>5, <2>1, <2>4 DEF WClosed, BurstsSeen
    <3>2. /\ w_burst' = WSeen /\ wd_pend' = <<>>
      BY <1>3, <3>1
    <3>3. Len(w_burst') = Taken' /\ Taken' > 0 /\ Taken' <= beats_total'
      BY <1>1, <1>4, <1>5, <2>2, <3>2
    <3>4. Captured' = WSeen /\ Captured = w_burst /\ WSeen = Append(w_burst, w.data)
      BY <1>5, <2>1, <3>2 DEF Captured, WSeen
    <3>. QED BY <1>1, <1>2, <1>3, <1>4, <1>5, <2>1, <2>2, <3>2, <3>3, <3>4 DEF WriteMonitorInv
  <2>. QED BY <2>3, <2>4
<1>6. CASE ~w_handshake
  <2>1. w_burst' = w_burst /\ wd_pend' = wd_pend
    BY <1>2, <1>3, <1>6 DEF WClosed, WSeen, BurstsSeen
  <2>2. Taken' = Taken /\ (w_done' <=> w_done)
    BY <1>1, <1>4, <1>6
  <2>3. Captured' = Captured
    BY <2>1 DEF Captured
  <2>. QED BY <1>1, <1>2, <1>3, <1>6, <2>1, <2>2, <2>3 DEF WriteMonitorInv
<1>. QED BY <1>5, <1>6

----------------------------------------------------------------------------
(* The read monitor.                                                       *)

\* A read ends with the handshake of its last beat, which RLAST marks.
LEMMA ReadProgress ==
    ASSUME IInv, OpenRead, NEW in \in BenchInputs, Edge(in)
    PROVE  /\ ~ar_handshake /\ beats_total' = beats_total
           /\ beats_sent' = beats_sent + (IF r_handshake(in) THEN 1 ELSE 0)
           /\ OpenRead' <=> ~(r_handshake(in) /\ beats_sent + 1 = beats_total)
<1>1. /\ txn_active /\ ~axi.is_write /\ axi \in AxiReg /\ ~bvalid
      /\ beats_sent \in Count /\ beats_total \in Count /\ beats_sent < beats_total
      /\ rvalid => r.last = (beats_sent = beats_total - 1)
  BY DEF OpenRead, IInv, TypeOK, OpenInv, ReadInv
<1>2. ~aw_handshake /\ ~ar_handshake /\ Progress(in)
  BY <1>1 DEF Edge, TxnBlock, AcceptWrite, AcceptRead, aw_handshake, ar_handshake, AWREADY,
              ARREADY, idle_for_new
<1>3. Inc(beats_sent) = beats_sent + 1
  <2>1. beats_sent < LenMax + 1
    BY <1>1, AddressAssumption DEF Count
  <2>. QED BY <1>1, <2>1, IncExact
<1>4. r_handshake(in) => (r.last <=> beats_sent + 1 = beats_total)
  <2>1. r_handshake(in) => r.last = (beats_sent = beats_total - 1)
    BY <1>1, Zenon DEF r_handshake
  <2>2. beats_sent = beats_total - 1 <=> beats_sent + 1 = beats_total
    BY <1>1 DEF Count
  <2>. QED BY <2>1, <2>2, Zenon
<1>5. /\ beats_total' = beats_total /\ ~axi'.is_write
      /\ beats_sent' = IF r_handshake(in) THEN beats_sent + 1 ELSE beats_sent
      /\ txn_active' <=> ~(r_handshake(in) /\ r.last)
  BY <1>1, <1>2, <1>3 DEF Progress, AxiReg, b_handshake
<1>. QED BY <1>1, <1>2, <1>4, <1>5 DEF OpenRead, Count

\* It follows the open read from the address to the last beat.
LEMMA EdgeReadMonitor ==
    ASSUME IInv, ReadMonitorInv, NEW in \in BenchInputs, Edge(in), ReadMonitor(in)
    PROVE  ReadMonitorInv'
<1>1. CASE ~txn_active
  <2>1. rd = None
    BY <1>1 DEF ReadMonitorInv, OpenRead
  <2>2. CASE ar_handshake
    <3>1. ~aw_handshake /\ ar \in Request
      BY <2>2, BenchPins DEF ar_handshake, aw_handshake, AWREADY
    <3>2. OpenRead' /\ beats_sent' = 0 /\ beats_total' = ar.len + 1
      BY <1>1, <2>2, <3>1, IdleProgress
    <3>3. rd' = [q |-> ar, data |-> <<>>]
      BY <2>1, <2>2 DEF ReadMonitor
    <3>4. rd' \in [q : Request, data : Seq(Data)] /\ Len(rd'.data) = 0 /\ rd'.q = ar
      BY <3>1, <3>3, EmptySeq
    <3>5. rd' # None
      BY <3>4, MonitorAssumption
    <3>. QED BY <3>2, <3>4, <3>5 DEF ReadMonitorInv
  <2>3. CASE ~ar_handshake
    <3>1. ~OpenRead'
      BY <1>1, <2>3, IdleProgress DEF OpenRead, OpenWrite
    <3>2. rd' = None
      BY <2>1, <2>3 DEF ReadMonitor
    <3>. QED BY <3>1, <3>2 DEF ReadMonitorInv
  <2>. QED BY <2>2, <2>3
<1>2. CASE OpenWrite
  <2>1. rd = None /\ ~ar_handshake
    BY <1>2 DEF ReadMonitorInv, OpenRead, OpenWrite, ar_handshake, ARREADY, idle_for_new
  <2>2. ~OpenRead'
    <3>1. axi \in AxiReg /\ ~aw_handshake
      BY <1>2 DEF OpenWrite, IInv, OpenInv, TypeOK, aw_handshake, AWREADY, idle_for_new
    <3>2. axi'.is_write
      BY <1>2, <2>1, <3>1
         DEF OpenWrite, Edge, TxnBlock, AcceptWrite, AcceptRead, Progress, AxiReg
    <3>. QED BY <3>2 DEF OpenRead
  <2>3. rd' = None
    BY <2>1 DEF ReadMonitor
  <2>. QED BY <2>2, <2>3 DEF ReadMonitorInv
<1>3. CASE OpenRead
  <2>1. /\ rd # None /\ rd \in [q : Request, data : Seq(Data)]
        /\ Len(rd.data) = beats_sent /\ rd.q.len + 1 = beats_total
        /\ rd.data \in Seq(Data) /\ rd.q \in Request
    BY <1>3 DEF ReadMonitorInv
  <2>2. /\ beats_total' = beats_total
        /\ beats_sent' = beats_sent + (IF r_handshake(in) THEN 1 ELSE 0)
        /\ OpenRead' <=> ~(r_handshake(in) /\ beats_sent + 1 = beats_total)
        /\ beats_sent \in Nat /\ beats_total \in Nat
    BY <1>3, ReadProgress DEF IInv, TypeOK, Count
  <2>3. CASE r_handshake(in)
    <3>1. /\ RdSeen(in) \in [q : Request, data : Seq(Data)] /\ RdSeen(in).q = rd.q
          /\ RdSeen(in).data = Append(rd.data, r.data)
      BY <2>1, BenchPins, AppendProperties DEF RdSeen
    <3>2. Len(RdSeen(in).data) = beats_sent + 1
      BY <2>1, <3>1, BenchPins, AppendProperties
    <3>3. rd' = IF beats_sent + 1 = beats_total THEN None ELSE RdSeen(in)
      BY <2>1, <2>3, <3>2 DEF ReadMonitor
    <3>4. CASE beats_sent + 1 = beats_total
      BY <2>2, <2>3, <3>3, <3>4 DEF ReadMonitorInv
    <3>5. CASE beats_sent + 1 # beats_total
      <4>1. OpenRead' /\ rd' = RdSeen(in) /\ beats_sent' = beats_sent + 1
        BY <2>2, <2>3, <3>3, <3>5
      <4>2. rd' # None
        BY <3>1, <4>1, MonitorAssumption
      <4>. QED BY <2>1, <2>2, <3>1, <3>2, <4>1, <4>2 DEF ReadMonitorInv
    <3>. QED BY <3>4, <3>5
  <2>4. CASE ~r_handshake(in)
    <3>1. OpenRead' /\ beats_sent' = beats_sent /\ rd' = rd
      BY <2>1, <2>2, <2>4 DEF ReadMonitor
    <3>. QED BY <2>1, <2>2, <3>1 DEF ReadMonitorInv
  <2>. QED BY <2>3, <2>4
<1>. QED BY <1>1, <1>2, <1>3 DEF OpenRead, OpenWrite

----------------------------------------------------------------------------
(* The invariant, and what follows from it.                                *)

\* What the monitors hold while only the master moves.
LEMMA QuietMonitors == MonitorInv /\ UNCHANGED <<txnRegs, apb_state, bench>> => MonitorInv'
  BY DEF MonitorInv, WriteMonitorInv, ReadMonitorInv, OpenWrite, OpenRead, Taken, txnRegs, bench

LEMMA MonitorInvNext == IInv /\ MonitorInv /\ [BenchNext]_allVars => MonitorInv'
<1>. SUFFICES ASSUME IInv, MonitorInv, [BenchNext]_allVars PROVE MonitorInv'
  OBVIOUS
<1>1. CASE UNCHANGED allVars
  BY <1>1, QuietMonitors DEF allVars, vars, apbRegs
<1>2. CASE MasterStep /\ UNCHANGED bench
  <2>1. UNCHANGED <<txnRegs, apb_state>>
    BY <1>2 DEF MasterStep, RaiseAW, RaiseAR, RaiseW, apbRegs
  <2>. QED BY <1>2, <2>1, QuietMonitors
<1>3. ASSUME NEW in \in BenchInputs, NEW first \in BOOLEAN, NEW axi_ahead \in BOOLEAN,
             BenchEdge(in, first, axi_ahead)
      PROVE  MonitorInv'
  <2>1. Edge(in) /\ WriteMonitor(in, first) /\ ReadMonitor(in)
    BY <1>3 DEF BenchEdge
  <2>2. WriteMonitorInv'
    BY <2>1, IdleWriteMonitor, ReadWriteMonitor, AnsweredWriteMonitor, OpenWriteMonitor
       DEF MonitorInv, OpenWrite, OpenRead
  <2>3. ReadMonitorInv'
    BY <2>1, EdgeReadMonitor DEF MonitorInv
  <2>. QED BY <2>2, <2>3 DEF MonitorInv
<1>. QED BY <1>1, <1>2, <1>3 DEF BenchNext

LEMMA BenchInitInv == BenchInit => IInv /\ MonitorInv
<1>1. /\ Len(<<>>) = 0
      /\ <<>> \in Seq(Request) /\ <<>> \in Seq(Data) /\ <<>> \in Seq(Seq(Data))
  BY EmptySeq
<1>2. BenchInit => IInv
  BY InitInv DEF BenchInit
<1>. QED BY <1>1, <1>2
         DEF BenchInit, Init, MonitorInv, WriteMonitorInv, ReadMonitorInv, OpenWrite, OpenRead

LEMMA MonitorInvariant == BenchSpec => [](IInv /\ MonitorInv)
<1>1. IInv /\ MonitorInv /\ [BenchNext]_allVars => (IInv /\ MonitorInv)'
  BY NextInv, BenchStep, MonitorInvNext
<1>. QED BY <1>1, BenchInitInv, PTL DEF BenchSpec

\* However the simulator orders the three write processes, a B is paired with
\* the address and the data of its own burst, and there is never more than one
\* burst to choose from.
THEOREM PairsExact == BenchSpec => []PairingExact
<1>1. IInv /\ MonitorInv => PairingExact
  <2>. SUFFICES ASSUME IInv, WriteMonitorInv PROVE PairingExact
    BY DEF MonitorInv
  <2>1. Len(aw_pend) <= 1 /\ Len(wd_pend) <= 1
    <3>1. Len(aw_pend) <= 1
      BY DEF WriteMonitorInv
    <3>2. CASE wd_pend = <<>>
      BY <3>1, <3>2, EmptySeq
    <3>3. CASE wd_pend # <<>>
      <4>1. Len(wd_pend) = 1
        BY <3>3 DEF WriteMonitorInv
      <4>. QED BY <3>1, <4>1
    <3>. QED BY <3>2, <3>3
  <2>2. aw_pend # <<>> /\ txn_active => OpenWrite /\ Head(aw_pend).id = axi.id
    BY NothingIn DEF WriteMonitorInv
  <2>3. wd_pend # <<>> /\ ~b_late => w_done /\ Len(Head(wd_pend)) <= beats_total
    BY DEF WriteMonitorInv
  <2>. QED BY <2>1, <2>2, <2>3 DEF PairingExact, OpenWrite
<1>. QED BY <1>1, MonitorInvariant, PTL

\* What a monitor has captured it has also published when the transaction is
\* over: nothing is left that could be paired with a later one.  This is the
\* monitors' half of Drained.
THEOREM NothingLeftBehind == BenchSpec => [](~txn_active /\ ~b_late => MonitorsEmpty)
<1>1. IInv /\ MonitorInv => (~txn_active /\ ~b_late => MonitorsEmpty)
  BY NothingIn
     DEF MonitorInv, WriteMonitorInv, ReadMonitorInv, MonitorsEmpty, OpenWrite, OpenRead
<1>. QED BY <1>1, MonitorInvariant, PTL

----------------------------------------------------------------------------
(* The scoreboard's operators.                                             *)

\* Of finitely many positions one is the last.
LEMMA LastExists ==
    ASSUME NEW n \in Nat, NEW H \in SUBSET (1 .. n), H # {}
    PROVE  \E h \in H : \A j \in H : j <= h
<1> DEFINE above(h) == {j \in H : j > h}
           T == {above(h) : h \in H}
           R == StrictSubsetOrdering(H)
<1>1. IsFiniteSet(H)
  <2>1. IsFiniteSet(1 .. n)
    BY FS_Interval
  <2>. QED BY <2>1, FS_Subset
<1>2. T \subseteq FiniteSubsetsOf(H) /\ T # {}
  <2>1. ASSUME NEW h \in H PROVE above(h) \in FiniteSubsetsOf(H)
    BY <1>1, FS_Subset DEF FiniteSubsetsOf
  <2>. QED BY <2>1
<1>3. PICK U \in T : \A V \in T : ~(<<V, U>> \in R)
  <2> HIDE DEF T, R
  <2>1. IsWellFoundedOn(R, FiniteSubsetsOf(H))
    BY FS_StrictSubsetOrderingWellFounded DEF R
  <2>. QED BY <1>2, <2>1, WFMin
<1>4. PICK h \in H : U = above(h)
  OBVIOUS
<1>5. ASSUME NEW j \in H, ~(j <= h) PROVE FALSE
  <2>1. j > h /\ ~(j > j) /\ \A i \in H : i > j => i > h
    <3>1. H \subseteq Int
      OBVIOUS
    <3>. QED BY <1>5, <3>1
  <2>2. j \in above(h) /\ j \notin above(j) /\ above(j) \subseteq above(h)
    BY <2>1
  <2>3. <<above(j), above(h)>> \in R
    BY <2>2 DEF StrictSubsetOrdering
  <2>. QED BY <1>3, <1>4, <2>3
<1>. QED BY <1>5

Hits(obs, k) ==
    {i \in DOMAIN obs : ~obs[i].err /\ ram_key_of(obs[i].port, obs[i].addr) = k}
LastOf(H) == CHOOSE i \in H : \A j \in H : j <= i

LEMMA LastOfHits ==
    ASSUME NEW obs \in Seq(Observation), NEW k, Hits(obs, k) # {}
    PROVE  /\ LastOf(Hits(obs, k)) \in Hits(obs, k)
           /\ \A j \in Hits(obs, k) : j <= LastOf(Hits(obs, k))
<1> DEFINE H == Hits(obs, k)
<1>1. H \in SUBSET (1 .. Len(obs)) /\ Len(obs) \in Nat
  BY LenProperties DEF Hits
<1>2. \E h \in H : \A j \in H : j <= h
  <2> HIDE DEF H
  <2>. QED BY <1>1, LastExists DEF H
<1>. QED BY <1>2 DEF LastOf

LEMMA CommittedAt ==
    ASSUME NEW S, NEW shadow \in [S -> Data], NEW obs, NEW k \in S
    PROVE  Committed(shadow, obs)[k] =
             IF Hits(obs, k) = {} THEN shadow[k] ELSE obs[LastOf(Hits(obs, k))].data
  BY DEF Committed, Hits, LastOf

LEMMA CommittedType ==
    ASSUME NEW S, NEW shadow \in [S -> Data], NEW obs \in Seq(Observation)
    PROVE  Committed(shadow, obs) \in [S -> Data]
<1>1. ASSUME NEW k \in S PROVE Committed(shadow, obs)[k] \in Data
  <2>1. ASSUME Hits(obs, k) # {} PROVE obs[LastOf(Hits(obs, k))].data \in Data
    <3>1. LastOf(Hits(obs, k)) \in 1 .. Len(obs)
      BY <2>1, LastOfHits, LenProperties DEF Hits
    <3>2. obs[LastOf(Hits(obs, k))] \in Observation
      BY <3>1, ElementOfSeq
    <3>. QED BY <3>2 DEF Observation
  <2>2. shadow[k] \in Data
    OBVIOUS
  <2>. QED BY <2>1, <2>2, CommittedAt
<1>2. Committed(shadow, obs) = [k \in S |-> Committed(shadow, obs)[k]]
  BY DEF Committed
<1>. QED BY <1>1, <1>2

\* Committing nothing.
LEMMA CommittedNothing ==
    ASSUME NEW S, NEW shadow \in [S -> Data]
    PROVE  Committed(shadow, <<>>) = shadow
<1>1. ASSUME NEW k \in S PROVE Committed(shadow, <<>>)[k] = shadow[k]
  <2>1. Hits(<<>>, k) = {}
    BY EmptySeq DEF Hits
  <2>. QED BY <2>1, CommittedAt
<1>2. Committed(shadow, <<>>) = [k \in S |-> Committed(shadow, <<>>)[k]]
  BY DEF Committed
<1>. QED BY <1>1, <1>2

\* One transfer more is committed after the others.
LEMMA CommittedAppend ==
    ASSUME NEW S, NEW shadow \in [S -> Data], NEW obs \in Seq(Observation),
           NEW o \in Observation, NEW k \in S
    PROVE  Committed(shadow, Append(obs, o))[k] =
             IF ~o.err /\ ram_key_of(o.port, o.addr) = k THEN o.data
             ELSE Committed(shadow, obs)[k]
<1> DEFINE n == Len(obs)
           all == Append(obs, o)
           here == ~o.err /\ ram_key_of(o.port, o.addr) = k
<1>1. /\ n \in Nat /\ DOMAIN obs = 1 .. n /\ DOMAIN all = 1 .. n + 1 /\ all \in Seq(Observation)
      /\ all[n + 1] = o /\ \A i \in 1 .. n : all[i] = obs[i]
  BY LenProperties, AppendProperties
<1> HIDE DEF n, all
<1>0. /\ Committed(shadow, all)[k] =
           IF Hits(all, k) = {} THEN shadow[k] ELSE all[LastOf(Hits(all, k))].data
      /\ Committed(shadow, obs)[k] =
           IF Hits(obs, k) = {} THEN shadow[k] ELSE obs[LastOf(Hits(obs, k))].data
  BY CommittedAt
<1> SUFFICES Committed(shadow, all)[k] = IF here THEN o.data ELSE Committed(shadow, obs)[k]
  BY DEF all
<1> HIDE DEF here
<1>2. ASSUME NEW i \in 1 .. n PROVE i \in Hits(all, k) <=> i \in Hits(obs, k)
  BY <1>1 DEF Hits
<1>3. n + 1 \in Hits(all, k) <=> here
  BY <1>1 DEF Hits, here
<1>4. Hits(all, k) \subseteq 1 .. n + 1 /\ Hits(obs, k) \subseteq 1 .. n
  BY <1>1 DEF Hits
<1>5. CASE here
  <2>1. LastOf(Hits(all, k)) \in 1 .. n + 1 /\ n + 1 <= LastOf(Hits(all, k))
    BY <1>1, <1>3, <1>4, <1>5, LastOfHits
  <2>2. LastOf(Hits(all, k)) = n + 1
    BY <1>1, <2>1
  <2>. QED BY <1>0, <1>1, <1>3, <1>5, <2>2
<1>6. CASE ~here
  <2>1. Hits(all, k) = Hits(obs, k)
    <3>1. \A i \in 1 .. n + 1 : i \in 1 .. n \/ i = n + 1
      BY <1>1
    <3>. QED BY <1>2, <1>3, <1>4, <1>6, <3>1
  <2>2. CASE Hits(obs, k) = {}
    BY <1>0, <1>6, <2>1, <2>2
  <2>3. CASE Hits(obs, k) # {}
    <3>1. LastOf(Hits(obs, k)) \in 1 .. n
      BY <1>4, <2>3, LastOfHits
    <3>. QED BY <1>0, <1>1, <1>6, <2>1, <2>3, <3>1
  <2>. QED BY <2>2, <2>3
<1>. QED BY <1>5, <1>6

\* Transfers of one port leave the entries of the other one alone.
LEMMA CommittedElsewhere ==
    ASSUME NEW shadow \in [Port \X (0 .. Keys - 1) -> Data],
           NEW obs \in Seq(Observation), NEW p \in Port,
           \A i \in DOMAIN obs : obs[i].port = p,
           NEW other \in Port, other # p, NEW i \in 0 .. Keys - 1
    PROVE  Committed(shadow, obs)[<<other, i>>] = shadow[<<other, i>>]
<1>1. Hits(obs, <<other, i>>) = {}
  BY DEF Hits, ram_key_of
<1>2. <<other, i>> \in Port \X (0 .. Keys - 1)
  OBVIOUS
<1> DEFINE S == Port \X (0 .. Keys - 1)
           k == <<other, i>>
<1> HIDE DEF S, k
<1>3. k \in S /\ shadow \in [S -> Data] /\ Hits(obs, k) = {}
  BY <1>1, <1>2 DEF S, k
<1>4. Committed(shadow, obs)[k] = shadow[k]
  BY <1>3, CommittedAt
<1>. QED BY <1>4 DEF k

\* Predictions that are all of one port, as those of a legal burst are.
LEMMA ForPortAll ==
    ASSUME NEW preds \in Seq(Prediction), NEW p, \A i \in DOMAIN preds : preds[i].port = p
    PROVE  ForPort(p, preds) = preds
<1> DEFINE n == Len(preds)
           of == {i \in DOMAIN preds : preds[i].port = p}
           upto(i) == {j \in of : j <= i}
           nth(k) == CHOOSE i \in of : Cardinality(upto(i)) = k
<1>1. n \in Nat /\ DOMAIN preds = 1 .. n /\ of = 1 .. n
  BY LenProperties
<1>2. preds = [k \in 1 .. n |-> preds[k]]
  BY LenProperties
<1> HIDE DEF n, of
<1>3. Cardinality(of) = n
  BY <1>1, FS_Interval
<1>4. ASSUME NEW i \in 1 .. n PROVE Cardinality(upto(i)) = i
  <2>1. upto(i) = 1 .. i /\ i \in Nat /\ i >= 1
    BY <1>1
  <2>2. Cardinality(1 .. i) = i
    BY <2>1, FS_Interval
  <2>. QED BY <2>1, <2>2
<1>5. ASSUME NEW k \in 1 .. n PROVE nth(k) = k
  BY <1>1, <1>4
<1>6. ForPort(p, preds) = [k \in 1 .. Cardinality(of) |-> preds[nth(k)]]
  BY DEF ForPort, of
<1>. QED BY <1>2, <1>3, <1>5, <1>6

LEMMA ForPortNone ==
    ASSUME NEW preds, NEW p, \A i \in DOMAIN preds : preds[i].port # p
    PROVE  ForPort(p, preds) = <<>>
<1>1. {i \in DOMAIN preds : preds[i].port = p} = {} /\ Cardinality({}) = 0
  BY FS_EmptySet
<1>2. ForPort(p, preds) \in [1 .. 0 -> {}]
  <2> DEFINE of == {i \in DOMAIN preds : preds[i].port = p}
             at(k) == preds[CHOOSE i \in of : Cardinality({j \in of : j <= i}) = k]
  <2>1. ForPort(p, preds) = [k \in 1 .. Cardinality(of) |-> at(k)]
    BY DEF ForPort
  <2>2. Cardinality(of) = 0
    BY <1>1
  <2> HIDE DEF at, of
  <2>. QED BY <2>1, <2>2
<1>3. ForPort(p, preds) \in Seq({}) /\ DOMAIN ForPort(p, preds) = 1 .. 0
  BY <1>2, SeqDef
<1> DEFINE f == ForPort(p, preds)
<1> HIDE DEF f
<1>4. f \in Seq({}) /\ DOMAIN f = 1 .. 0
  BY <1>3 DEF f
<1>5. Len(f) = 0
  BY <1>4, LenProperties
<1>. QED BY <1>4, <1>5, EmptySeq DEF f

LEMMA RestNone == ASSUME NEW S, NEW s \in Seq(S) PROVE Rest(s, 0) = s /\ SubSeq(s, 1, 0) = <<>>
<1>1. Len(s) \in Nat /\ 0 + 1 = 1
  BY LenProperties
<1>2. SubSeq(s, 1, Len(s)) = s
  BY SubSeqFull
<1>3. SubSeq(s, 1, 0) = <<>>
  BY SubSeqEmpty
<1>. QED BY <1>1, <1>2, <1>3 DEF Rest

LEMMA RestAll ==
    ASSUME NEW S, NEW s \in Seq(S) PROVE Rest(s, Len(s)) = <<>> /\ SubSeq(s, 1, Len(s)) = s
<1>1. Len(s) \in Nat /\ Len(s) < Len(s) + 1
  BY LenProperties
<1>2. SubSeq(s, Len(s) + 1, Len(s)) = <<>>
  BY <1>1, SubSeqEmpty
<1>. QED BY <1>2, SubSeqFull DEF Rest

LEMMA IsBoard ==
    ASSUME NEW t,
           t = [f \in {"pred_wr", "pred_rd", "buf_wr", "buf_rd", "slv_shadow", "mismatch"} |->
                  t[f]],
           t.pred_wr \in [Port -> Seq(Prediction)], t.pred_rd \in [Port -> Seq(Prediction)],
           t.buf_wr \in [Port -> Seq(Observation)], t.buf_rd \in [Port -> Seq(Observation)],
           t.slv_shadow \in [Port \X (0 .. Keys - 1) -> Data], t.mismatch \in BOOLEAN
    PROVE  t \in Board
<1>1. t = [pred_wr |-> t.pred_wr, pred_rd |-> t.pred_rd, buf_wr |-> t.buf_wr,
           buf_rd |-> t.buf_rd, slv_shadow |-> t.slv_shadow, mismatch |-> t.mismatch]
  OBVIOUS
<1>. QED BY <1>1, Zenon DEF Board

\* An observation without a prediction waits.
LEMMA WritesWait ==
    ASSUME NEW s \in Board, NEW p \in Port, s.pred_wr[p] = <<>>
    PROVE  reconcile_wr_port(s, p) = s
<1> DEFINE t == wr_hits(s, p, 0)
<1>1. s.pred_wr[p] \in Seq(Prediction) /\ s.buf_wr[p] \in Seq(Observation) /\ Len(<<>>) = 0
      /\ s.pred_wr \in [Port -> Seq(Prediction)] /\ s.buf_wr \in [Port -> Seq(Observation)]
      /\ s.slv_shadow \in [Port \X (0 .. Keys - 1) -> Data] /\ s.mismatch \in BOOLEAN
  BY EmptySeq DEF Board
<1>2. Pairs(s.pred_wr[p], s.buf_wr[p]) = 0
  <2>1. Len(s.buf_wr[p]) \in Nat
    BY <1>1, LenProperties
  <2>. QED BY <1>1, <2>1 DEF Pairs
<1>3. [s.pred_wr EXCEPT ![p] = Rest(@, 0)] = s.pred_wr
      /\ [s.buf_wr EXCEPT ![p] = Rest(@, 0)] = s.buf_wr
  BY <1>1, RestNone
<1>4. Committed(s.slv_shadow, SubSeq(s.buf_wr[p], 1, 0)) = s.slv_shadow
  BY <1>1, RestNone, CommittedNothing
<1>5. ~(\E i \in 1 .. 0 : \/ MetaWrong(s.pred_wr[p][i], s.buf_wr[p][i], p, TRUE)
                          \/ s.pred_wr[p][i].data # s.buf_wr[p][i].data)
  OBVIOUS
<1>6. /\ t.pred_wr = s.pred_wr /\ t.buf_wr = s.buf_wr /\ t.slv_shadow = s.slv_shadow
      /\ t.mismatch = s.mismatch /\ t.pred_rd = s.pred_rd /\ t.buf_rd = s.buf_rd
  BY <1>3, <1>4, <1>5 DEF wr_hits, Board
<1>7. DOMAIN t = DOMAIN s
      /\ t = [f \in DOMAIN s |-> t[f]] /\ s = [f \in DOMAIN s |-> s[f]]
      /\ DOMAIN s = {"pred_wr", "pred_rd", "buf_wr", "buf_rd", "slv_shadow", "mismatch"}
  BY DEF wr_hits, Board
<1>8. t = s
  <2> HIDE DEF t
  <2>. QED BY <1>6, <1>7
<1>. QED BY <1>2, <1>8 DEF reconcile_wr_port

LEMMA ReadsWait ==
    ASSUME NEW s \in Board, NEW p \in Port, s.pred_rd[p] = <<>>
    PROVE  reconcile_rd_port(s, p) = s
<1> DEFINE t == rd_hits(s, p, 0)
<1>1. s.pred_rd[p] \in Seq(Prediction) /\ s.buf_rd[p] \in Seq(Observation) /\ Len(<<>>) = 0
      /\ s.pred_rd \in [Port -> Seq(Prediction)] /\ s.buf_rd \in [Port -> Seq(Observation)]
      /\ s.mismatch \in BOOLEAN
  BY EmptySeq DEF Board
<1>2. Pairs(s.pred_rd[p], s.buf_rd[p]) = 0
  <2>1. Len(s.buf_rd[p]) \in Nat
    BY <1>1, LenProperties
  <2>. QED BY <1>1, <2>1 DEF Pairs
<1>3. [s.pred_rd EXCEPT ![p] = Rest(@, 0)] = s.pred_rd
      /\ [s.buf_rd EXCEPT ![p] = Rest(@, 0)] = s.buf_rd
  BY <1>1, RestNone
<1>4. ~(\E i \in 1 .. 0 : \/ MetaWrong(s.pred_rd[p][i], s.buf_rd[p][i], p, FALSE)
                          \/ ~s.buf_rd[p][i].err
                             /\ s.pred_rd[p][i].data # s.buf_rd[p][i].data)
  OBVIOUS
<1>5. /\ t.pred_rd = s.pred_rd /\ t.buf_rd = s.buf_rd /\ t.slv_shadow = s.slv_shadow
      /\ t.mismatch = s.mismatch /\ t.pred_wr = s.pred_wr /\ t.buf_wr = s.buf_wr
  BY <1>3, <1>4 DEF rd_hits, Board
<1>6. DOMAIN t = DOMAIN s
      /\ t = [f \in DOMAIN s |-> t[f]] /\ s = [f \in DOMAIN s |-> s[f]]
      /\ DOMAIN s = {"pred_wr", "pred_rd", "buf_wr", "buf_rd", "slv_shadow", "mismatch"}
  BY DEF rd_hits, Board
<1>7. t = s
  <2> HIDE DEF t
  <2>. QED BY <1>5, <1>6
<1>. QED BY <1>2, <1>7 DEF reconcile_rd_port

\* As many predictions as observations, each of which fits: they all go.
LEMMA WritesMatch ==
    ASSUME NEW s \in Board, NEW p \in Port, Len(s.pred_wr[p]) = Len(s.buf_wr[p]),
           \A i \in 1 .. Len(s.buf_wr[p]) :
               /\ ~MetaWrong(s.pred_wr[p][i], s.buf_wr[p][i], p, TRUE)
               /\ s.pred_wr[p][i].data = s.buf_wr[p][i].data
    PROVE  LET t == reconcile_wr_port(s, p)
           IN  /\ t \in Board
               /\ t.pred_wr = [s.pred_wr EXCEPT ![p] = <<>>]
               /\ t.buf_wr = [s.buf_wr EXCEPT ![p] = <<>>]
               /\ t.slv_shadow = Committed(s.slv_shadow, s.buf_wr[p])
               /\ t.mismatch = s.mismatch /\ t.pred_rd = s.pred_rd /\ t.buf_rd = s.buf_rd
<1> DEFINE n == Len(s.buf_wr[p])
           t == wr_hits(s, p, n)
<1>1. /\ s.pred_wr[p] \in Seq(Prediction) /\ s.buf_wr[p] \in Seq(Observation)
      /\ s.pred_wr \in [Port -> Seq(Prediction)] /\ s.buf_wr \in [Port -> Seq(Observation)]
      /\ s.slv_shadow \in [Port \X (0 .. Keys - 1) -> Data] /\ s.mismatch \in BOOLEAN
      /\ s.pred_rd \in [Port -> Seq(Prediction)] /\ s.buf_rd \in [Port -> Seq(Observation)]
      /\ <<>> \in Seq(Prediction) /\ <<>> \in Seq(Observation)
  BY EmptySeq DEF Board
<1>2. Pairs(s.pred_wr[p], s.buf_wr[p]) = n
  BY DEF Pairs
<1>3. /\ Rest(s.pred_wr[p], n) = <<>> /\ Rest(s.buf_wr[p], n) = <<>>
      /\ SubSeq(s.buf_wr[p], 1, n) = s.buf_wr[p]
  BY <1>1, RestAll
<1>4. ~(\E i \in 1 .. n : \/ MetaWrong(s.pred_wr[p][i], s.buf_wr[p][i], p, TRUE)
                          \/ s.pred_wr[p][i].data # s.buf_wr[p][i].data)
  OBVIOUS
<1>5. Committed(s.slv_shadow, s.buf_wr[p]) \in [Port \X (0 .. Keys - 1) -> Data]
  BY <1>1, CommittedType
<1> HIDE DEF n
<1>6. /\ t.pred_wr = [s.pred_wr EXCEPT ![p] = <<>>]
      /\ t.buf_wr = [s.buf_wr EXCEPT ![p] = <<>>]
      /\ t.slv_shadow = Committed(s.slv_shadow, s.buf_wr[p])
      /\ t.mismatch = s.mismatch /\ t.pred_rd = s.pred_rd /\ t.buf_rd = s.buf_rd
  BY <1>1, <1>3, <1>4 DEF wr_hits, Board
<1>7. /\ DOMAIN t = {"pred_wr", "pred_rd", "buf_wr", "buf_rd", "slv_shadow", "mismatch"}
      /\ t = [f \in DOMAIN t |-> t[f]]
  BY DEF wr_hits, Board
<1>8. t \in Board
  <2> HIDE DEF t
  <2>1. /\ t.pred_wr \in [Port -> Seq(Prediction)] /\ t.pred_rd \in [Port -> Seq(Prediction)]
        /\ t.buf_wr \in [Port -> Seq(Observation)] /\ t.buf_rd \in [Port -> Seq(Observation)]
        /\ t.slv_shadow \in [Port \X (0 .. Keys - 1) -> Data] /\ t.mismatch \in BOOLEAN
    BY <1>1, <1>5, <1>6
  <2>. QED BY <1>7, <2>1, IsBoard
<1>. QED BY <1>2, <1>6, <1>8 DEF reconcile_wr_port

LEMMA ReadsMatch ==
    ASSUME NEW s \in Board, NEW p \in Port, Len(s.pred_rd[p]) = Len(s.buf_rd[p]),
           \A i \in 1 .. Len(s.buf_rd[p]) :
               /\ ~MetaWrong(s.pred_rd[p][i], s.buf_rd[p][i], p, FALSE)
               /\ s.pred_rd[p][i].data = s.buf_rd[p][i].data
    PROVE  LET t == reconcile_rd_port(s, p)
           IN  /\ t \in Board
               /\ t.pred_rd = [s.pred_rd EXCEPT ![p] = <<>>]
               /\ t.buf_rd = [s.buf_rd EXCEPT ![p] = <<>>]
               /\ t.slv_shadow = s.slv_shadow
               /\ t.mismatch = s.mismatch /\ t.pred_wr = s.pred_wr /\ t.buf_wr = s.buf_wr
<1> DEFINE n == Len(s.buf_rd[p])
           t == rd_hits(s, p, n)
<1>1. /\ s.pred_rd[p] \in Seq(Prediction) /\ s.buf_rd[p] \in Seq(Observation)
      /\ s.pred_wr \in [Port -> Seq(Prediction)] /\ s.buf_wr \in [Port -> Seq(Observation)]
      /\ s.slv_shadow \in [Port \X (0 .. Keys - 1) -> Data] /\ s.mismatch \in BOOLEAN
      /\ s.pred_rd \in [Port -> Seq(Prediction)] /\ s.buf_rd \in [Port -> Seq(Observation)]
      /\ <<>> \in Seq(Prediction) /\ <<>> \in Seq(Observation)
  BY EmptySeq DEF Board
<1>2. Pairs(s.pred_rd[p], s.buf_rd[p]) = n
  BY DEF Pairs
<1>3. Rest(s.pred_rd[p], n) = <<>> /\ Rest(s.buf_rd[p], n) = <<>>
  BY <1>1, RestAll
<1>4. ~(\E i \in 1 .. n : \/ MetaWrong(s.pred_rd[p][i], s.buf_rd[p][i], p, FALSE)
                          \/ ~s.buf_rd[p][i].err
                             /\ s.pred_rd[p][i].data # s.buf_rd[p][i].data)
  OBVIOUS
<1> HIDE DEF n
<1>5. /\ t.pred_rd = [s.pred_rd EXCEPT ![p] = <<>>]
      /\ t.buf_rd = [s.buf_rd EXCEPT ![p] = <<>>] /\ t.slv_shadow = s.slv_shadow
      /\ t.mismatch = s.mismatch /\ t.pred_wr = s.pred_wr /\ t.buf_wr = s.buf_wr
  BY <1>1, <1>3, <1>4 DEF rd_hits, Board
<1>6. /\ DOMAIN t = {"pred_wr", "pred_rd", "buf_wr", "buf_rd", "slv_shadow", "mismatch"}
      /\ t = [f \in DOMAIN t |-> t[f]]
  BY DEF rd_hits, Board
<1>7. t \in Board
  <2> HIDE DEF t
  <2>1. /\ t.pred_wr \in [Port -> Seq(Prediction)] /\ t.pred_rd \in [Port -> Seq(Prediction)]
        /\ t.buf_wr \in [Port -> Seq(Observation)] /\ t.buf_rd \in [Port -> Seq(Observation)]
        /\ t.slv_shadow \in [Port \X (0 .. Keys - 1) -> Data] /\ t.mismatch \in BOOLEAN
    BY <1>1, <1>5
  <2>. QED BY <1>6, <2>1, IsBoard
<1>. QED BY <1>2, <1>5, <1>7 DEF reconcile_rd_port

----------------------------------------------------------------------------
(* What the scoreboard does with a report.                                 *)

\* Nothing is predicted yet for an observation: it is queued.
LEMMA Ingested ==
    ASSUME NEW s \in Board, s.pred_wr = NoQueue, s.pred_rd = NoQueue, NEW o \in Observation
    PROVE  LET t == ingest_apb(s, o)
           IN  /\ t \in Board /\ t.pred_wr = NoQueue /\ t.pred_rd = NoQueue
               /\ t.buf_wr = IF o.write THEN [s.buf_wr EXCEPT ![o.port] = Append(@, o)]
                             ELSE s.buf_wr
               /\ t.buf_rd = IF o.write THEN s.buf_rd
                             ELSE [s.buf_rd EXCEPT ![o.port] = Append(@, o)]
               /\ t.slv_shadow = s.slv_shadow /\ t.mismatch = s.mismatch
<1> DEFINE wr == [s EXCEPT !.buf_wr[o.port] = Append(@, o)]
           rdd == [s EXCEPT !.buf_rd[o.port] = Append(@, o)]
<1>1. /\ o.port \in Port /\ o.write \in BOOLEAN
      /\ s.pred_wr \in [Port -> Seq(Prediction)] /\ s.pred_rd \in [Port -> Seq(Prediction)]
      /\ s.buf_wr \in [Port -> Seq(Observation)] /\ s.buf_rd \in [Port -> Seq(Observation)]
      /\ s.slv_shadow \in [Port \X (0 .. Keys - 1) -> Data] /\ s.mismatch \in BOOLEAN
  BY DEF Board, Observation
<1>2. /\ wr.pred_wr = s.pred_wr /\ wr.pred_rd = s.pred_rd /\ wr.buf_rd = s.buf_rd
      /\ wr.buf_wr = [s.buf_wr EXCEPT ![o.port] = Append(@, o)]
      /\ wr.slv_shadow = s.slv_shadow /\ wr.mismatch = s.mismatch
      /\ rdd.pred_wr = s.pred_wr /\ rdd.pred_rd = s.pred_rd /\ rdd.buf_wr = s.buf_wr
      /\ rdd.buf_rd = [s.buf_rd EXCEPT ![o.port] = Append(@, o)]
      /\ rdd.slv_shadow = s.slv_shadow /\ rdd.mismatch = s.mismatch
  BY DEF Board
<1>3. /\ [s.buf_wr EXCEPT ![o.port] = Append(@, o)] \in [Port -> Seq(Observation)]
      /\ [s.buf_rd EXCEPT ![o.port] = Append(@, o)] \in [Port -> Seq(Observation)]
  <2>1. /\ s.buf_wr[o.port] \in Seq(Observation) /\ s.buf_rd[o.port] \in Seq(Observation)
    BY <1>1
  <2>2. /\ Append(s.buf_wr[o.port], o) \in Seq(Observation)
        /\ Append(s.buf_rd[o.port], o) \in Seq(Observation)
    BY <2>1, AppendProperties
  <2>. QED BY <1>1, <2>2
<1>4. /\ wr = [f \in {"pred_wr", "pred_rd", "buf_wr", "buf_rd", "slv_shadow", "mismatch"} |->
                 wr[f]]
      /\ rdd = [f \in {"pred_wr", "pred_rd", "buf_wr", "buf_rd", "slv_shadow", "mismatch"} |->
                 rdd[f]]
  BY DEF Board
<1>5. wr \in Board /\ rdd \in Board
  <2> HIDE DEF wr, rdd
  <2>1. wr \in Board
    BY <1>1, <1>2, <1>3, <1>4, IsBoard
  <2>2. rdd \in Board
    BY <1>1, <1>2, <1>3, <1>4, IsBoard
  <2>. QED BY <2>1, <2>2
<1>6. ingest_apb(s, o) = IF o.write THEN reconcile_wr_port(wr, o.port)
                         ELSE reconcile_rd_port(rdd, o.port)
  BY DEF ingest_apb
<1> HIDE DEF wr, rdd
<1>7. ingest_apb(s, o) = IF o.write THEN wr ELSE rdd
  <2>1. wr.pred_wr[o.port] = <<>> /\ rdd.pred_rd[o.port] = <<>>
    BY <1>1, <1>2 DEF NoQueue
  <2>2. reconcile_wr_port(wr, o.port) = wr
    BY <1>1, <1>5, <2>1, WritesWait
  <2>3. reconcile_rd_port(rdd, o.port) = rdd
    BY <1>1, <1>5, <2>1, ReadsWait
  <2>. QED BY <1>6, <2>2, <2>3
<1>. QED BY <1>1, <1>2, <1>5, <1>7

\* The scoreboard's judgement of a request is the bridge's.
LEMMA SameJudgement == ASSUME NEW q \in Request PROVE txn_illegal(q) <=> ~Legal(q)
<1>1. q.burst \in {"FIXED", "INCR", "WRAP"}
  BY DEF Request, Burst
<1>2. txn_illegal(q) <=> param_err(q)
  BY <1>1 DEF txn_illegal, param_err, cross_apb
<1>. QED BY <1>2, RefusesIllegal

Preds(q, isWrite, data) ==
    [i \in 1 .. Len(data) |-> Pred(q, i - 1, isWrite, data[i])]

\* One prediction per beat, all of the port of the address.
Predicts(preds, q, isWrite, data) ==
    /\ preds \in Seq(Prediction) /\ Len(preds) = Len(data)
    /\ \A i \in 1 .. Len(data) :
          /\ preds[i].port = PortOf(q.addr) /\ preds[i].addr = BeatAddr(q, i)
          /\ preds[i].write = isWrite /\ preds[i].data = data[i]

\* The predictions for a legal burst.
LEMMA PredsOf ==
    ASSUME NEW q \in Request, Legal(q), NEW data \in Seq(Data), Len(data) <= q.len + 1,
           NEW isWrite \in BOOLEAN
    PROVE  LET preds == Preds(q, isWrite, data)
           IN  /\ Predicts(preds, q, isWrite, data)
               /\ \A p \in Port : NoQueue[p] \o ForPort(p, preds) =
                                    IF p = PortOf(q.addr) THEN preds ELSE <<>>
<1> DEFINE n == Len(data)
           preds == [i \in 1 .. n |-> Pred(q, i - 1, isWrite, data[i])]
<1>1. n \in Nat /\ n <= q.len + 1 /\ q.len \in Nat /\ q.burst \in {"FIXED", "INCR"}
  BY LenProperties, AddressAssumption DEF Legal, Request
<1> HIDE DEF n
<1>2. ASSUME NEW i \in 1 .. n
      PROVE  /\ bridge_beat_addr(q, i - 1) = BeatAddr(q, i) /\ BeatAddr(q, i) \in Addr
             /\ PortOf(BeatAddr(q, i)) = PortOf(q.addr) /\ PortOf(q.addr) \in Port
             /\ data[i] \in Data
  <2>1. i - 1 \in Nat /\ i - 1 < q.len + 1 /\ (i - 1) + 1 = i
    BY <1>1
  <2>2. /\ PortOf(BeatAddr(q, (i - 1) + 1)) = PortOf(q.addr)
        /\ BeatAddr(q, (i - 1) + 1) \in Addr /\ PortOf(q.addr) \in Port
    BY <2>1, BeatPort
  <2>3. data[i] \in Data
    BY ElementOfSeq DEF n
  <2>4. bridge_beat_addr(q, i - 1) = BeatAddr(q, i)
    BY <1>1 DEF bridge_beat_addr, BeatAddr
  <2>. QED BY <2>1, <2>2, <2>3, <2>4
<1>3. ASSUME NEW i \in 1 .. n
      PROVE  preds[i] = [port |-> PortOf(q.addr), addr |-> BeatAddr(q, i),
                         write |-> isWrite, data |-> data[i]]
  BY <1>2 DEF Pred
<1>4. ASSUME NEW i \in 1 .. n PROVE preds[i] \in Prediction
  <2>1. [port |-> PortOf(q.addr), addr |-> BeatAddr(q, i), write |-> isWrite,
         data |-> data[i]] \in Prediction
    BY <1>2 DEF Prediction
  <2>2. preds[i] = [port |-> PortOf(q.addr), addr |-> BeatAddr(q, i),
                    write |-> isWrite, data |-> data[i]]
    BY <1>3
  <2>. QED BY <2>1, <2>2, Zenon
<1>5. preds \in Seq(Prediction) /\ Len(preds) = n /\ DOMAIN preds = 1 .. n
  <2>1. preds \in [1 .. n -> Prediction]
    BY <1>4
  <2>2. preds \in Seq(Prediction) /\ DOMAIN preds = 1 .. n
    <3> HIDE DEF preds
    <3>. QED BY <1>1, <2>1, SeqDef
  <2>3. Len(preds) = n
    <3> HIDE DEF preds
    <3>. QED BY <1>1, <2>2, LenProperties
  <2>. QED BY <2>2, <2>3
<1>6. ASSUME NEW p \in Port
      PROVE  NoQueue[p] \o ForPort(p, preds) = IF p = PortOf(q.addr) THEN preds ELSE <<>>
  <2> HIDE DEF preds
  <2>1. NoQueue[p] = <<>>
    BY DEF NoQueue
  <2>2. CASE p = PortOf(q.addr)
    <3>1. ForPort(p, preds) = preds
      BY <1>3, <1>5, <2>2, ForPortAll
    <3>. QED BY <1>5, <2>1, <2>2, <3>1, ConcatEmptySeq
  <2>3. CASE p # PortOf(q.addr)
    <3>1. ForPort(p, preds) = <<>>
      BY <1>3, <1>5, <2>3, ForPortNone
    <3>2. <<>> \o <<>> = <<>>
      BY EmptySeq, ConcatEmptySeq
    <3>. QED BY <2>1, <2>3, <3>1, <3>2
  <2>. QED BY <2>2, <2>3
<1>7. ASSUME NEW i \in 1 .. n
      PROVE  /\ preds[i].port = PortOf(q.addr) /\ preds[i].addr = BeatAddr(q, i)
             /\ preds[i].write = isWrite /\ preds[i].data = data[i]
  <2>1. preds[i] = [port |-> PortOf(q.addr), addr |-> BeatAddr(q, i),
                    write |-> isWrite, data |-> data[i]]
    BY <1>3
  <2> DEFINE e == preds[i]
  <2> HIDE DEF e
  <2>2. e = [port |-> PortOf(q.addr), addr |-> BeatAddr(q, i),
             write |-> isWrite, data |-> data[i]]
    BY <2>1 DEF e
  <2>3. e.port = PortOf(q.addr) /\ e.addr = BeatAddr(q, i) /\ e.write = isWrite
        /\ e.data = data[i]
    BY <2>2
  <2>. QED BY <2>3 DEF e
<1>8. preds = Preds(q, isWrite, data)
  BY DEF Preds, n
<1> HIDE DEF preds
<1>. QED BY <1>5, <1>6, <1>7, <1>8 DEF n, Predicts

\* The response a legal or a refused burst should have raises no error.
LEMMA DecerrRight ==
    ASSUME NEW s \in Board, NEW t, t.q \in Request, t.resp = "DECERR" <=> ~Legal(t.q)
    PROVE  CheckDecerr(s, t) = s
<1> DEFINE c == [s EXCEPT !.mismatch = @ \/ ~(txn_illegal(t.q) <=> t.resp = "DECERR")]
<1>1. txn_illegal(t.q) <=> t.resp = "DECERR"
  BY SameJudgement
<1>2. s.mismatch \in BOOLEAN /\ c.mismatch = s.mismatch
  BY <1>1 DEF Board
<1>3. /\ c.pred_wr = s.pred_wr /\ c.pred_rd = s.pred_rd /\ c.buf_wr = s.buf_wr
      /\ c.buf_rd = s.buf_rd /\ c.slv_shadow = s.slv_shadow
  BY DEF Board
<1>4. /\ DOMAIN c = DOMAIN s
      /\ c = [f \in DOMAIN s |-> c[f]] /\ s = [f \in DOMAIN s |-> s[f]]
      /\ DOMAIN s = {"pred_wr", "pred_rd", "buf_wr", "buf_rd", "slv_shadow", "mismatch"}
  BY DEF Board
<1>5. c = s
  <2> HIDE DEF c
  <2>. QED BY <1>2, <1>3, <1>4
<1>. QED BY <1>5 DEF CheckDecerr

\* Queueing predictions leaves the rest of the scoreboard alone.
LEMMA QueuedWrites ==
    ASSUME NEW s \in Board, NEW f \in [Port -> Seq(Prediction)]
    PROVE  LET t == [s EXCEPT !.pred_wr = f]
           IN  /\ t \in Board /\ t.pred_wr = f /\ t.pred_rd = s.pred_rd
               /\ t.buf_wr = s.buf_wr /\ t.buf_rd = s.buf_rd
               /\ t.slv_shadow = s.slv_shadow /\ t.mismatch = s.mismatch
<1> DEFINE t == [s EXCEPT !.pred_wr = f]
<1>1. /\ t.pred_wr = f /\ t.pred_rd = s.pred_rd
      /\ t.buf_wr = s.buf_wr /\ t.buf_rd = s.buf_rd
      /\ t.slv_shadow = s.slv_shadow /\ t.mismatch = s.mismatch
      /\ t = [n \in {"pred_wr", "pred_rd", "buf_wr", "buf_rd", "slv_shadow", "mismatch"}
               |-> t[n]]
  BY DEF Board
<1>2. /\ s.pred_rd \in [Port -> Seq(Prediction)]
      /\ s.buf_wr \in [Port -> Seq(Observation)] /\ s.buf_rd \in [Port -> Seq(Observation)]
      /\ s.slv_shadow \in [Port \X (0 .. Keys - 1) -> Data] /\ s.mismatch \in BOOLEAN
  BY DEF Board
<1> HIDE DEF t
<1>3. t \in Board
  BY <1>1, <1>2, IsBoard
<1>. QED BY <1>1, <1>3 DEF t

LEMMA QueuedReads ==
    ASSUME NEW s \in Board, NEW f \in [Port -> Seq(Prediction)]
    PROVE  LET t == [s EXCEPT !.pred_rd = f]
           IN  /\ t \in Board /\ t.pred_rd = f /\ t.pred_wr = s.pred_wr
               /\ t.buf_wr = s.buf_wr /\ t.buf_rd = s.buf_rd
               /\ t.slv_shadow = s.slv_shadow /\ t.mismatch = s.mismatch
<1> DEFINE t == [s EXCEPT !.pred_rd = f]
<1>1. /\ t.pred_rd = f /\ t.pred_wr = s.pred_wr
      /\ t.buf_wr = s.buf_wr /\ t.buf_rd = s.buf_rd
      /\ t.slv_shadow = s.slv_shadow /\ t.mismatch = s.mismatch
      /\ t = [n \in {"pred_wr", "pred_rd", "buf_wr", "buf_rd", "slv_shadow", "mismatch"}
               |-> t[n]]
  BY DEF Board
<1>2. /\ s.pred_wr \in [Port -> Seq(Prediction)]
      /\ s.buf_wr \in [Port -> Seq(Observation)] /\ s.buf_rd \in [Port -> Seq(Observation)]
      /\ s.slv_shadow \in [Port \X (0 .. Keys - 1) -> Data] /\ s.mismatch \in BOOLEAN
  BY DEF Board
<1> HIDE DEF t
<1>3. t \in Board
  BY <1>1, <1>2, IsBoard
<1>. QED BY <1>1, <1>3 DEF t

\* Both ports in turn.
LEMMA BothWrites ==
    ASSUME NEW s \in Board,
           \A p \in Port :
               /\ Len(s.pred_wr[p]) = Len(s.buf_wr[p])
               /\ \A i \in 1 .. Len(s.buf_wr[p]) :
                     /\ ~MetaWrong(s.pred_wr[p][i], s.buf_wr[p][i], p, TRUE)
                     /\ s.pred_wr[p][i].data = s.buf_wr[p][i].data
                     /\ s.buf_wr[p][i].port = p
    PROVE  LET t == reconcile_wr_port(reconcile_wr_port(s, 0), 1)
           IN  /\ t \in Board /\ t.pred_wr = NoQueue /\ t.buf_wr = NoQueue
               /\ \A p \in Port, i \in 0 .. Keys - 1 :
                     t.slv_shadow[<<p, i>>] = Committed(s.slv_shadow, s.buf_wr[p])[<<p, i>>]
               /\ t.mismatch = s.mismatch /\ t.pred_rd = s.pred_rd /\ t.buf_rd = s.buf_rd
<1> DEFINE u == reconcile_wr_port(s, 0)
           t == reconcile_wr_port(u, 1)
<1>1. /\ u \in Board
      /\ u.pred_wr = [s.pred_wr EXCEPT ![0] = <<>>]
      /\ u.buf_wr = [s.buf_wr EXCEPT ![0] = <<>>]
      /\ u.slv_shadow = Committed(s.slv_shadow, s.buf_wr[0])
      /\ u.mismatch = s.mismatch /\ u.pred_rd = s.pred_rd /\ u.buf_rd = s.buf_rd
  BY WritesMatch DEF Port
<1>2. /\ s.pred_wr \in [Port -> Seq(Prediction)] /\ s.buf_wr \in [Port -> Seq(Observation)]
      /\ s.slv_shadow \in [Port \X (0 .. Keys - 1) -> Data]
      /\ s.buf_wr[0] \in Seq(Observation) /\ s.buf_wr[1] \in Seq(Observation)
  BY DEF Board, Port
<1> HIDE DEF u
<1>3. u.pred_wr[1] = s.pred_wr[1] /\ u.buf_wr[1] = s.buf_wr[1]
  BY <1>1, <1>2 DEF Port
<1>4. /\ t \in Board
      /\ t.pred_wr = [u.pred_wr EXCEPT ![1] = <<>>]
      /\ t.buf_wr = [u.buf_wr EXCEPT ![1] = <<>>]
      /\ t.slv_shadow = Committed(u.slv_shadow, u.buf_wr[1])
      /\ t.mismatch = u.mismatch /\ t.pred_rd = u.pred_rd /\ t.buf_rd = u.buf_rd
  <2>1. 1 \in Port /\ Len(u.pred_wr[1]) = Len(u.buf_wr[1])
    BY <1>3 DEF Port
  <2>2. \A i \in 1 .. Len(u.buf_wr[1]) :
            /\ ~MetaWrong(u.pred_wr[1][i], u.buf_wr[1][i], 1, TRUE)
            /\ u.pred_wr[1][i].data = u.buf_wr[1][i].data
    <3> DEFINE xs == s.pred_wr[1]
               ys == s.buf_wr[1]
    <3>1. \A i \in 1 .. Len(ys) : /\ ~MetaWrong(xs[i], ys[i], 1, TRUE)
                                  /\ xs[i].data = ys[i].data
      BY <2>1
    <3>2. u.pred_wr[1] = xs /\ u.buf_wr[1] = ys
      BY <1>3
    <3> HIDE DEF xs, ys
    <3>. QED BY <3>1, <3>2
  <2>. QED BY <1>1, <2>1, <2>2, WritesMatch
<1> HIDE DEF t
<1>5. t.pred_wr = NoQueue /\ t.buf_wr = NoQueue
  BY <1>1, <1>2, <1>4 DEF NoQueue, Port
<1> DEFINE S == Port \X (0 .. Keys - 1)
           sh == s.slv_shadow
           mid == u.slv_shadow
<1>6. sh \in [S -> Data] /\ mid \in [S -> Data]
  BY <1>1, <1>2 DEF Board
<1>7. /\ \A j \in DOMAIN s.buf_wr[0] : s.buf_wr[0][j].port = 0
      /\ \A j \in DOMAIN s.buf_wr[1] : s.buf_wr[1][j].port = 1
      /\ 0 \in Port /\ 1 \in Port
  <2>1. DOMAIN s.buf_wr[0] = 1 .. Len(s.buf_wr[0]) /\ DOMAIN s.buf_wr[1] = 1 .. Len(s.buf_wr[1])
    BY <1>2, LenProperties
  <2>. QED BY <2>1 DEF Port
<1>8. ASSUME NEW i \in 0 .. Keys - 1
      PROVE  t.slv_shadow[<<0, i>>] = Committed(sh, s.buf_wr[0])[<<0, i>>]
  <2>1. Committed(mid, s.buf_wr[1])[<<0, i>>] = mid[<<0, i>>]
    <3> DEFINE obs == s.buf_wr[1]
    <3>1. /\ obs \in Seq(Observation) /\ \A j \in DOMAIN obs : obs[j].port = 1
          /\ mid \in [Port \X (0 .. Keys - 1) -> Data] /\ 0 # 1
      BY <1>2, <1>6, <1>7
    <3> HIDE DEF mid, obs
    <3>2. Committed(mid, obs)[<<0, i>>] = mid[<<0, i>>]
      BY <1>7, <3>1, CommittedElsewhere
    <3>. QED BY <3>2 DEF obs, mid
  <2>. QED BY <1>1, <1>3, <1>4, <2>1
<1>9. ASSUME NEW i \in 0 .. Keys - 1
      PROVE  t.slv_shadow[<<1, i>>] = Committed(sh, s.buf_wr[1])[<<1, i>>]
  <2>1. mid[<<1, i>>] = sh[<<1, i>>]
    <3>1. Committed(sh, s.buf_wr[0])[<<1, i>>] = sh[<<1, i>>]
      <4> DEFINE obs == s.buf_wr[0]
      <4>1. /\ obs \in Seq(Observation) /\ \A j \in DOMAIN obs : obs[j].port = 0
            /\ sh \in [Port \X (0 .. Keys - 1) -> Data] /\ 0 # 1
        BY <1>2, <1>6, <1>7
      <4> HIDE DEF sh, obs
      <4>2. Committed(sh, obs)[<<1, i>>] = sh[<<1, i>>]
        BY <1>7, <4>1, CommittedElsewhere
      <4>. QED BY <4>2 DEF obs, sh
    <3>. QED BY <1>1, <3>1
  <2> DEFINE k == <<1, i>>
  <2>2. k \in S
    BY DEF Port
  <2> HIDE DEF k, S, sh, mid
  <2>3. /\ Committed(mid, s.buf_wr[1])[k] =
             IF Hits(s.buf_wr[1], k) = {} THEN mid[k]
             ELSE s.buf_wr[1][LastOf(Hits(s.buf_wr[1], k))].data
        /\ Committed(sh, s.buf_wr[1])[k] =
             IF Hits(s.buf_wr[1], k) = {} THEN sh[k]
             ELSE s.buf_wr[1][LastOf(Hits(s.buf_wr[1], k))].data
    BY <1>6, <2>2, CommittedAt
  <2>. QED BY <1>3, <1>4, <2>1, <2>3 DEF k, mid
<1>. QED BY <1>1, <1>4, <1>5, <1>8, <1>9 DEF Port, t, u

LEMMA BothReads ==
    ASSUME NEW s \in Board,
           \A p \in Port :
               /\ Len(s.pred_rd[p]) = Len(s.buf_rd[p])
               /\ \A i \in 1 .. Len(s.buf_rd[p]) :
                     /\ ~MetaWrong(s.pred_rd[p][i], s.buf_rd[p][i], p, FALSE)
                     /\ s.pred_rd[p][i].data = s.buf_rd[p][i].data
    PROVE  LET t == reconcile_rd_port(reconcile_rd_port(s, 0), 1)
           IN  /\ t \in Board /\ t.pred_rd = NoQueue /\ t.buf_rd = NoQueue
               /\ t.slv_shadow = s.slv_shadow
               /\ t.mismatch = s.mismatch /\ t.pred_wr = s.pred_wr /\ t.buf_wr = s.buf_wr
<1> DEFINE u == reconcile_rd_port(s, 0)
           t == reconcile_rd_port(u, 1)
<1>1. /\ u \in Board
      /\ u.pred_rd = [s.pred_rd EXCEPT ![0] = <<>>]
      /\ u.buf_rd = [s.buf_rd EXCEPT ![0] = <<>>] /\ u.slv_shadow = s.slv_shadow
      /\ u.mismatch = s.mismatch /\ u.pred_wr = s.pred_wr /\ u.buf_wr = s.buf_wr
  BY ReadsMatch DEF Port
<1>2. s.pred_rd \in [Port -> Seq(Prediction)] /\ s.buf_rd \in [Port -> Seq(Observation)]
  BY DEF Board
<1> HIDE DEF u
<1>3. u.pred_rd[1] = s.pred_rd[1] /\ u.buf_rd[1] = s.buf_rd[1]
  BY <1>1, <1>2 DEF Port
<1>4. /\ t \in Board
      /\ t.pred_rd = [u.pred_rd EXCEPT ![1] = <<>>]
      /\ t.buf_rd = [u.buf_rd EXCEPT ![1] = <<>>] /\ t.slv_shadow = u.slv_shadow
      /\ t.mismatch = u.mismatch /\ t.pred_wr = u.pred_wr /\ t.buf_wr = u.buf_wr
  <2>1. 1 \in Port /\ Len(u.pred_rd[1]) = Len(u.buf_rd[1])
    BY <1>3 DEF Port
  <2>2. \A i \in 1 .. Len(u.buf_rd[1]) :
            /\ ~MetaWrong(u.pred_rd[1][i], u.buf_rd[1][i], 1, FALSE)
            /\ u.pred_rd[1][i].data = u.buf_rd[1][i].data
    <3> DEFINE xs == s.pred_rd[1]
               ys == s.buf_rd[1]
    <3>1. \A i \in 1 .. Len(ys) : /\ ~MetaWrong(xs[i], ys[i], 1, FALSE)
                                  /\ xs[i].data = ys[i].data
      BY <2>1
    <3>2. u.pred_rd[1] = xs /\ u.buf_rd[1] = ys
      BY <1>3
    <3> HIDE DEF xs, ys
    <3>. QED BY <3>1, <3>2
  <2>. QED BY <1>1, <2>1, <2>2, ReadsMatch
<1> HIDE DEF t
<1>5. t.pred_rd = NoQueue /\ t.buf_rd = NoQueue
  BY <1>1, <1>2, <1>4 DEF NoQueue, Port
<1>. QED BY <1>1, <1>4, <1>5 DEF t, u

\* What a queue of observations is to the beats of a burst: those of a legal
\* one are all on its port, in order, with the data of the beats.
BeatsSeen(queues, q, isWrite, data) ==
    \A p \in Port :
        /\ Len(queues[p]) = IF Legal(q) /\ p = PortOf(q.addr) THEN Len(data) ELSE 0
        /\ \A i \in 1 .. Len(queues[p]) :
              /\ queues[p][i].port = p /\ queues[p][i].addr = BeatAddr(q, i)
              /\ queues[p][i].write = isWrite /\ queues[p][i].data = data[i]

\* Nothing is seen of a refused one.
LEMMA RefusedUnseen ==
    ASSUME NEW queues \in [Port -> Seq(Observation)], NEW q, ~Legal(q), NEW isWrite, NEW data,
           BeatsSeen(queues, q, isWrite, data)
    PROVE  queues = NoQueue
<1>1. ASSUME NEW p \in Port PROVE queues[p] = <<>>
  <2>1. queues[p] \in Seq(Observation) /\ Len(queues[p]) = 0
    BY DEF BeatsSeen
  <2>. QED BY <2>1, NothingIn
<1>. QED BY <1>1 DEF NoQueue

\* Predictions of a burst against the observations of its beats.
LEMMA PredsFit ==
    ASSUME NEW q \in Request, Legal(q), NEW data \in Seq(Data), Len(data) <= q.len + 1,
           NEW isWrite \in BOOLEAN, NEW queues, BeatsSeen(queues, q, isWrite, data),
           NEW preds, Predicts(preds, q, isWrite, data),
           NEW p \in Port, NEW xs, xs = IF p = PortOf(q.addr) THEN preds ELSE <<>>
    PROVE  /\ Len(xs) = Len(queues[p])
           /\ \A i \in 1 .. Len(queues[p]) : /\ ~MetaWrong(xs[i], queues[p][i], p, isWrite)
                                             /\ xs[i].data = queues[p][i].data
                                             /\ queues[p][i].port = p
<1> DEFINE ys == queues[p]
<1>1. /\ Len(ys) = IF Legal(q) /\ p = PortOf(q.addr) THEN Len(data) ELSE 0
      /\ \A i \in 1 .. Len(ys) : /\ ys[i].port = p /\ ys[i].addr = BeatAddr(q, i)
                                 /\ ys[i].write = isWrite /\ ys[i].data = data[i]
  BY DEF BeatsSeen
<1> HIDE DEF ys
<1>2. CASE p = PortOf(q.addr)
  <2>1. xs = preds /\ Len(ys) = Len(data)
    BY <1>1, <1>2
  <2>2. ASSUME NEW i \in 1 .. Len(ys)
        PROVE  ~MetaWrong(xs[i], ys[i], p, isWrite) /\ xs[i].data = ys[i].data /\ ys[i].port = p
    BY <1>1, <1>2, <2>1 DEF MetaWrong, Predicts
  <2>. QED BY <2>1, <2>2 DEF ys, Predicts
<1>3. CASE p # PortOf(q.addr)
  <2>1. xs = <<>> /\ Len(ys) = 0 /\ Len(<<>>) = 0
    BY <1>1, <1>3, EmptySeq
  <2>. QED BY <2>1 DEF ys
<1>. QED BY <1>2, <1>3

\* t is s without the observed writes, which the shadow has taken over.
WriteSettles(s, t) ==
    /\ t \in Board /\ t.pred_wr = NoQueue /\ t.buf_wr = NoQueue
    /\ \A p \in Port, i \in 0 .. Keys - 1 :
          t.slv_shadow[<<p, i>>] = Committed(s.slv_shadow, s.buf_wr[p])[<<p, i>>]
    /\ t.mismatch = s.mismatch /\ t.pred_rd = s.pred_rd /\ t.buf_rd = s.buf_rd

\* A write report with the data and the response of its own transfers raises
\* no error, empties the queues and brings the shadow up to date.
LEMMA WriteReported ==
    ASSUME NEW s \in Board, s.pred_wr = NoQueue,
           NEW q \in Request, NEW data \in Seq(Data), NEW resp,
           resp = "DECERR" <=> ~Legal(q), Len(data) <= q.len + 1,
           Legal(q) /\ resp # "SLVERR" => Len(data) = q.len + 1,
           BeatsSeen(s.buf_wr, q, TRUE, data)
    PROVE  WriteSettles(s, write_axi_wr(s, [q |-> q, data |-> data, resp |-> resp]))
<1> DEFINE rep == [q |-> q, data |-> data, resp |-> resp]
           yes == TRUE
           preds == Preds(q, yes, data)
           queue == [p \in Port |-> NoQueue[p] \o ForPort(p, preds)]
           queued == [s EXCEPT !.pred_wr = queue]
           t == write_axi_wr(s, rep)
<1> SUFFICES WriteSettles(s, t)
  OBVIOUS
<1>1. CheckDecerr(s, rep) = s /\ (txn_illegal(q) <=> ~Legal(q))
  <2>1. rep.q = q /\ rep.resp = resp
    OBVIOUS
  <2> HIDE DEF rep
  <2>. QED BY <2>1, DecerrRight, SameJudgement
<1>2. /\ s.pred_wr \in [Port -> Seq(Prediction)] /\ s.buf_wr \in [Port -> Seq(Observation)]
      /\ s.slv_shadow \in [Port \X (0 .. Keys - 1) -> Data]
  BY DEF Board
<1>3. t = IF ~Legal(q) THEN s
          ELSE IF resp # "SLVERR" /\ Len(data) # q.len + 1 THEN [s EXCEPT !.mismatch = TRUE]
          ELSE reconcile_wr_port(reconcile_wr_port(queued, 0), 1)
  <2>1. [p \in Port |-> s.pred_wr[p] \o ForPort(p, preds)] = queue
    OBVIOUS
  <2>2. queued = [s EXCEPT !.pred_wr = [p \in Port |-> @[p] \o ForPort(p, preds)]]
    BY <2>1, <1>2 DEF Board
  <2>. QED BY <1>1, <2>2 DEF write_axi_wr, Preds
<1>7. BeatsSeen(s.buf_wr, q, yes, data) /\ yes \in BOOLEAN
  OBVIOUS
<1> HIDE DEF t, yes
<1>4. CASE ~Legal(q)
  <2>1. t = s /\ s.buf_wr = NoQueue
    BY <1>2, <1>3, <1>4, RefusedUnseen
  <2>2. ASSUME NEW p \in Port
        PROVE  Committed(s.slv_shadow, s.buf_wr[p]) = s.slv_shadow
    <3>1. s.buf_wr[p] = <<>>
      BY <2>1 DEF NoQueue
    <3>. QED BY <1>2, <3>1, CommittedNothing
  <2>. QED BY <2>1, <2>2 DEF t, WriteSettles
<1>5. CASE Legal(q)
  <2>1. t = reconcile_wr_port(reconcile_wr_port(queued, 0), 1)
    BY <1>3, <1>5
  <2>2. /\ Predicts(preds, q, yes, data)
        /\ \A p \in Port : NoQueue[p] \o ForPort(p, preds) =
                             IF p = PortOf(q.addr) THEN preds ELSE <<>>
    BY <1>5, <1>7, PredsOf
  <2> HIDE DEF preds
  <2>3. queue \in [Port -> Seq(Prediction)]
    <3>1. <<>> \in Seq(Prediction)
      BY EmptySeq
    <3>. QED BY <2>2, <3>1 DEF Predicts
  <2>4. \A p \in Port : queue[p] = IF p = PortOf(q.addr) THEN preds ELSE <<>>
    BY <2>2
  <2> HIDE DEF queue
  <2>5. /\ queued \in Board /\ queued.pred_wr = queue /\ queued.pred_rd = s.pred_rd
        /\ queued.buf_wr = s.buf_wr /\ queued.buf_rd = s.buf_rd
        /\ queued.slv_shadow = s.slv_shadow /\ queued.mismatch = s.mismatch
    BY <2>3, QueuedWrites
  <2> HIDE DEF queued
  <2>6. ASSUME NEW p \in Port
        PROVE  /\ Len(queued.pred_wr[p]) = Len(queued.buf_wr[p])
               /\ \A i \in 1 .. Len(queued.buf_wr[p]) :
                     /\ ~MetaWrong(queued.pred_wr[p][i], queued.buf_wr[p][i], p, yes)
                     /\ queued.pred_wr[p][i].data = queued.buf_wr[p][i].data
                     /\ queued.buf_wr[p][i].port = p
    <3> DEFINE xs == queue[p]
               qs == s.buf_wr
    <3>1. xs = IF p = PortOf(q.addr) THEN preds ELSE <<>>
      BY <2>4
    <3> HIDE DEF xs, qs
    <3>2. BeatsSeen(qs, q, yes, data)
      BY <1>7 DEF qs
    <3>3. /\ Len(xs) = Len(qs[p])
          /\ \A i \in 1 .. Len(qs[p]) : /\ ~MetaWrong(xs[i], qs[p][i], p, yes)
                                        /\ xs[i].data = qs[p][i].data
                                        /\ qs[p][i].port = p
      <4>1. /\ Predicts(preds, q, yes, data) /\ BeatsSeen(qs, q, yes, data) /\ Legal(q)
            /\ Len(data) <= q.len + 1 /\ yes \in BOOLEAN
            /\ xs = IF p = PortOf(q.addr) THEN preds ELSE <<>>
        BY <1>5, <1>7, <2>2, <3>1, <3>2
      <4>. QED BY <4>1, PredsFit
    <3>4. queued.pred_wr[p] = xs /\ queued.buf_wr = qs
      BY <2>5 DEF xs, qs
    <3>. QED BY <3>3, <3>4
  <2>7. /\ t \in Board /\ t.pred_wr = NoQueue /\ t.buf_wr = NoQueue
        /\ \A p \in Port, i \in 0 .. Keys - 1 :
              t.slv_shadow[<<p, i>>] = Committed(queued.slv_shadow, queued.buf_wr[p])[<<p, i>>]
        /\ t.mismatch = queued.mismatch /\ t.pred_rd = queued.pred_rd
        /\ t.buf_rd = queued.buf_rd
    BY <2>1, <2>5, <2>6, BothWrites DEF yes
  <2>. QED BY <2>5, <2>7 DEF t, WriteSettles
<1>. QED BY <1>4, <1>5

\* A check that holds leaves the scoreboard as it is.
LEMMA NotFlagged ==
    ASSUME NEW s \in Board, NEW wrong \in BOOLEAN, ~wrong
    PROVE  [s EXCEPT !.mismatch = @ \/ wrong] = s
<1> DEFINE c == [s EXCEPT !.mismatch = @ \/ wrong]
<1>1. s.mismatch \in BOOLEAN /\ c.mismatch = s.mismatch
  BY DEF Board
<1>2. /\ c.pred_wr = s.pred_wr /\ c.pred_rd = s.pred_rd /\ c.buf_wr = s.buf_wr
      /\ c.buf_rd = s.buf_rd /\ c.slv_shadow = s.slv_shadow
  BY DEF Board
<1>3. /\ DOMAIN c = DOMAIN s
      /\ c = [f \in DOMAIN s |-> c[f]] /\ s = [f \in DOMAIN s |-> s[f]]
      /\ DOMAIN s = {"pred_wr", "pred_rd", "buf_wr", "buf_rd", "slv_shadow", "mismatch"}
  BY DEF Board
<1> HIDE DEF c
<1>4. c = s
  BY <1>1, <1>2, <1>3
<1>. QED BY <1>4 DEF c

\* Both compute the same addresses.
LEMMA SameAddress ==
    ASSUME NEW q \in Request, Legal(q), NEW i \in Nat
    PROVE  bridge_beat_addr(q, i - 1) = BeatAddr(q, i)
  BY DEF bridge_beat_addr, BeatAddr, Legal

\* t is s without the observed reads.
ReadSettles(s, t) ==
    /\ t \in Board /\ t.pred_rd = NoQueue /\ t.buf_rd = NoQueue
    /\ t.slv_shadow = s.slv_shadow
    /\ t.mismatch = s.mismatch /\ t.pred_wr = s.pred_wr /\ t.buf_wr = s.buf_wr

\* A read report with the words of the shadow, seen on APB as well, raises no
\* error and empties the queues.
LEMMA ReadReported ==
    ASSUME NEW s \in Board, s.pred_rd = NoQueue,
           NEW q \in Request, NEW data \in Seq(Data), NEW resp,
           resp = "DECERR" <=> ~Legal(q), Len(data) = q.len + 1,
           ~Legal(q) => \A i \in 1 .. q.len + 1 : data[i] = Zeros,
           Legal(q) => \A i \in 1 .. q.len + 1 :
              data[i] = s.slv_shadow[ram_key_of(PortOf(BeatAddr(q, i)), BeatAddr(q, i))],
           BeatsSeen(s.buf_rd, q, FALSE, data)
    PROVE  ReadSettles(s, write_axi_rd(s, [q |-> q, data |-> data, resp |-> resp]))
<1> DEFINE rep == [q |-> q, data |-> data, resp |-> resp]
           no == FALSE
           peek(i) == LET aa == bridge_beat_addr(q, i - 1)
                      IN  s.slv_shadow[ram_key_of(PortOf(aa), aa)]
           beats == 1 .. q.len + 1
           wrong == IF ~Legal(q) THEN \E i \in beats : i > Len(data) \/ data[i] # Zeros
                    ELSE \/ Len(data) # q.len + 1
                         \/ \E i \in beats : data[i] # peek(i)
           preds == Preds(q, no, data)
           made == [i \in beats |-> Pred(q, i - 1, no, peek(i))]
           queue == [p \in Port |-> NoQueue[p] \o ForPort(p, preds)]
           queued == [s EXCEPT !.pred_rd = queue]
           t == write_axi_rd(s, rep)
<1> SUFFICES ReadSettles(s, t)
  OBVIOUS
<1>1. CheckDecerr(s, rep) = s /\ (txn_illegal(q) <=> ~Legal(q))
  <2>1. rep.q = q /\ rep.resp = resp
    OBVIOUS
  <2> HIDE DEF rep
  <2>. QED BY <2>1, DecerrRight, SameJudgement
<1>2. /\ s.pred_rd \in [Port -> Seq(Prediction)] /\ s.buf_rd \in [Port -> Seq(Observation)]
      /\ q.len + 1 \in Nat
  BY AddressAssumption DEF Board, Request
<1>3. ASSUME Legal(q), NEW i \in beats PROVE data[i] = peek(i)
  <2>1. bridge_beat_addr(q, i - 1) = BeatAddr(q, i)
    BY <1>2, <1>3, SameAddress
  <2>. QED BY <1>3, <2>1
<1>4. ~wrong /\ wrong \in BOOLEAN
  <2> HIDE DEF peek
  <2>. QED BY <1>2, <1>3
<1>5. [s EXCEPT !.mismatch = @ \/ wrong] = s
  <2> HIDE DEF wrong
  <2>. QED BY <1>4, NotFlagged
<1>6. Legal(q) => made = preds
  <2> HIDE DEF peek
  <2>. QED BY <1>3 DEF Preds
<1>7. t = IF ~Legal(q) THEN s
          ELSE reconcile_rd_port(reconcile_rd_port(
                 [s EXCEPT !.pred_rd = [p \in Port |-> @[p] \o ForPort(p, made)]], 0), 1)
  <2>1. t = IF ~Legal(q) \/ Len(data) # q.len + 1 THEN [s EXCEPT !.mismatch = @ \/ wrong]
            ELSE reconcile_rd_port(reconcile_rd_port(
                   [[s EXCEPT !.mismatch = @ \/ wrong]
                      EXCEPT !.pred_rd = [p \in Port |-> @[p] \o ForPort(p, made)]], 0), 1)
    BY <1>1, Zenon DEF write_axi_rd
  <2> HIDE DEF wrong, made, t
  <2>. QED BY <1>5, <2>1
<1>8. BeatsSeen(s.buf_rd, q, no, data) /\ no \in BOOLEAN
  OBVIOUS
<1> HIDE DEF t, made, no, peek, wrong
<1>9. CASE ~Legal(q)
  <2>1. t = s /\ s.buf_rd = NoQueue
    BY <1>2, <1>7, <1>8, <1>9, RefusedUnseen
  <2>. QED BY <2>1 DEF t, ReadSettles
<1>10. CASE Legal(q)
  <2>1. t = reconcile_rd_port(reconcile_rd_port(queued, 0), 1)
    <3>1. [s EXCEPT !.pred_rd = [p \in Port |-> @[p] \o ForPort(p, made)]] = queued
      BY <1>2, <1>6, <1>10 DEF Board
    <3>. QED BY <1>7, <1>10, <3>1
  <2>2. /\ Predicts(preds, q, no, data)
        /\ \A p \in Port : NoQueue[p] \o ForPort(p, preds) =
                             IF p = PortOf(q.addr) THEN preds ELSE <<>>
    BY <1>2, <1>8, <1>10, PredsOf
  <2> HIDE DEF preds
  <2>3. queue \in [Port -> Seq(Prediction)]
    <3>1. <<>> \in Seq(Prediction)
      BY EmptySeq
    <3>. QED BY <2>2, <3>1 DEF Predicts
  <2>4. \A p \in Port : queue[p] = IF p = PortOf(q.addr) THEN preds ELSE <<>>
    BY <2>2
  <2> HIDE DEF queue
  <2>5. /\ queued \in Board /\ queued.pred_rd = queue /\ queued.pred_wr = s.pred_wr
        /\ queued.buf_wr = s.buf_wr /\ queued.buf_rd = s.buf_rd
        /\ queued.slv_shadow = s.slv_shadow /\ queued.mismatch = s.mismatch
    BY <2>3, QueuedReads
  <2> HIDE DEF queued
  <2>6. ASSUME NEW p \in Port
        PROVE  /\ Len(queued.pred_rd[p]) = Len(queued.buf_rd[p])
               /\ \A i \in 1 .. Len(queued.buf_rd[p]) :
                     /\ ~MetaWrong(queued.pred_rd[p][i], queued.buf_rd[p][i], p, no)
                     /\ queued.pred_rd[p][i].data = queued.buf_rd[p][i].data
    <3> DEFINE xs == queue[p]
               qs == s.buf_rd
    <3>1. xs = IF p = PortOf(q.addr) THEN preds ELSE <<>>
      BY <2>4
    <3> HIDE DEF xs, qs
    <3>2. BeatsSeen(qs, q, no, data) /\ Len(data) <= q.len + 1
      BY <1>2, <1>8 DEF qs
    <3>3. /\ Len(xs) = Len(qs[p])
          /\ \A i \in 1 .. Len(qs[p]) : /\ ~MetaWrong(xs[i], qs[p][i], p, no)
                                        /\ xs[i].data = qs[p][i].data
                                        /\ qs[p][i].port = p
      <4>1. /\ Predicts(preds, q, no, data) /\ BeatsSeen(qs, q, no, data)
            /\ Legal(q) /\ Len(data) <= q.len + 1 /\ no \in BOOLEAN
            /\ xs = IF p = PortOf(q.addr) THEN preds ELSE <<>>
        BY <1>8, <1>10, <2>2, <3>1, <3>2
      <4>. QED BY <4>1, PredsFit
    <3>4. queued.pred_rd[p] = xs /\ queued.buf_rd = qs
      BY <2>5 DEF xs, qs
    <3>. QED BY <3>3, <3>4
  <2>7. /\ t \in Board /\ t.pred_rd = NoQueue /\ t.buf_rd = NoQueue
        /\ t.slv_shadow = queued.slv_shadow /\ t.mismatch = queued.mismatch
        /\ t.pred_wr = queued.pred_wr /\ t.buf_wr = queued.buf_wr
    BY <2>1, <2>5, <2>6, BothReads DEF no
  <2>. QED BY <2>5, <2>7 DEF t, ReadSettles
<1>. QED BY <1>9, <1>10

----------------------------------------------------------------------------
(* What an edge does to the pins and the memories.                         *)

\* The scoreboard's key of an address is the slave's word.
LEMMA KeyOfWord ==
    ASSUME NEW a \in Addr, NEW p
    PROVE  ram_key_of(p, a) = <<p, WordOf(a)>> /\ WordOf(a) \in 0 .. Words - 1
<1>1. a \in Nat /\ BusBytes \in Nat \ {0} /\ Words \in Nat \ {0}
  BY AddressAssumption, MonitorAssumption DEF Addr
<1>2. a \div BusBytes \in Nat
  BY <1>1, Divides
<1>3. (a \div BusBytes) % Words \in 0 .. Words - 1
  BY <1>1, <1>2, Divides
<1>. QED BY <1>3, MirrorAssumption DEF ram_key_of, WordOf

\* A transfer completes exactly when the bridge sees it complete, on the
\* latched port, while no response is offered.
LEMMA DoneAt ==
    ASSUME IInv, NEW in \in BenchInputs
    PROVE  /\ done_at(in) = IF apb_done(in) THEN {axi.sel} ELSE {}
           /\ apb_done(in) => /\ txn_active /\ ~bvalid /\ ~rvalid /\ ~rfifo_valid /\ ~txn_decerr
                              /\ axi \in AxiReg /\ axi.sel \in Port /\ beat_index < beats_total
                              /\ pbus[axi.sel].addr = axi.addr
                              /\ pbus[axi.sel].write = axi.is_write
<1>1. apb_state # "IDLE" => /\ txn_active /\ axi \in AxiReg /\ axi.sel \in Port
                            /\ ~bvalid /\ ~rvalid /\ ~rfifo_valid /\ ~txn_decerr
                            /\ beat_index < beats_total
  BY DEF IInv, OpenInv, TypeOK, ApbInv, AxiReg
<1>2. apb_done(in) => apb_state # "IDLE"
  BY DEF apb_done
<1>3. ASSUME NEW p \in Port PROVE p \in done_at(in) <=> apb_done(in) /\ p = axi.sel
  <2>1. /\ psel[p] <=> apb_state # "IDLE" /\ axi.sel = p
        /\ penable[p] <=> apb_state = "ACCESS" /\ axi.sel = p
    BY DEF IInv, PortInv
  <2>. QED BY <2>1 DEF done_at, apb_done, answer
<1>4. done_at(in) \subseteq Port
  BY DEF done_at
<1>5. apb_done(in) => /\ pbus[axi.sel].addr = axi.addr
                      /\ pbus[axi.sel].write = axi.is_write
  BY <1>1, <1>2 DEF IInv, PortInv
<1>6. done_at(in) = IF apb_done(in) THEN {axi.sel} ELSE {}
  BY <1>1, <1>2, <1>3, <1>4
<1>. QED BY <1>1, <1>2, <1>5, <1>6

\* What the monitor of the port reports.
LEMMA Observed ==
    ASSUME IInv, mem \in [Port -> [0 .. Words - 1 -> Data]], NEW in \in BenchInputs,
           apb_done(in), axi.is_write => pbus[axi.sel].data \in Data
    PROVE  LET o == Transfer(axi.sel, in)
           IN  /\ o \in Observation /\ o.port = axi.sel /\ o.addr = axi.addr
               /\ o.write = axi.is_write
               /\ o.data = IF axi.is_write THEN pbus[axi.sel].data
                           ELSE mem[axi.sel][WordOf(axi.addr)]
               /\ o.err => axi.addr \in ErrAddrs
               /\ ~axi.is_write => answer(in).data = o.data
<1>1. /\ axi \in AxiReg /\ axi.sel \in Port /\ axi.addr \in Addr /\ axi.is_write \in BOOLEAN
      /\ pbus[axi.sel].addr = axi.addr /\ pbus[axi.sel].write = axi.is_write
      /\ pbus[axi.sel] \in Bus
  BY DoneAt DEF AxiReg, IInv, TypeOK
<1> DEFINE p == axi.sel
           ans == in.apb[p]
           d == IF pbus[p].write THEN pbus[p].data ELSE ans.data
<1>2. ans \in Answer /\ ans.data = SlaveData(p) /\ (ans.err => pbus[p].addr \in ErrAddrs)
  BY <1>1, PinAssumption DEF BenchInputs, Inputs
<1>3. SlaveData(p) = mem[p][WordOf(axi.addr)] /\ mem[p][WordOf(axi.addr)] \in Data
  <2>1. axi.addr # X /\ WordOf(axi.addr) \in 0 .. Words - 1
    BY <1>1, MonitorAssumption, KeyOfWord
  <2>. QED BY <1>1, <2>1 DEF SlaveData
<1>4. d \in Data /\ d = IF axi.is_write THEN pbus[p].data ELSE mem[p][WordOf(axi.addr)]
  BY <1>1, <1>2, <1>3
<1>5. ans.err \in BOOLEAN /\ pbus[p].prot \in Nat \cup {X}
  BY <1>1, <1>2 DEF Answer, Bus
<1>6. Transfer(p, in) = [port |-> p, addr |-> axi.addr, prot |-> pbus[p].prot,
                         write |-> axi.is_write, data |-> d, err |-> ans.err]
  BY <1>1 DEF Transfer
<1>7. ~axi.is_write => answer(in).data = d
  BY <1>1 DEF answer
<1> HIDE DEF d, ans
<1> DEFINE o == Transfer(p, in)
<1> HIDE DEF o, p
<1>8. o = [port |-> p, addr |-> axi.addr, prot |-> pbus[p].prot,
           write |-> axi.is_write, data |-> d, err |-> ans.err]
  BY <1>6 DEF o
<1>9. /\ o.port = p /\ o.addr = axi.addr /\ o.write = axi.is_write /\ o.data = d
      /\ o.err = ans.err
  BY <1>8
<1>10. o \in Observation
  BY <1>1, <1>4, <1>5, <1>8 DEF Observation, p
<1>11. ans.err => axi.addr \in ErrAddrs
  BY <1>1, <1>2 DEF ans, p
<1>. QED BY <1>4, <1>7, <1>9, <1>10, <1>11 DEF o, p

\* The memories change only by a write that completes.
LEMMA MemoryAfter ==
    ASSUME IInv, mem \in [Port -> [0 .. Words - 1 -> Data]], NEW in \in BenchInputs,
           SlaveBlock(in)
    PROVE  /\ ~(apb_done(in) /\ axi.is_write) => mem' = mem
           /\ apb_done(in) /\ axi.is_write =>
                 mem' = [mem EXCEPT ![axi.sel] =
                           [mem[axi.sel] EXCEPT ![WordOf(axi.addr)] = pbus[axi.sel].data]]
<1>1. /\ done_at(in) = IF apb_done(in) THEN {axi.sel} ELSE {}
      /\ apb_done(in) => /\ axi.sel \in Port /\ pbus[axi.sel].addr = axi.addr
                         /\ pbus[axi.sel].write = axi.is_write
  BY DoneAt
<1>. QED BY <1>1 DEF SlaveBlock

----------------------------------------------------------------------------
(* The open transaction.                                                   *)

\* The latches after an accepted address, and after an edge.
LEMMA LatchServes ==
    ASSUME IInv, idle_for_new, NEW q \in Request, NEW isWrite \in BOOLEAN, Latch(q, isWrite)
    PROVE  Serves(q)' /\ beat_index' = 0 /\ beats_total' \in Nat
<1>1. /\ axi' \in AxiReg /\ beats_total' = q.len + 1 /\ beats_total' \in Count
      /\ beat_index' = 0
  BY LatchInv DEF Latch
<1>2. /\ axi'.bytes = q.bytes /\ axi'.burst = q.burst /\ axi'.sel = PortOf(q.addr)
      /\ axi'.addr = BeatAddr(q, 0 + 1) /\ (txn_decerr' <=> ~Legal(q))
  BY BeatAddrFirst, RefusesIllegal DEF Latch
<1>3. axi' # X /\ beats_total' \in Nat
  BY <1>1, BurstAssumption DEF AxiReg, Count
<1>. QED BY <1>1, <1>2, <1>3, Zenon DEF Serves

LEMMA EdgeServes ==
    ASSUME IInv, txn_active, NEW q \in Request, Serves(q), NEW in \in BenchInputs, Edge(in)
    PROVE  /\ Serves(q)'
           /\ beat_index' = beat_index + (IF apb_done(in) \/ (w_handshake /\ txn_decerr)
                                          THEN 1 ELSE 0)
<1>1. /\ axi \in AxiReg /\ beat_index \in Count /\ beats_total \in Count /\ beat_index \in Nat
  BY DEF IInv, OpenInv, TypeOK, Count
<1>2. Progress(in)
  BY DEF Edge, TxnBlock, AcceptWrite, AcceptRead, aw_handshake, ar_handshake, AWREADY, ARREADY,
         idle_for_new
<1>3. /\ w_handshake => beat_index < beats_total
      /\ apb_done(in) => beat_index < beats_total /\ ~txn_decerr
  BY DoneAt DEF w_handshake, WREADY
<1>4. beat_index < beats_total => Inc(beat_index) = beat_index + 1
  <2>1. beat_index < beats_total => beat_index < LenMax + 1
    BY <1>1, AddressAssumption DEF Count
  <2>. QED BY <1>1, <2>1, IncExact
<1>5. /\ beat_index' = beat_index + (IF apb_done(in) \/ (w_handshake /\ txn_decerr)
                                     THEN 1 ELSE 0)
      /\ beats_total' = beats_total /\ txn_decerr' = txn_decerr
  BY <1>1, <1>2, <1>3, <1>4 DEF Progress
<1>6. axi' = IF apb_done(in) /\ axi.burst = "INCR"
             THEN [axi EXCEPT !.addr = (@ + axi.bytes) % AddrSpace] ELSE axi
  BY <1>2 DEF Progress
<1>7. /\ axi'.bytes = axi.bytes /\ axi'.burst = axi.burst /\ axi'.sel = axi.sel
      /\ axi'.addr = IF apb_done(in) /\ axi.burst = "INCR"
                     THEN (axi.addr + axi.bytes) % AddrSpace ELSE axi.addr
  BY <1>1, <1>6 DEF AxiReg
<1>8. /\ axi' \in AxiReg /\ axi' # X
  <2>1. axi.addr + axi.bytes \in Nat
    BY <1>1, AddressAssumption DEF AxiReg, Addr
  <2>2. (axi.addr + axi.bytes) % AddrSpace \in Addr
    BY <2>1, AddrWraps
  <2>3. axi' \in AxiReg
    BY <1>1, <1>6, <2>2 DEF AxiReg
  <2>. QED BY <2>3, BurstAssumption
<1>9. ASSUME Legal(q) PROVE axi'.addr = BeatAddr(q, beat_index' + 1)
  <2>1. axi.addr = BeatAddr(q, beat_index + 1) /\ axi.bytes = q.bytes /\ axi.burst = q.burst
        /\ ~txn_decerr
    BY <1>9 DEF Serves
  <2>2. CASE apb_done(in) /\ q.burst = "INCR"
    <3>1. beat_index' = beat_index + 1
      BY <1>5, <2>2
    <3>2. (BeatAddr(q, beat_index + 1) + q.bytes) % AddrSpace = BeatAddr(q, beat_index + 1 + 1)
      BY <1>1, <2>2, BeatAddrNext
    <3>. QED BY <1>7, <2>1, <2>2, <3>1, <3>2
  <2>3. CASE apb_done(in) /\ q.burst # "INCR"
    BY <1>7, <2>1, <2>3 DEF BeatAddr
  <2>4. CASE ~apb_done(in)
    <3>1. beat_index' = beat_index
      BY <1>1, <1>5, <2>1, <2>4
    <3>. QED BY <1>7, <2>1, <2>4, <3>1
  <2>. QED BY <2>2, <2>3, <2>4
<1>10. /\ axi.bytes = q.bytes /\ axi.burst = q.burst /\ axi.sel = PortOf(q.addr)
       /\ beats_total = q.len + 1 /\ (txn_decerr <=> ~Legal(q))
  BY DEF Serves
<1>11. Serves(q)'
  BY <1>5, <1>7, <1>8, <1>9, <1>10, Zenon DEF Serves
<1>. QED BY <1>5, <1>11

\* Before the first beat there is nothing to relate.
LEMMA NewWriteLink ==
    ASSUME NEW q \in AWRequests, Serves(q)', Head(aw_pend') = q, beat_index' = 0,
           apb_state' = "IDLE", beats_total' \in Nat, ~w_done', ~bvalid', ~b_late',
           wd_pend' = <<>>, w_burst' = <<>>, sb'.buf_wr = NoQueue
    PROVE  WriteLink'
<1>1. Len(<<>>) = 0 /\ DOMAIN <<>> = {}
  BY EmptySeq
<1>2. \A p \in Port : NoQueue[p] = <<>>
  BY DEF NoQueue
<1>3. Buffered(sb.buf_wr, q, TRUE, beat_index)'
  BY <1>1, <1>2 DEF Buffered
<1>4. Captured' = <<>> /\ Taken' = 0
  BY DEF Captured, Taken
<1>5. WriteData'
  BY <1>1, <1>2, <1>4 DEF WriteData
<1>. QED BY <1>3, <1>5, Zenon DEF WriteLink

LEMMA NewReadLink ==
    ASSUME NEW q \in ARRequests, Serves(q)', rd' = [q |-> q, data |-> <<>>], beat_index' = 0,
           ~rfifo_valid', ~rvalid', sb'.buf_rd = NoQueue
    PROVE  ReadLink'
<1>1. Len(<<>>) = 0 /\ DOMAIN <<>> = {}
  BY EmptySeq
<1>2. (\A p \in Port : NoQueue[p] = <<>>) /\ rd'.q = q /\ rd'.data = <<>>
  BY DEF NoQueue
<1>3. Buffered(sb.buf_rd, q, FALSE, beat_index)'
  BY <1>1, <1>2 DEF Buffered
<1>4. ReadData(q)'
  BY <1>1, <1>2 DEF ReadData
<1>. QED BY <1>2, <1>3, <1>4, Zenon DEF ReadLink

\* While only the master moves.
LEMMA QuietMirror ==
    MirrorInv /\ UNCHANGED <<txnRegs, apbRegs, bRegs, rRegs, bench>> => MirrorInv'
<1> SUFFICES ASSUME MirrorInv, UNCHANGED <<txnRegs, apbRegs, bRegs, rRegs, bench>>
             PROVE  MirrorInv'
  OBVIOUS
<1> USE DEF txnRegs, apbRegs, apbPins, bRegs, rRegs, bench
<1>1. WriteHeld' = WriteHeld /\ OpenRead' = OpenRead /\ Captured' = Captured /\ Taken' = Taken
  BY DEF WriteHeld, OpenWrite, OpenRead, Captured, Taken
<1>2. BoardInv'
  BY <1>1 DEF MirrorInv, BoardInv
<1>3. WriteLink'
  BY <1>1 DEF MirrorInv, WriteLink, Serves, Buffered, WriteData, bresp
<1>4. ReadLink'
  BY <1>1 DEF MirrorInv, ReadLink, Serves, Buffered, ReadData, Word
<1>5. ShadowInv'
  <2>1. mem' = mem /\ sb' = sb /\ ShadowInv
    BY DEF MirrorInv
  <2>. QED BY <2>1, Zenon DEF ShadowInv
<1>. QED BY <1>2, <1>3, <1>4, <1>5 DEF MirrorInv

----------------------------------------------------------------------------
(* What a report leaves behind.                                            *)

LEMMA CapturedType ==
    ASSUME MonitorInv PROVE Captured \in Seq(Data) /\ Len(Captured) \in Nat
<1>1. w_burst \in Seq(Data) /\ wd_pend \in Seq(Seq(Data))
  BY DEF MonitorInv, WriteMonitorInv
<1>2. wd_pend # <<>> => Head(wd_pend) \in Seq(Data)
  BY <1>1, HeadTailProperties
<1>3. Captured \in Seq(Data)
  BY <1>1, <1>2 DEF Captured
<1>. QED BY <1>3, LenProperties

\* With no observed write to commit the shadow is the memory.
LEMMA ShadowNow ==
    ASSUME NEW s \in Board, s.buf_wr = NoQueue, NEW p \in Port
    PROVE  Committed(s.slv_shadow, s.buf_wr[p]) = s.slv_shadow
<1>1. s.buf_wr[p] = <<>> /\ s.slv_shadow \in [Port \X (0 .. Keys - 1) -> Data]
  BY DEF Board, NoQueue
<1>. QED BY <1>1, CommittedNothing

\* The observations and the captured beats of a write are what its report is
\* compared with.
LEMMA WriteSeen ==
    ASSUME IInv, MonitorInv, MirrorInv, WriteHeld, apb_state = "IDLE", bvalid \/ b_late,
           NEW q, q = Head(aw_pend)
    PROVE  /\ BeatsSeen(sb.buf_wr, q, TRUE, Captured) /\ q \in Request
           /\ Len(Captured) <= q.len + 1 /\ (b.resp = "DECERR" <=> ~Legal(q))
           /\ Legal(q) /\ b.resp # "SLVERR" => Len(Captured) = q.len + 1
<1>1. /\ q \in AWRequests /\ q \in Request /\ Serves(q) /\ Buffered(sb.buf_wr, q, TRUE, beat_index)
      /\ WriteData
  BY PinAssumption DEF MirrorInv, WriteLink
<1>2. /\ Len(Captured) = beat_index /\ Len(Captured) <= beats_total /\ beats_total = q.len + 1
      /\ b.resp = bresp /\ w_done /\ (wlast_err \/ beat_index = beats_total)
  <2>1. Taken = beat_index
    BY DEF Taken, IInv, TypeOK, Count
  <2>. QED BY <1>1, <2>1 DEF WriteData, Serves
<1>3. BeatsSeen(sb.buf_wr, q, TRUE, Captured)
  <2>1. ASSUME NEW p \in Port
        PROVE  /\ Len(sb.buf_wr[p]) = IF Legal(q) /\ p = PortOf(q.addr)
                                      THEN Len(Captured) ELSE 0
               /\ \A i \in 1 .. Len(sb.buf_wr[p]) :
                     /\ sb.buf_wr[p][i].port = p /\ sb.buf_wr[p][i].addr = BeatAddr(q, i)
                     /\ sb.buf_wr[p][i].write = TRUE
                     /\ sb.buf_wr[p][i].data = Captured[i]
    <3>1. sb.buf_wr[p] \in Seq(Observation)
      BY DEF MirrorInv, BoardInv, Board
    <3>2. DOMAIN sb.buf_wr[p] = 1 .. Len(sb.buf_wr[p])
      BY <3>1, LenProperties
    <3>. QED BY <1>1, <1>2, <3>2 DEF Buffered, WriteData
  <2>. QED BY <2>1, Zenon DEF BeatsSeen
<1>4. b.resp = "DECERR" <=> ~Legal(q)
  BY <1>1, <1>2 DEF bresp, Serves
<1>5. Legal(q) /\ b.resp # "SLVERR" => ~wlast_err
  BY <1>1, <1>2 DEF bresp, Serves
<1>. QED BY <1>1, <1>2, <1>3, <1>4, <1>5

\* An edge on which the write monitor reports, and no other.
LEMMA WriteReport ==
    ASSUME IInv, MonitorInv, MirrorInv, WriteHeld, apb_state = "IDLE", bvalid \/ b_late,
           NEW in \in BenchInputs, NEW first \in BOOLEAN, NEW axi_ahead \in BOOLEAN,
           done_at(in) = {}, ReadsDone(in) = <<>>, BWoken(in), BReady(first),
           Head(AwSeen) = Head(aw_pend), Head(BurstsSeen) = Captured, Report(in, first, axi_ahead),
           mem' = mem
    PROVE  /\ sb' \in Board /\ ~sb'.mismatch /\ sb'.pred_wr = NoQueue /\ sb'.pred_rd = NoQueue
           /\ sb'.buf_wr = NoQueue /\ sb'.buf_rd = sb.buf_rd /\ ShadowInv'
<1> DEFINE q == Head(aw_pend)
           rep == [q |-> q, data |-> Captured, resp |-> b.resp]
<1>1. WritesDone(in, first) = <<rep>>
  BY DEF WritesDone
<1>2. <<rep>> # <<>> /\ Head(<<rep>>) = rep
  <2> HIDE DEF rep
  <2>. QED BY SMT
<1>3. sb' = write_axi_wr(sb, rep)
  <2>1. \A s : FromApb(s, in) = s
    BY DEF FromApb
  <2>2. FromAxi(sb, in, first) = write_axi_wr(sb, rep)
    <3> HIDE DEF rep
    <3>. QED BY <1>1, <1>2, Zenon DEF FromAxi
  <2>. QED BY <2>1, <2>2 DEF Report
<1>4. /\ sb \in Board /\ ~sb.mismatch /\ sb.pred_wr = NoQueue /\ sb.pred_rd = NoQueue
      /\ Captured \in Seq(Data)
  BY CapturedType DEF MirrorInv, BoardInv
<1>5. /\ BeatsSeen(sb.buf_wr, q, TRUE, Captured) /\ q \in Request
      /\ Len(Captured) <= q.len + 1 /\ (b.resp = "DECERR" <=> ~Legal(q))
      /\ Legal(q) /\ b.resp # "SLVERR" => Len(Captured) = q.len + 1
  <2> HIDE DEF q
  <2>1. q = Head(aw_pend)
    BY DEF q
  <2>. QED BY <2>1, WriteSeen
<1> HIDE DEF q
<1>6. WriteSettles(sb, write_axi_wr(sb, rep))
  <2> DEFINE resp == b.resp
             data == Captured
  <2>1. /\ sb \in Board /\ sb.pred_wr = NoQueue /\ q \in Request /\ data \in Seq(Data)
        /\ (resp = "DECERR" <=> ~Legal(q)) /\ Len(data) <= q.len + 1
        /\ Legal(q) /\ resp # "SLVERR" => Len(data) = q.len + 1
        /\ BeatsSeen(sb.buf_wr, q, TRUE, data)
    BY <1>4, <1>5
  <2> HIDE DEF resp, data
  <2>2. WriteSettles(sb, write_axi_wr(sb, [q |-> q, data |-> data, resp |-> resp]))
    BY <2>1, WriteReported
  <2>. QED BY <2>2 DEF resp, data
<1>7. /\ sb' \in Board /\ ~sb'.mismatch /\ sb'.pred_wr = NoQueue /\ sb'.pred_rd = NoQueue
      /\ sb'.buf_wr = NoQueue /\ sb'.buf_rd = sb.buf_rd
      /\ \A p \in Port, i \in 0 .. Keys - 1 :
            sb'.slv_shadow[<<p, i>>] = Committed(sb.slv_shadow, sb.buf_wr[p])[<<p, i>>]
  BY <1>3, <1>4, <1>6 DEF WriteSettles
<1>8. ASSUME NEW p \in Port, NEW i \in 0 .. Words - 1, ~Spoiled(p, i)
      PROVE  mem'[p][i] = Committed(sb'.slv_shadow, sb'.buf_wr[p])[<<p, i>>]
  <2>1. Committed(sb'.slv_shadow, sb'.buf_wr[p]) = sb'.slv_shadow
    BY <1>7, ShadowNow
  <2>2. mem[p][i] = Committed(sb.slv_shadow, sb.buf_wr[p])[<<p, i>>]
    BY <1>8 DEF MirrorInv, ShadowInv
  <2>. QED BY <1>7, <2>1, <2>2, MirrorAssumption
<1>9. ShadowInv'
  BY <1>8, Zenon DEF ShadowInv
<1>. QED BY <1>7, <1>9

----------------------------------------------------------------------------
(* The edges of an idle bridge and of an answered write.                   *)

\* Nothing changes in the scoreboard when nobody has anything to report.
LEMMA NothingToReport ==
    ASSUME NEW in, NEW first \in BOOLEAN, ~BWoken(in), ReadsDone(in) = <<>>
    PROVE  \A s : FromAxi(s, in, first) = s
  BY DEF FromAxi, WritesDone

LEMMA IdleMirror ==
    ASSUME IInv, MonitorInv, MirrorInv, ~txn_active, NEW in \in BenchInputs,
           NEW first \in BOOLEAN, NEW axi_ahead \in BOOLEAN, BenchEdge(in, first, axi_ahead)
    PROVE  MirrorInv'
<1>1. Edge(in) /\ SlaveBlock(in) /\ WriteMonitor(in, first) /\ ReadMonitor(in)
      /\ Report(in, first, axi_ahead) /\ WriteMonitorInv /\ ReadMonitorInv
  BY DEF BenchEdge, MonitorInv
<1>2. /\ ~OpenRead /\ ~OpenWrite /\ rd = None /\ ReadsDone(in) = <<>>
      /\ apb_state = "IDLE" /\ ~apb_done(in) /\ idle_for_new
  BY <1>1 DEF OpenRead, OpenWrite, ReadMonitorInv, ReadsDone, IInv, OpenInv, TypeOK, apb_done,
              idle_for_new
<1>3. /\ sb \in Board /\ mem \in [Port -> [0 .. Words - 1 -> Data]] /\ ~sb.mismatch
      /\ sb.pred_wr = NoQueue /\ sb.pred_rd = NoQueue /\ sb.buf_rd = NoQueue
      /\ ~b_late => sb.buf_wr = NoQueue
  BY <1>2 DEF MirrorInv, BoardInv, WriteHeld
<1>4. mem' = mem /\ done_at(in) = {}
  BY <1>1, <1>2, <1>3, MemoryAfter, DoneAt
<1>5. /\ w_burst' = <<>> /\ wd_pend' = <<>> /\ b_late' = FALSE
      /\ aw_handshake => aw_pend' = Append(<<>>, aw)
      /\ BWoken(in) <=> b_late
      /\ b_late => /\ BReady(first) /\ Head(AwSeen) = Head(aw_pend)
                   /\ wd_pend # <<>> /\ BurstsSeen = wd_pend
  BY <1>1, IdleWriteMonitor
<1>6. /\ sb' \in Board /\ ~sb'.mismatch /\ sb'.pred_wr = NoQueue /\ sb'.pred_rd = NoQueue
      /\ sb'.buf_wr = NoQueue /\ sb'.buf_rd = NoQueue /\ ShadowInv'
  <2>1. CASE b_late
    <3>1. WriteHeld /\ Head(BurstsSeen) = Captured
      BY <1>5, <2>1 DEF WriteHeld, Captured
    <3>. QED BY <1>1, <1>2, <1>3, <1>4, <1>5, <2>1, <3>1, WriteReport
  <2>2. CASE ~b_late
    <3>1. \A s : FromAxi(s, in, first) = s /\ FromApb(s, in) = s
      BY <1>2, <1>4, <1>5, <2>2, NothingToReport DEF FromApb
    <3>2. sb' = sb
      BY <1>1, <3>1 DEF Report
    <3>3. ShadowInv'
      BY <1>4, <3>2, Zenon DEF MirrorInv, ShadowInv
    <3>. QED BY <1>3, <2>2, <3>2, <3>3
  <2>. QED BY <2>1, <2>2
<1>7. BoardInv'
  BY <1>3, <1>4, <1>6 DEF BoardInv
<1>8. CASE aw_handshake
  <2>1. PICK q \in AWRequests : q = aw
    BY <1>8 DEF aw_handshake, IInv, TypeOK
  <2>2. AcceptWrite /\ q \in Request
    BY <1>1, <1>8, <2>1, PinAssumption DEF Edge, TxnBlock, AcceptRead, Progress
  <2>3. Latch(q, TRUE)
    BY <2>1, <2>2 DEF AcceptWrite
  <2>4. /\ apb_state' = "IDLE" /\ bvalid' = FALSE
    BY <1>1, <1>2, AcceptQuiet, BenchPins DEF Edge
  <2>5. Serves(q)' /\ beat_index' = 0 /\ beats_total' \in Nat
    BY <1>2, <2>2, <2>3, LatchServes
  <2>6. Head(aw_pend') = q /\ w_done' = FALSE
    BY <1>5, <1>8, <2>1, <2>2, <2>3, OneIn DEF Latch
  <2>7. WriteLink'
    BY <1>5, <1>6, <2>4, <2>5, <2>6, NewWriteLink
  <2>8. ReadLink'
    <3>1. ~OpenRead'
      BY <1>1, <1>8, IdleProgress DEF OpenRead, OpenWrite
    <3>. QED BY <3>1 DEF ReadLink
  <2>. QED BY <1>6, <1>7, <2>7, <2>8 DEF MirrorInv
<1>9. CASE ~aw_handshake /\ ar_handshake
  <2>1. PICK q \in ARRequests : q = ar
    BY <1>9 DEF ar_handshake, IInv, TypeOK
  <2>2. AcceptRead /\ q \in Request
    BY <1>1, <1>9, <2>1, PinAssumption DEF Edge, TxnBlock, AcceptWrite, Progress
  <2>3. Latch(q, FALSE) /\ rfifo_valid' = FALSE
    BY <2>1, <2>2 DEF AcceptRead
  <2>4. rvalid' = FALSE
    BY <1>1, <1>2, AcceptQuiet, BenchPins DEF Edge
  <2>5. Serves(q)' /\ beat_index' = 0
    BY <1>2, <2>2, <2>3, LatchServes
  <2>6. rd' = [q |-> q, data |-> <<>>]
    BY <1>1, <1>2, <1>9, <2>1 DEF ReadMonitor
  <2>7. ReadLink'
    BY <1>6, <2>3, <2>4, <2>5, <2>6, NewReadLink
  <2>8. WriteLink'
    <3>1. ~WriteHeld'
      BY <1>1, <1>5, <1>9, IdleProgress DEF OpenRead, OpenWrite, WriteHeld
    <3>. QED BY <3>1 DEF WriteLink
  <2>. QED BY <1>6, <1>7, <2>7, <2>8 DEF MirrorInv
<1>10. CASE ~aw_handshake /\ ~ar_handshake
  <2>1. ~OpenRead' /\ ~WriteHeld'
    BY <1>1, <1>5, <1>10, IdleProgress DEF OpenRead, OpenWrite, WriteHeld
  <2>. QED BY <1>6, <1>7, <2>1 DEF MirrorInv, WriteLink, ReadLink
<1>. QED BY <1>8, <1>9, <1>10

\* B is taken: reported now, or held by the late B process until the next edge.
LEMMA AnsweredMirror ==
    ASSUME IInv, MonitorInv, MirrorInv, OpenWrite, bvalid, NEW in \in BenchInputs,
           NEW first \in BOOLEAN, NEW axi_ahead \in BOOLEAN, BenchEdge(in, first, axi_ahead)
    PROVE  MirrorInv'
<1>1. Edge(in) /\ SlaveBlock(in) /\ WriteMonitor(in, first)
      /\ Report(in, first, axi_ahead) /\ WriteMonitorInv /\ ReadMonitorInv
  BY DEF BenchEdge, MonitorInv
<1>2. /\ ~OpenRead /\ WriteHeld /\ ReadsDone(in) = <<>> /\ txn_active
      /\ apb_state = "IDLE" /\ ~apb_done(in) /\ ~w_handshake /\ w_done
  BY <1>1 DEF OpenRead, OpenWrite, WriteHeld, ReadMonitorInv, ReadsDone, IInv, ApbInv, WriteInv,
              apb_done, w_handshake, WREADY
<1>3. /\ sb \in Board /\ mem \in [Port -> [0 .. Words - 1 -> Data]] /\ ~sb.mismatch
      /\ sb.pred_wr = NoQueue /\ sb.pred_rd = NoQueue /\ sb.buf_rd = NoQueue
  BY <1>2 DEF MirrorInv, BoardInv
<1>4. mem' = mem /\ done_at(in) = {}
  BY <1>1, <1>2, <1>3, MemoryAfter, DoneAt
<1>5. /\ ~txn_active'
      /\ BWoken(in) /\ AwSeen = aw_pend /\ Head(BurstsSeen) = Captured
      /\ BReady(first) => b_late' = FALSE
      /\ ~BReady(first) => aw_pend' = aw_pend /\ Captured' = Captured
  BY <1>1, AnsweredWriteMonitor
<1>6. ~OpenRead' /\ ~OpenWrite'
  BY <1>5 DEF OpenRead, OpenWrite
<1>7. CASE BReady(first)
  <2>1. /\ sb' \in Board /\ ~sb'.mismatch /\ sb'.pred_wr = NoQueue /\ sb'.pred_rd = NoQueue
        /\ sb'.buf_wr = NoQueue /\ sb'.buf_rd = NoQueue /\ ShadowInv'
    BY <1>1, <1>2, <1>3, <1>4, <1>5, <1>7, WriteReport
  <2>2. ~WriteHeld'
    BY <1>5, <1>6, <1>7 DEF WriteHeld
  <2>. QED BY <1>3, <1>4, <1>6, <2>1, <2>2 DEF MirrorInv, BoardInv, WriteLink, ReadLink
<1>8. CASE ~BReady(first)
  <2>1. \A s : FromAxi(s, in, first) = s /\ FromApb(s, in) = s
    BY <1>2, <1>4, <1>8 DEF FromApb, FromAxi, WritesDone
  <2>2. sb' = sb
    BY <1>1, <2>1 DEF Report
  <2>3. b_late'
    BY <1>1, <1>5, <1>8 DEF WriteMonitor
  <2>4. PICK q \in AWRequests : q = Head(aw_pend)
    BY <1>2 DEF MirrorInv, WriteLink
  <2>5. Serves(q) /\ Buffered(sb.buf_wr, q, TRUE, beat_index) /\ WriteData /\ q \in Request
    BY <1>2, <2>4, PinAssumption DEF MirrorInv, WriteLink
  <2>6. Serves(q)' /\ beat_index' = beat_index
    <3>1. /\ Serves(q)'
          /\ beat_index' = beat_index + (IF apb_done(in) \/ (w_handshake /\ txn_decerr)
                                         THEN 1 ELSE 0)
      BY <1>1, <1>2, <2>5, EdgeServes
    <3>. QED BY <1>2, <3>1 DEF IInv, TypeOK, Count
  <2>7. /\ UNCHANGED <<w_done, wlast_err, beats_total, txn_decerr, pslverr_acc, b>>
        /\ apb_state' = "IDLE"
    <3>1. ~aw_handshake /\ ~ar_handshake /\ ~start_write /\ ~start_read(in)
      BY <1>2 DEF aw_handshake, AWREADY, ar_handshake, ARREADY, idle_for_new, start_write,
                  start_read, OpenWrite
    <3>2. Progress(in) /\ b' = b
      BY <1>1, <3>1, BenchPins
         DEF Edge, TxnBlock, AcceptWrite, AcceptRead, BBlock, b_due, bRegs
    <3>3. apb_state' = "IDLE"
      BY <1>1, <1>2, <3>1
         DEF Edge, ApbBlock, ApbStartWrite, ApbStartRead, ApbIdle, ApbSetup, ApbWait,
             ApbComplete
    <3>. QED BY <1>2, <3>2, <3>3 DEF Progress, IInv, TypeOK
  <2>8. Taken' = Taken /\ bresp' = bresp
    BY <1>2, <2>6, <2>7 DEF Taken, bresp
  <2>9. WriteData'
    BY <1>2, <1>5, <1>8, <2>2, <2>5, <2>7, <2>8 DEF WriteData
  <2>10. Buffered(sb.buf_wr, q, TRUE, beat_index)'
    BY <2>2, <2>5, <2>6 DEF Buffered
  <2>11. WriteLink'
    BY <1>5, <1>8, <2>4, <2>6, <2>9, <2>10, Zenon DEF WriteLink
  <2>12. ShadowInv'
    BY <1>4, <2>2, Zenon DEF MirrorInv, ShadowInv
  <2>13. BoardInv' /\ ReadLink'
    BY <1>3, <1>4, <1>6, <2>2, <2>3 DEF BoardInv, ReadLink, WriteHeld
  <2>. QED BY <2>11, <2>12, <2>13 DEF MirrorInv
<1>. QED BY <1>7, <1>8

----------------------------------------------------------------------------
(* The edges of a write that takes data.                                   *)

\* A transfer that completes is queued behind those of its port.
LEMMA ApbReported ==
    ASSUME IInv, BoardInv, NEW in \in BenchInputs, apb_done(in),
           axi.is_write => pbus[axi.sel].data \in Data, sb' = FromApb(sb, in),
           NEW o, o = Transfer(axi.sel, in)
    PROVE  /\ sb' \in Board /\ ~sb'.mismatch /\ sb'.pred_wr = NoQueue /\ sb'.pred_rd = NoQueue
           /\ sb'.slv_shadow = sb.slv_shadow
           /\ sb'.buf_wr = IF axi.is_write THEN [sb.buf_wr EXCEPT ![axi.sel] = Append(@, o)]
                           ELSE sb.buf_wr
           /\ sb'.buf_rd = IF axi.is_write THEN sb.buf_rd
                           ELSE [sb.buf_rd EXCEPT ![axi.sel] = Append(@, o)]
<1>1. done_at(in) = {axi.sel}
  BY DoneAt
<1>2. sb' = ingest_apb(sb, o)
  <2>1. (CHOOSE p \in done_at(in) : TRUE) = axi.sel /\ done_at(in) # {}
    BY <1>1
  <2>. QED BY <2>1 DEF FromApb
<1>3. o \in Observation /\ o.port = axi.sel /\ o.write = axi.is_write
  BY Observed DEF BoardInv
<1>4. sb \in Board /\ sb.pred_wr = NoQueue /\ sb.pred_rd = NoQueue /\ ~sb.mismatch
  BY DEF BoardInv
<1> DEFINE t == ingest_apb(sb, o)
<1>5. /\ t \in Board /\ t.pred_wr = NoQueue /\ t.pred_rd = NoQueue
      /\ t.buf_wr = IF o.write THEN [sb.buf_wr EXCEPT ![o.port] = Append(@, o)] ELSE sb.buf_wr
      /\ t.buf_rd = IF o.write THEN sb.buf_rd ELSE [sb.buf_rd EXCEPT ![o.port] = Append(@, o)]
      /\ t.slv_shadow = sb.slv_shadow /\ t.mismatch = sb.mismatch
  BY <1>3, <1>4, Ingested
<1> HIDE DEF t
<1>6. sb' = t
  BY <1>2 DEF t
<1>. QED BY <1>3, <1>4, <1>5, <1>6

\* The queue of the port is one longer, the other one as it was.
LEMMA OneMore ==
    ASSUME NEW queues \in [Port -> Seq(Observation)], NEW o \in Observation, NEW p \in Port,
           NEW now, now = [queues EXCEPT ![p] = Append(@, o)]
    PROVE  /\ now[p] = Append(queues[p], o) /\ Len(now[p]) = Len(queues[p]) + 1
           /\ now[p][Len(queues[p]) + 1] = o /\ Len(queues[p]) \in Nat
           /\ DOMAIN now[p] = 1 .. Len(queues[p]) + 1 /\ DOMAIN queues[p] = 1 .. Len(queues[p])
           /\ \A i \in 1 .. Len(queues[p]) : now[p][i] = queues[p][i]
           /\ \A other \in Port : other # p => now[other] = queues[other]
<1>1. queues[p] \in Seq(Observation) /\ now[p] = Append(queues[p], o)
  OBVIOUS
<1> DEFINE s == queues[p]
<1>2. /\ Len(Append(s, o)) = Len(s) + 1 /\ Append(s, o)[Len(s) + 1] = o /\ Len(s) \in Nat
      /\ Append(s, o) \in Seq(Observation)
      /\ \A i \in 1 .. Len(s) : Append(s, o)[i] = s[i]
  <2> HIDE DEF s
  <2>1. s \in Seq(Observation)
    BY <1>1 DEF s
  <2>. QED BY <2>1, AppendProperties, LenProperties
<1>3. DOMAIN Append(s, o) = 1 .. Len(s) + 1 /\ DOMAIN s = 1 .. Len(s)
  BY <1>1, <1>2, LenProperties
<1>. QED BY <1>1, <1>2, <1>3

\* The observations of q with one beat more.
LEMMA BufferedNext ==
    ASSUME NEW queues \in [Port -> Seq(Observation)], NEW o \in Observation,
           NEW q \in Request, Legal(q), NEW isWrite \in BOOLEAN,
           NEW n \in Nat, Buffered(queues, q, isWrite, n),
           NEW now, now = [queues EXCEPT ![PortOf(q.addr)] = Append(@, o)],
           o.port = PortOf(q.addr), o.addr = BeatAddr(q, n + 1), o.write = isWrite
    PROVE  Buffered(now, q, isWrite, n + 1)
<1> DEFINE here == PortOf(q.addr)
<1>1. here \in Port
  BY PortOfType DEF Request
<1> HIDE DEF here
<1>2. /\ Len(now[here]) = Len(queues[here]) + 1
      /\ now[here][Len(queues[here]) + 1] = o
      /\ DOMAIN now[here] = 1 .. Len(queues[here]) + 1
      /\ DOMAIN queues[here] = 1 .. Len(queues[here])
      /\ \A i \in 1 .. Len(queues[here]) : now[here][i] = queues[here][i]
      /\ \A other \in Port : other # here => now[other] = queues[other]
  <2>1. now = [queues EXCEPT ![here] = Append(@, o)]
    BY DEF here
  <2>. QED BY <1>1, <2>1, OneMore
<1>3. Len(queues[here]) = n
  BY <1>1 DEF Buffered, here
<1> SUFFICES ASSUME NEW p \in Port
             PROVE  /\ Len(now[p]) = IF Legal(q) /\ p = PortOf(q.addr) THEN n + 1 ELSE 0
                    /\ \A i \in DOMAIN now[p] :
                          /\ now[p][i].port = p /\ now[p][i].addr = BeatAddr(q, i)
                          /\ now[p][i].write = isWrite
  BY DEF Buffered
<1>4. CASE p = here
  <2>1. ASSUME NEW i \in DOMAIN now[p]
        PROVE  /\ now[p][i].port = p /\ now[p][i].addr = BeatAddr(q, i)
               /\ now[p][i].write = isWrite
    <3>1. CASE i = n + 1
      BY <1>2, <1>3, <1>4, <3>1 DEF here
    <3>2. CASE i # n + 1
      <4>1. i \in DOMAIN queues[here]
        BY <1>2, <1>3, <1>4, <3>2
      <4>. QED BY <1>1, <1>2, <1>4, <4>1 DEF Buffered
    <3>. QED BY <3>1, <3>2
  <2>. QED BY <1>2, <1>3, <1>4, <2>1 DEF here
<1>5. CASE p # here
  <2>1. now[p] = queues[p]
    BY <1>2, <1>5
  <2>. QED BY <1>5, <2>1 DEF Buffered, here
<1>. QED BY <1>4, <1>5

\* A word stored and the observation of its write: the shadow will follow,
\* unless the write failed, and then the word is one that no test reads.
LEMMA StoreShadow ==
    ASSUME IInv, BoardInv, ShadowInv, NEW in \in BenchInputs, apb_done(in), axi.is_write,
           NEW q \in AWRequests, Serves(q), SlaveBlock(in),
           pbus[axi.sel].data \in Data, sb' = FromApb(sb, in)
    PROVE  ShadowInv'
<1> DEFINE o == Transfer(axi.sel, in)
           S == Port \X (0 .. Keys - 1)
           here == axi.sel
           word == WordOf(axi.addr)
<1>1. /\ txn_active /\ ~txn_decerr /\ axi \in AxiReg /\ here \in Port /\ beat_index < beats_total
      /\ axi.addr \in Addr
  BY DoneAt DEF AxiReg
<1>2. /\ o \in Observation /\ o.port = here /\ o.addr = axi.addr
      /\ o.data = pbus[here].data /\ (o.err => axi.addr \in ErrAddrs)
  BY Observed DEF BoardInv
<1>3. /\ sb'.slv_shadow = sb.slv_shadow
      /\ sb'.buf_wr = [sb.buf_wr EXCEPT ![here] = Append(@, o)]
  <2> HIDE DEF o
  <2>1. o = Transfer(axi.sel, in)
    BY DEF o
  <2>. QED BY <2>1, ApbReported
<1>4. /\ sb.slv_shadow \in [S -> Data] /\ sb.buf_wr \in [Port -> Seq(Observation)]
      /\ mem \in [Port -> [0 .. Words - 1 -> Data]]
  BY DEF BoardInv, Board
<1>5. mem' = [mem EXCEPT ![here] = [mem[here] EXCEPT ![word] = pbus[here].data]]
  BY <1>4, MemoryAfter
<1>6. ram_key_of(here, axi.addr) = <<here, word>> /\ word \in 0 .. Words - 1
  BY <1>1, KeyOfWord
<1>7. o.err => Spoiled(here, word)
  <2>1. SUFFICES ASSUME o.err PROVE Spoiled(here, word)
    OBVIOUS
  <2>2. /\ Legal(q) /\ axi.addr = BeatAddr(q, beat_index + 1) /\ here = PortOf(q.addr)
        /\ beat_index < q.len + 1 /\ beat_index \in Nat /\ q \in Request /\ q.len \in Nat
    BY <1>1, PinAssumption, AddressAssumption DEF Serves, IInv, TypeOK, Count, Request
  <2>3. PortOf(axi.addr) = here
    BY <2>2, BeatPort
  <2>4. beat_index + 1 \in 1 .. q.len + 1
    BY <2>2
  <2> DEFINE n == beat_index + 1
  <2>5. /\ Legal(q) /\ n \in 1 .. q.len + 1 /\ BeatAddr(q, n) \in ErrAddrs
        /\ PortOf(BeatAddr(q, n)) = here /\ WordOf(BeatAddr(q, n)) = word
    BY <1>2, <2>1, <2>2, <2>3, <2>4
  <2> HIDE DEF n, word
  <2>. QED BY <2>5, Zenon DEF Spoiled
<1> HIDE DEF o, here, word
<1>8. ASSUME NEW p \in Port, NEW i \in 0 .. Words - 1, ~Spoiled(p, i)
      PROVE  mem'[p][i] = Committed(sb'.slv_shadow, sb'.buf_wr[p])[<<p, i>>]
  <2>1. mem[p][i] = Committed(sb.slv_shadow, sb.buf_wr[p])[<<p, i>>]
    BY <1>8 DEF ShadowInv
  <2>2. <<p, i>> \in S
    BY MirrorAssumption
  <2>3. CASE p = here
    <3>1. sb'.buf_wr[p] = Append(sb.buf_wr[p], o) /\ sb.buf_wr[p] \in Seq(Observation)
      BY <1>1, <1>3, <1>4, <2>3
    <3>2. Committed(sb.slv_shadow, Append(sb.buf_wr[p], o))[<<p, i>>] =
            IF ~o.err /\ ram_key_of(o.port, o.addr) = <<p, i>> THEN o.data
            ELSE Committed(sb.slv_shadow, sb.buf_wr[p])[<<p, i>>]
      <4> DEFINE k == <<p, i>>
                 xs == sb.buf_wr[p]
                 shadow == sb.slv_shadow
      <4>1. k \in S /\ xs \in Seq(Observation) /\ shadow \in [S -> Data]
        BY <1>4, <2>2, <3>1
      <4> HIDE DEF k, xs, shadow, S
      <4>2. Committed(shadow, Append(xs, o))[k] =
              IF ~o.err /\ ram_key_of(o.port, o.addr) = k THEN o.data
              ELSE Committed(shadow, xs)[k]
        BY <1>2, <4>1, CommittedAppend
      <4>. QED BY <4>2 DEF k, xs, shadow
    <3>3. ram_key_of(o.port, o.addr) = <<p, i>> <=> i = word
      BY <1>2, <1>6, <2>3
    <3>4. mem'[p][i] = IF i = word THEN pbus[here].data ELSE mem[p][i]
      BY <1>1, <1>4, <1>5, <1>6, <2>3
    <3>. QED BY <1>2, <1>3, <1>7, <1>8, <2>1, <2>3, <3>1, <3>2, <3>3, <3>4
  <2>4. CASE p # here
    <3>1. sb'.buf_wr[p] = sb.buf_wr[p] /\ mem'[p] = mem[p]
      BY <1>3, <1>4, <1>5, <2>4
    <3>. QED BY <1>3, <2>1, <3>1
  <2>. QED BY <2>3, <2>4
<1>. QED BY <1>8, Zenon DEF ShadowInv

\* A write before B is offered.
LEMMA WriteMirror ==
    ASSUME IInv, MonitorInv, MirrorInv, OpenWrite, ~bvalid, NEW in \in BenchInputs,
           NEW first \in BOOLEAN, NEW axi_ahead \in BOOLEAN, BenchEdge(in, first, axi_ahead)
    PROVE  MirrorInv'
<1>1. Edge(in) /\ SlaveBlock(in) /\ WriteMonitor(in, first)
      /\ Report(in, first, axi_ahead) /\ WriteMonitorInv /\ ReadMonitorInv
  BY DEF BenchEdge, MonitorInv
<1>2. /\ ~OpenRead /\ WriteHeld /\ ReadsDone(in) = <<>> /\ txn_active /\ axi.is_write
      /\ axi \in AxiReg /\ beat_index \in Nat /\ beats_total \in Nat /\ Taken \in Nat
  BY <1>1 DEF OpenRead, OpenWrite, WriteHeld, ReadMonitorInv, ReadsDone, IInv, OpenInv, TypeOK,
              Count, Taken
<1>3. /\ ~aw_handshake /\ ~ar_handshake /\ ~rvalid
      /\ OpenWrite' /\ beats_total' = beats_total
      /\ Taken' = Taken + (IF w_handshake THEN 1 ELSE 0)
      /\ w_handshake => ~w_done /\ Taken < beats_total
      /\ w_done' <=> w_done \/ (w_handshake /\ (w.last \/ final_beat))
  BY <1>1, WriteProgress
<1>4. /\ ~BWoken(in) /\ b_late' = FALSE /\ aw_pend' = aw_pend
      /\ Captured' = IF w_handshake THEN Append(Captured, w.data) ELSE Captured
  BY <1>1, OpenWriteMonitor
<1>5. PICK q \in AWRequests : q = Head(aw_pend)
  BY <1>2 DEF MirrorInv, WriteLink
<1>6. /\ Serves(q) /\ Buffered(sb.buf_wr, q, TRUE, beat_index) /\ WriteData /\ q \in Request
      /\ BoardInv /\ ShadowInv
  BY <1>2, <1>5, PinAssumption DEF MirrorInv, WriteLink
<1>7. /\ Serves(q)'
      /\ beat_index' = beat_index + (IF apb_done(in) \/ (w_handshake /\ txn_decerr)
                                     THEN 1 ELSE 0)
  BY <1>1, <1>2, <1>6, EdgeServes
<1>8. sb' = FromApb(sb, in)
  BY <1>1, <1>2, <1>4, NothingToReport DEF Report
<1>9. /\ Captured \in Seq(Data) /\ Len(Captured) = Taken /\ Taken <= beats_total
      /\ w_handshake => w.data \in Data
  BY <1>6, CapturedType, BenchPins DEF WriteData, w_handshake
<1>10. apb_state # "IDLE" => /\ ~w_handshake /\ ~txn_decerr /\ Taken = beat_index + 1
                             /\ pbus[axi.sel].data = Captured[Taken]
                             /\ pbus[axi.sel].data \in Data
  <2>1. SUFFICES ASSUME apb_state # "IDLE"
                 PROVE  /\ ~w_handshake /\ ~txn_decerr /\ Taken = beat_index + 1
                        /\ pbus[axi.sel].data = Captured[Taken]
                        /\ pbus[axi.sel].data \in Data
    OBVIOUS
  <2>2. ~w_handshake /\ ~txn_decerr /\ Taken = beat_index + 1
    BY <2>1 DEF IInv, ApbInv, w_handshake, WREADY, Taken
  <2>3. pbus[axi.sel].data = Captured[Taken] /\ Taken \in 1 .. Len(Captured)
    BY <1>2, <1>6, <1>9, <2>1, <2>2 DEF WriteData
  <2>. QED BY <1>9, <2>2, <2>3, ElementOfSeq
<1>11. apb_done(in) => apb_state # "IDLE"
  BY DEF apb_done
<1>12. /\ ~apb_done(in) => sb' = sb /\ mem' = mem
       /\ apb_done(in) => /\ sb' \in Board /\ ~sb'.mismatch /\ sb'.pred_wr = NoQueue
                          /\ sb'.pred_rd = NoQueue /\ sb'.buf_rd = sb.buf_rd
                          /\ sb'.buf_wr = [sb.buf_wr EXCEPT ![axi.sel] =
                                             Append(@, Transfer(axi.sel, in))]
  <2>1. CASE ~apb_done(in)
    <3>1. done_at(in) = {}
      BY <2>1, DoneAt
    <3>. QED BY <1>1, <1>6, <1>8, <2>1, <3>1, MemoryAfter DEF FromApb, BoardInv
  <2>2. CASE apb_done(in)
    <3> DEFINE o == Transfer(axi.sel, in)
    <3>1. o = Transfer(axi.sel, in)
      OBVIOUS
    <3> HIDE DEF o
    <3>2. /\ sb' \in Board /\ ~sb'.mismatch /\ sb'.pred_wr = NoQueue
          /\ sb'.pred_rd = NoQueue
          /\ sb'.buf_wr = IF axi.is_write THEN [sb.buf_wr EXCEPT ![axi.sel] = Append(@, o)]
                          ELSE sb.buf_wr
          /\ sb'.buf_rd = IF axi.is_write THEN sb.buf_rd
                          ELSE [sb.buf_rd EXCEPT ![axi.sel] = Append(@, o)]
      BY <1>6, <1>8, <1>10, <1>11, <2>2, <3>1, ApbReported
    <3>. QED BY <1>2, <2>2, <3>1, <3>2
  <2>. QED BY <2>1, <2>2
<1>13. BoardInv' /\ WriteHeld' /\ ~OpenRead'
  <2>1. WriteHeld' /\ ~OpenRead'
    BY <1>3 DEF WriteHeld, OpenRead, OpenWrite
  <2>2. sb.buf_rd = NoQueue
    BY <1>2, <1>6 DEF BoardInv
  <2>3. mem' \in [Port -> [0 .. Words - 1 -> Data]]
    <3>1. CASE apb_done(in)
      <4>1. axi.sel \in Port /\ WordOf(axi.addr) \in 0 .. Words - 1
        BY <1>2, KeyOfWord DEF AxiReg
      <4>2. mem' = [mem EXCEPT ![axi.sel] =
                      [mem[axi.sel] EXCEPT ![WordOf(axi.addr)] = pbus[axi.sel].data]]
        BY <1>1, <1>2, <1>6, <3>1, MemoryAfter DEF BoardInv
      <4>. QED BY <1>6, <1>10, <1>11, <3>1, <4>1, <4>2 DEF BoardInv
    <3>. QED BY <1>6, <1>12, <3>1 DEF BoardInv
  <2>. QED BY <1>6, <1>12, <2>1, <2>2, <2>3 DEF BoardInv
<1>14. ShadowInv'
  <2>1. CASE apb_done(in)
    BY <1>1, <1>2, <1>6, <1>8, <1>10, <1>11, <2>1, StoreShadow
  <2>2. CASE ~apb_done(in)
    BY <1>6, <1>12, <2>2, Zenon DEF ShadowInv
  <2>. QED BY <2>1, <2>2
<1>15. ASSUME apb_done(in)
       PROVE  LET o == Transfer(axi.sel, in)
              IN  /\ o \in Observation /\ o.port = PortOf(q.addr)
                  /\ o.addr = BeatAddr(q, beat_index + 1) /\ o.write = TRUE
                  /\ o.data = Captured[beat_index + 1]
                  /\ Legal(q) /\ axi.sel = PortOf(q.addr) /\ beat_index' = beat_index + 1
  <2>1. Legal(q) /\ axi.sel = PortOf(q.addr) /\ axi.addr = BeatAddr(q, beat_index + 1)
    BY <1>6, <1>10, <1>11, <1>15 DEF Serves
  <2>2. LET o == Transfer(axi.sel, in)
        IN  /\ o \in Observation /\ o.port = axi.sel /\ o.addr = axi.addr
            /\ o.write = axi.is_write
            /\ o.data = IF axi.is_write THEN pbus[axi.sel].data
                        ELSE mem[axi.sel][WordOf(axi.addr)]
    BY <1>6, <1>10, <1>11, <1>15, Observed DEF BoardInv
  <2>3. pbus[axi.sel].data = Captured[beat_index + 1]
    BY <1>10, <1>11, <1>15
  <2>. QED BY <1>2, <1>7, <1>15, <2>1, <2>2, <2>3
<1>16. sb.buf_wr \in [Port -> Seq(Observation)]
  BY <1>6 DEF BoardInv, Board
<1>17. Buffered(sb.buf_wr, q, TRUE, beat_index)'
  <2>1. CASE apb_done(in)
    <3> DEFINE o == Transfer(axi.sel, in)
               yes == TRUE
               now == sb'.buf_wr
               queues == sb.buf_wr
    <3>1. /\ queues \in [Port -> Seq(Observation)] /\ o \in Observation /\ Legal(q)
          /\ yes \in BOOLEAN /\ Buffered(queues, q, yes, beat_index) /\ beat_index \in Nat
          /\ now = [queues EXCEPT ![PortOf(q.addr)] = Append(@, o)]
          /\ o.port = PortOf(q.addr) /\ o.addr = BeatAddr(q, beat_index + 1)
          /\ o.write = yes /\ q \in Request
      BY <1>2, <1>6, <1>12, <1>15, <1>16, <2>1
    <3> HIDE DEF o, yes, now, queues
    <3>2. Buffered(now, q, yes, beat_index + 1)
      BY <3>1, BufferedNext
    <3>3. Buffered(sb'.buf_wr, q, TRUE, beat_index')
      BY <1>15, <2>1, <3>2 DEF now, yes
    <3>. QED BY <3>3
  <2>2. CASE ~apb_done(in)
    <3>1. Legal(q) => beat_index' = beat_index
      BY <1>2, <1>6, <1>7, <2>2 DEF Serves
    <3>. QED BY <1>6, <1>12, <2>2, <3>1 DEF Buffered
  <2>. QED BY <2>1, <2>2
<1>18. /\ Len(Captured') = Taken' /\ Taken' <= beats_total'
       /\ \A i \in 1 .. Taken : Captured'[i] = Captured[i]
  <2>1. CASE w_handshake
    BY <1>2, <1>3, <1>4, <1>9, <2>1, AppendProperties
  <2>2. CASE ~w_handshake
    BY <1>2, <1>3, <1>4, <1>9, <2>2
  <2>. QED BY <2>1, <2>2
<1>19. Progress(in)
  BY <1>1, <1>3 DEF Edge, TxnBlock, AcceptWrite, AcceptRead
<1>20. w_done' => wlast_err' \/ Taken' = beats_total'
  <2>1. CASE w_done
    <3>1. ~w_handshake /\ (wlast_err \/ Taken = beats_total)
      BY <1>3, <1>6, <2>1 DEF WriteData
    <3>. QED BY <1>2, <1>3, <1>19, <3>1 DEF Progress
  <2>2. CASE w_handshake /\ final_beat
    <3>1. Taken = beat_index
      BY <1>2, <1>10, <2>2 DEF Taken
    <3>. QED BY <1>2, <1>3, <2>2, <3>1 DEF final_beat
  <2>3. CASE w_handshake /\ w.last /\ ~final_beat
    <3>1. wlast_err'
      <4>1. w.last \in BOOLEAN /\ final_beat \in BOOLEAN
        BY <2>3, BenchPins DEF w_handshake, final_beat
      <4>. QED BY <1>19, <2>3, <4>1 DEF Progress
    <3>. QED BY <3>1
  <2>. QED BY <1>3, <2>1, <2>2, <2>3
<1>21. bvalid' \/ b_late' => w_done' /\ b'.resp = bresp'
  <2>1. CASE b_due
    <3>1. ~w_handshake /\ ~apb_done(in) /\ w_done
      BY <2>1 DEF b_due, w_handshake, WREADY, apb_done
    <3>2. bresp' = bresp /\ w_done'
      BY <1>3, <1>19, <3>1 DEF Progress, bresp, IInv, TypeOK
    <3>3. ~b_handshake(in)
      BY BenchPins
    <3>4. b'.resp = bresp
      BY <1>1, <2>1, <3>3 DEF Edge, BBlock
    <3>. QED BY <3>2, <3>4
  <2>2. CASE ~b_due
    <3>1. ~b_handshake(in)
      BY BenchPins
    <3>2. ~bvalid'
      BY <1>1, <2>2, <3>1 DEF Edge, BBlock, bRegs
    <3>. QED BY <1>4, <3>2
  <2>. QED BY <2>1, <2>2
<1>22. axi'.sel = axi.sel /\ axi.sel \in Port
  BY <1>2, <1>6, <1>7 DEF Serves, AxiReg
<1>23. apb_state' # "IDLE" => pbus'[axi'.sel].data = Captured'[Taken']
  <2>1. CASE apb_state = "IDLE"
    <3>1. ~start_read(in) /\ ~apb_done(in)
      BY <1>2, <2>1 DEF start_read, apb_done
    <3>2. CASE start_write
      <4>1. w_handshake /\ pbus'[axi.sel].data = w.data
        BY <1>1, <1>22, <2>1, <3>1, <3>2
           DEF Edge, ApbBlock, ApbStartWrite, ApbStartRead, ApbIdle, ApbSetup, ApbWait,
               ApbComplete, Drive, start_write, IInv, TypeOK
      <4>2. Captured' = Append(Captured, w.data) /\ Taken' = Len(Captured) + 1
        BY <1>3, <1>4, <1>9, <4>1
      <4>3. Captured'[Len(Captured) + 1] = w.data
        BY <1>9, <4>1, <4>2, AppendProperties
      <4>. QED BY <1>22, <4>1, <4>2, <4>3
    <3>3. CASE ~start_write
      <4>1. apb_state' = "IDLE"
        BY <1>1, <2>1, <3>1, <3>3
           DEF Edge, ApbBlock, ApbStartWrite, ApbStartRead, ApbIdle, ApbSetup, ApbWait,
               ApbComplete
      <4>. QED BY <4>1
    <3>. QED BY <3>2, <3>3
  <2>2. CASE apb_state # "IDLE"
    <3>1. pbus' = pbus
      BY <1>1, <2>2 DEF Edge, ApbBlock, ApbStartWrite, ApbStartRead, ApbIdle, ApbSetup, ApbWait,
                        ApbComplete, apbRegs, apbPins
    <3>2. Captured' = Captured /\ Taken' = Taken
      BY <1>2, <1>3, <1>4, <1>10, <2>2
    <3>. QED BY <1>10, <1>22, <2>2, <3>1, <3>2
  <2>. QED BY <2>1, <2>2
<1>24. ASSUME NEW p \in Port, NEW i \in DOMAIN sb'.buf_wr[p]
       PROVE  sb'.buf_wr[p][i].data = Captured'[i]
  <2>1. ASSUME NEW j \in DOMAIN sb.buf_wr[p]
        PROVE  sb.buf_wr[p][j].data = Captured'[j]
    <3>1. j \in 1 .. Len(sb.buf_wr[p])
      BY <1>16, LenProperties
    <3>2. Len(sb.buf_wr[p]) <= Taken /\ Len(sb.buf_wr[p]) \in Nat
      BY <1>2, <1>6 DEF Buffered, Taken
    <3>3. j \in 1 .. Taken
      BY <1>2, <3>1, <3>2
    <3>. QED BY <1>6, <1>18, <3>3 DEF WriteData
  <2>2. CASE apb_done(in)
    <3> DEFINE o == Transfer(axi.sel, in)
               here == axi.sel
               queues == sb.buf_wr
               now == sb'.buf_wr
    <3>1. /\ o \in Observation /\ o.data = Captured[beat_index + 1]
          /\ queues \in [Port -> Seq(Observation)] /\ here \in Port
          /\ now = [queues EXCEPT ![here] = Append(@, o)]
      BY <1>12, <1>15, <1>16, <1>22, <2>2
    <3>2. Len(queues[here]) = beat_index /\ beat_index + 1 = Taken
      BY <1>6, <1>10, <1>11, <1>15, <1>22, <2>2 DEF Buffered
    <3>3. \A j \in DOMAIN queues[p] : queues[p][j].data = Captured'[j]
      BY <2>1
    <3>4. i \in DOMAIN now[p]
      OBVIOUS
    <3>5. Captured'[Taken] = Captured[Taken]
      BY <1>2, <1>18, <3>2
    <3> HIDE DEF o, here, queues, now
    <3>6. /\ now[here][Len(queues[here]) + 1] = o
          /\ DOMAIN now[here] = 1 .. Len(queues[here]) + 1
          /\ DOMAIN queues[here] = 1 .. Len(queues[here])
          /\ \A j \in 1 .. Len(queues[here]) : now[here][j] = queues[here][j]
          /\ \A other \in Port : other # here => now[other] = queues[other]
      BY <3>1, OneMore
    <3>7. now[p][i].data = Captured'[i]
      <4>1. CASE p # here
        BY <3>3, <3>4, <3>6, <4>1
      <4>2. CASE p = here /\ i = beat_index + 1
        BY <3>1, <3>2, <3>5, <3>6, <4>2
      <4>3. CASE p = here /\ i # beat_index + 1
        <5>1. i \in 1 .. Len(queues[here])
          BY <1>2, <3>2, <3>4, <3>6, <4>3
        <5>. QED BY <3>3, <3>6, <4>3, <5>1
      <4>. QED BY <4>1, <4>2, <4>3
    <3>. QED BY <3>7 DEF now
  <2>3. CASE ~apb_done(in)
    BY <1>12, <2>1, <2>3
  <2>. QED BY <2>2, <2>3
<1>25. WriteData'
  BY <1>18, <1>20, <1>21, <1>23, <1>24 DEF WriteData
<1>26. WriteLink'
  <2>1. Head(aw_pend') = q
    BY <1>4, <1>5
  <2>. QED BY <1>7, <1>17, <1>25, <2>1, Zenon DEF WriteLink
<1>. QED BY <1>13, <1>14, <1>26 DEF MirrorInv, ReadLink

----------------------------------------------------------------------------
(* The edges of a read.                                                    *)

\* The word of a legal beat is what the shadow holds at the key of the beat.
LEMMA ShadowOfWord ==
    ASSUME BoardInv, ShadowInv, sb.buf_wr = NoQueue,
           NEW q \in ARRequests, Legal(q), NEW i \in 1 .. q.len + 1
    PROVE  Word(q, i) = sb.slv_shadow[ram_key_of(PortOf(BeatAddr(q, i)), BeatAddr(q, i))]
<1> DEFINE a == BeatAddr(q, i)
           p == PortOf(a)
<1>1. q \in Request /\ q.len \in Nat /\ i - 1 \in Nat /\ i - 1 < q.len + 1 /\ i - 1 + 1 = i
  BY PinAssumption, AddressAssumption DEF Request
<1>2. p = PortOf(q.addr) /\ a \in Addr /\ p \in Port
  <2>1. /\ PortOf(BeatAddr(q, i - 1 + 1)) = PortOf(q.addr)
        /\ BeatAddr(q, i - 1 + 1) \in Addr /\ PortOf(q.addr) \in Port
    BY <1>1, BeatPort
  <2>. QED BY <1>1, <2>1
<1>3. ram_key_of(p, a) = <<p, WordOf(a)>> /\ WordOf(a) \in 0 .. Words - 1
  BY <1>2, KeyOfWord
<1>4. ~Spoiled(p, WordOf(a))
  BY MirrorAssumption
<1>5. Word(q, i) = mem[p][WordOf(a)]
  BY <1>2 DEF Word
<1> HIDE DEF a, p
<1>6. mem[p][WordOf(a)] = Committed(sb.slv_shadow, sb.buf_wr[p])[<<p, WordOf(a)>>]
  BY <1>2, <1>3, <1>4 DEF ShadowInv
<1>7. Committed(sb.slv_shadow, sb.buf_wr[p]) = sb.slv_shadow
  BY <1>2, ShadowNow DEF BoardInv
<1>8. Word(q, i) = sb.slv_shadow[ram_key_of(p, a)]
  BY <1>3, <1>5, <1>6, <1>7
<1>. QED BY <1>8 DEF a, p

\* What is known of an open read.
LEMMA ReadFacts ==
    ASSUME IInv, MonitorInv, MirrorInv, OpenRead
    PROVE  /\ txn_active /\ ~axi.is_write /\ axi \in AxiReg /\ ~bvalid /\ ~w_handshake
           /\ beats_sent \in Nat /\ beats_total \in Nat /\ beat_index \in Nat
           /\ beats_sent < beats_total
           /\ beat_index = IF txn_decerr THEN 0
                           ELSE beats_sent + (IF rfifo_valid THEN 1 ELSE 0)
           /\ rvalid => /\ txn_decerr \/ rfifo_valid
                        /\ r.last <=> beats_sent + 1 = beats_total
           /\ ~WriteHeld /\ sb.buf_wr = NoQueue
           /\ rd # None /\ rd \in [q : Request, data : Seq(Data)]
           /\ Len(rd.data) = beats_sent /\ rd.q.len + 1 = beats_total
           /\ rd.q \in ARRequests /\ rd.q \in Request /\ Serves(rd.q)
           /\ Buffered(sb.buf_rd, rd.q, FALSE, beat_index) /\ ReadData(rd.q)
           /\ BoardInv /\ ShadowInv
<1>1. /\ txn_active /\ ~axi.is_write /\ axi \in AxiReg /\ ~bvalid /\ ~w_handshake
      /\ beats_sent \in Nat /\ beats_total \in Nat /\ beat_index \in Nat
      /\ beats_sent < beats_total
  BY DEF OpenRead, IInv, OpenInv, TypeOK, ReadInv, Count, w_handshake, WREADY
<1>2. /\ beat_index = IF txn_decerr THEN 0 ELSE beats_sent + (IF rfifo_valid THEN 1 ELSE 0)
      /\ rvalid => /\ txn_decerr \/ rfifo_valid
                   /\ r.last = (beats_sent = beats_total - 1)
  BY <1>1 DEF IInv, ReadInv
<1>3. rvalid => (r.last <=> beats_sent + 1 = beats_total)
  <2>1. beats_sent = beats_total - 1 <=> beats_sent + 1 = beats_total
    BY <1>1
  <2>. QED BY <1>2, <2>1, Zenon
<1>4. ~WriteHeld
  BY <1>1 DEF WriteHeld, OpenWrite, MonitorInv, WriteMonitorInv
<1>5. /\ rd # None /\ rd \in [q : Request, data : Seq(Data)]
      /\ Len(rd.data) = beats_sent /\ rd.q.len + 1 = beats_total
  BY DEF MonitorInv, ReadMonitorInv
<1>6. /\ rd.q \in ARRequests /\ rd.q \in Request /\ Serves(rd.q)
      /\ Buffered(sb.buf_rd, rd.q, FALSE, beat_index) /\ ReadData(rd.q)
      /\ BoardInv /\ ShadowInv
  BY PinAssumption DEF MirrorInv, ReadLink
<1>7. sb.buf_wr = NoQueue
  BY <1>4, <1>6 DEF BoardInv
<1>. QED BY <1>1, <1>2, <1>3, <1>4, <1>5, <1>6, <1>7

\* A read edge as the scoreboard sees it.
LEMMA ReadQuiet ==
    ASSUME IInv, MonitorInv, MirrorInv, OpenRead, NEW in \in BenchInputs,
           NEW first \in BOOLEAN, NEW axi_ahead \in BOOLEAN, BenchEdge(in, first, axi_ahead)
    PROVE  /\ ~BWoken(in) /\ ~WriteHeld' /\ mem' = mem /\ (r_handshake(in) <=> rvalid)
           /\ ~(apb_done(in) /\ rvalid) /\ Progress(in)
           /\ ReadsDone(in) = <<>> => sb' = FromApb(sb, in)
           /\ ~apb_done(in) => /\ sb' = FromAxi(sb, in, first)
                               /\ ReadsDone(in) = <<>> => sb' = sb
<1>1. Edge(in) /\ SlaveBlock(in) /\ WriteMonitor(in, first) /\ WriteMonitorInv
      /\ Report(in, first, axi_ahead)
  BY DEF BenchEdge, MonitorInv
<1>2. ~BWoken(in) /\ ~WriteHeld'
  BY <1>1, ReadWriteMonitor
<1>3. mem' = mem
  BY <1>1, ReadFacts, MemoryAfter DEF BoardInv
<1>4. (r_handshake(in) <=> rvalid) /\ ~(apb_done(in) /\ rvalid)
  BY BenchPins, DoneAt
<1>5. Progress(in)
  BY <1>1, ReadFacts DEF Edge, TxnBlock, AcceptWrite, AcceptRead, aw_handshake, ar_handshake,
                         AWREADY, ARREADY, idle_for_new
<1>6. ReadsDone(in) = <<>> => \A s : FromAxi(s, in, first) = s
  BY <1>2, NothingToReport
<1>7. ~apb_done(in) => \A s : FromApb(s, in) = s
  BY DoneAt DEF FromApb
<1>. QED BY <1>1, <1>2, <1>3, <1>4, <1>5, <1>6, <1>7, Zenon DEF Report

\* A read that goes on.
LEMMA StillReading ==
    ASSUME NEW q \in ARRequests, Serves(q)', rd'.q = q,
           Buffered(sb.buf_rd, q, FALSE, beat_index)', ReadData(q)',
           ~WriteHeld', OpenRead',
           sb' \in Board, ~sb'.mismatch, sb'.pred_wr = NoQueue, sb'.pred_rd = NoQueue,
           sb'.buf_wr = NoQueue, sb'.slv_shadow = sb.slv_shadow, sb.buf_wr = NoQueue,
           BoardInv, ShadowInv, mem' = mem
    PROVE  MirrorInv'
<1>1. WriteLink'
  BY DEF WriteLink
<1>2. ReadLink'
  BY Zenon DEF ReadLink
<1>3. BoardInv'
  BY DEF BoardInv
<1>4. ShadowInv'
  <2>1. sb'.buf_wr = sb.buf_wr
    OBVIOUS
  <2>. QED BY <2>1, Zenon DEF ShadowInv
<1>. QED BY <1>1, <1>2, <1>3, <1>4 DEF MirrorInv

\* APB answers: the word goes into the buffer and to the scoreboard.
LEMMA FetchMirror ==
    ASSUME IInv, MonitorInv, MirrorInv, OpenRead, NEW in \in BenchInputs,
           NEW first \in BOOLEAN, NEW axi_ahead \in BOOLEAN,
           BenchEdge(in, first, axi_ahead), apb_done(in)
    PROVE  MirrorInv'
<1>1. PICK q \in ARRequests : q = rd.q
  BY ReadFacts
<1>2. /\ txn_active /\ ~axi.is_write /\ axi \in AxiReg
      /\ beats_sent \in Nat /\ beats_total \in Nat /\ beat_index \in Nat
      /\ beat_index = IF txn_decerr THEN 0 ELSE beats_sent + (IF rfifo_valid THEN 1 ELSE 0)
      /\ sb.buf_wr = NoQueue /\ rd # None
      /\ q \in Request /\ Serves(q) /\ Buffered(sb.buf_rd, q, FALSE, beat_index) /\ ReadData(q)
      /\ BoardInv /\ ShadowInv
  BY <1>1, ReadFacts
<1>3. /\ ~BWoken(in) /\ ~WriteHeld' /\ mem' = mem /\ ~rvalid /\ ~r_handshake(in) /\ Progress(in)
      /\ ReadsDone(in) = <<>> => sb' = FromApb(sb, in)
  BY ReadQuiet
<1>4. ~rfifo_valid /\ ~txn_decerr /\ axi.sel \in Port /\ axi.addr \in Addr
  BY DoneAt DEF AxiReg
<1>5. Edge(in) /\ ReadMonitor(in)
  BY DEF BenchEdge
<1>6. rd' = rd /\ sb' = FromApb(sb, in)
  BY <1>2, <1>3, <1>5 DEF ReadMonitor, ReadsDone
<1>7. beat_index = beats_sent /\ Legal(q) /\ axi.sel = PortOf(q.addr)
      /\ axi.addr = BeatAddr(q, beat_index + 1)
  BY <1>2, <1>4 DEF Serves
<1>8. Serves(q)' /\ beat_index' = beat_index + 1
  <2>1. /\ Serves(q)'
        /\ beat_index' = beat_index + (IF apb_done(in) \/ (w_handshake /\ txn_decerr)
                                       THEN 1 ELSE 0)
    BY <1>2, <1>5, EdgeServes
  <2>. QED BY <2>1
<1>9. beats_sent' = beats_sent /\ OpenRead'
  BY <1>2, <1>3, <1>5, ReadProgress
<1> DEFINE o == Transfer(axi.sel, in)
           no == FALSE
           here == PortOf(q.addr)
           queues == sb.buf_rd
           now == sb'.buf_rd
<1>10. /\ o \in Observation /\ o.port = here /\ o.addr = BeatAddr(q, beat_index + 1)
       /\ o.write = no /\ o.data = Word(q, beat_index + 1) /\ answer(in).data = o.data
  <2>1. LET t == Transfer(axi.sel, in)
        IN  /\ t \in Observation /\ t.port = axi.sel /\ t.addr = axi.addr
            /\ t.write = axi.is_write
            /\ t.data = IF axi.is_write THEN pbus[axi.sel].data
                        ELSE mem[axi.sel][WordOf(axi.addr)]
            /\ ~axi.is_write => answer(in).data = t.data
    BY <1>2, Observed DEF BoardInv
  <2>2. axi.is_write = FALSE
    BY <1>2 DEF AxiReg
  <2>. QED BY <1>7, <2>1, <2>2 DEF Word
<1>11. /\ sb' \in Board /\ ~sb'.mismatch /\ sb'.pred_wr = NoQueue /\ sb'.pred_rd = NoQueue
       /\ sb'.slv_shadow = sb.slv_shadow /\ sb'.buf_wr = sb.buf_wr
       /\ now = [queues EXCEPT ![here] = Append(@, o)]
  <2>1. o = Transfer(axi.sel, in)
    OBVIOUS
  <2> HIDE DEF o
  <2>2. /\ sb' \in Board /\ ~sb'.mismatch /\ sb'.pred_wr = NoQueue /\ sb'.pred_rd = NoQueue
        /\ sb'.slv_shadow = sb.slv_shadow
        /\ sb'.buf_wr = IF axi.is_write THEN [sb.buf_wr EXCEPT ![axi.sel] = Append(@, o)]
                        ELSE sb.buf_wr
        /\ sb'.buf_rd = IF axi.is_write THEN sb.buf_rd
                        ELSE [sb.buf_rd EXCEPT ![axi.sel] = Append(@, o)]
    BY <1>2, <1>6, <2>1, ApbReported
  <2>. QED BY <1>2, <1>7, <2>2
<1>12. queues \in [Port -> Seq(Observation)] /\ here \in Port /\ no \in BOOLEAN
       /\ Buffered(queues, q, no, beat_index)
  BY <1>2, PortOfType DEF BoardInv, Board, Request
<1>13. Len(queues[here]) = beat_index /\ beat_index \in Nat
  BY <1>2, <1>7, <1>12 DEF Buffered
<1>14. \A p \in Port : \A i \in DOMAIN queues[p] : queues[p][i].data = Word(q, i)
  BY <1>2 DEF ReadData
<1>15. /\ Buffered(now, q, no, beat_index + 1)
       /\ \A p \in Port : \A i \in DOMAIN now[p] : now[p][i].data = Word(q, i)
  <2> HIDE DEF o, no, here, queues, now
  <2>1. Buffered(now, q, no, beat_index + 1)
    <3>1. /\ o.port = PortOf(q.addr) /\ now = [queues EXCEPT ![PortOf(q.addr)] = Append(@, o)]
      BY <1>10, <1>11 DEF here
    <3>. QED BY <1>2, <1>7, <1>10, <1>12, <3>1, BufferedNext
  <2>2. /\ now[here][Len(queues[here]) + 1] = o
        /\ DOMAIN now[here] = 1 .. Len(queues[here]) + 1
        /\ DOMAIN queues[here] = 1 .. Len(queues[here])
        /\ \A j \in 1 .. Len(queues[here]) : now[here][j] = queues[here][j]
        /\ \A other \in Port : other # here => now[other] = queues[other]
    BY <1>10, <1>11, <1>12, OneMore
  <2>3. ASSUME NEW p \in Port, NEW i \in DOMAIN now[p] PROVE now[p][i].data = Word(q, i)
    <3>1. CASE p # here
      BY <1>14, <2>2, <2>3, <3>1
    <3>2. CASE p = here /\ i = beat_index + 1
      BY <1>10, <1>13, <2>2, <3>2
    <3>3. CASE p = here /\ i # beat_index + 1
      <4>1. i \in 1 .. Len(queues[here])
        <5>1. i \in 1 .. Len(queues[here]) + 1
          BY <2>2, <2>3, <3>3
        <5>. QED BY <1>13, <3>3, <5>1
      <4>. QED BY <1>14, <2>2, <3>3, <4>1
    <3>. QED BY <3>1, <3>2, <3>3
  <2>. QED BY <2>1, <2>3
<1>16. Buffered(sb.buf_rd, q, FALSE, beat_index)'
  <2>1. Buffered(now, q, no, beat_index')
    BY <1>8, <1>15
  <2>. QED BY <2>1
<1>17. \A i : Word(q, i)' = Word(q, i)
  BY <1>3 DEF Word
<1>18. rfifo'.data = Word(q, beats_sent + 1)
  BY <1>2, <1>3, <1>7, <1>10 DEF Progress
<1>19. ~rvalid'
  <2>1. ~r_due
    BY <1>4 DEF r_due
  <2>. QED BY <1>3, <1>5, <2>1 DEF Edge, RBlock, rRegs
<1>20. ReadData(q)'
  <2>1. \A i \in DOMAIN rd.data : rd.data[i] = Word(q, i)
    BY <1>2 DEF ReadData
  <2> HIDE DEF o, no, here, queues
  <2>. QED BY <1>6, <1>9, <1>15, <1>17, <1>18, <1>19, <2>1 DEF ReadData
<1>21. rd'.q = q
  BY <1>1, <1>6
<1>. QED BY <1>2, <1>3, <1>8, <1>9, <1>11, <1>16, <1>20, <1>21, StillReading

\* A beat is handed over: captured, and with the last one the read is reported.
LEMMA HandMirror ==
    ASSUME IInv, MonitorInv, MirrorInv, OpenRead, NEW in \in BenchInputs,
           NEW first \in BOOLEAN, NEW axi_ahead \in BOOLEAN,
           BenchEdge(in, first, axi_ahead), rvalid
    PROVE  MirrorInv'
<1>1. PICK q \in ARRequests : q = rd.q
  BY ReadFacts
<1>2. /\ txn_active /\ ~axi.is_write /\ axi \in AxiReg /\ ~w_handshake
      /\ beats_sent \in Nat /\ beats_total \in Nat /\ beat_index \in Nat
      /\ beats_sent < beats_total
      /\ beat_index = IF txn_decerr THEN 0 ELSE beats_sent + (IF rfifo_valid THEN 1 ELSE 0)
      /\ sb.buf_wr = NoQueue /\ rd # None /\ (txn_decerr \/ rfifo_valid)
      /\ r.last <=> beats_sent + 1 = beats_total
      /\ q \in Request /\ Serves(q) /\ Buffered(sb.buf_rd, q, FALSE, beat_index) /\ ReadData(q)
      /\ BoardInv /\ ShadowInv /\ rd.data \in Seq(Data)
      /\ Len(rd.data) = beats_sent /\ q.len + 1 = beats_total
  BY <1>1, ReadFacts
<1>3. /\ ~WriteHeld' /\ mem' = mem /\ r_handshake(in) /\ ~apb_done(in) /\ Progress(in)
      /\ sb' = FromAxi(sb, in, first) /\ ~BWoken(in)
      /\ ReadsDone(in) = <<>> => sb' = sb
  BY ReadQuiet
<1>4. Edge(in) /\ ReadMonitor(in) /\ r.data \in Data
  BY BenchPins DEF BenchEdge
<1> DEFINE data == Append(rd.data, r.data)
<1>5. /\ data \in Seq(Data) /\ Len(data) = beats_sent + 1
      /\ \A i \in 1 .. beats_sent + 1 : data[i] = Word(q, i)
      /\ DOMAIN data = 1 .. beats_sent + 1
  <2>1. /\ data \in Seq(Data) /\ Len(data) = beats_sent + 1 /\ data[beats_sent + 1] = r.data
        /\ \A i \in 1 .. beats_sent : data[i] = rd.data[i]
    BY <1>2, <1>4, AppendProperties
  <2>2. DOMAIN rd.data = 1 .. beats_sent
    BY <1>2, LenProperties
  <2>3. r.data = Word(q, beats_sent + 1) /\ \A i \in 1 .. beats_sent : rd.data[i] = Word(q, i)
    BY <1>2, <2>2 DEF ReadData
  <2>4. DOMAIN data = 1 .. beats_sent + 1
    BY <2>1, LenProperties
  <2> HIDE DEF data
  <2>5. ASSUME NEW i \in 1 .. beats_sent + 1 PROVE data[i] = Word(q, i)
    BY <1>2, <2>1, <2>3
  <2>. QED BY <2>1, <2>4, <2>5
<1>6. RdSeen(in) = [rd EXCEPT !.data = data] /\ RdSeen(in).data = data /\ RdSeen(in).q = q
  <2>1. rd \in [q : Request, data : Seq(Data)]
    BY ReadFacts
  <2>. QED BY <1>1, <2>1 DEF RdSeen
<1>7. beats_sent' = beats_sent + 1
  BY <1>2, <1>3, <1>4, ReadProgress
<1> HIDE DEF data
<1>8. CASE beats_sent + 1 = beats_total
  <2> DEFINE rep == [q |-> q, data |-> data, resp |-> r.resp]
             resp == r.resp
  <2>1. ReadsDone(in) = <<rep>> /\ ~OpenRead'
    <3>1. ~OpenRead'
      BY <1>3, <1>4, <1>8, ReadProgress
    <3>. QED BY <1>1, <1>2, <1>3, <1>6, <1>8, <3>1 DEF ReadsDone
  <2>2. <<rep>> # <<>> /\ Head(<<rep>>) = rep
    <3> HIDE DEF rep
    <3>. QED BY SMT
  <2>3. sb' = write_axi_rd(sb, rep)
    <3>1. WritesDone(in, first) = <<>>
      BY <1>3 DEF WritesDone
    <3> HIDE DEF rep
    <3>. QED BY <1>3, <2>1, <2>2, <3>1, Zenon DEF FromAxi
  <2>4. BeatsSeen(sb.buf_rd, q, FALSE, data)
    <3>1. ASSUME NEW p \in Port
          PROVE  /\ Len(sb.buf_rd[p]) = IF Legal(q) /\ p = PortOf(q.addr) THEN Len(data) ELSE 0
                 /\ \A i \in 1 .. Len(sb.buf_rd[p]) :
                       /\ sb.buf_rd[p][i].port = p /\ sb.buf_rd[p][i].addr = BeatAddr(q, i)
                       /\ sb.buf_rd[p][i].write = FALSE
                       /\ sb.buf_rd[p][i].data = data[i]
      <4>1. sb.buf_rd[p] \in Seq(Observation)
        BY <1>2 DEF BoardInv, Board
      <4>2. DOMAIN sb.buf_rd[p] = 1 .. Len(sb.buf_rd[p]) /\ Len(sb.buf_rd[p]) \in Nat
        BY <4>1, LenProperties
      <4>3. Len(sb.buf_rd[p]) = IF Legal(q) /\ p = PortOf(q.addr) THEN Len(data) ELSE 0
        BY <1>2, <1>5 DEF Buffered, Serves
      <4>4. ASSUME NEW i \in 1 .. Len(sb.buf_rd[p])
            PROVE  /\ sb.buf_rd[p][i].port = p /\ sb.buf_rd[p][i].addr = BeatAddr(q, i)
                   /\ sb.buf_rd[p][i].write = FALSE
                   /\ sb.buf_rd[p][i].data = data[i]
        <5>1. /\ sb.buf_rd[p][i].port = p /\ sb.buf_rd[p][i].addr = BeatAddr(q, i)
              /\ sb.buf_rd[p][i].write = FALSE /\ sb.buf_rd[p][i].data = Word(q, i)
          BY <1>2, <4>2 DEF Buffered, ReadData
        <5>2. i \in 1 .. beats_sent + 1
          BY <1>2, <1>5, <4>2, <4>3
        <5>. QED BY <1>5, <5>1, <5>2
      <4>. QED BY <4>3, <4>4
    <3>. QED BY <3>1, Zenon DEF BeatsSeen
  <2>5. resp = "DECERR" <=> ~Legal(q)
    BY <1>2 DEF ReadData
  <2>6. /\ ~Legal(q) => \A i \in 1 .. q.len + 1 : data[i] = Zeros
        /\ Legal(q) => \A i \in 1 .. q.len + 1 :
              data[i] = sb.slv_shadow[ram_key_of(PortOf(BeatAddr(q, i)), BeatAddr(q, i))]
    <3>1. \A i \in 1 .. q.len + 1 : data[i] = Word(q, i)
      BY <1>2, <1>5, <1>8
    <3>2. ~Legal(q) => \A i : Word(q, i) = Zeros
      BY MirrorAssumption DEF Word
    <3>3. ASSUME Legal(q), NEW i \in 1 .. q.len + 1
          PROVE  data[i] = sb.slv_shadow[ram_key_of(PortOf(BeatAddr(q, i)), BeatAddr(q, i))]
      BY <1>2, <3>1, <3>3, ShadowOfWord
    <3>. QED BY <3>1, <3>2, <3>3
  <2>7. ReadSettles(sb, write_axi_rd(sb, rep))
    <3>1. /\ sb \in Board /\ sb.pred_rd = NoQueue /\ Len(data) = q.len + 1
      BY <1>2, <1>5, <1>8 DEF BoardInv
    <3> HIDE DEF resp
    <3>2. ReadSettles(sb, write_axi_rd(sb, [q |-> q, data |-> data, resp |-> resp]))
      BY <1>2, <1>5, <2>4, <2>5, <2>6, <3>1, ReadReported
    <3>. QED BY <3>2 DEF resp
  <2> HIDE DEF rep
  <2>8. /\ sb' \in Board /\ sb'.pred_rd = NoQueue /\ sb'.buf_rd = NoQueue
        /\ sb'.slv_shadow = sb.slv_shadow /\ sb'.mismatch = sb.mismatch
        /\ sb'.pred_wr = sb.pred_wr /\ sb'.buf_wr = sb.buf_wr
    BY <2>3, <2>7 DEF ReadSettles
  <2>9. BoardInv'
    BY <1>2, <1>3, <2>8 DEF BoardInv
  <2>10. ShadowInv'
    BY <1>2, <1>3, <2>8, Zenon DEF ShadowInv
  <2>. QED BY <1>3, <2>1, <2>9, <2>10 DEF MirrorInv, WriteLink, ReadLink
<1>9. CASE beats_sent + 1 # beats_total
  <2>1. ReadsDone(in) = <<>> /\ OpenRead'
    BY <1>2, <1>3, <1>4, <1>9, ReadProgress DEF ReadsDone
  <2>2. sb' = sb /\ rd' = RdSeen(in)
    BY <1>2, <1>3, <1>4, <1>5, <1>6, <1>9, <2>1 DEF ReadMonitor
  <2>3. Serves(q)' /\ beat_index' = beat_index
    <3>1. /\ Serves(q)'
          /\ beat_index' = beat_index + (IF apb_done(in) \/ (w_handshake /\ txn_decerr)
                                         THEN 1 ELSE 0)
      BY <1>2, <1>4, EdgeServes
    <3>. QED BY <1>2, <1>3, <3>1
  <2>4. ~rvalid' /\ ~rfifo_valid'
    BY <1>3, <1>4 DEF Edge, RBlock, Progress
  <2>5. Buffered(sb.buf_rd, q, FALSE, beat_index)'
    BY <1>2, <2>2, <2>3 DEF Buffered
  <2>6. \A i : Word(q, i)' = Word(q, i)
    BY <1>3 DEF Word
  <2>7. ReadData(q)'
    BY <1>2, <1>5, <1>6, <2>2, <2>4, <2>6 DEF ReadData
  <2>8. rd'.q = q
    BY <1>6, <2>2
  <2>9. sb \in Board /\ ~sb.mismatch /\ sb.pred_wr = NoQueue /\ sb.pred_rd = NoQueue
    BY <1>2 DEF BoardInv
  <2>. QED BY <1>2, <1>3, <2>1, <2>2, <2>3, <2>5, <2>7, <2>8, <2>9, StillReading
<1>. QED BY <1>8, <1>9

\* Neither: the bridge may start a transfer or offer the next beat.
LEMMA OfferMirror ==
    ASSUME IInv, MonitorInv, MirrorInv, OpenRead, NEW in \in BenchInputs,
           NEW first \in BOOLEAN, NEW axi_ahead \in BOOLEAN,
           BenchEdge(in, first, axi_ahead), ~apb_done(in), ~rvalid
    PROVE  MirrorInv'
<1>1. PICK q \in ARRequests : q = rd.q
  BY ReadFacts
<1>2. /\ txn_active /\ ~w_handshake
      /\ beats_sent \in Nat /\ beats_total \in Nat /\ beat_index \in Nat
      /\ sb.buf_wr = NoQueue /\ rd # None
      /\ q \in Request /\ Serves(q) /\ Buffered(sb.buf_rd, q, FALSE, beat_index) /\ ReadData(q)
      /\ BoardInv /\ ShadowInv
  BY <1>1, ReadFacts
<1>3. /\ ~WriteHeld' /\ mem' = mem /\ ~r_handshake(in) /\ Progress(in)
      /\ ReadsDone(in) = <<>> => sb' = sb
  BY ReadQuiet
<1>4. Edge(in) /\ ReadMonitor(in)
  BY DEF BenchEdge
<1>5. rd' = rd /\ sb' = sb
  BY <1>2, <1>3, <1>4 DEF ReadMonitor, ReadsDone
<1>6. Serves(q)' /\ beat_index' = beat_index
  <2>1. /\ Serves(q)'
        /\ beat_index' = beat_index + (IF apb_done(in) \/ (w_handshake /\ txn_decerr)
                                       THEN 1 ELSE 0)
    BY <1>2, <1>4, EdgeServes
  <2>. QED BY <1>2, <2>1
<1>7. beats_sent' = beats_sent /\ OpenRead'
  BY <1>2, <1>3, <1>4, ReadProgress
<1>8. rfifo' = rfifo /\ (rfifo_valid' => rfifo_valid)
  BY <1>3 DEF Progress
<1>9. \A i : Word(q, i)' = Word(q, i)
  BY <1>3 DEF Word
<1>10. rvalid' => /\ r'.data = Word(q, beats_sent + 1)
                  /\ r'.resp = "DECERR" <=> ~Legal(q)
  <2>1. SUFFICES ASSUME rvalid' PROVE r'.data = Word(q, beats_sent + 1)
                                      /\ (r'.resp = "DECERR" <=> ~Legal(q))
    OBVIOUS
  <2>2. r_due
    BY <1>3, <1>4, <2>1 DEF Edge, RBlock, rRegs
  <2>3. /\ r'.data = IF txn_decerr THEN Zero ELSE rfifo.data
        /\ r'.resp = IF txn_decerr THEN "DECERR" ELSE rfifo.resp
    BY <1>3, <1>4, <2>2 DEF Edge, RBlock
  <2>4. txn_decerr <=> ~Legal(q)
    BY <1>2 DEF Serves
  <2>5. CASE txn_decerr
    BY <2>3, <2>4, <2>5 DEF Word
  <2>6. CASE ~txn_decerr
    <3>1. rfifo_valid /\ rfifo \in RFifo
      BY <2>2, <2>6 DEF r_due, IInv, ReadInv, TypeOK
    <3>2. rfifo.data = Word(q, beats_sent + 1) /\ rfifo.resp # "DECERR"
      BY <1>2, <3>1 DEF ReadData, RFifo
    <3>. QED BY <2>3, <2>4, <2>6, <3>2
  <2>. QED BY <2>5, <2>6
<1>11. Buffered(sb.buf_rd, q, FALSE, beat_index)'
  BY <1>2, <1>5, <1>6 DEF Buffered
<1>12. ReadData(q)'
  BY <1>2, <1>5, <1>7, <1>8, <1>9, <1>10 DEF ReadData
<1>13. rd'.q = q /\ sb \in Board /\ ~sb.mismatch /\ sb.pred_wr = NoQueue /\ sb.pred_rd = NoQueue
  BY <1>1, <1>2, <1>5 DEF BoardInv
<1>. QED BY <1>2, <1>3, <1>5, <1>6, <1>7, <1>11, <1>12, <1>13, StillReading

----------------------------------------------------------------------------
(* The mirror, and what follows from it.                                   *)

LEMMA MirrorNext == IInv /\ MonitorInv /\ MirrorInv /\ [BenchNext]_allVars => MirrorInv'
<1>. SUFFICES ASSUME IInv, MonitorInv, MirrorInv, [BenchNext]_allVars PROVE MirrorInv'
  OBVIOUS
<1>1. CASE UNCHANGED allVars
  BY <1>1, QuietMirror DEF allVars, vars
<1>2. CASE MasterStep /\ UNCHANGED bench
  <2>1. UNCHANGED <<txnRegs, apbRegs, bRegs, rRegs>>
    BY <1>2 DEF MasterStep, RaiseAW, RaiseAR, RaiseW
  <2>. QED BY <1>2, <2>1, QuietMirror
<1>3. ASSUME NEW in \in BenchInputs, NEW first \in BOOLEAN, NEW axi_ahead \in BOOLEAN,
             BenchEdge(in, first, axi_ahead)
      PROVE  MirrorInv'
  <2>1. CASE ~txn_active
    BY <1>3, <2>1, IdleMirror
  <2>2. CASE OpenWrite
    BY <1>3, <2>2, AnsweredMirror, WriteMirror
  <2>3. CASE OpenRead
    BY <1>3, <2>3, FetchMirror, HandMirror, OfferMirror
  <2>. QED BY <2>1, <2>2, <2>3 DEF OpenWrite, OpenRead
<1>. QED BY <1>1, <1>2, <1>3 DEF BenchNext

LEMMA MirrorInit == BenchInit => MirrorInv
<1>. SUFFICES ASSUME BenchInit PROVE MirrorInv
  OBVIOUS
<1>1. ~OpenWrite /\ ~OpenRead /\ ~WriteHeld /\ sb = Fresh
  BY DEF BenchInit, Init, OpenWrite, OpenRead, WriteHeld
<1>2. /\ NoQueue \in [Port -> Seq(Prediction)] /\ NoQueue \in [Port -> Seq(Observation)]
  <2>1. <<>> \in Seq(Prediction) /\ <<>> \in Seq(Observation)
    BY EmptySeq
  <2>. QED BY <2>1 DEF NoQueue
<1> DEFINE dark == [k \in Port \X (0 .. Keys - 1) |-> Zeros]
<1>3. Zeros \in Data /\ Zero = Zeros /\ Keys = Words
  BY MirrorAssumption, PinAssumption
<1>4. dark \in [Port \X (0 .. Keys - 1) -> Data]
  BY <1>3
<1>5. /\ Fresh.pred_wr = NoQueue /\ Fresh.pred_rd = NoQueue /\ Fresh.buf_wr = NoQueue
      /\ Fresh.buf_rd = NoQueue /\ Fresh.slv_shadow = dark /\ Fresh.mismatch = FALSE
      /\ Fresh = [f \in {"pred_wr", "pred_rd", "buf_wr", "buf_rd", "slv_shadow", "mismatch"} |->
                    Fresh[f]]
  BY DEF Fresh
<1>6. Fresh \in Board
  <2> HIDE DEF dark
  <2>. QED BY <1>2, <1>4, <1>5, IsBoard
<1>7. BoardInv
  <2>1. mem \in [Port -> [0 .. Words - 1 -> Data]]
    BY <1>3 DEF BenchInit
  <2>. QED BY <1>1, <1>5, <1>6, <2>1 DEF BoardInv
<1>8. ShadowInv
  <2>1. ASSUME NEW p \in Port, NEW i \in 0 .. Words - 1
        PROVE  mem[p][i] = Committed(sb.slv_shadow, sb.buf_wr[p])[<<p, i>>]
    <3>1. Committed(sb.slv_shadow, sb.buf_wr[p]) = dark
      BY <1>1, <1>5, <1>6, ShadowNow
    <3>2. dark[<<p, i>>] = Zeros
      BY <1>3
    <3>3. mem[p][i] = Zeros
      BY <1>3 DEF BenchInit
    <3>. QED BY <3>1, <3>2, <3>3
  <2>. QED BY <2>1, Zenon DEF ShadowInv
<1>. QED BY <1>1, <1>7, <1>8 DEF MirrorInv, WriteLink, ReadLink

\* The scoreboard's queues are the transfers of the open transaction, and its
\* shadow is the memory of the slaves but for the writes not yet reported, in
\* every state of the bench, for every set of requests, every order in which
\* the processes run and every length of run.
THEOREM BoardMirrors == BenchSpec => []MirrorInv
<1>1. IInv /\ MonitorInv /\ MirrorInv /\ [BenchNext]_allVars => MirrorInv'
  BY MirrorNext
<1>2. BenchInit => MirrorInv
  BY MirrorInit
<1>. QED BY <1>1, <1>2, MonitorInvariant, PTL DEF BenchSpec

\* A bridge that keeps the contract raises no UVM error: no prediction is
\* ever compared with the transfers, the data or the response of another
\* burst, and no read with a stale shadow (bridge_scoreboard.sv:116-165).
THEOREM NoFalseAlarms == BenchSpec => []NoFalseAlarm
<1>1. MirrorInv => NoFalseAlarm
  BY DEF MirrorInv, BoardInv, NoFalseAlarm
<1>. QED BY <1>1, BoardMirrors, PTL

\* Whenever the bridge is between transactions and no B process is late, the
\* queues that report_phase looks at are empty (bridge_scoreboard.sv:326-337).
THEOREM AllDrained == BenchSpec => []Drained
<1>1. IInv /\ MonitorInv /\ MirrorInv => Drained
  <2>1. SUFFICES ASSUME IInv, MonitorInv, MirrorInv, ~txn_active, ~b_late
                 PROVE  AllMatched(sb) /\ MonitorsEmpty
    BY DEF Drained
  <2>2. ~OpenWrite /\ ~OpenRead /\ ~WriteHeld
    BY <2>1 DEF OpenWrite, OpenRead, WriteHeld
  <2>3. AllMatched(sb)
    BY <2>1, <2>2 DEF MirrorInv, BoardInv, AllMatched, NoQueue
  <2>4. MonitorsEmpty
    BY <2>1, <2>2, NothingIn DEF MonitorInv, WriteMonitorInv, ReadMonitorInv, MonitorsEmpty
  <2>. QED BY <2>3, <2>4
<1>. QED BY <1>1, MonitorInvariant, BoardMirrors, PTL
=============================================================================
