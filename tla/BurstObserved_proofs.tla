------------------------ MODULE BurstObserved_proofs ------------------------
(***************************************************************************)
(* Proofs about the burst bridge and the record of its pins, for every set *)
(* of requests, beats and slave answers, every burst length and every      *)
(* address map that the assumptions admit: the bridge implements the       *)
(* serial machine of SerialBridge, whose promises about responses follow.  *)
(***************************************************************************)
EXTENDS BurstObserved, AxiApbBurst_proofs

----------------------------------------------------------------------------
(* Sequences.                                                              *)

LEMMA AppendFacts ==
    ASSUME NEW S, NEW s \in Seq(S), NEW e \in S
    PROVE  /\ Append(s, e) \in Seq(S) /\ Len(s) \in Nat
           /\ Len(Append(s, e)) = Len(s) + 1
           /\ Append(s, e)[Len(s) + 1] = e
           /\ \A i \in 1 .. Len(s) : Append(s, e)[i] = s[i]
           /\ Append(s, e) # <<>>
  BY SMT

----------------------------------------------------------------------------
(* What the observer records on an edge.                                   *)

\* A transfer completes on the latched port or nowhere.
LEMMA DoneAt ==
    ASSUME IInv, NEW in \in Inputs
    PROVE  /\ apb_done(in) => done_at(in) = {axi.sel}
           /\ ~apb_done(in) => done_at(in) = {}
<1>1. apb_done(in) => axi.sel \in Port
  BY DEF apb_done, IInv, OpenInv, TypeOK, AxiReg
<1>. QED BY <1>1 DEF done_at, apb_done, answer, IInv, PortInv

LEMMA Records ==
    ASSUME IInv, NEW in \in Inputs, Observe(in), ~accept
    PROVE  /\ cur' = cur
           /\ wlog' = IF w_handshake THEN Append(wlog, w) ELSE wlog
           /\ rlog' = IF r_handshake(in) THEN Append(rlog, r) ELSE rlog
           /\ blog' = IF b_handshake(in) THEN Append(blog, b) ELSE blog
           /\ plog' = IF apb_done(in) THEN Append(plog, Transfer(axi.sel, in)) ELSE plog
           /\ live' = (live /\ ~b_handshake(in) /\ ~(r_handshake(in) /\ r.last))
<1>1. plog' = IF apb_done(in) THEN Append(plog, Transfer(axi.sel, in)) ELSE plog
  <2>1. CASE apb_done(in)
    <3>1. done_at(in) = {axi.sel}
      BY <2>1, DoneAt
    <3>2. /\ done_at(in) # {}
          /\ \A p \in done_at(in) : p = axi.sel
      BY <3>1
    <3>. QED BY <2>1, <3>2, Zenon DEF Observe
  <2>2. CASE ~apb_done(in)
    <3>1. done_at(in) = {}
      BY <2>2, DoneAt
    <3>2. ~\E p \in done_at(in) : plog' = Append(plog, Transfer(p, in))
      BY <3>1
    <3>. QED BY <2>2, <3>2, Zenon DEF Observe
  <2>. QED BY <2>1, <2>2
<1>2. /\ cur' = cur
      /\ wlog' = LogIf(wlog, w_handshake, w)
      /\ rlog' = LogIf(rlog, r_handshake(in), r)
      /\ blog' = LogIf(blog, b_handshake(in), b)
      /\ live' = (live /\ ~b_handshake(in) /\ ~(r_handshake(in) /\ r.last))
  BY Zenon DEF Observe
<1>. QED BY <1>1, <1>2 DEF LogIf

\* Types of the open transaction.
LEMMA LiveTypes ==
    ASSUME IInv, LinkInv, live
    PROVE  /\ txn_active
           /\ cur.write \in BOOLEAN /\ cur.q \in Request
           /\ cur.q.id \in Nat /\ cur.q.prot \in Nat /\ cur.q.len \in Nat
           /\ cur.q.len < LenMax + 1
           /\ axi \in AxiReg /\ axi.sel \in Port
           /\ beat_index \in Nat /\ beats_sent \in Nat /\ beats_total \in Nat
           /\ beats_total = cur.q.len + 1
           /\ txn_decerr \in BOOLEAN
           /\ txn_decerr <=> ~Legal(cur.q)
           /\ axi.is_write = cur.write
           /\ plog \in Seq(Transfers)
<1>1. txn_active /\ cur \in Accepted /\ beats_total = cur.q.len + 1
      /\ (txn_decerr <=> ~Legal(cur.q)) /\ axi.is_write = cur.write /\ plog \in Seq(Transfers)
  BY DEF LinkInv, LatchLink, TransferLink
<1>2. cur.write \in BOOLEAN /\ cur.q \in Request
  BY <1>1 DEF Accepted
<1>3. cur.q.id \in Nat /\ cur.q.prot \in Nat /\ cur.q.len \in 0 .. LenMax
  BY <1>2 DEF Request
<1>4. axi \in AxiReg /\ axi.sel \in Port
  BY <1>1 DEF IInv, OpenInv, TypeOK, AxiReg
<1>5. beat_index \in Nat /\ beats_sent \in Nat /\ beats_total \in Nat /\ txn_decerr \in BOOLEAN
  BY AddressAssumption DEF IInv, TypeOK, Count
<1>6. cur.q.len \in Nat /\ cur.q.len < LenMax + 1
  BY <1>3, AddressAssumption
<1>. QED BY <1>1, <1>2, <1>3, <1>4, <1>5, <1>6

Simulates == [Promise!Next]_(Promise!vars) /\ LinkInv'

LEMMA Stutter == UNCHANGED obs => [Promise!Next]_(Promise!vars)
  BY DEF obs, Promise!vars

\* The latches stand while no beat of a legal transaction is counted.
LEMMA LatchKept ==
    ASSUME LinkInv, cur' = cur, live' => live,
           UNCHANGED <<axi, beats_total, txn_decerr>>,
           Legal(cur.q) => beat_index' = beat_index
    PROVE  LatchLink'
  BY DEF LinkInv, LatchLink

\* The record of the transfers stands while none completes.
LEMMA TransferKept ==
    ASSUME LinkInv, cur' = cur, live' => live, plog' = plog,
           UNCHANGED <<axi, pslverr_acc>>,
           Legal(cur.q) => beat_index' = beat_index,
           apb_state' # "IDLE" /\ live' =>
               \/ apb_state # "IDLE" /\ pbus' = pbus
               \/ pbus'[axi.sel].prot = axi.prot
    PROVE  TransferLink'
  BY DEF LinkInv, TransferLink

----------------------------------------------------------------------------
(* An edge that accepts an address.                                        *)

LEMMA AcceptSim ==
    ASSUME IInv, LinkInv, NEW in \in Inputs, Edge(in), NEW q \in Request,
           NEW isWrite \in BOOLEAN, idle_for_new, Latch(q, isWrite), rfifo_valid' = FALSE,
           isWrite => q \in AWRequests, ~isWrite => q \in ARRequests,
           cur' = [write |-> isWrite, q |-> q], live' = TRUE,
           wlog' = <<>>, plog' = <<>>, rlog' = <<>>, blog' = <<>>
    PROVE  Simulates
<1>1. apb_state' = "IDLE" /\ bvalid' = FALSE /\ rvalid' = FALSE
  BY AcceptQuiet DEF Edge
<1>2. /\ cur' \in Accepted /\ cur'.q = q /\ cur'.write = isWrite
  BY DEF Accepted
<1>3. beats_total' = q.len + 1 /\ axi'.is_write = isWrite
  BY LatchInv
<1>4. txn_decerr' <=> ~Legal(q)
  BY RefusesIllegal DEF Latch
<1>5. /\ axi'.id = q.id /\ axi'.prot = q.prot /\ axi'.bytes = q.bytes
      /\ axi'.burst = q.burst /\ axi'.sel = PortOf(q.addr)
      /\ axi'.addr = BeatAddr(q, 1)
  BY BeatAddrFirst DEF Latch
<1>6. /\ txn_active' = TRUE /\ beat_index' = 0 /\ beats_sent' = 0
      /\ pslverr_acc' = FALSE /\ wlast_err' = FALSE /\ w_done' = FALSE
  BY DEF Latch
<1>7. Promise!Next
  <2>1. ~live
    BY DEF idle_for_new, LinkInv
  <2>2. Promise!Accept(q, isWrite)
    BY <2>1 DEF Promise!Accept, Promise!Cleared
  <2>3. CASE isWrite
    <3>1. Promise!Accept(q, TRUE) /\ q \in AWRequests
      BY <2>2, <2>3 DEF Promise!Accept
    <3>. QED BY <3>1 DEF Promise!Next
  <2>4. CASE ~isWrite
    <3>1. Promise!Accept(q, FALSE) /\ q \in ARRequests
      BY <2>2, <2>4 DEF Promise!Accept
    <3>. QED BY <3>1 DEF Promise!Next
  <2>. QED BY <2>3, <2>4
<1>8. LatchLink'
  BY <1>2, <1>3, <1>4, <1>5, <1>6 DEF LatchLink
<1>9. Len(<<>>) = 0 /\ \A S : <<>> \in Seq(S)
  OBVIOUS
<1>10. TransferLink'
  BY <1>1, <1>6, <1>9 DEF TransferLink
<1>11. WriteLink'
  BY <1>1, <1>6, <1>9 DEF WriteLink, Promise!DataDone, Promise!Malformed
<1>12. ReadLink'
  BY <1>1, <1>6, <1>9 DEF ReadLink
<1>. QED BY <1>6, <1>7, <1>8, <1>10, <1>11, <1>12 DEF Simulates, LinkInv, ClosedLink

----------------------------------------------------------------------------
(* Edges of an open transaction.                                           *)

\* No transaction open: nothing is recorded.
LEMMA IdleSim ==
    ASSUME IInv, LinkInv, NEW in \in Inputs, Edge(in), Progress(in), Observe(in),
           ~accept, ~live
    PROVE  Simulates
<1>1. ~txn_active /\ apb_state = "IDLE" /\ ~bvalid /\ ~rvalid
  BY DEF LinkInv, IInv, OpenInv
<1>2. ~w_handshake /\ ~apb_done(in) /\ ~b_handshake(in) /\ ~r_handshake(in)
  BY <1>1 DEF w_handshake, WREADY, apb_done, b_handshake, r_handshake
<1>3. /\ cur' = cur /\ wlog' = wlog /\ plog' = plog /\ rlog' = rlog /\ blog' = blog
      /\ live' = FALSE /\ live = FALSE
  BY <1>2, Records DEF LinkInv, IInv, TypeOK
<1>4. txn_active' = FALSE
  BY <1>1 DEF Progress
<1>5. LinkInv'
  BY <1>3, <1>4 DEF LinkInv, LatchLink, TransferLink, WriteLink, ReadLink, ClosedLink
<1>. QED BY <1>3, <1>5, Stutter DEF obs, Simulates

\* A transfer in its setup cycle, or waiting for the slave.
LEMMA TransferSim ==
    ASSUME IInv, LinkInv, NEW in \in Inputs, Edge(in), Progress(in), Observe(in),
           ~accept, live, apb_state # "IDLE", ~apb_done(in)
    PROVE  Simulates
<1>1. /\ bvalid = FALSE /\ rvalid = FALSE /\ rfifo_valid = FALSE /\ txn_active
      /\ txn_decerr = FALSE
  BY DEF LinkInv, IInv, ApbInv, TypeOK
<1>2. /\ ~w_handshake /\ ~b_handshake(in) /\ ~r_handshake(in) /\ ~b_due /\ ~r_due
  BY <1>1 DEF w_handshake, WREADY, b_handshake, r_handshake, b_due, r_due
<1>3. /\ UNCHANGED <<axi, beat_index, beats_sent, beats_total, txn_active,
                     txn_decerr, w_done, wlast_err, pslverr_acc, rfifo, rfifo_valid>>
  BY <1>1, <1>2 DEF Progress, IInv, TypeOK
<1>4. bvalid' = FALSE /\ rvalid' = FALSE
  BY <1>1, <1>2 DEF Edge, BBlock, RBlock, bRegs, rRegs
<1>5. apb_state' # "IDLE" /\ pbus' = pbus
  BY DEF Edge, ApbBlock, ApbStartWrite, ApbStartRead, ApbIdle, ApbSetup, ApbWait,
         ApbComplete, apbRegs, apbPins
<1>6. UNCHANGED <<cur, wlog, plog, rlog, blog, live>>
  <2>1. live \in BOOLEAN
    BY DEF LinkInv, IInv, TypeOK
  <2>. QED BY <1>2, <2>1, Records
<1>7. LatchLink' /\ TransferLink'
  BY <1>3, <1>5, <1>6, LatchKept, TransferKept
<1>8. WriteLink'
  BY <1>3, <1>4, <1>5, <1>6 DEF LinkInv, WriteLink, Promise!DataDone, Promise!Malformed
<1>9. ReadLink'
  BY <1>1, <1>3, <1>4, <1>6 DEF LinkInv, ReadLink
<1>10. LinkInv'
  BY <1>3, <1>6, <1>7, <1>8, <1>9 DEF LinkInv, ClosedLink
<1>. QED BY <1>6, <1>10, Stutter DEF obs, Simulates

\* The address register steps from the address of a beat to the next one's.
LEMMA AddrStep ==
    ASSUME IInv, LinkInv, NEW in \in Inputs, Progress(in), live, apb_done(in),
           Legal(cur.q)
    PROVE  axi'.addr = BeatAddr(cur.q, beat_index + 1 + 1)
<1>1. /\ axi \in AxiReg /\ cur.q \in Request /\ beat_index \in Nat
      /\ axi.bytes = cur.q.bytes /\ axi.burst = cur.q.burst
      /\ axi.addr = BeatAddr(cur.q, beat_index + 1)
  BY LiveTypes DEF LinkInv, LatchLink
<1>2. CASE axi.burst = "INCR"
  <2>1. axi' = [axi EXCEPT !.addr = (@ + axi.bytes) % AddrSpace]
    BY <1>2 DEF Progress
  <2>2. axi'.addr = (axi.addr + axi.bytes) % AddrSpace
    BY <1>1, <2>1 DEF AxiReg
  <2>. QED BY <1>1, <1>2, <2>2, BeatAddrNext
<1>3. CASE axi.burst # "INCR"
  BY <1>1, <1>3 DEF Progress, BeatAddr
<1>. QED BY <1>2, <1>3

\* What the slave saw of the transfer that completes is the next beat.
LEMMA CompleteRecord ==
    ASSUME IInv, LinkInv, NEW in \in Inputs, live, apb_done(in)
    PROVE  LET n == Len(plog) + 1
               d == IF cur.write THEN wlog[n].data ELSE answer(in).data
           IN  /\ Transfer(axi.sel, in) = Promise!BeatTransfer(n, d, answer(in).err)
               /\ Transfer(axi.sel, in) \in Transfers
               /\ Legal(cur.q) /\ n = beat_index + 1 /\ beat_index < cur.q.len + 1
               /\ cur.write => n = Len(wlog) /\ wlog \in Seq(WBeats)
               /\ d \in Data /\ answer(in).err \in BOOLEAN /\ answer(in).data \in Data
<1> DEFINE n == Len(plog) + 1
           d == IF cur.write THEN wlog[n].data ELSE answer(in).data
<1>1. /\ apb_state = "ACCESS" /\ txn_decerr = FALSE /\ beat_index < beats_total
      /\ txn_active
  BY DEF apb_done, LinkInv, IInv, ApbInv, TypeOK
<1>2. Legal(cur.q) /\ n = beat_index + 1 /\ beat_index < cur.q.len + 1
      /\ beat_index \in Nat /\ axi.sel \in Port
  BY <1>1, LiveTypes DEF LinkInv, TransferLink
<1>3. cur.write => n = Len(wlog) /\ wlog \in Seq(WBeats) /\ wlog[n] \in WBeats
  BY <1>1, <1>2 DEF LinkInv, WriteLink
<1>4. answer(in).err \in BOOLEAN /\ answer(in).data \in Data
  BY <1>1, AnswerType
<1>5. cur.write => wlog[n].data \in Data
  BY <1>3, PinAssumption DEF WBeat
<1>6. d \in Data
  BY <1>4, <1>5
<1>7. cur.q \in Request /\ cur.q.prot \in Nat /\ cur.write \in BOOLEAN
  BY LiveTypes
<1>8. /\ PortOf(BeatAddr(cur.q, n)) = axi.sel /\ BeatAddr(cur.q, n) = axi.addr
      /\ BeatAddr(cur.q, n) \in Addr
  <2>1. PortOf(BeatAddr(cur.q, beat_index + 1)) = PortOf(cur.q.addr)
        /\ BeatAddr(cur.q, beat_index + 1) \in Addr
    BY <1>2, <1>7, BeatPort
  <2>. QED BY <1>2, <2>1 DEF LinkInv, LatchLink
<1>9. psel[axi.sel] /\ pbus[axi.sel].addr = axi.addr /\ pbus[axi.sel].write = axi.is_write
  BY <1>1, <1>2 DEF IInv, PortInv
<1>10. pbus[axi.sel].prot = cur.q.prot /\ pbus[axi.sel].write = cur.write
       /\ (cur.write => pbus[axi.sel].data = wlog[n].data)
  BY <1>1, <1>3, <1>9 DEF LinkInv, LatchLink, TransferLink, WriteLink
<1>11. Transfer(axi.sel, in) = Promise!BeatTransfer(n, d, answer(in).err)
  BY <1>7, <1>8, <1>9, <1>10 DEF Transfer, Promise!BeatTransfer, answer
<1>12. Promise!BeatTransfer(n, d, answer(in).err) \in Transfers
  <2> HIDE DEF n, d
  <2>. QED BY <1>2, <1>4, <1>6, <1>7, <1>8 DEF Promise!BeatTransfer, Transfers
<1>. QED BY <1>2, <1>3, <1>4, <1>6, <1>11, <1>12

\* One more transfer: whether any of them failed.
LEMMA ErrorStep ==
    ASSUME NEW s \in Seq(Transfers), NEW t \in Transfers
    PROVE  (\E i \in 1 .. Len(Append(s, t)) : Append(s, t)[i].err)
              <=> (\E i \in 1 .. Len(s) : s[i].err) \/ t.err
<1>1. /\ Len(s) \in Nat /\ Len(Append(s, t)) = Len(s) + 1
      /\ Append(s, t)[Len(s) + 1] = t
      /\ \A i \in 1 .. Len(s) : Append(s, t)[i] = s[i]
  BY AppendFacts
<1>2. 1 .. Len(s) + 1 = (1 .. Len(s)) \cup {Len(s) + 1}
  BY <1>1, SMT
<1>. QED BY <1>1, <1>2, Zenon

\* A transfer completes: the promised one, and it is counted.
LEMMA CompleteSim ==
    ASSUME IInv, LinkInv, NEW in \in Inputs, Edge(in), Progress(in), Observe(in),
           ~accept, live, apb_done(in)
    PROVE  Simulates
<1> DEFINE n == Len(plog) + 1
           t == Transfer(axi.sel, in)
<1>1. /\ bvalid = FALSE /\ rvalid = FALSE /\ rfifo_valid = FALSE /\ txn_active
      /\ txn_decerr = FALSE /\ apb_state = "ACCESS" /\ beat_index < beats_total
  BY DEF apb_done, LinkInv, IInv, ApbInv, TypeOK
<1>2. ~w_handshake /\ ~b_handshake(in) /\ ~r_handshake(in) /\ ~b_due /\ ~r_due
  BY <1>1 DEF w_handshake, WREADY, b_handshake, r_handshake, b_due, r_due
<1>3. beat_index' = beat_index + 1 /\ beat_index \in Nat
  <2>1. beat_index \in Count /\ beat_index < LenMax + 1
    BY <1>1, AddressAssumption DEF IInv, TypeOK, Count
  <2>. QED BY <2>1, IncExact, AddressAssumption DEF Progress, Count
<1>4. /\ UNCHANGED <<beats_sent, beats_total, txn_active, txn_decerr, w_done, wlast_err>>
      /\ pslverr_acc' = (pslverr_acc \/ answer(in).err)
  BY <1>1, <1>2 DEF Progress, IInv, TypeOK
<1>5. bvalid' = FALSE /\ rvalid' = FALSE
  BY <1>1, <1>2 DEF Edge, BBlock, RBlock, bRegs, rRegs
<1>6. apb_state' = "IDLE"
  BY <1>1 DEF Edge, ApbBlock, ApbStartWrite, ApbStartRead, ApbIdle, ApbSetup,
              ApbWait, ApbComplete, apb_done
<1>7. /\ UNCHANGED <<cur, wlog, rlog, blog, live>> /\ plog' = Append(plog, t)
  <2>1. live \in BOOLEAN
    BY DEF LinkInv, IInv, TypeOK
  <2>. QED BY <1>2, <2>1, Records
<1>8. /\ t = Promise!BeatTransfer(n, IF cur.write THEN wlog[n].data ELSE answer(in).data,
                                 answer(in).err)
      /\ t \in Transfers /\ Legal(cur.q) /\ n = beat_index + 1 /\ beat_index < cur.q.len + 1
      /\ cur.write => n = Len(wlog) /\ wlog \in Seq(WBeats)
      /\ answer(in).err \in BOOLEAN /\ answer(in).data \in Data
  BY CompleteRecord
<1>9. t.err = answer(in).err /\ (~cur.write => t.data = answer(in).data)
  BY <1>8 DEF Promise!BeatTransfer
<1> HIDE DEF t
<1>10. /\ plog' \in Seq(Transfers) /\ Len(plog') = n /\ Len(plog) \in Nat
       /\ plog'[n] = t /\ n \in Nat
  BY <1>7, <1>8, LiveTypes, AppendFacts
<1>11. Promise!Next
  <2>1. CASE cur.write
    <3>1. Promise!WriteTransfer(answer(in).err)
      BY <1>7, <1>8, <1>10, <2>1 DEF Promise!WriteTransfer, Promise!Writing
    <3>. QED BY <1>8, <3>1 DEF Promise!Next
  <2>2. CASE ~cur.write
    <3>1. n = Len(rlog) + 1
      BY <1>1, <1>8, <2>2, LiveTypes DEF IInv, ReadInv, LinkInv, ReadLink
    <3>2. Promise!ReadTransfer(answer(in).data, answer(in).err)
      BY <1>7, <1>8, <2>2, <3>1 DEF Promise!ReadTransfer, Promise!Reading
    <3>. QED BY <1>8, <3>2 DEF Promise!Next
  <2>. QED BY <2>1, <2>2
<1>12. LatchLink'
  <2>1. /\ axi \in AxiReg /\ axi'.addr = BeatAddr(cur.q, beat_index' + 1)
    BY <1>3, <1>8, LiveTypes, AddrStep
  <2>2. /\ axi'.id = axi.id /\ axi'.prot = axi.prot /\ axi'.bytes = axi.bytes
        /\ axi'.burst = axi.burst /\ axi'.is_write = axi.is_write /\ axi'.sel = axi.sel
    BY <2>1 DEF Progress, AxiReg
  <2>. QED BY <1>4, <1>7, <2>1, <2>2 DEF LinkInv, LatchLink
<1>13. TransferLink'
  <2>1. (\E i \in 1 .. Len(plog') : plog'[i].err)
           <=> (\E i \in 1 .. Len(plog) : plog[i].err) \/ t.err
    BY <1>7, <1>8, LiveTypes, ErrorStep
  <2>2. pslverr_acc' <=> \E i \in 1 .. Len(plog') : plog'[i].err
    BY <1>4, <1>9, <2>1 DEF LinkInv, TransferLink
  <2>. QED BY <1>3, <1>6, <1>7, <1>8, <1>10, <2>2 DEF TransferLink
<1>14. WriteLink'
  <2>1. SUFFICES ASSUME cur.write PROVE WriteLink'
    BY <1>7 DEF WriteLink
  <2>2. Len(wlog') = beat_index' + 0
    BY <1>3, <1>7, <1>8, <2>1
  <2>. QED BY <1>4, <1>5, <1>6, <1>7, <2>1, <2>2
           DEF LinkInv, WriteLink, Promise!DataDone, Promise!Malformed
<1>15. ReadLink'
  <2>1. SUFFICES ASSUME ~cur.write PROVE ReadLink'
    BY <1>7 DEF ReadLink
  <2>2. rfifo' = [data |-> t.data, resp |-> IF t.err THEN "SLVERR" ELSE "OKAY"]
    BY <1>8, <1>9, <2>1, LiveTypes DEF Progress
  <2>. QED BY <1>4, <1>5, <1>7, <1>10, <2>1, <2>2 DEF LinkInv, ReadLink
<1>16. LinkInv'
  BY <1>4, <1>7, <1>12, <1>13, <1>14, <1>15 DEF LinkInv, ClosedLink
<1>. QED BY <1>11, <1>16 DEF Simulates

\* A beat is taken, and goes to APB if the write is legal.
LEMMA TakeWSim ==
    ASSUME IInv, LinkInv, NEW in \in Inputs, Edge(in), Progress(in), Observe(in),
           ~accept, live, cur.write, w_handshake
    PROVE  Simulates
<1> DEFINE n == Len(wlog) + 1
<1>1. /\ txn_active /\ axi.is_write /\ ~w_done /\ beat_index < beats_total
      /\ apb_state = "IDLE" /\ bvalid = FALSE /\ rvalid = FALSE /\ rfifo_valid = FALSE
  BY DEF w_handshake, WREADY, IInv, TypeOK, WriteInv, ApbInv
<1>2. w \in WBeats /\ w.last \in BOOLEAN /\ w.data \in Data
  BY PinAssumption DEF w_handshake, IInv, TypeOK, WBeat
<1>3. /\ ~apb_done(in) /\ ~b_handshake(in) /\ ~r_handshake(in) /\ ~b_due /\ ~r_due
      /\ ~start_read(in)
  BY <1>1 DEF apb_done, b_handshake, r_handshake, b_due, r_due, start_read
<1>4. /\ UNCHANGED <<axi, beats_sent, beats_total, txn_active, txn_decerr, pslverr_acc>>
      /\ rfifo_valid' = FALSE
      /\ wlast_err' = (wlast_err \/ w.last # final_beat)
      /\ w_done' = (w.last \/ final_beat)
      /\ beat_index' = IF txn_decerr THEN Inc(beat_index) ELSE beat_index
  BY <1>1, <1>2, <1>3 DEF Progress, IInv, TypeOK
<1>5. bvalid' = FALSE /\ rvalid' = FALSE
  BY <1>1, <1>3 DEF Edge, BBlock, RBlock, bRegs, rRegs
<1>6. /\ UNCHANGED <<cur, plog, rlog, blog, live>> /\ wlog' = Append(wlog, w)
  <2>1. live \in BOOLEAN
    BY DEF LinkInv, IInv, TypeOK
  <2>. QED BY <1>3, <2>1, Records
<1>7. /\ wlog \in Seq(WBeats) /\ Len(wlog) \in Nat /\ Len(wlog) = beat_index
      /\ rlog = <<>> /\ blog = <<>> /\ beat_index \in Nat
      /\ beats_total = cur.q.len + 1 /\ cur.q.len + 1 \in Nat /\ cur.q.len < LenMax + 1
  BY <1>1, LiveTypes DEF LinkInv, WriteLink
<1>8. /\ wlog' \in Seq(WBeats) /\ Len(wlog') = n /\ wlog'[n] = w /\ wlog' # <<>>
      /\ n = beat_index + 1
  BY <1>2, <1>6, <1>7, AppendFacts
<1>9. final_beat <=> n = cur.q.len + 1
  BY <1>7, <1>8 DEF final_beat
<1>10. Promise!Next
  <2>1. Promise!TakeW(w)
    BY <1>1, <1>6 DEF Promise!TakeW, Promise!Writing, LinkInv, WriteLink
  <2>. QED BY <1>2, <2>1 DEF Promise!Next
<1>11. w_done' <=> Promise!DataDone'
  BY <1>4, <1>6, <1>8, <1>9 DEF Promise!DataDone
<1>12. wlast_err' <=> Promise!Malformed'
  <2> DEFINE k == cur.q.len + 1
  <2>1. k \in Nat
    BY <1>7
  <2> HIDE DEF k
  <2>2. (\E i \in 1 .. Len(wlog') : wlog'[i].last # (i = k))
           <=> \/ \E i \in 1 .. Len(wlog) : wlog[i].last # (i = k)
               \/ w.last # (n = k)
    <3>1. \A i \in 1 .. Len(wlog) : wlog'[i] = wlog[i]
      BY <1>2, <1>6, <1>7, AppendFacts
    <3>2. 1 .. Len(wlog') = (1 .. Len(wlog)) \cup {n}
      BY <1>7, <1>8, SMT
    <3>3. wlog'[n] = w
      BY <1>8
    <3> HIDE DEF n
    <3>. QED BY <3>1, <3>2, <3>3, Zenon
  <2>3. Promise!Malformed' <=> Promise!Malformed \/ w.last # (n = k)
    BY <1>6, <2>2 DEF Promise!Malformed, k
  <2>4. wlast_err <=> Promise!Malformed
    BY DEF LinkInv, WriteLink
  <2>5. (n = k) \in BOOLEAN /\ (final_beat <=> n = k) /\ final_beat \in BOOLEAN
    BY <1>9 DEF k, final_beat
  <2>6. (w.last # final_beat) <=> (w.last # (n = k))
    BY <2>5
  <2>. QED BY <1>4, <2>3, <2>4, <2>6
<1>13. ReadLink' /\ ClosedLink'
  BY <1>6 DEF LinkInv, ReadLink, ClosedLink
<1>14. CASE txn_decerr
  <2>1. ~Legal(cur.q)
    BY <1>14, LiveTypes
  <2>2. beat_index' = beat_index + 1
    <3>1. beat_index \in Count /\ beat_index < LenMax + 1
      BY <1>1, <1>7, AddressAssumption DEF IInv, TypeOK, Count
    <3>2. Inc(beat_index) = beat_index + 1
      BY <3>1, IncExact
    <3>3. beat_index' = Inc(beat_index)
      BY <1>14 DEF Progress
    <3>. QED BY <3>2, <3>3
  <2>3. apb_state' = "IDLE"
    BY <1>1, <1>3, <1>14 DEF Edge, ApbBlock, ApbIdle, ApbStartWrite, ApbStartRead,
       start_write, beat_due, ApbSetup, ApbWait, ApbComplete, apb_done
  <2>4. LatchLink' /\ TransferLink'
    BY <1>4, <1>6, <2>1, <2>3, LatchKept, TransferKept
  <2>5. WriteLink'
    BY <1>5, <1>6, <1>7, <1>8, <1>11, <1>12, <2>2, <2>3 DEF WriteLink
  <2>. QED BY <1>4, <1>6, <1>10, <1>13, <2>4, <2>5 DEF Simulates, LinkInv
<1>15. CASE ~txn_decerr
  <2>1. beat_index' = beat_index
    BY <1>4, <1>15
  <2>2. Drive(TRUE, w.data)
    <3>1. start_write
      BY <1>1, <1>15 DEF start_write, beat_due
    <3>. QED BY <1>1, <1>3, <3>1 DEF Edge, ApbBlock, ApbIdle, ApbStartWrite, ApbStartRead,
                                     ApbSetup, ApbWait, ApbComplete, apb_done
  <2>3. /\ apb_state' = "SETUP"
        /\ pbus'[axi.sel] = [addr |-> axi.addr, prot |-> axi.prot, write |-> TRUE,
                             data |-> w.data]
    BY <2>2, LiveTypes DEF Drive, IInv, TypeOK
  <2>4. pbus'[axi.sel].prot = axi.prot /\ pbus'[axi.sel].data = w.data
    BY <2>3
  <2>5. LatchLink' /\ TransferLink'
    BY <1>4, <1>6, <2>1, <2>4, LatchKept, TransferKept
  <2>6. WriteLink'
    BY <1>4, <1>5, <1>6, <1>7, <1>8, <1>11, <1>12, <2>1, <2>3, <2>4 DEF WriteLink
  <2>. QED BY <1>4, <1>6, <1>10, <1>13, <2>5, <2>6 DEF Simulates, LinkInv
<1>. QED BY <1>14, <1>15

\* The verdict that BRESP carries.
LEMMA VerdictIs ==
    ASSUME IInv, LinkInv, live, cur.write
    PROVE  bresp = Promise!Verdict
<1>1. /\ txn_decerr <=> ~Legal(cur.q)
      /\ pslverr_acc <=> \E i \in 1 .. Len(plog) : plog[i].err
      /\ wlast_err <=> Promise!Malformed
  BY DEF LinkInv, LatchLink, TransferLink, WriteLink
<1>. QED BY <1>1 DEF bresp, Promise!Verdict

\* No beat is taken: B is raised, held, or taken by the master.
LEMMA RespondSim ==
    ASSUME IInv, LinkInv, NEW in \in Inputs, Edge(in), Progress(in), Observe(in),
           ~accept, live, cur.write, ~w_handshake, apb_state = "IDLE"
    PROVE  Simulates
<1>1. txn_active /\ axi.is_write /\ rvalid = FALSE /\ rfifo_valid = FALSE
  BY LiveTypes DEF IInv, TypeOK, WriteInv
<1>2. ~apb_done(in) /\ ~r_handshake(in) /\ ~r_due /\ ~start_read(in) /\ ~start_write
  BY <1>1 DEF apb_done, r_handshake, r_due, start_read, start_write
<1>3. rvalid' = FALSE
  BY <1>1, <1>2 DEF Edge, RBlock, rRegs
<1>4. /\ UNCHANGED <<axi, beat_index, beats_sent, beats_total, txn_decerr, pslverr_acc,
                     wlast_err, w_done>>
      /\ rfifo_valid' = FALSE
      /\ txn_active' = ~b_handshake(in)
  BY <1>1, <1>2 DEF Progress, IInv, TypeOK
<1>5. apb_state' = "IDLE"
  BY <1>2 DEF Edge, ApbBlock, ApbIdle, ApbStartWrite, ApbStartRead, ApbSetup, ApbWait,
              ApbComplete, apb_done
<1>6. /\ UNCHANGED <<cur, wlog, plog, rlog>>
      /\ blog' = IF b_handshake(in) THEN Append(blog, b) ELSE blog
      /\ live' = ~b_handshake(in)
  <2>1. live \in BOOLEAN
    BY DEF LinkInv, IInv, TypeOK
  <2>. QED BY <1>2, <2>1, Records
<1>7. LatchLink' /\ TransferLink'
  BY <1>4, <1>5, <1>6, LatchKept, TransferKept
<1>8. ReadLink'
  BY <1>6 DEF ReadLink
<1>9. CASE b_handshake(in)
  <2>1. bvalid /\ w_done
    BY <1>1, <1>9 DEF b_handshake, IInv, WriteInv
  <2>2. /\ Promise!DataDone /\ b = [id |-> cur.q.id, resp |-> Promise!Verdict]
        /\ Len(wlog) = beat_index /\ blog = <<>>
        /\ Legal(cur.q) => Len(plog) = beat_index
    <3>1. beat_index \in Nat
      BY LiveTypes
    <3>2. /\ w_done <=> Promise!DataDone
          /\ bvalid => b = [id |-> cur.q.id, resp |-> Promise!Verdict]
          /\ Len(wlog) = beat_index + (IF apb_state = "IDLE" THEN 0 ELSE 1) /\ blog = <<>>
      BY Zenon DEF LinkInv, WriteLink
    <3>3. Legal(cur.q) => Len(plog) = beat_index
      BY DEF LinkInv, TransferLink
    <3>. QED BY <2>1, <3>1, <3>2, <3>3
  <2>3. blog' = <<[id |-> cur.q.id, resp |-> Promise!Verdict]>>
    BY <1>6, <1>9, <2>2
  <2>4. Promise!GiveB
    BY <1>6, <1>9, <2>2, <2>3 DEF Promise!GiveB, Promise!Writing
  <2>5. LinkInv'
    BY <1>4, <1>6, <1>7, <1>8, <1>9 DEF LinkInv, LatchLink, WriteLink, ClosedLink
  <2>. QED BY <2>4, <2>5 DEF Simulates, Promise!Next
<1>10. CASE ~b_handshake(in)
  <2>1. UNCHANGED obs
    BY <1>6, <1>10 DEF obs
  <2>2. bvalid' => b' = [id |-> cur.q.id, resp |-> Promise!Verdict]
    <3>1. CASE b_due
      BY <1>10, <3>1, VerdictIs DEF Edge, BBlock, LinkInv, LatchLink
    <3>2. CASE ~b_due
      BY <1>10, <3>2 DEF Edge, BBlock, bRegs, LinkInv, WriteLink
    <3>. QED BY <3>1, <3>2
  <2>3. Promise!Verdict' = Promise!Verdict
    BY <1>6 DEF Promise!Verdict, Promise!Malformed
  <2>4. WriteLink'
    BY <1>4, <1>5, <1>10, <2>1, <2>2, <2>3
       DEF obs, LinkInv, WriteLink, Promise!DataDone, Promise!Malformed
  <2>5. LinkInv'
    BY <1>4, <1>7, <1>8, <1>10, <2>1, <2>4 DEF obs, LinkInv, ClosedLink
  <2>. QED BY <2>1, <2>5, Stutter DEF Simulates
<1>. QED BY <1>9, <1>10

\* An open read with the bus idle: the next beat is started, or an R beat is
\* raised, held, or taken by the master.
LEMMA ReadSim ==
    ASSUME IInv, LinkInv, NEW in \in Inputs, Edge(in), Progress(in), Observe(in),
           ~accept, live, ~cur.write, apb_state = "IDLE"
    PROVE  Simulates
<1>1. /\ txn_active /\ ~axi.is_write /\ bvalid = FALSE
      /\ beats_sent \in Nat /\ beats_total \in Nat /\ beats_sent < beats_total
      /\ beats_total = cur.q.len + 1 /\ cur.q.len \in Nat
      /\ txn_decerr <=> ~Legal(cur.q)
      /\ ~txn_decerr => beat_index = beats_sent + (IF rfifo_valid THEN 1 ELSE 0)
      /\ rvalid => txn_decerr \/ rfifo_valid
      /\ rvalid => r.last = (beats_sent = beats_total - 1)
      /\ rvalid \in BOOLEAN /\ rfifo_valid \in BOOLEAN /\ beat_index \in Nat
  BY LiveTypes DEF IInv, ReadInv, TypeOK
<1>2. ~apb_done(in) /\ ~b_handshake(in) /\ ~b_due /\ ~w_handshake /\ ~start_write
  BY <1>1 DEF apb_done, b_handshake, b_due, w_handshake, WREADY, start_write
<1>3. bvalid' = FALSE
  BY <1>1, <1>2 DEF Edge, BBlock, bRegs
<1>4. UNCHANGED <<axi, beat_index, beats_total, txn_decerr, pslverr_acc, rfifo>>
  BY <1>2 DEF Progress, IInv, TypeOK
<1>5. /\ rlog \in Seq(RBeat) /\ Len(rlog) = beats_sent /\ wlog = <<>> /\ blog = <<>>
      /\ rfifo_valid => rfifo = [data |-> plog[Len(plog)].data,
                                 resp |-> IF plog[Len(plog)].err THEN "SLVERR" ELSE "OKAY"]
      /\ rvalid => r = Promise!ReadBeat(Len(rlog) + 1)
      /\ Len(plog) = IF Legal(cur.q) THEN beat_index ELSE 0
  BY DEF LinkInv, ReadLink, TransferLink
<1>6. /\ UNCHANGED <<cur, wlog, plog, blog>>
      /\ rlog' = IF r_handshake(in) THEN Append(rlog, r) ELSE rlog
      /\ live' = ~(r_handshake(in) /\ r.last)
      /\ txn_active' = live'
  <2>1. live \in BOOLEAN
    BY DEF LinkInv, IInv, TypeOK
  <2>2. txn_active' = ~(r_handshake(in) /\ r.last)
    BY <1>1, <1>2 DEF Progress
  <2>. QED BY <1>2, <2>1, <2>2, Records
<1>7. LatchLink'
  BY <1>4, <1>6, LatchKept
<1>8. TransferLink'
  <2>1. apb_state' # "IDLE" => pbus'[axi.sel].prot = axi.prot
    <3>1. CASE start_read(in)
      <4>1. Drive(FALSE, pbus[axi.sel].data)
        BY <1>2, <3>1 DEF Edge, ApbBlock, ApbIdle, ApbStartWrite, ApbStartRead,
                          ApbSetup, ApbWait, ApbComplete, apb_done
      <4>2. pbus'[axi.sel] = [addr |-> axi.addr, prot |-> axi.prot, write |-> FALSE,
                              data |-> pbus[axi.sel].data]
        BY <4>1, LiveTypes DEF Drive, IInv, TypeOK
      <4>. QED BY <4>2
    <3>2. CASE ~start_read(in)
      BY <1>2, <3>2 DEF Edge, ApbBlock, ApbIdle, ApbStartWrite, ApbStartRead,
                        ApbSetup, ApbWait, ApbComplete, apb_done
    <3>. QED BY <3>1, <3>2
  <2>. QED BY <1>4, <1>6, <2>1, TransferKept
<1>9. WriteLink'
  BY <1>6 DEF WriteLink
<1>10. CASE r_handshake(in)
  <2>1. /\ rvalid /\ r = Promise!ReadBeat(Len(rlog) + 1) /\ r \in RBeat
        /\ r.last = (Len(rlog) + 1 = cur.q.len + 1)
    BY <1>1, <1>5, <1>10 DEF r_handshake, IInv, TypeOK
  <2>2. /\ rlog' = Append(rlog, r) /\ rlog' \in Seq(RBeat) /\ Len(rlog') = Len(rlog) + 1
        /\ Len(rlog) \in Nat
    BY <1>5, <1>6, <1>10, <2>1, AppendFacts
  <2>3. Legal(cur.q) => Len(rlog) + 1 <= Len(plog)
    BY <1>1, <1>5, <2>1
  <2>4. Promise!GiveR
    BY <1>6, <1>10, <2>1, <2>2, <2>3 DEF Promise!GiveR, Promise!Reading
  <2>5. beats_sent' = beats_sent + 1
    <3>1. beats_sent \in Count /\ beats_sent < LenMax + 1
      BY <1>1, LiveTypes, AddressAssumption DEF IInv, TypeOK
    <3>. QED BY <1>10, <3>1, IncExact DEF Progress
  <2>6. rvalid' = FALSE /\ rfifo_valid' = FALSE
    BY <1>2, <1>10 DEF Edge, RBlock, Progress
  <2>7. ReadLink'
    BY <1>5, <1>6, <2>2, <2>5, <2>6 DEF ReadLink
  <2>8. ClosedLink'
    <3>1. live' <=> ~r.last
      BY <1>6, <1>10
    <3>2. ~live' => Len(rlog') = cur.q.len + 1
      BY <2>1, <2>2, <3>1
    <3>3. Len(plog') <= cur.q.len + 1
      BY <1>1, <1>5, <1>6
    <3>4. cur \in Accepted
      BY DEF LinkInv, LatchLink
    <3>. QED BY <1>6, <3>2, <3>3, <3>4 DEF ClosedLink
  <2>. QED BY <1>6, <1>7, <1>8, <1>9, <2>4, <2>7, <2>8 DEF Simulates, LinkInv, Promise!Next
<1>11. CASE ~r_handshake(in)
  <2>1. UNCHANGED obs
    BY <1>6, <1>11 DEF obs, LinkInv
  <2>2. beats_sent' = beats_sent /\ rfifo_valid' = rfifo_valid
    BY <1>1, <1>2, <1>11 DEF Progress
  <2>3. rvalid' => r' = Promise!ReadBeat(Len(rlog) + 1)
    <3>1. CASE r_due
      <4>1. axi.id = cur.q.id
        BY DEF LinkInv, LatchLink
      <4>2. Legal(cur.q) => rfifo_valid /\ Len(plog) = Len(rlog) + 1
        BY <1>1, <1>5, <3>1 DEF r_due
      <4>3. beats_sent = beats_total - 1 <=> Len(rlog) + 1 = cur.q.len + 1
        BY <1>1, <1>5
      <4>4. r' = [id   |-> axi.id,
                  data |-> IF txn_decerr THEN Zero ELSE rfifo.data,
                  resp |-> IF txn_decerr THEN "DECERR" ELSE rfifo.resp,
                  last |-> beats_sent = beats_total - 1]
        BY <1>11, <3>1, Zenon DEF Edge, RBlock
      <4>. QED BY <1>1, <1>5, <4>1, <4>2, <4>3, <4>4 DEF Promise!ReadBeat
    <3>2. CASE ~r_due
      BY <1>5, <1>11, <3>2 DEF Edge, RBlock, rRegs
    <3>. QED BY <3>1, <3>2
  <2>4. Promise!ReadBeat(Len(rlog) + 1)' = Promise!ReadBeat(Len(rlog) + 1)
    BY <2>1 DEF obs, Promise!ReadBeat
  <2>5. ReadLink'
    BY <1>4, <1>5, <2>1, <2>2, <2>3, <2>4 DEF obs, ReadLink
  <2>6. ClosedLink'
    BY <2>1 DEF obs, LinkInv, ClosedLink
  <2>. QED BY <1>6, <1>7, <1>8, <1>9, <2>1, <2>5, <2>6, Stutter DEF Simulates, LinkInv
<1>. QED BY <1>10, <1>11

----------------------------------------------------------------------------
(* The bridge implements SerialBridge.                                     *)

LEMMA EdgeSim ==
    ASSUME IInv, LinkInv, NEW in \in Inputs, Edge(in), Observe(in)
    PROVE  Simulates
<1>1. CASE AcceptWrite
  <2>1. /\ aw_handshake /\ aw \in AWRequests /\ aw \in Request /\ idle_for_new
        /\ Latch(aw, TRUE) /\ rfifo_valid' = rfifo_valid
    BY <1>1, PinAssumption DEF AcceptWrite, aw_handshake, AWREADY, IInv, TypeOK
  <2>2. rfifo_valid' = FALSE
    BY <2>1 DEF idle_for_new, IInv, OpenInv, TypeOK
  <2>3. /\ cur' = [write |-> TRUE, q |-> aw] /\ live' = TRUE
        /\ wlog' = <<>> /\ plog' = <<>> /\ rlog' = <<>> /\ blog' = <<>>
    BY <2>1 DEF Observe, accept
  <2>. QED BY <2>1, <2>2, <2>3, AcceptSim
<1>2. CASE AcceptRead
  <2>1. /\ ~aw_handshake /\ ar_handshake /\ ar \in ARRequests /\ ar \in Request
        /\ idle_for_new /\ Latch(ar, FALSE) /\ rfifo_valid' = FALSE
    BY <1>2, PinAssumption DEF AcceptRead, ar_handshake, ARREADY, IInv, TypeOK
  <2>2. /\ cur' = [write |-> FALSE, q |-> ar] /\ live' = TRUE
        /\ wlog' = <<>> /\ plog' = <<>> /\ rlog' = <<>> /\ blog' = <<>>
    BY <2>1 DEF Observe, accept
  <2>. QED BY <2>1, <2>2, AcceptSim
<1>3. CASE Progress(in)
  <2>1. ~accept
    BY <1>3 DEF Progress, accept
  <2>2. apb_done(in) => apb_state # "IDLE"
    BY DEF apb_done
  <2>. QED BY <1>3, <2>1, <2>2, IdleSim, TransferSim, CompleteSim, TakeWSim, RespondSim,
              ReadSim
<1>. QED BY <1>1, <1>2, <1>3 DEF Edge, TxnBlock

\* Nothing that is recorded or registered moves.
LEMMA QuietSim ==
    ASSUME LinkInv, UNCHANGED obs, UNCHANGED txnRegs, UNCHANGED apbRegs, UNCHANGED bRegs,
           UNCHANGED rRegs
    PROVE  Simulates
<1>1. UNCHANGED <<cur, live, wlog, plog, rlog, blog>>
  BY DEF obs
<1>2. UNCHANGED <<axi, beat_index, beats_sent, beats_total, txn_active, txn_decerr,
                  pslverr_acc, wlast_err, w_done, rfifo, rfifo_valid, apb_state, pbus,
                  bvalid, b, rvalid, r>>
  BY DEF txnRegs, apbRegs, apbPins, bRegs, rRegs
<1>3. LatchLink' /\ TransferLink'
  BY <1>1, <1>2, LatchKept, TransferKept
<1>4. WriteLink'
  BY <1>1, <1>2 DEF LinkInv, WriteLink, Promise!DataDone, Promise!Malformed, Promise!Verdict
<1>5. ReadLink'
  BY <1>1, <1>2 DEF LinkInv, ReadLink, Promise!ReadBeat
<1>6. LinkInv'
  BY <1>1, <1>2, <1>3, <1>4, <1>5 DEF LinkInv, ClosedLink
<1>. QED BY <1>6, Stutter DEF Simulates

LEMMA ResetSim == ASSUME ObsReset PROVE Simulates
<1>1. Promise!Reset
  BY DEF ObsReset, Promise!Reset, Promise!Cleared
<1>2. LinkInv'
  BY DEF ObsReset, Reset, LinkInv, LatchLink, TransferLink, WriteLink, ReadLink, ClosedLink
<1>. QED BY <1>1, <1>2 DEF Simulates, Promise!Next

LEMMA StepSim ==
    IInv /\ LinkInv /\ [ObsNext]_allVars => [Promise!Next]_(Promise!vars) /\ LinkInv'
<1> SUFFICES ASSUME IInv, LinkInv, [ObsNext]_allVars PROVE Simulates
  BY DEF Simulates
<1>1. CASE MasterStep /\ UNCHANGED obs
  BY <1>1, QuietSim DEF MasterStep, RaiseAW, RaiseAR, RaiseW
<1>2. ASSUME NEW in \in Inputs, ObsEdge(in) PROVE Simulates
  BY <1>2, EdgeSim DEF ObsEdge
<1>3. CASE UNCHANGED allVars
  BY <1>3, QuietSim DEF allVars, vars
<1>. QED BY <1>1, <1>2, <1>3, ResetSim DEF ObsNext

LEMMA ObsInitInv == ObsInit => IInv /\ LinkInv
<1>1. ObsInit => LinkInv
  BY DEF ObsInit, Init, LinkInv, LatchLink, TransferLink, WriteLink, ReadLink, ClosedLink
<1>. QED BY <1>1, InitInv DEF ObsInit

LEMMA ObsStep == [ObsNext]_allVars => [Next]_vars
  BY DEF ObsNext, ObsReset, ObsEdge, Next, allVars

LEMMA Invariant == ObsSpec => [](IInv /\ LinkInv)
<1>1. IInv /\ LinkInv /\ [ObsNext]_allVars => (IInv /\ LinkInv)'
  BY NextInv, ObsStep, StepSim
<1>. QED BY <1>1, ObsInitInv, PTL DEF ObsSpec

\* The four clocked blocks of the burst bridge carry out the serial machine of
\* SerialBridge, for every burst length, every WLAST the master drives, every
\* wait state and error of the slaves and a reset at any time
\* (axi4_to_apb4_2x_burst.v:141-309).
THEOREM Implements == ObsSpec => KeepsPromise
<1>1. ObsInit => Promise!Init
  BY DEF ObsInit, Promise!Init
<1>. QED BY <1>1, Invariant, StepSim, PTL DEF ObsSpec, KeepsPromise, Promise!Spec

----------------------------------------------------------------------------
(* What the record shows of the responses.                                 *)

\* B carries the accepted ID and the verdict over the whole burst, and only
\* after every beat of it is done (contract, "BRESP policy").
THEOREM VerdictsComplete == ObsSpec => []WriteVerdict
<1>1. IInv /\ LinkInv => WriteVerdict
  <2> SUFFICES ASSUME IInv, LinkInv, bvalid PROVE WriteVerdict
    BY DEF WriteVerdict
  <2>1. txn_active /\ apb_state = "IDLE" /\ live
    BY DEF LinkInv, IInv, OpenInv, ApbInv, TypeOK
  <2>2. cur.write /\ w_done
    BY <2>1, LiveTypes DEF IInv, ReadInv, WriteInv
  <2>3. /\ Promise!DataDone /\ b = [id |-> cur.q.id, resp |-> Promise!Verdict]
        /\ Len(wlog) = beat_index + (IF apb_state = "IDLE" THEN 0 ELSE 1)
    BY <2>1, <2>2, Zenon DEF LinkInv, WriteLink
  <2>4. Legal(cur.q) => Len(plog) = beat_index
    BY <2>1 DEF LinkInv, TransferLink
  <2>. QED BY <2>1, <2>2, <2>3, <2>4, LiveTypes DEF WriteVerdict
<1>. QED BY <1>1, Invariant, PTL

\* A read returns exactly ARLEN + 1 beats, each from its own transfer, and the
\* bridge is never more than one beat ahead of the master (contract, "Read
\* Data Channel").
THEOREM ReadsComplete == ObsSpec => []ReadFaithful
<1>1. IInv /\ LinkInv => ReadFaithful
  <2> SUFFICES ASSUME IInv, LinkInv, cur # None, ~cur.write PROVE ReadFaithful
    BY DEF ReadFaithful
  <2>1. CASE live
    <3>1. /\ beats_sent < beats_total /\ beats_total = cur.q.len + 1
          /\ ~txn_decerr => beat_index = beats_sent + (IF rfifo_valid THEN 1 ELSE 0)
          /\ beats_sent \in Nat /\ cur.q.len \in Nat /\ beat_index \in Nat
          /\ rfifo_valid \in BOOLEAN /\ (txn_decerr <=> ~Legal(cur.q))
      BY <2>1, LiveTypes DEF IInv, ReadInv, TypeOK
    <3>2. /\ Len(rlog) = beats_sent
          /\ rvalid => r = Promise!ReadBeat(Len(rlog) + 1)
          /\ Len(plog) = IF Legal(cur.q) THEN beat_index ELSE 0
      BY <2>1, Zenon DEF LinkInv, ReadLink, TransferLink
    <3>3. Len(plog) <= beats_sent + 1
      BY <3>1, <3>2
    <3>. QED BY <2>1, <3>1, <3>2, <3>3 DEF ReadFaithful
  <2>2. CASE ~live
    <3>1. ~rvalid
      BY <2>2 DEF LinkInv, IInv, OpenInv
    <3>2. Len(rlog) = cur.q.len + 1 /\ Len(plog) <= cur.q.len + 1 /\ cur.q.len \in Nat
      BY <2>2, AddressAssumption DEF LinkInv, ClosedLink, Accepted, Request
    <3>. QED BY <2>2, <3>1, <3>2 DEF ReadFaithful
  <2>. QED BY <2>1, <2>2
<1>. QED BY <1>1, Invariant, PTL

\* One transaction at a time: while one is open no address is accepted, and
\* nothing is in flight while none is.
THEOREM OneAtATime == ObsSpec => []OneTransaction
<1>1. IInv /\ LinkInv => OneTransaction
  BY DEF IInv, OpenInv, TypeOK, LinkInv, OneTransaction, AWREADY, ARREADY, WREADY,
         idle_for_new, aw_handshake, ar_handshake
<1>. QED BY <1>1, Invariant, PTL

----------------------------------------------------------------------------
(* What a step may never do.                                               *)

HeldB == bvalid => (bvalid' /\ b' = b) \/ ~live'
HeldR == rvalid => \/ rvalid' /\ r' = r /\ rlog' = rlog
                   \/ ~rvalid' /\ rlog' = Append(rlog, r)
                   \/ cur' = None

LEMMA HeldStep == ASSUME IInv, LinkInv, [ObsNext]_allVars PROVE HeldB /\ HeldR
<1>1. CASE MasterStep /\ UNCHANGED obs
  BY <1>1 DEF MasterStep, RaiseAW, RaiseAR, RaiseW, bRegs, rRegs, obs, HeldB, HeldR,
              IInv, TypeOK
<1>2. CASE ObsReset
  BY <1>2 DEF ObsReset, Reset, HeldB, HeldR
<1>3. ASSUME NEW in \in Inputs, ObsEdge(in), bvalid \/ rvalid PROVE HeldB /\ HeldR
  <2>1. ~accept
    BY <1>3 DEF accept, aw_handshake, ar_handshake, AWREADY, ARREADY, idle_for_new
  <2>2. /\ rlog' = IF r_handshake(in) THEN Append(rlog, r) ELSE rlog
        /\ live' = (live /\ ~b_handshake(in) /\ ~(r_handshake(in) /\ r.last))
    BY <1>3, <2>1, Records DEF ObsEdge
  <2>3. HeldB
    BY <1>3, <2>2 DEF ObsEdge, Edge, BBlock, b_due, bRegs, IInv, TypeOK, HeldB
  <2>4. HeldR
    BY <1>3, <2>2 DEF ObsEdge, Edge, RBlock, r_due, rRegs, IInv, TypeOK, HeldR
  <2>. QED BY <2>3, <2>4
<1>4. CASE UNCHANGED allVars
  BY <1>4 DEF allVars, vars, bRegs, rRegs, obs, HeldB, HeldR, IInv, TypeOK
<1>5. CASE ~bvalid /\ ~rvalid
  BY <1>5 DEF HeldB, HeldR
<1>. QED BY <1>1, <1>2, <1>3, <1>4, <1>5 DEF ObsNext

\* An offered response is withdrawn by nothing but its handshake, or a reset,
\* and never changes while it is offered.
THEOREM ResponsesStand == ObsSpec => ResponseHeld
  BY Invariant, HeldStep, PTL DEF ObsSpec, ResponseHeld, HeldB, HeldR

\* What a step may do to the pins of port p.
PinStep(p) ==
    /\ ~psel[p] /\ psel'[p] => ~penable'[p]
    /\ psel[p] /\ psel'[p] => pbus'[p] = pbus[p] /\ (penable[p] => penable'[p])
    /\ psel[p] /\ ~penable[p] => penable'[p] \/ master' # master \/ cur' = None
    /\ psel[p] /\ ~psel'[p] => \/ penable[p] /\ Len(plog') = Len(plog) + 1
                               \/ cur' = None

LEMMA PinEdge ==
    ASSUME IInv, LinkInv, NEW in \in Inputs, ObsEdge(in), NEW p \in Port
    PROVE  PinStep(p)
<1>1. CASE ApbStartWrite \/ ApbStartRead(in) \/ ApbIdle(in)
  <2>1. ~psel[p] /\ ~penable'[p]
    BY <1>1 DEF ApbStartWrite, ApbStartRead, ApbIdle, Drive, Nobody, IInv, PortInv
  <2>. QED BY <2>1 DEF PinStep
<1>2. CASE ApbSetup
  <2>1. /\ psel[p] <=> axi.sel = p
        /\ ~penable[p] /\ psel' = psel /\ pbus' = pbus
        /\ penable' = [penable EXCEPT ![axi.sel] = TRUE]
    BY <1>2 DEF ApbSetup, IInv, PortInv
  <2>2. psel[p] => penable'[p]
    BY <2>1 DEF IInv, TypeOK
  <2>. QED BY <2>1, <2>2 DEF PinStep
<1>3. CASE ApbWait(in)
  BY <1>3 DEF ApbWait, apbRegs, apbPins, IInv, PortInv, PinStep
<1>4. CASE ApbComplete(in)
  <2>1. /\ apb_state = "ACCESS" /\ live /\ ~accept /\ ~psel'[p]
        /\ psel[p] => penable[p]
    BY <1>4 DEF ApbComplete, apb_done, Nobody, IInv, PortInv, OpenInv, LinkInv,
       accept, aw_handshake, ar_handshake, AWREADY, ARREADY, idle_for_new
  <2>2. plog' = Append(plog, Transfer(axi.sel, in)) /\ apb_done(in)
    BY <1>4, <2>1, Records DEF ApbComplete, ObsEdge
  <2>3. Transfer(axi.sel, in) \in Transfers
    BY <2>1, <2>2, CompleteRecord
  <2>4. Len(plog') = Len(plog) + 1
    BY <2>1, <2>2, <2>3, LiveTypes, AppendFacts
  <2>. QED BY <2>1, <2>4 DEF PinStep
<1>. QED BY <1>1, <1>2, <1>3, <1>4 DEF ObsEdge, Edge, ApbBlock

LEMMA PinSteps ==
    ASSUME IInv, LinkInv, ObsNext, NEW p \in Port PROVE PinStep(p)
<1>1. CASE MasterStep
  <2>1. /\ psel' = psel /\ penable' = penable /\ pbus' = pbus
    BY <1>1 DEF MasterStep, RaiseAW, RaiseAR, RaiseW, apbRegs, apbPins
  <2>2. master' # master
    BY <1>1, PinAssumption DEF MasterStep, RaiseAW, RaiseAR, RaiseW, master
  <2>. QED BY <2>1, <2>2 DEF PinStep
<1>2. CASE ObsReset
  BY <1>2 DEF ObsReset, Reset, Nobody, PinStep
<1>. QED BY <1>1, <1>2, PinEdge DEF ObsNext

\* Each APB transfer is one setup cycle, then access cycles that end with the
\* slave's PREADY, with address, control and data held from the setup on
\* (contract, "APB4 Behavior").
THEOREM ApbTransfers == ObsSpec => ApbProtocol
<1>1. IInv /\ LinkInv /\ ObsNext => \A p \in Port : PinStep(p)
  BY PinSteps
<1>. QED BY <1>1, Invariant, PTL DEF ObsSpec, ApbProtocol, PinStep
=============================================================================
