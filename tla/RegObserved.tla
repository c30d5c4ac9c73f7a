---------------------------- MODULE RegObserved ----------------------------
(***************************************************************************)
(* The register block with a passive observer of its pins, which records   *)
(* the address phase of the open write and the responses taken last, and   *)
(* the mapping under which the block implements AtomicRegs.                *)
(***************************************************************************)
EXTENDS RegBlock

VARIABLES wop, blast, rlast

obs == <<wop, blast, rlast>>
allVars == <<vars, obs>>

Observe(bready, rready) ==
    /\ wop' = IF aw_handshake THEN aw ELSE IF bvalid /\ bready THEN None ELSE wop
    /\ blast' = IF bvalid /\ bready THEN b ELSE blast
    /\ rlast' = IF rvalid /\ rready THEN r ELSE rlast

ObsInit == Init /\ wop = None /\ blast = None /\ rlast = None

ObsReset == Reset /\ wop' = None /\ blast' = None /\ rlast' = None

ObsNext == \/ MasterStep /\ UNCHANGED obs
           \/ ObsReset
           \/ \E bready, rready \in BOOLEAN :
                 Edge(bready, rready) /\ Observe(bready, rready)

ObsSpec == ObsInit /\ [][ObsNext]_allVars

FairObsSpec == ObsSpec /\ Fairness

Promise == INSTANCE AtomicRegs WITH
               mem <- regfile,
               bop <- IF bvalid THEN b ELSE None,
               rop <- IF rvalid THEN r ELSE None

\* The write latch holds the address phase that the observer recorded.
LinkInv == IF wr_state = "IDLE" THEN wop = None
           ELSE /\ wop \in Writes
                /\ wr = [id |-> wop.id, idx |-> RegOf(wop.addr),
                         range |-> InRange(wop.addr)]

----------------------------------------------------------------------------
(* Properties.                                                             *)

\* Under the master's eyes the two FSMs are one register file with atomic
\* reads and writes: a refused write changes nothing, an accepted one exactly
\* its strobed lanes, and a read returns what the register held when it was
\* accepted (axi3lite_regblock.v:3-6).
KeepsPromise == Promise!Spec

\* An offered response stands until it is taken, whatever the other FSM does.
ResponseHeld ==
    [][/\ bvalid => (bvalid' /\ b' = b) \/ (~bvalid' /\ blast' \in {b, None})
       /\ rvalid => (rvalid' /\ r' = r) \/ (~rvalid' /\ rlast' \in {r, None})]_allVars
=============================================================================
