--------------------------- MODULE SimpleObserved ---------------------------
(***************************************************************************)
(* The single-beat bridge with a passive observer of its pins, which       *)
(* records the accepted halves of the open write or the accepted read, the *)
(* APB transfer that completed for it and the response taken last.         *)
(***************************************************************************)
EXTENDS AxiApbSimple

VARIABLES wr, wd, rd, done, last

obs == <<wr, wd, rd, done, last>>
allVars == <<vars, obs>>

Respond(resp) == /\ last' = resp
                 /\ wr' = None /\ wd' = None /\ rd' = None /\ done' = None

Observe(in) ==
    \/ b_handshake(in) /\ Respond(b)
    \/ r_handshake(in) /\ Respond(r)
    \/ /\ ~b_handshake(in) /\ ~r_handshake(in)
       /\ wr' = IF aw_handshake THEN aw ELSE wr
       /\ wd' = IF w_handshake THEN w ELSE wd
       /\ rd' = IF ar_handshake THEN ar ELSE rd
       /\ \/ done_at(in) = {} /\ done' = done
          \/ \E p \in done_at(in) : done' = Transfer(p, in)
       /\ UNCHANGED last

ObsInit == /\ Init
           /\ wr = None /\ wd = None /\ rd = None /\ done = None /\ last = None

ObsReset == Reset /\ Respond(None)

ObsEdge(in) == Edge(in) /\ Observe(in)

ObsNext == \/ MasterStep /\ UNCHANGED obs
           \/ ObsReset
           \/ \E in \in Inputs : ObsEdge(in)

ObsSpec == ObsInit /\ [][ObsNext]_allVars

FairObsSpec == ObsSpec /\ Fairness

Promise == INSTANCE SingleBeat

\* A completed transfer is told from none.
ASSUME ObserverAssumption ==
    None \notin [port : Port, addr : Addr, prot : Nat, write : BOOLEAN, data : Data,
                 err : BOOLEAN]

----------------------------------------------------------------------------
(* What the record has to do with the registers.                           *)

WritePhase == state = "WRITE_APB" \/ (state = "WRITE_RESP" /\ bvalid)
ReadPhase  == state = "READ_APB" \/ (state = "READ_RESP" /\ rvalid)

\* The latches hold exactly what was accepted and not yet answered.
OpenInv ==
    /\ wr # None <=> aw_pending \/ WritePhase
    /\ wd # None <=> w_pending \/ WritePhase
    /\ rd # None <=> ReadPhase
    /\ wr # None => wr \in AWRequests /\ txn = Fields(wr)
    /\ wd # None => wd \in WBeats /\ wdata = wd.data
    /\ rd # None => rd \in ARRequests /\ txn = Fields(rd)

\* A request is on APB only if it is carried out, and then it was recorded as
\* done before its response is offered.
DoneInv ==
    /\ aw_pending => (refused(wr) <=> state = "ERR_RESP")
    /\ state = "WRITE_APB" => ~refused(wr)
    /\ state = "READ_APB" => ~refused(rd)
    /\ done # None <=> (bvalid /\ ~refused(wr)) \/ (rvalid /\ ~refused(rd))

\* The offered response is the one the open request is owed.
OfferInv ==
    /\ bvalid => b = [id |-> wr.id, resp |-> Promise!Status(wr)]
    /\ rvalid => r = [id |-> rd.id, resp |-> Promise!Status(rd), last |-> TRUE,
                      data |-> IF refused(rd) THEN Zero ELSE done.data]

LinkInv == OpenInv /\ DoneInv /\ OfferInv

----------------------------------------------------------------------------
(* Properties.                                                             *)

\* The clocked bridge carries out the machine of SingleBeat: a read never
\* slips between the halves of a write, each request reaches APB once with
\* the beat it was paired with, and the response is that of its transfer.
KeepsPromise == Promise!Spec

\* An offered response answers what is open and stays as it is until its
\* handshake.
ResponseHeld ==
    [][/\ bvalid => (bvalid' /\ b' = b) \/ (~bvalid' /\ last' \in {b, None})
       /\ rvalid => (rvalid' /\ r' = r) \/ (~rvalid' /\ last' \in {r, None})]_allVars

\* While a port is selected for the first time it is not enabled; from then
\* on address, control and data stand until the slave's PREADY.
ApbProtocol ==
    [][\A p \in Port :
          /\ ~psel[p] /\ psel'[p] => ~penable'[p]
          /\ psel[p] /\ psel'[p] => pbus'[p] = pbus[p] /\ (penable[p] => penable'[p])
          /\ psel[p] /\ ~psel'[p] => \/ penable[p] /\ done = None /\ done' # None
                                     \/ last' = None]_allVars
=============================================================================
