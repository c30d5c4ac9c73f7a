----------------------------- MODULE SingleBeat -----------------------------
(***************************************************************************)
(* What the single-beat bridge promises: it takes the two halves of a      *)
(* write in either order, or one read, does one APB transfer for it (none  *)
(* if it refuses the request) and gives one response.  Reads and writes    *)
(* never overlap.  No clock, no registers, no handshakes.                  *)
(***************************************************************************)
EXTENDS Naturals

CONSTANTS AWRequests, ARRequests, WBeats, Data, Zero, None,
          refused(_),       \* the request is answered with DECERR
          PortOf(_)         \* port an address decodes to

VARIABLES
    wr, wd,     \* accepted halves of the open write
    rd,         \* accepted read
    done,       \* its APB transfer
    last        \* the response given last

vars == <<wr, wd, rd, done, last>>

Closed == wr' = None /\ wd' = None /\ rd' = None /\ done' = None

TakeAW(q) == /\ wr = None /\ rd = None
             /\ wr' = q
             /\ UNCHANGED <<wd, rd, done, last>>

TakeW(beat) == /\ wd = None /\ rd = None
               /\ wd' = beat
               /\ UNCHANGED <<wr, rd, done, last>>

TakeBoth(q, beat) == /\ wr = None /\ wd = None /\ rd = None
                     /\ wr' = q /\ wd' = beat
                     /\ UNCHANGED <<rd, done, last>>

TakeAR(q) == /\ wr = None /\ wd = None /\ rd = None
             /\ rd' = q
             /\ UNCHANGED <<wr, wd, done, last>>

Access(q, isWrite, data, err) ==
    [port |-> PortOf(q.addr), addr |-> q.addr, prot |-> q.prot,
     write |-> isWrite, data |-> data, err |-> err]

DoTransfer(q, isWrite, data, err) ==
    /\ ~refused(q) /\ done = None
    /\ done' = Access(q, isWrite, data, err)
    /\ UNCHANGED <<wr, wd, rd, last>>

WriteTransfer(err) == wr # None /\ wd # None /\ DoTransfer(wr, TRUE, wd.data, err)

ReadTransfer(data, err) == rd # None /\ DoTransfer(rd, FALSE, data, err)

Status(q) == IF refused(q) THEN "DECERR" ELSE IF done.err THEN "SLVERR" ELSE "OKAY"

GiveB == /\ wr # None /\ wd # None /\ (refused(wr) \/ done # None)
         /\ last' = [id |-> wr.id, resp |-> Status(wr)]
         /\ Closed

GiveR == /\ rd # None /\ (refused(rd) \/ done # None)
         /\ last' = [id |-> rd.id, resp |-> Status(rd), last |-> TRUE,
                     data |-> IF refused(rd) THEN Zero ELSE done.data]
         /\ Closed

Reset == Closed /\ last' = None

Init == wr = None /\ wd = None /\ rd = None /\ done = None /\ last = None

Next == \/ \E q \in AWRequests : TakeAW(q)
        \/ \E beat \in WBeats : TakeW(beat)
        \/ \E q \in AWRequests, beat \in WBeats : TakeBoth(q, beat)
        \/ \E q \in ARRequests : TakeAR(q)
        \/ \E err \in BOOLEAN : WriteTransfer(err)
        \/ \E data \in Data, err \in BOOLEAN : ReadTransfer(data, err)
        \/ GiveB \/ GiveR \/ Reset

Spec == Init /\ [][Next]_vars
=============================================================================
