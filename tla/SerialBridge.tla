---------------------------- MODULE SerialBridge ----------------------------
(***************************************************************************)
(* What the burst bridge promises (doc/design_contract.md): transactions   *)
(* one at a time, each accepted beat of a legal one turned into one APB    *)
(* transfer in beat order, each read beat answered from its own transfer,  *)
(* one B response per write with the verdict over the whole burst, and a   *)
(* refused transaction answered without touching APB.  No clock, no        *)
(* registers, no handshakes: only the order in which things may happen.    *)
(***************************************************************************)
EXTENDS Naturals, Sequences

CONSTANTS AWRequests, ARRequests, WBeats, Data, Zero, None,
          Legal(_),         \* the request is one the bridge carries out
          BeatAddr(_, _),   \* address of beat i (from 1) of a request
          PortOf(_)         \* port an address decodes to

VARIABLES
    cur,    \* the transaction last accepted and its direction
    live,   \* it is still open
    wlog,   \* its W beats taken so far
    plog,   \* its APB transfers done so far
    rlog,   \* its R beats delivered so far
    blog    \* its B response, once delivered

vars == <<cur, live, wlog, plog, rlog, blog>>

Writing == live /\ cur.write
Reading == live /\ ~cur.write

\* The data phase is over: WLAST came, or as many beats as AWLEN announced.
DataDone == /\ wlog # <<>>
            /\ wlog[Len(wlog)].last \/ Len(wlog) = cur.q.len + 1

\* WLAST did not mark beat AWLEN + 1 and that beat alone.
Malformed == \E i \in 1 .. Len(wlog) : wlog[i].last # (i = cur.q.len + 1)

Verdict == IF ~Legal(cur.q) THEN "DECERR"
           ELSE IF Malformed \/ \E i \in 1 .. Len(plog) : plog[i].err
                THEN "SLVERR" ELSE "OKAY"

\* Transfer number i as the slave sees it.
BeatTransfer(i, data, err) ==
    [port |-> PortOf(BeatAddr(cur.q, i)), addr |-> BeatAddr(cur.q, i),
     prot |-> cur.q.prot, write |-> cur.write, data |-> data, err |-> err]

\* R beat number i; that of a legal read repeats what transfer i returned.
ReadBeat(i) ==
    [id   |-> cur.q.id,
     data |-> IF Legal(cur.q) THEN plog[i].data ELSE Zero,
     resp |-> IF ~Legal(cur.q) THEN "DECERR"
              ELSE IF plog[i].err THEN "SLVERR" ELSE "OKAY",
     last |-> i = cur.q.len + 1]

Cleared == wlog' = <<>> /\ plog' = <<>> /\ rlog' = <<>> /\ blog' = <<>>

Accept(q, isWrite) ==
    /\ ~live
    /\ cur' = [write |-> isWrite, q |-> q] /\ live' = TRUE
    /\ Cleared

TakeW(beat) ==
    /\ Writing /\ ~DataDone
    /\ wlog' = Append(wlog, beat)
    /\ UNCHANGED <<cur, live, plog, rlog, blog>>

WriteTransfer(err) ==
    LET i == Len(plog) + 1
    IN  /\ Writing /\ Legal(cur.q)
        /\ i <= Len(wlog)
        /\ plog' = Append(plog, BeatTransfer(i, wlog[i].data, err))
        /\ UNCHANGED <<cur, live, wlog, rlog, blog>>

\* The next read is issued only when every beat read so far was delivered.
ReadTransfer(data, err) ==
    LET i == Len(plog) + 1
    IN  /\ Reading /\ Legal(cur.q)
        /\ i = Len(rlog) + 1
        /\ plog' = Append(plog, BeatTransfer(i, data, err))
        /\ UNCHANGED <<cur, live, wlog, rlog, blog>>

GiveR ==
    LET i == Len(rlog) + 1
    IN  /\ Reading
        /\ Legal(cur.q) => i <= Len(plog)
        /\ rlog' = Append(rlog, ReadBeat(i))
        /\ live' = ~ReadBeat(i).last
        /\ UNCHANGED <<cur, wlog, plog, blog>>

GiveB ==
    /\ Writing /\ DataDone
    /\ Legal(cur.q) => Len(plog) = Len(wlog)
    /\ blog' = <<[id |-> cur.q.id, resp |-> Verdict]>>
    /\ live' = FALSE
    /\ UNCHANGED <<cur, wlog, plog, rlog>>

\* A reset abandons the open transaction.
Reset == cur' = None /\ live' = FALSE /\ Cleared

Init == /\ cur = None /\ live = FALSE
        /\ wlog = <<>> /\ plog = <<>> /\ rlog = <<>> /\ blog = <<>>

Next == \/ \E q \in AWRequests : Accept(q, TRUE)
        \/ \E q \in ARRequests : Accept(q, FALSE)
        \/ \E beat \in WBeats : TakeW(beat)
        \/ \E err \in BOOLEAN : WriteTransfer(err)
        \/ \E data \in Data, err \in BOOLEAN : ReadTransfer(data, err)
        \/ GiveR \/ GiveB \/ Reset

Spec == Init /\ [][Next]_vars
=============================================================================
