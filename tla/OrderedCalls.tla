---------------------------- MODULE OrderedCalls ----------------------------
(***************************************************************************)
(* What the driver calls of a cocotb test promise it: one call at a time;  *)
(* a write stores the beats it sends, in order, in the lanes they strobe;  *)
(* a read returns what the memories hold; a call that the bridge refuses   *)
(* does neither.  No clock, no bridge, no slaves.                          *)
(***************************************************************************)
EXTENDS AddressMap, Sequences

CONSTANTS
    Calls,      \* the calls of the tests
    Data,       \* words, and W data with its strobes
    Zero,       \* the word of zeros
    Keep,       \* a byte lane that is not strobed
    None        \* no call

\* data is what the W beats carry; wlast numbers, from 0, the beat with WLAST.
Call == [fn : {"write", "burst_write", "burst_write_wlast_at", "read", "burst_read"},
         q : Request, data : Seq(Data), wlast : Nat]

is_write(c) == c.fn \in {"write", "burst_write", "burst_write_wlast_at"}

\* A write call sends no beat after WLAST and none beyond AWLEN.
Sent(c) == (IF c.wlast < c.q.len THEN c.wlast ELSE c.q.len) + 1

Lanes == DOMAIN Zero

\* The bytes of old that new does not strobe are kept.
Merge(old, new) == [l \in Lanes |-> IF new[l] = Keep THEN old[l] ELSE new[l]]

Cells == UNION {{BeatAddr(c.q, i) : i \in 1 .. c.q.len + 1} : c \in Calls}
Blank == [p \in Port |-> [a \in Cells |-> Zero]]
----------------------------------------------------------------------------
VARIABLES
    mem,        \* the memories behind the two ports
    call,       \* the call that runs, or None
    stored,     \* beats of it that are in the memory
    result      \* what the last call returned, until the next one

callVars == <<mem, call, stored, result>>

NoResult == [resp |-> "none", data |-> <<>>]

Begin(c) == /\ call = None
            /\ call' = c /\ result' = NoResult
            /\ UNCHANGED <<mem, stored>>

StoreBeat ==
    /\ call # None /\ is_write(call) /\ Legal(call.q) /\ stored < Sent(call)
    /\ LET p == PortOf(call.q.addr)
           a == BeatAddr(call.q, stored + 1)
       IN  mem' = [mem EXCEPT ![p][a] = Merge(@, call.data[stored + 1])]
    /\ stored' = stored + 1
    /\ UNCHANGED <<call, result>>

Status(c) == IF ~Legal(c.q) THEN "DECERR"
             ELSE IF is_write(c) /\ c.wlast # c.q.len THEN "SLVERR" ELSE "OKAY"

Held(q, i) == IF Legal(q) THEN mem[PortOf(q.addr)][BeatAddr(q, i)] ELSE Zero

Return(resp, data) ==
    /\ result' = [resp |-> resp, data |-> data]
    /\ call' = None /\ stored' = 0
    /\ UNCHANGED mem

ReturnWrite == /\ call # None /\ is_write(call)
               /\ stored = IF Legal(call.q) THEN Sent(call) ELSE 0
               /\ Return(Status(call), <<>>)

\* burst_read does not return RRESP.
ReturnRead ==
    /\ call # None /\ ~is_write(call)
    /\ Return(IF call.fn = "read" THEN Status(call) ELSE "none",
              [i \in 1 .. call.q.len + 1 |-> Held(call.q, i)])

\* Another test starts.
Restart == mem' = Blank /\ call' = None /\ stored' = 0 /\ result' = NoResult

CallsInit == mem = Blank /\ call = None /\ stored = 0 /\ result = NoResult

CallsNext == \/ \E c \in Calls : Begin(c)
             \/ StoreBeat \/ ReturnWrite \/ ReturnRead \/ Restart

CallsSpec == CallsInit /\ [][CallsNext]_callVars
=============================================================================
