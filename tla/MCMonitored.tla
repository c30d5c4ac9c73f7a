---------------------------- MODULE MCMonitored ----------------------------
(***************************************************************************)
(* Constants for the runs of the monitored bridge: requests that touch the *)
(* same words of port 0, one on port 1 whose slave may fail, one refused.  *)
(***************************************************************************)
EXTENDS MirroredBench

CONSTANTS zero, one, none, x

Q(id, addr, len, burst) ==
    [id |-> id, addr |-> addr, len |-> len, bytes |-> 2, burst |-> burst, prot |-> 0]

Inside  == Q(1, 4, 1, "INCR")    \* words 4 and 6: port 0
Top     == Q(2, 14, 1, "FIXED")  \* word 14 twice: port 1
Crosses == Q(2, 6, 1, "INCR")    \* 6 then 8: refused

Writes == {Inside, Top, Crosses}
Reads  == {Inside, Crosses}

AnyData == {zero, one}

Beat(d, l) == [data |-> d, last |-> l]
AnyBeat  == {Beat(zero, FALSE), Beat(one, TRUE)}

Ans(rd_, e, d) == [ready |-> rd_, err |-> e, data |-> d]
AnyAnswer == {Ans(rd_, FALSE, d) : rd_ \in BOOLEAN, d \in AnyData}
                \cup {Ans(TRUE, TRUE, d) : d \in AnyData}

Failing == {14}
=============================================================================
