------------------------------ MODULE MCStress ------------------------------
(***************************************************************************)
(* Constants for the run of the monitored bridge as test_bridge_stress     *)
(* configures it: the scoreboard's keys do not follow the slave's words.   *)
(***************************************************************************)
EXTENDS MonitoredBridge

CONSTANTS zero, one, none, x

Q(id, addr) ==
    [id |-> id, addr |-> addr, len |-> 0, bytes |-> 2, burst |-> "INCR", prot |-> 0]

Word0 == Q(1, 0)    \* two words of port 0, the second of which ends where the
Word4 == Q(2, 4)    \* first began in half the map

Singles == {Word0, Word4}
OneWord == {Word0}
AnyData == {zero, one}
LastBeat == {[data |-> d, last |-> TRUE] : d \in AnyData}

Ans(rd_, d) == [ready |-> rd_, err |-> FALSE, data |-> d]
AnyAnswer == {Ans(rd_, d) : rd_ \in BOOLEAN, d \in AnyData}

NoErr == {}
=============================================================================
