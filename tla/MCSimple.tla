------------------------------ MODULE MCSimple ------------------------------
(***************************************************************************)
(* Constants for the runs of the single-beat bridge: two windows of 8      *)
(* bytes, one legal request per port, and one refused for its length.      *)
(***************************************************************************)
EXTENDS AxiApbSimple

CONSTANTS zero, one, none, x

Q(id, addr, len, bytes) ==
    [id |-> id, addr |-> addr, len |-> len, bytes |-> bytes, burst |-> "INCR",
     prot |-> id]

Low    == Q(1, 0, 0, 2)     \* port 0
High   == Q(2, 8, 0, 2)     \* port 1
Long   == Q(1, 0, 1, 2)     \* two beats: refused
Narrow == Q(2, 8, 0, 1)     \* one-byte beat: refused

Writes == {Low, Long}
Reads  == {High, Narrow}

AnyData == {zero, one}
AnyBeat == {[data |-> d, last |-> TRUE] : d \in AnyData}
OneBeat == {[data |-> one, last |-> TRUE]}

Ans(rd_, e, d) == [ready |-> rd_, err |-> e, data |-> d]
AnyAnswer == {Ans(FALSE, FALSE, zero), Ans(TRUE, FALSE, one), Ans(TRUE, TRUE, zero)}
=============================================================================
