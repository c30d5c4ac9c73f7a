------------------------------- MODULE MCReg -------------------------------
(***************************************************************************)
(* Constants for the runs of the register block: two registers of two      *)
(* lanes, an address just past the last register that aliases register 0,  *)
(* and beats that strobe one lane or both, under two IDs.                  *)
(***************************************************************************)
EXTENDS RegBlock, TLC

CONSTANTS zero, one, none

A(id, addr) == [id |-> id, addr |-> addr]
B(id, lo, hi, strb) == [id |-> id, data |-> (0 :> lo @@ 1 :> hi), strb |-> strb]

WriteSet == {A(1, 0), A(2, 4), A(1, 9)}
ReadSet  == {A(1, 4), A(2, 8)}
BeatSet  == {B(1, one, one, {0}), B(2, zero, one, {0, 1})}
TwoLanes == {0, 1}
AnyByte  == {zero, one}
=============================================================================
