------------------------------ MODULE MCSwarm ------------------------------
(***************************************************************************)
(* Constants for the runs of the swarm board: two workers, so that the     *)
(* branch of one may carry a copy of the other's file and be listed before *)
(* or after it; reports in the first ticks, then silence.                  *)
(***************************************************************************)
EXTENDS SwarmBoard

CONSTANTS nofile, torn

FirstOnce == <<1, 2>>       \* worker 1 reports once, worker 2 twice
SomeUse == <<{"start", "fail"}, {"update", "result", "done"}>>
Clocks == <<1, 0>>          \* worker 1's clock is ahead
SecondOnly == {2}
FirstMerges == {<<1, 2>>}
=============================================================================
