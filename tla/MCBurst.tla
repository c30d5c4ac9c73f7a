------------------------------ MODULE MCBurst ------------------------------
(***************************************************************************)
(* Constants for the runs of the burst bridge: 2-byte beats, two windows   *)
(* of 8 bytes, so an INCR burst can stay inside a window or leave it.       *)
(***************************************************************************)
EXTENDS AxiApbBurst

CONSTANTS zero, one, none, x

Q(id, addr, len, bytes, burst, prot) ==
    [id |-> id, addr |-> addr, len |-> len, bytes |-> bytes, burst |-> burst,
     prot |-> prot]

Inside   == Q(1, 4, 1, 2, "INCR", 1)    \* beats at 4 and 6: port 0
Top      == Q(2, 14, 1, 2, "FIXED", 0)  \* both beats at 14: port 1
Crosses  == Q(2, 6, 1, 2, "INCR", 0)    \* 6 then 8: refused

Single   == Q(2, 0, 0, 2, "INCR", 0)    \* one beat: port 0
Three    == Q(1, 10, 2, 2, "INCR", 0)   \* ends with port 1's window
ThreeOut == Q(2, 4, 2, 2, "INCR", 0)    \* its last beat leaves it: refused

Long  == {Three, ThreeOut}
Mixed == {Inside, Top, Crosses}
Split == {Inside, Crosses}
One   == {Single}

AnyData == {zero, one}

Beat(d, l) == [data |-> d, last |-> l]
AnyBeat == {Beat(zero, FALSE), Beat(one, FALSE), Beat(one, TRUE)}
TwoBeats == {Beat(zero, FALSE), Beat(one, TRUE)}
OneBeat == {Beat(one, TRUE)}

Ans(rd, e, d) == [ready |-> rd, err |-> e, data |-> d]
WriteAnswers == {Ans(FALSE, FALSE, zero), Ans(TRUE, FALSE, zero), Ans(TRUE, TRUE, zero)}
LiveAnswers == {Ans(FALSE, FALSE, zero), Ans(TRUE, FALSE, zero)}
ReadAnswers  == {Ans(FALSE, FALSE, zero), Ans(TRUE, FALSE, zero),
                 Ans(TRUE, FALSE, one), Ans(TRUE, TRUE, one)}
=============================================================================
