------------------------------ MODULE MCCocotb ------------------------------
(***************************************************************************)
(* Constants for the run of the cocotb bench: words of two byte lanes.     *)
(***************************************************************************)
EXTENDS CocotbBench

CONSTANTS none, x, keep

zero == <<0, 0>>
full == <<1, 2>>
half == <<keep, 3>>      \* strobes the second lane only

Q(addr, len, burst) ==
    [id |-> 1, addr |-> addr, len |-> len, bytes |-> 2, burst |-> burst, prot |-> 0]

C(fn, q, data, wlast) == [fn |-> fn, q |-> q, data |-> data, wlast |-> wlast]

Three   == Q(10, 2, "INCR")     \* the last words of port 1
Fixed   == Q(4, 1, "FIXED")     \* one word of port 0, twice
Crosses == Q(6, 1, "INCR")      \* refused

SomeCalls == {
    C("write", Q(4, 0, "INCR"), <<half>>, 0),
    C("burst_write", Three, <<full, half, full>>, 2),
    C("burst_write", Fixed, <<full, half>>, 1),
    C("burst_write", Crosses, <<full, full>>, 1),
    C("burst_write_wlast_at", Three, <<full, full, full>>, 0),
    C("burst_write_wlast_at", Fixed, <<half, half>>, 9),
    C("read", Q(4, 0, "INCR"), <<>>, 0),
    C("burst_read", Three, <<>>, 0),
    C("burst_read", Crosses, <<>>, 0)}

SomeWaits == {[p \in Port |-> 0], [p \in Port |-> IF p = 0 THEN 2 ELSE 1]}

Words_ == {zero, full, half, <<0, 3>>, <<1, 3>>}
WriteReqs == {c.q : c \in {d \in SomeCalls : d.data # <<>>}}
ReadReqs == {c.q : c \in {d \in SomeCalls : d.data = <<>>}}
BeatsOf == {[data |-> d, last |-> l] : d \in Words_, l \in BOOLEAN}
AnyAnswer == {[ready |-> rdy, err |-> FALSE, data |-> d] : rdy \in BOOLEAN, d \in Words_}
=============================================================================
