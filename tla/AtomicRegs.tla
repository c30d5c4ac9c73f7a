----------------------------- MODULE AtomicRegs -----------------------------
(***************************************************************************)
(* What the register block promises: a register file whose reads and       *)
(* writes each take effect at one instant.  A write takes effect in the    *)
(* strobed lanes when its beat arrives, or not at all; a read that is      *)
(* accepted at the same instant still returns the old value.               *)
(***************************************************************************)
CONSTANTS Writes, Beats, Reads, None,
          InRange(_),   \* the address names a register
          RegOf(_),     \* the register it names
          Blank         \* the contents of a register after reset, and the
                        \* data of a refused read

VARIABLES
    mem,        \* the registers
    wop, bop,   \* the open write's address phase; its response, once decided
    rop,        \* the open read's response
    blast, rlast    \* the B and R responses given last

vars == <<mem, wop, bop, rop, blast, rlast>>

Merge(old, beat) == [l \in DOMAIN old |-> IF l \in beat.strb THEN beat.data[l] ELSE old[l]]

Accepted(q, beat) == InRange(q.addr) /\ beat.id = q.id

\* The read of q answered from the registers as they are.
Answer(q) == [id   |-> q.id,
              data |-> IF InRange(q.addr) THEN mem[RegOf(q.addr)] ELSE Blank,
              resp |-> IF InRange(q.addr) THEN "OKAY" ELSE "SLVERR"]

WriteKeeps == UNCHANGED <<mem, wop, bop, blast>>
ReadKeeps  == UNCHANGED <<rop, rlast>>

TakeAW(q) == /\ wop = None /\ bop = None
             /\ wop' = q
             /\ UNCHANGED <<mem, bop, blast>>

Apply(beat) == /\ wop # None /\ bop = None
               /\ mem' = IF Accepted(wop, beat)
                         THEN [mem EXCEPT ![RegOf(wop.addr)] = Merge(@, beat)] ELSE mem
               /\ bop' = [id |-> wop.id,
                          resp |-> IF Accepted(wop, beat) THEN "OKAY" ELSE "SLVERR"]
               /\ UNCHANGED <<wop, blast>>

GiveB == /\ bop # None
         /\ blast' = bop /\ bop' = None /\ wop' = None
         /\ UNCHANGED mem

TakeAR(q) == /\ rop = None
             /\ rop' = Answer(q)
             /\ UNCHANGED rlast

GiveR == /\ rop # None
         /\ rlast' = rop /\ rop' = None

WriteStep == \/ \E q \in Writes : TakeAW(q)
             \/ \E beat \in Beats : Apply(beat)
             \/ GiveB

ReadStep == GiveR \/ \E q \in Reads : TakeAR(q)

Cleared == /\ \A i \in DOMAIN mem : mem[i] = Blank
           /\ wop = None /\ bop = None /\ rop = None

Reset == /\ mem' = [i \in DOMAIN mem |-> Blank]
         /\ wop' = None /\ bop' = None /\ rop' = None
         /\ blast' = None /\ rlast' = None

Init == Cleared /\ blast = None /\ rlast = None

\* The write side and the read side run independently.
Next == \/ WriteStep /\ (ReadKeeps \/ ReadStep)
        \/ WriteKeeps /\ ReadStep
        \/ Reset

Spec == Init /\ [][Next]_vars
=============================================================================
