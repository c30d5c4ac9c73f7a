----------------------------- MODULE Scoreboard -----------------------------
(***************************************************************************)
(* The scoreboard of the bridges' UVM environment                          *)
(* (uvm/sv/scoreboard/bridge_scoreboard.sv) as operators on its state: it  *)
(* expands every completed AXI burst into the APB transfers it predicts,   *)
(* queues predictions and observations per port until both sides are       *)
(* there, and keeps a shadow of the slaves' memories.                      *)
(*                                                                         *)
(* The state is a record: the queues pred_wr, pred_rd, buf_wr and buf_rd,  *)
(* the shadow slv_shadow, and mismatch, TRUE once any check has failed.    *)
(***************************************************************************)
EXTENDS AddressMap, Sequences, FiniteSets

CONSTANTS
    Zeros,          \* the all-zero word, which a shadow entry never written reads as
    KeyBytes,       \* 2^apb_mem_addr_lsb
    Keys            \* 2^(apb_mem_addr_msb - apb_mem_addr_lsb + 1)

ASSUME KeyAssumption == KeyBytes \in Nat \ {0} /\ Keys \in Nat \ {0}

\* In the mistake the two ports share one key.
ram_key_of_bug(p, a) == <<0, (a \div KeyBytes) % Keys>>
ram_key_of(p, a) == <<p, (a \div KeyBytes) % Keys>>

NoQueue == [p \in Port |-> <<>>]
Fresh == [pred_wr |-> NoQueue, pred_rd |-> NoQueue, buf_wr |-> NoQueue,
          buf_rd |-> NoQueue,
          slv_shadow |-> [k \in Port \X (0 .. Keys - 1) |-> Zeros],
          mismatch |-> FALSE]

\* The scoreboard's own judgement of a request and expansion of a burst
\* (uvm/sv/pkg/bridge_uvm_env_pkg.sv); beats are numbered from 0.
txn_illegal(q) ==
    \/ q.bytes # BusBytes
    \/ q.burst \notin {"FIXED", "INCR"}
    \/ /\ q.burst = "INCR"
       /\ PortOf(q.addr) # PortOf((q.addr + q.len * q.bytes) % AddrSpace)

bridge_beat_addr(q, beat) ==
    IF q.burst = "FIXED" THEN q.addr ELSE (q.addr + beat * q.bytes) % AddrSpace

Pred(q, beat, isWrite, data) ==
    LET aa == bridge_beat_addr(q, beat)
    IN  [port |-> PortOf(aa), addr |-> aa, write |-> isWrite, data |-> data]

\* The predictions for port p, in beat order.
ForPort(p, preds) ==
    LET of == {i \in DOMAIN preds : preds[i].port = p}
    IN  [k \in 1 .. Cardinality(of) |->
           preds[CHOOSE i \in of : Cardinality({j \in of : j <= i}) = k]]

\* How many predictions and observations are both there, and what is left of
\* a queue once n entries are taken off it.
Pairs(xs, ys) == IF Len(xs) < Len(ys) THEN Len(xs) ELSE Len(ys)
Rest(s, n) == SubSeq(s, n + 1, Len(s))

MetaWrong(pred, obs, p, isWrite) ==
    pred.port # obs.port \/ pred.port # p \/ obs.write # isWrite \/ pred.addr # obs.addr

\* The shadow once the transfers obs are committed to it in their order: of
\* those of one key that did not fail the last one stays.
Committed(shadow, obs) ==
    [k \in DOMAIN shadow |->
        LET hits == {i \in DOMAIN obs : /\ ~obs[i].err
                                        /\ ram_key_of(obs[i].port, obs[i].addr) = k}
        IN  IF hits = {} THEN shadow[k]
            ELSE obs[CHOOSE i \in hits : \A j \in hits : j <= i].data]

\* The first n calls of one_wr_hit and of one_rd_hit.
wr_hits(sb, p, n) ==
    LET preds == sb.pred_wr[p]
        obs   == sb.buf_wr[p]
    IN  [sb EXCEPT !.pred_wr[p] = Rest(@, n), !.buf_wr[p] = Rest(@, n),
                   !.mismatch = @ \/ \E i \in 1 .. n :
                                        \/ MetaWrong(preds[i], obs[i], p, TRUE)
                                        \/ preds[i].data # obs[i].data,
                   !.slv_shadow = Committed(@, SubSeq(obs, 1, n))]

rd_hits(sb, p, n) ==
    LET preds == sb.pred_rd[p]
        obs   == sb.buf_rd[p]
    IN  [sb EXCEPT !.pred_rd[p] = Rest(@, n), !.buf_rd[p] = Rest(@, n),
                   !.mismatch = @ \/ \E i \in 1 .. n :
                                        \/ MetaWrong(preds[i], obs[i], p, FALSE)
                                        \/ ~obs[i].err /\ preds[i].data # obs[i].data]

\* In the mistake only one pair is taken off the queues.
reconcile_wr_port_bug(sb, p) ==
    IF sb.pred_wr[p] # <<>> /\ sb.buf_wr[p] # <<>> THEN wr_hits(sb, p, 1) ELSE sb
reconcile_wr_port(sb, p) == wr_hits(sb, p, Pairs(sb.pred_wr[p], sb.buf_wr[p]))
reconcile_rd_port(sb, p) == rd_hits(sb, p, Pairs(sb.pred_rd[p], sb.buf_rd[p]))

\* An APB transfer reported by the monitor of its port.
ingest_apb(sb, obs) ==
    IF obs.write
    THEN reconcile_wr_port([sb EXCEPT !.buf_wr[obs.port] = Append(@, obs)], obs.port)
    ELSE reconcile_rd_port([sb EXCEPT !.buf_rd[obs.port] = Append(@, obs)], obs.port)

\* The response must be DECERR exactly for the requests judged illegal.
CheckDecerr(sb, t) ==
    [sb EXCEPT !.mismatch = @ \/ ~(txn_illegal(t.q) <=> t.resp = "DECERR")]

\* A write whose B was captured.  After SLVERR as many transfers are
\* predicted as W beats were captured; otherwise there must be AWLEN + 1.
write_axi_wr(sb, t) ==
    LET checked == CheckDecerr(sb, t)
        preds == [i \in 1 .. Len(t.data) |-> Pred(t.q, i - 1, TRUE, t.data[i])]
        queued == [checked EXCEPT
                     !.pred_wr = [p \in Port |-> @[p] \o ForPort(p, preds)]]
    IN  IF txn_illegal(t.q) THEN checked
        ELSE IF t.resp # "SLVERR" /\ Len(t.data) # t.q.len + 1
             THEN [checked EXCEPT !.mismatch = TRUE]
        ELSE reconcile_wr_port(reconcile_wr_port(queued, 0), 1)

\* A read whose last R beat was captured.  A refused one returns zeros.  The
\* data of a legal one, on AXI and on APB, is compared with the shadow.
write_axi_rd(sb, t) ==
    LET checked == CheckDecerr(sb, t)
        beats == 1 .. t.q.len + 1
        short == Len(t.data) # t.q.len + 1
        shadow_peek(i) ==
            LET aa == bridge_beat_addr(t.q, i - 1)
            IN  sb.slv_shadow[ram_key_of(PortOf(aa), aa)]
        preds == [i \in beats |-> Pred(t.q, i - 1, FALSE, shadow_peek(i))]
        wrong == IF txn_illegal(t.q)
                 THEN \E i \in beats : i > Len(t.data) \/ t.data[i] # Zeros
                 ELSE short \/ \E i \in beats : t.data[i] # shadow_peek(i)
        flagged == [checked EXCEPT !.mismatch = @ \/ wrong]
        queued == [flagged EXCEPT
                     !.pred_rd = [p \in Port |-> @[p] \o ForPort(p, preds)]]
    IN  IF txn_illegal(t.q) \/ short THEN flagged
        ELSE reconcile_rd_port(reconcile_rd_port(queued, 0), 1)

\* The check of report_phase: nothing waits for its other side.
AllMatched(sb) == \A p \in Port : /\ sb.pred_wr[p] = <<>> /\ sb.buf_wr[p] = <<>>
                                  /\ sb.pred_rd[p] = <<>> /\ sb.buf_rd[p] = <<>>
=============================================================================
