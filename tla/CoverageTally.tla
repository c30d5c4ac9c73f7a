--------------------------- MODULE CoverageTally ---------------------------
(***************************************************************************)
(* The two readers of an lcov .info file: parse_coverage of                *)
(* scripts/gen_report.py, whose tally the threshold gate uses, and         *)
(* FileRecord with parse_info of scripts/cov_report.py, which prints the   *)
(* table.  A file is a sequence of lines; a line has a kind k, and with it *)
(* SF the flag dut (a path under src/), DA a line number and a hit count,  *)
(* BRDA a count, one per signal edge.  A name in _bug is a plausible       *)
(* mistake in the definition below it.                                     *)
(***************************************************************************)
EXTENDS Integers, Sequences, FiniteSets

Indices(ls, k) == {i \in DOMAIN ls : ls[i].k = k}

\* No line strictly between i and j opens or ends a file.
Quiet(ls, i, j) == \A n \in i + 1 .. j - 1 : ls[n].k \notin {"SF", "END"}

Tally(lines, lhit, toggles, thit) ==
    [lines |-> Cardinality(lines), lhit |-> Cardinality(lhit),
     toggles |-> Cardinality(toggles), thit |-> Cardinality(thit)]

----------------------------------------------------------------------------
(* gen_report.py counts every record of a file under src/.                 *)

counted(ls, k) == {i \in Indices(ls, k) :
                      \E j \in Indices(ls, "SF") : /\ j < i /\ ls[j].dut
                                                   /\ Quiet(ls, j, i)}

\* The points of all files together, as pairs of a file and a line.
points(fs, k) == UNION {{<<d, i>> : i \in counted(fs[d], k)} : d \in DOMAIN fs}

parse_coverage(fs) ==
    LET hit(s) == {p \in s : fs[p[1]][p[2]].hits > 0}
    IN  Tally(points(fs, "DA"), hit(points(fs, "DA")),
              points(fs, "BRDA"), hit(points(fs, "BRDA")))

----------------------------------------------------------------------------
(* cov_report.py collects a record per SF line and keeps it at its end     *)
(* marker or at the end of the file; one that a new SF line cuts off is    *)
(* dropped.  DA lines with the same number are added up.                   *)

\* The end of the file keeps nothing.
records_bug(ls) == {j \in Indices(ls, "SF") :
                       \E i \in Indices(ls, "END") : j < i /\ Quiet(ls, j, i)}
records(ls) == {j \in Indices(ls, "SF") :
                   \/ \E i \in Indices(ls, "END") : j < i /\ Quiet(ls, j, i)
                   \/ Quiet(ls, j, Len(ls) + 1)}

Body(ls, j, k) == {i \in Indices(ls, k) : j < i /\ Quiet(ls, j, i)}

\* The sums over the records rs, as the table's TOTAL line has them.
totals(ls, rs) ==
    LET of(k)  == {p \in rs \X DOMAIN ls : p[2] \in Body(ls, p[1], k)}
        hit(s) == {p \in s : ls[p[2]].hits > 0}
        numbers(s) == {<<p[1], ls[p[2]].line>> : p \in s}
    IN  Tally(numbers(of("DA")), numbers(hit(of("DA"))), of("BRDA"), hit(of("BRDA")))

\* The records the gate also counts.
parse_info(ls) == totals(ls, {j \in records(ls) : ls[j].dut})
=============================================================================
