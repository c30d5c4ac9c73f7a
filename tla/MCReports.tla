----------------------------- MODULE MCReports -----------------------------
(***************************************************************************)
(* Constants for the run of the metrics report.  Machines differ in their  *)
(* tools, so that no one state has to vary all the files.                  *)
(***************************************************************************)
EXTENDS MetricsReport

CONSTANTS nofile, torn

Machine(tools, k, shells, duts, hits, again) ==
    [tools |-> tools, keep_going |-> k, shells |-> shells,
     duts |-> duts, hits |-> hits, again |-> again]
SomeMachines == {
    Machine({"verilator"}, FALSE, {{}}, 1, {0, 1}, TRUE),
    Machine({"verilator"}, FALSE, {{}}, 2, {1}, TRUE),
    Machine({"verilator", "sby"}, TRUE, {{}}, 1, {1}, FALSE),
    Machine({"verilator", "uvm"}, FALSE, {{"GITHUB_ACTIONS", "CONTAINER"}}, 1, {1}, FALSE),
    Machine({"verilator", "cocotb"}, FALSE, {{}}, 1, {1}, FALSE),
    Machine({"uvm", "fragments"}, FALSE, {{}}, 0, {1}, TRUE),
    Machine({"sby"}, FALSE, {{"RAILWAY"}, {"UVM_RUN_ENV"}}, 0, {1}, TRUE)}

\* Two lines and a signal edge of a source file, a line of a harness.
SF(dut)  == [k |-> "SF", dut |-> dut]
DA(line) == [k |-> "DA", line |-> line, hits |-> 0]
BRDA     == [k |-> "BRDA", hits |-> 0]
END      == [k |-> "END"]
TwoFiles == <<SF(TRUE), DA(1), DA(2), BRDA, END, SF(FALSE), DA(1), END>>

TwoProofs == <<"simple", "simple", "burst", "burst">>
OneTop    == {"burst"}
Verdicts2 == {<<>>, <<"PASS", "PASS">>, <<"PASS", "FAIL">>, <<"FAIL", "PASS">>}
=============================================================================
