--------------------------- MODULE MetricsReport ---------------------------
(***************************************************************************)
(* The metrics report: "make report" runs the flows that its machine has   *)
(* tools for, each of which leaves files behind, and scripts/gen_report.py *)
(* reads whatever files there are and leaves metrics.json, which "make     *)
(* report_check" judges at any later time.  A flow may fail, or be killed, *)
(* with its file half written, and so may the report; the UVM tops are run *)
(* beside all this, and fragments of other environments are copied in.     *)
(* The benchmark, report.md and report.html are left out.  A name in _bug  *)
(* is a plausible mistake in the definition below it.                      *)
(***************************************************************************)
EXTENDS CoverageTally

CONSTANTS
    Tops, Duts, Groups, \* the UVM tops; how many .info files and cocotb groups
    Tasks,              \* the formal tasks in the order they are run, with proof
    Template,           \* the lines of an .info file, but for the hits
    Verdicts,           \* what a group's tests may come to
    Machines,           \* the machines: their tools, make's -k, the sets of
                        \* environment variables that a report may run under;
                        \* bounds: how many DUTs it gets to the coverage of,
                        \* the hit counts that come of it, and whether it makes
                        \* one report after another without a make clean
    MinLine, MinToggle, \* the thresholds
    NoFile, Torn        \* no such file; a file cut short by a kill

Status == {"PASS", "FAIL"}
Env    == {"given", "railway", "ci", "container", "local"}
EnvVars == {"UVM_RUN_ENV", "RAILWAY", "GITHUB_ACTIONS", "CONTAINER"}
TopMap == UNION {[S -> Status] : S \in SUBSET Tops}
Store  == UNION {[S -> TopMap] : S \in SUBSET Env}
LogLine == [k : {"INFO", "WARNING", "ERROR", "FATAL"}, n : {0, 1}]

ASSUME ReportAssumption ==
    /\ Duts \in Nat /\ Groups \in Nat /\ MinLine \in 1 .. 100 /\ MinToggle \in 1 .. 100
    /\ \A mc \in Machines : /\ mc.duts \in Nat /\ mc.shells # {}
                            /\ \A shell \in mc.shells : shell \subseteq EnvVars
                            /\ mc.duts <= Duts /\ mc.hits \subseteq {0, 1}
    /\ Verdicts \subseteq Seq(Status)
    /\ NoFile # Torn /\ {NoFile, Torn} \cap (Store \cup TopMap) = {}
    /\ NoFile \notin Seq(LogLine)

InfoLine == [k : {"SF"}, dut : BOOLEAN] \cup [k : {"DA"}, line : Nat, hits : {0, 1}]
            \cup [k : {"BRDA"}, hits : {0, 1}] \cup [k : {"END"}]

\* verilator_coverage ends the record of a file before it begins the next, and
\* has one DA line for a source line.
ASSUME TemplateAssumption ==
    /\ Template \in Seq(InfoLine) /\ NoFile \notin Seq(InfoLine)
    /\ \A j \in Indices(Template, "SF") :
          /\ \E e \in Indices(Template, "END") : j < e /\ Quiet(Template, j, e)
          /\ \A a, c \in Body(Template, j, "DA") :
                Template[a].line = Template[c].line => a = c

VARIABLES
    machine,    \* the one of Machines that this is
    info, xml, formal,  \* the files of the flows: per DUT, per group, one log
    log, sim,   \* per top: its run.log, and the state of its run
    frag, envfile,      \* env-*.json, per environment; environments.json
    pc, at,     \* where make is, and at which part of a flow
    m,          \* what gen_report.py is about to write: metrics.json as file,
                \* and environments
    metrics,    \* metrics.json; its problems are history: what was wrong with
                \* the files it was made from
    history     \* history: the environments that environments.json has shown
                \* since it was last torn or removed

flows == <<info, xml, formal>>
uvm   == <<log, sim>>
envs  == <<frag, envfile, history>>
run   == <<pc, at, m, metrics>>
vars  == <<machine, flows, uvm, envs, run>>

----------------------------------------------------------------------------
(* The readers.                                                            *)

\* A count is that of the last line for it.  Without a report a run failed;
\* in the mistake a warning is held against it.
count(ls, k) ==
    IF Indices(ls, k) = {} THEN 0
    ELSE ls[CHOOSE i \in Indices(ls, k) : \A j \in Indices(ls, k) : j <= i].n

parse_uvm_top_bug(ls) ==
    IF ls # <<>> /\ \A k \in {"WARNING", "ERROR", "FATAL"} : count(ls, k) = 0
    THEN "PASS" ELSE "FAIL"
parse_uvm_top(ls) ==
    IF ls # <<>> /\ count(ls, "ERROR") = 0 /\ count(ls, "FATAL") = 0
    THEN "PASS" ELSE "FAIL"

parse_uvm_tops == [t \in {u \in Tops : log[u] # NoFile} |-> parse_uvm_top(log[t])]

\* The .info files that exist.
there == [d \in {c \in 1 .. Duts : info[c] # NoFile} |-> info[d]]

\* Groups whose file is missing, torn or empty do not appear.
parse_cocotb == [g \in {h \in 1 .. Groups : xml[h] \notin {NoFile, Torn, <<>>}} |-> xml[g]]

\* The _bmc and _cover tasks of a proof share its name; a FAIL of either
\* stays.  DONE (ERROR) and the like are not matched.
done(p) == {i \in DOMAIN formal : formal[i].proof = p /\ formal[i].status \in Status}

parse_formal_bug ==
    [p \in {formal[i].proof : i \in {j \in DOMAIN formal : done(formal[j].proof) # {}}} |->
        formal[CHOOSE i \in done(p) : \A j \in done(p) : j <= i].status]
parse_formal ==
    [p \in {formal[i].proof : i \in {j \in DOMAIN formal : done(formal[j].proof) # {}}} |->
        IF \E i \in done(p) : formal[i].status = "FAIL" THEN "FAIL" ELSE "PASS"]

detect_env(shell) ==
    CASE "UVM_RUN_ENV" \in shell -> "given"
      [] "UVM_RUN_ENV" \notin shell /\ "RAILWAY" \in shell -> "railway"
      [] shell \cap {"UVM_RUN_ENV", "RAILWAY"} = {} /\ "GITHUB_ACTIONS" \in shell -> "ci"
      [] shell = {"CONTAINER"} -> "container"
      [] shell = {} -> "local"

(* merge_environments.  A torn file counts as an empty one, and a fragment *)
(* that is torn or has no tops is passed over.                             *)

\* What the except clause around json.loads names, in the mistake without the
\* error of a torn file.
excepted_bug == {"OSError"}
excepted == {"ValueError", "OSError"}
raises == envfile = Torn /\ "ValueError" \notin excepted

\* The file starts over each time.
base_bug == <<>>
base == IF envfile \in {NoFile, Torn} THEN <<>> ELSE envfile

readable == {e \in Env : frag[e] \notin {NoFile, Torn, <<>>}}

merge_environments(env_name, tops) ==
    [e \in DOMAIN base \cup readable \cup (IF tops = <<>> THEN {} ELSE {env_name}) |->
        IF e \in readable THEN frag[e]
        ELSE IF e = env_name /\ tops # <<>> THEN tops ELSE base[e]]

(* check_thresholds.  Missing coverage counts as 0%, missing flows pass.   *)

\* _pct rounds to two decimals: what misses a whole number of percent by a
\* two-hundredth of one still reaches it.
pct_ok(hit, total, min) == total > 0 /\ 20000 * hit >= (200 * min - 1) * total

line_ok(c)   == pct_ok(c.lhit, c.lines, MinLine)
toggle_ok(c) == pct_ok(c.thit, c.toggles, MinToggle)

check_thresholds(f) ==
    /\ line_ok(f.coverage) /\ toggle_ok(f.coverage)
    /\ \A t \in DOMAIN f.uvm_tops : f.uvm_tops[t] = "PASS"
    /\ \A p \in DOMAIN f.formal : f.formal[p] = "PASS"
    /\ \A g \in DOMAIN f.cocotb : \A i \in DOMAIN f.cocotb[g] : f.cocotb[g][i] = "PASS"

\* What make report_check comes to.  It writes nothing, so it is run in every
\* state: after a report, after later flows, after a kill.
report_check == CASE metrics = NoFile -> "missing"
                  [] metrics = Torn -> "raises"
                  [] OTHER -> IF check_thresholds(metrics) THEN "green" ELSE "red"

----------------------------------------------------------------------------
(* The flows of "make report", each followed by the next whatever became   *)
(* of it (the "-" of the Makefile).                                        *)

Goto(p) == pc' = p /\ at' = 1

resting == pc \in {"idle", "made", "killed"}

Start == /\ resting /\ (pc = "made" => machine.again)
         /\ Goto("coverage")
         /\ UNCHANGED <<machine, flows, uvm, envs, m, metrics>>

Step(p, tool) == pc = p /\ tool \in machine.tools
KeepRest == UNCHANGED <<machine, uvm, envs, m, metrics>>

\* verilator_coverage writes the .info file of one DUT after another.
NewInfo == /\ Step("coverage", "verilator") /\ at <= machine.duts
           /\ info' = [info EXCEPT ![at] = <<>>]
           /\ pc' = "info" /\ UNCHANGED <<at, xml, formal>> /\ KeepRest

WriteInfo == /\ pc = "info" /\ Len(info[at]) < Len(Template)
             /\ \E hits \in machine.hits :
                  LET line == Template[Len(info[at]) + 1]
                  IN  info' = [info EXCEPT ![at] =
                                 Append(@, IF line.k \in {"DA", "BRDA"}
                                           THEN [line EXCEPT !.hits = hits] ELSE line)]
             /\ UNCHANGED <<pc, at, xml, formal>> /\ KeepRest

\* It ends, or fails half way: the echo after it succeeds, and the next DUT's
\* turn comes.
InfoDone == /\ pc = "info"
            /\ pc' = "coverage" /\ at' = at + 1
            /\ UNCHANGED flows /\ KeepRest

\* A group's results.xml is removed, and written when its tests are over.
NewXml == /\ Step("cocotb", "cocotb") /\ at <= Groups
          /\ xml' = [xml EXCEPT ![at] = NoFile]
          /\ pc' = "xml" /\ UNCHANGED <<at, info, formal>> /\ KeepRest

WriteXml == /\ pc = "xml"
            /\ \E v \in Verdicts : xml' = [xml EXCEPT ![at] = v]
            /\ pc' = "cocotb" /\ at' = at + 1
            /\ UNCHANGED <<info, formal>> /\ KeepRest

\* tee empties the log whether there is a prover or not.
NewFormal == /\ pc = "formal"
             /\ formal' = <<>>
             /\ Goto(IF "sby" \in machine.tools THEN "prove" ELSE "aggregate")
             /\ UNCHANGED <<info, xml>> /\ KeepRest

\* make stops at a task that does not pass, unless told to keep going.
Prove == /\ pc = "prove" /\ at <= Len(Tasks)
         /\ \E s \in Status \cup {"ERROR"} :
              /\ formal' = Append(formal, [proof |-> Tasks[at], status |-> s])
              /\ IF s = "PASS" \/ machine.keep_going THEN pc' = pc /\ at' = at + 1
                                                    ELSE Goto("aggregate")
         /\ UNCHANGED <<info, xml>> /\ KeepRest

\* A results.xml that is being written may stay half written.
MayTear == xml' \in {xml} \cup (IF pc = "xml" THEN {[xml EXCEPT ![at] = Torn]} ELSE {})

\* A flow is over, is not there, or fails half way.
NextFlow == /\ pc \in {"coverage", "cocotb", "xml", "prove"}
            /\ Goto(CASE pc = "coverage" -> "cocotb"
                       [] pc \in {"cocotb", "xml"} -> "formal"
                       [] pc = "prove" -> "aggregate")
            /\ MayTear
            /\ UNCHANGED <<info, formal>> /\ KeepRest

----------------------------------------------------------------------------
(* gen_report.py.                                                          *)

(* What there is to object to in the files, by what the flows did and not   *)
(* by what gen_report.py reads; of coverage, what the rows of cov_report.py *)
(* for the files under src/ add up to, for each DUT.                        *)

over(t) == sim[t].state = "over"

misses(d) == LET total == parse_info(info[d])
             IN  (IF line_ok(total) THEN {} ELSE {"line"})
                 \cup (IF toggle_ok(total) THEN {} ELSE {"toggle"})

Said(what, p) == IF p THEN {what} ELSE {}

found ==
    Said("uvm", \E t \in Tops : over(t) /\ sim[t].errors + sim[t].fatals > 0)
    \cup Said("unfinished", \E t \in Tops : log[t] # NoFile /\ ~over(t))
    \cup Said("formal", \E i \in DOMAIN formal : formal[i].status = "FAIL")
    \cup Said("proof_error", \E i \in DOMAIN formal : formal[i].status = "ERROR")
    \cup Said("cocotb", \E g \in 1 .. Groups :
                          /\ xml[g] \notin {NoFile, Torn}
                          /\ \E i \in DOMAIN xml[g] : xml[g][i] = "FAIL")
    \cup Said("torn_xml", \E g \in 1 .. Groups : xml[g] = Torn)
    \cup Said("no_coverage", DOMAIN there = {})
    \cup Said("low", /\ DOMAIN there # {}
                    /\ \E k \in {"line", "toggle"} : \A d \in DOMAIN there : k \in misses(d))
    \cup Said("uneven", \E d \in DOMAIN there : misses(d) # {})

(* main up to metrics.json.  environments.json is emptied, then written;    *)
(* without any tops it is left alone.                                       *)

aggregate ==
    /\ pc = "aggregate" /\ ~raises
    /\ \E shell \in machine.shells :
         LET tops == parse_uvm_tops
             store == merge_environments(detect_env(shell), tops)
         IN  /\ m' = [file |-> [coverage |-> parse_coverage(there), uvm_tops |-> tops,
                                formal |-> parse_formal, cocotb |-> parse_cocotb,
                                problems |-> found],
                      environments |-> store]
             /\ IF store = <<>> THEN Goto("write") /\ UNCHANGED envfile
                ELSE Goto("dump") /\ envfile' = Torn
    /\ UNCHANGED <<machine, flows, uvm, frag, history, metrics>>

Dump == /\ pc = "dump"
        /\ envfile' = m.environments
        /\ history' = history \cup DOMAIN m.environments
        /\ Goto("write")
        /\ UNCHANGED <<machine, flows, uvm, frag, m, metrics>>

Write == /\ pc = "write"
         /\ metrics' = m.file /\ m' = NoFile
         /\ Goto("made")
         /\ UNCHANGED <<machine, flows, uvm, envs>>

\* make is killed: what was being written is as it was or half written, and
\* a torn environments.json has lost what it showed.
Kill == /\ ~resting
        /\ Goto("killed") /\ MayTear /\ m' = NoFile
        /\ metrics' \in {metrics} \cup (IF pc = "write" THEN {Torn} ELSE {})
        /\ history' = IF pc = "dump" THEN {} ELSE history
        /\ UNCHANGED <<machine, info, formal, uvm, frag, envfile>>

----------------------------------------------------------------------------
(* Beside it: the UVM tops, the fragments, and make clean.                 *)

KeepReport == UNCHANGED <<machine, flows, run>>

\* Building a top removes its directory, log and all, and one build may be run
\* again and again; a build or a run may be killed, by the memory limit if by
\* nothing else.
Build(t) == /\ "uvm" \in machine.tools
            /\ log' = [log EXCEPT ![t] = NoFile]
            /\ sim' = [sim EXCEPT ![t] = [state |-> "built", errors |-> 0, fatals |-> 0]]
            /\ UNCHANGED envs /\ KeepReport

Simulate(t) == /\ sim[t].state # "none"
               /\ log' = [log EXCEPT ![t] = <<>>]
               /\ \E e, f \in {0, 1} :
                    sim' = [sim EXCEPT ![t] = [state |-> "runs", errors |-> e, fatals |-> f]]
               /\ UNCHANGED envs /\ KeepReport

Counts(t) == <<[k |-> "INFO", n |-> 1], [k |-> "WARNING", n |-> 1],
               [k |-> "ERROR", n |-> sim[t].errors], [k |-> "FATAL", n |-> sim[t].fatals]>>

\* The report at the end of a run, line by line.
Log(t) == /\ sim[t].state = "runs" /\ Len(log[t]) < 4
          /\ log' = [log EXCEPT ![t] = Append(@, Counts(t)[Len(@) + 1])]
          /\ sim' = [sim EXCEPT ![t].state = IF Len(log[t]) = 3 THEN "over" ELSE "runs"]
          /\ UNCHANGED envs /\ KeepReport

\* gen_report.py --fragment, on this machine.
fragment == /\ "fragments" \in machine.tools
            /\ \E shell \in machine.shells :
                 frag' = [frag EXCEPT ![detect_env(shell)] = parse_uvm_tops]
            /\ UNCHANGED <<uvm, envfile, history>> /\ KeepReport

\* A fragment of another machine is copied in, whole or not.
CopyFragment ==
    /\ "fragments" \in machine.tools
    /\ frag' \in {[frag EXCEPT !["container"] = f] : f \in {Torn, [t \in Tops |-> "PASS"]}}
    /\ UNCHANGED <<uvm, envfile, history>> /\ KeepReport

\* make clean takes the report directory and the .info files; results.xml and
\* the directories of the UVM tops stay.
clean == /\ resting /\ Goto("idle")
         /\ info' = [d \in 1 .. Duts |-> NoFile] /\ formal' = <<>>
         /\ frag' = [e \in Env |-> NoFile] /\ envfile' = NoFile /\ history' = {}
         /\ metrics' = NoFile
         /\ UNCHANGED <<machine, xml, uvm, m>>

----------------------------------------------------------------------------
Init == /\ machine \in Machines
        /\ info = [d \in 1 .. Duts |-> NoFile] /\ xml = [g \in 1 .. Groups |-> NoFile]
        /\ formal = <<>>
        /\ log = [t \in Tops |-> NoFile]
        /\ sim = [t \in Tops |-> [state |-> "none", errors |-> 0, fatals |-> 0]]
        /\ frag = [e \in Env |-> NoFile] /\ envfile = NoFile /\ history = {}
        /\ pc = "idle" /\ at = 1 /\ m = NoFile /\ metrics = NoFile

Report == \/ NewInfo \/ WriteInfo \/ InfoDone \/ NewXml \/ WriteXml
          \/ NewFormal \/ Prove \/ NextFlow
          \/ aggregate \/ Dump \/ Write

Beside == \/ \E t \in Tops : Build(t) \/ Simulate(t) \/ Log(t)
          \/ fragment \/ CopyFragment \/ clean

Next == Start \/ Report \/ Kill \/ Beside

Spec == Init /\ [][Next]_vars

\* make runs on; its flows come to an end.
FairSpec == Spec /\ WF_vars(Report)
----------------------------------------------------------------------------
(* Properties.                                                             *)

\* What a green check has overlooked all the same: a UVM run that is not over
\* (its log may have INFO and not yet ERROR), a proof that ended in DONE (ERROR)
\* or the like, a torn results.xml, and a DUT whose own coverage misses a floor
\* that all DUTs together reach.
Overlooked == {"unfinished", "proof_error", "torn_xml", "uneven"}

\* What turns it red; no coverage at all does so too.
Reasons == {"uvm", "unfinished", "formal", "cocotb", "no_coverage", "low", "uneven"}

\* Whenever report_check is run, a green one overlooks nothing else that was
\* wrong with the files the last report read: no error of a finished UVM run,
\* no FAIL of any task of a proof or of any test, no floor that every DUT
\* misses; and a red one has a reason in those files, never only a proof or a
\* test that it does not see (gen_report.py:129-192, 445-482).
GateRight ==
    /\ report_check = "green" => metrics.problems \subseteq Overlooked
    /\ report_check = "red" => metrics.problems \cap Reasons # {}

\* An environment once shown stays in environments.json until a kill tears
\* the file or make clean removes it.
EnvsKept ==
    \A e \in history : e \in DOMAIN (IF pc = "dump" THEN m.environments ELSE envfile)

\* The table and the gate count the same coverage in every .info file, one
\* that is being written or was cut off between two lines included
\* (doc/coverage_notes.md:149-150).
TalliesAgree ==
    \A d \in DOMAIN there : parse_coverage([c \in {d} |-> info[c]]) = parse_info(info[d])

\* A report that is not killed leaves a metrics.json that report_check can
\* judge, whatever flows failed and whatever files an earlier kill left torn.
ReportMade == pc = "coverage" ~> \/ pc = "killed"
                                 \/ pc = "made" /\ report_check \in {"green", "red"}
=============================================================================
