------------------------ MODULE MetricsReport_proofs ------------------------
(***************************************************************************)
(* For any machines, tops, flows and fragments: an environment that        *)
(* environments.json has once shown is never lost by a report, and the     *)
(* verdict of report_check is what the files show.                         *)
(***************************************************************************)
EXTENDS MetricsReport, FiniteSetTheorems, WellFoundedInduction, TLAPS

\* What the merge reads and writes are maps.
MapsOK ==
    /\ machine \in Machines
    /\ frag \in [Env -> TopMap \cup {NoFile, Torn}]
    /\ envfile \in Store \cup {NoFile, Torn}
    /\ pc = "dump" => m.environments \in Store

\* What has been shown is in the file, or about to be written to it again.
ShownInv ==
    /\ pc = "dump" => history \subseteq DOMAIN m.environments
    /\ pc # "dump" /\ history # {} =>
          envfile \in Store /\ history \subseteq DOMAIN envfile

MergeInv == MapsOK /\ ShownInv

LEMMA TopsAreMap == parse_uvm_tops \in TopMap
<1>1. \A ls : parse_uvm_top(ls) \in Status
  BY DEF parse_uvm_top, Status
<1>2. parse_uvm_tops \in [{u \in Tops : log[u] # NoFile} -> Status]
  BY <1>1 DEF parse_uvm_tops
<1> QED
  BY <1>2 DEF TopMap

LEMMA EnvNamed == ASSUME NEW shell \in SUBSET EnvVars
                  PROVE  detect_env(shell) \in Env
<1>1. CASE "UVM_RUN_ENV" \in shell
  BY <1>1 DEF detect_env, Env
<1>2. CASE "UVM_RUN_ENV" \notin shell /\ "RAILWAY" \in shell
  BY <1>2 DEF detect_env, Env
<1>3. CASE shell \cap {"UVM_RUN_ENV", "RAILWAY"} = {} /\ "GITHUB_ACTIONS" \in shell
  BY <1>3 DEF detect_env, Env
<1>4. CASE shell \cap {"UVM_RUN_ENV", "RAILWAY", "GITHUB_ACTIONS"} = {}
  <2>1. shell = {"CONTAINER"} \/ shell = {}
    BY <1>4 DEF EnvVars
  <2> QED
    BY <2>1 DEF detect_env, Env
<1> QED
  BY <1>1, <1>2, <1>3, <1>4

\* The merge yields a map that has everything the file had.
LEMMA MergeKeeps ==
    ASSUME MapsOK, NEW e \in Env, NEW tops \in TopMap
    PROVE  /\ merge_environments(e, tops) \in Store
           /\ DOMAIN base \subseteq DOMAIN merge_environments(e, tops)
<1> DEFINE D == DOMAIN base \cup readable \cup (IF tops = <<>> THEN {} ELSE {e})
<1>1. base \in Store
  <2>1. CASE envfile \in {NoFile, Torn}
    <3>1. base = <<>>
      BY <2>1 DEF base
    <3>2. <<>> \in [{} -> TopMap]
      OBVIOUS
    <3> QED
      BY <3>1, <3>2 DEF Store
  <2>2. CASE envfile \notin {NoFile, Torn}
    BY <2>2 DEF base, MapsOK
  <2> QED
    BY <2>1, <2>2
<1>2. PICK S \in SUBSET Env : base \in [S -> TopMap]
  BY <1>1 DEF Store
<1>3. D \in SUBSET Env
  BY <1>2 DEF readable
<1>4. merge_environments(e, tops) \in [D -> TopMap]
  <2>1. \A x \in readable : frag[x] \in TopMap
    BY DEF readable, MapsOK
  <2>2. \A x \in D : x \notin readable /\ ~(x = e /\ tops # <<>>) => base[x] \in TopMap
    BY <1>2
  <2> QED
    BY <2>1, <2>2 DEF merge_environments
<1> QED
  BY <1>3, <1>4 DEF Store

LEMMA MergeInvInit == Init => MergeInv
  BY DEF Init, MergeInv, MapsOK, ShownInv

\* A step of make that touches neither the fragments nor environments.json.
LEMMA Elsewhere ==
    ASSUME MergeInv, pc # "dump", pc' # "dump", UNCHANGED <<machine, envs>>
    PROVE  MergeInv'
  BY DEF MergeInv, MapsOK, ShownInv, envs

LEMMA MergeInvNext == MergeInv /\ [Next]_vars => MergeInv'
<1> SUFFICES ASSUME MergeInv, [Next]_vars PROVE MergeInv'
  OBVIOUS
<1>1. CASE Start
  BY <1>1, Elsewhere DEF Start, resting, Goto
<1>2. CASE Report
  <2>1. CASE NewInfo \/ WriteInfo \/ InfoDone \/ NewXml \/ WriteXml
    BY <2>1, Elsewhere DEF NewInfo, WriteInfo, InfoDone, NewXml, WriteXml, Step, KeepRest
  <2>2. CASE NewFormal \/ Prove
    BY <2>2, Elsewhere DEF NewFormal, Prove, Goto, KeepRest
  <2>3. CASE NextFlow
    BY <2>3, Elsewhere DEF NextFlow, Goto, KeepRest
  <2>4. CASE aggregate
    <3>1. PICK shell \in machine.shells :
            LET tops == parse_uvm_tops
                store == merge_environments(detect_env(shell), tops)
            IN  /\ m'.environments = store
                /\ \/ store = <<>> /\ Goto("write") /\ UNCHANGED envfile
                   \/ store # <<>> /\ Goto("dump") /\ envfile' = Torn
      BY <2>4 DEF aggregate
    <3> DEFINE store == merge_environments(detect_env(shell), parse_uvm_tops)
    <3>2. store \in Store /\ DOMAIN base \subseteq DOMAIN store
      <4>1. shell \in SUBSET EnvVars
        BY ReportAssumption DEF MergeInv, MapsOK
      <4> QED
        BY <4>1, TopsAreMap, EnvNamed, MergeKeeps DEF MergeInv
    <3>3. history \subseteq DOMAIN base
      BY <2>4, ReportAssumption DEF aggregate, MergeInv, ShownInv, base
    <3>4. UNCHANGED <<machine, frag, history>> /\ pc = "aggregate"
      BY <2>4 DEF aggregate
    <3>5. CASE store = <<>> /\ Goto("write") /\ UNCHANGED envfile
      BY <3>4, <3>5, Elsewhere DEF Goto, envs
    <3>6. CASE store # <<>> /\ Goto("dump") /\ envfile' = Torn
      <4>1. pc' = "dump" /\ m'.environments = store
        BY <3>1, <3>6 DEF Goto
      <4> QED
        BY <4>1, <3>2, <3>3, <3>4, <3>6 DEF MergeInv, MapsOK, ShownInv
    <3> QED
      BY <3>1, <3>5, <3>6
  <2>5. CASE Dump
    BY <2>5 DEF Dump, Goto, MergeInv, MapsOK, ShownInv
  <2>6. CASE Write
    BY <2>6, Elsewhere DEF Write, Goto
  <2> QED
    BY <1>2, <2>1, <2>2, <2>3, <2>4, <2>5, <2>6 DEF Report
<1>3. CASE Kill
  BY <1>3 DEF Kill, Goto, MergeInv, MapsOK, ShownInv
<1>4. CASE Beside
  <2>1. CASE \E t \in Tops : Build(t) \/ Simulate(t) \/ Log(t)
    <3>1. UNCHANGED <<machine, frag, envfile, history, pc, m>>
      BY <2>1 DEF Build, Simulate, Log, KeepReport, envs, run
    <3> QED
      BY <3>1 DEF MergeInv, MapsOK, ShownInv
  <2>2. CASE fragment
    <3>1. PICK shell \in machine.shells :
            frag' = [frag EXCEPT ![detect_env(shell)] = parse_uvm_tops]
      BY <2>2 DEF fragment
    <3>2. frag' \in [Env -> TopMap \cup {NoFile, Torn}]
      BY <3>1, TopsAreMap DEF MergeInv, MapsOK
    <3> QED
      BY <2>2, <3>2 DEF fragment, KeepReport, run, MergeInv, MapsOK, ShownInv
  <2>3. CASE CopyFragment
    <3>1. [t \in Tops |-> "PASS"] \in TopMap
      BY DEF TopMap, Status
    <3>2. frag' \in [Env -> TopMap \cup {NoFile, Torn}]
      BY <2>3, <3>1 DEF CopyFragment, MergeInv, MapsOK
    <3> QED
      BY <2>3, <3>2 DEF CopyFragment, KeepReport, run, MergeInv, MapsOK, ShownInv
  <2>4. CASE clean
    BY <2>4 DEF clean, Goto, MergeInv, MapsOK, ShownInv
  <2> QED
    BY <1>4, <2>1, <2>2, <2>3, <2>4 DEF Beside
<1>5. CASE UNCHANGED vars
  BY <1>5 DEF vars, envs, run, MergeInv, MapsOK, ShownInv
<1> QED
  BY <1>1, <1>2, <1>3, <1>4, <1>5 DEF Next

\* merge_environments adds to environments.json and takes nothing away, so
\* that only a kill between its opening and its end, or make clean, loses what
\* it showed.
THEOREM EnvironmentsKept == Spec => []EnvsKept
<1>1. MergeInv => EnvsKept
  BY DEF MergeInv, ShownInv, EnvsKept
<1> QED
  BY <1>1, MergeInvInit, MergeInvNext, PTL DEF Spec

----------------------------------------------------------------------------
(* The two tallies of an .info file.                                       *)

\* A line that verilator_coverage may write for the line t of the template.
Fits(l, t) == /\ l \in InfoLine /\ l.k = t.k
              /\ l.k = "SF" => l.dut = t.dut
              /\ l.k = "DA" => l.line = t.line

\* What a kill or a running flow leaves of a file: its first lines.
Beginning(ls) == /\ ls \in Seq(InfoLine) /\ Len(ls) <= Len(Template)
                 /\ \A i \in 1 .. Len(ls) : Fits(ls[i], Template[i])

InfoInv ==
    /\ machine \in Machines /\ DOMAIN info = 1 .. Duts /\ at \in Nat \ {0}
    /\ \A d \in 1 .. Duts : info[d] = NoFile \/ Beginning(info[d])
    /\ pc = "info" => at \in 1 .. Duts /\ Beginning(info[at])

LEMMA InfoInvInit == Init => InfoInv
  BY ReportAssumption DEF Init, InfoInv

\* The file at hand is begun, or gets a line.
LEMMA InfoWritten ==
    ASSUME InfoInv, at \in 1 .. Duts, NEW ls, Beginning(ls),
           info' = [info EXCEPT ![at] = ls], UNCHANGED <<machine, at>>
    PROVE  InfoInv'
<1>1. DOMAIN info' = 1 .. Duts /\ info'[at] = ls
  BY DEF InfoInv
<1>2. \A d \in 1 .. Duts : d # at => info'[d] = info[d]
  BY DEF InfoInv
<1> HIDE DEF Beginning
<1>3. \A d \in 1 .. Duts : info'[d] = NoFile \/ Beginning(info'[d])
  BY <1>1, <1>2 DEF InfoInv
<1>. QED BY <1>1, <1>3 DEF InfoInv

\* A line is added that fits the template.
LEMMA LineFits ==
    ASSUME NEW ls, Beginning(ls), Len(ls) < Len(Template),
           NEW l, Fits(l, Template[Len(ls) + 1])
    PROVE  Beginning(Append(ls, l))
<1>1. /\ ls \in Seq(InfoLine) /\ l \in InfoLine
      /\ \A i \in 1 .. Len(ls) : Fits(ls[i], Template[i])
  BY DEF Beginning, Fits
<1>2. /\ Append(ls, l) \in Seq(InfoLine) /\ Len(Append(ls, l)) = Len(ls) + 1
      /\ Append(ls, l)[Len(ls) + 1] = l
      /\ \A i \in 1 .. Len(ls) : Append(ls, l)[i] = ls[i]
  BY <1>1
<1>3. Len(ls) \in Nat /\ Len(Template) \in Nat
  BY <1>1, TemplateAssumption
<1>4. \A i \in 1 .. Len(ls) + 1 : Fits(Append(ls, l)[i], Template[i])
  <2>1. \A i \in 1 .. Len(ls) + 1 : i \in 1 .. Len(ls) \/ i = Len(ls) + 1
    BY <1>3
  <2>. QED BY <1>1, <1>2, <2>1
<1>. QED BY <1>2, <1>3, <1>4 DEF Beginning

LEMMA InfoInvNext == InfoInv /\ [Next]_vars => InfoInv'
<1> SUFFICES ASSUME InfoInv, [Next]_vars PROVE InfoInv'
  OBVIOUS
<1>1. ASSUME UNCHANGED <<machine, info>>, at' \in Nat \ {0}, pc' # "info" \/ UNCHANGED <<pc, at>>
      PROVE  InfoInv'
  BY <1>1 DEF InfoInv
<1>2. CASE NewInfo
  <2>1. Beginning(<<>>)
    BY TemplateAssumption DEF Beginning
  <2>2. at \in 1 .. Duts
    BY <1>2, ReportAssumption DEF NewInfo, Step, InfoInv
  <2>3. UNCHANGED machine
    BY <1>2 DEF NewInfo, KeepRest
  <2>. QED BY <1>2, <2>1, <2>2, <2>3, InfoWritten DEF NewInfo
<1>3. CASE WriteInfo
  <2> DEFINE t == Template[Len(info[at]) + 1]
  <2>1. PICK hits \in machine.hits :
          info' = [info EXCEPT ![at] =
                     Append(@, IF t.k \in {"DA", "BRDA"} THEN [t EXCEPT !.hits = hits] ELSE t)]
    BY <1>3 DEF WriteInfo
  <2> DEFINE l == IF t.k \in {"DA", "BRDA"} THEN [t EXCEPT !.hits = hits] ELSE t
  <2>2. at \in 1 .. Duts /\ Beginning(info[at]) /\ Len(info[at]) < Len(Template)
    BY <1>3 DEF WriteInfo, InfoInv
  <2>3. t \in InfoLine
    <3>1. info[at] \in Seq(InfoLine)
      BY <2>2 DEF Beginning
    <3>. QED BY <2>2, <3>1, TemplateAssumption
  <2>4. Fits(l, t)
    <3>1. hits \in {0, 1}
      BY ReportAssumption DEF InfoInv
    <3>. QED BY <2>3, <3>1 DEF InfoLine, Fits
  <2>5. Beginning(Append(info[at], l))
    BY <2>2, <2>4, LineFits
  <2>6. info' = [info EXCEPT ![at] = Append(info[at], l)] /\ UNCHANGED <<machine, at>>
    BY <1>3, <2>1 DEF WriteInfo, KeepRest
  <2>. QED BY <2>2, <2>5, <2>6, InfoWritten
<1>4. CASE InfoDone \/ NextFlow \/ Start \/ NewFormal
  BY <1>1, <1>4 DEF InfoDone, NextFlow, Start, NewFormal, Goto, flows, KeepRest, InfoInv
<1>5. CASE NewXml \/ WriteXml \/ Prove
  <2>1. UNCHANGED <<machine, info>> /\ pc' # "info" /\ (at' = at \/ at' = at + 1 \/ at' = 1)
    BY <1>5 DEF NewXml, WriteXml, Prove, Goto, KeepRest
  <2>2. at' \in Nat \ {0}
    BY <2>1 DEF InfoInv
  <2>. QED BY <1>1, <2>1, <2>2
<1>6. CASE aggregate \/ Dump \/ Write \/ Kill
  BY <1>1, <1>6 DEF aggregate, Dump, Write, Kill, Goto, flows, InfoInv
<1>7. CASE clean
  BY <1>7 DEF clean, Goto, InfoInv
<1>8. CASE (Beside /\ ~clean) \/ UNCHANGED vars
  <2>1. UNCHANGED <<machine, info, pc, at>>
    BY <1>8 DEF Beside, Build, Simulate, Log, fragment, CopyFragment, KeepReport, vars,
                flows, run
  <2>2. at \in Nat \ {0}
    BY DEF InfoInv
  <2>. QED BY <1>1, <2>1, <2>2
<1>. QED BY <1>2, <1>3, <1>4, <1>5, <1>6, <1>7, <1>8 DEF Next, Report

----------------------------------------------------------------------------
(* A file of which only the beginning is there.                            *)

\* The SF line of the record that the gate counts line i in.
Opens(ls, j, i) == j \in Indices(ls, "SF") /\ j < i /\ ls[j].dut /\ Quiet(ls, j, i)
opener(ls, i) == CHOOSE j \in Indices(ls, "SF") : Opens(ls, j, i)

LEMMA SetsOfFile ==
    ASSUME NEW ls, Beginning(ls)
    PROVE  /\ DOMAIN ls = 1 .. Len(ls) /\ Len(ls) \in Nat
           /\ \A i \in 1 .. Len(ls) : ls[i] \in InfoLine /\ i \in DOMAIN Template
           /\ \A k : Indices(ls, k) \subseteq 1 .. Len(ls)
           /\ \A k : Indices(ls, k) \subseteq Indices(Template, k)
  BY TemplateAssumption DEF Beginning, Fits, Indices

\* No two SF lines open the same record.
LEMMA OneOpener ==
    ASSUME NEW ls, Beginning(ls), NEW i \in 1 .. Len(ls),
           NEW a, Opens(ls, a, i), NEW c, Opens(ls, c, i)
    PROVE  a = c
<1>1. a \in 1 .. Len(ls) /\ c \in 1 .. Len(ls) /\ a < i /\ c < i
  BY SetsOfFile DEF Opens
<1>2. ls[a].k = "SF" /\ ls[c].k = "SF"
  BY DEF Opens, Indices
<1>3. ~(a < c)
  BY <1>1, <1>2 DEF Opens, Quiet
<1>4. ~(c < a)
  BY <1>1, <1>2 DEF Opens, Quiet
<1>. QED BY <1>1, <1>3, <1>4

\* The table keeps every record that is open at the end of what is there.
LEMMA NoneDropped ==
    ASSUME NEW ls, Beginning(ls), NEW j \in Indices(ls, "SF")
    PROVE  j \in records(ls)
<1>1. j \in Indices(Template, "SF") /\ j \in 1 .. Len(ls)
  BY SetsOfFile
<1>2. PICK e \in Indices(Template, "END") : j < e /\ Quiet(Template, j, e)
  BY <1>1, TemplateAssumption
<1>3. e \in Nat /\ Len(ls) \in Nat
  BY <1>2, SetsOfFile, TemplateAssumption DEF Indices
<1>4. \A n \in 1 .. Len(ls) : ls[n].k = Template[n].k
  BY DEF Beginning, Fits
<1>5. CASE e <= Len(ls)
  <2>1. e \in 1 .. Len(ls)
    BY <1>1, <1>2, <1>3, <1>5
  <2>2. e \in Indices(ls, "END")
    BY <1>2, <1>4, <2>1, SetsOfFile DEF Indices
  <2>3. Quiet(ls, j, e)
    BY <1>1, <1>2, <1>3, <1>4, <1>5 DEF Quiet
  <2>. QED BY <1>2, <2>2, <2>3 DEF records
<1>6. CASE e > Len(ls)
  <2>1. Quiet(ls, j, Len(ls) + 1)
    BY <1>1, <1>2, <1>3, <1>4, <1>6 DEF Quiet
  <2>. QED BY <2>1 DEF records
<1>. QED BY <1>3, <1>5, <1>6

\* A line that the gate counts lies in exactly one record of the table.
LEMMA CountedOnce ==
    ASSUME NEW ls, Beginning(ls), NEW k, NEW i \in counted(ls, k)
    PROVE  /\ i \in 1 .. Len(ls) /\ ls[i].k = k
           /\ Opens(ls, opener(ls, i), i)
           /\ \A j : Opens(ls, j, i) => j = opener(ls, i)
<1>1. i \in 1 .. Len(ls) /\ ls[i].k = k
  BY SetsOfFile DEF counted, Indices
<1>2. PICK j \in Indices(ls, "SF") : Opens(ls, j, i)
  BY DEF counted, Opens
<1>3. Opens(ls, opener(ls, i), i)
  BY <1>2 DEF opener
<1>. QED BY <1>1, <1>3, OneOpener

\* The points of the table, of either kind, are the lines that the gate
\* counts, each with its record.
LEMMA SamePoints ==
    ASSUME NEW ls, Beginning(ls), NEW k
    PROVE  LET rs == {j \in records(ls) : ls[j].dut}
           IN  {p \in rs \X DOMAIN ls : p[2] \in Body(ls, p[1], k)}
                  = {<<opener(ls, i), i>> : i \in counted(ls, k)}
<1> DEFINE rs == {j \in records(ls) : ls[j].dut}
           of == {p \in rs \X DOMAIN ls : p[2] \in Body(ls, p[1], k)}
<1>1. ASSUME NEW j \in rs, NEW i \in DOMAIN ls, i \in Body(ls, j, k)
      PROVE  i \in counted(ls, k) /\ j = opener(ls, i)
  <2>1. Opens(ls, j, i) /\ i \in counted(ls, k)
    BY <1>1 DEF records, Body, Opens, counted
  <2>. QED BY <2>1, CountedOnce
<1>2. ASSUME NEW i \in counted(ls, k)
      PROVE  /\ opener(ls, i) \in rs /\ i \in DOMAIN ls
             /\ i \in Body(ls, opener(ls, i), k)
  <2>1. Opens(ls, opener(ls, i), i)
    BY CountedOnce
  <2>2. i \in Indices(ls, k)
    BY DEF counted
  <2>. QED BY <2>1, <2>2, NoneDropped DEF Opens, Body, Indices
<1>3. \A p \in of : p = <<p[1], p[2]>> /\ p[1] \in rs /\ p[2] \in DOMAIN ls /\ p[2] \in Body(ls, p[1], k)
  OBVIOUS
<1>. QED BY <1>1, <1>2, <1>3

\* Different pairs, as many as lines.
LEMMA AsMany ==
    ASSUME NEW T, NEW n \in Nat, T \subseteq 1 .. n, NEW f \in [T -> Nat \X Nat],
           \A i, j \in T : f[i] = f[j] => i = j
    PROVE  /\ IsFiniteSet({f[i] : i \in T})
           /\ Cardinality({f[i] : i \in T}) = Cardinality(T)
<1> DEFINE R == {f[i] : i \in T}
<1>1. IsFiniteSet(T)
  BY FS_Interval, FS_Subset, 1 \in Int, n \in Int
<1>2. f \in Bijection(T, R)
  BY DEF Bijection, Injection, Surjection, IsInjective
<1>. QED BY <1>1, <1>2, FS_Bijection DEF ExistsBijection

hits(ls, k) == {i \in counted(ls, k) : ls[i].hits > 0}
LineTally(ls) == Tally(counted(ls, "DA"), hits(ls, "DA"), counted(ls, "BRDA"), hits(ls, "BRDA"))

\* The gate counts lines.
LEMMA GateTally ==
    ASSUME NEW ls, Beginning(ls), NEW d \in Nat
    PROVE  parse_coverage([c \in {d} |-> ls]) = LineTally(ls)
<1> DEFINE fs == [c \in {d} |-> ls]
           pair(T) == {<<d, i>> : i \in T}
           hit(s) == {p \in s : fs[p[1]][p[2]].hits > 0}
<1>1. \A k : points(fs, k) = pair(counted(ls, k))
  BY DEF points
<1>2. \A k : hit(pair(counted(ls, k))) = pair(hits(ls, k))
  BY DEF hits
<1>3. ASSUME NEW T, T \subseteq 1 .. Len(ls) PROVE Cardinality(pair(T)) = Cardinality(T)
  <2> DEFINE f == [i \in T |-> <<d, i>>]
  <2>1. f \in [T -> Nat \X Nat] /\ \A i, j \in T : f[i] = f[j] => i = j
    BY <1>3, SetsOfFile
  <2>2. pair(T) = {f[i] : i \in T}
    OBVIOUS
  <2> HIDE DEF f, pair
  <2>. QED BY <1>3, <2>1, <2>2, AsMany, SetsOfFile
<1>4. \A k : counted(ls, k) \subseteq 1 .. Len(ls) /\ hits(ls, k) \subseteq 1 .. Len(ls)
  BY SetsOfFile DEF counted, hits
<1>5. parse_coverage(fs) = Tally(points(fs, "DA"), hit(points(fs, "DA")),
                                 points(fs, "BRDA"), hit(points(fs, "BRDA")))
  BY DEF parse_coverage
<1> HIDE DEF fs, pair, hit
<1>6. parse_coverage(fs) = Tally(pair(counted(ls, "DA")), pair(hits(ls, "DA")),
                                 pair(counted(ls, "BRDA")), pair(hits(ls, "BRDA")))
  BY <1>1, <1>2, <1>5
<1>7. parse_coverage(fs) = LineTally(ls)
  BY <1>3, <1>4, <1>6 DEF Tally, LineTally
<1>. QED BY <1>7 DEF fs

\* So does the table, under each line's record and number.
LEMMA TableTally ==
    ASSUME NEW ls, Beginning(ls)
    PROVE  parse_info(ls) = LineTally(ls)
<1> DEFINE rs == {j \in records(ls) : ls[j].dut}
           of(k) == {p \in rs \X DOMAIN ls : p[2] \in Body(ls, p[1], k)}
           hit(s) == {p \in s : ls[p[2]].hits > 0}
           numbers(s) == {<<p[1], ls[p[2]].line>> : p \in s}
           placed(T) == {<<opener(ls, i), i>> : i \in T}
           numbered(T) == {<<opener(ls, i), ls[i].line>> : i \in T}
<1>1. /\ \A k : of(k) = placed(counted(ls, k))
      /\ \A k : hit(placed(counted(ls, k))) = placed(hits(ls, k))
      /\ \A T : numbers(placed(T)) = numbered(T)
  <2>1. \A k : of(k) = placed(counted(ls, k))
    BY SamePoints
  <2>2. \A k : hit(placed(counted(ls, k))) = placed(hits(ls, k))
    BY DEF hits
  <2>3. ASSUME NEW T PROVE numbers(placed(T)) = numbered(T)
    <3>1. \A p \in placed(T) : \E i \in T : <<p[1], ls[p[2]].line>> = <<opener(ls, i), ls[i].line>>
      OBVIOUS
    <3>2. \A i \in T : \E p \in placed(T) : <<p[1], ls[p[2]].line>> = <<opener(ls, i), ls[i].line>>
      <4>1. ASSUME NEW i \in T
            PROVE  LET p == <<opener(ls, i), i>>
                   IN  p \in placed(T) /\ p[1] = opener(ls, i) /\ p[2] = i
        OBVIOUS
      <4>. QED BY <4>1, Zenon
    <3> DEFINE A(p) == <<p[1], ls[p[2]].line>>
               C(i) == <<opener(ls, i), ls[i].line>>
    <3>3. /\ \A p \in placed(T) : \E i \in T : A(p) = C(i)
          /\ \A i \in T : \E p \in placed(T) : C(i) = A(p)
      BY <3>1, <3>2
    <3>4. numbers(placed(T)) = {A(p) : p \in placed(T)} /\ numbered(T) = {C(i) : i \in T}
      OBVIOUS
    <3> HIDE DEF placed, A, C, numbers, numbered
    <3>5. {A(p) : p \in placed(T)} = {C(i) : i \in T}
      BY <3>3
    <3>. QED BY <3>4, <3>5
  <2>. QED BY <2>1, <2>2, <2>3
<1>2. parse_info(ls) = Tally(numbers(of("DA")), numbers(hit(of("DA"))), of("BRDA"), hit(of("BRDA")))
  BY DEF parse_info, totals
<1>3. \A k : counted(ls, k) \subseteq 1 .. Len(ls) /\ hits(ls, k) \subseteq counted(ls, k)
  BY SetsOfFile DEF counted, hits
<1>4. \A k : \A i \in counted(ls, k) : opener(ls, i) \in 1 .. Len(ls)
  BY CountedOnce, SetsOfFile DEF Opens
<1>5. ASSUME NEW k, NEW T, T \subseteq counted(ls, k)
      PROVE  Cardinality(placed(T)) = Cardinality(T)
  <2> DEFINE f == [i \in T |-> <<opener(ls, i), i>>]
  <2>1. f \in [T -> Nat \X Nat] /\ \A i, j \in T : f[i] = f[j] => i = j
    BY <1>3, <1>4, <1>5, SetsOfFile
  <2>2. placed(T) = {f[i] : i \in T}
    OBVIOUS
  <2>3. T \subseteq 1 .. Len(ls)
    BY <1>3, <1>5
  <2> HIDE DEF f, placed
  <2>. QED BY <2>1, <2>2, <2>3, AsMany, SetsOfFile
<1>6. ASSUME NEW T, T \subseteq counted(ls, "DA")
      PROVE  Cardinality(numbered(T)) = Cardinality(T)
  <2> DEFINE f == [i \in T |-> <<opener(ls, i), ls[i].line>>]
  <2>1. \A i \in T : /\ i \in 1 .. Len(ls) /\ ls[i].k = "DA"
                     /\ Opens(ls, opener(ls, i), i)
    BY <1>6, CountedOnce
  <2>2. \A i \in T : ls[i].line \in Nat /\ opener(ls, i) \in Nat
    BY <1>4, <1>6, <2>1, SetsOfFile DEF InfoLine
  <2>3. ASSUME NEW i \in T, NEW j \in T, f[i] = f[j] PROVE i = j
    <3> DEFINE o == opener(ls, i)
    <3>1. Opens(ls, o, i) /\ Opens(ls, o, j) /\ ls[i].line = ls[j].line
      BY <2>1, <2>3
    <3>2. Fits(ls[i], Template[i]) /\ Fits(ls[j], Template[j])
      BY <2>1 DEF Beginning
    <3>3. Template[i].line = Template[j].line
      BY <2>1, <3>1, <3>2 DEF Fits
    <3>4. i \in Body(Template, o, "DA") /\ j \in Body(Template, o, "DA")
      <4>1. \A n \in 1 .. Len(ls) : ls[n].k = Template[n].k
        BY DEF Beginning, Fits
      <4>2. o \in 1 .. Len(ls) /\ o < i /\ o < j /\ Quiet(ls, o, i) /\ Quiet(ls, o, j)
        BY <3>1, SetsOfFile DEF Opens
      <4>3. ASSUME NEW c \in 1 .. Len(ls), Quiet(ls, o, c) PROVE Quiet(Template, o, c)
        <5>1. o \in Nat /\ Len(ls) \in Nat
          BY <4>2, SetsOfFile
        <5> HIDE DEF o
        <5>2. \A n \in o + 1 .. c - 1 : n \in 1 .. Len(ls)
          BY <5>1
        <5>. QED BY <4>1, <4>3, <5>2 DEF Quiet
      <4>4. i \in Indices(Template, "DA") /\ j \in Indices(Template, "DA")
        BY <2>1, <4>1, SetsOfFile DEF Indices
      <4>. QED BY <2>1, <4>2, <4>3, <4>4 DEF Body
    <3>5. o \in Indices(Template, "SF")
      BY <3>1, SetsOfFile DEF Opens
    <3>. QED BY <3>3, <3>4, <3>5, TemplateAssumption
  <2>4. f \in [T -> Nat \X Nat]
    BY <2>2
  <2>5. numbered(T) = {f[i] : i \in T}
    OBVIOUS
  <2>6. T \subseteq 1 .. Len(ls)
    BY <1>3, <1>6
  <2> HIDE DEF f, numbered
  <2>. QED BY <2>3, <2>4, <2>5, <2>6, AsMany, SetsOfFile
<1> HIDE DEF rs, of, hit, numbers, placed, numbered
<1>7. parse_info(ls) = Tally(numbered(counted(ls, "DA")), numbered(hits(ls, "DA")),
                             placed(counted(ls, "BRDA")), placed(hits(ls, "BRDA")))
  BY <1>1, <1>2
<1>. QED BY <1>3, <1>5, <1>6, <1>7 DEF Tally, LineTally

\* The table and the gate count the same points in every .info file, cut off
\* anywhere between two lines or not, whatever files, lines and edges it has.
THEOREM TalliesSame == Spec => []TalliesAgree
<1>1. InfoInv => TalliesAgree
  <2> SUFFICES ASSUME InfoInv, NEW d \in DOMAIN there
               PROVE  parse_coverage([c \in {d} |-> info[c]]) = parse_info(info[d])
    BY DEF TalliesAgree
  <2>1. d \in Nat /\ Beginning(info[d])
    BY DEF there, InfoInv
  <2>2. [c \in {d} |-> info[c]] = [c \in {d} |-> info[d]]
    OBVIOUS
  <2>. QED BY <2>1, <2>2, GateTally, TableTally
<1>. QED BY <1>1, InfoInvInit, InfoInvNext, PTL DEF Spec

----------------------------------------------------------------------------
(* The coverage of several files together.  No induction over the files:   *)
(* a first file at which the claim fails is refuted.                       *)

LEMMA Least ==
    ASSUME NEW T, T \subseteq Nat, T # {}
    PROVE  \E x \in T : \A y \in T : x <= y
<1>1. PICK x \in T : \A y \in T : <<y, x>> \notin OpToRel(<, Nat)
  BY WFMin, NatLessThanWellFounded
<1>2. \A y \in T : ~(y < x)
  BY <1>1 DEF OpToRel
<1>. QED BY <1>2

LEMMA Distributes == ASSUME NEW c \in Nat, NEW a \in Nat, NEW b \in Nat
                     PROVE  c * (a + b) = c * a + c * b
  OBVIOUS

\* The points f[d] of the files in D up to the n-th, as pairs.
Pairs(D, f, n) == UNION {{<<d, i>> : i \in f[d]} : d \in {c \in D : c <= n}}

Bounded(S) == \E k \in Nat : S \subseteq 1 .. k

\* One file more.
LEMMA PairsGrow ==
    ASSUME NEW D, D \subseteq Nat, NEW f, \A d \in D : Bounded(f[d]),
           NEW n \in Nat, IsFiniteSet(Pairs(D, f, n))
    PROVE  /\ IsFiniteSet(Pairs(D, f, n + 1))
           /\ n + 1 \notin D => Pairs(D, f, n + 1) = Pairs(D, f, n)
           /\ n + 1 \in D => Cardinality(Pairs(D, f, n + 1))
                               = Cardinality(Pairs(D, f, n)) + Cardinality(f[n + 1])
<1>1. CASE n + 1 \notin D
  <2>1. {c \in D : c <= n + 1} = {c \in D : c <= n}
    <3>1. \A c \in D : c \in Nat /\ c # n + 1
      BY <1>1
    <3>2. \A c \in D : c <= n + 1 <=> c <= n
      BY <3>1
    <3>. QED BY <3>2, Zenon
  <2>. QED BY <1>1, <2>1 DEF Pairs
<1>2. CASE n + 1 \in D
  <2> DEFINE new == {<<n + 1, i>> : i \in f[n + 1]}
             old == Pairs(D, f, n)
             h == [i \in f[n + 1] |-> <<n + 1, i>>]
  <2>1. PICK k \in Nat : f[n + 1] \subseteq 1 .. k
    BY <1>2 DEF Bounded
  <2>2. h \in [f[n + 1] -> Nat \X Nat] /\ \A i, j \in f[n + 1] : h[i] = h[j] => i = j
    BY <2>1
  <2>3. new = {h[i] : i \in f[n + 1]}
    OBVIOUS
  <2>4. IsFiniteSet(new) /\ Cardinality(new) = Cardinality(f[n + 1])
    <3> HIDE DEF h, new
    <3>. QED BY <2>1, <2>2, <2>3, AsMany
  <2>6. {c \in D : c <= n + 1} = {c \in D : c <= n} \cup {n + 1}
    <3>1. \A c \in D : c \in Nat
      OBVIOUS
    <3>2. \A c \in D : c <= n + 1 <=> (c <= n \/ c = n + 1)
      BY <3>1
    <3>. QED BY <1>2, <3>2, Zenon
  <2>7. Pairs(D, f, n + 1) = old \cup new
    BY <2>6 DEF Pairs
  <2>8. old \cap new = {}
    <3>1. \A p \in old : p[1] <= n
      BY DEF Pairs
    <3>2. \A p \in new : p[1] = n + 1
      OBVIOUS
    <3>. QED BY <3>1, <3>2
  <2> HIDE DEF old, new
  <2>9. /\ IsFiniteSet(old \cup new)
        /\ Cardinality(old \cup new)
              = Cardinality(old) + Cardinality(new) - Cardinality(old \cap new)
    BY <2>4, FS_Union DEF old
  <2>10. /\ Cardinality(old \cap new) = 0
         /\ Cardinality(old) \in Nat /\ Cardinality(new) \in Nat
    BY <2>4, <2>8, FS_EmptySet, FS_CardinalityType DEF old
  <2>11. Cardinality(old \cup new) = Cardinality(old) + Cardinality(f[n + 1])
    BY <2>4, <2>9, <2>10
  <2>12. n + 1 \in D
    BY <1>2
  <2>. QED BY <2>7, <2>9, <2>11, <2>12, Zenon DEF old
<1>. QED BY <1>1, <1>2

Reach(hit, pts, min) == pct_ok(Cardinality(hit), Cardinality(pts), min)

\* What every file misses all together miss, and what every file reaches all
\* together reach.
LEMMA Pooled ==
    ASSUME NEW N \in Nat, NEW D, D \subseteq 1 .. N, NEW pts, NEW hit, NEW min \in 1 .. 100,
           \A d \in D : Bounded(pts[d]) /\ hit[d] \subseteq pts[d]
    PROVE  /\ (\A d \in D : ~Reach(hit[d], pts[d], min)) =>
                  ~Reach(Pairs(D, hit, N), Pairs(D, pts, N), min)
           /\ D # {} /\ (\A d \in D : Reach(hit[d], pts[d], min)) =>
                  Reach(Pairs(D, hit, N), Pairs(D, pts, N), min)
<1> DEFINE F == 200 * min - 1
           A(n) == Cardinality(Pairs(D, pts, n))
           H(n) == Cardinality(Pairs(D, hit, n))
           a(d) == Cardinality(pts[d])
           h(d) == Cardinality(hit[d])
           each(d) == pct_ok(h(d), a(d), min)
           Good(n) ==
             /\ IsFiniteSet(Pairs(D, pts, n)) /\ IsFiniteSet(Pairs(D, hit, n))
             /\ (\A d \in D : ~each(d)) => \/ (A(n) = 0 /\ H(n) = 0)
                                           \/ 20000 * H(n) < F * A(n)
             /\ (\A d \in D : each(d)) => /\ 20000 * H(n) >= F * A(n)
                                          /\ (\E d \in D : d <= n) => A(n) > 0
<1>1. F \in Nat /\ D \subseteq Nat
  OBVIOUS
<1>2. ASSUME NEW d \in D
      PROVE  a(d) \in Nat /\ h(d) \in Nat /\ h(d) <= a(d)
  <2>1. PICK k \in Nat : pts[d] \subseteq 1 .. k
    BY DEF Bounded
  <2>2. IsFiniteSet(pts[d])
    BY <2>1, FS_Interval, FS_Subset, 1 \in Int, k \in Int
  <2>. QED BY <2>2, FS_Subset, FS_CardinalityType
<1>3. ASSUME NEW d \in D
      PROVE  each(d) <=> a(d) > 0 /\ 20000 * h(d) >= F * a(d)
  BY DEF pct_ok
<1>4. Good(0)
  <2>1. {c \in D : c <= 0} = {}
    <3>1. \A c \in D : c \in 1 .. N
      OBVIOUS
    <3>2. \A c \in D : ~(c <= 0)
      BY <3>1
    <3>. QED BY <3>2, Zenon
  <2>2. Pairs(D, pts, 0) = {} /\ Pairs(D, hit, 0) = {}
    BY <2>1 DEF Pairs
  <2>3. A(0) = 0 /\ H(0) = 0 /\ IsFiniteSet(Pairs(D, pts, 0)) /\ IsFiniteSet(Pairs(D, hit, 0))
    BY <2>2, FS_EmptySet
  <2>4. 20000 * H(0) >= F * A(0)
    BY <1>1, <2>3
  <2>. QED BY <2>1, <2>3, <2>4
<1>5. ASSUME NEW n \in Nat, Good(n) PROVE Good(n + 1)
  <2>1. /\ A(n) \in Nat /\ H(n) \in Nat
        /\ IsFiniteSet(Pairs(D, pts, n)) /\ IsFiniteSet(Pairs(D, hit, n))
    BY <1>5, FS_CardinalityType
  <2>2. \A d \in D : Bounded(hit[d]) /\ Bounded(pts[d])
    BY DEF Bounded
  <2>3. /\ IsFiniteSet(Pairs(D, pts, n + 1)) /\ IsFiniteSet(Pairs(D, hit, n + 1))
        /\ n + 1 \notin D => A(n + 1) = A(n) /\ H(n + 1) = H(n)
        /\ n + 1 \in D => A(n + 1) = A(n) + a(n + 1) /\ H(n + 1) = H(n) + h(n + 1)
    <3>1. /\ IsFiniteSet(Pairs(D, pts, n + 1))
          /\ n + 1 \notin D => Pairs(D, pts, n + 1) = Pairs(D, pts, n)
          /\ n + 1 \in D => A(n + 1) = A(n) + a(n + 1)
      BY <1>1, <2>1, <2>2, PairsGrow
    <3>2. /\ IsFiniteSet(Pairs(D, hit, n + 1))
          /\ n + 1 \notin D => Pairs(D, hit, n + 1) = Pairs(D, hit, n)
          /\ n + 1 \in D => H(n + 1) = H(n) + h(n + 1)
      <4>1. D \subseteq Nat /\ IsFiniteSet(Pairs(D, hit, n)) /\ \A d \in D : Bounded(hit[d])
        BY <1>1, <2>1, <2>2
      <4>2. n \in Nat
        OBVIOUS
      <4>. QED BY <4>1, <4>2, PairsGrow, Zenon
    <3>. QED BY <3>1, <3>2, Zenon
  <2>4. CASE n + 1 \notin D
    <3>1. (\E d \in D : d <= n + 1) => \E d \in D : d <= n
      BY <1>1, <2>4
    <3>. QED BY <1>5, <2>3, <2>4, <3>1
  <2>5. CASE n + 1 \in D
    <3>1. a(n + 1) \in Nat /\ h(n + 1) \in Nat /\ h(n + 1) <= a(n + 1)
      BY <1>2, <2>5
    <3>2. F * A(n + 1) = F * A(n) + F * a(n + 1)
      BY <1>1, <2>1, <2>3, <2>5, <3>1, Distributes
    <3>3. F * A(n) \in Int /\ F * a(n + 1) \in Int
      BY <1>1, <2>1, <3>1
    <3> DEFINE X == F * A(n)
               Y == F * a(n + 1)
               Z == F * A(n + 1)
    <3>4. a(n + 1) > 0 \/ h(n + 1) = 0
      BY <3>1
    <3>5. each(n + 1) <=> a(n + 1) > 0 /\ 20000 * h(n + 1) >= Y
      BY <1>3, <2>5
    <3>6. F * 0 = 0
      BY <1>1
    <3>7. /\ X \in Int /\ Y \in Int /\ Z = X + Y
          /\ A(n) = 0 => X = 0
          /\ a(n + 1) = 0 => Y = 0
      BY <3>2, <3>3, <3>6
    <3>8. /\ (\A d \in D : ~each(d)) => (A(n) = 0 /\ H(n) = 0) \/ 20000 * H(n) < X
          /\ (\A d \in D : each(d)) => 20000 * H(n) >= X
      BY <1>5
    <3>9. /\ ~each(n + 1) => (a(n + 1) = 0 /\ h(n + 1) = 0) \/ 20000 * h(n + 1) < Y
          /\ each(n + 1) => a(n + 1) > 0 /\ 20000 * h(n + 1) >= Y
      <4>1. Y \in Int
        BY <3>3
      <4> HIDE DEF Y, a, h, each
      <4>. QED BY <3>1, <3>4, <3>5, <4>1
    <3> DEFINE none == \A d \in D : ~each(d)
               every == \A d \in D : each(d)
    <3>10. /\ none => (A(n + 1) = 0 /\ H(n + 1) = 0) \/ 20000 * H(n + 1) < Z
           /\ every => 20000 * H(n + 1) >= Z /\ A(n + 1) > 0
      <4>1. /\ A(n + 1) = A(n) + a(n + 1) /\ H(n + 1) = H(n) + h(n + 1)
            /\ none => (A(n) = 0 /\ H(n) = 0) \/ 20000 * H(n) < X
            /\ every => 20000 * H(n) >= X
            /\ none => (a(n + 1) = 0 /\ h(n + 1) = 0) \/ 20000 * h(n + 1) < Y
            /\ every => a(n + 1) > 0 /\ 20000 * h(n + 1) >= Y
        <5>1. (none => ~each(n + 1)) /\ (every => each(n + 1))
          BY <2>5
        <5> HIDE DEF X, Y, A, H, a, h, each
        <5>. QED BY <2>3, <2>5, <3>8, <3>9, <5>1
      <4> HIDE DEF X, Y, Z, A, H, a, h, none, every, F
      <4>. QED BY <2>1, <3>1, <3>7, <4>1
    <3>. QED BY <2>3, <3>10
  <2>. QED BY <2>4, <2>5
<1>6. Good(N)
  <2> DEFINE T == {n \in 0 .. N : ~Good(n)}
  <2> HIDE DEF Good
  <2>1. SUFFICES ASSUME T # {} PROVE FALSE
    OBVIOUS
  <2>2. PICK x \in T : \A y \in T : x <= y
    <3>1. T \subseteq Nat
      OBVIOUS
    <3> HIDE DEF T
    <3>. QED BY <2>1, <3>1, Least
  <2>3. x # 0 /\ x \in 1 .. N
    BY <1>4, <2>2
  <2>4. x - 1 \in Nat /\ x - 1 \in 0 .. N /\ (x - 1) + 1 = x
    BY <2>3
  <2>5. Good(x - 1)
    BY <2>2, <2>4
  <2>. QED BY <1>5, <2>2, <2>4, <2>5
<1>7. A(N) \in Nat /\ H(N) \in Nat
  BY <1>6, FS_CardinalityType
<1>8. D # {} => \E d \in D : d <= N
  <2>. SUFFICES ASSUME NEW d \in D PROVE d <= N
    BY Zenon
  <2>1. d \in 1 .. N
    OBVIOUS
  <2>. QED BY <2>1
<1>9. pct_ok(H(N), A(N), min) <=> A(N) > 0 /\ 20000 * H(N) >= F * A(N)
  BY DEF pct_ok
<1>10. F * A(N) \in Int
  BY <1>1, <1>7
<1> DEFINE X == F * A(N)
<1>11. /\ (\A d \in D : ~each(d)) => (A(N) = 0 /\ H(N) = 0) \/ 20000 * H(N) < X
       /\ D # {} /\ (\A d \in D : each(d)) => 20000 * H(N) >= X /\ A(N) > 0
  BY <1>6, <1>8
<1>12. pct_ok(H(N), A(N), min) <=> A(N) > 0 /\ 20000 * H(N) >= X
  BY <1>9
<1>13. /\ (\A d \in D : ~each(d)) => ~pct_ok(H(N), A(N), min)
       /\ D # {} /\ (\A d \in D : each(d)) => pct_ok(H(N), A(N), min)
  <2> HIDE DEF X, A, H, each, F
  <2>. QED BY <1>7, <1>10, <1>11, <1>12 DEF X
<1>. QED BY <1>13 DEF Reach

----------------------------------------------------------------------------
(* The verdict of report_check.                                            *)

\* A run.log holds the first lines of the run's counts, all of them once the
\* run is over.
LogOk(t) ==
    /\ sim[t].errors \in {0, 1} /\ sim[t].fatals \in {0, 1}
    /\ sim[t].state \in {"runs", "over"} =>
          /\ log[t] \in Seq(LogLine)
          /\ \A i \in 1 .. Len(log[t]) : log[t][i] = Counts(t)[i]
    /\ sim[t].state = "over" => Len(log[t]) = 4

LogInv == \A t \in Tops : LogOk(t)

\* The maps have their domains.
MachineInv ==
    /\ DOMAIN sim = Tops /\ DOMAIN log = Tops
    /\ xml \in [1 .. Groups -> Verdicts \cup {NoFile, Torn}]

\* What check_thresholds says of the record f is what was wrong with the files.
Judged(f) ==
    /\ check_thresholds(f) => f.problems \subseteq Overlooked
    /\ ~check_thresholds(f) => f.problems \cap Reasons # {}

GateInv ==
    /\ LogInv /\ MachineInv
    /\ pc \in {"dump", "write"} => Judged(m.file)
    /\ metrics \notin {NoFile, Torn} => Judged(metrics)

\* The reader of a complete run.log finds the counts of the run.
LEMMA CountsRead ==
    ASSUME LogInv, NEW t \in Tops, over(t)
    PROVE  /\ log[t] # NoFile
           /\ parse_uvm_top(log[t]) = "PASS" <=> sim[t].errors + sim[t].fatals = 0
<1> DEFINE ls == log[t]
<1>1. /\ ls \in Seq(LogLine) /\ Len(ls) = 4
      /\ \A i \in 1 .. 4 : ls[i] = Counts(t)[i]
      /\ sim[t].errors \in {0, 1} /\ sim[t].fatals \in {0, 1}
  BY DEF LogInv, LogOk, over
<1>2. DOMAIN ls = 1 .. 4 /\ ls # <<>>
  BY <1>1
<1>3. /\ ls[1].k = "INFO" /\ ls[2].k = "WARNING"
      /\ ls[3].k = "ERROR" /\ ls[4].k = "FATAL"
      /\ ls[3].n = sim[t].errors /\ ls[4].n = sim[t].fatals
  BY <1>1 DEF Counts
<1> HIDE DEF ls
<1>4. Indices(ls, "ERROR") = {3} /\ Indices(ls, "FATAL") = {4}
  BY <1>2, <1>3 DEF Indices
<1>5. count(ls, "ERROR") = sim[t].errors /\ count(ls, "FATAL") = sim[t].fatals
  BY <1>3, <1>4 DEF count
<1>6. parse_uvm_top(ls) = "PASS" <=> sim[t].errors = 0 /\ sim[t].fatals = 0
  BY <1>2, <1>5 DEF parse_uvm_top
<1>7. ls # NoFile
  BY <1>1, ReportAssumption DEF ls
<1> QED
  BY <1>1, <1>6, <1>7 DEF ls

\* An error of a finished run is read as a FAIL; a FAIL comes from such an
\* error or from a run that is not finished.
LEMMA TopsRead ==
    ASSUME LogInv, MachineInv
    PROVE  LET passed == \A t \in DOMAIN parse_uvm_tops : parse_uvm_tops[t] = "PASS"
               wrong  == \E t \in Tops : over(t) /\ sim[t].errors + sim[t].fatals > 0
               open   == \E t \in Tops : log[t] # NoFile /\ ~over(t)
           IN  (passed => ~wrong) /\ (~passed => wrong \/ open)
<1>1. /\ DOMAIN parse_uvm_tops = {u \in Tops : log[u] # NoFile}
      /\ \A t \in DOMAIN parse_uvm_tops : parse_uvm_tops[t] = parse_uvm_top(log[t])
  BY DEF parse_uvm_tops
<1>2. ASSUME NEW t \in Tops, over(t), sim[t].errors + sim[t].fatals > 0
      PROVE  t \in DOMAIN parse_uvm_tops /\ parse_uvm_tops[t] # "PASS"
  BY <1>1, <1>2, CountsRead
<1>3. ASSUME NEW t \in DOMAIN parse_uvm_tops, parse_uvm_tops[t] # "PASS", over(t)
      PROVE  sim[t].errors + sim[t].fatals > 0
  <2>1. sim[t].errors + sim[t].fatals # 0
    BY <1>1, <1>3, CountsRead
  <2> QED
    BY <2>1, <1>1 DEF LogInv, LogOk
<1> QED
  BY <1>1, <1>2, <1>3

LEMMA FormalRead ==
    (\A p \in DOMAIN parse_formal : parse_formal[p] = "PASS")
        <=> ~(\E i \in DOMAIN formal : formal[i].status = "FAIL")
<1> DEFINE P == {formal[i].proof : i \in {j \in DOMAIN formal : done(formal[j].proof) # {}}}
<1>1. /\ DOMAIN parse_formal = P
      /\ \A p \in P : parse_formal[p] =
            IF \E i \in done(p) : formal[i].status = "FAIL" THEN "FAIL" ELSE "PASS"
  BY DEF parse_formal
<1>2. ASSUME NEW i \in DOMAIN formal, formal[i].status = "FAIL"
      PROVE  formal[i].proof \in P /\ i \in done(formal[i].proof)
  BY <1>2 DEF done, Status
<1>3. \A p \in P : \A i \in done(p) : i \in DOMAIN formal
  BY DEF done
<1> HIDE DEF P
<1> QED
  BY <1>1, <1>2, <1>3

LEMMA CocotbRead ==
    ASSUME MachineInv
    PROVE  (\A g \in DOMAIN parse_cocotb :
                \A i \in DOMAIN parse_cocotb[g] : parse_cocotb[g][i] = "PASS")
           <=> ~(\E g \in 1 .. Groups :
                    /\ xml[g] \notin {NoFile, Torn}
                    /\ \E i \in DOMAIN xml[g] : xml[g][i] = "FAIL")
<1> DEFINE G == {h \in 1 .. Groups : xml[h] \notin {NoFile, Torn, <<>>}}
<1>1. DOMAIN parse_cocotb = G /\ \A g \in G : parse_cocotb[g] = xml[g]
  BY DEF parse_cocotb
<1>2. ASSUME NEW g \in 1 .. Groups, xml[g] \notin {NoFile, Torn},
             NEW i \in DOMAIN xml[g]
      PROVE  g \in G
  BY <1>2
<1>3. ASSUME NEW g \in G, NEW i \in DOMAIN xml[g], xml[g][i] # "PASS"
      PROVE  xml[g][i] = "FAIL"
  <2>1. xml[g] \in Seq(Status)
    BY <1>3, ReportAssumption DEF MachineInv
  <2>2. xml[g][i] \in Status
    BY <2>1, <1>3
  <2> QED
    BY <2>2, <1>3 DEF Status
<1>4. \A g \in G : g \in 1 .. Groups /\ xml[g] \notin {NoFile, Torn}
  OBVIOUS
<1> HIDE DEF G
<1> QED
  BY <1>1, <1>2, <1>3, <1>4

\* All files together reach no floor that each misses, and miss none that
\* each reaches: the gate's count against the table's.
LEMMA FloorsRead ==
    ASSUME InfoInv
    PROVE  LET D == DOMAIN there
               all == parse_coverage(there)
               each(d) == parse_info(info[d])
           IN  /\ (\A d \in D : ~line_ok(each(d))) => ~line_ok(all)
               /\ (\A d \in D : ~toggle_ok(each(d))) => ~toggle_ok(all)
               /\ D # {} /\ (\A d \in D : line_ok(each(d))) => line_ok(all)
               /\ D # {} /\ (\A d \in D : toggle_ok(each(d))) => toggle_ok(all)
<1> DEFINE D == DOMAIN there
           total(k) == [d \in D |-> counted(info[d], k)]
           reached(k) == [d \in D |-> hits(info[d], k)]
           hit(s) == {p \in s : there[p[1]][p[2]].hits > 0}
           all == parse_coverage(there)
           each(d) == parse_info(info[d])
<1>1. /\ D \subseteq 1 .. Duts /\ D \subseteq Nat /\ Duts \in Nat
      /\ \A d \in D : there[d] = info[d] /\ Beginning(info[d])
  BY ReportAssumption DEF there, InfoInv
<1>2. ASSUME NEW k
      PROVE  /\ points(there, k) = Pairs(D, total(k), Duts)
             /\ hit(points(there, k)) = Pairs(D, reached(k), Duts)
  <2>1. {c \in D : c <= Duts} = D
    BY <1>1
  <2>2. points(there, k) = UNION {{<<d, i>> : i \in counted(info[d], k)} : d \in D}
    BY <1>1 DEF points
  <2>3. Pairs(D, total(k), Duts) = UNION {{<<d, i>> : i \in counted(info[d], k)} : d \in D}
    BY <2>1 DEF Pairs
  <2>4. Pairs(D, reached(k), Duts) = UNION {{<<d, i>> : i \in hits(info[d], k)} : d \in D}
    BY <2>1 DEF Pairs
  <2>5. hit(points(there, k)) = UNION {{<<d, i>> : i \in hits(info[d], k)} : d \in D}
    BY <1>1, <2>2 DEF hits
  <2>. QED BY <2>2, <2>3, <2>4, <2>5
<1>3. ASSUME NEW k
      PROVE  \A d \in D : Bounded(total(k)[d]) /\ reached(k)[d] \subseteq total(k)[d]
  <2> SUFFICES ASSUME NEW d \in D
               PROVE  Bounded(total(k)[d]) /\ reached(k)[d] \subseteq total(k)[d]
    OBVIOUS
  <2>1. counted(info[d], k) \subseteq 1 .. Len(info[d]) /\ Len(info[d]) \in Nat
    BY <1>1, SetsOfFile DEF counted
  <2>. QED BY <2>1 DEF hits, Bounded
<1>4. /\ all.lines = Cardinality(Pairs(D, total("DA"), Duts))
      /\ all.lhit = Cardinality(Pairs(D, reached("DA"), Duts))
      /\ all.toggles = Cardinality(Pairs(D, total("BRDA"), Duts))
      /\ all.thit = Cardinality(Pairs(D, reached("BRDA"), Duts))
  <2>1. all = Tally(points(there, "DA"), hit(points(there, "DA")),
                    points(there, "BRDA"), hit(points(there, "BRDA")))
    BY DEF parse_coverage
  <2> HIDE DEF total, reached, hit
  <2>2. all = Tally(Pairs(D, total("DA"), Duts), Pairs(D, reached("DA"), Duts),
                    Pairs(D, total("BRDA"), Duts), Pairs(D, reached("BRDA"), Duts))
    BY <1>2, <2>1
  <2> HIDE DEF all
  <2>. QED BY <2>2 DEF Tally
<1>5. ASSUME NEW d \in D
      PROVE  /\ each(d).lines = Cardinality(total("DA")[d])
             /\ each(d).lhit = Cardinality(reached("DA")[d])
             /\ each(d).toggles = Cardinality(total("BRDA")[d])
             /\ each(d).thit = Cardinality(reached("BRDA")[d])
  BY <1>1, TableTally DEF LineTally, Tally
<1>6. MinLine \in 1 .. 100 /\ MinToggle \in 1 .. 100
  BY ReportAssumption
<1> HIDE DEF total, reached, hit, all, each, D
<1> DEFINE ok(k, min) == Reach(Pairs(D, reached(k), Duts), Pairs(D, total(k), Duts), min)
           eachok(k, d, min) == Reach(reached(k)[d], total(k)[d], min)
<1>7. ASSUME NEW k, NEW min \in 1 .. 100
      PROVE  /\ (\A d \in D : ~eachok(k, d, min)) => ~ok(k, min)
             /\ D # {} /\ (\A d \in D : eachok(k, d, min)) => ok(k, min)
  <2>1. D \subseteq 1 .. Duts /\ Duts \in Nat /\ min \in 1 .. 100
    BY <1>1
  <2>2. \A d \in D : Bounded(total(k)[d]) /\ reached(k)[d] \subseteq total(k)[d]
    BY <1>3
  <2>. QED BY <2>1, <2>2, Pooled, Zenon
<1>8. /\ line_ok(all) <=> ok("DA", MinLine)
      /\ toggle_ok(all) <=> ok("BRDA", MinToggle)
  BY <1>4 DEF line_ok, toggle_ok, Reach
<1>9. \A d \in D : /\ line_ok(each(d)) <=> eachok("DA", d, MinLine)
                   /\ toggle_ok(each(d)) <=> eachok("BRDA", d, MinToggle)
  BY <1>5 DEF line_ok, toggle_ok, Reach
<1> HIDE DEF ok, eachok
<1>10. /\ (\A d \in D : ~line_ok(each(d))) => ~line_ok(all)
       /\ (\A d \in D : ~toggle_ok(each(d))) => ~toggle_ok(all)
       /\ D # {} /\ (\A d \in D : line_ok(each(d))) => line_ok(all)
       /\ D # {} /\ (\A d \in D : toggle_ok(each(d))) => toggle_ok(all)
  BY <1>6, <1>7, <1>8, <1>9
<1>. QED BY <1>10 DEF D, all, each

\* What the thresholds say of the coverage, and what the DUTs show.
LEMMA CoverageRead ==
    ASSUME InfoInv
    PROVE  LET D == DOMAIN there
               cov == line_ok(parse_coverage(there)) /\ toggle_ok(parse_coverage(there))
               low == /\ D # {}
                      /\ \E k \in {"line", "toggle"} : \A d \in D : k \in misses(d)
               uneven == \E d \in D : misses(d) # {}
           IN  /\ cov => D # {} /\ ~low
               /\ ~cov => D = {} \/ uneven
<1> DEFINE each(d) == parse_info(info[d])
           D == DOMAIN there
           all == parse_coverage(there)
<1>1. \A d : /\ "line" \in misses(d) <=> ~line_ok(each(d))
             /\ "toggle" \in misses(d) <=> ~toggle_ok(each(d))
             /\ misses(d) # {} <=> ~line_ok(each(d)) \/ ~toggle_ok(each(d))
  BY DEF misses
<1>2. /\ (\A d \in D : ~line_ok(each(d))) => ~line_ok(all)
      /\ (\A d \in D : ~toggle_ok(each(d))) => ~toggle_ok(all)
      /\ D # {} /\ (\A d \in D : line_ok(each(d))) => line_ok(all)
      /\ D # {} /\ (\A d \in D : toggle_ok(each(d))) => toggle_ok(all)
  BY FloorsRead
<1> HIDE DEF each, D, all
<1>3. /\ line_ok(all) /\ toggle_ok(all) =>
            D # {} /\ ~\E k \in {"line", "toggle"} : \A d \in D : k \in misses(d)
      /\ ~(line_ok(all) /\ toggle_ok(all)) => D = {} \/ \E d \in D : misses(d) # {}
  BY <1>1, <1>2
<1>. QED BY <1>3 DEF D, all

\* What aggregate is about to write to metrics.json is judged as the files show.
LEMMA AggregateJudged == ASSUME GateInv, InfoInv, aggregate PROVE Judged(m.file)'
<1> DEFINE tops == \A t \in DOMAIN parse_uvm_tops : parse_uvm_tops[t] = "PASS"
           proofs == \A p \in DOMAIN parse_formal : parse_formal[p] = "PASS"
           tests == \A g \in DOMAIN parse_cocotb :
                       \A i \in DOMAIN parse_cocotb[g] : parse_cocotb[g][i] = "PASS"
           cov == line_ok(parse_coverage(there)) /\ toggle_ok(parse_coverage(there))
           f == [coverage |-> parse_coverage(there), uvm_tops |-> parse_uvm_tops,
                 formal |-> parse_formal, cocotb |-> parse_cocotb, problems |-> found]
<1>1. m'.file = f
  BY DEF aggregate
<1>2. check_thresholds(f) <=> cov /\ tops /\ proofs /\ tests
  <2>1. /\ f.coverage = parse_coverage(there) /\ f.uvm_tops = parse_uvm_tops
        /\ f.formal = parse_formal /\ f.cocotb = parse_cocotb
    OBVIOUS
  <2> HIDE DEF f
  <2>. QED BY <2>1, Zenon DEF check_thresholds
<1>3. f.problems = found
  OBVIOUS
<1> DEFINE wrong == \E t \in Tops : over(t) /\ sim[t].errors + sim[t].fatals > 0
           open  == \E t \in Tops : log[t] # NoFile /\ ~over(t)
           unproved == \E i \in DOMAIN formal : formal[i].status = "FAIL"
           failed == \E g \in 1 .. Groups :
                       /\ xml[g] \notin {NoFile, Torn}
                       /\ \E i \in DOMAIN xml[g] : xml[g][i] = "FAIL"
           none == DOMAIN there = {}
           low == /\ DOMAIN there # {}
                  /\ \E k \in {"line", "toggle"} : \A d \in DOMAIN there : k \in misses(d)
           uneven == \E d \in DOMAIN there : misses(d) # {}
<1>4. (tops => ~wrong) /\ (~tops => wrong \/ open)
  BY TopsRead DEF GateInv
<1>5. (proofs <=> ~unproved) /\ (tests <=> ~failed)
  BY FormalRead, CocotbRead, Zenon DEF GateInv
<1>6. (cov => ~none /\ ~low) /\ (~cov => none \/ uneven)
  BY CoverageRead
<1>7. /\ found \subseteq Overlooked \cup {"uvm", "formal", "cocotb", "no_coverage", "low"}
      /\ "uvm" \in found <=> wrong
      /\ "unfinished" \in found <=> open
      /\ "formal" \in found <=> unproved
      /\ "cocotb" \in found <=> failed
      /\ "no_coverage" \in found <=> none
      /\ "low" \in found <=> low
      /\ "uneven" \in found <=> uneven
  <2> HIDE DEF wrong, open, unproved, failed, none, low, uneven
  <2> DEFINE errors == \E i \in DOMAIN formal : formal[i].status = "ERROR"
             torn_xml == \E g \in 1 .. Groups : xml[g] = Torn
  <2> HIDE DEF errors, torn_xml
  <2>1. found = Said("uvm", wrong) \cup Said("unfinished", open)
                \cup Said("formal", unproved) \cup Said("proof_error", errors)
                \cup Said("cocotb", failed) \cup Said("torn_xml", torn_xml)
                \cup Said("no_coverage", none) \cup Said("low", low)
                \cup Said("uneven", uneven)
    BY Zenon DEF found, wrong, open, unproved, errors, failed, torn_xml, none, low, uneven
  <2>. QED BY <2>1 DEF Said, Overlooked
<1> HIDE DEF tops, proofs, tests, cov, wrong, open, unproved, failed, none, low, uneven, f
<1>8. (cov /\ tops /\ proofs /\ tests) => found \subseteq Overlooked
  BY <1>4, <1>5, <1>6, <1>7
<1>9. ~(cov /\ tops /\ proofs /\ tests) => found \cap Reasons # {}
  BY <1>4, <1>5, <1>6, <1>7 DEF Reasons
<1>10. Judged(f)
  BY <1>2, <1>3, <1>8, <1>9 DEF Judged
<1>. QED BY <1>1, <1>10

LEMMA GateInvInit == Init => GateInv
  BY DEF Init, GateInv, LogInv, LogOk, MachineInv

\* A step that neither begins nor ends a write of metrics.json.
LEMMA FlowStep ==
    ASSUME GateInv, UNCHANGED <<uvm, m, metrics>>,
           pc' \in {"dump", "write"} => pc \in {"dump", "write"},
           xml' \in [1 .. Groups -> Verdicts \cup {NoFile, Torn}]
    PROVE  GateInv'
<1>1. LogInv' /\ MachineInv'
  BY DEF GateInv, LogInv, LogOk, MachineInv, uvm, Counts
<1>2. (metrics \notin {NoFile, Torn} => Judged(metrics))'
  BY DEF GateInv
<1>3. (pc \in {"dump", "write"} => Judged(m.file))'
  BY DEF GateInv
<1>. QED BY <1>1, <1>2, <1>3 DEF GateInv

\* The UVM runs change neither metrics.json nor its verdict.
LEMMA UvmStep ==
    ASSUME GateInv, NEW t \in Tops, Build(t) \/ Simulate(t) \/ Log(t)
    PROVE  LogInv' /\ DOMAIN sim' = Tops /\ DOMAIN log' = Tops
<1>1. /\ LogInv /\ DOMAIN sim = Tops /\ DOMAIN log = Tops
  BY DEF GateInv, MachineInv
<1>2. ASSUME NEW u \in Tops, u # t
      PROVE  LogOk(u)'
  <2>1. log'[u] = log[u] /\ sim'[u] = sim[u]
    BY <1>1, <1>2 DEF Build, Simulate, Log
  <2>2. Counts(u)' = Counts(u)
    BY <2>1 DEF Counts
  <2> QED
    BY <1>1, <2>1, <2>2 DEF LogInv, LogOk
<1>3. DOMAIN sim' = Tops /\ DOMAIN log' = Tops
  BY <1>1 DEF Build, Simulate, Log
<1>4. CASE Build(t)
  <2>1. sim'[t] = [state |-> "built", errors |-> 0, fatals |-> 0]
    BY <1>1, <1>4 DEF Build
  <2>2. LogOk(t)'
    BY <2>1 DEF LogOk
  <2> QED
    BY <1>2, <1>3, <2>2 DEF LogInv
<1>5. CASE Simulate(t)
  <2>1. PICK e, f \in {0, 1} : sim'[t] = [state |-> "runs", errors |-> e, fatals |-> f]
    BY <1>1, <1>5 DEF Simulate
  <2>2. /\ sim'[t].errors \in {0, 1} /\ sim'[t].fatals \in {0, 1}
        /\ sim'[t].state = "runs"
    BY <2>1
  <2>3. log'[t] = <<>>
    BY <1>1, <1>5 DEF Simulate
  <2>4. log'[t] \in Seq(LogLine) /\ Len(log'[t]) = 0
    BY <2>3
  <2>5. \A i \in 1 .. Len(log'[t]) : log'[t][i] = Counts(t)'[i]
    BY <2>4
  <2>6. LogOk(t)'
    BY <2>2, <2>4, <2>5 DEF LogOk
  <2> QED
    BY <1>2, <1>3, <2>6 DEF LogInv
<1>6. CASE Log(t)
  <2> DEFINE l == log[t]
             c == Counts(t)
             n == Len(l) + 1
  <2>1. /\ l \in Seq(LogLine) /\ Len(l) < 4
        /\ \A i \in 1 .. Len(l) : l[i] = c[i]
        /\ sim[t].errors \in {0, 1} /\ sim[t].fatals \in {0, 1}
    BY <1>1, <1>6 DEF Log, LogInv, LogOk
  <2>2. /\ sim'[t].errors = sim[t].errors /\ sim'[t].fatals = sim[t].fatals
        /\ sim'[t].state = "over" => Len(l) = 3
    BY <1>1, <1>6 DEF Log
  <2>3. Counts(t)' = c
    BY <2>2 DEF Counts
  <2>4. log'[t] = Append(l, c[n])
    BY <1>1, <1>6 DEF Log
  <2>5. /\ c[1] \in LogLine /\ c[2] \in LogLine
        /\ c[3] \in LogLine /\ c[4] \in LogLine
    BY <2>1 DEF Counts, LogLine
  <2> HIDE DEF l, c
  <2>6. n \in 1 .. 4
    BY <2>1
  <2>7. c[n] \in LogLine
    <3>1. n = 1 \/ n = 2 \/ n = 3 \/ n = 4
      BY <2>6
    <3> QED
      BY <2>5, <3>1
  <2>8. /\ log'[t] \in Seq(LogLine) /\ Len(log'[t]) = n
        /\ \A i \in 1 .. n : log'[t][i] = c[i]
    BY <2>1, <2>4, <2>7
  <2>9. /\ sim'[t].errors \in {0, 1} /\ sim'[t].fatals \in {0, 1}
        /\ \A i \in 1 .. Len(log'[t]) : log'[t][i] = Counts(t)'[i]
    BY <2>1, <2>2, <2>3, <2>8
  <2>10. sim'[t].state = "over" => Len(log'[t]) = 4
    <3>1. Len(l) = 3 => n = 4
      OBVIOUS
    <3> QED
      BY <2>2, <2>8, <3>1
  <2>11. LogOk(t)'
    BY <2>8, <2>9, <2>10 DEF LogOk
  <2> QED
    BY <1>2, <1>3, <2>11 DEF LogInv
<1> QED
  BY <1>3, <1>4, <1>5, <1>6

LEMMA GateInvNext == GateInv /\ InfoInv /\ [Next]_vars => GateInv'
<1> SUFFICES ASSUME GateInv, InfoInv, [Next]_vars PROVE GateInv'
  OBVIOUS
<1> USE DEF Goto
<1>1. CASE Start
  BY <1>1, FlowStep DEF Start, GateInv, MachineInv, flows
<1>2. CASE NewInfo \/ WriteInfo \/ InfoDone \/ NewFormal \/ Prove
  <2>1. UNCHANGED <<xml, uvm, m, metrics>>
    BY <1>2 DEF NewInfo, WriteInfo, InfoDone, NewFormal, Prove, flows, KeepRest
  <2>2. pc' \notin {"dump", "write"}
    BY <1>2 DEF NewInfo, WriteInfo, InfoDone, NewFormal, Prove
  <2>. QED BY <2>1, <2>2, FlowStep DEF GateInv, MachineInv
<1>3. CASE NewXml \/ WriteXml \/ NextFlow
  <2>1. UNCHANGED <<uvm, m, metrics>> /\ pc' \notin {"dump", "write"}
    BY <1>3 DEF NewXml, WriteXml, NextFlow, KeepRest
  <2>2. xml' \in [1 .. Groups -> Verdicts \cup {NoFile, Torn}]
    BY <1>3 DEF NewXml, WriteXml, NextFlow, MayTear, GateInv, MachineInv
  <2>. QED BY <2>1, <2>2, FlowStep
<1>4. CASE aggregate
  <2>1. Judged(m.file)'
    BY <1>4, AggregateJudged
  <2>2. UNCHANGED <<flows, uvm, metrics>>
    BY <1>4 DEF aggregate
  <2>3. LogInv' /\ MachineInv'
    BY <2>2 DEF GateInv, LogInv, LogOk, MachineInv, flows, uvm, Counts
  <2>. QED BY <2>1, <2>2, <2>3 DEF GateInv
<1>5. CASE Dump
  BY <1>5, FlowStep DEF Dump, GateInv, MachineInv, flows
<1>6. CASE Write
  <2>1. LogInv' /\ MachineInv'
    BY <1>6 DEF Write, GateInv, LogInv, LogOk, MachineInv, flows, uvm, Counts
  <2>2. Judged(metrics)' /\ pc' = "made"
    BY <1>6 DEF Write, GateInv
  <2>. QED BY <2>1, <2>2 DEF GateInv
<1>7. CASE Kill
  <2>1. LogInv' /\ MachineInv'
    <3>1. xml' \in [1 .. Groups -> Verdicts \cup {NoFile, Torn}]
      BY <1>7 DEF Kill, MayTear, GateInv, MachineInv
    <3>. QED BY <1>7, <3>1 DEF Kill, GateInv, LogInv, LogOk, MachineInv, uvm, Counts
  <2>2. (metrics' = metrics \/ metrics' = Torn) /\ pc' = "killed"
    BY <1>7 DEF Kill
  <2>. QED BY <2>1, <2>2 DEF GateInv
<1>8. CASE clean
  <2>1. LogInv' /\ MachineInv'
    BY <1>8 DEF clean, GateInv, LogInv, LogOk, MachineInv, uvm, Counts
  <2>2. metrics' = NoFile /\ pc' = "idle"
    BY <1>8 DEF clean
  <2>. QED BY <2>1, <2>2 DEF GateInv
<1>9. CASE Beside /\ ~clean
  <2>1. UNCHANGED <<xml, pc, m, metrics>>
    BY <1>9 DEF Beside, Build, Simulate, Log, fragment, CopyFragment, KeepReport, flows, run
  <2>2. LogInv' /\ DOMAIN sim' = Tops /\ DOMAIN log' = Tops
    <3>1. CASE fragment \/ CopyFragment
      BY <3>1 DEF fragment, CopyFragment, uvm, GateInv, LogInv, LogOk, MachineInv, Counts
    <3>. QED BY <1>9, <3>1, UvmStep DEF Beside
  <2>. QED BY <2>1, <2>2 DEF GateInv, MachineInv
<1>10. CASE UNCHANGED vars
  <2>1. UNCHANGED <<xml, uvm, pc, m, metrics>>
    BY <1>10 DEF vars, flows, run
  <2>. QED BY <2>1, FlowStep DEF GateInv, MachineInv
<1>. QED
  BY <1>1, <1>2, <1>3, <1>4, <1>5, <1>6, <1>7, <1>8, <1>9, <1>10 DEF Next, Report

\* A green report_check has overlooked an unfinished UVM run, a proof that
\* ended in DONE (ERROR), a torn results.xml or a DUT below a floor that all
\* reach together, and nothing else; a red one has a reason in the files.
THEOREM GateHonest == Spec => []GateRight
<1>1. GateInv => GateRight
  BY DEF GateInv, GateRight, Judged, report_check
<1>. QED
  BY <1>1, GateInvInit, GateInvNext, InfoInvInit, InfoInvNext, PTL DEF Spec
=============================================================================
