# A TLA+ model of the AXI4 to 2x APB4 bridges

This directory holds TLA+ specifications of the RTL of this repository and of
the Python around it (the cocotb bench, the swarm board, the metrics report),
TLC configurations that model-check them on small instances, and proofs that
TLAPS checks for every value of their constants.

## 1. Inventory of the system

| Component | Source | State it keeps | Operations | Speaks to |
| --- | --- | --- | --- | --- |
| Burst bridge | `src/axi4_to_apb4_2x_burst.v` | address-phase latches, three 9-bit beat counters, error flags, a one-beat read buffer, a three-state APB machine, registered B, R and APB outputs | accept AW or AR, take W beats, run APB transfers, give B or R | AXI4 master, two APB slaves |
| Simple bridge | `src/axi4_to_apb4_2x_simple.v` | one six-state machine, latches, two pending flags | collect AW and W in either order, or take one AR; one APB transfer; one response | the same |
| Register block | `src/axi3lite_regblock.v` | 32 words, a write FSM, a read FSM, registered READYs | write with strobes and a WID check, read | AXI3-lite master |
| UVM monitors and scoreboard of the bridges | `uvm/sv/monitors`, `uvm/sv/scoreboard` | queues of bursts and transfers waiting for each other | capture, ingest, reconcile, report | pins, each other by analysis ports |
| UVM environment of the register block | `uvm/sv/pkg/regblock_uvm_env_pkg.sv` | shadow registers, captured phases | forked observers, check on write and read | pins |
| Cocotb bench | `cocotb/env.py` | two memories with wait-state counters, the wait loop a driver call is in | answer APB; write, read and burst calls with their limits | the burst bridge, the tests |
| UVM memories | `uvm/sv/models` | memories, wait-state counters | answer APB | the bridges |
| Formal harness | `verification/formal` | counters for assumptions | assume, assert | the bridges |
| Swarm board | `tools/swarm/board.py` | one status file per worker, tasks.json | assign, worker report, wait, retire, table | workers through git branches |
| Reports | `scripts/gen_report.py`, `scripts/cov_report.py`, `make report` | the files of the flows, metrics.json, environments.json | run flows, read logs and .info files, merge environments, judge thresholds | simulators and provers through files |
| Containers and cloud | `docker`, `.railway`, CI | logs | build, poll | external services |

What is hard, and where:

* **Concurrency inside a clock edge.** The burst bridge is four clocked blocks
  that read each other's registers of before the edge: the block that takes a
  W beat is not the one that starts its APB transfer, the block that empties
  the read buffer is not the one that refills it, and the block that raises B
  must see the last PSLVERR that another one records.  The register block is
  two FSMs over one memory.
* **Ordering across channels.** AXI lets the master raise AW, W and AR in any
  order and hold them; the bridges arbitrate combinationally, each READY
  looking at the other channels' VALIDs.
* **Partial failure.** PSLVERR on one beat, a WLAST in the wrong place, a
  refused request whose data still arrives.
* **Timeouts.** The RTL has none: waiting for PREADY, BREADY, RREADY or WVALID
  is unbounded, so every liveness claim rests on the environment.  The cocotb
  driver counts edges in every wait loop, and a limit that is too small fails
  a correct call.
* **Reset at any moment**, which leaves latches and payload registers with
  what they held.
* **Files rewritten in place.**  Workers, the manager and `make report` may die
  between the truncation of a file and its last line; git commands and flows
  fail with nobody looking at their exit status; copies of a report travel on
  other branches.

What makes each component correct is stated in section 4; the hazards, line by
line, are in `PROJECT.json`.

## 2. The modules

| Module | What it is |
| --- | --- |
| `AddressMap` | port decode, request check, and the contract's notion of a supported request |
| `AxiPins` | the constants, payload types and pin variables that both bridges share |
| `AxiApbBurst` | the burst bridge: `TxnBlock`, `ApbBlock`, `BBlock` and `RBlock` are its four clocked blocks |
| `SerialBridge` | abstract specification of the burst bridge: transactions one at a time, beat by beat |
| `BurstObserved` | the burst bridge with a passive observer of its pins; its properties and the refinement |
| `AxiApbBurst_proofs`, `BurstObserved_proofs` | proofs about the address map, the burst bridge, its pins and its refinement |
| `AxiApbSimple`, `SingleBeat`, `SimpleObserved` | the same three for the simple bridge |
| `SimpleObserved_proofs` | proofs about the simple bridge and its refinement |
| `RegBlock`, `AtomicRegs`, `RegObserved` | the register block, the atomic register file it promises, the observer |
| `RegBlock_proofs` | proofs about `RegBlock` and its refinement |
| `Scoreboard` | the scoreboard of the bridges' UVM environment, as operators on its state |
| `MonitoredBridge` | the burst bridge in its bench: memory slaves, monitor processes, scoreboard |
| `MirroredBench` | that bench as the tests that set the scoreboard's address bits configure it; what the scoreboard then holds in every state |
| `MonitoredBridge_proofs` | proofs about the monitors and the scoreboard in that bench |
| `CocotbBench`, `OrderedCalls` | the burst bridge between the driver and the slaves of `cocotb/env.py`; what the driver calls promise a test |
| `CocotbBench_proofs` | proofs about that bench: the calls are carried out in order and in time |
| `SwarmBoard`, `SwarmBoard_proofs` | workers, manager and their git branches; proofs |
| `CoverageTally` | the two readers of `.info` files |
| `MetricsReport`, `MetricsReport_proofs` | `make report`, `make report_check` and the files they read; proofs |
| `MC*` | constants for TLC, one module per instance |

### Correspondence with the code

Variables and definitions have the names of the RTL signals wherever TLA+
allows it; the prefix `S_AXI_` is dropped and the two ports' signals are
functions on `Port`.  Pins that belong together are one variable: `aw`, `w`
and `ar` are the master's channels (`None` while VALID is low, otherwise the
payload), `b` and `r` the response payloads, `pbus[p]` PADDR, PPROT, PWRITE and
PWDATA of a port, `axi` (`txn` in the simple bridge) the latches of the
address phase.

A step is one of three things:

* `Edge(in)`: a rising ACLK edge.  All clocked blocks take their non-blocking
  assignments at once; `in` is what the slaves drive on PREADY, PSLVERR and
  PRDATA and the master on BREADY and RREADY at that edge.  `MasterBlock`
  lowers the VALID of a channel whose handshake takes place.
* `RaiseAW`, `RaiseW`, `RaiseAR`: between two edges the master raises a
  channel.  It then holds VALID and payload until the handshake, as AXI
  requires.  Several may be raised between the same two edges.
* `Reset`: ARESETn low, at any moment.  It loads the registers that the reset
  branches load and no others.  The master drops its VALIDs.

Registers without a reset value are `X` at power-up.  `X` belongs to no type,
so TLC stops with an error if the bridge ever looks inside one before loading
it.

A definition named `..._bug` is the definition below it with a plausible
mistake.  Nothing uses it; each property of a passing run has one that breaks
it, listed under `mutants` in `PROJECT.json`, which shows that the property
says something about the code.

In `MonitoredBridge` an edge is also a step of the bench: `SlaveBlock` is the
memory of `apb_ext_mem_dual`, `WriteMonitor` and `ReadMonitor` are the four
processes of the AXI monitor, `Report` the calls the monitors make into
`Scoreboard`.  Two choices on every edge are the simulator's: `first` lets the B
process look at its queues before the AW and W processes fill them (between those
two the order makes no difference, because AW and the B of its write never share an
edge), and `axi_ahead` lets the AXI monitor report before the APB monitors.
A choice that makes no difference on an edge is fixed there.
`b_late` remembers that the B process found its queues empty and is still waiting.  The loop of `reconcile_wr_port` that
takes pairs off two queues until one is empty is written as what it leaves:
`Pairs` says how many there are, `Rest` what stays, and `Committed` the shadow
after the transfers of those pairs, of which the last one to a word counts.

In `CocotbBench` every wait loop of `AXI4Driver` is a value of `pc` and every
edge one turn of it: `WaitBoth`, `WaitAW`, `WaitW`, `WaitB`, `WaitAR` and
`WaitR`, with `left` the edges before the loop's `else` raises.  What a
coroutine drives after `RisingEdge` is seen by everyone on the next edge, so
`Setup` and `Access` of `APBSlave.run` set the PREADY and PRDATA of the next
edge.  `OrderedCalls` has neither clock nor bridge: a write call stores its
beats one by one in the lanes they strobe, a read call returns what is there.

In `SwarmBoard` a step is a command of the script, or a part of one where the
process can die or another can look: `cmd_worker` with its write and its commit
(which may fail), `Tear` (it dies inside the write), `Push`, `Merge` and
`Restart` (the sandbox is lost and a new one clones the branch).  The manager's
copy `seen` changes only by a fetch that succeeds; a command fetches before it
reads tasks.json, so one that fails on a torn file has fetched all the same.
`Rewrite` and `Dump` are the two halves of writing tasks.json.  `now` is the
manager's clock, of which a worker's own is `Skew[w]` ahead or behind; reports are
stamped with the one and judged by the other.

In `MetricsReport`, `pc` is the recipe line of `make report` that runs; each flow
writes its files piece by piece (`WriteInfo`, `WriteXml`, `Prove`) and
`NextFlow` leaves it at any piece, finished or not.  A `verilator_coverage` that
fails half way is the exception (`InfoDone`): the `echo` after it succeeds, and the
next DUT has its turn (`Makefile:587-591`).  `aggregate` is one run of
`gen_report.py` up to the truncation of environments.json, `Dump` the rest of that
write, `Write` the one of metrics.json.  All files outlive the report: the next one
begins with what an earlier one left, stale or torn, until `clean` removes it.
UVM runs (`Build`, `Simulate` any number of times, `Log`) and fragments go on beside
it; `Kill` ends it anywhere.  `report_check` changes nothing and may be run at any
moment, so it is an operator on metrics.json, and its properties speak of every
state.  What a report raises on follows from `excepted`, the exceptions it catches.
`problems` (what was wrong with the files when metrics.json was made from them) and
`history` are history variables of the properties.

### What is abstracted

* WDATA with WSTRB is one value of `Data`; so is PRDATA.  Nothing in the
  bridges looks inside either.  The register block does, so there data is a
  function on byte lanes and WSTRB a set of lanes.
* `AxSIZE` is the number of bytes per beat, `AxLEN` a number, `AxBURST` one of
  three names; the reserved encoding 2'b11 is treated by the code like WRAP
  and is not told apart from it.
* Addresses are numbers below `AddrSpace` and wrap there; the port bit is a
  division by `Window`.
* In the cocotb bench a word is a pair of byte lanes, and `Keep` stands for a
  lane that WSTRB leaves out.  The limits of 64 and 32 edges are scaled to 8
  and 7: enough for the longest wait of the instance, and so tight that one
  more edge of waiting would be noticed.
* Of a worker's report the state and the stamp are kept; step, task, message
  and results are display.
* Of the metrics the verdicts are kept; times, names, versions, the benchmark,
  `report.md` and the HTML are left out.  `_pct` rounds to two decimals, and so
  does `pct_ok`; that the pass rate of the tests is rounded too makes a difference
  from 20000 tests on only, and a rate of 100% is all of them here.  An `.info` file may be cut between any two lines, not inside
  one.
* The `default:` arms of the state machines are left out: no assignment gives
  the state register another value.

## 3. Environment and fairness

The AXI master is free: any request of the instance, in any order, with any
delay, WLAST where it likes.  `SerialMaster = TRUE` restricts it to one
direction at a time.  An APB slave may answer any access with any wait state,
PSLVERR and data.

The liveness runs assume, as weak fairness, that ACLK keeps running, that a
slave does not insert wait states for ever, that the master takes an offered
response and that it supplies the beat (in the simple bridge the other half)
of a write it began.  The formal harness assumes the same with fixed bounds:
`verification/formal/apb4_burst_props.sv:374-384` and
`apb4_simple_props.sv:305-313`.  Each fairness action is an edge (or a raise)
that is continuously enabled while the thing is due, so weak fairness is
enough; resets and new requests are never required to happen, nor to stop.

In `simple_bridge` the restriction of the master is in the property:
`ProperTxnEnds` is `[]Proper => TxnEnds`, so the same run checks safety against
the free master and liveness for the proper one.

`CocotbBench` needs no assumption on the slaves: they count their wait states
down.  That the clock runs and a coroutine goes on (`WF` on `BenchEdge` and
`DriveBeat`) is what the simulator does.  `SwarmBoard` assumes that time passes
(`WF` on `Tick`), that a manager's command, once started, runs on, and that the
manager shows the table again and again with a fetch that succeeds now and
then (`SF`); nothing is assumed of workers, but that all sandboxes of one worker
keep one clock, whatever its distance from the manager's and the other workers':
a second sandbox with a clock behind the first would stamp its reports as older
than those already pushed, and `board.py:138` would hide them.  `MetricsReport` assumes that `make`
runs on: every recipe line that may fail has a leading `-` (`Makefile:749-761`),
and each flow comes to an end.

The bench of `MonitoredBridge` is narrower, as the stimulus is
(`uvm/sv/pkg/bridge_stimulus_pkg.sv`): one reset before the start, one address
at a time, BREADY and RREADY high from the address on, WSTRB all ones, and
memories that start at zero as in a two-state simulator.  WLAST, wait states
and slave errors are free.

Two more conditions hold for `MirroredBench` only (`MirrorAssumption`).  The
scoreboard keys its shadow by the address bits that index the slaves' memories,
as `test_bridge_burst_ext`, `_rand_burst` and `_rand_integrity` set bits 12..3
(`test_bridge_stress` does not: run `stress_keys`).  And no test reads a word whose
write was failed by PSLVERR: the slave stores such a word and the shadow does not
(`bridge_scoreboard.sv:139`), so a test that read it back would report a mismatch;
`Spoiled` names those words.

## 4. The runs

| Run | Question | Instance |
| --- | --- | --- |
| `burst_write` | Is B's verdict that of the whole burst (`WriteVerdict`), is there one transaction at a time (`OneTransaction`), is every transfer driven on the port its own address belongs to (`BeatsInPort`) and whole (`ApbProtocol`), does the bridge implement `SerialBridge` (`KeepsPromise`)? | 2-beat legal and refused writes, all WLAST patterns, wait states and errors, one single read; AW and AR may collide |
| `burst_read` | Are the beats of a read the right number, each with its own transfer's data and status (`ReadFaithful`), APB exclusive (`ApbExclusive`), offered responses stable (`ResponseHeld`)? `KeepsPromise` again, for reads | INCR, FIXED and refused 2-beat reads, one single write |
| `burst_arbitration` | Is a write address that is offered accepted (`AwProgress`), if the master may raise AW and AR together? **violated** | 3-beat bursts |
| `simple_bridge` | Does the simple bridge implement `SingleBeat` (`KeepsPromise`)? APB handshake (`ApbProtocol`), stable responses (`ResponseHeld`), one port at a time (`OnePort`); does what a proper master begins end (`ProperTxnEnds`)? Is `IInv` an invariant? | legal and refused requests, halves of a write in any order, reads in between |
| `simple_refused_write` | The same without the premise that writes are legal (`TxnEnds`): **violated** | serial master |
| `registers` | Does the register block implement `AtomicRegs` (`KeepsPromise`)? Stable responses (`ResponseHeld`); does every write and read end (`WriteEnds`, `ReadEnds`), each FSM whatever the other does; is `IInv` an invariant? | two registers, two lanes, an aliasing address, two IDs |
| `scoreboard` | Does the scoreboard ever report an error on the bridge (`NoFalseAlarm`), is it empty between transactions (`Drained`), does the write monitor pair an address with its own data although its three processes run in any order (`PairingExact`), all this whichever monitor reports first? In every state, inside a burst too, does the scoreboard hold the transfers of the open transaction and nothing else, and is its shadow the slaves' memory but for the writes not yet reported (`MirrorInv`)? | legal, failing and refused writes and reads of up to 2 beats, WLAST early, in place, missing |
| `stress_keys` | `NoFalseAlarm` with the address bits `test_bridge_stress` leaves to the scoreboard: **violated** | single writes of two words, reads of one |
| `cocotb_calls` | Do bridge, driver and slaves together behave as if each beat of a call were stored at once and in order (`CallsOrdered`), does every call return within its limits (`CallsReturn`), does what was accepted end (`TxnCompletes`), are the `IInv` and the `BenchInv` of the proofs invariants? | nine calls in any order: 1 to 3 beats, FIXED, refused, WLAST early and missing, partial strobes; wait states 0/0 and 2/1 |
| `swarm_board` | Does what the manager sees of a worker never go back to an older stamp (`NeverBack`), does the last pushed report arrive (`ReportsArrive`), does a silent worker show as such (`SilenceShows`), is a wait that returns in time right (`WaitSound`), does it return (`WaitEnds`), is `IInv` an invariant? | two workers, the clock of one a tick ahead, three reports of which two may share a second, crashes, failed commits and fetches, lost sandboxes, merges of the second's branch into the first, assignments of the second |
| `board_wait` | Does a wait that saw every worker settled show the table (`WaitReports`)? **violated** | the same |
| `reports` | Has a green gate overlooked nothing but the four things named below, and a red one a reason (`GateRight`); does environments.json keep what it has shown (`EnvsKept`); do both readers count the same in a cut file (`TalliesAgree`); is a report that is not killed made (`ReportMade`)? | seven machines with different tools, one top, two groups of tests, four formal tasks, up to two .info files of two sources |

### Why the bounds are enough

Two beats already have a first, a last and a boundary between them, so an
early, a right and a missing WLAST, an error on either beat, a full buffer and
a wrap of a window all happen; `cocotb_calls` has three beats, which adds one
that is neither first nor last, and `IInv` is proved for any length.  Three requests per channel give
one per kind of treatment (INCR, FIXED, refused); successive transactions
differ in ID, direction and port, which is what a stale register would show.
A legal burst ends exactly with its window and a refused one leaves it by one
beat, so both sides of the boundary are met.  The counters' modulus is 4, just
above the longest burst, as 512 is above 256.

In `scoreboard` a word is 2 bytes and a slave has four, all told apart by the
shadow (`KeyBytes = 2`, `Keys = 4`), as bits 12:3 tell 8-byte words apart.  Reads
overlap what the writes of port 0 leave, so a pairing that slips by one beat
shows in the data.  In `stress_keys` the shadow keeps four 1-byte entries, the
scaled form of bits 9:2 against 12:3: half of the slave's words share an entry
with the other half.

In `cocotb_calls` a call may follow any other on the same words, so a beat that is
stored early, late or in the wrong lane shows in the next read; the two wait
counts differ per port, so each slave is met both alone and with the bridge
still busy.  The limits of the run, 8 and 7 edges, are the least that
`LimitAssumption` admits for these wait states, so a call that took longer would
fail in it; the code has 64 and 32.  In `swarm_board` two workers are enough for the one way in which
branches disturb each other: a branch that carries an older copy of another
worker's file and is listed before or after it.  The run's one merge is of the second branch into the first, which is listed
before it, so that two reports of one second can meet the strict comparison of
`board.py:138`; the first worker's clock is ahead, the second one's is the
manager's.  A clock of three ticks has a
report, a stale one and a silent wait; only the second worker is assigned, and that
more may be is left to the proofs.  In `reports` the machines divide the
files among them, because the readers look at them one by one and only the gate
joins their verdicts: one machine varies the hit counts of one .info file (`hits`),
one has two files, of which each may be cut, and joins them; two vary the proofs, by
stopping at the first failure and by keeping going; one varies the tests; one the
UVM run under a coverage that passes; one the fragments.  The three that join
coverage with another flow make their next report after `clean` or a kill only, the
others one after another from what the last one left (`again`).  Two tasks per proof give the name that two lines share,
and the .info file has a source that counts and one that does not, so that a
cut falls inside, between and after both.

### What the violated runs show

* `burst_arbitration`: AWREADY waits for ARVALID to fall and ARREADY for
  AWVALID; once both are up neither may fall.  `doc/PLAN.md:54-58` promises
  unconditional progress; the formal harness assumes the collision away.
* `simple_refused_write`: a refused AW that arrives before its beat moves the
  simple bridge to `ST_ERR_RESP`, where WREADY is low; the beat is never taken
  and B never given.  `doc/design_contract.md:53-55` rules that out.
* `board_wait`: `cmd_wait` ends by calling `cmd_show` with a `Namespace` that lacks
  `active` and `brief` (`tools/swarm/board.py:208, 211` against 177 and 179), so
  every wait ends in an `AttributeError` instead of the table.
* `stress_keys`: `test_bridge_stress` does not set the scoreboard's address bits
  as the other tests on the same slave do; a word is written, another that
  shares its shadow entry is written, and reading the first is reported as a
  mismatch.  The comments at `uvm/sv/pkg/bridge_uvm_tests_pkg.sv:389-390` and
  `uvm/sv/scoreboard/bridge_scoreboard.sv:16` say the shadow mirrors the slave.

### What the passing runs leave to the code

`GateRight` names four things that a green gate overlooks (`Overlooked`), because
the code does: a UVM run that is not over, whose run.log has its INFO count and not
yet its ERROR count, reads as PASS (`scripts/gen_report.py:145`); a proof that ends
in DONE (ERROR) is matched by no line of `parse_formal` (line 186); a results.xml
that does not parse is passed over with its tests (lines 165-168); and a DUT below a
floor hides behind the others when all points together reach it (lines 111-120,
457-464).  And it lists absent coverage among the reasons for red (`no_coverage`),
as the code does (lines 458 and 463), although `scripts/report_thresholds.json:2` says "Only metrics
present in report/metrics.json are checked".

`ReportsArrive` and `WaitSound` except one case (`Tied`): stamps have whole seconds
and `board.py:138` compares with a strict `>`, so when a worker pushes two reports in
one second and a branch listed before its own has merged the first of them, that
copy stays on the board for good once the worker falls silent.  Without the
exception both properties fail in this run.

A refused write of several beats is answered by the simple bridge after the
first, and the others are paired with later writes; `SingleBeat` models that as
it is, although `doc/design_contract.md:59` speaks of AWLEN + 1 beats.

## 5. What is proved

`AxiApbBurst_proofs`, from `AddressAssumption`, `WindowAssumption`, `PinAssumption`
and `BurstAssumption` (the longest burst fits the counters), for every set of
requests, burst length, counter width and address map:

* `Consistent`: `Spec => []IInv`.  `TypeOK` alone is not inductive: that a
  counter stays in range needs `ApbInv` and `ReadInv`, which say how the
  counters of different blocks are related, and those need `OpenInv` (nothing
  is in flight without an open transaction) and `PortInv` (the port outputs
  follow the state machine).  The proof splits an edge by what the bridge is
  doing: accepting (`AcceptInv`), idle (`IdleEdge`), in an APB transfer
  (`TransferEdge`, `CompleteEdge`), in the data phase of a write or a read
  with the bus idle (`WriteEdge`, `ReadEdge`).
* `TypeCorrect` and `ExclusivePorts` follow from it.
* `BeatsKeepPort`: `Spec => []BeatsInPort`.  The port is latched once, from the
  first beat, while the address advances by itself; `BeatInv` says that the
  addresses still to come are those of a legal burst, and the lemmas about the
  address map that such a burst stays in its window.
* `RefusesIllegal`, from `AddressAssumption` and `WindowAssumption` alone: comparing
  the port bit of the first and the last beat refuses exactly the bursts with a
  beat outside the first one's window, for every address space, window, size and
  length that the assumptions admit, wrap-around included.  `Reach` is its core: a
  burst is shorter than a window, so it cannot leave it and come back.

`BurstObserved_proofs`, from the same assumptions:

* `Implements`: `ObsSpec => KeepsPromise`, the refinement of `SerialBridge`.  The
  observer's record of the open transaction (`cur`, the beats taken, the transfers
  run, the beats handed over) is a variable of the abstract machine; `LinkInv` says
  what it has to do with the registers.  `LatchLink` ties the latches to the
  accepted request, `TransferLink` the counter and the transfer on APB to the
  transfers run, `WriteLink` and `ReadLink` the error flags and the read buffer to
  their verdicts, and `ClosedLink` keeps what is true of a finished record.  None of
  them is inductive without `IInv`: that a beat is counted once needs the relation
  of the counters across the clocked blocks.  `StepSim` maps every edge to the one
  abstract step it takes or to a stutter, by what the four blocks do on it.
* `VerdictsComplete`, `ReadsComplete`, `OneAtATime` follow from `IInv` and `LinkInv`;
  `ResponsesStand` and `ApbTransfers` are action properties, proved block by block
  (`HeldStep`, `PinEdge`).

`SimpleObserved_proofs`, from `AddressAssumption`, `PinAssumption` and
`ObserverAssumption` (no transfer record is the value `None`), for every set of
requests and beats and every slave:

* `Consistent`: `Spec => []IInv`.  `TypeOK` needs `PendingInv` (a half of a write
  waits only in the idle or the error state, and what a state works on was latched
  before it), and that one needs `RespInv` and `PortInv` for the states after.
* `Implements`: the refinement of `SingleBeat`, by `LinkInv`: the latches hold what
  was accepted and not answered (`OpenInv`), a request that is carried out has its
  transfer recorded when its response is offered (`DoneInv`), and the response is
  the one the request is owed (`OfferInv`).  An edge on which both halves of a write
  are accepted maps to the abstract step that takes both.
* `PortsExclusive`, `ResponsesStand` and `ApbTransfers`, as for the burst bridge.

`MonitoredBridge_proofs`, from the assumptions of the burst bridge and
`MonitorAssumption` (a read that is being captured is told from none, an address
from `X`; the slaves' memories are not empty):

* `PairsExact`: `BenchSpec => []PairingExact`, for bursts of any length and every
  order of the three write processes.  `PairingExact` bounds the queues but does not
  say what they hold; `WriteMonitorInv` does: of an open write its address and
  either the beats taken so far, counted by `Taken`, or its closed burst, and of a B
  process that is late one pair, while the bridge has nothing open.  That this pair
  is gone before the next one comes is `IdleWriteMonitor`, which needs `IInv`:
  the bridge takes at least one edge from AW to B.
* `NothingLeftBehind`: between transactions the monitors are empty, the monitors'
  half of `Drained`; the read side by `ReadMonitorInv`, that the beats captured are
  `beats_sent`.

With `MirrorAssumption` (section 3) as well:

* `BoardMirrors`: `BenchSpec => []MirrorInv`, for bursts of any length, any memory size,
  slave and order of the monitors.  `NoFalseAlarm` and `Drained` say nothing of the
  middle of a burst, where the scoreboard holds observations whose prediction is
  yet to come; `MirrorInv` does.  `BoardInv`: no prediction ever waits, an observation
  only for the transaction it belongs to.  `WriteLink` and `ReadLink`: of what is open,
  the latches, the captured beats, the observations and the words on R all belong to
  one request `q`, beat by beat.  `ShadowInv`: a slave's word is what the shadow will
  hold once the observed writes are committed to it.  The invariant is inductive
  together with `IInv` and `MonitorInv`.  There is one lemma for each kind of edge:
  idle or accepting (`IdleMirror`), a B offered or captured late (`AnsweredMirror`), an
  open write (`WriteMirror`), and of a read the fetch of a word, its way into the
  buffer and its way out on R (`FetchMirror`, `HandMirror`, `OfferMirror`).
  `WriteReported` and `ReadReported` are the scoreboard's part: reports that fit the
  observations leave no error and no entry behind.
* What the reconcile loops compute needs no induction over data, because their
  closed form (section 2) speaks of the last transfer to a word; that there is a
  last one is `LastExists`.
* `NoFalseAlarms` and `AllDrained` follow: under these assumptions an error the
  scoreboard reports is a mistake of the design, never of the bench.

`CocotbBench_proofs`, from the assumptions of the burst bridge, `CallAssumption` (the
pins can carry the calls), `SlaveAssumption` (a stored word is a word) and
`LimitAssumption` (the limits leave time for the slowest beat), for any calls, burst
lengths, strobes, WLAST positions and wait states:

* `InStep`: `BenchSpec => []BenchInv`.  `BenchInv` is the bridge's `IInv`, `SlaveInv`
  (the selected slave counts down, drives the word a read asks for, and what it has
  written early it would write once more onto itself) and `CallInv`, whose `LoopInv`
  says for each wait loop how far the bridge is: which request it holds or serves,
  how many beats it has taken, what waits on R, and that `left` is at least the
  edges until the handshake the loop waits for (`BusLeft`, `BeatLeft`).  The three
  parts need each other: the edges left follow from the slave's counter and the
  bridge's state, the slave's address from the call that the bridge serves.  There
  is one lemma for each state of the APB transfer (`SetupStep`, `WaitStep`,
  `ReadyStep`, `DoneStep`) and one for each wait loop (`AWLoop`, `BothLoop`, `WLoop`,
  `BLoop`, `ARLoop`, `RLoop`).
* `NoLimitReached`: none of the driver's loops runs out.  `Pace` is the longest way from
  one beat to the next, 9 edges with the 3 wait states that the tests use at most, and
  the loops have 32 and 64; `burst_read` shares its limit among its beats, which is
  where `left` is a product (`Scaled`).
* `CallsInOrder`: `BenchSpec => CallsOrdered`, the refinement of `OrderedCalls`.  With
  wait states a slave writes a beat an edge before the bridge counts it and again on
  that edge; `stored_beats` counts it from the first, and `MergeTwice` shows the
  second write to change nothing (`TwiceWritten`).  Every edge stores the next beat,
  returns from a call or is a stutter.

`RegBlock_proofs`, from `RegAssumption`:

* `Consistent`: READY and VALID outputs agree with the two FSMs.
* `Implements`: `ObsSpec => KeepsPromise`, the refinement of `AtomicRegs` for
  any number of registers, lanes and requests.  The argument needs `LinkInv`
  (the write latch holds the address phase that the observer recorded) beside
  `IInv`; then `WriteSim` and `ReadSim` map what each FSM does on an edge to at
  most one abstract step of its side, and an edge on which both move maps to
  the abstract joint step in which the read comes first.
* `ResponsesStand`: an offered B or R stands until it is taken or the block is
  reset.

`SwarmBoard_proofs`, from `SwarmAssumption`, for any number of workers:

* `CopiesLag`: `Spec => []IInv`.  By their stamps the manager's copy lags behind the
  pushed one, a merged copy behind the pushed original, that one behind the commit,
  and the commit behind its worker's clock.  Without the chain in the middle a merge
  could bring back what a lost sandbox had not pushed.  The clocks may differ by any
  `Skew`, as long as each worker keeps one.
* `ReportsNeverGoBack` and `WaitSeesEveryWorker` are action properties that
  follow from it and from what `remote_board` picks among the branches; that it
  picks the worker's own report unless an earlier branch ties with it is `OwnRow`.

`MetricsReport_proofs`, from `ReportAssumption` and `TemplateAssumption` (every
record of a coverage file is closed before the next one is opened and names a line
once, as the coverage tools write them), for any tops, tasks, tests, coverage files and
machines:

* `EnvironmentsKept`: `Spec => []EnvsKept`, by `MergeInv`: what has been shown since
  the file was last torn or removed is in environments.json, or in the map that is
  about to be written over it.
* `GateHonest`: `Spec => []GateRight`.  What there is to object to (`found`) is stated
  by what the flows did, not by what `gen_report.py` reads, so each reader is a step:
  a run.log holds the first lines of its run's counts and all of them once the run is
  over (`LogInv`, `TopsRead`), a name has a FAIL if and only if one of its tasks has
  (`FormalRead`), and so for the tests (`CocotbRead`).  For coverage what is wrong is
  that a DUT misses a floor by the rows of the coverage table, file by file; the gate
  judges its own pooled tally.  `FloorsRead` ties the two: a floor that every file
  misses all together miss, and one that every file reaches all together reach
  (`Pooled`, an induction over the files by a least counterexample), with the tallies
  of `TalliesSame`.  `GateInv` keeps the judgement with metrics.json while the files
  go on changing, so it holds whenever report_check is run.
* `TalliesSame`: `Spec => []TalliesAgree`, that this tally is the coverage table's.
  `InfoInv` says that an .info file is a beginning of the flow's template, wherever
  the flow stopped.  In such a file every counted line has one opener before it
  (`OneOpener`), so that neither reader drops a point (`NoneDropped`) or counts it
  under two sources (`CountedOnce`), and both index the same set of points
  (`SamePoints`, `AsMany`).

Model-checked only: the temporal properties under fairness (`ProperTxnEnds`,
`WriteEnds`, `ReadEnds`, `ReportsArrive`, `SilenceShows`, `WaitEnds`, `CallsReturn`,
`TxnCompletes`, `ReportMade`), which are out of TLAPS's reach.  Of `CallsReturn` the proof
gives that no call fails, not that it goes on.

## 6. What is not modelled, and the plan

Not modelled:

* combinational glitches between edges, clock-domain questions and
  X-propagation beyond the registers named above;
* the UVM environment of the register block: its monitor and shadow follow the
  pattern of the bridges' environment;
* the UVM memories: the bridge models let a slave do whatever they do and more;
* the bench of the simple bridge, and the scoreboard's handling of it;
* stimulus, directed tests, test benches and coverage collectors: sequential
  programs without state of their own between runs;
* of the Makefile, what is not `report`, `report_check`, `clean` or a recipe they run;
* of the scripts, `perf_report.py`, the tables and the HTML of `cov_report.py` and
  `gen_report.py` (formatting), and `uvm_mirror_check.py`, which compares two
  directory trees once and keeps nothing;
* containers, cloud deployment and CI: glue around external services.

What remains of the plan: `RegMonitor`, the forked observers and the shadow of
the register block's environment composed with `RegBlock`; which wrong bridges
the UVM scoreboard lets pass.
