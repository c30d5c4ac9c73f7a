----------------------------- MODULE SwarmBoard -----------------------------
(***************************************************************************)
(* The status board of tools/swarm/board.py.  Each worker keeps one file   *)
(* on its own branch, swarm/<worker>, and talks to the manager through git *)
(* only; the manager fetches every branch and shows, for each worker, the  *)
(* newest copy of its file that any branch carries.  Workers are numbered  *)
(* in the order of their branch names.  Of a report the state and the      *)
(* "updated" stamp are kept; step, task, message and results are display.  *)
(* A stamp is of the worker's own clock, an age of the manager's; what is  *)
(* assumed is that one worker's sandboxes keep one clock.                  *)
(* A name in _bug is a plausible mistake in the definition below it.       *)
(***************************************************************************)
EXTENDS Integers

CONSTANTS
    NWorkers,
    Skew,           \* how far each worker's clock is ahead of the manager's
    StaleMin, TimeoutMin, Every,    \* options of show and wait, in clock ticks
    LastReport, LastWait, MaxTime,  \* bounds: of the stamp of a report, of the
                                    \* wait's start, and of the clock
    MaxReports, Usage,  \* bounds: how often each worker runs the script, and
                        \* the commands it uses
    Assignees,      \* bound: the workers the manager assigns
    Merges,         \* bound: pairs of a branch and one it may merge
    NoFile, Torn                    \* no such file; a file cut short by a crash

Worker == 1 .. NWorkers
Cmd    == {"start", "update", "result", "done", "fail"}
State  == {"running", "blocked", "done"}
Report == [state : State, updated : Int]
Tree   == [Worker -> Report \cup {NoFile}]

ASSUME SwarmAssumption ==
    /\ NWorkers \in Nat /\ Skew \in [Worker -> Int]
    /\ StaleMin \in Nat /\ TimeoutMin \in Nat /\ Every \in Nat
    /\ LastReport \in Int /\ LastWait \in Nat /\ MaxTime \in Nat
    /\ MaxReports \in [Worker -> Nat] /\ Usage \in [Worker -> SUBSET Cmd]
    /\ Assignees \subseteq Worker /\ Merges \subseteq Worker \X Worker
    /\ NoFile \notin Report /\ Torn \notin Report \cup {NoFile}

VARIABLES
    now,        \* the manager's clock, in the resolution of a stamp
    runs,       \* how often each worker has run the script
    board,      \* the file in each worker's sandbox
    head,       \* the tree committed on each worker's branch, in its sandbox
    origin,     \* the branches as pushed
    seen,       \* the manager's copy of the branches, as last fetched
    tasks,      \* tasks.json: per worker "none", "assigned" or "retired"
    writing,    \* what a manager's command is about to dump into tasks.json
    wait        \* the manager's wait command: pc, why, end and wake

git     == <<head, origin, seen>>
manager == <<tasks, writing>>
vars    == <<now, runs, board, git, manager, wait>>

----------------------------------------------------------------------------
(* Workers.                                                                *)

\* A worker without a file starts from a "running" one.
load(w) == IF board[w] = NoFile THEN "running" ELSE board[w].state

new_state(w, cmd) == CASE cmd \in {"start", "update"} -> "running"
                       [] cmd = "result" -> load(w)
                       [] cmd = "done" -> "done"
                       [] cmd = "fail" -> "blocked"

\* The stamp is in local time, ahead of UTC.
stamp_bug(w) == now + Skew[w] + 1
stamp(w) == now + Skew[w]

\* json.load of a torn file raises, so the command writes nothing.
May(w) == /\ stamp(w) <= LastReport /\ runs[w] < MaxReports[w]
          /\ board[w] # Torn
          /\ runs' = [runs EXCEPT ![w] = @ + 1]

\* The file is rewritten in place and committed; a commit that fails is not
\* noticed, and leaves the file to the next one.
cmd_worker(w, cmd) ==
    /\ May(w) /\ cmd \in Usage[w]
    /\ LET d == [state |-> new_state(w, cmd), updated |-> stamp(w)]
       IN  /\ board' = [board EXCEPT ![w] = d]
           /\ head' \in {head, [head EXCEPT ![w][w] = d]}
    /\ UNCHANGED <<now, origin, seen, manager, wait>>

\* The worker dies between the truncation of its file and the end of the dump.
Tear(w) == /\ May(w)
           /\ board' = [board EXCEPT ![w] = Torn]
           /\ UNCHANGED <<now, git, manager, wait>>

(* What the workers do with git around the script.                         *)

Push(w) == /\ origin' = [origin EXCEPT ![w] = head[w]]
           /\ UNCHANGED <<now, runs, board, head, seen, manager, wait>>

\* The sandbox is lost; a new one clones the worker's branch.
Restart(w) == /\ board' = [board EXCEPT ![w] = origin[w][w]]
              /\ head' = [head EXCEPT ![w] = origin[w]]
              /\ UNCHANGED <<now, runs, origin, seen, manager, wait>>

\* A worker merges another's branch, and with it a copy of its file.
Merge(w, v) == /\ <<w, v>> \in Merges /\ w # v /\ origin[v][v] # NoFile
               /\ head' = [head EXCEPT ![w][v] = origin[v][v]]
               /\ UNCHANGED <<now, runs, board, origin, seen, manager, wait>>

----------------------------------------------------------------------------
(* The manager's view.                                                     *)

Carriers(t, w) == {b \in Worker : t[b][w] # NoFile}

\* The branch whose copy remote_boards keeps: the newest, and of equally new
\* ones the first in the order of the branch names.  In the mistake it is the
\* first that has one.
keeps_bug(t, w, b) == \A c \in Carriers(t, w) : b <= c
keeps(t, w, b) ==
    \A c \in Carriers(t, w) :
        \/ t[c][w].updated < t[b][w].updated
        \/ t[c][w].updated = t[b][w].updated /\ b <= c

remote_board(t, w) ==
    IF Carriers(t, w) = {} THEN NoFile
    ELSE t[CHOOSE b \in Carriers(t, w) : keeps(t, w, b)][w]

\* A running worker is never doubted.
stale_bug(d) == FALSE
stale(d) == d.state = "running" /\ now - d.updated > StaleMin

row_state(t, w) == LET d == remote_board(t, w)
                   IN  IF d = NoFile THEN "NO_REPORT"
                       ELSE IF stale(d) THEN "STALE" ELSE d.state

\* Workers that have reported or have been assigned; in the mistake an
\* assigned worker has no row until it reports.
rows_bug(t) == {w \in Worker : remote_board(t, w) # NoFile}
rows(t) == {w \in Worker : remote_board(t, w) # NoFile \/ tasks[w] # "none"}

\* git fetch, whose failure is not noticed.
fetch == seen' \in {seen, origin}

\* The fetch comes first, so that a torn tasks.json ends the command after it.
cmd_show == /\ fetch
            /\ UNCHANGED <<now, runs, board, head, origin, manager, wait>>

(* assign and retire rewrite tasks.json: open(.., "w") empties it, the dump *)
(* fills it.  retire raises before that if the worker was never assigned.   *)

Rewrite(w, s) == /\ tasks # Torn /\ writing = NoFile
                 /\ writing' = [tasks EXCEPT ![w] = s]
                 /\ tasks' = Torn
                 /\ UNCHANGED <<now, runs, board, git, wait>>

cmd_assign(w) == w \in Assignees /\ Rewrite(w, "assigned")
cmd_retire(w) == tasks # Torn /\ tasks[w] # "none" /\ Rewrite(w, "retired")

Dump == /\ writing # NoFile
        /\ tasks' = writing /\ writing' = NoFile
        /\ UNCHANGED <<now, runs, board, git, wait>>

----------------------------------------------------------------------------
(* wait: poll until every row is settled or the time is up, then show.     *)

settled(t) == /\ rows(t) # {}
              /\ \A w \in rows(t) : row_state(t, w) \in {"done", "blocked", "STALE"}

\* The options cmd_show reads, and those cmd_wait passes to it.
show_reads == {"stale_min", "active", "brief", "json"}
wait_args == {"stale_min", "json"}

Waiting(pcs) == wait.pc \in pcs /\ UNCHANGED <<now, runs, board, head, origin, manager>>

\* In the loop: until end, and asleep until wake.
Loop(pc, end, wake) == [pc |-> pc, why |-> "open", end |-> end, wake |-> wake]

\* The loop is left, and its variables are gone.
Over(pc, why) == [pc |-> pc, why |-> why, end |-> 0, wake |-> 0]

WaitStart == /\ Waiting({"off"}) /\ now <= LastWait
             /\ wait' = Loop("poll", now + TimeoutMin, 0)
             /\ UNCHANGED seen

\* A tasks.json that is being rewritten makes table raise.
WaitPoll ==
    /\ Waiting({"poll"}) /\ now < wait.end /\ fetch
    /\ \/ /\ tasks = Torn
          /\ wait' = Over("raised", "torn")
       \/ /\ tasks # Torn /\ settled(seen')
          /\ wait' = Over("show", "settled")
       \/ /\ tasks # Torn /\ ~settled(seen')
          /\ wait' = Loop("sleep", wait.end, now + Every)

\* The time limit starts anew with every pass.
WaitWake_bug ==
    /\ Waiting({"sleep"}) /\ now >= wait.wake
    /\ wait' = Loop("poll", now + TimeoutMin, 0)
    /\ UNCHANGED seen

WaitWake == /\ Waiting({"sleep"}) /\ now >= wait.wake
            /\ wait' = Loop("poll", wait.end, 0)
            /\ UNCHANGED seen

WaitTimeout == /\ Waiting({"poll"}) /\ now >= wait.end
               /\ wait' = Over("show", "timed_out")
               /\ UNCHANGED seen

WaitShow == /\ Waiting({"show"}) /\ fetch
            /\ wait' = Over(IF tasks # Torn /\ show_reads \subseteq wait_args
                             THEN "shown" ELSE "raised", wait.why)

Tick == /\ now < MaxTime
        /\ now' = now + 1
        /\ UNCHANGED <<runs, board, git, manager, wait>>

----------------------------------------------------------------------------
NoTree == [w \in Worker |-> NoFile]

Init ==
    /\ now = 0 /\ runs = [w \in Worker |-> 0]
    /\ board = NoTree
    /\ head = [b \in Worker |-> NoTree]
    /\ origin = [b \in Worker |-> NoTree]
    /\ seen = [b \in Worker |-> NoTree]
    /\ tasks = [w \in Worker |-> "none"] /\ writing = NoFile
    /\ wait = Loop("off", 0, 0)

WorkerNext == \E w \in Worker : \/ \E cmd \in Cmd : cmd_worker(w, cmd)
                                \/ Tear(w) \/ Push(w) \/ Restart(w)
                                \/ \E v \in Worker : Merge(w, v)

WaitNext == WaitStart \/ WaitPoll \/ WaitWake \/ WaitTimeout \/ WaitShow

ManagerNext == \/ cmd_show \/ Dump \/ WaitNext
               \/ \E w \in Worker : cmd_assign(w) \/ cmd_retire(w)

Next == WorkerNext \/ ManagerNext \/ Tick

Spec == Init /\ [][Next]_vars

(* Fairness: time passes, the manager's commands run to their end, and the *)
(* manager looks at the board again and again, with a fetch that succeeds. *)
FairSpec == /\ Spec
            /\ WF_vars(Tick) /\ WF_vars(Dump)
            /\ WF_vars(WaitPoll \/ WaitWake \/ WaitTimeout \/ WaitShow)
            /\ SF_vars(cmd_show /\ seen' = origin)

----------------------------------------------------------------------------
(* Properties.                                                             *)

shown(w) == remote_board(seen, w)

\* c is no older than d, by their stamps: the board compares no more, and two
\* reports of one second are equally new to it.
NotOlder(d, c) == d # NoFile => c # NoFile /\ c # Torn /\ d.updated <= c.updated

\* Every file and every copy of one is absent, torn or a report; only a
\* working file is ever torn.
TypeOK ==
    /\ now \in Nat /\ runs \in [Worker -> Nat]
    /\ board \in [Worker -> Report \cup {NoFile, Torn}]
    /\ head \in [Worker -> Tree] /\ origin \in [Worker -> Tree] /\ seen \in [Worker -> Tree]

\* Copies of a report lag behind it: what the manager fetched is no newer
\* than the pushed branch, a merged copy no newer than the pushed original,
\* the pushed original no newer than the commit, and no stamp is ahead of the
\* clock of its worker.
LagInv ==
    \A b, w \in Worker :
        /\ NotOlder(seen[b][w], origin[b][w])
        /\ NotOlder(origin[b][w], head[b][w])
        /\ NotOlder(head[b][w], IF b = w THEN head[w][w] ELSE origin[w][w])
        /\ head[b][w] # NoFile => head[b][w].updated <= now + Skew[w]

IInv == TypeOK /\ LagInv

\* A branch listed before the worker's own carries a different report of it
\* that is stamped with the same second.
Tied(w) == \E b \in 1 .. w - 1 : /\ origin[b][w] \notin {NoFile, origin[w][w]}
                                 /\ origin[b][w].updated = origin[w][w].updated

\* Whatever is torn, lost, restarted or merged, and whether or not a fetch
\* succeeds, what the manager sees of a worker never goes back to a report of
\* an older stamp, nor to none (board.py:4-6, 137-139).
NeverBack == [][\A w \in Worker : NotOlder(shown(w), shown(w)')]_seen

\* When the workers fall silent, the manager ends up with the last report
\* that each has pushed, and no older copy on another branch, failed fetch or
\* restart hides it for good - but for an earlier report of the same second:
\* the strict comparison of board.py:138 keeps the copy of the branch listed
\* first, and nothing replaces it any more.
ReportsArrive == <>[](\A w \in Worker : shown(w) = origin[w][w] \/ Tied(w))

\* A worker that reports no more is not shown as running for ever, however
\* far its clock is ahead (board.py:21-22).
SilenceShows == <>[](\A w \in Worker : row_state(seen, w) # "running")

\* A wait that ends before its time saw a report of every assigned worker,
\* and after a fetch that succeeded each of them, by its own branch, is done,
\* blocked or silent for longer than StaleMin, its stamp held against the
\* manager's clock (board.py:19) - unless a report of the same second hides
\* its own.
WaitSound ==
    [][wait'.why = "settled" /\ wait.why = "open" /\ seen' = origin =>
         \A w \in Worker :
            tasks[w] # "none" =>
              /\ origin[w][w] # NoFile
              /\ \/ origin[w][w].state \in {"done", "blocked"}
                 \/ now - origin[w][w].updated > StaleMin
                 \/ Tied(w)]_vars

\* A wait ends: with the workers, with its time limit, or with an exception.
WaitEnds == wait.pc \in {"poll", "sleep", "show"} ~> wait.pc \in {"shown", "raised"}

\* A wait that saw every worker settled shows the table (board.py:19).
WaitReports == wait.why = "settled" => wait.pc \in {"show", "shown"}
=============================================================================
