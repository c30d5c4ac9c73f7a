------------------------- MODULE SwarmBoard_proofs -------------------------
(***************************************************************************)
(* Proofs about the swarm board, for any number of workers and branches    *)
(* and whatever the bounds on time and on the use of the script are.       *)
(***************************************************************************)
EXTENDS SwarmBoard, WellFoundedInduction, TLAPS

\* A set of naturals that is not empty has a least element.
LEMMA Least ==
    ASSUME NEW T, T \subseteq Nat, T # {}
    PROVE  \E x \in T : \A y \in T : x <= y
<1>1. PICK x \in T : \A y \in T : <<y, x>> \notin OpToRel(<, Nat)
  BY WFMin, NatLessThanWellFounded
<1>2. \A y \in T : ~(y < x)
  BY <1>1 DEF OpToRel
<1>. QED BY <1>2

\* The copy that remote_boards keeps exists, is unique and is the newest.
LEMMA KeepsNewest ==
    ASSUME NEW t \in [Worker -> Tree], NEW w \in Worker, NEW n \in Int,
           Carriers(t, w) # {},
           \A b \in Carriers(t, w) : t[b][w].updated <= n
    PROVE  \E b \in Carriers(t, w) :
              /\ remote_board(t, w) = t[b][w]
              /\ t[b][w] \in Report /\ keeps(t, w, b)
              /\ \A c \in Carriers(t, w) : t[c][w].updated <= t[b][w].updated
<1>. DEFINE C == Carriers(t, w)
            Age(b) == n - t[b][w].updated
            Ages == {Age(b) : b \in C}
<1>1. \A b \in C : /\ b \in Nat
                   /\ t[b][w] \in Report /\ t[b][w].updated \in Int
  BY SwarmAssumption DEF Carriers, Tree, Report, Worker
<1>2. Ages \subseteq Nat /\ Ages # {}
  BY <1>1
<1>3. PICK least \in Ages : \A a \in Ages : least <= a
  BY <1>2, Least
<1>. DEFINE Newest == {b \in C : Age(b) = least}
<1>4. Newest \subseteq Nat /\ Newest # {}
  BY <1>1
<1>5. PICK b \in Newest : \A c \in Newest : b <= c
  BY <1>4, Least
<1>6. b \in C /\ \A c \in C : t[c][w].updated <= t[b][w].updated
  <2>1. b \in C /\ Age(b) = least
    BY <1>5
  <2>. SUFFICES ASSUME NEW c \in C PROVE t[c][w].updated <= t[b][w].updated
    BY <2>1
  <2>2. Age(b) <= Age(c)
    BY <1>3, <2>1
  <2>. QED BY <1>1, <2>1, <2>2
<1>7. keeps(t, w, b)
  <2>. SUFFICES ASSUME NEW c \in C, ~(t[c][w].updated < t[b][w].updated)
                PROVE  t[c][w].updated = t[b][w].updated /\ b <= c
    BY DEF keeps
  <2>1. t[c][w].updated = t[b][w].updated
    BY <1>1, <1>6
  <2>. QED BY <2>1, <1>1, <1>5
<1>8. \A c \in C : keeps(t, w, c) => t[b][w].updated <= t[c][w].updated
  BY <1>1, <1>6 DEF keeps
<1>9. PICK k \in C : remote_board(t, w) = t[k][w] /\ keeps(t, w, k)
  BY <1>6, <1>7 DEF remote_board
<1>10. \A c \in C : t[c][w].updated <= t[k][w].updated
  BY <1>1, <1>9 DEF keeps
<1>. QED BY <1>1, <1>9, <1>10

LEMMA InitInv == Init => IInv
<1> SUFFICES ASSUME Init PROVE IInv
  OBVIOUS
<1>1. NoTree \in Tree /\ \A w \in Worker : NoTree[w] = NoFile
  BY DEF NoTree, Tree
<1>2. TypeOK
  BY <1>1 DEF Init, TypeOK, Tree
<1>3. LagInv
  BY <1>1 DEF Init, LagInv, NotOlder
<1>. QED BY <1>2, <1>3 DEF IInv

LEMMA NotOlderTrans ==
    ASSUME NEW d \in Report \cup {NoFile}, NEW c \in Report \cup {NoFile},
           NEW e \in Report \cup {NoFile}, NotOlder(d, c), NotOlder(c, e)
    PROVE  NotOlder(d, e)
BY SwarmAssumption DEF NotOlder, Report

\* What a branch carries is a report or nothing.
LEMMA CopyType ==
    ASSUME TypeOK, NEW b \in Worker, NEW w \in Worker
    PROVE  /\ head[b][w] \in Report \cup {NoFile}
           /\ origin[b][w] \in Report \cup {NoFile}
           /\ seen[b][w] \in Report \cup {NoFile}
BY DEF TypeOK, Tree

LEMMA NotOlderRefl ==
    ASSUME NEW d \in Report \cup {NoFile} PROVE NotOlder(d, d)
BY SwarmAssumption DEF NotOlder, Report

\* A command of worker w.
LEMMA CommandInv ==
    ASSUME IInv, NEW w \in Worker, NEW cmd \in Cmd, cmd_worker(w, cmd)
    PROVE  IInv'
<1>. DEFINE d == [state |-> new_state(w, cmd), updated |-> now + Skew[w]]
<1>0. now \in Nat /\ Skew[w] \in Int /\ now' = now /\ origin' = origin /\ seen' = seen
  BY SwarmAssumption DEF IInv, TypeOK, cmd_worker
<1>1. d \in Report
  <2>1. load(w) \in State
    BY DEF load, IInv, TypeOK, cmd_worker, May, Report, State
  <2>. QED BY <1>0, <2>1 DEF new_state, Cmd, State, Report
<1>2. board' \in [Worker -> Report \cup {NoFile, Torn}]
  BY <1>1 DEF cmd_worker, stamp, IInv, TypeOK
<1>3. head' \in {head, [head EXCEPT ![w][w] = d]}
  BY DEF cmd_worker, stamp
<1>4. head' \in [Worker -> Tree]
  <2>1. head \in [Worker -> Tree]
    BY DEF IInv, TypeOK
  <2>2. [head[w] EXCEPT ![w] = d] \in Tree
    BY <1>1, <2>1 DEF Tree
  <2>3. [head EXCEPT ![w][w] = d] = [head EXCEPT ![w] = [head[w] EXCEPT ![w] = d]]
    BY <2>1
  <2>. QED BY <1>3, <2>1, <2>2, <2>3
<1>5. runs' \in [Worker -> Nat]
  BY DEF cmd_worker, May, IInv, TypeOK
<1>6. TypeOK'
  BY <1>0, <1>2, <1>4, <1>5 DEF IInv, TypeOK
<1>7. \A b, v \in Worker : \/ head'[b][v] = head[b][v]
                           \/ b = w /\ v = w /\ head'[b][v] = d
  BY <1>3 DEF IInv, TypeOK, Tree
<1>8. \A b, v \in Worker : NotOlder(head[b][v], head'[b][v])
  <2>1. NotOlder(head[w][w], d)
    BY <1>0, <1>1, SwarmAssumption, CopyType DEF IInv, LagInv, NotOlder, Report
  <2>. QED BY <1>7, <2>1, NotOlderRefl, CopyType DEF IInv
<1>9. LagInv'
  <2>. SUFFICES ASSUME NEW b \in Worker, NEW v \in Worker
                PROVE  /\ NotOlder(seen[b][v], origin[b][v])
                       /\ NotOlder(origin[b][v], head'[b][v])
                       /\ NotOlder(head'[b][v], IF b = v THEN head'[v][v] ELSE origin[v][v])
                       /\ head'[b][v] # NoFile => head'[b][v].updated <= now + Skew[v]
    BY <1>0 DEF LagInv
  <2>1. NotOlder(seen[b][v], origin[b][v])
    BY DEF IInv, LagInv
  <2>2. NotOlder(origin[b][v], head'[b][v])
    <3>1. NotOlder(origin[b][v], head[b][v]) /\ NotOlder(head[b][v], head'[b][v])
      BY <1>8 DEF IInv, LagInv
    <3>2. head'[b][v] \in Report \cup {NoFile}
      BY <1>4 DEF Tree
    <3>. QED BY <3>1, <3>2, NotOlderTrans, CopyType DEF IInv
  <2>3. NotOlder(head'[b][v], IF b = v THEN head'[v][v] ELSE origin[v][v])
    BY <1>4, <1>7, NotOlderRefl DEF IInv, LagInv, Tree
  <2>4. head'[b][v] # NoFile => head'[b][v].updated <= now + Skew[v]
    BY <1>0, <1>7 DEF IInv, LagInv
  <2>. QED BY <2>1, <2>2, <2>3, <2>4
<1>. QED BY <1>6, <1>9 DEF IInv

\* The lag chain of one file: fetched, pushed, committed, and the original.
LEMMA Chain ==
    ASSUME IInv, NEW b \in Worker, NEW v \in Worker
    PROVE  /\ NotOlder(seen[b][v], origin[b][v])
           /\ NotOlder(origin[b][v], head[b][v])
           /\ NotOlder(seen[b][v], head[b][v])
           /\ b # v => /\ NotOlder(head[b][v], origin[v][v])
                       /\ NotOlder(origin[b][v], origin[v][v])
           /\ head[b][v] # NoFile => head[b][v].updated <= now + Skew[v]
           /\ origin[b][v] # NoFile => origin[b][v].updated <= now + Skew[v]
           /\ seen[b][v] # NoFile => seen[b][v].updated <= now + Skew[v]
<1>1. /\ NotOlder(seen[b][v], origin[b][v]) /\ NotOlder(origin[b][v], head[b][v])
      /\ b # v => NotOlder(head[b][v], origin[v][v])
      /\ head[b][v] # NoFile => head[b][v].updated <= now + Skew[v]
  BY DEF IInv, LagInv
<1>2. /\ NotOlder(seen[b][v], head[b][v])
      /\ b # v => NotOlder(origin[b][v], origin[v][v])
  BY <1>1, NotOlderTrans, CopyType DEF IInv
<1>3. /\ origin[b][v] # NoFile => origin[b][v].updated <= now + Skew[v]
      /\ seen[b][v] # NoFile => seen[b][v].updated <= now + Skew[v]
  <2>1. now \in Int /\ Skew[v] \in Int
    BY SwarmAssumption DEF IInv, TypeOK
  <2>. QED BY <1>1, <1>2, <2>1, CopyType DEF IInv, NotOlder, Report
<1>. QED BY <1>1, <1>2, <1>3

LEMMA PushInv ==
    ASSUME IInv, NEW w \in Worker, Push(w)
    PROVE  IInv'
<1>1. /\ now' = now /\ runs' = runs /\ board' = board /\ head' = head /\ seen' = seen
      /\ origin' = [origin EXCEPT ![w] = head[w]]
  BY DEF Push
<1>2. TypeOK'
  BY <1>1 DEF IInv, TypeOK
<1>3. \A b, v \in Worker : origin'[b][v] = IF b = w THEN head[b][v] ELSE origin[b][v]
  BY <1>1 DEF IInv, TypeOK
<1>4. \A b, v \in Worker : /\ NotOlder(origin[b][v], origin'[b][v])
                           /\ NotOlder(seen[b][v], origin'[b][v])
                           /\ NotOlder(origin'[b][v], head[b][v])
  BY <1>3, Chain, NotOlderRefl, CopyType DEF IInv
<1>5. \A b, v \in Worker : NotOlder(head[b][v], IF b = v THEN head[v][v] ELSE origin'[v][v])
  <2>. SUFFICES ASSUME NEW b \in Worker, NEW v \in Worker
                PROVE  NotOlder(head[b][v], IF b = v THEN head[v][v] ELSE origin'[v][v])
    OBVIOUS
  <2>1. CASE b = v
    BY <2>1, NotOlderRefl, CopyType DEF IInv
  <2>2. CASE b # v
    <3>1. NotOlder(head[b][v], origin[v][v]) /\ NotOlder(origin[v][v], origin'[v][v])
      BY <1>4, <2>2, Chain
    <3>2. origin'[v][v] \in Report \cup {NoFile}
      BY <1>3, CopyType DEF IInv
    <3>. QED BY <2>2, <3>1, <3>2, NotOlderTrans, CopyType DEF IInv
  <2>. QED BY <2>1, <2>2
<1>. QED BY <1>1, <1>2, <1>4, <1>5 DEF IInv, LagInv

LEMMA RestartInv ==
    ASSUME IInv, NEW w \in Worker, Restart(w)
    PROVE  IInv'
<1>1. /\ now' = now /\ runs' = runs /\ origin' = origin /\ seen' = seen
      /\ board' = [board EXCEPT ![w] = origin[w][w]]
      /\ head' = [head EXCEPT ![w] = origin[w]]
  BY DEF Restart
<1>2. TypeOK'
  BY <1>1, CopyType DEF IInv, TypeOK
<1>3. \A b, v \in Worker : head'[b][v] = IF b = w THEN origin[b][v] ELSE head[b][v]
  BY <1>1 DEF IInv, TypeOK
<1>4. \A b, v \in Worker : /\ NotOlder(origin[b][v], head'[b][v])
                           /\ NotOlder(head'[b][v], IF b = v THEN head'[v][v] ELSE origin[v][v])
                           /\ head'[b][v] # NoFile => head'[b][v].updated <= now + Skew[v]
  BY <1>3, Chain, NotOlderRefl, CopyType DEF IInv
<1>. QED BY <1>1, <1>2, <1>4, Chain DEF IInv, LagInv

LEMMA MergeInv ==
    ASSUME IInv, NEW w \in Worker, NEW u \in Worker, Merge(w, u)
    PROVE  IInv'
<1>1. /\ now' = now /\ runs' = runs /\ board' = board /\ origin' = origin /\ seen' = seen
      /\ w # u /\ head' = [head EXCEPT ![w][u] = origin[u][u]]
  BY DEF Merge
<1>2. head' \in [Worker -> Tree]
  <2>1. head \in [Worker -> Tree]
    BY DEF IInv, TypeOK
  <2>2. [head[w] EXCEPT ![u] = origin[u][u]] \in Tree
    BY <2>1, CopyType DEF IInv, Tree
  <2>3. head' = [head EXCEPT ![w] = [head[w] EXCEPT ![u] = origin[u][u]]]
    BY <1>1, <2>1
  <2>. QED BY <2>1, <2>2, <2>3
<1>3. TypeOK'
  BY <1>1, <1>2 DEF IInv, TypeOK
<1>4. \A b, v \in Worker :
        head'[b][v] = IF b = w /\ v = u THEN origin[v][v] ELSE head[b][v]
  BY <1>1 DEF IInv, TypeOK, Tree
<1>5. \A b, v \in Worker : /\ NotOlder(origin[b][v], head'[b][v])
                           /\ NotOlder(head'[b][v], IF b = v THEN head'[v][v] ELSE origin[v][v])
                           /\ head'[b][v] # NoFile => head'[b][v].updated <= now + Skew[v]
  BY <1>1, <1>4, Chain, NotOlderRefl, CopyType DEF IInv
<1>. QED BY <1>1, <1>3, <1>5, Chain DEF IInv, LagInv

\* A fetch, whether it succeeds or not.
LEMMA FetchInv ==
    ASSUME IInv, fetch, UNCHANGED <<now, runs, board, head, origin>>
    PROVE  IInv'
<1>1. TypeOK'
  BY DEF IInv, TypeOK, fetch
<1>2. \A b, v \in Worker : NotOlder(seen'[b][v], origin[b][v])
  BY Chain, NotOlderRefl, CopyType DEF fetch, IInv
<1>. QED BY <1>1, <1>2 DEF IInv, LagInv

\* A step that leaves every branch alone.
LEMMA OtherInv ==
    ASSUME IInv, UNCHANGED git, now' \in Nat, now <= now',
           runs' \in [Worker -> Nat], board' \in [Worker -> Report \cup {NoFile, Torn}]
    PROVE  IInv'
<1>1. TypeOK'
  BY DEF IInv, TypeOK, git
<1>2. \A b, v \in Worker : head[b][v] # NoFile => head[b][v].updated <= now' + Skew[v]
  <2>1. now \in Int /\ \A v \in Worker : Skew[v] \in Int
    BY SwarmAssumption DEF IInv, TypeOK
  <2>. QED BY <2>1, Chain, CopyType DEF IInv, Report
<1>. QED BY <1>1, <1>2 DEF IInv, LagInv, git

LEMMA NextInv == IInv /\ [Next]_vars => IInv'
<1>. SUFFICES ASSUME IInv, [Next]_vars PROVE IInv'
  OBVIOUS
<1>. USE DEF IInv, TypeOK
<1>1. ASSUME NEW w \in Worker, NEW cmd \in Cmd, cmd_worker(w, cmd) PROVE IInv'
  BY <1>1, CommandInv
<1>2. ASSUME NEW w \in Worker, Tear(w) PROVE IInv'
  <2>1. /\ UNCHANGED <<now, git>> /\ runs' \in [Worker -> Nat]
        /\ board' \in [Worker -> Report \cup {NoFile, Torn}]
    BY <1>2 DEF Tear, May
  <2>. QED BY <2>1, OtherInv
<1>3. ASSUME NEW w \in Worker, Push(w) \/ Restart(w) PROVE IInv'
  BY <1>3, PushInv, RestartInv
<1>4. ASSUME NEW w \in Worker, NEW v \in Worker, Merge(w, v) PROVE IInv'
  BY <1>4, MergeInv
<1>5. CASE cmd_show \/ WaitPoll \/ WaitShow
  BY <1>5, FetchInv DEF cmd_show, WaitPoll, WaitShow, Waiting
<1>6. CASE Dump \/ \E w \in Worker : cmd_assign(w) \/ cmd_retire(w)
  BY <1>6, OtherInv DEF Dump, cmd_assign, cmd_retire, Rewrite
<1>7. CASE WaitStart \/ WaitWake \/ WaitTimeout
  BY <1>7, OtherInv DEF WaitStart, WaitWake, WaitTimeout, Waiting, git
<1>8. CASE Tick
  BY <1>8, OtherInv DEF Tick
<1>9. CASE UNCHANGED vars
  BY <1>9, OtherInv DEF vars
<1>. QED BY <1>1, <1>2, <1>3, <1>4, <1>5, <1>6, <1>7, <1>8, <1>9
         DEF Next, WorkerNext, ManagerNext, WaitNext

\* Every copy of a report lags behind the original: fetched, pushed,
\* committed, merged or restored, and no stamp is ahead of its worker's clock
\* (board.py:72-86, 123-140, and the git commands of the workers).
THEOREM CopiesLag == Spec => []IInv
BY InitInv, NextInv, PTL DEF Spec

----------------------------------------------------------------------------

\* If no copy of a file is replaced by an older one, what the board shows of
\* the worker is not either, whichever branch it is taken from.
LEMMA ShownMonotone ==
    ASSUME NEW s \in [Worker -> Tree], NEW t \in [Worker -> Tree],
           NEW w \in Worker, NEW n \in Int,
           \A b \in Worker : /\ s[b][w] # NoFile => s[b][w].updated <= n
                             /\ t[b][w] # NoFile => t[b][w].updated <= n
                             /\ NotOlder(s[b][w], t[b][w])
    PROVE  NotOlder(remote_board(s, w), remote_board(t, w))
<1>1. CASE Carriers(s, w) = {}
  BY <1>1 DEF remote_board, NotOlder
<1>2. CASE Carriers(s, w) # {}
  <2>1. PICK b \in Carriers(s, w) : /\ remote_board(s, w) = s[b][w]
                                    /\ s[b][w] \in Report
    BY <1>2, KeepsNewest DEF Carriers
  <2>2. b \in Carriers(t, w) /\ s[b][w].updated <= t[b][w].updated
    BY <2>1 DEF Carriers, NotOlder
  <2>3. PICK c \in Carriers(t, w) :
            /\ remote_board(t, w) = t[c][w] /\ t[c][w] \in Report
            /\ \A e \in Carriers(t, w) : t[e][w].updated <= t[c][w].updated
    BY <2>2, KeepsNewest DEF Carriers
  <2>4. t[b][w] \in Report
    BY <2>2 DEF Carriers, Tree
  <2>5. s[b][w].updated <= t[c][w].updated
    BY <2>1, <2>2, <2>3, <2>4 DEF Report
  <2>. QED BY <2>1, <2>3, <2>5, SwarmAssumption DEF NotOlder
<1>. QED BY <1>1, <1>2

LEMMA SeenMonotone ==
    ASSUME IInv, [Next]_vars, NEW b \in Worker, NEW w \in Worker
    PROVE  seen' \in {seen, origin} /\ NotOlder(seen[b][w], seen'[b][w])
<1>1. seen' \in {seen, origin}
  BY DEF Next, WorkerNext, ManagerNext, WaitNext, cmd_worker, Tear, Push, Restart,
         Merge, cmd_show, Dump, cmd_assign, cmd_retire, Rewrite, WaitStart, WaitPoll,
         WaitWake, WaitTimeout, WaitShow, Waiting, Tick, fetch, vars, git
<1>. QED BY <1>1, Chain, NotOlderRefl, CopyType DEF IInv

\* What the manager sees of a worker never goes back (board.py:4-6, 137-139).
THEOREM ReportsNeverGoBack == Spec => NeverBack
<1>1. ASSUME IInv, [Next]_vars, NEW w \in Worker
      PROVE  NotOlder(shown(w), shown(w)')
  <2>1. /\ seen \in [Worker -> Tree] /\ seen' \in [Worker -> Tree]
        /\ now + Skew[w] \in Int
    BY <1>1, NextInv, SwarmAssumption DEF IInv, TypeOK
  <2>2. \A b \in Worker : /\ seen[b][w] # NoFile => seen[b][w].updated <= now + Skew[w]
                          /\ seen'[b][w] # NoFile => seen'[b][w].updated <= now + Skew[w]
                          /\ NotOlder(seen[b][w], seen'[b][w])
    BY <1>1, SeenMonotone, Chain
  <2>. QED BY <2>1, <2>2, ShownMonotone DEF shown
<1>2. IInv /\ [Next]_vars => [\A w \in Worker : NotOlder(shown(w), shown(w)')]_seen
  BY <1>1
<1>. QED BY <1>2, CopiesLag, PTL DEF Spec, NeverBack

----------------------------------------------------------------------------

WaitType == wait \in [pc : {"off", "poll", "sleep", "show", "shown", "raised"},
                      why : {"open", "torn", "settled", "timed_out"}, end : Nat, wake : Nat]

LEMMA WaitTyped == Spec => []WaitType
<1>1. Init => WaitType
  BY DEF Init, Loop, WaitType
<1>2. ASSUME IInv, WaitType, [Next]_vars PROVE WaitType'
  <2>1. CASE WaitStart
    BY <1>2, <2>1, SwarmAssumption DEF WaitStart, Loop, Waiting, WaitType, IInv, TypeOK
  <2>2. CASE WaitPoll
    BY <1>2, <2>2, SwarmAssumption DEF WaitPoll, Over, Loop, Waiting, WaitType, IInv, TypeOK
  <2>3. CASE WaitWake \/ WaitTimeout \/ WaitShow
    BY <1>2, <2>3 DEF WaitWake, WaitTimeout, WaitShow, Over, Loop, Waiting, WaitType
  <2>4. CASE wait' = wait
    BY <1>2, <2>4 DEF WaitType
  <2>. QED BY <1>2, <2>1, <2>2, <2>3, <2>4
           DEF Next, WorkerNext, ManagerNext, WaitNext, cmd_worker, Tear, Push, Restart,
               Merge, cmd_show, Dump, cmd_assign, cmd_retire, Rewrite, Tick, vars
<1>. QED BY <1>1, <1>2, CopiesLag, PTL DEF Spec

\* Only a poll that finds every row settled ends the wait as settled.
LEMMA SettledByPoll ==
    ASSUME WaitType, [Next]_vars, wait'.why = "settled", wait.why = "open"
    PROVE  settled(seen')
<1>1. CASE WaitPoll
  BY <1>1 DEF WaitPoll, Over, Loop, WaitType
<1>2. CASE WaitStart \/ WaitWake \/ WaitTimeout \/ WaitShow
  BY <1>2 DEF WaitStart, Loop, WaitWake, WaitTimeout, WaitShow, Over, WaitType
<1>3. CASE wait' = wait
  BY <1>3
<1>. QED BY <1>1, <1>2, <1>3
         DEF Next, WorkerNext, ManagerNext, WaitNext, cmd_worker, Tear, Push, Restart,
             Merge, cmd_show, Dump, cmd_assign, cmd_retire, Rewrite, Tick, vars

\* On the pushed branches the row of a worker is its own file, or a different
\* one of the same stamp on a branch listed before its own.
LEMMA OwnRow ==
    ASSUME IInv, NEW w \in Worker, remote_board(origin, w) # NoFile
    PROVE  /\ origin[w][w] \in Report
           /\ remote_board(origin, w) = origin[w][w] \/ Tied(w)
<1>1. Carriers(origin, w) # {}
  BY DEF remote_board
<1>2. \A b \in Carriers(origin, w) : origin[b][w].updated <= now + Skew[w]
  BY Chain DEF Carriers
<1>3. now + Skew[w] \in Int
  BY SwarmAssumption DEF IInv, TypeOK
<1>4. PICK b \in Carriers(origin, w) :
          /\ remote_board(origin, w) = origin[b][w] /\ origin[b][w] \in Report
          /\ keeps(origin, w, b)
          /\ \A c \in Carriers(origin, w) : origin[c][w].updated <= origin[b][w].updated
  BY <1>1, <1>2, <1>3, KeepsNewest DEF IInv, TypeOK
<1>5. CASE b = w
  BY <1>4, <1>5
<1>6. CASE b # w
  <2>1. NotOlder(origin[b][w], origin[w][w])
    BY <1>4, <1>6, Chain DEF Carriers
  <2>2. /\ origin[w][w] \in Report /\ w \in Carriers(origin, w)
        /\ origin[b][w].updated <= origin[w][w].updated
    BY <1>4, <2>1, CopyType, SwarmAssumption DEF Carriers, NotOlder, IInv
  <2>3. origin[b][w].updated = origin[w][w].updated
    BY <1>4, <2>2 DEF Report
  <2>4. b \in 1 .. w - 1
    <3>1. b <= w
      BY <1>4, <2>2, <2>3 DEF keeps, Report
    <3>. QED BY <1>6, <3>1, SwarmAssumption DEF Carriers, Worker
  <2>. QED BY <1>4, <2>2, <2>3, <2>4, SwarmAssumption DEF Carriers, Tied
<1>. QED BY <1>5, <1>6

\* A wait that ends before its time, after a fetch that succeeded, saw every
\* assigned worker done, blocked or silent (board.py:19, 203-211).
THEOREM WaitSeesEveryWorker == Spec => WaitSound
<1>1. ASSUME IInv, WaitType, [Next]_vars, wait'.why = "settled", wait.why = "open",
             seen' = origin, NEW w \in Worker, tasks[w] # "none"
      PROVE  /\ origin[w][w] # NoFile
             /\ \/ origin[w][w].state \in {"done", "blocked"}
                \/ now - origin[w][w].updated > StaleMin
                \/ Tied(w)
  <2>1. settled(origin)
    BY <1>1, SettledByPoll
  <2>2. row_state(origin, w) \in {"done", "blocked", "STALE"}
    BY <1>1, <2>1 DEF settled, rows
  <2>3. remote_board(origin, w) # NoFile
    BY <2>2 DEF row_state
  <2>4. origin[w][w] # NoFile
    BY <1>1, <2>3, OwnRow, SwarmAssumption
  <2>5. CASE remote_board(origin, w) = origin[w][w]
    BY <1>1, <2>2, <2>3, <2>5, OwnRow DEF row_state, stale, Report, State
  <2>. QED BY <1>1, <2>3, <2>4, <2>5, OwnRow
<1>. DEFINE Body ==
       wait'.why = "settled" /\ wait.why = "open" /\ seen' = origin =>
         \A w \in Worker :
            tasks[w] # "none" =>
              /\ origin[w][w] # NoFile
              /\ \/ origin[w][w].state \in {"done", "blocked"}
                 \/ now - origin[w][w].updated > StaleMin
                 \/ Tied(w)
<1>2. IInv /\ WaitType /\ [Next]_vars => Body
  BY <1>1
<1>3. Spec => [][Body]_vars
  <2>. HIDE DEF Body
  <2>. QED BY <1>2, CopiesLag, WaitTyped, PTL DEF Spec
<1>. QED BY <1>3 DEF WaitSound
=============================================================================
