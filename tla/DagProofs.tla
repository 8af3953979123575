----------------------------- MODULE DagProofs -----------------------------
(***************************************************************************)
(* TLAPS proofs about DagPipeline, for every set of requests and workers,  *)
(* every size and every graph in which a node is listed before the nodes   *)
(* it depends on; the graphs of the shipped configuration, with no         *)
(* dependency at all, are the trivial case.  The theorems about outputs,   *)
(* returns and executions need that order (MCDagPipeline shows what goes   *)
(* wrong without it); type correctness and the wake-up protocol do not.    *)
(*                                                                         *)
(* The last part is about DagThreadPool, for any number of threads, tasks  *)
(* and clients, any relation between tasks and the tasks they submit, and  *)
(* any number of starts and shutdowns.                                     *)
(***************************************************************************)
EXTENDS DagPipeline, DagThreadPool, FiniteSetTheorems, TLAPS

ListedBefore == \A d \in Dags : \A n \in Nodes : \A m \in d[n] : n < m

-----------------------------------------------------------------------------
(* The inductive invariant.                                                *)

\* Node m has left ProcessDag and its fetch_sub on n, if any, has happened.
Passed(r, m, n) ==
    \/ m \in finished[r]
    \/ \E w \in Workers : /\ task[w] = <<r, m>>
                          /\ wpc[w] \in {"advance", "submit"}
                          /\ n \notin todo[w]

\* The upstream nodes n still waits for.
Remaining(r, n) == {m \in deps[n] : ~Passed(r, m, n)}

\* What is claimed was claimed by the root loop or in the wake of it, when
\* nothing was left to wait for.
ClaimInv ==
    \A r \in Requests :
        /\ epc[r] = "idle" => claimed[r] = {}
        /\ \A n \in claimed[r] : n < next[r] /\ Remaining(r, n) = {}
        /\ \A n \in Nodes : runs[r][n] # 0 => n \in claimed[r]

\* A queued closure is of a claimed node that has not run, and is there once.
QueueInv ==
    /\ \A k \in 1..Len(queue) :
          LET r == queue[k][1]
              n == queue[k][2]
          IN  n \in claimed[r] /\ runs[r][n] = 0
    /\ \A k, l \in 1..Len(queue) : queue[k] = queue[l] => k = l

\* So is the node a worker is about to submit.
ReadyInv ==
    \A w \in Workers : wpc[w] = "submit" =>
        LET r == task[w][1]
            d == ready[w]
        IN  /\ d \in claimed[r]
            /\ runs[r][d] = 0
            /\ \A k \in 1..Len(queue) : queue[k] # <<r, d>>
            /\ \A v \in Workers : wpc[v] = "submit" /\ task[v][1] = r /\ ready[v] = d => v = w

\* A worker has the only execution of its node.
BusyInv ==
    \A w \in Workers : wpc[w] # "idle" =>
        LET r == task[w][1]
            n == task[w][2]
        IN  /\ runs[r][n] = 1
            /\ wpc[w] = "notify" <=> n \in finished[r]
            /\ \A v \in Workers : task[v] = task[w] => v = w
            /\ wpc[w] \in {"advance", "submit"} => \A d \in todo[w] : n \in deps[d]

\* The two counters of DagExecState count what they should.
CountInv ==
    \A r \in Requests :
        /\ \A n \in Nodes : runs[r][n] <= 1
        /\ \A n \in finished[r] : runs[r][n] = 1
        /\ epc[r] # "idle" => \A n \in Nodes : pending[r][n] = Cardinality(Remaining(r, n))
        /\ completed[r] = Cardinality(finished[r])

\* The caller leaves the wait only when all the nodes are finished.
ReturnInv ==
    \A r \in Requests :
        /\ epc[r] \in {"collect", "returned"} => finished[r] = Nodes
        /\ epc[r] = "returned" => outputs[r] = items[r] \ Disabled

IInv == TypeOK /\ ClaimInv /\ QueueInv /\ ReadyInv /\ BusyInv /\ CountInv /\ ReturnInv

\* The part of the wake-up protocol that is inductive by itself: from the test
\* of the predicate on, a caller that found it false has a notifier coming.
WakeInv ==
    \A r \in Requests : epc[r] \in {"park", "asleep"} /\ completed[r] = N =>
        \E w \in Workers : wpc[w] = "notify" /\ task[w][1] = r

-----------------------------------------------------------------------------
LEMMA NodesFinite == IsFiniteSet(Nodes) /\ Cardinality(Nodes) = N
  BY SizeAssumption, FS_Interval, 1 \in Int, N \in Int, N - 1 + 1 = N DEF Nodes

LEMMA GraphType ==
  ASSUME NEW d \in Dags, NEW n \in Nodes
  PROVE  /\ d[n] \subseteq Nodes
         /\ IsFiniteSet(d[n])
         /\ Cardinality(d[n]) \in Nat
  <1>1. d \in [Nodes -> SUBSET Nodes]
    BY DagsAssumption
  <1>2. d[n] \subseteq Nodes
    BY <1>1
  <1> QED
    BY <1>2, NodesFinite, FS_Subset, FS_CardinalityType

\* An update two levels deep keeps the type of a counter.
LEMMA DecrementType ==
  ASSUME NEW S, NEW T, NEW f \in [S -> [T -> Int]], NEW x \in S, NEW y \in T
  PROVE  [f EXCEPT ![x][y] = @ - 1] \in [S -> [T -> Int]]
  <1> DEFINE g == [f EXCEPT ![x][y] = @ - 1]
  <1>1. f[x] \in [T -> Int] /\ [f[x] EXCEPT ![y] = @ - 1] \in [T -> Int]
    OBVIOUS
  <1>2. g = [f EXCEPT ![x] = [f[x] EXCEPT ![y] = @ - 1]]
    OBVIOUS
  <1> QED
    BY <1>1, <1>2

LEMMA NoTaskIsNone == NoTask \notin Tasks
  BY SizeAssumption DEF NoTask, Tasks, Nodes

\* Type correctness is inductive for every graph.
LEMMA InitType == Init => TypeOK
  BY SizeAssumption, NoTaskIsNone DEF Init, TypeOK, Nodes, Tasks, NoTask

LEMMA WorkerTask ==
  ASSUME TypeOK, NEW w \in Workers, wpc[w] # "idle"
  PROVE  /\ task[w] \in Tasks
         /\ task[w] # NoTask
         /\ task[w][1] \in Requests
         /\ task[w][2] \in Nodes
         /\ task[w] = <<task[w][1], task[w][2]>>
  <1>1. task[w] \in Tasks /\ task[w] # NoTask
    BY DEF TypeOK
  <1> QED
    BY <1>1 DEF Tasks

LEMMA DownstreamType == \A m : Downstream(m) \in SUBSET Nodes
  BY DEF Downstream

LEMMA NextType == TypeOK /\ [Next]_vars => TypeOK'
  <1> SUFFICES ASSUME TypeOK, [Next]_vars PROVE TypeOK'
    OBVIOUS
  <1>0. /\ queue \in Seq(Tasks)
        /\ pending \in [Requests -> [Nodes -> Int]]
        /\ items \in [Requests -> SUBSET Nodes]
        /\ todo \in [Workers -> SUBSET Nodes]
        /\ ready \in [Workers -> 0..N]
        /\ claimed \in [Requests -> SUBSET Nodes]
        /\ finished \in [Requests -> SUBSET Nodes]
        /\ runs \in [Requests -> [Nodes -> Nat]]
    BY DEF TypeOK
  <1>1. CASE UNCHANGED vars
    BY <1>1 DEF TypeOK, vars, callVars, workerVars, history
  <1>2. ASSUME NEW r \in Requests, Caller(r) \/ SpuriousWakeup(r) \/ SessionExpires(r)
        PROVE  TypeOK'
    <2>1. CASE Begin(r)
      <3>1. [n \in Nodes |-> Cardinality(deps[n])] \in [Nodes -> Int]
        BY GraphType DEF TypeOK
      <3> QED
        BY <2>1, <3>1 DEF Begin, TypeOK, workerVars, history
    <2>2. CASE SubmitRoot(r)
      <3>1. next[r] \in Nodes /\ next[r] + 1 \in 1..(N + 1)
        BY <2>2, SizeAssumption DEF SubmitRoot, Nodes, TypeOK
      <3>2. <<r, next[r]>> \in Tasks
        BY <3>1 DEF Tasks
      <3>3. CASE pending[r][next[r]] = 0
        <4>1. /\ queue' = Append(queue, <<r, next[r]>>)
              /\ claimed' = [claimed EXCEPT ![r] = @ \union {next[r]}]
          BY <2>2, <3>3 DEF SubmitRoot, Submit
        <4>2. queue' \in Seq(Tasks)
          BY <1>0, <3>2, <4>1
        <4>3. claimed' \in [Requests -> SUBSET Nodes]
          BY <1>0, <3>1, <4>1
        <4> QED
          BY <2>2, <3>1, <4>2, <4>3 DEF SubmitRoot, TypeOK, workerVars
      <3>4. CASE pending[r][next[r]] # 0
        BY <2>2, <3>1, <3>4 DEF SubmitRoot, TypeOK, workerVars
      <3> QED
        BY <3>3, <3>4
    <2>3. CASE SubmitDone(r) \/ Lock(r) \/ TestCompleted(r) \/ Park(r) \/ SpuriousWakeup(r)
      <3>1. epc' \in [Requests -> {"idle", "submit", "lock", "test", "park", "asleep",
                                   "collect", "returned"}]
        BY <2>3 DEF SubmitDone, Lock, TestCompleted, Park, SpuriousWakeup, TypeOK
      <3>2. UNCHANGED <<deps, queue, pending, completed, items, timedOut, next, outputs,
                        workerVars, history>>
        BY <2>3 DEF SubmitDone, Lock, TestCompleted, Park, SpuriousWakeup
      <3> QED
        BY <3>1, <3>2 DEF TypeOK, workerVars, history
    <2>4. CASE Collect(r)
      BY <2>4 DEF Collect, TypeOK, workerVars, history
    <2>5. CASE SessionExpires(r)
      BY <2>5 DEF SessionExpires, TypeOK, workerVars, history
    <2> QED
      BY <1>2, <2>1, <2>2, <2>3, <2>4, <2>5 DEF Caller
  <1>3. ASSUME NEW w \in Workers, Worker(w)
        PROVE  TypeOK'
    <2> DEFINE PCs == {"idle", "enter", "process", "advance", "submit", "notify"}
    <2>1. CASE TakeTask(w)
      <3>1. Head(queue) \in Tasks /\ Tail(queue) \in Seq(Tasks)
        BY <2>1 DEF TakeTask, TypeOK
      <3>2. Head(queue)[1] \in Requests /\ Head(queue)[2] \in Nodes
        BY <3>1 DEF Tasks
      <3>3. runs' \in [Requests -> [Nodes -> Nat]]
        BY <2>1, <3>2 DEF TakeTask, TypeOK
      <3>4. /\ wpc' \in [Workers -> PCs]
            /\ task' \in [Workers -> Tasks \union {NoTask}]
            /\ \A v \in Workers : wpc'[v] = "idle" <=> task'[v] = NoTask
            /\ \A v \in Workers : wpc'[v] = "submit" => ready[v] \in Nodes
        BY <2>1, <3>1, NoTaskIsNone DEF TakeTask, TypeOK
      <3> QED
        BY <2>1, <3>1, <3>3, <3>4 DEF TakeTask, TypeOK, callVars
    <2>2. CASE SkipNode(w) \/ StartProcessor(w) \/ FinishProcessor(w)
      <3>1. /\ wpc[w] # "idle"
            /\ wpc' = [wpc EXCEPT ![w] = "advance"] \/ wpc' = [wpc EXCEPT ![w] = "process"]
            /\ todo' = [todo EXCEPT ![w] = Downstream(task[w][2])] \/ UNCHANGED todo
            /\ \/ items' = [items EXCEPT ![task[w][1]] = @ \union {task[w][2]}]
               \/ UNCHANGED items
            /\ UNCHANGED <<deps, queue, pending, completed, timedOut, epc, next, outputs, task,
                           ready, history>>
        BY <2>2 DEF SkipNode, StartProcessor, FinishProcessor, callVars
      <3>2. task[w][1] \in Requests /\ task[w][2] \in Nodes
        BY <3>1, WorkerTask
      <3>3. items' \in [Requests -> SUBSET Nodes]
        <4>1. CASE UNCHANGED items
          BY <1>0, <4>1
        <4>2. CASE items' = [items EXCEPT ![task[w][1]] = @ \union {task[w][2]}]
          BY <1>0, <3>2, <4>2
        <4> QED
          BY <3>1, <4>1, <4>2
      <3>4. todo' \in [Workers -> SUBSET Nodes]
        <4>1. CASE UNCHANGED todo
          BY <1>0, <4>1
        <4>2. CASE todo' = [todo EXCEPT ![w] = Downstream(task[w][2])]
          BY <1>0, <4>2, DownstreamType
        <4> QED
          BY <3>1, <4>1, <4>2
      <3>5. /\ wpc' \in [Workers -> PCs]
            /\ \A v \in Workers : wpc'[v] = "idle" <=> wpc[v] = "idle"
            /\ \A v \in Workers : wpc'[v] = "submit" => wpc[v] = "submit"
        BY <3>1 DEF TypeOK
      <3> QED
        BY <3>1, <3>3, <3>4, <3>5 DEF TypeOK, history
    <2>3. CASE DecrementDown(w)
      <3>1. wpc[w] = "advance" /\ task[w][1] \in Requests
        BY <2>3, WorkerTask DEF DecrementDown
      <3>2. PICK d \in todo[w] :
              /\ todo' = [todo EXCEPT ![w] = @ \ {d}]
              /\ pending' = [pending EXCEPT ![task[w][1]][d] = @ - 1]
              /\ IF pending[task[w][1]][d] = 1
                   THEN /\ wpc' = [wpc EXCEPT ![w] = "submit"]
                        /\ ready' = [ready EXCEPT ![w] = d]
                        /\ claimed' = [claimed EXCEPT ![task[w][1]] = @ \union {d}]
                   ELSE UNCHANGED <<wpc, ready, claimed>>
        BY <2>3 DEF DecrementDown
      <3>3. d \in Nodes /\ d \in 0..N
        BY SizeAssumption DEF TypeOK, Nodes
      <3>4. pending' \in [Requests -> [Nodes -> Int]]
        BY <1>0, <3>1, <3>2, <3>3, DecrementType
      <3>5. claimed' \in [Requests -> SUBSET Nodes] /\ ready' \in [Workers -> 0..N]
        <4>1. CASE pending[task[w][1]][d] = 1
          <5>0. claimed' = [claimed EXCEPT ![task[w][1]] = @ \union {d}]
            BY <3>2, <4>1
          <5>1. claimed' \in [Requests -> SUBSET Nodes]
            BY <1>0, <3>1, <3>3, <5>0
          <5>2. ready' \in [Workers -> 0..N]
            BY <1>0, <3>2, <3>3, <4>1
          <5> QED
            BY <5>1, <5>2
        <4>2. CASE pending[task[w][1]][d] # 1
          BY <1>0, <3>2, <4>2
        <4> QED
          BY <4>1, <4>2
      <3>6. /\ wpc' \in [Workers -> PCs]
            /\ \A v \in Workers : wpc'[v] = "idle" <=> wpc[v] = "idle"
            /\ \A v \in Workers : wpc'[v] = "submit" => ready'[v] \in Nodes
        BY <3>1, <3>2, <3>3 DEF TypeOK
      <3>7. todo' \in [Workers -> SUBSET Nodes]
        BY <3>2 DEF TypeOK
      <3>8. UNCHANGED <<deps, queue, completed, items, timedOut, epc, next, outputs, task, runs,
                        finished>>
        BY <2>3 DEF DecrementDown
      <3> QED
        BY <3>4, <3>5, <3>6, <3>7, <3>8 DEF TypeOK
    <2>4. CASE SubmitDown(w)
      <3>1. wpc[w] = "submit" /\ task[w][1] \in Requests /\ ready[w] \in Nodes
        BY <2>4, WorkerTask DEF SubmitDown, TypeOK
      <3>2. <<task[w][1], ready[w]>> \in Tasks
        BY <3>1 DEF Tasks
      <3>3. queue' \in Seq(Tasks)
        BY <2>4, <3>2 DEF SubmitDown, Submit, TypeOK
      <3>4. ready' \in [Workers -> 0..N]
        BY <2>4, SizeAssumption DEF SubmitDown, TypeOK
      <3>5. /\ wpc' \in [Workers -> PCs]
            /\ \A v \in Workers : wpc'[v] = "idle" <=> wpc[v] = "idle"
            /\ \A v \in Workers : wpc'[v] = "submit" => ready'[v] \in Nodes
        BY <2>4 DEF SubmitDown, TypeOK
      <3> QED
        BY <2>4, <3>3, <3>4, <3>5 DEF SubmitDown, TypeOK, callVars, history
    <2>5. CASE CountCompleted(w)
      <3>1. wpc[w] = "advance" /\ task[w][1] \in Requests /\ task[w][2] \in Nodes
        BY <2>5, WorkerTask DEF CountCompleted
      <3>2. completed' \in [Requests -> Nat] /\ finished' \in [Requests -> SUBSET Nodes]
        BY <2>5, <3>1 DEF CountCompleted, TypeOK
      <3>3. /\ wpc' \in [Workers -> PCs]
            /\ task' \in [Workers -> Tasks \union {NoTask}]
            /\ \A v \in Workers : wpc'[v] = "idle" <=> task'[v] = NoTask
            /\ \A v \in Workers : wpc'[v] = "submit" => wpc[v] = "submit"
        BY <2>5, <3>1 DEF CountCompleted, TypeOK
      <3> QED
        BY <2>5, <3>2, <3>3 DEF CountCompleted, TypeOK
    <2>6. CASE Notify(w)
      BY <2>6 DEF Notify, TypeOK, history
    <2> QED
      BY <1>3, <2>1, <2>2, <2>3, <2>4, <2>5, <2>6 DEF Worker
  <1> QED
    BY <1>1, <1>2, <1>3 DEF Next, AllReturned

\* For every graph, with or without the order of listing, the variables keep
\* their types.
THEOREM TypeCorrect == Spec => []TypeOK
  BY InitType, NextType, PTL DEF Spec

-----------------------------------------------------------------------------
(* The invariant holds initially.                                          *)

LEMMA InitInv == Init => IInv
  <1> SUFFICES ASSUME Init PROVE IInv
    OBVIOUS
  <1>1. TypeOK
    BY InitType
  <1>2. /\ claimed = [r \in Requests |-> {}]
        /\ finished = [r \in Requests |-> {}]
        /\ runs = [r \in Requests |-> [n \in Nodes |-> 0]]
        /\ epc = [r \in Requests |-> "idle"]
        /\ completed = [r \in Requests |-> 0]
        /\ wpc = [w \in Workers |-> "idle"]
        /\ queue = <<>>
    BY DEF Init
  <1>3. ClaimInv
    BY <1>2 DEF ClaimInv
  <1>4. QueueInv /\ ReadyInv /\ BusyInv /\ ReturnInv
    BY <1>2 DEF QueueInv, ReadyInv, BusyInv, ReturnInv
  <1>5. CountInv
    BY <1>2, FS_EmptySet DEF CountInv
  <1> QED
    BY <1>1, <1>3, <1>4, <1>5 DEF IInv

-----------------------------------------------------------------------------
(* Lemmas about the nodes still waited for.                                *)

LEMMA RemainingType ==
  ASSUME TypeOK, NEW r \in Requests, NEW n \in Nodes
  PROVE  /\ Remaining(r, n) \subseteq deps[n]
         /\ IsFiniteSet(Remaining(r, n))
         /\ Cardinality(Remaining(r, n)) \in Nat
         /\ Cardinality(Remaining(r, n)) = 0 <=> Remaining(r, n) = {}
  <1>1. Remaining(r, n) \subseteq deps[n] /\ deps \in Dags
    BY DEF Remaining, TypeOK
  <1>2. IsFiniteSet(Remaining(r, n))
    BY <1>1, GraphType, FS_Subset
  <1> QED
    BY <1>1, <1>2, FS_CardinalityType, FS_EmptySet

\* Only what Passed says of the dependencies of a node matters.
LEMMA RemainingSame ==
  ASSUME deps' = deps,
         \A r \in Requests, n \in Nodes : \A m \in deps[n] : Passed(r, m, n)' <=> Passed(r, m, n)
  PROVE  \A r \in Requests, n \in Nodes : Remaining(r, n)' = Remaining(r, n)
  BY DEF Remaining

\* In particular a step that moves no worker and finishes no node.
LEMMA RemainingUnchanged ==
  ASSUME UNCHANGED <<deps, task, wpc, todo, finished>>
  PROVE  \A r \in Requests, n \in Nodes : Remaining(r, n)' = Remaining(r, n)
  BY DEF Remaining, Passed

-----------------------------------------------------------------------------
(* Lemmas about the counter of finished nodes and about the queue.         *)

LEMMA AllFinished ==
  ASSUME TypeOK, CountInv, NEW r \in Requests, completed[r] = N
  PROVE  finished[r] = Nodes
  <1>1. finished[r] \subseteq Nodes /\ Cardinality(finished[r]) = N
    BY DEF TypeOK, CountInv
  <1> QED
    BY <1>1, NodesFinite, FS_Subset

LEMMA QueueTasks ==
  ASSUME TypeOK
  PROVE  \A k \in 1..Len(queue) : /\ queue[k] = <<queue[k][1], queue[k][2]>>
                                  /\ queue[k][1] \in Requests
                                  /\ queue[k][2] \in Nodes
  <1>1. \A k \in 1..Len(queue) : queue[k] \in Tasks
    BY DEF TypeOK
  <1> QED
    BY <1>1 DEF Tasks

\* Appending a closure of a claimed node that was not queued.
LEMMA QueueAppended ==
  ASSUME QueueInv, Len(queue) \in Nat, NEW r \in Requests, NEW n \in Nodes,
         Len(queue') = Len(queue) + 1,
         \A k \in 1..Len(queue) : queue'[k] = queue[k],
         queue'[Len(queue) + 1] = <<r, n>>,
         \A k \in 1..Len(queue) : queue[k] # <<r, n>>,
         \A k \in 1..Len(queue) : claimed[queue[k][1]] \subseteq claimed'[queue[k][1]],
         n \in claimed'[r],
         runs[r][n] = 0,
         UNCHANGED runs
  PROVE  QueueInv'
  <1> SUFFICES ASSUME NEW k \in 1..Len(queue')
               PROVE  /\ queue'[k][2] \in claimed'[queue'[k][1]]
                      /\ runs'[queue'[k][1]][queue'[k][2]] = 0
                      /\ \A l \in 1..Len(queue') : queue'[k] = queue'[l] => k = l
    BY DEF QueueInv
  <1>1. \A l \in 1..Len(queue') : l \in 1..Len(queue) \/ l = Len(queue) + 1
    OBVIOUS
  <1>2. CASE k \in 1..Len(queue)
    BY <1>1, <1>2 DEF QueueInv
  <1>3. CASE k = Len(queue) + 1
    BY <1>1, <1>3
  <1> QED
    BY <1>1, <1>2, <1>3

-----------------------------------------------------------------------------
(* The steps of the caller preserve the invariant.                         *)

Rest == ClaimInv /\ QueueInv /\ ReadyInv /\ BusyInv /\ CountInv /\ ReturnInv

LEMMA BeginStep ==
  ASSUME IInv, NEW r \in Requests, Begin(r)
  PROVE  Rest'
  <1> USE DEF IInv
  <1>0. /\ epc[r] = "idle" /\ epc' = [epc EXCEPT ![r] = "submit"]
        /\ pending' = [pending EXCEPT ![r] = [n \in Nodes |-> Cardinality(deps[n])]]
        /\ UNCHANGED <<deps, queue, completed, items, next, outputs, wpc, task, todo, ready,
                       claimed, runs, finished>>
    BY DEF Begin, workerVars, history
  <1>1. \A q \in Requests, n \in Nodes : Remaining(q, n)' = Remaining(q, n)
    BY <1>0, RemainingUnchanged
  <1>2. ClaimInv'
    BY <1>0, <1>1 DEF ClaimInv, TypeOK
  <1>3. QueueInv' /\ ReadyInv' /\ BusyInv'
    BY <1>0 DEF QueueInv, ReadyInv, BusyInv
  <1>4. CountInv'
    <2>1. \A n \in Nodes : runs[r][n] = 0
      BY <1>0 DEF ClaimInv
    <2>2. finished[r] = {}
      BY <2>1 DEF CountInv, TypeOK
    <2>3. \A w \in Workers : wpc[w] # "idle" => task[w][1] # r
      BY <2>1, WorkerTask DEF BusyInv
    <2>4. \A n \in Nodes : Remaining(r, n) = deps[n]
      BY <2>2, <2>3 DEF Remaining, Passed
    <2>5. \A q \in Requests \ {r} : epc'[q] = epc[q] /\ pending'[q] = pending[q]
      BY <1>0 DEF TypeOK
    <2>6. \A n \in Nodes : pending'[r][n] = Cardinality(deps[n])
      BY <1>0 DEF TypeOK
    <2> QED
      BY <1>0, <1>1, <2>4, <2>5, <2>6 DEF CountInv
  <1>5. ReturnInv'
    BY <1>0 DEF ReturnInv, TypeOK
  <1> QED
    BY <1>2, <1>3, <1>4, <1>5 DEF Rest

LEMMA SubmitRootStep ==
  ASSUME IInv, NEW r \in Requests, SubmitRoot(r)
  PROVE  Rest'
  <1> USE DEF IInv
  <1> DEFINE i == next[r]
  <1>0. /\ epc[r] = "submit"
        /\ next' = [next EXCEPT ![r] = @ + 1]
        /\ UNCHANGED <<deps, pending, completed, items, epc, outputs, wpc, task, todo, ready, runs,
                       finished>>
        /\ i \in Nodes
        /\ next \in [Requests -> 1..(N + 1)]
    BY SizeAssumption DEF SubmitRoot, workerVars, TypeOK, Nodes
  <1>1. \A q \in Requests, n \in Nodes : Remaining(q, n)' = Remaining(q, n)
    BY <1>0, RemainingUnchanged
  <1>2. /\ \A q \in Requests : next'[q] \in Int /\ next[q] \in Int /\ next[q] <= next'[q]
        /\ next'[r] = i + 1
    BY <1>0
  <1>3. CountInv' /\ ReturnInv' /\ BusyInv'
    BY <1>0, <1>1 DEF CountInv, ReturnInv, BusyInv
  <1>4. CASE pending[r][i] = 0
    <2>0. /\ queue' = Append(queue, <<r, i>>)
          /\ claimed' = [claimed EXCEPT ![r] = @ \union {i}]
          /\ claimed \in [Requests -> SUBSET Nodes]
      BY <1>4 DEF SubmitRoot, Submit, TypeOK
    <2>1. i \notin claimed[r]
      BY <1>2 DEF ClaimInv
    <2>2. Remaining(r, i) = {}
      BY <1>0, <1>4, RemainingType DEF CountInv
    <2>3. /\ claimed'[r] = claimed[r] \union {i}
          /\ \A q \in Requests \ {r} : claimed'[q] = claimed[q]
      BY <2>0
    <2>4. ClaimInv'
      <3>1. \A q \in Requests : \A n \in claimed'[q] : n < next'[q] /\ Remaining(q, n)' = {}
        <4> SUFFICES ASSUME NEW q \in Requests, NEW n \in claimed'[q]
                     PROVE  n < next'[q] /\ Remaining(q, n)' = {}
          OBVIOUS
        <4>1. n \in Nodes /\ n \in Int
          <5>1. n \in claimed[q] \/ n = i
            BY <2>3
          <5>2. claimed[q] \subseteq Nodes
            BY <2>0
          <5> QED
            BY <1>0, <5>1, <5>2 DEF Nodes
        <4>2. CASE n \in claimed[q]
          <5>1. n < next[q] /\ Remaining(q, n) = {}
            BY <4>2 DEF ClaimInv
          <5> QED
            BY <1>1, <1>2, <4>1, <5>1
        <4>3. CASE n \notin claimed[q]
          <5>1. q = r /\ n = i
            BY <2>3, <4>3
          <5>2. n < next'[q]
            BY <1>2, <4>1, <5>1
          <5>3. Remaining(q, n)' = Remaining(q, n) /\ Remaining(q, n) = {}
            BY <1>1, <2>2, <4>1, <5>1
          <5> QED
            BY <5>2, <5>3
        <4> QED
          BY <4>2, <4>3
      <3>2. \A q \in Requests : claimed[q] \subseteq claimed'[q]
        BY <2>3
      <3> QED
        BY <1>0, <2>3, <3>1, <3>2 DEF ClaimInv
    <2>5. runs[r][i] = 0 /\ \A k \in 1..Len(queue) : queue[k] # <<r, i>>
      BY <1>0, <2>1 DEF ClaimInv, QueueInv
    <2>6. /\ Len(queue') = Len(queue) + 1 /\ Len(queue) \in Nat
          /\ \A k \in 1..Len(queue) : queue'[k] = queue[k]
          /\ queue'[Len(queue) + 1] = <<r, i>>
      BY <2>0 DEF TypeOK
    <2>7. QueueInv'
      <3>1. \A k \in 1..Len(queue) : claimed[queue[k][1]] \subseteq claimed'[queue[k][1]]
        BY <2>3, QueueTasks
      <3> QED
        BY <1>0, <2>3, <2>5, <2>6, <3>1, QueueAppended
    <2>8. ReadyInv'
      <3>1. \A w \in Workers : wpc[w] = "submit" => <<task[w][1], ready[w]>> # <<r, i>>
        BY <2>1 DEF ReadyInv
      <3>2. \A w \in Workers : wpc[w] = "submit" => task[w][1] \in Requests
        BY WorkerTask
      <3> QED
        BY <1>0, <2>3, <2>6, <3>1, <3>2 DEF ReadyInv
    <2> QED
      BY <1>3, <2>4, <2>7, <2>8 DEF Rest
  <1>5. CASE pending[r][i] # 0
    <2>0. UNCHANGED <<queue, claimed>>
      BY <1>5 DEF SubmitRoot
    <2>1. ClaimInv'
      <3>1. \A q \in Requests : \A n \in claimed[q] : n < next'[q]
        BY <1>2 DEF ClaimInv, TypeOK, Nodes
      <3> QED
        BY <1>0, <1>1, <2>0, <3>1 DEF ClaimInv, TypeOK
    <2>2. QueueInv' /\ ReadyInv'
      BY <1>0, <2>0 DEF QueueInv, ReadyInv
    <2> QED
      BY <1>3, <2>1, <2>2 DEF Rest
  <1> QED
    BY <1>4, <1>5

\* The steps that move only the caller or the clock.
LEMMA QuietStep ==
  ASSUME IInv, NEW r \in Requests,
         \/ SubmitDone(r) \/ Lock(r) \/ TestCompleted(r) \/ Park(r) \/ SpuriousWakeup(r)
         \/ SessionExpires(r)
  PROVE  Rest'
  <1> USE DEF IInv
  <1>0. /\ epc[r] # "idle" /\ epc[r] # "returned"
        /\ UNCHANGED <<deps, queue, pending, completed, items, next, outputs, wpc, task, todo,
                       ready, claimed, runs, finished>>
    BY DEF SubmitDone, Lock, TestCompleted, Park, SpuriousWakeup, SessionExpires, workerVars, history
  <1>1. /\ \A q \in Requests : epc'[q] = "idle" <=> epc[q] = "idle"
        /\ \A q \in Requests : epc'[q] = "returned" <=> epc[q] = "returned"
        /\ \A q \in Requests : epc'[q] = "collect" => epc[q] = "collect" \/ completed[q] = N
    BY DEF SubmitDone, Lock, TestCompleted, Park, SpuriousWakeup, SessionExpires, TypeOK
  <1>2. \A q \in Requests, n \in Nodes : Remaining(q, n)' = Remaining(q, n)
    BY <1>0, RemainingUnchanged
  <1>3. ClaimInv'
    BY <1>0, <1>1, <1>2 DEF ClaimInv, TypeOK
  <1>4. QueueInv' /\ ReadyInv' /\ BusyInv'
    BY <1>0 DEF QueueInv, ReadyInv, BusyInv
  <1>5. CountInv'
    BY <1>0, <1>1, <1>2 DEF CountInv
  <1>6. ReturnInv'
    <2>1. \A q \in Requests : completed[q] = N => finished[q] = Nodes
      BY AllFinished
    <2> QED
      BY <1>0, <1>1, <2>1 DEF ReturnInv
  <1> QED
    BY <1>3, <1>4, <1>5, <1>6 DEF Rest

LEMMA CollectStep ==
  ASSUME IInv, NEW r \in Requests, Collect(r)
  PROVE  Rest'
  <1> USE DEF IInv
  <1>0. /\ epc[r] = "collect"
        /\ epc' = [epc EXCEPT ![r] = "returned"]
        /\ outputs' = [outputs EXCEPT ![r] = items[r] \ Disabled]
        /\ UNCHANGED <<deps, queue, pending, completed, items, next, wpc, task, todo, ready,
                       claimed, runs, finished>>
    BY DEF Collect, workerVars, history
  <1>1. \A q \in Requests, n \in Nodes : Remaining(q, n)' = Remaining(q, n)
    BY <1>0, RemainingUnchanged
  <1>2. ClaimInv'
    BY <1>0, <1>1 DEF ClaimInv, TypeOK
  <1>3. QueueInv' /\ ReadyInv' /\ BusyInv'
    BY <1>0 DEF QueueInv, ReadyInv, BusyInv
  <1>4. CountInv'
    BY <1>0, <1>1 DEF CountInv, TypeOK
  <1>5. ReturnInv'
    BY <1>0 DEF ReturnInv, TypeOK
  <1> QED
    BY <1>2, <1>3, <1>4, <1>5 DEF Rest

-----------------------------------------------------------------------------
(* The steps of a worker preserve the invariant.                           *)

\* What the invariant says of the node a worker is at.
LEMMA WorkerNode ==
  ASSUME IInv, NEW w \in Workers, wpc[w] # "idle"
  PROVE  /\ task[w][1] \in Requests /\ task[w][2] \in Nodes
         /\ task[w] = <<task[w][1], task[w][2]>>
         /\ runs[task[w][1]][task[w][2]] = 1
         /\ task[w][2] \in claimed[task[w][1]]
         /\ epc[task[w][1]] # "idle"
  BY WorkerTask DEF IInv, BusyInv, ClaimInv

LEMMA TakeTaskStep ==
  ASSUME IInv, NEW w \in Workers, TakeTask(w)
  PROVE  Rest'
  <1> USE DEF IInv
  <1> DEFINE r == queue[1][1]
             n == queue[1][2]
  <1>0. /\ wpc[w] = "idle" /\ wpc' = [wpc EXCEPT ![w] = "enter"]
        /\ task' = [task EXCEPT ![w] = queue[1]]
        /\ queue' = Tail(queue) /\ queue # <<>>
        /\ runs' = [runs EXCEPT ![r][n] = @ + 1]
        /\ UNCHANGED <<deps, pending, completed, items, epc, next, outputs, todo, ready, claimed,
                       finished>>
    <2>1. queue # <<>> /\ queue \in Seq(Tasks)
      BY DEF TakeTask, TypeOK
    <2>2. Head(queue) = queue[1]
      BY <2>1
    <2> QED
      BY <2>2 DEF TakeTask, callVars
  <1>1. /\ Len(queue) \in Nat /\ Len(queue) >= 1
        /\ Len(queue') = Len(queue) - 1
        /\ \A k \in 1..Len(queue') : k + 1 \in 1..Len(queue) /\ queue'[k] = queue[k + 1]
    BY <1>0 DEF TypeOK
  <1>2. 1 \in 1..Len(queue) /\ queue[1] = <<r, n>> /\ r \in Requests /\ n \in Nodes
    BY <1>1, QueueTasks
  <1>3. n \in claimed[r] /\ runs[r][n] = 0
    BY <1>2 DEF QueueInv
  <1>4. /\ runs'[r][n] = 1
        /\ \A q \in Requests, m \in Nodes : <<q, m>> # <<r, n>> => runs'[q][m] = runs[q][m]
    <2>1. runs \in [Requests -> [Nodes -> Nat]]
      BY DEF TypeOK
    <2>2. /\ runs'[r][n] = runs[r][n] + 1
          /\ \A q \in Requests, m \in Nodes : q # r \/ m # n => runs'[q][m] = runs[q][m]
      BY <1>0, <1>2, <2>1
    <2> QED
      BY <1>3, <2>2
  <1>5. /\ task'[w] = <<r, n>> /\ wpc'[w] = "enter"
        /\ \A v \in Workers \ {w} : task'[v] = task[v] /\ wpc'[v] = wpc[v]
    BY <1>0, <1>2 DEF TypeOK
  <1>6. \A k \in 1..Len(queue') : queue'[k] # <<r, n>>
    BY <1>1, <1>2 DEF QueueInv
  <1>7. \A q \in Requests, m \in Nodes : Remaining(q, m)' = Remaining(q, m)
    <2>1. \A q, m, d : Passed(q, m, d)' <=> Passed(q, m, d)
      BY <1>0, <1>5 DEF Passed
    <2> QED
      BY <1>0, <2>1, RemainingSame
  <1>8. ClaimInv'
    BY <1>0, <1>3, <1>4, <1>7 DEF ClaimInv, TypeOK
  <1>9. QueueInv'
    <2>1. \A k \in 1..Len(queue') : /\ queue'[k] = <<queue'[k][1], queue'[k][2]>>
                                    /\ queue'[k][1] \in Requests /\ queue'[k][2] \in Nodes
      BY <1>1, QueueTasks
    <2>2. \A k \in 1..Len(queue') : /\ queue'[k][2] \in claimed[queue'[k][1]]
                                    /\ runs[queue'[k][1]][queue'[k][2]] = 0
      BY <1>1 DEF QueueInv
    <2>3. \A k \in 1..Len(queue') : runs'[queue'[k][1]][queue'[k][2]] = 0
      BY <1>4, <1>6, <2>1, <2>2
    <2>4. \A k, l \in 1..Len(queue') : queue'[k] = queue'[l] => k = l
      <3> SUFFICES ASSUME NEW k \in 1..Len(queue'), NEW l \in 1..Len(queue'),
                          queue'[k] = queue'[l]
                   PROVE  k = l
        OBVIOUS
      <3>1. k + 1 = l + 1
        BY <1>1 DEF QueueInv
      <3> QED
        BY <1>1, <3>1
    <2> QED
      BY <1>0, <2>2, <2>3, <2>4 DEF QueueInv
  <1>10. ReadyInv'
    <2> SUFFICES ASSUME NEW v \in Workers, wpc'[v] = "submit"
                 PROVE  /\ ready[v] \in claimed[task'[v][1]]
                        /\ runs'[task'[v][1]][ready[v]] = 0
                        /\ \A k \in 1..Len(queue') : queue'[k] # <<task'[v][1], ready[v]>>
                        /\ \A u \in Workers :
                              wpc'[u] = "submit" /\ task'[u][1] = task'[v][1]
                                                 /\ ready[u] = ready[v] => u = v
      BY <1>0 DEF ReadyInv
    <2>1. v # w /\ task'[v] = task[v] /\ wpc[v] = "submit"
      BY <1>5
    <2>2. task[v][1] \in Requests /\ ready[v] \in Nodes
      BY <2>1, WorkerTask DEF TypeOK
    <2>3. <<task[v][1], ready[v]>> # <<r, n>>
      BY <1>2, <2>1 DEF ReadyInv
    <2>4. runs'[task[v][1]][ready[v]] = 0
      BY <1>4, <2>1, <2>2, <2>3 DEF ReadyInv
    <2>5. \A k \in 1..Len(queue') : queue'[k] # <<task[v][1], ready[v]>>
      BY <1>1, <2>1 DEF ReadyInv
    <2>6. \A u \in Workers : wpc'[u] = "submit" => wpc[u] = "submit" /\ task'[u] = task[u]
      BY <1>5
    <2>7. /\ ready[v] \in claimed[task[v][1]]
          /\ \A u \in Workers : wpc[u] = "submit" /\ task[u][1] = task[v][1] /\ ready[u] = ready[v]
                              => u = v
      BY <2>1 DEF ReadyInv
    <2> QED
      BY <2>1, <2>4, <2>5, <2>6, <2>7
  <1>11. BusyInv'
    <2> SUFFICES ASSUME NEW v \in Workers, wpc'[v] # "idle"
                 PROVE  /\ runs'[task'[v][1]][task'[v][2]] = 1
                        /\ wpc'[v] = "notify" <=> task'[v][2] \in finished[task'[v][1]]
                        /\ \A u \in Workers : task'[u] = task'[v] => u = v
                        /\ wpc'[v] \in {"advance", "submit"} =>
                              \A d \in todo[v] : task'[v][2] \in deps[d]
      BY <1>0 DEF BusyInv
    <2>1. \A u \in Workers : task[u] # <<r, n>>
      <3> SUFFICES ASSUME NEW u \in Workers, task[u] = <<r, n>>
                   PROVE  FALSE
        OBVIOUS
      <3>1. <<r, n>> \in Tasks
        BY <1>2 DEF Tasks
      <3>2. wpc[u] # "idle"
        BY <3>1, NoTaskIsNone DEF TypeOK
      <3>3. task[u][1] = r /\ task[u][2] = n
        BY task[u] = <<r, n>>
      <3>4. runs[r][n] = 1
        BY <3>2, <3>3, WorkerNode
      <3> QED
        BY <1>3, <3>4
    <2>2. CASE v = w
      <3>1. n \notin finished[r]
        BY <1>2, <1>3 DEF CountInv
      <3> QED
        BY <1>4, <1>5, <2>1, <2>2, <3>1
    <2>3. CASE v # w
      <3>1. task'[v] = task[v] /\ wpc'[v] = wpc[v] /\ wpc[v] # "idle"
        BY <1>5, <2>3
      <3>2. runs'[task[v][1]][task[v][2]] = 1
        <4>1. /\ task[v][1] \in Requests /\ task[v][2] \in Nodes
              /\ <<task[v][1], task[v][2]>> # <<r, n>>
              /\ runs[task[v][1]][task[v][2]] = 1
          BY <2>1, <3>1, WorkerNode
        <4> QED
          BY <1>4, <4>1
      <3>3. \A u \in Workers : task'[u] = task[v] => u = v
        BY <1>5, <2>1, <2>3, <3>1 DEF BusyInv
      <3> QED
        BY <3>1, <3>2, <3>3 DEF BusyInv
    <2> QED
      BY <2>2, <2>3
  <1>12. CountInv'
    <2>1. \A q \in Requests, m \in Nodes : runs[q][m] = 1 => runs'[q][m] = 1
      BY <1>3, <1>4
    <2>2. \A q \in Requests, m \in Nodes : runs'[q][m] <= 1
      BY <1>4 DEF CountInv
    <2>3. \A q \in Requests : finished[q] \subseteq Nodes
      BY DEF TypeOK
    <2> QED
      BY <1>0, <1>7, <2>1, <2>2, <2>3 DEF CountInv
  <1>13. ReturnInv'
    BY <1>0 DEF ReturnInv
  <1> QED
    BY <1>8, <1>9, <1>10, <1>11, <1>12, <1>13 DEF Rest

\* The steps between taking a task and the loop over the downstream nodes.
LEMMA BodyStep ==
  ASSUME IInv, NEW w \in Workers, SkipNode(w) \/ StartProcessor(w) \/ FinishProcessor(w)
  PROVE  Rest'
  <1> USE DEF IInv
  <1> DEFINE r == task[w][1]
             n == task[w][2]
  <1>0. /\ wpc[w] \in {"enter", "process"}
        /\ UNCHANGED <<deps, queue, pending, completed, epc, next, outputs, task, ready, claimed,
                       runs, finished>>
        /\ items' = [items EXCEPT ![r] = @ \union {n}] \/ UNCHANGED items
        /\ \/ wpc' = [wpc EXCEPT ![w] = "advance"] /\ todo' = [todo EXCEPT ![w] = Downstream(n)]
           \/ wpc' = [wpc EXCEPT ![w] = "process"] /\ UNCHANGED todo
    BY DEF SkipNode, StartProcessor, FinishProcessor, callVars, history
  <1>1. /\ \/ wpc'[w] = "advance" /\ todo'[w] = Downstream(n)
           \/ wpc'[w] = "process"
        /\ \A v \in Workers \ {w} : wpc'[v] = wpc[v] /\ todo'[v] = todo[v]
    BY <1>0 DEF TypeOK
  <1>2. r \in Requests /\ n \in Nodes /\ n \notin finished[r]
    BY <1>0, WorkerNode DEF BusyInv
  <1>3. \A q \in Requests, d \in Nodes : Remaining(q, d)' = Remaining(q, d)
    <2>1. \A q \in Requests, d \in Nodes : \A m \in deps[d] : Passed(q, m, d)' <=> Passed(q, m, d)
      <3> SUFFICES ASSUME NEW q \in Requests, NEW d \in Nodes, NEW m \in deps[d]
                   PROVE  Passed(q, m, d)' <=> Passed(q, m, d)
        OBVIOUS
      <3> DEFINE P(v) == task[v] = <<q, m>> /\ wpc[v] \in {"advance", "submit"} /\ d \notin todo[v]
      <3>1. \A v \in Workers \ {w} : P(v)' <=> P(v)
        BY <1>0, <1>1
      <3>2. ~P(w)
        BY <1>0
      <3>3. ~P(w)'
        <4>1. task'[w] = <<q, m>> => n = m
          BY <1>0
        <4> QED
          BY <1>1, <4>1 DEF Downstream
      <3> QED
        BY <1>0, <3>1, <3>2, <3>3 DEF Passed
    <2> QED
      BY <1>0, <2>1, RemainingSame
  <1>4. ClaimInv'
    BY <1>0, <1>3 DEF ClaimInv, TypeOK
  <1>5. QueueInv'
    BY <1>0 DEF QueueInv
  <1>6. ReadyInv'
    <2>1. \A v \in Workers : wpc'[v] = "submit" => wpc[v] = "submit"
      BY <1>1
    <2> QED
      BY <1>0, <2>1 DEF ReadyInv
  <1>7. BusyInv'
    <2>1. \A v \in Workers : wpc'[v] # "idle" => wpc[v] # "idle"
      BY <1>0, <1>1
    <2>2. \A v \in Workers : wpc'[v] = "notify" <=> wpc[v] = "notify"
      BY <1>0, <1>1
    <2>3. \A v \in Workers : wpc'[v] \in {"advance", "submit"} =>
              \A d \in todo'[v] : task[v][2] \in deps[d]
      BY <1>0, <1>1 DEF BusyInv, Downstream
    <2> QED
      BY <1>0, <2>1, <2>2, <2>3 DEF BusyInv
  <1>8. CountInv'
    BY <1>0, <1>3 DEF CountInv
  <1>9. ReturnInv'
    <2>1. epc[r] # "returned"
      BY <1>2 DEF ReturnInv
    <2>2. \A q \in Requests \ {r} : items'[q] = items[q]
      BY <1>0 DEF TypeOK
    <2> QED
      BY <1>0, <2>1, <2>2 DEF ReturnInv
  <1> QED
    BY <1>4, <1>5, <1>6, <1>7, <1>8, <1>9 DEF Rest

LEMMA SubmitDownStep ==
  ASSUME IInv, NEW w \in Workers, SubmitDown(w)
  PROVE  Rest'
  <1> USE DEF IInv
  <1> DEFINE r == task[w][1]
             d == ready[w]
  <1>0. /\ wpc[w] = "submit" /\ wpc' = [wpc EXCEPT ![w] = "advance"]
        /\ queue' = Append(queue, <<r, d>>)
        /\ ready' = [ready EXCEPT ![w] = 0]
        /\ UNCHANGED <<deps, pending, completed, items, epc, next, outputs, task, todo, claimed,
                       runs, finished>>
    BY DEF SubmitDown, Submit, callVars, history
  <1>1. /\ wpc'[w] = "advance"
        /\ \A v \in Workers \ {w} : wpc'[v] = wpc[v] /\ ready'[v] = ready[v]
    BY <1>0 DEF TypeOK
  <1>2. r \in Requests /\ d \in Nodes
    BY <1>0, WorkerNode DEF TypeOK
  <1>3. /\ d \in claimed[r] /\ runs[r][d] = 0
        /\ \A k \in 1..Len(queue) : queue[k] # <<r, d>>
        /\ \A v \in Workers : wpc[v] = "submit" /\ task[v][1] = r /\ ready[v] = d => v = w
    BY <1>0 DEF ReadyInv
  <1>4. /\ Len(queue') = Len(queue) + 1 /\ Len(queue) \in Nat
        /\ \A k \in 1..Len(queue) : queue'[k] = queue[k]
        /\ queue'[Len(queue) + 1] = <<r, d>>
    BY <1>0 DEF TypeOK
  <1>5. \A q \in Requests, m \in Nodes : Remaining(q, m)' = Remaining(q, m)
    <2>1. \A v \in Workers : wpc'[v] \in {"advance", "submit"} <=> wpc[v] \in {"advance", "submit"}
      BY <1>0, <1>1
    <2>2. \A q, m, e : Passed(q, m, e)' <=> Passed(q, m, e)
      BY <1>0, <2>1 DEF Passed
    <2> QED
      BY <1>0, <2>2, RemainingSame
  <1>6. ClaimInv'
    BY <1>0, <1>5 DEF ClaimInv, TypeOK
  <1>7. QueueInv'
    BY <1>0, <1>2, <1>3, <1>4, QueueAppended
  <1>8. ReadyInv'
    <2> SUFFICES ASSUME NEW v \in Workers, wpc'[v] = "submit"
                 PROVE  /\ ready'[v] \in claimed[task[v][1]]
                        /\ runs[task[v][1]][ready'[v]] = 0
                        /\ \A k \in 1..Len(queue') : queue'[k] # <<task[v][1], ready'[v]>>
                        /\ \A u \in Workers :
                              wpc'[u] = "submit" /\ task[u][1] = task[v][1]
                                                 /\ ready'[u] = ready'[v] => u = v
      BY <1>0 DEF ReadyInv
    <2>1. v # w /\ wpc[v] = "submit" /\ ready'[v] = ready[v]
      BY <1>1
    <2>2. task[v][1] # r \/ ready[v] # d
      BY <1>3, <2>1
    <2>3. \A k \in 1..Len(queue') : queue'[k] # <<task[v][1], ready[v]>>
      <3>1. \A k \in 1..Len(queue) : queue[k] # <<task[v][1], ready[v]>>
        BY <2>1 DEF ReadyInv
      <3> QED
        BY <1>4, <2>2, <3>1
    <2>4. \A u \in Workers : wpc'[u] = "submit" => wpc[u] = "submit" /\ ready'[u] = ready[u]
      BY <1>1
    <2>5. /\ ready[v] \in claimed[task[v][1]] /\ runs[task[v][1]][ready[v]] = 0
          /\ \A u \in Workers : wpc[u] = "submit" /\ task[u][1] = task[v][1] /\ ready[u] = ready[v]
                              => u = v
      BY <2>1 DEF ReadyInv
    <2> QED
      BY <2>1, <2>3, <2>4, <2>5
  <1>9. BusyInv'
    <2>1. \A v \in Workers : wpc'[v] # "idle" => wpc[v] # "idle"
      BY <1>0, <1>1
    <2>2. \A v \in Workers : wpc'[v] = "notify" <=> wpc[v] = "notify"
      BY <1>0, <1>1
    <2>3. \A v \in Workers : wpc'[v] \in {"advance", "submit"} <=> wpc[v] \in {"advance", "submit"}
      BY <1>0, <1>1
    <2> QED
      BY <1>0, <2>1, <2>2, <2>3 DEF BusyInv
  <1>10. CountInv' /\ ReturnInv'
    BY <1>0, <1>5 DEF CountInv, ReturnInv
  <1> QED
    BY <1>6, <1>7, <1>8, <1>9, <1>10 DEF Rest

LEMMA NotifyStep ==
  ASSUME IInv, NEW w \in Workers, Notify(w)
  PROVE  Rest'
  <1> USE DEF IInv
  <1> DEFINE r == task[w][1]
  <1>0. /\ wpc[w] = "notify" /\ wpc' = [wpc EXCEPT ![w] = "idle"]
        /\ task' = [task EXCEPT ![w] = NoTask]
        /\ epc' = [epc EXCEPT ![r] = IF @ = "asleep" THEN "lock" ELSE @]
        /\ UNCHANGED <<deps, queue, pending, completed, items, next, outputs, todo, ready, claimed,
                       runs, finished>>
    BY DEF Notify, history
  <1>1. /\ wpc'[w] = "idle" /\ task'[w] = NoTask
        /\ \A v \in Workers \ {w} : wpc'[v] = wpc[v] /\ task'[v] = task[v]
    BY <1>0 DEF TypeOK
  <1>2. \A q \in Requests : \/ epc'[q] = epc[q]
                            \/ epc[q] = "asleep" /\ epc'[q] = "lock"
    BY <1>0 DEF TypeOK
  <1>3. \A q \in Requests, m \in Nodes : Remaining(q, m)' = Remaining(q, m)
    <2>1. \A q, m, d : Passed(q, m, d)' <=> Passed(q, m, d)
      BY <1>0, <1>1 DEF Passed
    <2> QED
      BY <1>0, <2>1, RemainingSame
  <1>4. ClaimInv'
    BY <1>0, <1>2, <1>3 DEF ClaimInv, TypeOK
  <1>5. QueueInv'
    BY <1>0 DEF QueueInv
  <1>6. ReadyInv'
    <2>1. \A v \in Workers : wpc'[v] = "submit" => wpc[v] = "submit" /\ task'[v] = task[v]
      BY <1>1
    <2> QED
      BY <1>0, <2>1 DEF ReadyInv
  <1>7. BusyInv'
    <2> SUFFICES ASSUME NEW v \in Workers, wpc'[v] # "idle"
                 PROVE  /\ runs[task'[v][1]][task'[v][2]] = 1
                        /\ wpc'[v] = "notify" <=> task'[v][2] \in finished[task'[v][1]]
                        /\ \A u \in Workers : task'[u] = task'[v] => u = v
                        /\ wpc'[v] \in {"advance", "submit"} =>
                              \A d \in todo[v] : task'[v][2] \in deps[d]
      BY <1>0 DEF BusyInv
    <2>1. wpc'[v] = wpc[v] /\ task'[v] = task[v] /\ task[v] # NoTask
      BY <1>1, WorkerTask
    <2>2. \A u \in Workers : task'[u] = task[v] => u = v
      BY <1>1, <2>1 DEF BusyInv
    <2> QED
      BY <2>1, <2>2 DEF BusyInv
  <1>8. CountInv' /\ ReturnInv'
    BY <1>0, <1>2, <1>3 DEF CountInv, ReturnInv
  <1> QED
    BY <1>4, <1>5, <1>6, <1>7, <1>8 DEF Rest

LEMMA CountCompletedStep ==
  ASSUME IInv, NEW w \in Workers, CountCompleted(w)
  PROVE  Rest'
  <1> USE DEF IInv
  <1> DEFINE r == task[w][1]
             n == task[w][2]
             last == completed[r] + 1 = N
  <1>0. /\ wpc[w] = "advance" /\ todo[w] = {}
        /\ completed' = [completed EXCEPT ![r] = @ + 1]
        /\ finished' = [finished EXCEPT ![r] = @ \union {n}]
        /\ wpc' = [wpc EXCEPT ![w] = IF last THEN "notify" ELSE "idle"]
        /\ task' = [task EXCEPT ![w] = IF last THEN @ ELSE NoTask]
        /\ UNCHANGED <<deps, queue, pending, items, epc, next, outputs, todo, ready, claimed, runs>>
    BY DEF CountCompleted
  <1>1. /\ r \in Requests /\ n \in Nodes /\ runs[r][n] = 1 /\ task[w] = <<r, n>>
        /\ n \notin finished[r]
        /\ \A v \in Workers : task[v] = <<r, n>> => v = w
    BY <1>0, WorkerNode DEF BusyInv
  <1>2. /\ finished'[r] = finished[r] \union {n}
        /\ \A q \in Requests \ {r} : finished'[q] = finished[q] /\ completed'[q] = completed[q]
        /\ completed'[r] = completed[r] + 1
    BY <1>0, <1>1 DEF TypeOK
  <1>3. /\ \/ wpc'[w] = "notify" /\ task'[w] = <<r, n>>
           \/ wpc'[w] = "idle" /\ task'[w] = NoTask
        /\ \A v \in Workers \ {w} : wpc'[v] = wpc[v] /\ task'[v] = task[v]
    BY <1>0, <1>1 DEF TypeOK
  <1>4. \A q \in Requests, m \in Nodes : Remaining(q, m)' = Remaining(q, m)
    <2>1. \A q \in Requests, d \in Nodes : \A m \in deps[d] : Passed(q, m, d)' <=> Passed(q, m, d)
      <3> SUFFICES ASSUME NEW q \in Requests, NEW d \in Nodes, NEW m \in deps[d]
                   PROVE  Passed(q, m, d)' <=> Passed(q, m, d)
        OBVIOUS
      <3>1. CASE q = r /\ m = n
        <4>1. Passed(q, m, d)
          BY <1>0, <1>1, <3>1 DEF Passed
        <4>2. Passed(q, m, d)'
          BY <1>2, <3>1 DEF Passed
        <4> QED
          BY <4>1, <4>2
      <3>2. CASE q # r \/ m # n
        <4>1. m \in finished'[q] <=> m \in finished[q]
          BY <1>2, <3>2
        <4>2. task[w] # <<q, m>>
          BY <1>1, <3>2
        <4>3. wpc'[w] \notin {"advance", "submit"}
          BY <1>3
        <4> QED
          BY <1>0, <1>3, <4>1, <4>2, <4>3 DEF Passed
      <3> QED
        BY <3>1, <3>2
    <2> QED
      BY <1>0, <2>1, RemainingSame
  <1>5. ClaimInv'
    BY <1>0, <1>4 DEF ClaimInv, TypeOK
  <1>6. QueueInv'
    BY <1>0 DEF QueueInv
  <1>7. ReadyInv'
    <2>1. \A v \in Workers : wpc'[v] = "submit" => wpc[v] = "submit" /\ task'[v] = task[v]
      BY <1>3
    <2> QED
      BY <1>0, <2>1 DEF ReadyInv
  <1>8. BusyInv'
    <2> SUFFICES ASSUME NEW v \in Workers, wpc'[v] # "idle"
                 PROVE  /\ runs[task'[v][1]][task'[v][2]] = 1
                        /\ wpc'[v] = "notify" <=> task'[v][2] \in finished'[task'[v][1]]
                        /\ \A u \in Workers : task'[u] = task'[v] => u = v
                        /\ wpc'[v] \in {"advance", "submit"} =>
                              \A d \in todo[v] : task'[v][2] \in deps[d]
      BY <1>0 DEF BusyInv
    <2>1. CASE v = w
      <3>1. wpc'[w] = "notify" /\ task'[w] = <<r, n>>
        BY <1>3, <2>1
      <3>2. \A u \in Workers : task'[u] = <<r, n>> => u = w
        BY <1>1, <1>3
      <3> QED
        BY <1>1, <1>2, <2>1, <3>1, <3>2
    <2>2. CASE v # w
      <3>1. wpc'[v] = wpc[v] /\ task'[v] = task[v] /\ task[v] # NoTask
        BY <1>3, <2>2, WorkerTask
      <3>2. \A u \in Workers : task'[u] = task[v] => u = v
        BY <1>1, <1>3, <2>2, <3>1 DEF BusyInv
      <3>3. task[v] # <<r, n>> /\ task[v] = <<task[v][1], task[v][2]>> /\ task[v][1] \in Requests
        BY <1>1, <2>2, <3>1, WorkerNode
      <3>4. task[v][2] \in finished'[task[v][1]] <=> task[v][2] \in finished[task[v][1]]
        BY <1>2, <3>3
      <3> QED
        BY <3>1, <3>2, <3>4 DEF BusyInv
    <2> QED
      BY <2>1, <2>2
  <1>9. CountInv'
    <2>1. IsFiniteSet(finished[r])
      BY <1>1, NodesFinite, FS_Subset DEF TypeOK
    <2>2. Cardinality(finished'[r]) = Cardinality(finished[r]) + 1
      BY <1>1, <1>2, <2>1, FS_AddElement, FS_CardinalityType
    <2>3. \A q \in Requests : completed'[q] = Cardinality(finished'[q])
      BY <1>2, <2>2 DEF CountInv
    <2>4. \A q \in Requests : \A m \in finished'[q] : runs[q][m] = 1
      BY <1>1, <1>2 DEF CountInv
    <2> QED
      BY <1>0, <1>4, <2>3, <2>4 DEF CountInv
  <1>10. ReturnInv'
    <2>1. \A q \in Requests : finished[q] = Nodes => finished'[q] = Nodes
      BY <1>1, <1>2
    <2> QED
      BY <1>0, <2>1 DEF ReturnInv
  <1> QED
    BY <1>5, <1>6, <1>7, <1>8, <1>9, <1>10 DEF Rest

\* The heart of the matter: the worker whose fetch_sub reads 1 is the only one
\* to submit the node, and the root loop is already past it.
LEMMA DecrementDownStep ==
  ASSUME ListedBefore, IInv, NEW w \in Workers, DecrementDown(w)
  PROVE  Rest'
  <1> USE DEF IInv
  <1> DEFINE r == task[w][1]
             n == task[w][2]
  <1>0. PICK d \in todo[w] :
          /\ todo' = [todo EXCEPT ![w] = @ \ {d}]
          /\ pending' = [pending EXCEPT ![r][d] = @ - 1]
          /\ IF pending[r][d] = 1
               THEN /\ wpc' = [wpc EXCEPT ![w] = "submit"]
                    /\ ready' = [ready EXCEPT ![w] = d]
                    /\ claimed' = [claimed EXCEPT ![r] = @ \union {d}]
               ELSE UNCHANGED <<wpc, ready, claimed>>
    BY DEF DecrementDown
  <1>1. /\ wpc[w] = "advance"
        /\ UNCHANGED <<deps, queue, completed, items, epc, next, outputs, task, runs, finished>>
    BY DEF DecrementDown
  <1>2. /\ r \in Requests /\ n \in Nodes /\ runs[r][n] = 1 /\ task[w] = <<r, n>>
        /\ n \in claimed[r] /\ epc[r] # "idle"
        /\ n \notin finished[r]
        /\ \A v \in Workers : task[v] = <<r, n>> => v = w
    BY <1>1, WorkerNode DEF BusyInv
  <1>3. d \in Nodes /\ n \in deps[d]
    BY <1>1 DEF BusyInv, TypeOK
  <1>4. /\ todo'[w] = todo[w] \ {d}
        /\ \A v \in Workers \ {w} : todo'[v] = todo[v] /\ wpc'[v] = wpc[v] /\ ready'[v] = ready[v]
        /\ wpc'[w] \in {"advance", "submit"}
    BY <1>0, <1>1 DEF TypeOK
  \* The step takes exactly the current node out of what d waits for.
  <1>5. n \in Remaining(r, d)
    BY <1>2, <1>3 DEF Remaining, Passed
  <1>6. \A q \in Requests, e \in Nodes :
          Remaining(q, e)' = IF q = r /\ e = d THEN Remaining(q, e) \ {n} ELSE Remaining(q, e)
    <2>1. \A q, m, e : Passed(q, m, e)' <=> Passed(q, m, e) \/ (q = r /\ m = n /\ e = d)
      <3> SUFFICES ASSUME NEW q, NEW m, NEW e
                   PROVE  Passed(q, m, e)' <=> Passed(q, m, e) \/ (q = r /\ m = n /\ e = d)
        OBVIOUS
      <3> DEFINE P(v) == task[v] = <<q, m>> /\ wpc[v] \in {"advance", "submit"} /\ e \notin todo[v]
      <3>1. \A v \in Workers \ {w} : P(v)' <=> P(v)
        BY <1>1, <1>4
      <3>2. P(w)' <=> P(w) \/ (q = r /\ m = n /\ e = d)
        BY <1>1, <1>2, <1>4
      <3> QED
        BY <1>1, <3>1, <3>2 DEF Passed
    <2> QED
      BY <1>1, <2>1 DEF Remaining
  <1>7. /\ IsFiniteSet(Remaining(r, d) \ {n})
        /\ Cardinality(Remaining(r, d)) \in Nat
        /\ Cardinality(Remaining(r, d) \ {n}) = Cardinality(Remaining(r, d)) - 1
        /\ pending[r][d] = Cardinality(Remaining(r, d))
    <2>1. IsFiniteSet(Remaining(r, d)) /\ Cardinality(Remaining(r, d)) \in Nat
      BY <1>2, <1>3, RemainingType
    <2>2. /\ IsFiniteSet(Remaining(r, d) \ {n})
          /\ Cardinality(Remaining(r, d) \ {n}) = Cardinality(Remaining(r, d)) - 1
      BY <1>5, <2>1, FS_RemoveElement
    <2>3. pending[r][d] = Cardinality(Remaining(r, d))
      BY <1>2, <1>3 DEF CountInv
    <2> QED
      BY <2>1, <2>2, <2>3
  <1>8. CountInv'
    <2>1. pending \in [Requests -> [Nodes -> Int]]
      BY DEF TypeOK
    <2>2. /\ pending'[r][d] = pending[r][d] - 1
          /\ \A q \in Requests, e \in Nodes : q # r \/ e # d => pending'[q][e] = pending[q][e]
      BY <1>0, <1>2, <1>3, <2>1
    <2>3. \A q \in Requests : epc[q] # "idle" =>
            \A e \in Nodes : pending'[q][e] = Cardinality(Remaining(q, e)')
      <3> SUFFICES ASSUME NEW q \in Requests, epc[q] # "idle", NEW e \in Nodes
                   PROVE  pending'[q][e] = Cardinality(Remaining(q, e)')
        OBVIOUS
      <3>1. CASE q = r /\ e = d
        <4>1. Remaining(q, e)' = Remaining(r, d) \ {n} /\ pending'[q][e] = pending[r][d] - 1
          BY <1>6, <2>2, <3>1
        <4> QED
          BY <1>7, <4>1
      <3>2. CASE q # r \/ e # d
        BY <1>6, <2>2, <3>2 DEF CountInv
      <3> QED
        BY <3>1, <3>2
    <2> QED
      BY <1>1, <2>3 DEF CountInv
  <1>9. BusyInv'
    <2>1. \A v \in Workers : wpc'[v] # "idle" <=> wpc[v] # "idle"
      BY <1>1, <1>4
    <2>2. \A v \in Workers : wpc'[v] = "notify" <=> wpc[v] = "notify"
      BY <1>1, <1>4
    <2>3. \A v \in Workers : /\ wpc'[v] \in {"advance", "submit"} <=> wpc[v] \in {"advance", "submit"}
                             /\ todo'[v] \subseteq todo[v]
      BY <1>1, <1>4
    <2> QED
      BY <1>1, <2>1, <2>2, <2>3 DEF BusyInv
  <1>10. ReturnInv'
    BY <1>1 DEF ReturnInv
  <1>11. CASE pending[r][d] = 1
    <2>1. Remaining(r, d) \ {n} = {}
      BY <1>7, <1>11, FS_EmptySet
    <2>2. d \notin claimed[r]
      BY <1>2, <1>5 DEF ClaimInv
    <2>3. d < next[r]
      <3>1. d < n
        BY <1>2, <1>3 DEF ListedBefore, TypeOK
      <3>2. n < next[r]
        BY <1>2 DEF ClaimInv
      <3>3. d \in Int /\ n \in Int /\ next[r] \in Int
        BY <1>2, <1>3 DEF TypeOK, Nodes
      <3> QED
        BY <3>1, <3>2, <3>3
    <2>4. /\ claimed'[r] = claimed[r] \union {d}
          /\ \A q \in Requests \ {r} : claimed'[q] = claimed[q]
          /\ \A q \in Requests : claimed[q] \subseteq Nodes
          /\ wpc'[w] = "submit" /\ ready'[w] = d
      BY <1>0, <1>2, <1>11 DEF TypeOK
    <2>5. runs[r][d] = 0
      BY <1>3, <2>2, <1>2 DEF ClaimInv
    <2>6. ClaimInv'
      <3>1. \A q \in Requests : \A e \in claimed'[q] : e < next[q] /\ Remaining(q, e)' = {}
        <4> SUFFICES ASSUME NEW q \in Requests, NEW e \in claimed'[q]
                     PROVE  e < next[q] /\ Remaining(q, e)' = {}
          OBVIOUS
        <4>1. CASE q = r /\ e = d
          <5>1. Remaining(q, e)' = Remaining(r, d) \ {n} /\ e < next[q]
            BY <1>3, <1>6, <2>3, <4>1
          <5> QED
            BY <2>1, <5>1
        <4>2. CASE q # r \/ e # d
          <5>1. e \in claimed[q] /\ e \in Nodes
            BY <2>4, <4>2
          <5>2. e < next[q] /\ Remaining(q, e) = {}
            BY <5>1 DEF ClaimInv
          <5> QED
            BY <1>6, <4>2, <5>1, <5>2
        <4> QED
          BY <4>1, <4>2
      <3>2. \A q \in Requests : claimed[q] \subseteq claimed'[q]
        BY <2>4
      <3>3. \A q \in Requests : epc[q] = "idle" => claimed'[q] = {}
        BY <1>2, <2>4 DEF ClaimInv
      <3> QED
        BY <1>1, <3>1, <3>2, <3>3 DEF ClaimInv
    <2>7. QueueInv'
      <3>1. \A k \in 1..Len(queue) : queue[k][2] \in claimed'[queue[k][1]]
        BY <2>4, QueueTasks DEF QueueInv
      <3> QED
        BY <1>1, <3>1 DEF QueueInv
    <2>8. ReadyInv'
      <3> SUFFICES ASSUME NEW v \in Workers, wpc'[v] = "submit"
                   PROVE  /\ ready'[v] \in claimed'[task[v][1]]
                          /\ runs[task[v][1]][ready'[v]] = 0
                          /\ \A k \in 1..Len(queue) : queue[k] # <<task[v][1], ready'[v]>>
                          /\ \A u \in Workers :
                                wpc'[u] = "submit" /\ task[u][1] = task[v][1]
                                                   /\ ready'[u] = ready'[v] => u = v
        BY <1>1 DEF ReadyInv
      \* The nodes other workers are about to submit are claimed, d is not.
      <3>1. \A u \in Workers \ {w} : wpc[u] = "submit" =>
              /\ task[u][1] \in Requests /\ ready[u] \in claimed[task[u][1]]
              /\ task[u][1] # r \/ ready[u] # d
        BY <2>2, WorkerTask DEF ReadyInv
      <3>2. CASE v = w
        <4>1. \A k \in 1..Len(queue) : queue[k] # <<r, d>>
          BY <2>2 DEF QueueInv
        <4> QED
          BY <1>2, <1>4, <2>4, <2>5, <3>1, <3>2, <4>1
      <3>3. CASE v # w
        <4>1. wpc[v] = "submit" /\ ready'[v] = ready[v]
          BY <1>4, <3>3
        <4>2. ready[v] \in claimed'[task[v][1]]
          BY <2>4, <3>1, <3>3, <4>1
        <4>3. \A u \in Workers : wpc'[u] = "submit" /\ task[u][1] = task[v][1] /\ ready'[u] = ready[v]
                               => u = v
          BY <1>4, <2>4, <3>1, <3>3, <4>1 DEF ReadyInv
        <4> QED
          BY <4>1, <4>2, <4>3 DEF ReadyInv
      <3> QED
        BY <3>2, <3>3
    <2> QED
      BY <1>8, <1>9, <1>10, <2>6, <2>7, <2>8 DEF Rest
  <1>12. CASE pending[r][d] # 1
    <2>0. UNCHANGED <<wpc, ready, claimed>>
      BY <1>0, <1>12
    <2>1. ClaimInv'
      <3>1. \A q \in Requests : \A e \in claimed[q] : Remaining(q, e)' = {}
        <4> SUFFICES ASSUME NEW q \in Requests, NEW e \in claimed[q]
                     PROVE  Remaining(q, e)' = {}
          OBVIOUS
        <4>1. Remaining(q, e) = {} /\ e \in Nodes
          BY DEF ClaimInv, TypeOK
        <4> QED
          BY <1>6, <4>1
      <3> QED
        BY <1>1, <2>0, <3>1 DEF ClaimInv
    <2>2. QueueInv' /\ ReadyInv'
      BY <1>1, <2>0 DEF QueueInv, ReadyInv
    <2> QED
      BY <1>8, <1>9, <1>10, <2>1, <2>2 DEF Rest
  <1> QED
    BY <1>11, <1>12

-----------------------------------------------------------------------------
(* The inductive invariant, and the safety properties it implies.          *)

LEMMA NextInv == ListedBefore /\ IInv /\ [Next]_vars => IInv'
  <1> SUFFICES ASSUME ListedBefore, IInv, [Next]_vars PROVE IInv'
    OBVIOUS
  <1>1. TypeOK'
    BY NextType DEF IInv
  <1>2. CASE UNCHANGED vars
    <2>1. UNCHANGED <<deps, queue, pending, completed, items, epc, next, outputs, wpc, task, todo,
                      ready, claimed, runs, finished>>
      BY <1>2 DEF vars, callVars, workerVars, history
    <2>2. \A q \in Requests, n \in Nodes : Remaining(q, n)' = Remaining(q, n)
      BY <2>1, RemainingUnchanged
    <2>3. ClaimInv'
      BY <2>1, <2>2 DEF IInv, ClaimInv, TypeOK
    <2>4. QueueInv' /\ ReadyInv' /\ BusyInv' /\ ReturnInv'
      BY <2>1 DEF IInv, QueueInv, ReadyInv, BusyInv, ReturnInv
    <2>5. CountInv'
      BY <2>1, <2>2 DEF IInv, CountInv
    <2> QED
      BY <1>1, <2>3, <2>4, <2>5 DEF IInv
  <1>3. ASSUME NEW r \in Requests, Caller(r) \/ SpuriousWakeup(r) \/ SessionExpires(r)
        PROVE  Rest'
    BY <1>3, BeginStep, SubmitRootStep, QuietStep, CollectStep DEF Caller
  <1>4. ASSUME NEW w \in Workers, Worker(w)
        PROVE  Rest'
    BY <1>4, TakeTaskStep, BodyStep, DecrementDownStep, SubmitDownStep, CountCompletedStep,
       NotifyStep DEF Worker
  <1> QED
    BY <1>1, <1>2, <1>3, <1>4 DEF Next, AllReturned, IInv, Rest

\* The invariant of the whole protocol, for every graph listed dependents first.
THEOREM Inductive == ASSUME ListedBefore PROVE Spec => []IInv
  <1>1. Init => IInv
    BY InitInv
  <1>2. IInv /\ [Next]_vars => IInv'
    BY NextInv
  <1> QED
    BY <1>1, <1>2, PTL DEF Spec

\* The root loop and the workers never submit the same node twice, so no node
\* is executed twice.
THEOREM OnceTheorem == ASSUME ListedBefore PROVE Spec => []NodeRunsOnce
  <1>1. IInv => NodeRunsOnce
    BY DEF IInv, CountInv, NodeRunsOnce
  <1> QED
    BY <1>1, Inductive, PTL

\* A node whose dependencies have all been passed by has them all behind it.
LEMMA DepsBehind ==
  ASSUME IInv, NEW r \in Requests, NEW n \in claimed[r], NEW m \in deps[n]
  PROVE  /\ m \in Nodes
         /\ runs[r][m] = 1
         /\ Running(r, m) = {}
  <1> USE DEF IInv
  <1>1. Passed(r, m, n)
    BY DEF ClaimInv, Remaining
  <1>2. m \in Nodes
    BY GraphType DEF TypeOK
  <1>3. CASE m \in finished[r]
    <2>1. runs[r][m] = 1
      BY <1>3 DEF CountInv
    <2>2. \A w \in Workers : wpc[w] \in {"enter", "process"} => task[w] # <<r, m>>
      BY <1>3 DEF BusyInv
    <2> QED
      BY <1>2, <2>1, <2>2 DEF Running
  <1>4. CASE m \notin finished[r]
    <2>1. PICK w \in Workers : task[w] = <<r, m>> /\ wpc[w] \in {"advance", "submit"}
      BY <1>1, <1>4 DEF Passed
    <2>2. runs[r][m] = 1 /\ \A v \in Workers : task[v] = <<r, m>> => v = w
      BY <2>1 DEF BusyInv
    <2> QED
      BY <1>2, <2>1, <2>2 DEF Running
  <1> QED
    BY <1>3, <1>4

\* While a node executes it is the only writer of its output and all the
\* outputs it reads are final.
THEOREM RaceFreeTheorem == ASSUME ListedBefore PROVE Spec => []OutputsRaceFree
  <1>1. IInv => OutputsRaceFree
    <2> SUFFICES ASSUME IInv, NEW r \in Requests, NEW n \in Nodes, Running(r, n) # {}
                 PROVE  /\ Cardinality(Running(r, n)) = 1
                        /\ \A m \in deps[n] : runs[r][m] >= 1 /\ Running(r, m) = {}
      BY DEF OutputsRaceFree
    <2>1. PICK w \in Workers : task[w] = <<r, n>> /\ wpc[w] \in {"enter", "process"}
      BY DEF Running
    <2>2. n \in claimed[r]
      BY <2>1, WorkerNode
    <2>3. Running(r, n) = {w}
      BY <2>1 DEF Running, IInv, BusyInv
    <2>4. Cardinality(Running(r, n)) = 1
      BY <2>3, FS_Singleton
    <2> QED
      BY <2>2, <2>4, DepsBehind
  <1> QED
    BY <1>1, Inductive, PTL

\* Nothing of a request is left in the pool once every node of it is finished.
LEMMA FinishedQuiet ==
  ASSUME IInv, NEW r \in Requests, finished[r] = Nodes
  PROVE  /\ \A n \in Nodes : runs[r][n] = 1 /\ Running(r, n) = {}
         /\ \A k \in 1..Len(queue) : queue[k][1] # r
  <1> USE DEF IInv
  <1>1. \A n \in Nodes : runs[r][n] = 1
    BY DEF CountInv
  <1>2. \A n \in Nodes : Running(r, n) = {}
    <2> SUFFICES ASSUME NEW n \in Nodes, NEW w \in Workers, task[w] = <<r, n>>,
                        wpc[w] \in {"enter", "process"}
                 PROVE  FALSE
      BY DEF Running
    <2> QED
      BY DEF BusyInv
  <1>3. \A k \in 1..Len(queue) : queue[k][1] # r
    BY <1>1, QueueTasks DEF QueueInv
  <1> QED
    BY <1>1, <1>2, <1>3

\* After Execute has returned no closure of the request is left anywhere: the
\* Session pointer is not used any more and the outputs handed over are final.
THEOREM QuietTheorem == ASSUME ListedBefore PROVE Spec => []ReturnsQuiet
  <1>1. IInv => ReturnsQuiet
    <2> SUFFICES ASSUME IInv, NEW r \in Requests, epc[r] = "returned"
                 PROVE  /\ \A n \in Nodes : runs[r][n] >= 1 /\ Running(r, n) = {}
                        /\ \A k \in DOMAIN queue : queue[k][1] # r
                        /\ outputs[r] = items[r] \ Disabled
      BY DEF ReturnsQuiet
    <2>1. finished[r] = Nodes /\ outputs[r] = items[r] \ Disabled
      BY DEF IInv, ReturnInv
    <2>2. DOMAIN queue = 1..Len(queue)
      BY DEF IInv, TypeOK
    <2> QED
      BY <2>1, <2>2, FinishedQuiet
  <1> QED
    BY <1>1, Inductive, PTL

-----------------------------------------------------------------------------
(* The wake-up protocol, for every graph.                                  *)

LEMMA NextWake == TypeOK /\ WakeInv /\ [Next]_vars => WakeInv'
  <1> SUFFICES ASSUME TypeOK, WakeInv, [Next]_vars,
                      NEW q \in Requests, epc'[q] \in {"park", "asleep"}, completed'[q] = N
               PROVE  \E w \in Workers : wpc'[w] = "notify" /\ task'[w][1] = q
    BY DEF WakeInv
  \* A step that moves neither the caller into the wait nor a worker out of Notify.
  <1>1. ASSUME completed'[q] = completed[q], epc[q] \in {"park", "asleep"},
               \A w \in Workers : wpc[w] = "notify" => wpc'[w] = "notify" /\ task'[w] = task[w]
        PROVE  \E w \in Workers : wpc'[w] = "notify" /\ task'[w][1] = q
    BY <1>1 DEF WakeInv
  <1>2. CASE UNCHANGED vars
    BY <1>1, <1>2 DEF vars, callVars, workerVars
  <1>3. ASSUME NEW r \in Requests, Caller(r) \/ SpuriousWakeup(r) \/ SessionExpires(r)
        PROVE  \E w \in Workers : wpc'[w] = "notify" /\ task'[w][1] = q
    <2>1. UNCHANGED <<completed, wpc, task>>
      BY <1>3 DEF Caller, Begin, SubmitRoot, SubmitDone, Lock, TestCompleted, Park, Collect,
                  SpuriousWakeup, SessionExpires, workerVars
    <2>2. epc'[q] = epc[q] \/ (q = r /\ TestCompleted(r)) \/ (q = r /\ Park(r))
      BY <1>3 DEF Caller, Begin, SubmitRoot, SubmitDone, Lock, TestCompleted, Park, Collect,
                  SpuriousWakeup, SessionExpires, TypeOK
    <2>3. epc[q] \in {"park", "asleep"}
      BY <2>1, <2>2 DEF TestCompleted, Park, TypeOK
    <2> QED
      BY <1>1, <2>1, <2>3
  <1>4. ASSUME NEW w \in Workers, Worker(w)
        PROVE  \E v \in Workers : wpc'[v] = "notify" /\ task'[v][1] = q
    <2>1. CASE TakeTask(w) \/ SkipNode(w) \/ StartProcessor(w) \/ FinishProcessor(w)
               \/ DecrementDown(w) \/ SubmitDown(w)
      <3>1. /\ wpc[w] # "notify" /\ UNCHANGED <<completed, epc>>
            /\ \A v \in Workers \ {w} : wpc'[v] = wpc[v] /\ task'[v] = task[v]
        BY <2>1 DEF TakeTask, SkipNode, StartProcessor, FinishProcessor, DecrementDown, SubmitDown,
                    callVars, TypeOK
      <3> QED
        BY <1>1, <3>1
    <2>2. CASE CountCompleted(w)
      <3>1. wpc[w] = "advance" /\ task[w][1] \in Requests
        BY <2>2, WorkerTask DEF CountCompleted
      <3>2. CASE q = task[w][1]
        <4>1. completed'[q] = completed[q] + 1
          BY <2>2, <3>1, <3>2 DEF CountCompleted, TypeOK
        <4>2. wpc'[w] = "notify" /\ task'[w] = task[w]
          BY <2>2, <3>2, <4>1 DEF CountCompleted, TypeOK
        <4> QED
          BY <3>2, <4>2
      <3>3. CASE q # task[w][1]
        <4>1. /\ completed'[q] = completed[q] /\ epc'[q] = epc[q]
              /\ \A v \in Workers \ {w} : wpc'[v] = wpc[v] /\ task'[v] = task[v]
          BY <2>2, <3>3 DEF CountCompleted, TypeOK
        <4> QED
          BY <1>1, <3>1, <4>1
      <3> QED
        BY <3>2, <3>3
    <2>3. CASE Notify(w)
      <3>1. /\ wpc[w] = "notify" /\ task[w][1] \in Requests /\ epc[task[w][1]] # "park"
            /\ completed' = completed
            /\ epc' = [epc EXCEPT ![task[w][1]] = IF @ = "asleep" THEN "lock" ELSE @]
            /\ \A v \in Workers \ {w} : wpc'[v] = wpc[v] /\ task'[v] = task[v]
        BY <2>3, WorkerTask DEF Notify, MutexFree, TypeOK
      <3>2. q # task[w][1] /\ epc'[q] = epc[q]
        BY <3>1 DEF TypeOK
      <3>3. PICK v \in Workers : wpc[v] = "notify" /\ task[v][1] = q
        BY <3>1, <3>2 DEF WakeInv
      <3> QED
        BY <3>1, <3>2, <3>3
    <2> QED
      BY <1>4, <2>1, <2>2, <2>3 DEF Worker
  <1> QED
    BY <1>2, <1>3, <1>4 DEF Next, AllReturned

\* For every graph: a caller that sleeps although every node is counted has a
\* notification coming, because the notifier takes the mutex the caller holds
\* from its test until it is asleep.
THEOREM WakeTheorem == Spec => []NoLostWakeup
  <1>1. Init => WakeInv
    BY DEF Init, WakeInv
  <1>2. WakeInv => NoLostWakeup
    BY DEF WakeInv, NoLostWakeup
  <1> QED
    BY <1>1, <1>2, NextWake, TypeCorrect, PTL DEF Spec

-----------------------------------------------------------------------------
(* Execute implements DagSchedule.                                         *)

CallState(r) ==
    CASE epc[r] = "idle" -> "idle"
      [] epc[r] = "returned" -> "returned"
      [] OTHER -> "running"

LEMMA InitSchedule == Init => Promise!Init
  <1> SUFFICES ASSUME Init PROVE Promise!Init
    OBVIOUS
  <1>1. \A r \in Requests : epc[r] = "idle"
    BY DEF Init
  <1>2. \A r \in Requests, n \in Nodes : Running(r, n) = {} /\ runs[r][n] = 0
    BY DEF Init, Running
  <1>3. \A r \in Requests : BusyNodes(r) = {} /\ DoneNodes(r) = {}
    BY <1>2 DEF BusyNodes, DoneNodes
  <1> QED
    BY <1>1, <1>3 DEF Init, Promise!Init

\* A step in which no worker enters or leaves the body of ExecuteNode and no
\* call begins or returns is a stutter.
LEMMA StutterSchedule ==
  ASSUME UNCHANGED <<deps, runs>>,
         \A r \in Requests : CallState(r)' = CallState(r),
         \A r \in Requests, n \in Nodes : Running(r, n)' = Running(r, n)
  PROVE  UNCHANGED Promise!vars
  <1>1. \A r \in Requests : BusyNodes(r)' = BusyNodes(r)
    BY DEF BusyNodes
  <1>2. \A r \in Requests : DoneNodes(r)' = DoneNodes(r)
    BY <1>1 DEF DoneNodes
  <1> QED
    BY <1>1, <1>2 DEF Promise!vars, CallState

\* Taking a task starts its node.
LEMMA TakeTaskStarts ==
  ASSUME IInv, NEW w \in Workers, TakeTask(w)
  PROVE  Promise!Next
  <1> USE DEF IInv
  <1> DEFINE r == queue[1][1]
             n == queue[1][2]
             busy == [q \in Requests |-> BusyNodes(q)]
             done == [q \in Requests |-> DoneNodes(q)]
  <1>0. /\ wpc[w] = "idle" /\ wpc' = [wpc EXCEPT ![w] = "enter"]
        /\ task' = [task EXCEPT ![w] = queue[1]]
        /\ runs' = [runs EXCEPT ![r][n] = @ + 1]
        /\ UNCHANGED <<deps, epc>>
        /\ 1 \in 1..Len(queue)
    <2>1. queue # <<>> /\ queue \in Seq(Tasks)
      BY DEF TakeTask, TypeOK
    <2>2. Head(queue) = queue[1] /\ 1 \in 1..Len(queue)
      BY <2>1
    <2> QED
      BY <2>2 DEF TakeTask, callVars
  <1>1. /\ queue[1] = <<r, n>> /\ r \in Requests /\ n \in Nodes
        /\ n \in claimed[r] /\ runs[r][n] = 0
    BY <1>0, QueueTasks DEF QueueInv
  <1>2. /\ runs'[r][n] = 1
        /\ \A q \in Requests, m \in Nodes : q # r \/ m # n => runs'[q][m] = runs[q][m]
    <2>1. runs \in [Requests -> [Nodes -> Nat]]
      BY DEF TypeOK
    <2> QED
      BY <1>0, <1>1, <2>1
  <1>3. \A v \in Workers : wpc[v] # "idle" => task[v] # <<r, n>>
    <2> SUFFICES ASSUME NEW v \in Workers, wpc[v] # "idle", task[v] = <<r, n>>
                 PROVE  FALSE
      OBVIOUS
    <2>1. runs[task[v][1]][task[v][2]] = 1 /\ task[v][1] = r /\ task[v][2] = n
      BY WorkerNode
    <2> QED
      BY <1>1, <2>1
  <1>4. \A q \in Requests, m \in Nodes :
          Running(q, m)' = IF q = r /\ m = n THEN {w} ELSE Running(q, m)
    <2>1. /\ task'[w] = <<r, n>> /\ wpc'[w] = "enter"
          /\ \A v \in Workers \ {w} : task'[v] = task[v] /\ wpc'[v] = wpc[v]
      BY <1>0, <1>1 DEF TypeOK
    <2> SUFFICES ASSUME NEW q \in Requests, NEW m \in Nodes
                 PROVE  Running(q, m)' = IF q = r /\ m = n THEN {w} ELSE Running(q, m)
      OBVIOUS
    <2>2. CASE q = r /\ m = n
      BY <1>3, <2>1, <2>2 DEF Running
    <2>3. CASE q # r \/ m # n
      BY <1>0, <2>1, <2>3 DEF Running
    <2> QED
      BY <2>2, <2>3
  <1>5. Running(r, n) = {}
    BY <1>3 DEF Running
  <1>6. \A q \in Requests : BusyNodes(q)' = IF q = r THEN BusyNodes(q) \union {n} ELSE BusyNodes(q)
    BY <1>1, <1>4 DEF BusyNodes
  <1>7. \A q \in Requests : DoneNodes(q)' = DoneNodes(q)
    <2> SUFFICES ASSUME NEW q \in Requests
                 PROVE  DoneNodes(q)' = DoneNodes(q)
      OBVIOUS
    <2>1. DoneNodes(q)' = {m \in Nodes : runs'[q][m] >= 1} \ BusyNodes(q)'
      BY DEF DoneNodes
    <2>2. CASE q = r
      <3>1. n \notin DoneNodes(r)
        BY <1>1 DEF DoneNodes
      <3> QED
        BY <1>1, <1>2, <1>6, <2>1, <2>2, <3>1 DEF DoneNodes
    <2>3. CASE q # r
      BY <1>2, <1>6, <2>1, <2>3 DEF DoneNodes
    <2> QED
      BY <2>2, <2>3
  <1>8. n \notin busy[r] \union done[r]
    BY <1>1, <1>5 DEF BusyNodes, DoneNodes
  <1>9. deps[n] \subseteq done[r]
    BY <1>1, DepsBehind DEF BusyNodes, DoneNodes
  <1>10. CallState(r) = "running"
    <2>1. epc[r] # "idle"
      BY <1>1 DEF ClaimInv
    <2>2. epc[r] # "returned"
      BY <1>1 DEF ReturnInv, CountInv
    <2> QED
      BY <2>1, <2>2 DEF CallState
  <1>11. Promise!StartNode(r, n)
    <2>1. busy' = [busy EXCEPT ![r] = @ \union {n}]
      BY <1>1, <1>6
    <2>2. done' = done
      BY <1>7
    <2> QED
      BY <1>0, <1>1, <1>8, <1>9, <1>10, <2>1, <2>2 DEF Promise!StartNode, CallState
  <1> QED
    BY <1>1, <1>11 DEF Promise!Next, Promise!Nodes, Nodes

\* Leaving the body of ExecuteNode finishes the node.
LEMMA BodyFinishes ==
  ASSUME IInv, NEW w \in Workers, SkipNode(w) \/ FinishProcessor(w)
  PROVE  Promise!Next
  <1> USE DEF IInv
  <1> DEFINE r == task[w][1]
             n == task[w][2]
             busy == [q \in Requests |-> BusyNodes(q)]
             done == [q \in Requests |-> DoneNodes(q)]
  <1>0. /\ wpc[w] \in {"enter", "process"} /\ wpc' = [wpc EXCEPT ![w] = "advance"]
        /\ UNCHANGED <<deps, epc, task, runs>>
    BY DEF SkipNode, FinishProcessor, callVars, history
  <1>1. /\ r \in Requests /\ n \in Nodes /\ task[w] = <<r, n>> /\ runs[r][n] = 1
        /\ \A v \in Workers : task[v] = <<r, n>> => v = w
    BY <1>0, WorkerNode DEF BusyInv
  <1>2. \A q \in Requests, m \in Nodes :
          Running(q, m)' = IF q = r /\ m = n THEN {} ELSE Running(q, m)
    <2>1. wpc'[w] = "advance" /\ \A v \in Workers \ {w} : wpc'[v] = wpc[v]
      BY <1>0 DEF TypeOK
    <2> SUFFICES ASSUME NEW q \in Requests, NEW m \in Nodes
                 PROVE  Running(q, m)' = IF q = r /\ m = n THEN {} ELSE Running(q, m)
      OBVIOUS
    <2>2. CASE q = r /\ m = n
      BY <1>0, <1>1, <2>1, <2>2 DEF Running
    <2>3. CASE q # r \/ m # n
      BY <1>0, <1>1, <2>1, <2>3 DEF Running
    <2> QED
      BY <2>2, <2>3
  <1>3. n \in BusyNodes(r)
    BY <1>0, <1>1 DEF BusyNodes, Running
  <1>4. \A q \in Requests : BusyNodes(q)' = IF q = r THEN BusyNodes(q) \ {n} ELSE BusyNodes(q)
    BY <1>1, <1>2 DEF BusyNodes
  <1>5. \A q \in Requests : DoneNodes(q)' = IF q = r THEN DoneNodes(q) \union {n} ELSE DoneNodes(q)
    BY <1>0, <1>1, <1>3, <1>4 DEF DoneNodes
  <1>6. Promise!FinishNode(r, n)
    <2>1. busy' = [busy EXCEPT ![r] = @ \ {n}]
      BY <1>1, <1>4
    <2>2. done' = [done EXCEPT ![r] = @ \union {n}]
      BY <1>1, <1>5
    <2> QED
      BY <1>0, <1>1, <1>3, <2>1, <2>2 DEF Promise!FinishNode
  <1> QED
    BY <1>1, <1>6 DEF Promise!Next, Promise!Nodes, Nodes

LEMMA NextSchedule == IInv /\ [Next]_vars => [Promise!Next]_(Promise!vars)
  <1> SUFFICES ASSUME IInv, [Next]_vars PROVE Promise!Next \/ UNCHANGED Promise!vars
    OBVIOUS
  <1> USE DEF IInv
  \* Which steps leave the bodies of ExecuteNode alone.
  <1>0. ASSUME UNCHANGED <<wpc, task>>
        PROVE  \A q \in Requests, m \in Nodes : Running(q, m)' = Running(q, m)
    BY <1>0 DEF Running
  <1>1. CASE UNCHANGED vars
    BY <1>0, <1>1, StutterSchedule DEF vars, callVars, workerVars, history, CallState
  <1>2. ASSUME NEW r \in Requests, Caller(r) \/ SpuriousWakeup(r) \/ SessionExpires(r)
        PROVE  Promise!Next \/ UNCHANGED Promise!vars
    <2>1. UNCHANGED <<deps, runs, wpc, task>>
      BY <1>2 DEF Caller, Begin, SubmitRoot, SubmitDone, Lock, TestCompleted, Park, Collect,
                  SpuriousWakeup, SessionExpires, workerVars, history
    <2>2. /\ \A q \in Requests, m \in Nodes : Running(q, m)' = Running(q, m)
          /\ \A q \in Requests : BusyNodes(q)' = BusyNodes(q)
          /\ \A q \in Requests : DoneNodes(q)' = DoneNodes(q)
      <3>1. \A q \in Requests, m \in Nodes : Running(q, m)' = Running(q, m)
        BY <1>0, <2>1
      <3>2. \A q \in Requests : BusyNodes(q)' = BusyNodes(q)
        BY <3>1 DEF BusyNodes
      <3> QED
        BY <2>1, <3>1, <3>2 DEF DoneNodes
    <2>3. CASE Begin(r)
      <3>1. epc[r] = "idle" /\ epc' = [epc EXCEPT ![r] = "submit"] /\ epc'[r] = "submit"
        BY <2>3 DEF Begin, TypeOK
      <3>2. [q \in Requests |-> CallState(q)]' = [[q \in Requests |-> CallState(q)] EXCEPT ![r] = "running"]
        BY <3>1 DEF CallState, TypeOK
      <3>3. Promise!Begin(r)
        BY <2>1, <2>2, <3>1, <3>2 DEF Promise!Begin, CallState
      <3> QED
        BY <3>3 DEF Promise!Next
    <2>4. CASE Collect(r)
      <3>1. epc[r] = "collect" /\ epc' = [epc EXCEPT ![r] = "returned"] /\ epc'[r] = "returned"
        BY <2>4 DEF Collect, TypeOK
      <3>2. [q \in Requests |-> CallState(q)]' = [[q \in Requests |-> CallState(q)] EXCEPT ![r] = "returned"]
        BY <3>1 DEF CallState, TypeOK
      <3>3. DoneNodes(r) = Nodes
        BY <3>1, FinishedQuiet DEF ReturnInv, DoneNodes, BusyNodes
      <3>4. Promise!Return(r)
        BY <2>1, <2>2, <3>1, <3>2, <3>3 DEF Promise!Return, CallState, Promise!Nodes, Nodes
      <3> QED
        BY <3>4 DEF Promise!Next
    <2>5. CASE ~Begin(r) /\ ~Collect(r)
      <3>1. \A q \in Requests : CallState(q)' = CallState(q)
        BY <1>2, <2>5 DEF Caller, SubmitRoot, SubmitDone, Lock, TestCompleted, Park, SpuriousWakeup,
                          SessionExpires, CallState, TypeOK
      <3> QED
        BY <2>1, <2>2, <3>1, StutterSchedule
    <2> QED
      BY <2>3, <2>4, <2>5
  <1>3. ASSUME NEW w \in Workers, Worker(w)
        PROVE  Promise!Next \/ UNCHANGED Promise!vars
    <2>1. CASE TakeTask(w)
      BY <2>1, TakeTaskStarts
    <2>2. CASE SkipNode(w) \/ FinishProcessor(w)
      BY <2>2, BodyFinishes
    <2>3. CASE StartProcessor(w) \/ DecrementDown(w) \/ SubmitDown(w) \/ CountCompleted(w) \/ Notify(w)
      <3>1. /\ UNCHANGED <<deps, runs>>
            /\ \A q \in Requests : CallState(q)' = CallState(q)
        BY <2>3 DEF StartProcessor, DecrementDown, SubmitDown, CountCompleted, Notify, callVars,
                    history, CallState, TypeOK
      <3>2. /\ \A v \in Workers \ {w} : wpc'[v] = wpc[v] /\ task'[v] = task[v]
            /\ \/ wpc[w] = "enter" /\ wpc'[w] = "process" /\ task'[w] = task[w]
               \/ wpc[w] \notin {"enter", "process"} /\ wpc'[w] \notin {"enter", "process"}
        BY <2>3 DEF StartProcessor, DecrementDown, SubmitDown, CountCompleted, Notify, callVars,
                    history, TypeOK
      <3>3. \A q \in Requests, m \in Nodes : Running(q, m)' = Running(q, m)
        BY <3>2 DEF Running
      <3> QED
        BY <3>1, <3>3, StutterSchedule
    <2> QED
      BY <1>3, <2>1, <2>2, <2>3 DEF Worker
  <1> QED
    BY <1>1, <1>2, <1>3 DEF Next, AllReturned

\* Every behaviour of the event-driven execution is one of the schedule it
\* promises: each node once, after its dependencies, and return after all.
THEOREM ImplementsTheorem == ASSUME ListedBefore PROVE Spec => ImplementsSchedule
  <1> QED
    BY InitSchedule, NextSchedule, Inductive, PTL DEF Spec, Promise!Spec, ImplementsSchedule

-----------------------------------------------------------------------------
(* DagThreadPool: the inductive invariant.                                 *)

\* The owner is in a Shutdown exactly while the pool is started and stopped;
\* workers exist while it is started, and none sleeps once it is notified.
OwnerInv ==
    /\ ctl # "idle" <=> started /\ stop
    /\ started <=> \A w \in Threads : tpc[w] # "none"
    /\ ~started => \A w \in Threads : tpc[w] = "none"
    /\ ~stop \/ ~started => \A w \in Threads : tpc[w] # "exited"
    /\ ctl = "join" => \A w \in Threads : tpc[w] # "asleep"

\* A task that is not late stays with the workers: as long as one is queued,
\* some worker has not returned.
DrainInv ==
    /\ started /\ (\A w \in Threads : tpc[w] = "exited") => Range(tasks) \subseteq late
    /\ ~started => Range(tasks) \subseteq late

\* The wake-up protocol in inductive form: all asleep with a task queued
\* happens only between a push and its notification, or in Shutdown.
StuckInv ==
    started /\ tasks # <<>> /\ (\A w \in Threads : tpc[w] \in {"asleep", "exited"})
            /\ ctl = "idle" => notifiers # {}

PoolIInv == PoolTypeOK /\ OwnerInv /\ DrainInv /\ StuckInv

-----------------------------------------------------------------------------
LEMMA PoolInitType == PoolInit => PoolTypeOK
  <1> SUFFICES ASSUME PoolInit PROVE PoolTypeOK
    OBVIOUS
  <1>1. <<>> \in Seq(Closures) /\ 0 \in Nat
    OBVIOUS
  <1>2. \A w \in Threads : current[w] = NoClosure /\ tpc[w] = "none"
    BY DEF PoolInit
  <1> QED
    BY <1>1, <1>2 DEF PoolInit, PoolTypeOK

LEMMA PoolNextType == PoolTypeOK /\ OwnerInv /\ [PoolNext]_poolVars => PoolTypeOK'
  <1> SUFFICES ASSUME PoolTypeOK, OwnerInv, [PoolNext]_poolVars PROVE PoolTypeOK'
    OBVIOUS
  <1> USE NoClosureAssumption, ChildAssumption DEF PoolTypeOK
  <1>1. CASE UNCHANGED poolVars
    BY <1>1 DEF poolVars
  <1>2. CASE Owner
    <2>1. CASE StartPool
      <3>1. /\ starts' \in Nat
            /\ \A w \in Threads : (current[w] # NoClosure) = FALSE
        BY <2>1 DEF StartPool, OwnerInv
      <3> QED
        BY <2>1, <3>1 DEF StartPool
    <2>2. CASE ShutdownStop
      BY <2>2 DEF ShutdownStop
    <2>3. CASE ShutdownNotify
      BY <2>3 DEF ShutdownNotify
    <2>4. CASE ShutdownJoin
      BY <2>4 DEF ShutdownJoin
    <2> QED
      BY <1>2, <2>1, <2>2, <2>3, <2>4 DEF Owner
  <1>3. ASSUME NEW t \in Closures, ClientSubmit(t) PROVE PoolTypeOK'
    BY <1>3 DEF ClientSubmit, Push
  <1>4. ASSUME NEW t \in Closures, ClientNotify(t) PROVE PoolTypeOK'
    BY <1>4 DEF ClientNotify, WakeOne
  <1>5. ASSUME NEW w \in Threads, WorkerLoop(w) PROVE PoolTypeOK'
    <2>1. CASE Sleep(w) \/ Exit(w)
      BY <2>1 DEF Sleep, Exit
    <2>2. CASE Take(w)
      <3>1. Head(tasks) \in Closures /\ Tail(tasks) \in Seq(Closures)
        BY <2>2 DEF Take
      <3> QED
        BY <2>2, <3>1 DEF Take
    <2>3. CASE RunSubmit(w)
      <3>1. current[w] \in Closures /\ Child[current[w]] \in Closures
        BY <2>3 DEF RunSubmit
      <3> QED
        BY <2>3, <3>1 DEF RunSubmit, Push
    <2>4. CASE RunNotify(w)
      BY <2>4 DEF RunNotify, WakeOne
    <2>5. CASE RunEnd(w)
      BY <2>5 DEF RunEnd
    <2> QED
      BY <1>5, <2>1, <2>2, <2>3, <2>4, <2>5 DEF WorkerLoop
  <1>6. ASSUME NEW w \in Threads, PoolSpuriousWakeup(w) PROVE PoolTypeOK'
    BY <1>6 DEF PoolSpuriousWakeup
  <1> QED
    BY <1>1, <1>2, <1>3, <1>4, <1>5, <1>6 DEF PoolNext, Finished

-----------------------------------------------------------------------------
(* What notify_one does, and what a push does to the queued tasks.         *)

LEMMA WakeOneEffect ==
  ASSUME NEW before, NEW after,
         before \in [Threads -> {"none", "test", "asleep", "run", "pushed", "ran", "exited"}],
         WakeOne(before, after)
  PROVE  /\ \A w \in Threads : \/ after[w] = before[w]
                               \/ before[w] = "asleep" /\ after[w] = "test"
         /\ (\E w \in Threads : before[w] = "asleep") => \E w \in Threads : after[w] = "test"
  BY DEF WakeOne

LEMMA PushedElements ==
  ASSUME NEW S, NEW s \in Seq(S), NEW t \in S
  PROVE  Range(Append(s, t)) = Range(s) \union {t} /\ Append(s, t) # <<>>
  <1>1. /\ Append(s, t) \in Seq(S)
        /\ Len(Append(s, t)) = Len(s) + 1
        /\ Append(s, t)[Len(s) + 1] = t
        /\ \A k \in 1..Len(s) : Append(s, t)[k] = s[k]
    OBVIOUS
  <1>2. DOMAIN s = 1..Len(s) /\ DOMAIN Append(s, t) = 1..(Len(s) + 1)
    BY <1>1
  <1>3. 1..(Len(s) + 1) = 1..Len(s) \union {Len(s) + 1}
    OBVIOUS
  <1> QED
    BY <1>1, <1>2, <1>3 DEF Range

-----------------------------------------------------------------------------
LEMMA PoolInitInv == PoolInit => PoolIInv
  <1> SUFFICES ASSUME PoolInit PROVE PoolIInv
    OBVIOUS
  <1>1. Range(<<>>) = {}
    BY DEF Range
  <1> QED
    BY <1>1, PoolInitType, ThreadsAssumption DEF PoolInit, PoolIInv, OwnerInv, DrainInv, StuckInv

LEMMA PoolNextInv == PoolIInv /\ [PoolNext]_poolVars => PoolIInv'
  <1> SUFFICES ASSUME PoolIInv, [PoolNext]_poolVars PROVE PoolIInv'
    OBVIOUS
  <1>0. PoolTypeOK /\ PoolTypeOK'
    BY PoolNextType DEF PoolIInv
  <1> SUFFICES OwnerInv' /\ DrainInv' /\ StuckInv'
    BY <1>0 DEF PoolIInv
  <1> USE ThreadsAssumption DEF PoolIInv
  <1>1. CASE UNCHANGED poolVars
    BY <1>1 DEF poolVars, OwnerInv, DrainInv, StuckInv
  <1>2. CASE StartPool
    BY <1>0, <1>2 DEF StartPool, PoolTypeOK, OwnerInv, DrainInv, StuckInv
  <1>3. CASE ShutdownStop
    BY <1>0, <1>3 DEF ShutdownStop, PoolTypeOK, OwnerInv, DrainInv, StuckInv
  <1>4. CASE ShutdownNotify
    BY <1>0, <1>4 DEF ShutdownNotify, PoolTypeOK, OwnerInv, DrainInv, StuckInv
  <1>5. CASE ShutdownJoin
    BY <1>0, <1>5 DEF ShutdownJoin, PoolTypeOK, OwnerInv, DrainInv, StuckInv
  <1>6. ASSUME NEW t \in Closures, ClientSubmit(t)
        PROVE  OwnerInv' /\ DrainInv' /\ StuckInv'
    <2>1. /\ Range(tasks') = Range(tasks) \union {t}
          /\ UNCHANGED <<stop, started, ctl, tpc>>
          /\ t \in notifiers'
          /\ late' = IF stop \/ ~started THEN late \union {t} ELSE late
      BY <1>0, <1>6, PushedElements DEF ClientSubmit, Push, PoolTypeOK
    <2>2. OwnerInv' /\ StuckInv'
      BY <2>1 DEF OwnerInv, StuckInv
    <2>3. DrainInv'
      BY <2>1 DEF OwnerInv, DrainInv
    <2> QED
      BY <2>2, <2>3
  <1>7. ASSUME NEW t \in Closures, ClientNotify(t)
        PROVE  OwnerInv' /\ DrainInv' /\ StuckInv'
    <2>1. /\ UNCHANGED <<tasks, stop, started, ctl, late>>
          /\ \A w \in Threads : \/ tpc'[w] = tpc[w]
                                \/ tpc[w] = "asleep" /\ tpc'[w] = "test"
          /\ (\E w \in Threads : tpc[w] = "asleep") => \E w \in Threads : tpc'[w] = "test"
      BY <1>0, <1>7, WakeOneEffect DEF ClientNotify, PoolTypeOK
    <2>2. OwnerInv'
      BY <2>1 DEF OwnerInv
    <2>3. DrainInv'
      BY <2>1 DEF DrainInv
    <2>4. StuckInv'
      BY <2>1 DEF StuckInv, OwnerInv
    <2> QED
      BY <2>2, <2>3, <2>4
  <1>8. ASSUME NEW w \in Threads, PoolSpuriousWakeup(w)
        PROVE  OwnerInv' /\ DrainInv' /\ StuckInv'
    BY <1>0, <1>8 DEF PoolSpuriousWakeup, PoolTypeOK, OwnerInv, DrainInv, StuckInv
  <1>9. ASSUME NEW w \in Threads, WorkerLoop(w)
        PROVE  OwnerInv' /\ DrainInv' /\ StuckInv'
    <2>1. CASE Sleep(w) \/ Exit(w)
      <3>1. tasks = <<>> /\ Range(tasks) = {}
        BY <2>1 DEF Sleep, Exit, Range
      <3> QED
        BY <1>0, <2>1, <3>1 DEF Sleep, Exit, PoolTypeOK, OwnerInv, DrainInv, StuckInv
    <2>2. CASE Take(w) \/ RunEnd(w)
      BY <1>0, <2>2 DEF Take, RunEnd, PoolTypeOK, OwnerInv, DrainInv, StuckInv
    <2>3. CASE RunSubmit(w)
      BY <1>0, <2>3 DEF RunSubmit, Push, PoolTypeOK, OwnerInv, DrainInv, StuckInv
    <2>4. CASE RunNotify(w)
      <3> DEFINE before == [tpc EXCEPT ![w] = "ran"]
      <3>0. /\ tpc[w] = "pushed"
            /\ before \in [Threads -> {"none", "test", "asleep", "run", "pushed", "ran", "exited"}]
            /\ before[w] = "ran"
            /\ \A v \in Threads \ {w} : before[v] = tpc[v]
            /\ WakeOne(before, tpc')
        BY <1>0, <2>4 DEF RunNotify, PoolTypeOK
      <3>01. \A v \in Threads : \/ tpc'[v] = before[v]
                                \/ before[v] = "asleep" /\ tpc'[v] = "test"
        <4> HIDE DEF before
        <4> QED
          BY <3>0, WakeOneEffect
      <3>1. /\ tpc[w] = "pushed"
            /\ UNCHANGED <<tasks, stop, started, ctl, late, notifiers>>
            /\ tpc'[w] = "ran"
            /\ \A v \in Threads \ {w} : \/ tpc'[v] = tpc[v]
                                        \/ tpc[v] = "asleep" /\ tpc'[v] = "test"
        <4> HIDE DEF before
        <4> QED
          BY <2>4, <3>0, <3>01 DEF RunNotify
      <3> QED
        BY <3>1 DEF OwnerInv, DrainInv, StuckInv
    <2> QED
      BY <1>9, <2>1, <2>2, <2>3, <2>4 DEF WorkerLoop
  <1> QED
    BY <1>1, <1>2, <1>3, <1>4, <1>5, <1>6, <1>7, <1>8, <1>9 DEF PoolNext, Owner, Finished

\* What is inductive of WorkerLoop and Shutdown: each worker's place in its loop,
\* and what the queue and the flag are when a worker sleeps (thread_pool.h).
THEOREM PoolInductive == PoolSpec => []PoolIInv
  BY PoolInitInv, PoolNextInv, PTL DEF PoolSpec

\* The variables keep their types.
THEOREM PoolTypeCorrect == PoolSpec => []PoolTypeOK
  <1>1. PoolIInv => PoolTypeOK
    BY DEF PoolIInv
  <1> QED
    BY <1>1, PoolInductive, PTL

\* No lost wake-up in WorkerLoop and Submit, dag_thread_pool.h:54-84: no task
\* waits with all the workers asleep and nobody on the way to notify.
THEOREM NoStuckTheorem == PoolSpec => []NoStuckTask
  <1>1. PoolIInv => NoStuckTask
    BY ThreadsAssumption DEF PoolIInv, OwnerInv, DrainInv, StuckInv, NoStuckTask
  <1> QED
    BY <1>1, PoolInductive, PTL

\* Shutdown, dag_thread_pool.h:39-51, leaves no task behind except those that
\* were submitted to a pool that was stopped already.
THEOREM DrainTheorem == PoolSpec => []ShutdownDrains
  <1>1. PoolIInv => ShutdownDrains
    BY DEF PoolIInv, OwnerInv, DrainInv, ShutdownDrains
  <1> QED
    BY <1>1, PoolInductive, PTL

-----------------------------------------------------------------------------
(* Order.  That no task is started twice rests on more than the queue: a   *)
(* task submits its child when it runs, so the tasks taken, the tasks that *)
(* run and the children submitted have to fit together.                    *)

\* A running task was taken and is run by one worker; a child is submitted
\* by its parent only, after the parent was taken and once.
OnceInv ==
    /\ \A w \in Threads : current[w] # NoClosure => current[w] \in Range(taken)
    /\ \A v, w \in Threads : current[v] = current[w] /\ current[v] # NoClosure => v = w
    /\ \A t \in Closures : Child[t] \in Range(submitted) =>
          /\ t \in Range(taken)
          /\ \A w \in Threads : current[w] = t => tpc[w] # "run"

OrderInv == StartedInOrder /\ OnceInv

Distinct(s) == \A k, l \in DOMAIN s : s[k] = s[l] => k = l

LEMMA DistinctAppend ==
  ASSUME NEW S, NEW s \in Seq(S), NEW t \in S, Distinct(s), t \notin Range(s)
  PROVE  Distinct(Append(s, t))
  <1>1. /\ Append(s, t) \in Seq(S)
        /\ Len(Append(s, t)) = Len(s) + 1
        /\ Append(s, t)[Len(s) + 1] = t
        /\ \A k \in 1..Len(s) : Append(s, t)[k] = s[k]
    OBVIOUS
  <1>2. DOMAIN s = 1..Len(s) /\ DOMAIN Append(s, t) = 1..(Len(s) + 1)
    BY <1>1
  <1>3. 1..(Len(s) + 1) = 1..Len(s) \union {Len(s) + 1}
    OBVIOUS
  <1>4. \A k \in 1..Len(s) : s[k] # t
    BY <1>2 DEF Range
  <1> QED
    BY <1>1, <1>2, <1>3, <1>4 DEF Distinct

LEMMA AppendToTheRest ==
  ASSUME NEW r \in Seq(Closures), NEW q \in Seq(Closures), NEW t \in Closures
  PROVE  Append(r \o q, t) = r \o Append(q, t)
  OBVIOUS

\* The head of the rest moves to what comes first.
LEMMA HeadMoves ==
  ASSUME NEW S, NEW r \in Seq(S), NEW q \in Seq(S), q # <<>>
  PROVE  Append(r, Head(q)) \o Tail(q) = r \o q
  OBVIOUS

\* Of a sequence without repetition, the head of the rest is not in the first part.
LEMMA HeadIsNew ==
  ASSUME NEW S, NEW r \in Seq(S), NEW q \in Seq(S), q # <<>>, Distinct(r \o q)
  PROVE  Head(q) \notin Range(r)
  <1>1. /\ r \o q \in Seq(S)
        /\ Len(r \o q) = Len(r) + Len(q)
        /\ (r \o q)[Len(r) + 1] = Head(q)
        /\ \A k \in 1..Len(r) : (r \o q)[k] = r[k]
        /\ Len(q) >= 1
    OBVIOUS
  <1>2. DOMAIN r = 1..Len(r) /\ DOMAIN (r \o q) = 1..(Len(r) + Len(q))
    BY <1>1
  <1>3. \A k \in 1..Len(r) : k \in DOMAIN (r \o q) /\ Len(r) + 1 \in DOMAIN (r \o q) /\ k # Len(r) + 1
    BY <1>1, <1>2
  <1> QED
    BY <1>1, <1>2, <1>3 DEF Range, Distinct

LEMMA InitOrder == PoolInit => OrderInv
  <1> SUFFICES ASSUME PoolInit PROVE OrderInv
    OBVIOUS
  <1>1. Range(<<>>) = {} /\ <<>> = <<>> \o <<>> /\ DOMAIN <<>> = {}
    BY DEF Range
  <1> QED
    BY <1>1 DEF PoolInit, OrderInv, StartedInOrder, OnceInv

LEMMA PushedTasks ==
  ASSUME NEW s \in Seq(Closures), NEW t \in Closures
  PROVE  Range(Append(s, t)) = Range(s) \union {t}
  BY PushedElements

\* A task that was not submitted before, and whose parent is either nobody or
\* the task that some worker has just run, may be pushed.
LEMMA PushKeepsOrder ==
  ASSUME PoolTypeOK, StartedInOrder, NEW t \in Closures, t \notin Range(submitted), Push(t),
         taken' = taken
  PROVE  StartedInOrder' /\ Range(submitted') = Range(submitted) \union {t}
  <1>1. /\ submitted \in Seq(Closures) /\ taken \in Seq(Closures) /\ tasks \in Seq(Closures)
        /\ submitted = taken \o tasks
        /\ submitted' = Append(submitted, t) /\ tasks' = Append(tasks, t)
        /\ Distinct(submitted)
    BY DEF PoolTypeOK, StartedInOrder, Push, Distinct
  <1>2. Distinct(submitted')
    BY <1>1, DistinctAppend
  <1>3. submitted' = taken' \o tasks'
    <2>1. Append(taken \o tasks, t) = taken \o Append(tasks, t)
      BY <1>1, AppendToTheRest, Zenon
    <2> QED
      BY <1>1, <2>1, Zenon
  <1>4. Range(submitted') = Range(submitted) \union {t}
    <2>1. Range(Append(submitted, t)) = Range(submitted) \union {t}
      BY <1>1, PushedTasks, Zenon
    <2> QED
      BY <1>1, <2>1, Zenon
  <1> QED
    BY <1>2, <1>3, <1>4 DEF StartedInOrder, Distinct

LEMMA NextOrder == PoolTypeOK /\ OrderInv /\ [PoolNext]_poolVars => OrderInv'
  <1> SUFFICES ASSUME PoolTypeOK, OrderInv, [PoolNext]_poolVars PROVE OrderInv'
    OBVIOUS
  <1> USE DEF OrderInv
  <1>1. ASSUME UNCHANGED <<tasks, submitted, taken>>,
               \A w \in Threads : current'[w] \in {current[w], NoClosure},
               \A w \in Threads : tpc'[w] = "run" => tpc[w] = "run"
        PROVE  OrderInv'
    BY <1>1, NoClosureAssumption DEF StartedInOrder, OnceInv
  <1>2. CASE UNCHANGED poolVars
    BY <1>1, <1>2 DEF poolVars
  <1>3. CASE StartPool \/ ShutdownJoin
    BY <1>1, <1>3 DEF StartPool, ShutdownJoin
  <1>4. CASE ShutdownStop \/ ShutdownNotify
    BY <1>1, <1>4 DEF ShutdownStop, ShutdownNotify
  <1>5. ASSUME NEW t \in Closures, ClientSubmit(t) PROVE OrderInv'
    <2>1. /\ Push(t) /\ t \notin Range(submitted) /\ t \notin Children
          /\ UNCHANGED <<taken, current, tpc>>
      BY <1>5 DEF ClientSubmit
    <2>2. StartedInOrder' /\ Range(submitted') = Range(submitted) \union {t}
      BY <2>1, PushKeepsOrder
    <2>3. \A u \in Closures : Child[u] # t
      BY <2>1, NoClosureAssumption DEF Children
    <2> QED
      BY <2>1, <2>2, <2>3 DEF OnceInv
  <1>6. ASSUME NEW t \in Closures, ClientNotify(t) PROVE OrderInv'
    <2>1. \A w \in Threads : tpc'[w] = tpc[w] \/ tpc'[w] = "test"
      BY <1>6, WakeOneEffect DEF ClientNotify, PoolTypeOK
    <2> QED
      BY <1>1, <1>6, <2>1 DEF ClientNotify
  <1>7. ASSUME NEW w \in Threads, PoolSpuriousWakeup(w) \/ Sleep(w) \/ Exit(w) PROVE OrderInv'
    <2>1. \A v \in Threads : tpc'[v] = "run" => tpc[v] = "run"
      BY <1>7 DEF PoolSpuriousWakeup, Sleep, Exit, PoolTypeOK
    <2> QED
      BY <1>1, <1>7, <2>1 DEF PoolSpuriousWakeup, Sleep, Exit
  <1>8. ASSUME NEW w \in Threads, Take(w) PROVE OrderInv'
    <2> DEFINE h == Head(tasks)
    <2>1. /\ tasks # <<>> /\ tasks \in Seq(Closures) /\ taken \in Seq(Closures) /\ h \in Closures
          /\ submitted = taken \o tasks /\ Distinct(submitted)
          /\ taken' = Append(taken, h) /\ tasks' = Tail(tasks) /\ submitted' = submitted
          /\ current' = [current EXCEPT ![w] = h] /\ tpc' = [tpc EXCEPT ![w] = "run"]
      BY <1>8 DEF Take, PoolTypeOK, StartedInOrder, Distinct
    <2>2. h \notin Range(taken)
      BY <2>1, HeadIsNew
    <2>3. submitted' = taken' \o tasks'
      BY <2>1, HeadMoves
    <2>4. Range(taken') = Range(taken) \union {h}
      BY <2>1, PushedTasks
    <2>5. StartedInOrder'
      BY <2>1, <2>3 DEF StartedInOrder, Distinct
    <2>6. Child[h] \notin Range(submitted) /\ \A v \in Threads : current[v] # h
      BY <2>1, <2>2, NoClosureAssumption DEF OnceInv
    <2> HIDE DEF h
    <2>7. OnceInv'
      BY <2>1, <2>4, <2>6 DEF OnceInv, PoolTypeOK
    <2> QED
      BY <2>5, <2>7
  <1>9. ASSUME NEW w \in Threads, RunSubmit(w) PROVE OrderInv'
    <2> DEFINE p == current[w]
    <2>1. /\ tpc[w] = "run" /\ p \in Closures /\ Child[p] \in Closures /\ Push(Child[p])
          /\ tpc' = [tpc EXCEPT ![w] = "pushed"] /\ UNCHANGED <<taken, current>>
      BY <1>9, NoClosureAssumption, ChildAssumption DEF RunSubmit, PoolTypeOK
    <2>2. Child[p] \notin Range(submitted) /\ p \in Range(taken)
      BY <2>1, NoClosureAssumption DEF OnceInv
    <2>3. StartedInOrder' /\ Range(submitted') = Range(submitted) \union {Child[p]}
      BY <2>1, <2>2, PushKeepsOrder
    <2>4. \A u \in Closures : Child[u] = Child[p] => u = p
      BY <2>1, NoClosureAssumption, ChildAssumption
    <2>5. \A v \in Threads : current[v] = p => v = w
      BY <2>1, NoClosureAssumption DEF OnceInv
    <2> HIDE DEF p
    <2>6. OnceInv'
      BY <2>1, <2>2, <2>3, <2>4, <2>5 DEF OnceInv, PoolTypeOK
    <2> QED
      BY <2>3, <2>6
  <1>10. ASSUME NEW w \in Threads, RunNotify(w) PROVE OrderInv'
    <2> DEFINE before == [tpc EXCEPT ![w] = "ran"]
    <2>1. /\ before \in [Threads -> {"none", "test", "asleep", "run", "pushed", "ran", "exited"}]
          /\ WakeOne(before, tpc')
          /\ \A v \in Threads : before[v] = "run" => tpc[v] = "run"
      BY <1>10 DEF RunNotify, PoolTypeOK
    <2> HIDE DEF before
    <2>2. \A v \in Threads : tpc'[v] = before[v] \/ tpc'[v] = "test"
      BY <2>1, WakeOneEffect
    <2> QED
      BY <1>1, <1>10, <2>1, <2>2 DEF RunNotify
  <1>11. ASSUME NEW w \in Threads, RunEnd(w) PROVE OrderInv'
    <2>1. /\ \A v \in Threads : current'[v] \in {current[v], NoClosure}
          /\ \A v \in Threads : tpc'[v] = "run" => tpc[v] = "run"
          /\ UNCHANGED <<tasks, submitted, taken>>
      BY <1>11 DEF RunEnd, PoolTypeOK
    <2> QED
      BY <1>1, <2>1
  <1> QED
    BY <1>2, <1>3, <1>4, <1>5, <1>6, <1>7, <1>8, <1>9, <1>10, <1>11
    DEF PoolNext, Owner, WorkerLoop, Finished

\* FIFO: whatever the clients, the workers and the owner do, the tasks taken
\* and then those queued are the tasks submitted, in that order, and each was
\* submitted once.  (dag_thread_pool.h 2-4, 54-84.)
THEOREM OrderTheorem == PoolSpec => []StartedInOrder
  <1>1. PoolIInv => PoolTypeOK
    BY DEF PoolIInv
  <1>2. OrderInv => StartedInOrder
    BY DEF OrderInv
  <1> QED
    BY <1>1, <1>2, InitOrder, NextOrder, PoolInductive, PTL DEF PoolSpec

=============================================================================
