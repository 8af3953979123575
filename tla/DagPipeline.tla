---------------------------- MODULE DagPipeline ----------------------------
(***************************************************************************)
(* framework/processor/dag_pipeline.cpp: the event-driven parallel recall  *)
(* stage.  Every search request calls Execute from its own HTTP thread;    *)
(* all the requests share one DagPipeline (read-only once loaded) and one  *)
(* pool of workers that takes tasks in FIFO order.                         *)
(*                                                                         *)
(* The model keeps every shared access of the C++ code as a step of its    *)
(* own: the load of pending_deps in the root loop, each fetch_sub, each    *)
(* Submit, the fetch_add of completed, and the lock / test / sleep /       *)
(* notify protocol of the condition variable the caller waits on.          *)
(* A processor is abstracted to whether its output has items when it is    *)
(* done; its return code and its exceptions only reach the log.            *)
(***************************************************************************)
EXTENDS Integers, Sequences, FiniteSets

CONSTANTS
    Requests,   \* the calls of Execute, one per search request
    Workers,    \* threads of the DagThreadPool
    N,          \* number of nodes of the pipeline (an empty one returns at once)
    Dags,       \* the graphs LoadFromConfig may have accepted
    Disabled    \* nodes without a usable processor: disabled, unregistered, Init failed

Nodes == 1..N

ASSUME SizeAssumption == N \in Nat \ {0}
ASSUME DagsAssumption == Dags \subseteq [Nodes -> SUBSET Nodes]
ASSUME DisabledAssumption == Disabled \subseteq Nodes

VARIABLES
    deps,       \* node_configs_[i].depends_on
    queue,      \* DagThreadPool::tasks_: <<request, node>> of each submitted closure
    pending,    \* DagExecState::pending_deps, per request
    completed,  \* DagExecState::completed, per request
    items,      \* nodes whose RecallOutput has item_count > 0, per request
    timedOut,   \* Session::IsTimedOut(), per request
    epc,        \* where the caller is in Execute, per request
    next,       \* index of the root loop of Execute, per request
    outputs,    \* what Execute has returned, per request
    wpc,        \* where each worker is in ExecuteNode
    task,       \* the closure the worker is running
    todo,       \* downstream nodes the worker has not decremented yet
    ready,      \* downstream node it brought to 0 and has not submitted yet, or 0
    claimed,    \* history: nodes some thread decided to submit, per request
    runs,       \* history: how often ExecuteNode was entered, per request and node
    finished    \* history: nodes whose ExecuteNode counted itself completed

callVars   == <<pending, completed, items, timedOut, epc, next, outputs>>
workerVars == <<wpc, task, todo, ready>>
history    == <<claimed, runs, finished>>
vars == <<deps, queue, callVars, workerVars, history>>

Tasks == Requests \X Nodes
NoTask == <<"none", 0>>

\* downstream_[m], filled by BuildDag in increasing order of the dependent.
Downstream(m) == {n \in Nodes : m \in deps[n]}

\* Mutant: the notifier does not take the mutex.
NotifyUnlocked(r) == TRUE

\* The mutex state->mu is held by the caller exactly while it tests the
\* predicate of cv.wait and until it is asleep.
MutexFree(r) == epc[r] \notin {"test", "park"}

Submit(r, n) == queue' = Append(queue, <<r, n>>)

Init ==
    /\ deps \in Dags
    /\ queue = <<>>
    /\ pending = [r \in Requests |-> [n \in Nodes |-> 0]]
    /\ completed = [r \in Requests |-> 0]
    /\ items = [r \in Requests |-> {}]
    /\ timedOut = [r \in Requests |-> FALSE]
    /\ epc = [r \in Requests |-> "idle"]
    /\ next = [r \in Requests |-> 1]
    /\ outputs = [r \in Requests |-> {}]
    /\ wpc = [w \in Workers |-> "idle"]
    /\ task = [w \in Workers |-> NoTask]
    /\ todo = [w \in Workers |-> {}]
    /\ ready = [w \in Workers |-> 0]
    /\ claimed = [r \in Requests |-> {}]
    /\ runs = [r \in Requests |-> [n \in Nodes |-> 0]]
    /\ finished = [r \in Requests |-> {}]

-----------------------------------------------------------------------------
(* The caller: Execute.                                                    *)

\* Allocate and fill DagExecState.
Begin(r) ==
    /\ epc[r] = "idle"
    /\ pending' = [pending EXCEPT ![r] = [n \in Nodes |-> Cardinality(deps[n])]]
    /\ epc' = [epc EXCEPT ![r] = "submit"]
    /\ UNCHANGED <<deps, queue, completed, items, timedOut, next, outputs, workerVars, history>>

\* One round of the root loop: submit the node when its counter reads 0 now.
SubmitRoot(r) ==
    /\ epc[r] = "submit"
    /\ next[r] <= N
    /\ IF pending[r][next[r]] = 0
         THEN /\ Submit(r, next[r])
              /\ claimed' = [claimed EXCEPT ![r] = @ \union {next[r]}]
         ELSE UNCHANGED <<queue, claimed>>
    /\ next' = [next EXCEPT ![r] = @ + 1]
    /\ UNCHANGED <<deps, pending, completed, items, timedOut, epc, outputs, workerVars, runs, finished>>

SubmitDone(r) ==
    /\ epc[r] = "submit"
    /\ next[r] > N
    /\ epc' = [epc EXCEPT ![r] = "lock"]
    /\ UNCHANGED <<deps, queue, pending, completed, items, timedOut, next, outputs, workerVars, history>>

\* Acquire state->mu, first in unique_lock and again on every wake-up.
Lock(r) ==
    /\ epc[r] = "lock"
    /\ epc' = [epc EXCEPT ![r] = "test"]
    /\ UNCHANGED <<deps, queue, pending, completed, items, timedOut, next, outputs, workerVars, history>>

\* Mutant: the predicate is true one node early.
TestOneEarly(r) ==
    /\ epc[r] = "test"
    /\ epc' = [epc EXCEPT ![r] = IF completed[r] + 1 >= N THEN "collect" ELSE "park"]
    /\ UNCHANGED <<deps, queue, pending, completed, items, timedOut, next, outputs, workerVars, history>>

\* The predicate of cv.wait: completed.load() == N.
TestCompleted(r) ==
    /\ epc[r] = "test"
    /\ epc' = [epc EXCEPT ![r] = IF completed[r] = N THEN "collect" ELSE "park"]
    /\ UNCHANGED <<deps, queue, pending, completed, items, timedOut, next, outputs, workerVars, history>>

\* cv.wait releases the mutex and falls asleep in one step.
Park(r) ==
    /\ epc[r] = "park"
    /\ epc' = [epc EXCEPT ![r] = "asleep"]
    /\ UNCHANGED <<deps, queue, pending, completed, items, timedOut, next, outputs, workerVars, history>>

SpuriousWakeup(r) ==
    /\ epc[r] = "asleep"
    /\ epc' = [epc EXCEPT ![r] = "lock"]
    /\ UNCHANGED <<deps, queue, pending, completed, items, timedOut, next, outputs, workerVars, history>>

\* Hand the outputs with items of the usable nodes to the caller.
Collect(r) ==
    /\ epc[r] = "collect"
    /\ outputs' = [outputs EXCEPT ![r] = items[r] \ Disabled]
    /\ epc' = [epc EXCEPT ![r] = "returned"]
    /\ UNCHANGED <<deps, queue, pending, completed, items, timedOut, next, workerVars, history>>

\* The clock passes the deadline of the session.
SessionExpires(r) ==
    /\ epc[r] \notin {"idle", "returned"}
    /\ ~timedOut[r]
    /\ timedOut' = [timedOut EXCEPT ![r] = TRUE]
    /\ UNCHANGED <<deps, queue, pending, completed, items, epc, next, outputs, workerVars, history>>

Caller(r) ==
    \/ Begin(r)
    \/ SubmitRoot(r)
    \/ SubmitDone(r)
    \/ Lock(r)
    \/ TestCompleted(r)
    \/ Park(r)
    \/ Collect(r)

-----------------------------------------------------------------------------
(* A worker: DagThreadPool::WorkerLoop around ExecuteNode.                 *)

\* Take the oldest task and call ExecuteNode.
TakeTask(w) ==
    /\ wpc[w] = "idle"
    /\ queue # <<>>
    /\ task' = [task EXCEPT ![w] = Head(queue)]
    /\ queue' = Tail(queue)
    /\ runs' = [runs EXCEPT ![Head(queue)[1]][Head(queue)[2]] = @ + 1]
    /\ wpc' = [wpc EXCEPT ![w] = "enter"]
    /\ UNCHANGED <<deps, callVars, todo, ready, claimed, finished>>

\* goto advance: the node has no usable processor or its session timed out.
SkipNode(w) ==
    /\ wpc[w] = "enter"
    /\ task[w][2] \in Disabled \/ timedOut[task[w][1]]
    /\ wpc' = [wpc EXCEPT ![w] = "advance"]
    /\ todo' = [todo EXCEPT ![w] = Downstream(task[w][2])]
    /\ UNCHANGED <<deps, queue, callVars, task, ready, history>>

\* Build the upstream map and call ProcessDag.
StartProcessor(w) ==
    /\ wpc[w] = "enter"
    /\ task[w][2] \notin Disabled
    /\ ~timedOut[task[w][1]]
    /\ wpc' = [wpc EXCEPT ![w] = "process"]
    /\ UNCHANGED <<deps, queue, callVars, task, todo, ready, history>>

\* ProcessDag returns or throws; it has put items in its output or not.
FinishProcessor(w) ==
    LET r == task[w][1]
        n == task[w][2]
    IN  /\ wpc[w] = "process"
        /\ \/ items' = [items EXCEPT ![r] = @ \union {n}]
           \/ UNCHANGED items
        /\ wpc' = [wpc EXCEPT ![w] = "advance"]
        /\ todo' = [todo EXCEPT ![w] = Downstream(n)]
        /\ UNCHANGED <<deps, queue, pending, completed, timedOut, epc, next, outputs, task, ready, history>>

\* Mutant: every fetch_sub submits the node, not only the one that reads 1.
DecrementAndSubmit(w) ==
    LET r == task[w][1] IN
    /\ wpc[w] = "advance"
    /\ \E d \in todo[w] :
         /\ \A e \in todo[w] : d <= e
         /\ todo' = [todo EXCEPT ![w] = @ \ {d}]
         /\ pending' = [pending EXCEPT ![r][d] = @ - 1]
         /\ wpc' = [wpc EXCEPT ![w] = "submit"]
         /\ ready' = [ready EXCEPT ![w] = d]
         /\ claimed' = [claimed EXCEPT ![r] = @ \union {d}]
    /\ UNCHANGED <<deps, queue, completed, items, timedOut, epc, next, outputs, task, runs, finished>>

\* fetch_sub on the next downstream node; the one that reads 1 must submit it.
DecrementDown(w) ==
    LET r == task[w][1] IN
    /\ wpc[w] = "advance"
    /\ \E d \in todo[w] :
         /\ \A e \in todo[w] : d <= e
         /\ todo' = [todo EXCEPT ![w] = @ \ {d}]
         /\ pending' = [pending EXCEPT ![r][d] = @ - 1]
         /\ IF pending[r][d] = 1
              THEN /\ wpc' = [wpc EXCEPT ![w] = "submit"]
                   /\ ready' = [ready EXCEPT ![w] = d]
                   /\ claimed' = [claimed EXCEPT ![r] = @ \union {d}]
              ELSE UNCHANGED <<wpc, ready, claimed>>
    /\ UNCHANGED <<deps, queue, completed, items, timedOut, epc, next, outputs, task, runs, finished>>

\* Submit the downstream node whose counter this worker brought to 0.
SubmitDown(w) ==
    /\ wpc[w] = "submit"
    /\ Submit(task[w][1], ready[w])
    /\ ready' = [ready EXCEPT ![w] = 0]
    /\ wpc' = [wpc EXCEPT ![w] = "advance"]
    /\ UNCHANGED <<deps, callVars, task, todo, history>>

\* completed.fetch_add(1) + 1 == total decides who notifies the caller.
CountCompleted(w) ==
    LET r == task[w][1]
        last == completed[r] + 1 = N
    IN  /\ wpc[w] = "advance"
        /\ todo[w] = {}
        /\ completed' = [completed EXCEPT ![r] = @ + 1]
        /\ finished' = [finished EXCEPT ![r] = @ \union {task[w][2]}]
        /\ wpc' = [wpc EXCEPT ![w] = IF last THEN "notify" ELSE "idle"]
        /\ task' = [task EXCEPT ![w] = IF last THEN @ ELSE NoTask]
        /\ UNCHANGED <<deps, queue, pending, items, timedOut, epc, next, outputs, todo, ready,
                        claimed, runs>>

\* notify_one under the mutex: wakes the caller if it is asleep, else nothing.
Notify(w) ==
    LET r == task[w][1] IN
    /\ wpc[w] = "notify"
    /\ MutexFree(r)
    /\ epc' = [epc EXCEPT ![r] = IF @ = "asleep" THEN "lock" ELSE @]
    /\ wpc' = [wpc EXCEPT ![w] = "idle"]
    /\ task' = [task EXCEPT ![w] = NoTask]
    /\ UNCHANGED <<deps, queue, pending, completed, items, timedOut, next, outputs, todo, ready,
                    history>>

Worker(w) ==
    \/ TakeTask(w)
    \/ SkipNode(w)
    \/ StartProcessor(w)
    \/ FinishProcessor(w)
    \/ DecrementDown(w)
    \/ SubmitDown(w)
    \/ CountCompleted(w)
    \/ Notify(w)

-----------------------------------------------------------------------------
\* Every call has returned and the pool is idle: the only legal end.
AllReturned ==
    /\ \A r \in Requests : epc[r] = "returned"
    /\ \A w \in Workers : wpc[w] = "idle"
    /\ queue = <<>>
    /\ UNCHANGED vars

Next ==
    \/ \E r \in Requests : Caller(r) \/ SpuriousWakeup(r) \/ SessionExpires(r)
    \/ \E w \in Workers : Worker(w)
    \/ AllReturned

Spec == Init /\ [][Next]_vars

\* Threads are scheduled and processors return; wake-ups without a
\* notification, time-outs and further clock steps are never relied on.
Fairness ==
    /\ \A r \in Requests : WF_vars(Caller(r))
    /\ \A w \in Workers : WF_vars(Worker(w))

FairSpec == Spec /\ Fairness

-----------------------------------------------------------------------------
(* Properties.                                                             *)

\* The workers inside ExecuteNode for a node of a request.
Running(r, n) == {w \in Workers : task[w] = <<r, n>> /\ wpc[w] \in {"enter", "process"}}

\* Type correctness.
TypeOK ==
    /\ deps \in Dags
    /\ queue \in Seq(Tasks)
    /\ pending \in [Requests -> [Nodes -> Int]]
    /\ completed \in [Requests -> Nat]
    /\ items \in [Requests -> SUBSET Nodes]
    /\ timedOut \in [Requests -> BOOLEAN]
    /\ epc \in [Requests -> {"idle", "submit", "lock", "test", "park", "asleep",
                              "collect", "returned"}]
    /\ next \in [Requests -> 1..(N + 1)]
    /\ outputs \in [Requests -> SUBSET Nodes]
    /\ wpc \in [Workers -> {"idle", "enter", "process", "advance", "submit", "notify"}]
    /\ task \in [Workers -> Tasks \union {NoTask}]
    /\ \A w \in Workers : wpc[w] = "idle" <=> task[w] = NoTask
    /\ todo \in [Workers -> SUBSET Nodes]
    /\ ready \in [Workers -> 0..N]
    /\ \A w \in Workers : wpc[w] = "submit" => ready[w] \in Nodes
    /\ claimed \in [Requests -> SUBSET Nodes]
    /\ runs \in [Requests -> [Nodes -> Nat]]
    /\ finished \in [Requests -> SUBSET Nodes]

\* A node is executed at most once per request, whoever submits it: the root
\* loop and a worker that brings its counter to 0 never both do.
NodeRunsOnce == \A r \in Requests, n \in Nodes : runs[r][n] <= 1

\* The two design rules of dag_pipeline.h:8-11 on the outputs: while a node
\* executes, all the nodes it depends on have left ProcessDag (it reads their
\* outputs), and nobody else executes it (its own output has one writer).
OutputsRaceFree ==
    \A r \in Requests, n \in Nodes :
        Running(r, n) # {} =>
            /\ Cardinality(Running(r, n)) = 1
            /\ \A m \in deps[n] : runs[r][m] >= 1 /\ Running(r, m) = {}

\* Execute returns only when nothing of the request is left in the pool: all
\* nodes have run, none is queued or executing, so the Session pointer the
\* closures hold is not used after the call and the outputs are final.
ReturnsQuiet ==
    \A r \in Requests : epc[r] = "returned" =>
        /\ \A n \in Nodes : runs[r][n] >= 1 /\ Running(r, n) = {}
        /\ \A k \in DOMAIN queue : queue[k][1] # r
        /\ outputs[r] = items[r] \ Disabled

\* No lost wake-up: a caller asleep although all nodes are counted still has
\* a worker on its way to notify it.
NoLostWakeup ==
    \A r \in Requests : epc[r] = "asleep" /\ completed[r] = N =>
        \E w \in Workers : wpc[w] = "notify" /\ task[w][1] = r

\* Every call of Execute returns.
EveryCallReturns == \A r \in Requests : epc[r] # "idle" ~> epc[r] = "returned"

-----------------------------------------------------------------------------
(* Execute keeps its promise.                                              *)

BusyNodes(r) == {n \in Nodes : Running(r, n) # {}}
DoneNodes(r) == {n \in Nodes : runs[r][n] >= 1} \ BusyNodes(r)

Promise == INSTANCE DagSchedule WITH
    call <- [r \in Requests |-> CASE epc[r] = "idle" -> "idle"
                                  [] epc[r] = "returned" -> "returned"
                                  [] OTHER -> "running"],
    busy <- [r \in Requests |-> BusyNodes(r)],
    done <- [r \in Requests |-> DoneNodes(r)]

\* Every behaviour of Execute is one of DagSchedule: each node once, after the
\* nodes it depends on, and the return after all of them.
ImplementsSchedule == Promise!Spec
=============================================================================
